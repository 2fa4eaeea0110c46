------------------------------ MODULE BPlusTree -----------------------------
(***************************************************************************)
(* DS_BPlusTree.h.  A page is a value that holds its children; the chain *)
(* of leaves that starts at leftmostLeaf is kept by the numbers of the   *)
(* leaves.  The arrays of a page are its live part only, and so an order *)
(* of 2 or 3, where the code looks at keys[0] of an empty page, is left  *)
(* out.  branchIndex and the other indices count from 0, as in the code. *)
(***************************************************************************)
EXTENDS OrderedList, BagsExt

CONSTANTS
  Order,    \* the most keys in a page, at least 4
  Keys,
  Seeds,    \* sequences of calls a tree may have been through: k inserts k, -k deletes it
  MaxCalls  \* calls after those (bound)

VARIABLES
  tree,     \* the root, the chain of leaves and the calls so far
  call      \* the last call and what it returned

NoPage == [isLeaf |-> TRUE, id |-> 0, keys |-> <<>>, data |-> <<>>, children |-> <<>>]
LeafPage(id, keys, data) == [NoPage EXCEPT !.id = id, !.keys = keys, !.data = data]
IndexPage(keys, children) ==
  [NoPage EXCEPT !.isLeaf = FALSE, !.keys = keys, !.children = children]

DataOf(k) == -k
Size(page) == Len(page.keys)
GetIndexOf(key, page) == IndexFromKey(page.keys, key)
BranchBefore(key, page) == GetIndexOf(key, page).index
Branch(key, page) ==
  LET found == GetIndexOf(key, page)
  IN IF found.objectExists THEN found.index + 1 ELSE found.index
Child(page, branchIndex) == page.children[branchIndex + 1]
SetChild(page, branchIndex, child) ==
  [page EXCEPT !.children[branchIndex + 1] = child]
First(s, n) == SubSeq(s, 1, Min({n, Len(s)}))
Rest(s, n) == SubSeq(s, n + 1, Len(s))  \* without the first n

FreshLeaf(chain) == Min((1..Len(chain) + 1) \ ToSet(chain))
LinkAfter(chain, id, new) ==
  InsertAt(chain, SelectInSeq(chain, LAMBDA x : x = id) + 1, new)

-----------------------------------------------------------------------------
(* Insertion.  A step down returns the page, the page split off to its   *)
(* right or NoPage, the key to push to the parent, the pair of keys to   *)
(* replace or <<>>, the chain, and whether the key was new.              *)

Result(page, newPage, pushed, chain) ==
  [page |-> page, newPage |-> newPage, pushed |-> pushed, replace |-> <<>>,
   chain |-> chain, success |-> TRUE]

(* The page with room, after the key and its data or right child went in.*)
PutIntoNode(key, data, at, node, page) ==
  [page EXCEPT
     !.keys = InsertAtIndex(@, key, at),
     !.data = IF page.isLeaf THEN InsertAtIndex(@, data, at) ELSE @,
     !.children = IF page.isLeaf THEN @ ELSE InsertAtIndex(@, node, at + 1)]

InsertIntoNode(key, data, at, node, page, chain) ==
  LET new == FreshLeaf(chain)
      right == at >= (Order + 1) \div 2
      left == IF right THEN Order \div 2 ELSE (Order + 1) \div 2 - 1
      full == IF right THEN PutIntoNode(key, data, at, node, page) ELSE page
      half == [page EXCEPT !.keys = First(@, left), !.data = First(@, left),
                 !.children = First(@, left + 1)]
      kept == IF right THEN half
              ELSE PutIntoNode(key, data, GetIndexOf(key, half).index, node, half)
  IN IF Size(page) < Order
     THEN Result(PutIntoNode(key, data, at, node, page), NoPage, 0, chain)
     ELSE IF page.isLeaf
     THEN Result(kept, LeafPage(new, Rest(full.keys, left), Rest(full.data, left)),
                 0, LinkAfter(chain, page.id, new))
     ELSE Result(kept, IndexPage(Rest(full.keys, left + 1),
                                 Rest(full.children, left + 1)),
                 full.keys[left + 1], chain)

(* A key for a full leaf makes room in the leaf to the left or the right.*)
CanRotateLeft(page, b) == b > 0 /\ Size(Child(page, b - 1)) < Order
CanRotateRight(page, b) == b < Size(page) /\ Size(Child(page, b + 1)) < Order

ToTheEnd(leaf, key, data) ==
  [leaf EXCEPT !.keys = Append(@, key), !.data = Append(@, data)]
ToTheFront(leaf, key, data) ==
  [leaf EXCEPT !.keys = <<key>> \o @, !.data = <<data>> \o @]

RotateLeft(key, data, page, b, chain) ==
  LET source == Child(page, b)
      dest == ToTheEnd(Child(page, b - 1), Head(source.keys), Head(source.data))
      rest == [source EXCEPT !.keys = Tail(@), !.data = Tail(@)]
      changed == IF key > Head(source.keys)
                 THEN PutIntoNode(key, data, GetIndexOf(key, rest).index, NoPage, rest)
                 ELSE ToTheFront(rest, key, data)
      second == IF key > Head(source.keys) THEN Head(rest.keys) ELSE key
  IN [Result([SetChild(SetChild(page, b - 1, dest), b, changed)
                EXCEPT !.keys[b] = Head(changed.keys)], NoPage, 0, chain)
        EXCEPT !.replace = <<Head(source.keys), second>>]

RotateRight(key, data, page, b, chain) ==
  LET source == Child(page, b)
      dest == Child(page, b + 1)
      shorter == [source EXCEPT !.keys = Front(@), !.data = Front(@)]
      moves == key < Last(source.keys)
      changed == IF moves THEN ToTheFront(dest, Last(source.keys), Last(source.data))
                 ELSE ToTheFront(dest, key, data)
      kept == IF moves
              THEN PutIntoNode(key, data, GetIndexOf(key, shorter).index, NoPage, shorter)
              ELSE source
  IN [Result([SetChild(SetChild(page, b, kept), b + 1, changed)
                EXCEPT !.keys[b + 1] = Head(changed.keys)], NoPage, 0, chain)
        EXCEPT !.replace = <<Head(dest.keys), Head(changed.keys)>>]

AlreadyExists(page, chain) ==
  [Result(page, NoPage, 0, chain) EXCEPT !.success = FALSE]

RECURSIVE InsertBranchDown(_, _, _, _)

(* Into a branch that is not a full leaf between fuller ones; above it a *)
(* key that was the first of a rotated leaf is replaced.                 *)
Descend(key, data, page, chain) ==
  LET b == Branch(key, page)
      below == InsertBranchDown(key, data, Child(page, b), chain)
      replaces == below.replace # <<>> /\ b > 0 /\ page.keys[b] = below.replace[1]
      same == SetChild(page, b, below.page)
      cur == IF replaces THEN [same EXCEPT !.keys[b] = below.replace[2]] ELSE same
      new == below.newPage
      up == InsertIntoNode(IF new.isLeaf THEN Head(new.keys) ELSE below.pushed,
                           data, b, new, cur, below.chain)
  IN IF new = NoPage THEN [below EXCEPT !.page = cur]
     ELSE up

InsertBranchDown(key, data, page, chain) ==
  LET exists == GetIndexOf(key, page).objectExists
      b == Branch(key, page)
      child == Child(page, b)
  IN IF page.isLeaf
     THEN IF exists THEN AlreadyExists(page, chain)
          ELSE InsertIntoNode(key, data, b, NoPage, page, chain)
     ELSE IF ~(child.isLeaf /\ Size(child) = Order) THEN Descend(key, data, page, chain)
     ELSE IF exists THEN AlreadyExists(page, chain)
     ELSE IF CanRotateLeft(page, b) THEN RotateLeft(key, data, page, b, chain)
     ELSE IF CanRotateRight(page, b) THEN RotateRight(key, data, page, b, chain)
     ELSE Descend(key, data, page, chain)

Empty == [root |-> NoPage, chain |-> <<>>]

(* After the step down: a page split off the root goes under a new root.*)
Rooted(down) ==
  LET new == down.newPage
  IN [success |-> down.success,
      tree |-> [root |-> IF new = NoPage THEN down.page
                         ELSE IndexPage(<<IF new.isLeaf THEN Head(new.keys)
                                          ELSE down.pushed>>, <<down.page, new>>),
                chain |-> down.chain]]

TreeWith(t, key) ==
  IF t.root = NoPage
  THEN [success |-> TRUE,
        tree |-> [root |-> LeafPage(1, <<key>>, <<DataOf(key)>>), chain |-> <<1>>]]
  ELSE Rooted(InsertBranchDown(key, DataOf(key), t.root, t.chain))

-----------------------------------------------------------------------------
(* Deletion.  A step down returns the page, whether the key was there and*)
(* its data, whether the page underflows, the key that an ancestor's is to *)
(* be set to (0 is none), and the chain.  FixUnderflow works on such a   *)
(* result, r, for the child at b; right is rightRootKey.                 *)

Half == Order \div 2

BorrowFromLeft(r, b) ==
  LET source == Child(r.page, b - 1)
      dest == Child(r.page, b)
      shorter == [source EXCEPT !.keys = Front(@),
                    !.data = IF dest.isLeaf THEN Front(@) ELSE @,
                    !.children = IF dest.isLeaf THEN @ ELSE Front(@)]
      longer == IF dest.isLeaf THEN ToTheFront(dest, Last(source.keys), Last(source.data))
                ELSE [dest EXCEPT !.keys = <<r.page.keys[b]>> \o @,
                                  !.children = <<Last(source.children)>> \o @]
  IN [r EXCEPT !.underflow = FALSE,
        !.page = [SetChild(SetChild(r.page, b - 1, shorter), b, longer)
                    EXCEPT !.keys[b] = Last(source.keys)]]

BorrowFromRight(r, b, right) ==
  LET source == Child(r.page, b + 1)
      dest == Child(r.page, b)
      shorter == [source EXCEPT !.keys = Tail(@),
                    !.data = IF dest.isLeaf THEN Tail(@) ELSE @,
                    !.children = IF dest.isLeaf THEN @ ELSE Tail(@)]
      longer == IF dest.isLeaf THEN ToTheEnd(dest, Head(source.keys), Head(source.data))
                ELSE [dest EXCEPT !.keys = Append(@, right),
                                  !.children = Append(@, Head(source.children))]
  IN [r EXCEPT !.underflow = FALSE,
        !.setKey = IF ~dest.isLeaf /\ @ = 0 THEN Head(dest.keys) ELSE @,
        !.page = [SetChild(SetChild(r.page, b, longer), b + 1, shorter)
                    EXCEPT !.keys[b + 1] = IF dest.isLeaf THEN source.keys[2]
                                           ELSE Head(source.keys)]]

(* The child at b and its right neighbour, or its left one when it is the*)
(* last, become one page.                                                *)
Merge(r, b, right) ==
  LET at == IF b < Size(r.page) THEN b ELSE b - 1
      dest == Child(r.page, at)
      source == Child(r.page, at + 1)
      joined == [dest EXCEPT
                   !.keys = IF dest.isLeaf THEN @ \o source.keys
                            ELSE Append(@, right) \o source.keys,
                   !.data = @ \o source.data,
                   !.children = @ \o source.children]
      page == [SetChild(r.page, at, joined)
                 EXCEPT !.keys = RemoveIndex(@, at),
                        !.children = RemoveIndex(@, at + 1)]
  IN [r EXCEPT !.page = page,
        !.setKey = IF b = 0 /\ dest.isLeaf THEN Head(joined.keys) ELSE @,
        !.chain = IF dest.isLeaf THEN SelectSeq(@, LAMBDA id : id # source.id) ELSE @,
        !.underflow = Size(page) < Half]

FixUnderflow(r, b, right) ==
  IF b > 0 /\ Size(Child(r.page, b - 1)) > Half THEN BorrowFromLeft(r, b)
  ELSE IF b < Size(r.page) /\ Size(Child(r.page, b + 1)) > Half
    THEN BorrowFromRight(r, b, right)
  ELSE Merge(r, b, right)

RightRootKey(page, b) == IF b < Size(page) THEN page.keys[b + 1] ELSE page.keys[b]

RECURSIVE FindDeleteRebalance(_, _, _, _)

(* From the leaf at b, which also names its first key to its parent.     *)
DeleteFromLeaf(key, page, b, chain) ==
  LET found == GetIndexOf(key, Child(page, b))
      leaf == [Child(page, b) EXCEPT !.keys = RemoveIndex(@, found.index),
                                     !.data = RemoveIndex(@, found.index)]
      cur == SetChild(page, b, leaf)
      first == Head(leaf.keys)
      named == found.index = 0
  IN [found |-> found.objectExists,
      out |-> At(Child(page, b).data, found.index),
      page |-> IF named /\ b > 0 THEN [cur EXCEPT !.keys[b] = first] ELSE cur,
      setKey |-> IF named /\ b = 0 THEN first ELSE 0,
      underflow |-> Size(leaf) < Half, chain |-> chain]

DeleteBelow(key, page, b, chain) ==
  LET exists == GetIndexOf(key, page).objectExists
      below == FindDeleteRebalance(key, Child(page, b), RightRootKey(page, b), chain)
      cur == SetChild(page, b, below.page)
  IN IF below.found /\ below.setKey # 0 /\ exists
     THEN [below EXCEPT !.page = [cur EXCEPT !.keys[b] = below.setKey], !.setKey = 0]
     ELSE [below EXCEPT !.page = cur]

NotFound(page, chain) ==
  [found |-> FALSE, out |-> 0, page |-> page, setKey |-> 0, underflow |-> FALSE,
   chain |-> chain]

(* right is replaced by a key of this page when the child is no leaf.    *)
FindDeleteRebalance(key, page, right, chain) ==
  LET b == Branch(key, page)
      leaf == Child(page, b).isLeaf
      r == IF leaf THEN DeleteFromLeaf(key, page, b, chain)
           ELSE DeleteBelow(key, page, b, chain)
  IN IF leaf /\ ~GetIndexOf(key, Child(page, b)).objectExists
     THEN NotFound(page, chain)
     ELSE IF ~r.found THEN NotFound(page, chain)
     ELSE IF r.underflow
     THEN FixUnderflow(r, b, IF leaf THEN right ELSE RightRootKey(r.page, b))
     ELSE r

DeletedFromRoot(t, key) ==
  LET found == GetIndexOf(key, t.root)
      leaf == [t.root EXCEPT !.keys = RemoveIndex(@, found.index),
                             !.data = RemoveIndex(@, found.index)]
  IN IF ~found.objectExists THEN [success |-> FALSE, tree |-> t]
     ELSE [success |-> TRUE, out |-> At(t.root.data, found.index),
           tree |-> IF Size(leaf) = 0 THEN Empty ELSE [t EXCEPT !.root = leaf]]

(* After the step down: a root without keys moves down.                 *)
RootMovedDown(r) ==
  [success |-> r.found, out |-> r.out,
   tree |-> [root |-> IF r.underflow /\ Size(r.page) = 0
                      THEN Child(r.page, 0) ELSE r.page,
             chain |-> r.chain]]

TreeWithout(t, key) ==
  IF t.root = NoPage THEN [success |-> FALSE, tree |-> t]
  ELSE IF t.root.isLeaf THEN DeletedFromRoot(t, key)
  ELSE RootMovedDown(FindDeleteRebalance(key, t.root, Head(t.root.keys), t.chain))

-----------------------------------------------------------------------------
(* Look-ups.                                                             *)

RECURSIVE GetLeafFromKey(_, _)
GetLeafFromKey(key, page) ==
  IF page.isLeaf THEN page ELSE GetLeafFromKey(key, Child(page, Branch(key, page)))

RECURSIVE Leaves(_)
Leaves(page) ==
  IF page.isLeaf THEN <<page>> ELSE FlattenSeq([i \in DOMAIN page.children |->
                                                 Leaves(page.children[i])])

(* The leaves as ForEachLeaf meets them, along the chain.                *)
Chained(t) ==
  LET leaves == ToSet(Leaves(t.root))
  IN [i \in DOMAIN t.chain |-> CHOOSE leaf \in leaves : leaf.id = t.chain[i]]

AllKeys(t) ==
  LET leaves == Chained(t) IN FlattenSeq([i \in DOMAIN leaves |-> leaves[i].keys])

-----------------------------------------------------------------------------
Grown(calls) ==
  FoldLeft(LAMBDA t, c : IF c > 0 THEN TreeWith(t, c).tree ELSE TreeWithout(t, -c).tree,
           Empty, calls)

TreeInit ==
  /\ \E calls \in Seeds : tree = [pages |-> Grown(calls), calls |-> 0]
  /\ call = <<"new", 0, 0, 0>>

Calls(op, key, data, answer, pages) ==
  /\ tree.calls < MaxCalls
  /\ tree' = [pages |-> pages, calls |-> tree.calls + 1]
  /\ call' = <<op, key, data, answer>>

Exists(key, leaf) == leaf.keys # <<>> /\ GetIndexOf(key, leaf).objectExists
LeafOf(key) == GetLeafFromKey(key, tree.pages.root)

Insert(key) ==
  \E r \in {TreeWith(tree.pages, key)} :
    Calls("Insert", key, DataOf(key), r.success, r.tree)

(* What was deleted is returned with the answer.                         *)
Delete(key) ==
  \E r \in {TreeWithout(tree.pages, key)} :
    \/ r.success /\ Calls("Pop", key, 0, r.out, r.tree)
    \/ ~r.success /\ Calls("Delete", key, 0, FALSE, r.tree)

Get(key) ==
  LET leaf == LeafOf(key)
  IN \/ /\ Exists(key, leaf)
        /\ Calls("Get", key, 0, At(leaf.data, GetIndexOf(key, leaf).index), tree.pages)
     \/ /\ ~Exists(key, leaf)
        /\ Calls("Has", key, 0, FALSE, tree.pages)

Clear == Calls("Clear", 0, 0, 0, Empty)

TreeNext ==
  \/ \E key \in Keys : Insert(key) \/ Delete(key) \/ Get(key)
  \/ Clear

-----------------------------------------------------------------------------
BagOf(s) == [x \in ToSet(s) |-> Cardinality({i \in DOMAIN s : s[i] = x})]

RECURSIVE Pairs(_)
Pairs(page) ==
  IF page.isLeaf THEN {<<page.keys[i], page.data[i]>> : i \in DOMAIN page.keys}
  ELSE UNION {Pairs(child) : child \in ToSet(page.children)}

Contents(pairs) ==
  [k \in {p[1] : p \in pairs} |-> (CHOOSE p \in pairs : p[1] = k)[2]]

Promise == INSTANCE Dictionary WITH
  Data <- {DataOf(k) : k \in Keys}, dict <- Contents(Pairs(tree.pages.root))

(* What ValidateTreeRecursive asserts of a page below the root: half full*)
(* and, over leaves, keyed by the first key of each child but the first. *)
(* Over other pages a key parts the keys to its left from those on.      *)
RECURSIVE ValidPage(_)
ValidPage(page) ==
  \A i \in DOMAIN page.children :
    LET child == page.children[i]
    IN /\ Size(child) >= Half /\ ValidPage(child)
       /\ child.isLeaf /\ i > 1 => page.keys[i - 1] = Head(child.keys)
       /\ \A p \in Pairs(child) :
            (i > 1 => p[1] >= page.keys[i - 1]) /\ (i <= Size(page) => p[1] < page.keys[i])

(* The chain meets every leaf once, in the order of the keys.            *)
WellFormed(pages) ==
  LET leaves == Leaves(pages.root)
      keys == AllKeys(pages)
  IN pages # Empty =>
       /\ pages.chain = [i \in DOMAIN leaves |-> leaves[i].id]
       /\ \A i \in 1..Len(keys) - 1 : keys[i] < keys[i + 1]
       /\ ValidPage(pages.root)

(* A key that its leaf, a full one, holds already is refused when the page *)
(* above names it, or no leaf beside has room; else the leaves hold it   *)
(* twice (732-789).                                                      *)
InsertsAgain ==
  /\ call'[1] = "Insert"
  /\ \E leaf \in {LeafOf(call'[2])} : Size(leaf) = Order /\ Exists(call'[2], leaf)

RefusedOrTwice(before, after) ==
  \/ ~call'[4] /\ after = before
  \/ call'[4] /\ BagOf(AllKeys(after)) = BagAdd(BagOf(AllKeys(before)), call'[2])

DictionaryStep ==
  \E after \in {tree'.pages} :
    IF InsertsAgain THEN RefusedOrTwice(tree.pages, after)
    ELSE Promise!DictionaryStep /\ WellFormed(after)
=============================================================================
