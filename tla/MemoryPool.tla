------------------------------ MODULE MemoryPool ----------------------------
(***************************************************************************)
(* DS_MemoryPool.h: pages of blocks in two circular lists, one of pages  *)
(* with room and one of full ones.  A block is its page and its number in*)
(* it.  Memory does not run out.                                         *)
(***************************************************************************)
EXTENDS Integers, SequencesExt

CONSTANTS
  Pages,        \* 1..n, addresses for pages (bound)
  MaxFreePages, \* DS_MEMORY_POOL_MAX_FREE_PAGES, 4 in the code
  PageSizes     \* blocks in a page, at least 2

VARIABLES
  pool, \* the pages that were allocated, their links and stacks, the lists, and BlocksPerPage
  call  \* the last call, and the block it returned or was about

NoPage == 0

(* What the constants must be.  A page of one block would keep its empty *)
(* stack in the list of pages with room (lines 144-149).                 *)
ValidConstants ==
  /\ Pages \subseteq Nat \ {NoPage}
  /\ MaxFreePages \in Nat
  /\ PageSizes \subseteq Nat \ {0, 1}

NoBlock == <<NoPage, 0>>
Full(page, n) == [i \in 1..n |-> <<page, i>>]

NewPool(n) ==
  [pages |-> {}, used |-> {}, blocksPerPage |-> n,
   next |-> [p \in Pages |-> NoPage], prev |-> [p \in Pages |-> NoPage],
   availableStack |-> [p \in Pages |-> <<>>],
   availablePages |-> NoPage, availablePagesSize |-> 0,
   unavailablePages |-> NoPage, unavailablePagesSize |-> 0]

PoolInit ==
  /\ pool \in {NewPool(n) : n \in PageSizes}
  /\ call = <<"new", NoBlock>>

Unlinked(q, page) ==
  [q EXCEPT !.prev[q.next[page]] = q.prev[page], !.next[q.prev[page]] = q.next[page]]

Alone(q, page) == [q EXCEPT !.next[page] = page, !.prev[page] = page]

(* At the tail of the list that starts at head.                          *)
Linked(q, page, head) ==
  [q EXCEPT !.next[page] = head, !.prev[page] = q.prev[head],
            !.next[q.prev[head]] = page, !.prev[head] = page]

ToAvailable(q, page) ==
  [IF q.availablePagesSize = 0
   THEN [Alone(q, page) EXCEPT !.availablePages = page]
   ELSE Linked(q, page, q.availablePages) EXCEPT !.availablePagesSize = @ + 1]

ToUnavailable(q, page) ==
  [IF q.unavailablePagesSize = 0
   THEN [Alone(q, page) EXCEPT !.unavailablePages = page]
   ELSE Linked(q, page, q.unavailablePages) EXCEPT !.unavailablePagesSize = @ + 1]

(* The last block on the stack of the first page with room.              *)
Taken(q) ==
  LET page == q.availablePages
      block == Last(q.availableStack[page])
      rest == [q EXCEPT !.availableStack[page] = Front(@), !.used = @ \cup {block}]
      without == [Unlinked(rest, page) EXCEPT !.availablePagesSize = @ - 1,
                    !.availablePages = q.next[page]]
  IN IF rest.availableStack[page] = <<>> THEN ToUnavailable(without, page) ELSE rest

InitPage(q, page) ==
  [Alone(q, page) EXCEPT !.pages = @ \cup {page}, !.availablePages = page,
     !.availablePagesSize = 1, !.availableStack[page] = Full(page, q.blocksPerPage)]

Calls(op, block, q) == call' = <<op, block>> /\ pool' = q

Allocate ==
  \/ /\ pool.availablePagesSize > 0
     /\ Calls("Allocate", Last(pool.availableStack[pool.availablePages]), Taken(pool))
  \/ /\ pool.availablePagesSize = 0
     /\ pool.pages # Pages
     /\ LET page == CHOOSE p \in Pages \ pool.pages : \A r \in Pages \ pool.pages : p <= r
        IN Calls("Allocate", <<page, pool.blocksPerPage>>, Taken(InitPage(pool, page)))

(* The first full page after one of them was given room.                 *)
SameFirst(q, page) == q.unavailablePages
FirstUnavailable(q, page) ==
  IF q.unavailablePagesSize > 1 /\ page = q.unavailablePages
  THEN q.next[page] ELSE q.unavailablePages

Freed(q, page) ==
  [Unlinked(q, page) EXCEPT !.pages = @ \ {page}, !.availablePagesSize = @ - 1,
     !.availablePages = IF @ = page THEN q.next[page] ELSE @,
     !.availableStack[page] = <<>>, !.next[page] = NoPage, !.prev[page] = NoPage]

Release(block) ==
  LET page == block[1]
      given == [pool EXCEPT !.availableStack[page] = Append(@, block), !.used = @ \ {block}]
      moved == [Unlinked(given, page) EXCEPT !.unavailablePagesSize = @ - 1,
                  !.unavailablePages = FirstUnavailable(pool, page)]
  IN Calls("Release", block,
       IF pool.availableStack[page] = <<>> THEN ToAvailable(moved, page)
       ELSE IF /\ Len(given.availableStack[page]) = pool.blocksPerPage
               /\ pool.availablePagesSize >= MaxFreePages
       THEN Freed(given, page)
       ELSE given)

(* The pages of a list, as next leads through them.                      *)
Walk(q, first, size) ==
  LET from[n \in 0..size] == IF n = 0 THEN first ELSE q.next[from[n - 1]]
  IN IF size = 0 THEN <<>> ELSE [i \in 1..size |-> from[i - 1]]
Available(q) == Walk(q, q.availablePages, q.availablePagesSize)
Unavailable(q) == Walk(q, q.unavailablePages, q.unavailablePagesSize)

(* All pages go, whoever has a block of them.                            *)
Clear ==
  LET left == pool.pages \ (ToSet(Available(pool)) \cup ToSet(Unavailable(pool)))
  IN Calls("Clear", NoBlock,
       [pool EXCEPT !.pages = left, !.used = {},
          !.next = [p \in Pages |-> NoPage], !.prev = [p \in Pages |-> NoPage],
          !.availableStack = [p \in Pages |-> <<>>],
          !.availablePagesSize = 0, !.unavailablePagesSize = 0,
          !.availablePages = NoPage, !.unavailablePages = NoPage])

(* Before the first block is asked for.                                  *)
SetPageSize(n) ==
  /\ pool.pages = {}
  /\ Calls("SetPageSize", NoBlock, [pool EXCEPT !.blocksPerPage = n])

PoolNext ==
  \/ Allocate
  \/ \E block \in pool.used : Release(block)
  \/ Clear
  \/ \E n \in PageSizes : SetPageSize(n)

PoolSpec == PoolInit /\ [][PoolNext]_<<pool, call>>

-----------------------------------------------------------------------------
Circular(q, list) ==
  \A i \in DOMAIN list :
    LET after == list[IF i = Len(list) THEN 1 ELSE i + 1]
    IN q.next[list[i]] = after /\ q.prev[after] = list[i]

(* Each page is in one list, once: with room in the one, full in the     *)
(* other.  Each of its blocks is on its stack or in use, so a page with a*)
(* free one is found, and no page goes while a block of it is in use     *)
(* (DS_MemoryPool.h:101-267).                                            *)
EveryBlockIsSomewhere ==
  LET pages == Available(pool) \o Unavailable(pool)
  IN /\ Circular(pool, Available(pool)) /\ Circular(pool, Unavailable(pool))
     /\ IsInjective(pages) /\ ToSet(pages) = pool.pages
     /\ \A p \in pool.pages :
          LET stack == pool.availableStack[p]
          IN /\ IsInjective(stack)
             /\ ToSet(stack) = ToSet(Full(p, pool.blocksPerPage)) \ pool.used
             /\ p \in ToSet(Available(pool)) <=> stack # <<>>
     /\ \A block \in pool.used : block[1] \in pool.pages
=============================================================================
