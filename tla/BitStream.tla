------------------------------ MODULE BitStream -----------------------------
(***************************************************************************)
(* The templates of BitStream.h that write values as bits and read them  *)
(* back, on hosts of either byte order.  WriteBits and ReadBits are only *)
(* declared there.  A byte has ByteBits bits; a real number is a fraction*)
(* of Unit.  Strings, 16 bit floats, and what a vector or a quaternion   *)
(* loses by its square roots are left out.                               *)
(***************************************************************************)
EXTENDS Integers, SequencesExt

CONSTANTS
  ByteBits,     \* 8 in the code (bound)
  Unit,         \* 1.0 (bound)
  Threshold,    \* 0.00001f, the shortest vector with a direction
  Items,        \* what can be written (bound)
  MaxItems      \* in one stream (bound)

VARIABLES
  stream,  \* the bits, the read offset, the hosts, the items to be read, and from
           \* where and to where each was written
  call     \* the last call, its item and what it returned

Bits(v, n) == [i \in 1..n |-> (v \div 2^(n - i)) % 2]
Number(bits) == FoldLeft(LAMBDA n, bit : 2 * n + bit, 0, bits)

(* A number of k bytes in memory, and back.                              *)
Memory(v, k, bigEndian) ==
  LET bytes == [i \in 1..k |-> (v \div 2^(ByteBits * (i - 1))) % 2^ByteBits]
  IN IF bigEndian THEN Reverse(bytes) ELSE bytes
FromMemory(bytes, bigEndian) ==
  FoldLeft(LAMBDA n, byte : n * 2^ByteBits + byte, 0,
           IF bigEndian THEN bytes ELSE Reverse(bytes))

(* DoEndianSwap: all types go over the wire with the high byte first.    *)
NetworkOrder(bytes, bigEndian) == IF bigEndian THEN bytes ELSE Reverse(bytes)

(* WriteBits and ReadBits, right aligned: of a byte that is not complete *)
(* the low bits go.                                                      *)
WriteBits(bits, bytes, n) ==
  LET whole == n \div ByteBits  rest == n % ByteBits
  IN bits \o FlattenSeq([i \in 1..whole |-> Bits(bytes[i], ByteBits)])
          \o (IF rest = 0 THEN <<>> ELSE Bits(bytes[whole + 1] % 2^rest, rest))

Failed == [ok |-> FALSE, value |-> -1, at |-> -1]
Got(value, at) == [ok |-> TRUE, value |-> value, at |-> at]

ReadBits(bits, at, n, k) ==
  LET Byte(i) == Number(SubSeq(bits, at + (i - 1) * ByteBits + 1,
                               IF i * ByteBits < n THEN at + i * ByteBits ELSE at + n))
  IN IF at + n > Len(bits) THEN Failed ELSE Got([i \in 1..k |-> Byte(i)], at + n)

-----------------------------------------------------------------------------
(* A write returns the bits after it, a read what it got and the offset. *)
WriteBool(bits, b) == Append(bits, IF b THEN 1 ELSE 0)
ReadBool(bits, at) ==
  IF at + 1 > Len(bits) THEN Failed ELSE Got(bits[at + 1] = 1, at + 1)

Write(bits, v, k, host) ==
  WriteBits(bits, NetworkOrder(Memory(v, k, host), host), k * ByteBits)
Read(bits, at, k, host) ==
  LET r == ReadBits(bits, at, k * ByteBits, k)
  IN IF r.ok THEN Got(FromMemory(NetworkOrder(r.value, host), host), r.at) ELSE r

WriteDelta(bits, v, lastValue, host) ==
  IF v = lastValue THEN WriteBool(bits, FALSE) ELSE Write(WriteBool(bits, TRUE), v, 2, host)
ReadDelta(bits, at, old, host) ==
  LET written == ReadBool(bits, at)
  IN IF written.ok /\ written.value THEN Read(bits, written.at, 2, host)
     ELSE [written EXCEPT !.value = old]

WriteCasted(bits, v, host) == Write(bits, v % 2^ByteBits, 1, host)
ReadCasted(bits, at, host) == Read(bits, at, 1, host)

(* Byte 0 is the low one on either host; the alignment is to the stream. *)
Aligned(n) == n + ByteBits - (((n - 1) % ByteBits) + 1)
Padded(bits) == bits \o [i \in 1..(Aligned(Len(bits)) - Len(bits)) |-> 0]
Low3(v, host) == SubSeq(IF host THEN Reverse(Memory(v, 4, host)) ELSE Memory(v, 4, host), 1, 3)
WriteUint24(bits, v, host) == WriteBits(Padded(bits), Low3(v, host), 3 * ByteBits)
ReadUint24(bits, at, host) ==
  LET r == ReadBits(bits, Aligned(at), 3 * ByteBits, 3)
      low == Append(r.value, 0)
  IN IF r.ok THEN Got(FromMemory(IF host THEN Reverse(low) ELSE low, host), r.at) ELSE r

(* A signed type of two bytes: its values wrap, and requiredBits are those *)
(* of maximum - minimum.                                                 *)
TwoBytes == 2^(2 * ByteBits)
Signed(v) == IF v >= TwoBytes \div 2 THEN v - TwoBytes ELSE v
BitsFor(x) == CHOOSE n \in 0..2 * ByteBits : x < 2^n /\ (n = 0 \/ x >= 2^(n - 1))
BitsBelow(minimum, maximum) == BitsFor((maximum - minimum - 1) % TwoBytes)
RequiredBits(minimum, maximum) == BitsFor((maximum - minimum) % TwoBytes)

LittleEndian(bytes, host) == IF host THEN Reverse(bytes) ELSE bytes
WriteBitsFromIntegerRange(bits, v, minimum, maximum, allowOutsideRange, host) ==
  LET from == IF allowOutsideRange THEN WriteBool(bits, FALSE) ELSE bits
      offMin == Memory((v - minimum) % TwoBytes, 2, host)
  IN IF allowOutsideRange /\ (v < minimum \/ v > maximum)
     THEN Write(WriteBool(bits, TRUE), v % TwoBytes, 2, host)
     ELSE WriteBits(from, LittleEndian(offMin, host), RequiredBits(minimum, maximum))
ReadBitsFromIntegerRange(bits, at, minimum, maximum, allowOutsideRange, host) ==
  LET outside == ReadBool(bits, at)
      whole == Read(bits, at + 1, 2, host)
      r == ReadBits(bits, IF allowOutsideRange THEN at + 1 ELSE at,
                    RequiredBits(minimum, maximum), 2)
      offMin == FromMemory(LittleEndian(r.value, host), host)
  IN IF allowOutsideRange /\ outside.ok /\ outside.value
     THEN IF whole.ok THEN Got(Signed(whole.value), whole.at) ELSE whole
     ELSE IF r.ok THEN Got(Signed((offMin + minimum) % TwoBytes), r.at) ELSE r

(* Reals between -1 and 1, as an unsigned short or uint32_t.  The cast of a *)
(* double 1.0 overflows, and leaves no value one can rely on; 0 is taken.*)
WriteCompressedFloat(bits, x, host) ==
  Write(bits, ((x + Unit) * (TwoBytes - 1)) \div (2 * Unit), 2, host)
ReadCompressedFloat(bits, at, host) == Read(bits, at, 2, host)

WriteCompressedDouble(bits, x, host) ==
  Write(bits, (((x + Unit) * 2^(4 * ByteBits - 1)) \div Unit) % 2^(4 * ByteBits), 4, host)
ReadCompressedDouble(bits, at, host) == Read(bits, at, 4, host)

(* A vector of equal components: its magnitude, in halves of what a float*)
(* tells apart, and three times its direction, unless it is too short.   *)
WriteVector(bits, magnitude, host) ==
  LET float == Write(bits, magnitude \div 2, 2, host)
  IN IF magnitude > Threshold
     THEN FoldLeft(LAMBDA b, x : WriteCompressedFloat(b, x, host), float, <<Unit, Unit, Unit>>)
     ELSE float
ReadVector(bits, at, host) ==
  LET magnitude == Read(bits, at, 2, host)
      last == ReadCompressedFloat(bits, magnitude.at + 4 * ByteBits, host)
  IN IF ~magnitude.ok THEN Failed
     ELSE IF 2 * magnitude.value <= Threshold THEN magnitude
     ELSE IF last.ok THEN Got(magnitude.value, last.at) ELSE last

(* The signs of w, x, y and z, then the sizes of x, y and z.             *)
Size(x) == IF x < 0 THEN -x ELSE x
WriteNormQuat(bits, q, host) ==
  LET signs == FoldLeft(LAMBDA b, x : WriteBool(b, x < 0), bits, q)
      short(x) == (Size(x) * (TwoBytes - 1)) \div Unit
  IN FoldLeft(LAMBDA b, x : Write(b, short(x), 2, host), signs, Tail(q))
ReadNormQuat(bits, at, host) ==
  LET short(i) == Read(bits, at + 4 + 2 * ByteBits * (i - 1), 2, host)
  IN IF short(3).ok
     THEN Got([i \in 1..4 |-> <<bits[at + i] = 1, IF i = 1 THEN 0 ELSE short(i - 1).value>>],
              short(3).at)
     ELSE Failed

(* The version, the address with its bits turned over, and the port, both*)
(* as they are in memory.  Only the last of the three reads is checked, and *)
(* one that fails leaves the offset where it was.                        *)
TurnedOver(address) == 2^(4 * ByteBits) - 1 - address
WriteSystemAddress(bits, address, port) ==
  bits \o Bits(4 % 2^ByteBits, ByteBits) \o Bits(TurnedOver(address), 4 * ByteBits)
       \o Bits(port, 2 * ByteBits)
ReadSystemAddress(bits, at) ==
  LET After(r, old) == IF r.ok THEN r.at ELSE old
      version == ReadBits(bits, at, ByteBits, 1)
      address == ReadBits(bits, After(version, at), 4 * ByteBits, 4)
      port == ReadBits(bits, After(address, After(version, at)), 2 * ByteBits, 2)
  IN IF port.ok
     THEN Got(<<IF address.ok THEN TurnedOver(FromMemory(address.value, TRUE)) ELSE -1,
                FromMemory(port.value, TRUE)>>, port.at)
     ELSE Failed

-----------------------------------------------------------------------------
Written(bits, item, host) ==
  LET kind == item[1] v == item[2]
  IN CASE kind = "bool" -> WriteBool(bits, v)
       [] kind = "int" -> Write(bits, v, item[3], host)
       [] kind = "delta" -> WriteDelta(bits, v, item[3], host)
       [] kind = "casted" -> WriteCasted(bits, v, host)
       [] kind = "uint24" -> WriteUint24(bits, v, host)
       [] kind = "range" -> WriteBitsFromIntegerRange(bits, v, item[3], item[4], item[5], host)
       [] kind = "float" -> WriteCompressedFloat(bits, v, host)
       [] kind = "double" -> WriteCompressedDouble(bits, v, host)
       [] kind = "vector" -> WriteVector(bits, v, host)
       [] kind = "quat" -> WriteNormQuat(bits, v, host)
       [] kind = "address" -> WriteSystemAddress(bits, v[1], v[2])

ReadBack(bits, at, item, host) ==
  LET kind == item[1]
  IN CASE kind = "bool" -> ReadBool(bits, at)
       [] kind = "int" -> Read(bits, at, item[3], host)
       [] kind = "delta" -> ReadDelta(bits, at, item[3], host)
       [] kind = "casted" -> ReadCasted(bits, at, host)
       [] kind = "uint24" -> ReadUint24(bits, at, host)
       [] kind = "range" -> ReadBitsFromIntegerRange(bits, at, item[3], item[4], item[5], host)
       [] kind = "float" -> ReadCompressedFloat(bits, at, host)
       [] kind = "double" -> ReadCompressedDouble(bits, at, host)
       [] kind = "vector" -> ReadVector(bits, at, host)
       [] kind = "quat" -> ReadNormQuat(bits, at, host)
       [] kind = "address" -> ReadSystemAddress(bits, at)

(* Serialize writes for one side and reads, in the same order, for another. *)
StreamInit ==
  /\ \E writer, reader \in BOOLEAN :
       stream = [bits |-> <<>>, readOffset |-> 0, writer |-> writer, reader |-> reader,
                 items |-> <<>>, spans |-> <<>>]
  /\ call = <<"new">>

SerializeTo(item) ==
  /\ call[1] \in {"new", "write"} /\ Len(stream.items) < MaxItems
  /\ LET bits == Written(stream.bits, item, stream.writer)
     IN stream' = [stream EXCEPT !.bits = bits, !.items = Append(@, item),
                                 !.spans = Append(@, <<Len(stream.bits), Len(bits)>>)]
  /\ call' = <<"write", item>>

(* The message was short.                                                *)
Cut(n) ==
  /\ call[1] = "write" /\ n < Len(stream.bits)
  /\ stream' = [stream EXCEPT !.bits = SubSeq(@, 1, n)]
  /\ call' = <<"cut", n>>

SerializeFrom ==
  /\ call[1] \in {"write", "cut"} \/ (call[1] = "read" /\ call[3])
  /\ stream.items # <<>>
  /\ LET item == Head(stream.items)
         r == ReadBack(stream.bits, stream.readOffset, item, stream.reader)
     IN /\ stream' = [stream EXCEPT !.readOffset = IF r.ok THEN r.at ELSE @,
                                    !.items = Tail(@), !.spans = Tail(@)]
        /\ call' = <<"read", item, r.ok, r.value>>

StreamNext ==
  \/ \E item \in Items : SerializeTo(item)
  \/ \E n \in 0..Len(stream.bits) : Cut(n)
  \/ SerializeFrom

-----------------------------------------------------------------------------
(* A fraction of a scale is nearest to a fraction of Unit from below.    *)
Near(x, value, scale) ==
  LET error == x * scale - value * Unit IN error \in 0..(Unit - 1)

(* What a value read stands for is what was written.                     *)
Means(item, value) ==
  LET kind == item[1] v == item[2]
  IN CASE kind = "casted" -> value = v % 2^ByteBits
       [] kind = "float" -> Near(v + Unit, 2 * value, TwoBytes - 1) \/
                            Near(v + Unit, 2 * value + 1, TwoBytes - 1)
       [] kind = "double" -> Near(v + Unit, value, 2^(4 * ByteBits - 1))
       [] kind = "vector" -> value = v \div 2
       [] kind = "quat" ->
            \A i \in 1..4 : /\ value[i][1] = (v[i] < 0)
                            /\ i > 1 => Near(Size(v[i]), value[i][2], TwoBytes - 1)
       [] OTHER -> value = v

(* A vector that is longer than the threshold but, as a float, is not any *)
(* more is written with a direction and read without one (1803, 1926).   *)
AtThreshold(item) == item[1] = "vector" /\ item[2] > Threshold /\ 2 * (item[2] \div 2) <= Threshold

(* A double of 1.0 (1349).                                               *)
Overflows(item) == item[1] = "double" /\ item[2] = Unit

(* An item that is read from where it was written is what was written,   *)
(* and the next one is read from where that was; when it is not all there*)
(* the read fails, but for an address, whose last read decides (1493-1520). *)
ReadsWhatWasWritten ==
  [call'[1] = "read" =>
     LET item == call'[2] ok == call'[3]
         from == Head(stream.spans)[1] to == Head(stream.spans)[2]
     IN stream.readOffset = from =>
          IF to > Len(stream.bits) THEN ~ok \/ item[1] = "address" \/ AtThreshold(item)
          ELSE /\ ok
               /\ Means(item, call'[4]) \/ Overflows(item)
               /\ stream'.readOffset = to \/ AtThreshold(item)
  ]_<<stream, call>>
=============================================================================
