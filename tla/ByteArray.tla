------------------------------ MODULE ByteArray ------------------------------
(***************************************************************************)
(* bytearray.{h,cpp}: a chain of equal blocks with one position, and the   *)
(* codecs on top of it.  SocketStream's transfers between a ByteArray and  *)
(* a socket (socket_stream.cpp) are here too, because they are made of     *)
(* getWriteBuffers, getReadBuffers and setPosition.                        *)
(*                                                                         *)
(* The blocks follow one another, so a byte has an address: its block's    *)
(* number times the block size plus its offset.  Every copying loop of the *)
(* code runs over consecutive addresses from where m_cur and m_position    *)
(* point; it dereferences a null pointer when the chain ends before the    *)
(* copy does, and crashed says that this has happened.                     *)
(*                                                                         *)
(* Types keep their number of bytes; a byte has ByteBits bits instead of 8 *)
(* and a varint carries ByteBits - 1 of them per byte instead of 7.        *)
(***************************************************************************)
EXTENDS Integers, Sequences, SequencesExt, FiniteSetsExt

CONSTANTS
  BaseSizes,  \* block sizes an array is constructed with
  ByteBits,   \* bits of a byte
  MaxBytes,   \* bound: bytes an array with untyped contents holds
  MaxItems,   \* bound: typed values written one after the other
  Junk        \* the contents of a byte nobody wrote

\* 2 ^ n, as a recursive function: what it is can be proved by induction.
Pow2[n \in Nat] == IF n = 0 THEN 1 ELSE 2 * Pow2[n - 1]

ASSUME ByteArrayAssumption ==
  /\ BaseSizes \subseteq Nat \ {0}
  /\ ByteBits \in Nat \ {0, 1} /\ MaxBytes \in Nat /\ MaxItems \in Nat
  /\ Junk \notin 0 .. Pow2[ByteBits] - 1

VARIABLES
  m_baseSize, m_position, m_size, m_capacity, m_endian,
  nodes,      \* the number of blocks from m_root on
  m_cur,      \* the number of the block m_cur points to, or Null
  mem,        \* the contents of the blocks, by address
  io,         \* the bytes of the last transfer (history)
  items,      \* typed values written so far, as in the tests (history)
  got,        \* typed values read back (history)
  crashed     \* a null pointer was dereferenced

chain == <<m_capacity, nodes, m_cur>>
history == <<items, got>>
vars == <<m_baseSize, m_position, m_size, m_endian, chain, mem, io, history, crashed>>

Null == -1
Byte == 0 .. Pow2[ByteBits] - 1
Orders == {"big", "little"}

\* The constructor; setIsLittleEndian before the first use.
Init ==
  /\ m_baseSize \in BaseSizes
  /\ m_endian \in Orders
  /\ m_position = 0 /\ m_size = 0
  /\ m_capacity = m_baseSize
  /\ nodes = 1 /\ m_cur = 0
  /\ mem = [a \in 0 .. m_baseSize - 1 |-> Junk]
  /\ io = [op |-> "none", bytes |-> <<>>]
  /\ items = <<>> /\ got = <<>>
  /\ crashed = FALSE

getReadSize == m_size - m_position
getCapacity == m_capacity - m_position

\* The address a copy starts from, given where m_cur points.
Address(cur) == (cur * m_baseSize) + (m_position % m_baseSize)

-----------------------------------------------------------------------------
(***************************************************************************)
(* addCapacity.                                                            *)
(***************************************************************************)
\* How many blocks addCapacity(size) appends when there is so much room.
CountFor(room, size) ==
  IF room > size THEN 0
  ELSE LET more == size - room IN
       (more \div m_baseSize) + (IF more % m_baseSize > room THEN 1 ELSE 0)
Count(size) == CountFor(getCapacity, size)
\* How many it appends in two calls, the second after a copy of the first size.
CountBoth(first, second) ==
  LET n == Count(first) IN
  n + CountFor(getCapacity + n * m_baseSize - first, second)

\* m_cur after addCapacity has appended so many blocks: when the chain was full
\* it is null, and is set to the first new block.
CurGrown(more) == IF getCapacity = 0 /\ more > 0 THEN nodes ELSE m_cur

\* So many blocks more, followed by a copy of bs to where the position is.
Grow(more, bs) ==
  LET n == nodes + more
      a == Address(CurGrown(more))
  IN /\ nodes' = n
     /\ m_capacity' = m_capacity + more * m_baseSize
     /\ mem' = [i \in 0 .. n * m_baseSize - 1 |->
                  IF a <= i /\ i < a + Len(bs) THEN bs[i - a + 1]
                  ELSE IF i \in DOMAIN mem THEN mem[i] ELSE Junk]

\* Whether the chain ends before size more bytes.
EndsBefore(cur, n, size) == cur = Null \/ Address(cur) + size > n * m_baseSize
RunsOff(more, size) == EndsBefore(CurGrown(more), nodes + more, size)

\* m_cur after a copy of size bytes in a chain of n blocks: a block that was
\* used up is left.
CurStays(cur, n, size) == IF size = 0 THEN cur ELSE (Address(cur) + size - 1) \div m_baseSize
CurAfterCopy(cur, n, size) ==
  LET b == (Address(cur) + size) \div m_baseSize IN IF b < n THEN b ELSE Null

Crash ==
  /\ crashed' = TRUE
  /\ UNCHANGED <<m_baseSize, m_position, m_size, m_endian, chain, mem, io, history>>

-----------------------------------------------------------------------------
(***************************************************************************)
(* write, read, setPosition, clear.                                        *)
(***************************************************************************)
SizeAfter(p) == IF p > m_size THEN p ELSE m_size

\* A copy of bs into a chain that addCapacity has made so many blocks longer.
Copy(more, bs) ==
  /\ Grow(more, bs)
  /\ m_cur' = CurAfterCopy(CurGrown(more), nodes + more, Len(bs))
  /\ m_position' = m_position + Len(bs)
  /\ m_size' = SizeAfter(m_position + Len(bs))
  /\ io' = [op |-> "write", bytes |-> bs]
  /\ UNCHANGED <<m_baseSize, m_endian, got, crashed>>

\* One call of write.
Put(bs) ==
  LET more == Count(Len(bs)) IN
  IF RunsOff(more, Len(bs)) THEN Crash ELSE Copy(more, bs)
\* Two calls: the second asks for its own blocks, behind what the first copied.
PutBoth(head, text) ==
  LET more == CountBoth(Len(head), Len(text)) IN
  IF RunsOff(Count(Len(head)), Len(head)) \/ RunsOff(more, Len(head \o text))
  THEN Crash ELSE Copy(more, head \o text)

\* The bytes from the position on.
Ahead(size) == [i \in 1 .. size |-> mem[Address(m_cur) + i - 1]]

\* read() of size bytes that are there; even of none it looks at m_cur.
Get(size) ==
  IF EndsBefore(m_cur, nodes, size)
  THEN Crash
  ELSE /\ io' = [op |-> "read", bytes |-> Ahead(size)]
       /\ m_cur' = CurAfterCopy(m_cur, nodes, size)
       /\ m_position' = m_position + size
       /\ UNCHANGED <<m_baseSize, m_size, m_endian, m_capacity, nodes, mem, items, crashed>>

\* The walk of setPosition from m_root, and the step over a block that is used up.
BlockNotLeft(v) == IF v = 0 THEN 0 ELSE (v - 1) \div m_baseSize
BlockOf(v) == IF v \div m_baseSize < nodes THEN v \div m_baseSize ELSE Null

setPosition(v) ==
  /\ v <= m_capacity
  /\ m_position' = v
  /\ m_size' = IF v > m_size THEN v ELSE m_size
  /\ m_cur' = BlockOf(v)
  /\ UNCHANGED <<m_baseSize, m_endian, m_capacity, nodes, mem, io, crashed>>

\* The untyped operations, on an array that holds no typed values.
Untyped == items = <<>> /\ got = <<>>

write(bs) ==
  /\ Untyped /\ m_position + Len(bs) <= MaxBytes /\ Len(bs) > 0
  /\ Put(bs) /\ UNCHANGED items

\* More than there is throws out_of_range and changes nothing.
read(size) ==
  /\ Untyped /\ size <= getReadSize
  /\ Get(size) /\ UNCHANGED got

Seek(v) == Untyped /\ setPosition(v) /\ UNCHANGED history

\* Every block but the first is deleted.
clear ==
  /\ m_position' = 0 /\ m_size' = 0 /\ m_capacity' = m_baseSize
  /\ nodes' = 1 /\ m_cur' = 0
  /\ mem' = [a \in 0 .. m_baseSize - 1 |-> mem[a]]
  /\ items' = <<>> /\ got' = <<>>
  /\ UNCHANGED <<m_baseSize, m_endian, io, crashed>>

-----------------------------------------------------------------------------
(***************************************************************************)
(* SocketStream::read(ba, length) and write(ba, length).                   *)
(***************************************************************************)
\* getWriteBuffers makes room for length bytes and walks over their blocks,
\* recvmsg fills in the first of them, or none when it fails, and setPosition
\* moves past these.
StreamRead(bs, length) ==
  LET more == Count(length) IN
  /\ Untyped /\ m_position + length <= MaxBytes /\ Len(bs) \in 0 .. length
  /\ IF RunsOff(more, length) THEN Crash
     ELSE Copy(more, bs) /\ UNCHANGED items

\* getReadBuffers.  When the first block does not hold more than len bytes, the
\* loop goes on to the next block, and what it subtracts from len is that one's
\* size: it runs off the end when there is no next block or less than a block is
\* asked for, and otherwise leaves out as many bytes as the first block had used.
Offset == m_position % m_baseSize
Crosses(len) == m_baseSize - Offset <= len
Blocks(len) == len \div m_baseSize
BuffersRunOff(len) ==
  Crosses(len) /\ (len < m_baseSize \/ m_cur + Blocks(len) >= nodes)
BuffersLength(len) == IF Crosses(len) THEN len - Offset ELSE len

\* sendmsg takes size bytes of the buffers and setPosition moves past them.
StreamWrite(length, size) ==
  LET len == Min({length, getReadSize}) IN
  /\ Untyped /\ len > 0
  /\ IF m_cur = Null \/ BuffersRunOff(len)
     THEN size = 1 /\ Crash
     ELSE /\ size \in 1 .. BuffersLength(len)
          /\ Get(size) /\ UNCHANGED got

-----------------------------------------------------------------------------
(***************************************************************************)
(* The codecs.                                                             *)
(***************************************************************************)
\* The types with a fixed number of bytes, and the varint types.
Fixed == [Fint8 |-> 1, Fuint8 |-> 1, Fint16 |-> 2, Fuint16 |-> 2, Fint32 |-> 4,
          Fuint32 |-> 4, Fint64 |-> 8, Fuint64 |-> 8, Float |-> 4, Double |-> 8]
Varint == [Int32 |-> 4, Uint32 |-> 4, Int64 |-> 8, Uint64 |-> 8]
Strings == [StringF16 |-> "Fuint16", StringF32 |-> "Fuint32", StringF64 |-> "Fuint64",
            StringVint |-> "Uint64"]
Signed == {"Fint8", "Fint16", "Fint32", "Fint64", "Int32", "Int64"}

\* Bits of a type, and the bits of a varint's byte that carry its value.
Width(size) == ByteBits * size
Group == ByteBits - 1
More == Pow2[Group]

\* A number's i-th digit of so many bits, from the lowest, and the number that
\* such digits stand for.
Digit(v, bits, i) == (v \div Pow2[bits * (i - 1)]) % Pow2[bits]
NumberOf(digits, bits) ==
  LET sum[i \in 0 .. Len(digits)] ==
        IF i = 0 THEN 0 ELSE sum[i - 1] + digits[i] * Pow2[bits * (i - 1)]
  IN sum[Len(digits)]

\* The bytes of a number in memory, and the number n bytes in memory stand for.
LittleEndian(v, n) == [i \in 1 .. n |-> Digit(v, ByteBits, i)]
FromLittle(bs) == NumberOf(bs, ByteBits)

\* The machine is little endian; other arrays swap the bytes.
SwapNever(bs) == bs
Swap(bs) == IF m_endian = "little" THEN bs ELSE Reverse(bs)

\* Conversions between signed and unsigned numbers of a width.
ToUnsigned(v, w) == v % Pow2[w]
ToSigned(v, w) == IF v >= Pow2[w - 1] THEN v - Pow2[w] ELSE v

EncodeZigzagPlain(v, w) == (2 * v) % Pow2[w]
EncodeZigzag(v, w) == IF v < 0 THEN (2 * (-v) - 1) % Pow2[w] ELSE 2 * v
\* (v >> 1) ^ -(v & 1)
DecodeZigzag(v) == IF v % 2 = 0 THEN v \div 2 ELSE -(v \div 2) - 1

\* The groups of a number: the first, and one more for each time that shifting
\* leaves something.  All but the last have the flag that announces another.
GroupsOf(v, w) ==
  1 + Cardinality({i \in 1 .. (w - 1) \div Group : v \div Pow2[Group * i] > 0})
EncodeVarint(v, w) ==
  LET n == GroupsOf(v, w) IN
  [i \in 1 .. n |-> Digit(v, Group, i) + (IF i < n THEN More ELSE 0)]

\* The number of bytes the reading loop takes from bs, and their value; bits
\* shifted out of the width are lost.
VarintTakes(bs, w) ==
  LET limit == (w + Group - 1) \div Group
      ends  == {i \in 1 .. Min({limit, Len(bs)}) : bs[i] < More}
  IN IF ends = {} THEN limit ELSE Min(ends)
DecodeVarint(bs, n, w) ==
  NumberOf([i \in 1 .. n |-> bs[i] % More], Group) % Pow2[w]

\* writeFint8 ... writeStringFVint: the bytes a value is written as.
EncodeNumber(ty, v) ==
  IF ty \in DOMAIN Fixed
  THEN Swap(LittleEndian(ToUnsigned(v, Width(Fixed[ty])), Fixed[ty]))
  ELSE LET w == Width(Varint[ty]) IN
       EncodeVarint(IF ty \in Signed THEN EncodeZigzag(v, w) ELSE v, w)
Encode(ty, v) ==
  IF ty \in DOMAIN Strings THEN EncodeNumber(Strings[ty], Len(v)) \o v
  ELSE EncodeNumber(ty, v)

\* readInt64 reads its varint with readUint32, and readBouble with readFuint32.
ReadAsOwn(ty) == ty
ReadAs(ty) == CASE ty = "Int64" -> "Int32" [] ty = "Double" -> "Float" [] OTHER -> ty

\* readFint8 ... readUint64: how many bytes are taken from those ahead, and what
\* they stand for.
NumberTakes(ty, bs) ==
  IF ty \in DOMAIN Fixed THEN Fixed[ty] ELSE VarintTakes(bs, Width(Varint[ty]))
DecodeNumber(ty, bs) ==
  LET w == Width(IF ty \in DOMAIN Fixed THEN Fixed[ty] ELSE Varint[ty])
      v == IF ty \in DOMAIN Fixed THEN FromLittle(Swap(SubSeq(bs, 1, Fixed[ty])))
           ELSE DecodeVarint(bs, VarintTakes(bs, w), w)
  IN IF ty \notin Signed THEN v ELSE IF ty \in DOMAIN Fixed THEN ToSigned(v, w)
     ELSE DecodeZigzag(v)

Takes(ty, bs) ==
  IF ty \notin DOMAIN Strings THEN NumberTakes(ReadAs(ty), bs)
  ELSE NumberTakes(Strings[ty], bs) + DecodeNumber(Strings[ty], bs)
Decode(ty, bs) ==
  IF ty \notin DOMAIN Strings THEN DecodeNumber(ReadAs(ty), bs)
  ELSE SubSeq(bs, NumberTakes(Strings[ty], bs) + 1, Takes(ty, bs))

\* Values at the edges of a type.
ValuesOf(ty) ==
  IF ty \in DOMAIN Strings THEN {<<>>, <<1>>}
  ELSE LET w == Width(IF ty \in DOMAIN Fixed THEN Fixed[ty] ELSE Varint[ty]) IN
       IF ty \in Signed THEN {0, -1, -Pow2[w - 1], Pow2[w - 1] - 1}
       ELSE {0, More, Pow2[w] - 1}
Types == DOMAIN Fixed \cup DOMAIN Varint \cup DOMAIN Strings

\* A value is appended to an array that holds only typed values.  A string is
\* two writes, of its length and of its text.
WriteItem(ty, v) ==
  /\ IF items = <<>> THEN m_size = 0 /\ io.op = "none" ELSE m_position = m_size
  /\ got = <<>> /\ Len(items) < MaxItems
  /\ IF ty \in DOMAIN Strings THEN PutBoth(EncodeNumber(Strings[ty], Len(v)), v)
     ELSE Put(Encode(ty, v))
  /\ items' = IF crashed' THEN items ELSE Append(items, [type |-> ty, value |-> v])

Rewind == items # <<>> /\ got = <<>> /\ setPosition(0) /\ UNCHANGED history

\* The values are read in the order and with the types they were written with.
\* The string's own read() looks at m_cur once more.
ReadItem ==
  LET ty == items[Len(got) + 1].type
      bs == Ahead(getReadSize)
      atEnd == CurAfterCopy(m_cur, nodes, Takes(ty, bs)) = Null
  IN
  /\ Len(got) < Len(items)
  /\ m_position = 0 \/ got # <<>>
  /\ getReadSize > 0
  /\ Takes(ty, bs) \in 0 .. getReadSize
  /\ IF ty \in DOMAIN Strings /\ Decode(ty, bs) = <<>> /\ atEnd
     THEN Crash
     ELSE Get(Takes(ty, bs)) /\ got' = Append(got, Decode(ty, bs))

-----------------------------------------------------------------------------
Next ==
  /\ ~crashed
  /\ \/ \E n \in 1 .. 3 : \E bs \in [1 .. n -> {0, 1}] : write(bs)
     \/ \E n \in 0 .. MaxBytes : read(n)
     \/ \E v \in 0 .. MaxBytes : Seek(v)
     \/ clear
     \/ \E n \in 1 .. 3 : \E k \in 0 .. n : StreamRead([i \in 1 .. k |-> 1], n)
     \/ \E length \in 1 .. 3, size \in 1 .. 3 : StreamWrite(length, size)
     \/ \E ty \in Types : \E v \in ValuesOf(ty) : WriteItem(ty, v)
     \/ Rewind
     \/ ReadItem

Spec == Init /\ [][Next]_vars

-----------------------------------------------------------------------------
(***************************************************************************)
(* Properties.                                                             *)
(***************************************************************************)
\* The position is within the data, the data within the capacity, and the
\* capacity is what the chain of blocks has.
TypeOK ==
  /\ m_baseSize \in BaseSizes /\ m_endian \in Orders /\ crashed \in BOOLEAN
  /\ m_position \in 0 .. m_size /\ m_size \in 0 .. m_capacity
  /\ m_capacity = nodes * m_baseSize
  /\ m_cur \in {Null} \cup 0 .. nodes - 1
  /\ mem \in [0 .. m_capacity - 1 -> Byte \cup {Junk}]

\* m_cur, which every operation moves in its own way, points to the block of the
\* position, and is null exactly when the position is at the end of the capacity.
CurAtPosition ==
  m_cur = IF m_position < nodes * m_baseSize THEN m_position \div m_baseSize ELSE Null

\* What was written is read back, through whatever blocks it was spread over:
\* the array is a file of bytes with a position.  The file's contents are found
\* through addresses, not through m_cur.
File == INSTANCE ByteFile WITH
  data <- [i \in 1 .. m_size |-> mem[i - 1]],
  pos <- m_position
IsFile == File!Spec

\* A sequence of typed values is read back as it was written, in either byte
\* order, up to the first value of one of the two types whose reader is another
\* type's.
ItemsReadBack ==
  \A i \in 1 .. Len(got) :
    (\A j \in 1 .. i : ReadAs(items[j].type) = items[j].type) => got[i] = items[i].value
=============================================================================
