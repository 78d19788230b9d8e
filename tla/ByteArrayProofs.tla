--------------------------- MODULE ByteArrayProofs ---------------------------
(***************************************************************************)
(* A ByteArray is a file of bytes, for any block size and any bounds.      *)
(*                                                                         *)
(* The refinement needs that every copy starts at the address of the       *)
(* position, and that is what CurAtPosition says: m_cur, which each        *)
(* operation moves in a way of its own, is the block of the position.  It  *)
(* is inductive together with the arithmetic of the chain (ShapeOK) and    *)
(* the domain of its memory (Contents).                                    *)
(*                                                                         *)
(* That typed values are read back as they were written (ItemsReadBack)    *)
(* takes two things.  One is about the codecs alone, for every value of    *)
(* every type (BytesCodecsInverse): the digits of a number stand for it,   *)
(* a varint has as many groups as the number needs and only the last is    *)
(* without the flag, and the conversions of signed numbers are inverse.    *)
(* The other is an invariant (ItemsLaid): the encodings of the written     *)
(* values lie one behind the other in the blocks, and as long as every     *)
(* type has a reader of its own, the position is where the next one        *)
(* starts.                                                                 *)
(*                                                                         *)
(* Inductions over numbers are on sets of numbers (Induct), from the well- *)
(* foundedness of the natural numbers.                                     *)
(***************************************************************************)
EXTENDS ByteArray, FiniteSetTheorems, SequenceTheorems, WellFoundedInduction, TLAPS

\* Every address of the chain has a byte.
Contents == DOMAIN mem = 0 .. m_capacity - 1

\* The position is within the data, the data within the capacity, and the
\* capacity is what the chain has.
ShapeOK ==
  /\ m_baseSize \in BaseSizes
  /\ m_position \in Nat /\ m_size \in Nat /\ nodes \in Nat
  /\ m_position <= m_size /\ m_size <= m_capacity
  /\ m_capacity = nodes * m_baseSize

\* The inductive invariant.
Inv == ShapeOK /\ Contents /\ CurAtPosition

-----------------------------------------------------------------------------
\* Division with remainder, which SMT knows only in pieces.
LEMMA DivMod ==
  ASSUME NEW a \in Nat, NEW b \in Nat \ {0}
  PROVE  /\ a \div b \in Nat /\ a % b \in 0 .. b - 1
         /\ a = ((a \div b) * b) + (a % b)
  <1>1. a \div b \in Nat OBVIOUS
  <1>2. a % b \in 0 .. b - 1 OBVIOUS
  <1>3. a = (b * (a \div b)) + (a % b) OBVIOUS
  <1>4. b * (a \div b) = (a \div b) * b BY <1>1
  <1> QED BY <1>1, <1>2, <1>3, <1>4

\* An address is in one of the first n blocks of b bytes.
LEMMA DivLess ==
  ASSUME NEW a \in Nat, NEW b \in Nat \ {0}, NEW n \in Nat
  PROVE  a \div b < n <=> a < n * b
  OBVIOUS

\* The end of a block is the start of another.
LEMMA MultMod ==
  ASSUME NEW n \in Nat, NEW b \in Nat \ {0}
  PROVE  (n * b) % b = 0
  OBVIOUS

\* A copy starts at the position, in the old chain and in the one that grew.
LEMMA AddressIsPosition ==
  ASSUME Inv
  PROVE  /\ m_cur # Null => Address(m_cur) = m_position
         /\ \A more \in Nat : CurGrown(more) # Null => Address(CurGrown(more)) = m_position
  <1> DEFINE b == m_baseSize
  <1>1. b \in Nat \ {0} /\ m_position \in Nat /\ nodes \in Nat
    BY ByteArrayAssumption DEF ByteArrayAssumption, Inv, ShapeOK
  <1>2. m_cur # Null => Address(m_cur) = m_position
    BY <1>1, DivMod DEF Inv, CurAtPosition, Address
  <1>3. ASSUME getCapacity = 0 PROVE Address(nodes) = m_position
    <2>1. m_position = nodes * b
      BY <1>1, <1>3 DEF Inv, ShapeOK, getCapacity
    <2>2. m_position % b = 0 BY <2>1, <1>1, MultMod
    <2> QED BY <2>1, <2>2, <1>1 DEF Address
  <1> QED BY <1>2, <1>3 DEF CurGrown

\* addCapacity never takes blocks away.
LEMMA CountForType ==
  ASSUME Inv, NEW room \in Nat, NEW size \in Nat
  PROVE  CountFor(room, size) \in Nat
  <1>1. m_baseSize \in Nat \ {0}
    BY ByteArrayAssumption DEF ByteArrayAssumption, Inv, ShapeOK
  <1>2. CASE room > size BY <1>2 DEF CountFor
  <1>3. CASE ~(room > size)
    <2> DEFINE more == size - room
    <2>1. more \in Nat BY <1>1, <1>3
    <2>2. more \div m_baseSize \in Nat BY <2>1, <1>1, DivMod
    <2> QED BY <1>3, <2>2 DEF CountFor
  <1> QED BY <1>2, <1>3

LEMMA CountType ==
  ASSUME Inv, NEW size \in Nat
  PROVE  Count(size) \in Nat
  <1>1. getCapacity \in Nat BY DEF Inv, ShapeOK, getCapacity
  <1> QED BY <1>1, CountForType DEF Count

\* After a copy of size bytes that stays inside the chain of n blocks, m_cur is
\* the block of the new position.
LEMMA CopyMovesCur ==
  ASSUME Inv, NEW cur, NEW n \in Nat, NEW size \in Nat,
         ~EndsBefore(cur, n, size), cur # Null => Address(cur) = m_position
  PROVE  LET p == m_position + size IN
         /\ p <= n * m_baseSize
         /\ \A k \in 0 .. size :
              CurAfterCopy(cur, n, k) =
                IF m_position + k < n * m_baseSize
                THEN (m_position + k) \div m_baseSize ELSE Null
  <1>1. m_baseSize \in Nat \ {0} /\ m_position \in Nat
    BY ByteArrayAssumption DEF ByteArrayAssumption, Inv, ShapeOK
  <1>2. cur # Null /\ Address(cur) = m_position BY DEF EndsBefore
  <1>3. n * m_baseSize \in Nat BY <1>1
  <1>4. m_position + size <= n * m_baseSize BY <1>1, <1>2, <1>3 DEF EndsBefore
  <1>5. ASSUME NEW k \in 0 .. size
        PROVE  CurAfterCopy(cur, n, k) =
                IF m_position + k < n * m_baseSize
                THEN (m_position + k) \div m_baseSize ELSE Null
    <2>1. m_position + k \in Nat BY <1>1
    <2>2. (m_position + k) \div m_baseSize < n <=> m_position + k < n * m_baseSize
      BY <2>1, <1>1, DivLess
    <2> QED BY <2>2, <1>2 DEF CurAfterCopy
  <1> QED BY <1>4, <1>5

\* A copy of bs to where the position is, in a chain that addCapacity made long
\* enough, is a write to the file.
LEMMA CopyStep ==
  ASSUME Inv, NEW more \in Nat, NEW bs, Len(bs) \in Nat,
         ~RunsOff(more, Len(bs)), Copy(more, bs)
  PROVE  Inv' /\ File!Write
  <1> DEFINE n == nodes + more
             size == Len(bs)
  <1>0. /\ m_cur' = CurAfterCopy(CurGrown(more), n, size)
        /\ m_position' = m_position + size
        /\ m_size' = SizeAfter(m_position + size)
        /\ io' = [op |-> "write", bytes |-> bs]
        /\ Grow(more, bs) /\ UNCHANGED m_baseSize
    BY DEF Copy
  <1>1. m_baseSize \in Nat \ {0} /\ n \in Nat /\ Len(bs) \in Nat
    BY ByteArrayAssumption DEF ByteArrayAssumption, Inv, ShapeOK
  <1>a. ~EndsBefore(CurGrown(more), n, size) BY DEF RunsOff
  <1>2. CurGrown(more) # Null /\ Address(CurGrown(more)) = m_position
    BY <1>a, AddressIsPosition DEF EndsBefore
  <1>3. /\ m_position + size <= n * m_baseSize
        /\ m_cur' = IF m_position + Len(bs) < n * m_baseSize
                    THEN (m_position + Len(bs)) \div m_baseSize ELSE Null
    BY <1>0, <1>1, <1>2, <1>a, CopyMovesCur
  <1>4. nodes' = n /\ m_capacity' = n * m_baseSize
    BY <1>0, <1>1 DEF Grow, Inv, ShapeOK
  <1>5. m_capacity <= m_capacity' /\ m_capacity' \in Nat /\ m_capacity \in Nat
    BY <1>1, <1>4 DEF Inv, ShapeOK
  <1>6. ShapeOK'
    <2>1. /\ m_position \in Nat /\ m_size \in Nat /\ m_position <= m_size
          /\ m_size <= m_capacity /\ m_baseSize \in BaseSizes
      BY DEF Inv, ShapeOK
    <2>2. m_position + Len(bs) \in Nat /\ m_position + Len(bs) <= m_capacity'
      <3>1. m_position + size <= m_capacity' BY <1>3, <1>4
      <3> QED BY <2>1, <3>1, <1>1, <1>5
    <2>3. /\ m_size' \in Nat /\ m_position + Len(bs) <= m_size' /\ m_size' <= m_capacity'
      BY <2>1, <2>2, <1>0, <1>5 DEF SizeAfter
    <2> QED BY <2>1, <2>2, <2>3, <1>0, <1>1, <1>4 DEF ShapeOK
  <1>7. Contents' BY <1>0, <1>4 DEF Grow, Contents
  <1>8. CurAtPosition' BY <1>0, <1>3, <1>4 DEF CurAtPosition
  <1>9. mem' = [i \in 0 .. n * m_baseSize - 1 |->
                  IF m_position <= i /\ i < m_position + Len(bs) THEN bs[i - m_position + 1]
                  ELSE IF i \in DOMAIN mem THEN mem[i] ELSE Junk]
    BY <1>0, <1>2 DEF Grow
  <1>10. File!Write
    <2> DEFINE data == [i \in 1 .. m_size |-> mem[i - 1]]
    <2>1. Len(data) = m_size BY DEF Inv, ShapeOK
    <2>2. m_size' = IF m_position + Len(bs) > Len(data) THEN m_position + Len(bs) ELSE Len(data)
      BY <2>1, <1>0 DEF SizeAfter
    <2>3. m_size' \in Nat /\ m_size' <= n * m_baseSize
      BY <1>6, <1>4 DEF ShapeOK
    <2>4. ASSUME NEW i \in 1 .. m_size'
          PROVE  mem'[i - 1] = IF m_position < i /\ i <= m_position + Len(bs)
                               THEN bs[i - m_position] ELSE data[i]
      <3>1. i - 1 \in 0 .. n * m_baseSize - 1 BY <2>3, <1>1
      <3>2. CASE m_position < i /\ i <= m_position + Len(bs)
        BY <3>1, <3>2, <1>9, <1>1, <2>3 DEF Inv, ShapeOK
      <3>3. CASE ~(m_position < i /\ i <= m_position + Len(bs))
        <4>1. i \in 1 .. m_size
          BY <2>2, <2>1, <3>3, <1>1 DEF Inv, ShapeOK
        <4>2. i - 1 \in DOMAIN mem
          BY <4>1, <1>5 DEF Inv, ShapeOK, Contents
        <4>3. mem'[i - 1] = mem[i - 1]
          BY <3>1, <3>3, <4>2, <1>9, <1>1 DEF Inv, ShapeOK
        <4> QED BY <4>1, <4>3, <3>3
      <3> QED BY <3>2, <3>3
    <2>5. [i \in 1 .. m_size' |-> mem'[i - 1]] = File!Overwrite(data, m_position, bs)
      BY <2>2, <2>4 DEF File!Overwrite
    <2> QED BY <2>5, <1>0 DEF File!Write
  <1> QED BY <1>6, <1>7, <1>8, <1>10 DEF Inv

\* A copy out of the array is a read of the file.
LEMMA GetStep ==
  ASSUME Inv, NEW size \in Nat, size <= getReadSize, Get(size)
  PROVE  Inv' /\ [File!Next]_File!fileVars
  <1>1. CASE EndsBefore(m_cur, nodes, size)
    BY <1>1 DEF Get, Crash, chain, Inv, ShapeOK, Contents, CurAtPosition, File!fileVars
  <1>2. CASE ~EndsBefore(m_cur, nodes, size)
    <2>1. m_baseSize \in Nat \ {0}
      BY ByteArrayAssumption DEF ByteArrayAssumption, Inv, ShapeOK
    <2>2. m_cur # Null /\ Address(m_cur) = m_position
      BY <1>2, AddressIsPosition DEF EndsBefore
    <2>3. /\ m_position' = m_position + size /\ m_cur' = CurAfterCopy(m_cur, nodes, size)
          /\ io' = [op |-> "read", bytes |-> Ahead(size)]
          /\ UNCHANGED <<m_baseSize, m_size, m_capacity, nodes, mem>>
      BY <1>2 DEF Get
    <2>4. m_cur' = IF m_position + size < nodes * m_baseSize
                   THEN (m_position + size) \div m_baseSize ELSE Null
      BY <1>2, <2>2, <2>3, CopyMovesCur DEF Inv, ShapeOK
    <2>5. ShapeOK' BY <2>3 DEF Inv, ShapeOK, getReadSize
    <2>6. Contents' /\ CurAtPosition' BY <2>3, <2>4 DEF Inv, Contents, CurAtPosition
    <2>7. File!Read
      <3> DEFINE data == [i \in 1 .. m_size |-> mem[i - 1]]
      <3>1. Len(data) = m_size BY DEF Inv, ShapeOK
      <3>2. m_position + size <= m_size /\ m_position \in Nat /\ m_size \in Nat
        BY DEF getReadSize, Inv, ShapeOK
      <3>3. SubSeq(data, m_position + 1, m_position + size)
              = [i \in 1 .. size |-> data[m_position + i]]
        BY <3>2
      <3>4. \A i \in 1 .. size : data[m_position + i] = mem[m_position + i - 1]
        BY <3>2
      <3>5. Ahead(size) = [i \in 1 .. size |-> data[m_position + i]]
        BY <3>4, <2>2 DEF Ahead
      <3>6. m_position + size \in m_position .. m_size BY <3>2
      <3> QED BY <3>1, <3>3, <3>5, <3>6, <2>3 DEF File!Read
    <2> QED BY <2>5, <2>6, <2>7 DEF Inv, File!Next
  <1> QED BY <1>1, <1>2

\* A crashed operation has changed nothing.
LEMMA CrashStep ==
  ASSUME Inv, Crash
  PROVE  Inv' /\ UNCHANGED File!fileVars
  BY DEF Crash, chain, Inv, ShapeOK, Contents, CurAtPosition, File!fileVars

\* What a write does, in one call or in two: it crashes, or copies its bytes.
Writes(bs) == Crash \/ \E more \in Nat : ~RunsOff(more, Len(bs)) /\ Copy(more, bs)

\* write().
LEMMA PutWrites ==
  ASSUME Inv, NEW bs, Len(bs) \in Nat, Put(bs)
  PROVE  Writes(bs)
  <1>1. Count(Len(bs)) \in Nat BY CountType
  <1> QED BY <1>1 DEF Put, Writes

\* Two calls of it: the second finds room that is not negative.
LEMMA PutBothWrites ==
  ASSUME Inv, NEW S, NEW head \in Seq(S), NEW text \in Seq(S), PutBoth(head, text)
  PROVE  Writes(head \o text)
  <1> DEFINE first == Len(head)
             second == Len(text)
             n == Count(first)
             more == CountBoth(first, second)
  <1>1. CASE Crash BY <1>1 DEF Writes
  <1>2. CASE ~Crash
    <2>1. ~RunsOff(n, first) /\ ~RunsOff(more, Len(head \o text)) /\ Copy(more, head \o text)
      BY <1>2 DEF PutBoth
    <2>2. first \in Nat /\ second \in Nat BY LenProperties
    <2>3. n \in Nat BY <2>2, CountType
    <2> HIDE DEF n, first, second
    <2>4. m_baseSize \in Nat \ {0} /\ nodes \in Nat /\ m_position \in Nat
          /\ m_capacity = nodes * m_baseSize
      BY ByteArrayAssumption DEF ByteArrayAssumption, Inv, ShapeOK
    <2>5. m_position + first <= (nodes + n) * m_baseSize
      <3>1. ~EndsBefore(CurGrown(n), nodes + n, first) BY <2>1 DEF RunsOff
      <3>2. CurGrown(n) # Null => Address(CurGrown(n)) = m_position
        BY <2>3, AddressIsPosition
      <3>3. nodes + n \in Nat BY <2>3, <2>4
      <3> QED BY <3>1, <3>2, <3>3, <2>2, CopyMovesCur
    <2>6. PICK room : room = getCapacity + n * m_baseSize - first OBVIOUS
    <2>7. room \in Nat
      <3>1. (nodes + n) * m_baseSize = m_capacity + n * m_baseSize BY <2>3, <2>4
      <3>2. n * m_baseSize \in Nat /\ m_capacity \in Nat BY <2>3, <2>4
      <3> QED BY <3>1, <3>2, <2>2, <2>4, <2>5, <2>6 DEF getCapacity
    <2>8. CountFor(room, second) \in Nat BY <2>2, <2>7, CountForType
    <2>9. more = n + CountFor(room, second) BY <2>6 DEF CountBoth, n
    <2>10. more \in Nat BY <2>3, <2>8, <2>9
    <2> QED BY <2>1, <2>10 DEF Writes
  <1> QED BY <1>1, <1>2

\* SocketStream::read asks for more room than it may fill.
LEMMA StreamReadWrites ==
  ASSUME Inv, NEW bs, NEW length \in Nat, StreamRead(bs, length)
  PROVE  Writes(bs)
  <1>1. Count(length) \in Nat BY CountType
  <1>2. CASE RunsOff(Count(length), length) BY <1>2 DEF StreamRead, Writes
  <1>3. CASE ~RunsOff(Count(length), length)
    <2> DEFINE more == Count(length)
               cur == CurGrown(more)
    <2>1. Copy(more, bs) /\ Len(bs) \in 0 .. length BY <1>3 DEF StreamRead
    <2>2. cur # Null /\ Address(cur) = m_position
      BY <1>1, <1>3, AddressIsPosition DEF RunsOff, EndsBefore
    <2>3. m_position + length <= (nodes + more) * m_baseSize
      <3>1. ~EndsBefore(cur, nodes + more, length) BY <1>3 DEF RunsOff
      <3>2. nodes + more \in Nat BY <1>1 DEF Inv, ShapeOK
      <3> QED BY <3>1, <3>2, <2>2, CopyMovesCur
    <2>4. PICK z \in Int : z = (nodes + more) * m_baseSize
      BY <1>1, ByteArrayAssumption DEF ByteArrayAssumption, Inv, ShapeOK
    <2>5. m_position + Len(bs) <= z
      BY <2>1, <2>3, <2>4 DEF Inv, ShapeOK
    <2>6. ~RunsOff(more, Len(bs))
      <3>1. m_position + Len(bs) \in Int BY <2>1 DEF Inv, ShapeOK
      <3>2. ~(Address(cur) + Len(bs) > (nodes + more) * m_baseSize)
        BY <3>1, <2>2, <2>4, <2>5
      <3> QED BY <3>2, <2>2 DEF RunsOff, EndsBefore
    <2> QED BY <1>1, <2>1, <2>6 DEF Writes
  <1> QED BY <1>2, <1>3

\* All of them.
LEMMA WritesStep ==
  ASSUME Inv, NEW bs, Len(bs) \in Nat, Writes(bs)
  PROVE  Inv' /\ [File!Next]_File!fileVars
  <1>1. CASE Crash BY <1>1, CrashStep
  <1>2. ASSUME NEW more \in Nat, ~RunsOff(more, Len(bs)), Copy(more, bs)
        PROVE  Inv' /\ [File!Next]_File!fileVars
    <2>1. Inv' /\ File!Write BY <1>2, CopyStep
    <2> QED BY <2>1 DEF File!Next
  <1> QED BY <1>1, <1>2 DEF Writes

\* SocketStream::write: the buffers are never more than what can be read.
LEMMA StreamWriteStep ==
  ASSUME Inv, NEW length \in Nat, NEW size, StreamWrite(length, size)
  PROVE  Inv' /\ [File!Next]_File!fileVars
  <1> DEFINE len == Min({length, getReadSize})
  <1>1. CASE m_cur = Null \/ BuffersRunOff(len)
    <2>1. Crash BY <1>1 DEF StreamWrite
    <2> QED BY <2>1, CrashStep
  <1>2. CASE ~(m_cur = Null \/ BuffersRunOff(len))
    <2>1. getReadSize \in Nat BY DEF getReadSize, Inv, ShapeOK
    <2>2. len \in Nat /\ len <= getReadSize
      <3>1. \A x, y \in Nat : Min({x, y}) \in Nat /\ Min({x, y}) <= y
        BY DEF Min
      <3> QED BY <3>1, <2>1
    <2>3. Offset \in Nat
      BY ByteArrayAssumption, DivMod DEF ByteArrayAssumption, Offset, Inv, ShapeOK
    <2>4. size \in 1 .. BuffersLength(len) /\ Get(size)
      BY <1>2 DEF StreamWrite
    <2>5. size \in Nat /\ size <= getReadSize
      <3> HIDE DEF len
      <3> QED BY <2>1, <2>2, <2>3, <2>4 DEF BuffersLength
    <2> QED BY <2>4, <2>5, GetStep
  <1> QED BY <1>1, <1>2

\* setPosition, from any block to any other.
LEMMA SeekStep ==
  ASSUME Inv, NEW v \in Nat, setPosition(v)
  PROVE  Inv' /\ [File!Next]_File!fileVars
  <1>1. m_baseSize \in Nat \ {0} /\ nodes \in Nat
    BY ByteArrayAssumption DEF ByteArrayAssumption, Inv, ShapeOK
  <1>2. /\ v <= m_capacity /\ m_position' = v /\ m_cur' = BlockOf(v)
        /\ m_size' = IF v > m_size THEN v ELSE m_size
        /\ UNCHANGED <<m_baseSize, m_capacity, nodes, mem, io>>
    BY DEF setPosition
  <1>3. ShapeOK' BY <1>2 DEF Inv, ShapeOK
  <1>4. CurAtPosition'
    BY <1>1, <1>2, DivLess DEF CurAtPosition, BlockOf
  <1>5. Contents' BY <1>2 DEF Inv, Contents
  <1>6. File!Seek
    <2> DEFINE data == [i \in 1 .. m_size |-> mem[i - 1]]
               after == [i \in 1 .. m_size' |-> mem[i - 1]]
    <2>1. m_size \in Nat /\ m_size' \in Nat /\ m_size <= m_size'
      BY <1>2 DEF Inv, ShapeOK
    <2>2. Len(data) = m_size /\ Len(after) = m_size' BY <2>1
    <2>3. CASE v <= m_size
      BY <1>2, <2>2, <2>3 DEF File!Seek, Inv, ShapeOK
    <2>4. CASE v > m_size
      <3>1. SubSeq(after, 1, m_size) = [i \in 1 .. m_size |-> after[i]]
        BY <2>1
      <3>2. \A i \in 1 .. m_size : after[i] = mem[i - 1] BY <2>1
      <3>3. data = SubSeq(after, 1, m_size) BY <3>1, <3>2
      <3> QED BY <1>2, <2>2, <2>4, <3>3 DEF File!Seek
    <2> QED BY <2>1, <2>3, <2>4
  <1> QED BY <1>3, <1>4, <1>5, <1>6 DEF Inv, File!Next

\* clear leaves the empty file.
LEMMA ClearStep ==
  ASSUME Inv, clear
  PROVE  Inv' /\ [File!Next]_File!fileVars
  <1>1. m_baseSize \in Nat \ {0}
    BY ByteArrayAssumption DEF ByteArrayAssumption, Inv, ShapeOK
  <1>2. Inv'
    BY <1>1 DEF clear, Inv, ShapeOK, Contents, CurAtPosition
  <1>3. File!Clear BY DEF clear, File!Clear
  <1> QED BY <1>2, <1>3 DEF File!Next

\* Sequences of any length, over any elements.
Sequence(bs) == Len(bs) \in Nat /\ bs \in Seq({bs[i] : i \in 1 .. Len(bs)})

\* A function on 1 .. n is such a sequence.
LEMMA FunctionIsSequence ==
  ASSUME NEW n \in Nat, NEW S, NEW f \in [1 .. n -> S]
  PROVE  Sequence(f) /\ Len(f) = n
  <1>1. f \in Seq(S) /\ Len(f) = n OBVIOUS
  <1>2. f \in [1 .. n -> {f[i] : i \in 1 .. n}] OBVIOUS
  <1> QED BY <1>1, <1>2 DEF Sequence

\* A varint has a number of groups, whatever its value.
LEMMA GroupsType ==
  ASSUME NEW v, NEW w \in Nat \ {0}
  PROVE  GroupsOf(v, w) \in Nat
  <1> DEFINE all == 1 .. (w - 1) \div Group
             left == {i \in all : v \div Pow2[Group * i] > 0}
  <1>1. Group \in Nat \ {0} BY ByteArrayAssumption DEF ByteArrayAssumption, Group
  <1>2. (w - 1) \div Group \in Nat BY <1>1
  <1>3. IsFiniteSet(all) BY <1>2, FS_Interval
  <1>4. IsFiniteSet(left) BY <1>3, FS_Subset
  <1>5. Cardinality(left) \in Nat BY <1>4, FS_CardinalityType
  <1> QED BY <1>5 DEF GroupsOf

\* Fixed and varint encodings are sequences.
LEMMA EncodeNumberIsSequence ==
  ASSUME NEW ty \in DOMAIN Fixed \cup DOMAIN Varint, NEW v
  PROVE  Sequence(EncodeNumber(ty, v))
  <1>0. ByteBits \in Nat \ {0} BY ByteArrayAssumption DEF ByteArrayAssumption
  <1>1. CASE ty \in DOMAIN Fixed
    <2> DEFINE n == Fixed[ty]
               bs == LittleEndian(ToUnsigned(v, Width(n)), n)
    <2>1. n \in Nat BY <1>1 DEF Fixed
    <2>2. Sequence(bs) /\ Len(bs) = n
      <3> HIDE DEF n
      <3>1. bs \in [1 .. n -> {bs[i] : i \in 1 .. n}] BY DEF LittleEndian
      <3> QED BY <2>1, <3>1, FunctionIsSequence
    <2>3. Sequence(Reverse(bs))
      <3> HIDE DEF bs
      <3>1. Reverse(bs) \in [1 .. n -> {bs[i] : i \in 1 .. n}]
        BY <2>1, <2>2 DEF Reverse
      <3> QED BY <2>1, <3>1, FunctionIsSequence
    <2>4. EncodeNumber(ty, v) = Swap(bs) BY <1>1 DEF EncodeNumber
    <2> QED BY <2>2, <2>3, <2>4 DEF Swap
  <1>2. CASE ty \notin DOMAIN Fixed
    <2> DEFINE w == Width(Varint[ty])
               u == IF ty \in Signed THEN EncodeZigzag(v, w) ELSE v
    <2>1. Varint[ty] \in {4, 8} BY <1>2 DEF Varint
    <2>2. w \in Nat \ {0} BY <2>1, <1>0 DEF Width
    <2>3. EncodeNumber(ty, v) = EncodeVarint(u, w) BY <1>2 DEF EncodeNumber
    <2> HIDE DEF w, u
    <2>4. GroupsOf(u, w) \in Nat BY <2>2, GroupsType
    <2> DEFINE bs == EncodeVarint(u, w)
    <2>5. bs \in [1 .. GroupsOf(u, w) -> {bs[i] : i \in 1 .. GroupsOf(u, w)}]
      BY DEF EncodeVarint
    <2> HIDE DEF bs
    <2>6. Sequence(bs) BY <2>4, <2>5, FunctionIsSequence
    <2> QED BY <2>3, <2>6 DEF bs
  <1> QED BY <1>1, <1>2

\* So a typed value is written as some number of bytes.
LEMMA EncodeLength ==
  ASSUME NEW ty \in Types, NEW v \in ValuesOf(ty)
  PROVE  Len(Encode(ty, v)) \in Nat
  <1>1. CASE ty \in DOMAIN Strings
    <2>1. v \in {<<>>, <<1>>} BY <1>1 DEF ValuesOf
    <2>a. v \in Seq(Nat)
      <3>1. <<>> \in Seq(Nat) OBVIOUS
      <3>2. <<1>> \in Seq(Nat) OBVIOUS
      <3> QED BY <2>1, <3>1, <3>2
    <2> DEFINE head == EncodeNumber(Strings[ty], Len(v))
    <2>2. Strings[ty] \in DOMAIN Fixed \cup DOMAIN Varint
      BY <1>1 DEF Strings, Fixed, Varint
    <2>3. Sequence(head) BY <2>2, EncodeNumberIsSequence
    <2>4. Encode(ty, v) = head \o v BY <1>1 DEF Encode
    <2> HIDE DEF head
    <2> DEFINE S == Nat \cup {head[i] : i \in 1 .. Len(head)}
    <2>5. head \in Seq(S) BY <2>3 DEF Sequence
    <2>6. v \in Seq(S) BY <2>a
    <2> HIDE DEF S
    <2> QED BY <2>4, <2>5, <2>6
  <1>2. CASE ty \notin DOMAIN Strings
    <2>1. ty \in DOMAIN Fixed \cup DOMAIN Varint BY <1>2 DEF Types
    <2> QED BY <1>2, <2>1, EncodeNumberIsSequence DEF Encode, Sequence
  <1> QED BY <1>1, <1>2

\* A typed value is written in one call, a string in two.
LEMMA WriteItemWrites ==
  ASSUME Inv, NEW ty \in Types, NEW v \in ValuesOf(ty), WriteItem(ty, v)
  PROVE  Writes(Encode(ty, v)) /\ Len(Encode(ty, v)) \in Nat
  <1>1. Len(Encode(ty, v)) \in Nat BY EncodeLength
  <1>2. CASE ty \notin DOMAIN Strings
    <2>1. Put(Encode(ty, v)) BY <1>2 DEF WriteItem
    <2> QED BY <2>1, <1>1, PutWrites
  <1>3. CASE ty \in DOMAIN Strings
    <2>1. v \in {<<>>, <<1>>} BY <1>3 DEF ValuesOf
    <2>2. v \in Seq(Nat)
      <3>1. <<>> \in Seq(Nat) OBVIOUS
      <3>2. <<1>> \in Seq(Nat) OBVIOUS
      <3> QED BY <2>1, <3>1, <3>2
    <2>3. PICK head : head = EncodeNumber(Strings[ty], Len(v)) OBVIOUS
    <2>4. Strings[ty] \in DOMAIN Fixed \cup DOMAIN Varint
      BY <1>3 DEF Strings, Fixed, Varint
    <2>5. Sequence(head) BY <2>3, <2>4, EncodeNumberIsSequence
    <2>6. Encode(ty, v) = head \o v BY <1>3, <2>3 DEF Encode
    <2>7. PICK S : S = Nat \cup {head[i] : i \in 1 .. Len(head)} OBVIOUS
    <2>8. head \in Seq(S) BY <2>5, <2>7 DEF Sequence
    <2>9. v \in Seq(S) BY <2>2, <2>7
    <2>10. PutBoth(head, v) BY <1>3, <2>3 DEF WriteItem
    <2>11. Writes(head \o v) BY <2>8, <2>9, <2>10, PutBothWrites
    <2> QED BY <2>6, <2>11, <1>1
  <1> QED BY <1>2, <1>3

\* The constructor makes an empty file.
LEMMA ByteArrayInit == Init => Inv /\ File!Init
  <1> SUFFICES ASSUME Init PROVE Inv /\ File!Init
    OBVIOUS
  <1>1. m_baseSize \in Nat \ {0}
    BY ByteArrayAssumption DEF ByteArrayAssumption, Init
  <1>2. Inv BY <1>1 DEF Init, Inv, ShapeOK, Contents, CurAtPosition
  <1>3. File!Init BY DEF Init, File!Init
  <1> QED BY <1>2, <1>3

\* Every operation keeps the invariant and is a step of the file or changes
\* nothing the file shows.
LEMMA ByteArrayStep ==
  ASSUME Inv, [Next]_vars
  PROVE  Inv' /\ [File!Next]_File!fileVars
  <1>1. CASE UNCHANGED vars
    BY <1>1 DEF vars, chain, Inv, ShapeOK, Contents, CurAtPosition, File!fileVars
  <1>2. ASSUME NEW n \in 1 .. 3, NEW bs \in [1 .. n -> {0, 1}], write(bs)
        PROVE  Inv' /\ [File!Next]_File!fileVars
    <2>1. Len(bs) \in Nat BY FunctionIsSequence
    <2> QED BY <1>2, <2>1, PutWrites, WritesStep DEF write
  <1>3. ASSUME NEW n \in 0 .. MaxBytes, read(n)
        PROVE  Inv' /\ [File!Next]_File!fileVars
    <2>1. n \in Nat /\ n <= getReadSize /\ Get(n)
      BY <1>3, ByteArrayAssumption DEF ByteArrayAssumption, read
    <2> QED BY <2>1, GetStep
  <1>4. ASSUME NEW v \in 0 .. MaxBytes, Seek(v)
        PROVE  Inv' /\ [File!Next]_File!fileVars
    <2>1. v \in Nat /\ setPosition(v)
      BY <1>4, ByteArrayAssumption DEF ByteArrayAssumption, Seek
    <2> QED BY <2>1, SeekStep
  <1>5. CASE clear BY <1>5, ClearStep
  <1>6. ASSUME NEW n \in 1 .. 3, NEW k \in 0 .. n, StreamRead([i \in 1 .. k |-> 1], n)
        PROVE  Inv' /\ [File!Next]_File!fileVars
    <2>1. PICK bs : bs = [i \in 1 .. k |-> 1] OBVIOUS
    <2>2. Len(bs) = k BY <2>1
    <2> QED BY <1>6, <2>1, <2>2, StreamReadWrites, WritesStep
  <1>7. ASSUME NEW length \in 1 .. 3, NEW size \in 1 .. 3, StreamWrite(length, size)
        PROVE  Inv' /\ [File!Next]_File!fileVars
    BY <1>7, StreamWriteStep
  <1>8. ASSUME NEW ty \in Types, NEW v \in ValuesOf(ty), WriteItem(ty, v)
        PROVE  Inv' /\ [File!Next]_File!fileVars
    BY <1>8, WriteItemWrites, WritesStep
  <1>9. CASE Rewind
    <2>1. setPosition(0) BY <1>9 DEF Rewind
    <2> QED BY <2>1, SeekStep
  <1>10. CASE ReadItem
    <2> DEFINE size == Takes(items[Len(got) + 1].type, Ahead(getReadSize))
    <2>1. size \in 0 .. getReadSize /\ (Crash \/ Get(size))
      BY <1>10 DEF ReadItem
    <2> HIDE DEF size
    <2>2. getReadSize \in Nat BY DEF getReadSize, Inv, ShapeOK
    <2>3. size \in Nat /\ size <= getReadSize BY <2>1, <2>2
    <2> QED BY <2>1, <2>3, CrashStep, GetStep
  <1> QED BY <1>1, <1>2, <1>3, <1>4, <1>5, <1>6, <1>7, <1>8, <1>9, <1>10 DEF Next

\* The invariant holds in every reachable state.
THEOREM ByteArrayInvariant == Spec => []Inv
  <1> QED BY ByteArrayInit, ByteArrayStep, PTL DEF Spec

\* The position stays within the data, the data within the capacity and the
\* capacity what the blocks add up to.
THEOREM BytesShape == Spec => [](ShapeOK /\ Contents)
  <1>1. Inv => ShapeOK /\ Contents BY DEF Inv
  <1> QED BY <1>1, ByteArrayInvariant, PTL

\* write, read, setPosition, clear, the codecs and the socket transfers all
\* leave m_cur at the block of the position, or null at the end of the capacity.
THEOREM BytesCurAtPosition == Spec => []CurAtPosition
  <1>1. Inv => CurAtPosition BY DEF Inv
  <1> QED BY <1>1, ByteArrayInvariant, PTL

\* ByteArray implements ByteFile: whatever blocks the bytes are spread over, what
\* is read is what was last written there, until an operation dereferences null.
THEOREM BytesIsFile == Spec => IsFile
  <1> QED BY ByteArrayInit, ByteArrayStep, ByteArrayInvariant, PTL DEF Spec, IsFile, File!Spec

-----------------------------------------------------------------------------
\* A set of numbers that holds any holds a least one.
LEMMA LeastNumber ==
  ASSUME NEW T, T \subseteq Nat, T # {}
  PROVE  \E x \in T : \A y \in T : x <= y
  <1> DEFINE R == {ss \in Nat \X Nat : ss[1] < ss[2]}
  <1>1. R = OpToRel(<, Nat)
    BY DEF OpToRel
  <1>2. IsWellFoundedOn(R, Nat)
    BY <1>1, NatLessThanWellFounded
  <1> HIDE DEF R
  <1>3. PICK x \in T : \A y \in T : ~ (<<y, x>> \in R)
    BY <1>2, WFMin
  <1>4. \A y \in T : ~(y < x)
    <2> TAKE y \in T
    <2>1. <<y, x>> \in Nat \X Nat /\ <<y, x>> \notin R
      BY <1>3
    <2> QED BY <2>1 DEF R
  <1> QED BY <1>4

\* A set that holds 0 and, with every number, the next one holds them all.
LEMMA Induct ==
  ASSUME NEW S, 0 \in S, \A n \in Nat : n \in S => n + 1 \in S
  PROVE  \A n \in Nat : n \in S
  <1> DEFINE T == Nat \ S
  <1> SUFFICES ASSUME T # {} PROVE FALSE OBVIOUS
  <1>1. T \subseteq Nat OBVIOUS
  <1> HIDE DEF T
  <1>2. PICK x \in T : \A y \in T : x <= y BY <1>1, LeastNumber
  <1> QED BY <1>2 DEF T

\* The function g on 0 .. N that begins with c and goes on with the steps h[k].
Recursive(g, c, h, N) == \A k \in 0 .. N : g[k] = IF k = 0 THEN c ELSE h[k][g[k - 1]]

\* A function that is defined by recursion over 0 .. N exists; step k of the
\* recursion is the function h[k].
LEMMA Recursion ==
  ASSUME NEW T, NEW c \in T, NEW N \in Nat, NEW h \in [1 .. N -> [T -> T]]
  PROVE  \E g \in [0 .. N -> T] : Recursive(g, c, h, N)
  <1> DEFINE S == {m \in Nat : m <= N => \E g \in [0 .. m -> T] : Recursive(g, c, h, m)}
  <1>1. 0 \in S
    <2>1. [k \in 0 .. 0 |-> c] \in [0 .. 0 -> T] /\ Recursive([k \in 0 .. 0 |-> c], c, h, 0)
      BY DEF Recursive
    <2> QED BY <2>1
  <1>2. ASSUME NEW m \in Nat, m \in S PROVE m + 1 \in S
    <2> SUFFICES ASSUME m + 1 <= N PROVE \E g \in [0 .. m + 1 -> T] : Recursive(g, c, h, m + 1)
      OBVIOUS
    <2>1. PICK g \in [0 .. m -> T] : Recursive(g, c, h, m)
      BY <1>2
    <2> DEFINE f == [k \in 0 .. m + 1 |-> IF k = m + 1 THEN h[m + 1][g[m]] ELSE g[k]]
    <2>2. g[m] \in T /\ m + 1 \in 1 .. N
      OBVIOUS
    <2>3. h[m + 1] \in [T -> T]
      BY <2>2
    <2>4. h[m + 1][g[m]] \in T
      BY <2>2, <2>3
    <2>5. f \in [0 .. m + 1 -> T]
      BY <2>4
    <2>6. ASSUME NEW k \in 0 .. m + 1 PROVE f[k] = IF k = 0 THEN c ELSE h[k][f[k - 1]]
      <3>1. CASE k = m + 1
        <4>1. f[k] = h[m + 1][g[m]] /\ f[k - 1] = g[m] /\ k # 0
          BY <3>1
        <4> QED BY <4>1, <3>1
      <3>2. CASE k # m + 1
        <4>1. k \in 0 .. m /\ f[k] = g[k] /\ (k # 0 => f[k - 1] = g[k - 1])
          BY <3>2
        <4>2. g[k] = IF k = 0 THEN c ELSE h[k][g[k - 1]]
          BY <4>1, <2>1 DEF Recursive
        <4> HIDE DEF f
        <4> QED BY <4>1, <4>2
      <3> QED BY <3>1, <3>2
    <2> HIDE DEF f
    <2> QED BY <2>5, <2>6 DEF Recursive
  <1> HIDE DEF S
  <1>3. \A m \in Nat : m \in S
    BY <1>1, <1>2, Induct
  <1>4. N \in S
    BY <1>3
  <1> QED BY <1>4 DEF S

\* There is one quotient and one remainder.
LEMMA DivUnique ==
  ASSUME NEW m \in Nat \ {0}, NEW q \in Int, NEW r \in 0 .. m - 1, NEW v \in Int,
         v = (q * m) + r
  PROVE  v \div m = q /\ v % m = r
  <1> DEFINE a == v \div m
             c == v % m
  <1>1. a \in Int /\ c \in 0 .. m - 1 /\ v = (m * a) + c
    OBVIOUS
  <1> HIDE DEF a, c
  <1>2. m * (a - q) = r - c
    BY <1>1
  <1> DEFINE d == a - q
  <1>3. d \in Int /\ m * d = r - c BY <1>1, <1>2
  <1> HIDE DEF d
  <1>4. d = 0
    <2>1. CASE d >= 1
      <3>1. m * d >= m BY <2>1, <1>3
      <3> QED BY <3>1, <1>1, <1>3
    <2>2. CASE d <= -1
      <3>1. m * d <= -m BY <2>2, <1>3
      <3> QED BY <3>1, <1>1, <1>3
    <2> QED BY <2>1, <2>2, <1>3
  <1>5. a = q /\ c = r
    BY <1>1, <1>3, <1>4 DEF d
  <1> QED BY <1>5 DEF a, c

\* The recursive function of Pow2, on the numbers up to N.
Doubles(g, N) == g \in [0 .. N -> Nat] /\ \A n \in 0 .. N : g[n] = IF n = 0 THEN 1 ELSE 2 * g[n - 1]

\* Pow2's recursion has a solution.
LEMMA Pow2Runs ==
  \A n \in Nat : Pow2[n] = IF n = 0 THEN 1 ELSE 2 * Pow2[n - 1]
  <1>1. ASSUME NEW N \in Nat PROVE \E g : Doubles(g, N)
    <2> DEFINE h == [k \in 1 .. N |-> [x \in Nat |-> 2 * x]]
    <2>1. h \in [1 .. N -> [Nat -> Nat]] OBVIOUS
    <2>2. \A k \in 1 .. N : \A x \in Nat : h[k][x] = 2 * x OBVIOUS
    <2> HIDE DEF h
    <2>3. PICK g \in [0 .. N -> Nat] : Recursive(g, 1, h, N) BY <2>1, Recursion
    <2>4. \A n \in 0 .. N : g[n] = IF n = 0 THEN 1 ELSE 2 * g[n - 1]
      <3> TAKE n \in 0 .. N
      <3>1. n # 0 => n \in 1 .. N /\ g[n - 1] \in Nat OBVIOUS
      <3> QED BY <3>1, <2>2, <2>3 DEF Recursive
    <2> QED BY <2>4 DEF Doubles
  <1>2. ASSUME NEW N \in Nat, NEW g, NEW f, Doubles(g, N), Doubles(f, N + 1)
        PROVE  f[N] = g[N]
    <2> DEFINE S == {n \in Nat : n <= N => f[n] = g[n]}
    <2>1. 0 \in S BY <1>2 DEF Doubles
    <2>2. ASSUME NEW n \in Nat, n \in S PROVE n + 1 \in S
      <3> SUFFICES ASSUME n + 1 <= N PROVE f[n + 1] = g[n + 1] OBVIOUS
      <3>1. f[n] = g[n] BY <2>2
      <3>2. n + 1 \in 0 .. N /\ n + 1 \in 0 .. N + 1 /\ n + 1 # 0 /\ (n + 1) - 1 = n OBVIOUS
      <3> QED BY <3>1, <3>2, <1>2 DEF Doubles
    <2> HIDE DEF S
    <2>3. N \in S BY <2>1, <2>2, Induct
    <2> QED BY <2>3 DEF S
  <1> DEFINE G(N) == CHOOSE g : Doubles(g, N)
             p == [n \in Nat |-> G(n)[n]]
  <1>3. \A n \in Nat : Doubles(G(n), n) BY <1>1
  <1> HIDE DEF G
  <1>4. \A n \in Nat : p[n] = IF n = 0 THEN 1 ELSE 2 * p[n - 1]
    <2> TAKE n \in Nat
    <2>1. p[n] = IF n = 0 THEN 1 ELSE 2 * G(n)[n - 1]
      BY <1>3 DEF Doubles
    <2>2. ASSUME n # 0 PROVE G(n)[n - 1] = p[n - 1]
      <3>1. PICK k \in Nat : k = n - 1 BY <2>2
      <3>2. n = k + 1 BY <3>1
      <3>3. Doubles(G(k), k) /\ Doubles(G(n), k + 1) BY <1>3, <3>2
      <3>4. G(n)[k] = G(k)[k] BY <3>3, <1>2
      <3> QED BY <3>4, <3>1
    <2> QED BY <2>1, <2>2
  <1>5. p = [n \in Nat |-> IF n = 0 THEN 1 ELSE 2 * p[n - 1]]
    BY <1>4
  <1> HIDE DEF p
  <1>6. Pow2 = [n \in Nat |-> IF n = 0 THEN 1 ELSE 2 * Pow2[n - 1]]
    BY <1>5 DEF Pow2
  <1> QED BY <1>6

\* A power of two is a positive number.
LEMMA Pow2Type == \A n \in Nat : Pow2[n] \in Nat \ {0}
  <1> DEFINE S == {n \in Nat : Pow2[n] \in Nat \ {0}}
  <1>1. 0 \in S BY Pow2Runs
  <1>2. ASSUME NEW n \in Nat, n \in S PROVE n + 1 \in S
    <2>1. n + 1 \in Nat /\ n + 1 # 0 /\ (n + 1) - 1 = n OBVIOUS
    <2>2. Pow2[n + 1] = 2 * Pow2[n] BY <2>1, Pow2Runs
    <2> QED BY <1>2, <2>2
  <1> HIDE DEF S
  <1>3. \A n \in Nat : n \in S BY <1>1, <1>2, Induct
  <1> QED BY <1>3 DEF S

\* One more bit doubles it.
LEMMA Pow2Next == \A n \in Nat : Pow2[n + 1] = 2 * Pow2[n]
  <1> TAKE n \in Nat
  <1>1. n + 1 \in Nat /\ n + 1 # 0 /\ (n + 1) - 1 = n OBVIOUS
  <1> QED BY <1>1, Pow2Runs

\* The bits of two numbers side by side.
LEMMA Pow2Plus ==
  ASSUME NEW a \in Nat
  PROVE  \A b \in Nat : Pow2[a + b] = Pow2[a] * Pow2[b]
  <1> DEFINE S == {b \in Nat : Pow2[a + b] = Pow2[a] * Pow2[b]}
  <1>1. 0 \in S
    <2>1. Pow2[0] = 1 /\ a + 0 = a BY Pow2Runs
    <2>2. Pow2[a] \in Nat BY Pow2Type
    <2> QED BY <2>1, <2>2
  <1>2. ASSUME NEW b \in Nat, b \in S PROVE b + 1 \in S
    <2>1. PICK c \in Nat : c = a + b OBVIOUS
    <2>2. Pow2[c + 1] = 2 * Pow2[c] BY Pow2Next
    <2>3. Pow2[b + 1] = 2 * Pow2[b] BY Pow2Next
    <2>4. Pow2[c] = Pow2[a] * Pow2[b] BY <1>2, <2>1
    <2>5. a + (b + 1) = c + 1 BY <2>1
    <2>6. PICK x \in Nat, y \in Nat : x = Pow2[a] /\ y = Pow2[b] BY Pow2Type
    <2>7. 2 * (x * y) = x * (2 * y) OBVIOUS
    <2>8. Pow2[a + (b + 1)] = Pow2[a] * Pow2[b + 1] BY <2>2, <2>3, <2>4, <2>5, <2>6, <2>7
    <2> QED BY <2>8
  <1> HIDE DEF S
  <1>3. \A n \in Nat : n \in S BY <1>1, <1>2, Induct
  <1> QED BY <1>3 DEF S

\* More bits, more values.
LEMMA Pow2Grows ==
  ASSUME NEW a \in Nat, NEW b \in Nat, a <= b
  PROVE  Pow2[a] <= Pow2[b]
  <1>1. PICK c \in Nat : c = b - a OBVIOUS
  <1>2. Pow2[a + c] = Pow2[a] * Pow2[c] BY Pow2Plus
  <1>3. PICK x \in Nat \ {0}, y \in Nat \ {0} : x = Pow2[a] /\ y = Pow2[c] BY Pow2Type
  <1>4. x <= x * y OBVIOUS
  <1>5. a + c = b BY <1>1
  <1> QED BY <1>2, <1>3, <1>4, <1>5

\* The digits of a number, one digit and the rest.
LEMMA DivModMul ==
  ASSUME NEW v \in Nat, NEW q \in Nat \ {0}, NEW p \in Nat \ {0}
  PROVE  /\ v % (q * p) = (v % q) + (((v \div q) % p) * q)
         /\ v \div (q * p) = (v \div q) \div p
  <1>1. PICK a \in Nat, r \in 0 .. q - 1 : a = v \div q /\ r = v % q /\ v = (q * a) + r
    OBVIOUS
  <1>2. PICK c \in Nat, d \in 0 .. p - 1 : c = a \div p /\ d = a % p /\ a = (p * c) + d
    OBVIOUS
  <1>3. v = (c * (q * p)) + (r + (d * q))
    <2>1. q * ((p * c) + d) = (c * (q * p)) + (d * q) OBVIOUS
    <2>2. q * a = (c * (q * p)) + (d * q) BY <2>1, <1>2
    <2>3. c * (q * p) \in Nat /\ d * q \in Nat OBVIOUS
    <2>4. PICK x \in Nat, y \in Nat, z \in Nat : x = q * a /\ y = c * (q * p) /\ z = d * q
      BY <2>3
    <2>5. x = y + z /\ v = x + r BY <2>2, <2>4, <1>1
    <2>6. v = y + (r + z) BY <2>5
    <2> QED BY <2>4, <2>6
  <1>4. r + (d * q) \in 0 .. (q * p) - 1
    <2>1. d * q <= (p - 1) * q OBVIOUS
    <2>2. (p - 1) * q = (q * p) - q OBVIOUS
    <2>3. d * q \in Nat OBVIOUS
    <2>4. q * p \in Nat OBVIOUS
    <2> QED BY <2>1, <2>2, <2>3, <2>4
  <1>5. q * p \in Nat \ {0} OBVIOUS
  <1>6. PICK m \in Nat \ {0} : m = q * p BY <1>5
  <1>7. PICK z \in 0 .. m - 1 : z = r + (d * q) BY <1>4, <1>6
  <1>8. v = (c * m) + z BY <1>3, <1>6, <1>7
  <1>9. v \div m = c /\ v % m = z BY <1>8, DivUnique
  <1> QED BY <1>1, <1>2, <1>6, <1>7, <1>9

\* The recursive function of NumberOf.
Sums(sum, ds, bits) ==
  sum = [i \in 0 .. Len(ds) |->
           IF i = 0 THEN 0 ELSE sum[i - 1] + ds[i] * Pow2[bits * (i - 1)]]

\* What NumberOf adds up.
Adds(sum, ds, n, bits) ==
  /\ sum[0] = 0 /\ NumberOf(ds, bits) = sum[n]
  /\ \A i \in Nat : i + 1 <= n => sum[i + 1] = sum[i] + ds[i + 1] * Pow2[bits * i]

\* NumberOf's recursive function exists and adds up the digits.
LEMMA NumberRuns ==
  ASSUME NEW ds, NEW n \in Nat, Len(ds) = n, \A i \in 1 .. n : ds[i] \in Nat, NEW bits \in Nat
  PROVE  \E sum \in [0 .. n -> Nat] : Adds(sum, ds, n, bits)
  <1> DEFINE h == [k \in 1 .. n |-> [x \in Nat |-> x + ds[k] * Pow2[bits * (k - 1)]]]
  <1>1. \A k \in 1 .. n : ds[k] * Pow2[bits * (k - 1)] \in Nat
    <2> TAKE k \in 1 .. n
    <2>1. PICK e \in Nat : e = bits * (k - 1) OBVIOUS
    <2>2. Pow2[e] \in Nat /\ ds[k] \in Nat BY Pow2Type
    <2> QED BY <2>1, <2>2
  <1>2. h \in [1 .. n -> [Nat -> Nat]] BY <1>1
  <1>3. \A k \in 1 .. n : \A x \in Nat : h[k][x] = x + ds[k] * Pow2[bits * (k - 1)] OBVIOUS
  <1> HIDE DEF h
  <1>4. \E g \in [0 .. n -> Nat] : Recursive(g, 0, h, n) BY <1>2, Recursion
  <1>5. \E g \in [0 .. n -> Nat] : Sums(g, ds, bits)
    <2>1. PICK g \in [0 .. n -> Nat] : Recursive(g, 0, h, n) BY <1>4
    <2>2. \A i \in 0 .. n : g[i] = IF i = 0 THEN 0 ELSE g[i - 1] + ds[i] * Pow2[bits * (i - 1)]
      <3> TAKE i \in 0 .. n
      <3>1. i # 0 => i \in 1 .. n /\ g[i - 1] \in Nat OBVIOUS
      <3> QED BY <3>1, <1>3, <2>1 DEF Recursive
    <2>3. Sums(g, ds, bits) BY <2>2 DEF Sums
    <2> QED BY <2>3
  <1> DEFINE sum == CHOOSE g : Sums(g, ds, bits)
  <1>6. Sums(sum, ds, bits) BY <1>5
  <1>7. NumberOf(ds, bits) = sum[n] BY DEF NumberOf, Sums
  <1> HIDE DEF sum
  <1>8. \A i \in 0 .. n : sum[i] = IF i = 0 THEN 0 ELSE sum[i - 1] + ds[i] * Pow2[bits * (i - 1)]
    BY <1>6 DEF Sums
  <1>9. \A i \in Nat : i + 1 <= n => sum[i + 1] = sum[i] + ds[i + 1] * Pow2[bits * i]
    <2> TAKE i \in Nat
    <2>1. i + 1 <= n => i + 1 \in 0 .. n OBVIOUS
    <2>2. i + 1 # 0 /\ (i + 1) - 1 = i OBVIOUS
    <2> QED BY <2>1, <2>2, <1>8
  <1>10. \A i \in 0 .. n : sum[i] \in Nat
    <2> DEFINE S == {i \in Nat : i <= n => sum[i] \in Nat}
    <2>1. 0 \in S BY <1>8
    <2>2. ASSUME NEW i \in Nat, i \in S PROVE i + 1 \in S
      <3> SUFFICES ASSUME i + 1 <= n PROVE sum[i + 1] \in Nat OBVIOUS
      <3>1. sum[i + 1] = sum[i] + ds[i + 1] * Pow2[bits * i] BY <1>9
      <3>2. sum[i] \in Nat BY <2>2
      <3>3. i + 1 \in 1 .. n /\ (i + 1) - 1 = i OBVIOUS
      <3>4. ds[i + 1] * Pow2[bits * i] \in Nat BY <3>3, <1>1
      <3> QED BY <3>1, <3>2, <3>4
    <2> HIDE DEF S
    <2>3. \A i \in Nat : i \in S BY <2>1, <2>2, Induct
    <2> QED BY <2>3 DEF S
  <1>11. sum \in [0 .. n -> Nat]
    <2>1. sum = [i \in 0 .. n |-> sum[i]] BY <1>6 DEF Sums
    <2> QED BY <2>1, <1>10
  <1>12. sum[0] = 0 BY <1>8
  <1>13. Adds(sum, ds, n, bits) BY <1>7, <1>9, <1>12 DEF Adds
  <1> QED BY <1>11, <1>13

\* The digits of a number stand for what is left of it in so many bits.
LEMMA NumberOfDigits ==
  ASSUME NEW ds, NEW n \in Nat, NEW bits \in Nat, NEW v \in Nat, Len(ds) = n,
         \A i \in 1 .. n : ds[i] = Digit(v, bits, i)
  PROVE  NumberOf(ds, bits) = v % Pow2[bits * n]
  <1>1. PICK p \in Nat \ {0} : p = Pow2[bits] BY Pow2Type
  <1>2. \A i \in Nat : bits * i \in Nat /\ Pow2[bits * i] \in Nat \ {0}
    <2> TAKE i \in Nat
    <2>1. bits * i \in Nat OBVIOUS
    <2> QED BY <2>1, Pow2Type
  <1>3. \A i \in Nat : i + 1 <= n => ds[i + 1] = (v \div Pow2[bits * i]) % p
    <2> TAKE i \in Nat
    <2> SUFFICES ASSUME i + 1 <= n PROVE ds[i + 1] = (v \div Pow2[bits * i]) % p
      OBVIOUS
    <2>1. i + 1 \in 1 .. n /\ (i + 1) - 1 = i OBVIOUS
    <2> QED BY <2>1, <1>1 DEF Digit
  <1>4. \A i \in 1 .. n : ds[i] \in Nat
    <2> TAKE i \in 1 .. n
    <2>1. PICK j \in Nat : i = j + 1 /\ j + 1 <= n
      <3>1. i - 1 \in Nat /\ i = (i - 1) + 1 OBVIOUS
      <3> QED BY <3>1
    <2>2. ds[i] = (v \div Pow2[bits * j]) % p BY <2>1, <1>3
    <2>3. PICK q \in Nat \ {0} : q = Pow2[bits * j] BY <1>2
    <2>4. (v \div q) % p \in Nat OBVIOUS
    <2> QED BY <2>2, <2>3, <2>4
  <1>5. PICK sum \in [0 .. n -> Nat] : Adds(sum, ds, n, bits)
    BY <1>4, NumberRuns
  <1> DEFINE S == {i \in Nat : i <= n => sum[i] = v % Pow2[bits * i]}
  <1>6. 0 \in S
    <2>1. bits * 0 = 0 OBVIOUS
    <2>2. Pow2[bits * 0] = 1 BY <2>1, Pow2Runs
    <2>3. v % 1 = 0 OBVIOUS
    <2> QED BY <2>2, <2>3, <1>5 DEF Adds
  <1>7. ASSUME NEW i \in Nat, i \in S PROVE i + 1 \in S
    <2> SUFFICES ASSUME i + 1 <= n PROVE sum[i + 1] = v % Pow2[bits * (i + 1)]
      OBVIOUS
    <2>1. PICK q \in Nat \ {0} : q = Pow2[bits * i] BY <1>2
    <2>2. sum[i] = v % q BY <1>7, <2>1
    <2>3. sum[i + 1] = (v % q) + (((v \div q) % p) * q)
      BY <1>3, <1>5, <2>1, <2>2 DEF Adds
    <2>4. Pow2[bits * (i + 1)] = q * p
      <3>1. PICK e \in Nat : e = bits * i BY <1>2
      <3>2. bits * (i + 1) = e + bits BY <3>1
      <3>3. Pow2[e + bits] = Pow2[e] * Pow2[bits] BY Pow2Plus
      <3> QED BY <3>1, <3>2, <3>3, <2>1, <1>1
    <2>5. v % (q * p) = (v % q) + (((v \div q) % p) * q) BY DivModMul
    <2> QED BY <2>3, <2>4, <2>5
  <1> HIDE DEF S
  <1>8. n \in S BY <1>6, <1>7, Induct
  <1> QED BY <1>5, <1>8 DEF S, Adds

\* A byte has a bit for the flag and at least one for a varint's group.
LEMMA BitsType ==
  /\ ByteBits \in Nat \ {0, 1} /\ Group \in Nat \ {0} /\ Group = ByteBits - 1
  /\ More = Pow2[Group] /\ More \in Nat \ {0}
  <1>1. ByteBits \in Nat \ {0, 1} /\ Group \in Nat \ {0} /\ Group = ByteBits - 1
    BY ByteArrayAssumption DEF ByteArrayAssumption, Group
  <1>2. Pow2[Group] \in Nat \ {0} BY <1>1, Pow2Type
  <1> QED BY <1>1, <1>2 DEF More

\* bs goes on with anything after the bytes e.
Begins(bs, e) ==
  /\ Sequence(bs) /\ Len(e) \in Nat /\ Len(e) <= Len(bs)
  /\ \A i \in 1 .. Len(e) : bs[i] = e[i]

\* A number that fits in n bytes is what those bytes stand for.
LEMMA LittleEndianReadsBack ==
  ASSUME NEW n \in Nat, NEW v \in Nat, v < Pow2[Width(n)]
  PROVE  FromLittle(LittleEndian(v, n)) = v
  <1> DEFINE ds == LittleEndian(v, n)
  <1>1. Len(ds) = n /\ \A i \in 1 .. n : ds[i] = Digit(v, ByteBits, i)
    BY DEF LittleEndian
  <1> HIDE DEF ds
  <1>2. NumberOf(ds, ByteBits) = v % Pow2[ByteBits * n]
    BY <1>1, BitsType, NumberOfDigits
  <1>3. ByteBits * n \in Nat BY BitsType
  <1>4. PICK p \in Nat \ {0} : p = Pow2[ByteBits * n] BY <1>3, Pow2Type
  <1>5. v % p = v BY <1>4 DEF Width
  <1> QED BY <1>2, <1>4, <1>5 DEF ds, FromLittle

\* Swapping the bytes twice is not swapping them.
LEMMA SwapTwice ==
  ASSUME NEW n \in Nat, NEW bs, bs = [i \in 1 .. n |-> bs[i]]
  PROVE  /\ Swap(Swap(bs)) = bs
         /\ Swap(bs) = [i \in 1 .. n |-> Swap(bs)[i]] /\ Len(Swap(bs)) = n
  <1>1. Len(bs) = n OBVIOUS
  <1>2. Reverse(bs) = [i \in 1 .. n |-> bs[(n - i) + 1]] BY <1>1 DEF Reverse
  <1>3. Len(Reverse(bs)) = n BY <1>2
  <1>4. Reverse(Reverse(bs)) = [i \in 1 .. n |-> Reverse(bs)[(n - i) + 1]]
    BY <1>3 DEF Reverse
  <1>5. \A i \in 1 .. n : Reverse(bs)[(n - i) + 1] = bs[i]
    <2> TAKE i \in 1 .. n
    <2>1. PICK j \in 1 .. n : j = (n - i) + 1 OBVIOUS
    <2>2. (n - j) + 1 = i BY <2>1
    <2>3. Reverse(bs)[j] = bs[(n - j) + 1] BY <1>2
    <2> QED BY <2>1, <2>2, <2>3
  <1>6. Reverse(Reverse(bs)) = bs BY <1>4, <1>5
  <1>7. CASE m_endian = "little" BY <1>1, <1>7 DEF Swap
  <1>8. CASE m_endian # "little" BY <1>2, <1>3, <1>6, <1>8 DEF Swap
  <1> QED BY <1>7, <1>8

\* The numbers of a type with w bits.
UnsignedOf(w) == 0 .. Pow2[w] - 1
SignedOf(w) == -Pow2[w - 1] .. Pow2[w - 1] - 1

\* The conversions of signed numbers are inverse.
LEMMA SignedReadsBack ==
  ASSUME NEW w \in Nat \ {0}, NEW v \in SignedOf(w)
  PROVE  /\ ToUnsigned(v, w) \in UnsignedOf(w) /\ ToSigned(ToUnsigned(v, w), w) = v
         /\ EncodeZigzag(v, w) \in UnsignedOf(w) /\ DecodeZigzag(EncodeZigzag(v, w)) = v
  <1>1. PICK k \in Nat : k = w - 1 OBVIOUS
  <1>2. PICK p \in Nat \ {0} : p = Pow2[k] BY Pow2Type
  <1>3. Pow2[w] = 2 * p
    <2>1. Pow2[k + 1] = 2 * Pow2[k] BY Pow2Next
    <2>2. k + 1 = w BY <1>1
    <2> QED BY <2>1, <2>2, <1>2
  <1>4. v \in -p .. p - 1 BY <1>1, <1>2 DEF SignedOf
  <1>5. PICK q \in Nat \ {0} : q = 2 * p OBVIOUS
  <1>6. CASE v >= 0
    <2>1. v % q = v BY <1>4, <1>5, <1>6
    <2>2. ToUnsigned(v, w) = v BY <2>1, <1>3, <1>5 DEF ToUnsigned
    <2>3. ToSigned(v, w) = v BY <1>1, <1>2, <1>4 DEF ToSigned
    <2>4. EncodeZigzag(v, w) = 2 * v BY <1>6, <1>4 DEF EncodeZigzag
    <2>5. PICK u \in Nat : u = 2 * v BY <1>4, <1>6
    <2>6. u % 2 = 0 /\ u \div 2 = v BY <2>5, <1>4, <1>6
    <2>7. DecodeZigzag(u) = v BY <2>6 DEF DecodeZigzag
    <2>8. u \in 0 .. q - 1 /\ v \in 0 .. q - 1 BY <2>5, <1>4, <1>5, <1>6
    <2> QED BY <2>2, <2>3, <2>4, <2>5, <2>7, <2>8, <1>3, <1>5 DEF UnsignedOf
  <1>7. CASE v < 0
    <2>1. v = ((-1) * q) + (v + q) /\ v + q \in 0 .. q - 1 BY <1>4, <1>5, <1>7
    <2>2. v % q = v + q
      <3>1. PICK x \in 0 .. q - 1, y \in Int : x = v + q /\ y = -1 BY <2>1
      <3>2. v = (y * q) + x /\ v \in Int BY <3>1, <1>4
      <3>3. v % q = x BY <3>2, DivUnique
      <3> QED BY <3>1, <3>3
    <2>3. ToUnsigned(v, w) = v + q BY <2>2, <1>3, <1>5 DEF ToUnsigned
    <2>4. PICK z \in Nat : z = v + q /\ z \in 0 .. q - 1 BY <2>1
    <2>5. z >= p /\ z - q = v BY <2>4, <1>4, <1>5
    <2>6. ToSigned(z, w) = v BY <2>5, <1>1, <1>2, <1>3, <1>5 DEF ToSigned
    <2>7. PICK u \in Nat : u = 2 * (-v) - 1 /\ u \in 0 .. q - 1 BY <1>4, <1>5, <1>7
    <2>8. u % q = u BY <2>7, <1>5
    <2>9. EncodeZigzag(v, w) = u BY <2>7, <2>8, <1>3, <1>4, <1>5, <1>7 DEF EncodeZigzag
    <2>10. u % 2 = 1 /\ u \div 2 = (-v) - 1
      <3>1. PICK x \in Int : x = (-v) - 1 BY <1>4
      <3>2. u = (x * 2) + 1 BY <2>7, <1>4, <3>1
      <3>3. 2 \in Nat \ {0} /\ 1 \in 0 .. 2 - 1 /\ u \in Int OBVIOUS
      <3>4. u \div 2 = x /\ u % 2 = 1 BY <3>2, <3>3, DivUnique
      <3> QED BY <3>1, <3>4
    <2>11. DecodeZigzag(u) = v BY <2>10, <1>4 DEF DecodeZigzag
    <2> QED BY <2>3, <2>4, <2>6, <2>7, <2>9, <2>11, <1>3, <1>5 DEF UnsignedOf
  <1> QED BY <1>4, <1>6, <1>7

\* What the reading loop takes is what a number was written as, and all of it.
LEMMA GroupsCover ==
  ASSUME NEW w \in Nat \ {0}, NEW v \in UnsignedOf(w)
  PROVE  /\ GroupsOf(v, w) \in 1 .. (w + Group - 1) \div Group
         /\ v < Pow2[Group * GroupsOf(v, w)]
  <1>1. PICK g \in Nat \ {0} : g = Group BY BitsType
  <1>2. PICK m \in Nat, r \in 0 .. g - 1 : m = (w - 1) \div g /\ w - 1 = (m * g) + r
    <2>1. w - 1 \in Nat OBVIOUS
    <2>2. PICK x \in Nat : x = w - 1 BY <2>1
    <2>3. x \div g \in Nat /\ x % g \in 0 .. g - 1 /\ x = (g * (x \div g)) + (x % g) OBVIOUS
    <2>4. g * (x \div g) = (x \div g) * g BY <2>3
    <2> QED BY <2>2, <2>3, <2>4
  <1>3. (w + Group - 1) \div Group = m + 1
    <2>1. w + g - 1 = ((m + 1) * g) + r
      <3>1. (m + 1) * g = (m * g) + g OBVIOUS
      <3>2. PICK y \in Nat : y = m * g OBVIOUS
      <3> QED BY <3>1, <3>2, <1>2
    <2>2. PICK x \in Int, k \in Int : x = w + g - 1 /\ k = m + 1 OBVIOUS
    <2>3. x = (k * g) + r BY <2>1, <2>2
    <2>4. x \div g = k BY <2>3, DivUnique
    <2> QED BY <2>2, <2>4, <1>1
  <1>4. \A i \in Nat : g * i \in Nat /\ Pow2[g * i] \in Nat \ {0}
    <2> TAKE i \in Nat
    <2>1. g * i \in Nat OBVIOUS
    <2> QED BY <2>1, Pow2Type
  <1>5. v \in Nat /\ v < Pow2[w]
    <2>1. Pow2[w] \in Nat BY Pow2Type
    <2> QED BY <2>1 DEF UnsignedOf
  <1> DEFINE D == {i \in 1 .. m : v \div Pow2[g * i] > 0}
  <1>6. \A i \in 1 .. m : i \in D <=> Pow2[g * i] <= v
    <2> TAKE i \in 1 .. m
    <2>0. i \in Nat OBVIOUS
    <2>1. PICK q \in Nat \ {0} : q = Pow2[g * i] BY <2>0, <1>4
    <2>2. v \div q > 0 <=> q <= v BY <1>5
    <2> QED BY <2>1, <2>2
  <1>7. GroupsOf(v, w) = 1 + Cardinality(D) BY <1>1, <1>2 DEF GroupsOf
  <1>8. D \subseteq 1 .. m OBVIOUS
  <1> HIDE DEF D
  <1>9. PICK k \in Nat : k + 1 \notin D /\ \A j \in Nat : j + 1 \notin D => k <= j
    <2> DEFINE T == {j \in Nat : j + 1 \notin D}
    <2>1. m \in T BY <1>8
    <2>2. T \subseteq Nat /\ T # {} BY <2>1
    <2> HIDE DEF T
    <2>3. PICK k \in T : \A j \in T : k <= j BY <2>2, LeastNumber
    <2> QED BY <2>3 DEF T
  <1>10. k <= m BY <1>8, <1>9
  <1>11. D = 1 .. k
    <2>1. ASSUME NEW i \in 1 .. k PROVE i \in D
      <3>1. PICK j \in Nat : j + 1 = i
        <4>1. i - 1 \in Nat /\ (i - 1) + 1 = i OBVIOUS
        <4> QED BY <4>1
      <3> QED BY <3>1, <1>9
    <2>2. ASSUME NEW i \in D PROVE i \in 1 .. k
      <3>1. i \in 1 .. m BY <1>8
      <3> SUFFICES ASSUME i > k PROVE FALSE BY <3>1
      <3>2. PICK c \in 1 .. m : c = k + 1 BY <3>1
      <3>3. PICK a \in Nat, b \in Nat : a = g * c /\ b = g * i BY <3>1
      <3>4. a <= b BY <3>1, <3>2, <3>3
      <3>5. Pow2[a] <= Pow2[b] BY <3>4, Pow2Grows
      <3>6. Pow2[b] <= v BY <3>1, <3>3, <1>6
      <3>7. Pow2[a] \in Nat /\ Pow2[b] \in Nat BY Pow2Type
      <3>8. Pow2[a] <= v BY <3>5, <3>6, <3>7, <1>5
      <3>9. c \in D BY <3>2, <3>3, <3>8, <1>6
      <3> QED BY <3>2, <3>9, <1>9
    <2> QED BY <2>1, <2>2
  <1>12. Cardinality(D) = k
    <2>1. 1 \in Int /\ k \in Int OBVIOUS
    <2>2. Cardinality(1 .. k) = IF 1 > k THEN 0 ELSE k - 1 + 1 BY <2>1, FS_Interval
    <2> QED BY <2>2, <1>11
  <1>13. GroupsOf(v, w) = k + 1 BY <1>7, <1>12
  <1>14. v < Pow2[g * (k + 1)]
    <2>1. PICK c \in Nat : c = k + 1 OBVIOUS
    <2>2. Pow2[g * c] \in Nat BY <1>4
    <2>3. CASE k < m
      <3>1. c \in 1 .. m /\ c \notin D BY <2>1, <2>3, <1>9
      <3> QED BY <3>1, <2>1, <2>2, <1>5, <1>6
    <2>4. CASE k = m
      <3>1. w <= g * c
        <4>1. g * (m + 1) = (m * g) + g OBVIOUS
        <4>2. PICK y \in Nat : y = m * g OBVIOUS
        <4> QED BY <4>1, <4>2, <2>1, <2>4, <1>2
      <3>2. PICK e \in Nat : e = g * c BY <1>4
      <3>3. Pow2[w] <= Pow2[e] BY <3>1, <3>2, Pow2Grows
      <3>4. Pow2[w] \in Nat BY Pow2Type
      <3> QED BY <3>2, <3>3, <3>4, <2>1, <2>2, <1>5
    <2> QED BY <2>3, <2>4, <1>10
  <1> QED BY <1>1, <1>3, <1>10, <1>13, <1>14

\* Every byte but a varint's last has the flag, and what is below the flag is the
\* digit.
LEMMA VarintBytes ==
  ASSUME NEW w \in Nat \ {0}, NEW v \in UnsignedOf(w)
  PROVE  /\ Len(EncodeVarint(v, w)) = GroupsOf(v, w)
         /\ \A i \in 1 .. GroupsOf(v, w) :
              /\ EncodeVarint(v, w)[i] < More <=> i = GroupsOf(v, w)
              /\ EncodeVarint(v, w)[i] % More = Digit(v, Group, i)
  <1> DEFINE n == GroupsOf(v, w)
             e == EncodeVarint(v, w)
  <1>1. n \in Nat BY GroupsType
  <1>2. e = [i \in 1 .. n |-> Digit(v, Group, i) + (IF i < n THEN More ELSE 0)]
    BY DEF EncodeVarint
  <1> HIDE DEF n, e
  <1>3. Len(e) = n BY <1>1, <1>2
  <1>4. ASSUME NEW i \in 1 .. n
        PROVE  (e[i] < More <=> i = n) /\ e[i] % More = Digit(v, Group, i)
    <2>1. PICK p \in Nat \ {0} : p = More /\ p = Pow2[Group] BY BitsType
    <2>2. PICK x \in Nat : x = Group * (i - 1) BY BitsType, <1>1
    <2>3. PICK q \in Nat \ {0} : q = Pow2[x] BY Pow2Type
    <2>4. v \in Nat
      <3>1. Pow2[w] \in Nat BY Pow2Type
      <3> QED BY <3>1 DEF UnsignedOf
    <2>5. PICK d \in 0 .. p - 1 : d = Digit(v, Group, i)
      <3>1. v \div q \in Nat BY <2>4
      <3>2. (v \div q) % p \in 0 .. p - 1 BY <3>1
      <3> QED BY <3>2, <2>1, <2>2, <2>3 DEF Digit
    <2>6. e[i] = d + (IF i < n THEN p ELSE 0) BY <1>2, <2>1, <2>5
    <2>7. (d + p) % p = d
      <3>1. PICK z \in Int : z = d + p OBVIOUS
      <3>2. z = (1 * p) + d /\ 1 \in Int BY <3>1
      <3>3. z % p = d BY <3>2, DivUnique
      <3> QED BY <3>1, <3>3
    <2>8. d % p = d OBVIOUS
    <2>9. CASE i < n BY <2>1, <2>5, <2>6, <2>7, <2>9, <1>1
    <2>10. CASE i = n BY <2>1, <2>5, <2>6, <2>8, <2>10, <1>1
    <2> QED BY <2>9, <2>10, <1>1
  <1> QED BY <1>3, <1>4 DEF n, e

\* A varint is read to its end and no further, and stands for the number.
LEMMA VarintReadsBack ==
  ASSUME NEW w \in Nat \ {0}, NEW v \in UnsignedOf(w), NEW bs, Begins(bs, EncodeVarint(v, w))
  PROVE  /\ VarintTakes(bs, w) = Len(EncodeVarint(v, w))
         /\ DecodeVarint(bs, VarintTakes(bs, w), w) = v
  <1> DEFINE e == EncodeVarint(v, w)
  <1>1. PICK n \in Nat : n = GroupsOf(v, w) /\ n \in 1 .. (w + Group - 1) \div Group
    BY GroupsCover
  <1>2. Len(e) = n /\ \A i \in 1 .. n : (e[i] < More <=> i = n) /\ e[i] % More = Digit(v, Group, i)
    BY <1>1, VarintBytes
  <1>3. v < Pow2[Group * n] BY <1>1, GroupsCover
  <1> HIDE DEF e
  <1>4. Len(bs) \in Nat /\ n <= Len(bs) /\ \A i \in 1 .. n : bs[i] = e[i]
    BY <1>2 DEF Begins, Sequence, e
  <1>5. VarintTakes(bs, w) = n
    <2> DEFINE limit == (w + Group - 1) \div Group
               most == Min({limit, Len(bs)})
               ends == {i \in 1 .. most : bs[i] < More}
    <2>1. limit \in Nat BY BitsType
    <2>2. most \in Nat /\ n <= most
      <3> HIDE DEF limit
      <3>1. PICK x \in Nat, y \in Nat : x = limit /\ y = Len(bs) BY <2>1, <1>4
      <3>2. Min({x, y}) = x \/ Min({x, y}) = y BY DEF Min
      <3>3. n <= x /\ n <= y BY <3>1, <1>1, <1>4 DEF limit
      <3> QED BY <3>1, <3>2, <3>3
    <2>3. VarintTakes(bs, w) = IF ends = {} THEN limit ELSE Min(ends) BY DEF VarintTakes
    <2> HIDE DEF limit, most
    <2>4. n \in ends BY <1>1, <1>2, <1>4, <2>2
    <2>5. \A i \in ends : n <= i
      <3> TAKE i \in ends
      <3>1. i \in 1 .. most /\ bs[i] < More OBVIOUS
      <3> SUFFICES ASSUME i < n PROVE FALSE BY <3>1, <1>1, <2>2
      <3>2. i \in 1 .. n BY <3>1, <2>2
      <3> QED BY <3>1, <3>2, <1>2, <1>4
    <2>6. ends \subseteq Int OBVIOUS
    <2> HIDE DEF ends
    <2>7. Min(ends) = n
      <3>1. Min(ends) \in ends /\ \A y \in ends : Min(ends) <= y
        BY <2>4, <2>5 DEF Min
      <3>2. Min(ends) \in Int /\ Min(ends) <= n /\ n <= Min(ends) BY <3>1, <2>4, <2>5, <2>6
      <3> QED BY <3>2
    <2> QED BY <2>3, <2>4, <2>7
  <1>6. DecodeVarint(bs, n, w) = v
    <2> DEFINE ds == [i \in 1 .. n |-> bs[i] % More]
    <2>1. Len(ds) = n /\ \A i \in 1 .. n : ds[i] = Digit(v, Group, i) BY <1>2, <1>4
    <2>2. DecodeVarint(bs, n, w) = NumberOf(ds, Group) % Pow2[w] BY DEF DecodeVarint
    <2> HIDE DEF ds
    <2>3. v \in Nat /\ v < Pow2[w]
      <3>1. Pow2[w] \in Nat BY Pow2Type
      <3> QED BY <3>1 DEF UnsignedOf
    <2>4. NumberOf(ds, Group) = v % Pow2[Group * n]
      BY <2>1, <2>3, BitsType, NumberOfDigits
    <2>5. PICK p \in Nat \ {0}, q \in Nat \ {0} : p = Pow2[Group * n] /\ q = Pow2[w]
      <3>1. Group * n \in Nat BY BitsType
      <3> QED BY <3>1, Pow2Type
    <2>6. v % p = v /\ v % q = v BY <2>3, <2>5, <1>3
    <2> QED BY <2>2, <2>4, <2>5, <2>6
  <1> QED BY <1>2, <1>5, <1>6 DEF e

\* The bytes of a number's type; the types of numbers.
SizeOf(ty) == IF ty \in DOMAIN Fixed THEN Fixed[ty] ELSE Varint[ty]
Numbers == DOMAIN Fixed \cup DOMAIN Varint

\* Every value of a type, not only those at its edges.
NumbersOf(ty) == IF ty \in Signed THEN SignedOf(Width(SizeOf(ty))) ELSE UnsignedOf(Width(SizeOf(ty)))

\* A number is read back, and nothing behind it is taken.
LEMMA NumberReadsBack ==
  ASSUME NEW ty \in Numbers, NEW v \in NumbersOf(ty), NEW bs, Begins(bs, EncodeNumber(ty, v))
  PROVE  NumberTakes(ty, bs) = Len(EncodeNumber(ty, v)) /\ DecodeNumber(ty, bs) = v
  <1> DEFINE n == SizeOf(ty)
             w == Width(n)
  <1>1. n \in Nat \ {0} BY DEF SizeOf, Fixed, Varint, Numbers
  <1>2. w \in Nat \ {0} BY <1>1, BitsType DEF Width
  <1>3. CASE ty \in DOMAIN Fixed
    <2>0. n = Fixed[ty] BY <1>3 DEF SizeOf
    <2> HIDE DEF n
    <2> DEFINE u == ToUnsigned(v, w)
               bytes == LittleEndian(u, n)
               e == Swap(bytes)
    <2>1. EncodeNumber(ty, v) = e BY <1>3, <2>0 DEF EncodeNumber
    <2>2. u \in UnsignedOf(w) /\ v = (IF ty \in Signed THEN ToSigned(u, w) ELSE u)
      <3>1. CASE ty \in Signed
        <4>1. v \in SignedOf(w) BY <3>1 DEF NumbersOf, n
        <4> HIDE DEF w
        <4> QED BY <3>1, <4>1, <1>2, SignedReadsBack
      <3>2. CASE ty \notin Signed
        <4>1. v \in UnsignedOf(w) BY <3>2 DEF NumbersOf, n
        <4> HIDE DEF w
        <4>2. PICK p \in Nat \ {0} : p = Pow2[w] BY <1>2, Pow2Type
        <4>3. v % p = v BY <4>1, <4>2 DEF UnsignedOf
        <4>4. u = v BY <4>2, <4>3 DEF ToUnsigned
        <4> QED BY <3>2, <4>1, <4>4
      <3> QED BY <3>1, <3>2
    <2> HIDE DEF u
    <2>3. u \in Nat /\ u < Pow2[Width(n)]
      <3>1. Pow2[w] \in Nat BY <1>2, Pow2Type
      <3> QED BY <3>1, <2>2 DEF UnsignedOf
    <2>4. FromLittle(bytes) = u BY <1>1, <2>3, LittleEndianReadsBack
    <2>5. bytes = [i \in 1 .. n |-> bytes[i]] BY DEF LittleEndian
    <2> HIDE DEF bytes
    <2>6. Swap(e) = bytes /\ e = [i \in 1 .. n |-> e[i]] /\ Len(e) = n
      BY <1>1, <2>5, SwapTwice
    <2>7. SubSeq(bs, 1, n) = e
      <3>1. Len(bs) \in Nat /\ n <= Len(bs) /\ \A i \in 1 .. n : bs[i] = e[i]
        BY <2>1, <2>6 DEF Begins, Sequence
      <3> HIDE DEF e
      <3>2. SubSeq(bs, 1, n) = [i \in 1 .. n |-> bs[i]]
        BY <3>1, <1>1 DEF Begins, Sequence
      <3>3. [i \in 1 .. n |-> bs[i]] = [i \in 1 .. n |-> e[i]] BY <3>1
      <3> QED BY <3>2, <3>3, <2>6
    <2>8. DecodeNumber(ty, bs) = IF ty \notin Signed THEN FromLittle(Swap(SubSeq(bs, 1, n)))
                                 ELSE ToSigned(FromLittle(Swap(SubSeq(bs, 1, n))), w)
      BY <1>3, <2>0 DEF DecodeNumber
    <2>9. NumberTakes(ty, bs) = n BY <1>3, <2>0 DEF NumberTakes
    <2> HIDE DEF e, w
    <2> QED BY <2>1, <2>2, <2>4, <2>6, <2>7, <2>8, <2>9
  <1>4. CASE ty \notin DOMAIN Fixed
    <2>0. n = Varint[ty] BY <1>4 DEF SizeOf
    <2> HIDE DEF n
    <2> DEFINE u == IF ty \in Signed THEN EncodeZigzag(v, w) ELSE v
    <2>1. EncodeNumber(ty, v) = EncodeVarint(u, w) BY <1>4, <2>0 DEF EncodeNumber
    <2>2. u \in UnsignedOf(w) /\ v = (IF ty \in Signed THEN DecodeZigzag(u) ELSE u)
      <3>1. CASE ty \in Signed
        <4>1. v \in SignedOf(w) BY <3>1 DEF NumbersOf, n
        <4> HIDE DEF w
        <4> QED BY <3>1, <4>1, <1>2, SignedReadsBack
      <3>2. CASE ty \notin Signed BY <3>2 DEF NumbersOf, n
      <3> QED BY <3>1, <3>2
    <2>3. NumberTakes(ty, bs) = VarintTakes(bs, w) BY <1>4, <2>0 DEF NumberTakes
    <2>4. DecodeNumber(ty, bs) =
            IF ty \notin Signed THEN DecodeVarint(bs, VarintTakes(bs, w), w)
            ELSE DecodeZigzag(DecodeVarint(bs, VarintTakes(bs, w), w))
      BY <1>4, <2>0 DEF DecodeNumber
    <2> HIDE DEF u, w
    <2>5. VarintTakes(bs, w) = Len(EncodeVarint(u, w)) /\ DecodeVarint(bs, VarintTakes(bs, w), w) = u
      BY <1>2, <2>1, <2>2, VarintReadsBack
    <2> QED BY <2>1, <2>2, <2>3, <2>4, <2>5
  <1> QED BY <1>3, <1>4

\* Every value of a type; a string's length must fit in the number before it.
TypeValues(ty) ==
  IF ty \in DOMAIN Strings THEN {v \in Seq(Nat) : Len(v) \in NumbersOf(Strings[ty])}
  ELSE NumbersOf(ty)

\* writeFint8 ... writeStringVint and their readers are inverse: every value of every
\* type with a reader of its own is read back from the bytes it was written as, in
\* either byte order and whatever follows them, and none of what follows is taken.
THEOREM BytesCodecsInverse ==
  ASSUME NEW ty \in Types, ReadAs(ty) = ty, NEW v \in TypeValues(ty),
         NEW bs, Begins(bs, Encode(ty, v))
  PROVE  Takes(ty, bs) = Len(Encode(ty, v)) /\ Decode(ty, bs) = v
  <1>1. CASE ty \notin DOMAIN Strings
    <2>1. ty \in Numbers BY <1>1 DEF Types, Numbers
    <2>2. v \in NumbersOf(ty) /\ Encode(ty, v) = EncodeNumber(ty, v)
      BY <1>1 DEF TypeValues, Encode
    <2>3. Takes(ty, bs) = NumberTakes(ty, bs) /\ Decode(ty, bs) = DecodeNumber(ty, bs)
      BY <1>1 DEF Takes, Decode
    <2> QED BY <2>1, <2>2, <2>3, NumberReadsBack
  <1>2. CASE ty \in DOMAIN Strings
    <2>1. PICK nt \in Numbers : nt = Strings[ty]
      BY <1>2 DEF Strings, Numbers, Fixed, Varint
    <2>2. v \in Seq(Nat) /\ Len(v) \in NumbersOf(nt) BY <1>2, <2>1 DEF TypeValues
    <2>3. PICK k \in Nat : k = Len(v) BY <2>2, LenProperties
    <2> DEFINE head == EncodeNumber(nt, k)
    <2>4. Encode(ty, v) = head \o v BY <1>2, <2>1, <2>3 DEF Encode
    <2>5. Sequence(head) BY <2>1, EncodeNumberIsSequence DEF Numbers
    <2> HIDE DEF head
    <2> DEFINE S == Nat \cup {head[i] : i \in 1 .. Len(head)}
    <2>6. head \in Seq(S) /\ v \in Seq(S)
      <3>1. head \in Seq(S) BY <2>5 DEF Sequence
      <3>2. v \in Seq(S) BY <2>2
      <3> QED BY <3>1, <3>2
    <2> HIDE DEF S
    <2>7. PICK n \in Nat : n = Len(head) BY <2>5 DEF Sequence
    <2>8. /\ Len(head \o v) = n + k
          /\ \A i \in 1 .. n : (head \o v)[i] = head[i]
          /\ \A i \in 1 .. k : (head \o v)[n + i] = v[i]
      <3>1. Len(head \o v) = n + k BY <2>3, <2>6, <2>7
      <3>2. ASSUME NEW i \in 1 .. n PROVE (head \o v)[i] = head[i] BY <2>3, <2>6, <2>7
      <3>3. ASSUME NEW i \in 1 .. k PROVE (head \o v)[n + i] = v[i] BY <2>3, <2>6, <2>7
      <3> QED BY <3>1, <3>2, <3>3
    <2>a. PICK e : e = Encode(ty, v) OBVIOUS
    <2>b. Len(e) = n + k /\ Begins(bs, e) /\ e = head \o v BY <2>4, <2>8, <2>a
    <2>9. PICK m \in Nat : m = n + k /\ Len(bs) \in Nat /\ m <= Len(bs) /\ Sequence(bs)
      <3>1. n + k \in Nat OBVIOUS
      <3>2. Len(e) <= Len(bs) /\ Sequence(bs) BY <2>b DEF Begins
      <3>3. Len(bs) \in Nat BY <3>2 DEF Sequence
      <3>4. PICK m \in Nat : m = n + k BY <3>1
      <3>5. m <= Len(bs) BY <3>2, <3>4, <2>b
      <3> QED BY <3>2, <3>3, <3>4, <3>5
    <2>10. \A i \in 1 .. m : bs[i] = (head \o v)[i] BY <2>b, <2>9 DEF Begins
    <2>11. Begins(bs, head)
      <3>1. \A i \in 1 .. n : bs[i] = head[i]
        <4> TAKE i \in 1 .. n
        <4>1. i \in 1 .. m BY <2>9
        <4> QED BY <4>1, <2>8, <2>10
      <3>2. n <= Len(bs) BY <2>9
      <3> QED BY <3>1, <3>2, <2>7, <2>9 DEF Begins
    <2>12. NumberTakes(nt, bs) = n /\ DecodeNumber(nt, bs) = k
      <3>1. NumberTakes(nt, bs) = Len(head) /\ DecodeNumber(nt, bs) = k
        BY <2>2, <2>3, <2>11, NumberReadsBack DEF head
      <3> QED BY <3>1, <2>7
    <2>13. Takes(ty, bs) = m /\ Decode(ty, bs) = SubSeq(bs, n + 1, m)
      <3>1. Takes(ty, bs) = m BY <1>2, <2>1, <2>9, <2>12 DEF Takes
      <3> QED BY <3>1, <1>2, <2>1, <2>12 DEF Decode
    <2>14. SubSeq(bs, n + 1, m) = v
      <3>1. SubSeq(bs, n + 1, m) = [i \in 1 .. k |-> bs[n + i]]
        <4>1. bs \in Seq({bs[i] : i \in 1 .. Len(bs)}) BY <2>9 DEF Sequence
        <4> DEFINE T == {bs[i] : i \in 1 .. Len(bs)}
        <4>2. bs \in Seq(T) BY <4>1
        <4> HIDE DEF T
        <4>3. m - (n + 1) + 1 = k BY <2>9
        <4> QED BY <4>2, <4>3, <2>9
      <3>2. \A i \in 1 .. k : bs[n + i] = v[i]
        <4> TAKE i \in 1 .. k
        <4>1. PICK j \in 1 .. m : j = n + i BY <2>9
        <4>2. bs[j] = (head \o v)[j] BY <2>10
        <4> QED BY <4>1, <4>2, <2>8
      <3>3. v = [i \in 1 .. k |-> v[i]] BY <2>2, <2>3
      <3> QED BY <3>1, <3>2, <3>3
    <2> QED BY <2>4, <2>8, <2>9, <2>13, <2>14
  <1> QED BY <1>1, <1>2

\* The values the model writes are values of their types.
LEMMA EdgesAreValues ==
  ASSUME NEW ty \in Types
  PROVE  ValuesOf(ty) \subseteq TypeValues(ty)
  <1>1. CASE ty \in DOMAIN Strings
    <2>1. PICK nt \in Numbers : nt = Strings[ty]
      BY <1>1 DEF Strings, Numbers, Fixed, Varint
    <2>2. nt \notin Signed BY <1>1, <2>1 DEF Strings, Signed
    <2>3. SizeOf(nt) \in Nat \ {0} BY DEF SizeOf, Fixed, Varint, Numbers
    <2> DEFINE w == Width(SizeOf(nt))
    <2>4. w \in Nat \ {0} BY <2>3, BitsType DEF Width
    <2>5. NumbersOf(nt) = UnsignedOf(w) BY <2>2 DEF NumbersOf
    <2> HIDE DEF w
    <2>6. Pow2[w] >= 2
      <3>1. PICK j \in Nat : w = j + 1
        <4>1. w - 1 \in Nat /\ w = (w - 1) + 1 BY <2>4
        <4> QED BY <4>1
      <3>2. Pow2[w] = 2 * Pow2[j] /\ Pow2[j] \in Nat \ {0} BY <3>1, Pow2Next, Pow2Type
      <3> QED BY <3>2
    <2>7. Pow2[w] \in Nat BY <2>4, Pow2Type
    <2>8. 0 \in NumbersOf(nt) /\ 1 \in NumbersOf(nt) BY <2>5, <2>6, <2>7 DEF UnsignedOf
    <2>9. <<>> \in Seq(Nat) /\ Len(<<>>) = 0 OBVIOUS
    <2>10. <<1>> \in Seq(Nat) /\ Len(<<1>>) = 1 OBVIOUS
    <2>11. ValuesOf(ty) = {<<>>, <<1>>} BY <1>1 DEF ValuesOf
    <2>12. TypeValues(ty) = {v \in Seq(Nat) : Len(v) \in NumbersOf(nt)}
      BY <1>1, <2>1 DEF TypeValues
    <2> QED BY <2>8, <2>9, <2>10, <2>11, <2>12
  <1>2. CASE ty \notin DOMAIN Strings
    <2>1. ty \in Numbers BY <1>2 DEF Types, Numbers
    <2>2. PICK n \in Nat \ {0} : n = SizeOf(ty) BY <2>1 DEF SizeOf, Fixed, Varint, Numbers
    <2>3. PICK w \in Nat \ {0} : w = Width(n) /\ w >= ByteBits
      <3>1. ByteBits * n \in Nat \ {0} /\ ByteBits * n >= ByteBits BY BitsType
      <3> QED BY <3>1 DEF Width
    <2>4. PICK j \in Nat : w = j + 1 /\ j = w - 1
      <3>1. w - 1 \in Nat /\ w = (w - 1) + 1 BY <2>3
      <3> QED BY <3>1
    <2>5. PICK p \in Nat \ {0} : p = Pow2[j] /\ Pow2[w] = 2 * p BY <2>4, Pow2Next, Pow2Type
    <2>6. More <= p
      <3>1. Group <= j /\ Group \in Nat BY BitsType, <2>3, <2>4
      <3> QED BY <3>1, <2>5, Pow2Grows, BitsType
    <2>7. ValuesOf(ty) = IF ty \in Signed THEN {0, -1, -Pow2[w - 1], Pow2[w - 1] - 1}
                         ELSE {0, More, Pow2[w] - 1}
      BY <1>2, <2>2, <2>3 DEF ValuesOf, SizeOf
    <2>8. TypeValues(ty) = IF ty \in Signed THEN SignedOf(w) ELSE UnsignedOf(w)
      BY <1>2, <2>2, <2>3 DEF TypeValues, NumbersOf
    <2>9. {0, -1, -p, p - 1} \subseteq -p .. p - 1 OBVIOUS
    <2>10. {0, More, (2 * p) - 1} \subseteq 0 .. (2 * p) - 1 BY <2>6, BitsType
    <2> QED BY <2>4, <2>5, <2>7, <2>8, <2>9, <2>10 DEF SignedOf, UnsignedOf
  <1> QED BY <1>1, <1>2

-----------------------------------------------------------------------------
\* Written values lie one behind the other: value i is the bytes e[i], from the
\* address st[i] on.
Placed(st, e) ==
  /\ st[1] = 0
  /\ \A i \in 1 .. Len(items) :
       /\ st[i + 1] = st[i] + Len(e[i])
       /\ \A j \in 1 .. Len(e[i]) : mem[st[i] + j - 1] = e[i][j]
       /\ \E ty \in Types : \E v \in ValuesOf(ty) :
            items[i] = [type |-> ty, value |-> v] /\ e[i] = Encode(ty, v)
  /\ \A i \in 1 .. Len(items) + 1 : st[i] \in 0 .. m_size
  /\ items # <<>> => m_size = st[Len(items) + 1]

\* None of the first values has a type that another type's reader reads.
OwnReaders(n) == \A i \in 1 .. n : ReadAs(items[i].type) = items[i].type

\* What has been read is what was written, and the position is behind it.
ReadSoFar(st) ==
  /\ Len(got) <= Len(items)
  /\ \A i \in 1 .. Len(got) : OwnReaders(i) => got[i] = items[i].value
  /\ OwnReaders(Len(got)) /\ got # <<>> => m_position = st[Len(got) + 1]

\* The invariant of the typed values.
ItemsLaid ==
  /\ Sequence(items) /\ Sequence(got)
  /\ \E st, e : Placed(st, e) /\ ReadSoFar(st)

\* A sequence with one element more.
LEMMA AppendSequence ==
  ASSUME NEW s, Sequence(s), NEW x
  PROVE  /\ Sequence(Append(s, x)) /\ Len(Append(s, x)) = Len(s) + 1
         /\ \A i \in 1 .. Len(s) : Append(s, x)[i] = s[i]
         /\ Append(s, x)[Len(s) + 1] = x
  <1> DEFINE S == {s[i] : i \in 1 .. Len(s)} \cup {x}
  <1>1. s \in Seq(S)
    <2>1. s \in Seq({s[i] : i \in 1 .. Len(s)}) BY DEF Sequence
    <2> QED BY <2>1
  <1>2. x \in S OBVIOUS
  <1> HIDE DEF S
  <1> DEFINE t == Append(s, x)
  <1>3. t \in Seq(S) /\ Len(t) = Len(s) + 1 /\ t[Len(s) + 1] = x
        /\ \A i \in 1 .. Len(s) : t[i] = s[i]
    BY <1>1, <1>2, AppendProperties
  <1> HIDE DEF t
  <1>4. Sequence(t)
    <2>1. PICK n \in Nat : n = Len(t) BY <1>3, LenProperties
    <2>2. t \in [1 .. n -> S] BY <1>3, <2>1, LenProperties
    <2> QED BY <2>1, <2>2, FunctionIsSequence
  <1> QED BY <1>3, <1>4 DEF t

\* The empty sequence is the one of length 0.
LEMMA EmptySequence ==
  /\ Sequence(<<>>) /\ Len(<<>>) = 0
  /\ \A s : Sequence(s) => (Len(s) = 0 <=> s = <<>>)
  <1>1. Sequence(<<>>) /\ Len(<<>>) = 0 BY DEF Sequence
  <1>2. ASSUME NEW s, Sequence(s), Len(s) = 0 PROVE s = <<>>
    <2> DEFINE S == {s[i] : i \in 1 .. Len(s)}
    <2>1. s \in Seq(S) BY <1>2 DEF Sequence
    <2> HIDE DEF S
    <2> QED BY <2>1, <1>2, EmptySeq
  <1> QED BY <1>1, <1>2

\* Encoding depends on the state only through the byte order.
LEMMA EncodeKept ==
  ASSUME m_endian' = m_endian, NEW ty, NEW v
  PROVE  Encode(ty, v)' = Encode(ty, v)
  BY DEF Encode, EncodeNumber, Swap

\* The bytes of a value are among the data.
LEMMA PlacedWithin ==
  ASSUME NEW st, NEW e, Placed(st, e), Sequence(items), m_size \in Nat,
         NEW i \in 1 .. Len(items)
  PROVE  /\ Len(e[i]) \in Nat /\ st[i] \in Nat
         /\ st[i] + Len(e[i]) = st[i + 1] /\ st[i + 1] <= m_size
         /\ \A j \in 1 .. Len(e[i]) : st[i] + j - 1 \in 0 .. m_size - 1
  <1>1. Len(items) \in Nat BY DEF Sequence
  <1>2. Len(e[i]) \in Nat
    <2>1. PICK ty \in Types : \E v \in ValuesOf(ty) : e[i] = Encode(ty, v) BY DEF Placed
    <2>2. PICK v \in ValuesOf(ty) : e[i] = Encode(ty, v) BY <2>1
    <2> QED BY <2>2, EncodeLength
  <1>3. PICK k \in 1 .. Len(items) + 1 : k = i + 1 BY <1>1
  <1>4. i \in 1 .. Len(items) + 1 BY <1>1
  <1>5. st[i] \in 0 .. m_size /\ st[k] \in 0 .. m_size BY <1>4 DEF Placed
  <1>6. st[i + 1] = st[i] + Len(e[i]) BY DEF Placed
  <1>7. st[i] \in Nat /\ st[k] <= m_size BY <1>5
  <1> QED BY <1>2, <1>3, <1>6, <1>7

\* A step that leaves the written values and their bytes where they are.
LEMMA PlacedKept ==
  ASSUME NEW st, NEW e, Placed(st, e), Sequence(items),
         items' = items, m_endian' = m_endian, m_size \in Nat, m_size' = m_size,
         \A a \in 0 .. m_size - 1 : mem'[a] = mem[a]
  PROVE  Placed(st, e)'
  <1>1. ASSUME NEW i \in 1 .. Len(items)
        PROVE  /\ st[i + 1] = st[i] + Len(e[i])
               /\ \A j \in 1 .. Len(e[i]) : mem'[st[i] + j - 1] = e[i][j]
               /\ \E ty \in Types : \E v \in ValuesOf(ty) :
                    items[i] = [type |-> ty, value |-> v] /\ e[i] = Encode(ty, v)'
    <2>1. ASSUME NEW j \in 1 .. Len(e[i]) PROVE mem'[st[i] + j - 1] = e[i][j]
      <3>1. PICK a \in 0 .. m_size - 1 : a = st[i] + j - 1 BY PlacedWithin
      <3>2. mem[a] = e[i][j] BY <3>1 DEF Placed
      <3> QED BY <3>1, <3>2
    <2>a. PICK ty \in Types : \E v \in ValuesOf(ty) :
            items[i] = [type |-> ty, value |-> v] /\ e[i] = Encode(ty, v)
      BY DEF Placed
    <2>2. PICK v \in ValuesOf(ty) :
            items[i] = [type |-> ty, value |-> v] /\ e[i] = Encode(ty, v)
      BY <2>a
    <2>3. e[i] = Encode(ty, v)' BY <2>2, EncodeKept
    <2>4. st[i + 1] = st[i] + Len(e[i]) BY DEF Placed
    <2> QED BY <2>1, <2>2, <2>3, <2>4
  <1>2. /\ st[1] = 0 /\ \A i \in 1 .. Len(items) + 1 : st[i] \in 0 .. m_size
        /\ items # <<>> => m_size = st[Len(items) + 1]
    BY DEF Placed
  <1> QED BY <1>1, <1>2 DEF Placed

\* A value more, behind the others.
LEMMA PlacedMore ==
  ASSUME NEW st, NEW e, Placed(st, e), Sequence(items), m_size \in Nat,
         items = <<>> => m_size = 0,
         NEW ty \in Types, NEW v \in ValuesOf(ty), NEW b, b = Encode(ty, v),
         items' = Append(items, [type |-> ty, value |-> v]), m_endian' = m_endian,
         m_size' = m_size + Len(b),
         \A a \in 0 .. m_size - 1 : mem'[a] = mem[a],
         \A j \in 1 .. Len(b) : mem'[m_size + j - 1] = b[j]
  PROVE  \E t, d : Placed(t, d)' /\ \A i \in 1 .. Len(items) + 1 : t[i] = st[i]
  <1>1. PICK n \in Nat : n = Len(items) BY DEF Sequence
  <1>2. PICK k \in Nat : k = Len(b) BY EncodeLength
  <1>3. st[n + 1] = m_size
    <2>1. CASE items = <<>>
      <3>1. n = 0 /\ n + 1 = 1 BY <2>1, <1>1, EmptySequence
      <3> QED BY <2>1, <3>1 DEF Placed
    <2>2. CASE items # <<>> BY <2>2, <1>1 DEF Placed
    <2> QED BY <2>1, <2>2
  <1>a. PICK t : t = [i \in 1 .. n + 2 |-> IF i = n + 2 THEN m_size + k ELSE st[i]]
    OBVIOUS
  <1>b. PICK d : d = [i \in 1 .. n + 1 |-> IF i = n + 1 THEN b ELSE e[i]]
    OBVIOUS
  <1>4. Len(items') = n + 1 /\ items'[n + 1] = [type |-> ty, value |-> v]
        /\ \A i \in 1 .. n : items'[i] = items[i]
    BY <1>1, AppendSequence
  <1>5. \A i \in 1 .. n + 1 : t[i] = st[i] BY <1>a
  <1>6. t[n + 2] = m_size + k BY <1>a
  <1>7. d[n + 1] = b /\ \A i \in 1 .. n : d[i] = e[i] BY <1>b
  <1>8. ASSUME NEW i \in 1 .. n + 1
        PROVE  /\ t[i + 1] = t[i] + Len(d[i])
               /\ \A j \in 1 .. Len(d[i]) : mem'[t[i] + j - 1] = d[i][j]
               /\ \E u \in Types : \E x \in ValuesOf(u) :
                    items'[i] = [type |-> u, value |-> x] /\ d[i] = Encode(u, x)'
    <2>1. CASE i = n + 1
      <3>1. t[i] = m_size /\ d[i] = b /\ t[i + 1] = m_size + k
        <4>1. i + 1 = n + 2 BY <2>1
        <4> QED BY <4>1, <2>1, <1>3, <1>5, <1>6, <1>7
      <3>2. items'[i] = [type |-> ty, value |-> v] /\ b = Encode(ty, v)'
        BY <2>1, <1>4, EncodeKept
      <3> QED BY <3>1, <3>2, <1>2
    <2>2. CASE i # n + 1
      <3>1. i \in 1 .. n /\ i + 1 \in 1 .. n + 1 BY <2>2
      <3>2. t[i] = st[i] /\ t[i + 1] = st[i + 1] /\ d[i] = e[i] /\ items'[i] = items[i]
        BY <3>1, <1>4, <1>5, <1>7
      <3>3. ASSUME NEW j \in 1 .. Len(e[i]) PROVE mem'[st[i] + j - 1] = e[i][j]
        <4>1. PICK a \in 0 .. m_size - 1 : a = st[i] + j - 1 BY <3>1, <1>1, PlacedWithin
        <4>2. mem[a] = e[i][j] BY <3>1, <1>1, <4>1 DEF Placed
        <4> QED BY <4>1, <4>2
      <3>a. PICK u \in Types : \E x \in ValuesOf(u) :
              items[i] = [type |-> u, value |-> x] /\ e[i] = Encode(u, x)
        BY <3>1, <1>1 DEF Placed
      <3>4. PICK x \in ValuesOf(u) :
              items[i] = [type |-> u, value |-> x] /\ e[i] = Encode(u, x)
        BY <3>a
      <3>5. e[i] = Encode(u, x)' BY <3>4, EncodeKept
      <3>6. st[i + 1] = st[i] + Len(e[i]) BY <3>1, <1>1 DEF Placed
      <3> QED BY <3>2, <3>3, <3>4, <3>5, <3>6
    <2> QED BY <2>1, <2>2
  <1>9. t[1] = 0
    <2>1. 1 \in 1 .. n + 1 BY <1>1
    <2> QED BY <2>1, <1>5 DEF Placed
  <1>10. \A i \in 1 .. n + 2 : t[i] \in 0 .. m_size + k
    <2> TAKE i \in 1 .. n + 2
    <2>1. CASE i = n + 2 BY <2>1, <1>6
    <2>2. CASE i # n + 2
      <3>1. i \in 1 .. n + 1 BY <2>2
      <3>2. st[i] \in 0 .. m_size BY <3>1, <1>1 DEF Placed
      <3> QED BY <3>1, <3>2, <1>5
    <2> QED BY <2>1, <2>2
  <1>11. Placed(t, d)'
    <2>1. Len(items') + 1 = n + 2 BY <1>4
    <2>2. m_size' = m_size + k BY <1>2
    <2>3. /\ \A i \in 1 .. Len(items') + 1 : t[i] \in 0 .. m_size'
          /\ m_size' = t[Len(items') + 1]
      BY <2>1, <2>2, <1>6, <1>10
    <2>4. \A i \in 1 .. Len(items') :
            /\ t[i + 1] = t[i] + Len(d[i])
            /\ \A j \in 1 .. Len(d[i]) : mem'[t[i] + j - 1] = d[i][j]
            /\ \E u \in Types : \E x \in ValuesOf(u) :
                 items'[i] = [type |-> u, value |-> x] /\ d[i] = Encode(u, x)'
      <3> TAKE i \in 1 .. Len(items')
      <3>1. i \in 1 .. n + 1 BY <1>4
      <3> QED BY <3>1, <1>8
    <2> QED BY <2>3, <2>4, <1>9 DEF Placed
  <1> QED BY <1>1, <1>5, <1>11

\* What a write that does not crash leaves in the blocks.
LEMMA WrittenBytes ==
  ASSUME Inv, NEW bs, Len(bs) \in Nat, Writes(bs), ~crashed'
  PROVE  /\ m_position' = m_position + Len(bs) /\ m_size' = SizeAfter(m_position + Len(bs))
         /\ m_endian' = m_endian /\ got' = got
         /\ \A a \in 0 .. m_position - 1 : mem'[a] = mem[a]
         /\ \A j \in 1 .. Len(bs) : mem'[m_position + j - 1] = bs[j]
  <1> DEFINE size == Len(bs)
  <1>0. PICK more \in Nat : ~RunsOff(more, size) /\ Copy(more, bs) BY DEF Writes, Crash
  <1> DEFINE n == nodes + more
  <1>1. ~EndsBefore(CurGrown(more), n, size) BY <1>0 DEF RunsOff
  <1>2. m_baseSize \in Nat \ {0} /\ n \in Nat /\ m_position \in Nat
    BY ByteArrayAssumption DEF ByteArrayAssumption, Inv, ShapeOK
  <1>3. CurGrown(more) # Null /\ Address(CurGrown(more)) = m_position
    BY <1>1, AddressIsPosition DEF EndsBefore
  <1>4. m_position + size <= n * m_baseSize BY <1>1, <1>2, <1>3, CopyMovesCur
  <1>5. mem' = [i \in 0 .. n * m_baseSize - 1 |->
                  IF m_position <= i /\ i < m_position + size THEN bs[i - m_position + 1]
                  ELSE IF i \in DOMAIN mem THEN mem[i] ELSE Junk]
    BY <1>0, <1>3 DEF Copy, Grow
  <1>6. /\ m_position' = m_position + Len(bs) /\ m_size' = SizeAfter(m_position + Len(bs))
        /\ m_endian' = m_endian /\ got' = got
    BY <1>0 DEF Copy
  <1>7. PICK z \in Nat : z = n * m_baseSize BY <1>2
  <1> HIDE DEF n, size
  <1>8. ASSUME NEW a \in 0 .. m_position - 1 PROVE mem'[a] = mem[a]
    <2>1. a \in DOMAIN mem BY <1>2 DEF Inv, ShapeOK, Contents
    <2>2. a \in 0 .. z - 1 BY <1>2, <1>4, <1>7 DEF size
    <2> QED BY <2>1, <2>2, <1>2, <1>5, <1>7
  <1>9. ASSUME NEW j \in 1 .. Len(bs) PROVE mem'[m_position + j - 1] = bs[j]
    <2>1. PICK a \in Nat : a = m_position + j - 1 BY <1>2
    <2>2. a \in 0 .. z - 1 /\ m_position <= a /\ a < m_position + size /\ a - m_position + 1 = j
      BY <2>1, <1>2, <1>4, <1>7 DEF size
    <2> QED BY <2>1, <2>2, <1>5, <1>7
  <1> QED BY <1>6, <1>8, <1>9

\* Where nothing typed is written or read, there is nothing to hold.
LEMMA NothingLaid == items = <<>> /\ got = <<>> /\ m_size \in Nat => ItemsLaid
  <1> SUFFICES ASSUME items = <<>>, got = <<>>, m_size \in Nat PROVE ItemsLaid OBVIOUS
  <1>1. PICK st : st = [i \in 1 .. 1 |-> 0] OBVIOUS
  <1>2. st[1] = 0 BY <1>1
  <1>3. Len(items) = 0 /\ Len(got) = 0 BY EmptySequence
  <1>4. Placed(st, <<>>)
    <2>1. \A i \in 1 .. Len(items) + 1 : st[i] \in 0 .. m_size
      <3> TAKE i \in 1 .. Len(items) + 1
      <3>1. i = 1 BY <1>3
      <3> QED BY <3>1, <1>2
    <2>2. 1 .. Len(items) = {} BY <1>3
    <2> QED BY <2>1, <2>2, <1>2 DEF Placed
  <1>5. ReadSoFar(st) BY <1>3 DEF ReadSoFar
  <1> QED BY <1>4, <1>5, EmptySequence DEF ItemsLaid

\* A step that changes neither the values nor where they are nor the position.
LEMMA ItemsKept ==
  ASSUME Inv, ItemsLaid, UNCHANGED <<items, got, m_endian, m_size, m_position, mem>>
  PROVE  ItemsLaid'
  <1>1. PICK st, e : Placed(st, e) /\ ReadSoFar(st) BY DEF ItemsLaid
  <1>2. Sequence(items) /\ Sequence(got) BY DEF ItemsLaid
  <1>3. Placed(st, e)' BY <1>1, <1>2, PlacedKept DEF Inv, ShapeOK
  <1>4. ReadSoFar(st)' BY <1>1 DEF ReadSoFar, OwnReaders
  <1>5. Sequence(items)' /\ Sequence(got)' BY <1>2 DEF Sequence
  <1> QED BY <1>3, <1>4, <1>5 DEF ItemsLaid

\* A value is written.
LEMMA WriteItemLays ==
  ASSUME Inv, ItemsLaid, ~crashed, NEW ty \in Types, NEW v \in ValuesOf(ty), WriteItem(ty, v)
  PROVE  ItemsLaid'
  <1>1. PICK b : b = Encode(ty, v) OBVIOUS
  <1>2. Writes(b) /\ Len(b) \in Nat BY <1>1, WriteItemWrites
  <1>3. CASE crashed'
    <2>1. Crash BY <1>2, <1>3 DEF Writes, Copy
    <2> QED BY <2>1, ItemsKept DEF Crash, history
  <1>4. CASE ~crashed'
    <2>1. PICK st, e : Placed(st, e) /\ ReadSoFar(st) BY DEF ItemsLaid
    <2>2. Sequence(items) /\ Sequence(got) BY DEF ItemsLaid
    <2>3. items' = Append(items, [type |-> ty, value |-> v]) /\ got = <<>>
      BY <1>4 DEF WriteItem
    <2>4. /\ m_position \in Nat /\ m_size \in Nat /\ m_position = m_size
          /\ items = <<>> => m_size = 0
      BY DEF WriteItem, Inv, ShapeOK
    <2>5. /\ m_size' = m_size + Len(b) /\ m_endian' = m_endian /\ got' = got
          /\ \A a \in 0 .. m_size - 1 : mem'[a] = mem[a]
          /\ \A j \in 1 .. Len(b) : mem'[m_size + j - 1] = b[j]
      <3>1. SizeAfter(m_size + Len(b)) = m_size + Len(b) BY <1>2, <2>4 DEF SizeAfter
      <3> QED BY <3>1, <1>2, <1>4, <2>4, WrittenBytes
    <2>6. \E t, d : Placed(t, d)' /\ \A i \in 1 .. Len(items) + 1 : t[i] = st[i]
      BY <1>1, <2>1, <2>2, <2>3, <2>4, <2>5, PlacedMore
    <2>7. PICK t, d : Placed(t, d)' BY <2>6
    <2>8. Sequence(items)' /\ Len(items') \in Nat
      <3>1. Sequence(items') BY <2>2, <2>3, AppendSequence
      <3> QED BY <3>1 DEF Sequence
    <2>9. got' = <<>> /\ Len(got') = 0 /\ Sequence(got)'
      <3>1. got' = <<>> BY <2>3, <2>5
      <3>2. Sequence(got') BY <3>1, EmptySequence
      <3> QED BY <3>1, <3>2, EmptySequence DEF Sequence
    <2>10. ReadSoFar(t)' BY <2>8, <2>9 DEF ReadSoFar
    <2> QED BY <2>7, <2>8, <2>9, <2>10 DEF ItemsLaid
  <1> QED BY <1>3, <1>4

\* The position is set back to the first value.
LEMMA RewindLays ==
  ASSUME Inv, ItemsLaid, Rewind
  PROVE  ItemsLaid'
  <1>1. PICK st, e : Placed(st, e) /\ ReadSoFar(st) BY DEF ItemsLaid
  <1>2. Sequence(items) /\ Sequence(got) BY DEF ItemsLaid
  <1>3. m_size \in Nat BY DEF Inv, ShapeOK
  <1>4. items' = items /\ got' = got /\ got = <<>> /\ m_endian' = m_endian /\ mem' = mem
    BY DEF Rewind, setPosition, history
  <1>5. m_size' = m_size BY <1>3 DEF Rewind, setPosition
  <1>6. Placed(st, e)' BY <1>1, <1>2, <1>3, <1>4, <1>5, PlacedKept
  <1>7. Sequence(items)' /\ Sequence(got)' BY <1>2, <1>4 DEF Sequence
  <1>8. Len(got') = 0 /\ got' = <<>> BY <1>4, EmptySequence
  <1>9. ReadSoFar(st)'
    <2>1. Len(got') <= Len(items') BY <1>1, <1>4 DEF ReadSoFar
    <2> QED BY <2>1, <1>8 DEF ReadSoFar
  <1> QED BY <1>6, <1>7, <1>9 DEF ItemsLaid

\* The bytes ahead begin with the next value's.
LEMMA AheadBegins ==
  ASSUME Inv, NEW st, NEW e, Placed(st, e), Sequence(items), NEW k \in 1 .. Len(items),
         m_position = st[k], m_cur # Null
  PROVE  Begins(Ahead(getReadSize), e[k])
  <1>1. Address(m_cur) = m_position BY AddressIsPosition
  <1>2. m_size \in Nat /\ m_position \in Nat /\ m_position <= m_size BY DEF Inv, ShapeOK
  <1>3. PICK n \in Nat : n = getReadSize /\ n = m_size - m_position BY <1>2 DEF getReadSize
  <1>4. PICK L \in Nat : L = Len(e[k]) /\ m_position + L <= m_size
    BY <1>2, PlacedWithin
  <1>5. PICK bs : bs = Ahead(n) OBVIOUS
  <1>6. bs = [i \in 1 .. n |-> mem[m_position + i - 1]] BY <1>1, <1>5 DEF Ahead
  <1>7. Sequence(bs) /\ Len(bs) = n
    <2>1. bs \in [1 .. n -> {bs[i] : i \in 1 .. n}] BY <1>6
    <2> QED BY <2>1, FunctionIsSequence
  <1>8. L <= n BY <1>2, <1>3, <1>4
  <1>9. \A j \in 1 .. L : bs[j] = e[k][j]
    <2> TAKE j \in 1 .. L
    <2>1. bs[j] = mem[m_position + j - 1] BY <1>6, <1>8, <1>3
    <2>2. mem[st[k] + j - 1] = e[k][j] BY <1>4 DEF Placed
    <2> QED BY <2>1, <2>2
  <1>10. Begins(bs, e[k]) BY <1>4, <1>7, <1>8, <1>9 DEF Begins
  <1> QED BY <1>3, <1>5, <1>10

\* A value is read.
LEMMA ReadItemLays ==
  ASSUME Inv, ItemsLaid, ReadItem
  PROVE  ItemsLaid'
  <1>1. PICK st, e : Placed(st, e) /\ ReadSoFar(st) BY DEF ItemsLaid
  <1>2. Sequence(items) /\ Sequence(got) BY DEF ItemsLaid
  <1>3. PICK g \in Nat : g = Len(got) BY <1>2 DEF Sequence
  <1>4. PICK k \in 1 .. Len(items) : k = g + 1
    <2>1. Len(items) \in Nat /\ g < Len(items) BY <1>2, <1>3 DEF Sequence, ReadItem
    <2>2. g + 1 \in 1 .. Len(items) BY <2>1
    <2> QED BY <2>2
  <1>5. PICK ty, bs : ty = items[k].type /\ bs = Ahead(getReadSize) OBVIOUS
  <1>6. CASE Crash BY <1>6, ItemsKept DEF Crash, history
  <1>7. CASE ~Crash
    <2>1. Get(Takes(ty, bs)) /\ got' = Append(got, Decode(ty, bs))
      BY <1>3, <1>4, <1>5, <1>7 DEF ReadItem
    <2>2. PICK size, x : size = Takes(ty, bs) /\ x = Decode(ty, bs) OBVIOUS
    <2>3. /\ ~EndsBefore(m_cur, nodes, size) /\ m_position' = m_position + size
          /\ UNCHANGED <<m_size, m_endian, mem, items>>
      BY <2>1, <2>2, <1>7 DEF Get
    <2>4. m_cur # Null BY <2>3 DEF EndsBefore
    <2>5. Placed(st, e)' BY <1>1, <1>2, <2>3, PlacedKept DEF Inv, ShapeOK
    <2>6. /\ Sequence(got') /\ Len(got') = k
          /\ \A i \in 1 .. g : got'[i] = got[i]
          /\ got'[k] = x
      <3>1. got' = Append(got, x) BY <2>1, <2>2
      <3> QED BY <3>1, <1>2, <1>3, <1>4, AppendSequence
    <2>7. Sequence(items)' /\ Sequence(got)' BY <1>2, <2>3, <2>6 DEF Sequence
    <2>8. Len(got') <= Len(items') BY <1>4, <2>3, <2>6, <1>2 DEF Sequence
    <2>9. ASSUME OwnReaders(k)
          PROVE  got'[k] = items[k].value /\ m_position' = st[k + 1]
      <3>0. OwnReaders(g) /\ ReadAs(items[k].type) = items[k].type
        BY <2>9, <1>3, <1>4 DEF OwnReaders
      <3>1. m_position = st[k]
        <4>1. CASE got = <<>>
          <5>1. g = 0 /\ k = 1 BY <4>1, <1>3, <1>4, EmptySequence
          <5>2. m_position = 0 BY <4>1 DEF ReadItem
          <5> QED BY <5>1, <5>2, <1>1 DEF Placed
        <4>2. CASE got # <<>> BY <4>2, <3>0, <1>1, <1>3, <1>4 DEF ReadSoFar
        <4> QED BY <4>1, <4>2
      <3>2. Begins(bs, e[k]) BY <3>1, <2>4, <1>1, <1>2, <1>5, AheadBegins
      <3>3. PICK u \in Types : \E v \in ValuesOf(u) :
              items[k] = [type |-> u, value |-> v] /\ e[k] = Encode(u, v)
        BY <1>1 DEF Placed
      <3>4. PICK v \in ValuesOf(u) :
              items[k] = [type |-> u, value |-> v] /\ e[k] = Encode(u, v)
        BY <3>3
      <3>5. ty = u /\ items[k].value = v BY <3>4, <1>5
      <3>6. ReadAs(u) = u BY <3>0, <3>5, <1>5
      <3>7. v \in TypeValues(u) BY EdgesAreValues
      <3>8. Begins(bs, Encode(u, v)) BY <3>2, <3>4
      <3>9. Takes(u, bs) = Len(Encode(u, v)) /\ Decode(u, bs) = v
        BY <3>6, <3>7, <3>8, BytesCodecsInverse
      <3>10. size = Len(e[k]) /\ x = v BY <3>9, <3>4, <3>5, <2>2
      <3>11. m_position' = st[k + 1]
        <4>1. st[k] + Len(e[k]) = st[k + 1] BY <1>1 DEF Placed
        <4> QED BY <4>1, <3>1, <3>10, <2>3
      <3>12. got'[k] = items[k].value BY <2>6, <3>5, <3>10
      <3> QED BY <3>11, <3>12
    <2>10. \A i : OwnReaders(i)' <=> OwnReaders(i) BY <2>3 DEF OwnReaders
    <2>11. ReadSoFar(st)'
      <3>1. ASSUME NEW i \in 1 .. Len(got'), OwnReaders(i)'
            PROVE  got'[i] = items'[i].value
        <4>1. OwnReaders(i) /\ i \in 1 .. k BY <3>1, <2>6, <2>10
        <4>2. CASE i = k BY <4>1, <4>2, <2>3, <2>9
        <4>3. CASE i # k
          <5>1. i \in 1 .. g BY <4>1, <4>3, <1>4
          <5>2. got[i] = items[i].value BY <4>1, <5>1, <1>1, <1>3 DEF ReadSoFar
          <5> QED BY <5>1, <5>2, <2>3, <2>6
        <4> QED BY <4>2, <4>3
      <3>2. (OwnReaders(Len(got)) => m_position = st[Len(got) + 1])'
        <4>1. OwnReaders(k)' => m_position' = st[k + 1] BY <2>9, <2>10
        <4> QED BY <4>1, <2>6
      <3> QED BY <3>1, <3>2, <2>8 DEF ReadSoFar
    <2> QED BY <2>5, <2>7, <2>11 DEF ItemsLaid
  <1> QED BY <1>6, <1>7

\* Every operation keeps the typed values laid out.
LEMMA ItemsStep ==
  ASSUME Inv, Inv', ItemsLaid, [Next]_vars
  PROVE  ItemsLaid'
  <1>0. m_size' \in Nat BY DEF Inv, ShapeOK
  <1>1. CASE UNCHANGED vars BY <1>1, ItemsKept DEF vars, history
  <1>2. ASSUME items' = <<>>, got' = <<>> PROVE ItemsLaid'
    <2>1. (items = <<>> /\ got = <<>> /\ m_size \in Nat => ItemsLaid)' BY NothingLaid, PTL
    <2> QED BY <2>1, <1>0, <1>2
  <1>3. ASSUME NEW n \in 1 .. 3, NEW bs \in [1 .. n -> {0, 1}], write(bs) PROVE ItemsLaid'
    <2>1. got' = got BY <1>3 DEF write, Put, Copy, Crash, history
    <2> QED BY <2>1, <1>2, <1>3 DEF write, Untyped
  <1>4. ASSUME NEW n \in 0 .. MaxBytes, read(n) PROVE ItemsLaid'
    <2>1. items' = items BY <1>4 DEF read, Get, Crash, history
    <2> QED BY <2>1, <1>2, <1>4 DEF read, Untyped
  <1>5. ASSUME NEW v \in 0 .. MaxBytes, Seek(v) PROVE ItemsLaid'
    BY <1>2, <1>5 DEF Seek, Untyped, history
  <1>6. CASE clear BY <1>2, <1>6 DEF clear
  <1>7. ASSUME NEW n \in 1 .. 3, NEW k \in 0 .. n, StreamRead([i \in 1 .. k |-> 1], n)
        PROVE  ItemsLaid'
    BY <1>2, <1>7 DEF StreamRead, Copy, Crash, Untyped, history
  <1>8. ASSUME NEW length \in 1 .. 3, NEW size \in 1 .. 3, StreamWrite(length, size)
        PROVE  ItemsLaid'
    <2>1. items' = items /\ got' = got BY <1>8 DEF StreamWrite, Get, Crash, history
    <2> QED BY <2>1, <1>2, <1>8 DEF StreamWrite, Untyped
  <1>9. ASSUME ~crashed, NEW ty \in Types, NEW v \in ValuesOf(ty), WriteItem(ty, v)
        PROVE  ItemsLaid'
    BY <1>9, WriteItemLays
  <1>10. CASE Rewind BY <1>10, RewindLays
  <1>11. CASE ReadItem BY <1>11, ReadItemLays
  <1> QED BY <1>1, <1>3, <1>4, <1>5, <1>6, <1>7, <1>8, <1>9, <1>10, <1>11 DEF Next

\* A sequence of typed values is read back as it was written, whatever blocks it was
\* spread over, unless a value of it is an int64 varint or a double, which another
\* type's reader reads.
THEOREM BytesItemsReadBack == Spec => []ItemsReadBack
  <1>1. Init => ItemsLaid
    <2> SUFFICES ASSUME Init PROVE ItemsLaid OBVIOUS
    <2> QED BY NothingLaid DEF Init
  <1>2. Inv /\ Inv' /\ ItemsLaid /\ [Next]_vars => ItemsLaid' BY ItemsStep
  <1>3. ItemsLaid => ItemsReadBack
    BY DEF ItemsLaid, ReadSoFar, OwnReaders, ItemsReadBack
  <1> QED BY <1>1, <1>2, <1>3, ByteArrayInvariant, PTL DEF Spec
-----------------------------------------------------------------------------
\* Every byte of the blocks is a byte or has not been written.
MemoryOK == mem \in [0 .. m_capacity - 1 -> Byte \cup {Junk}]

\* What is left of the types, and that there is a first block.
FlagsOK == m_endian \in Orders /\ crashed \in BOOLEAN /\ nodes \in Nat \ {0}

\* Digits of ByteBits bits are bytes, and so are those of a group with the flag.
LEMMA DigitsAreBytes ==
  ASSUME NEW v \in Nat, NEW i \in Nat \ {0}
  PROVE  /\ Digit(v, ByteBits, i) \in Byte
         /\ Digit(v, Group, i) \in Byte /\ Digit(v, Group, i) + More \in Byte
         /\ 0 \in Byte /\ 1 \in Byte
  <1>1. PICK p \in Nat \ {0} : p = More /\ p = Pow2[Group] BY BitsType
  <1>2. Pow2[ByteBits] = 2 * p
    <2>1. Pow2[Group + 1] = 2 * Pow2[Group] BY BitsType, Pow2Next
    <2>2. Group + 1 = ByteBits BY BitsType
    <2> QED BY <2>1, <2>2, <1>1
  <1>3. Byte = 0 .. (2 * p) - 1 BY <1>2 DEF Byte
  <1>4. ASSUME NEW bits \in Nat, NEW q \in Nat \ {0}, q = Pow2[bits]
        PROVE  Digit(v, bits, i) \in 0 .. q - 1
    <2>1. PICK e \in Nat : e = bits * (i - 1) OBVIOUS
    <2>2. PICK r \in Nat \ {0} : r = Pow2[e] BY Pow2Type
    <2>3. v \div r \in Nat OBVIOUS
    <2>4. (v \div r) % q \in 0 .. q - 1 BY <2>3
    <2> QED BY <2>1, <2>2, <2>4, <1>4 DEF Digit
  <1>5. Digit(v, Group, i) \in 0 .. p - 1 BY <1>1, <1>4, BitsType
  <1>6. Digit(v, ByteBits, i) \in 0 .. (2 * p) - 1
    <2>1. PICK q \in Nat \ {0} : q = 2 * p OBVIOUS
    <2> QED BY <2>1, <1>2, <1>4, BitsType
  <1> QED BY <1>1, <1>3, <1>5, <1>6

\* A number is written as bytes.
LEMMA NumberIsBytes ==
  ASSUME NEW ty \in Numbers, NEW v \in NumbersOf(ty)
  PROVE  \A i \in 1 .. Len(EncodeNumber(ty, v)) : EncodeNumber(ty, v)[i] \in Byte
  <1> DEFINE n == SizeOf(ty)
             w == Width(n)
  <1>1. n \in Nat \ {0} BY DEF SizeOf, Fixed, Varint, Numbers
  <1>2. w \in Nat \ {0} BY <1>1, BitsType DEF Width
  <1>3. PICK p \in Nat \ {0} : p = Pow2[w] BY <1>2, Pow2Type
  <1>4. v \in Int
    <2>1. PICK j \in Nat : j = w - 1 BY <1>2
    <2>2. Pow2[j] \in Nat BY Pow2Type
    <2> QED BY <2>1, <2>2, <1>3 DEF NumbersOf, SignedOf, UnsignedOf
  <1>5. CASE ty \in DOMAIN Fixed
    <2>0. n = Fixed[ty] BY <1>5 DEF SizeOf
    <2> HIDE DEF n
    <2> DEFINE u == ToUnsigned(v, w)
               bytes == LittleEndian(u, n)
    <2>1. EncodeNumber(ty, v) = Swap(bytes) BY <1>5, <2>0 DEF EncodeNumber
    <2>2. u \in Nat
      <3>1. v % p \in Nat BY <1>4
      <3> QED BY <3>1, <1>3 DEF ToUnsigned
    <2> HIDE DEF u
    <2>3. bytes = [i \in 1 .. n |-> Digit(u, ByteBits, i)] BY DEF LittleEndian
    <2>4. \A i \in 1 .. n : bytes[i] \in Byte
      <3> TAKE i \in 1 .. n
      <3>1. i \in Nat \ {0} BY <1>1
      <3>2. Digit(u, ByteBits, i) \in Byte BY <3>1, <2>2, DigitsAreBytes
      <3> QED BY <3>2, <2>3
    <2>5. Len(bytes) = n BY <1>1, <2>3
    <2> HIDE DEF bytes
    <2>6. Len(Reverse(bytes)) = n /\ \A i \in 1 .. n : Reverse(bytes)[i] \in Byte
      <3>1. Reverse(bytes) = [i \in 1 .. n |-> bytes[(n - i) + 1]] BY <2>5 DEF Reverse
      <3>2. ASSUME NEW i \in 1 .. n PROVE Reverse(bytes)[i] \in Byte
        <4>1. PICK j \in 1 .. n : j = (n - i) + 1 BY <1>1
        <4> QED BY <4>1, <3>1, <2>4
      <3> QED BY <3>1, <3>2, <1>1
    <2> QED BY <2>1, <2>4, <2>5, <2>6 DEF Swap
  <1>6. CASE ty \notin DOMAIN Fixed
    <2>0. n = Varint[ty] BY <1>6 DEF SizeOf
    <2> HIDE DEF n
    <2> DEFINE u == IF ty \in Signed THEN EncodeZigzag(v, w) ELSE v
    <2>1. EncodeNumber(ty, v) = EncodeVarint(u, w) BY <1>6, <2>0 DEF EncodeNumber
    <2>2. u \in UnsignedOf(w)
      <3>1. CASE ty \in Signed
        <4>1. v \in SignedOf(w) BY <3>1 DEF NumbersOf, n
        <4> HIDE DEF w
        <4> QED BY <3>1, <4>1, <1>2, SignedReadsBack
      <3>2. CASE ty \notin Signed BY <3>2 DEF NumbersOf, n
      <3> QED BY <3>1, <3>2
    <2> HIDE DEF u, w
    <2>3. u \in Nat BY <2>2, <1>3 DEF UnsignedOf
    <2>4. PICK k \in Nat : k = GroupsOf(u, w) BY <1>2, GroupsType
    <2>5. EncodeVarint(u, w) = [i \in 1 .. k |-> Digit(u, Group, i) + (IF i < k THEN More ELSE 0)]
      BY <2>4 DEF EncodeVarint
    <2>6. ASSUME NEW i \in 1 .. k PROVE EncodeVarint(u, w)[i] \in Byte
      <3>1. i \in Nat \ {0} BY <2>4
      <3>2. Digit(u, Group, i) \in Byte /\ Digit(u, Group, i) + More \in Byte
        BY <3>1, <2>3, DigitsAreBytes
      <3>3. Digit(u, Group, i) + 0 \in Byte
        <4>1. Pow2[ByteBits] \in Nat BY BitsType, Pow2Type
        <4> QED BY <3>2, <4>1 DEF Byte
      <3> QED BY <2>5, <3>2, <3>3
    <2>7. Len(EncodeVarint(u, w)) = k BY <2>4, <2>5
    <2> QED BY <2>1, <2>6, <2>7
  <1> QED BY <1>5, <1>6

\* A typed value is written as bytes.
LEMMA EncodeIsBytes ==
  ASSUME NEW ty \in Types, NEW v \in ValuesOf(ty)
  PROVE  \A i \in 1 .. Len(Encode(ty, v)) : Encode(ty, v)[i] \in Byte
  <1>0. v \in TypeValues(ty) BY EdgesAreValues
  <1>1. CASE ty \notin DOMAIN Strings
    <2>1. ty \in Numbers /\ v \in NumbersOf(ty) BY <1>0, <1>1 DEF Types, Numbers, TypeValues
    <2> QED BY <2>1, <1>1, NumberIsBytes DEF Encode
  <1>2. CASE ty \in DOMAIN Strings
    <2>1. PICK nt \in Numbers : nt = Strings[ty]
      BY <1>2 DEF Strings, Numbers, Fixed, Varint
    <2>2. v \in Seq(Nat) /\ Len(v) \in NumbersOf(nt) BY <1>0, <1>2, <2>1 DEF TypeValues
    <2>3. PICK k \in Nat : k = Len(v) BY <2>2, LenProperties
    <2>4. PICK head : head = EncodeNumber(nt, k) OBVIOUS
    <2>5. Encode(ty, v) = head \o v BY <1>2, <2>1, <2>3, <2>4 DEF Encode
    <2>6. Sequence(head) BY <2>1, <2>4, EncodeNumberIsSequence DEF Numbers
    <2>7. \A i \in 1 .. Len(head) : head[i] \in Byte BY <2>2, <2>3, <2>4, NumberIsBytes
    <2>8. \A i \in 1 .. k : v[i] \in Byte
      <3>1. v = <<>> \/ v = <<1>> BY <1>2 DEF ValuesOf
      <3>2. 1 \in Byte BY DigitsAreBytes
      <3> QED BY <3>1, <3>2, <2>3
    <2>9. PICK n \in Nat : n = Len(head) BY <2>6 DEF Sequence
    <2>10. head \in Seq(Byte) /\ v \in Seq(Byte)
      <3>1. head \in [1 .. n -> Byte]
        <4>1. DOMAIN head = 1 .. n /\ head = [i \in 1 .. n |-> head[i]]
          BY <2>6, <2>9, LenProperties DEF Sequence
        <4> QED BY <4>1, <2>7, <2>9
      <3>2. v \in [1 .. k -> Byte]
        <4>1. v = [i \in 1 .. k |-> v[i]] BY <2>2, <2>3
        <4> QED BY <4>1, <2>8
      <3> QED BY <3>1, <3>2
    <2>11. PICK e : e = Encode(ty, v) /\ e \in Seq(Byte)
      <3>1. head \o v \in Seq(Byte) BY <2>10, ConcatProperties
      <3> QED BY <3>1, <2>5
    <2>12. \A i \in 1 .. Len(e) : e[i] \in Byte BY <2>11, ElementOfSeq
    <2> QED BY <2>11, <2>12
  <1> QED BY <1>1, <1>2

\* Bytes are copied to where the position is.
LEMMA CopyKeepsMemory ==
  ASSUME Inv, MemoryOK, NEW more \in Nat, NEW bs, Len(bs) \in Nat,
         \A i \in 1 .. Len(bs) : bs[i] \in Byte,
         ~RunsOff(more, Len(bs)), Grow(more, bs)
  PROVE  MemoryOK'
  <1> DEFINE n == nodes + more
             a == Address(CurGrown(more))
  <1>1. m_baseSize \in Nat \ {0} /\ n \in Nat /\ m_position \in Nat
    BY ByteArrayAssumption DEF ByteArrayAssumption, Inv, ShapeOK
  <1>2. a = m_position BY AddressIsPosition DEF RunsOff, EndsBefore
  <1>3. m_capacity' = n * m_baseSize BY <1>1 DEF Grow, Inv, ShapeOK
  <1>4. mem' = [i \in 0 .. n * m_baseSize - 1 |->
                  IF a <= i /\ i < a + Len(bs) THEN bs[i - a + 1]
                  ELSE IF i \in DOMAIN mem THEN mem[i] ELSE Junk]
    BY DEF Grow
  <1>5. PICK z \in Nat : z = n * m_baseSize BY <1>1
  <1> HIDE DEF n, a
  <1>6. ASSUME NEW i \in 0 .. z - 1
        PROVE  (IF a <= i /\ i < a + Len(bs) THEN bs[i - a + 1]
                ELSE IF i \in DOMAIN mem THEN mem[i] ELSE Junk) \in Byte \cup {Junk}
    <2>1. CASE a <= i /\ i < a + Len(bs)
      <3>1. PICK j \in 1 .. Len(bs) : j = i - a + 1 BY <2>1, <1>1, <1>2
      <3> QED BY <2>1, <3>1
    <2>2. CASE ~(a <= i /\ i < a + Len(bs)) BY <2>2 DEF MemoryOK
    <2> QED BY <2>1, <2>2
  <1> QED BY <1>3, <1>4, <1>5, <1>6 DEF MemoryOK

\* Every kind of write.
LEMMA WritesKeepMemory ==
  ASSUME Inv, MemoryOK, FlagsOK, NEW bs, Len(bs) \in Nat,
         \A i \in 1 .. Len(bs) : bs[i] \in Byte, Writes(bs)
  PROVE  MemoryOK' /\ FlagsOK'
  <1>1. CASE Crash BY <1>1 DEF Crash, chain, MemoryOK, FlagsOK
  <1>2. ASSUME NEW more \in Nat, ~RunsOff(more, Len(bs)), Copy(more, bs)
        PROVE  MemoryOK' /\ FlagsOK'
    <2>1. Grow(more, bs) /\ UNCHANGED <<m_endian, crashed>> BY <1>2 DEF Copy
    <2>2. MemoryOK' BY <1>2, <2>1, CopyKeepsMemory
    <2>3. nodes' = nodes + more BY <2>1 DEF Grow
    <2>4. nodes' \in Nat \ {0} BY <2>3 DEF FlagsOK
    <2> QED BY <2>1, <2>2, <2>4 DEF FlagsOK
  <1> QED BY <1>1, <1>2 DEF Writes

\* Every operation writes bytes.
LEMMA MemoryStep ==
  ASSUME Inv, MemoryOK, FlagsOK, [Next]_vars
  PROVE  MemoryOK' /\ FlagsOK'
  <1>0. 0 \in Byte /\ 1 \in Byte BY DigitsAreBytes
  <1>a. ASSUME UNCHANGED <<mem, m_capacity, nodes, m_endian>>, crashed' \in BOOLEAN
        PROVE  MemoryOK' /\ FlagsOK'
    BY <1>a DEF MemoryOK, FlagsOK
  <1>b. ASSUME NEW size, Get(size) PROVE MemoryOK' /\ FlagsOK'
    BY <1>a, <1>b DEF Get, Crash, chain, FlagsOK
  <1>1. CASE UNCHANGED vars BY <1>1, <1>a DEF vars, chain, FlagsOK
  <1>2. ASSUME NEW n \in 1 .. 3, NEW bs \in [1 .. n -> {0, 1}], write(bs)
        PROVE  MemoryOK' /\ FlagsOK'
    <2>1. Len(bs) = n /\ n \in Nat BY FunctionIsSequence
    <2>2. \A i \in 1 .. Len(bs) : bs[i] \in Byte BY <2>1, <1>0
    <2> QED BY <1>2, <2>1, <2>2, PutWrites, WritesKeepMemory DEF write
  <1>3. ASSUME NEW n \in 0 .. MaxBytes, read(n) PROVE MemoryOK' /\ FlagsOK'
    BY <1>3, <1>b DEF read
  <1>c. ASSUME NEW v, setPosition(v) PROVE MemoryOK' /\ FlagsOK'
    BY <1>a, <1>c DEF setPosition, FlagsOK
  <1>4. ASSUME NEW v \in 0 .. MaxBytes, Seek(v) PROVE MemoryOK' /\ FlagsOK'
    BY <1>4, <1>c DEF Seek
  <1>5. CASE clear
    <2>1. m_baseSize \in Nat \ {0} /\ nodes \in Nat \ {0} /\ m_capacity = nodes * m_baseSize
      BY ByteArrayAssumption DEF ByteArrayAssumption, Inv, ShapeOK, FlagsOK
    <2>2. \A a \in 0 .. m_baseSize - 1 : mem[a] \in Byte \cup {Junk}
      <3>1. m_baseSize <= m_capacity BY <2>1
      <3> QED BY <3>1, <2>1 DEF MemoryOK
    <2> QED BY <1>5, <2>2 DEF clear, MemoryOK, FlagsOK
  <1>6. ASSUME NEW n \in 1 .. 3, NEW k \in 0 .. n, StreamRead([i \in 1 .. k |-> 1], n)
        PROVE  MemoryOK' /\ FlagsOK'
    <2>1. PICK bs : bs = [i \in 1 .. k |-> 1] OBVIOUS
    <2>2. Len(bs) \in Nat /\ \A i \in 1 .. Len(bs) : bs[i] \in Byte BY <2>1, <1>0
    <2>3. Writes(bs) BY <1>6, <2>1, StreamReadWrites
    <2> QED BY <2>2, <2>3, WritesKeepMemory
  <1>7. ASSUME NEW length \in 1 .. 3, NEW size \in 1 .. 3, StreamWrite(length, size)
        PROVE  MemoryOK' /\ FlagsOK'
    <2>1. Crash \/ Get(size) BY <1>7 DEF StreamWrite
    <2> QED BY <2>1, <1>a, <1>b DEF Crash, chain
  <1>8. ASSUME NEW ty \in Types, NEW v \in ValuesOf(ty), WriteItem(ty, v)
        PROVE  MemoryOK' /\ FlagsOK'
    <2>1. PICK b : b = Encode(ty, v) OBVIOUS
    <2>2. Writes(b) /\ Len(b) \in Nat BY <1>8, <2>1, WriteItemWrites
    <2>3. \A i \in 1 .. Len(b) : b[i] \in Byte BY <2>1, EncodeIsBytes
    <2> QED BY <2>2, <2>3, WritesKeepMemory
  <1>9. CASE Rewind BY <1>9, <1>c DEF Rewind
  <1>10. CASE ReadItem
    <2>1. PICK size : Crash \/ Get(size) BY <1>10 DEF ReadItem
    <2> QED BY <2>1, <1>a, <1>b DEF Crash, chain
  <1> QED BY <1>1, <1>2, <1>3, <1>4, <1>5, <1>6, <1>7, <1>8, <1>9, <1>10 DEF Next

\* The types of the array, whatever is done with it: in particular every byte a
\* codec writes fits in a byte, the last group of a varint and its flag too.
THEOREM BytesTypeOK == Spec => []TypeOK
  <1>1. Init => MemoryOK /\ FlagsOK
    <2> SUFFICES ASSUME Init PROVE MemoryOK /\ FlagsOK OBVIOUS
    <2>1. MemoryOK BY DEF Init, MemoryOK
    <2>2. nodes = 1 /\ m_endian \in Orders /\ crashed = FALSE BY DEF Init
    <2>3. nodes \in Nat \ {0} BY <2>2
    <2>4. crashed \in BOOLEAN BY <2>2, Zenon
    <2> QED BY <2>1, <2>2, <2>3, <2>4, Zenon DEF FlagsOK
  <1>2. Inv /\ MemoryOK /\ FlagsOK /\ [Next]_vars => MemoryOK' /\ FlagsOK'
    BY MemoryStep
  <1>3. Inv /\ MemoryOK /\ FlagsOK => TypeOK
    <2> SUFFICES ASSUME Inv, MemoryOK, FlagsOK PROVE TypeOK OBVIOUS
    <2>1. m_baseSize \in Nat \ {0} /\ nodes \in Nat
      BY ByteArrayAssumption DEF ByteArrayAssumption, Inv, ShapeOK
    <2>2. m_cur \in {Null} \cup 0 .. nodes - 1
      <3>1. m_position \in Nat BY DEF Inv, ShapeOK
      <3>2. m_position \div m_baseSize < nodes <=> m_position < nodes * m_baseSize
        BY <2>1, <3>1, DivLess
      <3>3. m_position \div m_baseSize \in Nat BY <2>1, <3>1, DivMod
      <3> QED BY <2>1, <3>2, <3>3 DEF Inv, CurAtPosition
    <2> QED BY <2>2 DEF Inv, ShapeOK, MemoryOK, FlagsOK, TypeOK
  <1> QED BY <1>1, <1>2, <1>3, ByteArrayInvariant, PTL DEF Spec
=============================================================================
