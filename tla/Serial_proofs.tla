----------------------------- MODULE Serial_proofs -----------------------------
(***************************************************************************)
(* Proofs about what goes through the serial line.                         *)
(*   - Module UsartTx: the packets, for a ring of any size from 5 to 128   *)
(*     and any packets.                                                    *)
(*   - Module Trace: the calls of Usart_Trace<n> that RewriteTrace writes  *)
(*     and that put packets into that ring, for calls of any length and    *)
(*     any formats.                                                        *)
(*   - Module Crc: the checksum, for messages of any length.               *)
(***************************************************************************)
EXTENDS UsartTx, Trace, Crc, SequenceTheorems, FiniteSetTheorems, WellFoundedInduction, TLAPS

(* With 254 or 255 bytes the space that Usart_SendAnyData asks for does not *)
(* fit into a byte.                                                         *)
CountsFit == DataCounts \subseteq 0..253

AllPackets == Droppable \cup Awaiting

-----------------------------------------------------------------------------

(* The least number principle, which stands for induction.                  *)
LEMMA NatMinimum ==
  ASSUME NEW T \in SUBSET Nat, T # {}
  PROVE  \E x \in T : \A y \in T : x <= y
<1> DEFINE R == OpToRel(<, Nat)
<1>1. IsWellFoundedOn(R, Nat)
  BY NatLessThanWellFounded
<1>2. R = {ss \in Nat \X Nat : ss[1] < ss[2]}
  BY Zenon DEF OpToRel
<1> HIDE DEF R
<1>3. PICK x \in T : \A y \in T : ~(<<y, x>> \in R)
  BY <1>1, WFMin
<1>4. \A y \in T : ~(y < x)
  BY <1>2, <1>3
<1> QED
  BY <1>4

(* A bounded set of numbers has a maximum.                                  *)
LEMMA BoundedMaximum ==
  ASSUME NEW n \in Nat, NEW S \in SUBSET (1..n), S # {}
  PROVE  Max(S) \in S /\ \A y \in S : Max(S) >= y
<1> DEFINE T == {k \in Nat : n - k \in S}
<1>1. T # {}
  <2>1. PICK s \in S : TRUE
    OBVIOUS
  <2>2. n - s \in Nat /\ n - (n - s) = s
    BY <2>1
  <2> QED
    BY <2>2
<1>2. PICK k \in T : \A j \in T : k <= j
  BY <1>1, NatMinimum
<1>3. \A y \in S : n - k >= y
  <2> TAKE y \in S
  <2>1. n - y \in T
    BY SMT
  <2>2. k <= n - y /\ k \in Nat /\ y \in Nat
    BY <1>2, <2>1
  <2> QED
    BY <2>2
<1>4. n - k \in S
  BY <1>2
<1> QED
  BY <1>3, <1>4, Zenon DEF Max

(* Positions beyond the end of the ring go round once.                      *)
LEMMA Wraps ==
  ASSUME NEW x \in Nat, x < 2 * Size
  PROVE  /\ x < Size => x % Size = x
         /\ x >= Size => x % Size = x - Size
BY SizeAssumption

(* All packets have at least one byte, and unless the space they ask for is *)
(* cut off, they ask for as much as they need.                              *)
LEMMA PacketShape ==
  ASSUME NEW packet \in AllPackets
  PROVE  /\ packet.length \in 1..257 /\ packet.needed \in 0..255
         /\ CountsFit => packet.length <= packet.needed
<1>1. CASE packet = Char \/ packet = Ack \/ packet = WriteReply
  BY <1>1 DEF Packet, Char, Ack, WriteReply
<1>2. CASE \E n \in TraceArgs : packet = Trace(n)
  BY <1>2, TraceArgsAssumption DEF Packet, Trace
<1>3. CASE \E len \in ReadLengths : packet = ReadReply(len)
  <2>1. PICK len \in ReadLengths : packet = ReadReply(len)
    BY <1>3
  <2>2. packet.needed = 4 /\ packet.length \in 2..4
    BY <2>1, ReadLengthsAssumption DEF Packet, ReadReply
  <2> QED
    BY <2>2
<1>4. CASE \E count \in DataCounts : packet = AnyData(count)
  <2>1. PICK count \in DataCounts : packet = AnyData(count)
    BY <1>4
  <2>2. count \in 0..255 /\ (CountsFit => count \in 0..253)
    BY DataCountsAssumption DEF CountsFit
  <2>3. packet.length = count + 2 /\ packet.needed = (count + 2) % 256
    BY <2>1 DEF Packet, AnyData
  <2> QED
    BY <2>2, <2>3
<1> QED
  BY <1>1, <1>2, <1>3, <1>4 DEF AllPackets, Droppable, Awaiting

(* The bytes of the packets are bytes, and none is the empty entry.         *)
LEMMA PacketBytes ==
  ASSUME NEW packet \in AllPackets, NEW i \in 1..packet.length
  PROVE  ByteOf(packet, i) \in Bytes /\ ByteOf(packet, i) # NoByte
<1>1. i # 0
  BY PacketShape
<1> QED
  BY <1>1 DEF Bytes, AllPackets, ByteOf, NoByte

(* The number of entries in use, and where the next byte goes.              *)
LEMMA UsedRange ==
  ASSUME TypeOK
  PROVE  /\ Used \in 0..(Size-1) /\ Available = Size - 1 - Used
         /\ txIn = (txOut + Used) % Size
         /\ Used = 0 <=> txIn = txOut
<1>1. txIn \in 0..(Size-1) /\ txOut \in 0..(Size-1)
  BY DEF TypeOK, Positions
<1>2. Used \in 0..(Size-1) /\ (Used = 0 <=> txIn = txOut)
  BY <1>1, SizeAssumption DEF Used
<1>3. txOut + Used \in Nat /\ txOut + Used < 2 * Size
  BY <1>1, <1>2, SizeAssumption
<1>4. txIn = (txOut + Used) % Size
  <2>1. /\ txOut + Used < Size => (txOut + Used) % Size = txOut + Used
        /\ txOut + Used >= Size => (txOut + Used) % Size = (txOut + Used) - Size
    BY <1>3, Wraps
  <2> QED
    BY <1>1, <2>1, SizeAssumption DEF Used
<1> QED
  BY <1>1, <1>2, <1>4, SizeAssumption DEF Available

(* The same of the state after a step.                                      *)
LEMMA EmptyAfterStep == TypeOK' => (Used' = 0 <=> txIn' = txOut')
<1> DEFINE Empty == TypeOK => (Used = 0 <=> txIn = txOut)
<1>1. Empty
  BY UsedRange
<1>2. Empty'
  <2> HIDE DEF Empty
  <2> QED
    BY <1>1, PTL
<1> QED
  BY <1>2

(* What is written where: entry j gets the last byte that falls on it.      *)
LEMMA EntriesWritten ==
  ASSUME NEW packet \in AllPackets, NEW i \in Positions, Enqueue(i, packet), NEW j \in Positions
  PROVE  /\ \/ txBuffer'[j] = txBuffer[j] /\ \A n \in 1..packet.length : (i + n - 1) % Size # j
            \/ \E n \in 1..packet.length :
                 /\ (i + n - 1) % Size = j /\ txBuffer'[j] = ByteOf(packet, n)
<1> DEFINE written == {n \in 1..packet.length : (i + n - 1) % Size = j}
<1>1. txBuffer'[j] = IF written = {} THEN txBuffer[j] ELSE ByteOf(packet, Max(written))
  BY DEF Enqueue
<1>2. CASE written = {}
  BY <1>1, <1>2
<1>3. CASE written # {}
  <2>1. packet.length \in Nat /\ written \in SUBSET (1..packet.length)
    BY PacketShape
  <2>2. Max(written) \in written
    <3> HIDE DEF written
    <3> QED
      BY <1>3, <2>1, BoundedMaximum
  <2> QED
    BY <1>1, <1>3, <2>2
<1> QED
  BY <1>2, <1>3

-----------------------------------------------------------------------------

(* The entry of the ring that is sent as the k-th from now.                 *)
Place(k) == (txOut + k - 1) % Size
Entry(k) == txBuffer[Place(k)]

(* The places of the entries in a ring.                                     *)
LEMMA PlaceLemma ==
  ASSUME TypeOK, NEW k \in 1..Size
  PROVE  /\ Place(k) \in Positions
         /\ txOut + k <= Size => Place(k) = txOut + k - 1
         /\ txOut + k > Size => Place(k) = txOut + k - 1 - Size
<1>1. txOut \in 0..(Size-1) /\ k \in 1..Size /\ Size \in 5..128
  BY SizeAssumption DEF TypeOK, Positions
<1> DEFINE x == txOut + k - 1
<1>2. x \in Nat /\ x < 2 * Size
  BY <1>1
<1>3. Place(k) = x % Size
  BY DEF Place
<1>4. /\ x < Size => x % Size = x
      /\ x >= Size => x % Size = x - Size
  <2> HIDE DEF x
  <2> QED
    BY <1>2, Wraps
<1> QED
  BY <1>1, <1>2, <1>3, <1>4 DEF Positions

(* Different entries have different places.                                 *)
LEMMA PlacesDiffer ==
  ASSUME TypeOK, NEW k \in 1..Size, NEW l \in 1..Size, Place(k) = Place(l)
  PROVE  k = l
<1>1. txOut \in 0..(Size-1) /\ Size \in 5..128
  BY SizeAssumption DEF TypeOK, Positions
<1>2. /\ txOut + k <= Size => Place(k) = txOut + k - 1
      /\ txOut + k > Size => Place(k) = txOut + k - 1 - Size
  BY PlaceLemma
<1>3. /\ txOut + l <= Size => Place(l) = txOut + l - 1
      /\ txOut + l > Size => Place(l) = txOut + l - 1 - Size
  BY PlaceLemma
<1> QED
  BY <1>1, <1>2, <1>3

(* The byte n of a packet that is written from txIn on gets the place of    *)
(* the n-th entry behind those in use.                                      *)
LEMMA PlaceOfNew ==
  ASSUME TypeOK, NEW n \in 1..Size, Used + n <= Size
  PROVE  (txIn + n - 1) % Size = Place(Used + n)
<1>1. /\ txOut \in 0..(Size-1) /\ txIn \in 0..(Size-1) /\ Size \in 5..128 /\ Used \in 0..(Size-1)
      /\ Used = IF txIn < txOut THEN txIn - txOut + Size ELSE txIn - txOut
  BY SizeAssumption, UsedRange DEF TypeOK, Positions, Used
<1> DEFINE x == txIn + n - 1
<1>2. x \in Nat /\ x < 2 * Size
  BY <1>1
<1>3. /\ x < Size => x % Size = x
      /\ x >= Size => x % Size = x - Size
  <2> HIDE DEF x
  <2> QED
    BY <1>2, Wraps
<1>4. Used + n \in 1..Size
  BY <1>1
<1>5. /\ txOut + (Used + n) <= Size => Place(Used + n) = txOut + (Used + n) - 1
      /\ txOut + (Used + n) > Size => Place(Used + n) = txOut + (Used + n) - 1 - Size
  BY <1>4, PlaceLemma
<1> QED
  BY <1>1, <1>3, <1>5

(* A packet that fits is appended to the entries in use, all of it, and     *)
(* none of these is touched.                                                *)
LEMMA PacketIsAppended ==
  ASSUME TypeOK, NEW packet \in AllPackets, packet.length <= Available,
         Enqueue(txIn, packet), txOut' = txOut
  PROVE  /\ Used' = Used + packet.length
         /\ \A k \in 1..Used : Entry(k)' = Entry(k)
         /\ \A n \in 1..packet.length, k \in 1..Size :
              k = Used + n => Entry(k)' = ByteOf(packet, n)
<1>1. /\ Size \in 5..128 /\ Used \in 0..(Size-1) /\ packet.length \in 1..(Size-1)
      /\ Used + packet.length <= Size - 1
      /\ txIn \in Positions /\ txIn \in 0..(Size-1) /\ txOut \in 0..(Size-1)
  <2>1. Size \in 5..128 /\ packet.length \in 1..257
    BY SizeAssumption, PacketShape
  <2>2. Used \in 0..(Size-1) /\ Available = Size - 1 - Used
    BY UsedRange
  <2>3. txIn \in 0..(Size-1) /\ txOut \in 0..(Size-1)
    BY DEF TypeOK, Positions
  <2> QED
    BY <2>1, <2>2, <2>3 DEF Positions
<1>2. \A n \in 1..packet.length : (txIn + n - 1) % Size = Place(Used + n)
  <2> TAKE n \in 1..packet.length
  <2>1. n \in 1..Size /\ Used + n <= Size
    BY <1>1
  <2> QED
    BY <2>1, PlaceOfNew
<1>3. \A k : Place(k)' = Place(k)
  BY DEF Place
<1>4. Used' = Used + packet.length
  <2> DEFINE x == txIn + packet.length
  <2>1. x \in Nat /\ x < 2 * Size
    BY <1>1
  <2>2. /\ x < Size => x % Size = x
        /\ x >= Size => x % Size = x - Size
    <3> HIDE DEF x
    <3> QED
      BY <2>1, Wraps
  <2>3. txIn' = x % Size
    BY DEF Enqueue
  <2> QED
    BY <1>1, <2>2, <2>3 DEF Used
<1>5. ASSUME NEW k \in 1..Used PROVE Entry(k)' = Entry(k)
  <2>1. k \in 1..Size /\ Place(k) \in Positions
    BY <1>1, PlaceLemma
  <2>2. \A n \in 1..packet.length : Place(Used + n) # Place(k)
    <3> TAKE n \in 1..packet.length
    <3>1. Used + n \in 1..Size /\ Used + n # k
      BY <1>1
    <3> QED
      BY <2>1, <3>1, PlacesDiffer
  <2>3. \A n \in 1..packet.length : (txIn + n - 1) % Size # Place(k)
    BY <1>2, <2>2
  <2>4. txBuffer'[Place(k)] = txBuffer[Place(k)]
    BY <1>1, <2>1, <2>3, EntriesWritten, Zenon
  <2> QED
    BY <1>3, <2>4 DEF Entry
<1>6. ASSUME NEW n \in 1..packet.length, NEW k \in 1..Size, k = Used + n
      PROVE  Entry(k)' = ByteOf(packet, n)
  <2>1. Place(k) \in Positions /\ (txIn + n - 1) % Size = Place(k)
    BY <1>2, <1>6, PlaceLemma
  <2>2. \A m \in 1..packet.length : Place(Used + m) = Place(k) => m = n
    <3> TAKE m \in 1..packet.length
    <3>1. Used + m \in 1..Size /\ (Used + m = k => m = n)
      BY <1>1, <1>6
    <3> QED
      BY <3>1, PlacesDiffer
  <2>3. \A m \in 1..packet.length : (txIn + m - 1) % Size = Place(k) => m = n
    BY <1>2, <2>2
  <2>4. txBuffer'[Place(k)] = ByteOf(packet, n)
    <3>1. ~ \A m \in 1..packet.length : (txIn + m - 1) % Size # Place(k)
      BY <2>1
    <3>2. \E m \in 1..packet.length :
            (txIn + m - 1) % Size = Place(k) /\ txBuffer'[Place(k)] = ByteOf(packet, m)
      BY <1>1, <2>1, <3>1, EntriesWritten, Zenon
    <3> QED
      BY <2>3, <3>2
  <2> QED
    BY <1>3, <2>4 DEF Entry
<1> QED
  BY <1>4, <1>5, <1>6

(* The handler takes the first entry, and the others move up by one.        *)
LEMMA FirstIsTaken ==
  ASSUME TypeOK, txIn # txOut, SendByte
  PROVE  /\ Used \in 1..(Size-1) /\ Used' = Used - 1
         /\ sent' = Entry(1)
         /\ \A k \in 1..(Used-1) : Entry(k)' = Entry(k + 1)
<1>1. /\ Size \in 5..128 /\ Used \in 1..(Size-1)
      /\ txIn \in 0..(Size-1) /\ txOut \in 0..(Size-1)
  <2>1. Size \in 5..128 /\ txIn \in 0..(Size-1) /\ txOut \in 0..(Size-1)
    BY SizeAssumption DEF TypeOK, Positions
  <2> QED
    BY <2>1, UsedRange
<1>2. txIn' = txIn /\ txOut' = IF txOut = Size - 1 THEN 0 ELSE txOut + 1
  <2> DEFINE x == txOut + 1
  <2>1. x \in Nat /\ x < 2 * Size
    BY <1>1
  <2>2. /\ x < Size => x % Size = x
        /\ x >= Size => x % Size = x - Size
    <3> HIDE DEF x
    <3> QED
      BY <2>1, Wraps
  <2>3. txIn' = txIn /\ txOut' = x % Size
    BY DEF SendByte, NextPosition
  <2> QED
    BY <1>1, <2>2, <2>3
<1>3. Used' = Used - 1
  BY <1>1, <1>2 DEF Used
<1>4. Place(1) = txOut
  <2>1. 1 \in 1..Size
    BY <1>1
  <2>2. /\ txOut + 1 <= Size => Place(1) = txOut + 1 - 1
    BY <2>1, PlaceLemma
  <2> QED
    BY <1>1, <2>2
<1>5. ASSUME NEW k \in 1..(Used-1) PROVE Entry(k)' = Entry(k + 1)
  <2>1. k + 1 \in 1..Size /\ k \in 1..Size /\ k + 1 # 1 /\ 1 \in 1..Size
    BY <1>1
  <2>2. Place(k + 1) \in Positions /\ Place(k + 1) # txOut
    BY <1>4, <2>1, PlacesDiffer, PlaceLemma
  <2>3. /\ txOut + (k + 1) <= Size => Place(k + 1) = txOut + (k + 1) - 1
        /\ txOut + (k + 1) > Size => Place(k + 1) = txOut + (k + 1) - 1 - Size
    BY <2>1, PlaceLemma
  <2>4. Place(k)' = Place(k + 1)
    <3> DEFINE x == txOut' + k - 1
    <3>1. x \in Nat /\ x < 2 * Size
      BY <1>1, <1>2
    <3>2. /\ x < Size => x % Size = x
          /\ x >= Size => x % Size = x - Size
      <4> HIDE DEF x
      <4> QED
        BY <3>1, Wraps
    <3>3. Place(k)' = x % Size
      BY DEF Place
    <3> QED
      BY <1>1, <1>2, <2>3, <3>2, <3>3
  <2>5. txBuffer' = [txBuffer EXCEPT ![txOut] = NoByte] /\ txBuffer \in [Positions -> Bytes]
    BY DEF SendByte, TypeOK
  <2> QED
    BY <2>2, <2>4, <2>5 DEF Entry
<1>6. sent' = Entry(1)
  BY <1>4 DEF SendByte, Entry
<1> QED
  BY <1>1, <1>3, <1>5, <1>6

-----------------------------------------------------------------------------

(* The entries in use hold bytes, and AllowUartRx and DisallowUartRx write  *)
(* back what is still in the register.                                      *)
EntriesAreBytes == \A k \in 1..Used : Entry(k) # NoByte
CopyIsFresh == main = "gate" => copy = udrie

IInv == TypeOK /\ EnabledWhileFilled /\ EntriesAreBytes /\ CopyIsFresh

(* The types are kept whatever the packets and the callers are: the         *)
(* positions stay in the ring, also when it is overwritten.                 *)
LEMMA InitIsTyped == Init => TypeOK
<1>1. ASSUME Init PROVE txBuffer \in [Positions -> Bytes] /\ sent \in Bytes
  BY <1>1 DEF Init, Bytes
<1>2. 0 \in Positions
  BY SizeAssumption DEF Positions
<1>3. Char \in Droppable
  BY DEF Droppable
<1> QED
  BY <1>1, <1>2, <1>3 DEF Init, TypeOK

(* Enqueue keeps the types.                                                 *)
LEMMA EnqueueIsTyped ==
  ASSUME TypeOK, NEW packet \in AllPackets, NEW i \in Positions, Enqueue(i, packet)
  PROVE  txBuffer' \in [Positions -> Bytes] /\ txIn' \in Positions /\ udrie' = TRUE
<1>1. txIn' \in Positions
  <2>1. packet.length \in Nat /\ i \in Nat /\ Size \in 5..128
    BY PacketShape, SizeAssumption DEF Positions
  <2>2. (i + packet.length) % Size \in 0..(Size-1)
    BY <2>1
  <2> QED
    BY <2>2 DEF Enqueue, Positions
<1>2. ASSUME NEW j \in Positions PROVE txBuffer'[j] \in Bytes
  BY EntriesWritten, PacketBytes DEF TypeOK
<1>3. txBuffer' = [j \in Positions |-> txBuffer'[j]]
  BY DEF Enqueue
<1> QED
  BY <1>1, <1>2, <1>3 DEF Enqueue, TriggerTx

(* Every step keeps the types.                                              *)
LEMMA TypeStep == TypeOK /\ [Next]_vars => TypeOK'
<1> SUFFICES ASSUME TypeOK, [Next]_vars PROVE TypeOK'
  OBVIOUS
<1>1. Size \in 5..128 /\ 0 \in Positions /\ Char \in Droppable
  BY SizeAssumption DEF Positions, Droppable
<1>2. ASSUME NEW packet \in Droppable, PutOrDrop(packet) PROVE TypeOK'
  BY <1>2, EnqueueIsTyped DEF PutOrDrop, AllPackets, TypeOK
<1>3. ASSUME NEW packet \in Awaiting, PutOrAwait(packet) PROVE TypeOK'
  <2>1. CASE packet.needed <= Available
    BY <1>3, <2>1, EnqueueIsTyped DEF PutOrAwait, AllPackets, TypeOK
  <2>2. CASE ~(packet.needed <= Available)
    BY <1>3, <2>2 DEF PutOrAwait, TypeOK
  <2> QED
    BY <2>1, <2>2
<1>4. CASE Retry
  BY <1>1, <1>4, EnqueueIsTyped DEF Retry, IndexAfterWait, AllPackets, TypeOK
<1>5. CASE RetryInVain
  BY <1>5 DEF RetryInVain, TypeOK
<1>6. CASE SendByte
  <2>1. NextPosition(txOut) \in Positions
    BY <1>1 DEF NextPosition, TypeOK, Positions
  <2>2. NoByte \in Bytes
    BY DEF Bytes
  <2> QED
    BY <1>6, <2>1, <2>2 DEF SendByte, StaysEnabled, TypeOK
<1>7. CASE GateRead
  BY <1>7 DEF GateRead, TypeOK
<1>8. CASE GateWrite
  BY <1>8 DEF GateWrite, TypeOK
<1>9. CASE UNCHANGED vars
  BY <1>9 DEF vars, TypeOK
<1> QED
  BY <1>2, <1>3, <1>4, <1>5, <1>6, <1>7, <1>8, <1>9 DEF Next

(* The types of the variables are kept, for any packets and any callers.    *)
THEOREM TypeCorrect == Spec => []TypeOK
BY InitIsTyped, TypeStep, PTL DEF Spec

-----------------------------------------------------------------------------

(* The steps that write a packet, put together: who writes, and when.       *)
Puts(packet) ==
  /\ packet.needed <= Available
  /\ Enqueue(txIn, packet)
  /\ UNCHANGED <<txOut, sent>>
  /\ main # "gate" /\ main' # "gate"

(* Each step writes a packet, sends a byte, or leaves the ring as it is.    *)
LEMMA StepCases ==
  ASSUME IInv, GateLocked, [Next]_vars
  PROVE  \/ \E packet \in AllPackets : Puts(packet)
         \/ SendByte /\ main # "gate" /\ main' # "gate"
         \/ /\ UNCHANGED <<txBuffer, txIn, txOut, udrie, sent>>
            /\ main' = "gate" => copy' = udrie
<1>1. main \in {"idle", "await", "gate"} /\ wanted \in AllPackets
  BY DEF IInv, TypeOK, AllPackets
<1>2. ASSUME NEW packet \in Droppable, PutOrDrop(packet) PROVE Puts(packet)
  BY <1>2 DEF PutOrDrop, Interruptible, Puts
<1>3. ASSUME NEW packet \in Awaiting, PutOrAwait(packet), packet.needed <= Available
      PROVE  Puts(packet)
  BY <1>3 DEF PutOrAwait, Puts
<1>4. ASSUME NEW packet \in Awaiting, PutOrAwait(packet), ~(packet.needed <= Available)
      PROVE  UNCHANGED <<txBuffer, txIn, txOut, udrie, sent>> /\ main' # "gate"
  BY <1>4 DEF PutOrAwait
<1>5. CASE Retry
  BY <1>1, <1>5 DEF Retry, IndexAfterWait, Puts
<1>6. CASE RetryInVain
  BY <1>6 DEF RetryInVain
<1>7. CASE SendByte
  BY <1>7 DEF SendByte, Interruptible
<1>8. CASE GateRead
  BY <1>8 DEF GateRead
<1>9. CASE GateWrite
  BY <1>9 DEF GateWrite, IInv, CopyIsFresh
<1>10. CASE UNCHANGED vars
  BY <1>10 DEF vars, IInv, CopyIsFresh
<1> QED
  BY <1>2, <1>3, <1>4, <1>5, <1>6, <1>7, <1>8, <1>9, <1>10 DEF Next, AllPackets

(* A packet that fits the space that it asks for is appended.               *)
LEMMA PutsAppends ==
  ASSUME TypeOK, CountsFit, NEW packet \in AllPackets, Puts(packet)
  PROVE  /\ Used \in Nat /\ packet.length \in 1..257
         /\ Used' = Used + packet.length /\ Used' \in 0..(Size-1)
         /\ \A k \in 1..Used : Entry(k)' = Entry(k)
         /\ \A n \in 1..packet.length, k \in 1..Used' :
              k = Used + n => Entry(k)' = ByteOf(packet, n)
<1>1. packet.length \in 1..257 /\ packet.needed \in 0..255 /\ packet.length <= packet.needed
  BY PacketShape
<1>2. Used \in 0..(Size-1) /\ Available = Size - 1 - Used /\ Size \in 5..128
  BY UsedRange, SizeAssumption
<1>3. packet.length <= Available
  <2>1. packet.needed <= Available
    BY DEF Puts
  <2>2. PICK a \in Int : a = Available
    BY <1>2
  <2>3. PICK l \in 1..257, n \in 0..255 : l = packet.length /\ n = packet.needed
    BY <1>1
  <2>4. n <= a /\ l <= n
    BY <1>1, <2>1, <2>2, <2>3
  <2>5. l <= a
    BY <2>4
  <2> QED
    BY <2>2, <2>3, <2>5
<1>4. /\ Used' = Used + packet.length
      /\ \A k \in 1..Used : Entry(k)' = Entry(k)
      /\ \A n \in 1..packet.length, k \in 1..Size :
           k = Used + n => Entry(k)' = ByteOf(packet, n)
  BY <1>3, PacketIsAppended DEF Puts
<1>5. PICK u \in 0..(Size-1), l \in 1..257 : u = Used /\ l = packet.length
  BY <1>1, <1>2
<1>6. l <= Size - 1 - u
  BY <1>2, <1>3, <1>5
<1>7. Used' = u + l /\ u + l \in 0..(Size-1) /\ 1..(u + l) \subseteq 1..Size
  BY <1>2, <1>4, <1>5, <1>6
<1>8. \A n \in 1..packet.length, k \in 1..Used' :
        k = Used + n => Entry(k)' = ByteOf(packet, n)
  BY <1>4, <1>7
<1> QED
  BY <1>1, <1>2, <1>4, <1>5, <1>7, <1>8

(* The invariant holds initially.                                           *)
LEMMA InitIsSound == Init => IInv
<1> SUFFICES ASSUME Init PROVE IInv
  OBVIOUS
<1>1. Used = 0
  BY SizeAssumption DEF Init, Used
<1> QED
  BY <1>1, InitIsTyped DEF Init, IInv, EnabledWhileFilled, EntriesAreBytes, CopyIsFresh

(* No step disturbs the invariant.                                          *)
LEMMA StepIsSound ==
  ASSUME CountsFit, GateLocked
  PROVE  IInv /\ [Next]_vars => IInv'
<1> SUFFICES ASSUME IInv, [Next]_vars PROVE IInv'
  OBVIOUS
<1>1. TypeOK /\ TypeOK'
  BY TypeStep DEF IInv
<1>2. ASSUME NEW packet \in AllPackets, Puts(packet) PROVE IInv'
  <2>1. /\ Used \in Nat /\ packet.length \in 1..257
        /\ Used' = Used + packet.length /\ Used' \in 0..(Size-1)
        /\ \A k \in 1..Used : Entry(k)' = Entry(k)
        /\ \A n \in 1..packet.length, k \in 1..Used' :
             k = Used + n => Entry(k)' = ByteOf(packet, n)
    BY <1>1, <1>2, PutsAppends
  <2>2. EntriesAreBytes'
    <3> SUFFICES ASSUME NEW k \in 1..Used' PROVE Entry(k)' # NoByte
      BY DEF EntriesAreBytes
    <3>1. CASE k <= Used
      BY <2>1, <3>1 DEF IInv, EntriesAreBytes
    <3>2. CASE k > Used
      <4>1. k - Used \in 1..packet.length /\ k = Used + (k - Used)
        BY <2>1, <3>2
      <4>2. Entry(k)' = ByteOf(packet, k - Used)
        BY <2>1, <4>1
      <4> QED
        BY <4>1, <4>2, PacketBytes
    <3> QED
      BY <2>1, <3>1, <3>2
  <2>3. EnabledWhileFilled'
    <3>1. Used' # 0
      BY <2>1
    <3>2. txIn' # txOut'
      BY <1>1, <3>1, EmptyAfterStep
    <3> QED
      BY <1>2, <3>2 DEF Puts, Enqueue, TriggerTx, EnabledWhileFilled
  <2> QED
    BY <1>1, <1>2, <2>2, <2>3 DEF Puts, IInv, CopyIsFresh
<1>3. ASSUME SendByte, main # "gate", main' # "gate" PROVE IInv'
  <2>1. txIn # txOut
    BY <1>3 DEF SendByte, IInv, EnabledWhileFilled
  <2>2. /\ Used \in 1..(Size-1) /\ Used' = Used - 1
        /\ \A k \in 1..(Used-1) : Entry(k)' = Entry(k + 1)
    BY <1>1, <1>3, <2>1, FirstIsTaken
  <2>3. EntriesAreBytes'
    BY <2>2 DEF IInv, EntriesAreBytes
  <2>4. EnabledWhileFilled'
    BY <1>3 DEF SendByte, StaysEnabled, EnabledWhileFilled
  <2> QED
    BY <1>1, <1>3, <2>3, <2>4 DEF IInv, CopyIsFresh
<1>4. ASSUME UNCHANGED <<txBuffer, txIn, txOut, udrie, sent>>, main' = "gate" => copy' = udrie
      PROVE  IInv'
  <2>1. Used' = Used /\ \A k : Entry(k)' = Entry(k)
    BY <1>4 DEF Used, Entry, Place
  <2> QED
    BY <1>1, <1>4, <2>1 DEF IInv, EnabledWhileFilled, EntriesAreBytes, CopyIsFresh
<1> QED
  BY <1>2, <1>3, <1>4, StepCases

(* The invariant holds in every reachable state.                            *)
LEMMA Invariance ==
  ASSUME CountsFit, GateLocked
  PROVE  Spec => []IInv
BY InitIsSound, StepIsSound, PTL DEF Spec

(* The handler is enabled exactly while there are bytes to send, if no      *)
(* packet asks for more than a byte can say and AllowUartRx is called in a  *)
(* section.  (Otherwise it is not so: module UsartTx.)                      *)
THEOREM HandlerIsEnabled ==
  ASSUME CountsFit, GateLocked
  PROVE  Spec => []EnabledWhileFilled
<1>1. IInv => EnabledWhileFilled
  BY DEF IInv
<1> QED
  BY <1>1, Invariance, PTL

-----------------------------------------------------------------------------

(* Functions over 1..n are sequences of length n.                           *)
LEMMA FunctionIsSequence ==
  ASSUME NEW n \in Nat, NEW S, NEW f \in [1..n -> S]
  PROVE  f \in Seq(S) /\ Len(f) = n
<1>1. f \in Seq(S)
  BY SeqDef
<1>2. DOMAIN f = 1..Len(f) /\ Len(f) \in Nat
  BY <1>1, LenProperties
<1> QED
  BY <1>1, <1>2

(* What the concatenation of two sequences is.                              *)
LEMMA Joined ==
  ASSUME NEW S, NEW s \in Seq(S), NEW t \in Seq(S), NEW u \in Seq(S),
         Len(u) = Len(s) + Len(t),
         \A k \in 1..Len(u) : u[k] = IF k <= Len(s) THEN s[k] ELSE t[k - Len(s)]
  PROVE  u = s \o t
<1>1. /\ s \o t \in Seq(S) /\ Len(s \o t) = Len(s) + Len(t)
      /\ \A i \in 1..(Len(s) + Len(t)) :
           (s \o t)[i] = IF i <= Len(s) THEN s[i] ELSE t[i - Len(s)]
  BY ConcatProperties
<1> QED
  BY <1>1, SeqEqual

(* The stream that the ring stands for has the entries in use as elements.  *)
WaitingIsEntries ==
  /\ Waiting = [k \in 1..Used |-> Entry(k)]
  /\ Waiting \in Seq(Bytes) /\ Len(Waiting) = Used

(* What waits in the ring are entries of packets.                           *)
LEMMA WaitingEntries == TypeOK => WaitingIsEntries
<1> SUFFICES ASSUME TypeOK PROVE WaitingIsEntries
  OBVIOUS
<1>1. Size - 1 - Available = Used /\ Used \in 0..(Size-1) /\ Size \in 5..128
  BY UsedRange, SizeAssumption
<1>2. Waiting = [k \in 1..Used |-> Entry(k)]
  BY <1>1 DEF Waiting, Entry, Place
<1>3. ASSUME NEW k \in 1..Used PROVE Entry(k) \in Bytes
  <2>1. k \in 1..Size
    BY <1>1
  <2> QED
    BY <2>1, PlaceLemma DEF Entry, TypeOK
<1>4. Used \in Nat /\ Waiting \in [1..Used -> Bytes]
  BY <1>1, <1>2, <1>3
<1> QED
  BY <1>2, <1>4, FunctionIsSequence DEF WaitingIsEntries

(* The same of the state after a step.                                      *)
LEMMA WaitingAfterStep == TypeOK' => WaitingIsEntries'
BY WaitingEntries, PTL

(* To write a packet is to put its bytes into the stream.                   *)
LEMMA PutsIsPut ==
  ASSUME IInv, TypeOK', CountsFit, NEW packet \in AllPackets, Puts(packet)
  PROVE  Stream!Put(BytesOf(packet))
<1>1. TypeOK
  BY DEF IInv
<1>2. /\ Used \in Nat /\ packet.length \in 1..257
      /\ Used' = Used + packet.length /\ Used' \in 0..(Size-1)
      /\ \A k \in 1..Used : Entry(k)' = Entry(k)
      /\ \A n \in 1..packet.length, k \in 1..Used' :
           k = Used + n => Entry(k)' = ByteOf(packet, n)
  BY <1>1, PutsAppends
<1> DEFINE b == BytesOf(packet)
           n == packet.length
<1>3. /\ Waiting \in Seq(Bytes) /\ Len(Waiting) = Used
      /\ Waiting' \in Seq(Bytes) /\ Len(Waiting') = Used'
  BY <1>1, WaitingEntries, WaitingAfterStep DEF WaitingIsEntries
<1>4. /\ \A k \in 1..Used : Waiting[k] = Entry(k)
      /\ \A k \in 1..Used' : Waiting'[k] = Entry(k)'
  BY <1>1, WaitingEntries, WaitingAfterStep DEF WaitingIsEntries
<1>5. b \in Seq(Bytes) /\ Len(b) = n
  <2>1. n \in Nat
    BY <1>2
  <2>2. b \in [1..n -> Bytes]
    BY PacketBytes DEF BytesOf
  <2> HIDE DEF b, n
  <2> QED
    BY <2>1, <2>2, FunctionIsSequence
<1>6. ASSUME NEW k \in 1..Used'
      PROVE  Waiting'[k] = IF k <= Used THEN Waiting[k] ELSE b[k - Used]
  <2>1. CASE k <= Used
    <3>1. k \in 1..Used
      BY <1>2, <2>1
    <3> QED
      BY <1>2, <1>4, <2>1, <3>1
  <2>2. CASE ~(k <= Used)
    <3>1. k - Used \in 1..packet.length /\ k = Used + (k - Used)
      BY <1>2, <2>2
    <3>2. Entry(k)' = ByteOf(packet, k - Used)
      BY <1>2, <3>1
    <3> QED
      BY <1>4, <2>2, <3>1, <3>2 DEF BytesOf
  <2> QED
    BY <2>1, <2>2
<1>7. Waiting' = Waiting \o b
  <2> HIDE DEF b
  <2>1. Len(Waiting') = Len(Waiting) + Len(b)
    BY <1>2, <1>3, <1>5
  <2>2. \A k \in 1..Len(Waiting') :
          Waiting'[k] = IF k <= Len(Waiting) THEN Waiting[k] ELSE b[k - Len(Waiting)]
    BY <1>3, <1>6
  <2> QED
    BY <1>3, <1>5, <2>1, <2>2, Joined
<1>8. sent' = sent
  BY DEF Puts
<1>9. Len(Waiting) + Len(b) <= Size - 1
  <2>1. n \in Int /\ Used + n <= Size - 1
    BY <1>2, SizeAssumption
  <2> HIDE DEF b, n
  <2> QED
    BY <1>3, <1>5, <2>1
<1> QED
  BY <1>7, <1>8, <1>9 DEF Stream!Put

(* The handler sends the first byte of the stream.                          *)
LEMMA SendByteIsSendByte ==
  ASSUME IInv, TypeOK', SendByte
  PROVE  Stream!SendByte
<1>1. TypeOK /\ txIn # txOut
  BY DEF IInv, EnabledWhileFilled, SendByte
<1>2. /\ Used \in Nat /\ Used >= 1 /\ Used' = Used - 1
      /\ sent' = Entry(1)
      /\ \A k \in 1..(Used-1) : Entry(k)' = Entry(k + 1)
  BY <1>1, FirstIsTaken, SizeAssumption
<1>3. /\ Waiting \in Seq(Bytes) /\ Len(Waiting) = Used
      /\ Waiting' \in Seq(Bytes) /\ Len(Waiting') = Used'
      /\ \A k \in 1..Used : Waiting[k] = Entry(k)
      /\ \A k \in 1..Used' : Waiting'[k] = Entry(k)'
  BY <1>1, WaitingEntries, WaitingAfterStep DEF WaitingIsEntries
<1>4. Waiting # <<>> /\ Head(Waiting) = Waiting[1]
  <2>1. Len(Waiting) # 0
    BY <1>2, <1>3
  <2>2. Len(<<>>) = 0
    BY EmptySeq
  <2> QED
    BY <2>1, <2>2
<1>5. /\ Tail(Waiting) \in Seq(Bytes) /\ Len(Tail(Waiting)) = Used - 1
      /\ \A i \in 1..(Used-1) : Tail(Waiting)[i] = Waiting[i + 1]
  BY <1>3, <1>4, HeadTailProperties
<1>6. Waiting' = Tail(Waiting)
  <2>1. \A k \in 1..Len(Waiting') : Waiting'[k] = Tail(Waiting)[k]
    BY <1>2, <1>3, <1>5
  <2> QED
    BY <1>2, <1>3, <1>5, <2>1, SeqEqual
<1>7. sent' = Waiting[1] /\ sent' # NoByte
  BY <1>2, <1>3 DEF IInv, EntriesAreBytes
<1> QED
  BY <1>4, <1>6, <1>7 DEF Stream!SendByte

(* The ring, its two positions and the handler implement the stream, for a  *)
(* ring of any size: no byte is lost, repeated, overtaken or torn out of    *)
(* its packet.                                                              *)
THEOREM RingIsStream ==
  ASSUME CountsFit, GateLocked
  PROVE  Spec => ImplementsStream
<1>1. Init => Stream!Init
  <2> SUFFICES ASSUME Init PROVE Stream!Init
    OBVIOUS
  <2>1. Used = 0 /\ TypeOK
    BY InitIsTyped, SizeAssumption DEF Init, Used
  <2>2. Waiting = <<>>
    BY <2>1, WaitingEntries, EmptySeq DEF WaitingIsEntries
  <2> QED
    BY <2>2 DEF Init, Stream!Init
<1>2. IInv /\ [Next]_vars => [Stream!Next]_<<Waiting, IF sent = NoByte THEN <<>> ELSE sent>>
  <2> SUFFICES ASSUME IInv, [Next]_vars
               PROVE  [Stream!Next]_<<Waiting, IF sent = NoByte THEN <<>> ELSE sent>>
    OBVIOUS
  <2>1. TypeOK'
    BY TypeStep DEF IInv
  <2>2. ASSUME NEW packet \in AllPackets, Puts(packet) PROVE Stream!Next
    BY <2>1, <2>2, PutsIsPut DEF Stream!Next, AllPackets
  <2>3. CASE SendByte
    BY <2>1, <2>3, SendByteIsSendByte DEF Stream!Next
  <2>4. CASE UNCHANGED <<txBuffer, txIn, txOut, udrie, sent>>
    BY <2>4 DEF Waiting, Available, Used
  <2> QED
    BY <2>2, <2>3, <2>4, StepCases
<1> QED
  BY <1>1, <1>2, Invariance, PTL DEF Spec, ImplementsStream, Stream!Spec

-----------------------------------------------------------------------------

(* The byte that was sent last, and behind it those in the ring: each one   *)
(* follows on the one before it, and the last one ends a packet.            *)
Byte(k) == IF k = 0 THEN sent ELSE Entry(k)

Follows(b, c) ==
  \/ Ends(b) /\ c.at = 1
  \/ GoesOn(b) /\ c.at = b.at + 1 /\ c.says = b.says

InFrames ==
  /\ \A k \in 1..Used : Follows(Byte(k - 1), Byte(k))
  /\ \A k \in 0..Used : k = Used => Ends(Byte(k))

(* The headers are right without Usart_Trace4 and without the answer to a   *)
(* command ReadRegister that asks for more than two bytes.                  *)
HeadersAreRight == 4 \notin TraceArgs /\ ReadLengths \subseteq 0..2

(* Then each header announces what is in the packet, if it announces        *)
(* anything.                                                                *)
LEMMA HeadersAnnounce ==
  ASSUME HeadersAreRight, NEW packet \in AllPackets
  PROVE  packet.says \in {Unsaid, packet.length}
<1>1. ASSUME NEW n \in TraceArgs PROVE Trace(n).says = Trace(n).length
  <2>1. n \in 0..4 /\ n # 4
    BY <1>1, TraceArgsAssumption DEF HeadersAreRight
  <2> QED
    BY <2>1 DEF Trace, Packet
<1>2. Char.says = Unsaid /\ Ack.says = Unsaid /\ WriteReply.says = Unsaid
  BY DEF Packet, Char, Ack, WriteReply
<1>3. ASSUME NEW len \in ReadLengths PROVE ReadReply(len).says = ReadReply(len).length
  <2>1. len \in {0, 1, 2}
    BY <1>3 DEF HeadersAreRight
  <2> QED
    BY <2>1 DEF Packet, ReadReply
<1>4. \A count \in DataCounts : AnyData(count).says = AnyData(count).length
  BY DEF Packet, AnyData
<1> QED
  BY <1>1, <1>2, <1>3, <1>4 DEF AllPackets, Droppable, Awaiting

(* A packet that is written begins where the last one ends.                 *)
LEMMA PutsKeepsFrames ==
  ASSUME IInv, InFrames, CountsFit, HeadersAreRight, NEW packet \in AllPackets, Puts(packet)
  PROVE  InFrames'
<1> DEFINE n == packet.length
<1>1. /\ Used \in Nat /\ n \in 1..257 /\ packet.says \in {Unsaid, n}
      /\ Used' = Used + n /\ Used' \in 0..(Size-1)
      /\ \A k \in 1..Used : Entry(k)' = Entry(k)
      /\ \A m \in 1..n, k \in 1..Used' : k = Used + m => Entry(k)' = ByteOf(packet, m)
  BY PutsAppends, HeadersAnnounce DEF IInv
<1>2. \A k \in 0..Used : Byte(k)' = Byte(k)
  BY <1>1 DEF Byte, Puts
<1>3. \A m \in 1..n, k \in 1..Used' :
        k = Used + m => Byte(k)'.at = m /\ Byte(k)'.says = packet.says
  <2> TAKE m \in 1..n, k \in 1..Used'
  <2> HAVE k = Used + m
  <2>1. Byte(k)' = ByteOf(packet, m)
    BY <1>1 DEF Byte
  <2> QED
    BY <1>1, <2>1 DEF ByteOf
<1> HIDE DEF n
<1>4. ASSUME NEW k \in 1..Used' PROVE Follows(Byte(k - 1), Byte(k))'
  <2>1. CASE k <= Used
    <3>1. k \in 1..Used /\ k \in 0..Used /\ k - 1 \in 0..Used
      BY <1>1, <2>1
    <3>2. Follows(Byte(k - 1), Byte(k))
      BY <3>1 DEF InFrames
    <3>3. Byte(k - 1)' = Byte(k - 1) /\ Byte(k)' = Byte(k)
      BY <1>2, <3>1
    <3> QED
      BY <3>2, <3>3 DEF Follows, Ends, GoesOn
  <2>2. CASE k = Used + 1
    <3>1. Byte(k)'.at = 1
      BY <1>1, <1>3, <2>2
    <3>2. k - 1 = Used /\ Used \in 0..Used
      BY <1>1, <2>2
    <3>3. Byte(k - 1)' = Byte(k - 1)
      BY <1>2, <3>2
    <3>4. Ends(Byte(k - 1))'
      BY <3>2, <3>3 DEF InFrames, Ends
    <3> QED
      BY <3>1, <3>4 DEF Follows
  <2>3. CASE k > Used + 1
    <3>1. k - Used \in 1..n /\ k = Used + (k - Used)
      BY <1>1, <2>3
    <3>2. (k - 1) - Used \in 1..n /\ k - 1 = Used + ((k - 1) - Used) /\ k - 1 \in 1..Used'
      BY <1>1, <2>3
    <3>3. Byte(k)'.at = k - Used /\ Byte(k)'.says = packet.says
      BY <1>3, <3>1
    <3>4. Byte(k - 1)'.at = (k - 1) - Used /\ Byte(k - 1)'.says = packet.says
      BY <1>3, <3>2
    <3>5. (k - 1) - Used # n /\ k - Used = ((k - 1) - Used) + 1
      BY <1>1, <3>1
    <3> QED
      BY <1>1, <3>3, <3>4, <3>5 DEF Follows, GoesOn
  <2> QED
    BY <1>1, <2>1, <2>2, <2>3
<1>5. ASSUME NEW k \in 0..Used', k = Used' PROVE Ends(Byte(k))'
  <2>1. n \in 1..n /\ k \in 1..Used' /\ k = Used + n
    BY <1>1, <1>5
  <2> QED
    BY <1>1, <1>3, <2>1 DEF Ends
<1> QED
  BY <1>4, <1>5 DEF InFrames

(* The handler sends the byte that follows on the one sent before.          *)
LEMMA SendByteKeepsFrames ==
  ASSUME IInv, InFrames, SendByte
  PROVE  InFrames' /\ Follows(sent, sent')
<1>1. TypeOK /\ txIn # txOut
  BY DEF IInv, EnabledWhileFilled, SendByte
<1>2. /\ Used \in Nat /\ Used >= 1 /\ Used' = Used - 1
      /\ sent' = Entry(1)
      /\ \A k \in 1..(Used-1) : Entry(k)' = Entry(k + 1)
  BY <1>1, FirstIsTaken, SizeAssumption
<1>3. \A k \in 0..(Used-1) : Byte(k)' = Byte(k + 1)
  BY <1>2 DEF Byte
<1>4. ASSUME NEW k \in 1..Used' PROVE Follows(Byte(k - 1), Byte(k))'
  <2>1. k + 1 \in 1..Used /\ k \in 0..(Used-1) /\ k - 1 \in 0..(Used-1)
        /\ (k - 1) + 1 = k /\ (k + 1) - 1 = k
    BY <1>2
  <2>2. Follows(Byte(k), Byte(k + 1))
    BY <2>1 DEF InFrames
  <2>3. Byte(k - 1)' = Byte(k) /\ Byte(k)' = Byte(k + 1)
    BY <1>3, <2>1
  <2> QED
    BY <2>2, <2>3 DEF Follows, Ends, GoesOn
<1>5. ASSUME NEW k \in 0..Used', k = Used' PROVE Ends(Byte(k))'
  <2>1. k \in 0..(Used-1) /\ k + 1 = Used /\ k + 1 \in 0..Used
    BY <1>2, <1>5
  <2>2. Byte(k)' = Byte(k + 1)
    BY <1>3, <2>1
  <2> QED
    BY <2>1, <2>2 DEF InFrames, Ends
<1>6. Follows(sent, sent')
  <2>1. 1 \in 1..Used /\ 1 - 1 = 0
    BY <1>2
  <2>2. Follows(Byte(0), Byte(1))
    BY <2>1 DEF InFrames
  <2> QED
    BY <1>2, <2>2 DEF Byte
<1> QED
  BY <1>4, <1>5, <1>6 DEF InFrames

(* The PC can tell packets apart, whoever writes them and however the       *)
(* writers interleave, if the headers are right: behind the last byte that  *)
(* a header announces comes the first byte of a packet, and never before.   *)
THEOREM FramesAreKept ==
  ASSUME CountsFit, GateLocked, HeadersAreRight
  PROVE  Spec => PacketsFollowHeaders
<1> DEFINE Frame == sent' # sent => Follows(sent, sent')
<1>1. Init => InFrames
  <2> SUFFICES ASSUME Init PROVE InFrames
    OBVIOUS
  <2>1. Used = 0
    BY SizeAssumption DEF Init, Used
  <2> QED
    BY <2>1 DEF Init, InFrames, Byte, NoByte, Ends
<1>2. IInv /\ InFrames /\ [Next]_vars => InFrames' /\ [Frame]_vars
  <2> SUFFICES ASSUME IInv, InFrames, [Next]_vars PROVE InFrames' /\ Frame
    OBVIOUS
  <2>1. ASSUME NEW packet \in AllPackets, Puts(packet) PROVE InFrames' /\ Frame
    BY <2>1, PutsKeepsFrames DEF Puts
  <2>2. CASE SendByte
    BY <2>2, SendByteKeepsFrames
  <2>3. CASE UNCHANGED <<txBuffer, txIn, txOut, udrie, sent>>
    <3>1. Used' = Used /\ \A k : Byte(k)' = Byte(k)
      BY <2>3 DEF Used, Byte, Entry, Place
    <3> QED
      BY <2>3, <3>1 DEF InFrames, Follows, Ends, GoesOn
  <2> QED
    BY <2>1, <2>2, <2>3, StepCases
<1>3. [Frame]_vars =>
        [sent' # sent =>
           \/ Ends(sent) /\ sent'.at = 1
           \/ GoesOn(sent) /\ sent'.at = sent.at + 1 /\ sent'.says = sent.says]_vars
  BY DEF Follows
<1> HIDE DEF Frame
<1> QED
  BY <1>1, <1>2, <1>3, Invariance, PTL DEF Spec, PacketsFollowHeaders

-----------------------------------------------------------------------------

(* What RewriteTrace reads, and the parentheses that are open behind the    *)
(* first k of these tokens.                                                 *)
TokenKinds == {"comma", "lpar", "rpar", "other"}

DepthOf(ts, k) ==
  1 + Cardinality({i \in 1..k : ts[i] = "lpar"}) - Cardinality({i \in 1..k : ts[i] = "rpar"})

(* The tokens that arguments are made of, and those of them between which   *)
(* no comma of the outermost level stands.                                  *)
Others(ts) == {k \in 1..Len(ts) : ts[k] = "other"}
Together(ts, i, j) == \A k \in i..j : ~(ts[k] = "comma" /\ DepthOf(ts, k) = 1)

(* The arguments have these tokens in their order, and two tokens are in    *)
(* the same argument just if they belong together.                          *)
InOrder(args, ts) ==
  \A a, b \in 1..Len(args) : \A k \in 1..Len(args[a]), l \in 1..Len(args[b]) :
    /\ a < b \/ (a = b /\ k < l) => args[a][k] < args[b][l]
    /\ args[a][k] < args[b][l] => (a = b <=> Together(ts, args[a][k], args[b][l]))

Split(args, ts) ==
  /\ \A a \in 1..Len(args) : \A k \in 1..Len(args[a]) : args[a][k] \in Others(ts)
  /\ \A i \in Others(ts) : \E a \in 1..Len(args) : \E k \in 1..Len(args[a]) : args[a][k] = i
  /\ InOrder(args, ts)

(* The argument that has not ended has what stands behind the last comma of *)
(* the outermost level.                                                     *)
EndsWith(arg, ts) ==
  \A i \in Others(ts) :
    (\E k \in 1..Len(arg) : arg[k] = i) <=> Together(ts, i, Len(ts))

(* A token that is read changes the depth by its kind, and that of no       *)
(* earlier one.                                                             *)
LEMMA DepthAfter ==
  ASSUME NEW ts \in Seq(TokenKinds), NEW t \in TokenKinds
  PROVE  /\ \A k \in 0..Len(ts) : DepthOf(Append(ts, t), k) = DepthOf(ts, k)
         /\ \A k \in 0..Len(ts) : DepthOf(ts, k) \in Int
         /\ DepthOf(Append(ts, t), Len(ts) + 1)
              = DepthOf(ts, Len(ts)) + (IF t = "lpar" THEN 1 ELSE IF t = "rpar" THEN -1 ELSE 0)
<1> DEFINE us == Append(ts, t)
           n == Len(ts)
           At(vs, c, k) == {i \in 1..k : vs[i] = c}
<1>1. /\ n \in Nat /\ us \in Seq(TokenKinds) /\ Len(us) = n + 1 /\ us[n + 1] = t
      /\ \A i \in 1..n : us[i] = ts[i]
  BY AppendProperties, LenProperties
<1> HIDE DEF us, n
<1>2. ASSUME NEW c, NEW k \in 0..n PROVE At(us, c, k) = At(ts, c, k)
  BY <1>1
<1>3. ASSUME NEW c, NEW k \in 0..n
      PROVE  IsFiniteSet(At(ts, c, k)) /\ Cardinality(At(ts, c, k)) \in Nat
  <2>1. IsFiniteSet(1..k) /\ At(ts, c, k) \subseteq 1..k
    BY <1>1, FS_Interval
  <2> QED
    BY <2>1, FS_Subset, FS_CardinalityType
<1>4. ASSUME NEW c
      PROVE  Cardinality(At(us, c, n + 1))
               = Cardinality(At(ts, c, n)) + (IF t = c THEN 1 ELSE 0)
  <2>1. n \in 0..n
    BY <1>1
  <2>2. CASE t = c
    <3>1. At(us, c, n + 1) = At(ts, c, n) \cup {n + 1} /\ n + 1 \notin At(ts, c, n)
      BY <1>1, <2>2
    <3>2. IsFiniteSet(At(ts, c, n)) /\ Cardinality(At(ts, c, n)) \in Nat
      BY <1>3, <2>1
    <3> HIDE DEF At
    <3> QED
      BY <2>2, <3>1, <3>2, FS_AddElement
  <2>3. CASE t # c
    <3>1. At(us, c, n + 1) = At(ts, c, n)
      BY <1>1, <2>3
    <3>2. Cardinality(At(ts, c, n)) \in Nat
      BY <1>3, <2>1
    <3> HIDE DEF At
    <3> QED
      BY <2>3, <3>1, <3>2
  <2> QED
    BY <2>2, <2>3
<1>5. \A vs, k : DepthOf(vs, k) = 1 + Cardinality(At(vs, "lpar", k)) - Cardinality(At(vs, "rpar", k))
  BY DEF DepthOf
<1> HIDE DEF At
<1>6. \A k \in 0..n : DepthOf(us, k) = DepthOf(ts, k) /\ DepthOf(ts, k) \in Int
  <2> SUFFICES ASSUME NEW k \in 0..n PROVE DepthOf(us, k) = DepthOf(ts, k) /\ DepthOf(ts, k) \in Int
    OBVIOUS
  <2>1. At(us, "lpar", k) = At(ts, "lpar", k) /\ At(us, "rpar", k) = At(ts, "rpar", k)
    BY <1>2
  <2> QED
    BY <1>3, <1>5, <2>1
<1>7. DepthOf(us, n + 1) = DepthOf(ts, n) + (IF t = "lpar" THEN 1 ELSE IF t = "rpar" THEN -1 ELSE 0)
  <2>1. n \in 0..n
    BY <1>1
  <2>2. /\ Cardinality(At(ts, "lpar", n)) \in Nat /\ Cardinality(At(ts, "rpar", n)) \in Nat
        /\ Cardinality(At(us, "lpar", n + 1)) = Cardinality(At(ts, "lpar", n)) + (IF t = "lpar" THEN 1 ELSE 0)
        /\ Cardinality(At(us, "rpar", n + 1)) = Cardinality(At(ts, "rpar", n)) + (IF t = "rpar" THEN 1 ELSE 0)
    BY <1>3, <1>4, <2>1
  <2> QED
    BY <1>5, <2>2
<1> QED
  BY <1>6, <1>7 DEF us, n

(* Nor does it change what belongs together before it.                      *)
LEMMA TogetherAfter ==
  ASSUME NEW ts \in Seq(TokenKinds), NEW t \in TokenKinds, NEW i \in 1..Len(ts)
  PROVE  /\ \A j \in 1..Len(ts) : Together(Append(ts, t), i, j) <=> Together(ts, i, j)
         /\ Together(Append(ts, t), i, Len(ts) + 1)
              <=> Together(ts, i, Len(ts)) /\ ~(t = "comma" /\ DepthOf(ts, Len(ts)) = 1)
<1> DEFINE us == Append(ts, t)
           n == Len(ts)
<1>1. /\ n \in Nat /\ Len(us) = n + 1 /\ us[n + 1] = t
      /\ \A k \in 1..n : us[k] = ts[k]
  BY AppendProperties, LenProperties
<1>2. /\ \A k \in 1..n : DepthOf(us, k) = DepthOf(ts, k)
      /\ t = "comma" => DepthOf(us, n + 1) = DepthOf(ts, n)
  BY DepthAfter, LenProperties
<1> HIDE DEF us, n
<1>3. ASSUME NEW j \in 1..n PROVE Together(us, i, j) <=> Together(ts, i, j)
  <2>1. \A k \in i..j : k \in 1..n
    BY <1>1 DEF n
  <2> QED
    BY <1>1, <1>2, <2>1 DEF Together
<1>4. Together(us, i, n + 1) <=> Together(us, i, n) /\ ~(t = "comma" /\ DepthOf(ts, n) = 1)
  <2>1. i \in 1..n /\ i..(n + 1) = (i..n) \cup {n + 1}
    BY <1>1 DEF n
  <2> QED
    BY <1>1, <1>2, <2>1 DEF Together
<1>5. n \in 1..n
  BY <1>1 DEF n
<1> QED
  BY <1>3, <1>4, <1>5 DEF us, n

(* The tokens of arguments, when one more token is read.                    *)
LEMMA OthersAfter ==
  ASSUME NEW ts \in Seq(TokenKinds), NEW t \in TokenKinds
  PROVE  Others(Append(ts, t)) = Others(ts) \cup (IF t = "other" THEN {Len(ts) + 1} ELSE {})
<1>1. /\ Len(ts) \in Nat /\ Len(Append(ts, t)) = Len(ts) + 1 /\ Append(ts, t)[Len(ts) + 1] = t
      /\ \A k \in 1..Len(ts) : Append(ts, t)[k] = ts[k]
  BY AppendProperties, LenProperties
<1>2. 1..(Len(ts) + 1) = (1..Len(ts)) \cup {Len(ts) + 1} /\ Len(ts) + 1 \notin 1..Len(ts)
  BY <1>1
<1> HIDE DEF TokenKinds
<1> QED
  BY <1>1, <1>2 DEF Others

(* Any other token leaves the arguments split.                              *)
LEMMA SplitAfter ==
  ASSUME NEW ts \in Seq(TokenKinds), NEW t \in TokenKinds, t # "other",
         NEW args \in Seq(Seq(Nat)), Split(args, ts)
  PROVE  Split(args, Append(ts, t))
<1> DEFINE us == Append(ts, t)
<1>1. Others(us) = Others(ts) /\ Others(ts) \subseteq 1..Len(ts)
  BY OthersAfter DEF Others
<1>2. \A i, j \in 1..Len(ts) : Together(us, i, j) <=> Together(ts, i, j)
  BY TogetherAfter
<1> HIDE DEF us
<1>3. InOrder(args, us)
  <2> SUFFICES ASSUME NEW a \in 1..Len(args), NEW b \in 1..Len(args),
                      NEW k \in 1..Len(args[a]), NEW l \in 1..Len(args[b])
               PROVE  /\ a < b \/ (a = b /\ k < l) => args[a][k] < args[b][l]
                      /\ args[a][k] < args[b][l]
                           => (a = b <=> Together(us, args[a][k], args[b][l]))
    BY DEF InOrder
  <2>1. args[a][k] \in 1..Len(ts) /\ args[b][l] \in 1..Len(ts)
    BY <1>1 DEF Split
  <2>2. InOrder(args, ts)
    BY DEF Split
  <2>3. Together(us, args[a][k], args[b][l]) <=> Together(ts, args[a][k], args[b][l])
    BY <1>2, <2>1
  <2> QED
    BY <2>2, <2>3 DEF InOrder
<1> QED
  BY <1>1, <1>3 DEF Split, us

(* A comma of the outermost level begins a new argument, which has nothing  *)
(* yet.                                                                     *)
LEMMA SplitAtComma ==
  ASSUME NEW ts \in Seq(TokenKinds), NEW args \in Seq(Seq(Nat)), Split(args, ts)
  PROVE  /\ Split(Append(args, <<>>), Append(ts, "comma"))
         /\ DepthOf(ts, Len(ts)) = 1 => EndsWith(<<>>, Append(ts, "comma"))
<1> DEFINE us == Append(ts, "comma")
           more == Append(args, <<>>)
<1>1. "comma" \in TokenKinds /\ "comma" # "other"
  BY DEF TokenKinds
<1>2. Split(args, us)
  BY <1>1, SplitAfter
<1>3. /\ Len(more) = Len(args) + 1 /\ Len(args) \in Nat /\ more[Len(args) + 1] = <<>>
      /\ \A a \in 1..Len(args) : more[a] = args[a]
  <2>1. <<>> \in Seq(Nat)
    OBVIOUS
  <2> QED
    BY <2>1, AppendProperties, LenProperties
<1>4. \A a \in 1..Len(more) : 1..Len(more[a]) # {} => a \in 1..Len(args) /\ more[a] = args[a]
  <2>1. 1..Len(<<>>) = {}
    OBVIOUS
  <2>2. \A a \in 1..(Len(args) + 1) : a \in 1..Len(args) \/ a = Len(args) + 1
    BY <1>3
  <2> QED
    BY <1>3, <2>1, <2>2
<1> HIDE DEF us, more
<1>5. Split(more, us)
  <2>1. \A a \in 1..Len(more) : \A k \in 1..Len(more[a]) : more[a][k] \in Others(us)
    BY <1>2, <1>4 DEF Split
  <2>2. \A i \in Others(us) : \E a \in 1..Len(more) : \E k \in 1..Len(more[a]) : more[a][k] = i
    <3> SUFFICES ASSUME NEW i \in Others(us)
                 PROVE  \E a \in 1..Len(more) : \E k \in 1..Len(more[a]) : more[a][k] = i
      OBVIOUS
    <3>1. PICK a \in 1..Len(args) : \E k \in 1..Len(args[a]) : args[a][k] = i
      BY <1>2 DEF Split
    <3>2. a \in 1..Len(more) /\ more[a] = args[a]
      BY <1>3
    <3> QED
      BY <3>1, <3>2
  <2>3. InOrder(more, us)
    <3> SUFFICES ASSUME NEW a \in 1..Len(more), NEW b \in 1..Len(more),
                        NEW k \in 1..Len(more[a]), NEW l \in 1..Len(more[b])
                 PROVE  /\ a < b \/ (a = b /\ k < l) => more[a][k] < more[b][l]
                        /\ more[a][k] < more[b][l]
                             => (a = b <=> Together(us, more[a][k], more[b][l]))
      BY DEF InOrder
    <3>1. /\ a \in 1..Len(args) /\ more[a] = args[a]
          /\ b \in 1..Len(args) /\ more[b] = args[b]
      BY <1>4
    <3>2. InOrder(args, us)
      BY <1>2 DEF Split
    <3> QED
      BY <3>1, <3>2 DEF InOrder
  <2> QED
    BY <2>1, <2>2, <2>3 DEF Split
<1>6. ASSUME DepthOf(ts, Len(ts)) = 1 PROVE EndsWith(<<>>, us)
  <2>1. Others(us) = Others(ts) /\ Others(ts) \subseteq 1..Len(ts) /\ Len(us) = Len(ts) + 1
    BY <1>1, OthersAfter, AppendProperties DEF Others, us
  <2>2. \A i \in 1..Len(ts) : ~Together(us, i, Len(ts) + 1)
    BY <1>1, <1>6, TogetherAfter DEF us
  <2>3. 1..Len(<<>>) = {}
    OBVIOUS
  <2> QED
    BY <2>1, <2>2, <2>3 DEF EndsWith
<1> QED
  BY <1>5, <1>6 DEF us, more

(* Nothing else than that comma ends an argument.                           *)
LEMMA EndsWithAfter ==
  ASSUME NEW ts \in Seq(TokenKinds), NEW t \in TokenKinds, t # "other",
         NEW arg \in Seq(Nat), EndsWith(arg, ts),
         t = "comma" => DepthOf(ts, Len(ts)) # 1 \/ arg = <<>>
  PROVE  EndsWith(arg, Append(ts, t))
<1> DEFINE us == Append(ts, t)
<1>1. Others(us) = Others(ts) /\ Others(ts) \subseteq 1..Len(ts) /\ Len(us) = Len(ts) + 1
  BY OthersAfter, AppendProperties DEF Others
<1>2. \A i \in 1..Len(ts) : Together(us, i, Len(ts) + 1)
         <=> Together(ts, i, Len(ts)) /\ ~(t = "comma" /\ DepthOf(ts, Len(ts)) = 1)
  BY TogetherAfter
<1>3. arg = <<>> => ~ \E k \in 1..Len(arg) : TRUE
  OBVIOUS
<1> HIDE DEF us
<1> QED
  BY <1>1, <1>2, <1>3 DEF EndsWith, us

(* A token of an argument is added to the one that has not ended.           *)
LEMMA SplitGrows ==
  ASSUME NEW ts \in Seq(TokenKinds), NEW args \in Seq(Seq(Nat)), NEW arg \in Seq(Nat),
         Split(Append(args, arg), ts), EndsWith(arg, ts)
  PROVE  /\ Split(Append(args, Append(arg, Len(ts) + 1)), Append(ts, "other"))
         /\ EndsWith(Append(arg, Len(ts) + 1), Append(ts, "other"))
<1> DEFINE us == Append(ts, "other")
           n == Len(ts)
           m == Len(args) + 1
           grown == Append(arg, n + 1)
           old == Append(args, arg)
           new == Append(args, grown)
           last == Len(arg) + 1
<1>1. "other" \in TokenKinds
  BY DEF TokenKinds
<1>2. Others(us) = Others(ts) \cup {n + 1} /\ Others(ts) \subseteq 1..n /\ n \in Nat /\ Len(us) = n + 1
  BY <1>1, OthersAfter, AppendProperties, LenProperties DEF Others
<1>3. \A i \in 1..n : /\ Together(us, i, n + 1) <=> Together(ts, i, n)
                      /\ \A j \in 1..n : Together(us, i, j) <=> Together(ts, i, j)
  BY <1>1, TogetherAfter
<1>4. Together(us, n + 1, n + 1)
  <2>1. us[n + 1] = "other" /\ (n + 1)..(n + 1) = {n + 1}
    BY <1>1, <1>2, AppendProperties
  <2> QED
    BY <2>1 DEF Together
<1>5. /\ grown \in Seq(Nat) /\ Len(grown) = last /\ last \in Nat /\ last > 0
      /\ grown[last] = n + 1
      /\ \A k \in 1..Len(arg) : grown[k] = arg[k]
      /\ 1..last = (1..Len(arg)) \cup {last} /\ last \notin 1..Len(arg)
  <2>1. Len(arg) \in Nat /\ n + 1 \in Nat
    BY <1>2, LenProperties
  <2> QED
    BY <2>1, AppendProperties
<1> HIDE DEF grown, n
<1>6. /\ m \in Nat /\ m > 0 /\ Len(old) = m /\ Len(new) = m /\ old[m] = arg /\ new[m] = grown
      /\ \A a \in 1..(m - 1) : old[a] = args[a] /\ new[a] = args[a]
      /\ \A a \in 1..m : a = m \/ a \in 1..(m - 1)
  BY <1>5, AppendProperties, LenProperties
<1> HIDE DEF us, m, old, new, last
<1> DEFINE IsOld(a, k) == k \in 1..Len(old[a]) /\ new[a][k] = old[a][k]
           IsNew(a, k) == a = m /\ k = last /\ new[a][k] = n + 1
<1>7. ASSUME NEW a \in 1..m, NEW k \in 1..Len(new[a]) PROVE IsOld(a, k) \/ IsNew(a, k)
  <2>1. CASE a \in 1..(m - 1)
    BY <1>6, <2>1
  <2>2. CASE a = m
    BY <1>5, <1>6, <2>2
  <2> QED
    BY <1>6, <2>1, <2>2
<1>8. ASSUME NEW a \in 1..m, NEW k \in 1..Len(old[a])
      PROVE  k \in 1..Len(new[a]) /\ new[a][k] = old[a][k] /\ old[a][k] \in Others(ts)
  <2>1. old[a][k] \in Others(ts)
    BY <1>6 DEF Split, old
  <2>2. CASE a \in 1..(m - 1)
    BY <1>6, <2>1, <2>2
  <2>3. CASE a = m
    BY <1>5, <1>6, <2>1, <2>3
  <2> QED
    BY <1>6, <2>2, <2>3
<1>9. \A a, b \in 1..m : \A k \in 1..Len(old[a]), l \in 1..Len(old[b]) :
        /\ a < b \/ (a = b /\ k < l) => old[a][k] < old[b][l]
        /\ old[a][k] < old[b][l] => (a = b <=> Together(ts, old[a][k], old[b][l]))
  BY <1>6 DEF Split, InOrder, old
<1>10. last \in 1..Len(new[m]) /\ new[m][last] = n + 1 /\ m \in 1..m
  BY <1>5, <1>6
<1>11. \A a \in 1..m : \A k \in 1..Len(new[a]) : new[a][k] \in Others(us)
  BY <1>2, <1>7, <1>8
<1>12. \A i \in Others(us) : \E a \in 1..m : \E k \in 1..Len(new[a]) : new[a][k] = i
  <2> SUFFICES ASSUME NEW i \in Others(us)
               PROVE  \E a \in 1..m : \E k \in 1..Len(new[a]) : new[a][k] = i
    OBVIOUS
  <2>1. CASE i = n + 1
    BY <1>10, <2>1
  <2>2. CASE i \in Others(ts)
    <3>1. PICK a \in 1..m : \E k \in 1..Len(old[a]) : old[a][k] = i
      BY <1>6, <2>2 DEF Split, old
    <3>2. PICK k \in 1..Len(old[a]) : old[a][k] = i
      BY <3>1
    <3>3. k \in 1..Len(new[a]) /\ new[a][k] = i
      BY <1>8, <3>2
    <3> QED
      BY <3>3
  <2> QED
    BY <1>2, <2>1, <2>2
<1>13. ASSUME NEW a \in 1..m, NEW k \in 1..Len(old[a])
       PROVE  a = m <=> Together(ts, old[a][k], n)
  <2>1. old[a][k] \in Others(ts)
    BY <1>8
  <2>2. Together(ts, old[a][k], n) <=> \E l \in 1..Len(arg) : arg[l] = old[a][k]
    BY <2>1 DEF EndsWith, n
  <2>3. a = m => \E l \in 1..Len(arg) : arg[l] = old[a][k]
    BY <1>6
  <2>4. ASSUME a # m, NEW l \in 1..Len(arg) PROVE arg[l] # old[a][k]
    <3>1. a < m /\ m \in 1..m /\ l \in 1..Len(old[m]) /\ old[m][l] = arg[l]
      BY <1>6, <2>4
    <3>2. old[a][k] < arg[l]
      BY <1>9, <3>1
    <3>3. old[a][k] \in Int
      BY <1>2, <2>1
    <3> QED
      BY <3>2, <3>3
  <2> QED
    BY <2>2, <2>3, <2>4
<1>14. ASSUME NEW a \in 1..m, NEW b \in 1..m, NEW k \in 1..Len(new[a]), NEW l \in 1..Len(new[b])
       PROVE  /\ a < b \/ (a = b /\ k < l) => new[a][k] < new[b][l]
              /\ new[a][k] < new[b][l] => (a = b <=> Together(us, new[a][k], new[b][l]))
  <2>1. CASE IsOld(a, k) /\ IsOld(b, l)
    <3>1. old[a][k] \in 1..n /\ old[b][l] \in 1..n
      BY <1>2, <1>8, <2>1
    <3>2. Together(us, old[a][k], old[b][l]) <=> Together(ts, old[a][k], old[b][l])
      BY <1>3, <3>1
    <3> QED
      BY <1>9, <2>1, <3>2
  <2>2. CASE IsOld(a, k) /\ IsNew(b, l)
    <3>1. old[a][k] \in 1..n
      BY <1>2, <1>8, <2>2
    <3>2. Together(us, old[a][k], n + 1) <=> a = m
      BY <1>3, <1>13, <2>2, <3>1
    <3>3. old[a][k] < n + 1
      BY <1>2, <3>1
    <3> QED
      BY <2>2, <3>2, <3>3
  <2>3. CASE IsNew(a, k) /\ IsOld(b, l)
    <3>1. old[b][l] \in 1..n
      BY <1>2, <1>8, <2>3
    <3>2. ~(n + 1 < old[b][l])
      BY <1>2, <3>1
    <3>3. ~(a < b)
      BY <1>6, <2>3
    <3>4. ~(a = b /\ k < l)
      BY <1>5, <1>6, <2>3
    <3> QED
      BY <2>3, <3>2, <3>3, <3>4
  <2>4. CASE IsNew(a, k) /\ IsNew(b, l)
    <3>1. ~(n + 1 < n + 1) /\ ~(a < b) /\ ~(k < l)
      BY <1>2, <1>5, <1>6, <2>4
    <3> QED
      BY <2>4, <3>1
  <2> QED
    BY <1>7, <2>1, <2>2, <2>3, <2>4
<1>15. Split(new, us)
  BY <1>6, <1>11, <1>12, <1>14 DEF Split, InOrder
<1>16. EndsWith(grown, us)
  <2> SUFFICES ASSUME NEW i \in Others(us)
               PROVE  (\E k \in 1..Len(grown) : grown[k] = i) <=> Together(us, i, n + 1)
    BY <1>2 DEF EndsWith
  <2>1. CASE i = n + 1
    BY <1>4, <1>5, <2>1
  <2>2. CASE i # n + 1
    <3>1. i \in Others(ts) /\ i \in 1..n
      BY <1>2, <2>2
    <3>2. (\E k \in 1..Len(arg) : arg[k] = i) <=> Together(ts, i, n)
      BY <3>1 DEF EndsWith, n
    <3>3. (\E k \in 1..Len(grown) : grown[k] = i) <=> (\E k \in 1..Len(arg) : arg[k] = i)
      BY <1>5, <2>2
    <3> QED
      BY <1>3, <3>1, <3>2, <3>3
  <2> QED
    BY <2>1, <2>2
<1> QED
  BY <1>15, <1>16 DEF new, grown, us, n

-----------------------------------------------------------------------------

TraceSpec == TraceInit /\ [][TraceNext]_traceVars

CallTypes ==
  /\ format \in Seq({8, 16, 32}) /\ tokens \in Seq(TokenKinds)
  /\ nesting \in Int
  /\ singleArg \in Seq(Nat) /\ traceArgTokens \in Seq(Seq(Nat))
  /\ z \in Int /\ fields \in Seq([field : Int, arg : Int, byte : Int])
  /\ pc \in {"dump", "scan", "write", "failed"}

(* While the call is scanned it is open, and what was read of it is split   *)
(* into the arguments that have ended and the one that has not.             *)
ScanIsSplit ==
  pc = "scan" =>
    /\ nesting = DepthOf(tokens, Len(tokens))
    /\ \A k \in 0..Len(tokens) : DepthOf(tokens, k) > 0
    /\ Split(Append(traceArgTokens, singleArg), tokens)
    /\ EndsWith(singleArg, tokens)

(* When it is written it has ended, just now, and all of it is split.       *)
CallIsSplit ==
  pc = "write" =>
    /\ DepthOf(tokens, Len(tokens)) = 0
    /\ \A k \in 0..(Len(tokens) - 1) : DepthOf(tokens, k) > 0
    /\ Split(traceArgTokens, tokens)

(* A call has no tokens yet when its format has been read.                  *)
LEMMA NothingIsSplit ==
  /\ DepthOf(<<>>, 0) = 1
  /\ Split(Append(<<>>, <<>>), <<>>) /\ EndsWith(<<>>, <<>>)
<1>1. 1..0 = {} /\ Len(<<>>) = 0 /\ Cardinality({}) = 0
  BY FS_EmptySet
<1>2. DepthOf(<<>>, 0) = 1
  <2>1. \A c : {i \in 1..0 : <<>>[i] = c} = {}
    BY <1>1
  <2> QED
    BY <1>1, <2>1 DEF DepthOf
<1>3. Others(<<>>) = {}
  BY <1>1 DEF Others
<1>4. Append(<<>>, <<>>) = << <<>> >>
  OBVIOUS
<1>5. \A a \in 1..Len(<< <<>> >>) : << <<>> >>[a] = <<>>
  OBVIOUS
<1> QED
  BY <1>1, <1>2, <1>3, <1>4, <1>5 DEF Split, InOrder, EndsWith

(* What is read and kept has the right types.                               *)
LEMMA CallTypesStep == CallTypes /\ [TraceNext]_traceVars => CallTypes'
<1> SUFFICES ASSUME CallTypes, [TraceNext]_traceVars PROVE CallTypes'
  OBVIOUS
<1>1. ASSUME NEW t \in TokenKinds, tokens' = Append(tokens, t) PROVE tokens' \in Seq(TokenKinds)
  BY <1>1, AppendProperties DEF CallTypes
<1>2. /\ Append(traceArgTokens, singleArg) \in Seq(Seq(Nat)) /\ <<>> \in Seq(Nat)
      /\ Append(singleArg, Len(tokens) + 1) \in Seq(Nat)
  BY AppendProperties, LenProperties DEF CallTypes
<1>3. {"comma", "lpar", "rpar", "other"} \subseteq TokenKinds
  BY DEF TokenKinds
<1>4. ASSUME NEW sizes \in Formats, RewriteTrace(sizes) PROVE CallTypes'
  <2>1. sizes \in Seq({8, 16, 32})
    BY FormatsAssumption
  <2> QED
    BY <1>4, <2>1 DEF CallTypes, RewriteTrace
<1>5. CASE Comma
  <2>1. tokens' \in Seq(TokenKinds)
    BY <1>1, <1>3, <1>5 DEF Comma
  <2> QED
    BY <1>2, <1>5, <2>1 DEF CallTypes, Comma, AfterComma
<1>6. CASE LPar
  <2>1. tokens' \in Seq(TokenKinds)
    BY <1>1, <1>3, <1>6 DEF LPar
  <2> QED
    BY <1>6, <2>1 DEF CallTypes, LPar
<1>7. CASE Other
  <2>1. tokens' \in Seq(TokenKinds)
    BY <1>1, <1>3, <1>7 DEF Other
  <2> QED
    BY <1>2, <1>7, <2>1 DEF CallTypes, Other
<1>8. CASE RPar
  <2>1. tokens' \in Seq(TokenKinds)
    BY <1>1, <1>3, <1>8 DEF RPar
  <2>2. traceArgTokens' \in Seq(Seq(Nat)) /\ pc' \in {"scan", "write", "failed"}
    BY <1>2, <1>8 DEF CallTypes, RPar
  <2> QED
    BY <1>8, <2>1, <2>2 DEF CallTypes, RPar
<1>9. CASE EndOfFile
  BY <1>9 DEF CallTypes, EndOfFile
<1>10. CASE WriteTraceArg
  <2> DEFINE arg == Cardinality(Written) + 1
             bytes == format[arg] \div 8
             more == [i \in 1..bytes |-> [field |-> z + i - 1, arg |-> arg, byte |-> ByteAt(i - 1, bytes)]]
  <2>1. Cardinality(Written) \in Nat /\ arg \in Nat
    <3>1. Len(fields) \in Nat /\ IsFiniteSet(1..Len(fields))
      BY FS_Interval, LenProperties DEF CallTypes
    <3> DEFINE ArgAt == [i \in 1..Len(fields) |-> fields[i].arg]
    <3>2. ArgAt \in Surjection(1..Len(fields), Written)
      BY DEF Written, Surjection
    <3>3. IsFiniteSet(Written)
      <4> HIDE DEF ArgAt
      <4> QED
        BY <3>1, <3>2, FS_Surjection
    <3> QED
      BY <3>3, FS_CardinalityType
  <2>2. bytes \in {1, 2, 4}
    <3>1. Cardinality(Written) < Len(format) /\ Len(format) \in Nat
      BY <1>10, LenProperties DEF CallTypes, WriteTraceArg
    <3>2. arg \in 1..Len(format)
      <4>1. PICK w \in Nat : w = Cardinality(Written)
        BY <2>1
      <4> QED
        BY <3>1, <4>1
    <3>3. format[arg] \in {8, 16, 32}
      <4> HIDE DEF arg
      <4> QED
        BY <3>2 DEF CallTypes
    <3> QED
      BY <3>3
  <2> HIDE DEF arg, bytes
  <2>3. more \in Seq([field : Int, arg : Int, byte : Int])
    <3>1. \A i \in 1..bytes : ByteAt(i - 1, bytes) \in Int /\ z + i - 1 \in Int /\ arg \in Int
      BY <2>1, <2>2 DEF ByteAt, CallTypes
    <3> QED
      BY <2>2, <3>1
  <2>4. fields' = fields \o more /\ z' = z + bytes - 1
    BY <1>10 DEF WriteTraceArg, Returned, arg, bytes
  <2> HIDE DEF more
  <2>5. fields' \in Seq([field : Int, arg : Int, byte : Int])
    BY <2>3, <2>4, ConcatProperties DEF CallTypes
  <2>6. z' \in Int
    BY <2>2, <2>4 DEF CallTypes
  <2> QED
    BY <1>10, <2>5, <2>6 DEF CallTypes, WriteTraceArg
<1>11. CASE CallEnds
  BY <1>11 DEF CallTypes, CallEnds
<1>12. CASE UNCHANGED traceVars
  BY <1>12 DEF CallTypes, traceVars
<1> QED
  BY <1>4, <1>5, <1>6, <1>7, <1>8, <1>9, <1>10, <1>11, <1>12 DEF TraceNext

(* The scan splits what it reads.                                           *)
LEMMA SplitStep ==
  CallTypes /\ ScanIsSplit /\ CallIsSplit /\ [TraceNext]_traceVars => ScanIsSplit' /\ CallIsSplit'
<1> SUFFICES ASSUME CallTypes, ScanIsSplit, CallIsSplit, [TraceNext]_traceVars
             PROVE  ScanIsSplit' /\ CallIsSplit'
  OBVIOUS
<1> DEFINE n == Len(tokens)
           all == Append(traceArgTokens, singleArg)
<1>1. /\ tokens \in Seq(TokenKinds) /\ n \in Nat /\ nesting \in Int
      /\ traceArgTokens \in Seq(Seq(Nat)) /\ singleArg \in Seq(Nat) /\ all \in Seq(Seq(Nat))
  BY AppendProperties, LenProperties DEF CallTypes
<1>2. {"comma", "lpar", "rpar", "other"} \subseteq TokenKinds
  BY DEF TokenKinds
<1>3. ASSUME NEW t \in TokenKinds, tokens' = Append(tokens, t), pc = "scan"
      PROVE  /\ Len(tokens') = n + 1
             /\ \A k \in 0..n : DepthOf(tokens', k) > 0
             /\ DepthOf(tokens', n + 1) = nesting + (IF t = "lpar" THEN 1 ELSE IF t = "rpar" THEN -1 ELSE 0)
             /\ 0..(n + 1) = (0..n) \cup {n + 1}
  BY <1>1, <1>3, DepthAfter, AppendProperties DEF ScanIsSplit
<1>4. pc = "scan" => nesting > 0 /\ nesting = DepthOf(tokens, n)
  BY <1>1 DEF ScanIsSplit
<1>5. ASSUME NEW sizes \in Formats, RewriteTrace(sizes) PROVE ScanIsSplit' /\ CallIsSplit'
  <2>1. tokens' = <<>> /\ nesting' = 1 /\ singleArg' = <<>> /\ traceArgTokens' = <<>> /\ pc' = "scan"
    BY <1>5 DEF RewriteTrace
  <2>2. Len(<<>>) = 0 /\ 0..0 = {0}
    OBVIOUS
  <2> QED
    BY <2>1, <2>2, NothingIsSplit DEF ScanIsSplit, CallIsSplit
<1>6. CASE Comma
  <2>1. pc = "scan" /\ pc' = "scan" /\ tokens' = Append(tokens, "comma") /\ nesting' = nesting
    BY <1>6 DEF Comma
  <2>2. nesting' = DepthOf(tokens', Len(tokens')) /\ \A k \in 0..Len(tokens') : DepthOf(tokens', k) > 0
    BY <1>1, <1>2, <1>3, <1>4, <2>1
  <2>3. CASE nesting = 1 /\ singleArg # <<>>
    <3>1. traceArgTokens' = all /\ singleArg' = <<>>
      BY <1>6, <2>3 DEF Comma, AfterComma
    <3>2. Split(Append(all, <<>>), tokens') /\ EndsWith(<<>>, tokens')
      <4> HIDE DEF all
      <4> QED
        BY <1>1, <1>4, <2>1, <2>3, SplitAtComma DEF ScanIsSplit, all
    <3> QED
      BY <2>1, <2>2, <3>1, <3>2 DEF ScanIsSplit, CallIsSplit
  <2>4. CASE ~(nesting = 1 /\ singleArg # <<>>)
    <3>1. traceArgTokens' = traceArgTokens /\ singleArg' = singleArg
      BY <1>6, <2>4 DEF Comma
    <3>2. Split(all, tokens') /\ EndsWith(singleArg, tokens')
      BY <1>1, <1>2, <1>4, <2>1, <2>4, SplitAfter, EndsWithAfter DEF ScanIsSplit
    <3> QED
      BY <2>1, <2>2, <3>1, <3>2 DEF ScanIsSplit, CallIsSplit
  <2> QED
    BY <2>3, <2>4
<1>7. CASE LPar
  <2>1. /\ pc = "scan" /\ pc' = "scan" /\ tokens' = Append(tokens, "lpar") /\ nesting' = nesting + 1
        /\ traceArgTokens' = traceArgTokens /\ singleArg' = singleArg
    BY <1>7 DEF LPar
  <2>2. nesting' = DepthOf(tokens', Len(tokens')) /\ \A k \in 0..Len(tokens') : DepthOf(tokens', k) > 0
    BY <1>1, <1>2, <1>3, <1>4, <2>1
  <2>3. Split(all, tokens') /\ EndsWith(singleArg, tokens')
    BY <1>1, <1>2, <2>1, SplitAfter, EndsWithAfter DEF ScanIsSplit
  <2> QED
    BY <2>1, <2>2, <2>3 DEF ScanIsSplit, CallIsSplit
<1>8. CASE Other
  <2>1. /\ pc = "scan" /\ pc' = "scan" /\ tokens' = Append(tokens, "other") /\ nesting' = nesting
        /\ traceArgTokens' = traceArgTokens /\ singleArg' = Append(singleArg, n + 1)
    BY <1>8 DEF Other
  <2>2. nesting' = DepthOf(tokens', Len(tokens')) /\ \A k \in 0..Len(tokens') : DepthOf(tokens', k) > 0
    BY <1>1, <1>2, <1>3, <1>4, <2>1
  <2>3. Split(Append(traceArgTokens, singleArg'), tokens') /\ EndsWith(singleArg', tokens')
    BY <1>1, <2>1, SplitGrows DEF ScanIsSplit
  <2> QED
    BY <2>1, <2>2, <2>3 DEF ScanIsSplit, CallIsSplit
<1>9. CASE RPar
  <2>1. /\ pc = "scan" /\ tokens' = Append(tokens, "rpar") /\ nesting' = nesting - 1
        /\ singleArg' = singleArg
    BY <1>9 DEF RPar
  <2>2. Split(all, tokens') /\ EndsWith(singleArg, tokens')
    BY <1>1, <1>2, <2>1, SplitAfter, EndsWithAfter DEF ScanIsSplit
  <2>3. /\ Len(tokens') = n + 1 /\ DepthOf(tokens', n + 1) = nesting - 1
        /\ \A k \in 0..n : DepthOf(tokens', k) > 0
        /\ 0..(n + 1) = (0..n) \cup {n + 1}
    BY <1>1, <1>2, <1>3, <2>1
  <2>4. CASE nesting = 1
    <3>1. traceArgTokens' = all /\ pc' # "scan"
      BY <1>9, <2>4 DEF RPar, EndsCall
    <3>2. (n + 1) - 1 = n /\ nesting - 1 = 0
      BY <1>1, <2>4
    <3> QED
      BY <2>2, <2>3, <3>1, <3>2 DEF ScanIsSplit, CallIsSplit
  <2>5. CASE nesting # 1
    <3>1. traceArgTokens' = traceArgTokens /\ pc' = "scan"
      BY <1>9, <2>1, <2>5 DEF RPar, EndsCall
    <3>2. nesting - 1 > 0
      BY <1>1, <1>4, <2>1, <2>5
    <3> QED
      BY <2>1, <2>2, <2>3, <3>1, <3>2 DEF ScanIsSplit, CallIsSplit
  <2> QED
    BY <2>4, <2>5
<1>10. CASE EndOfFile
  BY <1>10 DEF EndOfFile, ScanIsSplit, CallIsSplit
<1>11. CASE WriteTraceArg
  BY <1>11 DEF WriteTraceArg, ScanIsSplit, CallIsSplit
<1>12. CASE CallEnds
  BY <1>12 DEF CallEnds, ScanIsSplit, CallIsSplit
<1>13. CASE UNCHANGED traceVars
  BY <1>13 DEF traceVars, ScanIsSplit, CallIsSplit
<1> QED
  BY <1>5, <1>6, <1>7, <1>8, <1>9, <1>10, <1>11, <1>12, <1>13 DEF TraceNext

(* What is split has the property.                                          *)
LEMMA SplitSuffices == CallTypes /\ CallIsSplit => ArgumentsAreSplit
<1> SUFFICES ASSUME CallTypes, CallIsSplit, pc = "write" PROVE ArgumentsAreSplit
  BY DEF ArgumentsAreSplit
<1> DEFINE args == traceArgTokens
           others == {k \in 1..Len(tokens) : tokens[k] = "other"}
           ArgOf(i) == {a \in 1..Len(args) : Contains(args[a], i)}
<1>1. \A k : Depth(k) = DepthOf(tokens, k)
  BY DEF Depth, DepthOf
<1>2. others = Others(tokens) /\ others \subseteq Nat
  BY DEF Others
<1>3. Depth(Len(tokens)) = 0 /\ \A k \in 0..(Len(tokens) - 1) : Depth(k) > 0
  BY <1>1 DEF CallIsSplit
<1>4. /\ \A a \in 1..Len(args) : \A k \in 1..Len(args[a]) : args[a][k] \in others
      /\ \A i \in others : \E a \in 1..Len(args) : \E k \in 1..Len(args[a]) : args[a][k] = i
      /\ InOrder(args, tokens)
  BY <1>2 DEF CallIsSplit, Split
<1>5. \A a, b \in 1..Len(args) : \A k \in 1..Len(args[a]), l \in 1..Len(args[b]) :
        /\ args[a][k] \in others
        /\ a < b \/ (a = b /\ k < l) => args[a][k] < args[b][l]
  BY <1>4 DEF InOrder
<1>6. ASSUME NEW i \in others PROVE ArgOf(i) # {}
  BY <1>4 DEF Contains
<1>7. ASSUME NEW i \in others, NEW j \in others, i < j
      PROVE  ArgOf(i) = ArgOf(j) <=> \A k \in i..j : tokens[k] = "comma" => Depth(k) # 1
  <2>1. PICK a \in 1..Len(args) : \E k \in 1..Len(args[a]) : args[a][k] = i
    BY <1>4
  <2>2. PICK b \in 1..Len(args) : \E l \in 1..Len(args[b]) : args[b][l] = j
    BY <1>4
  <2>3. ASSUME NEW c \in 1..Len(args), NEW d \in 1..Len(args),
               NEW p \in 1..Len(args[c]), NEW q \in 1..Len(args[d]), args[c][p] = args[d][q]
        PROVE  c = d
    <3>1. args[c][p] \in Nat
      BY <1>2, <1>4
    <3>2. ~(args[c][p] < args[d][q]) /\ ~(args[d][q] < args[c][p])
      <4>1. PICK v \in Nat : v = args[c][p]
        BY <3>1
      <4>2. args[d][q] = v /\ ~(v < v)
        BY <2>3, <4>1
      <4> QED
        BY <4>1, <4>2
    <3>3. ~(c < d) /\ ~(d < c)
      BY <1>5, <3>2
    <3> QED
      BY <3>3
  <2>4. ArgOf(i) = {a}
    <3>1. a \in ArgOf(i)
      BY <2>1 DEF Contains
    <3>2. \A c \in ArgOf(i) : c = a
      BY <2>1, <2>3 DEF Contains
    <3> QED
      BY <3>1, <3>2
  <2>5. ArgOf(j) = {b}
    <3>1. b \in ArgOf(j)
      BY <2>2 DEF Contains
    <3>2. \A c \in ArgOf(j) : c = b
      BY <2>2, <2>3 DEF Contains
    <3> QED
      BY <3>1, <3>2
  <2>6. a = b <=> Together(tokens, i, j)
    <3>1. PICK k \in 1..Len(args[a]) : args[a][k] = i
      BY <2>1
    <3>2. PICK l \in 1..Len(args[b]) : args[b][l] = j
      BY <2>2
    <3>3. args[a][k] < args[b][l] => (a = b <=> Together(tokens, args[a][k], args[b][l]))
      BY <1>4, Zenon DEF InOrder
    <3> QED
      BY <1>7, <3>1, <3>2, <3>3
  <2>7. Together(tokens, i, j) <=> \A m \in i..j : tokens[m] = "comma" => Depth(m) # 1
    BY <1>1 DEF Together
  <2> HIDE DEF ArgOf
  <2> QED
    BY <2>4, <2>5, <2>6, <2>7
<1> QED
  BY <1>3, <1>5, <1>6, <1>7 DEF ArgumentsAreSplit

-----------------------------------------------------------------------------

(* The community modules compute a fold over a sequence with a function of  *)
(* the positions that are left, which takes the last of them off.           *)
FromTheLast(seq, base, f, g) ==
  \A s \in SUBSET (1..Len(seq)) :
    g[s] = IF s = {} THEN base ELSE f[<<g[s \ {Max(s)}], seq[Max(s)]>>]

(* There is such a function.                                                *)
LEMMA FoldExists ==
  ASSUME NEW V, NEW f \in [V \X V -> V], NEW base \in V, NEW seq \in Seq(V)
  PROVE  \E g \in [SUBSET (1..Len(seq)) -> V] : FromTheLast(seq, base, f, g)
<1> DEFINE S == 1..Len(seq)
           UpTo(n, g) == \A s \in SUBSET S : Cardinality(s) <= n =>
             g[s] = IF s = {} THEN base ELSE f[<<g[s \ {Max(s)}], seq[Max(s)]>>]
           T == {n \in Nat : ~ \E g \in [SUBSET S -> V] : UpTo(n, g)}
<1>1. Len(seq) \in Nat /\ IsFiniteSet(S) /\ \A i \in S : seq[i] \in V
  <2>1. Len(seq) \in Nat
    BY LenProperties
  <2>2. \A i \in 1..Len(seq) : seq[i] \in V
    OBVIOUS
  <2>3. IsFiniteSet(1..Len(seq))
    BY <2>1, FS_Interval
  <2> QED
    BY <2>1, <2>2, <2>3
<1>2. \A s \in SUBSET S : IsFiniteSet(s) /\ Cardinality(s) \in Nat
  <2> HIDE DEF S
  <2> QED
    BY <1>1, FS_Subset, FS_CardinalityType
<1>3. ASSUME NEW s \in SUBSET S, s # {}
      PROVE  /\ Max(s) \in s /\ s \ {Max(s)} \in SUBSET S
             /\ Cardinality(s \ {Max(s)}) = Cardinality(s) - 1
  <2>1. Max(s) \in s
    BY <1>1, <1>3, BoundedMaximum
  <2> HIDE DEF S
  <2> QED
    BY <1>2, <2>1, FS_RemoveElement
<1> HIDE DEF S
<1>4. ASSUME T # {} PROVE FALSE
  <2>1. PICK n \in T : \A y \in T : n <= y
    BY <1>4, NatMinimum
  <2>2. n \in Nat
    BY <2>1
  <2>3. CASE n = 0
    <3> DEFINE g == [s \in SUBSET S |-> base]
    <3>1. g \in [SUBSET S -> V]
      OBVIOUS
    <3>2. UpTo(n, g)
      <4> SUFFICES ASSUME NEW s \in SUBSET S, Cardinality(s) <= n PROVE s = {}
        OBVIOUS
      <4> QED
        BY <1>2, <2>3, FS_EmptySet
    <3> QED
      BY <2>1, <3>1, <3>2
  <2>4. CASE n # 0
    <3>1. n - 1 \in Nat /\ n - 1 \notin T
      <4> HIDE DEF T
      <4> QED
        BY <2>1, <2>2, <2>4
    <3>2. PICK g \in [SUBSET S -> V] : UpTo(n - 1, g)
      BY <3>1
    <3> DEFINE h == [s \in SUBSET S |-> IF s = {} THEN base ELSE f[<<g[s \ {Max(s)}], seq[Max(s)]>>]]
    <3>3. h \in [SUBSET S -> V]
      <4> SUFFICES ASSUME NEW s \in SUBSET S, s # {}
                   PROVE  f[<<g[s \ {Max(s)}], seq[Max(s)]>>] \in V
        OBVIOUS
      <4>1. seq[Max(s)] \in V /\ g[s \ {Max(s)}] \in V
        BY <1>1, <1>3
      <4> QED
        BY <4>1
    <3>4. UpTo(n, h)
      <4> SUFFICES ASSUME NEW s \in SUBSET S, Cardinality(s) <= n, s # {}
                   PROVE  h[s \ {Max(s)}] = g[s \ {Max(s)}]
        OBVIOUS
      <4>1. s \ {Max(s)} \in SUBSET S /\ Cardinality(s \ {Max(s)}) <= n - 1
        <5>1. s \ {Max(s)} \in SUBSET S /\ Cardinality(s \ {Max(s)}) = Cardinality(s) - 1
          BY <1>3
        <5>2. Cardinality(s) \in Nat
          BY <1>2
        <5> QED
          BY <2>2, <5>1, <5>2
      <4> QED
        BY <3>2, <4>1
    <3> QED
      BY <2>1, <3>3, <3>4
  <2> QED
    BY <2>3, <2>4
<1>5. Cardinality(S) \in Nat /\ \A s \in SUBSET S : Cardinality(s) <= Cardinality(S)
  BY <1>1, <1>2, FS_Subset
<1>6. PICK g \in [SUBSET S -> V] : UpTo(Cardinality(S), g)
  BY <1>4, <1>5
<1>7. \A s \in SUBSET S : g[s] = IF s = {} THEN base ELSE f[<<g[s \ {Max(s)}], seq[Max(s)]>>]
  BY <1>5, <1>6
<1> QED
  BY <1>6, <1>7 DEF S, FromTheLast

(* A fold from the front: what is accumulated after each element.           *)
Accumulates(seq, base, f, acc) ==
  /\ acc[0] = base
  /\ \A k \in 1..Len(seq) : acc[k] = f[<<acc[k - 1], seq[k]>>]

(* The numbers up to k are those up to k - 1 and their maximum, k.          *)
LEMMA MaxOfFirst ==
  ASSUME NEW n \in Nat, NEW k \in 1..n
  PROVE  /\ 1..k \in SUBSET (1..n) /\ 1..k # {}
         /\ Max(1..k) = k /\ (1..k) \ {Max(1..k)} = 1..(k - 1)
<1> DEFINE s == 1..k
<1>1. k \in Nat /\ k \in s /\ s \in SUBSET (1..n) /\ s # {}
  OBVIOUS
<1>2. s \ {k} = 1..(k - 1)
  BY <1>1
<1>3. Max(s) \in s /\ \A y \in s : Max(s) >= y
  BY <1>1, BoundedMaximum
<1>4. Max(s) = k
  BY <1>1, <1>3
<1> QED
  BY <1>1, <1>2, <1>4

(* What the function with which the community modules compute a fold is on  *)
(* the first k positions of the sequence, for each k.                       *)
IsFold(V, f, base, seq, g) ==
  /\ f \in [V \X V -> V] /\ base \in V /\ seq \in Seq(V)
  /\ g[1..0] = base
  /\ \A k \in 1..Len(seq) : g[1..(k - 1)] \in V => g[1..k] = f[<<g[1..(k - 1)], seq[k]>>]

(* That function goes through the sequence from its front.                  *)
LEMMA FoldAccumulates ==
  ASSUME NEW V, NEW f, NEW base, NEW seq, NEW g, IsFold(V, f, base, seq, g)
  PROVE  \E acc \in [0..Len(seq) -> V] :
           Accumulates(seq, base, f, acc) /\ g[1..Len(seq)] = acc[Len(seq)]
<1>0. /\ f \in [V \X V -> V] /\ base \in V /\ seq \in Seq(V)
      /\ g[1..0] = base
      /\ \A k \in 1..Len(seq) : g[1..(k - 1)] \in V => g[1..k] = f[<<g[1..(k - 1)], seq[k]>>]
  BY Zenon DEF IsFold
<1>1. Len(seq) \in Nat /\ \A i \in 1..Len(seq) : seq[i] \in V
  <2>1. Len(seq) \in Nat
    BY <1>0, LenProperties
  <2>2. \A i \in 1..Len(seq) : seq[i] \in V
    BY <1>0
  <2> QED
    BY <2>1, <2>2
<1>2. g[1..0] = base
  BY <1>0
<1> DEFINE T == {k \in 0..Len(seq) : g[1..k] \notin V}
<1>4. ASSUME T # {} PROVE FALSE
  <2>1. PICK k \in T : \A j \in T : k <= j
    <3>1. T \in SUBSET Nat
      OBVIOUS
    <3> HIDE DEF T
    <3> QED
      BY <1>4, <3>1, NatMinimum
  <2>2. k \in 1..Len(seq)
    BY <1>0, <1>1, <1>2, <2>1
  <2>3. k - 1 \in 0..Len(seq) /\ ~(k <= k - 1)
    BY <1>1, <2>2
  <2>4. g[1..(k - 1)] \in V /\ seq[k] \in V
    BY <1>1, <2>1, <2>2, <2>3
  <2> QED
    BY <1>0, <2>1, <2>2, <2>4
<1>3. ASSUME NEW k \in 1..Len(seq) PROVE g[1..k] = f[<<g[1..(k - 1)], seq[k]>>]
  <2>1. k - 1 \in 0..Len(seq)
    BY <1>1
  <2> QED
    BY <1>0, <1>4, <2>1
<1> DEFINE acc == [k \in 0..Len(seq) |-> g[1..k]]
<1>5. acc \in [0..Len(seq) -> V]
  BY <1>4
<1>6. Accumulates(seq, base, f, acc)
  <2>1. acc[0] = base
    BY <1>1, <1>2
  <2>2. ASSUME NEW k \in 1..Len(seq) PROVE acc[k] = f[<<acc[k - 1], seq[k]>>]
    <3>1. k \in 0..Len(seq) /\ k - 1 \in 0..Len(seq)
      BY <1>1
    <3> QED
      BY <1>3, <3>1
  <2> QED
    BY <2>1, <2>2 DEF Accumulates
<1>7. g[1..Len(seq)] = acc[Len(seq)]
  BY <1>1
<1> HIDE DEF acc
<1> QED
  BY <1>5, <1>6, <1>7

BeginsWith(longer, seq) ==
  /\ Len(seq) \in Nat /\ Len(longer) \in Nat /\ Len(seq) <= Len(longer)
  /\ \A k \in 1..Len(seq) : longer[k] = seq[k]

SameBehind(seq, acc, more) == more[Len(seq)] = acc[Len(seq)]

(* Two sequences with the same elements at their front accumulate the same  *)
(* there.                                                                   *)
LEMMA AccumulatesSame ==
  ASSUME NEW seq, NEW longer, NEW f, NEW base, BeginsWith(longer, seq),
         NEW acc, Accumulates(seq, base, f, acc), NEW more, Accumulates(longer, base, f, more)
  PROVE  SameBehind(seq, acc, more)
<1> DEFINE T == {k \in 0..Len(seq) : more[k] # acc[k]}
<1>1. Len(seq) \in Nat /\ Len(longer) \in Nat /\ Len(seq) <= Len(longer)
  BY DEF BeginsWith
<1>2. ASSUME T # {} PROVE FALSE
  <2>1. PICK k \in T : \A j \in T : k <= j
    <3>1. T \in SUBSET Nat
      OBVIOUS
    <3> HIDE DEF T
    <3> QED
      BY <1>2, <3>1, NatMinimum
  <2>2. k \in 1..Len(seq)
    BY <1>1, <2>1 DEF Accumulates
  <2>3. k - 1 \in 0..Len(seq) /\ ~(k <= k - 1) /\ k \in 1..Len(longer)
    BY <1>1, <2>2
  <2>4. more[k - 1] = acc[k - 1]
    BY <2>1, <2>3
  <2>5. more[k] = f[<<more[k - 1], longer[k]>>] /\ acc[k] = f[<<acc[k - 1], seq[k]>>]
    BY <2>2, <2>3 DEF Accumulates
  <2>6. longer[k] = seq[k]
    BY <2>2 DEF BeginsWith
  <2> QED
    BY <2>1, <2>2, <2>4, <2>5, <2>6
<1>3. Len(seq) \in 0..Len(seq)
  BY <1>1
<1> QED
  BY <1>2, <1>3 DEF SameBehind

(* What one more element makes of a fold.                                   *)
LEMMA FoldGrows ==
  ASSUME NEW V, NEW f, NEW base, NEW seq, NEW g, IsFold(V, f, base, seq, g),
         NEW x \in V, NEW h, IsFold(V, f, base, Append(seq, x), h)
  PROVE  h[1..(Len(seq) + 1)] = f[<<g[1..Len(seq)], x>>]
<1> DEFINE longer == Append(seq, x)
           n == Len(seq)
<1>1. /\ f \in [V \X V -> V] /\ base \in V /\ seq \in Seq(V) /\ n \in Nat
      /\ longer \in Seq(V) /\ Len(longer) = n + 1 /\ longer[n + 1] = x
      /\ \A k \in 1..n : longer[k] = seq[k]
  BY AppendProperties, LenProperties DEF IsFold
<1>2. PICK acc \in [0..n -> V] : Accumulates(seq, base, f, acc) /\ g[1..n] = acc[n]
  <2> HIDE DEF longer
  <2> QED
    BY FoldAccumulates
<1>3. PICK more \in [0..Len(longer) -> V] :
        Accumulates(longer, base, f, more) /\ h[1..Len(longer)] = more[Len(longer)]
  <2>1. IsFold(V, f, base, longer, h)
    OBVIOUS
  <2> HIDE DEF longer
  <2> QED
    BY <2>1, FoldAccumulates
<1> HIDE DEF longer, n
<1>4. more[n] = acc[n]
  <2>1. n \in 0..n /\ n <= n + 1
    BY <1>1
  <2>2. Len(seq) <= Len(longer) /\ \A k \in 1..Len(seq) : longer[k] = seq[k]
    BY <1>1, <2>1 DEF n
  <2>3. Accumulates(seq, base, f, acc) /\ Accumulates(longer, base, f, more)
    BY <1>2, <1>3
  <2>4. more[Len(seq)] = acc[Len(seq)]
    <3>1. BeginsWith(longer, seq)
      BY <1>1, <2>2 DEF n, BeginsWith
    <3>2. SameBehind(seq, acc, more)
      BY <2>3, <3>1, AccumulatesSame
    <3> QED
      BY <3>2, Zenon DEF SameBehind
  <2> QED
    BY <2>4 DEF n
<1>5. more[n + 1] = f[<<more[n], x>>]
  <2>1. n + 1 \in 1..Len(longer) /\ (n + 1) - 1 = n
    BY <1>1
  <2> QED
    BY <1>1, <1>3, <2>1 DEF Accumulates
<1> QED
  BY <1>1, <1>2, <1>3, <1>4, <1>5 DEF n

-----------------------------------------------------------------------------

(* The bytes of the arguments: a fold over the sizes.                       *)
TotalBytes(sizes) == FoldLeft(LAMBDA sum, size : sum + size, 0, sizes) \div 8
Plus == [p \in Nat \X Nat |-> p[1] + p[2]]

(* The fold is the sum of the sizes from the front.                         *)
LEMMA TotalAccumulates ==
  ASSUME NEW sizes \in Seq(Nat)
  PROVE  \E acc \in [0..Len(sizes) -> Nat] :
           Accumulates(sizes, 0, Plus, acc) /\ TotalBytes(sizes) = acc[Len(sizes)] \div 8
<1> DEFINE S == 1..Len(sizes)
           iter[s \in SUBSET S] == IF s = {} THEN 0 ELSE iter[s \ {Max(s)}] + sizes[Max(s)]
<1>1. Len(sizes) \in Nat /\ \A i \in S : sizes[i] \in Nat
  <2>1. Len(sizes) \in Nat
    BY LenProperties
  <2>2. \A i \in 1..Len(sizes) : sizes[i] \in Nat
    OBVIOUS
  <2> QED
    BY <2>1, <2>2
<1>2. TotalBytes(sizes) = iter[S] \div 8
  <2>1. DOMAIN sizes = S
    BY LenProperties
  <2> QED
    BY <2>1 DEF TotalBytes, FoldLeft, MapThenFoldSet
<1>3. Plus \in [Nat \X Nat -> Nat]
  BY DEF Plus
<1>4. PICK g \in [SUBSET S -> Nat] : FromTheLast(sizes, 0, Plus, g)
  BY <1>3, FoldExists
<1>5. g = [s \in SUBSET S |-> IF s = {} THEN 0 ELSE g[s \ {Max(s)}] + sizes[Max(s)]]
  <2> SUFFICES ASSUME NEW s \in SUBSET S, s # {}
               PROVE  Plus[<<g[s \ {Max(s)}], sizes[Max(s)]>>] = g[s \ {Max(s)}] + sizes[Max(s)]
    BY <1>4 DEF FromTheLast
  <2>1. Max(s) \in S
    BY <1>1, BoundedMaximum
  <2>2. sizes[Max(s)] \in Nat /\ g[s \ {Max(s)}] \in Nat
    BY <1>1, <2>1
  <2> QED
    BY <2>2 DEF Plus
<1>6. iter = [s \in SUBSET S |-> IF s = {} THEN 0 ELSE iter[s \ {Max(s)}] + sizes[Max(s)]]
  BY <1>5
<1> HIDE DEF iter
<1>7. iter[1..0] = 0
  <2>1. 1..0 = {} /\ 1..0 \in SUBSET S
    OBVIOUS
  <2> QED
    BY <1>6, <2>1
<1>8. ASSUME NEW k \in 1..Len(sizes), iter[1..(k - 1)] \in Nat
      PROVE  iter[1..k] = Plus[<<iter[1..(k - 1)], sizes[k]>>]
  <2>1. /\ 1..k \in SUBSET S /\ 1..k # {}
        /\ Max(1..k) = k /\ (1..k) \ {Max(1..k)} = 1..(k - 1)
    BY <1>1, MaxOfFirst
  <2> DEFINE t == 1..k
  <2>2. iter[t] = iter[t \ {Max(t)}] + sizes[Max(t)]
    <3>1. t \in SUBSET S /\ t # {}
      BY <2>1
    <3> HIDE DEF t, S
    <3> QED
      BY <1>6, <3>1
  <2>3. iter[1..k] = iter[1..(k - 1)] + sizes[k]
    BY <2>1, <2>2
  <2>4. sizes[k] \in Nat
    BY <1>1
  <2> QED
    BY <1>8, <2>3, <2>4 DEF Plus
<1>9. IsFold(Nat, Plus, 0, sizes, iter)
  BY <1>3, <1>7, <1>8, Zenon DEF IsFold
<1> QED
  BY <1>2, <1>9, FoldAccumulates

(* The bytes of the first k arguments, for each k.                          *)
BytesBefore(sizes, c) ==
  /\ c \in [0..Len(sizes) -> Nat]
  /\ c[0] = 0 /\ \A k \in 1..Len(sizes) : c[k] = c[k - 1] + sizes[k] \div 8
  /\ TotalBytes(sizes) = c[Len(sizes)]

(* There are such numbers, as each size is a whole number of bytes.         *)
LEMMA BytesAddUp ==
  ASSUME NEW sizes \in Seq({8, 16, 32})
  PROVE  \E c : BytesBefore(sizes, c)
<1>1. /\ sizes \in Seq(Nat) /\ Len(sizes) \in Nat
      /\ \A k \in 1..Len(sizes) : sizes[k] \in {8, 16, 32}
  BY LenProperties
<1>2. PICK acc \in [0..Len(sizes) -> Nat] :
        Accumulates(sizes, 0, Plus, acc) /\ TotalBytes(sizes) = acc[Len(sizes)] \div 8
  BY <1>1, TotalAccumulates
<1>3. acc[0] = 0 /\ \A k \in 1..Len(sizes) : acc[k] = acc[k - 1] + sizes[k]
  <2> SUFFICES ASSUME NEW k \in 1..Len(sizes) PROVE acc[k] = acc[k - 1] + sizes[k]
    BY <1>2 DEF Accumulates
  <2>1. k - 1 \in 0..Len(sizes) /\ sizes[k] \in Nat
    <3>1. PICK n \in Nat : n = Len(sizes)
      BY <1>1
    <3>2. sizes[k] \in {8, 16, 32}
      BY <1>1
    <3> QED
      BY <3>1, <3>2
  <2>2. acc[k - 1] \in Nat
    BY <1>2, <2>1
  <2> QED
    BY <1>2, <2>1, <2>2 DEF Accumulates, Plus
<1> DEFINE c == [k \in 0..Len(sizes) |-> acc[k] \div 8]
<1>4. ASSUME NEW k \in 0..Len(sizes) PROVE acc[k] \in Nat /\ acc[k] \div 8 \in Nat
  <2>1. PICK v \in Nat : v = acc[k]
    BY <1>2
  <2>2. v \div 8 \in Nat
    OBVIOUS
  <2> QED
    BY <2>1, <2>2
<1>5. c \in [0..Len(sizes) -> Nat]
  BY <1>4
<1>6. c[0] = 0
  <2>1. acc[0] = 0 /\ 0 \in 0..Len(sizes)
    BY <1>1, <1>3
  <2> QED
    BY <2>1
<1>7. ASSUME NEW k \in 1..Len(sizes) PROVE c[k] = c[k - 1] + sizes[k] \div 8
  <2>1. k \in 0..Len(sizes) /\ k # 0 /\ k - 1 \in 0..Len(sizes)
    BY <1>1
  <2>2. acc[k] = acc[k - 1] + sizes[k]
    BY <1>3, <2>1
  <2>3. PICK v \in Nat : v = acc[k - 1]
    BY <1>4, <2>1
  <2>4. (v + sizes[k]) \div 8 = (v \div 8) + (sizes[k] \div 8)
    <3>1. sizes[k] \in {8, 16, 32}
      BY <1>1
    <3>2. (v + 8) \div 8 = (v \div 8) + (8 \div 8)
      OBVIOUS
    <3>3. (v + 16) \div 8 = (v \div 8) + (16 \div 8)
      OBVIOUS
    <3>4. (v + 32) \div 8 = (v \div 8) + (32 \div 8)
      OBVIOUS
    <3> QED
      BY <3>1, <3>2, <3>3, <3>4
  <2>5. c[k] = acc[k] \div 8 /\ c[k - 1] = acc[k - 1] \div 8
    BY <2>1
  <2> QED
    BY <2>2, <2>3, <2>4, <2>5
<1>8. TotalBytes(sizes) = c[Len(sizes)]
  BY <1>1, <1>2
<1> HIDE DEF c
<1>9. BytesBefore(sizes, c)
  BY <1>5, <1>6, <1>7, <1>8 DEF BytesBefore
<1> QED
  BY <1>9

(* The first w arguments are written: the next one begins on the field      *)
(* where the last one ends, and the last one is there as a whole.           *)
WrittenUpTo(w, c) ==
  LET n == Len(fields)
      bytes == format[w] \div 8
  IN  /\ Written = 1..w /\ z = c[w] - w /\ z >= 0
      /\ w = 0 => fields = <<>>
      /\ w # 0 =>
           /\ FieldsWritten = 0..z /\ n >= bytes
           /\ \A i \in 1..bytes :
                fields[n - bytes + i] = [field |-> z - bytes + i, arg |-> w, byte |-> bytes - i]

FieldsFollow(c) ==
  /\ BytesBefore(format, c)
  /\ pc = "scan" => fields = <<>> /\ z = 0
  /\ pc = "write" => \E w \in 0..Len(format) : WrittenUpTo(w, c)
  /\ pc = "dump" => fields = <<>> \/ WrittenUpTo(Len(format), c)

(* One more argument is written.                                            *)
LEMMA WriteOne ==
  ASSUME CallTypes, NEW c, BytesBefore(format, c), NEW w \in 0..Len(format), WrittenUpTo(w, c),
         WriteTraceArg
  PROVE  w + 1 \in 0..Len(format) /\ WrittenUpTo(w + 1, c)'
<1> DEFINE n == Len(fields)
           bytes == format[w + 1] \div 8
           entry(i) == [field |-> z + i - 1, arg |-> w + 1, byte |-> bytes - i]
           more == [i \in 1..bytes |-> entry(i)]
<1>1. Len(format) \in Nat /\ n \in Nat /\ w \in Nat /\ z \in Int /\ z >= 0 /\ Written = 1..w
  BY LenProperties DEF CallTypes, WrittenUpTo
<1>2. Cardinality(Written) = w
  <2>1. Cardinality(1..w) = w
    BY <1>1, FS_Interval
  <2> QED
    BY <1>1, <2>1
<1>3. w + 1 \in 1..Len(format) /\ bytes \in {1, 2, 4}
  <2>1. w + 1 \in 1..Len(format)
    BY <1>1, <1>2 DEF WriteTraceArg
  <2>2. format[w + 1] \in {8, 16, 32}
    BY <2>1 DEF CallTypes
  <2> QED
    BY <2>1, <2>2
<1>4. /\ fields' = fields \o [i \in 1..bytes |->
             [field |-> z + i - 1, arg |-> w + 1, byte |-> ByteAt(i - 1, bytes)]]
      /\ z' = z + bytes - 1 /\ format' = format
  BY <1>2 DEF WriteTraceArg, Returned
<1> HIDE DEF bytes
<1>5. fields' = fields \o more
  <2>1. ASSUME NEW i \in 1..bytes PROVE ByteAt(i - 1, bytes) = bytes - i
    BY <1>3 DEF ByteAt
  <2>2. more = [i \in 1..bytes |-> [field |-> z + i - 1, arg |-> w + 1, byte |-> ByteAt(i - 1, bytes)]]
    BY <2>1
  <2> QED
    BY <1>4, <2>2
<1>6. /\ Len(fields') = n + bytes
      /\ \A i \in 1..n : fields'[i] = fields[i]
      /\ \A i \in 1..bytes : fields'[n + i] = entry(i)
  <2>1. more \in Seq([field : Int, arg : Int, byte : Int]) /\ Len(more) = bytes
    <3>1. \A i \in 1..bytes : entry(i) \in [field : Int, arg : Int, byte : Int]
      BY <1>1, <1>3
    <3> HIDE DEF entry
    <3> QED
      BY <1>3, <3>1
  <2>2. fields \in Seq([field : Int, arg : Int, byte : Int])
    BY DEF CallTypes
  <2> HIDE DEF more
  <2>3. /\ Len(fields \o more) = n + bytes
        /\ \A i \in 1..(n + bytes) : (fields \o more)[i] = IF i <= n THEN fields[i] ELSE more[i - n]
    BY <2>1, <2>2, ConcatProperties
  <2>4. \A i \in 1..bytes : n + i \in 1..(n + bytes) /\ ~(n + i <= n) /\ (n + i) - n = i
    BY <1>1, <1>3
  <2>5. \A i \in 1..n : i \in 1..(n + bytes) /\ i <= n
    BY <1>1, <1>3
  <2>6. \A i \in 1..bytes : more[i] = entry(i)
    BY DEF more
  <2> HIDE DEF entry
  <2> QED
    BY <1>5, <2>3, <2>4, <2>5, <2>6
<1>7. \A j \in 1..(n + bytes) : j \in 1..n \/ \E i \in 1..bytes : j = n + i
  <2> SUFFICES ASSUME NEW j \in 1..(n + bytes), j \notin 1..n PROVE \E i \in 1..bytes : j = n + i
    OBVIOUS
  <2>1. j - n \in 1..bytes /\ j = n + (j - n)
    BY <1>1, <1>3
  <2> QED
    BY <2>1
<1>8. \A i \in 1..bytes : n + i \in 1..(n + bytes)
  BY <1>1, <1>3
<1>9. 1..n \subseteq 1..(n + bytes)
  BY <1>1, <1>3
<1>10. Written' = 1..(w + 1)
  <2>1. Written' = {fields'[j].arg : j \in 1..(n + bytes)}
    BY <1>6 DEF Written
  <2>2. Written' = Written \cup {entry(i).arg : i \in 1..bytes}
    <3> HIDE DEF entry
    <3>1. ASSUME NEW j \in 1..(n + bytes)
          PROVE  fields'[j].arg \in Written \cup {entry(i).arg : i \in 1..bytes}
      BY <1>6, <1>7 DEF Written
    <3>2. \A j \in 1..n : fields[j].arg \in Written'
      BY <1>6, <1>9, <2>1
    <3>3. \A i \in 1..bytes : entry(i).arg \in Written'
      BY <1>6, <1>8, <2>1
    <3>4. \A v \in Written : v \in Written'
      BY <3>2, Zenon DEF Written
    <3>5. \A v \in {entry(i).arg : i \in 1..bytes} : v \in Written'
      BY <3>3, Zenon
    <3>6. \A v \in Written' : v \in Written \cup {entry(i).arg : i \in 1..bytes}
      BY <2>1, <3>1, Zenon
    <3> QED
      BY <3>4, <3>5, <3>6, Zenon
  <2>3. {entry(i).arg : i \in 1..bytes} = {w + 1}
    <3>1. 1 \in 1..bytes
      BY <1>3
    <3> QED
      BY <3>1
  <2>4. 1..(w + 1) = (1..w) \cup {w + 1}
    BY <1>1
  <2> QED
    BY <1>1, <2>2, <2>3, <2>4
<1>11. FieldsWritten' = 0..z'
  <2>1. FieldsWritten' = {fields'[j].field : j \in 1..(n + bytes)}
    BY <1>6 DEF FieldsWritten
  <2>2. FieldsWritten' = FieldsWritten \cup {entry(i).field : i \in 1..bytes}
    <3> HIDE DEF entry
    <3>1. ASSUME NEW j \in 1..(n + bytes)
          PROVE  fields'[j].field \in FieldsWritten \cup {entry(i).field : i \in 1..bytes}
      BY <1>6, <1>7 DEF FieldsWritten
    <3>2. \A j \in 1..n : fields[j].field \in FieldsWritten'
      BY <1>6, <1>9, <2>1
    <3>3. \A i \in 1..bytes : entry(i).field \in FieldsWritten'
      BY <1>6, <1>8, <2>1
    <3>4. \A v \in FieldsWritten : v \in FieldsWritten'
      BY <3>2, Zenon DEF FieldsWritten
    <3>5. \A v \in {entry(i).field : i \in 1..bytes} : v \in FieldsWritten'
      BY <3>3, Zenon
    <3>6. \A v \in FieldsWritten' : v \in FieldsWritten \cup {entry(i).field : i \in 1..bytes}
      BY <2>1, <3>1, Zenon
    <3> QED
      BY <3>4, <3>5, <3>6, Zenon
  <2>3. {entry(i).field : i \in 1..bytes} = z..(z + bytes - 1)
    <3>1. \A f \in z..(z + bytes - 1) : f - z + 1 \in 1..bytes /\ z + (f - z + 1) - 1 = f
      BY <1>1, <1>3
    <3>2. \A i \in 1..bytes : z + i - 1 \in z..(z + bytes - 1)
      BY <1>1, <1>3
    <3> QED
      BY <3>1, <3>2
  <2> HIDE DEF entry
  <2>4. CASE w = 0
    <3>1. fields = <<>> /\ z = 0
      BY <2>4 DEF WrittenUpTo, BytesBefore
    <3>2. FieldsWritten = {}
      BY <3>1 DEF FieldsWritten
    <3> QED
      BY <1>4, <2>2, <2>3, <3>1, <3>2
  <2>5. CASE w # 0
    <3>1. FieldsWritten = 0..z
      BY <2>5 DEF WrittenUpTo
    <3>2. z >= 0
      BY <1>1
    <3>3. (0..z) \cup (z..(z + bytes - 1)) = 0..(z + bytes - 1)
      BY <1>1, <1>3, <3>2
    <3> QED
      BY <1>4, <2>2, <2>3, <3>1, <3>3
  <2> QED
    BY <2>4, <2>5
<1>12. z' = c[w + 1] - (w + 1)
  <2>1. c[w + 1] = c[(w + 1) - 1] + (format[w + 1] \div 8) /\ (w + 1) - 1 = w
    BY <1>1, <1>3 DEF BytesBefore
  <2>2. PICK v \in Nat : v = c[w]
    BY DEF BytesBefore
  <2>3. z = v - w /\ c[w + 1] = v + bytes
    BY <2>1, <2>2 DEF WrittenUpTo, bytes
  <2> QED
    BY <1>1, <1>3, <1>4, <2>3
<1>13. \A i \in 1..bytes :
         fields'[(n + bytes) - bytes + i] = [field |-> z' - bytes + i, arg |-> w + 1, byte |-> bytes - i]
  <2> SUFFICES ASSUME NEW i \in 1..bytes
               PROVE  fields'[(n + bytes) - bytes + i]
                        = [field |-> z' - bytes + i, arg |-> w + 1, byte |-> bytes - i]
    OBVIOUS
  <2>1. (n + bytes) - bytes + i = n + i /\ z' - bytes + i = z + i - 1
    BY <1>1, <1>3, <1>4
  <2> QED
    BY <1>6, <2>1
<1>14. w + 1 # 0 /\ z' >= 0 /\ n + bytes >= bytes /\ format'[w + 1] \div 8 = bytes
  BY <1>1, <1>3, <1>4 DEF bytes
<1>15. WrittenUpTo(w + 1, c)'
  BY <1>6, <1>10, <1>11, <1>12, <1>13, <1>14 DEF WrittenUpTo
<1> QED
  BY <1>1, <1>3, <1>15

(* No step disturbs what is written.                                        *)
LEMMA FieldsStep ==
  CallTypes /\ CallTypes' /\ (\E c : FieldsFollow(c)) /\ [TraceNext]_traceVars
    => \E c : FieldsFollow(c)'
<1> SUFFICES ASSUME CallTypes, CallTypes', NEW d, FieldsFollow(d), [TraceNext]_traceVars
             PROVE  \E c : FieldsFollow(c)'
  OBVIOUS
<1>1. ASSUME NEW sizes \in Formats, RewriteTrace(sizes) PROVE \E c : FieldsFollow(c)'
  <2>1. PICK c : BytesBefore(format', c)
    BY BytesAddUp DEF CallTypes
  <2>2. fields' = <<>> /\ z' = 0 /\ pc' = "scan"
    BY <1>1 DEF RewriteTrace
  <2> QED
    BY <2>1, <2>2 DEF FieldsFollow
<1>2. ASSUME UNCHANGED <<format, z, fields>>
      PROVE  /\ BytesBefore(format', d)
             /\ \A w : WrittenUpTo(w, d)' <=> WrittenUpTo(w, d)
  BY <1>2 DEF FieldsFollow, WrittenUpTo, Written, FieldsWritten
<1>3. CASE Comma \/ LPar \/ Other
  <2>1. UNCHANGED <<format, z, fields>> /\ pc = "scan" /\ pc' = "scan"
    BY <1>3 DEF Comma, LPar, Other
  <2> QED
    BY <1>2, <2>1 DEF FieldsFollow
<1>4. CASE RPar
  <2>1. UNCHANGED <<format, z, fields>> /\ pc = "scan" /\ pc' \in {"scan", "write", "failed"}
    BY <1>4 DEF RPar
  <2>2. fields = <<>> /\ z = 0
    BY <2>1 DEF FieldsFollow
  <2>3. WrittenUpTo(0, d) /\ 0 \in 0..Len(format)
    <3>1. Len(<<>>) = 0 /\ 1..0 = {} /\ Len(format) \in Nat
      BY LenProperties DEF CallTypes
    <3>2. Written = {}
      BY <2>2, <3>1 DEF Written
    <3>3. d[0] = 0
      BY DEF FieldsFollow, BytesBefore
    <3> QED
      BY <2>2, <3>1, <3>2, <3>3 DEF WrittenUpTo
  <2> QED
    BY <1>2, <2>1, <2>2, <2>3 DEF FieldsFollow
<1>5. CASE EndOfFile
  <2>1. UNCHANGED <<format, z, fields>> /\ pc' = "failed"
    BY <1>5 DEF EndOfFile
  <2> QED
    BY <1>2, <2>1 DEF FieldsFollow
<1>6. CASE WriteTraceArg
  <2>1. pc = "write" /\ pc' = "write" /\ format' = format
    BY <1>6 DEF WriteTraceArg
  <2>2. PICK w \in 0..Len(format) : WrittenUpTo(w, d)
    BY <2>1 DEF FieldsFollow
  <2>3. w + 1 \in 0..Len(format) /\ WrittenUpTo(w + 1, d)'
    BY <1>6, <2>2, WriteOne DEF FieldsFollow
  <2> QED
    BY <2>1, <2>3 DEF FieldsFollow
<1>7. CASE CallEnds
  <2>1. /\ UNCHANGED <<format, z, fields>> /\ pc = "write" /\ pc' = "dump"
        /\ Cardinality(Written) = Len(format)
    BY <1>7 DEF CallEnds
  <2>2. PICK w \in 0..Len(format) : WrittenUpTo(w, d)
    BY <2>1 DEF FieldsFollow
  <2>3. w = Len(format)
    <3>1. w \in Nat
      BY LenProperties DEF CallTypes
    <3>2. Cardinality(1..w) = w
      BY <3>1, FS_Interval
    <3> QED
      BY <2>1, <2>2, <3>2 DEF WrittenUpTo
  <2> QED
    BY <1>2, <2>1, <2>2, <2>3 DEF FieldsFollow
<1>8. CASE UNCHANGED traceVars
  <2>1. UNCHANGED <<format, z, fields>> /\ pc' = pc
    BY <1>8 DEF traceVars
  <2> QED
    BY <1>2, <2>1 DEF FieldsFollow
<1> QED
  BY <1>1, <1>3, <1>4, <1>5, <1>6, <1>7, <1>8 DEF TraceNext

(* What is written has the property: of the entries for a field of the last *)
(* argument, the one of this argument stands last.                          *)
LEMMA FieldsSuffice == CallTypes /\ (\E c : FieldsFollow(c)) => LastArgumentArrives
<1> SUFFICES ASSUME CallTypes, NEW c, FieldsFollow(c), pc = "dump", fields # <<>>
             PROVE  LastArgumentArrives
  BY DEF LastArgumentArrives
<1> DEFINE last == Len(format)
           n == Len(fields)
           bytes == format[last] \div 8
           first == NrOfBytes - bytes - (last - 1)
<1>1. WrittenUpTo(last, c) /\ last # 0 /\ last \in Nat /\ n \in Nat
  BY LenProperties DEF FieldsFollow, CallTypes, WrittenUpTo
<1>2. bytes \in {1, 2, 4}
  <2>1. format[last] \in {8, 16, 32}
    <3>1. last \in 1..last
      BY <1>1
    <3> QED
      BY <3>1 DEF CallTypes
  <2> QED
    BY <2>1
<1>3. /\ FieldsWritten = 0..z /\ z \in Int /\ n >= bytes
      /\ \A i \in 1..bytes :
           fields[n - bytes + i] = [field |-> z - bytes + i, arg |-> last, byte |-> bytes - i]
  BY <1>1 DEF WrittenUpTo, CallTypes
<1>4. NrOfBytes \in Nat /\ z = NrOfBytes - last
  <2>1. NrOfBytes = TotalBytes(format)
    BY DEF NrOfBytes, TotalBytes
  <2>2. TotalBytes(format) = c[last] /\ c \in [0..last -> Nat] /\ last \in 0..last
    BY <1>1 DEF FieldsFollow, BytesBefore
  <2> QED
    BY <1>1, <2>1, <2>2 DEF WrittenUpTo
<1> HIDE DEF n, bytes
<1>5. ASSUME NEW i \in 0..(bytes - 1)
      PROVE  ValueOf(first + i).arg = last /\ ValueOf(first + i).byte = bytes - 1 - i
  <2> DEFINE f == first + i
             at == n - bytes + (i + 1)
             IsLast(j) == fields[j].field = f /\ \A k \in (j+1)..n : fields[k].field # f
  <2>1. /\ at \in 1..n /\ i + 1 \in 1..bytes /\ f = z - bytes + (i + 1)
        /\ \A k \in (at+1)..n : k - (n - bytes) \in 1..bytes /\ k - (n - bytes) > i + 1
                             /\ k = n - bytes + (k - (n - bytes))
    BY <1>1, <1>2, <1>3, <1>4
  <2>2. fields[at] = [field |-> f, arg |-> last, byte |-> bytes - (i + 1)]
    BY <1>3, <2>1
  <2>3. ASSUME NEW k \in (at+1)..n PROVE fields[k].field # f
    <3> DEFINE p == k - (n - bytes)
    <3>1. p \in 1..bytes /\ p > i + 1 /\ k = n - bytes + p
      BY <2>1
    <3> HIDE DEF p
    <3>2. fields[k].field = z - bytes + p
      <4>1. fields[n - bytes + p] = [field |-> z - bytes + p, arg |-> last, byte |-> bytes - p]
        BY <1>3, <3>1
      <4>2. fields[k] = fields[n - bytes + p]
        BY <3>1
      <4> QED
        BY <4>1, <4>2
    <3>3. z - bytes + p # z - bytes + (i + 1)
      BY <1>2, <1>3, <3>1
    <3> QED
      BY <2>1, <3>2, <3>3
  <2> HIDE DEF f, at
  <2>4. IsLast(at)
    BY <2>2, <2>3
  <2>5. ASSUME NEW j \in 1..n, IsLast(j) PROVE j = at
    <3>1. ~(j < at)
      <4>1. j < at => at \in (j+1)..n
        BY <1>1, <2>1
      <4> QED
        BY <2>2, <2>5, <4>1
    <3>2. ~(at < j)
      <4>1. at < j => j \in (at+1)..n
        BY <1>1, <2>1
      <4> QED
        BY <2>3, <2>5, <4>1
    <3> QED
      BY <1>1, <2>1, <3>1, <3>2
  <2>6. ValueOf(f) = fields[CHOOSE j \in 1..n : IsLast(j)]
    BY DEF ValueOf, n
  <2>7. (CHOOSE j \in 1..n : IsLast(j)) = at
    <3> HIDE DEF IsLast
    <3> QED
      BY <2>1, <2>4, <2>5
  <2>8. ValueOf(f).arg = last /\ ValueOf(f).byte = bytes - (i + 1)
    <3>1. ValueOf(f) = fields[at]
      <4> HIDE DEF IsLast
      <4> QED
        BY <2>6, <2>7
    <3> QED
      BY <2>2, <3>1
  <2>9. bytes - (i + 1) = bytes - 1 - i
    BY <1>2
  <2> QED
    BY <2>8, <2>9 DEF f
<1> QED
  BY <1>3, <1>4, <1>5 DEF LastArgumentArrives, bytes

(* What TraceSpec keeps.                                                    *)
LEMMA AlwaysSplitAndWritten ==
  TraceSpec => [](CallTypes /\ ScanIsSplit /\ CallIsSplit /\ \E c : FieldsFollow(c))
<1> DEFINE Inv == CallTypes /\ ScanIsSplit /\ CallIsSplit /\ \E c : FieldsFollow(c)
<1>1. TraceInit => Inv
  <2> SUFFICES ASSUME TraceInit PROVE Inv
    OBVIOUS
  <2>1. CallTypes
    BY DEF TraceInit, CallTypes
  <2>2. ScanIsSplit /\ CallIsSplit
    BY DEF TraceInit, ScanIsSplit, CallIsSplit
  <2>3. PICK c : BytesBefore(format, c)
    BY <2>1, BytesAddUp DEF CallTypes
  <2>4. FieldsFollow(c)
    BY <2>3 DEF FieldsFollow, TraceInit
  <2> QED
    BY <2>1, <2>2, <2>4
<1>2. Inv /\ [TraceNext]_traceVars => Inv'
  <2> SUFFICES ASSUME Inv, [TraceNext]_traceVars PROVE Inv'
    OBVIOUS
  <2>1. CallTypes'
    BY CallTypesStep
  <2>2. ScanIsSplit' /\ CallIsSplit'
    BY SplitStep
  <2>3. \E c : FieldsFollow(c)'
    BY <2>1, FieldsStep
  <2> QED
    BY <2>1, <2>2, <2>3
<1> HIDE DEF Inv
<1>3. TraceSpec => []Inv
  BY <1>1, <1>2, PTL DEF TraceSpec
<1> QED
  BY <1>3 DEF Inv

(* Whatever a call of TRACE looks like, RewriteTrace finds its end and      *)
(* splits it at the commas of its outermost level: every other token is in  *)
(* exactly one argument, in the order in which it was read.                 *)
THEOREM CallsAreSplit == TraceSpec => []ArgumentsAreSplit
<1>1. CallTypes /\ ScanIsSplit /\ CallIsSplit /\ (\E c : FieldsFollow(c)) => ArgumentsAreSplit
  BY SplitSuffices
<1> QED
  BY <1>1, AlwaysSplitAndWritten, PTL

(* Of each call the last argument arrives whole, its highest byte first,    *)
(* and no field is written that the record of its bytes does not have.      *)
THEOREM LastArgumentIsWhole == TraceSpec => []LastArgumentArrives
<1>1. CallTypes /\ ScanIsSplit /\ CallIsSplit /\ (\E c : FieldsFollow(c)) => LastArgumentArrives
  BY FieldsSuffice
<1> QED
  BY <1>1, AlwaysSplitAndWritten, PTL

-----------------------------------------------------------------------------

Octets == 0..255

(* The exclusive or of two bytes is a byte, in whatever order.              *)
LEMMA XorType == \A a, b \in Octets : Xor(a, b) \in Octets /\ Xor(a, b) = Xor(b, a)
BY DEF Xor, Octets

(* One step of the division doubles a byte whose highest bit is clear.      *)
LEMMA SmallShift == \A r \in 0..127 : Shift(r) = 2 * r
BY DEF Shift

(* Otherwise it subtracts the polynomial as well, with an exclusive or.     *)
LEMMA LargeShift == \A r \in 128..255 : Shift(r) = Xor(2 * r - 256, 141)
BY DEF Shift, Polynomial

(* Its result is a byte again.                                              *)
LEMMA ShiftType == \A r \in Octets : Shift(r) \in Octets
<1> SUFFICES ASSUME NEW r \in Octets PROVE Shift(r) \in Octets
  OBVIOUS
<1>1. CASE r < 128
  BY <1>1 DEF Shift, Octets
<1>2. CASE ~(r < 128)
  <2>1. 2 * r - 256 \in Octets /\ 141 \in Octets /\ Shift(r) = Xor(2 * r - 256, 141)
    BY <1>2 DEF Shift, Polynomial, Octets
  <2> QED
    BY <2>1, XorType
<1> QED
  BY <1>1, <1>2

(* The division step for each byte whose highest bit is set.                *)
LEMMA LargeShifts ==
  /\ Shift(128) = 141 /\ Shift(129) = 143 /\ Shift(130) = 137 /\ Shift(131) = 139
  /\ Shift(132) = 133 /\ Shift(133) = 135 /\ Shift(134) = 129 /\ Shift(135) = 131
  /\ Shift(136) = 157 /\ Shift(137) = 159 /\ Shift(138) = 153 /\ Shift(139) = 155
  /\ Shift(140) = 149 /\ Shift(141) = 151 /\ Shift(142) = 145 /\ Shift(143) = 147
  /\ Shift(144) = 173 /\ Shift(145) = 175 /\ Shift(146) = 169 /\ Shift(147) = 171
  /\ Shift(148) = 165 /\ Shift(149) = 167 /\ Shift(150) = 161 /\ Shift(151) = 163
  /\ Shift(152) = 189 /\ Shift(153) = 191 /\ Shift(154) = 185 /\ Shift(155) = 187
  /\ Shift(156) = 181 /\ Shift(157) = 183 /\ Shift(158) = 177 /\ Shift(159) = 179
  /\ Shift(160) = 205 /\ Shift(161) = 207 /\ Shift(162) = 201 /\ Shift(163) = 203
  /\ Shift(164) = 197 /\ Shift(165) = 199 /\ Shift(166) = 193 /\ Shift(167) = 195
  /\ Shift(168) = 221 /\ Shift(169) = 223 /\ Shift(170) = 217 /\ Shift(171) = 219
  /\ Shift(172) = 213 /\ Shift(173) = 215 /\ Shift(174) = 209 /\ Shift(175) = 211
  /\ Shift(176) = 237 /\ Shift(177) = 239 /\ Shift(178) = 233 /\ Shift(179) = 235
  /\ Shift(180) = 229 /\ Shift(181) = 231 /\ Shift(182) = 225 /\ Shift(183) = 227
  /\ Shift(184) = 253 /\ Shift(185) = 255 /\ Shift(186) = 249 /\ Shift(187) = 251
  /\ Shift(188) = 245 /\ Shift(189) = 247 /\ Shift(190) = 241 /\ Shift(191) = 243
  /\ Shift(192) = 13 /\ Shift(193) = 15 /\ Shift(194) = 9 /\ Shift(195) = 11
  /\ Shift(196) = 5 /\ Shift(197) = 7 /\ Shift(198) = 1 /\ Shift(199) = 3 /\ Shift(200) = 29
  /\ Shift(201) = 31 /\ Shift(202) = 25 /\ Shift(203) = 27 /\ Shift(204) = 21
  /\ Shift(205) = 23 /\ Shift(206) = 17 /\ Shift(207) = 19 /\ Shift(208) = 45
  /\ Shift(209) = 47 /\ Shift(210) = 41 /\ Shift(211) = 43 /\ Shift(212) = 37
  /\ Shift(213) = 39 /\ Shift(214) = 33 /\ Shift(215) = 35 /\ Shift(216) = 61
  /\ Shift(217) = 63 /\ Shift(218) = 57 /\ Shift(219) = 59 /\ Shift(220) = 53
  /\ Shift(221) = 55 /\ Shift(222) = 49 /\ Shift(223) = 51 /\ Shift(224) = 77
  /\ Shift(225) = 79 /\ Shift(226) = 73 /\ Shift(227) = 75 /\ Shift(228) = 69
  /\ Shift(229) = 71 /\ Shift(230) = 65 /\ Shift(231) = 67 /\ Shift(232) = 93
  /\ Shift(233) = 95 /\ Shift(234) = 89 /\ Shift(235) = 91 /\ Shift(236) = 85
  /\ Shift(237) = 87 /\ Shift(238) = 81 /\ Shift(239) = 83 /\ Shift(240) = 109
  /\ Shift(241) = 111 /\ Shift(242) = 105 /\ Shift(243) = 107 /\ Shift(244) = 101
  /\ Shift(245) = 103 /\ Shift(246) = 97 /\ Shift(247) = 99 /\ Shift(248) = 125
  /\ Shift(249) = 127 /\ Shift(250) = 121 /\ Shift(251) = 123 /\ Shift(252) = 117
  /\ Shift(253) = 119 /\ Shift(254) = 113 /\ Shift(255) = 115
<1>1. /\ Shift(128) = 141 /\ Shift(129) = 143 /\ Shift(130) = 137 /\ Shift(131) = 139
      /\ Shift(132) = 133 /\ Shift(133) = 135 /\ Shift(134) = 129 /\ Shift(135) = 131
      /\ Shift(136) = 157 /\ Shift(137) = 159 /\ Shift(138) = 153 /\ Shift(139) = 155
      /\ Shift(140) = 149 /\ Shift(141) = 151 /\ Shift(142) = 145 /\ Shift(143) = 147
      /\ Shift(144) = 173 /\ Shift(145) = 175 /\ Shift(146) = 169 /\ Shift(147) = 171
      /\ Shift(148) = 165 /\ Shift(149) = 167 /\ Shift(150) = 161 /\ Shift(151) = 163
      /\ Shift(152) = 189 /\ Shift(153) = 191 /\ Shift(154) = 185 /\ Shift(155) = 187
      /\ Shift(156) = 181 /\ Shift(157) = 183 /\ Shift(158) = 177 /\ Shift(159) = 179
  <2>1. /\ Xor(0, 141) = 141 /\ Xor(2, 141) = 143 /\ Xor(4, 141) = 137 /\ Xor(6, 141) = 139
        /\ Xor(8, 141) = 133 /\ Xor(10, 141) = 135 /\ Xor(12, 141) = 129
        /\ Xor(14, 141) = 131 /\ Xor(16, 141) = 157 /\ Xor(18, 141) = 159
        /\ Xor(20, 141) = 153 /\ Xor(22, 141) = 155 /\ Xor(24, 141) = 149
        /\ Xor(26, 141) = 151 /\ Xor(28, 141) = 145 /\ Xor(30, 141) = 147
        /\ Xor(32, 141) = 173 /\ Xor(34, 141) = 175 /\ Xor(36, 141) = 169
        /\ Xor(38, 141) = 171 /\ Xor(40, 141) = 165 /\ Xor(42, 141) = 167
        /\ Xor(44, 141) = 161 /\ Xor(46, 141) = 163 /\ Xor(48, 141) = 189
        /\ Xor(50, 141) = 191 /\ Xor(52, 141) = 185 /\ Xor(54, 141) = 187
        /\ Xor(56, 141) = 181 /\ Xor(58, 141) = 183 /\ Xor(60, 141) = 177
        /\ Xor(62, 141) = 179
    BY DEF Xor
  <2> QED
    BY <2>1, LargeShift
<1>2. /\ Shift(160) = 205 /\ Shift(161) = 207 /\ Shift(162) = 201 /\ Shift(163) = 203
      /\ Shift(164) = 197 /\ Shift(165) = 199 /\ Shift(166) = 193 /\ Shift(167) = 195
      /\ Shift(168) = 221 /\ Shift(169) = 223 /\ Shift(170) = 217 /\ Shift(171) = 219
      /\ Shift(172) = 213 /\ Shift(173) = 215 /\ Shift(174) = 209 /\ Shift(175) = 211
      /\ Shift(176) = 237 /\ Shift(177) = 239 /\ Shift(178) = 233 /\ Shift(179) = 235
      /\ Shift(180) = 229 /\ Shift(181) = 231 /\ Shift(182) = 225 /\ Shift(183) = 227
      /\ Shift(184) = 253 /\ Shift(185) = 255 /\ Shift(186) = 249 /\ Shift(187) = 251
      /\ Shift(188) = 245 /\ Shift(189) = 247 /\ Shift(190) = 241 /\ Shift(191) = 243
  <2>1. /\ Xor(64, 141) = 205 /\ Xor(66, 141) = 207 /\ Xor(68, 141) = 201
        /\ Xor(70, 141) = 203 /\ Xor(72, 141) = 197 /\ Xor(74, 141) = 199
        /\ Xor(76, 141) = 193 /\ Xor(78, 141) = 195 /\ Xor(80, 141) = 221
        /\ Xor(82, 141) = 223 /\ Xor(84, 141) = 217 /\ Xor(86, 141) = 219
        /\ Xor(88, 141) = 213 /\ Xor(90, 141) = 215 /\ Xor(92, 141) = 209
        /\ Xor(94, 141) = 211 /\ Xor(96, 141) = 237 /\ Xor(98, 141) = 239
        /\ Xor(100, 141) = 233 /\ Xor(102, 141) = 235 /\ Xor(104, 141) = 229
        /\ Xor(106, 141) = 231 /\ Xor(108, 141) = 225 /\ Xor(110, 141) = 227
        /\ Xor(112, 141) = 253 /\ Xor(114, 141) = 255 /\ Xor(116, 141) = 249
        /\ Xor(118, 141) = 251 /\ Xor(120, 141) = 245 /\ Xor(122, 141) = 247
        /\ Xor(124, 141) = 241 /\ Xor(126, 141) = 243
    BY DEF Xor
  <2> QED
    BY <2>1, LargeShift
<1>3. /\ Shift(192) = 13 /\ Shift(193) = 15 /\ Shift(194) = 9 /\ Shift(195) = 11
      /\ Shift(196) = 5 /\ Shift(197) = 7 /\ Shift(198) = 1 /\ Shift(199) = 3
      /\ Shift(200) = 29 /\ Shift(201) = 31 /\ Shift(202) = 25 /\ Shift(203) = 27
      /\ Shift(204) = 21 /\ Shift(205) = 23 /\ Shift(206) = 17 /\ Shift(207) = 19
      /\ Shift(208) = 45 /\ Shift(209) = 47 /\ Shift(210) = 41 /\ Shift(211) = 43
      /\ Shift(212) = 37 /\ Shift(213) = 39 /\ Shift(214) = 33 /\ Shift(215) = 35
      /\ Shift(216) = 61 /\ Shift(217) = 63 /\ Shift(218) = 57 /\ Shift(219) = 59
      /\ Shift(220) = 53 /\ Shift(221) = 55 /\ Shift(222) = 49 /\ Shift(223) = 51
  <2>1. /\ Xor(128, 141) = 13 /\ Xor(130, 141) = 15 /\ Xor(132, 141) = 9
        /\ Xor(134, 141) = 11 /\ Xor(136, 141) = 5 /\ Xor(138, 141) = 7 /\ Xor(140, 141) = 1
        /\ Xor(142, 141) = 3 /\ Xor(144, 141) = 29 /\ Xor(146, 141) = 31
        /\ Xor(148, 141) = 25 /\ Xor(150, 141) = 27 /\ Xor(152, 141) = 21
        /\ Xor(154, 141) = 23 /\ Xor(156, 141) = 17 /\ Xor(158, 141) = 19
        /\ Xor(160, 141) = 45 /\ Xor(162, 141) = 47 /\ Xor(164, 141) = 41
        /\ Xor(166, 141) = 43 /\ Xor(168, 141) = 37 /\ Xor(170, 141) = 39
        /\ Xor(172, 141) = 33 /\ Xor(174, 141) = 35 /\ Xor(176, 141) = 61
        /\ Xor(178, 141) = 63 /\ Xor(180, 141) = 57 /\ Xor(182, 141) = 59
        /\ Xor(184, 141) = 53 /\ Xor(186, 141) = 55 /\ Xor(188, 141) = 49
        /\ Xor(190, 141) = 51
    BY DEF Xor
  <2> QED
    BY <2>1, LargeShift
<1>4. /\ Shift(224) = 77 /\ Shift(225) = 79 /\ Shift(226) = 73 /\ Shift(227) = 75
      /\ Shift(228) = 69 /\ Shift(229) = 71 /\ Shift(230) = 65 /\ Shift(231) = 67
      /\ Shift(232) = 93 /\ Shift(233) = 95 /\ Shift(234) = 89 /\ Shift(235) = 91
      /\ Shift(236) = 85 /\ Shift(237) = 87 /\ Shift(238) = 81 /\ Shift(239) = 83
      /\ Shift(240) = 109 /\ Shift(241) = 111 /\ Shift(242) = 105 /\ Shift(243) = 107
      /\ Shift(244) = 101 /\ Shift(245) = 103 /\ Shift(246) = 97 /\ Shift(247) = 99
      /\ Shift(248) = 125 /\ Shift(249) = 127 /\ Shift(250) = 121 /\ Shift(251) = 123
      /\ Shift(252) = 117 /\ Shift(253) = 119 /\ Shift(254) = 113 /\ Shift(255) = 115
  <2>1. /\ Xor(192, 141) = 77 /\ Xor(194, 141) = 79 /\ Xor(196, 141) = 73
        /\ Xor(198, 141) = 75 /\ Xor(200, 141) = 69 /\ Xor(202, 141) = 71
        /\ Xor(204, 141) = 65 /\ Xor(206, 141) = 67 /\ Xor(208, 141) = 93
        /\ Xor(210, 141) = 95 /\ Xor(212, 141) = 89 /\ Xor(214, 141) = 91
        /\ Xor(216, 141) = 85 /\ Xor(218, 141) = 87 /\ Xor(220, 141) = 81
        /\ Xor(222, 141) = 83 /\ Xor(224, 141) = 109 /\ Xor(226, 141) = 111
        /\ Xor(228, 141) = 105 /\ Xor(230, 141) = 107 /\ Xor(232, 141) = 101
        /\ Xor(234, 141) = 103 /\ Xor(236, 141) = 97 /\ Xor(238, 141) = 99
        /\ Xor(240, 141) = 125 /\ Xor(242, 141) = 127 /\ Xor(244, 141) = 121
        /\ Xor(246, 141) = 123 /\ Xor(248, 141) = 117 /\ Xor(250, 141) = 119
        /\ Xor(252, 141) = 113 /\ Xor(254, 141) = 115
    BY DEF Xor
  <2> QED
    BY <2>1, LargeShift
<1> QED
  BY <1>1, <1>2, <1>3, <1>4

(* Each of the 256 constants is the remainder of its index.                 *)
LEMMA TableIsDivision ==
  \A x \in Octets : crc_table[x + 1] = DivideByte(x) /\ DivideByte(x) \in Octets
<1>1. ASSUME NEW x \in 0..15 PROVE crc_table[x + 1] = DivideByte(x)
  <2>1. x \in {0, 1, 2, 3, 4, 5, 6, 7, 8, 9, 10, 11, 12, 13, 14, 15}
    OBVIOUS
  <2> QED
    BY <2>1, SmallShift, LargeShifts DEF crc_table, DivideByte
<1>2. ASSUME NEW x \in 16..31 PROVE crc_table[x + 1] = DivideByte(x)
  <2>1. x \in {16, 17, 18, 19, 20, 21, 22, 23, 24, 25, 26, 27, 28, 29, 30, 31}
    OBVIOUS
  <2> QED
    BY <2>1, SmallShift, LargeShifts DEF crc_table, DivideByte
<1>3. ASSUME NEW x \in 32..47 PROVE crc_table[x + 1] = DivideByte(x)
  <2>1. x \in {32, 33, 34, 35, 36, 37, 38, 39, 40, 41, 42, 43, 44, 45, 46, 47}
    OBVIOUS
  <2> QED
    BY <2>1, SmallShift, LargeShifts DEF crc_table, DivideByte
<1>4. ASSUME NEW x \in 48..63 PROVE crc_table[x + 1] = DivideByte(x)
  <2>1. x \in {48, 49, 50, 51, 52, 53, 54, 55, 56, 57, 58, 59, 60, 61, 62, 63}
    OBVIOUS
  <2> QED
    BY <2>1, SmallShift, LargeShifts DEF crc_table, DivideByte
<1>5. ASSUME NEW x \in 64..79 PROVE crc_table[x + 1] = DivideByte(x)
  <2>1. x \in {64, 65, 66, 67, 68, 69, 70, 71, 72, 73, 74, 75, 76, 77, 78, 79}
    OBVIOUS
  <2> QED
    BY <2>1, SmallShift, LargeShifts DEF crc_table, DivideByte
<1>6. ASSUME NEW x \in 80..95 PROVE crc_table[x + 1] = DivideByte(x)
  <2>1. x \in {80, 81, 82, 83, 84, 85, 86, 87, 88, 89, 90, 91, 92, 93, 94, 95}
    OBVIOUS
  <2> QED
    BY <2>1, SmallShift, LargeShifts DEF crc_table, DivideByte
<1>7. ASSUME NEW x \in 96..111 PROVE crc_table[x + 1] = DivideByte(x)
  <2>1. x \in {96, 97, 98, 99, 100, 101, 102, 103, 104, 105, 106, 107, 108, 109, 110, 111}
    OBVIOUS
  <2> QED
    BY <2>1, SmallShift, LargeShifts DEF crc_table, DivideByte
<1>8. ASSUME NEW x \in 112..127 PROVE crc_table[x + 1] = DivideByte(x)
  <2>1. x \in {112, 113, 114, 115, 116, 117, 118, 119, 120, 121, 122, 123, 124, 125, 126, 127}
    OBVIOUS
  <2> QED
    BY <2>1, SmallShift, LargeShifts DEF crc_table, DivideByte
<1>9. ASSUME NEW x \in 128..143 PROVE crc_table[x + 1] = DivideByte(x)
  <2>1. x \in {128, 129, 130, 131, 132, 133, 134, 135, 136, 137, 138, 139, 140, 141, 142, 143}
    OBVIOUS
  <2> QED
    BY <2>1, SmallShift, LargeShifts DEF crc_table, DivideByte
<1>10. ASSUME NEW x \in 144..159 PROVE crc_table[x + 1] = DivideByte(x)
  <2>1. x \in {144, 145, 146, 147, 148, 149, 150, 151, 152, 153, 154, 155, 156, 157, 158, 159}
    OBVIOUS
  <2> QED
    BY <2>1, SmallShift, LargeShifts DEF crc_table, DivideByte
<1>11. ASSUME NEW x \in 160..175 PROVE crc_table[x + 1] = DivideByte(x)
  <2>1. x \in {160, 161, 162, 163, 164, 165, 166, 167, 168, 169, 170, 171, 172, 173, 174, 175}
    OBVIOUS
  <2> QED
    BY <2>1, SmallShift, LargeShifts DEF crc_table, DivideByte
<1>12. ASSUME NEW x \in 176..191 PROVE crc_table[x + 1] = DivideByte(x)
  <2>1. x \in {176, 177, 178, 179, 180, 181, 182, 183, 184, 185, 186, 187, 188, 189, 190, 191}
    OBVIOUS
  <2> QED
    BY <2>1, SmallShift, LargeShifts DEF crc_table, DivideByte
<1>13. ASSUME NEW x \in 192..207 PROVE crc_table[x + 1] = DivideByte(x)
  <2>1. x \in {192, 193, 194, 195, 196, 197, 198, 199, 200, 201, 202, 203, 204, 205, 206, 207}
    OBVIOUS
  <2> QED
    BY <2>1, SmallShift, LargeShifts DEF crc_table, DivideByte
<1>14. ASSUME NEW x \in 208..223 PROVE crc_table[x + 1] = DivideByte(x)
  <2>1. x \in {208, 209, 210, 211, 212, 213, 214, 215, 216, 217, 218, 219, 220, 221, 222, 223}
    OBVIOUS
  <2> QED
    BY <2>1, SmallShift, LargeShifts DEF crc_table, DivideByte
<1>15. ASSUME NEW x \in 224..239 PROVE crc_table[x + 1] = DivideByte(x)
  <2>1. x \in {224, 225, 226, 227, 228, 229, 230, 231, 232, 233, 234, 235, 236, 237, 238, 239}
    OBVIOUS
  <2> QED
    BY <2>1, SmallShift, LargeShifts DEF crc_table, DivideByte
<1>16. ASSUME NEW x \in 240..255 PROVE crc_table[x + 1] = DivideByte(x)
  <2>1. x \in {240, 241, 242, 243, 244, 245, 246, 247, 248, 249, 250, 251, 252, 253, 254, 255}
    OBVIOUS
  <2> QED
    BY <2>1, SmallShift, LargeShifts DEF crc_table, DivideByte
<1>17. ASSUME NEW x \in Octets PROVE crc_table[x + 1] = DivideByte(x)
  BY <1>1, <1>2, <1>3, <1>4, <1>5, <1>6, <1>7, <1>8, <1>9, <1>10, <1>11, <1>12, <1>13, <1>14,
     <1>15, <1>16 DEF Octets
<1>18. ASSUME NEW x \in Octets PROVE DivideByte(x) \in Octets
  BY ShiftType DEF DivideByte
<1> QED
  BY <1>17, <1>18

(* One step of each function, over all pairs of a sum and a byte.           *)
TableStep == [p \in Octets \X Octets |-> Lookup(p[2], p[1])]
DivisionStep == [p \in Octets \X Octets |-> DivideByte(Xor(p[1], p[2]))]

(* Both are the same step, and give a byte.                                 *)
LEMMA StepTypes ==
  /\ TableStep \in [Octets \X Octets -> Octets] /\ DivisionStep = TableStep
  /\ DivisionStep \in [Octets \X Octets -> Octets]
<1>1. ASSUME NEW a \in Octets, NEW b \in Octets
      PROVE  Lookup(b, a) = DivideByte(Xor(a, b)) /\ Lookup(b, a) \in Octets
  <2>1. Xor(a, b) \in Octets /\ Xor(b, a) = Xor(a, b)
    BY XorType
  <2>2. crc_table[Xor(a, b) + 1] = DivideByte(Xor(a, b)) /\ DivideByte(Xor(a, b)) \in Octets
    BY <2>1, TableIsDivision
  <2> QED
    BY <2>1, <2>2 DEF Lookup
<1>2. ASSUME NEW p \in Octets \X Octets
      PROVE  TableStep[p] = DivisionStep[p] /\ TableStep[p] \in Octets
  BY <1>1 DEF TableStep, DivisionStep
<1> QED
  BY <1>2 DEF TableStep, DivisionStep

(* ComputeCrc goes through the message from its front.                      *)
LEMMA ComputeCrcFolds ==
  ASSUME NEW data \in Seq(Octets), NEW initial \in Octets
  PROVE  \E g : /\ IsFold(Octets, TableStep, initial, data, g)
                /\ ComputeCrc(data, initial) = g[1..Len(data)]
<1> DEFINE S == 1..Len(data)
           iter[s \in SUBSET S] ==
             IF s = {} THEN initial ELSE Lookup(data[Max(s)], iter[s \ {Max(s)}])
<1>1. Len(data) \in Nat /\ \A i \in S : data[i] \in Octets
  <2>1. Len(data) \in Nat
    BY LenProperties
  <2>2. \A i \in 1..Len(data) : data[i] \in Octets
    OBVIOUS
  <2> QED
    BY <2>1, <2>2
<1>2. ComputeCrc(data, initial) = iter[S]
  <2>1. DOMAIN data = S
    BY LenProperties
  <2> QED
    BY <2>1 DEF ComputeCrc, FoldLeft, MapThenFoldSet
<1>3. TableStep \in [Octets \X Octets -> Octets]
  BY StepTypes
<1>4. PICK g \in [SUBSET S -> Octets] : FromTheLast(data, initial, TableStep, g)
  BY <1>3, FoldExists
<1>5. g = [s \in SUBSET S |->
             IF s = {} THEN initial ELSE Lookup(data[Max(s)], g[s \ {Max(s)}])]
  <2> SUFFICES ASSUME NEW s \in SUBSET S, s # {}
               PROVE  TableStep[<<g[s \ {Max(s)}], data[Max(s)]>>]
                        = Lookup(data[Max(s)], g[s \ {Max(s)}])
    BY <1>4 DEF FromTheLast
  <2>1. Max(s) \in S
    BY <1>1, BoundedMaximum
  <2>2. data[Max(s)] \in Octets /\ g[s \ {Max(s)}] \in Octets
    BY <1>1, <2>1
  <2> QED
    BY <2>2 DEF TableStep
<1>6. iter = [s \in SUBSET S |->
                IF s = {} THEN initial ELSE Lookup(data[Max(s)], iter[s \ {Max(s)}])]
  BY <1>5
<1> HIDE DEF iter
<1>7. iter[1..0] = initial
  <2>1. 1..0 = {} /\ 1..0 \in SUBSET S
    OBVIOUS
  <2> QED
    BY <1>6, <2>1
<1>8. ASSUME NEW k \in 1..Len(data), iter[1..(k - 1)] \in Octets
      PROVE  iter[1..k] = TableStep[<<iter[1..(k - 1)], data[k]>>]
  <2>1. /\ 1..k \in SUBSET S /\ 1..k # {}
        /\ Max(1..k) = k /\ (1..k) \ {Max(1..k)} = 1..(k - 1)
    BY <1>1, MaxOfFirst
  <2> DEFINE t == 1..k
  <2>2. iter[t] = Lookup(data[Max(t)], iter[t \ {Max(t)}])
    <3>1. t \in SUBSET S /\ t # {}
      BY <2>1
    <3> HIDE DEF t, S
    <3> QED
      BY <1>6, <3>1
  <2>3. iter[1..k] = Lookup(data[k], iter[1..(k - 1)])
    BY <2>1, <2>2
  <2>4. data[k] \in Octets
    BY <1>1
  <2> QED
    BY <1>8, <2>3, <2>4 DEF TableStep
<1>9. IsFold(Octets, TableStep, initial, data, iter)
  BY <1>3, <1>7, <1>8, Zenon DEF IsFold
<1> QED
  BY <1>2, <1>9

(* So does the division.                                                    *)
LEMMA RemainderFolds ==
  ASSUME NEW data \in Seq(Octets), NEW initial \in Octets
  PROVE  \E g : /\ IsFold(Octets, DivisionStep, initial, data, g)
                /\ Remainder(data, initial) = g[1..Len(data)]
<1> DEFINE S == 1..Len(data)
           iter[s \in SUBSET S] ==
             IF s = {} THEN initial ELSE DivideByte(Xor(iter[s \ {Max(s)}], data[Max(s)]))
<1>1. Len(data) \in Nat /\ \A i \in S : data[i] \in Octets
  <2>1. Len(data) \in Nat
    BY LenProperties
  <2>2. \A i \in 1..Len(data) : data[i] \in Octets
    OBVIOUS
  <2> QED
    BY <2>1, <2>2
<1>2. Remainder(data, initial) = iter[S]
  <2>1. DOMAIN data = S
    BY LenProperties
  <2> QED
    BY <2>1 DEF Remainder, FoldLeft, MapThenFoldSet
<1>3. DivisionStep \in [Octets \X Octets -> Octets]
  BY StepTypes
<1>4. PICK g \in [SUBSET S -> Octets] : FromTheLast(data, initial, DivisionStep, g)
  BY <1>3, FoldExists
<1>5. g = [s \in SUBSET S |->
             IF s = {} THEN initial ELSE DivideByte(Xor(g[s \ {Max(s)}], data[Max(s)]))]
  <2> SUFFICES ASSUME NEW s \in SUBSET S, s # {}
               PROVE  DivisionStep[<<g[s \ {Max(s)}], data[Max(s)]>>]
                        = DivideByte(Xor(g[s \ {Max(s)}], data[Max(s)]))
    BY <1>4 DEF FromTheLast
  <2>1. Max(s) \in S
    BY <1>1, BoundedMaximum
  <2>2. data[Max(s)] \in Octets /\ g[s \ {Max(s)}] \in Octets
    BY <1>1, <2>1
  <2> QED
    BY <2>2 DEF DivisionStep
<1>6. iter = [s \in SUBSET S |->
                IF s = {} THEN initial ELSE DivideByte(Xor(iter[s \ {Max(s)}], data[Max(s)]))]
  BY <1>5
<1> HIDE DEF iter
<1>7. iter[1..0] = initial
  <2>1. 1..0 = {} /\ 1..0 \in SUBSET S
    OBVIOUS
  <2> QED
    BY <1>6, <2>1
<1>8. ASSUME NEW k \in 1..Len(data), iter[1..(k - 1)] \in Octets
      PROVE  iter[1..k] = DivisionStep[<<iter[1..(k - 1)], data[k]>>]
  <2>1. /\ 1..k \in SUBSET S /\ 1..k # {}
        /\ Max(1..k) = k /\ (1..k) \ {Max(1..k)} = 1..(k - 1)
    BY <1>1, MaxOfFirst
  <2> DEFINE t == 1..k
  <2>2. iter[t] = DivideByte(Xor(iter[t \ {Max(t)}], data[Max(t)]))
    <3>1. t \in SUBSET S /\ t # {}
      BY <2>1
    <3> HIDE DEF t, S
    <3> QED
      BY <1>6, <3>1
  <2>3. iter[1..k] = DivideByte(Xor(iter[1..(k - 1)], data[k]))
    BY <2>1, <2>2
  <2>4. data[k] \in Octets
    BY <1>1
  <2> QED
    BY <1>8, <2>3, <2>4 DEF DivisionStep
<1>9. IsFold(Octets, DivisionStep, initial, data, iter)
  BY <1>3, <1>7, <1>8, Zenon DEF IsFold
<1> QED
  BY <1>2, <1>9

(* What one more byte makes of ComputeCrc is what ComputeNextCrc returns.   *)
LEMMA ComputeCrcGrows ==
  /\ \A initial \in Octets : ComputeCrc(<<>>, initial) = initial
  /\ \A data \in Seq(Octets), initial \in Octets, byte \in Octets :
       ComputeCrc(data, initial) \in Octets =>
       ComputeCrc(Append(data, byte), initial) = ComputeNextCrc(byte, ComputeCrc(data, initial))
<1>1. ASSUME NEW initial \in Octets PROVE ComputeCrc(<<>>, initial) = initial
  <2>1. <<>> \in Seq(Octets) /\ Len(<<>>) = 0
    OBVIOUS
  <2>2. PICK g : /\ IsFold(Octets, TableStep, initial, <<>>, g)
                 /\ ComputeCrc(<<>>, initial) = g[1..Len(<<>>)]
    BY <2>1, ComputeCrcFolds
  <2> QED
    BY <2>1, <2>2 DEF IsFold
<1>2. ASSUME NEW data \in Seq(Octets), NEW initial \in Octets, NEW byte \in Octets,
             ComputeCrc(data, initial) \in Octets
      PROVE  ComputeCrc(Append(data, byte), initial) = ComputeNextCrc(byte, ComputeCrc(data, initial))
  <2>1. Append(data, byte) \in Seq(Octets) /\ Len(Append(data, byte)) = Len(data) + 1
    BY AppendProperties
  <2>2. PICK g : /\ IsFold(Octets, TableStep, initial, data, g)
                 /\ ComputeCrc(data, initial) = g[1..Len(data)]
    BY ComputeCrcFolds
  <2>3. PICK h : /\ IsFold(Octets, TableStep, initial, Append(data, byte), h)
                 /\ ComputeCrc(Append(data, byte), initial) = h[1..Len(Append(data, byte))]
    BY <2>1, ComputeCrcFolds
  <2>4. h[1..(Len(data) + 1)] = TableStep[<<g[1..Len(data)], byte>>]
    BY <2>2, <2>3, FoldGrows
  <2> QED
    BY <1>2, <2>1, <2>2, <2>3, <2>4 DEF TableStep, ComputeNextCrc
<1> QED
  BY <1>1, <1>2

(* What one more byte makes of the remainder.                               *)
LEMMA RemainderGrows ==
  /\ \A initial \in Octets : Remainder(<<>>, initial) = initial
  /\ \A data \in Seq(Octets), initial \in Octets, byte \in Octets :
       Remainder(data, initial) \in Octets =>
       Remainder(Append(data, byte), initial) = DivideByte(Xor(Remainder(data, initial), byte))
<1>1. ASSUME NEW initial \in Octets PROVE Remainder(<<>>, initial) = initial
  <2>1. <<>> \in Seq(Octets) /\ Len(<<>>) = 0
    OBVIOUS
  <2>2. PICK g : /\ IsFold(Octets, DivisionStep, initial, <<>>, g)
                 /\ Remainder(<<>>, initial) = g[1..Len(<<>>)]
    BY <2>1, RemainderFolds
  <2> QED
    BY <2>1, <2>2 DEF IsFold
<1>2. ASSUME NEW data \in Seq(Octets), NEW initial \in Octets, NEW byte \in Octets,
             Remainder(data, initial) \in Octets
      PROVE  Remainder(Append(data, byte), initial) = DivideByte(Xor(Remainder(data, initial), byte))
  <2>1. Append(data, byte) \in Seq(Octets) /\ Len(Append(data, byte)) = Len(data) + 1
    BY AppendProperties
  <2>2. PICK g : /\ IsFold(Octets, DivisionStep, initial, data, g)
                 /\ Remainder(data, initial) = g[1..Len(data)]
    BY RemainderFolds
  <2>3. PICK h : /\ IsFold(Octets, DivisionStep, initial, Append(data, byte), h)
                 /\ Remainder(Append(data, byte), initial) = h[1..Len(Append(data, byte))]
    BY <2>1, RemainderFolds
  <2>4. h[1..(Len(data) + 1)] = DivisionStep[<<g[1..Len(data)], byte>>]
    BY <2>2, <2>3, FoldGrows
  <2> QED
    BY <1>2, <2>1, <2>2, <2>3, <2>4 DEF DivisionStep
<1> QED
  BY <1>1, <1>2

CrcSpec == CrcInit /\ [][CrcNext]_crcVars

(* What each step preserves: the sum so far is a byte, that of the bytes so *)
(* far, and their remainder.                                                *)
CrcInv ==
  /\ message \in Seq(Octets) /\ initialCrc \in Octets /\ crc \in Octets
  /\ CrcIsRemainder

(* Each step preserves it: the next byte makes the same of both sums.       *)
LEMMA CrcStep == CrcInv /\ [CrcNext]_crcVars => CrcInv'
<1> SUFFICES ASSUME CrcInv, [CrcNext]_crcVars PROVE CrcInv'
  OBVIOUS
<1>1. ASSUME NEW byte \in (IF message = <<>> THEN 0..255 ELSE LaterBytes), NextByte(byte)
      PROVE  CrcInv'
  <2>1. byte \in Octets
    BY LaterBytesAssumption DEF Octets
  <2>2. /\ message \in Seq(Octets) /\ initialCrc \in Octets /\ crc \in Octets
        /\ crc = Remainder(message, initialCrc) /\ ComputeCrc(message, initialCrc) = crc
        /\ message' = Append(message, byte) /\ crc' = ComputeNextCrc(byte, crc)
        /\ initialCrc' = initialCrc
    BY <1>1 DEF CrcInv, CrcIsRemainder, NextByte
  <2>3. message' \in Seq(Octets)
    BY <2>1, <2>2, AppendProperties
  <2>4. crc' = DivideByte(Xor(crc, byte)) /\ crc' \in Octets
    <3>1. /\ TableStep[<<crc, byte>>] = DivisionStep[<<crc, byte>>]
          /\ TableStep[<<crc, byte>>] \in Octets
      BY <2>1, <2>2, StepTypes
    <3> QED
      BY <2>1, <2>2, <3>1 DEF TableStep, DivisionStep, ComputeNextCrc
  <2>5. ComputeCrc(message', initialCrc') = crc'
    BY <2>1, <2>2, ComputeCrcGrows
  <2>6. Remainder(message', initialCrc') = crc'
    BY <2>1, <2>2, <2>4, RemainderGrows
  <2> QED
    BY <2>2, <2>3, <2>4, <2>5, <2>6 DEF CrcInv, CrcIsRemainder
<1>2. CASE UNCHANGED crcVars
  BY <1>2 DEF CrcInv, CrcIsRemainder, crcVars
<1> QED
  BY <1>1, <1>2 DEF CrcNext

(* For a message of any length and any initial value, ComputeCrc and        *)
(* ComputeNextCrc of AvrLib.c compute the remainder of the division by the  *)
(* polynomial: each of the 256 constants of crc_table is right, and the     *)
(* chain of ComputeNextCrc over the bytes gives what ComputeCrc gives.      *)
THEOREM EveryCrcIsRemainder == CrcSpec => []CrcIsRemainder
<1>1. CrcInit => CrcInv
  <2> SUFFICES ASSUME CrcInit PROVE CrcInv
    OBVIOUS
  <2>1. message = <<>> /\ initialCrc \in Octets /\ crc = initialCrc
    BY InitialCrcsAssumption DEF CrcInit, Octets
  <2>2. message \in Seq(Octets)
    BY <2>1
  <2>3. ComputeCrc(message, initialCrc) = initialCrc /\ Remainder(message, initialCrc) = initialCrc
    BY <2>1, ComputeCrcGrows, RemainderGrows
  <2> QED
    BY <2>1, <2>2, <2>3 DEF CrcInv, CrcIsRemainder
<1>2. CrcInv => CrcIsRemainder
  BY DEF CrcInv
<1> QED
  BY <1>1, <1>2, CrcStep, PTL DEF CrcSpec

===============================================================================
