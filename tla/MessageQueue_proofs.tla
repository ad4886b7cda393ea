------------------------- MODULE MessageQueue_proofs -------------------------
(***************************************************************************)
(* Proofs about module MessageQueue, for any size of the pool, any subset  *)
(* of the eight priorities and any payloads.                               *)
(***************************************************************************)
EXTENDS MessageQueue, FiniteSetTheorems, SequenceTheorems, WellFoundedInduction, TLAPS

(* A node is linked if its pointer is not null: the root is, and so are the *)
(* queued slots.                                                            *)
Linked(n) == next[n] # Null

(* The free positions of the ring name different slots, and these are not   *)
(* linked.                                                                  *)
FreeIsUnlinked ==
  /\ \A i, j \in FreePositions : index[i] = index[j] => i = j
  /\ \A i \in FreePositions : ~Linked(index[i])

(* The pointers permute the linked nodes: from a linked node to a linked    *)
(* node, and no two to the same.                                            *)
LinksPermute ==
  /\ Linked(Root)
  /\ \A n \in Nodes : Linked(n) => next[n] \in Nodes /\ Linked(next[n])
  /\ \A m, n \in Nodes : Linked(m) /\ next[m] = next[n] => m = n

(* While SendMessage searches, its slot is neither free nor linked, and the *)
(* search is at linked nodes.                                               *)
SearchIsSound ==
  pc = "search" =>
    /\ ~Linked(msg)
    /\ \A i \in FreePositions : index[i] # msg
    /\ Linked(p) /\ Linked(q)

IInv == TypeOK /\ NeverHalts /\ FreeIsUnlinked /\ LinksPermute /\ SearchIsSound

-----------------------------------------------------------------------------

(* The successor of a position in the ring.                                 *)
LEMMA NextPositionLemma ==
  \A i \in Slots : NextPosition(i) = IF i = N - 1 THEN 0 ELSE i + 1
  BY NAssumption DEF Slots, NextPosition

(* Slots, the root and the null pointer are different.                      *)
LEMMA NodesAreDistinct ==
  Root \notin Slots /\ Null \notin Slots /\ Root # Null
  BY NAssumption DEF Root, Null, Slots

(* The next slot to be handed out is free.                                  *)
LEMMA QInIsFree == TypeOK => qIn \in FreePositions
  BY NAssumption DEF TypeOK, FreePositions, Slots

(* Positions of the ring are positions of index.                            *)
LEMMA FreePositionsType == TypeOK => FreePositions \subseteq Slots
  BY NAssumption DEF TypeOK, FreePositions, Slots

(* Taking a slot removes one position, unless that was the last but one.    *)
LEMMA TakePosition ==
  ASSUME TypeOK, qIn' = NextPosition(qIn), qIn' # qOut, qOut' = qOut
  PROVE  FreePositions' = FreePositions \ {qIn}
<1>1. qIn \in 0..(N-1) /\ qOut \in 0..(N-1)
  BY DEF TypeOK, Slots
<1>2. qIn' = IF qIn = N - 1 THEN 0 ELSE qIn + 1
  BY NextPositionLemma DEF TypeOK
<1>3. CASE qIn = N - 1
  BY <1>1, <1>2, <1>3, NAssumption DEF FreePositions
<1>4. CASE qIn # N - 1 /\ qIn < qOut
  BY <1>1, <1>2, <1>4, NAssumption DEF FreePositions
<1>5. CASE qIn # N - 1 /\ qOut <= qIn
  BY <1>1, <1>2, <1>5, NAssumption DEF FreePositions
<1> QED
  BY <1>1, <1>3, <1>4, <1>5, NAssumption

(* Giving a slot back adds one position.                                    *)
LEMMA GivePosition ==
  ASSUME TypeOK, qIn # qOut, qOut' = NextPosition(qOut), qIn' = qIn
  PROVE  /\ FreePositions' = FreePositions \cup {qOut}
         /\ qOut \notin FreePositions
<1>1. qIn \in 0..(N-1) /\ qOut \in 0..(N-1)
  BY DEF TypeOK, Slots
<1>2. qOut' = IF qOut = N - 1 THEN 0 ELSE qOut + 1
  BY NextPositionLemma DEF TypeOK
<1>3. CASE qOut = N - 1
  <2>1. FreePositions = qIn..(N-2) /\ FreePositions' = qIn..(N-1)
    BY <1>1, <1>2, <1>3, NAssumption DEF FreePositions
  <2> QED
    BY <2>1, <1>1, <1>3, NAssumption
<1>4. CASE qIn < qOut /\ qOut # N - 1
  <2>1. FreePositions = qIn..(qOut-1) /\ FreePositions' = qIn..qOut
    BY <1>1, <1>2, <1>4, NAssumption DEF FreePositions
  <2> QED
    BY <2>1, <1>1, <1>4, NAssumption
<1>5. CASE qOut < qIn
  <2>1. /\ FreePositions = (qIn..(N-1)) \cup (0..(qOut-1))
        /\ FreePositions' = (qIn..(N-1)) \cup (0..qOut)
    BY <1>1, <1>2, <1>5, NAssumption DEF FreePositions
  <2> QED
    BY <2>1, <1>1, <1>5, NAssumption
<1> QED
  BY <1>1, <1>3, <1>4, <1>5, NAssumption

-----------------------------------------------------------------------------

(* If no position is in use, then every slot is free: N positions name      *)
(* different slots, and there are no more.                                  *)
LEMMA AllFree ==
  ASSUME TypeOK, FreeIsUnlinked, qIn = qOut, NEW s \in Slots
  PROVE  \E i \in FreePositions : index[i] = s
<1>1. FreePositions = Slots
  <2>1. FreePositions = (qIn..(N-1)) \cup (0..(qIn-1))
    BY DEF TypeOK, FreePositions, Slots
  <2> QED
    BY <2>1, NAssumption DEF TypeOK, Slots
<1> SUFFICES ASSUME \A i \in Slots : index[i] # s PROVE FALSE
  BY <1>1
<1> DEFINE f == [i \in 0..N |-> IF i = N THEN s ELSE index[i]]
<1>2. f \in [0..N -> 0..(N-1)]
  BY NAssumption DEF TypeOK, Slots
<1>3. /\ IsFiniteSet(0..N) /\ Cardinality(0..N) = N + 1
      /\ IsFiniteSet(0..(N-1)) /\ Cardinality(0..(N-1)) = N
  BY FS_Interval, NAssumption
<1>4. PICK i, j \in 0..N : i # j /\ f[i] = f[j]
  <2>1. Cardinality(0..(N-1)) < Cardinality(0..N)
    BY <1>3, NAssumption
  <2> HIDE DEF f
  <2> QED
    BY <2>1, <1>2, <1>3, FS_PigeonHole
<1>5. \A k, l \in Slots : index[k] = index[l] => k = l
  BY <1>1 DEF FreeIsUnlinked
<1> QED
  BY <1>4, <1>5, NAssumption DEF Slots

(* A linked slot takes up a position of the ring.                           *)
LEMMA LinkedTakesPosition ==
  ASSUME IInv, NEW s \in Slots, Linked(s)
  PROVE  qIn # qOut
  BY AllFree DEF IInv, FreeIsUnlinked

(* The invariant holds initially.                                           *)
LEMMA InitIInv == Init => IInv
<1> SUFFICES ASSUME Init PROVE IInv
  OBVIOUS
<1> USE NAssumption
<1>1. TypeOK
  <2>1. pool \in [Slots -> Message]
    BY PrioritiesAssumption, ZeroAssumption DEF Init, Message, Cleared
  <2>2. next \in [Nodes -> Nodes \cup {Null}]
    BY DEF Init, Nodes
  <2>3. index \in [Slots -> Slots] /\ qIn \in Slots /\ qOut \in Slots /\ msg \in Slots
    BY DEF Init, Slots
  <2>4. p \in Nodes /\ q \in Nodes /\ event \in Event /\ pc \in {"idle", "search", "halted"}
    BY DEF Init, Nodes, Event
  <2> QED
    BY <2>1, <2>2, <2>3, <2>4 DEF TypeOK
<1>2. next[Root] = Root /\ \A s \in Slots : next[s] = Null /\ index[s] = s
  BY NodesAreDistinct DEF Init, Nodes
<1>3. FreeIsUnlinked
  BY <1>1, <1>2, FreePositionsType DEF FreeIsUnlinked, Linked
<1>4. LinksPermute
  BY <1>2, NodesAreDistinct DEF LinksPermute, Linked, Nodes
<1> QED
  BY <1>1, <1>3, <1>4 DEF Init, IInv, NeverHalts, SearchIsSound

(* SendMessage takes a slot.  The slot is free, hence not linked, so that    *)
(* the check of its pointer succeeds.                                       *)
LEMMA BeginSendIInv ==
  ASSUME IInv, NEW m \in Message, BeginSend(m)
  PROVE  IInv'
<1> DEFINE slot == index[qIn]
<1>1. qIn \in FreePositions /\ qIn \in Slots /\ slot \in Slots /\ ~Linked(slot)
  BY QInIsFree DEF IInv, TypeOK, FreeIsUnlinked
<1>2. /\ pc' = "search" /\ msg' = slot /\ p' = Root /\ q' = Root
      /\ pool' = [pool EXCEPT ![slot] = m]
      /\ qIn' = NextPosition(qIn) /\ qIn' # qOut
      /\ UNCHANGED <<next, index, qOut, event>>
  BY <1>1 DEF BeginSend, Linked
<1>3. FreePositions' = FreePositions \ {qIn}
  BY <1>2, TakePosition DEF IInv
<1>4. TypeOK'
  <2>1. qIn' \in Slots
    BY <1>1, <1>2, NextPositionLemma, NAssumption DEF Slots
  <2>2. pool' \in [Slots -> Message]
    BY <1>1, <1>2 DEF IInv, TypeOK
  <2> QED
    BY <1>1, <1>2, <2>1, <2>2 DEF IInv, TypeOK, Nodes
<1>5. FreeIsUnlinked'
  BY <1>2, <1>3 DEF IInv, FreeIsUnlinked, Linked
<1>6. LinksPermute'
  BY <1>2 DEF IInv, LinksPermute, Linked
<1>7. SearchIsSound'
  BY <1>1, <1>2, <1>3 DEF IInv, FreeIsUnlinked, LinksPermute, SearchIsSound, Linked
<1> QED
  BY <1>2, <1>4, <1>5, <1>6, <1>7 DEF IInv, NeverHalts

(* The search goes on to the next linked node.                              *)
LEMMA SearchStepIInv ==
  ASSUME IInv, SearchStep
  PROVE  IInv'
<1>1. /\ pc = "search" /\ q' = p /\ p' = next[p]
      /\ UNCHANGED <<pool, next, index, qIn, qOut, pc, msg, event>>
  BY DEF SearchStep
<1>2. next[p] \in Nodes /\ Linked(next[p]) /\ Linked(p)
  BY <1>1 DEF IInv, TypeOK, SearchIsSound, LinksPermute
<1>3. TypeOK'
  BY <1>1, <1>2 DEF IInv, TypeOK
<1>4. FreePositions' = FreePositions
  BY <1>1 DEF FreePositions
<1> QED
  BY <1>1, <1>2, <1>3, <1>4
  DEF IInv, NeverHalts, FreeIsUnlinked, LinksPermute, SearchIsSound, Linked

(* The message becomes a linked node between q and its successor.           *)
LEMMA LinkIInv ==
  ASSUME IInv, Link
  PROVE  IInv'
<1>1. /\ pc = "search" /\ pc' = "idle"
      /\ next' = [next EXCEPT ![msg] = next[q], ![q] = msg]
      /\ msg' = 0 /\ p' = Root /\ q' = Root /\ event' = [op |-> "sent"]
      /\ UNCHANGED <<pool, index, qIn, qOut>>
  BY DEF Link
<1>2. /\ msg \in Slots /\ ~Linked(msg)
      /\ q \in Nodes /\ Linked(q)
      /\ next[q] \in Nodes /\ Linked(next[q])
      /\ q # msg /\ next[q] # msg
  BY <1>1 DEF IInv, TypeOK, SearchIsSound, LinksPermute
<1>3. \A n \in Nodes : next'[n] = IF n = q THEN msg ELSE IF n = msg THEN next[q] ELSE next[n]
  BY <1>1, <1>2 DEF IInv, TypeOK, Nodes
<1>4. TypeOK'
  <2>1. next' \in [Nodes -> Nodes \cup {Null}]
    BY <1>1, <1>2 DEF IInv, TypeOK, Nodes
  <2>2. 0 \in Slots
    BY NAssumption DEF Slots
  <2> QED
    BY <1>1, <2>1, <2>2 DEF IInv, TypeOK, Nodes, Event
<1>5. FreePositions' = FreePositions
  BY <1>1 DEF FreePositions
<1>6. \A i \in FreePositions : index[i] \in Slots /\ index[i] # q /\ index[i] # msg
  BY <1>1, <1>2, FreePositionsType DEF IInv, TypeOK, FreeIsUnlinked, SearchIsSound
<1>7. FreeIsUnlinked'
  BY <1>1, <1>3, <1>5, <1>6 DEF IInv, FreeIsUnlinked, Linked, Nodes
<1>8. LinksPermute'
  <2>1. msg # Null /\ msg \in Nodes
    BY <1>2, NodesAreDistinct DEF Nodes
  <2>2. Root \in Nodes /\ Root # msg
    BY <1>2, NodesAreDistinct DEF Nodes
  <2>3. Linked(Root)'
    BY <1>3, <2>1, <2>2 DEF IInv, LinksPermute, Linked
  <2>4. \A n \in Nodes : Linked(n)' => next'[n] \in Nodes /\ Linked(next[n])'
    BY <1>2, <1>3, <2>1 DEF IInv, LinksPermute, Linked
  <2>5. \A m, n \in Nodes : Linked(m)' /\ next'[m] = next'[n] => m = n
    BY <1>2, <1>3, <2>1 DEF IInv, LinksPermute, Linked
  <2> QED
    BY <2>3, <2>4, <2>5 DEF LinksPermute
<1> QED
  BY <1>1, <1>4, <1>7, <1>8 DEF IInv, NeverHalts, SearchIsSound

(* GetMessage unlinks the first slot and puts it into a position that is    *)
(* not free.                                                                *)
LEMMA GetIInv ==
  ASSUME IInv, Get
  PROVE  IInv'
<1> DEFINE head == next[Root]
<1>1. /\ pc = "idle" /\ head # Root
      /\ event' = [op |-> "got", msg |-> pool[head]]
      /\ index' = [index EXCEPT ![qOut] = head]
      /\ next' = [next EXCEPT ![Root] = next[head], ![head] = Null]
      /\ pool' = [pool EXCEPT ![head] = Cleared]
      /\ qOut' = NextPosition(qOut)
      /\ UNCHANGED <<qIn, pc, msg, p, q>>
  BY DEF Get
<1>2. Root \in Nodes /\ qOut \in Slots
  BY DEF IInv, TypeOK, Nodes
<1>3. /\ head \in Slots /\ Linked(head)
      /\ next[head] \in Nodes /\ Linked(next[head]) /\ next[head] # head
  BY <1>1, <1>2 DEF IInv, LinksPermute, Nodes
<1>4. qIn # qOut
  BY <1>3, LinkedTakesPosition
<1>5. FreePositions' = FreePositions \cup {qOut} /\ qOut \notin FreePositions
  BY <1>1, <1>4, GivePosition DEF IInv
<1>6. \A n \in Nodes : next'[n] = IF n = head THEN Null ELSE IF n = Root THEN next[head] ELSE next[n]
  BY <1>1, <1>2, <1>3 DEF IInv, TypeOK, Nodes
<1>7. TypeOK'
  <2>1. next' \in [Nodes -> Nodes \cup {Null}]
    BY <1>1, <1>2, <1>3 DEF IInv, TypeOK
  <2>2. index' \in [Slots -> Slots]
    BY <1>1, <1>2, <1>3 DEF IInv, TypeOK
  <2>3. qOut' \in Slots
    BY <1>1, <1>2, NextPositionLemma, NAssumption DEF Slots
  <2>4. pool' \in [Slots -> Message]
    BY <1>1, <1>3, PrioritiesAssumption, ZeroAssumption DEF IInv, TypeOK, Message, Cleared
  <2>5. event' \in Event
    BY <1>1, <1>3 DEF IInv, TypeOK, Event
  <2> QED
    BY <1>1, <2>1, <2>2, <2>3, <2>4, <2>5 DEF IInv, TypeOK
<1>8. \A i \in FreePositions : index[i] \in Slots /\ index[i] # head /\ index'[i] = index[i]
  BY <1>1, <1>2, <1>3, <1>5, FreePositionsType DEF IInv, TypeOK, FreeIsUnlinked
<1>9. index'[qOut] = head
  BY <1>1, <1>2 DEF IInv, TypeOK
<1>10. FreeIsUnlinked'
  <2>1. \A i, j \in FreePositions' : index'[i] = index'[j] => i = j
    BY <1>5, <1>8, <1>9 DEF IInv, FreeIsUnlinked
  <2>2. \A i \in FreePositions' : ~Linked(index[i])'
    BY <1>3, <1>5, <1>6, <1>8, <1>9, NodesAreDistinct DEF IInv, FreeIsUnlinked, Linked, Nodes
  <2> QED
    BY <2>1, <2>2 DEF FreeIsUnlinked
<1>11. LinksPermute'
  <2>1. Linked(Root)'
    BY <1>1, <1>2, <1>3, <1>6 DEF Linked
  <2>2. ASSUME NEW n \in Nodes, Linked(n)'
        PROVE  next'[n] \in Nodes /\ Linked(next[n])'
    <3>1. n # head
      BY <2>2, <1>3, <1>6 DEF Linked
    <3>2. CASE n = Root
      BY <3>1, <3>2, <1>3, <1>6 DEF Linked
    <3>3. CASE n # Root
      <4>1. next'[n] = next[n] /\ Linked(n)
        BY <2>2, <3>1, <3>3, <1>6 DEF Linked
      <4>2. next[n] \in Nodes /\ Linked(next[n]) /\ next[n] # head
        BY <4>1, <3>3, <1>2, <1>3 DEF IInv, LinksPermute
      <4> QED
        BY <4>1, <4>2, <1>3, <1>6 DEF Linked
    <3> QED
      BY <3>2, <3>3
  <2>3. \A m, n \in Nodes : Linked(m)' /\ next'[m] = next'[n] => m = n
    BY <1>1, <1>2, <1>3, <1>6 DEF IInv, LinksPermute, Linked
  <2> QED
    BY <2>1, <2>2, <2>3 DEF LinksPermute
<1> QED
  BY <1>1, <1>7, <1>10, <1>11 DEF IInv, NeverHalts, SearchIsSound

(* Every step keeps the invariant.                                          *)
LEMMA NextIInv == IInv /\ [Next]_vars => IInv'
<1> SUFFICES ASSUME IInv, [Next]_vars PROVE IInv'
  OBVIOUS
<1>1. CASE Discard
  BY <1>1 DEF Discard, IInv, TypeOK, Event, NeverHalts, FreeIsUnlinked, FreePositions,
    LinksPermute, SearchIsSound, Linked
<1>2. CASE \E m \in Message : BeginSend(m)
  BY <1>2, BeginSendIInv
<1>3. CASE SearchStep
  BY <1>3, SearchStepIInv
<1>4. CASE Link
  BY <1>4, LinkIInv
<1>5. CASE Get
  BY <1>5, GetIInv
<1>6. CASE GetNothing
  BY <1>6 DEF GetNothing, IInv, TypeOK, Event, NeverHalts, FreeIsUnlinked, FreePositions,
    LinksPermute, SearchIsSound, Linked
<1>7. CASE UNCHANGED vars
  BY <1>7 DEF vars, IInv, TypeOK, NeverHalts, FreeIsUnlinked, FreePositions,
    LinksPermute, SearchIsSound, Linked
<1> QED
  BY <1>1, <1>2, <1>3, <1>4, <1>5, <1>6, <1>7 DEF Next

(* The variables keep their types.                                          *)
THEOREM TypeCorrect == Spec => []TypeOK
<1>1. IInv => TypeOK
  BY DEF IInv
<1> QED
  BY <1>1, InitIInv, NextIInv, PTL DEF Spec

(* SendMessage never finds that a slot it takes is still linked: the        *)
(* DE AD BE AF loop is never entered, whatever the size of the pool.        *)
THEOREM PoolIsNeverCorrupted == Spec => []NeverHalts
<1>1. IInv => NeverHalts
  BY DEF IInv
<1> QED
  BY <1>1, InitIInv, NextIInv, PTL DEF Spec

-----------------------------------------------------------------------------

(* The least number principle, which stands for induction.                  *)
LEMMA NatMinimum ==
  ASSUME NEW T \in SUBSET Nat, T # {}
  PROVE  \E x \in T : \A y \in T : x <= y
<1> DEFINE R == OpToRel(<, Nat)
<1>1. IsWellFoundedOn(R, Nat)
  BY NatLessThanWellFounded
<1>2. R = {ss \in Nat \X Nat : ss[1] < ss[2]}
  BY Zenon DEF OpToRel
<1> HIDE DEF R
<1>3. PICK x \in T : \A y \in T : ~(<<y, x>> \in R)
  BY <1>1, WFMin
<1>4. \A y \in T : ~(y < x)
  BY <1>2, <1>3
<1> QED
  BY <1>4

(* Functions over 1..n are sequences of length n.                           *)
LEMMA FunctionIsSequence ==
  ASSUME NEW n \in Nat, NEW S, NEW f \in [1..n -> S]
  PROVE  f \in Seq(S) /\ Len(f) = n
<1>1. f \in Seq(S)
  BY SeqDef
<1>2. DOMAIN f = 1..Len(f) /\ Len(f) \in Nat
  BY <1>1, LenProperties
<1> QED
  BY <1>1, <1>2

(* What a circular list looks like.                                         *)
LEMMA ListShape ==
  ASSUME NEW s, NEW nx, IsList(s, nx)
  PROVE  /\ Len(s) \in Nat /\ s = [i \in 1..Len(s) |-> s[i]]
         /\ \A i \in 1..Len(s) : s[i] \in Slots /\ s[i] \in Nodes
         /\ \A i \in Int : NodeAt(s, i) \in Nodes
         /\ \A i, j \in 0..Len(s) : NodeAt(s, i) = NodeAt(s, j) => i = j
<1>1. /\ s \in Seq(Slots) /\ Len(s) \in Nat /\ s = [i \in 1..Len(s) |-> s[i]]
      /\ \A i \in 1..Len(s) : s[i] \in Slots
  BY LenProperties DEF IsList
<1>2. \A i, j \in 1..Len(s) : i # j => s[i] # s[j]
  BY DEF IsList
<1> QED
  BY <1>1, <1>2, NodesAreDistinct DEF NodeAt, Nodes

(* Who follows the pointers from the root meets the slots of the list, and  *)
(* stays at the root when it is there again.                                *)
LEMMA WalkMeetsSlots ==
  ASSUME NEW s, NEW nx, IsList(s, nx), NEW walk,
         \A k \in 0..N : walk[k] =
           IF k = 0 THEN nx[Root]
           ELSE IF walk[k-1] \in Slots THEN nx[walk[k-1]] ELSE walk[k-1]
  PROVE  \A k \in 0..N : walk[k] = NodeAt(s, k + 1)
<1>1. Len(s) \in Nat /\ \A i \in 1..Len(s) : s[i] \in Slots
  BY ListShape
<1> SUFFICES ASSUME NEW l \in 0..N, walk[l] # NodeAt(s, l + 1) PROVE FALSE
  OBVIOUS
<1> DEFINE T == {k \in Nat : k \in 0..N /\ walk[k] # NodeAt(s, k + 1)}
<1>2. PICK k \in T : \A j \in T : k <= j
  <2>1. l \in T
    OBVIOUS
  <2> QED
    BY <2>1, NatMinimum
<1>3. CASE k = 0
  <2>1. 0 \in 0..Len(s) /\ NodeAt(s, 0) = Root
    BY <1>1 DEF NodeAt
  <2>2. nx[Root] = NodeAt(s, 0 + 1)
    BY <2>1 DEF IsList
  <2>3. walk[0] = nx[Root]
    BY <1>2, <1>3
  <2> QED
    BY <1>2, <1>3, <2>2, <2>3
<1>4. CASE k # 0
  <2>1. k - 1 \in Nat /\ k - 1 \in 0..N /\ ~(k <= k - 1) /\ (k - 1) + 1 = k
    BY <1>2, <1>4, NAssumption
  <2>2. walk[k - 1] = NodeAt(s, k)
    BY <1>2, <2>1
  <2>3. walk[k] = IF walk[k-1] \in Slots THEN nx[walk[k-1]] ELSE walk[k-1]
    BY <1>2, <1>4
  <2>4. CASE k \in 1..Len(s)
    <3>1. k \in 0..Len(s) /\ NodeAt(s, k) \in Slots
      BY <1>1, <2>4 DEF NodeAt
    <3>2. nx[NodeAt(s, k)] = NodeAt(s, k + 1)
      BY <3>1 DEF IsList
    <3> QED
      BY <1>2, <2>2, <2>3, <3>1, <3>2
  <2>5. CASE k \notin 1..Len(s)
    <3>1. k + 1 \notin 1..Len(s)
      BY <1>1, <1>2, <1>4, <2>5
    <3> QED
      BY <1>2, <2>2, <2>3, <2>5, <3>1, NodesAreDistinct DEF NodeAt
  <2> QED
    BY <2>4, <2>5
<1> QED
  BY <1>3, <1>4

(* A circular list is what following its pointers finds.                    *)
LEMMA ListIsFound ==
  ASSUME NEW s, NEW nx, IsList(s, nx), Len(s) <= N
  PROVE  ListOf(nx) = s
<1> DEFINE walk[k \in 0..N] ==
             IF k = 0 THEN nx[Root]
             ELSE IF walk[k-1] \in Slots THEN nx[walk[k-1]] ELSE walk[k-1]
           length == CHOOSE n \in 0..N : /\ \A k \in 0..(n-1) : walk[k] \in Slots
                                         /\ n = N \/ walk[n] \notin Slots
<1>1. /\ Len(s) \in 0..N /\ s = [i \in 1..Len(s) |-> s[i]]
      /\ \A i \in 1..Len(s) : s[i] \in Slots
  BY ListShape, NAssumption
<1>2. ListOf(nx) = [i \in 1..length |-> walk[i-1]]
  BY DEF ListOf
<1>3. walk = [k \in 0..N |-> IF k = 0 THEN nx[Root]
                             ELSE IF walk[k-1] \in Slots THEN nx[walk[k-1]] ELSE walk[k-1]]
  <2> DEFINE w == [k \in 0..N |-> NodeAt(s, k + 1)]
  <2>1. w = [k \in 0..N |-> IF k = 0 THEN nx[Root]
                            ELSE IF w[k-1] \in Slots THEN nx[w[k-1]] ELSE w[k-1]]
    <3> SUFFICES ASSUME NEW k \in 0..N
                 PROVE  w[k] = IF k = 0 THEN nx[Root]
                               ELSE IF w[k-1] \in Slots THEN nx[w[k-1]] ELSE w[k-1]
      BY Zenon
    <3>1. CASE k = 0
      <4>1. 0 \in 0..Len(s) /\ NodeAt(s, 0) = Root /\ 0 + 1 = k + 1
        BY <1>1, <3>1 DEF NodeAt
      <4> QED
        BY <3>1, <4>1 DEF IsList
    <3>2. CASE k # 0
      <4>1. k - 1 \in 0..N /\ (k - 1) + 1 = k
        BY <3>2, NAssumption
      <4>2. w[k] = NodeAt(s, k + 1) /\ w[k-1] = NodeAt(s, k)
        BY <4>1
      <4>3. CASE k \in 1..Len(s)
        <5>1. NodeAt(s, k) \in Slots /\ nx[NodeAt(s, k)] = NodeAt(s, k + 1)
          BY <1>1, <4>3 DEF NodeAt, IsList
        <5> QED
          BY <3>2, <4>2, <5>1
      <4>4. CASE k \notin 1..Len(s)
        <5>1. NodeAt(s, k) = Root /\ NodeAt(s, k + 1) = Root /\ Root \notin Slots
          BY <1>1, <3>2, <4>4, NodesAreDistinct DEF NodeAt
        <5> QED
          BY <3>2, <4>2, <5>1
      <4> QED
        BY <4>3, <4>4
    <3> QED
      BY <3>1, <3>2
  <2> QED
    BY <2>1
<1> HIDE DEF walk
<1>4. \A k \in 0..N : walk[k] = NodeAt(s, k + 1)
  <2>1. \A k \in 0..N :
          walk[k] = IF k = 0 THEN nx[Root]
                    ELSE IF walk[k-1] \in Slots THEN nx[walk[k-1]] ELSE walk[k-1]
    BY <1>3, Zenon
  <2> HIDE DEF length
  <2> QED
    BY <2>1, WalkMeetsSlots
<1>5. \A k \in 0..(Len(s)-1) : walk[k] = s[k + 1] /\ walk[k] \in Slots
  <2> TAKE k \in 0..(Len(s)-1)
  <2>1. k \in 0..N /\ k + 1 \in 1..Len(s)
    BY <1>1, NAssumption
  <2> QED
    BY <1>1, <1>4, <2>1 DEF NodeAt
<1>6. walk[Len(s)] \notin Slots
  <2>1. Len(s) + 1 \notin 1..Len(s)
    BY <1>1
  <2> QED
    BY <1>1, <1>4, <2>1, NodesAreDistinct DEF NodeAt
<1>7. length = Len(s)
  <2> DEFINE Ends(n) == /\ \A k \in 0..(n-1) : walk[k] \in Slots
                        /\ n = N \/ walk[n] \notin Slots
  <2>1. Ends(Len(s))
    BY <1>5, <1>6
  <2>2. \A n \in 0..N : Ends(n) => n = Len(s)
    <3> SUFFICES ASSUME NEW n \in 0..N, Ends(n), n # Len(s) PROVE FALSE
      OBVIOUS
    <3>1. CASE n < Len(s)
      <4>1. n \in 0..(Len(s)-1) /\ n # N
        BY <1>1, <3>1, NAssumption
      <4> QED
        BY <1>5, <4>1
    <3>2. CASE n > Len(s)
      <4>1. Len(s) \in 0..(n-1)
        BY <1>1, <3>2
      <4> QED
        BY <1>6, <4>1
    <3> QED
      BY <1>1, <3>1, <3>2
  <2>3. length = CHOOSE n \in 0..N : Ends(n)
    OBVIOUS
  <2> HIDE DEF Ends, length
  <2> QED
    BY <1>1, <2>1, <2>2, <2>3
<1>8. \A i \in 1..Len(s) : walk[i-1] = s[i]
  <2> TAKE i \in 1..Len(s)
  <2>1. i - 1 \in 0..(Len(s)-1) /\ (i - 1) + 1 = i
    BY <1>1
  <2> QED
    BY <1>5, <2>1
<1> HIDE DEF length
<1> QED
  BY <1>1, <1>2, <1>7, <1>8

(* The sequence s with x in the place k.                                    *)
Inserted(s, k, x) ==
  [i \in 1..(Len(s) + 1) |-> IF i < k THEN s[i] ELSE IF i = k THEN x ELSE s[i - 1]]

(* Link makes a circular list of a circular list: it has x in the place k.  *)
LEMMA InsertedIsList ==
  ASSUME NEW s, NEW nx \in [Nodes -> Nodes \cup {Null}], IsList(s, nx),
         NEW k \in 1..(Len(s) + 1), NEW x \in Slots, \A i \in 1..Len(s) : s[i] # x,
         NEW ny, ny = [nx EXCEPT ![x] = nx[NodeAt(s, k - 1)], ![NodeAt(s, k - 1)] = x]
  PROVE  IsList(Inserted(s, k, x), ny) /\ Len(Inserted(s, k, x)) = Len(s) + 1
<1> DEFINE t == Inserted(s, k, x)
           y == NodeAt(s, k - 1)
<1>1. /\ Len(s) \in Nat /\ s = [i \in 1..Len(s) |-> s[i]]
      /\ \A i \in 1..Len(s) : s[i] \in Slots /\ s[i] \in Nodes
      /\ \A i \in Int : NodeAt(s, i) \in Nodes
      /\ \A i, j \in 0..Len(s) : NodeAt(s, i) = NodeAt(s, j) => i = j
  BY ListShape
<1>2. /\ t \in [1..(Len(s) + 1) -> Slots] /\ Len(s) + 1 \in Nat
      /\ \A i \in 1..(Len(s) + 1) :
           t[i] = IF i < k THEN s[i] ELSE IF i = k THEN x ELSE s[i - 1]
  <2>1. \A i \in 1..(Len(s) + 1) :
          (IF i < k THEN s[i] ELSE IF i = k THEN x ELSE s[i - 1]) \in Slots
    BY <1>1
  <2> QED
    BY <1>1, <2>1 DEF Inserted
<1>3. t \in Seq(Slots) /\ Len(t) = Len(s) + 1
  <2> HIDE DEF t
  <2> QED
    BY <1>2, FunctionIsSequence
<1>4. \A i \in 0..(Len(s) + 2) :
        NodeAt(t, i) = IF i < k THEN NodeAt(s, i) ELSE IF i = k THEN x ELSE NodeAt(s, i - 1)
  <2> HIDE DEF t
  <2> TAKE i \in 0..(Len(s) + 2)
  <2>1. CASE i \in 1..(Len(s) + 1)
    <3>1. NodeAt(t, i) = t[i]
      BY <1>3, <2>1 DEF NodeAt
    <3>2. i < k => i \in 1..Len(s)
      BY <1>1, <2>1
    <3>3. i > k => i - 1 \in 1..Len(s)
      BY <1>1, <2>1
    <3>4. i < k \/ i = k \/ i > k
      BY <1>1
    <3> QED
      BY <1>2, <2>1, <3>1, <3>2, <3>3, <3>4 DEF NodeAt
  <2>2. CASE i = 0
    BY <1>1, <1>3, <2>2 DEF NodeAt
  <2>3. CASE i = Len(s) + 2
    <3>1. ~(i < k) /\ i # k /\ i - 1 \notin 1..Len(s) /\ i \notin 1..(Len(s) + 1)
      BY <1>1, <2>3
    <3> QED
      BY <1>3, <3>1 DEF NodeAt
  <2> QED
    BY <1>1, <2>1, <2>2, <2>3
<1>5. /\ y \in Nodes /\ x \in Nodes /\ x # y
      /\ \A i \in 0..Len(s) : NodeAt(s, i) # x
  <2>1. x \in Nodes /\ x # Root
    BY NodesAreDistinct DEF Nodes
  <2>2. k - 1 \in 0..Len(s) /\ k - 1 \in Int
    BY <1>1
  <2>3. \A i \in 0..Len(s) : NodeAt(s, i) # x
    BY <2>1 DEF NodeAt
  <2> QED
    BY <1>1, <2>1, <2>2, <2>3
<1>6. \A z \in Nodes : ny[z] = IF z = y THEN x ELSE IF z = x THEN nx[y] ELSE nx[z]
  <2>1. ny = [nx EXCEPT ![x] = nx[y], ![y] = x]
    OBVIOUS
  <2> HIDE DEF y
  <2> QED
    BY <1>5, <2>1
<1> HIDE DEF t, y
<1>7. ASSUME NEW i \in 0..(Len(s) + 1) PROVE ny[NodeAt(t, i)] = NodeAt(t, i + 1)
  <2>1. i \in 0..(Len(s) + 2) /\ i + 1 \in 0..(Len(s) + 2) /\ k - 1 \in 0..Len(s)
    BY <1>1
  <2>2. \A j \in 0..Len(s) : nx[NodeAt(s, j)] = NodeAt(s, j + 1)
    BY DEF IsList
  <2>3. CASE i < k - 1
    <3>1. i \in 0..Len(s) /\ i < k /\ i + 1 < k /\ i # k - 1
      BY <1>1, <2>3
    <3>2. NodeAt(t, i) = NodeAt(s, i) /\ NodeAt(t, i + 1) = NodeAt(s, i + 1)
      BY <1>4, <2>1, <3>1
    <3>3. NodeAt(s, i) # y /\ NodeAt(s, i) # x /\ NodeAt(s, i) \in Nodes
      BY <1>1, <1>5, <2>1, <3>1 DEF y
    <3> QED
      BY <1>6, <2>2, <3>1, <3>2, <3>3
  <2>4. CASE i = k - 1
    <3>1. i < k /\ i + 1 = k /\ ~(i + 1 < k)
      BY <2>4
    <3>2. NodeAt(t, i) = y /\ NodeAt(t, i + 1) = x
      BY <1>4, <2>1, <2>4, <3>1 DEF y
    <3> QED
      BY <1>5, <1>6, <3>2
  <2>5. CASE i = k
    <3>1. ~(i < k) /\ ~(i + 1 < k) /\ i + 1 # k /\ (i + 1) - 1 = k /\ (k - 1) + 1 = k
      BY <2>5
    <3>2. NodeAt(t, i) = x /\ NodeAt(t, i + 1) = NodeAt(s, k)
      BY <1>4, <2>1, <2>5, <3>1
    <3>3. nx[y] = NodeAt(s, k)
      BY <2>1, <2>2, <3>1 DEF y
    <3> QED
      BY <1>5, <1>6, <3>2, <3>3
  <2>6. CASE i > k
    <3>1. /\ ~(i < k) /\ i # k /\ ~(i + 1 < k) /\ i + 1 # k /\ (i + 1) - 1 = i /\ (i - 1) + 1 = i
          /\ i - 1 \in 0..Len(s) /\ i - 1 # k - 1
      BY <1>1, <2>6
    <3>2. NodeAt(t, i) = NodeAt(s, i - 1) /\ NodeAt(t, i + 1) = NodeAt(s, i)
      BY <1>4, <2>1, <3>1
    <3>3. NodeAt(s, i - 1) # y /\ NodeAt(s, i - 1) # x /\ NodeAt(s, i - 1) \in Nodes
      BY <1>1, <1>5, <2>1, <3>1 DEF y
    <3>4. nx[NodeAt(s, i - 1)] = NodeAt(s, i)
      BY <2>2, <3>1
    <3> QED
      BY <1>6, <3>2, <3>3, <3>4
  <2> QED
    BY <2>3, <2>4, <2>5, <2>6
<1>8. \A i, j \in 1..Len(t) : i # j => t[i] # t[j]
  <2> SUFFICES ASSUME NEW i \in 1..(Len(s) + 1), NEW j \in 1..(Len(s) + 1), i < j
               PROVE  t[i] # t[j]
    BY <1>1, <1>3
  <2>1. \A a, b \in 1..Len(s) : a # b => s[a] # s[b]
    BY DEF IsList
  <2>2. i < k => i \in 1..Len(s)
    BY <1>1
  <2>3. j > k => j - 1 \in 1..Len(s)
    BY <1>1
  <2>4. CASE j < k
    <3>1. i \in 1..Len(s) /\ j \in 1..Len(s) /\ i < k /\ i # j
      BY <1>1, <2>4
    <3> QED
      BY <1>2, <2>1, <2>4, <3>1
  <2>5. CASE j = k
    BY <1>2, <2>2, <2>5
  <2>6. CASE j > k /\ i < k
    <3>1. i \in 1..Len(s) /\ j - 1 \in 1..Len(s) /\ i # j - 1 /\ ~(j < k) /\ j # k
      BY <1>1, <2>6
    <3> QED
      BY <1>2, <2>1, <2>6, <3>1
  <2>7. CASE j > k /\ i = k
    <3>1. j - 1 \in 1..Len(s) /\ ~(j < k) /\ j # k /\ ~(i < k)
      BY <1>1, <2>7
    <3> QED
      BY <1>2, <2>7, <3>1
  <2>8. CASE j > k /\ i > k
    <3>1. /\ i - 1 \in 1..Len(s) /\ j - 1 \in 1..Len(s) /\ i - 1 # j - 1
          /\ ~(j < k) /\ j # k /\ ~(i < k) /\ i # k
      BY <1>1, <2>8
    <3> QED
      BY <1>2, <2>1, <3>1
  <2> QED
    BY <2>4, <2>5, <2>6, <2>7, <2>8
<1> QED
  BY <1>3, <1>7, <1>8 DEF IsList, t

(* Get makes a circular list of a circular list: its first slot is gone.    *)
LEMMA TailIsList ==
  ASSUME NEW s, NEW nx \in [Nodes -> Nodes \cup {Null}], IsList(s, nx), Len(s) # 0,
         NEW ny, ny = [nx EXCEPT ![Root] = nx[s[1]], ![s[1]] = Null]
  PROVE  /\ IsList(Tail(s), ny) /\ Len(Tail(s)) = Len(s) - 1
         /\ \A i \in 1..(Len(s)-1) : Tail(s)[i] = s[i + 1]
<1>1. /\ Len(s) \in Nat /\ s \in Seq(Slots)
      /\ \A i \in 1..Len(s) : s[i] \in Slots /\ s[i] \in Nodes
      /\ \A i \in Int : NodeAt(s, i) \in Nodes
      /\ \A i, j \in 0..Len(s) : NodeAt(s, i) = NodeAt(s, j) => i = j
  BY ListShape DEF IsList
<1>2. /\ Tail(s) \in Seq(Slots) /\ Len(Tail(s)) = Len(s) - 1
      /\ \A i \in 1..(Len(s)-1) : Tail(s)[i] = s[i + 1]
  <2>1. s # <<>>
    BY EmptySeq
  <2> QED
    BY <1>1, <2>1, HeadTailProperties
<1>3. \A i \in 0..Len(s) : NodeAt(Tail(s), i) = IF i = 0 THEN Root ELSE NodeAt(s, i + 1)
  <2> TAKE i \in 0..Len(s)
  <2>1. CASE i \in 1..(Len(s)-1)
    <3>1. i + 1 \in 1..Len(s) /\ i # 0
      BY <1>1, <2>1
    <3> QED
      BY <1>2, <2>1, <3>1 DEF NodeAt
  <2>2. CASE i \notin 1..(Len(s)-1)
    <3>1. i # 0 => i + 1 \notin 1..Len(s)
      BY <1>1, <2>2
    <3> QED
      BY <1>2, <2>2, <3>1 DEF NodeAt
  <2> QED
    BY <2>1, <2>2
<1>4. 1 \in 1..Len(s) /\ 1 \in 0..Len(s) /\ 0 \in 0..Len(s) /\ NodeAt(s, 1) = s[1] /\ NodeAt(s, 0) = Root
  BY <1>1 DEF NodeAt
<1>5. Root \in Nodes /\ s[1] \in Nodes /\ s[1] # Root
  BY <1>1, <1>4, NodesAreDistinct DEF Nodes
<1>6. \A z \in Nodes : ny[z] = IF z = s[1] THEN Null ELSE IF z = Root THEN nx[s[1]] ELSE nx[z]
  BY <1>5
<1>7. \A j \in 0..Len(s) : nx[NodeAt(s, j)] = NodeAt(s, j + 1)
  BY DEF IsList
<1>8. ASSUME NEW i \in 0..(Len(s)-1) PROVE ny[NodeAt(Tail(s), i)] = NodeAt(Tail(s), i + 1)
  <2>1. i \in 0..Len(s) /\ i + 1 \in 0..Len(s) /\ i + 1 # 0
    BY <1>1
  <2>2. NodeAt(Tail(s), i + 1) = NodeAt(s, (i + 1) + 1)
    BY <1>3, <2>1
  <2>3. CASE i = 0
    <3>1. NodeAt(Tail(s), i) = Root
      BY <1>3, <2>1, <2>3
    <3>2. nx[s[1]] = NodeAt(s, 1 + 1)
      BY <1>4, <1>7
    <3> QED
      BY <1>5, <1>6, <2>2, <2>3, <3>1, <3>2
  <2>4. CASE i # 0
    <3>1. NodeAt(Tail(s), i) = NodeAt(s, i + 1) /\ NodeAt(s, i + 1) \in Nodes
      BY <1>1, <1>3, <2>1, <2>4
    <3>2. NodeAt(s, i + 1) # NodeAt(s, 0) /\ NodeAt(s, i + 1) # NodeAt(s, 1)
      <4>1. i + 1 # 0 /\ i + 1 # 1
        BY <2>4
      <4> QED
        BY <1>1, <1>4, <2>1, <4>1
    <3>3. nx[NodeAt(s, i + 1)] = NodeAt(s, (i + 1) + 1)
      BY <1>7, <2>1
    <3> QED
      BY <1>4, <1>6, <2>2, <3>1, <3>2, <3>3
  <2> QED
    BY <2>3, <2>4
<1>9. \A i, j \in 1..(Len(s)-1) : i # j => Tail(s)[i] # Tail(s)[j]
  <2> TAKE i, j \in 1..(Len(s)-1)
  <2>1. i + 1 \in 1..Len(s) /\ j + 1 \in 1..Len(s) /\ (i # j => i + 1 # j + 1)
    BY <1>1
  <2> QED
    BY <1>2, <2>1 DEF IsList
<1> QED
  BY <1>2, <1>8, <1>9 DEF IsList

-----------------------------------------------------------------------------

(* How many slots the ring can hand out, and how many are being filled.     *)
FreeCount == IF qIn < qOut THEN qOut - qIn ELSE N - qIn + qOut
FlightCount == IF pc = "search" THEN 1 ELSE 0

(* The pointers form one circle, and the slots in it are as many as are not *)
(* free and not being filled.                                               *)
CircleIsSound ==
  /\ IsList(List, next)
  /\ \A x \in Slots : Linked(x) <=> x \in QueuedSlots
  /\ Len(List) + FreeCount + FlightCount = N

(* Every slot is somewhere.                                                 *)
NoneIsMissing ==
  \A x \in Slots :
    Linked(x) \/ (\E i \in FreePositions : index[i] = x) \/ (pc = "search" /\ x = msg)

(* The search has passed the first messages of the list, all of the same or *)
(* a greater priority, and stands at the next one.                          *)
PlaceIsRight ==
  pc = "search" =>
    \E i \in 0..Len(List) :
      /\ p = NodeAt(List, i) /\ q = NodeAt(List, i - 1)
      /\ \A j \in 1..(i-1) : pool[msg].prio <= pool[List[j]].prio

LInv == CircleIsSound /\ NoneIsMissing /\ PlaceIsRight

(* The ring hands out at least one slot and at most all.                    *)
LEMMA FreeCountRange ==
  ASSUME TypeOK
  PROVE  FreeCount \in 1..N /\ (NextPosition(qIn) = qOut => FreeCount = 1)
<1>1. qIn \in 0..(N-1) /\ qOut \in 0..(N-1) /\ N \in Nat \ {0}
  BY NAssumption DEF TypeOK, Slots
<1>2. NextPosition(qIn) = IF qIn = N - 1 THEN 0 ELSE qIn + 1
  BY NextPositionLemma DEF TypeOK
<1> QED
  BY <1>1, <1>2 DEF FreeCount

(* To take a slot makes one less of them.                                   *)
LEMMA TakeCounts ==
  ASSUME TypeOK, qIn' = NextPosition(qIn), qIn' # qOut, qOut' = qOut
  PROVE  FreeCount' = FreeCount - 1
<1>1. qIn \in 0..(N-1) /\ qOut \in 0..(N-1) /\ N \in Nat \ {0}
  BY NAssumption DEF TypeOK, Slots
<1>2. qIn' = IF qIn = N - 1 THEN 0 ELSE qIn + 1
  BY NextPositionLemma DEF TypeOK
<1> QED
  BY <1>1, <1>2 DEF FreeCount

(* To give a slot back makes one more.                                      *)
LEMMA GiveCounts ==
  ASSUME TypeOK, FreeCount # N, qOut' = NextPosition(qOut), qIn' = qIn
  PROVE  FreeCount' = FreeCount + 1
<1>1. qIn \in 0..(N-1) /\ qOut \in 0..(N-1) /\ N \in Nat \ {0}
  BY NAssumption DEF TypeOK, Slots
<1>2. qOut' = IF qOut = N - 1 THEN 0 ELSE qOut + 1
  BY NextPositionLemma DEF TypeOK
<1> QED
  BY <1>1, <1>2 DEF FreeCount

(* The list holds fewer messages than there are slots.                      *)
LEMMA ListLength ==
  ASSUME TypeOK, CircleIsSound
  PROVE  /\ Len(List) # 0 => FreeCount # N
         /\ Len(List) \in 0..(N-1)
         /\ pc = "search" => Len(List) < N - 1
<1>1. Len(List) \in Nat
  BY ListShape DEF CircleIsSound
<1>2. Len(List) + FreeCount + FlightCount = N
  BY DEF CircleIsSound
<1>3. FreeCount \in 1..N /\ FlightCount \in 0..1 /\ (pc = "search" => FlightCount = 1)
  BY FreeCountRange DEF FlightCount
<1> QED
  BY <1>1, <1>2, <1>3, NAssumption

(* If the pointers do not change, neither does the list.                    *)
LEMMA SameList ==
  ASSUME next' = next
  PROVE  List' = List /\ QueuedSlots' = QueuedSlots /\ (\A x : Linked(x)' = Linked(x))
<1>1. List' = List
  BY DEF List
<1> QED
  BY <1>1 DEF QueuedSlots, Linked

(* The first place of the search is the root.                               *)
LEMMA BeginSendLInv ==
  ASSUME IInv, LInv, NEW m \in Message, BeginSend(m)
  PROVE  LInv'
<1> DEFINE slot == index[qIn]
<1>1. qIn \in FreePositions /\ slot \in Slots /\ ~Linked(slot)
  BY QInIsFree DEF IInv, TypeOK, FreeIsUnlinked
<1>2. /\ pc = "idle" /\ pc' = "search" /\ msg' = slot /\ p' = Root /\ q' = Root
      /\ qIn' = NextPosition(qIn) /\ qIn' # qOut
      /\ UNCHANGED <<next, index, qOut, event>>
  BY <1>1 DEF BeginSend, Linked
<1>3. FreePositions' = FreePositions \ {qIn}
  BY <1>2, TakePosition DEF IInv
<1>4. List' = List /\ QueuedSlots' = QueuedSlots /\ \A x : Linked(x)' = Linked(x)
  BY <1>2, SameList
<1>5. CircleIsSound'
  <2>1. FreeCount' = FreeCount - 1 /\ FlightCount = 0 /\ FlightCount' = 1
    BY <1>2, TakeCounts DEF IInv, FlightCount
  <2>2. Len(List) \in Nat /\ FreeCount \in 1..N /\ Len(List) + FreeCount + FlightCount = N
    BY ListShape, FreeCountRange DEF LInv, CircleIsSound, IInv
  <2>3. Len(List) + FreeCount' + FlightCount' = N
    BY <2>1, <2>2, NAssumption
  <2> QED
    BY <1>2, <1>4, <2>3 DEF LInv, CircleIsSound
<1>6. NoneIsMissing'
  BY <1>2, <1>3, <1>4 DEF LInv, NoneIsMissing
<1>7. PlaceIsRight'
  <2>1. 0 \in 0..Len(List) /\ NodeAt(List, 0) = Root /\ NodeAt(List, 0 - 1) = Root
    BY ListShape DEF LInv, CircleIsSound, NodeAt
  <2>2. \A j \in 1..(0-1) : FALSE
    OBVIOUS
  <2> QED
    BY <1>2, <1>4, <2>1, <2>2 DEF PlaceIsRight
<1> QED
  BY <1>5, <1>6, <1>7 DEF LInv

(* Each step of the search passes one message.                              *)
LEMMA SearchStepLInv ==
  ASSUME IInv, LInv, SearchStep
  PROVE  LInv'
<1>1. /\ pc = "search" /\ SearchGoesOn /\ q' = p /\ p' = next[p]
      /\ UNCHANGED <<pool, next, index, qIn, qOut, pc, msg, event>>
  BY DEF SearchStep
<1>2. List' = List /\ QueuedSlots' = QueuedSlots /\ \A x : Linked(x)' = Linked(x)
  BY <1>1, SameList
<1>3. CircleIsSound' /\ NoneIsMissing'
  BY <1>1, <1>2 DEF LInv, CircleIsSound, NoneIsMissing, FreeCount, FlightCount, FreePositions
<1>4. PICK i \in 0..Len(List) :
        /\ p = NodeAt(List, i) /\ q = NodeAt(List, i - 1)
        /\ \A j \in 1..(i-1) : pool[msg].prio <= pool[List[j]].prio
  BY <1>1 DEF LInv, PlaceIsRight
<1>5. /\ Len(List) \in Nat /\ next[p] = NodeAt(List, i + 1) /\ next[p] # Root
      /\ \A j \in 1..Len(List) : List[j] \in Slots
  BY <1>1, <1>4, ListShape DEF LInv, CircleIsSound, IsList, SearchGoesOn
<1>6. i + 1 \in 1..Len(List) /\ i + 1 \in 0..Len(List) /\ (i + 1) - 1 = i
  BY <1>4, <1>5 DEF NodeAt
<1>7. \A j \in 1..i : pool[msg].prio <= pool[List[j]].prio
  <2> TAKE j \in 1..i
  <2>1. CASE j = i
    <3>1. p = List[i] /\ p \in Slots
      BY <1>4, <1>5, <2>1 DEF NodeAt
    <3>2. pool[msg].prio <= pool[p].prio
      BY <1>1, <3>1, NodesAreDistinct DEF SearchGoesOn, PriorityOf
    <3> QED
      BY <2>1, <3>1, <3>2
  <2>2. CASE j # i
    <3>1. j \in 1..(i-1)
      BY <1>4, <2>2
    <3> QED
      BY <1>4, <3>1
  <2> QED
    BY <2>1, <2>2
<1>8. PlaceIsRight'
  BY <1>1, <1>2, <1>4, <1>5, <1>6, <1>7 DEF PlaceIsRight
<1> QED
  BY <1>3, <1>8 DEF LInv

(* Where Link puts the message: in front of the first one that it outranks, *)
(* and at the latest in front of the last one.                              *)
LinksAt(k) ==
  /\ List' = Inserted(List, k, msg) /\ IsList(List', next') /\ Len(List') = Len(List) + 1
  /\ Len(List) = 0 => k = 1
  /\ Len(List) # 0 =>
       /\ k \in 1..Len(List)
       /\ k = Len(List) \/ pool[msg].prio > pool[List[k]].prio
       /\ \A j \in 1..(k-1) : pool[msg].prio <= pool[List[j]].prio

(* Link inserts the message there.                                          *)
LEMMA LinkInserts ==
  ASSUME IInv, LInv, Link
  PROVE  \E k \in 1..(Len(List) + 1) : LinksAt(k)
<1>1. /\ pc = "search" /\ ~SearchGoesOn
      /\ next' = [next EXCEPT ![msg] = next[q], ![q] = msg]
  BY DEF Link
<1>2. PICK i \in 0..Len(List) :
        /\ p = NodeAt(List, i) /\ q = NodeAt(List, i - 1)
        /\ \A j \in 1..(i-1) : pool[msg].prio <= pool[List[j]].prio
  BY <1>1 DEF LInv, PlaceIsRight
<1>3. /\ Len(List) \in Nat /\ next[p] = NodeAt(List, i + 1)
      /\ \A j \in 1..Len(List) : List[j] \in Slots
      /\ next \in [Nodes -> Nodes \cup {Null}] /\ msg \in Slots /\ IsList(List, next)
      /\ pool[msg].prio \in 0..7 /\ \A x \in Slots : pool[x].prio \in 0..7
  BY <1>2, ListShape, PrioritiesAssumption DEF LInv, CircleIsSound, IsList, IInv, TypeOK, Message
<1>4. i = 0 => Len(List) = 0
  <2> SUFFICES ASSUME i = 0, Len(List) # 0 PROVE FALSE
    OBVIOUS
  <2>1. p = Root /\ next[p] = List[1] /\ List[1] # Root
    BY <1>2, <1>3, NodesAreDistinct DEF NodeAt
  <2> QED
    BY <1>1, <1>3, <2>1 DEF SearchGoesOn, PriorityOf, RootPriority
<1> DEFINE k == IF i = 0 THEN 1 ELSE i
<1>5. /\ k \in 1..(Len(List) + 1) /\ q = NodeAt(List, k - 1)
      /\ Len(List) = 0 => k = 1
      /\ Len(List) # 0 => k = i /\ k \in 1..Len(List)
  BY <1>2, <1>3, <1>4 DEF NodeAt
<1>6. ASSUME Len(List) # 0 PROVE k = Len(List) \/ pool[msg].prio > pool[List[k]].prio
  <2>1. k = i /\ i \in 1..Len(List) /\ p = List[i] /\ p \in Slots
    BY <1>2, <1>3, <1>5, <1>6 DEF NodeAt
  <2>2. CASE next[p] = Root
    <3>1. i + 1 \notin 1..Len(List)
      BY <1>3, <2>2, NodesAreDistinct DEF NodeAt
    <3> QED
      BY <1>3, <2>1, <3>1
  <2>3. CASE next[p] # Root
    <3>1. ~(pool[msg].prio <= pool[p].prio)
      BY <1>1, <2>1, <2>3, NodesAreDistinct DEF SearchGoesOn, PriorityOf
    <3> QED
      BY <1>3, <2>1, <3>1
  <2> QED
    BY <2>2, <2>3
<1>7. \A j \in 1..Len(List) : List[j] # msg
  <2>1. ~Linked(msg) /\ \A x \in Slots : Linked(x) <=> x \in QueuedSlots
    BY <1>1 DEF IInv, SearchIsSound, LInv, CircleIsSound
  <2> QED
    BY <1>3, <2>1 DEF QueuedSlots
<1>8. Len(List) + 1 <= N
  BY <1>1, <1>3, ListLength, NAssumption DEF IInv, LInv
<1>9. IsList(Inserted(List, k, msg), next') /\ Len(Inserted(List, k, msg)) = Len(List) + 1
  <2>1. next' = [next EXCEPT ![msg] = next[NodeAt(List, k - 1)], ![NodeAt(List, k - 1)] = msg]
    BY <1>1, <1>5
  <2> HIDE DEF k
  <2> QED
    BY <1>3, <1>5, <1>7, <2>1, InsertedIsList
<1>10. List' = Inserted(List, k, msg)
  <2> HIDE DEF k
  <2>1. ListOf(next') = Inserted(List, k, msg)
    BY <1>8, <1>9, ListIsFound
  <2> QED
    BY <2>1 DEF List
<1>11. \A j \in 1..(k-1) : pool[msg].prio <= pool[List[j]].prio
  BY <1>2
<1>12. LinksAt(k)
  <2> HIDE DEF k
  <2> QED
    BY <1>5, <1>6, <1>9, <1>10, <1>11 DEF LinksAt
<1> HIDE DEF k
<1> QED
  BY <1>5, <1>12

(* With the new message the pointers still form one circle.                 *)
LEMMA LinkLInv ==
  ASSUME IInv, LInv, Link
  PROVE  LInv'
<1>1. /\ pc = "search" /\ pc' = "idle" /\ UNCHANGED <<pool, index, qIn, qOut>>
      /\ next' = [next EXCEPT ![msg] = next[q], ![q] = msg]
  BY DEF Link
<1>2. PICK k \in 1..(Len(List) + 1) : LinksAt(k)
  BY LinkInserts
<1>3. /\ List' = Inserted(List, k, msg) /\ IsList(List', next') /\ Len(List') = Len(List) + 1
  BY <1>2 DEF LinksAt
<1>4. /\ Len(List) \in Nat /\ \A j \in 1..Len(List) : List[j] \in Slots
      /\ msg \in Slots /\ ~Linked(msg) /\ q \in Nodes /\ Linked(q) /\ Linked(next[q]) /\ q # msg
  BY <1>1, ListShape DEF LInv, CircleIsSound, IInv, TypeOK, SearchIsSound, LinksPermute
<1>5. \A x \in Nodes : next'[x] = IF x = q THEN msg ELSE IF x = msg THEN next[q] ELSE next[x]
  BY <1>1, <1>4 DEF IInv, TypeOK, Nodes
<1>6. \A x \in Slots : Linked(x)' <=> Linked(x) \/ x = msg
  BY <1>4, <1>5, NodesAreDistinct DEF Linked, Nodes
<1>7. \A x \in Slots : x \in QueuedSlots' <=> x \in QueuedSlots \/ x = msg
  <2> TAKE x \in Slots
  <2>1. \A i \in 1..(Len(List) + 1) :
          List'[i] = IF i < k THEN List[i] ELSE IF i = k THEN msg ELSE List[i - 1]
    BY <1>3 DEF Inserted
  <2>2. ASSUME NEW i \in 1..(Len(List) + 1), List'[i] = x
        PROVE  (\E j \in 1..Len(List) : List[j] = x) \/ x = msg
    <3>1. CASE i < k
      <4>1. i \in 1..Len(List)
        BY <1>4, <3>1
      <4> QED
        BY <2>1, <2>2, <3>1, <4>1
    <3>2. CASE i = k
      BY <2>1, <2>2, <3>2
    <3>3. CASE i > k
      <4>1. i - 1 \in 1..Len(List) /\ ~(i < k) /\ i # k
        BY <1>4, <3>3
      <4> QED
        BY <2>1, <2>2, <4>1
    <3> QED
      BY <3>1, <3>2, <3>3
  <2>3. ASSUME NEW j \in 1..Len(List), List[j] = x
        PROVE  \E i \in 1..(Len(List) + 1) : List'[i] = x
    <3>1. CASE j < k
      <4>1. j \in 1..(Len(List) + 1)
        BY <1>4
      <4> QED
        BY <2>1, <2>3, <3>1, <4>1
    <3>2. CASE j >= k
      <4>1. /\ j + 1 \in 1..(Len(List) + 1) /\ ~(j + 1 < k) /\ j + 1 # k
            /\ (j + 1) - 1 = j
        BY <1>4, <3>2
      <4>2. List'[j + 1] = x
        BY <2>1, <2>3, <4>1
      <4> QED
        BY <4>1, <4>2
    <3> QED
      BY <3>1, <3>2
  <2>4. List'[k] = msg
    BY <2>1
  <2> QED
    BY <1>3, <2>2, <2>3, <2>4 DEF QueuedSlots
<1>8. CircleIsSound'
  <2>1. FreeCount' = FreeCount /\ FlightCount = 1 /\ FlightCount' = 0
    BY <1>1 DEF FreeCount, FlightCount
  <2>2. Len(List) \in Nat /\ FreeCount \in 1..N /\ Len(List) + FreeCount + FlightCount = N
    BY <1>4, FreeCountRange DEF LInv, CircleIsSound, IInv
  <2>3. Len(List') + FreeCount' + FlightCount' = N
    BY <1>3, <2>1, <2>2, NAssumption
  <2>4. \A x \in Slots : Linked(x)' <=> x \in QueuedSlots'
    BY <1>6, <1>7 DEF LInv, CircleIsSound
  <2> QED
    BY <1>3, <2>3, <2>4 DEF CircleIsSound
<1>9. NoneIsMissing'
  <2>1. FreePositions' = FreePositions
    BY <1>1 DEF FreePositions
  <2> QED
    BY <1>1, <1>6, <2>1 DEF LInv, NoneIsMissing
<1> QED
  BY <1>1, <1>8, <1>9 DEF LInv, PlaceIsRight

(* GetMessage takes the first slot from the list and makes it free.         *)
LEMMA GetTakesFirst ==
  ASSUME IInv, LInv, Get
  PROVE  /\ Len(List) # 0 /\ List[1] = next[Root]
         /\ List' = Tail(List) /\ IsList(List', next') /\ Len(List') = Len(List) - 1
         /\ \A i \in 1..(Len(List)-1) : List'[i] = List[i + 1]
<1> DEFINE head == next[Root]
<1>1. /\ head # Root
      /\ next' = [next EXCEPT ![Root] = next[head], ![head] = Null]
  BY DEF Get
<1>2. /\ Len(List) \in Nat /\ IsList(List, next) /\ next \in [Nodes -> Nodes \cup {Null}]
      /\ NodeAt(List, 0) = Root /\ 0 \in 0..Len(List)
  BY ListShape DEF LInv, CircleIsSound, IInv, TypeOK, NodeAt
<1>3. head = NodeAt(List, 0 + 1)
  BY <1>2 DEF IsList
<1>4. Len(List) # 0 /\ head = List[1]
  BY <1>1, <1>2, <1>3 DEF NodeAt
<1>5. /\ IsList(Tail(List), next') /\ Len(Tail(List)) = Len(List) - 1
      /\ \A i \in 1..(Len(List)-1) : Tail(List)[i] = List[i + 1]
  <2>1. next' = [next EXCEPT ![Root] = next[List[1]], ![List[1]] = Null]
    BY <1>1, <1>4
  <2> QED
    BY <1>2, <1>4, <2>1, TailIsList
<1>6. Len(Tail(List)) <= N
  BY <1>2, <1>5, ListLength, NAssumption DEF IInv, LInv
<1>7. List' = Tail(List)
  <2>1. ListOf(next') = Tail(List)
    BY <1>5, <1>6, ListIsFound
  <2> QED
    BY <2>1 DEF List
<1> QED
  BY <1>4, <1>5, <1>7

(* What is left of the circle is one.                                       *)
LEMMA GetLInv ==
  ASSUME IInv, LInv, Get
  PROVE  LInv'
<1> DEFINE head == next[Root]
<1>1. /\ pc = "idle" /\ head # Root
      /\ index' = [index EXCEPT ![qOut] = head]
      /\ next' = [next EXCEPT ![Root] = next[head], ![head] = Null]
      /\ qOut' = NextPosition(qOut)
      /\ UNCHANGED <<qIn, pc, msg, p, q>>
  BY DEF Get
<1>2. /\ Len(List) # 0 /\ List[1] = head /\ IsList(List', next') /\ Len(List') = Len(List) - 1
      /\ \A i \in 1..(Len(List)-1) : List'[i] = List[i + 1]
  BY GetTakesFirst
<1>3. /\ Len(List) \in Nat /\ \A j \in 1..Len(List) : List[j] \in Slots
      /\ \A i, j \in 1..Len(List) : i # j => List[i] # List[j]
      /\ 1 \in 1..Len(List)
  BY <1>2, ListShape DEF LInv, CircleIsSound, IsList
<1>4. /\ head \in Slots /\ Linked(head) /\ Root \in Nodes /\ head \in Nodes /\ qOut \in Slots
      /\ index \in [Slots -> Slots]
  BY <1>2, <1>3 DEF LInv, CircleIsSound, QueuedSlots, Nodes, IInv, TypeOK
<1>5. \A x \in Nodes : next'[x] = IF x = head THEN Null ELSE IF x = Root THEN next[head] ELSE next[x]
  BY <1>1, <1>4 DEF IInv, TypeOK
<1>6. \A x \in Slots : Linked(x)' <=> Linked(x) /\ x # head
  BY <1>4, <1>5, NodesAreDistinct DEF Linked, Nodes
<1>7. \A x \in Slots : x \in QueuedSlots' <=> x \in QueuedSlots /\ x # head
  <2> TAKE x \in Slots
  <2>1. ASSUME NEW i \in 1..(Len(List)-1), List'[i] = x
        PROVE  x \in QueuedSlots /\ x # head
    <3>1. i + 1 \in 1..Len(List) /\ i + 1 # 1
      BY <1>3
    <3> QED
      BY <1>2, <1>3, <2>1, <3>1 DEF QueuedSlots
  <2>2. ASSUME NEW j \in 1..Len(List), List[j] = x, x # head
        PROVE  \E i \in 1..(Len(List)-1) : List'[i] = x
    <3>1. j # 1
      BY <1>2, <2>2
    <3>2. j - 1 \in 1..(Len(List)-1) /\ (j - 1) + 1 = j
      BY <1>3, <3>1
    <3> QED
      BY <1>2, <2>2, <3>2
  <2> QED
    BY <1>2, <2>1, <2>2 DEF QueuedSlots
<1>8. FreeCount # N /\ qIn # qOut
  <2>1. FreeCount # N
    BY <1>2, ListLength DEF IInv, LInv
  <2>2. qIn = qOut => FreeCount = N
    BY <1>4, NAssumption DEF FreeCount, Slots
  <2> QED
    BY <2>1, <2>2
<1>9. CircleIsSound'
  <2>1. FreeCount' = FreeCount + 1 /\ FlightCount = 0 /\ FlightCount' = 0
    BY <1>1, <1>8, GiveCounts DEF IInv, FlightCount
  <2>2. FreeCount \in 1..N /\ Len(List) + FreeCount + FlightCount = N
    BY FreeCountRange DEF LInv, CircleIsSound, IInv
  <2>3. Len(List') + FreeCount' + FlightCount' = N
    <3>1. Len(List) \in Nat /\ Len(List') = Len(List) - 1 /\ FreeCount \in Nat /\ N \in Nat
      BY <1>2, <1>3, <2>2, NAssumption
    <3> QED
      BY <2>1, <2>2, <3>1
  <2>4. \A x \in Slots : Linked(x)' <=> x \in QueuedSlots'
    BY <1>6, <1>7 DEF LInv, CircleIsSound
  <2> QED
    BY <1>2, <2>3, <2>4 DEF CircleIsSound
<1>10. NoneIsMissing'
  <2>1. FreePositions' = FreePositions \cup {qOut} /\ qOut \notin FreePositions
    BY <1>1, <1>8, GivePosition DEF IInv
  <2>2. index'[qOut] = head /\ \A i \in FreePositions : index'[i] = index[i]
    BY <1>1, <1>4, <2>1, FreePositionsType DEF IInv
  <2> QED
    BY <1>1, <1>6, <2>1, <2>2 DEF LInv, NoneIsMissing
<1> QED
  BY <1>1, <1>9, <1>10 DEF LInv, PlaceIsRight

(* The invariants about the list hold initially.                            *)
LEMMA InitLInv == Init => LInv
<1> SUFFICES ASSUME Init PROVE LInv
  OBVIOUS
<1>1. next[Root] = Root /\ \A x \in Slots : next[x] = Null /\ index[x] = x
  BY NodesAreDistinct DEF Init, Nodes
<1>2. IsList(<<>>, next) /\ Len(<<>>) = 0
  <2>1. <<>> \in Seq(Slots) /\ Len(<<>>) = 0
    BY EmptySeq
  <2> QED
    BY <1>1, <2>1 DEF IsList, NodeAt
<1>3. List = <<>>
  <2>1. Len(<<>>) <= N
    BY <1>2, NAssumption
  <2> QED
    BY <1>2, <2>1, ListIsFound DEF List
<1>4. QueuedSlots = {}
  BY <1>2, <1>3 DEF QueuedSlots
<1>5. FreeCount = N /\ FlightCount = 0 /\ FreePositions = Slots
  BY NAssumption DEF Init, FreeCount, FlightCount, FreePositions, Slots
<1> QED
  BY <1>1, <1>2, <1>3, <1>4, <1>5, NAssumption
  DEF Init, LInv, CircleIsSound, NoneIsMissing, PlaceIsRight, Linked

(* Every step keeps the invariants about the list.                          *)
LEMMA NextLInv == IInv /\ LInv /\ [Next]_vars => LInv'
<1> SUFFICES ASSUME IInv, LInv, [Next]_vars PROVE LInv'
  OBVIOUS
<1>1. ASSUME UNCHANGED <<pool, next, index, qIn, qOut, pc, msg, p, q>> PROVE LInv'
  <2>1. List' = List /\ QueuedSlots' = QueuedSlots /\ \A x : Linked(x)' = Linked(x)
    BY <1>1, SameList
  <2> QED
    BY <1>1, <2>1 DEF LInv, CircleIsSound, NoneIsMissing, PlaceIsRight, FreeCount, FlightCount,
      FreePositions
<1>2. CASE Discard \/ GetNothing
  BY <1>1, <1>2 DEF Discard, GetNothing
<1>3. CASE \E m \in Message : BeginSend(m)
  BY <1>3, BeginSendLInv
<1>4. CASE SearchStep
  BY <1>4, SearchStepLInv
<1>5. CASE Link
  BY <1>5, LinkLInv
<1>6. CASE Get
  BY <1>6, GetLInv
<1>7. CASE UNCHANGED vars
  BY <1>1, <1>7 DEF vars
<1> QED
  BY <1>2, <1>3, <1>4, <1>5, <1>6, <1>7 DEF Next

(* Both invariants hold in every reachable state.                           *)
LEMMA Invariance == Spec => [](IInv /\ LInv)
BY InitIInv, NextIInv, InitLInv, NextLInv, PTL DEF Spec

(* The pointers form one circle through the root that visits the queued     *)
(* slots, and those of the others are null.                                 *)
THEOREM ListIsCircular == Spec => []ListIsSound
<1>1. IInv /\ LInv => ListIsSound
  BY DEF LInv, CircleIsSound, ListIsSound, Linked
<1> QED
  BY <1>1, Invariance, PTL

(* No slot is lost and none is used twice.                                  *)
THEOREM NoSlotIsLost == Spec => []SlotsAreConserved
<1>1. IInv /\ LInv => SlotsAreConserved
  <2> SUFFICES ASSUME IInv, LInv PROVE SlotsAreConserved
    OBVIOUS
  <2>1. \A i, j \in FreePositions : i # j => index[i] # index[j]
    BY DEF IInv, FreeIsUnlinked
  <2>2. \A x \in QueuedSlots : x \in Slots /\ Linked(x)
    BY ListShape DEF LInv, CircleIsSound, QueuedSlots
  <2>3. \A x \in FreeSlots : x \in Slots /\ ~Linked(x)
    BY FreePositionsType DEF FreeSlots, IInv, TypeOK, FreeIsUnlinked
  <2>4. \A x \in InFlight : x \in Slots /\ ~Linked(x) /\ x \notin FreeSlots
    BY DEF InFlight, FreeSlots, IInv, TypeOK, SearchIsSound
  <2>5. \A x \in Slots : x \in FreeSlots \cup QueuedSlots \cup InFlight
    BY DEF LInv, CircleIsSound, NoneIsMissing, FreeSlots, InFlight
  <2> QED
    BY <2>1, <2>2, <2>3, <2>4, <2>5 DEF SlotsAreConserved
<1> QED
  BY <1>1, Invariance, PTL

-----------------------------------------------------------------------------

(* The messages of the list are a sequence.                                 *)
ContentsAreMessages ==
  /\ Contents \in Seq(Message) /\ Len(Contents) = Len(List)
  /\ \A i \in 1..Len(List) : Contents[i] = pool[List[i]]

(* All that is in the list are messages.                                    *)
LEMMA ContentsType == IInv /\ LInv => ContentsAreMessages
<1> SUFFICES ASSUME IInv, LInv PROVE ContentsAreMessages
  OBVIOUS
<1>1. Len(List) \in Nat /\ \A i \in 1..Len(List) : List[i] \in Slots
  BY ListShape DEF LInv, CircleIsSound
<1>2. Contents \in [1..Len(List) -> Message]
  BY <1>1 DEF Contents, IInv, TypeOK
<1>3. Contents \in Seq(Message) /\ Len(Contents) = Len(List)
  BY <1>1, <1>2, FunctionIsSequence
<1> QED
  BY <1>3 DEF ContentsAreMessages, Contents

(* The same of the state after a step.                                      *)
LEMMA ContentsAfterStep == IInv' /\ LInv' => ContentsAreMessages'
BY ContentsType, PTL

(* What it is to insert an element into a sequence.                         *)
LEMMA InsertAtIsInserted ==
  ASSUME NEW S, NEW s \in Seq(S), NEW k \in 1..(Len(s) + 1), NEW x \in S
  PROVE  /\ Abstract!InsertAt(s, k, x) \in Seq(S)
         /\ Len(Abstract!InsertAt(s, k, x)) = Len(s) + 1
         /\ \A i \in 1..(Len(s) + 1) : Abstract!InsertAt(s, k, x)[i] =
              IF i < k THEN s[i] ELSE IF i = k THEN x ELSE s[i - 1]
<1> DEFINE a == SubSeq(s, 1, k - 1)
           b == <<x>>
           c == SubSeq(s, k, Len(s))
<1>1. Abstract!InsertAt(s, k, x) = (a \o b) \o c
  BY DEF Abstract!InsertAt
<1>2. Len(s) \in Nat /\ \A i \in 1..Len(s) : s[i] \in S
  BY LenProperties
<1>3. a \in Seq(S) /\ Len(a) = k - 1 /\ \A i \in 1..(k-1) : a[i] = s[i]
  <2>1. 1 \in Int /\ k - 1 \in Int /\ \A i \in 1..(k-1) : s[i] \in S
    BY <1>2
  <2>2. /\ a \in Seq(S) /\ Len(a) = IF 1 <= k - 1 THEN k - 1 - 1 + 1 ELSE 0
        /\ \A i \in 1..(k-1-1+1) : a[i] = s[1 + i - 1]
    BY <2>1, SubSeqProperties
  <2> HIDE DEF a
  <2> QED
    BY <1>2, <2>2
<1>4. c \in Seq(S) /\ Len(c) = Len(s) - k + 1 /\ \A i \in 1..(Len(s)-k+1) : c[i] = s[k + i - 1]
  <2>1. k \in Int /\ Len(s) \in Int /\ \A i \in k..Len(s) : s[i] \in S
    BY <1>2
  <2>2. /\ c \in Seq(S) /\ Len(c) = IF k <= Len(s) THEN Len(s) - k + 1 ELSE 0
        /\ \A i \in 1..(Len(s)-k+1) : c[i] = s[k + i - 1]
    BY <2>1, SubSeqProperties
  <2> HIDE DEF c
  <2> QED
    BY <1>2, <2>2
<1>5. b \in Seq(S) /\ Len(b) = 1 /\ b[1] = x
  OBVIOUS
<1> HIDE DEF a, b, c
<1>6. /\ a \o b \in Seq(S) /\ Len(a \o b) = k
      /\ \A i \in 1..k : (a \o b)[i] = IF i < k THEN s[i] ELSE x
  <2>1. /\ a \o b \in Seq(S) /\ Len(a \o b) = Len(a) + Len(b)
        /\ \A i \in 1..(Len(a) + Len(b)) :
             (a \o b)[i] = IF i <= Len(a) THEN a[i] ELSE b[i - Len(a)]
    BY <1>3, <1>5, ConcatProperties
  <2>2. Len(a) + Len(b) = k
    BY <1>3, <1>5
  <2>3. ASSUME NEW i \in 1..k PROVE (a \o b)[i] = IF i < k THEN s[i] ELSE x
    <3>1. CASE i < k
      <4>1. i \in 1..(k-1) /\ i <= Len(a)
        BY <1>3, <3>1
      <4> QED
        BY <1>3, <2>1, <2>2, <3>1, <4>1
    <3>2. CASE i = k
      <4>1. ~(i <= Len(a)) /\ i - Len(a) = 1
        BY <1>3, <3>2
      <4> QED
        BY <1>5, <2>1, <2>2, <3>2, <4>1
    <3>3. i < k \/ i = k
      BY <1>2
    <3> QED
      BY <3>1, <3>2, <3>3
  <2> QED
    BY <2>1, <2>2, <2>3
<1> DEFINE d == a \o b
<1>7. d \in Seq(S) /\ Len(d) = k /\ \A i \in 1..k : d[i] = IF i < k THEN s[i] ELSE x
  BY <1>6
<1> HIDE DEF d
<1>8. /\ d \o c \in Seq(S) /\ Len(d \o c) = Len(s) + 1
      /\ \A i \in 1..(Len(s) + 1) :
           (d \o c)[i] = IF i < k THEN s[i] ELSE IF i = k THEN x ELSE s[i - 1]
  <2>1. /\ d \o c \in Seq(S) /\ Len(d \o c) = Len(d) + Len(c)
        /\ \A i \in 1..(Len(d) + Len(c)) :
             (d \o c)[i] = IF i <= Len(d) THEN d[i] ELSE c[i - Len(d)]
    BY <1>4, <1>7, ConcatProperties
  <2>2. Len(d) + Len(c) = Len(s) + 1
    BY <1>2, <1>4, <1>7
  <2>3. ASSUME NEW i \in 1..(Len(s) + 1)
        PROVE  (d \o c)[i] = IF i < k THEN s[i] ELSE IF i = k THEN x ELSE s[i - 1]
    <3>1. CASE i <= k
      <4>1. i \in 1..k /\ i <= Len(d)
        BY <1>7, <3>1
      <4>2. (d \o c)[i] = d[i]
        BY <2>1, <2>2, <4>1
      <4> QED
        BY <1>7, <3>1, <4>1, <4>2
    <3>2. CASE i > k
      <4>1. i - k \in 1..(Len(s)-k+1) /\ ~(i <= Len(d)) /\ k + (i - k) - 1 = i - 1
        BY <1>2, <1>7, <3>2
      <4>2. (d \o c)[i] = c[i - k]
        BY <1>7, <2>1, <2>2, <4>1
      <4>3. c[i - k] = s[i - 1]
        BY <1>4, <4>1
      <4>4. ~(i < k) /\ i # k
        BY <1>2, <3>2
      <4> QED
        BY <4>2, <4>3, <4>4
    <3>3. i <= k \/ i > k
      BY <1>2
    <3> QED
      BY <3>1, <3>2, <3>3
  <2> QED
    BY <2>1, <2>2, <2>3
<1> QED
  BY <1>1, <1>8 DEF d

(* Link inserts the message into the abstract queue.                        *)
LEMMA LinkIsSend ==
  ASSUME IInv, LInv, IInv', LInv', Link
  PROVE  Abstract!Send(pool[msg])
<1>1. pc = "search" /\ UNCHANGED pool /\ event' = [op |-> "sent"]
  BY DEF Link
<1> DEFINE m == pool[msg]
<1>2. PICK k \in 1..(Len(List) + 1) : LinksAt(k)
  BY LinkInserts
<1>3. /\ Contents \in Seq(Message) /\ Len(Contents) = Len(List)
      /\ \A i \in 1..Len(List) : Contents[i] = pool[List[i]]
      /\ Contents' \in Seq(Message) /\ Len(Contents') = Len(List')
      /\ \A i \in 1..Len(List') : Contents'[i] = pool[List'[i]]
  BY <1>1, ContentsType, ContentsAfterStep DEF ContentsAreMessages
<1>4. /\ Len(List) \in Nat /\ Len(List') = Len(List) + 1 /\ Len(List) < N - 1
      /\ m \in Message /\ m.prio \in 0..7
      /\ \A i \in 1..Len(List) : List[i] \in Slots /\ pool[List[i]].prio \in 0..7
  BY <1>1, <1>2, ListShape, ListLength, PrioritiesAssumption
  DEF LinksAt, LInv, CircleIsSound, IInv, TypeOK, Message
<1>5. \A i \in 1..(Len(List) + 1) :
        Contents'[i] = IF i < k THEN Contents[i] ELSE IF i = k THEN m ELSE Contents[i - 1]
  <2> TAKE i \in 1..(Len(List) + 1)
  <2>1. List'[i] = IF i < k THEN List[i] ELSE IF i = k THEN msg ELSE List[i - 1]
    BY <1>2 DEF LinksAt, Inserted
  <2>2. Contents'[i] = pool[List'[i]]
    BY <1>3, <1>4
  <2>3. i < k => i \in 1..Len(List)
    BY <1>4
  <2>4. i > k => i - 1 \in 1..Len(List)
    BY <1>4
  <2>5. i < k \/ i = k \/ i > k
    OBVIOUS
  <2> QED
    BY <1>3, <2>1, <2>2, <2>3, <2>4, <2>5
<1> HIDE DEF m
<1>6. Contents' = Abstract!InsertAt(Contents, k, m)
  <2>1. /\ Abstract!InsertAt(Contents, k, m) \in Seq(Message)
        /\ Len(Abstract!InsertAt(Contents, k, m)) = Len(Contents) + 1
        /\ \A i \in 1..(Len(Contents) + 1) : Abstract!InsertAt(Contents, k, m)[i] =
             IF i < k THEN Contents[i] ELSE IF i = k THEN m ELSE Contents[i - 1]
    <3>1. k \in 1..(Len(Contents) + 1)
      BY <1>3
    <3> QED
      BY <1>3, <1>4, <3>1, InsertAtIsInserted
  <2>2. \A i \in 1..Len(Contents') : Contents'[i] = Abstract!InsertAt(Contents, k, m)[i]
    <3>1. Len(Contents') = Len(Contents) + 1
      BY <1>3, <1>4
    <3> TAKE i \in 1..Len(Contents')
    <3>2. i \in 1..(Len(List) + 1) /\ i \in 1..(Len(Contents) + 1)
      BY <1>3, <3>1
    <3>3. Contents'[i] = IF i < k THEN Contents[i] ELSE IF i = k THEN m ELSE Contents[i - 1]
      BY <1>5, <3>2
    <3> QED
      BY <2>1, <3>2, <3>3
  <2> QED
    BY <1>3, <1>4, <2>1, <2>2, SeqEqual
<1>7. Contents' = Abstract!Insert(Contents, m)
  <2>1. CASE Len(List) = 0
    <3>1. Contents = <<>> /\ k = 1
      BY <1>2, <1>3, <2>1, EmptySeq DEF LinksAt
    <3>2. Len(Contents') = 1 /\ Contents'[1] = m
      BY <1>2, <1>3, <1>4, <1>5, <2>1, <3>1
    <3>3. Contents' = <<m>>
      <4>1. <<m>> \in Seq(Message) /\ Len(<<m>>) = 1 /\ <<m>>[1] = m
        BY <1>4
      <4>2. \A i \in 1..Len(Contents') : Contents'[i] = <<m>>[i]
        BY <3>2, <4>1
      <4> QED
        BY <1>3, <3>2, <4>1, <4>2, SeqEqual
    <3> QED
      BY <3>1, <3>3 DEF Abstract!Insert
  <2>2. CASE Len(List) # 0
    <3>1. Contents # <<>>
      BY <1>3, <2>2, EmptySeq
    <3>2. k \in 1..Len(Contents) /\ Abstract!IsPlace(Contents, m.prio, k)
      <4>1. /\ k \in 1..Len(List) /\ (k = Len(List) \/ m.prio > pool[List[k]].prio)
            /\ \A j \in 1..(k-1) : m.prio <= pool[List[j]].prio
        BY <1>2, <2>2 DEF LinksAt, m
      <4>2. \A j \in 1..(k-1) : j \in 1..Len(List)
        BY <1>4, <4>1
      <4> QED
        BY <1>3, <4>1, <4>2 DEF Abstract!IsPlace
    <3>3. ASSUME NEW i \in 1..Len(Contents), Abstract!IsPlace(Contents, m.prio, i)
          PROVE  i = k
      <4>1. /\ i = Len(Contents) \/ m.prio > Contents[i].prio
            /\ \A j \in 1..(i-1) : m.prio <= Contents[j].prio
            /\ k = Len(Contents) \/ m.prio > Contents[k].prio
            /\ \A j \in 1..(k-1) : m.prio <= Contents[j].prio
        BY <3>2, <3>3 DEF Abstract!IsPlace
      <4>2. \A j \in 1..Len(Contents) : Contents[j].prio \in 0..7
        BY <1>3, <1>4
      <4>3. CASE i < k
        <5>1. i \in 1..(k-1) /\ i # Len(Contents)
          BY <1>3, <1>4, <3>2, <4>3
        <5>2. m.prio > Contents[i].prio
          BY <4>1, <5>1
        <5>3. m.prio <= Contents[i].prio
          BY <4>1, <5>1
        <5>4. PICK a \in 0..7, b \in 0..7 : a = m.prio /\ b = Contents[i].prio
          BY <1>4, <4>2, <3>3
        <5>5. a > b /\ a <= b
          BY <5>2, <5>3, <5>4
        <5> QED
          BY <5>5
      <4>4. CASE k < i
        <5>1. k \in 1..(i-1) /\ k # Len(Contents)
          BY <1>3, <1>4, <3>2, <4>4
        <5>2. m.prio > Contents[k].prio
          BY <4>1, <5>1
        <5>3. m.prio <= Contents[k].prio
          BY <4>1, <5>1
        <5>4. PICK a \in 0..7, b \in 0..7 : a = m.prio /\ b = Contents[k].prio
          BY <1>4, <3>2, <4>2
        <5>5. a > b /\ a <= b
          BY <5>2, <5>3, <5>4
        <5> QED
          BY <5>5
      <4> QED
        BY <3>2, <4>3, <4>4
    <3>4. k = CHOOSE i \in 1..Len(Contents) : Abstract!IsPlace(Contents, m.prio, i)
      BY <3>2, <3>3
    <3> QED
      BY <1>6, <3>1, <3>4 DEF Abstract!Insert
  <2> QED
    BY <2>1, <2>2
<1>8. Len(Contents) < N - 1
  BY <1>3, <1>4
<1> QED
  BY <1>1, <1>7, <1>8 DEF Abstract!Send, m

(* GetMessage takes the first message of the abstract queue.                *)
LEMMA GetIsGet ==
  ASSUME IInv, LInv, IInv', LInv', Get
  PROVE  Abstract!Get
<1> DEFINE head == next[Root]
<1>1. /\ event' = [op |-> "got", msg |-> pool[head]]
      /\ pool' = [pool EXCEPT ![head] = Cleared]
  BY DEF Get
<1>2. /\ Len(List) # 0 /\ List[1] = head /\ Len(List') = Len(List) - 1
      /\ \A i \in 1..(Len(List)-1) : List'[i] = List[i + 1]
  BY GetTakesFirst
<1>3. /\ Contents \in Seq(Message) /\ Len(Contents) = Len(List)
      /\ \A i \in 1..Len(List) : Contents[i] = pool[List[i]]
      /\ Contents' \in Seq(Message) /\ Len(Contents') = Len(List')
      /\ \A i \in 1..Len(List') : Contents'[i] = pool'[List'[i]]
  BY ContentsType, ContentsAfterStep DEF ContentsAreMessages
<1>4. /\ Len(List) \in Nat /\ \A j \in 1..Len(List) : List[j] \in Slots
      /\ \A i, j \in 1..Len(List) : i # j => List[i] # List[j]
      /\ 1 \in 1..Len(List)
  BY <1>2, ListShape DEF LInv, CircleIsSound, IsList
<1>5. /\ Contents # <<>> /\ Head(Contents) = pool[head]
      /\ Tail(Contents) \in Seq(Message) /\ Len(Tail(Contents)) = Len(List) - 1
      /\ \A i \in 1..(Len(List)-1) : Tail(Contents)[i] = Contents[i + 1]
  <2>1. Contents # <<>>
    BY <1>2, <1>3, EmptySeq
  <2>2. Head(Contents) = Contents[1]
    BY <1>3, <2>1
  <2> QED
    BY <1>2, <1>3, <1>4, <2>1, <2>2, HeadTailProperties
<1>6. ASSUME NEW i \in 1..(Len(List)-1) PROVE Contents'[i] = Tail(Contents)[i]
  <2>1. i + 1 \in 1..Len(List) /\ i + 1 # 1
    BY <1>4
  <2>2. List[i + 1] # head /\ List[i + 1] \in Slots
    BY <1>2, <1>4, <2>1
  <2>3. pool'[List[i + 1]] = pool[List[i + 1]]
    BY <1>1, <2>2 DEF IInv, TypeOK
  <2> QED
    BY <1>2, <1>3, <1>5, <2>1, <2>3
<1>7. Contents' = Tail(Contents)
  BY <1>2, <1>3, <1>5, <1>6, SeqEqual
<1> QED
  BY <1>1, <1>5, <1>7 DEF Abstract!Get

(* The linked list and the ring implement the bounded queue: SendMessage    *)
(* puts a message where PrioOrder says, or discards it if the queue is full, *)
(* and GetMessage takes the first one, whatever the size of the pool.       *)
THEOREM ListIsPrioQueue == Spec => ImplementsPrioQueue
<1>1. Init => Abstract!Init
  <2> SUFFICES ASSUME Init PROVE Abstract!Init
    OBVIOUS
  <2>1. next[Root] = Root
    BY NodesAreDistinct DEF Init, Nodes
  <2>2. Len(List) \in Nat /\ next[NodeAt(List, 0)] = NodeAt(List, 0 + 1) /\ NodeAt(List, 0) = Root
        /\ \A i \in 1..Len(List) : List[i] \in Slots
    BY InitLInv, ListShape DEF LInv, CircleIsSound, IsList, NodeAt
  <2>3. Len(List) = 0
    BY <2>1, <2>2, NodesAreDistinct DEF NodeAt
  <2>4. Contents = <<>>
    BY <2>3, InitIInv, InitLInv, ContentsType, EmptySeq DEF ContentsAreMessages
  <2> QED
    BY <2>4 DEF Init, Abstract!Init
<1>2. IInv /\ LInv /\ IInv' /\ LInv' /\ [Next]_vars => [Abstract!Next]_<<Contents, event>>
  <2> SUFFICES ASSUME IInv, LInv, IInv', LInv', [Next]_vars
               PROVE  [Abstract!Next]_<<Contents, event>>
    OBVIOUS
  <2>1. /\ Contents \in Seq(Message) /\ Len(Contents) = Len(List)
        /\ Len(List) \in Nat /\ \A i \in 1..Len(List) : List[i] \in Slots
    BY ContentsType, ListShape DEF ContentsAreMessages, LInv, CircleIsSound
  <2>2. CASE Discard
    <3>1. Len(List) = N - 1
      <4>1. FreeCount = 1 /\ FlightCount = 0
        BY <2>2, FreeCountRange DEF Discard, IInv, FlightCount
      <4> QED
        BY <2>1, <4>1, NAssumption DEF LInv, CircleIsSound
    <3>2. Contents' = Contents
      BY <2>2, SameList DEF Discard, Contents
    <3> QED
      BY <2>1, <2>2, <3>1, <3>2 DEF Discard, Abstract!Discard, Abstract!Next
  <2>3. CASE \E m \in Message : BeginSend(m)
    <3>1. PICK m \in Message : BeginSend(m)
      BY <2>3
    <3> DEFINE slot == index[qIn]
    <3>2. slot \in Slots /\ ~Linked(slot)
      BY QInIsFree DEF IInv, TypeOK, FreeIsUnlinked
    <3>3. /\ next' = next /\ event' = event
          /\ pool' = [pool EXCEPT ![slot] = m]
      BY <3>1, <3>2 DEF BeginSend, Linked
    <3>4. List' = List
      BY <3>3, SameList
    <3>5. \A i \in 1..Len(List) : pool'[List[i]] = pool[List[i]]
      <4> TAKE i \in 1..Len(List)
      <4>1. Linked(List[i]) /\ List[i] \in Slots
        BY <2>1 DEF LInv, CircleIsSound, QueuedSlots
      <4> QED
        BY <3>2, <3>3, <4>1 DEF IInv, TypeOK
    <3>6. Contents' = Contents
      BY <3>4, <3>5 DEF Contents
    <3> QED
      BY <3>3, <3>6
  <2>4. CASE SearchStep
    BY <2>4, SameList DEF SearchStep, Contents
  <2>5. CASE Link
    <3>1. pool[msg] \in Message
      BY DEF IInv, TypeOK
    <3> QED
      BY <2>5, <3>1, LinkIsSend DEF Abstract!Next, Abstract!Message, Message
  <2>6. CASE Get
    BY <2>6, GetIsGet DEF Abstract!Next
  <2>7. CASE GetNothing
    <3>1. next[NodeAt(List, 0)] = NodeAt(List, 0 + 1) /\ NodeAt(List, 0) = Root
      BY <2>1 DEF LInv, CircleIsSound, IsList, NodeAt
    <3>2. Len(List) = 0
      BY <2>1, <2>7, <3>1, NodesAreDistinct DEF GetNothing, NodeAt
    <3>3. Contents = <<>>
      BY <2>1, <3>2, EmptySeq
    <3>4. Contents' = Contents
      BY <2>7, SameList DEF GetNothing, Contents
    <3> QED
      BY <2>7, <3>3, <3>4 DEF GetNothing, Abstract!GetNothing, Abstract!Next
  <2>8. CASE UNCHANGED vars
    BY <2>8, SameList DEF vars, Contents
  <2> QED
    BY <2>2, <2>3, <2>4, <2>5, <2>6, <2>7, <2>8 DEF Next
<1> QED
  BY <1>1, <1>2, Invariance, PTL DEF Spec, ImplementsPrioQueue, Abstract!Spec, Abstract!vars

=============================================================================
