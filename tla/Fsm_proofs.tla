----------------------------- MODULE Fsm_proofs -----------------------------
(***************************************************************************)
(* Proofs about module Fsm, for any number of state machines and any masks *)
(* and priorities.                                                         *)
(***************************************************************************)
EXTENDS Fsm, SequenceTheorems, WellFoundedInduction, TLAPS

(* The nodes of the circle: the anchor, the machines in the order of their  *)
(* registration, and the anchor again.                                      *)
Reg(i) == IF i \in 1..Len(registered) THEN registered[i] ELSE Anchor

(* No machine is registered twice, the pointers lead from each node to its  *)
(* successor, and those of the other machines are null.                     *)
Chained ==
  /\ \A i, j \in 1..Len(registered) : registered[i] = registered[j] => i = j
  /\ \A i \in 0..Len(registered) : next[Reg(i)] = Reg(i + 1)
  /\ \A m \in Machines : ~IsRegistered(m) => next[m] = Null

(* The machine in the place j is the one that is looked at: those in front  *)
(* of it have been called if they had to, the others have not, and a state  *)
(* function runs because the mask of its machine asked for it.              *)
Due(m) == IF prio \in rxMask[m] THEN 1 ELSE 0

WalkIsAt(j) ==
  /\ p = Reg(j)
  /\ pc = "state" => j <= Len(registered) /\ calls[p] = 1 /\ prio \in rxMask[p]
  /\ pc = "walk" /\ j <= Len(registered) => calls[p] = 0
  /\ \A i \in 1..Len(registered) : i < j => calls[registered[i]] = Due(registered[i])
  /\ \A i \in 1..Len(registered) : i > j => calls[registered[i]] = 0
  /\ \A m \in Machines : ~IsRegistered(m) => calls[m] = 0

WalkIsOrderly == pc # "code" => \E j \in 1..(Len(registered) + 1) : WalkIsAt(j)

IInv == TypeOK /\ Chained /\ WalkIsOrderly

-----------------------------------------------------------------------------

(* The least number principle, which stands for induction.                  *)
LEMMA NatMinimum ==
  ASSUME NEW T \in SUBSET Nat, T # {}
  PROVE  \E x \in T : \A y \in T : x <= y
<1> DEFINE R == OpToRel(<, Nat)
<1>1. IsWellFoundedOn(R, Nat)
  BY NatLessThanWellFounded
<1>2. R = {ss \in Nat \X Nat : ss[1] < ss[2]}
  BY Zenon DEF OpToRel
<1> HIDE DEF R
<1>3. PICK x \in T : \A y \in T : ~(<<y, x>> \in R)
  BY <1>1, WFMin
<1>4. \A y \in T : ~(y < x)
  BY <1>2, <1>3
<1> QED
  BY <1>4

(* What the application has registered is a sequence of machines.           *)
LEMMA RegisteredType ==
  ASSUME TypeOK
  PROVE  /\ Len(registered) \in Nat
         /\ \A i \in 1..Len(registered) : registered[i] \in Machines
         /\ registered = [i \in 1..Len(registered) |-> registered[i]]
         /\ \A i : Reg(i) \in Nodes
BY LenProperties DEF TypeOK, Reg, Nodes

(* Who follows the pointers from the anchor meets the machines in the order *)
(* of their registration, and stays at the anchor when it is there again.   *)
LEMMA WalkMeetsMachines ==
  ASSUME TypeOK, Chained, NEW walk,
         walk = [k \in 0..Len(registered) |->
                   IF k = 0 THEN next[Anchor]
                   ELSE IF walk[k-1] \in Machines THEN next[walk[k-1]] ELSE walk[k-1]]
  PROVE  \A k \in 0..Len(registered) : walk[k] = Reg(k + 1)
<1>1. Len(registered) \in Nat /\ \A i \in 1..Len(registered) : Reg(i) \in Machines
  BY RegisteredType DEF Reg
<1> SUFFICES ASSUME NEW l \in 0..Len(registered), walk[l] # Reg(l + 1) PROVE FALSE
  OBVIOUS
<1> DEFINE T == {k \in Nat : k \in 0..Len(registered) /\ walk[k] # Reg(k + 1)}
<1>2. PICK k \in T : \A j \in T : k <= j
  <2>1. l \in T
    BY <1>1
  <2> QED
    BY <2>1, NatMinimum
<1>3. CASE k = 0
  <2>1. 0 \in 0..Len(registered) /\ Reg(0) = Anchor
    BY <1>1 DEF Reg
  <2>2. walk[0] = Reg(0 + 1)
    BY <2>1 DEF Chained
  <2> QED
    BY <1>2, <1>3, <2>2
<1>4. CASE k # 0
  <2>1. k - 1 \in Nat /\ k - 1 \in 0..Len(registered) /\ k \in 1..Len(registered) /\ ~(k <= k - 1)
        /\ (k - 1) + 1 = k
    BY <1>1, <1>2, <1>4
  <2>2. walk[k - 1] = Reg(k)
    BY <1>2, <2>1
  <2>3. walk[k] = next[walk[k - 1]]
    BY <1>1, <1>2, <1>4, <2>1, <2>2
  <2>4. next[Reg(k)] = Reg(k + 1)
    BY <2>1 DEF Chained
  <2> QED
    BY <1>2, <2>2, <2>3, <2>4
<1> QED
  BY <1>3, <1>4

(* The circle holds the registered machines, and the last one leads back.   *)
LEMMA RegistryIsRegistered ==
  ASSUME TypeOK, Chained
  PROVE  Registry = registered /\ LastNode = Reg(Len(registered))
<1> DEFINE most == Len(registered)
           walk[k \in 0..most] ==
             IF k = 0 THEN next[Anchor]
             ELSE IF walk[k-1] \in Machines THEN next[walk[k-1]] ELSE walk[k-1]
           length == CHOOSE n \in 0..most : /\ \A k \in 0..(n-1) : walk[k] \in Machines
                                            /\ n = most \/ walk[n] \notin Machines
<1>1. /\ most \in Nat /\ registered = [i \in 1..most |-> registered[i]]
      /\ \A i \in 1..most : registered[i] \in Machines
  BY RegisteredType
<1>2. Registry = [i \in 1..length |-> walk[i-1]]
  BY DEF Registry
<1>3. walk = [k \in 0..most |->
                IF k = 0 THEN next[Anchor]
                ELSE IF walk[k-1] \in Machines THEN next[walk[k-1]] ELSE walk[k-1]]
  <2> DEFINE w == [k \in 0..most |-> Reg(k + 1)]
  <2>1. w = [k \in 0..most |->
               IF k = 0 THEN next[Anchor]
               ELSE IF w[k-1] \in Machines THEN next[w[k-1]] ELSE w[k-1]]
    <3> SUFFICES ASSUME NEW k \in 0..most
                 PROVE  w[k] = IF k = 0 THEN next[Anchor]
                               ELSE IF w[k-1] \in Machines THEN next[w[k-1]] ELSE w[k-1]
      BY Zenon
    <3>1. CASE k = 0
      <4>1. 0 \in 0..most /\ Reg(0) = Anchor /\ 0 + 1 = k + 1
        BY <1>1, <3>1 DEF Reg
      <4> QED
        BY <3>1, <4>1 DEF Chained
    <3>2. CASE k # 0
      <4>1. k - 1 \in 0..most /\ k \in 1..most /\ (k - 1) + 1 = k
        BY <1>1, <3>2
      <4>2. w[k] = Reg(k + 1) /\ w[k-1] = Reg(k)
        BY <4>1
      <4>3. Reg(k) \in Machines /\ next[Reg(k)] = Reg(k + 1)
        BY <1>1, <4>1 DEF Reg, Chained
      <4> QED
        BY <3>2, <4>2, <4>3
    <3> QED
      BY <3>1, <3>2
  <2> QED
    BY <2>1
<1> HIDE DEF walk
<1>4. \A k \in 0..most : walk[k] = Reg(k + 1)
  BY <1>3, WalkMeetsMachines
<1>5. \A k \in 0..(most-1) : walk[k] = registered[k + 1]
  <2> TAKE k \in 0..(most-1)
  <2>1. k \in 0..most /\ k + 1 \in 1..most
    BY <1>1
  <2> QED
    BY <1>4, <2>1 DEF Reg
<1>6. length = most
  <2> DEFINE Ends(n) == /\ \A k \in 0..(n-1) : walk[k] \in Machines
                        /\ n = most \/ walk[n] \notin Machines
  <2>1. \A k \in 0..(most-1) : walk[k] \in Machines
    <3> TAKE k \in 0..(most-1)
    <3>1. k + 1 \in 1..most
      BY <1>1
    <3> QED
      BY <1>1, <1>5, <3>1
  <2>2. most \in 0..most /\ Ends(most)
    BY <1>1, <2>1
  <2>3. \A n \in 0..most : Ends(n) => n = most
    <3> SUFFICES ASSUME NEW n \in 0..most, Ends(n), n # most PROVE FALSE
      OBVIOUS
    <3>1. n \in 0..(most-1) /\ walk[n] \notin Machines
      BY <1>1
    <3> QED
      BY <2>1, <3>1
  <2>4. length = CHOOSE n \in 0..most : Ends(n)
    OBVIOUS
  <2> HIDE DEF Ends, length
  <2> QED
    BY <2>2, <2>3, <2>4
<1>7. Registry = registered
  <2>1. \A i \in 1..most : walk[i-1] = registered[i]
    <3> TAKE i \in 1..most
    <3>1. i - 1 \in 0..(most-1) /\ (i - 1) + 1 = i
      BY <1>1
    <3> QED
      BY <1>5, <3>1
  <2> HIDE DEF length, most
  <2> QED
    BY <1>1, <1>2, <1>6, <2>1
<1>8. LastNode = Reg(Len(registered))
  <2>1. registered = <<>> <=> most = 0
    BY EmptySeq DEF TypeOK
  <2> QED
    BY <1>1, <1>7, <2>1 DEF LastNode, Reg
<1> QED
  BY <1>7, <1>8

-----------------------------------------------------------------------------

(* The invariant holds initially.                                           *)
LEMMA InitIInv == Init => IInv
<1> SUFFICES ASSUME Init PROVE IInv
  OBVIOUS
<1>1. registered = <<>> /\ registered \in Seq(Machines) /\ Len(registered) = 0
  BY EmptySeq DEF Init
<1>2. TypeOK
  BY <1>1 DEF Init, TypeOK, Nodes
<1>3. Chained
  <2>1. \A i : Reg(i) = Anchor
    BY <1>1 DEF Reg
  <2>2. next[Anchor] = Anchor /\ \A m \in Machines : next[m] = Null
    BY NodesAssumption DEF Init, Nodes
  <2> QED
    BY <1>1, <2>1, <2>2 DEF Chained
<1> QED
  BY <1>2, <1>3 DEF Init, IInv, WalkIsOrderly

(* A machine that is looked at is registered, and its pointer leads to the  *)
(* next one.                                                                *)
LEMMA NextMachine ==
  ASSUME TypeOK, Chained, NEW j \in 1..(Len(registered) + 1), p = Reg(j), p # Anchor
  PROVE  /\ j \in 1..Len(registered) /\ p = registered[j] /\ p \in Machines /\ p \in Nodes
         /\ next[p] = Reg(j + 1) /\ Reg(j + 1) \in Nodes
<1>1. j \in 1..Len(registered) /\ j \in 0..Len(registered) /\ p = registered[j]
  BY RegisteredType DEF Reg
<1> QED
  BY <1>1, RegisteredType DEF Chained, Nodes

(* RegisterFsm appends the machine to the circle.                           *)
LEMMA RegisterIInv ==
  ASSUME IInv, NEW m \in Machines, RegisterFsm(m)
  PROVE  IInv'
<1>0. PICK n \in Nat : n = Len(registered)
  BY RegisteredType DEF IInv
<1>1. /\ n \in Nat /\ LastNode = Reg(n) /\ \A i : Reg(i) \in Nodes
      /\ \A i \in 1..n : registered[i] \in Machines
  BY <1>0, RegisteredType, RegistryIsRegistered DEF IInv
<1>2. /\ pc \in {"code", "state"} /\ ~IsRegistered(m)
      /\ next' = [next EXCEPT ![Reg(n)] = m, ![m] = Anchor]
      /\ registered' = Append(registered, m)
      /\ UNCHANGED <<rxMask, state, pc, p, prio, calls>>
  BY <1>1 DEF RegisterFsm, AppRuns, Linked
<1>3. /\ registered' \in Seq(Machines) /\ Len(registered') = n + 1
      /\ \A i \in 1..n : registered'[i] = registered[i]
      /\ registered'[n + 1] = m
  BY <1>0, <1>2, AppendProperties DEF IInv, TypeOK
<1>4. \A i \in 1..n : registered[i] # m
  BY <1>0, <1>2 DEF IsRegistered
<1>5. Reg(n) # m /\ m # Anchor /\ m \in Nodes
  BY <1>0, <1>1, <1>4, NodesAssumption DEF Reg, Nodes
<1>6. \A i \in 0..n : Reg(i)' = Reg(i)
  BY <1>0, <1>1, <1>3 DEF Reg
<1>7. Reg(n + 1)' = m /\ Reg(n + 2)' = Anchor
  <2>1. n + 1 \in 1..(n + 1) /\ n + 2 \notin 1..(n + 1)
    BY <1>1
  <2> QED
    BY <1>3, <2>1 DEF Reg
<1>8. \A x \in Nodes : next'[x] = IF x = m THEN Anchor ELSE IF x = Reg(n) THEN m ELSE next[x]
  BY <1>1, <1>2, <1>5 DEF IInv, TypeOK
<1>9. \A x \in Machines : IsRegistered(x)' <=> IsRegistered(x) \/ x = m
  BY <1>0, <1>1, <1>3 DEF IsRegistered
<1>10. TypeOK'
  <2>1. next' \in [Nodes -> Nodes \cup {Null}]
    BY <1>1, <1>2, <1>5 DEF IInv, TypeOK, Nodes
  <2> QED
    BY <1>2, <1>3, <2>1 DEF IInv, TypeOK
<1>11. \A i, j \in 1..n : registered[i] = registered[j] => i = j
  BY <1>0 DEF IInv, Chained
<1>12. \A i, j \in 0..n : Reg(i) = Reg(j) => i = j
  BY <1>0, <1>1, <1>11, NodesAssumption DEF Reg
<1>13. Chained'
  <2>1. \A i, j \in 1..(n + 1) : registered'[i] = registered'[j] => i = j
    BY <1>1, <1>3, <1>4, <1>11
  <2>2. ASSUME NEW i \in 0..(n + 1) PROVE next'[Reg(i)'] = Reg(i + 1)'
    <3>1. CASE i \in 0..(n-1)
      <4>1. Reg(i)' = Reg(i) /\ Reg(i + 1)' = Reg(i + 1) /\ i \in 0..n /\ i # n /\ n \in 0..n
        BY <1>1, <1>6, <3>1
      <4>2. Reg(i) # Reg(n)
        BY <1>12, <4>1
      <4>3. Reg(i) # m
        BY <1>0, <1>1, <1>4, <1>5, <4>1 DEF Reg
      <4>4. next[Reg(i)] = Reg(i + 1)
        BY <1>0, <4>1 DEF IInv, Chained
      <4> QED
        BY <1>1, <1>8, <4>1, <4>2, <4>3, <4>4
    <3>2. CASE i = n
      <4>1. n \in 0..n /\ Reg(n) \in Nodes
        BY <1>1
      <4>2. Reg(i)' = Reg(n)
        BY <1>6, <3>2, <4>1
      <4>3. next'[Reg(n)] = m
        BY <1>5, <1>8, <4>1
      <4> QED
        BY <1>7, <3>2, <4>2, <4>3
    <3>3. CASE i = n + 1
      <4>1. i + 1 = n + 2
        BY <1>1, <3>3
      <4>2. Reg(i)' = m /\ next'[m] = Anchor
        BY <1>5, <1>7, <1>8, <3>3
      <4> QED
        BY <1>7, <4>1, <4>2
    <3> QED
      BY <1>1, <3>1, <3>2, <3>3
  <2>3. \A x \in Machines : ~IsRegistered(x)' => next'[x] = Null
    <3> SUFFICES ASSUME NEW x \in Machines, ~IsRegistered(x)' PROVE next'[x] = Null
      OBVIOUS
    <3>1. x # m /\ ~IsRegistered(x) /\ x \in Nodes
      BY <1>9 DEF Nodes
    <3>2. x # Reg(n)
      BY <1>0, <3>1, NodesAssumption DEF Reg, IsRegistered
    <3> QED
      BY <1>8, <3>1, <3>2 DEF IInv, Chained
  <2> QED
    BY <1>3, <2>1, <2>2, <2>3 DEF Chained
<1>14. WalkIsOrderly'
  <2> SUFFICES ASSUME pc # "code" PROVE \E j \in 1..(n + 2) : WalkIsAt(j)'
    BY <1>1, <1>2, <1>3 DEF WalkIsOrderly
  <2>1. PICK j \in 1..(n + 1) : WalkIsAt(j)
    BY <1>0 DEF IInv, WalkIsOrderly
  <2>2. j \in 1..n /\ j \in 0..n /\ j \in 1..(n + 2)
    BY <1>0, <1>1, <1>2, <2>1 DEF WalkIsAt
  <2>3. calls[m] = 0
    BY <1>2, <2>1 DEF WalkIsAt
  <2>4. \A i \in 1..(n + 1) :
          /\ i < j => calls[registered'[i]] = Due(registered'[i])
          /\ i > j => calls[registered'[i]] = 0
    <3> TAKE i \in 1..(n + 1)
    <3>1. CASE i \in 1..n
      BY <1>0, <1>3, <2>1, <3>1 DEF WalkIsAt
    <3>2. CASE i = n + 1
      BY <1>1, <1>3, <2>2, <2>3, <3>2
    <3> QED
      BY <1>1, <3>1, <3>2
  <2>5. WalkIsAt(j)'
    <3>1. p' = Reg(j)'
      BY <1>2, <1>6, <2>1, <2>2 DEF WalkIsAt
    <3>2. j <= Len(registered')
      BY <1>1, <1>3, <2>2
    <3>3. pc = "state" /\ calls[p] = 1 /\ prio \in rxMask[p]
      BY <1>2, <2>1 DEF WalkIsAt
    <3>4. \A x \in Machines : ~IsRegistered(x)' => calls[x] = 0
      BY <1>9, <2>1 DEF WalkIsAt
    <3>5. \A i \in 1..Len(registered') :
            /\ i < j => calls'[registered'[i]] = Due(registered[i])'
            /\ i > j => calls'[registered'[i]] = 0
      <4>1. rxMask' = rxMask /\ prio' = prio /\ calls' = calls /\ Len(registered') = n + 1
        BY <1>2, <1>3
      <4> QED
        BY <2>4, <4>1 DEF Due
    <3>6. pc' # "walk" /\ calls'[p'] = 1 /\ prio' \in rxMask'[p'] /\ UNCHANGED calls
      BY <1>2, <3>3
    <3> QED
      BY <3>1, <3>2, <3>4, <3>5, <3>6 DEF WalkIsAt
  <2> QED
    BY <2>2, <2>5
<1> QED
  BY <1>10, <1>13, <1>14 DEF IInv

(* DispatchEvent begins at the first machine, with none called.             *)
LEMMA DispatchIInv ==
  ASSUME IInv, NEW pr \in Priorities, DispatchEvent(pr)
  PROVE  IInv'
<1>1. /\ pc' = "walk" /\ prio' = pr /\ p' = next[Anchor]
      /\ calls' = [m \in Machines |-> 0]
      /\ UNCHANGED <<next, rxMask, state, registered>>
  BY DEF DispatchEvent
<1>2. /\ Len(registered) \in Nat /\ Reg(1) \in Nodes
      /\ \A i \in 1..Len(registered) : registered[i] \in Machines
  BY RegisteredType DEF IInv
<1>3. next[Anchor] = Reg(1)
  <2>1. 0 \in 0..Len(registered) /\ Reg(0) = Anchor /\ 0 + 1 = 1
    BY <1>2 DEF Reg
  <2> QED
    BY <2>1 DEF IInv, Chained
<1>4. TypeOK'
  BY <1>1, <1>2, <1>3 DEF IInv, TypeOK
<1>5. Chained'
  BY <1>1 DEF IInv, Chained, Reg, IsRegistered
<1>6. WalkIsAt(1)' /\ 1 \in 1..(Len(registered) + 1)
  BY <1>1, <1>2, <1>3 DEF WalkIsAt, Reg
<1> QED
  BY <1>1, <1>4, <1>5, <1>6 DEF IInv, WalkIsOrderly

(* The state function of a machine is called that was not called before.    *)
LEMMA CallIInv ==
  ASSUME IInv, CallState
  PROVE  IInv'
<1>1. /\ pc = "walk" /\ p # Anchor /\ rxMask[p] \cap PrioFlag # {} /\ pc' = "state"
      /\ calls' = [calls EXCEPT ![p] = @ + 1]
      /\ UNCHANGED <<next, rxMask, state, p, prio, registered>>
  BY DEF CallState
<1>2. PICK j \in 1..(Len(registered) + 1) : WalkIsAt(j)
  BY <1>1 DEF IInv, WalkIsOrderly
<1>3. j \in 1..Len(registered) /\ p = registered[j] /\ p \in Machines
  BY <1>1, <1>2, NextMachine DEF IInv, WalkIsAt
<1>4. Len(registered) \in Nat /\ \A i \in 1..Len(registered) : registered[i] \in Machines
  BY RegisteredType DEF IInv
<1>5. prio \in rxMask[p]
  BY <1>1 DEF PrioFlag
<1>6. /\ calls[p] = 0 /\ calls' \in [Machines -> Nat]
      /\ \A m \in Machines : calls'[m] = IF m = p THEN 1 ELSE calls[m]
  <2>1. calls[p] = 0
    BY <1>1, <1>2, <1>3 DEF WalkIsAt
  <2> QED
    BY <1>1, <1>3, <2>1 DEF IInv, TypeOK
<1>7. TypeOK' /\ Chained'
  BY <1>1, <1>6 DEF IInv, TypeOK, Chained, Reg, IsRegistered
<1>8. WalkIsAt(j)'
  <2>1. p' = Reg(j)' /\ j <= Len(registered') /\ calls'[p'] = 1 /\ prio' \in rxMask'[p']
    BY <1>1, <1>2, <1>3, <1>4, <1>5, <1>6 DEF WalkIsAt, Reg
  <2>2. \A i \in 1..Len(registered) : i # j => calls'[registered[i]] = calls[registered[i]]
    BY <1>3, <1>4, <1>6 DEF IInv, Chained
  <2>3. \A i \in 1..Len(registered) : /\ i < j => calls'[registered[i]] = Due(registered[i])
                                      /\ i > j => calls'[registered[i]] = 0
    BY <1>2, <1>3, <2>2 DEF WalkIsAt
  <2>4. \A m \in Machines : ~IsRegistered(m)' => calls'[m] = 0
    BY <1>1, <1>2, <1>3, <1>6 DEF WalkIsAt, IsRegistered
  <2> QED
    BY <1>1, <2>1, <2>3, <2>4 DEF WalkIsAt, Due
<1> QED
  BY <1>1, <1>2, <1>7, <1>8 DEF IInv, WalkIsOrderly

(* The walk goes on to the next machine, from one whose mask does not have  *)
(* the priority or whose state function has returned.                       *)
LEMMA AdvanceIInv ==
  ASSUME IInv, Skip \/ StateReturns
  PROVE  IInv'
<1>1. /\ pc \in {"walk", "state"} /\ pc' = "walk" /\ p' = next[p]
      /\ UNCHANGED <<next, rxMask, state, prio, registered, calls>>
      /\ pc = "walk" => p # Anchor /\ rxMask[p] \cap PrioFlag = {}
  BY DEF Skip, StateReturns, Behind, AfterCall
<1>2. PICK j \in 1..(Len(registered) + 1) : WalkIsAt(j)
  BY <1>1 DEF IInv, WalkIsOrderly
<1>3. Len(registered) \in Nat /\ \A i \in 1..Len(registered) : registered[i] \in Machines
  BY RegisteredType DEF IInv
<1>4. p # Anchor
  <2>1. CASE pc = "state"
    <3>1. j \in 1..Len(registered)
      BY <1>2, <1>3, <2>1 DEF WalkIsAt
    <3> QED
      BY <1>2, <1>3, <3>1, NodesAssumption DEF WalkIsAt, Reg
  <2> QED
    BY <1>1, <2>1
<1>5. /\ j \in 1..Len(registered) /\ p = registered[j] /\ p \in Machines
      /\ next[p] = Reg(j + 1) /\ Reg(j + 1) \in Nodes
  BY <1>2, <1>4, NextMachine DEF IInv, WalkIsAt
<1>6. pc = "walk" => prio \notin rxMask[p]
  <2>1. rxMask[p] \subseteq 0..7
    BY <1>5, MasksAssumption DEF IInv, TypeOK
  <2> QED
    BY <1>1, <2>1 DEF PrioFlag
<1>7. TypeOK' /\ Chained'
  BY <1>1, <1>5 DEF IInv, TypeOK, Chained, Reg, IsRegistered
<1>8. WalkIsAt(j + 1)'
  <2>1. p' = Reg(j + 1)'
    BY <1>1, <1>5 DEF Reg
  <2>2. calls[p] = Due(p)
    BY <1>1, <1>2, <1>5, <1>6 DEF WalkIsAt, Due
  <2>3. \A i \in 1..Len(registered) : i < j + 1 => calls[registered[i]] = Due(registered[i])
    <3> SUFFICES ASSUME NEW i \in 1..Len(registered), i < j + 1
                 PROVE  calls[registered[i]] = Due(registered[i])
      OBVIOUS
    <3>1. i < j \/ i = j
      BY <1>5
    <3> QED
      BY <1>2, <1>5, <2>2, <3>1 DEF WalkIsAt
  <2>4. \A i \in 1..Len(registered) : i > j => calls[registered[i]] = 0
    BY <1>2 DEF WalkIsAt
  <2>5. j + 1 <= Len(registered) => calls[Reg(j + 1)] = 0
    <3> SUFFICES ASSUME j + 1 <= Len(registered) PROVE calls[Reg(j + 1)] = 0
      OBVIOUS
    <3>1. j + 1 \in 1..Len(registered) /\ j + 1 > j
      BY <1>3, <1>5
    <3> QED
      BY <2>4, <3>1 DEF Reg
  <2>6. \A i \in 1..Len(registered) : i > j + 1 => i > j
    BY <1>3, <1>5
  <2>7. \A m \in Machines : ~IsRegistered(m)' => calls'[m] = 0
    BY <1>1, <1>2 DEF WalkIsAt, IsRegistered
  <2> QED
    BY <1>1, <1>5, <2>1, <2>3, <2>4, <2>5, <2>6, <2>7 DEF WalkIsAt, Due
<1>9. j + 1 \in 1..(Len(registered) + 1)
  BY <1>3, <1>5
<1> QED
  BY <1>1, <1>7, <1>8, <1>9 DEF IInv, WalkIsOrderly

(* Every step keeps the invariant.                                          *)
LEMMA NextIInv == IInv /\ [Next]_vars => IInv'
<1> SUFFICES ASSUME IInv, [Next]_vars PROVE IInv'
  OBVIOUS
<1>1. ASSUME NEW m \in Machines, RegisterFsm(m) PROVE IInv'
  BY <1>1, RegisterIInv
<1>2. ASSUME NEW m \in Machines, NEW handler \in States, SetState(m, handler) PROVE IInv'
  <2>1. /\ state' = [state EXCEPT ![m] = handler]
        /\ UNCHANGED <<next, rxMask, pc, p, prio, registered, calls>>
    BY <1>2 DEF SetState
  <2>2. TypeOK'
    BY <2>1 DEF IInv, TypeOK
  <2> QED
    BY <2>1, <2>2 DEF IInv, Chained, WalkIsOrderly, WalkIsAt, Due, Reg, IsRegistered
<1>3. ASSUME NEW pr \in Priorities, DispatchEvent(pr) PROVE IInv'
  BY <1>3, DispatchIInv
<1>4. CASE CallState
  BY <1>4, CallIInv
<1>5. CASE Skip \/ StateReturns
  BY <1>5, AdvanceIInv
<1>6. CASE DispatchEnds
  BY <1>6 DEF DispatchEnds, IInv, TypeOK, Chained, WalkIsOrderly, Reg, IsRegistered
<1>7. CASE UNCHANGED vars
  BY <1>7 DEF vars, IInv, TypeOK, Chained, WalkIsOrderly, WalkIsAt, Due, Reg, IsRegistered
<1> QED
  BY <1>1, <1>2, <1>3, <1>4, <1>5, <1>6, <1>7 DEF Next, Walk

(* The invariant holds in every reachable state.                            *)
LEMMA Invariance == Spec => []IInv
BY InitIInv, NextIInv, PTL DEF Spec

(* The variables keep their types.                                          *)
THEOREM TypeCorrect == Spec => []TypeOK
<1>1. IInv => TypeOK
  BY DEF IInv
<1> QED
  BY <1>1, Invariance, PTL

(* RegisterFsm loses no machine: the pointers visit all that were           *)
(* registered, in their order, and lead back to the anchor.                 *)
THEOREM AllAreLinked == Spec => []RegistryIsComplete
<1>1. IInv => RegistryIsComplete
  <2> SUFFICES ASSUME IInv PROVE RegistryIsComplete
    OBVIOUS
  <2>1. Registry = registered /\ LastNode = Reg(Len(registered)) /\ Len(registered) \in Nat
    BY RegistryIsRegistered, RegisteredType DEF IInv
  <2>2. next[Reg(Len(registered))] = Reg(Len(registered) + 1) /\ Reg(Len(registered) + 1) = Anchor
    <3>1. Len(registered) \in 0..Len(registered) /\ Len(registered) + 1 \notin 1..Len(registered)
      BY <2>1
    <3> QED
      BY <3>1 DEF IInv, Chained, Reg
  <2> QED
    BY <2>1, <2>2 DEF IInv, Chained, RegistryIsComplete
<1> QED
  BY <1>1, Invariance, PTL

(* During the walk, machines that were registered earlier have been called  *)
(* if they had to, and those behind the one that is looked at have not,     *)
(* also if state functions register machines and change states.             *)
THEOREM CallsAreInOrder == Spec => []CalledInOrder
<1>1. IInv => CalledInOrder
  <2> SUFFICES ASSUME IInv, pc # "code",
                      NEW i \in 1..Len(registered), NEW k \in 1..Len(registered),
                      registered[k] = p
               PROVE  /\ i > k => calls[registered[i]] = 0
                      /\ i < k => calls[registered[i]] =
                                    IF prio \in rxMask[registered[i]] THEN 1 ELSE 0
    BY DEF CalledInOrder
  <2>1. PICK j \in 1..(Len(registered) + 1) : WalkIsAt(j)
    BY DEF IInv, WalkIsOrderly
  <2>2. p \in Machines /\ Len(registered) \in Nat
    BY RegisteredType DEF IInv
  <2>3. j \in 1..Len(registered) /\ registered[j] = p
    BY <2>1, <2>2, NextMachine, NodesAssumption DEF IInv, WalkIsAt
  <2>4. k = j
    BY <2>3 DEF IInv, Chained
  <2> QED
    BY <2>1, <2>2, <2>4 DEF WalkIsAt, Due
<1> QED
  BY <1>1, Invariance, PTL

(* At the end of the walk each registered machine whose mask has the        *)
(* priority has been called once, and no other.                             *)
THEOREM NotificationIsComplete == Spec => []AllAreNotified
<1>1. IInv => AllAreNotified
  <2> SUFFICES ASSUME IInv, pc = "walk", p = Anchor, NEW m \in Machines
               PROVE  calls[m] = IF IsRegistered(m) /\ prio \in rxMask[m] THEN 1 ELSE 0
    BY DEF AllAreNotified
  <2>1. PICK j \in 1..(Len(registered) + 1) : WalkIsAt(j)
    BY DEF IInv, WalkIsOrderly
  <2>2. Len(registered) \in Nat /\ \A i \in 1..Len(registered) : registered[i] \in Machines
    BY RegisteredType DEF IInv
  <2>3. j = Len(registered) + 1
    BY <2>1, <2>2, NodesAssumption DEF WalkIsAt, Reg
  <2>4. CASE IsRegistered(m)
    <3>1. PICK i \in 1..Len(registered) : registered[i] = m
      BY <2>4 DEF IsRegistered
    <3>2. i < j
      BY <2>2, <2>3
    <3> QED
      BY <2>1, <2>4, <3>1, <3>2 DEF WalkIsAt, Due
  <2>5. CASE ~IsRegistered(m)
    BY <2>1, <2>5 DEF WalkIsAt
  <2> QED
    BY <2>4, <2>5
<1> QED
  BY <1>1, Invariance, PTL

=============================================================================
