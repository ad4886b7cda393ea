-------------------------------- MODULE Fsm --------------------------------
(***************************************************************************)
(* The state machines of AvrLib.c: RegisterFsm appends a machine to a      *)
(* circular list that starts and ends at _anchor, and DispatchEvent walks  *)
(* along the list and calls the state function of each machine whose mask  *)
(* has the bit of the message's priority.                                  *)
(*                                                                         *)
(* All of this runs in the main program.  What makes it hard is that the   *)
(* state functions are called in the middle of the walk, and may register  *)
(* machines and change the states of their own and of other machines.      *)
(* Messages with the bit 0x80 in their Id do not come here: module Board.  *)
(***************************************************************************)
EXTENDS Integers, Sequences

CONSTANTS Machines,    (* the addresses of the Fsm variables                 *)
          States,      (* the state functions                                *)
          Masks,       (* sets of priorities that RxMask can stand for       *)
          Priorities,  (* priorities of the messages, a byte                 *)
          Anchor,      (* the address of _anchor                             *)
          Null         (* the null pointer                                   *)

ASSUME NodesAssumption == Anchor \notin Machines /\ Null \notin Machines \cup {Anchor}
ASSUME MasksAssumption == Masks \subseteq SUBSET (0..7) /\ Masks # {}
ASSUME PrioritiesAssumption == Priorities \subseteq 0..255 /\ Priorities # {}

VARIABLES
  next,        (* the field Next of the machines and of _anchor              *)
  rxMask,      (* the field RxMask of the machines                           *)
  state,       (* the field CurrentState of the machines                     *)
  pc,          (* "code" of the application, "walk" in DispatchEvent, or in  *)
               (* the "state" function of the machine p                      *)
  p,           (* local variable of DispatchEvent                            *)
  prio,        (* the priority of the message that is dispatched             *)
  registered,  (* history: the machines in the order of their registration   *)
  calls        (* history: how often each machine was called in this walk    *)

vars == <<next, rxMask, state, pc, p, prio, registered, calls>>

Nodes == Machines \cup {Anchor}

(* The machines that are reached from the anchor, in their order.  No more  *)
(* of them can be in the list than were ever registered.                   *)
Registry ==
  LET most == Len(registered)
      walk[k \in 0..most] ==
        IF k = 0 THEN next[Anchor]
        ELSE IF walk[k-1] \in Machines THEN next[walk[k-1]] ELSE walk[k-1]
      length == CHOOSE n \in 0..most : /\ \A k \in 0..(n-1) : walk[k] \in Machines
                                       /\ n = most \/ walk[n] \notin Machines
  IN  [i \in 1..length |-> walk[i-1]]

LastNode == IF Registry = <<>> THEN Anchor ELSE Registry[Len(Registry)]

IsRegistered(m) == \E i \in 1..Len(registered) : registered[i] = m

-----------------------------------------------------------------------------

(* The application has filled in its Fsm variables.                         *)
Init ==
  /\ next = [n \in Nodes |-> IF n = Anchor THEN Anchor ELSE Null]
  /\ rxMask \in [Machines -> Masks]
  /\ state \in [Machines -> States]
  /\ pc = "code" /\ p = Anchor
  /\ prio \in Priorities
  /\ registered = <<>>
  /\ calls = [m \in Machines |-> 0]

(* The application runs before the framework is started, between two        *)
(* messages (in functions that are not modelled), and in a state function.  *)
AppRuns == pc \in {"code", "state"}

(* The machine goes to the end of the list.  (Mutants: it is put in front;  *)
(* the list in front of it is forgotten.)                                   *)
MutantForgets(m) == [next EXCEPT ![Anchor] = m, ![m] = Anchor]
MutantInFront(m) == [next EXCEPT ![m] = next[Anchor], ![Anchor] = m]
Linked(m) == [next EXCEPT ![LastNode] = m, ![m] = Anchor]

(* To register a machine once more would cut off those behind it.           *)
RegisterFsm(m) ==
  /\ AppRuns
  /\ ~IsRegistered(m)
  /\ next' = Linked(m)
  /\ registered' = Append(registered, m)
  /\ UNCHANGED <<rxMask, state, pc, p, prio, calls>>

SetState(m, handler) ==
  /\ AppRuns
  /\ state' = [state EXCEPT ![m] = handler]
  /\ UNCHANGED <<next, rxMask, pc, p, prio, registered, calls>>

(* GetMessage has returned a message of priority pr.                        *)
DispatchEvent(pr) ==
  /\ pc = "code"
  /\ pc' = "walk"
  /\ prio' = pr
  /\ p' = next[Anchor]
  /\ calls' = [m \in Machines |-> 0]
  /\ UNCHANGED <<next, rxMask, state, registered>>

(* The bit of the priority, shifted in eight bits: no bit is left of a      *)
(* priority above 7.                                                        *)
PrioFlag == {prio} \cap 0..7

CallState ==
  /\ pc = "walk" /\ p # Anchor
  /\ rxMask[p] \cap PrioFlag # {}
  /\ pc' = "state"
  /\ calls' = [calls EXCEPT ![p] = @ + 1]
  /\ UNCHANGED <<next, rxMask, state, p, prio, registered>>

(* (Mutant: p does not advance.)                                            *)
MutantStands(m) == m
Behind(m) == next[m]

Skip ==
  /\ pc = "walk" /\ p # Anchor
  /\ rxMask[p] \cap PrioFlag = {}
  /\ p' = Behind(p)
  /\ UNCHANGED <<next, rxMask, state, pc, prio, registered, calls>>

(* The successor of p is read when the state function has returned, and may *)
(* be a machine that the function has registered.  (Mutant: the walk ends.) *)
MutantOnlyOne(m) == Anchor
AfterCall(m) == next[m]

StateReturns ==
  /\ pc = "state"
  /\ pc' = "walk"
  /\ p' = AfterCall(p)
  /\ UNCHANGED <<next, rxMask, state, prio, registered, calls>>

DispatchEnds ==
  /\ pc = "walk" /\ p = Anchor
  /\ pc' = "code"
  /\ UNCHANGED <<next, rxMask, state, p, prio, registered, calls>>

Walk == CallState \/ Skip \/ StateReturns \/ DispatchEnds

Next ==
  \/ \E m \in Machines : RegisterFsm(m)
  \/ \E m \in Machines, handler \in States : SetState(m, handler)
  \/ \E pr \in Priorities : DispatchEvent(pr)
  \/ Walk

Spec == Init /\ [][Next]_vars

(* State functions return, and the main program goes on.                    *)
FairSpec == Spec /\ WF_vars(Walk)

-----------------------------------------------------------------------------

(* Types of the variables.                                                  *)
TypeOK ==
  /\ next \in [Nodes -> Nodes \cup {Null}]
  /\ rxMask \in [Machines -> Masks]
  /\ state \in [Machines -> States]
  /\ pc \in {"code", "walk", "state"}
  /\ p \in Nodes
  /\ prio \in Priorities
  /\ registered \in Seq(Machines)
  /\ calls \in [Machines -> Nat]

(* The list has all machines that were registered, each one once, in the    *)
(* order of their registration, and leads back to the anchor; machines that *)
(* were not registered are not linked.                                      *)
RegistryIsComplete ==
  /\ Registry = registered
  /\ next[LastNode] = Anchor
  /\ \A m \in Machines : ~IsRegistered(m) => next[m] = Null

(* AvrLib.h, type Fsm: all registered machines are notified of a message    *)
(* whose priority their mask contains.  At the end of the walk each of them *)
(* has been called once, also those that were registered during the walk,   *)
(* and no other.                                                            *)
AllAreNotified ==
  pc = "walk" /\ p = Anchor =>
    \A m \in Machines :
      calls[m] = IF IsRegistered(m) /\ prio \in rxMask[m] THEN 1 ELSE 0

(* Machines are called in the order of their registration: those in front   *)
(* of p have been called if they had to, those behind p have not.           *)
CalledInOrder ==
  pc # "code" =>
    \A i, j \in 1..Len(registered) :
      registered[j] = p =>
        /\ i > j => calls[registered[i]] = 0
        /\ i < j => calls[registered[i]] = IF prio \in rxMask[registered[i]] THEN 1 ELSE 0

(* DispatchEvent returns.                                                   *)
DispatchReturns == pc = "walk" ~> pc = "code"

=============================================================================
