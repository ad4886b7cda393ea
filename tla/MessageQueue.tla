---------------------------- MODULE MessageQueue ----------------------------
(***************************************************************************)
(* SendMessage and GetMessage of AvrLib.c: a pool of message slots, a ring *)
(* _messagePoolIndex that hands out free slots, and a circular linked list *)
(* through the field __next that keeps the queued messages in the order in *)
(* which they will be dispatched.                                          *)
(*                                                                         *)
(* Both functions run between EnterAtomic and LeaveAtomic, so no other     *)
(* caller, in the main loop or in an interrupt handler, sees a state with  *)
(* pc = "search"; module AtomicSection is about that guarantee.  The search *)
(* for the place of a message is one step per iteration of the loop.       *)
(***************************************************************************)
EXTENDS Integers, Sequences

CONSTANTS N,           (* countof(_messagePool), 32 in the code             *)
          Priorities,  (* priorities that callers use: Priority_T           *)
          Payloads,    (* what a message carries: Id, MsgParamLow and -High *)
          Zero         (* the payload of a slot that memset has cleared     *)

ASSUME NAssumption == N \in Nat \ {0}
ASSUME PrioritiesAssumption == Priorities \subseteq 0..7 /\ 0 \in Priorities
ASSUME ZeroAssumption == Zero \in Payloads

VARIABLES
  pool,   (* Priority and payload of the slots of _messagePool               *)
  next,   (* the field __next of the slots and of _root                      *)
  index,  (* _messagePoolIndex                                               *)
  qIn,    (* _qIn: position in index of the next slot to hand out            *)
  qOut,   (* _qOut: position in index where the next freed slot is put       *)
  pc,     (* "idle", "search" inside SendMessage, or "halted"                *)
  msg,    (* local variable of SendMessage: the slot it is filling           *)
  p, q,   (* local variables of SendMessage: where the search stands         *)
  event   (* what the last call did, as its caller and the UART see it       *)

vars == <<pool, next, index, qIn, qOut, pc, msg, p, q, event>>

Slots == 0..(N-1)
Root == N            \* the address of _root
Null == N + 1        \* the null pointer
Nodes == Slots \cup {Root}
RootPriority == 16

Message == [prio : Priorities, data : Payloads]
Cleared == [prio |-> 0, data |-> Zero]
Event == [op : {"got"}, msg : Message] \cup [op : {"sent", "discarded", "empty"}]

PriorityOf(n) == IF n = Root THEN RootPriority ELSE pool[n].prio

(* Mutant of NextPosition: the position does not wrap around.              *)
MutantNoWrap(i) == i + 1

NextPosition(i) == (i + 1) % N

(* Positions of index that hold free slots.  When qIn = qOut all of them do. *)
FreePositions ==
  IF qIn < qOut THEN qIn..(qOut-1) ELSE (qIn..(N-1)) \cup (0..(qOut-1))

FreeSlots == {index[i] : i \in FreePositions}

(* The slots that are reached from the root by following the pointers nx,  *)
(* up to the first pointer that does not lead to a slot.                   *)
ListOf(nx) ==
  LET walk[k \in 0..N] ==
        IF k = 0 THEN nx[Root]
        ELSE IF walk[k-1] \in Slots THEN nx[walk[k-1]] ELSE walk[k-1]
      length == CHOOSE n \in 0..N : /\ \A k \in 0..(n-1) : walk[k] \in Slots
                                    /\ n = N \/ walk[n] \notin Slots
  IN  [i \in 1..length |-> walk[i-1]]

(* The queued slots, in the order in which GetMessage will take them.      *)
List == ListOf(next)

NodeAt(s, i) == IF i \in 1..Len(s) THEN s[i] ELSE Root

(* s is a circular list through nx: no slot twice, and back to the root.   *)
IsList(s, nx) ==
  /\ s \in Seq(Slots)
  /\ \A i, j \in 1..Len(s) : i # j => s[i] # s[j]
  /\ \A i \in 0..Len(s) : nx[NodeAt(s, i)] = NodeAt(s, i + 1)

-----------------------------------------------------------------------------

Init ==
  /\ pool = [s \in Slots |-> Cleared]
  /\ next = [n \in Nodes |-> IF n = Root THEN Root ELSE Null]
  /\ index = [i \in Slots |-> i]
  /\ qIn = 0 /\ qOut = 0
  /\ pc = "idle"
  /\ msg = 0 /\ p = Root /\ q = Root
  /\ event = [op |-> "empty"]

(* SendMessage when all slots but one are in use: the message is        *)
(* discarded and the bytes DE AD are put out.                              *)
Discard ==
  /\ pc = "idle"
  /\ NextPosition(qIn) = qOut
  /\ event' = [op |-> "discarded"]
  /\ UNCHANGED <<pool, next, index, qIn, qOut, pc, msg, p, q>>

(* Mutant of BeginSend: the queue is never found to be full.               *)
MutantNoFullCheck(m) ==
  LET slot == index[qIn] IN
  /\ pc = "idle"
  /\ qIn' = NextPosition(qIn)
  /\ msg' = slot
  /\ IF next[slot] # Null
       THEN pc' = "halted" /\ UNCHANGED <<pool, p, q>>
       ELSE /\ pc' = "search"
            /\ pool' = [pool EXCEPT ![slot] = m]
            /\ p' = Root
            /\ q' = Root
  /\ UNCHANGED <<next, index, qOut, event>>

(* SendMessage(m) takes the slot at position qIn.  A slot that is still     *)
(* linked is a corrupted pool: the code puts out DE AD BE AF and stays in   *)
(* an endless loop with interrupts disabled.                                *)
BeginSend(m) ==
  LET slot == index[qIn] IN
  /\ pc = "idle"
  /\ NextPosition(qIn) # qOut
  /\ qIn' = NextPosition(qIn)
  /\ msg' = slot
  /\ IF next[slot] # Null
       THEN pc' = "halted" /\ UNCHANGED <<pool, p, q>>
       ELSE /\ pc' = "search"
            /\ pool' = [pool EXCEPT ![slot] = m]
            /\ p' = Root
            /\ q' = Root
  /\ UNCHANGED <<next, index, qOut, event>>

(* Mutant of SearchGoesOn: a message goes in front of its equals.          *)
MutantBeforeEquals ==
  /\ pool[msg].prio < PriorityOf(p)
  /\ next[p] # Root

(* The condition of the loop that searches the place of the message.       *)
SearchGoesOn ==
  /\ pool[msg].prio <= PriorityOf(p)
  /\ next[p] # Root

(* Mutant of SearchStep: p does not advance.                               *)
MutantStandsStill ==
  /\ pc = "search"
  /\ SearchGoesOn
  /\ q' = p
  /\ UNCHANGED <<pool, next, index, qIn, qOut, pc, msg, p, event>>

SearchStep ==
  /\ pc = "search"
  /\ SearchGoesOn
  /\ q' = p
  /\ p' = next[p]
  /\ UNCHANGED <<pool, next, index, qIn, qOut, pc, msg, event>>

(* Mutants of Link: the two pointers are written in the wrong order; the    *)
(* message is linked behind p, where the search stopped.                   *)
MutantSelfLink ==
  /\ pc = "search"
  /\ ~SearchGoesOn
  /\ next' = [next EXCEPT ![msg] = msg, ![q] = msg]
  /\ pc' = "idle"
  /\ event' = [op |-> "sent"]
  /\ msg' = 0 /\ p' = Root /\ q' = Root
  /\ UNCHANGED <<pool, index, qIn, qOut>>

(* The message is linked behind q, and SendMessage returns: its local      *)
(* variables die, which the model shows by giving them their first values. *)
Link ==
  /\ pc = "search"
  /\ ~SearchGoesOn
  /\ next' = [next EXCEPT ![msg] = next[q], ![q] = msg]
  /\ pc' = "idle"
  /\ event' = [op |-> "sent"]
  /\ msg' = 0 /\ p' = Root /\ q' = Root
  /\ UNCHANGED <<pool, index, qIn, qOut>>

(* Mutant of Get: the slot is given back but not cleared.                  *)
MutantNoClear ==
  LET head == next[Root] IN
  /\ pc = "idle"
  /\ head # Root
  /\ event' = [op |-> "got", msg |-> pool[head]]
  /\ index' = [index EXCEPT ![qOut] = head]
  /\ next' = [next EXCEPT ![Root] = next[head]]
  /\ qOut' = NextPosition(qOut)
  /\ UNCHANGED <<pool, qIn, pc, msg, p, q>>

(* GetMessage copies the first message, gives its slot back, unlinks and   *)
(* clears it.                                                              *)
Get ==
  LET head == next[Root] IN
  /\ pc = "idle"
  /\ head # Root
  /\ event' = [op |-> "got", msg |-> pool[head]]
  /\ index' = [index EXCEPT ![qOut] = head]
  /\ next' = [next EXCEPT ![Root] = next[head], ![head] = Null]
  /\ pool' = [pool EXCEPT ![head] = Cleared]
  /\ qOut' = NextPosition(qOut)
  /\ UNCHANGED <<qIn, pc, msg, p, q>>

GetNothing ==
  /\ pc = "idle"
  /\ next[Root] = Root
  /\ event' = [op |-> "empty"]
  /\ UNCHANGED <<pool, next, index, qIn, qOut, pc, msg, p, q>>

Next ==
  \/ Discard
  \/ \E m \in Message : BeginSend(m)
  \/ SearchStep
  \/ Link
  \/ Get
  \/ GetNothing

Spec == Init /\ [][Next]_vars

(* Inside an atomic section nothing takes the processor away from the      *)
(* search, so it goes on.                                                  *)
FairSpec == Spec /\ WF_vars(SearchStep \/ Link)

-----------------------------------------------------------------------------

(* Types of the variables; next may be Null only for slots.                *)
TypeOK ==
  /\ pool \in [Slots -> Message]
  /\ next \in [Nodes -> Nodes \cup {Null}]
  /\ index \in [Slots -> Slots]
  /\ qIn \in Slots /\ qOut \in Slots
  /\ pc \in {"idle", "search", "halted"}
  /\ msg \in Slots /\ p \in Nodes /\ q \in Nodes
  /\ event \in Event

(* The check of __next in SendMessage never fails: a slot that the ring    *)
(* hands out is never still linked, so the board never stops in the        *)
(* DE AD BE AF loop.                                                       *)
NeverHalts == pc # "halted"

InFlight == IF pc = "search" THEN {msg} ELSE {}

QueuedSlots == {List[i] : i \in 1..Len(List)}

(* No slot is lost and none is used twice: the free positions of the ring  *)
(* name different slots, and every slot is either free, or queued, or the  *)
(* one that SendMessage is filling.                                        *)
SlotsAreConserved ==
  /\ \A i, j \in FreePositions : i # j => index[i] # index[j]
  /\ FreeSlots \cap (QueuedSlots \cup InFlight) = {}
  /\ QueuedSlots \cap InFlight = {}
  /\ FreeSlots \cup QueuedSlots \cup InFlight = Slots

(* The pointers form one circle through the root that visits exactly the   *)
(* queued slots; the slots outside it have a null pointer, which is what   *)
(* the check in SendMessage relies on.                                     *)
ListIsSound ==
  /\ IsList(List, next)
  /\ \A s \in Slots : s \notin QueuedSlots => next[s] = Null

(* With interrupts disabled, the search for a place always comes to an end. *)
SearchEnds == pc = "search" ~> pc = "idle"

(* The linked list and the ring implement the bounded queue of PrioQueue,  *)
(* which holds one message less than there are slots.                      *)
Contents == [i \in 1..Len(List) |-> pool[List[i]]]

Abstract == INSTANCE PrioQueue WITH Capacity <- N - 1, queue <- Contents

ImplementsPrioQueue == Abstract!Spec

(* AvrLib.h, type Message: messages of great priority are handled before   *)
(* messages of small priority, and FIFO order holds within one priority.   *)
(* So a new message has to be queued behind all those of its priority or a *)
(* greater one, and in front of all others.  SendMessage does not do this. *)
RankedThenFifo ==
  [][Link => \A i, j \in 1..Len(List') :
               List'[i] = msg /\ i # j =>
                 (j < i <=> pool[List'[j]].prio >= pool[msg].prio)]_vars

(* AvrLib.h, field Priority of Message: the smaller the number, the greater *)
(* the priority.  So of two messages the one with the smaller number comes  *)
(* first (but for the last one in the queue, which every message is put in  *)
(* front of).  SendMessage does the reverse, which is what AvrLib.h says of *)
(* the type Priority_T: "small numbers have low priority".                  *)
SmallerNumberFirst ==
  \A i, j \in 1..(Len(List)-1) : i < j => pool[List[i]].prio <= pool[List[j]].prio

=============================================================================
