----------------------------- MODULE PrioQueue -----------------------------
(***************************************************************************)
(* What the message queue of AvrLib does for its callers: SendMessage puts *)
(* a message into a bounded queue, GetMessage takes the first one out.     *)
(*                                                                         *)
(* Module MessageQueue models the linked list and the pool that implement  *)
(* this.                                                                   *)
(***************************************************************************)
EXTENDS PrioOrder

CONSTANT Capacity      (* messages the queue holds at most                 *)

VARIABLES queue,  (* the messages in the order in which they will be taken *)
          event   (* what the last call did, as its caller and the UART see it *)

vars == <<queue, event>>

(* What a call to SendMessage or GetMessage can do: the message was queued, *)
(* it was discarded (the bytes DE AD go to the UART), a message was taken,  *)
(* or there was none.                                                       *)
Event == [op : {"got"}, msg : Message] \cup [op : {"sent", "discarded", "empty"}]

-----------------------------------------------------------------------------

Init ==
  /\ queue = <<>>
  /\ event = [op |-> "empty"]

Send(m) ==
  /\ Len(queue) < Capacity
  /\ queue' = Insert(queue, m)
  /\ event' = [op |-> "sent"]

Discard ==
  /\ Len(queue) = Capacity
  /\ event' = [op |-> "discarded"]
  /\ UNCHANGED queue

Get ==
  /\ queue # <<>>
  /\ event' = [op |-> "got", msg |-> Head(queue)]
  /\ queue' = Tail(queue)

GetNothing ==
  /\ queue = <<>>
  /\ event' = [op |-> "empty"]
  /\ UNCHANGED queue

Next ==
  \/ \E m \in Message : Send(m)
  \/ Discard
  \/ Get
  \/ GetNothing

Spec == Init /\ [][Next]_vars

=============================================================================
