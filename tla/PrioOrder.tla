----------------------------- MODULE PrioOrder -----------------------------
(***************************************************************************)
(* The order in which SendMessage of AvrLib keeps messages.                *)
(*                                                                         *)
(* A message is ranked by its priority: a larger number comes first, as    *)
(* AvrLib.h says of the type Priority_T (its comment on the field Priority *)
(* of Message says the reverse).  But the search for its place never       *)
(* passes the last message of the queue, whatever its priority.  A queue   *)
(* is therefore a ranked list (largest number first, first come first      *)
(* served among equals) followed by one pinned message: the one that was   *)
(* sent when the queue was empty.                                          *)
(***************************************************************************)
EXTENDS Naturals, SequencesExt

CONSTANTS Priorities,  (* priorities that callers use                      *)
          Payloads     (* what a message carries: id and parameters        *)

Message == [prio : Priorities, data : Payloads]

(* The place where a message of priority prio is inserted into a non-empty  *)
(* queue s: in front of the first message that it outranks, and at the     *)
(* latest in front of the last message.                                    *)
IsPlace(s, prio, i) ==
  /\ i \in 1..Len(s)
  /\ i = Len(s) \/ prio > s[i].prio
  /\ \A j \in 1..(i-1) : prio <= s[j].prio

Insert(s, m) ==
  IF s = <<>> THEN <<m>>
  ELSE InsertAt(s, CHOOSE i \in 1..Len(s) : IsPlace(s, m.prio, i), m)

=============================================================================
