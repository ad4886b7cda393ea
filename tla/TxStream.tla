------------------------------ MODULE TxStream ------------------------------
(***************************************************************************)
(* What the transmit side of the UART promises to those who write to it: a *)
(* packet is put into a bounded first-in-first-out stream as a whole or    *)
(* not at all, and the bytes leave the board in the order of the stream.   *)
(*                                                                         *)
(* Module UsartTx models the ring buffer, the interrupt handler and the    *)
(* writers that implement this.                                            *)
(***************************************************************************)
EXTENDS Naturals, Sequences

CONSTANTS Capacity,   (* bytes that can wait                                *)
          Packets     (* non-empty sequences of bytes that are put at once  *)

VARIABLES stream,   (* the bytes that wait, in their order                  *)
          sent      (* the byte that was sent last                          *)

Init ==
  /\ stream = <<>>
  /\ sent = <<>>

Put(packet) ==
  /\ Len(stream) + Len(packet) <= Capacity
  /\ stream' = stream \o packet
  /\ UNCHANGED sent

SendByte ==
  /\ stream # <<>>
  /\ sent' = Head(stream)
  /\ stream' = Tail(stream)

Next == SendByte \/ \E packet \in Packets : Put(packet)

Spec == Init /\ [][Next]_<<stream, sent>>

=============================================================================
