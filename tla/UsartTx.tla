------------------------------- MODULE UsartTx -------------------------------
(***************************************************************************)
(* The transmit side of the UART in AvrLib.c: the ring USART_txBuffer, the *)
(* functions that write packets into it from the main program and from     *)
(* interrupt handlers, and the handler that empties it byte by byte.       *)
(*                                                                         *)
(* All writers work between EnterAtomic and LeaveAtomic, or in a handler,  *)
(* where nothing interrupts them (module AtomicSection), so that to write  *)
(* a packet is one step.  Two things take more than one step: the wait for *)
(* space in Usart_AwaitAwailableSpaceAndLockBuffer, which leaves the       *)
(* section between two attempts, and the read-modify-write of the control  *)
(* register in AllowUartRx and DisallowUartRx, which no section protects.  *)
(*                                                                         *)
(* A byte is represented by its position in its packet and by the length   *)
(* that the header of the packet tells the PC, if it tells one.  An entry  *)
(* of the ring whose byte has been sent counts as empty; the code leaves   *)
(* the old byte there.                                                     *)
(***************************************************************************)
EXTENDS Integers, Sequences, FiniteSetsExt

CONSTANTS Size,         (* USART_TX_BUFFER_SIZE, 64 in the code              *)
          TraceArgs,    (* the n of the functions Usart_Trace<n> in use      *)
          DataCounts,   (* the counts that Usart_SendAnyData is called with  *)
          ReadLengths,  (* the field len of commands ReadRegister            *)
          GateLocked    (* whether AllowUartRx and DisallowUartRx are called *)
                        (* in an atomic section                              *)

(* The longest packets of fixed length must fit into the ring.              *)
ASSUME SizeAssumption == Size \in 5..128
ASSUME TraceArgsAssumption == TraceArgs \subseteq 0..4
ASSUME DataCountsAssumption == DataCounts \subseteq 0..255
ASSUME ReadLengthsAssumption == ReadLengths \subseteq 0..255
ASSUME GateAssumption == GateLocked \in BOOLEAN

VARIABLES
  txBuffer,       (* USART_txBuffer                                           *)
  txIn, txOut,    (* USART_txBufferIn, USART_txBufferOut                      *)
  udrie,          (* UDRIEN in UCSRB: interrupt when a byte can be written    *)
  main,           (* the main program: "idle", "await" or "gate"              *)
  index,          (* local variable of Usart_Await...LockBuffer               *)
  wanted,         (* the packet that waits for space                          *)
  copy,           (* UCSRB as AllowUartRx or DisallowUartRx has read it       *)
  sent            (* the byte that was sent last                              *)

vars == <<txBuffer, txIn, txOut, udrie, main, index, wanted, copy, sent>>

Positions == 0..(Size-1)

(* A packet: the space its writer asks for, a byte in the code; the bytes   *)
(* it writes; and the bytes that it has if its header is right, for packets *)
(* whose second byte is a length.  The others have a length by their type.  *)
Unsaid == 0
Packet(needed, length, says) ==
  [needed |-> needed % 256, length |-> length, says |-> says]

(* Usart_Trace4 puts 3 into the header, and four bytes behind it.           *)
Trace(n) == Packet(n + 4, n + 4, 4 + IF n = 4 THEN 3 ELSE n)

(* A byte of Usart_PutChar has no header, and the second byte of an         *)
(* acknowledgement is the number of bytes that it acknowledges.             *)
Char == Packet(1, 1, Unsaid)
Ack == Packet(3, 3, Unsaid)
AnyData(count) == Packet(count + 2, count + 2, count + 2)

(* The answers of DefaultMessageHandler.  To ReadRegister: a type, the len  *)
(* of the command, and one or two data bytes if that is one or two.  For    *)
(* any other len the type is 0, len is announced, and nothing follows.  To  *)
(* WriteRegister: a type, and a byte that is 1 for success and 0 otherwise. *)
ReadReply(len) == Packet(4, 2 + (IF len \in {1, 2} THEN len ELSE 0), 2 + len)
WriteReply == Packet(2, 2, Unsaid)

(* Packets that are dropped when there is no space, and packets that wait.  *)
Droppable == {Char} \cup {Trace(n) : n \in TraceArgs}
Awaiting == {Ack, WriteReply} \cup {ReadReply(len) : len \in ReadLengths}
              \cup {AnyData(count) : count \in DataCounts}

ByteOf(packet, i) == [at |-> i, says |-> packet.says]
BytesOf(packet) == [i \in 1..packet.length |-> ByteOf(packet, i)]
NoByte == [at |-> 0, says |-> Unsaid]

Bytes == {NoByte} \cup
  UNION {{ByteOf(packet, i) : i \in 1..packet.length} : packet \in Droppable \cup Awaiting}

(* Usart_AvailableTxBuffer; one entry is never used.  (Mutant: it is used.) *)
Used == LET used == txIn - txOut IN IF used < 0 THEN used + Size ELSE used
MutantFillsUp == Size - Used
Available == Size - Used - 1

(* (Mutant: the position does not wrap around.)                             *)
MutantNoWrap(i) == i + 1
NextPosition(i) == (i + 1) % Size

-----------------------------------------------------------------------------

Init ==
  /\ txBuffer = [i \in Positions |-> NoByte]
  /\ txIn = 0 /\ txOut = 0
  /\ udrie = FALSE
  /\ main = "idle" /\ index = 0 /\ wanted = Char
  /\ copy = FALSE
  /\ sent = NoByte

(* Interrupts are disabled while the main program is in a section; the only *)
(* section with steps of its own is that around AllowUartRx.  (Mutant: the  *)
(* section is not left while a writer waits.)                               *)
MutantWaitsInSection == ~(main = "gate" /\ GateLocked) /\ main # "await"
Interruptible == ~(main = "gate" /\ GateLocked)

(* Usart_TriggerTx enables the handler.  (Mutant: it does not.)             *)
MutantNoTrigger == udrie' = udrie
TriggerTx == udrie' = TRUE

(* Usart_UnsafeEnqueueByte for each byte of the packet from position i on,  *)
(* the update of USART_txBufferIn, and Usart_TriggerTx.                     *)
Enqueue(i, packet) ==
  /\ txBuffer' = [j \in Positions |->
                   LET written == {n \in 1..packet.length : (i + n - 1) % Size = j}
                   IN  IF written = {} THEN txBuffer[j] ELSE ByteOf(packet, Max(written))]
  /\ txIn' = (i + packet.length) % Size
  /\ TriggerTx

(* Usart_PutChar and Usart_Trace0..4, in the main program or in a handler:  *)
(* the packet is dropped when the ring has no space for all of it.          *)
PutOrDrop(packet) ==
  /\ Interruptible
  /\ packet.needed <= Available
  /\ Enqueue(txIn, packet)
  /\ UNCHANGED <<txOut, main, index, wanted, copy, sent>>

(* Usart_AckBytes, Usart_SendAnyData and DefaultMessageHandler, which only  *)
(* the main program calls, up to the first test for space.                  *)
PutOrAwait(packet) ==
  /\ main = "idle"
  /\ IF packet.needed <= Available
       THEN /\ Enqueue(txIn, packet)
            /\ UNCHANGED <<main, index, wanted>>
       ELSE /\ main' = "await"
            /\ index' = txIn
            /\ wanted' = packet
            /\ UNCHANGED <<txBuffer, txIn, udrie>>
  /\ UNCHANGED <<txOut, copy, sent>>

(* Another turn of the loop, which reads the position again: handlers may   *)
(* have written to the ring since the last turn.                            *)
RetryInVain ==
  /\ main = "await"
  /\ wanted.needed > Available
  /\ index' = txIn
  /\ UNCHANGED <<txBuffer, txIn, txOut, udrie, main, wanted, copy, sent>>

(* The position that the wait returns was read in the section in which the  *)
(* packet is written.  (Mutant: where there was space a turn ago.)          *)
MutantStaleIndex == index
IndexAfterWait == txIn

Retry ==
  /\ main = "await"
  /\ wanted.needed <= Available
  /\ Enqueue(IndexAfterWait, wanted)
  /\ main' = "idle"
  /\ index' = 0 /\ wanted' = Char
  /\ UNCHANGED <<txOut, copy, sent>>

(* The handler of "data register empty" sends one byte, and disables itself *)
(* with the last one.  (Mutant: it does not.)                               *)
MutantStaysEnabled(out) == TRUE
StaysEnabled(out) == out # txIn

SendByte ==
  /\ Interruptible
  /\ udrie
  /\ sent' = txBuffer[txOut]
  /\ txBuffer' = [txBuffer EXCEPT ![txOut] = NoByte]
  /\ txOut' = NextPosition(txOut)
  /\ udrie' = StaysEnabled(NextPosition(txOut))
  /\ UNCHANGED <<txIn, main, index, wanted, copy>>

(* AllowUartRx and DisallowUartRx change the bit RXCIEN of UCSRB, which is   *)
(* not modelled here, and write all other bits as they have read them.      *)
GateRead ==
  /\ main = "idle"
  /\ copy' = udrie
  /\ main' = "gate"
  /\ UNCHANGED <<txBuffer, txIn, txOut, udrie, index, wanted, sent>>

GateWrite ==
  /\ main = "gate"
  /\ udrie' = copy
  /\ main' = "idle"
  /\ copy' = FALSE
  /\ UNCHANGED <<txBuffer, txIn, txOut, index, wanted, sent>>

Next ==
  \/ \E packet \in Droppable : PutOrDrop(packet)
  \/ \E packet \in Awaiting : PutOrAwait(packet)
  \/ Retry \/ RetryInVain
  \/ SendByte
  \/ GateRead
  \/ GateWrite

Spec == Init /\ [][Next]_vars

(* The main program goes on, and the hardware empties its data register.    *)
(* Sections interrupt the sending again and again, but when one ends the    *)
(* pending interrupt is served: module AtomicSection.                       *)
FairSpec ==
  /\ Spec
  /\ SF_vars(SendByte) /\ WF_vars(Retry) /\ WF_vars(GateWrite)

-----------------------------------------------------------------------------

(* Types of the variables.                                                  *)
TypeOK ==
  /\ txBuffer \in [Positions -> Bytes]
  /\ txIn \in Positions /\ txOut \in Positions /\ index \in Positions
  /\ udrie \in BOOLEAN /\ copy \in BOOLEAN
  /\ main \in {"idle", "await", "gate"}
  /\ wanted \in Droppable \cup Awaiting
  /\ sent \in Bytes

(* The handler is enabled exactly while there are bytes to send: it neither *)
(* sends an entry that holds no byte nor leaves one that does.              *)
EnabledWhileFilled == udrie <=> txIn # txOut

(* The ring, its two positions and the handler implement the stream: a      *)
(* packet goes into the ring as a whole or not at all, no byte is lost,     *)
(* repeated or overtaken, whoever writes and however the writers interleave.*)
Waiting == [i \in 1..(Size - 1 - Available) |-> txBuffer[(txOut + i - 1) % Size]]

Stream == INSTANCE TxStream WITH
  Capacity <- Size - 1,
  Packets <- {BytesOf(packet) : packet \in Droppable \cup Awaiting},
  stream <- Waiting,
  sent <- IF sent = NoByte THEN <<>> ELSE sent

ImplementsStream == Stream!Spec

(* The PC can tell packets apart: behind the last byte that a header        *)
(* announces comes the first byte of a packet, and never before; and the    *)
(* packets that announce nothing, the bytes of Usart_PutChar among them,    *)
(* never come into the middle of one that does.  (The code keeps to this    *)
(* only without Usart_Trace4, and if the PC reads registers of one or two   *)
(* bytes.  What a byte of Usart_PutChar is, the PC cannot know.)            *)
Ends(byte) == byte.says = Unsaid \/ byte.at = byte.says
GoesOn(byte) == byte.says = Unsaid \/ byte.at # byte.says

PacketsFollowHeaders ==
  [][sent' # sent =>
       \/ Ends(sent) /\ sent'.at = 1
       \/ GoesOn(sent) /\ sent'.at = sent.at + 1 /\ sent'.says = sent.says]_vars

(* Every byte in the ring is sent at last: as long as there are bytes, the  *)
(* handler goes on.                                                         *)
BytesAreSent == \A i \in Positions : txOut = i /\ txIn # i ~> txOut # i

(* Usart_SendAnyData sends count bytes, Usart_AckBytes and the replies are  *)
(* sent: the wait for space ends, provided that handlers do not go on for   *)
(* ever to fill the space as it becomes free.                               *)
HandlerTraces == main = "await" /\ \E packet \in Droppable : PutOrDrop(packet)

AwaitEnds == <>[][~HandlerTraces]_vars => (main = "await" ~> main = "idle")

=============================================================================
