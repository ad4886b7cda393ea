-------------------------------- MODULE Board --------------------------------
(***************************************************************************)
(* The way of a packet from the PC through AvrLib.c: the receive interrupt *)
(* puts its bytes into a ring, the loop of InitializeStateEventFramework   *)
(* takes them out, HandleMessage puts the packet together, ProcessMessage  *)
(* copies it to a slot of a small pool and sends a message of the lowest   *)
(* priority that carries the number of the slot, and DispatchEvent takes   *)
(* that message, hands the packet to the handler, acknowledges its bytes   *)
(* to the PC and gives the slot back.                                      *)
(*                                                                         *)
(* The PC, a program that is not in src/, is modelled by what the comments *)
(* on Usart_AckBytes expect of it: it never has more bytes unacknowledged  *)
(* than the ring holds.  The message queue is that of module PrioOrder,    *)
(* and an acknowledgement can wait for the transmit ring (module UsartTx). *)
(* Sections of code that interrupts cannot enter are single steps.         *)
(***************************************************************************)
EXTENDS Integers, Sequences, FiniteSets, FiniteSetsExt, Functions

CONSTANTS
  RxSize,        (* USART_RX_BUFFER_SIZE, 32 in the code                     *)
  PoolSize,      (* entries of _avrMessagePool, 4 in the code                *)
  QueueSize,     (* messages that SendMessage can queue, 31 in the code      *)
  Priorities,    (* priorities of the messages of the application            *)
  MaxApp,        (* messages of the application that are queued at once      *)
  Lengths,       (* payload lengths of the packets of the PC                 *)
  Answers        (* what the registered AvrMessageHandler returns            *)

ASSUME SizesAssumption ==
  /\ RxSize \in 2..128 /\ PoolSize \in 1..128 /\ QueueSize \in Nat \ {0}
ASSUME PrioritiesAssumption == Priorities \subseteq 0..7
ASSUME MaxAppAssumption == MaxApp \in Nat
ASSUME LengthsAssumption == Lengths \subseteq 0..14   \* AvrMessage.Payload
ASSUME AnswersAssumption == Answers \subseteq BOOLEAN

VARIABLES
  rest,       (* the bytes of its packet that the PC has yet to send         *)
  unacked,    (* the bytes of packets that the board has not acknowledged    *)
  rx,         (* the bytes in USART_rxBuffer, the oldest first               *)
  msgType,    (* static variables of HandleMessage                           *)
  msgLen,
  bufferIndex,
  avrPool,    (* the field Length of the slots of _avrMessagePool            *)
  avrIndex,   (* _avrMsgIndex                                                *)
  poolIn,     (* _avrPoolIn: position in avrIndex of the next freed slot     *)
  poolOut,    (* _avrPoolOut: position in avrIndex of the next slot to take  *)
  queue,      (* the queue of SendMessage and GetMessage                     *)
  pc,         (* where the loop of InitializeStateEventFramework is          *)
  current,    (* the slot that DispatchEvent works on                        *)
  acks,       (* numbers of bytes in acknowledgements on their way to the PC *)
  lost,       (* history: bytes that will never be acknowledged              *)
  leaked      (* history: slots that will never be given back                *)

rxVars == <<rx, msgType, msgLen, bufferIndex>>
poolVars == <<avrPool, avrIndex, poolIn, poolOut>>
vars == <<rest, unacked, rxVars, poolVars, queue, pc, current, acks, lost, leaked>>

Slots == 0..(PoolSize-1)
App == PoolSize            \* in place of a slot: a message of the application

Order == INSTANCE PrioOrder WITH Priorities <- Priorities \cup {0}, Payloads <- 0..PoolSize

(* A packet on the line: a type (which one makes no difference here, except *)
(* that it is not 0), the length of the whole packet, and payload, which    *)
(* may be any byte.  "at" is the position of a byte in its packet.          *)
TypeByte == 163
BytesOf(length) ==
  [i \in 1..(length + 2) |->
     [at |-> i, value |-> CASE i = 1 -> TypeByte [] i = 2 -> length + 2 [] OTHER -> 0]]

-----------------------------------------------------------------------------

Init ==
  /\ rest = <<>> /\ unacked = 0
  /\ rx = <<>>
  /\ msgType = 0 /\ msgLen = 0 /\ bufferIndex = 0
  /\ avrPool = [s \in Slots |-> 0]
  /\ avrIndex = [s \in Slots |-> s]
  /\ poolIn = PoolSize - 1 /\ poolOut = 0
  /\ queue = <<>>
  /\ pc = "dispatch" /\ current = 0
  /\ acks = <<>>
  /\ lost = 0 /\ leaked = {}

(* The PC begins a packet that, with all that is not acknowledged, fits     *)
(* into the ring.                                                           *)
PcBegins(length) ==
  /\ rest = <<>>
  /\ unacked + length + 2 <= RxSize - 1
  /\ rest' = BytesOf(length)
  /\ unacked' = unacked + length + 2
  /\ UNCHANGED <<rxVars, poolVars, queue, pc, current, acks, lost, leaked>>

(* The next byte arrives, and the handler of "receive complete" puts it     *)
(* into the ring, or drops it if the ring is full.                          *)
Receive ==
  /\ rest # <<>>
  /\ rest' = Tail(rest)
  /\ rx' = IF Len(rx) < RxSize - 1 THEN Append(rx, Head(rest)) ELSE rx
  /\ UNCHANGED <<unacked, msgType, msgLen, bufferIndex, poolVars, queue, pc,
                 current, acks, lost, leaked>>

PcGetsAck ==
  /\ acks # <<>>
  /\ unacked' = unacked - Head(acks)
  /\ acks' = Tail(acks)
  /\ UNCHANGED <<rest, rxVars, poolVars, queue, pc, current, lost, leaked>>

(* A handler or a state function calls SendMessage; the message is          *)
(* discarded if the queue is full.                                          *)
AppSends(prio) ==
  /\ Cardinality({i \in 1..Len(queue) : queue[i].data = App}) < MaxApp
  /\ queue' = IF Len(queue) < QueueSize
                THEN Order!Insert(queue, [prio |-> prio, data |-> App])
                ELSE queue
  /\ UNCHANGED <<rest, unacked, rxVars, poolVars, pc, current, acks, lost, leaked>>

(* DispatchEvent takes the first message.  If it is one of the application, *)
(* the state functions handle it; what they send is an AppSends.            *)
Dispatch ==
  /\ pc = "dispatch"
  /\ IF queue = <<>>
       THEN pc' = "drain" /\ UNCHANGED <<queue, current>>
       ELSE /\ queue' = Tail(queue)
            /\ IF Head(queue).data = App
                 THEN pc' = "drain" /\ UNCHANGED current
                 ELSE pc' = "handle" /\ current' = Head(queue).data
  /\ UNCHANGED <<rest, unacked, rxVars, poolVars, acks, lost, leaked>>

(* HandleAvrMessage returns; only if it returns True is the packet going to *)
(* be acknowledged.  (Mutant: a packet that is not keeps its slot.)         *)
MutantKeepsSlot(answer) == IF answer THEN "ack" ELSE "drain"
AfterHandle(answer) == IF answer THEN "ack" ELSE "free"

Handle(answer) ==
  /\ pc = "handle"
  /\ pc' = AfterHandle(answer)
  /\ lost' = IF answer THEN lost ELSE lost + avrPool[current] + 2
  /\ UNCHANGED <<rest, unacked, rxVars, poolVars, queue, current, acks, leaked>>

(* Usart_AckBytes, as soon as the transmit ring has space, acknowledges the *)
(* payload and the header.  (Mutants: the payload alone; a byte too many.)  *)
MutantPayloadOnly == avrPool[current]
MutantOneTooMany == avrPool[current] + 3
AckedBytes == (avrPool[current] + 2) % 256

Ack ==
  /\ pc = "ack"
  /\ acks' = Append(acks, AckedBytes)
  /\ pc' = "free"
  /\ UNCHANGED <<rest, unacked, rxVars, poolVars, queue, current, lost, leaked>>

(* Positions of the ring of free slots.  (Mutant: they do not wrap around.) *)
MutantNoWrap(i) == i + 1
NextPosition(i) == (i + 1) % PoolSize

(* DispatchEvent gives the slot back.                                       *)
Free ==
  /\ pc = "free"
  /\ avrIndex' = [avrIndex EXCEPT ![poolIn] = current]
  /\ poolIn' = NextPosition(poolIn)
  /\ pc' = "drain" /\ current' = 0
  /\ UNCHANGED <<rest, unacked, rxVars, avrPool, poolOut, queue, acks, lost, leaked>>

(* ProcessMessage.  Without a free slot the packet is dropped; if the queue *)
(* is full, SendMessage discards the message and the slot is not given back.*)
ProcessMessage(length) ==
  IF poolOut = poolIn
    THEN /\ lost' = lost + length + 2
         /\ UNCHANGED <<avrPool, poolOut, queue, leaked>>
    ELSE LET slot == avrIndex[poolOut] IN
         /\ poolOut' = NextPosition(poolOut)
         /\ avrPool' = [avrPool EXCEPT ![slot] = length]
         /\ IF Len(queue) < QueueSize
              THEN /\ queue' = Order!Insert(queue, [prio |-> 0, data |-> slot])
                   /\ UNCHANGED <<lost, leaked>>
              ELSE /\ lost' = lost + length + 2
                   /\ leaked' = leaked \cup {slot}
                   /\ UNCHANGED queue

(* HandleMessage(b): the first byte is the type, the second the length, and *)
(* with the last byte the packet is processed.                              *)
PacketIsComplete(b) ==
  \/ msgType # 0 /\ msgLen = 0 /\ b = 2
  \/ msgType # 0 /\ msgLen # 0 /\ bufferIndex + 1 = msgLen

(* The length byte counts the header.  (Mutant: it counts the type only.)   *)
MutantLength(b) == (b + 255) % 256
PayloadLength(b) == (b + 254) % 256

HandleMessage(b) ==
  LET length == IF msgLen = 0 THEN PayloadLength(b) ELSE msgLen IN
  /\ msgType' = IF msgType = 0 THEN b ELSE IF PacketIsComplete(b) THEN 0 ELSE msgType
  /\ msgLen' = IF msgType = 0 THEN 0 ELSE length
  /\ bufferIndex' = CASE msgType = 0 -> bufferIndex
                      [] msgType # 0 /\ msgLen = 0 -> 0
                      [] OTHER -> IF PacketIsComplete(b) THEN 0 ELSE bufferIndex + 1
  /\ IF PacketIsComplete(b)
       THEN ProcessMessage(length)
       ELSE UNCHANGED <<avrPool, poolOut, queue, lost, leaked>>

(* The loop takes one byte out of the ring and handles it.                  *)
DrainByte ==
  /\ pc = "drain" /\ rx # <<>>
  /\ rx' = Tail(rx)
  /\ HandleMessage(Head(rx).value)
  /\ UNCHANGED <<rest, unacked, avrIndex, poolIn, pc, current, acks>>

DrainEnds ==
  /\ pc = "drain" /\ rx = <<>>
  /\ pc' = "dispatch"
  /\ UNCHANGED <<rest, unacked, rxVars, poolVars, queue, current, acks, lost, leaked>>

MainLoop ==
  \/ Dispatch
  \/ \E answer \in Answers : Handle(answer)
  \/ Ack
  \/ Free
  \/ DrainByte
  \/ DrainEnds

Next ==
  \/ \E length \in Lengths : PcBegins(length)
  \/ Receive
  \/ PcGetsAck
  \/ \E prio \in Priorities : AppSends(prio)
  \/ MainLoop

Spec == Init /\ [][Next]_vars

(* Bytes that were sent arrive, and the main loop goes on.                  *)
FairSpec == Spec /\ WF_vars(MainLoop) /\ WF_vars(Receive) /\ WF_vars(PcGetsAck)

-----------------------------------------------------------------------------

(* Types of the variables.                                                  *)
TypeOK ==
  /\ rest \in Seq([at : 1..16, value : 0..255]) /\ Len(rest) < RxSize
  /\ rx \in Seq([at : 1..16, value : 0..255]) /\ Len(rx) < RxSize
  /\ unacked \in 0..(RxSize-1) /\ lost \in 0..(RxSize-1)
  /\ msgType \in 0..255 /\ msgLen \in 0..14 /\ bufferIndex \in 0..14
  /\ avrPool \in [Slots -> 0..14] /\ avrIndex \in [Slots -> Slots]
  /\ poolIn \in Slots /\ poolOut \in Slots /\ current \in Slots
  /\ queue \in Seq(Order!Message) /\ Len(queue) <= QueueSize
  /\ pc \in {"dispatch", "handle", "ack", "free", "drain"}
  /\ acks \in Seq(2..16)
  /\ leaked \subseteq Slots

(* The bytes of an incomplete packet that HandleMessage has seen.           *)
Parsed == IF msgType = 0 THEN 0 ELSE IF msgLen = 0 THEN 1 ELSE 2 + bufferIndex

QueuedSlots == {queue[i].data : i \in 1..Len(queue)} \ {App}

(* Bytes of the packets in a set of slots.                                  *)
BytesIn(slots) == MapThenSumSet(LAMBDA s : avrPool[s] + 2, slots)

(* The flow control adds up: every byte that the PC has not seen            *)
(* acknowledged is on its way to the board, in the ring, in HandleMessage,  *)
(* in a slot, or acknowledged by bytes on their way to the PC; or the board *)
(* has dropped it for good.                                                 *)
CreditIsAccounted ==
  unacked = Len(rest) + Len(rx) + Parsed + BytesIn(QueuedSlots)
              + (IF pc \in {"handle", "ack"} THEN avrPool[current] + 2 ELSE 0)
              + SumFunction(acks) + lost

(* A PC that keeps to the flow control never overruns the ring: there is    *)
(* space for all that it is going to send.                                  *)
RingHasSpace == Len(rx) + Len(rest) <= RxSize - 1

(* HandleMessage is at the position of the packet where the next byte       *)
(* belongs, and between packets when there are no more bytes.               *)
ParserIsInStep ==
  LET bytes == rx \o rest
  IN  IF bytes = <<>> THEN Parsed = 0 ELSE Head(bytes).at = Parsed + 1

(* Positions of avrIndex that hold free slots.                              *)
FreePositions ==
  IF poolOut <= poolIn THEN poolOut..(poolIn-1) ELSE (poolOut..(PoolSize-1)) \cup (0..(poolIn-1))

FreeSlots == {avrIndex[i] : i \in FreePositions}
SlotsInHand == IF pc \in {"handle", "ack", "free"} THEN {current} ELSE {}

(* No two packets share a slot and no slot disappears unnoticed: each one   *)
(* is free, or in one queued message, or in the hands of DispatchEvent, or  *)
(* was leaked by ProcessMessage.  (The last slot is overwritten in the ring *)
(* before it is ever taken.)                                                *)
SlotsAreAccounted ==
  /\ \A i, j \in FreePositions : i # j => avrIndex[i] # avrIndex[j]
  /\ \A i, j \in 1..Len(queue) :
       i # j /\ queue[i].data # App => queue[i].data # queue[j].data
  /\ Cardinality(FreeSlots) + Cardinality(QueuedSlots) + Cardinality(SlotsInHand)
       + Cardinality(leaked) = PoolSize - 1
  /\ FreeSlots \cup QueuedSlots \cup SlotsInHand \cup leaked = 0..(PoolSize-2)

(* AvrLib.c, Usart_AckBytes: "this allows the flow control with the PC".    *)
(* A PC that keeps to it loses no packet.                                   *)
NothingIsLost == lost = 0

(* A PC that has to wait until it may send the smallest packet does not     *)
(* wait for ever, unless the bytes that the board has dropped use up its    *)
(* credit, and provided that the application does not keep the board busy   *)
(* for ever with messages of its own, which outrank the packets.            *)
PcMustWait == unacked + 2 > RxSize - 1
CreditIsUsedUp == lost + 2 > RxSize - 1
AppIsBusy == \E prio \in Priorities : AppSends(prio)

CreditReturns == <>[][~AppIsBusy]_vars => (PcMustWait ~> ~PcMustWait \/ CreditIsUsedUp)

=============================================================================
