# A verification of AvrLib

This directory holds TLA+ specifications of AvrLib, the library in
`src/AvrLib/AvrLib.c` with which programs for an ATmega328P board are written,
the configurations that check them with TLC, and proofs that TLAPS checks.
`PROJECT.json` says for each definition which lines of the source it models. The repository
also holds the headers of the AVR compiler, half a million lines, next to which the
thousand lines of AvrLib are a small share.

1. [The system](#1-the-system)
2. [The modules](#2-the-modules)
3. [The runs](#3-the-runs)
4. [Fairness](#4-fairness)
5. [The proofs](#5-the-proofs)
6. [What the checks show](#6-what-the-checks-show)
7. [What is not modelled, and the plan](#7-what-is-not-modelled-and-the-plan)

## 1. The system

The repository holds three things: a library for the board, a tool chain that
builds programs with it, and a terminal program for the PC. The terminal
(`AvrTerminal`), the preprocessor service (`ToolChain/PpServer`), the compiler and
`avrdude` are binaries or third-party code. The source of the project itself is
AvrLib.c with its headers, a sample application, and Python scripts.

A program is a main loop that never ends, and interrupt handlers. There is one
processor and no operating system: a handler interrupts the main program between
any two instructions, no handler interrupts a handler, and what they share is
protected by disabling interrupts.

| Part | State | Operations | Interacts with | What is hard | What makes it correct |
|---|---|---|---|---|---|
| Atomic sections | a byte in an I/O register, the interrupt flag | `EnterAtomic`, `LeaveAtomic`, `IsrEnter`, `IsrLeave` | everything below | the functions are interrupted themselves | mutual exclusion; interrupts come back |
| Message queue | `_messagePool`, the list through `__next`, the ring `_messagePoolIndex` | `SendMessage`, `GetMessage` | handlers and state functions send, `DispatchEvent` takes | three structures that must agree over a long history; a full queue | no slot lost or used twice; order by priority (the larger number first), then by age |
| UART transmit path | `USART_txBuffer` and its two positions, `UDRIEN` | `Usart_PutChar`, `Usart_Trace0..4`, `Usart_AckBytes`, `Usart_SendAnyData`, answers of `DefaultMessageHandler`, the handler | main program and handlers write, the hardware reads | waiting for space while handlers write; wrap-around | whole packets, in order, all sent |
| UART receive path | `USART_rxBuffer`, the static variables of `HandleMessage`, `_avrMessagePool`, `_avrMsgIndex` | the handler, `HandleMessage`, `ProcessMessage`, `DispatchEvent`, `Usart_AckBytes` | the PC, the message queue, the transmit path | flow control across two computers; limits of ring, pool and queue | no byte and no slot unaccounted for; framing kept; the PC is never left waiting |
| Main loop | none | `InitializeStateEventFramework`, `DispatchEvent` | all of the above | - | everything that arrives is handled |
| State machines | the circular list from `_anchor`, `CurrentState` | `RegisterFsm`, `SetState`, dispatching | the message queue | changes while the list is walked | each machine gets each of its messages once |
| External interrupts | `_extIntHandler`, `EICRA`, `EIMSK` | `RegisterExternalInteruptHandler`, `UnregisterExternalInterruptHandler`, `SetExtInterruptEnable`, two handlers | functions of the application, the pins | two sources in one register; flags that stay while an interrupt is masked | what is switched off is silent, what is switched on is served |
| Compare match interrupts | `_compareMatchHandler`, the registers of timers 0 and 2 | `RegisterCompareMatchInterrupt`, `UnregisterCompareMatchInterrupt`, four handlers | functions of the application, the counters | two sources share a clock and a counter | a source keeps its match while others come and go |
| Timer 1 | `_timerUs`, the counter | `StartTimer`, `GetElapsedTime`, the overflow handler | - | six bytes that change while they are read and written | a reading shows the time since the start |
| Analog measurement | registers of the converter | `MeasureOnce` | - | handlers measure in the middle | the value belongs to the channel asked for |
| CRC | a table | `ComputeCrc`, `ComputeNextCrc` | - | 256 constants | equals polynomial division |
| Trace rewriting (Python) | trace records, output file | `Preprocess.Rewrite`, `DumpTraceRecords` | `Usart_Trace0..4`, the terminal | arguments split over bytes | the record and the bytes agree |
| Preprocessor client (Python) | a server shared by all builds | `InitPreprocessor`, `PreprocessFile` | the server | two builds at once | a build sees its own definitions |
| Generators, course scripts (Python) | files | templates, XML to C headers, git and make calls | - | - | - |

`PROJECT.json` lists under `hazards` what can go wrong in each of them, with the
line where it bites and the property that would show it.

## 2. The modules

| Module | Models | Relation |
|---|---|---|
| `PrioOrder` | the order in which `SendMessage` keeps messages | used by `PrioQueue` and `Board` |
| `PrioQueue` | what the queue does for its callers | abstract specification |
| `MessageQueue` | `SendMessage` and `GetMessage` | implements `PrioQueue` |
| `MessageQueue_proofs` | | theorems about `MessageQueue` |
| `AtomicSection` | `EnterAtomic`, `LeaveAtomic`, `IsrEnter`, `IsrLeave`, the interrupt logic | justifies the atomic steps of all others |
| `AtomicSection_proofs` | | theorems about `AtomicSection` |
| `TxStream` | what the transmit path does for its callers | abstract specification |
| `UsartTx` | the transmit ring, its writers and its handler | implements `TxStream` |
| `Board` | the way of a packet from the PC to its acknowledgement | composes ring, parser, pool, queue, main loop and PC |
| `Board_proofs` | | theorems about `Board` |
| `Fsm` | `RegisterFsm`, `SetState` and the walk of `DispatchEvent` | splits the one step in which `Board` handles a message of the application |
| `Fsm_proofs` | | theorems about `Fsm` |
| `ExtInt` | the external interrupts and the pins | |
| `ExtInt_proofs` | | theorems about `ExtInt` |
| `CompareMatch` | the compare match interrupts and the two timers | |
| `CompareMatch_proofs` | | theorems about `CompareMatch` |
| `Timer1` | `StartTimer`, `GetElapsedTime`, the overflow handler and the counter | |
| `Adc` | `MeasureOnce` and the converter | |
| `Measurement_proofs` | | theorems about `Timer1` and about `Adc` |
| `Crc` | `ComputeCrc`, `ComputeNextCrc`, `crc_table` | |
| `Trace` | `RewriteTrace` of `Preprocess.py` | writes the calls of `Usart_Trace0..4` that `UsartTx` models |
| `Serial_proofs` | | theorems about `UsartTx`, `Trace` and `Crc` |
| `Parts` | | checks `Crc`, `Trace`, `Adc`, `Timer1`, `ExtInt` and `CompareMatch` in one run |

Definitions named `Mutant...` are the faults that each run is tested with: a definition
is replaced by its mutant, and the property must fail. Nothing else uses them.

**MessageQueue.** `pool` and `next` are `_messagePool`, with the field `__next`
apart because `_root` has it too; `index`, `qIn` and `qOut` are
`_messagePoolIndex`, `_qIn` and `_qOut`. A call to `GetMessage` is one step (`Get`,
`GetNothing`), because it runs in an atomic section. `SendMessage` is `Discard`, or
`BeginSend`, some `SearchStep`s and `Link`: the search is split so that "it ends" is
something to check. The endless loop after the bytes DE AD BE AF is `pc = "halted"`.
`event` is what the caller and the UART see of the last call, and what
`PrioQueue` must agree to. `PrioOrder` states the order as the code keeps it: a
ranked list, larger numbers first, followed by one pinned message, and not the order that the
header promises. The header contradicts itself about the numbers: by `AvrLib.h:102` a small number is
a low priority, by `AvrLib.h:158` a great one. The code follows the first.

**AtomicSection.** One step per access to the byte `_withinIsr` or to the interrupt
flag, for two contexts: the main program and the one handler that can run. `depth`
is the number of sections a context has entered, which the program does not
store; the properties relate it to the byte. The processor is modelled by the
flag, the pending interrupts, and the rule that after `sei` and `reti` one more
instruction is executed before an interrupt is taken (`shadow`). The byte may hold any number of eight bits; `TypeOK` says that it never holds
any but a count of sections (`Counts`) or the mark of a handler alone (`Mark`). The handler of
timer 1, which does without `IsrEnter` and `IsrLeave`, is the handler that goes to
`reti` at once. All other modules use the result: what is between
`EnterAtomic` and `LeaveAtomic`, or in a handler, is one step there.

**UsartTx.** `txBuffer`, `txIn`, `txOut` and `udrie` are the ring, its positions and
the bit `UDRIEN`. A byte is abstracted to its position in its packet and to the
length that the header of the packet announces: traces, data and the answer to `ReadRegister` carry a length in
their second byte. The others (`Unsaid`) do not: an acknowledgement and the answer to `WriteRegister` have a length by their
type, and a character of `Usart_PutChar` stands alone. The answer to `ReadRegister` has the length of the
command in its header also when that is neither 1 nor 2 and no data follow (`ReadReply`). Writers that drop (`PutOrDrop`) may run in
the main program or in a handler at any time; writers that wait (`PutOrAwait`,
`Retry`, `RetryInVain`) only in the main program, as the header demands. The read
and the write of `UCSRB` in `AllowUartRx` and `DisallowUartRx` are two steps
(`GateRead`, `GateWrite`). Nothing in the repository calls these two functions, and they are not in the
header. The constant `GateLocked` says whether a caller puts them into an atomic
section; the runs assume it, and with `GateLocked = FALSE` `EnabledWhileFilled` is
violated: the write restores an old `UDRIEN`.

**Board.** The receive ring is a sequence here, because one side of it is a handler
and the other a section. `msgType`, `msgLen` and `bufferIndex` are the static variables of
`HandleMessage`, `avrIndex`, `poolIn` and `poolOut` the ring of free slots of the packet pool,
`queue` the message queue as `PrioOrder` describes it. `pc` is the place in the main
loop. The PC is not in the repository; the model lets it do what the comment on
`Usart_AckBytes` expects: it has at most as many bytes unacknowledged as the ring
holds. The registered handler is its answer (`Answers`). `lost` and `leaked` are
history variables: the bytes that will never be acknowledged and the slots that
will never be given back.

**Fsm.** `next`, `rxMask` and `state` are the fields of the machines, `next` also that of
`_anchor`. The walk of `DispatchEvent` is split at each call of a state function, because a state
function may register machines and set states: `CallState` enters it, `StateReturns` reads
the successor afterwards, as the code does. `RegisterFsm` and `SetState` are one
step each: the first is never called in a handler (`AvrLib.c:428`), and the second is an atomic
section. A mask is the set of its bits. `registered` and `calls` are history variables,
against which the list and the calls are checked. A machine
is registered once; a second time it would become the last one of the list, and the
machines behind it would not be notified any more.

**ExtInt.** `eicra`, `eimsk` and `eifr` are registers as sets of bits, `extIntHandler` is
`_extIntHandler`. The functions are atomic sections and one step each. The pins
change at any time; what sets a flag, that it stays while the interrupt is
masked, and that `low` asks for an interrupt without a flag are as the data sheet
has them. `called`, `switched` and `triggersAsked` are history variables. The model keeps the shift by
the number of the source (`Shifted`), which `TriggerIsAsAsked` shows to be wrong.

**CompareMatch.** The two counters go on (`Tick`) with the clock that `cs` selects, are
cleared behind the register of channel A, and set the flags of both channels. Registration
is two steps, because the clock starts before the compare register is written and does not
stop for a section. `TimerOf`, `ChannelOf` and the mask bit at unregistration are the
arithmetic of the code; `TimerWired` and `BitWired` say how the sources are wired, and
the properties compare the two. `matchAsked` and `clock` are what the application has
asked for last.

**Timer1.** One step per access: to the counter, and to each of the four bytes of
`_timerUs`, which no section protects. A byte has `Base` values, so that carries
through all four are within reach. `ticks`, the true time since the start, and `elapsed`, what it was when `GetElapsedTime`
read the counter, are history variables; nothing of what the code does goes into them. `ElapsedSinceStart` compares a reading with
this time, as the header promises it, and fails. `ReadingIsClose` says how far off a reading can be: the first one after
a start that found the counter at 0 and was not interrupted by an overflow (`fresh`), unless an overflow in the middle of `GetElapsedTime`
(`crossed`) tears the bytes apart. The counter is assumed to be read at once
(the processor latches its high byte), and interrupts are never off for a whole period.

**Adc.** One step per access to the converter, for the main program and for handlers that
measure in the middle of it. A value is its channel.

**Crc** and **Trace.** The bytes of a message come one by one; `DivideByte` is the reference.
In `Trace` each token of a call is a step of `RewriteTrace`; a token that goes into an argument is
its position, and a format the sizes of its placeholders. `FieldsWritten` and `ValueOf` read the
initializer as the compiler does.

## 3. The runs

| Run | Bounds | Shows |
|---|---|---|
| `queue` | 4 slots, 2 priorities, 2 payloads | `TypeOK`, `NeverHalts`, `SlotsAreConserved`, `ListIsSound`, `SearchEnds`, `ImplementsPrioQueue` |
| `queue_order` | 32 slots, as in the code | violates `RankedThenFifo` |
| `queue_numbers` | 32 slots, as in the code | violates `SmallerNumberFirst` |
| `atomic` | sections nested 3 deep, 2 interrupts | `TypeOK`, `SectionsExcludeHandlers`, `HandlersAreNotInterrupted`, `CopyIsNotStale`, `ByteCountsSections`, `InterruptsAreServed` |
| `tx` | a ring of 8, packets of 1 to 6 bytes | `TypeOK`, `EnabledWhileFilled`, `ImplementsStream`, `PacketsFollowHeaders`, `BytesAreSent`, `AwaitEnds` |
| `tx_trace4` | a ring of 64, as in the code | violates `PacketsFollowHeaders` |
| `board` | a ring of 8, 3 slots, 2 queue entries, 2 messages of the application, both answers | `TypeOK`, `CreditIsAccounted`, `RingHasSpace`, `ParserIsInStep`, `SlotsAreAccounted`, `CreditReturns` |
| `board_overload` | the sizes of the code | violates `NothingIsLost` |
| `fsm` | 3 machines, 2 states, masks of 1 and 2 priorities, priorities 0, 1 and 8 | `RegistryIsComplete`, `AllAreNotified`, `CalledInOrder`, `DispatchReturns` |
| `parts` | messages of 2 bytes; calls of 5 tokens and 10 formats; 3 analog channels; bytes of 2 values and 8 ticks after a start; compare match sources 0 to 2, 2 frequencies, 2 matches, counters from 0 to 3; both external sources, triggers 0 to 2, one function | `CrcIsRemainder`, `ArgumentsAreSplit`, `LastArgumentArrives`, `OneOfTwoIsRight`, `ReadingIsClose`, `RegistrationHolds`, `ClockIsAsAskedLast`, `ServedAgain`, `SwitchedOffIsSilent`, `EdgeIsServed` |
| `timer_elapsed` | bytes of 16 values, 4 ticks after a start | violates `ElapsedSinceStart` |
| `extint_trigger` | all 4 triggers | violates `TriggerIsAsAsked` |

*Why the bounds are enough.* The queue with four slots has lists of zero to three
messages: empty, pinned only, and a ranked part in which a message can go to the
front, into the middle and to the end; the ring of free slots goes round with every
possible offset. Two priorities give every outcome of the comparison.
The theorems of section 5 do not depend on these bounds. In `atomic`, three
levels show entering and leaving the outermost, an inner and the innermost section, and two
interrupts one that waits while the other is served. The ring of 8 in `tx` has room for
one packet of the longest kind but not for two, and for several short ones; all
offsets of the positions occur. In `board` two packets of two bytes, or a packet of two and one of three, are within the
credit; the pool of three has two usable slots, and the queue is filled by the
application, so that every way to drop a packet occurs. Three machines in `fsm` are
a first, an inner and a last one; each can be registered before a walk, or during it by a machine in any
of these places; 8 is a priority for which eight bits have no mask. `tx` has no `Usart_Trace4` and reads of one byte and of none:
with any other length that is not 1 or 2, `PacketsFollowHeaders` fails (section 6).

The six modules of `parts` share no variable, so that a behaviour of the run is one of one of them; the others rest. The first byte of a
message is any of the 256, so that every constant of the table is used; all formats have up to three arguments and four
bytes. A period of `Timer1` has 4 ticks, so that there are two overflows after a start and one before, and the sums
run through carries. Two of the compare match sources share a timer and the third has its own, with the
other table; the matches 0 and 2 of a counter up to 3 lie before and behind each other, and the two frequencies are one on which the
tables agree and one on which they do not. The bits of trigger 3 are those of 1 and 2, and triggers add up, so that
without it the register has the same contents; one function stands for all. Where a run is about a
limit that the code exceeds, it uses the sizes of the code.

The runs of `Fsm`, `ExtInt`, `CompareMatch` and `Timer1` leave their `TypeOK` to
the other properties; it is there for proofs.

Deadlock is checked in all runs but `parts`: a call of `TRACE` that an assertion of
`RewriteTrace` refuses ends the program, and a message has an end.

## 4. Fairness

- `MessageQueue`: weak fairness of the search. It runs with interrupts disabled,
  so nothing else can run.
- `AtomicSection`: weak fairness of each instruction: the processor does not
  stop. Strong fairness of leaving a section or a handler that was entered: a
  section of AvrLib contains no unbounded loop except the halt after
  DE AD BE AF, which is unreachable; an application must keep to the same rule.
  `UsartInit` is fair because programs call `Usart_Init`.
- `UsartTx`: strong fairness of the handler, since sections disable it again and
  again but each one ends (`InterruptsAreServed`); weak fairness of the waiting
  writer. Nothing forces anybody to write.
- `Board`: weak fairness of the main loop and of the line in both
  directions. The PC need not send. `CreditReturns` assumes that the application becomes quiet:
  its messages outrank those of the packets, which have the lowest priority.
- `Fsm`: weak fairness of the walk, including the return of a state function. State
  functions are called from the main loop and must not block; that there are only as
  many machines as variables of type `Fsm` ends the walk although it meets new ones.
- `ExtInt`: weak fairness of the interrupts taken together. No fairness for `INT1` alone: a
  level that stays low at `INT0` keeps it from being served, and `EdgeIsServed` says so.
- `CompareMatch`: strong fairness of the clocks, which handlers and sections hold up
  but never stop, and weak fairness of the handlers and of the end of a registration. Nothing forces
  anybody to register.
- `Timer1`, `Adc`, `Crc`, `Trace`: safety only, no fairness.

## 5. The proofs

TLAPS proves the following for every value of the constants that the named
assumptions admit.

`MessageQueue_proofs`, for any number of slots above 0:

- `TypeCorrect`: `Spec => []TypeOK`.
- `PoolIsNeverCorrupted`: `Spec => []NeverHalts`. That a slot handed out by the ring is not linked
  is not inductive. The invariant `IInv` adds: the free slots have null
  pointers (`FreeIsUnlinked`); the pointers of the nodes in use map them one to
  one to each other, and the free positions of the ring name different slots,
  none of them in use (`LinksPermute`); and the local variables of the search are in use
  (`SearchIsSound`). The heart of the proof is that taking and giving a slot
  changes the set of free positions by one (`TakePosition`, `GivePosition`), and that the
  ring is never given a slot when all of them are free (`AllFree`, by the
  pigeonhole principle).
- `ListIsCircular` and `NoSlotIsLost`: `ListIsSound` and `SlotsAreConserved`. That the pointers
  follow a list is no consequence of `LinksPermute`, which also several circles would satisfy. `LInv`
  adds that `List`, the sequence found by following the pointers from the root, goes round
  through all slots in use and that its length and the number of free positions, computed from the two positions
  and not by counting a set, add up to the pool (`CircleIsSound`); that each slot is somewhere
  (`NoneIsMissing`); and where in the list the search is (`PlaceIsRight`). For `Link` and `Get` the proof names the
  list afterwards, an insertion or a tail, and shows that there is only one sequence that
  the pointers describe.
- `ListIsPrioQueue`: `Spec => ImplementsPrioQueue`. A step of the code is a step of `PrioQueue` or
  leaves `Contents` and `event` alone. `Link` is a `Send` because the search has passed
  exactly the messages in front of which `PrioOrder` would not put the new one.

`Serial_proofs`, first for rings of 5 to 128 bytes:

- `TypeCorrect`: `Spec => []TypeOK`.
- `HandlerIsEnabled` and `RingIsStream`: `EnabledWhileFilled` and `ImplementsStream`. `IInv` adds
  that the entries between the two positions hold bytes (`EntriesAreBytes`), and that what is written back to
  `UCSRB` is what is still there (`CopyIsFresh`). `Waiting`, the stream that the ring stands for, is shown to grow at its end
  and to shrink at its head whatever side of the wrap-around the positions are on. Two hypotheses are
  needed, because the code is wrong without them (section 6): `CountsFit`, that
  `Usart_SendAnyData` is called for at most 253 bytes, and `GateLocked`, that `AllowUartRx` and `DisallowUartRx`
  are called in sections.
- `FramesAreKept`: `PacketsFollowHeaders`, under the same hypotheses and `HeadersAreRight`: nobody sends
  by `Usart_Trace4`, whose header is wrong (run `tx_trace4`), and the PC reads registers of at most two bytes, since the answer to any
  other length announces data that do not come (section 6). `HeadersAnnounce` shows that then each packet that
  announces a length has it. `InFrames` says that what waits in the ring continues
  what was sent last.

then, for calls of `TRACE` of any length and nesting with any formats, under `TraceSpec`, which has the steps that `Parts`
has for `Trace`:

- `CallsAreSplit`: `TraceSpec => []ArgumentsAreSplit`. The property speaks of the whole call and of its depth at each token, which
  `RewriteTrace` does not know: it has a counter, finished arguments and one under construction. `ScanIsSplit` relates them at
  each token: `nesting` is the depth behind the last token, the arguments together with the one that is open
  hold the tokens so far (`Split`), in order, and two tokens share an argument
  unless there is a comma of the outermost level between them (`Together`); the open one ends where the scan is (`EndsWith`).
  `SplitGrows` and `SplitAtComma` show it for one more token. Where the parenthesis of the call closes, it becomes `CallIsSplit`,
  which no later step touches.
- `LastArgumentIsWhole`: `TraceSpec => []LastArgumentArrives`. `FieldsFollow` says at which field each argument
  begins: behind the bytes of those before it, less one for each, since each overwrites the last byte of its predecessor
  (`WrittenUpTo`); and that of the last argument written all bytes stand at the end of the list of fields, where nothing
  comes after them.

and, for messages and initial values of any bytes, under `CrcSpec`:

- `EveryCrcIsRemainder`: `CrcSpec => []CrcIsRemainder`. `TableIsDivision` shows each of the 256 constants to be the remainder of its
  index; with it the step of the code and the step of the division are one function (`StepTypes`). One more byte
  at the end of a message is one more step of either (`ComputeCrcGrows`, `RemainderGrows`).

The sums over formats and messages are folds of the community modules, which are computed from the back by taking off the greatest
position. `FoldExists` and `FoldAccumulates` show, for any function, that such a fold is what a loop
from the front accumulates.

`Fsm_proofs`, for any machines, masks and priorities:

- `TypeCorrect`, `AllAreLinked`, `CallsAreInOrder` and `NotificationIsComplete`: the type invariant and the three
  safety properties of the run `fsm`. `Chained` says that each pointer leads from one registered machine to
  the one that was registered next, and `WalkIsOrderly` what the calls have been at each place of the
  walk, the machine that is called at the moment included. That `Registry`, which follows the pointers,
  is `registered` then follows because only one function fits its definition.

`Measurement_proofs`, first for any byte with an even number of values:

- `TypeCorrect` and `ReadingStaysClose`: the type invariant and `ReadingIsClose`, for measurements as long as
  four bytes can hold (`MaxTicksAssumption`). `TimerInv` says that after a fresh start the ticks are in the counter, in an overflow that is due,
  and in `_timerUs`, which holds what some number of overflows has added (`TicksAreCounted`, `CountsOf`); and that
  the bytes that `GetElapsedTime` has read so far are still those of `_timerUs` and belong to the counter as it was
  read (`ReadSoFar`, `AllIsRead`). The handler's addition is right because `Value` undoes `BytesOf`
  (`ValueOfBytes`). From `CountsOf` follows what a reading is short of (`CountsOfBounds`).

and, for any set of channels:

- `OneIsRight`: `AdcSpec => []OneOfTwoIsRight`, where `AdcSpec` has the steps that `Parts` has for `Adc`. `AdcIInv` says of
  a caller that is alone that the converter works for it (`Alone`), and, of the main program and the first handler that comes
  into its measurement, whose value the data register is going to have, for each pair of places where
  they can be (`FirstMeasures`), and what is left of that when the handler has returned (`FirstHasMeasured`).

`Board_proofs`, for rings of 2 to 128 bytes, pools of 1 to 128 slots, queues of any size, and any packets,
messages of the application and answers:

- `TypeCorrect`, `CreditAddsUp`, `RingNeverOverruns`, `ParserStaysInStep` and `NoSlotIsShared`: all five
  invariants of the run `board`. They depend on each other: the ring has space because the account of the bytes adds up,
  the account adds up because `HandleMessage` finds the lengths where they are, and that holds as
  long as the ring drops no byte. `IInv` says that what is in the ring and on the line consists of whole
  packets (`Framed`), that what `HandleMessage` has seen is the beginning of what comes (`InStep`), that free, queued,
  handled and leaked slots are disjoint and together all of them (`SlotsSplit`), and the `Account`. The bounds of the types
  follow from the account, so that only `Rough` types are inductive. That there is a place in the ring of
  free slots for the one that `DispatchEvent` gives back is the pigeonhole principle again (`RingHasPlace`).
  The sums over the queued slots and the acknowledgements are folds of the community modules; the lemmas before
  `SizeSum` show that the order in which a fold takes the elements does not matter.

Where a proof needs induction, on the length of a list or the size of a set, it takes the least counterexample instead
(`NatMinimum`, from the library's `WFMin`). That is possible because what is proved there can be written
as a set of numbers.

`AtomicSection_proofs`, for up to 127 nested sections and any set of interrupts:

- `TypeCorrect`, `MutualExclusion`, `NoNestedInterrupts`, `CopyIsExact` and `CountIsExact`: the type
  invariant and the four safety properties of the run `atomic`. They are not inductive
  either: mutual exclusion depends on the flag, the flag on the count, and
  the count on what each half-executed call has read. `IInv` says where main program and
  handler can be (`Places`), that the interrupts are disabled from `cli` to `sei`
  (`Disabled`), and what the byte is in each of these places (`ByteIsExact`).
  One step per statement and context shows that it is preserved. `MaxDepth <= 127` is needed: with
  128 sections the count runs into the mark of the handlers. That sections are left as often as they are entered is part of the model.

`ExtInt_proofs`, for any set of triggers and of functions of the application:

- `TypeCorrect` and `SilentWhenSwitchedOff`: the type invariant and `SwitchedOffIsSilent`. `IInv` says that `EIMSK` is what
  the application has switched on last (`MaskIsSwitched`).
- `TriggersAddUp`: what the code does instead of `TriggerIsAsAsked`. `EICRA` holds the shifted bits of every trigger that was ever
  asked for, and no others (`BitsAreAsked`), so that `INT1` never senses a falling or a rising edge alone.

`CompareMatch_proofs`, for any of the four sources and five frequencies, and for any counters
of up to 255:

- `TypeCorrect`, `RegistrationsHold` and `ClockIsDivided`: the type invariant and the two invariants
  of `CompareMatch`. Their conjunction is inductive. The proof rests on three lemmas: the arithmetic of the code
  on the number of a source finds the timer and the channel to which it is wired (`SourceIsWired`), two
  sources differ in one of the two (`SourcesAreApart`), and each table of dividers
  fits its prescaler (`DividerIsMeant`).

Except for the hypotheses of `Serial_proofs`, all use only the assumptions that the modules state about their
constants. TLC checked what is proved on small instances first.

*Model-checked only*: all liveness properties, which depend on fairness and `ENABLED`: `SearchEnds`,
`InterruptsAreServed`, `BytesAreSent`, `AwaitEnds`, `CreditReturns`, `DispatchReturns`, `EdgeIsServed` and `ServedAgain`.
Every safety property of the passing runs and both refinements are proved. Two properties are stated in a form that the prover can
use, and mean the same as the shorter ones: `ArgumentsAreSplit` does without `SelectSeq`, of which the
prover has no definition, and `Crc` has an exclusive or of its own, by sums of bits, because that of the community modules is recursive.

## 6. What the checks show

The synchronization is sound: the race in `EnterAtomic` between reading the byte and
`cli` is harmless, because every handler leaves the byte as it found it. The
pool of messages is never corrupted. The transmit ring and the credit
accounting are right. State functions may register machines and set states at any
time. Registering and unregistering compare match interrupts never disturbs the matches of
others. All constants of the checksum are right. Six runs show where the code does not do what its
documentation says:

- `queue_order` (`AvrLib.c:525`, `AvrLib.h:153`): the search for the place of a
  message does not compare it with the last one of the list. The message that was
  sent to an empty queue stays last, and of two messages of the same priority
  the second is taken first. Two commands of the PC that are received in one turn
  of the main loop are handled in the wrong order for the same reason.
- `queue_numbers` (`AvrLib.c:525`, `AvrLib.h:158`): the comment on the field `Priority` makes the smaller number the greater
  priority, and the code takes the larger number first, as the comment on `Priority_T` (`AvrLib.h:102`) has it. One of
  the two comments is wrong.
- `tx_trace4` (`AvrLib.c:849`): the header of a trace with four bytes announces three.
- `board_overload` (`AvrLib.c:386`): the flow control counts bytes, the pool slots; the fourth
  short packet is dropped and its bytes are never acknowledged.
- `timer_elapsed` (`AvrLib.c:403`, `AvrLib.h:317` and `327`): `StartTimer` does not reset the counter, so that what it showed before
  a second start is part of the next reading. That is the shortest way to a wrong time; there are more: a reading
  sets the counter back, and the next one lacks what it showed (`AvrLib.c:413`); an overflow adds 0x7FFF for the
  0x8000 microseconds of a period (`AvrLib.c:708`), where `AvrLib.h:320` wants the microseconds since the start; and
  an overflow in the middle of a reading is missed, or tears the bytes of `_timerUs` apart (`AvrLib.c:412`).
- `extint_trigger` (`AvrLib.c:177`, `AvrLib.h:261`): the trigger is shifted by the number of the source instead of
  twice that number. What is asked for `INT1` lands on bits 1 and 2 of `EICRA` instead of 2 and 3, and triggers add up over time.

Other things that the models keep as the code has them, and that the properties are worded around:

- `Usart_SendAnyData` with 62 to 253 bytes waits for ever (`AvrLib.c:141`); with 254 or 255 bytes the
  sum has eight bits only, and the ring is overwritten.
- A full queue discards the message of a packet; its slot and its credit are gone for
  good (`AvrLib.c:396`). `CreditReturns` excuses a board that has used up the credit.
- Registering a machine a second time cuts off those behind it (`AvrLib.c:440`).
- The answer to a `ReadRegister` whose length is neither 1 nor 2 is a 0 and that length, and no data (`AvrLib.c:898`): a PC
  that believes the length takes the next packets for data. With `ReadLengths = {3}` TLC finds `PacketsFollowHeaders` violated. What the PC does
  with an answer of type 0 the repository does not say.
- Characters of `Usart_PutChar` come between packets and have no header; how the PC tells them from packets, the
  repository does not say either.
- `SetExtInterruptEnable` does not find out whether there is a
  handler (`AvrLib.c:215`); that is harmless, since the handler of the interrupt looks again.
- Unregistering one compare match stops the clock of the other (`AvrLib.c:277`); channel B is
  not reached when its match is greater than that of channel A.
- When a handler measures in the middle of a measurement of the main program, exactly one of the two values
  is of the wrong channel (`AvrLib.c:162`).
- Each argument of a trace overwrites the last byte of the one before (`Preprocess.py:142`), and
  parentheses and nested commas are dropped from arguments (`Preprocess.py:126`).

## 7. What is not modelled, and the plan

Left out of the modules above: the contents of packets and registers; packets
with a length byte below 2 or above 16, which the PC does not send; functions that wait for
space called in a section; more than 127 nested sections, and a `LeaveAtomic` without `EnterAtomic`; applications that use
message Ids above 0x7F; the part of `AvrLib.c` for other processors (lines 711 to
757). The PC is an assumption, not a model of `AvrTerminal`.

Not modelled at all:

- `RegisterAvrMessageHandler`, which exchanges a pointer; `Board` has any answer of any handler.
- What `SetState` does to `CurrentState`: `Fsm` follows it, but no property is about it.
- The registers that `DefaultMessageHandler` reads and writes: any register of the processor.
- The register settings of `Usart_Init`: the models of the UART begin behind it.
- The macros of `RegisterAccess.h`, beyond what their uses do to registers.
- Two calls of `GetElapsedTime` at once, in the main program and in a handler.
- The preprocessor service: its server is a binary, and what it keeps between calls is unknown.
- The rest of `Preprocess.py`, make, project and header generation and the course scripts:
  input, output and text templates without state worth a model.
- The sample application and generated code.

The plan has no proofs left. What could be added are models: two readings of the elapsed time at once, and the register settings of
`Usart_Init` with bytes still waiting to be sent.
