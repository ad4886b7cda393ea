-------------------------------- MODULE Timer1 --------------------------------
(***************************************************************************)
(* Measuring time with timer 1: StartTimer, GetElapsedTime and the handler *)
(* of the overflow in AvrLib.c.  None of them uses an atomic section: the  *)
(* counter goes on and the handler runs between any two accesses to the    *)
(* four bytes of _timerUs.  A call may also be made with interrupts        *)
(* disabled, in a section of the application or in a handler.              *)
(*                                                                         *)
(* A byte has the values 0..Base-1, the counter two bytes, and _timerUs    *)
(* four.  A tick is half a microsecond.                                    *)
(***************************************************************************)
EXTENDS Integers

CONSTANTS Base,       (* values of a byte, 256 in the code                   *)
          MaxTicks    (* bound of the model: ticks after a call of StartTimer*)

ASSUME BaseAssumption == Base \in Nat /\ Base > 1 /\ Base % 2 = 0
ASSUME MaxTicksAssumption == MaxTicks \in Nat /\ MaxTicks < Base * Base * Base * Base

VARIABLES
  tcnt1,      (* TCNT of timer 1                                             *)
  tov,        (* its overflow flag: the handler is due                       *)
  running,    (* whether timer 1 has been started                            *)
  timerUs,    (* the bytes of _timerUs, byte 0 the lowest                    *)
  timerPc,    (* "idle", or where the program is in StartTimer or            *)
              (* GetElapsedTime: "start", "read" or "return"                 *)
  locked,     (* whether GetElapsedTime runs with interrupts disabled        *)
  count,      (* TCNT as GetElapsedTime has read it                          *)
  seen,       (* the bytes of _timerUs as GetElapsedTime has read them       *)
  zeroed,     (* the bytes of _timerUs that StartTimer has set to 0          *)
  ticks,      (* history: ticks since StartTimer was called                  *)
  elapsed,    (* history: what ticks was when GetElapsedTime has read TCNT   *)
  fresh,      (* history: StartTimer has found a counter at 0, was not       *)
              (* interrupted, and no call of GetElapsedTime has returned     *)
  crossed     (* history: an overflow came in the middle of GetElapsedTime   *)

timerVars == <<tcnt1, tov, running, timerUs, timerPc, locked, count, seen, zeroed,
               ticks, elapsed, fresh, crossed>>
history == <<ticks, elapsed, fresh, crossed>>

ByteNumbers == 0..3
Bytes == 0..(Base-1)
Period == Base * Base
Unread == -1

Value(b) == b[0] + Base * (b[1] + Base * (b[2] + Base * b[3]))

(* The four bytes of a number.                                              *)
BytesOf(n) ==
  LET high == n \div Base IN
  LET higher == high \div Base IN
  [i \in ByteNumbers |-> CASE i = 0 -> n % Base
                           [] i = 1 -> high % Base
                           [] i = 2 -> higher % Base
                           [] i = 3 -> (higher \div Base) % Base]

TimerInit ==
  /\ tcnt1 = 0 /\ tov = FALSE /\ running = FALSE
  /\ timerUs = [i \in ByteNumbers |-> 0]
  /\ timerPc = "idle" /\ locked = FALSE /\ zeroed = {}
  /\ count = Unread /\ seen = [i \in ByteNumbers |-> Unread]
  /\ ticks = 0 /\ elapsed = 0 /\ fresh = FALSE /\ crossed = FALSE

-----------------------------------------------------------------------------

(* The counter counts.  Interrupts are never disabled for a whole period.   *)
Timer1Tick ==
  /\ running
  /\ ticks < MaxTicks
  /\ tcnt1 = Period - 1 => ~tov
  /\ tcnt1' = (tcnt1 + 1) % Period
  /\ tov' = (tov \/ tcnt1 = Period - 1)
  /\ ticks' = ticks + 1
  /\ UNCHANGED <<running, timerUs, timerPc, locked, count, seen, zeroed, elapsed, fresh, crossed>>

(* What the handler adds: the microseconds of a period, less one.           *)
(* (Mutant: its ticks.)                                                     *)
MutantTicks == Period - 1
Increment == Period \div 2 - 1

Overflow ==
  /\ tov /\ ~locked
  /\ tov' = FALSE
  /\ timerUs' = BytesOf(Value(timerUs) + Increment)
  /\ fresh' = (fresh /\ timerPc # "start")
  /\ crossed' = (crossed \/ timerPc = "read")
  /\ UNCHANGED <<tcnt1, running, timerPc, locked, count, seen, zeroed, ticks, elapsed>>

(* StartTimer sets _timerUs to 0, byte by byte, and starts the counter,     *)
(* which it does not set back.                                              *)
StartTimer ==
  /\ timerPc = "idle"
  /\ timerPc' = "start"
  /\ zeroed' = {}
  /\ ticks' = 0
  /\ fresh' = (tcnt1 = 0 /\ ~tov)
  /\ UNCHANGED <<tcnt1, tov, running, timerUs, locked, count, seen, elapsed, crossed>>

ZeroByte(i) ==
  /\ timerPc = "start" /\ i \notin zeroed
  /\ timerUs' = [timerUs EXCEPT ![i] = 0]
  /\ zeroed' = zeroed \cup {i}
  /\ UNCHANGED <<tcnt1, tov, running, timerPc, locked, count, seen, history>>

StartEnds ==
  /\ timerPc = "start" /\ zeroed = ByteNumbers
  /\ running' = TRUE
  /\ timerPc' = "idle" /\ zeroed' = {}
  /\ UNCHANGED <<tcnt1, tov, timerUs, locked, count, seen, history>>

GetElapsedTime(inSection) ==
  /\ timerPc = "idle"
  /\ timerPc' = "read"
  /\ locked' = inSection
  /\ UNCHANGED <<tcnt1, tov, running, timerUs, count, seen, zeroed, history>>

(* The sum reads the counter at once, and the four bytes one after the      *)
(* other; the compiler may choose the order.                                *)
ReadCounter ==
  /\ timerPc = "read" /\ count = Unread
  /\ count' = tcnt1
  /\ elapsed' = ticks
  /\ crossed' = (crossed \/ tov)
  /\ UNCHANGED <<tcnt1, tov, running, timerUs, timerPc, locked, seen, zeroed, ticks, fresh>>

ReadByte(i) ==
  /\ timerPc = "read" /\ seen[i] = Unread
  /\ seen' = [seen EXCEPT ![i] = timerUs[i]]
  /\ UNCHANGED <<tcnt1, tov, running, timerUs, timerPc, locked, count, zeroed, history>>

(* When all is read, the counter is set back.                               *)
ZeroCounter ==
  /\ timerPc = "read" /\ count # Unread /\ \A i \in ByteNumbers : seen[i] # Unread
  /\ timerPc' = "return"
  /\ tcnt1' = 0
  /\ UNCHANGED <<tov, running, timerUs, locked, count, seen, zeroed, history>>

(* A tick is half a microsecond.                                            *)
Micros(n) == n \div 2

Result == (Micros(count) + Value(seen)) % (Period * Period)

Return ==
  /\ timerPc = "return"
  /\ timerPc' = "idle" /\ locked' = FALSE
  /\ count' = Unread /\ seen' = [i \in ByteNumbers |-> Unread]
  /\ elapsed' = 0 /\ fresh' = FALSE /\ crossed' = FALSE
  /\ UNCHANGED <<tcnt1, tov, running, timerUs, zeroed, ticks>>

TimerNext ==
  \/ Timer1Tick \/ Overflow
  \/ StartTimer
  \/ \E i \in ByteNumbers : ZeroByte(i)
  \/ StartEnds
  \/ \E inSection \in BOOLEAN : GetElapsedTime(inSection)
  \/ ReadCounter
  \/ \E i \in ByteNumbers : ReadByte(i)
  \/ ZeroCounter
  \/ Return

TimerSpec == TimerInit /\ [][TimerNext]_timerVars

-----------------------------------------------------------------------------

(* Types of the variables.                                                  *)
TimerTypeOK ==
  /\ tcnt1 \in 0..(Period-1)
  /\ tov \in BOOLEAN /\ running \in BOOLEAN /\ locked \in BOOLEAN
  /\ timerUs \in [ByteNumbers -> Bytes]
  /\ timerPc \in {"idle", "start", "read", "return"}
  /\ count \in 0..(Period-1) \cup {Unread}
  /\ seen \in [ByteNumbers -> Bytes \cup {Unread}]
  /\ zeroed \subseteq ByteNumbers
  /\ ticks \in 0..MaxTicks /\ elapsed \in 0..MaxTicks
  /\ fresh \in BOOLEAN /\ crossed \in BOOLEAN

(* AvrLib.h: "Start the Timer on Tcnt1 and reset internal counters" and     *)
(* "Get the elapsed time since the last call to StartTimer".  The code does *)
(* not do this: StartTimer leaves TCNT as it is, every reading sets it back,*)
(* an overflow adds a microsecond too little, and one in the middle of a    *)
(* reading is missed or tears the bytes of _timerUs apart.                  *)
ElapsedSinceStart == timerPc = "return" => Result = Micros(elapsed)

(* What is true of it: the first reading after StartTimer has found the     *)
(* counter at 0 is never ahead of the time, and slow by no more than a tick *)
(* and one part in half a period, if no overflow comes in its middle.  If   *)
(* one does while interrupts are disabled, the bytes are not torn apart,    *)
(* and the reading is a period short.                                       *)
ReadingIsClose ==
  timerPc = "return" /\ fresh /\ (crossed => locked) =>
    LET late == elapsed - 2 * Result - (IF crossed THEN Period ELSE 0)
    IN  late >= 0 /\ Period * (late - 1) <= 2 * elapsed

=============================================================================
