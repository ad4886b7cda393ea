-------------------------- MODULE Measurement_proofs --------------------------
(***************************************************************************)
(* Proofs about the two measurements of AvrLib.c: module Timer1, for any   *)
(* byte with an even number of values and any number of ticks that         *)
(* _timerUs can count, and, behind it, module Adc, for any channels.       *)
(***************************************************************************)
EXTENDS Timer1, Adc, TLAPS

(* The handler has added v, for overflows of t ticks.                       *)
CountsOf(v, t) == \E n \in Nat : t = Period * n /\ 2 * (v + n) = t

(* The ticks in an overflow that was not handled yet, and those that a      *)
(* reading lacks for this reason.                                           *)
Pending == IF tov THEN Period ELSE 0
Missed == IF crossed THEN Period ELSE 0

(* After a fresh start the ticks are in the counter, in an overflow that is *)
(* due, and in _timerUs; StartTimer has set to 0 what it has got to.        *)
TicksAreCounted ==
  fresh =>
    /\ timerPc = "start" => /\ ticks = tcnt1 + Pending
                            /\ \A i \in zeroed : timerUs[i] = 0
    /\ timerPc \in {"idle", "read"} => CountsOf(Value(timerUs), ticks - tcnt1 - Pending)

(* The readings that are close.                                             *)
Untorn == fresh /\ (crossed => locked)

(* In the middle of such a reading the bytes do not change.                 *)
ReadSoFar ==
  /\ timerPc \in {"idle", "start"} =>
       ~crossed /\ count = Unread /\ \A i \in ByteNumbers : seen[i] = Unread
  /\ timerPc = "read" /\ Untorn =>
       /\ crossed => count # Unread
       /\ count # Unread => CountsOf(Value(timerUs), elapsed - count - Missed)
       /\ \A i \in ByteNumbers : seen[i] # Unread => seen[i] = timerUs[i]

(* At its end all is read.                                                  *)
AllIsRead ==
  timerPc = "return" =>
    /\ count # Unread /\ \A i \in ByteNumbers : seen[i] # Unread
    /\ Untorn => CountsOf(Value(seen), elapsed - count - Missed)

TimerInv == TimerTypeOK /\ TicksAreCounted /\ ReadSoFar /\ AllIsRead

-----------------------------------------------------------------------------

(* Quotient and remainder.                                                  *)
LEMMA DivMod ==
  ASSUME NEW n \in Nat
  PROVE  /\ n \div Base \in Nat /\ n % Base \in Bytes
         /\ n = Base * (n \div Base) + (n % Base)
BY BaseAssumption DEF Bytes

(* The period of the counter.                                               *)
LEMMA PeriodIsEven ==
  /\ Period \in Nat /\ Period >= 4
  /\ Period \div 2 \in Nat /\ 2 * (Period \div 2) = Period
  /\ Base * Base * Base * Base = Period * Period
<1>1. Base * Base >= 4 /\ Base * Base \in Nat
  BY BaseAssumption
<1>2. PICK h \in Nat : Base = 2 * h
  <2>1. Base = 2 * (Base \div 2) /\ Base \div 2 \in Nat
    BY BaseAssumption
  <2> QED
    BY <2>1
<1>3. Base * Base = 2 * (h * Base) /\ h * Base \in Nat
  BY BaseAssumption, <1>2
<1>4. Base * Base * Base * Base = (Base * Base) * (Base * Base)
  BY BaseAssumption
<1> QED
  BY <1>1, <1>3, <1>4 DEF Period

(* A sum of bytes that are weighted by their places is at least 0.          *)
LEMMA ValueIsNat ==
  ASSUME NEW b \in [ByteNumbers -> Bytes]
  PROVE  Value(b) \in Nat
<1>1. /\ b[0] \in Nat /\ b[1] \in Nat /\ b[2] \in Nat /\ b[3] \in Nat
      /\ Base \in Nat
  BY BaseAssumption DEF ByteNumbers, Bytes
<1>2. \A x, y \in Nat : x + Base * y \in Nat
  BY <1>1
<1>3. b[2] + Base * b[3] \in Nat
  BY <1>1, <1>2
<1>4. b[1] + Base * (b[2] + Base * b[3]) \in Nat
  BY <1>1, <1>2, <1>3
<1> QED
  BY <1>1, <1>2, <1>4 DEF Value

(* The bytes of a number are bytes, and their value is the number if four   *)
(* of them can hold it.                                                     *)
LEMMA BytesOfType ==
  ASSUME NEW n \in Nat
  PROVE  BytesOf(n) \in [ByteNumbers -> Bytes]
<1> DEFINE high == n \div Base
           higher == high \div Base
           highest == higher \div Base
<1>1. high \in Nat /\ n % Base \in Bytes
  BY DivMod
<1> HIDE DEF high
<1>2. higher \in Nat /\ high % Base \in Bytes
  BY <1>1, DivMod
<1> HIDE DEF higher
<1>3. highest \in Nat /\ higher % Base \in Bytes
  BY <1>2, DivMod
<1> HIDE DEF highest
<1>4. highest % Base \in Bytes
  BY <1>3, DivMod
<1>5. BytesOf(n) = [i \in ByteNumbers |-> CASE i = 0 -> n % Base
                                            [] i = 1 -> high % Base
                                            [] i = 2 -> higher % Base
                                            [] i = 3 -> highest % Base]
  BY Zenon DEF BytesOf, high, higher, highest
<1> QED
  BY <1>1, <1>2, <1>3, <1>4, <1>5 DEF ByteNumbers

(* Value undoes BytesOf.                                                    *)
LEMMA ValueOfBytes ==
  ASSUME NEW n \in Nat, n < Period * Period
  PROVE  Value(BytesOf(n)) = n
<1> DEFINE high == n \div Base
           higher == high \div Base
           highest == higher \div Base
<1>1. high \in Nat /\ n % Base \in Bytes /\ n = Base * high + (n % Base)
  BY DivMod
<1>2. /\ BytesOf(n)[0] = n % Base /\ BytesOf(n)[1] = high % Base
      /\ BytesOf(n)[2] = higher % Base /\ BytesOf(n)[3] = highest % Base
  BY DEF BytesOf, ByteNumbers
<1> HIDE DEF high
<1>3. higher \in Nat /\ high % Base \in Bytes /\ high = Base * higher + (high % Base)
  BY <1>1, DivMod
<1> HIDE DEF higher
<1>4. highest \in Nat /\ higher % Base \in Bytes /\ higher = Base * highest + (higher % Base)
  BY <1>3, DivMod
<1> HIDE DEF highest
<1>5. highest % Base = highest
  <2>1. ASSUME highest >= Base PROVE FALSE
    <3>1. ASSUME NEW x \in Nat, NEW y \in Nat, x >= y PROVE Base * x >= Base * y
      BY <3>1, BaseAssumption
    <3>2. higher >= Base * Base
      BY <1>4, <2>1, <3>1, BaseAssumption DEF Bytes
    <3>3. high >= Base * (Base * Base)
      BY <1>3, <3>1, <3>2, BaseAssumption DEF Bytes
    <3>4. n >= Base * (Base * (Base * Base))
      BY <1>1, <1>3, <3>1, <3>3, BaseAssumption DEF Bytes
    <3>5. Base * (Base * (Base * Base)) = Period * Period
      BY BaseAssumption DEF Period
    <3> QED
      BY <3>4, <3>5, PeriodIsEven
  <2>2. highest < Base
    BY <1>4, <2>1, BaseAssumption
  <2> QED
    BY <1>4, <2>2, BaseAssumption
<1>6. Value(BytesOf(n))
        = (n % Base) + Base * ((high % Base) + Base * ((higher % Base) + Base * highest))
  BY <1>2, <1>5 DEF Value
<1>7. (higher % Base) + Base * highest = higher
  BY <1>4, BaseAssumption DEF Bytes
<1>8. (high % Base) + Base * higher = high
  BY <1>3, BaseAssumption DEF Bytes
<1>9. (n % Base) + Base * high = n
  BY <1>1, BaseAssumption DEF Bytes
<1> QED
  BY <1>6, <1>7, <1>8, <1>9

-----------------------------------------------------------------------------

(* Nothing has been added for no ticks.                                     *)
LEMMA CountsOfNothing == CountsOf(0, 0)
<1>1. Period * 0 = 0
  BY PeriodIsEven
<1> QED
  BY <1>1 DEF CountsOf

(* The next overflow adds its microseconds, less one.                       *)
LEMMA CountsOfNext ==
  ASSUME NEW v \in Nat, NEW t \in Int, CountsOf(v, t)
  PROVE  CountsOf(v + Increment, t + Period)
<1>1. PICK n \in Nat : t = Period * n /\ 2 * (v + n) = t
  BY DEF CountsOf
<1>2. Period * (n + 1) = Period * n + Period
  BY PeriodIsEven
<1>3. 2 * Increment = Period - 2 /\ Increment \in Nat /\ Period \in Nat
  BY PeriodIsEven DEF Increment
<1>4. 2 * (v + Increment + (n + 1)) = t + Period
  BY <1>1, <1>3
<1>5. t + Period = Period * (n + 1) /\ n + 1 \in Nat
  BY <1>1, <1>2
<1> QED
  BY <1>4, <1>5 DEF CountsOf

(* What is added is less than the ticks, by one part in half a period.      *)
LEMMA CountsOfBounds ==
  ASSUME NEW v \in Nat, NEW t \in Int, CountsOf(v, t)
  PROVE  t \in Nat /\ 2 * v <= t /\ Period * (t - 2 * v) = 2 * t
<1>1. PICK n \in Nat : t = Period * n /\ 2 * (v + n) = t
  BY DEF CountsOf
<1>2. t - 2 * v = 2 * n
  BY <1>1
<1>3. Period * (2 * n) = 2 * (Period * n)
  BY PeriodIsEven
<1> QED
  BY <1>1, <1>2, <1>3

-----------------------------------------------------------------------------

(* Each step preserves the types.                                           *)
LEMMA TypeStep ==
  ASSUME TimerTypeOK, [TimerNext]_timerVars
  PROVE  TimerTypeOK'
<1> USE DEF TimerTypeOK
<1>1. /\ Period \in Nat /\ Period >= 4 /\ MaxTicks \in Nat
      /\ Increment \in Nat
  BY PeriodIsEven, MaxTicksAssumption DEF Increment
<1>2. CASE Timer1Tick
  <2>1. (tcnt1 + 1) % Period \in 0..(Period-1)
    BY <1>1
  <2>2. ticks + 1 \in 0..MaxTicks
    BY <1>1, <1>2 DEF Timer1Tick
  <2> QED
    BY <1>2, <2>1, <2>2 DEF Timer1Tick
<1>3. CASE Overflow
  <2>1. Value(timerUs) + Increment \in Nat
    BY <1>1, ValueIsNat
  <2>2. timerUs' \in [ByteNumbers -> Bytes]
    BY <1>3, <2>1, BytesOfType DEF Overflow
  <2>3. fresh' \in BOOLEAN /\ crossed' \in BOOLEAN /\ tov' \in BOOLEAN
    BY <1>3 DEF Overflow
  <2> QED
    BY <1>3, <2>2, <2>3, Zenon DEF Overflow
<1>4. CASE StartTimer
  <2>1. ticks' \in 0..MaxTicks /\ fresh' \in BOOLEAN
    BY <1>1, <1>4 DEF StartTimer
  <2> QED
    BY <1>4, <2>1 DEF StartTimer
<1>5. CASE \E i \in ByteNumbers : ZeroByte(i)
  <2>1. 0 \in Bytes
    BY BaseAssumption DEF Bytes
  <2> QED
    BY <1>5, <2>1 DEF ZeroByte, history
<1>6. CASE StartEnds
  BY <1>6 DEF StartEnds, history
<1>7. CASE \E inSection \in BOOLEAN : GetElapsedTime(inSection)
  BY <1>7 DEF GetElapsedTime, history
<1>8. CASE ReadCounter
  BY <1>8 DEF ReadCounter
<1>9. CASE \E i \in ByteNumbers : ReadByte(i)
  BY <1>9 DEF ReadByte, history
<1>10. CASE ZeroCounter
  BY <1>1, <1>10 DEF ZeroCounter, history
<1>11. CASE Return
  <2>1. 0 \in 0..MaxTicks
    BY <1>1
  <2> QED
    BY <1>11, <2>1 DEF Return
<1>12. CASE UNCHANGED timerVars
  BY <1>12 DEF timerVars
<1> QED
  BY <1>2, <1>3, <1>4, <1>5, <1>6, <1>7, <1>8, <1>9, <1>10, <1>11, <1>12 DEF TimerNext

(* The counter, the bytes of _timerUs and the histories keep their types.   *)
THEOREM TypeCorrect == TimerSpec => []TimerTypeOK
<1>1. TimerInit => TimerTypeOK
  <2>1. 0 \in Bytes /\ 0 \in 0..(Period-1) /\ 0 \in 0..MaxTicks
    BY BaseAssumption, MaxTicksAssumption, PeriodIsEven DEF Bytes
  <2> SUFFICES ASSUME TimerInit PROVE TimerTypeOK
    OBVIOUS
  <2>2. timerUs \in [ByteNumbers -> Bytes] /\ seen \in [ByteNumbers -> Bytes \cup {Unread}]
    BY <2>1 DEF TimerInit
  <2> QED
    BY <2>1, <2>2, Zenon DEF TimerInit, TimerTypeOK
<1> QED
  BY <1>1, TypeStep, PTL DEF TimerSpec

(* The numbers that the state consists of.                                  *)
LEMMA Numbers ==
  ASSUME TimerTypeOK
  PROVE  /\ Period \in Nat /\ Period >= 4 /\ MaxTicks \in Nat
         /\ tcnt1 \in 0..(Period-1) /\ ticks \in 0..MaxTicks /\ elapsed \in 0..MaxTicks
         /\ Value(timerUs) \in Nat
         /\ Pending \in Nat /\ Missed \in Nat
         /\ ticks - tcnt1 - Pending \in Int
BY PeriodIsEven, MaxTicksAssumption, ValueIsNat DEF TimerTypeOK, Pending, Missed

(* What the handler is about to add after a fresh start fits into the four  *)
(* bytes.                                                                   *)
LEMMA OverflowCounts ==
  ASSUME TimerTypeOK, Overflow, CountsOf(Value(timerUs), ticks - tcnt1 - Pending)
  PROVE  CountsOf(Value(timerUs'), ticks - tcnt1)
<1> DEFINE v == Value(timerUs)
           t == ticks - tcnt1 - Pending
           square == Period * Period
<1>1. tov /\ timerUs' = BytesOf(v + Increment)
  BY DEF Overflow
<1>2. Pending = Period
  BY <1>1 DEF Pending
<1>3. v \in Nat /\ t \in Int /\ CountsOf(v, t)
  BY Numbers
<1>4. /\ Period \in Nat /\ 2 * Increment = Period - 2 /\ Increment \in Nat
      /\ square \in Nat /\ MaxTicks \in Nat /\ MaxTicks < square
  BY PeriodIsEven, MaxTicksAssumption DEF Increment
<1>5. t + Period = ticks - tcnt1 /\ ticks - tcnt1 <= MaxTicks
  BY <1>2, Numbers
<1> HIDE DEF v, t, square
<1>6. 2 * v <= t /\ CountsOf(v + Increment, t + Period)
  BY <1>3, CountsOfBounds, CountsOfNext
<1>7. v + Increment \in Nat /\ v + Increment < square
  BY <1>3, <1>4, <1>5, <1>6
<1>8. Value(timerUs') = v + Increment
  BY <1>1, <1>7, ValueOfBytes DEF square
<1> QED
  BY <1>5, <1>6, <1>8

(* Each step keeps the account of the ticks after a fresh start.            *)
LEMMA CountStep ==
  ASSUME TimerInv, TimerTypeOK', [TimerNext]_timerVars
  PROVE  TicksAreCounted'
<1>1. TimerTypeOK /\ TicksAreCounted
  BY DEF TimerInv
<1>2. /\ Period \in Nat /\ Period >= 4 /\ tcnt1 \in 0..(Period-1) /\ ticks \in Nat
      /\ tov \in BOOLEAN
  BY <1>1, Numbers DEF TimerTypeOK
<1>3. CASE Timer1Tick
  <2>1. /\ UNCHANGED <<timerUs, timerPc, zeroed, fresh>> /\ ticks' = ticks + 1
        /\ tcnt1 = Period - 1 => ~tov
        /\ tcnt1' = (tcnt1 + 1) % Period
        /\ tov' = (tov \/ tcnt1 = Period - 1)
    BY <1>3 DEF Timer1Tick
  <2>2. tcnt1' = IF tcnt1 = Period - 1 THEN 0 ELSE tcnt1 + 1
    BY <1>2, <2>1
  <2>3. tcnt1' + Pending' = tcnt1 + Pending + 1
    <3>1. CASE tcnt1 = Period - 1
      <4>1. tcnt1' = 0 /\ Pending = 0 /\ Pending' = Period
        BY <2>1, <2>2, <3>1 DEF Pending
      <4> QED
        BY <1>2, <3>1, <4>1
    <3>2. CASE tcnt1 # Period - 1
      <4>1. tcnt1' = tcnt1 + 1 /\ Pending' = Pending
        BY <1>2, <2>1, <2>2, <3>2 DEF Pending
      <4>2. Pending \in Nat
        BY <1>2 DEF Pending
      <4> QED
        BY <1>2, <4>1, <4>2
    <3> QED
      BY <3>1, <3>2
  <2>4. Pending \in Nat /\ Pending' \in Nat /\ tcnt1' \in Nat
    BY <1>2, <2>2 DEF Pending
  <2>5. ticks' - tcnt1' - Pending' = ticks - tcnt1 - Pending
    BY <1>2, <2>1, <2>3, <2>4
  <2>6. fresh /\ timerPc = "start" => ticks' = tcnt1' + Pending'
    BY <1>1, <1>2, <2>1, <2>3, <2>4 DEF TicksAreCounted
  <2> QED
    BY <1>1, <2>1, <2>5, <2>6 DEF TicksAreCounted
<1>4. CASE Overflow
  <2>1. /\ UNCHANGED <<tcnt1, timerPc, ticks>> /\ ~tov'
        /\ fresh' => fresh /\ timerPc # "start"
    BY <1>4 DEF Overflow
  <2>2. Pending' = 0
    BY <2>1 DEF Pending
  <2>3. ASSUME fresh', timerPc \in {"idle", "read"}
        PROVE  CountsOf(Value(timerUs'), ticks' - tcnt1' - Pending')
    <3>1. CountsOf(Value(timerUs'), ticks - tcnt1)
      BY <1>1, <1>4, <2>1, <2>3, OverflowCounts DEF TicksAreCounted
    <3>2. ticks' - tcnt1' - Pending' = ticks - tcnt1
      BY <1>2, <2>1, <2>2
    <3> QED
      BY <3>1, <3>2
  <2> QED
    BY <2>1, <2>3 DEF TicksAreCounted
<1>5. CASE StartTimer
  <2>1. /\ timerPc' = "start" /\ zeroed' = {} /\ ticks' = 0 /\ UNCHANGED <<tcnt1, tov>>
        /\ fresh' => tcnt1 = 0 /\ ~tov
    BY <1>5 DEF StartTimer
  <2> QED
    BY <2>1 DEF TicksAreCounted, Pending
<1>6. CASE \E i \in ByteNumbers : ZeroByte(i)
  <2>1. PICK i \in ByteNumbers : ZeroByte(i)
    BY <1>6
  <2>2. /\ UNCHANGED <<tcnt1, tov, timerPc, ticks, fresh>> /\ timerPc = "start"
        /\ timerUs' = [timerUs EXCEPT ![i] = 0] /\ zeroed' = zeroed \cup {i}
    BY <2>1 DEF ZeroByte, history
  <2>3. Pending' = Pending
    BY <2>2 DEF Pending
  <2>4. fresh => \A j \in zeroed' : timerUs'[j] = 0
    BY <1>1, <2>2 DEF TicksAreCounted, TimerTypeOK
  <2> QED
    BY <1>1, <2>2, <2>3, <2>4 DEF TicksAreCounted
<1>7. CASE StartEnds
  <2>1. /\ UNCHANGED <<tcnt1, tov, timerUs, ticks, fresh>>
        /\ timerPc = "start" /\ timerPc' = "idle" /\ zeroed = ByteNumbers
    BY <1>7 DEF StartEnds, history
  <2>2. Pending' = Pending /\ Pending \in Nat
    BY <1>2, <2>1 DEF Pending
  <2>3. ASSUME fresh PROVE CountsOf(Value(timerUs), ticks - tcnt1 - Pending)
    <3>1. ticks = tcnt1 + Pending /\ \A i \in 0..3 : timerUs[i] = 0
      BY <1>1, <2>1, <2>3 DEF TicksAreCounted, ByteNumbers
    <3>2. Value(timerUs) = 0
      BY <3>1, BaseAssumption DEF Value
    <3>3. ticks - tcnt1 - Pending = 0
      BY <1>2, <2>2, <3>1
    <3> QED
      BY <3>2, <3>3, CountsOfNothing
  <2> QED
    BY <2>1, <2>2, <2>3 DEF TicksAreCounted
<1>8. CASE ZeroCounter
  BY <1>8 DEF ZeroCounter, history, TicksAreCounted
<1>9. CASE Return
  BY <1>9 DEF Return, TicksAreCounted
<1>10. ASSUME UNCHANGED <<tcnt1, tov, timerUs, zeroed, ticks, fresh>>,
              timerPc' = timerPc \/ (timerPc = "idle" /\ timerPc' = "read")
       PROVE  TicksAreCounted'
  BY <1>1, <1>10 DEF TicksAreCounted, Pending
<1>11. CASE \E inSection \in BOOLEAN : GetElapsedTime(inSection)
  BY <1>10, <1>11 DEF GetElapsedTime, history
<1>12. CASE ReadCounter
  BY <1>10, <1>12 DEF ReadCounter
<1>13. CASE \E i \in ByteNumbers : ReadByte(i)
  BY <1>10, <1>13 DEF ReadByte, history
<1>14. CASE UNCHANGED timerVars
  BY <1>10, <1>14 DEF timerVars
<1> QED
  BY <1>3, <1>4, <1>5, <1>6, <1>7, <1>8, <1>9, <1>11, <1>12, <1>13, <1>14 DEF TimerNext

(* Each step keeps what has been read so far consistent.                    *)
LEMMA ReadStep ==
  ASSUME TimerInv, TimerTypeOK', [TimerNext]_timerVars
  PROVE  ReadSoFar' /\ AllIsRead'
<1>1. TimerTypeOK /\ TimerTypeOK' /\ TicksAreCounted /\ ReadSoFar /\ AllIsRead
  BY DEF TimerInv
<1>2. Unread \notin Bytes /\ Unread \notin 0..(Period-1)
  BY PeriodIsEven, BaseAssumption DEF Unread, Bytes
<1>3. ASSUME UNCHANGED <<timerPc, locked, count, seen, elapsed, fresh, crossed>>, timerUs' = timerUs
      PROVE  ReadSoFar' /\ AllIsRead'
  BY <1>1, <1>3 DEF ReadSoFar, AllIsRead, Untorn, Missed
<1>4. CASE Timer1Tick
  BY <1>3, <1>4 DEF Timer1Tick
<1>5. CASE Overflow
  <2>1. /\ UNCHANGED <<timerPc, locked, count, seen, elapsed>> /\ ~locked
        /\ crossed' = (crossed \/ timerPc = "read")
        /\ fresh' = (fresh /\ timerPc # "start")
    BY <1>5 DEF Overflow
  <2>2. timerPc = "read" => ~Untorn'
    BY <2>1 DEF Untorn
  <2>3. timerPc = "return" => (crossed' <=> crossed) /\ (fresh' <=> fresh)
    BY <2>1
  <2>4. ReadSoFar'
    BY <1>1, <2>1, <2>2 DEF ReadSoFar
  <2>5. AllIsRead'
    BY <1>1, <2>1, <2>3 DEF AllIsRead, Untorn, Missed
  <2> QED
    BY <2>4, <2>5
<1>6. CASE StartTimer
  BY <1>1, <1>6 DEF StartTimer, ReadSoFar, AllIsRead
<1>7. CASE \E i \in ByteNumbers : ZeroByte(i)
  BY <1>1, <1>7 DEF ZeroByte, history, ReadSoFar, AllIsRead
<1>8. CASE StartEnds
  BY <1>1, <1>8 DEF StartEnds, history, ReadSoFar, AllIsRead
<1>9. CASE \E inSection \in BOOLEAN : GetElapsedTime(inSection)
  BY <1>1, <1>9 DEF GetElapsedTime, history, ReadSoFar, AllIsRead
<1>10. CASE ReadCounter
  <2>1. /\ UNCHANGED <<timerUs, timerPc, locked, seen, fresh>> /\ timerPc = "read" /\ count = Unread
        /\ count' = tcnt1 /\ crossed' = (crossed \/ tov) /\ elapsed' = ticks
    BY <1>10 DEF ReadCounter
  <2>2. ASSUME Untorn'
        PROVE  /\ count' # Unread
               /\ CountsOf(Value(timerUs)', elapsed' - count' - Missed')
               /\ \A i \in ByteNumbers : seen'[i] # Unread => seen'[i] = timerUs'[i]
    <3>1. Untorn
      BY <2>1, <2>2 DEF Untorn
    <3>2. ~crossed /\ \A i \in ByteNumbers : seen[i] # Unread => seen[i] = timerUs[i]
      BY <1>1, <2>1, <3>1 DEF ReadSoFar
    <3>3. Missed' = Pending
      BY <2>1, <3>2 DEF Missed, Pending
    <3>4. CountsOf(Value(timerUs), ticks - tcnt1 - Pending)
      BY <1>1, <2>1, <3>1 DEF TicksAreCounted, Untorn
    <3>5. count' # Unread
      BY <1>1, <1>2, <2>1 DEF TimerTypeOK
    <3> QED
      BY <2>1, <3>2, <3>3, <3>4, <3>5
  <2>3. ReadSoFar'
    BY <2>1, <2>2 DEF ReadSoFar
  <2> QED
    BY <2>1, <2>3 DEF AllIsRead
<1>11. CASE \E i \in ByteNumbers : ReadByte(i)
  <2>1. PICK i \in ByteNumbers : ReadByte(i)
    BY <1>11
  <2>2. /\ UNCHANGED <<timerUs, timerPc, locked, count, elapsed, fresh, crossed>> /\ timerPc = "read"
        /\ seen' = [seen EXCEPT ![i] = timerUs[i]]
    BY <2>1 DEF ReadByte, history
  <2>3. \A j \in ByteNumbers : seen'[j] = IF j = i THEN timerUs[i] ELSE seen[j]
    BY <1>1, <2>2 DEF TimerTypeOK
  <2> QED
    BY <1>1, <2>2, <2>3 DEF ReadSoFar, AllIsRead, Untorn, Missed
<1>12. CASE ZeroCounter
  <2>1. /\ UNCHANGED <<timerUs, locked, count, seen, elapsed, fresh, crossed>>
        /\ timerPc = "read" /\ timerPc' = "return"
        /\ count # Unread /\ \A i \in ByteNumbers : seen[i] # Unread
    BY <1>12 DEF ZeroCounter, history
  <2>2. ASSUME Untorn PROVE CountsOf(Value(seen), elapsed - count - Missed)
    <3>1. /\ CountsOf(Value(timerUs), elapsed - count - Missed)
          /\ \A i \in 0..3 : seen[i] = timerUs[i]
      BY <1>1, <2>1, <2>2 DEF ReadSoFar, ByteNumbers
    <3>2. Value(seen) = Value(timerUs)
      BY <3>1 DEF Value
    <3> QED
      BY <3>1, <3>2
  <2> QED
    BY <2>1, <2>2 DEF ReadSoFar, AllIsRead, Untorn, Missed
<1>13. CASE Return
  BY <1>13 DEF Return, ReadSoFar, AllIsRead
<1>14. CASE UNCHANGED timerVars
  BY <1>3, <1>14 DEF timerVars
<1> QED
  BY <1>4, <1>5, <1>6, <1>7, <1>8, <1>9, <1>10, <1>11, <1>12, <1>13, <1>14 DEF TimerNext

(* The invariant holds at all times.                                        *)
LEMMA Invariance == TimerSpec => []TimerInv
<1>1. TimerInit /\ TimerTypeOK => TimerInv
  BY DEF TimerInit, TimerInv, TicksAreCounted, ReadSoFar, AllIsRead
<1>2. TimerInv /\ TimerTypeOK' /\ [TimerNext]_timerVars => TimerInv'
  BY CountStep, ReadStep DEF TimerInv
<1> QED
  BY <1>1, <1>2, TypeCorrect, PTL DEF TimerSpec

(* The first reading after a fresh start is never ahead of the ticks that   *)
(* have gone by, and behind them by no more than a tick and one part in     *)
(* half a period, and by a period if an overflow had to wait: whenever the  *)
(* counter goes on and the handler of the overflow comes.                   *)
THEOREM ReadingStaysClose == TimerSpec => []ReadingIsClose
<1>1. TimerInv => ReadingIsClose
  <2> DEFINE v == Value(seen)
             half == count \div 2
             square == Period * Period
             t == elapsed - count - Missed
             late == elapsed - 2 * Result - Missed
  <2> SUFFICES ASSUME TimerInv, timerPc = "return", Untorn
               PROVE  late >= 0 /\ Period * (late - 1) <= 2 * elapsed
    BY Zenon DEF ReadingIsClose, Untorn, Missed
  <2>1. /\ Period \in Nat /\ Period >= 4 /\ MaxTicks \in Nat /\ MaxTicks < square
        /\ square \in Nat
    BY PeriodIsEven, MaxTicksAssumption
  <2>2. count \in 0..(Period-1) /\ seen \in [ByteNumbers -> Bytes]
    BY DEF TimerInv, TimerTypeOK, AllIsRead
  <2>3. v \in Nat
    BY <2>2, ValueIsNat
  <2>4. half \in Nat /\ 2 * half <= count /\ count <= 2 * half + 1
    BY <2>1, <2>2
  <2>5. Result = (half + v) % square
    BY DEF Result, Micros
  <2>6. elapsed \in 0..MaxTicks /\ Missed \in Nat
    BY Numbers DEF TimerInv
  <2>7. t \in Int /\ CountsOf(v, t)
    BY <2>1, <2>2, <2>6 DEF TimerInv, AllIsRead
  <2>8. elapsed = t + count + Missed
    BY <2>1, <2>2, <2>6
  <2> HIDE DEF v, half, square, t
  <2>9. t \in Nat /\ 2 * v <= t /\ Period * (t - 2 * v) = 2 * t
    BY <2>3, <2>7, CountsOfBounds
  <2>10. Result = half + v
    <3>1. half + v \in Nat /\ half + v < square
      BY <2>1, <2>2, <2>3, <2>4, <2>6, <2>8, <2>9
    <3> QED
      BY <2>1, <2>5, <3>1
  <2>11. late \in Int /\ late >= 0 /\ late - 1 <= t - 2 * v
    BY <2>1, <2>2, <2>3, <2>4, <2>6, <2>8, <2>9, <2>10
  <2> HIDE DEF late
  <2>12. Period * (late - 1) <= Period * (t - 2 * v)
    <3>1. ASSUME NEW x \in Int, NEW y \in Int, x <= y PROVE Period * x <= Period * y
      BY <2>1, <3>1
    <3> QED
      BY <2>3, <2>9, <2>11, <3>1
  <2>13. Period * (late - 1) \in Int
    BY <2>1, <2>11
  <2> QED
    BY <2>2, <2>6, <2>8, <2>9, <2>11, <2>12, <2>13
<1> QED
  BY <1>1, Invariance, PTL

-----------------------------------------------------------------------------

(* Measurements of module Adc: the behaviours of the kind that module Parts *)
(* has for them.                                                            *)
AdcSpec == AdcInit /\ [][AdcNext]_adcVars

(* What the data register is going to show when no conversion goes on.      *)
Coming == IF adsc THEN sample ELSE adcData

AdcTypeOK ==
  /\ mux \in AnalogChannels /\ adsc \in BOOLEAN
  /\ sample \in AnalogChannels /\ adcData \in AnalogChannels /\ frozen \in BOOLEAN
  /\ at \in [Callers -> {"idle", "start", "wait", "low", "high", "return"}]
  /\ channel \in [Callers -> AnalogChannels]
  /\ result \in [Callers -> SUBSET AnalogChannels]
  /\ others \in 0..2 /\ otherRight \in BOOLEAN

(* A conversion goes on only while somebody waits for one, and the data are *)
(* kept only for somebody who has read one byte of them.  Nobody comes      *)
(* between the last byte and the return.                                    *)
InTurn ==
  /\ adsc => \/ at["handler"] = "wait"
             \/ at["main"] = "wait" /\ at["handler"] \in {"idle", "start"}
  /\ frozen => at["main"] = "high" \/ at["handler"] = "high"
  /\ at["main"] = "return" => at["handler"] = "idle"
  /\ at["main"] # "idle" /\ others = 0 => at["handler"] = "idle"

(* A caller that is alone gets a value of its channel.                      *)
GetsItsOwn(c) ==
  /\ at[c] = "start" => mux = channel[c]
  /\ at[c] = "wait" => Coming = channel[c]
  /\ at[c] \in {"low", "high"} => adcData = channel[c]
  /\ at[c] = "high" => frozen
  /\ at[c] \in {"high", "return"} => result[c] = {channel[c]}

Alone ==
  /\ at["main"] # "idle" /\ others = 0 => GetsItsOwn("main")
  /\ at["main"] = "idle" => GetsItsOwn("handler")

(* While the first handler measures: the value is its own if the main       *)
(* program has not started its conversion or has seen that it is over, the  *)
(* main program's if that has read one byte, and either one if it waits.    *)
FirstMeasures ==
  LET m == channel["main"]
      h == channel["handler"]
  IN  /\ at["handler"] = "start" =>
           /\ mux = h
           /\ at["main"] = "wait" => Coming = m
           /\ at["main"] \in {"low", "high"} => adcData = m
      /\ at["handler"] = "wait" =>
           /\ at["main"] \in {"start", "low"} => Coming = h
           /\ at["main"] = "wait" => Coming \in {m, h}
      /\ at["handler"] \in {"low", "high", "return"} =>
           /\ at["main"] \in {"start", "low"} => adcData = h
           /\ at["main"] = "wait" => adcData \in {m, h}
      /\ at["handler"] \in {"high", "return"} => result["handler"] = {adcData}
      /\ at["main"] = "start" => mux = h
      /\ at["main"] = "high" =>
           /\ adcData = m /\ result["main"] = {m}
           /\ at["handler"] # "return" => frozen

(* Behind it: the main program gets the value that the handler got.         *)
Shared(v) == v \in {channel["main"], channel["handler"]} /\ (otherRight <=> v = channel["handler"])

FirstHasMeasured ==
  /\ at["main"] = "start" => mux = channel["handler"] /\ otherRight
  /\ at["main"] = "wait" => Shared(Coming)
  /\ at["main"] \in {"low", "high"} => Shared(adcData)
  /\ at["main"] = "high" => result["main"] = {adcData}
  /\ at["main"] = "return" => \E v \in AnalogChannels : Shared(v) /\ result["main"] = {v}

(* What there is between the main program and the first handler that comes  *)
(* into its measurement.                                                    *)
Pair ==
  at["main"] # "idle" /\ others = 1 =>
    IF at["handler"] = "idle" THEN FirstHasMeasured ELSE FirstMeasures

AdcIInv == AdcTypeOK /\ InTurn /\ Alone /\ Pair

(* A step of the main program, which no handler interrupts, and one of a    *)
(* handler, which keeps the main program where it is.                       *)
LEMMA CallerGoes ==
  ASSUME AdcTypeOK, NEW c \in Callers,
         NEW from \in {"idle", "start", "wait", "low", "high", "return"},
         NEW to \in {"idle", "start", "wait", "low", "high", "return"}, Goes(c, from, to)
  PROVE  /\ at' \in [Callers -> {"idle", "start", "wait", "low", "high", "return"}]
         /\ \/ /\ c = "main" /\ at["main"] = from /\ at["handler"] = "idle"
               /\ at'["main"] = to /\ at'["handler"] = "idle"
            \/ /\ c = "handler" /\ at["handler"] = from
               /\ at'["handler"] = to /\ at'["main"] = at["main"]
BY DEF AdcTypeOK, Goes, Callers

(* Each step keeps the invariant.                                           *)
LEMMA AdcStep == AdcIInv /\ [AdcNext]_adcVars => AdcIInv'
<1> SUFFICES ASSUME AdcIInv, [AdcNext]_adcVars PROVE AdcIInv'
  OBVIOUS
<1> USE DEF Callers, Coming
<1>1. AdcTypeOK /\ InTurn /\ Alone /\ Pair
  BY DEF AdcIInv
<1>2. CASE ConversionEnds
  <2>2. AdcTypeOK'
    BY <1>1, <1>2 DEF ConversionEnds, AdcTypeOK
  <2>3. InTurn'
    BY <1>1, <1>2 DEF ConversionEnds, AdcTypeOK, InTurn
  <2>4. Alone'
    BY <1>1, <1>2 DEF ConversionEnds, AdcTypeOK, InTurn, Alone, GetsItsOwn
  <2>5. Pair'
    BY <1>1, <1>2 DEF ConversionEnds, AdcTypeOK, InTurn, Alone, GetsItsOwn, Pair, Shared,
       FirstMeasures, FirstHasMeasured
  <2> QED
    BY <2>2, <2>3, <2>4, <2>5 DEF AdcIInv
<1>3. ASSUME NEW c \in Callers, NEW ch \in AnalogChannels, MeasureOnce(c, ch)
      PROVE  AdcIInv'
  <2>1. /\ at' \in [Callers -> {"idle", "start", "wait", "low", "high", "return"}]
        /\ \/ /\ c = "main" /\ at["main"] = "idle" /\ at["handler"] = "idle"
              /\ at'["main"] = "start" /\ at'["handler"] = "idle"
           \/ /\ c = "handler" /\ at["handler"] = "idle"
              /\ at'["handler"] = "start" /\ at'["main"] = at["main"]
    BY <1>1, <1>3, CallerGoes DEF MeasureOnce
  <2>2. AdcTypeOK'
    BY <1>1, <1>3, <2>1 DEF MeasureOnce, AdcTypeOK
  <2>3. InTurn'
    BY <1>1, <1>3, <2>1 DEF MeasureOnce, AdcTypeOK, InTurn
  <2>4. Alone'
    BY <1>1, <1>3, <2>1 DEF MeasureOnce, AdcTypeOK, InTurn, Alone, GetsItsOwn
  <2>5. Pair'
    BY <1>1, <1>3, <2>1 DEF MeasureOnce, AdcTypeOK, InTurn, Alone, GetsItsOwn, Pair, Shared,
       FirstMeasures, FirstHasMeasured
  <2> QED
    BY <2>2, <2>3, <2>4, <2>5 DEF AdcIInv
<1>4. ASSUME NEW c \in Callers, Start(c)
      PROVE  AdcIInv'
  <2>1. /\ at' \in [Callers -> {"idle", "start", "wait", "low", "high", "return"}]
        /\ \/ /\ c = "main" /\ at["main"] = "start" /\ at["handler"] = "idle"
              /\ at'["main"] = "wait" /\ at'["handler"] = "idle"
           \/ /\ c = "handler" /\ at["handler"] = "start"
              /\ at'["handler"] = "wait" /\ at'["main"] = at["main"]
    BY <1>1, <1>4, CallerGoes DEF Start
  <2>2. AdcTypeOK'
    BY <1>1, <1>4, <2>1 DEF Start, AdcTypeOK
  <2>3. InTurn'
    BY <1>1, <1>4, <2>1 DEF Start, AdcTypeOK, InTurn
  <2>4. Alone'
    BY <1>1, <1>4, <2>1 DEF Start, AdcTypeOK, InTurn, Alone, GetsItsOwn
  <2>5. Pair'
    BY <1>1, <1>4, <2>1 DEF Start, AdcTypeOK, InTurn, Alone, GetsItsOwn, Pair, Shared,
       FirstMeasures, FirstHasMeasured
  <2> QED
    BY <2>2, <2>3, <2>4, <2>5 DEF AdcIInv
<1>5. ASSUME NEW c \in Callers, WaitEnds(c)
      PROVE  AdcIInv'
  <2>1. /\ at' \in [Callers -> {"idle", "start", "wait", "low", "high", "return"}]
        /\ \/ /\ c = "main" /\ at["main"] = "wait" /\ at["handler"] = "idle"
              /\ at'["main"] = "low" /\ at'["handler"] = "idle"
           \/ /\ c = "handler" /\ at["handler"] = "wait"
              /\ at'["handler"] = "low" /\ at'["main"] = at["main"]
    BY <1>1, <1>5, CallerGoes DEF WaitEnds
  <2>2. AdcTypeOK'
    BY <1>1, <1>5, <2>1 DEF WaitEnds, HasConverted, AdcTypeOK
  <2>3. InTurn'
    BY <1>1, <1>5, <2>1 DEF WaitEnds, HasConverted, AdcTypeOK, InTurn
  <2>4. Alone'
    BY <1>1, <1>5, <2>1 DEF WaitEnds, HasConverted, AdcTypeOK, InTurn, Alone, GetsItsOwn
  <2>5. Pair'
    BY <1>1, <1>5, <2>1 DEF WaitEnds, HasConverted, AdcTypeOK, InTurn, Alone, GetsItsOwn, Pair, Shared,
       FirstMeasures, FirstHasMeasured
  <2> QED
    BY <2>2, <2>3, <2>4, <2>5 DEF AdcIInv
<1>6. ASSUME NEW c \in Callers, ReadLow(c)
      PROVE  AdcIInv'
  <2>1. /\ at' \in [Callers -> {"idle", "start", "wait", "low", "high", "return"}]
        /\ \/ /\ c = "main" /\ at["main"] = "low" /\ at["handler"] = "idle"
              /\ at'["main"] = "high" /\ at'["handler"] = "idle"
           \/ /\ c = "handler" /\ at["handler"] = "low"
              /\ at'["handler"] = "high" /\ at'["main"] = at["main"]
    BY <1>1, <1>6, CallerGoes DEF ReadLow
  <2>2. AdcTypeOK'
    BY <1>1, <1>6, <2>1 DEF ReadLow, AdcTypeOK
  <2>3. InTurn'
    BY <1>1, <1>6, <2>1 DEF ReadLow, AdcTypeOK, InTurn
  <2>4. Alone'
    BY <1>1, <1>6, <2>1 DEF ReadLow, AdcTypeOK, InTurn, Alone, GetsItsOwn
  <2>5. Pair'
    BY <1>1, <1>6, <2>1 DEF ReadLow, AdcTypeOK, InTurn, Alone, GetsItsOwn, Pair, Shared,
       FirstMeasures, FirstHasMeasured
  <2> QED
    BY <2>2, <2>3, <2>4, <2>5 DEF AdcIInv
<1>7. ASSUME NEW c \in Callers, ReadHigh(c)
      PROVE  AdcIInv'
  <2>1. /\ at' \in [Callers -> {"idle", "start", "wait", "low", "high", "return"}]
        /\ \/ /\ c = "main" /\ at["main"] = "high" /\ at["handler"] = "idle"
              /\ at'["main"] = "return" /\ at'["handler"] = "idle"
           \/ /\ c = "handler" /\ at["handler"] = "high"
              /\ at'["handler"] = "return" /\ at'["main"] = at["main"]
    BY <1>1, <1>7, CallerGoes DEF ReadHigh
  <2>2. AdcTypeOK'
    BY <1>1, <1>7, <2>1 DEF ReadHigh, AdcTypeOK
  <2>3. InTurn'
    BY <1>1, <1>7, <2>1 DEF ReadHigh, AdcTypeOK, InTurn
  <2>4. Alone'
    BY <1>1, <1>7, <2>1 DEF ReadHigh, AdcTypeOK, InTurn, Alone, GetsItsOwn
  <2>5. Pair'
    BY <1>1, <1>7, <2>1 DEF ReadHigh, AdcTypeOK, InTurn, Alone, GetsItsOwn, Pair, Shared,
       FirstMeasures, FirstHasMeasured
  <2> QED
    BY <2>2, <2>3, <2>4, <2>5 DEF AdcIInv
<1>8. ASSUME NEW c \in Callers, Returns(c)
      PROVE  AdcIInv'
  <2>1. /\ at' \in [Callers -> {"idle", "start", "wait", "low", "high", "return"}]
        /\ \/ /\ c = "main" /\ at["main"] = "return" /\ at["handler"] = "idle"
              /\ at'["main"] = "idle" /\ at'["handler"] = "idle"
           \/ /\ c = "handler" /\ at["handler"] = "return"
              /\ at'["handler"] = "idle" /\ at'["main"] = at["main"]
    BY <1>1, <1>8, CallerGoes DEF Returns
  <2>2. AdcTypeOK'
    BY <1>1, <1>8, <2>1 DEF Returns, IsRight, AdcTypeOK
  <2>3. InTurn'
    BY <1>1, <1>8, <2>1 DEF Returns, AdcTypeOK, InTurn
  <2>4. Alone'
    BY <1>1, <1>8, <2>1 DEF Returns, AdcTypeOK, InTurn, Alone, GetsItsOwn
  <2>5. Pair'
    BY <1>1, <1>8, <2>1 DEF Returns, IsRight, AdcTypeOK, InTurn, Alone, GetsItsOwn, Pair, Shared,
       FirstMeasures, FirstHasMeasured
  <2> QED
    BY <2>2, <2>3, <2>4, <2>5 DEF AdcIInv
<1>9. CASE UNCHANGED adcVars
  BY <1>1, <1>9 DEF adcVars, AdcIInv, AdcTypeOK, InTurn, Alone, GetsItsOwn, Pair, Shared,
     FirstMeasures, FirstHasMeasured
<1> QED
  BY <1>2, <1>3, <1>4, <1>5, <1>6, <1>7, <1>8, <1>9 DEF AdcNext

(* A measurement that nobody comes into, and that comes into nobody else's, *)
(* returns a value of its channel, and if one handler comes into a          *)
(* measurement of the main program, MeasureOnce is right for exactly one of *)
(* them, whatever the channels and wherever the handler comes.              *)
THEOREM OneIsRight == AdcSpec => []OneOfTwoIsRight
<1>1. AdcInit => AdcIInv
  <2> SUFFICES ASSUME AdcInit PROVE AdcIInv
    OBVIOUS
  <2>1. AdcTypeOK
    <3>1. adsc \in BOOLEAN /\ frozen \in BOOLEAN /\ otherRight \in BOOLEAN
      BY Zenon DEF AdcInit
    <3>2. /\ mux \in AnalogChannels /\ sample \in AnalogChannels /\ adcData \in AnalogChannels
          /\ others \in 0..2
      BY AnalogChannelsAssumption DEF AdcInit
    <3>3. /\ at \in [Callers -> {"idle", "start", "wait", "low", "high", "return"}]
          /\ channel \in [Callers -> AnalogChannels]
          /\ result \in [Callers -> SUBSET AnalogChannels]
      BY AnalogChannelsAssumption DEF AdcInit
    <3> QED
      BY <3>1, <3>2, <3>3 DEF AdcTypeOK
  <2>2. at["main"] = "idle" /\ at["handler"] = "idle" /\ adsc = FALSE /\ frozen = FALSE
    BY DEF AdcInit, Callers
  <2> QED
    BY <2>1, <2>2 DEF AdcIInv, InTurn, Alone, GetsItsOwn, Pair
<1>2. AdcIInv => OneOfTwoIsRight
  BY DEF AdcIInv, AdcTypeOK, InTurn, Alone, GetsItsOwn, Pair, FirstHasMeasured, Shared,
     Callers, OneOfTwoIsRight, IsRight
<1> QED
  BY <1>1, <1>2, AdcStep, PTL DEF AdcSpec

=============================================================================
