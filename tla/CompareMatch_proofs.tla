-------------------------- MODULE CompareMatch_proofs --------------------------
(***************************************************************************)
(* Proofs about module CompareMatch, for counters of up to 255, any of the *)
(* sources, frequencies and matches.                                       *)
(***************************************************************************)
EXTENDS CompareMatch, TLAPS

IInv == MatchTypeOK /\ RegistrationHolds /\ ClockIsAsAskedLast

-----------------------------------------------------------------------------

(* The arithmetic on the number of a source finds the timer and the channel *)
(* to which it is wired.                                                    *)
LEMMA SourceIsWired ==
  ASSUME NEW s \in CompareMatchSources
  PROVE  /\ TimerOf(s) = TimerWired(s) /\ TimerOf(s) \in Timers
         /\ MaskBit(ChannelOf(s)) = BitWired(s) /\ (s % 2) + 1 = BitWired(s)
         /\ ChannelOf(s) = BitWired(s) - 1 /\ ChannelOf(s) \in Channels
         /\ BitWired(s) \in {1, 2}
<1>1. s \in {0, 1, 2, 3}
  BY SourcesAssumption
<1>2. CASE s = 0
  BY <1>2 DEF TimerOf, TimerWired, Timers, MaskBit, ChannelOf, BitWired, Channels
<1>3. CASE s = 1
  BY <1>3 DEF TimerOf, TimerWired, Timers, MaskBit, ChannelOf, BitWired, Channels
<1>4. CASE s = 2
  BY <1>4 DEF TimerOf, TimerWired, Timers, MaskBit, ChannelOf, BitWired, Channels
<1>5. CASE s = 3
  BY <1>5 DEF TimerOf, TimerWired, Timers, MaskBit, ChannelOf, BitWired, Channels
<1> QED
  BY <1>1, <1>2, <1>3, <1>4, <1>5

(* Two sources are wired to two timers or to two channels.                  *)
LEMMA SourcesAreApart ==
  ASSUME NEW r \in CompareMatchSources, NEW s \in CompareMatchSources,
         TimerWired(r) = TimerWired(s), BitWired(r) = BitWired(s)
  PROVE  r = s
BY SourcesAssumption DEF TimerWired, BitWired

(* The two tables of dividers and the two prescalers fit together.          *)
LEMMA DividerIsMeant ==
  ASSUME NEW t \in Timers, NEW f \in Frequencies
  PROVE  /\ Divider(t, f) \in 1..7
         /\ Prescaler(t, Divider(t, f)) = Meaning(f)
         /\ Meaning(f) \in 0..1024
<1>1. f \in {0, 1, 2, 3, 4} /\ t \in {0, 2}
  BY FrequenciesAssumption DEF Timers
<1>2. CASE t = 0
  BY <1>1, <1>2 DEF Divider, Prescaler, Meaning
<1>3. CASE t = 2
  BY <1>1, <1>3 DEF Divider, Prescaler, Meaning
<1> QED
  BY <1>1, <1>2, <1>3

(* A timer without a clock is not divided.                                  *)
LEMMA StoppedIsZero == ASSUME NEW t \in Timers PROVE Prescaler(t, 0) = 0
BY DEF Prescaler

-----------------------------------------------------------------------------

(* The initial states are typed, nothing is registered and no clock runs.   *)
LEMMA InitIsSound == MatchInit => IInv
<1> SUFFICES ASSUME MatchInit PROVE IInv
  OBVIOUS
<1>1. MatchTypeOK
  BY TopAssumption DEF MatchInit, MatchTypeOK, Timers, Channels, NoCall
<1>2. RegistrationHolds
  <2> SUFFICES ASSUME NEW s \in CompareMatchSources
               PROVE  matchAsked[s] = Nothing /\ BitWired(s) \notin timsk[TimerWired(s)]
    BY DEF RegistrationHolds
  <2> QED
    BY SourceIsWired DEF MatchInit
<1>3. ClockIsAsAskedLast
  BY StoppedIsZero DEF MatchInit, ClockIsAsAskedLast
<1> QED
  BY <1>1, <1>2, <1>3 DEF IInv

(* The counters and flags are no part of the two properties.                *)
LEMMA QuietStep ==
  ASSUME IInv, MatchTypeOK', UNCHANGED <<cs, ocr, timsk, compareMatchHandler, matchAsked, clock>>
  PROVE  IInv'
BY DEF IInv, RegistrationHolds, ClockIsAsAskedLast

(* A tick sets flags and moves one counter.                                 *)
LEMMA TickIsSound ==
  ASSUME IInv, NEW t \in Timers, Tick(t)
  PROVE  IInv'
<1> DEFINE next == IF tcnt[t] = Top \/ (ctc[t] /\ tcnt[t] = ocr[t][0]) THEN 0 ELSE tcnt[t] + 1
           flags == {c + 1 : c \in {d \in Channels : ocr[t][d] = next}}
<1>1. next \in 0..Top
  <2>1. tcnt[t] \in 0..Top
    BY DEF IInv, MatchTypeOK
  <2> QED
    BY <2>1, TopAssumption
<1>2. flags \subseteq {1, 2}
  BY DEF Channels
<1>3. tcnt' = [tcnt EXCEPT ![t] = next] /\ tifr' = [tifr EXCEPT ![t] = @ \cup flags]
  BY DEF Tick
<1> HIDE DEF next, flags
<1>4. MatchTypeOK'
  <2>1. tcnt' \in [Timers -> 0..Top]
    BY <1>1, <1>3 DEF IInv, MatchTypeOK
  <2>2. tifr' \in [Timers -> SUBSET {1, 2}]
    <3>1. tifr \in [Timers -> SUBSET {1, 2}]
      BY DEF IInv, MatchTypeOK
    <3>2. tifr[t] \cup flags \in SUBSET {1, 2}
      BY <1>2, <3>1
    <3> QED
      BY <1>3, <3>1, <3>2
  <2> QED
    BY <2>1, <2>2 DEF Tick, IInv, MatchTypeOK
<1> QED
  BY <1>4, QuietStep DEF Tick

(* A handler clears its flag.                                               *)
LEMMA CompareMatchIsSound ==
  ASSUME IInv, NEW s \in 0..3, CompareMatch(s)
  PROVE  IInv'
<1>1. MatchTypeOK'
  <2>1. tifr' \in [Timers -> SUBSET {1, 2}]
    <3>1. tifr \in [Timers -> SUBSET {1, 2}]
      BY DEF IInv, MatchTypeOK
    <3>2. tifr' = [tifr EXCEPT ![TimerWired(s)] = @ \ {BitWired(s)}]
      BY DEF CompareMatch
    <3> QED
      BY <3>1, <3>2
  <2> QED
    BY <2>1 DEF CompareMatch, IInv, MatchTypeOK
<1> QED
  BY <1>1, QuietStep DEF CompareMatch

(* Up to the start of the clock, registration concerns the clock only.      *)
LEMMA RegisterIsSound ==
  ASSUME IInv, NEW s \in CompareMatchSources, NEW f \in Frequencies, NEW m \in Matches,
         RegisterCompareMatchInterrupt(s, f, m)
  PROVE  IInv'
<1> DEFINE t == TimerWired(s)
<1>1. TimerOf(s) = t /\ t \in Timers
  BY SourceIsWired
<1> HIDE DEF t
<1>2. MatchTypeOK'
  <2>1. tcnt' \in [Timers -> 0..Top]
    <3>1. 0 \in 0..Top
      BY TopAssumption
    <3>2. tcnt' = [tcnt EXCEPT ![t] = 0]
      BY <1>1 DEF RegisterCompareMatchInterrupt
    <3> QED
      BY <3>1, <3>2 DEF IInv, MatchTypeOK
  <2>2. cs' \in [Timers -> 0..7]
    <3>1. Divider(t, f) \in 0..7
      BY <1>1, DividerIsMeant
    <3>2. cs' = [cs EXCEPT ![t] = Divider(t, f)]
      BY <1>1 DEF RegisterCompareMatchInterrupt
    <3>3. cs \in [Timers -> 0..7]
      BY DEF IInv, MatchTypeOK
    <3> QED
      BY <3>1, <3>2, <3>3
  <2>3. clock' \in [Timers -> 0..1024]
    <3> DEFINE Dividers == 0..1024
    <3>1. Meaning(f) \in Dividers
      BY <1>1, DividerIsMeant
    <3>2. clock' = [clock EXCEPT ![t] = Meaning(f)]
      BY DEF RegisterCompareMatchInterrupt, t
    <3>3. clock \in [Timers -> Dividers]
      BY DEF IInv, MatchTypeOK
    <3> HIDE DEF Dividers
    <3>4. clock' \in [Timers -> Dividers]
      BY <3>1, <3>2, <3>3
    <3> QED
      BY <3>4 DEF Dividers
  <2>4. ctc' \in [Timers -> BOOLEAN]
    BY <1>1 DEF RegisterCompareMatchInterrupt, IInv, MatchTypeOK
  <2>5. calling' \in {NoCall} \cup (CompareMatchSources \X Matches)
    BY DEF RegisterCompareMatchInterrupt
  <2> QED
    BY <2>1, <2>2, <2>3, <2>4, <2>5 DEF RegisterCompareMatchInterrupt, IInv, MatchTypeOK
<1>3. RegistrationHolds'
  BY DEF RegisterCompareMatchInterrupt, IInv, RegistrationHolds
<1>4. ClockIsAsAskedLast'
  BY <1>1, DividerIsMeant DEF RegisterCompareMatchInterrupt, IInv, MatchTypeOK, ClockIsAsAskedLast, t
<1> QED
  BY <1>2, <1>3, <1>4 DEF IInv

(* The end of a registration writes the register, the mask and the handler  *)
(* of the source, and those of no other.                                    *)
LEMMA RegistrationEndsIsSound ==
  ASSUME IInv, RegistrationEnds
  PROVE  IInv'
<1> DEFINE s == calling[1]
           m == calling[2]
           t == TimerWired(s)
           b == BitWired(s)
<1>1. s \in CompareMatchSources /\ m \in Matches
  BY DEF IInv, MatchTypeOK, RegistrationEnds
<1>2. /\ TimerOf(s) = t /\ t \in Timers /\ ChannelOf(s) = b - 1 /\ b - 1 \in Channels
      /\ MaskBit(ChannelOf(s)) = b /\ b \in {1, 2}
  BY <1>1, SourceIsWired
<1>3. /\ ocr' = [ocr EXCEPT ![t][b - 1] = m]
      /\ timsk' = [timsk EXCEPT ![t] = @ \cup {b}]
      /\ compareMatchHandler' = [compareMatchHandler EXCEPT ![s] = TRUE]
      /\ matchAsked' = [matchAsked EXCEPT ![s] = m]
      /\ calling' = NoCall /\ UNCHANGED <<tcnt, ctc, cs, tifr, clock>>
  BY <1>2 DEF RegistrationEnds
<1>4. \A r \in CompareMatchSources : TimerWired(r) = t /\ BitWired(r) = b => r = s
  BY <1>1, SourcesAreApart
<1>5. \A r \in CompareMatchSources : TimerWired(r) \in Timers /\ BitWired(r) - 1 \in Channels /\ BitWired(r) \in {1, 2}
  BY SourceIsWired
<1> HIDE DEF s, m, t, b
<1>6. m \in 0..Top /\ m # Nothing
  BY <1>1, MatchesAssumption, TopAssumption DEF Nothing
<1>7. MatchTypeOK'
  <2>1. ocr' \in [Timers -> [Channels -> 0..Top]]
    BY <1>2, <1>3, <1>6 DEF IInv, MatchTypeOK
  <2>2. timsk' \in [Timers -> SUBSET {1, 2}]
    BY <1>2, <1>3 DEF IInv, MatchTypeOK
  <2>3. matchAsked' \in [CompareMatchSources -> Matches \cup {Nothing}] /\ compareMatchHandler' \in [CompareMatchSources -> BOOLEAN]
    BY <1>1, <1>3 DEF IInv, MatchTypeOK
  <2> QED
    BY <1>3, <2>1, <2>2, <2>3 DEF IInv, MatchTypeOK
<1>8. RegistrationHolds'
  <2> SUFFICES ASSUME NEW r \in CompareMatchSources
               PROVE  IF matchAsked'[r] = Nothing
                        THEN BitWired(r) \notin timsk'[TimerWired(r)]
                        ELSE /\ BitWired(r) \in timsk'[TimerWired(r)] /\ compareMatchHandler'[r]
                             /\ ocr'[TimerWired(r)][BitWired(r) - 1] = matchAsked'[r]
    BY DEF RegistrationHolds
  <2>1. CASE r = s
    BY <1>1, <1>2, <1>3, <1>6, <2>1 DEF IInv, MatchTypeOK, t, b
  <2>2. CASE r # s /\ TimerWired(r) # t
    BY <1>2, <1>3, <1>5, <2>2 DEF IInv, MatchTypeOK, RegistrationHolds
  <2>3. CASE r # s /\ TimerWired(r) = t
    BY <1>2, <1>3, <1>4, <1>5, <2>3 DEF IInv, MatchTypeOK, RegistrationHolds
  <2> QED
    BY <2>1, <2>2, <2>3
<1>9. ClockIsAsAskedLast'
  BY <1>3 DEF IInv, ClockIsAsAskedLast
<1> QED
  BY <1>7, <1>8, <1>9 DEF IInv

(* Unregistering stops the clock and masks the source, and no other.        *)
LEMMA UnregisterIsSound ==
  ASSUME IInv, NEW s \in CompareMatchSources, UnregisterCompareMatchInterrupt(s)
  PROVE  IInv'
<1> DEFINE t == TimerWired(s)
           b == BitWired(s)
<1>1. TimerOf(s) = t /\ t \in Timers /\ (s % 2) + 1 = b
  BY SourceIsWired
<1>2. /\ timsk' = [timsk EXCEPT ![t] = @ \ {b}]
      /\ compareMatchHandler' = [compareMatchHandler EXCEPT ![s] = FALSE]
      /\ matchAsked' = [matchAsked EXCEPT ![s] = Nothing]
      /\ cs' = [cs EXCEPT ![t] = 0] /\ clock' = [clock EXCEPT ![t] = 0]
      /\ UNCHANGED <<tcnt, ctc, ocr, tifr, calling>>
  BY <1>1 DEF UnregisterCompareMatchInterrupt
<1>3. \A r \in CompareMatchSources : TimerWired(r) = t /\ BitWired(r) = b => r = s
  BY SourcesAreApart
<1>4. \A r \in CompareMatchSources : TimerWired(r) \in Timers
  BY SourceIsWired
<1>5. \A r \in CompareMatchSources : r = s => TimerWired(r) = t /\ BitWired(r) = b
  OBVIOUS
<1> HIDE DEF t, b
<1>6. MatchTypeOK'
  BY <1>1, <1>2 DEF IInv, MatchTypeOK
<1>7. RegistrationHolds'
  <2> SUFFICES ASSUME NEW r \in CompareMatchSources
               PROVE  IF matchAsked'[r] = Nothing
                        THEN BitWired(r) \notin timsk'[TimerWired(r)]
                        ELSE /\ BitWired(r) \in timsk'[TimerWired(r)] /\ compareMatchHandler'[r]
                             /\ ocr'[TimerWired(r)][BitWired(r) - 1] = matchAsked'[r]
    BY DEF RegistrationHolds
  <2>1. CASE r = s
    BY <1>1, <1>2, <1>5, <2>1 DEF IInv, MatchTypeOK
  <2>2. CASE r # s /\ TimerWired(r) # t
    BY <1>1, <1>2, <1>4, <2>2 DEF IInv, MatchTypeOK, RegistrationHolds
  <2>3. CASE r # s /\ TimerWired(r) = t
    BY <1>1, <1>2, <1>3, <2>3 DEF IInv, MatchTypeOK, RegistrationHolds
  <2> QED
    BY <2>1, <2>2, <2>3
<1>8. ClockIsAsAskedLast'
  BY <1>1, <1>2, StoppedIsZero DEF IInv, MatchTypeOK, ClockIsAsAskedLast
<1> QED
  BY <1>6, <1>7, <1>8 DEF IInv

-----------------------------------------------------------------------------

(* No operation disturbs the invariant.                                     *)
LEMMA StepIsSound == IInv /\ [MatchNext]_matchVars => IInv'
<1> SUFFICES ASSUME IInv, [MatchNext]_matchVars PROVE IInv'
  OBVIOUS
<1>1. ASSUME NEW s \in CompareMatchSources, Configures(s) PROVE IInv'
  BY <1>1, RegisterIsSound, UnregisterIsSound DEF Configures
<1>2. CASE UNCHANGED matchVars
  BY <1>2 DEF matchVars, IInv, MatchTypeOK, RegistrationHolds, ClockIsAsAskedLast
<1> QED
  BY <1>1, <1>2, TickIsSound, CompareMatchIsSound, RegistrationEndsIsSound DEF MatchNext

(* The invariant holds in every reachable state.                            *)
LEMMA Invariance == MatchSpec => []IInv
BY InitIsSound, StepIsSound, PTL DEF MatchSpec

(* The types of the variables are kept.                                     *)
THEOREM TypeCorrect == MatchSpec => []MatchTypeOK
<1>1. IInv => MatchTypeOK
  BY DEF IInv
<1> QED
  BY <1>1, Invariance, PTL

(* A registered source keeps its match, its mask and its handler, whatever  *)
(* is registered and unregistered next to it.                               *)
THEOREM RegistrationsHold == MatchSpec => []RegistrationHolds
<1>1. IInv => RegistrationHolds
  BY DEF IInv
<1> QED
  BY <1>1, Invariance, PTL

(* The clock of a timer is divided as was asked for last.                   *)
THEOREM ClockIsDivided == MatchSpec => []ClockIsAsAskedLast
<1>1. IInv => ClockIsAsAskedLast
  BY DEF IInv
<1> QED
  BY <1>1, Invariance, PTL

=============================================================================
