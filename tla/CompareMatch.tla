----------------------------- MODULE CompareMatch -----------------------------
(***************************************************************************)
(* The compare match interrupts of AvrLib.c: two channels on each of two   *)
(* timers, registered and unregistered by the application in atomic        *)
(* sections.  The counters do not stop for a section, so that registration *)
(* is two steps: up to the start of the clock, and what comes behind it.   *)
(*                                                                         *)
(* The timers are modelled as the data sheet has them: a channel whose     *)
(* register equals the counter sets its flag, whether or not anybody has   *)
(* asked for it, and in the mode "clear on compare match" the counter goes *)
(* back to 0 behind the register of channel A.  Handlers are done before   *)
(* the next tick; sections may take longer.                                *)
(***************************************************************************)
EXTENDS Integers

CONSTANTS CompareMatchSources,  (* those in use                              *)
          Frequencies,          (* the TimerFrequencies in use               *)
          Matches,              (* the values of match in use                *)
          Top                   (* greatest value of a counter, 255 in the   *)
                                (* code                                      *)

ASSUME SourcesAssumption == CompareMatchSources \subseteq 0..3 /\ CompareMatchSources # {}
ASSUME FrequenciesAssumption == Frequencies \subseteq 0..4
ASSUME TopAssumption == Top \in 1..255
ASSUME MatchesAssumption == Matches \subseteq 0..Top

VARIABLES
  tcnt,         (* the counter of each timer                                 *)
  ctc,          (* whether its mode is ClrTmrOnCmpMatch                      *)
  cs,           (* its clock select bits                                     *)
  ocr,          (* its compare registers, those of channels A = 0 and B = 1  *)
  timsk,        (* its interrupt mask: bit 1 for channel A, bit 2 for B      *)
  tifr,         (* its interrupt flags, likewise                             *)
  compareMatchHandler,  (* whether _compareMatchHandler of a source is not 0 *)
  calling,      (* the call of RegisterCompareMatchInterrupt on its way      *)
  matchAsked,   (* history: the match that a registered source asked for     *)
  clock         (* history: the divider asked for last, for each timer       *)

matchVars == <<tcnt, ctc, cs, ocr, timsk, tifr, compareMatchHandler, calling, matchAsked, clock>>

Timers == {0, 2}          \* Tcnt0 and Tcnt2
Channels == {0, 1}
NoCall == <<>>
Nothing == -1

(* The sources as they are wired, the clock select bits of the two timers,  *)
(* and what a TimerFrequency stands for.                                    *)
TimerWired(s) == IF s \in {0, 1} THEN 0 ELSE 2
BitWired(s) == IF s \in {0, 2} THEN 1 ELSE 2
Prescaler(t, bits) ==
  CASE bits = 0 -> 0
    [] bits > 0 /\ t = 0 -> <<1, 8, 64, 256, 1024>>[bits]
    [] bits > 0 /\ t = 2 -> <<1, 8, 32, 64, 128, 256, 1024>>[bits]
Meaning(frequency) == <<1, 8, 64, 256, 1024>>[frequency + 1]

(* "source > CompareMatchSource2".  (Mutant: one further.)                  *)
MutantOneFurther(s) == IF s > 2 THEN 2 ELSE 0
TimerOf(s) == IF s > 1 THEN 2 ELSE 0

(* isrMask, the index of the compare register.                              *)
ChannelOf(s) == IF TimerOf(s) = 2 THEN (s - 2) % 4 ELSE s % 4

(* source1Div and source2Div.  (Mutant: one table for both.)                *)
MutantOneTable(t, f) == <<1, 2, 3, 4, 5>>[f + 1]
Divider(t, f) == IF t = 2 THEN <<1, 2, 4, 6, 7>>[f + 1] ELSE <<1, 2, 3, 4, 5>>[f + 1]

-----------------------------------------------------------------------------

MatchInit ==
  /\ tcnt = [t \in Timers |-> 0]
  /\ ctc = [t \in Timers |-> FALSE]
  /\ cs = [t \in Timers |-> 0]
  /\ ocr = [t \in Timers |-> [c \in Channels |-> 0]]
  /\ timsk = [t \in Timers |-> {}] /\ tifr = [t \in Timers |-> {}]
  /\ compareMatchHandler = [s \in CompareMatchSources |-> FALSE]
  /\ calling = NoCall
  /\ matchAsked = [s \in CompareMatchSources |-> Nothing]
  /\ clock = [t \in Timers |-> 0]

(* The interrupts that wait to be served: A of timer 2, B of timer 2, A of  *)
(* timer 0, B of timer 0, in the order of their vectors.                    *)
MatchesDue == {s \in 0..3 : BitWired(s) \in timsk[TimerWired(s)] \cap tifr[TimerWired(s)]}
Before(r, s) == (r + 2) % 4 < (s + 2) % 4

Tick(t) ==
  LET next == IF tcnt[t] = Top \/ (ctc[t] /\ tcnt[t] = ocr[t][0]) THEN 0 ELSE tcnt[t] + 1
  IN  /\ cs[t] # 0
      /\ calling = NoCall => MatchesDue = {}
      /\ tcnt' = [tcnt EXCEPT ![t] = next]
      /\ tifr' = [tifr EXCEPT ![t] = @ \cup {c + 1 : c \in {d \in Channels : ocr[t][d] = next}}]
      /\ UNCHANGED <<ctc, cs, ocr, timsk, compareMatchHandler, calling, matchAsked, clock>>

(* The handlers of the four interrupts: the hardware clears the flag, and   *)
(* the registered function is called, if there is one.                      *)
CompareMatch(s) ==
  /\ calling = NoCall
  /\ s \in MatchesDue /\ \A r \in MatchesDue \ {s} : Before(s, r)
  /\ tifr' = [tifr EXCEPT ![TimerWired(s)] = @ \ {BitWired(s)}]
  /\ UNCHANGED <<tcnt, ctc, cs, ocr, timsk, compareMatchHandler, calling, matchAsked, clock>>

(* The bit of a channel in the mask: bit 0 is that of the overflow.         *)
(* (Mutant: the first bit is that of channel A.)                            *)
MutantFromZero(c) == c
MaskBit(c) == c + 1

RegisterCompareMatchInterrupt(s, frequency, match) ==
  LET t == TimerOf(s)
  IN  /\ calling = NoCall
      /\ tcnt' = [tcnt EXCEPT ![t] = 0]
      /\ ctc' = [ctc EXCEPT ![t] = TRUE]
      /\ cs' = [cs EXCEPT ![t] = Divider(t, frequency)]
      /\ calling' = <<s, match>>
      /\ clock' = [clock EXCEPT ![TimerWired(s)] = Meaning(frequency)]
      /\ UNCHANGED <<ocr, timsk, tifr, compareMatchHandler, matchAsked>>

RegistrationEnds ==
  /\ calling # NoCall
  /\ LET s == calling[1]
         t == TimerOf(s)
     IN  /\ ocr' = [ocr EXCEPT ![t][ChannelOf(s)] = calling[2]]
         /\ compareMatchHandler' = [compareMatchHandler EXCEPT ![s] = TRUE]
         /\ timsk' = [timsk EXCEPT ![t] = @ \cup {MaskBit(ChannelOf(s))}]
         /\ matchAsked' = [matchAsked EXCEPT ![s] = calling[2]]
  /\ calling' = NoCall
  /\ UNCHANGED <<tcnt, ctc, cs, tifr, clock>>

(* Stops the clock of the timer, also if the other source is in use.        *)
UnregisterCompareMatchInterrupt(s) ==
  LET t == TimerOf(s)
  IN  /\ calling = NoCall
      /\ cs' = [cs EXCEPT ![t] = 0]
      /\ timsk' = [timsk EXCEPT ![t] = @ \ {(s % 2) + 1}]
      /\ compareMatchHandler' = [compareMatchHandler EXCEPT ![s] = FALSE]
      /\ matchAsked' = [matchAsked EXCEPT ![s] = Nothing]
      /\ clock' = [clock EXCEPT ![TimerWired(s)] = 0]
      /\ UNCHANGED <<tcnt, ctc, ocr, tifr, calling>>

Configures(s) ==
  \/ \E f \in Frequencies, m \in Matches : RegisterCompareMatchInterrupt(s, f, m)
  \/ UnregisterCompareMatchInterrupt(s)

MatchNext ==
  \/ \E t \in Timers : Tick(t)
  \/ \E s \in 0..3 : CompareMatch(s)
  \/ \E s \in CompareMatchSources : Configures(s)
  \/ RegistrationEnds

MatchSpec == MatchInit /\ [][MatchNext]_matchVars

(* Clocks go on, sections end, and interrupts are served.                   *)
MatchFairness ==
  /\ \A t \in Timers : SF_matchVars(Tick(t))
  /\ WF_matchVars(\E s \in 0..3 : CompareMatch(s)) /\ WF_matchVars(RegistrationEnds)

-----------------------------------------------------------------------------

(* Types of the variables.                                                  *)
MatchTypeOK ==
  /\ tcnt \in [Timers -> 0..Top] /\ ctc \in [Timers -> BOOLEAN]
  /\ cs \in [Timers -> 0..7]
  /\ ocr \in [Timers -> [Channels -> 0..Top]]
  /\ timsk \in [Timers -> SUBSET {1, 2}] /\ tifr \in [Timers -> SUBSET {1, 2}]
  /\ compareMatchHandler \in [CompareMatchSources -> BOOLEAN]
  /\ calling \in {NoCall} \cup (CompareMatchSources \X Matches)
  /\ matchAsked \in [CompareMatchSources -> Matches \cup {Nothing}]
  /\ clock \in [Timers -> 0..1024]

(* Whatever is registered and unregistered on the other channel or the      *)
(* other timer, a source that is registered compares with the match it has  *)
(* asked for, may interrupt and has a handler; one that is not registered   *)
(* cannot interrupt.                                                        *)
RegistrationHolds ==
  \A s \in CompareMatchSources :
    LET t == TimerWired(s)
        enabled == BitWired(s) \in timsk[t]
    IN  IF matchAsked[s] = Nothing
          THEN ~enabled
          ELSE enabled /\ compareMatchHandler[s] /\ ocr[t][BitWired(s) - 1] = matchAsked[s]

(* AvrLib.h: "Changing the frequency changes the frequency of both          *)
(* interrupt sources of the timer": its clock is divided as was asked for   *)
(* last, and stands still since one of its sources was unregistered.        *)
ClockIsAsAskedLast == \A t \in Timers : Prescaler(t, cs[t]) = clock[t]

(* A registered source is served again and again, as long as nobody         *)
(* registers or unregisters, unless the clock of its timer was stopped for  *)
(* the other source, or the counter goes back to 0 before it gets there:    *)
(* AvrLib.h, "CompareMatch1 only is operational if CompareMatch0 is running"*)
Operational(s) ==
  /\ matchAsked[s] # Nothing
  /\ clock[TimerWired(s)] # 0
  /\ matchAsked[s] <= ocr[TimerWired(s)][0]

ServedAgain ==
  \A s \in CompareMatchSources :
    <>[][\A r \in CompareMatchSources : ~Configures(r)]_matchVars /\ <>[]Operational(s)
      => []<><<CompareMatch(s)>>_matchVars

=============================================================================
