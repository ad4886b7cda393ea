-------------------------------- MODULE Parts --------------------------------
(***************************************************************************)
(* Model checking of six parts that share no state with another part of    *)
(* the system: the checksum, the analog measurement, the measurement of    *)
(* time, the external interrupts and the compare matches of AvrLib.c, and  *)
(* the rewriting of traces.  A behaviour is one of one of these parts.     *)
(***************************************************************************)
EXTENDS Crc, Trace, Adc, Timer1, ExtInt, CompareMatch

VARIABLE part     (* the part that is at work                                 *)

FormatsInUse ==
  {<<>>, <<8>>, <<16>>, <<32>>, <<8, 8>>, <<8, 16>>, <<16, 8>>, <<16, 16>>, <<8, 32>>, <<8, 8, 8>>}

Init ==
  /\ part \in {"crc", "trace", "adc", "timer1", "extInt", "compareMatch"}
  /\ CrcInit /\ TraceInit /\ AdcInit /\ TimerInit /\ ExtInit /\ MatchInit
  /\ part # "extInt" => \A s \in ExtIntSources : pin[s] = 1

Next ==
  /\ UNCHANGED part
  /\ \/ /\ part = "crc" /\ CrcNext
        /\ UNCHANGED <<traceVars, adcVars, timerVars, extVars, matchVars>>
     \/ /\ part = "trace" /\ TraceNext
        /\ UNCHANGED <<crcVars, adcVars, timerVars, extVars, matchVars>>
     \/ /\ part = "adc" /\ AdcNext
        /\ UNCHANGED <<crcVars, traceVars, timerVars, extVars, matchVars>>
     \/ /\ part = "timer1" /\ TimerNext
        /\ UNCHANGED <<crcVars, traceVars, adcVars, extVars, matchVars>>
     \/ /\ part = "extInt" /\ ExtNext
        /\ UNCHANGED <<crcVars, traceVars, adcVars, timerVars, matchVars>>
     \/ /\ part = "compareMatch" /\ MatchNext
        /\ UNCHANGED <<crcVars, traceVars, adcVars, timerVars, extVars>>

partVars == <<part, crcVars, traceVars, adcVars, timerVars, extVars, matchVars>>

Spec == Init /\ [][Next]_partVars

(* The fairness of the two parts with liveness properties.                  *)
FairSpec == Spec /\ ExtFairness /\ MatchFairness

=============================================================================
