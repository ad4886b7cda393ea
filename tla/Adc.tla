---------------------------------- MODULE Adc ----------------------------------
(***************************************************************************)
(* MeasureOnce of AvrLib.c, called by the main program outside of a section *)
(* and by handlers that interrupt it.  There is one converter: registers   *)
(* that select the channel, start a conversion and tell when it is over,   *)
(* and two bytes of data.                                                  *)
(*                                                                         *)
(* The converter is that of the data sheet: it samples the channel that is *)
(* selected when a conversion starts, starts none while one is going on,   *)
(* and does not change the data from the reading of the low byte to that   *)
(* of the high byte: the result of a conversion that ends in between is    *)
(* lost.  A value is represented by its channel.  Reference, prescaler and *)
(* Didr0 are left out.                                                     *)
(***************************************************************************)
EXTENDS Integers

CONSTANT AnalogChannels     (* the AnalogChannelSelections in use             *)

ASSUME AnalogChannelsAssumption == AnalogChannels \subseteq 0..15 /\ 0 \in AnalogChannels

VARIABLES
  mux,        (* the channel in ADMUX                                        *)
  adsc,       (* ADSC in ADCSRA: a conversion is going on                    *)
  sample,     (* the channel that is converted                               *)
  adcData,    (* the channel that the value in ADC is of                     *)
  frozen,     (* whether ADCL was read, and ADCH was not                     *)
  at,         (* where main program and handler are in MeasureOnce           *)
  channel,    (* the parameter of MeasureOnce                                *)
  result,     (* the channels that the bytes of the result are of            *)
  others,     (* history: handlers that measured during the call of "main"   *)
  otherRight  (* history: whether the last one got a value of its channel    *)

adcVars == <<mux, adsc, sample, adcData, frozen, at, channel, result, others, otherRight>>

Callers == {"main", "handler"}

AdcInit ==
  /\ mux = 0 /\ adsc = FALSE /\ sample = 0 /\ adcData = 0 /\ frozen = FALSE
  /\ at = [c \in Callers |-> "idle"]
  /\ channel = [c \in Callers |-> 0]
  /\ result = [c \in Callers |-> {}]
  /\ others = 0 /\ otherRight = TRUE

-----------------------------------------------------------------------------

(* A caller goes on; nothing interrupts a handler.                          *)
Goes(c, from, to) ==
  /\ at[c] = from
  /\ c = "main" => at["handler"] = "idle"
  /\ at' = [at EXCEPT ![c] = to]

IsRight(c) == result[c] = {channel[c]}

(* (A handler between the reading of the last byte and the return makes the *)
(* same difference as one behind the return: none.)                         *)
MeasureOnce(c, ch) ==
  /\ Goes(c, "idle", "start")
  /\ at["main"] # "return"
  /\ mux' = ch
  /\ channel' = [channel EXCEPT ![c] = ch]
  /\ result' = [result EXCEPT ![c] = {}]
  /\ others' = CASE c = "main" \/ at["main"] = "idle" -> 0
                [] OTHER -> IF others < 2 THEN others + 1 ELSE 2
  /\ UNCHANGED <<adsc, sample, adcData, frozen, otherRight>>

Start(c) ==
  /\ Goes(c, "start", "wait")
  /\ adsc' = TRUE
  /\ sample' = IF adsc THEN sample ELSE mux
  /\ UNCHANGED <<mux, adcData, frozen, channel, result, others, otherRight>>

ConversionEnds ==
  /\ adsc
  /\ adsc' = FALSE
  /\ adcData' = IF frozen THEN adcData ELSE sample
  /\ UNCHANGED <<mux, sample, frozen, at, channel, result, others, otherRight>>

(* The wait for the end of the conversion.  (Mutant: there is none.)        *)
MutantNoWait == TRUE
HasConverted == ~adsc

WaitEnds(c) ==
  /\ Goes(c, "wait", "low")
  /\ HasConverted
  /\ UNCHANGED <<mux, adsc, sample, adcData, frozen, channel, result, others, otherRight>>

ReadLow(c) ==
  /\ Goes(c, "low", "high")
  /\ result' = [result EXCEPT ![c] = {adcData}]
  /\ frozen' = TRUE
  /\ UNCHANGED <<mux, adsc, sample, adcData, channel, others, otherRight>>

ReadHigh(c) ==
  /\ Goes(c, "high", "return")
  /\ result' = [result EXCEPT ![c] = @ \cup {adcData}]
  /\ frozen' = FALSE
  /\ UNCHANGED <<mux, adsc, sample, adcData, channel, others, otherRight>>

Returns(c) ==
  /\ Goes(c, "return", "idle")
  /\ otherRight' = IF c = "handler" THEN IsRight(c) ELSE otherRight
  /\ UNCHANGED <<mux, adsc, sample, adcData, frozen, channel, result, others>>

AdcNext ==
  \/ ConversionEnds
  \/ \E c \in Callers :
       \/ \E ch \in AnalogChannels : MeasureOnce(c, ch)
       \/ Start(c)
       \/ WaitEnds(c)
       \/ ReadLow(c)
       \/ ReadHigh(c)
       \/ Returns(c)

-----------------------------------------------------------------------------

(* AvrLib.h: "measured value from ADC".  A measurement during which nobody  *)
(* else measures, and that comes into nobody else's, returns a value of its *)
(* channel.  If one handler measures another channel during a measurement   *)
(* of the main program, exactly one of the two values is right, wherever it *)
(* comes: the main program's if the handler waits for the same conversion   *)
(* or comes between the two bytes, otherwise the handler's.  (If more than  *)
(* one comes, neither need be right, and the bytes may be of two channels.) *)
OneOfTwoIsRight ==
  /\ at["handler"] = "return" /\ at["main"] = "idle" => IsRight("handler")
  /\ at["main"] = "return" /\ at["handler"] = "idle" =>
       /\ others = 0 => IsRight("main")
       /\ others = 1 /\ channel["handler"] # channel["main"] => (IsRight("main") <=> ~otherRight)

=============================================================================
