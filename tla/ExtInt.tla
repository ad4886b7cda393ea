-------------------------------- MODULE ExtInt --------------------------------
(***************************************************************************)
(* The external interrupts INT0 and INT1 of AvrLib.c: the application      *)
(* registers a handler with a trigger, unregisters it, and switches the    *)
(* interrupt on and off, in any order and also in a handler, while the     *)
(* levels of the two pins change.                                          *)
(*                                                                         *)
(* The functions are atomic sections and single steps here.  Registers are *)
(* sets of bits.  The hardware is that of the data sheet: two bits of      *)
(* EICRA per pin say what sets its flag; a flag stays until it is served,  *)
(* also while the interrupt is masked; and the trigger "low" sets no flag  *)
(* but asks for the interrupt as long as the pin is low.                   *)
(***************************************************************************)
EXTENDS Integers

CONSTANTS Triggers,   (* the ExtIntTriggers in use                            *)
          Handlers,   (* the functions that the application registers         *)
          Null,       (* the null pointer                                     *)
          Nobody      (* called instead of a function: none                   *)

ASSUME TriggersAssumption == Triggers \subseteq 0..3
ASSUME HandlersAssumption == Null \notin Handlers /\ Nobody \notin Handlers \cup {Null}

VARIABLES
  pin,             (* the level of the pin of each source                     *)
  eicra,           (* what triggers: bits 0 and 1 for INT0, 2 and 3 for INT1  *)
  eimsk,           (* the sources that are not masked                         *)
  eifr,            (* the sources whose flag is set                           *)
  extIntHandler,   (* _extIntHandler                                          *)
  called,          (* history: the function that the last interrupt called    *)
  switched,        (* history: the sources that the application has switched  *)
                   (* on                                                      *)
  triggersAsked    (* history: the triggers it asked for, with their sources  *)

extVars == <<pin, eicra, eimsk, eifr, extIntHandler, called, switched, triggersAsked>>

ExtIntSources == {0, 1}

ExtInit ==
  /\ pin \in [ExtIntSources -> {0, 1}]
  /\ eicra = {} /\ eimsk = {} /\ eifr = {}
  /\ extIntHandler = [s \in ExtIntSources |-> Null]
  /\ called = Nobody /\ switched = {} /\ triggersAsked = {}

-----------------------------------------------------------------------------

(* The two bits of a source in EICRA: 0 for low, 1 for a change, 2 for a    *)
(* falling and 3 for a rising edge.                                         *)
Sense(s) == (IF 2*s \in eicra THEN 1 ELSE 0) + (IF 2*s + 1 \in eicra THEN 2 ELSE 0)

IsEdge(s) ==
  \/ Sense(s) = 1
  \/ Sense(s) = 2 /\ pin[s] = 1
  \/ Sense(s) = 3 /\ pin[s] = 0

PinChanges(s) ==
  /\ pin' = [pin EXCEPT ![s] = 1 - @]
  /\ eifr' = IF IsEdge(s) THEN eifr \cup {s} ELSE eifr
  /\ UNCHANGED <<eicra, eimsk, extIntHandler, called, switched, triggersAsked>>

ExtIntsDue == {s \in eimsk : s \in eifr \/ (Sense(s) = 0 /\ pin[s] = 0)}

(* The handler of the interrupt calls the registered function unless there  *)
(* is none.  INT0 comes first.                                              *)
Calls(s) == extIntHandler[s] # Null

ISR_ExtInt(s) ==
  /\ s \in ExtIntsDue /\ (s = 1 => 0 \notin ExtIntsDue)
  /\ eifr' = eifr \ {s}
  /\ called' = IF Calls(s) THEN extIntHandler[s] ELSE Nobody
  /\ UNCHANGED <<pin, eicra, eimsk, extIntHandler, switched, triggersAsked>>

(* The bits of a trigger, shifted by the number of the source.              *)
BitsOf(trigger) == {b \in {0, 1} : (trigger \div (b + 1)) % 2 = 1}
Shifted(s, trigger) == {b + s : b \in BitsOf(trigger)}

RegisterExternalInteruptHandler(s, trigger, h) ==
  /\ eicra' = eicra \cup Shifted(s, trigger)
  /\ extIntHandler' = [extIntHandler EXCEPT ![s] = h]
  /\ eimsk' = eimsk \cup {s}
  /\ switched' = switched \cup {s}
  /\ triggersAsked' = triggersAsked \cup {<<s, trigger>>}
  /\ UNCHANGED <<pin, eifr, called>>

(* (Mutant: the interrupt is not masked.)                                   *)
MutantNotMasked(s) == eimsk
Masked(s) == eimsk \ {s}

UnregisterExternalInterruptHandler(s) ==
  /\ eimsk' = Masked(s)
  /\ extIntHandler' = [extIntHandler EXCEPT ![s] = Null]
  /\ switched' = switched \ {s}
  /\ UNCHANGED <<pin, eicra, eifr, called, triggersAsked>>

(* The value of EIMSK.  (Mutant: the other source is forgotten.)  Whether   *)
(* there is a handler makes no difference: the test compares the address of *)
(* the array with 0.                                                        *)
MutantAlone(s, enable) == IF enable THEN {s} ELSE {}
WithEnable(s, enable) == IF enable THEN eimsk \cup {s} ELSE eimsk \ {s}

SetExtInterruptEnable(s, enable) ==
  /\ eimsk' = WithEnable(s, enable)
  /\ switched' = IF enable THEN switched \cup {s} ELSE switched \ {s}
  /\ UNCHANGED <<pin, eicra, eifr, extIntHandler, called, triggersAsked>>

ExtNext ==
  \E s \in ExtIntSources :
    \/ PinChanges(s)
    \/ ISR_ExtInt(s)
    \/ \E trigger \in Triggers, h \in Handlers : RegisterExternalInteruptHandler(s, trigger, h)
    \/ UnregisterExternalInterruptHandler(s)
    \/ \E enable \in BOOLEAN : SetExtInterruptEnable(s, enable)

ExtSpec == ExtInit /\ [][ExtNext]_extVars

(* Interrupts are served.                                                   *)
ExtFairness == WF_extVars(\E s \in ExtIntSources : ISR_ExtInt(s))

-----------------------------------------------------------------------------

(* Types of the variables.                                                  *)
ExtTypeOK ==
  /\ pin \in [ExtIntSources -> {0, 1}]
  /\ eicra \in SUBSET (0..3) /\ eimsk \in SUBSET ExtIntSources /\ eifr \in SUBSET ExtIntSources
  /\ extIntHandler \in [ExtIntSources -> Handlers \cup {Null}]
  /\ called \in Handlers \cup {Nobody, Null}
  /\ switched \in SUBSET ExtIntSources
  /\ triggersAsked \in SUBSET (ExtIntSources \X Triggers)

(* What the application has switched off last, or unregistered, interrupts  *)
(* no more, whatever has happened on the pins and with the other source;    *)
(* and what is switched on without a handler calls nothing.                 *)
SwitchedOffIsSilent ==
  [][\A s \in ExtIntSources : ISR_ExtInt(s) => s \in switched /\ called' # Null]_extVars

(* An edge at a source that is switched on is served or switched off, also  *)
(* if it came before; only INT1 can wait for ever, for an INT0 that does    *)
(* not stop.                                                                *)
EdgeIsServed ==
  \A s \in ExtIntSources :
    []<>~(s \in eifr /\ s \in switched) \/ (s = 1 /\ []<>(0 \in ExtIntsDue))

(* AvrLib.h: "trigger specifies, what change triggers the interrupt".  So a *)
(* source for which one trigger only was ever asked has this trigger.  The  *)
(* code does not do this: the shift is too short for INT1, and what was     *)
(* asked for it gets into the bits of INT0.                                 *)
TriggerIsAsAsked ==
  \A s \in ExtIntSources, trigger \in Triggers :
    triggersAsked \cap ({s} \X Triggers) = {<<s, trigger>>} => Sense(s) = trigger

=============================================================================
