----------------------------- MODULE ExtInt_proofs -----------------------------
(***************************************************************************)
(* Proofs about module ExtInt, for any triggers and any functions of the   *)
(* application.                                                            *)
(***************************************************************************)
EXTENDS ExtInt, TLAPS

(* The masks are what the application has switched on last, and EICRA holds *)
(* the bits of all triggers that it has ever asked for.                     *)
MaskIsSwitched == eimsk = switched
BitsAreAsked == eicra = {b \in 0..3 : \E a \in triggersAsked : b \in Shifted(a[1], a[2])}

IInv == ExtTypeOK /\ MaskIsSwitched /\ BitsAreAsked

-----------------------------------------------------------------------------

(* The bits of a trigger stay within those of EICRA.                        *)
LEMMA ShiftedBits ==
  ASSUME NEW s \in ExtIntSources, NEW trigger
  PROVE  Shifted(s, trigger) \subseteq 0..3
BY DEF Shifted, BitsOf, ExtIntSources

(* The initial states are typed, nothing is switched on and no bit is set.  *)
LEMMA InitIsSound == ExtInit => IInv
BY DEF ExtInit, IInv, ExtTypeOK, MaskIsSwitched, BitsAreAsked, ExtIntSources

(* No operation disturbs the invariant.                                     *)
LEMMA StepIsSound == IInv /\ [ExtNext]_extVars => IInv'
<1> SUFFICES ASSUME IInv, [ExtNext]_extVars PROVE IInv'
  OBVIOUS
<1> USE DEF IInv, MaskIsSwitched, BitsAreAsked
<1>1. ASSUME NEW s \in ExtIntSources, PinChanges(s) PROVE IInv'
  BY <1>1 DEF PinChanges, ExtTypeOK, ExtIntSources
<1>2. ASSUME NEW s \in ExtIntSources, ISR_ExtInt(s) PROVE IInv'
  BY <1>2 DEF ISR_ExtInt, Calls, ExtTypeOK
<1>3. ASSUME NEW s \in ExtIntSources, NEW trigger \in Triggers, NEW h \in Handlers,
             RegisterExternalInteruptHandler(s, trigger, h)
      PROVE  IInv'
  <2>1. Shifted(s, trigger) \subseteq 0..3
    BY ShiftedBits
  <2>2. ExtTypeOK'
    BY <1>3, <2>1 DEF RegisterExternalInteruptHandler, ExtTypeOK
  <2>3. BitsAreAsked'
    <3>1. \A b : (\E a \in triggersAsked' : b \in Shifted(a[1], a[2]))
                 <=> (\E a \in triggersAsked : b \in Shifted(a[1], a[2])) \/ b \in Shifted(s, trigger)
      <4> DEFINE call == <<s, trigger>>
      <4>1. triggersAsked' = triggersAsked \cup {call}
        BY <1>3 DEF RegisterExternalInteruptHandler
      <4>2. call[1] = s /\ call[2] = trigger
        OBVIOUS
      <4>3. \A a : a \in triggersAsked' <=> a \in triggersAsked \/ a = call
        BY <4>1
      <4> HIDE DEF call
      <4> TAKE b
      <4>4. ASSUME NEW a \in triggersAsked', b \in Shifted(a[1], a[2])
            PROVE  (\E c \in triggersAsked : b \in Shifted(c[1], c[2])) \/ b \in Shifted(s, trigger)
        BY <4>2, <4>3, <4>4, Zenon
      <4>5. ASSUME NEW a \in triggersAsked, b \in Shifted(a[1], a[2])
            PROVE  \E c \in triggersAsked' : b \in Shifted(c[1], c[2])
        BY <4>3, <4>5, Zenon
      <4>6. ASSUME b \in Shifted(s, trigger)
            PROVE  \E c \in triggersAsked' : b \in Shifted(c[1], c[2])
        BY <4>2, <4>3, <4>6, Zenon
      <4> QED
        BY <4>4, <4>5, <4>6, Zenon
    <3>2. \A b : b \in eicra' <=> b \in eicra \/ b \in Shifted(s, trigger)
      BY <1>3 DEF RegisterExternalInteruptHandler
    <3>3. eicra' = {b \in 0..3 : \E a \in triggersAsked' : b \in Shifted(a[1], a[2])}
      BY <2>1, <3>1, <3>2
    <3> QED
      BY <3>3 DEF Shifted, BitsOf
  <2> QED
    BY <1>3, <2>2, <2>3 DEF RegisterExternalInteruptHandler
<1>4. ASSUME NEW s \in ExtIntSources, UnregisterExternalInterruptHandler(s) PROVE IInv'
  BY <1>4 DEF UnregisterExternalInterruptHandler, Masked, ExtTypeOK
<1>5. ASSUME NEW s \in ExtIntSources, NEW enable \in BOOLEAN, SetExtInterruptEnable(s, enable)
      PROVE  IInv'
  BY <1>5 DEF SetExtInterruptEnable, WithEnable, ExtTypeOK
<1>6. CASE UNCHANGED extVars
  BY <1>6 DEF extVars, ExtTypeOK
<1> QED
  BY <1>1, <1>2, <1>3, <1>4, <1>5, <1>6 DEF ExtNext

(* The invariant holds in every reachable state.                            *)
LEMMA Invariance == ExtSpec => []IInv
BY InitIsSound, StepIsSound, PTL DEF ExtSpec

(* The types of the variables are kept.                                     *)
THEOREM TypeCorrect == ExtSpec => []ExtTypeOK
<1>1. IInv => ExtTypeOK
  BY DEF IInv
<1> QED
  BY <1>1, Invariance, PTL

(* What is switched off or unregistered does not interrupt, and a source    *)
(* without a function calls none, whatever the pins and the other source do.*)
THEOREM SilentWhenSwitchedOff == ExtSpec => SwitchedOffIsSilent
<1>1. IInv /\ [ExtNext]_extVars
        => [\A s \in ExtIntSources : ISR_ExtInt(s) => s \in switched /\ called' # Null]_extVars
  BY HandlersAssumption DEF IInv, MaskIsSwitched, ISR_ExtInt, ExtIntsDue, Calls
<1> QED
  BY <1>1, Invariance, PTL DEF ExtSpec, SwitchedOffIsSilent

(* INT1 senses a low level or any change, never one kind of edge alone.     *)
Int1NeverSensesOneEdge == Sense(1) \in {0, 1}

(* EICRA holds the bits of all triggers that were ever asked for, shifted   *)
(* by the number of the source, and no others: asking for another trigger   *)
(* adds to what was asked for before, what INT1 asks for gets into the bits *)
(* of INT0, and INT1 cannot have a falling or rising edge.                  *)
THEOREM TriggersAddUp == ExtSpec => [](BitsAreAsked /\ Int1NeverSensesOneEdge)
<1>1. IInv => BitsAreAsked /\ Int1NeverSensesOneEdge
  <2> SUFFICES ASSUME IInv PROVE Int1NeverSensesOneEdge
    BY DEF IInv
  <2>1. \A a \in triggersAsked : 3 \notin Shifted(a[1], a[2])
    <3>1. \A a \in triggersAsked : a[1] \in {0, 1}
      BY DEF IInv, ExtTypeOK, ExtIntSources
    <3> QED
      BY <3>1 DEF Shifted, BitsOf
  <2>2. 3 \notin eicra
    BY <2>1 DEF IInv, BitsAreAsked
  <2> QED
    BY <2>2 DEF Int1NeverSensesOneEdge, Sense
<1> QED
  BY <1>1, Invariance, PTL

=============================================================================
