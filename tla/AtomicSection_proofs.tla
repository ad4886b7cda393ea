------------------------ MODULE AtomicSection_proofs ------------------------
(***************************************************************************)
(* Proofs about module AtomicSection, for any number of nested sections    *)
(* that the byte can count and any set of interrupts.                      *)
(***************************************************************************)
EXTENDS AtomicSection, TLAPS

(* Where each context can be: the main program never at the statements of a *)
(* handler; a handler never beyond the test of bit 7.                       *)
Places ==
  /\ pc["main"] \in {"code", "enterTest", "enterRead", "cli", "enterWrite",
                     "leaveTest", "leaveRead", "leaveWrite", "sei"}
  /\ pc["isr"] \in {"code", "enterTest", "leaveTest", "isrEnter", "reti"}
  /\ ~serving => pc["isr"] = "code"
  /\ pc["isr"] \in {"isrEnter", "reti"} \/ ~serving => depth["isr"] = 0

(* A call that is going to open a section, or is closing one, has room.     *)
Room ==
  /\ pc["main"] \in {"enterTest", "enterRead", "cli", "enterWrite",
                     "leaveTest", "leaveRead", "leaveWrite"} => depth["main"] < MaxDepth
  /\ pc["isr"] = "enterTest" => depth["isr"] < MaxDepth

(* From cli on to sei the interrupts are disabled.                          *)
Inside == \/ depth["main"] > 0
          \/ pc["main"] \in {"enterWrite", "leaveTest", "leaveRead", "leaveWrite", "sei"}

Disabled ==
  /\ serving => ~enabled /\ ~Inside
  /\ Inside => ~enabled

(* The byte: the count of the sections, and the mark of the handler.        *)
Counted ==
  IF pc["main"] \in {"leaveTest", "leaveRead", "leaveWrite"}
    THEN depth["main"] + 1 ELSE depth["main"]

Marked == serving /\ pc["isr"] \in {"code", "enterTest", "leaveTest"}

ByteIsExact ==
  /\ withinIsr = Counted + (IF Marked THEN 128 ELSE 0)
  /\ pc["main"] \in {"cli", "enterWrite"} => local["main"] = depth["main"]
  /\ pc["main"] = "leaveWrite" => local["main"] = depth["main"]
  /\ pc["main"] = "sei" => depth["main"] = 0

IInv == TypeOK /\ Places /\ Room /\ Disabled /\ ByteIsExact

-----------------------------------------------------------------------------

(* The invariant holds initially.                                           *)
LEMMA InitIInv == Init => IInv
<1> SUFFICES ASSUME Init PROVE IInv
  OBVIOUS
<1> USE DEF Init
<1>1. TypeOK
  <2>1. pending \subseteq Interrupts
    OBVIOUS
  <2>2. withinIsr \in Counts \cup {Mark}
    BY MaxDepthAssumption DEF Counts
  <2>3. pc \in [Contexts -> {"code", "enterTest", "enterRead", "cli", "enterWrite",
                             "leaveTest", "leaveRead", "leaveWrite", "sei",
                             "isrEnter", "reti"}]
    OBVIOUS
  <2>4. local \in [Contexts -> Counts]
    BY MaxDepthAssumption DEF Counts
  <2>5. depth \in [Contexts -> 0..MaxDepth]
    BY MaxDepthAssumption
  <2> QED
    BY <2>1, <2>2, <2>3, <2>4, <2>5 DEF TypeOK
<1>2. Places /\ Room
  BY MaxDepthAssumption DEF Places, Room, Contexts
<1>3. Disabled
  BY DEF Disabled, Inside, Contexts
<1>4. ByteIsExact
  BY DEF ByteIsExact, Counted, Marked, Contexts
<1> QED
  BY <1>1, <1>2, <1>3, <1>4 DEF IInv

(* Every step preserves the invariant.                                      *)
LEMMA NextIInv == IInv /\ [Next]_vars => IInv'
<1> SUFFICES ASSUME IInv, [Next]_vars PROVE IInv'
  OBVIOUS
<1> USE MaxDepthAssumption DEF IInv
<1>0. "main" # "isr" /\ "main" \in Contexts /\ "isr" \in Contexts
  BY DEF Contexts
<1> USE <1>0
<1>1. CASE Compute("main")
  <2> USE <1>1 DEF Compute, Step, KeepFlag
  <2>1. TypeOK'
    BY DEF TypeOK
  <2>2. Places' /\ Room'
    BY DEF TypeOK, Places, Room
  <2>3. Disabled'
    BY DEF TypeOK, Disabled, Inside
  <2>4. ByteIsExact'
    BY DEF TypeOK, ByteIsExact, Counted, Marked
  <2> QED
    BY <2>1, <2>2, <2>3, <2>4
<1>2. CASE CallEnter("main")
  <2> USE <1>2 DEF CallEnter, Step, KeepFlag
  <2>1. TypeOK'
    BY DEF TypeOK
  <2>2. Places' /\ Room'
    BY DEF TypeOK, Places, Room
  <2>3. Disabled'
    BY DEF TypeOK, Disabled, Inside
  <2>4. ByteIsExact'
    BY DEF TypeOK, ByteIsExact, Counted, Marked
  <2> QED
    BY <2>1, <2>2, <2>3, <2>4
<1>3. CASE EnterTest("main")
  <2> USE <1>3 DEF EnterTest, Step, KeepFlag
  <2>0. ~Bit7(withinIsr)
    BY DEF TypeOK, ByteIsExact, Counted, Marked, Bit7
  <2>1. TypeOK'
    BY <2>0 DEF TypeOK
  <2>2. Places' /\ Room'
    BY DEF TypeOK, Places, Room
  <2>3. Disabled'
    BY <2>0 DEF TypeOK, Disabled, Inside
  <2>4. ByteIsExact'
    BY DEF TypeOK, ByteIsExact, Counted, Marked, Bit7
  <2> QED
    BY <2>1, <2>2, <2>3, <2>4
<1>4. CASE EnterRead("main")
  <2> USE <1>4 DEF EnterRead, Step, KeepFlag
  <2>1. TypeOK'
    <3>1. withinIsr = depth["main"] /\ depth["main"] \in 0..MaxDepth
      BY DEF TypeOK, ByteIsExact, Counted, Marked
    <3> QED
      BY <3>1 DEF TypeOK, Counts
  <2>2. Places' /\ Room'
    BY DEF TypeOK, Places, Room
  <2>3. Disabled'
    BY DEF TypeOK, Disabled, Inside
  <2>4. ByteIsExact'
    BY DEF TypeOK, ByteIsExact, Counted, Marked
  <2> QED
    BY <2>1, <2>2, <2>3, <2>4
<1>5. CASE Cli("main")
  <2> USE <1>5 DEF Cli, Step, ClearFlag
  <2>1. TypeOK'
    BY DEF TypeOK
  <2>2. Places' /\ Room'
    BY DEF TypeOK, Places, Room
  <2>3. Disabled'
    BY DEF TypeOK, Disabled
  <2>4. ByteIsExact'
    BY DEF TypeOK, ByteIsExact, Counted, Marked
  <2> QED
    BY <2>1, <2>2, <2>3, <2>4
<1>6. CASE EnterWrite("main")
  <2> USE <1>6 DEF EnterWrite, Step, KeepFlag
  <2>1. TypeOK'
    <3>1. withinIsr' \in Counts \cup {Mark}
      <4>1. PICK n \in 0..(MaxDepth-1) : n = local["main"]
        BY DEF TypeOK, ByteIsExact, Room, Contexts
      <4>2. withinIsr' = (n + 1) % 256
        BY <4>1
      <4> QED
        BY <4>2 DEF Counts
    <3>2. depth' \in [Contexts -> 0..MaxDepth]
      BY DEF TypeOK, Room
    <3> QED
      BY <3>1, <3>2 DEF TypeOK
  <2>2. Places' /\ Room'
    BY DEF TypeOK, Places, Room
  <2>3. Disabled'
    BY DEF TypeOK, Disabled, Inside
  <2>4. ByteIsExact'
    BY DEF TypeOK, ByteIsExact, Counted, Marked
  <2> QED
    BY <2>1, <2>2, <2>3, <2>4
<1>7. CASE CallLeave("main")
  <2> USE <1>7 DEF CallLeave, Step, KeepFlag
  <2>1. TypeOK'
    <3>1. depth' \in [Contexts -> 0..MaxDepth]
      BY DEF TypeOK
    <3> QED
      BY <3>1 DEF TypeOK
  <2>2. Places' /\ Room'
    BY DEF TypeOK, Places, Room
  <2>3. Disabled'
    BY DEF TypeOK, Disabled, Inside
  <2>4. ByteIsExact'
    BY DEF TypeOK, ByteIsExact, Counted, Marked
  <2> QED
    BY <2>1, <2>2, <2>3, <2>4
<1>8. CASE LeaveTest("main")
  <2> USE <1>8 DEF LeaveTest, Step, KeepFlag
  <2>1. TypeOK'
    BY DEF TypeOK
  <2>2. Places' /\ Room'
    BY DEF TypeOK, Places, Room
  <2>3. Disabled'
    BY DEF TypeOK, Disabled, Inside
  <2>4. ByteIsExact'
    BY DEF TypeOK, ByteIsExact, Counted, Marked, Room, Bit7
  <2> QED
    BY <2>1, <2>2, <2>3, <2>4
<1>9. CASE LeaveRead("main")
  <2> USE <1>9 DEF LeaveRead, Step, KeepFlag
  <2>1. TypeOK'
    <3>1. (withinIsr + 255) % 256 \in Counts
      <4>1. PICK n \in 0..(MaxDepth-1) : n = depth["main"]
        BY DEF TypeOK, Room, Contexts
      <4>2. withinIsr = n + 1
        BY <4>1 DEF ByteIsExact, Counted, Marked
      <4> QED
        BY <4>2 DEF Counts
    <3>2. local' \in [Contexts -> Counts]
      BY <3>1 DEF TypeOK
    <3> QED
      BY <3>1, <3>2 DEF TypeOK
  <2>2. Places' /\ Room'
    BY DEF TypeOK, Places, Room
  <2>3. Disabled'
    BY DEF TypeOK, Disabled, Inside
  <2>4. ByteIsExact'
    BY DEF TypeOK, ByteIsExact, Counted, Marked
  <2> QED
    BY <2>1, <2>2, <2>3, <2>4
<1>10. CASE LeaveWrite("main")
  <2> USE <1>10 DEF LeaveWrite, Step, KeepFlag
  <2>1. TypeOK'
    BY DEF TypeOK
  <2>2. Places' /\ Room'
    BY DEF TypeOK, Places, Room
  <2>3. Disabled'
    BY DEF TypeOK, Disabled, Inside
  <2>4. ByteIsExact'
    BY DEF TypeOK, ByteIsExact, Counted, Marked
  <2> QED
    BY <2>1, <2>2, <2>3, <2>4
<1>11. CASE Sei("main")
  <2> USE <1>11 DEF Sei, Step, SetFlag
  <2>1. TypeOK'
    BY DEF TypeOK
  <2>2. Places' /\ Room'
    BY DEF TypeOK, Places, Room
  <2>3. Disabled'
    BY DEF TypeOK, Disabled, Inside, ByteIsExact
  <2>4. ByteIsExact'
    BY DEF TypeOK, ByteIsExact, Counted, Marked
  <2> QED
    BY <2>1, <2>2, <2>3, <2>4
<1>12. CASE Compute("isr")
  <2> USE <1>12 DEF Compute, Step, KeepFlag
  <2>1. TypeOK'
    BY DEF TypeOK
  <2>2. Places' /\ Room'
    BY DEF TypeOK, Places, Room
  <2>3. Disabled'
    BY DEF TypeOK, Disabled, Inside
  <2>4. ByteIsExact'
    BY DEF TypeOK, ByteIsExact, Counted, Marked
  <2> QED
    BY <2>1, <2>2, <2>3, <2>4
<1>13. CASE CallEnter("isr")
  <2> USE <1>13 DEF CallEnter, Step, KeepFlag
  <2>1. TypeOK'
    BY DEF TypeOK
  <2>2. Places' /\ Room'
    BY DEF TypeOK, Places, Room
  <2>3. Disabled'
    BY DEF TypeOK, Disabled, Inside
  <2>4. ByteIsExact'
    BY DEF TypeOK, ByteIsExact, Counted, Marked
  <2> QED
    BY <2>1, <2>2, <2>3, <2>4
<1>14. CASE EnterTest("isr")
  <2> USE <1>14 DEF EnterTest, Step, KeepFlag
  <2>0. Bit7(withinIsr)
    BY DEF TypeOK, ByteIsExact, Counted, Marked, Bit7
  <2>1. TypeOK'
    <3>1. depth' \in [Contexts -> 0..MaxDepth]
      BY <2>0 DEF TypeOK, Room
    <3> QED
      BY <3>1 DEF TypeOK
  <2>2. Places' /\ Room'
    BY DEF TypeOK, Places, Room, ByteIsExact, Counted, Marked, Bit7
  <2>3. Disabled'
    BY DEF TypeOK, Disabled, Inside
  <2>4. ByteIsExact'
    BY DEF TypeOK, ByteIsExact, Counted, Marked, Bit7
  <2> QED
    BY <2>1, <2>2, <2>3, <2>4
<1>15. CASE CallLeave("isr")
  <2> USE <1>15 DEF CallLeave, Step, KeepFlag
  <2>1. TypeOK'
    <3>1. depth' \in [Contexts -> 0..MaxDepth]
      BY DEF TypeOK
    <3> QED
      BY <3>1 DEF TypeOK
  <2>2. Places' /\ Room'
    BY DEF TypeOK, Places, Room
  <2>3. Disabled'
    BY DEF TypeOK, Disabled, Inside
  <2>4. ByteIsExact'
    BY DEF TypeOK, ByteIsExact, Counted, Marked
  <2> QED
    BY <2>1, <2>2, <2>3, <2>4
<1>16. CASE LeaveTest("isr")
  <2> USE <1>16 DEF LeaveTest, Step, KeepFlag
  <2>1. TypeOK'
    BY DEF TypeOK
  <2>2. Places' /\ Room'
    BY DEF TypeOK, Places, Room, ByteIsExact, Counted, Marked, Bit7
  <2>3. Disabled'
    BY DEF TypeOK, Disabled, Inside
  <2>4. ByteIsExact'
    BY DEF TypeOK, ByteIsExact, Counted, Marked, Bit7
  <2> QED
    BY <2>1, <2>2, <2>3, <2>4
<1>17. CASE EnterRead("isr")
  BY <1>17 DEF EnterRead, Step, Places
<1>18. CASE Cli("isr")
  BY <1>18 DEF Cli, Step, Places
<1>19. CASE EnterWrite("isr")
  BY <1>19 DEF EnterWrite, Step, Places
<1>20. CASE LeaveRead("isr")
  BY <1>20 DEF LeaveRead, Step, Places
<1>21. CASE LeaveWrite("isr")
  BY <1>21 DEF LeaveWrite, Step, Places
<1>22. CASE Sei("isr")
  BY <1>22 DEF Sei, Step, Places
<1>23. CASE UsartInit
  <2> USE <1>23 DEF UsartInit, Step, SetFlag
  <2>1. TypeOK'
    BY DEF TypeOK
  <2>2. Places' /\ Room'
    BY DEF TypeOK, Places, Room
  <2>3. Disabled'
    BY DEF TypeOK, Disabled, Inside
  <2>4. ByteIsExact'
    BY DEF TypeOK, ByteIsExact, Counted, Marked
  <2> QED
    BY <2>1, <2>2, <2>3, <2>4
<1>24. CASE TakeInterrupt
  <2> USE <1>24 DEF TakeInterrupt, ClearFlag
  <2>1. TypeOK'
    BY DEF TypeOK
  <2>2. Places' /\ Room'
    BY DEF TypeOK, Places, Room
  <2>3. Disabled'
    BY DEF TypeOK, Disabled, Inside, InterruptIsDue
  <2>4. ByteIsExact'
    BY DEF TypeOK, ByteIsExact, Counted, Marked
  <2> QED
    BY <2>1, <2>2, <2>3, <2>4
<1>25. CASE IsrEnter
  <2> USE <1>25 DEF IsrEnter, Step, KeepFlag
  <2>1. TypeOK'
    <3>1. withinIsr' \in Counts \cup {Mark}
      <4>1. withinIsr = 0
        BY DEF TypeOK, Places, Disabled, Inside, ByteIsExact, Counted, Marked
      <4> QED
        BY <4>1 DEF Mark, Bit7, SetBit7
    <3> QED
      BY <3>1 DEF TypeOK
  <2>2. Places' /\ Room'
    BY DEF TypeOK, Places, Room
  <2>3. Disabled'
    BY DEF TypeOK, Disabled, Inside
  <2>4. ByteIsExact'
    BY DEF TypeOK, ByteIsExact, Counted, Marked, Room, Bit7, SetBit7
  <2> QED
    BY <2>1, <2>2, <2>3, <2>4
<1>26. CASE IsrLeave
  <2> USE <1>26 DEF IsrLeave, Step, KeepFlag
  <2>1. TypeOK'
    <3>1. withinIsr' \in Counts \cup {Mark}
      BY DEF TypeOK, Counts, Mark, Bit7, ClearBit7
    <3> QED
      BY <3>1 DEF TypeOK
  <2>2. Places' /\ Room'
    BY DEF TypeOK, Places, Room
  <2>3. Disabled'
    BY DEF TypeOK, Disabled, Inside
  <2>4. ByteIsExact'
    BY DEF TypeOK, ByteIsExact, Counted, Marked, Bit7, ClearBit7
  <2> QED
    BY <2>1, <2>2, <2>3, <2>4
<1>27. CASE Reti
  <2> USE <1>27 DEF Reti, SetFlag
  <2>1. TypeOK'
    BY DEF TypeOK
  <2>2. Places' /\ Room'
    BY DEF TypeOK, Places, Room
  <2>3. Disabled'
    BY DEF TypeOK, Disabled, Inside
  <2>4. ByteIsExact'
    BY DEF TypeOK, ByteIsExact, Counted, Marked
  <2> QED
    BY <2>1, <2>2, <2>3, <2>4
<1>28. CASE \E i \in Interrupts : Raise(i)
  <2> USE <1>28 DEF Raise
  <2>1. TypeOK'
    BY DEF TypeOK
  <2>2. Places' /\ Room'
    BY DEF TypeOK, Places, Room
  <2>3. Disabled'
    BY DEF TypeOK, Disabled, Inside
  <2>4. ByteIsExact'
    BY DEF TypeOK, ByteIsExact, Counted, Marked
  <2> QED
    BY <2>1, <2>2, <2>3, <2>4
<1>29. CASE UNCHANGED vars
  <2> USE <1>29 DEF vars
  <2>1. TypeOK'
    BY DEF TypeOK
  <2>2. Places' /\ Room'
    BY DEF TypeOK, Places, Room
  <2>3. Disabled'
    BY DEF TypeOK, Disabled, Inside
  <2>4. ByteIsExact'
    BY DEF TypeOK, ByteIsExact, Counted, Marked
  <2> QED
    BY <2>1, <2>2, <2>3, <2>4
<1> QED
  BY <1>1, <1>2, <1>3, <1>4, <1>5, <1>6, <1>7, <1>8, <1>9, <1>10, <1>11,
     <1>12, <1>13, <1>14, <1>15, <1>16, <1>17, <1>18, <1>19, <1>20, <1>21,
     <1>22, <1>23, <1>24, <1>25, <1>26, <1>27, <1>28, <1>29 DEF Next,
     Statement, Contexts

(* The byte is the mark of a handler, or a count that is no greater than    *)
(* the number of nested sections and has not wrapped around at 0; so are    *)
(* the copies that EnterAtomic and LeaveAtomic work with.                   *)
THEOREM TypeCorrect == Spec => []TypeOK
<1>1. IInv => TypeOK
  BY DEF IInv
<1> QED
  BY <1>1, InitIInv, NextIInv, PTL DEF Spec

(* EnterAtomic and LeaveAtomic exclude the handlers from the sections of   *)
(* the main program.                                                       *)
THEOREM MutualExclusion == Spec => []SectionsExcludeHandlers
<1>1. IInv => SectionsExcludeHandlers
  BY DEF IInv, SectionsExcludeHandlers, TypeOK, Disabled, Inside, Contexts
<1> QED
  BY <1>1, InitIInv, NextIInv, PTL DEF Spec

(* Neither function enables the interrupts while a handler runs.           *)
THEOREM NoNestedInterrupts == Spec => []HandlersAreNotInterrupted
<1>1. IInv => HandlersAreNotInterrupted
  BY DEF IInv, HandlersAreNotInterrupted, Disabled
<1> QED
  BY <1>1, InitIInv, NextIInv, PTL DEF Spec

(* What EnterAtomic reads before it disables the interrupts is what is in  *)
(* the byte when it has disabled them.                                     *)
THEOREM CopyIsExact == Spec => []CopyIsNotStale
<1>1. IInv => CopyIsNotStale
  BY DEF IInv, CopyIsNotStale, ByteIsExact, Counted, Marked, TypeOK, Contexts
<1> QED
  BY <1>1, InitIInv, NextIInv, PTL DEF Spec

(* The byte without its mark is the number of open sections.               *)
THEOREM CountIsExact == Spec => []ByteCountsSections
<1>1. ASSUME IInv PROVE ByteCountsSections
  <2> USE <1>1 DEF IInv
  <2>1. depth["main"] \in 0..127
    BY MaxDepthAssumption DEF TypeOK, Contexts
  <2> QED
    BY <2>1 DEF ByteCountsSections, ByteIsExact, Counted, ClearBit7, Bit7
<1> QED
  BY <1>1, InitIInv, NextIInv, PTL DEF Spec

=============================================================================
