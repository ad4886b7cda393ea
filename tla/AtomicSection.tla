---------------------------- MODULE AtomicSection ----------------------------
(***************************************************************************)
(* EnterAtomic, LeaveAtomic, IsrEnter and IsrLeave of AvrLib.c: how the     *)
(* main program and the interrupt handlers exclude each other.             *)
(*                                                                         *)
(* One byte in an I/O register, _withinIsr, tells both functions where     *)
(* they run: its bit 7 is set while a handler runs, and its other bits     *)
(* count the atomic sections that the main program is in.  Neither         *)
(* function is atomic itself: every access to the byte and to the          *)
(* interrupt flag is a step of its own, and between two steps of the main  *)
(* program an interrupt may be taken.                                      *)
(*                                                                         *)
(* Of the processor, the model has the interrupt flag, the interrupts that *)
(* wait, and the rule that they are taken before the next instruction,     *)
(* except that one more instruction is executed after the flag was set by  *)
(* sei or by the return from a handler.                                    *)
(***************************************************************************)
EXTENDS Integers

CONSTANTS MaxDepth,     (* number of atomic sections that are nested         *)
          Interrupts    (* the interrupt sources                             *)

(* The 128th nested section would set bit 7.                                *)
ASSUME MaxDepthAssumption == MaxDepth \in 1..127

VARIABLES
  enabled,     (* the interrupt flag of the status register                  *)
  shadow,      (* whether the last instruction set the flag                  *)
  pending,     (* the interrupts that wait to be served                      *)
  serving,     (* whether a handler runs                                     *)
  withinIsr,   (* the byte _withinIsr                                        *)
  pc,          (* where main program and handler are: in "code" of their own *)
               (* or at a statement of one of the four functions             *)
  local,       (* the local variable of EnterAtomic and LeaveAtomic          *)
  depth        (* sections that were entered and are not yet being left      *)

vars == <<enabled, shadow, pending, serving, withinIsr, pc, local, depth>>

Contexts == {"main", "isr"}
Counts == 0..MaxDepth
Mark == 128

Bit7(b) == b >= 128
SetBit7(b) == IF Bit7(b) THEN b ELSE b + 128
ClearBit7(b) == IF Bit7(b) THEN b - 128 ELSE b

-----------------------------------------------------------------------------

(* Interrupts are disabled from reset until Usart_Init executes sei.        *)
Init ==
  /\ enabled = FALSE /\ shadow = FALSE
  /\ pending = {} /\ serving = FALSE
  /\ withinIsr = 0
  /\ pc = [c \in Contexts |-> "code"]
  /\ local = [c \in Contexts |-> 0]
  /\ depth = [c \in Contexts |-> 0]

Raise(i) ==
  /\ i \notin pending
  /\ pending' = pending \cup {i}
  /\ UNCHANGED <<enabled, shadow, serving, withinIsr, pc, local, depth>>

InterruptIsDue == enabled /\ ~shadow /\ pending # {}

(* Context c executes the statement at position "at" and goes on to "to".   *)
(* The handler runs if there is one, else the main program.                 *)
Step(c, at, to) ==
  /\ IF c = "isr" THEN serving ELSE ~serving /\ ~InterruptIsDue
  /\ pc[c] = at
  /\ pc' = [pc EXCEPT ![c] = to]
  /\ UNCHANGED <<pending, serving>>

SetFlag == enabled' = TRUE /\ shadow' = TRUE
ClearFlag == enabled' = FALSE /\ shadow' = FALSE
KeepFlag == enabled' = enabled /\ shadow' = FALSE

(* An instruction of the program or of a handler outside the functions.     *)
Compute(c) ==
  /\ Step(c, "code", "code")
  /\ KeepFlag
  /\ UNCHANGED <<withinIsr, local, depth>>

(* EnterAtomic. *)
CallEnter(c) ==
  /\ depth[c] < MaxDepth
  /\ Step(c, "code", "enterTest")
  /\ KeepFlag
  /\ UNCHANGED <<withinIsr, local, depth>>

EnterTest(c) ==
  /\ IF Bit7(withinIsr)
       THEN /\ Step(c, "enterTest", "code")
            /\ depth' = [depth EXCEPT ![c] = @ + 1]
       ELSE /\ Step(c, "enterTest", "enterRead")
            /\ UNCHANGED depth
  /\ KeepFlag
  /\ UNCHANGED <<withinIsr, local>>

EnterRead(c) ==
  /\ Step(c, "enterRead", "cli")
  /\ local' = [local EXCEPT ![c] = withinIsr]
  /\ KeepFlag
  /\ UNCHANGED <<withinIsr, depth>>

(* Mutant of Cli: the interrupt flag is left as it is.                      *)
MutantNoCli(c) ==
  /\ Step(c, "cli", "enterWrite")
  /\ KeepFlag
  /\ UNCHANGED <<withinIsr, local, depth>>

Cli(c) ==
  /\ Step(c, "cli", "enterWrite")
  /\ ClearFlag
  /\ UNCHANGED <<withinIsr, local, depth>>

(* Mutant of EnterWrite: the section is not counted.                        *)
MutantNotCounted(c) ==
  /\ Step(c, "enterWrite", "code")
  /\ withinIsr' = local[c]
  /\ depth' = [depth EXCEPT ![c] = @ + 1]
  /\ KeepFlag
  /\ UNCHANGED local

EnterWrite(c) ==
  /\ Step(c, "enterWrite", "code")
  /\ withinIsr' = (local[c] + 1) % 256
  /\ depth' = [depth EXCEPT ![c] = @ + 1]
  /\ KeepFlag
  /\ UNCHANGED local

(* LeaveAtomic. *)
CallLeave(c) ==
  /\ depth[c] > 0
  /\ Step(c, "code", "leaveTest")
  /\ depth' = [depth EXCEPT ![c] = @ - 1]
  /\ KeepFlag
  /\ UNCHANGED <<withinIsr, local>>

(* Mutant of LeaveTest: the mark is not tested.                             *)
MutantNoTest(c) ==
  /\ Step(c, "leaveTest", "leaveRead")
  /\ KeepFlag
  /\ UNCHANGED <<withinIsr, local, depth>>

LeaveTest(c) ==
  /\ Step(c, "leaveTest", IF Bit7(withinIsr) THEN "code" ELSE "leaveRead")
  /\ KeepFlag
  /\ UNCHANGED <<withinIsr, local, depth>>

LeaveRead(c) ==
  /\ Step(c, "leaveRead", "leaveWrite")
  /\ local' = [local EXCEPT ![c] = (withinIsr + 255) % 256]
  /\ KeepFlag
  /\ UNCHANGED <<withinIsr, depth>>

(* Mutant of LeaveWrite: the counter is tested before it is decremented.    *)
MutantEarlyTest(c) ==
  /\ Step(c, "leaveWrite", IF withinIsr = 0 THEN "sei" ELSE "code")
  /\ withinIsr' = local[c]
  /\ KeepFlag
  /\ UNCHANGED <<local, depth>>

LeaveWrite(c) ==
  /\ Step(c, "leaveWrite", IF local[c] = 0 THEN "sei" ELSE "code")
  /\ withinIsr' = local[c]
  /\ KeepFlag
  /\ UNCHANGED <<local, depth>>

Sei(c) ==
  /\ Step(c, "sei", "code")
  /\ SetFlag
  /\ UNCHANGED <<withinIsr, local, depth>>

(* The last instruction of Usart_Init, which the program calls once.        *)
UsartInit ==
  /\ depth["main"] = 0 /\ ~enabled
  /\ Step("main", "code", "code")
  /\ SetFlag
  /\ UNCHANGED <<withinIsr, local, depth>>

(* The processor takes an interrupt and clears the flag.  The handler of    *)
(* the overflow of timer 1 does without IsrEnter and IsrLeave, and calls    *)
(* nothing.                                                                 *)
TakeInterrupt ==
  /\ ~serving /\ InterruptIsDue
  /\ \E i \in pending : pending' = pending \ {i}
  /\ serving' = TRUE
  /\ ClearFlag
  /\ \E start \in {"isrEnter", "reti"} : pc' = [pc EXCEPT !["isr"] = start]
  /\ UNCHANGED <<withinIsr, local, depth>>

(* Mutant of IsrEnter: the handler does not mark that it runs.              *)
MutantNoMark ==
  /\ Step("isr", "isrEnter", "code")
  /\ KeepFlag
  /\ UNCHANGED <<withinIsr, local, depth>>

IsrEnter ==
  /\ Step("isr", "isrEnter", "code")
  /\ withinIsr' = SetBit7(withinIsr)
  /\ KeepFlag
  /\ UNCHANGED <<local, depth>>

(* Mutant of IsrLeave: the mark stays.                                      *)
MutantMarkStays ==
  /\ depth["isr"] = 0
  /\ Step("isr", "code", "reti")
  /\ KeepFlag
  /\ UNCHANGED <<withinIsr, local, depth>>

IsrLeave ==
  /\ depth["isr"] = 0
  /\ Step("isr", "code", "reti")
  /\ withinIsr' = ClearBit7(withinIsr)
  /\ KeepFlag
  /\ UNCHANGED <<local, depth>>

Reti ==
  /\ serving /\ pc["isr"] = "reti"
  /\ pc' = [pc EXCEPT !["isr"] = "code"]
  /\ serving' = FALSE
  /\ SetFlag
  /\ UNCHANGED <<pending, withinIsr, local, depth>>

(* The statements of EnterAtomic and LeaveAtomic, in which nothing waits.   *)
Statement(c) ==
  \/ EnterTest(c) \/ EnterRead(c) \/ Cli(c) \/ EnterWrite(c)
  \/ LeaveTest(c) \/ LeaveRead(c) \/ LeaveWrite(c) \/ Sei(c)

Next ==
  \/ \E i \in Interrupts : Raise(i)
  \/ UsartInit
  \/ TakeInterrupt \/ IsrEnter \/ IsrLeave \/ Reti
  \/ \E c \in Contexts : Compute(c) \/ CallEnter(c) \/ CallLeave(c) \/ Statement(c)

Spec == Init /\ [][Next]_vars

(* The processor does not stop, the program gets to Usart_Init, and no      *)
(* section and no handler goes on for ever: between EnterAtomic and         *)
(* LeaveAtomic, and in a handler, AvrLib has no loop without a bound.       *)
Fairness ==
  /\ WF_vars(UsartInit)
  /\ WF_vars(TakeInterrupt)
  /\ WF_vars(IsrEnter)
  /\ WF_vars(Reti)
  /\ SF_vars(IsrLeave)
  /\ \A c \in Contexts :
       /\ WF_vars(Compute(c))
       /\ WF_vars(Statement(c))
       /\ \A d \in 1..MaxDepth : SF_vars(CallLeave(c) /\ depth[c] = d)

FairSpec == Spec /\ Fairness

-----------------------------------------------------------------------------

(* Types of the variables.  The byte has eight bits, but it is never more   *)
(* than the number of nested sections, or the mark of a handler alone: the  *)
(* count does not get into the mark, does not go below zero, and a handler  *)
(* neither finds nor makes one.                                             *)
TypeOK ==
  /\ enabled \in BOOLEAN /\ shadow \in BOOLEAN /\ serving \in BOOLEAN
  /\ pending \subseteq Interrupts
  /\ withinIsr \in Counts \cup {Mark}
  /\ pc \in [Contexts -> {"code", "enterTest", "enterRead", "cli", "enterWrite",
                          "leaveTest", "leaveRead", "leaveWrite", "sei",
                          "isrEnter", "reti"}]
  /\ local \in [Contexts -> Counts]
  /\ depth \in [Contexts -> 0..MaxDepth]

(* No handler runs while the main program is in an atomic section, so the   *)
(* queues and rings that EnterAtomic protects are never seen half updated.  *)
SectionsExcludeHandlers == serving => depth["main"] = 0

(* A handler is never interrupted: EnterAtomic and LeaveAtomic do not       *)
(* enable interrupts in interrupt context, however they are nested there.   *)
HandlersAreNotInterrupted == serving => ~enabled

(* EnterAtomic copies the byte before it disables the interrupts.  The copy *)
(* is not stale when it is written back: whatever handlers came in between  *)
(* left the byte as they found it.                                          *)
CopyIsNotStale ==
  ~serving /\ pc["main"] \in {"cli", "enterWrite"} => local["main"] = withinIsr

(* The byte counts the open sections exactly, while the main program is in  *)
(* its own code and while it has been interrupted there.                    *)
ByteCountsSections ==
  pc["main"] = "code" => ClearBit7(withinIsr) = depth["main"]

(* Once the interrupts are enabled for the first time, no section and no    *)
(* handler leaves them disabled: when interrupts are pending, one of them   *)
(* is served.  (Which one is up to their fixed priorities.)                 *)
InterruptsAreServed == pending # {} ~> serving

=============================================================================
