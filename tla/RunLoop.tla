-------------------------------- MODULE RunLoop --------------------------------
(***************************************************************************)
(* The emulation loop (Core.Run, internal/core/core.go): the CPU executes  *)
(* one instruction after the other while it is not halted; while it is,    *)
(* the loop steps the bus from one event to the next until an interrupt    *)
(* wakes the CPU.  DMA.Run takes the bus away from both: from an           *)
(* instruction before each of its accesses.                                *)
(*                                                                         *)
(* What a step of the bus does besides passing time is up to the event     *)
(* that fires: it may activate a DMA channel or stop one, commit an        *)
(* interrupt, or do neither.  Only such a commit makes an interrupt        *)
(* available, or no longer available.  Times are relative to the clock,    *)
(* Scheduler.now.                                                          *)
(***************************************************************************)
EXTENDS Integers, FiniteSetsExt

CONSTANTS
  Frame,     \* the cycles Run is called with
  Access,    \* cycles a bus access, or an internal cycle, of the CPU may take; a
             \* store to HALTCNT is an access that takes one more
  Most,      \* the most accesses and internal cycles of an instruction
  Transfer,  \* cycles DMA.Run may take before its last one
  Gap        \* cycles from an event to the next one

ASSUME RunLoopAssumption ==
  /\ Frame \in Nat \ {0}
  /\ Most \in Nat \ {0}
  /\ Access \subseteq Nat \ {0} /\ Transfer \subseteq Nat \ {0} /\ Gap \subseteq Nat \ {0}
  /\ \A S \in {Access, Transfer, Gap} : \E m \in S : \A x \in S : x <= m

VARIABLES
  left,      \* target - now: cycles of the call of Run that are left
  due,       \* cycles to the scheduler's next event
  todo,      \* cycles of the Bus.Step under way that are left
  made,      \* accesses of the current instruction that were made
  pc,        \* where Run is
  halted,    \* Haltcnt # HaltControlRun
  running,   \* DMA.IsRunning
  available  \* IRQ.ShouldUnhaltCPU

vars == <<left, due, todo, made, pc, halted, running, available>>

Place == {"off", "loop", "cpu", "cpuDMA", "access", "exec", "halt", "haltDMA", "haltStep", "wake"}

\* A transfer with its last cycle, and the access that waited for it
Round == Max(Transfer) + 1 + Max(Access)

\* An instruction that begins in the last cycle, each access after a transfer
Overshoot == Most * Round - 1

TypeOK ==
  /\ left \in -Overshoot .. Frame
  /\ due \in 0 .. Max(Gap) + Overshoot
  /\ todo \in -Overshoot .. Max(Access \cup Transfer \cup Gap) + Overshoot
  /\ made \in 0 .. Most
  /\ pc \in Place
  /\ halted \in BOOLEAN /\ running \in BOOLEAN /\ available \in BOOLEAN

Init ==
  /\ left = 0
  /\ due \in Gap
  /\ todo = 0
  /\ made = 0
  /\ pc = "off"
  /\ halted = FALSE /\ running = FALSE /\ available = FALSE
-----------------------------------------------------------------------------
\* Bus.Step, Scheduler.Advance: time passes up to the end of the step ...
Tick ==
  /\ todo > 0 /\ due > 0
  /\ todo' = todo - 1 /\ left' = left - 1 /\ due' = due - 1
  /\ UNCHANGED <<made, pc, halted, running, available>>

\* ... or to the next event, which fires before more time passes.
Fire ==
  /\ due = 0
  /\ due' \in Gap
  /\ running' \in BOOLEAN /\ available' \in BOOLEAN
  /\ UNCHANGED <<left, todo, made, pc, halted>>

\* Advance with a negative number of cycles fires nothing and sets the clock.
StepBack ==
  /\ todo < 0
  /\ todo' = 0 /\ left' = left - todo /\ due' = due - todo
  /\ UNCHANGED <<made, pc, halted, running, available>>

\* Run goes on when the step it made, if any, is over.
Goes(from, to) == pc = from /\ todo = 0 /\ due > 0 /\ pc' = to

Call ==
  /\ Goes("off", "loop")
  /\ left' = Frame
  /\ UNCHANGED <<due, todo, made, halted, running, available>>

Loop ==
  /\ \/ left <= 0 /\ Goes("loop", "off")
     \/ left > 0 /\ ~halted /\ Goes("loop", "cpu")
     \/ left > 0 /\ halted /\ Goes("loop", "halt")
  /\ UNCHANGED <<left, due, todo, made, halted, running, available>>

\* Each access of an instruction waits for the transfer that is pending, but for
\* the store of SWP: drainDMAOnAccess.
CPUDrains ==
  \/ /\ ~running \/ made > 0
     /\ Goes("cpu", "access")
     /\ UNCHANGED <<left, due, todo, made, halted, running, available>>
  \/ /\ running /\ Goes("cpu", "cpuDMA")
     /\ todo' \in Transfer
     /\ UNCHANGED <<left, due, made, halted, running, available>>

\* The first access fetches; an internal cycle after it, which Idle counts,
\* takes no time when the transfer that it waited for left cycles to run parallel to.
CPUAccess ==
  /\ Goes("access", "exec")
  /\ todo' \in Access \/ (made > 0 /\ todo' = 0)
  /\ made' = made + 1
  /\ UNCHANGED <<left, due, halted, running, available>>

\* DMA.Run moves units until no channel is runnable; events of its last cycle
\* may make one runnable again.  A unit may be stored to HALTCNT.
DMAEnds ==
  /\ Goes("cpuDMA", "access") \/ Goes("haltDMA", "haltStep")
  /\ running' = FALSE
  /\ halted' \in {halted, TRUE}
  /\ todo' = 1
  /\ UNCHANGED <<left, due, made, available>>

\* The access may have stored to HALTCNT, or disabled the channels.
CPUStores ==
  /\ halted' \in {halted, TRUE}
  /\ running' \in {running, FALSE}
  /\ UNCHANGED <<left, due, todo, available>>

CPUGoesOn ==
  /\ made < Most
  /\ Goes("exec", "cpu")
  /\ CPUStores
  /\ UNCHANGED made

CPUDone ==
  /\ Goes("exec", "loop")
  /\ CPUStores
  /\ made' = 0

\* The inner loop of a halted CPU.
HaltLoop ==
  \/ /\ left <= 0 \/ available
     /\ Goes("halt", "wake")
     /\ UNCHANGED <<left, due, todo, made, halted, running, available>>
  \/ /\ left > 0 /\ ~available /\ running
     /\ Goes("halt", "haltDMA")
     /\ todo' \in Transfer
     /\ UNCHANGED <<left, due, made, halted, running, available>>
  \/ /\ left > 0 /\ ~available /\ ~running
     /\ Goes("halt", "haltStep")
     /\ UNCHANGED <<left, due, todo, made, halted, running, available>>

\* Mutant: the step ends a cycle before the event.
HaltStepShort ==
  /\ ~available
  /\ Goes("haltStep", "halt")
  /\ todo' = IF due - 1 > left THEN left ELSE due - 1
  /\ UNCHANGED <<left, due, made, halted, running, available>>

\* Mutant: an interrupt that came with the transfer is not looked at.
HaltStepBlind ==
  /\ Goes("haltStep", "halt")
  /\ todo' = IF due > left THEN left ELSE due
  /\ UNCHANGED <<left, due, made, halted, running, available>>

\* An interrupt that came with the transfer is looked at; then the step goes to
\* the next event, clamped to the budget of the call.
HaltStep ==
  \/ /\ available
     /\ Goes("haltStep", "wake")
     /\ UNCHANGED <<left, due, todo, made, halted, running, available>>
  \/ /\ ~available
     /\ Goes("haltStep", "halt")
     /\ todo' = IF due > left THEN left ELSE due
     /\ UNCHANGED <<left, due, made, halted, running, available>>

Wake ==
  /\ Goes("wake", "loop")
  /\ IF available THEN todo' = 1 /\ halted' = FALSE ELSE UNCHANGED <<todo, halted>>
  /\ UNCHANGED <<left, due, made, running, available>>

Runs ==
  \/ Tick \/ Fire \/ StepBack
  \/ Loop
  \/ CPUDrains \/ CPUAccess \/ CPUGoesOn \/ CPUDone \/ DMAEnds
  \/ HaltLoop \/ HaltStep \/ Wake

Next == Call \/ Runs

\* Run is sequential code; nothing but its caller decides when to call it.
Spec == Init /\ [][Next]_vars /\ WF_vars(Runs)
-----------------------------------------------------------------------------
\* In the halt loop no time passes once an interrupt is available: the loop never
\* steps over the event that brings one, nor overlooks one that comes while DMA
\* has the bus, and wakes the CPU in the very next cycle.
WakesAtOnce == [][pc = "halt" /\ available => left' >= left]_vars

\* Every call of Run comes back.
RunReturns == (pc = "loop") ~> (pc = "off")
=============================================================================
