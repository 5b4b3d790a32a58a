------------------------------- MODULE CoreProofs -------------------------------
(***************************************************************************)
(* Proofs about the core: the emulation loop, the queue of events it       *)
(* advances, the interrupt controller whose updates are such events, and   *)
(* what the instructions of its processor compute.  The halt loop wakes    *)
(* the CPU at once, a call of Run keeps to its budget but for the          *)
(* transfers and accesses of one instruction, the queue keeps the promises *)
(* of EventQueue and the interrupt controller settles, whatever the        *)
(* lengths of calls, accesses, transfers and gaps between events, and      *)
(* however many events there are; flags and shifts are those of the        *)
(* integers, for words of any width.                                       *)
(***************************************************************************)
EXTENDS RunLoop, CpuProofs

CONSTANTS Class, Closure, Delay, Cycles, NoSave, Source, Copy
VARIABLES pending, nextID, advancing, budget, savedQueue, irq, irqQueue, cpuLine, haltcnt, raced

Queue == INSTANCE EventQueue WITH saved <- savedQueue
Irqs == INSTANCE Irq WITH queue <- irqQueue, cpu <- haltcnt

\* The step of the halt loop ends at the next event or before it, and there is
\* no step under way while an interrupt is available.
WithinEvent ==
  /\ left \in Int /\ due \in Int /\ todo \in Int
  /\ due >= 0
  /\ pc = "halt" => todo <= due /\ (available => todo <= 0)

\* It holds at first,
LEMMA WithinEventInit == Init => WithinEvent
BY RunLoopAssumption DEF Init, WithinEvent

\* and every step of the loop keeps it.
LEMMA WithinEventStep == WithinEvent /\ [Next]_vars => WithinEvent'
<1> SUFFICES ASSUME WithinEvent, [Next]_vars PROVE WithinEvent'
  OBVIOUS
<1> USE RunLoopAssumption DEF WithinEvent, Goes
<1>0. \A t \in Transfer : t \in Int
  OBVIOUS
<1>1. CASE Call
  BY <1>1 DEF Call
<1>2. CASE Tick
  BY <1>2 DEF Tick
<1>3. CASE Fire
  <2>1. due' \in Int /\ due' > 0
    BY <1>3 DEF Fire
  <2>2. QED
    BY <1>3, <2>1 DEF Fire
<1>4. CASE StepBack
  BY <1>4 DEF StepBack
<1>5. CASE Loop
  BY <1>5 DEF Loop
<1>6. CASE CPUDrains
  <2>1. /\ todo' = todo \/ todo' \in Transfer
        /\ pc' \in {"access", "cpuDMA"}
        /\ left' = left /\ due' = due
    BY <1>6, Zenon DEF CPUDrains
  <2>2. todo' \in Int
    BY <1>0, <2>1, Zenon
  <2>3. pc' # "halt"
    BY <2>1
  <2>4. QED
    BY <2>1, <2>2, <2>3
<1>7. CASE CPUAccess
  <2>1. todo' \in Int /\ pc' # "halt"
    <3>1. (todo' \in Access \/ todo' = 0) /\ pc' = "exec"
      BY <1>7, Zenon DEF CPUAccess
    <3>2. 0 \in Int /\ \A a \in Access : a \in Int
      OBVIOUS
    <3>3. todo' \in Int
      BY <3>1, <3>2, Zenon
    <3>4. QED
      BY <3>1, <3>3
  <2>2. left' = left /\ due' = due
    BY <1>7, Zenon DEF CPUAccess
  <2>3. QED
    BY <2>1, <2>2
<1>8. CASE DMAEnds
  BY <1>8 DEF DMAEnds
<1>9. CASE CPUDone
  BY <1>9 DEF CPUDone, CPUStores
<1>10. CASE HaltLoop
  <2>1. /\ todo' = todo \/ todo' \in Transfer
        /\ pc' \in {"wake", "haltDMA", "haltStep"}
        /\ left' = left /\ due' = due
    BY <1>10, Zenon DEF HaltLoop
  <2>2. todo' \in Int
    BY <1>0, <2>1, Zenon
  <2>3. pc' # "halt"
    BY <2>1
  <2>4. QED
    BY <2>1, <2>2, <2>3
<1>11. CASE HaltStep
  BY <1>11 DEF HaltStep
<1>12. CASE Wake
  BY <1>12 DEF Wake
<1>13. CASE CPUGoesOn
  BY <1>13 DEF CPUGoesOn, CPUStores
<1>14. CASE UNCHANGED vars
  BY <1>14 DEF vars
<1>15. QED
  BY <1>1, <1>2, <1>3, <1>4, <1>5, <1>6, <1>7, <1>8, <1>9, <1>10, <1>11, <1>12, <1>13, <1>14
  DEF Next, Runs

\* Only a cycle of a step takes time from the call of Run.
LEMMA OnlyTickTakesTime ==
  ASSUME WithinEvent, [Next]_vars, pc = "halt", available
  PROVE  left' >= left
<1>1. todo <= 0 /\ todo \in Int /\ left \in Int
  BY Zenon DEF WithinEvent
<1>2. CASE Tick
  BY <1>1, <1>2 DEF Tick
<1>3. CASE StepBack
  BY <1>1, <1>3 DEF StepBack
<1>4. CASE Call
  BY <1>4, Zenon DEF Call, Goes
<1>5. CASE UNCHANGED left
  BY <1>1, <1>5
<1>6. QED
  BY <1>2, <1>3, <1>4, <1>5, Zenon
  DEF Next, Runs, Loop, Fire, CPUDrains, CPUAccess, DMAEnds, CPUStores,
      CPUGoesOn, CPUDone, HaltLoop, HaltStep, Wake, vars

\* No time passes in the halt loop (core.go:346) once an interrupt is available.
THEOREM HaltedCPUWakes == Spec => WakesAtOnce
<1>1. Spec => []WithinEvent
  BY WithinEventInit, WithinEventStep, PTL DEF Spec
<1>2. WithinEvent /\ [Next]_vars => [pc = "halt" /\ available => left' >= left]_vars
  BY OnlyTickTakesTime
<1>3. QED
  BY <1>1, <1>2, PTL DEF Spec, WakesAtOnce

\* What is left of the budget once the step under way is over, for each place of
\* Run.  A clock that goes back (StepBack) gives back what a transfer took, so
\* that the next event may be further away than a gap, by the overrun.
Ahead == IF todo > 0 THEN todo ELSE 0

\* What the accesses that an instruction has made may have taken
Spent == made * Round

Budget ==
  /\ pc \in {"off", "loop"} => left - Ahead >= -Overshoot
  /\ pc \in {"cpu", "exec"} => left - Ahead > -Spent
  /\ pc = "cpu" => todo = 0
  /\ pc = "cpuDMA" => left - Ahead > -Spent - Max(Transfer)
  /\ pc = "access" => left - Ahead >= -Spent - Max(Transfer)
  /\ pc = "haltDMA" => left - Ahead > -Max(Transfer)
  /\ pc \in {"halt", "haltStep", "wake"} => left - Ahead >= -Max(Transfer)
  /\ pc \in {"cpu", "cpuDMA", "access"} => made < Most
  /\ pc \notin {"cpu", "cpuDMA", "access", "exec"} => made = 0
  /\ todo < 0 => pc = "halt" /\ todo = left
  /\ pc \in {"haltDMA", "haltStep"} \/ todo < 0 =>
       due <= Max(Gap) \/ due - left < Max(Gap) + Overshoot

\* The greatest of a set of numbers is one of them.
LEMMA MaxIsGreatest ==
  ASSUME NEW S \in SUBSET Int, \E m \in S : \A x \in S : x <= m
  PROVE  Max(S) \in S /\ \A x \in S : x <= Max(S)
<1>1. \E m \in S : \A x \in S : m >= x
  OBVIOUS
<1>2. Max(S) \in S /\ \A x \in S : Max(S) >= x
  BY <1>1, Zenon DEF Max
<1>3. QED
  BY <1>2

\* The bounds of what takes time.
LEMMA BoundsOfTime ==
  /\ Max(Transfer) \in Nat \ {0} /\ Max(Access) \in Nat \ {0} /\ Max(Gap) \in Nat \ {0}
  /\ \A x \in Transfer : x \in Nat \ {0} /\ x <= Max(Transfer)
  /\ \A x \in Access : x \in Nat \ {0} /\ x <= Max(Access)
  /\ \A x \in Gap : x \in Nat \ {0} /\ x <= Max(Gap)
  /\ Max(Access \cup Transfer \cup Gap) \in Nat
  /\ Max(Transfer) <= Max(Access \cup Transfer \cup Gap)
  /\ Max(Access) <= Max(Access \cup Transfer \cup Gap)
  /\ Max(Gap) <= Max(Access \cup Transfer \cup Gap)
<1> USE RunLoopAssumption
<1>1. /\ Max(Transfer) \in Transfer /\ \A x \in Transfer : x <= Max(Transfer)
      /\ Max(Access) \in Access /\ \A x \in Access : x <= Max(Access)
      /\ Max(Gap) \in Gap /\ \A x \in Gap : x <= Max(Gap)
  <2>1. Transfer \in SUBSET Int /\ Access \in SUBSET Int /\ Gap \in SUBSET Int
    OBVIOUS
  <2>2. QED
    BY <2>1, MaxIsGreatest
<1>2. PICK a \in Access : \A x \in Access : x <= a
  OBVIOUS
<1>3. PICK t \in Transfer : \A x \in Transfer : x <= t
  OBVIOUS
<1>4. PICK g \in Gap : \A x \in Gap : x <= g
  OBVIOUS
<1> DEFINE All == Access \cup Transfer \cup Gap
<1>5. \E m \in All : \A x \in All : x <= m
  <2>1. a \in All /\ t \in All /\ g \in All /\ a \in Nat /\ t \in Nat /\ g \in Nat
    OBVIOUS
  <2>2. PICK m \in {a, t, g} : a <= m /\ t <= m /\ g <= m
    BY <2>1
  <2>3. \A x \in All : x <= m
    BY <1>2, <1>3, <1>4, <2>1, <2>2
  <2>4. QED
    BY <2>1, <2>2, <2>3
<1>6. All \in SUBSET Int
  OBVIOUS
<1>7. Max(All) \in All /\ \A x \in All : x <= Max(All)
  BY <1>5, <1>6, MaxIsGreatest
<1>8. QED
  BY <1>1, <1>7


\* An access more takes a round more, and a whole instruction all of them.
LEMMA SpentInRounds ==
  /\ Round \in Nat /\ Round = Max(Transfer) + 1 + Max(Access)
  /\ Overshoot \in Nat /\ Overshoot >= Max(Transfer) + Max(Access)
  /\ \A m \in 0 .. Most : m * Round \in Nat /\ m * Round <= Overshoot + 1
  /\ \A m \in 0 .. Most : (m + 1) * Round = m * Round + Round
  /\ 0 * Round = 0
<1>1. Round \in Nat /\ Round > 0 /\ Round = Max(Transfer) + 1 + Max(Access)
  BY BoundsOfTime DEF Round
<1>2. Most \in Nat /\ Most > 0
  BY RunLoopAssumption
<1>3. Most * Round \in Nat /\ Most * Round >= Round
  <2>1. \A m, r \in Nat : m > 0 => m * r \in Nat /\ m * r >= r
    OBVIOUS
  <2>2. QED
    BY <1>1, <1>2, <2>1, Zenon
<1>4. ASSUME NEW m \in 0 .. Most
      PROVE  m * Round \in Nat /\ m * Round <= Most * Round /\ (m + 1) * Round = m * Round + Round
  <2>1. \A i, j, r \in Nat : i <= j => i * r \in Nat /\ i * r <= j * r /\ (i + 1) * r = i * r + r
    OBVIOUS
  <2>2. m \in Nat /\ m <= Most
    BY <1>2
  <2>3. QED
    BY <1>1, <1>2, <2>1, <2>2, Zenon
<1>5. Overshoot = Most * Round - 1
  BY DEF Overshoot
<1>6. 0 * Round = 0
  BY <1>1
<1> DEFINE all == Most * Round
<1>7. /\ all \in Nat /\ all >= Round /\ Overshoot = all - 1
      /\ \A m \in 0 .. Most : m * Round \in Nat /\ m * Round <= all
  BY <1>3, <1>4, <1>5
<1> HIDE DEF all
<1>8. Overshoot \in Nat /\ Overshoot >= Max(Transfer) + Max(Access) /\ all = Overshoot + 1
  BY <1>1, <1>7, BoundsOfTime
<1>9. \A m \in 0 .. Most : m * Round \in Nat /\ m * Round <= Overshoot + 1
  BY <1>7, <1>8, Zenon
<1>10. QED
  BY <1>1, <1>4, <1>6, <1>8, <1>9, Zenon

\* At the start nothing is left and nothing is under way ...
LEMMA BudgetInit == Init => TypeOK /\ Budget
<1> SUFFICES ASSUME Init PROVE TypeOK /\ Budget
  OBVIOUS
<1>1. left = 0 /\ todo = 0 /\ made = 0 /\ due \in Gap /\ pc = "off" /\ halted = FALSE
      /\ running = FALSE /\ available = FALSE
  BY Zenon DEF Init
<1>2. Overshoot \in Nat /\ due \in Nat /\ due <= Max(Gap) /\ Frame \in Nat
  BY <1>1, BoundsOfTime, SpentInRounds, RunLoopAssumption
<1>3. Max(Gap) \in Nat /\ Max(Access \cup Transfer \cup Gap) \in Nat
  BY BoundsOfTime
<1>4. left \in -Overshoot .. Frame /\ due \in 0 .. Max(Gap) + Overshoot
      /\ todo \in -Overshoot .. Max(Access \cup Transfer \cup Gap) + Overshoot
  BY <1>1, <1>2, <1>3
<1>5. TypeOK
  <2>1. made \in 0 .. Most
    BY <1>1, RunLoopAssumption
  <2>2. QED
    BY <1>1, <1>4, <2>1, Zenon DEF TypeOK, Place
<1>6. Budget
  BY <1>1, <1>2, <1>3 DEF Budget, Ahead
<1>7. QED
  BY <1>5, <1>6

\* ... and every step keeps the budget.
LEMMA BudgetStep == TypeOK /\ Budget /\ [Next]_vars => TypeOK' /\ Budget'
<1> SUFFICES ASSUME TypeOK, Budget, [Next]_vars PROVE TypeOK' /\ Budget'
  OBVIOUS
<1> DEFINE T == Max(Transfer)
           A == Max(Access)
           G == Max(Gap)
           M == Max(Access \cup Transfer \cup Gap)
           R == Round
<1>1. /\ T \in Int /\ T > 0 /\ A \in Int /\ A > 0 /\ G \in Int /\ G > 0
      /\ M \in Int /\ T <= M /\ A <= M /\ G <= M
      /\ Frame \in Int /\ Frame > 0 /\ Most \in Int /\ Most > 0
      /\ R = T + 1 + A /\ Overshoot \in Int /\ Overshoot >= T + A
  <2>1. Round = Max(Transfer) + 1 + Max(Access) /\ Overshoot \in Nat
        /\ Overshoot >= Max(Transfer) + Max(Access)
    BY SpentInRounds, Zenon
  <2>2. QED
    BY <2>1, BoundsOfTime, RunLoopAssumption
<1>2. /\ \A x \in Transfer : x \in Nat \ {0} /\ x <= T
      /\ \A x \in Access : x \in Nat \ {0} /\ x <= A
      /\ \A x \in Gap : x \in Nat \ {0} /\ x <= G
  BY BoundsOfTime
<1>3. /\ left \in Int /\ -Overshoot <= left /\ left <= Frame
      /\ due \in Int /\ 0 <= due /\ due <= G + Overshoot
      /\ todo \in Int /\ -Overshoot <= todo /\ todo <= M + Overshoot
      /\ made \in 0 .. Most /\ made \in Int /\ 0 <= made /\ made <= Most
      /\ pc \in Place
  BY <1>1 DEF TypeOK
<1>4. /\ pc \in {"off", "loop"} => left - Ahead >= -Overshoot
      /\ pc \in {"cpu", "exec"} => left - Ahead > -Spent
      /\ pc = "cpu" => todo = 0
      /\ pc = "cpuDMA" => left - Ahead > -Spent - T
      /\ pc = "access" => left - Ahead >= -Spent - T
      /\ pc = "haltDMA" => left - Ahead > -T
      /\ pc \in {"halt", "haltStep", "wake"} => left - Ahead >= -T
      /\ pc \in {"cpu", "cpuDMA", "access"} => made < Most
      /\ pc \notin {"cpu", "cpuDMA", "access", "exec"} => made = 0
      /\ todo < 0 => pc = "halt" /\ todo = left
      /\ pc \in {"haltDMA", "haltStep"} \/ todo < 0 => due <= G \/ due - left < G + Overshoot
  BY DEF Budget
<1>5. /\ Spent \in Int /\ 0 <= Spent /\ Spent <= Overshoot + 1
      /\ made < Most => Spent + R <= Overshoot + 1
      /\ made' = made => Spent' = Spent
      /\ made' = 0 => Spent' = 0
      /\ made' = made + 1 => Spent' = Spent + R
  <2>1. Spent \in Nat /\ Spent <= Overshoot + 1 /\ (made + 1) * Round = Spent + R
    BY <1>3, SpentInRounds, Zenon DEF Spent
  <2>2. Spent' = made' * Round
    BY DEF Spent
  <2>3. 0 * Round = 0
    BY SpentInRounds
  <2>4. /\ made' = made => Spent' = Spent
        /\ made' = 0 => Spent' = 0
        /\ made' = made + 1 => Spent' = Spent + R
    BY <2>1, <2>2, <2>3, Zenon DEF Spent
  <2> HIDE DEF R
  <2>5. Spent \in Int /\ 0 <= Spent /\ Spent <= Overshoot + 1
    BY <1>1, <2>1
  <2>6. made < Most => Spent + R <= Overshoot + 1
    <3>1. made < Most => made + 1 \in 0 .. Most
      BY <1>1, <1>3
    <3>2. QED
      BY <2>1, <3>1, SpentInRounds, Zenon
  <2>7. QED
    BY <2>4, <2>5, <2>6, Zenon
<1>0. halted' \in BOOLEAN /\ running' \in BOOLEAN /\ available' \in BOOLEAN
  BY Zenon
  DEF TypeOK, Next, Runs, Call, Tick, Fire, StepBack, Loop, CPUDrains, CPUAccess, DMAEnds, CPUStores,
      CPUGoesOn, CPUDone, HaltLoop, HaltStep, Wake, vars
<1>6. SUFFICES
      /\ left' \in Int /\ -Overshoot <= left' /\ left' <= Frame
      /\ due' \in Int /\ 0 <= due' /\ due' <= G + Overshoot
      /\ todo' \in Int /\ -Overshoot <= todo' /\ todo' <= M + Overshoot
      /\ made' \in Int /\ 0 <= made' /\ made' <= Most
      /\ pc' \in Place
      /\ pc' \in {"off", "loop"} => left' - Ahead' >= -Overshoot
      /\ pc' \in {"cpu", "exec"} => left' - Ahead' > -Spent'
      /\ pc' = "cpu" => todo' = 0
      /\ pc' = "cpuDMA" => left' - Ahead' > -Spent' - T
      /\ pc' = "access" => left' - Ahead' >= -Spent' - T
      /\ pc' = "haltDMA" => left' - Ahead' > -T
      /\ pc' \in {"halt", "haltStep", "wake"} => left' - Ahead' >= -T
      /\ pc' \in {"cpu", "cpuDMA", "access"} => made' < Most
      /\ pc' \notin {"cpu", "cpuDMA", "access", "exec"} => made' = 0
      /\ todo' < 0 => pc' = "halt" /\ todo' = left'
      /\ pc' \in {"haltDMA", "haltStep"} \/ todo' < 0 => due' <= G \/ due' - left' < G + Overshoot
  BY <1>0, <1>1 DEF TypeOK, Budget
<1> HIDE DEF T, A, G, M, R
<1>7. CASE Call
  <2>1. /\ pc = "off" /\ pc' = "loop" /\ todo = 0 /\ todo' = 0 /\ left' = Frame /\ due' = due
        /\ made' = made
    BY <1>7, Zenon DEF Call, Goes
  <2>2. QED
    BY <1>1, <1>3, <1>4, <2>1 DEF Ahead, Place
<1>8. CASE Tick
  <2>1. /\ todo > 0 /\ due > 0 /\ todo' = todo - 1 /\ left' = left - 1 /\ due' = due - 1
        /\ made' = made /\ pc' = pc
    BY <1>8, Zenon DEF Tick
  <2>2. Spent' = Spent
    BY <1>5, <2>1
  <2>3. Ahead = todo /\ Ahead' = todo - 1
    BY <1>3, <2>1 DEF Ahead
  <2>4. left' - Ahead' = left - Ahead
    BY <1>3, <2>1, <2>3
  <2>5. -Overshoot <= left'
    <3>1. left' >= left - todo
      BY <1>3, <2>1
    <3>2. \/ left - todo >= -Overshoot
          \/ left - todo > -Spent
          \/ made < Most /\ left - todo >= -Spent - T
          \/ left - todo >= -T
      BY <1>1, <1>3, <1>4, <1>5, <2>3 DEF Place
    <3>3. left - todo >= -Overshoot
      BY <1>1, <1>3, <1>5, <3>2
    <3>4. QED
      BY <1>1, <1>3, <2>1, <3>1, <3>3
  <2>6. QED
    BY <1>1, <1>3, <1>4, <1>5, <2>1, <2>2, <2>4, <2>5
<1>9. CASE Fire
  <2>1. due' \in Nat /\ due' <= G /\ due' > 0
    <3>1. due' \in Gap
      BY <1>9, Zenon DEF Fire
    <3>2. QED
      BY <1>2, <3>1
  <2>2. left' = left /\ todo' = todo /\ pc' = pc /\ made' = made
    BY <1>9, Zenon DEF Fire
  <2>3. Ahead' = Ahead /\ Spent' = Spent
    BY <1>5, <2>2 DEF Ahead
  <2>4. due' <= G + Overshoot
    BY <1>1, <2>1
  <2>5. QED
    BY <1>3, <1>4, <2>1, <2>2, <2>3, <2>4
<1>10. CASE StepBack
  <2>1. /\ todo < 0 /\ todo' = 0 /\ left' = left - todo /\ due' = due - todo
        /\ made' = made /\ pc' = pc
    BY <1>10, Zenon DEF StepBack
  <2>2. QED
    BY <1>1, <1>3, <1>4, <2>1 DEF Ahead, Place
<1>11. CASE Loop
  <2>1. /\ pc = "loop" /\ todo = 0 /\ left' = left /\ due' = due /\ todo' = 0 /\ made' = made
        /\ \/ pc' = "off"
           \/ left > 0 /\ pc' \in {"cpu", "halt"}
    BY <1>11, Zenon DEF Loop, Goes
  <2>2. Spent' = 0 /\ made = 0
    BY <1>4, <1>5, <2>1
  <2>3. QED
    BY <1>1, <1>3, <1>4, <2>1, <2>2 DEF Ahead, Place
<1>12. CASE CPUDrains
  <2>1. /\ pc = "cpu" /\ todo = 0 /\ left' = left /\ due' = due /\ made' = made
        /\ \/ pc' = "access" /\ todo' = todo
           \/ pc' = "cpuDMA" /\ todo' \in Transfer
    BY <1>12, Zenon DEF CPUDrains, Goes
  <2>2. Spent' = Spent /\ Ahead = 0
    BY <1>5, <2>1 DEF Ahead
  <2>3. CASE pc' = "access" /\ todo' = todo
    BY <1>1, <1>3, <1>4, <1>5, <2>1, <2>2, <2>3 DEF Ahead, Place
  <2>4. CASE pc' = "cpuDMA" /\ todo' \in Transfer
    <3>1. todo' \in Nat /\ todo' <= T /\ todo' > 0
      BY <1>2, <2>4
    <3>2. Ahead' = todo'
      BY <3>1 DEF Ahead
    <3>3. left' - Ahead' > -Spent' - T
      <4>1. left > -Spent
        BY <1>3, <1>4, <2>1, <2>2
      <4>2. \A t \in Nat : t <= T => left - t > -Spent - T
        BY <1>1, <1>3, <1>5, <4>1
      <4>3. QED
        BY <2>1, <2>2, <3>1, <3>2, <4>2, Zenon
    <3>4. QED
      BY <1>1, <1>3, <1>4, <2>1, <2>4, <3>1, <3>3 DEF Place
  <2>5. QED
    BY <2>1, <2>3, <2>4
<1>13. CASE CPUAccess
  <2>1. todo' \in Nat /\ todo' <= A
    <3>1. todo' \in Access \/ todo' = 0
      BY <1>13, Zenon DEF CPUAccess
    <3>2. QED
      BY <1>1, <1>2, <3>1
  <2>2. /\ pc = "access" /\ pc' = "exec" /\ todo = 0 /\ left' = left /\ due' = due
        /\ made' = made + 1
    BY <1>13, Zenon DEF CPUAccess, Goes
  <2>3. Ahead = 0 /\ Ahead' = todo' /\ Spent' = Spent + R
    BY <1>5, <2>1, <2>2 DEF Ahead
  <2>4. left' - Ahead' > -Spent'
    <3>1. left >= -Spent - T
      BY <1>1, <1>3, <1>4, <1>5, <2>2, <2>3
    <3>2. \A t \in Nat : t <= A => left - t > -(Spent + R)
      BY <1>1, <1>3, <1>5, <3>1
    <3>3. QED
      BY <2>1, <2>2, <2>3, <3>2, Zenon
  <2>5. QED
    BY <1>1, <1>3, <1>4, <2>1, <2>2, <2>4 DEF Place
<1>14. CASE DMAEnds
  <2>1. /\ \/ pc = "cpuDMA" /\ pc' = "access"
           \/ pc = "haltDMA" /\ pc' = "haltStep"
        /\ todo = 0 /\ todo' = 1 /\ left' = left /\ due' = due /\ made' = made
    BY <1>14, Zenon DEF DMAEnds, Goes
  <2>2. Spent' = Spent /\ Ahead = 0 /\ Ahead' = 1
    BY <1>5, <2>1 DEF Ahead
  <2>3. QED
    BY <1>1, <1>3, <1>4, <1>5, <2>1, <2>2 DEF Place
<1>15. CASE CPUGoesOn
  <2>1. /\ pc = "exec" /\ pc' = "cpu" /\ todo = 0 /\ todo' = 0 /\ left' = left /\ due' = due
        /\ made' = made /\ made < Most
    BY <1>15, Zenon DEF CPUGoesOn, CPUStores, Goes
  <2>2. Spent' = Spent /\ Ahead = 0 /\ Ahead' = 0
    BY <1>5, <2>1 DEF Ahead
  <2>3. QED
    BY <1>1, <1>3, <1>4, <1>5, <2>1, <2>2 DEF Place
<1>16. CASE CPUDone
  <2>1. /\ pc = "exec" /\ pc' = "loop" /\ todo = 0 /\ todo' = 0 /\ left' = left /\ due' = due
        /\ made' = 0
    BY <1>16, Zenon DEF CPUDone, CPUStores, Goes
  <2>2. Ahead = 0 /\ Ahead' = 0
    BY <2>1 DEF Ahead
  <2>3. left' - Ahead' >= -Overshoot
    BY <1>1, <1>3, <1>4, <1>5, <2>1, <2>2
  <2>4. QED
    BY <1>1, <1>3, <2>1, <2>3 DEF Place
<1>17. CASE HaltLoop
  <2>1. /\ pc = "halt" /\ todo = 0 /\ left' = left /\ due' = due /\ made' = made
        /\ \/ pc' \in {"wake", "haltStep"} /\ todo' = 0 /\ (pc' = "haltStep" => left > 0)
           \/ pc' = "haltDMA" /\ todo' \in Transfer /\ left > 0
    BY <1>17, Zenon DEF HaltLoop, Goes
  <2>2. Ahead = 0
    BY <2>1 DEF Ahead
  <2>3. left > 0 => due' - left' < G + Overshoot
    BY <1>1, <1>3, <2>1
  <2>4. CASE pc' = "haltDMA" /\ todo' \in Transfer /\ left > 0
    <3>1. todo' \in Nat /\ todo' <= T /\ todo' > 0
      BY <1>2, <2>4
    <3>2. Ahead' = todo'
      BY <3>1 DEF Ahead
    <3>3. left' - Ahead' > -T
      <4>1. \A t \in Nat : t <= T => left - t > -T
        BY <1>1, <1>3, <2>4
      <4>2. QED
        BY <2>1, <3>1, <3>2, <4>1, Zenon
    <3>4. QED
      BY <1>1, <1>3, <1>4, <2>1, <2>3, <2>4, <3>1, <3>3 DEF Place
  <2>5. CASE pc' \in {"wake", "haltStep"} /\ todo' = 0 /\ (pc' = "haltStep" => left > 0)
    BY <1>1, <1>3, <1>4, <2>1, <2>2, <2>3, <2>5 DEF Ahead, Place
  <2>6. QED
    BY <2>1, <2>4, <2>5
<1>18. CASE HaltStep
  <2>1. /\ pc = "haltStep" /\ todo = 0 /\ left' = left /\ due' = due /\ made' = made
        /\ \/ pc' = "wake" /\ todo' = 0
           \/ pc' = "halt" /\ todo' = IF due > left THEN left ELSE due
    BY <1>18, Zenon DEF HaltStep, Goes
  <2>2. Ahead = 0 /\ left >= -T /\ (due <= G \/ due - left < G + Overshoot)
    BY <1>3, <1>4, <2>1 DEF Ahead
  <2>3. CASE pc' = "wake" /\ todo' = 0
    BY <1>1, <1>3, <1>4, <2>1, <2>2, <2>3 DEF Ahead, Place
  <2>4. CASE pc' = "halt" /\ todo' = left /\ due > left
    BY <1>1, <1>3, <1>4, <2>1, <2>2, <2>4 DEF Ahead, Place
  <2>5. CASE pc' = "halt" /\ todo' = due /\ due <= left
    BY <1>1, <1>3, <1>4, <2>1, <2>2, <2>5 DEF Ahead, Place
  <2>6. QED
    BY <1>3, <2>1, <2>3, <2>4, <2>5
<1>19. CASE Wake
  <2>1. /\ pc = "wake" /\ pc' = "loop" /\ todo = 0 /\ left' = left /\ due' = due /\ made' = made
        /\ todo' \in {0, 1}
    BY <1>19, Zenon DEF Wake, Goes
  <2>2. left >= -T
    BY <1>1, <1>3, <1>4, <2>1 DEF Ahead
  <2>3. todo' >= 0 /\ todo' <= 1 /\ todo' \in Int
    BY <2>1
  <2>4. Ahead' = todo'
    BY <2>3 DEF Ahead
  <2>5. left' - Ahead' >= -Overshoot
    <3>1. \A t \in Int : t <= 1 => left - t >= -Overshoot
      BY <1>1, <1>3, <2>2
    <3>2. QED
      BY <2>1, <2>3, <2>4, <3>1, Zenon
  <2>6. todo' <= M + Overshoot
    BY <1>1, <2>3
  <2>7. QED
    BY <1>1, <1>3, <1>4, <2>1, <2>3, <2>5, <2>6 DEF Place
<1>20. CASE UNCHANGED vars
  <2>1. left' = left /\ due' = due /\ todo' = todo /\ made' = made /\ pc' = pc
    BY <1>20 DEF vars
  <2>2. Ahead' = Ahead /\ Spent' = Spent
    BY <1>5, <2>1 DEF Ahead
  <2>3. QED
    BY <1>3, <1>4, <2>1, <2>2
<1>21. QED
  BY <1>7, <1>8, <1>9, <1>10, <1>11, <1>12, <1>13, <1>14, <1>15, <1>16, <1>17, <1>18, <1>19, <1>20
  DEF Next, Runs

\* However long transfers and accesses take, a call of Run (core.go:327) outlasts its
\* budget by less than the accesses of one instruction with a transfer and its last
\* cycle before each of them (bus.go:979), and the next event is never further away
\* than a gap and that overrun.
THEOREM RunKeepsToItsBudget == Spec => []TypeOK
BY BudgetInit, BudgetStep, PTL DEF Spec

-----------------------------------------------------------------------------
(***************************************************************************)
(* The queue.                                                              *)
(***************************************************************************)
\* Agendas whose handles are unique and lie below a counter.
Distinct(q, n) ==
  /\ \A e, f \in q : e.id = f.id => e = f
  /\ \A e \in q : e.id < n

\* What LoadState relies on: a save state holds what an idle scheduler held.
SavedIdle ==
  savedQueue # NoSave => /\ Distinct(savedQueue.pending, savedQueue.nextID)
                    /\ \A e \in savedQueue.pending : e.due > 0

\* The inductive invariant.
QueueInv == Queue!TypeOK /\ Queue!IdsUnique /\ Queue!IdleMeansAhead /\ SavedIdle
-----------------------------------------------------------------------------
\* Time that passes over no event keeps the events what they are.
LEMMA ElapsedType ==
  ASSUME NEW q \in SUBSET Queue!Event, NEW n \in Int, \A e \in q : n <= e.due
  PROVE  Queue!Elapsed(q, n) \subseteq Queue!Event
<1>1. ASSUME NEW e \in q
      PROVE  [e EXCEPT !.due = @ - n] \in Queue!Event
  <2>1. e \in Queue!Event /\ e.due \in Nat /\ e.due - n \in Nat
    BY DEF Queue!Event
  <2>2. QED
    BY <2>1 DEF Queue!Event
<1>2. QED
  BY <1>1 DEF Queue!Elapsed

\* Time that passes changes no handle.
LEMMA ElapsedDistinct ==
  ASSUME NEW q \in SUBSET Queue!Event, NEW n \in Int, NEW m \in Nat, Distinct(q, m)
  PROVE  Distinct(Queue!Elapsed(q, n), m)
<1>1. ASSUME NEW g \in Queue!Elapsed(q, n)
      PROVE  \E e \in q : g = [e EXCEPT !.due = @ - n] /\ g.id = e.id
  BY DEF Queue!Elapsed, Queue!Event
<1>2. QED
  BY <1>1 DEF Distinct

\* Time that passes brings every event that much closer.
LEMMA ElapsedAhead ==
  ASSUME NEW q \in SUBSET Queue!Event, NEW n \in Int, \A e \in q : n < e.due
  PROVE  \A g \in Queue!Elapsed(q, n) : g.due > 0
<1>1. ASSUME NEW g \in Queue!Elapsed(q, n)
      PROVE  \E e \in q : g.due = e.due - n /\ e.due \in Nat
  BY DEF Queue!Elapsed, Queue!Event
<1>2. QED
  BY <1>1

\* The event that fires is due no later than any other: the priority in the
\* two low bits of a key never outweighs a cycle.
LEMMA FrontierIsFirst ==
  ASSUME NEW q \in SUBSET Queue!Event, NEW e \in Queue!Frontier(q)
  PROVE  \A f \in q : e.due <= f.due
<1>1. TAKE f \in q
<1>2. e \in Queue!Event /\ Queue!Key(e) <= Queue!Key(f)
  BY DEF Queue!Frontier
<1>3. /\ e.due \in Nat /\ f.due \in Nat
      /\ e.pri \in 0 .. 3 /\ f.pri \in 0 .. 3
  BY <1>2 DEF Queue!Event, Queue!Priority
<1>4. 4 * e.due + e.pri <= 4 * f.due + f.pri
  BY <1>2 DEF Queue!Key
<1>5. QED
  BY <1>3, <1>4
-----------------------------------------------------------------------------
\* The queue is as it should be at first,
LEMMA QueueInitInv ==
  ASSUME Queue!QueueConstants
  PROVE  Queue!Init => QueueInv
<1> SUFFICES ASSUME Queue!Init PROVE QueueInv
  OBVIOUS
<1>1. Queue!TypeOK
  <2>1. advancing \in BOOLEAN
    BY Zenon DEF Queue!Init
  <2>2. QED
    BY <2>1 DEF Queue!Init, Queue!TypeOK
<1>2. Queue!IdsUnique /\ Queue!IdleMeansAhead /\ SavedIdle
  BY DEF Queue!Init, Queue!IdsUnique, Queue!IdleMeansAhead, SavedIdle
<1>3. QED
  BY <1>1, <1>2 DEF QueueInv

\* and after every operation on it.
LEMMA QueueNextInv ==
  ASSUME Queue!QueueConstants
  PROVE  QueueInv /\ [Queue!Next]_(Queue!vars) => QueueInv'
<1> SUFFICES ASSUME QueueInv, [Queue!Next]_(Queue!vars) PROVE QueueInv'
  OBVIOUS
<1> USE DEF QueueInv
<1>0. /\ pending \in SUBSET Queue!Event
      /\ nextID \in Nat
      /\ budget \in Int
      /\ Distinct(pending, nextID)
      /\ savedQueue # NoSave => savedQueue \in [pending : SUBSET Queue!Event, nextID : Nat]
  BY DEF Queue!TypeOK, Queue!IdsUnique, Distinct
<1>1. ASSUME NEW d \in Delay, NEW p \in Queue!Priority, NEW c \in Class \cup {Closure},
             Queue!Add(d, p, c)
      PROVE  QueueInv'
  <2> DEFINE new == [id |-> nextID, due |-> d, pri |-> p, class |-> c]
  <2>1. d \in Nat /\ d > 0
    BY DEF Queue!QueueConstants
  <2>2. new \in Queue!Event /\ new.id = nextID /\ new.due > 0
    BY <1>0, <2>1 DEF Queue!Event
  <2>3. pending' = pending \cup {new} /\ nextID' = nextID + 1
    BY <1>1 DEF Queue!Add
  <2>4. Queue!TypeOK'
    BY <1>0, <1>1, <2>2, <2>3 DEF Queue!TypeOK, Queue!Add
  <2>5. \A e \in pending : e.id \in Nat /\ e.id < nextID
    BY <1>0 DEF Distinct, Queue!Event
  <2>6. Queue!IdsUnique'
    BY <1>0, <2>2, <2>3, <2>5 DEF Queue!IdsUnique, Distinct
  <2>7. Queue!IdleMeansAhead' /\ SavedIdle'
    BY <1>1, <2>2, <2>3 DEF Queue!Add, Queue!IdleMeansAhead, SavedIdle
  <2>8. QED
    BY <2>4, <2>6, <2>7
<1>2. ASSUME NEW id \in 2 .. nextID - 1, Queue!Cancel(id)
      PROVE  QueueInv'
  BY <1>0, <1>2 DEF Queue!Cancel, Queue!TypeOK, Queue!IdsUnique, Queue!IdleMeansAhead, SavedIdle
<1>3. ASSUME NEW n \in Cycles, Queue!Advance(n)
      PROVE  QueueInv'
  <2>1. n \in Int
    BY DEF Queue!QueueConstants
  <2>2. QED
    BY <1>3, <2>1 DEF Queue!Advance, Queue!TypeOK, Queue!IdsUnique, Queue!IdleMeansAhead, SavedIdle
<1>4. ASSUME NEW e \in pending, Queue!Fire(e)
      PROVE  QueueInv'
  <2> DEFINE rest == pending \ {e}
  <2>1. /\ pending' = Queue!Elapsed(rest, e.due)
        /\ budget' = budget - e.due
        /\ e \in Queue!Frontier(pending)
    BY <1>4 DEF Queue!Fire
  <2>2. e.due \in Nat /\ rest \in SUBSET Queue!Event
    BY <1>0 DEF Queue!Event
  <2>3. \A f \in rest : e.due <= f.due
    BY <1>0, <2>1, FrontierIsFirst
  <2>4. pending' \subseteq Queue!Event
    BY <2>1, <2>2, <2>3, ElapsedType
  <2>5. Queue!TypeOK'
    <3>1. UNCHANGED <<nextID, advancing, savedQueue>>
      BY <1>4, Zenon DEF Queue!Fire
    <3>2. budget' \in Int
      BY <1>0, <2>1, <2>2
    <3>3. QED
      BY <2>4, <3>1, <3>2, Zenon DEF Queue!TypeOK
  <2>6. Distinct(rest, nextID)
    BY <1>0 DEF Distinct
  <2>7. Distinct(pending', nextID)
    BY <1>0, <2>1, <2>2, <2>6, ElapsedDistinct
  <2>8. Queue!IdsUnique'
    BY <1>4, <2>7 DEF Queue!Fire, Queue!IdsUnique, Distinct
  <2>9. Queue!IdleMeansAhead' /\ SavedIdle'
    BY <1>4 DEF Queue!Fire, Queue!IdleMeansAhead, SavedIdle
  <2>10. QED
    BY <2>5, <2>8, <2>9
<1>5. CASE Queue!Settle
  <2>1. \A e \in pending : e.due \in Nat /\ budget < e.due
    BY <1>0, <1>5 DEF Queue!Settle, Queue!Event
  <2>2. pending' = Queue!Elapsed(pending, budget)
    BY <1>5 DEF Queue!Settle
  <2>3. pending' \subseteq Queue!Event
    BY <1>0, <2>1, <2>2, ElapsedType
  <2>4. Distinct(pending', nextID)
    BY <1>0, <2>2, ElapsedDistinct
  <2>5. \A g \in pending' : g.due > 0
    BY <1>0, <2>1, <2>2, ElapsedAhead
  <2>6. Queue!TypeOK'
    <3>1. advancing' \in BOOLEAN
      BY <1>5, Zenon DEF Queue!Settle
    <3>2. QED
      BY <1>5, <2>3, <3>1 DEF Queue!Settle, Queue!TypeOK
  <2>7. Queue!IdsUnique' /\ Queue!IdleMeansAhead'
    BY <1>5, <2>4, <2>5 DEF Queue!Settle, Queue!IdsUnique, Distinct, Queue!IdleMeansAhead
  <2>8. SavedIdle'
    BY <1>5 DEF Queue!Settle, SavedIdle, Distinct
  <2>9. QED
    BY <2>6, <2>7, <2>8
<1>6. CASE Queue!CopyState
  <2> DEFINE kept == {e \in pending : e.class # Closure}
  <2>1. savedQueue' = [pending |-> kept, nextID |-> nextID] /\ ~advancing
    BY <1>6 DEF Queue!CopyState
  <2>2. Queue!TypeOK' /\ Queue!IdsUnique' /\ Queue!IdleMeansAhead'
    BY <1>0, <1>6, <2>1 DEF Queue!CopyState, Queue!TypeOK, Queue!IdsUnique, Queue!IdleMeansAhead
  <2>3. Distinct(kept, nextID) /\ \A e \in kept : e.due > 0
    BY <1>0, <2>1 DEF Distinct, Queue!IdleMeansAhead
  <2>4. SavedIdle'
    BY <2>1, <2>3 DEF SavedIdle, Distinct
  <2>5. QED
    BY <2>2, <2>4
<1>7. CASE Queue!LoadState
  BY <1>0, <1>7
  DEF Queue!LoadState, Queue!TypeOK, Queue!IdsUnique, Distinct, Queue!IdleMeansAhead, SavedIdle
<1>8. CASE UNCHANGED Queue!vars
  BY <1>8 DEF Queue!vars, Queue!TypeOK, Queue!IdsUnique, Queue!IdleMeansAhead, SavedIdle, Distinct
<1>9. QED
  BY <1>1, <1>2, <1>3, <1>4, <1>5, <1>6, <1>7, <1>8 DEF Queue!Next

\* Every event the promise speaks of is an event, at every moment: none is ever
\* overdue, whatever is added or cancelled while the clock is being advanced.
THEOREM QueueTypeCorrect ==
  ASSUME Queue!QueueConstants
  PROVE  Queue!Spec => []Queue!TypeOK
<1>1. QueueInv => Queue!TypeOK
  BY DEF QueueInv
<1>2. QED
  BY <1>1, QueueInitInv, QueueNextInv, PTL DEF Queue!Spec

\* A handle names at most one event, also after save states were loaded.
THEOREM HandlesNameOneEvent ==
  ASSUME Queue!QueueConstants
  PROVE  Queue!Spec => []Queue!IdsUnique
<1>1. QueueInv => Queue!IdsUnique
  BY DEF QueueInv
<1>2. QED
  BY <1>1, QueueInitInv, QueueNextInv, PTL DEF Queue!Spec

\* An idle scheduler has nothing left to do at the current cycle.
THEOREM NothingLeftBehind ==
  ASSUME Queue!QueueConstants
  PROVE  Queue!Spec => []Queue!IdleMeansAhead
<1>1. QueueInv => Queue!IdleMeansAhead
  BY DEF QueueInv
<1>2. QED
  BY <1>1, QueueInitInv, QueueNextInv, PTL DEF Queue!Spec
-----------------------------------------------------------------------------
(***************************************************************************)
(* The interrupt controller.                                               *)
(***************************************************************************)
\* The line is what the registers that are committed ask for.
LineAsCommitted == irq.irqLine = (irq.regIME /\ Irqs!Requested(irq))

\* The inductive invariant.
IrqInv == Irqs!TypeOK /\ LineAsCommitted /\ Irqs!CommitUnderWay
-----------------------------------------------------------------------------
\* An event that is scheduled is in the queue, and the queue keeps its type.
LEMMA ScheduledType ==
  ASSUME NEW q \in SUBSET Irqs!QueuedEvent, NEW es, Irqs!HasRoom(q, es),
         \A e \in es : /\ e.due \in Nat /\ e.pri \in Irqs!Priority
                       /\ e.kind \in Irqs!Kind /\ e.on \in BOOLEAN
  PROVE  /\ Irqs!Scheduled(q, es) \in SUBSET Irqs!QueuedEvent
         /\ q \subseteq Irqs!Scheduled(q, es)
<1>1. ASSUME NEW e \in es
      PROVE  Irqs!Nth(e, CHOOSE c \in Copy : c \in Irqs!FreeCopies(q, e)) \in Irqs!QueuedEvent
  <2>1. \E c \in Copy : c \in Irqs!FreeCopies(q, e)
    BY DEF Irqs!HasRoom, Irqs!FreeCopies
  <2>2. (CHOOSE c \in Copy : c \in Irqs!FreeCopies(q, e)) \in Copy
    BY <2>1
  <2>3. QED
    BY <2>2 DEF Irqs!Nth, Irqs!QueuedEvent
<1>2. QED
  BY <1>1 DEF Irqs!Scheduled

\* A commit is one cycle ahead when it is scheduled.
LEMMA CommitScheduled ==
  ASSUME NEW q \in SUBSET Irqs!QueuedEvent, NEW e \in {Irqs!WriteCommit, Irqs!RaiseCommit}
  PROVE  \E f \in Irqs!Scheduled(q, {e}) : f.kind = "WriteIO" /\ f.due = 1
<1> DEFINE c == CHOOSE c \in Copy : c \in Irqs!FreeCopies(q, e)
<1>1. Irqs!Nth(e, c) \in Irqs!Scheduled(q, {e})
  BY DEF Irqs!Scheduled
<1>2. e.kind = "WriteIO" /\ e.due = 1
  BY DEF Irqs!WriteCommit, Irqs!RaiseCommit
<1>3. Irqs!Nth(e, c).kind = "WriteIO" /\ Irqs!Nth(e, c).due = 1
  BY <1>2 DEF Irqs!Nth
<1>4. QED
  BY <1>1, <1>3

\* Between an event's due cycle and the next, time passes over nothing.
LEMMA IrqElapsedType ==
  ASSUME NEW q \in SUBSET Irqs!QueuedEvent, Irqs!DueNow(q) = {}
  PROVE  Irqs!Elapsed(q, 1) \in SUBSET Irqs!QueuedEvent
<1>1. ASSUME NEW e \in q
      PROVE  [e EXCEPT !.due = @ - 1] \in Irqs!QueuedEvent
  <2>1. e \in Irqs!QueuedEvent /\ e.due \in Nat /\ e.due # 0
    BY DEF Irqs!QueuedEvent, Irqs!DueNow
  <2>2. e.due - 1 \in Nat
    BY <2>1
  <2>3. QED
    BY <2>1, <2>2 DEF Irqs!QueuedEvent
<1>2. QED
  BY <1>1 DEF Irqs!Elapsed

\* The commit leaves the line as the registers ask for, and nothing pending.
LEMMA CommittedIsCommitted ==
  ASSUME NEW r \in Irqs!Controller
  PROVE  /\ Irqs!Committed(r) \in Irqs!Controller
         /\ Irqs!Committed(r).irqLine = (Irqs!Committed(r).regIME /\ Irqs!Requested(Irqs!Committed(r)))
         /\ Irqs!Committed(r).regIME = Irqs!Committed(r).pendingIME
         /\ Irqs!Committed(r).regIE = Irqs!Committed(r).pendingIE
         /\ Irqs!Committed(r).regIF = Irqs!Committed(r).pendingIF
         /\ Irqs!Committed(r).irqAvailable = r.irqAvailable
<1> DEFINE c == [r EXCEPT !.regIME = r.pendingIME, !.regIE = r.pendingIE,
                          !.regIF = r.pendingIF]
           line == c.regIME /\ Irqs!Requested(c)
<1>1. c \in Irqs!Controller
  BY DEF Irqs!Controller
<1>2. line \in BOOLEAN
  OBVIOUS
<1>3. Irqs!Committed(r) = [c EXCEPT !.irqLine = line]
  BY DEF Irqs!Committed
<1> HIDE DEF line
<1>4. /\ Irqs!Committed(r) \in Irqs!Controller
      /\ Irqs!Committed(r).irqLine = line
      /\ Irqs!Committed(r).regIME = r.pendingIME /\ Irqs!Committed(r).pendingIME = r.pendingIME
      /\ Irqs!Committed(r).regIE = r.pendingIE /\ Irqs!Committed(r).pendingIE = r.pendingIE
      /\ Irqs!Committed(r).regIF = r.pendingIF /\ Irqs!Committed(r).pendingIF = r.pendingIF
      /\ Irqs!Committed(r).irqAvailable = r.irqAvailable
      /\ c.regIME = r.pendingIME /\ c.regIE = r.pendingIE /\ c.regIF = r.pendingIF
  BY <1>1, <1>2, <1>3 DEF Irqs!Controller
<1>5. line = (Irqs!Committed(r).regIME /\ Irqs!Requested(Irqs!Committed(r)))
  BY <1>4 DEF line, Irqs!Requested
<1>6. QED
  BY <1>4, <1>5

\* The updates a commit schedules are events.
LEMMA UpdatesAreEvents ==
  ASSUME NEW r \in Irqs!Controller, NEW c \in Irqs!Controller
  PROVE  \A e \in Irqs!AvailabilityUpdates(r, c) \cup Irqs!LineUpdates(r, c) :
           /\ e.due \in Nat /\ e.pri \in Irqs!Priority
           /\ e.kind \in Irqs!Kind /\ e.on \in BOOLEAN
<1>1. c.irqLine \in BOOLEAN /\ Irqs!Requested(c) \in BOOLEAN
  BY DEF Irqs!Controller, Irqs!Requested
<1>2. \A e \in Irqs!AvailabilityUpdates(r, c) :
        /\ e.due \in Nat /\ e.pri \in Irqs!Priority
        /\ e.kind \in Irqs!Kind /\ e.on \in BOOLEAN
  BY <1>1 DEF Irqs!AvailabilityUpdates, Irqs!Priority, Irqs!Kind
<1>3. \A e \in Irqs!LineUpdates(r, c) :
        /\ e.due \in Nat /\ e.pri \in Irqs!Priority
        /\ e.kind \in Irqs!Kind /\ e.on \in BOOLEAN
  BY <1>1 DEF Irqs!LineUpdates, Irqs!Priority, Irqs!Kind
<1>4. QED
  BY <1>2, <1>3
-----------------------------------------------------------------------------
LEMMA IrqStarts == Irqs!Init => IrqInv
<1> SUFFICES ASSUME Irqs!Init PROVE IrqInv
  OBVIOUS
<1>1. irq = Irqs!Reset /\ Irqs!Reset \in Irqs!Controller
  BY DEF Irqs!Init, Irqs!Reset, Irqs!Controller
<1>2. Irqs!TypeOK
  <2>1. cpuLine \in BOOLEAN /\ raced \in BOOLEAN
    BY Zenon DEF Irqs!Init
  <2>2. QED
    BY <1>1, <2>1 DEF Irqs!Init, Irqs!TypeOK
<1>3. LineAsCommitted /\ Irqs!CommitUnderWay
  <2>1. /\ irq.irqLine = FALSE /\ irq.regIME = FALSE /\ irq.pendingIME = FALSE
        /\ irq.regIE = irq.pendingIE /\ irq.regIF = irq.pendingIF
    BY <1>1 DEF Irqs!Reset
  <2>2. irq.irqLine = (irq.regIME /\ Irqs!Requested(irq))
    BY <2>1
  <2>3. QED
    BY <2>1, <2>2 DEF LineAsCommitted, Irqs!CommitUnderWay
<1>4. QED
  BY <1>2, <1>3 DEF IrqInv

\* A change of the pending registers comes with its commit.
LEMMA ChangesKeep ==
  ASSUME IrqInv, NEW r \in Irqs!Controller, NEW commit \in {Irqs!WriteCommit, Irqs!RaiseCommit},
         r.irqLine = irq.irqLine, r.regIME = irq.regIME,
         r.regIE = irq.regIE, r.regIF = irq.regIF,
         Irqs!Changes(r, commit)
  PROVE  IrqInv'
<1>1. irq' = r /\ irqQueue' = Irqs!Scheduled(irqQueue, {commit}) /\ Irqs!HasRoom(irqQueue, {commit})
  BY DEF Irqs!Changes
<1>2. irqQueue \in SUBSET Irqs!QueuedEvent
  BY DEF IrqInv, Irqs!TypeOK
<1>3. \A e \in {commit} : /\ e.due \in Nat /\ e.pri \in Irqs!Priority
                          /\ e.kind \in Irqs!Kind /\ e.on \in BOOLEAN
  <2>1. commit.due = 1 /\ commit.pri \in {0, 1} /\ commit.kind = "WriteIO"
    BY DEF Irqs!WriteCommit, Irqs!RaiseCommit
  <2>2. commit.on \in BOOLEAN
    <3>1. Irqs!WriteCommit.on = FALSE /\ Irqs!RaiseCommit.on = FALSE
      BY DEF Irqs!WriteCommit, Irqs!RaiseCommit
    <3>2. commit.on = Irqs!WriteCommit.on \/ commit.on = Irqs!RaiseCommit.on
      OBVIOUS
    <3>3. QED
      BY <3>1, <3>2, Zenon
  <2>3. QED
    BY <2>1, <2>2 DEF Irqs!Priority, Irqs!Kind
<1>4. irqQueue' \in SUBSET Irqs!QueuedEvent
  BY <1>1, <1>2, <1>3, ScheduledType
<1>5. \E f \in irqQueue' : f.kind = "WriteIO" /\ f.due = 1
  BY <1>1, <1>2, CommitScheduled
<1>6. raced' \in BOOLEAN
  <2>1. raced \in BOOLEAN /\ Irqs!Races(irqQueue') \in BOOLEAN
    BY DEF IrqInv, Irqs!TypeOK, Irqs!Races
  <2>2. QED
    BY <2>1 DEF Irqs!Changes
<1>7. Irqs!TypeOK'
  BY <1>1, <1>4, <1>6 DEF Irqs!Changes, IrqInv, Irqs!TypeOK
<1>8. LineAsCommitted'
  BY <1>1 DEF IrqInv, LineAsCommitted, Irqs!Requested
<1>9. Irqs!CommitUnderWay'
  BY <1>5 DEF Irqs!CommitUnderWay
<1>10. QED
  BY <1>7, <1>8, <1>9 DEF IrqInv

LEMMA IrqGoesOn == IrqInv /\ [Irqs!Next]_(Irqs!vars) => IrqInv'
<1> SUFFICES ASSUME IrqInv, [Irqs!Next]_(Irqs!vars) PROVE IrqInv'
  OBVIOUS
<1>0. /\ irq \in Irqs!Controller
      /\ irqQueue \in SUBSET Irqs!QueuedEvent
      /\ Irqs!TypeOK /\ LineAsCommitted /\ Irqs!CommitUnderWay
  BY DEF IrqInv, Irqs!TypeOK
<1>1. ASSUME NEW v \in SUBSET Source, Irqs!CPUWritesIE(v)
      PROVE  IrqInv'
  <2>1. /\ Irqs!WriteIE(irq, v) \in Irqs!Controller
        /\ Irqs!WriteIE(irq, v).irqLine = irq.irqLine
        /\ Irqs!WriteIE(irq, v).regIME = irq.regIME
        /\ Irqs!WriteIE(irq, v).regIE = irq.regIE
        /\ Irqs!WriteIE(irq, v).regIF = irq.regIF
    BY <1>0 DEF Irqs!WriteIE, Irqs!Controller
  <2>2. QED
    BY <1>1, <2>1, ChangesKeep DEF Irqs!CPUWritesIE, Irqs!CPUWrites
<1>2. ASSUME NEW v \in SUBSET Source, Irqs!CPUWritesIF(v)
      PROVE  IrqInv'
  <2>1. /\ Irqs!WriteIF(irq, v) \in Irqs!Controller
        /\ Irqs!WriteIF(irq, v).irqLine = irq.irqLine
        /\ Irqs!WriteIF(irq, v).regIME = irq.regIME
        /\ Irqs!WriteIF(irq, v).regIE = irq.regIE
        /\ Irqs!WriteIF(irq, v).regIF = irq.regIF
    BY <1>0 DEF Irqs!WriteIF, Irqs!Controller
  <2>2. QED
    BY <1>2, <2>1, ChangesKeep DEF Irqs!CPUWritesIF, Irqs!CPUWrites
<1>3. ASSUME NEW v \in BOOLEAN, Irqs!CPUWritesIME(v)
      PROVE  IrqInv'
  <2>1. /\ Irqs!WriteIME(irq, v) \in Irqs!Controller
        /\ Irqs!WriteIME(irq, v).irqLine = irq.irqLine
        /\ Irqs!WriteIME(irq, v).regIME = irq.regIME
        /\ Irqs!WriteIME(irq, v).regIE = irq.regIE
        /\ Irqs!WriteIME(irq, v).regIF = irq.regIF
    BY <1>0 DEF Irqs!WriteIME, Irqs!Controller
  <2>2. QED
    BY <1>3, <2>1, ChangesKeep DEF Irqs!CPUWritesIME, Irqs!CPUWrites
<1>4. CASE Irqs!CPUWritesIMEByte
  BY <1>0, <1>4, ChangesKeep DEF Irqs!CPUWritesIMEByte, Irqs!CPUWrites
<1>5. ASSUME NEW s \in Source, Irqs!Raise(s)
      PROVE  IrqInv'
  <2>1. /\ Irqs!Raised(irq, s) \in Irqs!Controller
        /\ Irqs!Raised(irq, s).irqLine = irq.irqLine
        /\ Irqs!Raised(irq, s).regIME = irq.regIME
        /\ Irqs!Raised(irq, s).regIE = irq.regIE
        /\ Irqs!Raised(irq, s).regIF = irq.regIF
    BY <1>0 DEF Irqs!Raised, Irqs!Controller
  <2>2. QED
    BY <1>5, <2>1, ChangesKeep DEF Irqs!Raise
<1>6. CASE Irqs!Tick
  <2>1. irqQueue' = Irqs!Elapsed(irqQueue, 1) /\ Irqs!DueNow(irqQueue) = {} /\ irq' = irq
    BY <1>6 DEF Irqs!Tick
  <2>2. irqQueue' \in SUBSET Irqs!QueuedEvent
    BY <1>0, <2>1, IrqElapsedType
  <2>3. Irqs!TypeOK'
    BY <1>0, <1>6, <2>2 DEF Irqs!Tick, Irqs!TypeOK
  <2>4. ASSUME NEW e \in irqQueue, e.kind = "WriteIO", e.due <= 1
        PROVE  \E f \in irqQueue' : f.kind = "WriteIO" /\ f.due <= 1
    <3> DEFINE f == [e EXCEPT !.due = @ - 1]
    <3>1. e \in Irqs!QueuedEvent
      BY <1>0
    <3>2. f.kind = "WriteIO" /\ f.due <= 1
      BY <2>4, <3>1 DEF Irqs!QueuedEvent
    <3>3. f \in irqQueue'
      BY <2>1 DEF Irqs!Elapsed
    <3>4. QED
      BY <3>2, <3>3
  <2>5. Irqs!CommitUnderWay'
    BY <1>0, <2>1, <2>4 DEF Irqs!CommitUnderWay
  <2>6. QED
    BY <1>0, <2>1, <2>3, <2>5 DEF IrqInv, LineAsCommitted, Irqs!Requested
<1>7. ASSUME NEW e \in irqQueue, Irqs!OnWriteIO(e)
      PROVE  IrqInv'
  <2> DEFINE c == Irqs!Committed(irq)
             es == Irqs!AvailabilityUpdates(irq, c) \cup Irqs!LineUpdates(irq, c)
  <2>1. /\ irq' = c
        /\ Irqs!HasRoom(irqQueue \ {e}, es)
        /\ irqQueue' = Irqs!Scheduled(irqQueue \ {e}, es)
    BY <1>7 DEF Irqs!OnWriteIO
  <2>2. /\ c \in Irqs!Controller
        /\ c.irqLine = (c.regIME /\ Irqs!Requested(c))
        /\ c.regIME = c.pendingIME /\ c.regIE = c.pendingIE /\ c.regIF = c.pendingIF
    BY <1>0, CommittedIsCommitted
  <2>3. \A f \in es : /\ f.due \in Nat /\ f.pri \in Irqs!Priority
                      /\ f.kind \in Irqs!Kind /\ f.on \in BOOLEAN
    BY <1>0, <2>2, UpdatesAreEvents
  <2> HIDE DEF c, es
  <2>4. irqQueue \ {e} \in SUBSET Irqs!QueuedEvent
    BY <1>0
  <2>5. irqQueue' \in SUBSET Irqs!QueuedEvent
    BY <2>1, <2>3, <2>4, ScheduledType
  <2>6. raced' \in BOOLEAN
    <3>1. raced \in BOOLEAN /\ Irqs!Races(irqQueue') \in BOOLEAN
      BY <1>0 DEF Irqs!TypeOK, Irqs!Races
    <3>2. QED
      BY <1>7, <3>1 DEF Irqs!OnWriteIO
  <2>7. Irqs!TypeOK'
    BY <1>0, <1>7, <2>1, <2>2, <2>5, <2>6 DEF Irqs!OnWriteIO, Irqs!TypeOK
  <2>8. LineAsCommitted' /\ Irqs!CommitUnderWay'
    BY <2>1, <2>2 DEF LineAsCommitted, Irqs!CommitUnderWay, Irqs!Requested
  <2>9. QED
    BY <2>7, <2>8 DEF IrqInv
<1>8. ASSUME NEW e \in irqQueue, Irqs!OnUpdateIEAndIF(e)
      PROVE  IrqInv'
  <2>1. /\ e.kind # "WriteIO" /\ irqQueue' = irqQueue \ {e}
        /\ irq' = [irq EXCEPT !.irqAvailable = e.on]
        /\ e.on \in BOOLEAN
    BY <1>0, <1>8 DEF Irqs!OnUpdateIEAndIF, Irqs!QueuedEvent
  <2>2. irq' \in Irqs!Controller
    BY <1>0, <2>1 DEF Irqs!Controller
  <2>3. Irqs!TypeOK'
    BY <1>0, <1>8, <2>1, <2>2 DEF Irqs!OnUpdateIEAndIF, Irqs!TypeOK
  <2>4. LineAsCommitted'
    BY <1>0, <2>1 DEF LineAsCommitted, Irqs!Requested, Irqs!Controller
  <2>5. Irqs!CommitUnderWay'
    BY <1>0, <2>1 DEF Irqs!CommitUnderWay, Irqs!Controller
  <2>6. QED
    BY <2>3, <2>4, <2>5 DEF IrqInv
<1>9. ASSUME NEW e \in irqQueue, Irqs!OnUpdateIRQLine(e)
      PROVE  IrqInv'
  <2>1. /\ e.kind # "WriteIO" /\ irqQueue' = irqQueue \ {e} /\ irq' = irq
        /\ cpuLine' = e.on /\ e.on \in BOOLEAN
    BY <1>0, <1>9 DEF Irqs!OnUpdateIRQLine, Irqs!QueuedEvent
  <2>2. Irqs!TypeOK'
    BY <1>0, <1>9, <2>1 DEF Irqs!OnUpdateIRQLine, Irqs!TypeOK
  <2>3. Irqs!CommitUnderWay'
    BY <1>0, <2>1 DEF Irqs!CommitUnderWay
  <2>4. QED
    BY <1>0, <2>1, <2>2, <2>3 DEF IrqInv, LineAsCommitted, Irqs!Requested
<1>10. ASSUME NEW e \in irqQueue, Irqs!Fire(e)
       PROVE  IrqInv'
  BY <1>7, <1>8, <1>9, <1>10 DEF Irqs!Fire
<1>11. CASE Irqs!CPUHalts \/ Irqs!CPUWakes
  <2>1. /\ irq' = irq /\ irqQueue' = irqQueue /\ cpuLine' = cpuLine /\ raced' = raced
        /\ haltcnt' \in {"halting", "wake"}
    BY <1>11 DEF Irqs!CPUHalts, Irqs!CPUWakes
  <2>2. QED
    BY <1>0, <2>1 DEF IrqInv, Irqs!TypeOK, LineAsCommitted, Irqs!CommitUnderWay, Irqs!Requested
<1>12. CASE UNCHANGED Irqs!vars
  BY <1>0, <1>12 DEF Irqs!vars, IrqInv, Irqs!TypeOK, LineAsCommitted, Irqs!CommitUnderWay, Irqs!Requested
<1>13. QED
  BY <1>1, <1>2, <1>3, <1>4, <1>5, <1>6, <1>10, <1>11, <1>12 DEF Irqs!Next

LEMMA IrqInvAlways == Irqs!Spec => []IrqInv
<1>1. QED
  BY IrqStarts, IrqGoesOn, PTL DEF Irqs!Spec

\* The controller's registers and its queue keep their shape; in particular no
\* event of the controller is ever overdue.
THEOREM IrqTypeCorrect == Irqs!Spec => []Irqs!TypeOK
<1>1. IrqInv => Irqs!TypeOK
  BY DEF IrqInv
<1>2. QED
  BY <1>1, IrqInvAlways, PTL

\* No register write and no raised source is ever left uncommitted without a
\* commit at most one cycle away.
THEOREM NothingStaysPending == Irqs!Spec => []Irqs!CommitUnderWay
<1>1. IrqInv => Irqs!CommitUnderWay
  BY DEF IrqInv
<1>2. QED
  BY <1>1, IrqInvAlways, PTL

\* The controller survives a save state taken at any moment.
THEOREM IrqLoadRestores == Irqs!Spec => []Irqs!LoadRestores
<1>1. IrqInv => Irqs!LoadRestores
  <2> SUFFICES ASSUME IrqInv PROVE Irqs!LoadRestores
    OBVIOUS
  <2>1. irq \in Irqs!Controller /\ irq.irqLine = (irq.regIME /\ irq.regIE \cap irq.regIF # {})
    BY DEF IrqInv, Irqs!TypeOK, LineAsCommitted, Irqs!Requested
  <2> DEFINE Fields == DOMAIN Irqs!Reset
  <2>2. Fields = {"pendingIME", "pendingIE", "pendingIF", "regIME", "regIE", "regIF",
                  "irqLine", "irqAvailable"}
    BY DEF Irqs!Reset
  <2>3. DOMAIN irq = Fields /\ irq = [f \in Fields |-> irq[f]]
    BY <2>1, <2>2 DEF Irqs!Controller
  <2> HIDE DEF Fields
  <2> DEFINE s == Irqs!CopyState(irq)
  <2>4. s = [f \in Fields \ {"irqLine"} |-> irq[f]]
    BY <2>3 DEF Irqs!CopyState
  <2>5. Irqs!LoadState(s) = [f \in Fields |-> IF f = "irqLine"
                                              THEN s.regIME /\ s.regIE \cap s.regIF # {}
                                              ELSE s[f]]
    BY DEF Irqs!LoadState, Fields
  <2>6. s.regIME = irq.regIME /\ s.regIE = irq.regIE /\ s.regIF = irq.regIF
    BY <2>2, <2>4
  <2>7. \A f \in Fields : (IF f = "irqLine" THEN s.regIME /\ s.regIE \cap s.regIF # {}
                                            ELSE s[f]) = irq[f]
    BY <2>1, <2>4, <2>6
  <2> HIDE DEF s
  <2>8. Irqs!LoadState(s) = [f \in Fields |-> irq[f]]
    BY <2>5, <2>7
  <2>9. QED
    BY <2>3, <2>8 DEF Irqs!LoadRestores, s
<1>2. QED
  BY <1>1, IrqInvAlways, PTL
-----------------------------------------------------------------------------
\* The order of what is under way, as long as no conflicting events met.
Of(q, kind) == {e \in q : e.kind = kind}
FinalDue(S) == {e \in S : \A f \in S : f.due <= e.due}

\* When all updates of one kind have arrived, the value they set is `target`:
\* the last ones on their way say so, or there is none and it is so already.
Arrives(q, kind, value, target) ==
  IF Of(q, kind) = {} THEN value = target ELSE \A e \in FinalDue(Of(q, kind)) : e.on = target

\* Updates are at most as far ahead as the commit that scheduled them put them.
UpdatesAhead ==
  \A e \in irqQueue : /\ e.kind = "UpdateIRQLine" => e.due <= 2 /\ e.pri = 0
                      /\ e.kind = "UpdateIEAndIF" => e.due <= 1 /\ e.pri = 0

\* A second commit of a cycle, after one that scheduled an update of the
\* wake-up flag, finds nothing new.
SecondCommitIdle ==
  \A e, u \in irqQueue :
    e.kind = "WriteIO" /\ e.due = 0 /\ u.kind = "UpdateIEAndIF" /\ u.due = 1 =>
      irq.regIE = irq.pendingIE /\ irq.regIF = irq.pendingIF

InOrder ==
  /\ UpdatesAhead
  /\ ~raced =>
       /\ ~Irqs!Races(irqQueue)
       /\ SecondCommitIdle
       /\ Arrives(irqQueue, "UpdateIRQLine", cpuLine, irq.irqLine)
       /\ Arrives(irqQueue, "UpdateIEAndIF", irq.irqAvailable, Irqs!Requested(irq))

\* What is in a queue after scheduling.
LEMMA ScheduledEvents ==
  ASSUME NEW q, NEW es
  PROVE  /\ \A f \in Irqs!Scheduled(q, es) :
              f \in q \/ \E e \in es : /\ f.due = e.due /\ f.pri = e.pri
                                       /\ f.kind = e.kind /\ f.on = e.on
         /\ \A e \in es : \E f \in Irqs!Scheduled(q, es) :
              f.due = e.due /\ f.pri = e.pri /\ f.kind = e.kind /\ f.on = e.on
         /\ q \subseteq Irqs!Scheduled(q, es)
<1> DEFINE N(e) == Irqs!Nth(e, CHOOSE c \in Copy : c \in Irqs!FreeCopies(q, e))
<1>1. \A e \in es : /\ N(e).due = e.due /\ N(e).pri = e.pri
                    /\ N(e).kind = e.kind /\ N(e).on = e.on
  BY DEF Irqs!Nth
<1>2. Irqs!Scheduled(q, es) = q \cup {N(e) : e \in es}
  BY DEF Irqs!Scheduled
<1> HIDE DEF N
<1>3. QED
  BY <1>1, <1>2

\* The updates that arrive are those of their kind.
LEMMA ArrivesSame ==
  ASSUME NEW q, NEW r, NEW kind, NEW value, NEW target,
         \A e \in q \cup r : e.kind = kind => (e \in q <=> e \in r),
         Arrives(q, kind, value, target)
  PROVE  Arrives(r, kind, value, target)
<1>1. Of(q, kind) = Of(r, kind)
  BY DEF Of
<1>2. QED
  BY <1>1 DEF Arrives

\* One of the updates is made.
LEMMA ArrivesOne ==
  ASSUME NEW q \in SUBSET Irqs!QueuedEvent, NEW e \in q, e.due = 0,
         NEW value, NEW target, Arrives(q, e.kind, value, target)
  PROVE  Arrives(q \ {e}, e.kind, e.on, target)
<1> DEFINE S == Of(q, e.kind)
           T == Of(q \ {e}, e.kind)
<1>1. T = S \ {e} /\ e \in S
  BY DEF Of
<1>2. \A f \in FinalDue(S) : f.on = target
  BY <1>1 DEF Arrives
<1>3. CASE T = {}
  <2>1. e \in FinalDue(S)
    BY <1>1, <1>3 DEF FinalDue, Irqs!QueuedEvent, Of
  <2>2. QED
    BY <2>1, <1>2, <1>3 DEF Arrives
<1>4. ASSUME NEW f \in FinalDue(T)
      PROVE  f.on = target
  <2>1. f \in S /\ f.due \in Nat /\ \A g \in T : g.due <= f.due
    BY <1>1 DEF FinalDue, Of, Irqs!QueuedEvent
  <2>2. \A g \in S : g.due <= f.due
    <3>1. e.due <= f.due
      BY <2>1
    <3>2. \A g \in S : g = e \/ g \in T
      BY <1>1
    <3>3. QED
      BY <2>1, <3>1, <3>2
  <2>3. QED
    BY <2>1, <2>2, <1>2 DEF FinalDue
<1>5. QED
  BY <1>3, <1>4 DEF Arrives

\* A cycle passes.
LEMMA ArrivesLater ==
  ASSUME NEW q \in SUBSET Irqs!QueuedEvent, NEW kind, NEW value, NEW target,
         Arrives(q, kind, value, target)
  PROVE  Arrives(Irqs!Elapsed(q, 1), kind, value, target)
<1> DEFINE r == Irqs!Elapsed(q, 1)
           Later(e) == [e EXCEPT !.due = @ - 1]
<1>1. r = {Later(e) : e \in q}
  BY DEF Irqs!Elapsed
<1>2. \A e \in q : /\ Later(e).due = e.due - 1 /\ Later(e).kind = e.kind
                   /\ Later(e).on = e.on /\ e.due \in Nat
  BY DEF Irqs!QueuedEvent
<1> HIDE DEF r, Later
<1>3. Of(r, kind) = {} <=> Of(q, kind) = {}
  BY <1>1, <1>2 DEF Of
<1>4. ASSUME NEW f \in FinalDue(Of(r, kind)), Of(q, kind) # {}
      PROVE  f.on = target
  <2>1. PICK e \in q : f = Later(e)
    BY <1>1 DEF FinalDue, Of
  <2>2. e \in Of(q, kind)
    BY <2>1, <1>2 DEF FinalDue, Of
  <2>3. ASSUME NEW g \in Of(q, kind)
        PROVE  g.due <= e.due
    <3>1. g \in q /\ Later(g) \in Of(r, kind)
      BY <1>1, <1>2 DEF Of
    <3>2. Later(g).due <= f.due
      BY <3>1 DEF FinalDue
    <3>3. QED
      BY <3>1, <3>2, <2>1, <1>2
  <2>4. e \in FinalDue(Of(q, kind))
    BY <2>2, <2>3 DEF FinalDue
  <2>5. QED
    BY <2>1, <2>4, <1>2, <1>4 DEF Arrives
<1>5. QED
  BY <1>3, <1>4 DEF Arrives, r

\* An update is scheduled behind all others: what it says will be so.
LEMMA ArrivesLast ==
  ASSUME NEW q \in SUBSET Irqs!QueuedEvent, ~Irqs!Races(q), NEW n \in q, NEW value,
         \A f \in q : f.kind = n.kind => f.due <= n.due /\ f.pri = n.pri
  PROVE  Arrives(q, n.kind, value, n.on)
<1>1. n \in Of(q, n.kind)
  BY DEF Of
<1>2. ASSUME NEW f \in FinalDue(Of(q, n.kind))
      PROVE  f.on = n.on
  <2>1. f \in q /\ f.kind = n.kind /\ n.due <= f.due
    BY <1>1 DEF FinalDue, Of
  <2>2. f.due = n.due /\ f.pri = n.pri
    BY <2>1 DEF Irqs!QueuedEvent
  <2>3. Irqs!Key(f) = Irqs!Key(n)
    BY <2>2 DEF Irqs!Key
  <2>4. ~Irqs!Conflict(f, n)
    BY <2>1 DEF Irqs!Races
  <2>5. QED
    BY <2>1, <2>3, <2>4 DEF Irqs!Conflict
<1>3. QED
  BY <1>1, <1>2 DEF Arrives
-----------------------------------------------------------------------------
LEMMA OrderStarts == Irqs!Init => InOrder
<1> SUFFICES ASSUME Irqs!Init PROVE InOrder
  OBVIOUS
<1>1. /\ irqQueue = {} /\ cpuLine = FALSE
      /\ irq.irqLine = FALSE /\ irq.irqAvailable = FALSE /\ Irqs!Requested(irq) = FALSE
  BY DEF Irqs!Init, Irqs!Reset, Irqs!Requested
<1>2. UpdatesAhead /\ SecondCommitIdle /\ ~Irqs!Races(irqQueue)
  BY <1>1 DEF UpdatesAhead, SecondCommitIdle, Irqs!Races
<1>3. \A kind : Arrives(irqQueue, kind, FALSE, FALSE)
  BY <1>1 DEF Arrives, Of
<1>4. QED
  BY <1>1, <1>2, <1>3 DEF InOrder

\* A change of the pending registers: the CPU makes none while a commit is
\* due, and a source raised between two commits of a cycle has its own commit
\* meet the update that the first one scheduled.
LEMMA ChangesOrder ==
  ASSUME IrqInv, InOrder, NEW r \in Irqs!Controller,
         r.irqLine = irq.irqLine, r.irqAvailable = irq.irqAvailable,
         r.regIE = irq.regIE, r.regIF = irq.regIF,
         NEW commit, commit = Irqs!RaiseCommit \/ (commit = Irqs!WriteCommit /\ Irqs!DueNow(irqQueue) = {}),
         Irqs!Changes(r, commit)
  PROVE  InOrder'
<1>1. /\ irq' = r /\ irqQueue' = Irqs!Scheduled(irqQueue, {commit}) /\ cpuLine' = cpuLine
      /\ raced' = (raced \/ Irqs!Races(irqQueue'))
  BY DEF Irqs!Changes
<1>2. commit.kind = "WriteIO" /\ commit.due = 1 /\ commit.pri \in {0, 1}
  BY DEF Irqs!RaiseCommit, Irqs!WriteCommit
<1>3. /\ \A f \in irqQueue' : f \in irqQueue \/ (f.kind = "WriteIO" /\ f.due = 1)
      /\ \E n \in irqQueue' : n.kind = "WriteIO" /\ n.due = 1 /\ n.pri = commit.pri
      /\ irqQueue \subseteq irqQueue'
  <2> DEFINE q == Irqs!Scheduled(irqQueue, {commit})
  <2>1. /\ \A f \in q :
             f \in irqQueue \/ \E e \in {commit} : /\ f.due = e.due /\ f.pri = e.pri
                                                   /\ f.kind = e.kind /\ f.on = e.on
        /\ \A e \in {commit} : \E f \in q :
             f.due = e.due /\ f.pri = e.pri /\ f.kind = e.kind /\ f.on = e.on
        /\ irqQueue \subseteq q
    BY ScheduledEvents
  <2> HIDE DEF q
  <2>2. irqQueue' = q
    BY <1>1 DEF q
  <2>3. \A f \in q : f \in irqQueue \/ (f.due = commit.due /\ f.kind = commit.kind)
    BY <2>1
  <2>4. \E f \in q : f.due = commit.due /\ f.pri = commit.pri /\ f.kind = commit.kind
    BY <2>1
  <2>5. QED
    BY <1>2, <2>1, <2>2, <2>3, <2>4
<1>4. UpdatesAhead'
  BY <1>3 DEF InOrder, UpdatesAhead
<1>5. ASSUME ~raced'
      PROVE  /\ ~Irqs!Races(irqQueue') /\ SecondCommitIdle'
             /\ Arrives(irqQueue', "UpdateIRQLine", cpuLine', irq'.irqLine)
             /\ Arrives(irqQueue', "UpdateIEAndIF", irq'.irqAvailable, Irqs!Requested(irq'))
  <2>1. ~raced /\ ~Irqs!Races(irqQueue')
    BY <1>1, <1>5
  <2>2. /\ Arrives(irqQueue, "UpdateIRQLine", cpuLine, irq.irqLine)
        /\ Arrives(irqQueue, "UpdateIEAndIF", irq.irqAvailable, Irqs!Requested(irq))
    BY <2>1 DEF InOrder
  <2>3. \A f \in irqQueue \cup irqQueue' : f.kind # "WriteIO" => (f \in irqQueue <=> f \in irqQueue')
    BY <1>3
  <2>4. Irqs!Requested(irq') = Irqs!Requested(irq)
    BY <1>1 DEF Irqs!Requested
  <2>5. Arrives(irqQueue', "UpdateIRQLine", cpuLine', irq'.irqLine)
    <3>1. Arrives(irqQueue', "UpdateIRQLine", cpuLine, irq.irqLine)
      BY <2>2, <2>3, ArrivesSame
    <3>2. QED
      BY <3>1, <1>1
  <2>6. Arrives(irqQueue', "UpdateIEAndIF", irq'.irqAvailable, Irqs!Requested(irq'))
    <3>1. Arrives(irqQueue', "UpdateIEAndIF", irq.irqAvailable, Irqs!Requested(irq))
      BY <2>2, <2>3, ArrivesSame
    <3>2. QED
      BY <3>1, <1>1, <2>4
  <2>7. ASSUME NEW e \in irqQueue', NEW u \in irqQueue', e.kind = "WriteIO", e.due = 0,
               u.kind = "UpdateIEAndIF", u.due = 1
        PROVE  FALSE
    <3>1. e \in irqQueue /\ u \in irqQueue
      BY <1>3, <2>7
    <3>2. commit = Irqs!RaiseCommit
      BY <2>7, <3>1 DEF Irqs!DueNow
    <3>3. PICK n \in irqQueue' : n.kind = "WriteIO" /\ n.due = 1 /\ n.pri = 0
      BY <1>3, <3>2 DEF Irqs!RaiseCommit
    <3>4. u.pri = 0
      BY <2>7, <3>1 DEF InOrder, UpdatesAhead
    <3>5. Irqs!Conflict(n, u)
      BY <2>7, <3>3, <3>4 DEF Irqs!Conflict, Irqs!Key
    <3>6. QED
      BY <3>3, <3>5, <2>1 DEF Irqs!Races
  <2>8. SecondCommitIdle'
    BY <2>7 DEF SecondCommitIdle
  <2>9. QED
    BY <2>1, <2>5, <2>6, <2>8
<1>6. QED
  BY <1>4, <1>5 DEF InOrder

LEMMA TickOrder == IrqInv /\ InOrder /\ Irqs!Tick => InOrder'
<1> SUFFICES ASSUME IrqInv, InOrder, Irqs!Tick PROVE InOrder'
  OBVIOUS
<1> DEFINE Later(e) == [e EXCEPT !.due = @ - 1]
<1>1. /\ irqQueue' = {Later(e) : e \in irqQueue} /\ irqQueue' = Irqs!Elapsed(irqQueue, 1)
      /\ irq' = irq /\ cpuLine' = cpuLine /\ raced' = raced /\ irqQueue \in SUBSET Irqs!QueuedEvent
  BY DEF Irqs!Tick, Irqs!Elapsed, IrqInv, Irqs!TypeOK
<1>2. \A e \in irqQueue : /\ Later(e).due = e.due - 1 /\ Later(e).kind = e.kind
                          /\ Later(e).on = e.on /\ Later(e).pri = e.pri
                          /\ e.due \in Nat /\ e.pri \in 0 .. 3
  BY <1>1 DEF Irqs!QueuedEvent, Irqs!Priority
<1> HIDE DEF Later
<1>3. UpdatesAhead'
  BY <1>1, <1>2 DEF InOrder, UpdatesAhead
<1>4. ASSUME ~raced
      PROVE  ~Irqs!Races(irqQueue')
  <2>1. ASSUME NEW e \in irqQueue, NEW f \in irqQueue, Irqs!Conflict(Later(e), Later(f))
        PROVE  Irqs!Conflict(e, f)
    <3>1. Irqs!Key(e) = Irqs!Key(f)
      BY <2>1, <1>2 DEF Irqs!Conflict, Irqs!Key
    <3>2. QED
      BY <3>1, <2>1, <1>2 DEF Irqs!Conflict
  <2>2. QED
    BY <1>1, <1>4, <2>1 DEF Irqs!Races, InOrder
<1>5. ASSUME NEW u \in irqQueue'
      PROVE  ~(u.kind = "UpdateIEAndIF" /\ u.due = 1)
  <2>1. PICK f \in irqQueue : u = Later(f)
    BY <1>1
  <2>2. QED
    BY <2>1, <1>2 DEF InOrder, UpdatesAhead
<1>6. SecondCommitIdle'
  BY <1>5 DEF SecondCommitIdle
<1>7. ASSUME ~raced
      PROVE  /\ Arrives(irqQueue', "UpdateIRQLine", cpuLine, irq.irqLine)
             /\ Arrives(irqQueue', "UpdateIEAndIF", irq.irqAvailable, Irqs!Requested(irq))
  BY <1>1, <1>7, ArrivesLater DEF InOrder
<1>8. QED
  BY <1>1, <1>3, <1>4, <1>6, <1>7 DEF InOrder

\* A commit.  No update of the flag is due, or it would have come first or met
\* the commit; one that is a cycle ahead was scheduled by another commit of
\* this cycle, which left nothing to commit.
LEMMA WriteIOOrder ==
  ASSUME IrqInv, IrqInv', InOrder, NEW e \in irqQueue, e \in Irqs!Frontier(Irqs!DueNow(irqQueue)), Irqs!OnWriteIO(e)
  PROVE  InOrder'
<1> DEFINE c == Irqs!Committed(irq)
           es == Irqs!AvailabilityUpdates(irq, c) \cup Irqs!LineUpdates(irq, c)
           rest == irqQueue \ {e}
<1>1. /\ e.kind = "WriteIO" /\ irq' = c /\ irqQueue' = Irqs!Scheduled(rest, es)
      /\ raced' = (raced \/ Irqs!Races(irqQueue')) /\ cpuLine' = cpuLine
  BY DEF Irqs!OnWriteIO
<1>2. /\ irq \in Irqs!Controller /\ irqQueue \in SUBSET Irqs!QueuedEvent /\ irqQueue' \in SUBSET Irqs!QueuedEvent
  BY DEF IrqInv, Irqs!TypeOK
<1>3. /\ c \in Irqs!Controller /\ c.regIE = c.pendingIE /\ c.regIF = c.pendingIF
      /\ c.irqAvailable = irq.irqAvailable
  BY <1>2, CommittedIsCommitted
<1>4. c.regIE = irq.pendingIE /\ c.regIF = irq.pendingIF
  BY <1>2 DEF Irqs!Committed, Irqs!Controller
<1> HIDE DEF c
<1>5. \A f \in es : \/ f.kind = "UpdateIEAndIF" /\ f.due = 1 /\ f.pri = 0
                    \/ f.kind = "UpdateIRQLine" /\ f.due = 2 /\ f.pri = 0
  BY DEF Irqs!AvailabilityUpdates, Irqs!LineUpdates
<1> DEFINE avail == [due |-> 1, pri |-> 0, kind |-> "UpdateIEAndIF", on |-> Irqs!Requested(c)]
           line == [due |-> 2, pri |-> 0, kind |-> "UpdateIRQLine", on |-> c.irqLine]
<1>6. /\ irq.irqAvailable # Irqs!Requested(c) => avail \in es
      /\ irq.irqAvailable = Irqs!Requested(c) => \A f \in es : f.kind # "UpdateIEAndIF"
      /\ irq.irqLine # c.irqLine => line \in es
      /\ irq.irqLine = c.irqLine => \A f \in es : f.kind # "UpdateIRQLine"
  BY DEF Irqs!AvailabilityUpdates, Irqs!LineUpdates
<1> HIDE DEF es
<1> DEFINE q == Irqs!Scheduled(rest, es)
<1>7. /\ \A f \in q : f \in rest \/ \E g \in es : /\ f.due = g.due /\ f.pri = g.pri
                                                  /\ f.kind = g.kind /\ f.on = g.on
      /\ \A g \in es : \E f \in q : f.due = g.due /\ f.pri = g.pri /\ f.kind = g.kind /\ f.on = g.on
      /\ rest \subseteq q
  BY ScheduledEvents
<1> HIDE DEF q
<1>8. irqQueue' = q
  BY <1>1 DEF q
<1>9. /\ \A f \in irqQueue' : f \in rest \/ \E g \in es : /\ f.due = g.due /\ f.pri = g.pri
                                                          /\ f.kind = g.kind /\ f.on = g.on
      /\ \A g \in es : \E f \in irqQueue' :
           f.due = g.due /\ f.pri = g.pri /\ f.kind = g.kind /\ f.on = g.on
      /\ rest \subseteq irqQueue'
  BY <1>7, <1>8
<1>10. \A f \in irqQueue' : /\ f.kind = "UpdateIRQLine" => f.due <= 2 /\ f.pri = 0
                            /\ f.kind = "UpdateIEAndIF" => f.due <= 1 /\ f.pri = 0
  BY <1>5, <1>9 DEF InOrder, UpdatesAhead
<1>11. UpdatesAhead'
  BY <1>10 DEF UpdatesAhead
<1>12. ASSUME ~raced'
       PROVE  ~raced /\ ~Irqs!Races(irqQueue) /\ ~Irqs!Races(irqQueue')
  BY <1>1, <1>12 DEF InOrder
<1>13. ASSUME ~raced'
       PROVE  Arrives(irqQueue', "UpdateIRQLine", cpuLine, c.irqLine)
  <2>1. CASE irq.irqLine # c.irqLine
    <3>1. PICK n \in irqQueue' : n.kind = "UpdateIRQLine" /\ n.due = 2 /\ n.pri = 0 /\ n.on = c.irqLine
      BY <2>1, <1>6, <1>9
    <3>2. \A f \in irqQueue' : f.kind = n.kind => f.due <= n.due /\ f.pri = n.pri
      BY <3>1, <1>10
    <3>3. Arrives(irqQueue', n.kind, cpuLine, n.on)
      BY <3>2, <1>2, <1>12, <1>13, ArrivesLast
    <3>4. QED
      BY <3>1, <3>3
  <2>2. CASE irq.irqLine = c.irqLine
    <3>1. \A f \in irqQueue \cup irqQueue' : f.kind = "UpdateIRQLine" => (f \in irqQueue <=> f \in irqQueue')
      <4>1. ASSUME NEW f \in irqQueue, f.kind = "UpdateIRQLine"
            PROVE  f \in irqQueue'
        BY <4>1, <1>1, <1>9
      <4>2. ASSUME NEW f \in irqQueue', f.kind = "UpdateIRQLine"
            PROVE  f \in irqQueue
        <5>1. \A g \in es : g.kind # f.kind
          BY <4>2, <2>2, <1>6
        <5>2. QED
          BY <5>1, <1>9
      <4>3. QED
        BY <4>1, <4>2
    <3>2. Arrives(irqQueue, "UpdateIRQLine", cpuLine, c.irqLine)
      BY <2>2, <1>12, <1>13 DEF InOrder
    <3>3. QED
      BY <3>1, <3>2, ArrivesSame
  <2>3. QED
    BY <2>1, <2>2
<1>14. ASSUME ~raced', NEW u \in irqQueue, u.kind = "UpdateIEAndIF"
       PROVE  c.regIE = irq.regIE /\ c.regIF = irq.regIF
  <2>1. /\ e.due = 0 /\ e.pri \in 0 .. 3 /\ u.due \in Nat /\ u.due <= 1 /\ u.pri = 0
        /\ \A f \in Irqs!DueNow(irqQueue) : Irqs!Key(e) <= Irqs!Key(f)
    BY <1>2, <1>14 DEF Irqs!Frontier, Irqs!DueNow, InOrder, UpdatesAhead, Irqs!QueuedEvent, Irqs!Priority
  <2>2. u.due # 0
    <3>1. SUFFICES ASSUME u.due = 0 PROVE FALSE
      OBVIOUS
    <3>2. Irqs!Key(e) <= Irqs!Key(u)
      BY <2>1, <3>1 DEF Irqs!DueNow
    <3>3. Irqs!Key(e) = Irqs!Key(u)
      BY <2>1, <3>1, <3>2 DEF Irqs!Key
    <3>4. Irqs!Conflict(e, u)
      BY <3>3, <1>1, <1>14 DEF Irqs!Conflict
    <3>5. QED
      BY <3>4, <1>12, <1>14 DEF Irqs!Races
  <2>3. irq.regIE = irq.pendingIE /\ irq.regIF = irq.pendingIF
    BY <2>1, <2>2, <1>1, <1>12, <1>14 DEF InOrder, SecondCommitIdle
  <2>4. QED
    BY <2>3, <1>4
<1>15. ASSUME ~raced'
       PROVE  Arrives(irqQueue', "UpdateIEAndIF", irq.irqAvailable, Irqs!Requested(c))
  <2>1. CASE irq.irqAvailable # Irqs!Requested(c)
    <3>1. PICK n \in irqQueue' : /\ n.kind = "UpdateIEAndIF" /\ n.due = 1 /\ n.pri = 0
                                 /\ n.on = Irqs!Requested(c)
      BY <2>1, <1>6, <1>9
    <3>2. \A f \in irqQueue' : f.kind = n.kind => f.due <= n.due /\ f.pri = n.pri
      BY <3>1, <1>10
    <3>3. Arrives(irqQueue', n.kind, irq.irqAvailable, n.on)
      BY <3>2, <1>2, <1>12, <1>15, ArrivesLast
    <3>4. QED
      BY <3>1, <3>3
  <2>2. CASE irq.irqAvailable = Irqs!Requested(c)
    <3>1. \A f \in irqQueue \cup irqQueue' : f.kind = "UpdateIEAndIF" => (f \in irqQueue <=> f \in irqQueue')
      <4>1. ASSUME NEW f \in irqQueue, f.kind = "UpdateIEAndIF"
            PROVE  f \in irqQueue'
        BY <4>1, <1>1, <1>9
      <4>2. ASSUME NEW f \in irqQueue', f.kind = "UpdateIEAndIF"
            PROVE  f \in irqQueue
        <5>1. \A g \in es : g.kind # f.kind
          BY <4>2, <2>2, <1>6
        <5>2. QED
          BY <5>1, <1>9
      <4>3. QED
        BY <4>1, <4>2
    <3>2. CASE Of(irqQueue, "UpdateIEAndIF") = {}
      <4>1. Arrives(irqQueue, "UpdateIEAndIF", irq.irqAvailable, Irqs!Requested(c))
        BY <2>2, <3>2 DEF Arrives
      <4>2. QED
        BY <3>1, <4>1, ArrivesSame
    <3>3. CASE Of(irqQueue, "UpdateIEAndIF") # {}
      <4>1. Irqs!Requested(c) = Irqs!Requested(irq)
        BY <3>3, <1>14, <1>15 DEF Of, Irqs!Requested
      <4>2. Arrives(irqQueue, "UpdateIEAndIF", irq.irqAvailable, Irqs!Requested(c))
        BY <4>1, <1>12, <1>15 DEF InOrder
      <4>3. QED
        BY <3>1, <4>2, ArrivesSame
    <3>4. QED
      BY <3>2, <3>3
  <2>3. QED
    BY <2>1, <2>2
<1>16. SecondCommitIdle'
  BY <1>1, <1>3 DEF SecondCommitIdle
<1>17. ASSUME ~raced'
       PROVE  /\ Arrives(irqQueue', "UpdateIRQLine", cpuLine', irq'.irqLine)
              /\ Arrives(irqQueue', "UpdateIEAndIF", irq'.irqAvailable, Irqs!Requested(irq'))
  BY <1>1, <1>3, <1>13, <1>15, <1>17
<1>18. QED
  BY <1>11, <1>12, <1>16, <1>17 DEF InOrder

\* An update is made.
LEMMA UpdateOrder ==
  ASSUME IrqInv, InOrder, NEW e \in irqQueue, e \in Irqs!Frontier(Irqs!DueNow(irqQueue)),
         Irqs!OnUpdateIEAndIF(e) \/ Irqs!OnUpdateIRQLine(e)
  PROVE  InOrder'
<1>1. /\ irqQueue' = irqQueue \ {e} /\ raced' = raced /\ e.due = 0
      /\ e.kind \in {"UpdateIEAndIF", "UpdateIRQLine"}
      /\ irq \in Irqs!Controller /\ irqQueue \in SUBSET Irqs!QueuedEvent
  BY DEF Irqs!OnUpdateIEAndIF, Irqs!OnUpdateIRQLine, Irqs!Frontier, Irqs!DueNow, IrqInv, Irqs!TypeOK
<1>2. /\ irq'.irqLine = irq.irqLine
      /\ irq'.regIE = irq.regIE /\ irq'.pendingIE = irq.pendingIE
      /\ irq'.regIF = irq.regIF /\ irq'.pendingIF = irq.pendingIF
  BY <1>1 DEF Irqs!OnUpdateIEAndIF, Irqs!OnUpdateIRQLine, Irqs!Controller
<1>3. Irqs!Requested(irq') = Irqs!Requested(irq)
  BY <1>2 DEF Irqs!Requested
<1>4. UpdatesAhead'
  BY <1>1 DEF InOrder, UpdatesAhead
<1>5. ASSUME ~raced
      PROVE  ~Irqs!Races(irqQueue') /\ SecondCommitIdle'
  BY <1>1, <1>2, <1>5 DEF InOrder, Irqs!Races, SecondCommitIdle
<1>6. \A f \in irqQueue \cup irqQueue' : f.kind # e.kind => (f \in irqQueue <=> f \in irqQueue')
  BY <1>1
<1>7. ASSUME ~raced
      PROVE  /\ Arrives(irqQueue, "UpdateIRQLine", cpuLine, irq.irqLine)
             /\ Arrives(irqQueue, "UpdateIEAndIF", irq.irqAvailable, Irqs!Requested(irq))
  BY <1>7 DEF InOrder
<1>8. CASE Irqs!OnUpdateIEAndIF(e)
  <2>1. e.kind = "UpdateIEAndIF" /\ irq'.irqAvailable = e.on /\ cpuLine' = cpuLine
    BY <1>1, <1>8 DEF Irqs!OnUpdateIEAndIF, Irqs!Controller
  <2>2. ASSUME ~raced
        PROVE  Arrives(irqQueue', "UpdateIEAndIF", e.on, Irqs!Requested(irq))
    <3>1. Arrives(irqQueue, e.kind, irq.irqAvailable, Irqs!Requested(irq))
      BY <2>1, <2>2, <1>7
    <3>2. Arrives(irqQueue \ {e}, e.kind, e.on, Irqs!Requested(irq))
      BY <3>1, <1>1, ArrivesOne
    <3>3. QED
      BY <3>2, <2>1, <1>1
  <2>3. ASSUME ~raced
        PROVE  Arrives(irqQueue', "UpdateIRQLine", cpuLine, irq.irqLine)
    <3>1. \A f \in irqQueue \cup irqQueue' : f.kind = "UpdateIRQLine" => (f \in irqQueue <=> f \in irqQueue')
      BY <1>6, <2>1
    <3>2. QED
      BY <3>1, <1>7, <2>3, ArrivesSame
  <2>4. QED
    BY <1>1, <1>2, <1>3, <1>4, <1>5, <2>1, <2>2, <2>3 DEF InOrder
<1>9. CASE Irqs!OnUpdateIRQLine(e)
  <2>1. e.kind = "UpdateIRQLine" /\ cpuLine' = e.on /\ irq' = irq
    BY <1>9 DEF Irqs!OnUpdateIRQLine
  <2>2. ASSUME ~raced
        PROVE  Arrives(irqQueue', "UpdateIRQLine", e.on, irq.irqLine)
    <3>1. Arrives(irqQueue, e.kind, cpuLine, irq.irqLine)
      BY <2>1, <2>2, <1>7
    <3>2. Arrives(irqQueue \ {e}, e.kind, e.on, irq.irqLine)
      BY <3>1, <1>1, ArrivesOne
    <3>3. QED
      BY <3>2, <2>1, <1>1
  <2>3. ASSUME ~raced
        PROVE  Arrives(irqQueue', "UpdateIEAndIF", irq.irqAvailable, Irqs!Requested(irq))
    <3>1. \A f \in irqQueue \cup irqQueue' : f.kind = "UpdateIEAndIF" => (f \in irqQueue <=> f \in irqQueue')
      BY <1>6, <2>1
    <3>2. QED
      BY <3>1, <1>7, <2>3, ArrivesSame
  <2>4. QED
    BY <1>1, <1>3, <1>4, <1>5, <2>1, <2>2, <2>3 DEF InOrder
<1>10. QED
  BY <1>8, <1>9

LEMMA OrderGoesOn == IrqInv /\ IrqInv' /\ InOrder /\ [Irqs!Next]_(Irqs!vars) => InOrder'
<1> SUFFICES ASSUME IrqInv, IrqInv', InOrder, [Irqs!Next]_(Irqs!vars) PROVE InOrder'
  OBVIOUS
<1>0. irq \in Irqs!Controller
  BY DEF IrqInv, Irqs!TypeOK
<1>1. ASSUME NEW r \in Irqs!Controller, Irqs!CPUWrites(r),
             r.irqLine = irq.irqLine, r.irqAvailable = irq.irqAvailable,
             r.regIE = irq.regIE, r.regIF = irq.regIF
      PROVE  InOrder'
  <2>1. Irqs!DueNow(irqQueue) = {} /\ Irqs!Changes(r, Irqs!WriteCommit)
    BY <1>1 DEF Irqs!CPUWrites, Irqs!CPURuns
  <2>2. QED
    BY <1>1, <2>1, ChangesOrder
<1>2. ASSUME NEW v \in SUBSET Source, Irqs!CPUWritesIE(v)
      PROVE  InOrder'
  <2>1. /\ Irqs!WriteIE(irq, v) \in Irqs!Controller
        /\ Irqs!WriteIE(irq, v).irqLine = irq.irqLine
        /\ Irqs!WriteIE(irq, v).irqAvailable = irq.irqAvailable
        /\ Irqs!WriteIE(irq, v).regIE = irq.regIE
        /\ Irqs!WriteIE(irq, v).regIF = irq.regIF
    BY <1>0 DEF Irqs!WriteIE, Irqs!Controller
  <2>2. QED
    BY <1>1, <1>2, <2>1 DEF Irqs!CPUWritesIE
<1>3. ASSUME NEW v \in SUBSET Source, Irqs!CPUWritesIF(v)
      PROVE  InOrder'
  <2>1. /\ Irqs!WriteIF(irq, v) \in Irqs!Controller
        /\ Irqs!WriteIF(irq, v).irqLine = irq.irqLine
        /\ Irqs!WriteIF(irq, v).irqAvailable = irq.irqAvailable
        /\ Irqs!WriteIF(irq, v).regIE = irq.regIE
        /\ Irqs!WriteIF(irq, v).regIF = irq.regIF
    BY <1>0 DEF Irqs!WriteIF, Irqs!Controller
  <2>2. QED
    BY <1>1, <1>3, <2>1 DEF Irqs!CPUWritesIF
<1>4. ASSUME NEW v \in BOOLEAN, Irqs!CPUWritesIME(v)
      PROVE  InOrder'
  <2>1. /\ Irqs!WriteIME(irq, v) \in Irqs!Controller
        /\ Irqs!WriteIME(irq, v).irqLine = irq.irqLine
        /\ Irqs!WriteIME(irq, v).irqAvailable = irq.irqAvailable
        /\ Irqs!WriteIME(irq, v).regIE = irq.regIE
        /\ Irqs!WriteIME(irq, v).regIF = irq.regIF
    BY <1>0 DEF Irqs!WriteIME, Irqs!Controller
  <2>2. QED
    BY <1>1, <1>4, <2>1 DEF Irqs!CPUWritesIME
<1>5. CASE Irqs!CPUWritesIMEByte
  BY <1>0, <1>1, <1>5 DEF Irqs!CPUWritesIMEByte
<1>6. ASSUME NEW s \in Source, Irqs!Raise(s)
      PROVE  InOrder'
  <2>1. /\ Irqs!Raised(irq, s) \in Irqs!Controller
        /\ Irqs!Raised(irq, s).irqLine = irq.irqLine
        /\ Irqs!Raised(irq, s).irqAvailable = irq.irqAvailable
        /\ Irqs!Raised(irq, s).regIE = irq.regIE
        /\ Irqs!Raised(irq, s).regIF = irq.regIF
    BY <1>0 DEF Irqs!Raised, Irqs!Controller
  <2>2. Irqs!Changes(Irqs!Raised(irq, s), Irqs!RaiseCommit)
    BY <1>6 DEF Irqs!Raise
  <2>3. QED
    BY <2>1, <2>2, ChangesOrder
<1>7. CASE Irqs!Tick
  BY <1>7, TickOrder
<1>8. ASSUME NEW e \in irqQueue, Irqs!Fire(e)
      PROVE  InOrder'
  BY <1>8, WriteIOOrder, UpdateOrder DEF Irqs!Fire
<1>9. CASE Irqs!CPUHalts \/ Irqs!CPUWakes \/ UNCHANGED Irqs!vars
  <2>1. irq' = irq /\ irqQueue' = irqQueue /\ cpuLine' = cpuLine /\ raced' = raced
    BY <1>9 DEF Irqs!CPUHalts, Irqs!CPUWakes, Irqs!vars
  <2>2. QED
    BY <2>1 DEF InOrder, UpdatesAhead, SecondCommitIdle
<1>10. QED
  BY <1>2, <1>3, <1>4, <1>5, <1>6, <1>7, <1>8, <1>9 DEF Irqs!Next

\* When everything under way has arrived, the CPU's line and its wake-up flag
\* are what the registers ask for, whatever was written and raised in between
\* and in whatever order events of one key came, as long as no two of them
\* conflicted: the delayed pipeline of irq.go settles.
THEOREM PipelineSettles == Irqs!Spec => []Irqs!SettledAgrees
<1>1. InOrder => Irqs!SettledAgrees
  <2> SUFFICES ASSUME InOrder, irqQueue = {}, ~raced
               PROVE  irq.irqAvailable = Irqs!Requested(irq) /\ cpuLine = irq.irqLine
    BY DEF Irqs!SettledAgrees
  <2>1. \A kind : Of(irqQueue, kind) = {}
    BY DEF Of
  <2>2. QED
    BY <2>1 DEF InOrder, Arrives
<1>2. Irqs!Spec => []InOrder
  BY OrderStarts, OrderGoesOn, IrqInvAlways, PTL DEF Irqs!Spec
<1>3. QED
  BY <1>1, <1>2, PTL

\* Nothing but the CPU's acknowledge of a source takes it out of the flags that
\* are to be committed: no commit, no other write and no race of the two does.
THEOREM OnlyAcknowledgeForgets == Irqs!Spec => Irqs!OnlyAckForgets
<1> DEFINE Forgets(s) == s \in irq.pendingIF \ irq'.pendingIF
           Acknowledged(s) == haltcnt = "run" /\ \E v \in SUBSET Source : s \in v /\ Irqs!CPUWritesIF(v)
<1>1. ASSUME IrqInv, [Irqs!Next]_(Irqs!vars), NEW s, Forgets(s)
      PROVE  Acknowledged(s)
  <2>0. irq \in Irqs!Controller
    BY <1>1 DEF IrqInv, Irqs!TypeOK
  <2>1. ASSUME NEW r, Irqs!Changes(r, Irqs!WriteCommit) \/ Irqs!Changes(r, Irqs!RaiseCommit)
        PROVE  r.pendingIF # irq.pendingIF
    BY <2>1, <1>1 DEF Irqs!Changes
  <2>2. ASSUME NEW v \in SUBSET Source, Irqs!CPUWritesIE(v)
        PROVE  FALSE
    <3>1. Irqs!WriteIE(irq, v).pendingIF = irq.pendingIF
      BY <2>0 DEF Irqs!WriteIE, Irqs!Controller
    <3>2. QED
      BY <3>1, <2>1, <2>2 DEF Irqs!CPUWritesIE, Irqs!CPUWrites
  <2>3. ASSUME NEW v \in SUBSET Source, Irqs!CPUWritesIF(v)
        PROVE  Acknowledged(s)
    <3>1. Irqs!WriteIF(irq, v).pendingIF = irq.pendingIF \ v
      BY <2>0 DEF Irqs!WriteIF, Irqs!Controller
    <3>2. irq' = Irqs!WriteIF(irq, v) /\ haltcnt = "run"
      BY <2>3 DEF Irqs!CPUWritesIF, Irqs!CPUWrites, Irqs!CPURuns, Irqs!Changes
    <3>3. s \in v
      BY <3>1, <3>2, <1>1
    <3>4. QED
      BY <3>2, <3>3, <2>3
  <2>4. ASSUME NEW v \in BOOLEAN, Irqs!CPUWritesIME(v)
        PROVE  FALSE
    <3>1. Irqs!WriteIME(irq, v).pendingIF = irq.pendingIF
      BY <2>0 DEF Irqs!WriteIME, Irqs!Controller
    <3>2. QED
      BY <3>1, <2>1, <2>4 DEF Irqs!CPUWritesIME, Irqs!CPUWrites
  <2>5. ~Irqs!CPUWritesIMEByte
    BY <2>1 DEF Irqs!CPUWritesIMEByte, Irqs!CPUWrites
  <2>6. ASSUME NEW t \in Source, Irqs!Raise(t)
        PROVE  FALSE
    <3>1. Irqs!Raised(irq, t).pendingIF = irq.pendingIF \cup {t}
      BY <2>0 DEF Irqs!Raised, Irqs!Controller
    <3>2. irq' = Irqs!Raised(irq, t)
      BY <2>6 DEF Irqs!Raise, Irqs!Changes
    <3>3. QED
      BY <3>1, <3>2, <1>1
  <2>7. ASSUME NEW e \in irqQueue, Irqs!Fire(e)
        PROVE  FALSE
    <3>1. Irqs!Committed(irq).pendingIF = irq.pendingIF
      BY <2>0 DEF Irqs!Committed, Irqs!Controller
    <3>2. irq'.pendingIF = irq.pendingIF
      BY <3>1, <2>0, <2>7 DEF Irqs!Fire, Irqs!OnWriteIO, Irqs!OnUpdateIEAndIF, Irqs!OnUpdateIRQLine, Irqs!Controller
    <3>3. QED
      BY <3>2, <1>1
  <2>8. CASE Irqs!Tick \/ Irqs!CPUHalts \/ Irqs!CPUWakes \/ UNCHANGED Irqs!vars
    BY <2>8, <1>1 DEF Irqs!Tick, Irqs!CPUHalts, Irqs!CPUWakes, Irqs!vars
  <2>9. QED
    BY <1>1, <2>2, <2>3, <2>4, <2>5, <2>6, <2>7, <2>8 DEF Irqs!Next
<1>2. IrqInv /\ [Irqs!Next]_(Irqs!vars) => [\A s \in irq.pendingIF \ irq'.pendingIF :
        haltcnt = "run" /\ \E v \in SUBSET Source : s \in v /\ Irqs!CPUWritesIF(v)]_(Irqs!vars)
  BY <1>1
<1>3. QED
  BY <1>2, IrqInvAlways, PTL DEF Irqs!Spec, Irqs!OnlyAckForgets
-----------------------------------------------------------------------------
(***************************************************************************)
(* The results of instructions.                                            *)
(***************************************************************************)
\* The flags of a computation whose exact result is u over the words and s
\* over the signed words.
IsExact(f, u, s, carried) ==
  /\ f.value = Wrap(u)
  /\ f.z = (Wrap(u) = 0)
  /\ f.c = carried
  /\ f.v = (s \notin -Top .. Top - 1)
  /\ (f.n # f.v) = (s < 0)
  /\ (~(f.z \/ f.n # f.v)) = (s >= 0 /\ Wrap(u) # 0)

\* A sum of two words and a carry is wrapped around at most once,
LEMMA SumWraps ==
  ASSUME NEW x \in Int, 0 <= x, x < 2 * Size
  PROVE  Wrap(x) = IF x < Size THEN x ELSE x - Size
<1>1. Size \in Nat /\ Size > 0
  BY SizeIs
<1>2. CASE x < Size
  BY <1>1, <1>2 DEF Wrap
<1>3. CASE x >= Size
  <2>1. x - Size \in 0 .. Size - 1 /\ x = (x - Size) + 1 * Size
    BY <1>1, <1>3
  <2>2. x % Size = x - Size
    BY <1>1, <2>1, OneRemainder
  <2>3. QED
    BY <1>1, <1>3, <2>2 DEF Wrap
<1>4. QED
  BY <1>1, <1>2, <1>3

\* and a difference that is negative once the other way.
LEMMA DifferenceWraps ==
  ASSUME NEW x \in Int, -Size <= x, x < Size
  PROVE  Wrap(x) = IF x >= 0 THEN x ELSE x + Size
<1>1. Size \in Nat /\ Size > 0
  BY SizeIs
<1>2. CASE x >= 0
  BY <1>1, <1>2 DEF Wrap
<1>3. CASE x < 0
  <2>1. x + Size \in 0 .. Size - 1 /\ x = (x + Size) + (-1) * Size
    BY <1>1, <1>3
  <2>2. x % Size = x + Size
    BY <1>1, <2>1, OneRemainder
  <2>3. QED
    BY <1>1, <1>3, <2>2 DEF Wrap
<1>4. QED
  BY <1>1, <1>2, <1>3

\* The signs of two words, of their sum and of its word say whether the sum of
\* the signed words is one and which sign it has.
LEMMA SignsOfSum ==
  ASSUME NEW a \in Word, NEW b \in Word, NEW c \in {0, 1}
  PROVE  LET r == Wrap(a + b + c)
             s == Signed(a) + Signed(b) + c
             v == Negative(a) = Negative(b) /\ Negative(b) # Negative(r)
         IN  /\ v = (s \notin -Top .. Top - 1)
             /\ (Negative(r) # v) = (s < 0)
<1>1. Size \in Int /\ Top \in Int /\ Size = 2 * Top /\ Top > 0
  BY SizeIs DEF Size
<1>2. a \in Int /\ b \in Int /\ c \in Int /\ 0 <= a /\ a < Size /\ 0 <= b /\ b < Size /\ 0 <= c /\ c <= 1
  BY <1>1 DEF Word
<1>3. Wrap(a + b + c) = IF a + b + c < Size THEN a + b + c ELSE a + b + c - Size
  BY <1>1, <1>2, SumWraps
<1>4. QED
  BY <1>1, <1>2, <1>3 DEF Signed, Negative

\* So do those of a difference.
LEMMA SignsOfDifference ==
  ASSUME NEW a \in Word, NEW b \in Word, NEW c \in {0, 1}
  PROVE  LET r == Wrap((a - b) - c)
             s == (Signed(a) - Signed(b)) - c
             v == Negative(a) # Negative(b) /\ Negative(a) # Negative(r)
         IN  /\ v = (s \notin -Top .. Top - 1)
             /\ (Negative(r) # v) = (s < 0)
<1>1. Size \in Int /\ Top \in Int /\ Size = 2 * Top /\ Top > 0
  BY SizeIs DEF Size
<1>2. a \in Int /\ b \in Int /\ c \in Int /\ 0 <= a /\ a < Size /\ 0 <= b /\ b < Size /\ 0 <= c /\ c <= 1
  BY <1>1 DEF Word
<1>3. Wrap((a - b) - c) = IF (a - b) - c >= 0 THEN (a - b) - c ELSE (a - b) - c + Size
  BY <1>1, <1>2, DifferenceWraps
<1>4. QED
  BY <1>1, <1>2, <1>3 DEF Signed, Negative

\* The flags of an addition, with a carry that comes in or without one,
LEMMA AddedExact ==
  ASSUME NEW a \in Word, NEW b \in Word, NEW c \in {0, 1}
  PROVE  IsExact(Added(a, b, c), a + b + c, Signed(a) + Signed(b) + c, a + b + c >= Size)
<1> DEFINE r == Wrap(a + b + c)
           s == Signed(a) + Signed(b) + c
           v == Negative(a) = Negative(b) /\ Negative(b) # Negative(r)
           n == Negative(r)
           z == r = 0
           k == a + b + c >= Size
           f == [value |-> r, n |-> n, z |-> z, c |-> k, v |-> v]
<1>1. v = (s \notin -Top .. Top - 1) /\ (n # v) = (s < 0)
  BY SignsOfSum
<1>2. f.value = r /\ f.n = n /\ f.z = z /\ f.c = k /\ f.v = v
  <2> HIDE DEF r, n, z, k, v
  <2>1. QED
    BY Zenon
<1>3. z = (r = 0) /\ k = (a + b + c >= Size)
  BY Zenon
<1>4. (~(f.z \/ f.n # f.v)) = (s >= 0 /\ r # 0)
  <2>1. (f.n # f.v) = (s < 0)
    <3> HIDE DEF r, n, z, k, v, s, f
    <3>1. QED
      BY <1>1, <1>2, Zenon
  <2>2. (~(s < 0)) = (s >= 0)
    <3>1. s \in Int
      BY SizeIs DEF Signed, Word
    <3> HIDE DEF s
    <3>2. QED
      BY <3>1
  <2>3. f.z = (r = 0)
    <3> HIDE DEF r, n, k, v, s, f
    <3>1. QED
      BY <1>2, Zenon DEF z
  <2> HIDE DEF r, n, z, k, v, s, f
  <2>4. QED
    BY <2>1, <2>2, <2>3, Zenon
<1>5. f = Added(a, b, c)
  BY Zenon DEF Added
<1> HIDE DEF f, n, v
<1>6. QED
  BY <1>1, <1>2, <1>4, <1>5, Zenon DEF IsExact
\* and of a subtraction, with a borrow or without.
LEMMA SubtractedExact ==
  ASSUME NEW a \in Word, NEW b \in Word, NEW c \in {0, 1}
  PROVE  IsExact(Subtracted(a, b, c), (a - b) - c, (Signed(a) - Signed(b)) - c, (a - b) - c >= 0)
<1> DEFINE r == Wrap((a - b) - c)
           s == (Signed(a) - Signed(b)) - c
           v == Negative(a) # Negative(b) /\ Negative(a) # Negative(r)
           n == Negative(r)
           z == r = 0
           k == a >= b + c
           f == [value |-> r, n |-> n, z |-> z, c |-> k, v |-> v]
<1>1. v = (s \notin -Top .. Top - 1) /\ (n # v) = (s < 0)
  BY SignsOfDifference
<1>2. f.value = r /\ f.n = n /\ f.z = z /\ f.c = k /\ f.v = v
  <2> HIDE DEF r, n, z, k, v
  <2>1. QED
    BY Zenon
<1>3. k = ((a - b) - c >= 0)
  BY WordInt
<1>4. (~(f.z \/ f.n # f.v)) = (s >= 0 /\ r # 0)
  <2>1. (f.n # f.v) = (s < 0)
    <3> HIDE DEF r, n, z, k, v, s, f
    <3>1. QED
      BY <1>1, <1>2, Zenon
  <2>2. (~(s < 0)) = (s >= 0)
    <3>1. s \in Int
      BY SizeIs DEF Signed, Word
    <3> HIDE DEF s
    <3>2. QED
      BY <3>1
  <2>3. f.z = (r = 0)
    <3> HIDE DEF r, n, k, v, s, f
    <3>1. QED
      BY <1>2, Zenon DEF z
  <2> HIDE DEF r, n, z, k, v, s, f
  <2>4. QED
    BY <2>1, <2>2, <2>3, Zenon
<1>5. f = Subtracted(a, b, c)
  BY Zenon DEF Subtracted
<1> HIDE DEF f, n, v, k
<1>6. QED
  BY <1>1, <1>2, <1>3, <1>4, <1>5, Zenon DEF IsExact

\* The arithmetic instructions choose operands and carry as their names say.
LEMMA ComputedExact ==
  ASSUME NEW code \in Sums \cup Differences, code # "NEG", NEW a \in Word, NEW b \in Word,
         NEW shifted, NEW p
  PROVE  LET carry == IF p.c THEN 1 ELSE 0
             u == Exact(code, a, b, carry)
         IN  IsExact(Computed(code, a, b, shifted, p), u, Exact(code, Signed(a), Signed(b), carry),
                     IF code \in Sums THEN u >= Size ELSE u >= 0)
<1> DEFINE carry == IF p.c THEN 1 ELSE 0
           borrow == IF p.c THEN 0 ELSE 1
           u == Exact(code, a, b, carry)
           s == Exact(code, Signed(a), Signed(b), carry)
           f == Computed(code, a, b, shifted, p)
           carried == IF code \in Sums THEN u >= Size ELSE u >= 0
<1>1. carry \in {0, 1} /\ borrow \in {0, 1} /\ borrow = 1 - carry /\ carry = 1 - borrow
  OBVIOUS
<1>2. a \in Int /\ b \in Int /\ Signed(a) \in Int /\ Signed(b) \in Int /\ carry \in Int
  BY WordInt, SizeIs DEF Signed
<1> HIDE DEF carry, borrow, f, u, s, carried
<1>3. ASSUME NEW x \in {0, 1} 
      PROVE  /\ IsExact(Added(a, b, x), a + b + x, Signed(a) + Signed(b) + x, a + b + x >= Size)
             /\ IsExact(Subtracted(a, b, x), a - b - x, Signed(a) - Signed(b) - x, a - b - x >= 0)
             /\ IsExact(Subtracted(b, a, x), b - a - x, Signed(b) - Signed(a) - x, b - a - x >= 0)
  BY AddedExact, SubtractedExact
<1>4. ASSUME code \in {"SUB", "CMP"} PROVE IsExact(f, u, s, carried)
  <2>1. f = Subtracted(a, b, 0)
    BY <1>4, Zenon DEF f, Computed
  <2>2. u = a - b - 0 /\ s = Signed(a) - Signed(b) - 0
    BY <1>1, <1>2, <1>4 DEF u, s, Exact
  <2>3. carried = (u >= 0)
    BY <1>4 DEF carried, Sums
  <2>4. QED
    BY <1>1, <1>3, <2>1, <2>2, <2>3
<1>5. ASSUME code = "RSB" PROVE IsExact(f, u, s, carried)
  <2>1. f = Subtracted(b, a, 0)
    BY <1>5, Zenon DEF f, Computed
  <2>2. u = b - a - 0 /\ s = Signed(b) - Signed(a) - 0
    BY <1>1, <1>2, <1>5 DEF u, s, Exact
  <2>3. carried = (u >= 0)
    BY <1>5 DEF carried, Sums
  <2>4. QED
    BY <1>1, <1>3, <2>1, <2>2, <2>3
<1>6. ASSUME code \in {"ADD", "CMN"} PROVE IsExact(f, u, s, carried)
  <2>1. f = Added(a, b, 0)
    BY <1>6, Zenon DEF f, Computed
  <2>2. u = a + b + 0 /\ s = Signed(a) + Signed(b) + 0
    BY <1>1, <1>2, <1>6 DEF u, s, Exact
  <2>3. carried = (u >= Size)
    BY <1>6 DEF carried, Sums
  <2>4. QED
    BY <1>1, <1>3, <2>1, <2>2, <2>3
<1>7. ASSUME code = "ADC" PROVE IsExact(f, u, s, carried)
  <2>1. f = Added(a, b, 1 - borrow)
    BY <1>7, Zenon DEF f, Computed, borrow
  <2>2. u = a + b + (1 - borrow) /\ s = Signed(a) + Signed(b) + (1 - borrow)
    BY <1>1, <1>2, <1>7 DEF u, s, Exact
  <2>3. carried = (u >= Size)
    BY <1>7 DEF carried, Sums
  <2>4. QED
    BY <1>1, <1>3, <2>1, <2>2, <2>3
<1>8. ASSUME code = "SBC" PROVE IsExact(f, u, s, carried)
  <2>1. f = Subtracted(a, b, borrow)
    BY <1>8, Zenon DEF f, Computed, borrow
  <2>2. u = a - b - borrow /\ s = Signed(a) - Signed(b) - borrow
    BY <1>1, <1>2, <1>8 DEF u, s, Exact
  <2>3. carried = (u >= 0)
    BY <1>8 DEF carried, Sums
  <2>4. QED
    BY <1>1, <1>3, <2>1, <2>2, <2>3
<1>9. ASSUME code = "RSC" PROVE IsExact(f, u, s, carried)
  <2>1. f = Subtracted(b, a, borrow)
    BY <1>9, Zenon DEF f, Computed, borrow
  <2>2. u = b - a - borrow /\ s = Signed(b) - Signed(a) - borrow
    BY <1>1, <1>2, <1>9 DEF u, s, Exact
  <2>3. carried = (u >= 0)
    BY <1>9 DEF carried, Sums
  <2>4. QED
    BY <1>1, <1>3, <2>1, <2>2, <2>3
<1>10. code \in {"SUB", "CMP", "RSB", "ADD", "CMN", "ADC", "SBC", "RSC"}
  BY Zenon DEF Sums, Differences
<1>11. IsExact(f, u, s, carried)
  BY <1>4, <1>5, <1>6, <1>7, <1>8, <1>9, <1>10, Zenon
<1>12. QED
  BY <1>11, Zenon DEF f, u, s, carried, carry

\* The CPU outside an invalid mode and the user-bank window, where registers
\* are read and written for what they are,
Plain(c) == Held(c) /\ ~c.cpuModeInvalid /\ c.conflict = 0
\* and with the flags of a computation.
Flagged(c, f) == c.cpsr.n = f.n /\ c.cpsr.z = f.z /\ c.cpsr.c = f.c /\ c.cpsr.v = f.v

\* There a register is read as it is,
LEMMA PlainReads ==
  ASSUME NEW c, Plain(c), NEW r
  PROVE  GetReg(c, r) = c.reg[r]
BY Zenon DEF Plain, GetReg, ldmUsermode

\* written to its place,
LEMMA PlainWrites ==
  ASSUME NEW c, Plain(c), NEW r \in Register, NEW v
  PROVE  SetReg(c, r, v).cpsr = c.cpsr /\ SetReg(c, r, v).reg[r] = v
<1>1. HoldsWords(c) /\ ~ldmUsermode(c) /\ ~c.cpuModeInvalid
  BY DEF Plain, Held, ldmUsermode
<1>2. SetReg(c, r, v).cpsr = c.cpsr /\ SetReg(c, r, v).reg = [c.reg EXCEPT ![r] = v]
  BY <1>1, FieldsAre DEF SetReg
<1>3. r \in DOMAIN c.reg
  BY <1>1 DEF HoldsWords
<1>4. QED
  BY <1>2, <1>3

\* and neither flags nor the kind of the next access change that.
LEMMA PlainStays ==
  ASSUME NEW c, Plain(c), NEW f
  PROVE  /\ Plain(SetFlags(c, f)) /\ SetFlags(c, f).reg = c.reg
         /\ Plain(Sequential(c)) /\ Sequential(c).reg = c.reg /\ Sequential(c).cpsr = c.cpsr
<1>1. Held(c) /\ HoldsWords(c)
  BY DEF Plain, Held
<1>2. /\ SetFlags(c, f).conflict = c.conflict /\ SetFlags(c, f).cpuModeInvalid = c.cpuModeInvalid
      /\ Sequential(c).conflict = c.conflict /\ Sequential(c).cpuModeInvalid = c.cpuModeInvalid
  BY <1>1, FieldsAre DEF SetFlags, Sequential
<1>3. /\ Held(SetFlags(c, f)) /\ SetFlags(c, f).reg = c.reg
      /\ Held(Sequential(c)) /\ Sequential(c).reg = c.reg /\ Sequential(c).cpsr = c.cpsr
  BY <1>1, FlagsKeep, SequenceKeeps, Zenon
<1>4. QED
  BY <1>2, <1>3, Zenon DEF Plain

\* The flags an instruction sets are those of its computation,
LEMMA FlagsAreSet ==
  ASSUME NEW c, Held(c), NEW f
  PROVE  Flagged(SetFlags(c, f), f)
<1> DEFINE d == SetFlags(c, f)
<1>1. HoldsWords(c) /\ HoldsMode(c.cpsr)
  BY DEF Held, HoldsWords
<1>2. DOMAIN c.cpsr = {"mode", "t", "f", "i", "n", "z", "c", "v"}
  BY <1>1, PSRFields DEF HoldsMode
<1>3. d.cpsr = [c.cpsr EXCEPT !.n = f.n, !.z = f.z, !.c = f.c, !.v = f.v]
  BY <1>1, FieldsAre DEF SetFlags
<1>4. d.cpsr.n = f.n /\ d.cpsr.z = f.z /\ d.cpsr.c = f.c /\ d.cpsr.v = f.v
  <2> HIDE DEF d
  <2>1. QED
    BY <1>2, <1>3
<1>5. QED
  BY <1>4, Zenon DEF Flagged

\* stay where only the pc moves on,
LEMMA AdvanceSpares ==
  ASSUME NEW c, Held(c), NEW n
  PROVE  Advance(c, n).cpsr = c.cpsr /\ \A r \in Register : r # 15 => Advance(c, n).reg[r] = c.reg[r]
<1>1. HoldsWords(c)
  BY DEF Held
<1>2. Advance(c, n).cpsr = c.cpsr /\ Advance(c, n).reg = [c.reg EXCEPT ![15] = Wrap(@ + n)]
  BY <1>1, FieldsAre DEF Advance
<1>3. DOMAIN c.reg = Register
  BY <1>1 DEF HoldsWords
<1>4. QED
  BY <1>2, <1>3

\* A step begins as the last one ended, with r15 aligned to an opcode.
LEMMA ReadyPlain ==
  ASSUME Held(cpu), Plainly, NEW slow, NEW contents \in Int, NEW booth
  PROVE  LET c == Ready(slow, contents, booth) IN
         /\ ~c.cpuModeInvalid /\ c.conflict = 0 /\ c.cpsr = cpu.cpsr
         /\ \A r \in Register : c.reg[r] = Found(r)
<1>1. HoldsWords(cpu)
  BY DEF Held
<1> DEFINE b == Begun(slow)
           c1 == [b EXCEPT !.latchIrqDisable = b.cpsr.i, !.reg[15] = Aligned(@, 2)]
           c2 == Code(c1, c1.reg[15], b.cpsr.t)
           c3 == [c2 EXCEPT !.pipe = <<b.pipe[2], Fetched(c1.reg[15], b.cpsr.t)>>]
           c4 == [c3 EXCEPT !.contents = contents, !.booth = booth]
<1>2. /\ DOMAIN b = DOMAIN cpu /\ b.reg = cpu.reg /\ b.cpsr = cpu.cpsr
      /\ b.conflict = cpu.conflict /\ b.cpuModeInvalid = cpu.cpuModeInvalid
  BY <1>1, FieldsAre DEF Begun
<1>3. DOMAIN cpu = {"reg", "bank", "cpsr", "spsr", "pSpsr", "conflict", "cpuModeInvalid", "pipe",
                     "sequential", "irqLine", "latchIrqDisable", "bus", "slow", "contents", "booth"}
  BY <1>1, FieldsAre
<1> HIDE DEF b
<1>4. /\ DOMAIN c1 = DOMAIN cpu /\ c1.reg = [cpu.reg EXCEPT ![15] = Aligned(@, 2)] /\ c1.cpsr = cpu.cpsr
      /\ c1.conflict = cpu.conflict /\ c1.cpuModeInvalid = cpu.cpuModeInvalid
  BY <1>2, <1>3
<1> HIDE DEF c1
<1>5. /\ DOMAIN c2 = DOMAIN cpu /\ c2.reg = c1.reg /\ c2.cpsr = cpu.cpsr
      /\ (c1.conflict = 0 => c2.conflict = 0) /\ c2.cpuModeInvalid = cpu.cpuModeInvalid
  BY <1>3, <1>4 DEF Code, Touch
<1> HIDE DEF c2
<1>6. /\ DOMAIN c3 = DOMAIN cpu /\ c3.reg = c2.reg /\ c3.cpsr = cpu.cpsr
      /\ c3.conflict = c2.conflict /\ c3.cpuModeInvalid = cpu.cpuModeInvalid
  BY <1>3, <1>5
<1> HIDE DEF c3
<1>7. /\ c4.reg = c3.reg /\ c4.cpsr = cpu.cpsr
      /\ c4.conflict = c3.conflict /\ c4.cpuModeInvalid = cpu.cpuModeInvalid
  BY <1>3, <1>6
<1> HIDE DEF c4
<1>8. Ready(slow, contents, booth) = c4
  BY Zenon DEF Ready, FetchedNext, c4, c3, c2, c1, b
<1>9. cpu.conflict = 0 /\ ~cpu.cpuModeInvalid
  BY Zenon DEF Plainly, ldmUsermode
<1>10. \A r \in Register : c4.reg[r] = Found(r)
  <2>1. c4.reg = [cpu.reg EXCEPT ![15] = Aligned(@, 2)]
    BY <1>4, <1>5, <1>6, <1>7, Zenon
  <2>2. cpu.reg \in [Register -> Word]
    BY <1>1 DEF HoldsWords
  <2>3. QED
    BY <2>1, <2>2 DEF Found, Register
<1>11. QED
  BY <1>4, <1>5, <1>6, <1>7, <1>8, <1>9, <1>10, Zenon

\* An instruction on two words leaves the flags of its exact result, and the
\* word of it, unless it is a test.
Computes(c, d, i, a, b) ==
  LET carry == IF c.cpsr.c THEN 1 ELSE 0
      u == Exact(i.code, a, b, carry)
      s == Exact(i.code, Signed(a), Signed(b), carry)
  IN  \E f : /\ Flagged(d, f)
             /\ IsExact(f, u, s, IF i.code \in Sums THEN u >= Size ELSE u >= 0)
             /\ i.code \notin Tests => d.reg[i.rd] = f.value

\* A register that is not shifted is the operand itself.
LEMMA UnshiftedIs ==
  ASSUME NEW x, NEW carry, NEW immediate
  PROVE  DoShift("LSL", x, 0, carry, immediate).value = x
<1>1. 2 ^ AmountWidth \in Nat /\ 2 ^ AmountWidth >= 1
  BY Powers, WidthAssumption
<1>2. (0 % 2 ^ AmountWidth) = 0
  <2> DEFINE m == 2 ^ AmountWidth
  <2> HIDE DEF m
  <2>1. m \in Nat /\ m >= 1 => 0 % m = 0
    OBVIOUS
  <2>2. QED
    BY <1>1, <2>1 DEF m
<1>3. DoShift("LSL", x, 0, carry, immediate) = LSL(x, 0, carry)
  BY <1>2, Zenon DEF DoShift
<1>4. Adjusted(0) = 0
  BY WidthAssumption DEF Adjusted
<1>5. LSL(x, 0, carry) = Shift(x, carry)
  BY <1>4, Zenon DEF LSL
<1>6. Shift(x, carry).value = x
  BY Zenon DEF Shift
<1>7. QED
  BY <1>3, <1>5, <1>6, Zenon

\* Data processing in the ARM state.
LEMMA DataProcessingFlags ==
  ASSUME NEW c, Plain(c), NEW i, i.op = "DataProcessing", ArmEncoding(i), i.rd # 15,
         i.code \in Sums \cup Differences, i.s \/ i.code \in Tests,
         NEW b \in Word,
         \/ i.shifter.kind = "immediate" /\ i.shifter.rot = 0 /\ b = i.shifter.value
         \/ i.shifter.kind = "amount" /\ i.shifter.type = "LSL" /\ i.shifter.amount = 0
            /\ b = c.reg[i.shifter.rm]
  PROVE  Computes(c, ARM_DataProcessing(c, i), i, c.reg[i.rn], b)
<1> DEFINE byRegister == i.shifter.kind = "register"
           amount ==
             CASE byRegister -> GetReg(c, i.shifter.rs)
               [] i.shifter.kind = "amount" -> i.shifter.amount
               [] OTHER -> 0
           c1 == IF byRegister THEN Nonsequential(Idle(Advance(c, 4))) ELSE Sequential(c)
           op2 == Shifted(c1, i.shifter, amount)
           a == Computed(i.code, GetReg(c1, i.rn), op2.value, op2.carry, c.cpsr)
           test == i.code \in Tests
           c2 == IF i.s \/ test THEN SetFlags(c1, a) ELSE c1
           c3 == IF test THEN c2 ELSE SetReg(c2, i.rd, a.value)
           c4 == IF i.s /\ i.rd = 15 THEN RestorePSR(c3) ELSE c3
           n == c.reg[i.rn]
           d == ARM_DataProcessing(c, i)
<1>1. i.rd \in Register /\ i.rn \in Register
  <2>1. {i.rd, i.rn} \subseteq Register
    BY Zenon DEF ArmEncoding
  <2>2. QED
    BY <2>1, Zenon
<1>2. ~byRegister
  OBVIOUS
<1>3. c1 = Sequential(c)
  BY <1>2, Zenon
<1>4. Plain(c1) /\ c1.reg = c.reg /\ c1.cpsr = c.cpsr
  BY <1>3, PlainStays, Zenon
<1>5. \A r : GetReg(c1, r) = c.reg[r]
  <2> HIDE DEF c1
  <2>1. TAKE r
  <2>2. GetReg(c1, r) = c1.reg[r]
    BY <1>4, PlainReads, Zenon
  <2>3. QED
    BY <1>4, <2>2, Zenon
<1>6. op2.value = b
  <2>1. CASE i.shifter.kind = "immediate" /\ i.shifter.rot = 0 /\ b = i.shifter.value
    <3>1. op2 = Immediate(i.shifter.value, i.shifter.rot, c1.cpsr.c)
      BY <2>1, Zenon DEF Shifted
    <3>2. op2 = Shift(b, c1.cpsr.c)
      BY <2>1, <3>1, Zenon DEF Immediate
    <3> HIDE DEF op2
    <3>3. QED
      BY <3>2, Zenon DEF Shift
  <2>2. CASE i.shifter.kind = "amount" /\ i.shifter.type = "LSL" /\ i.shifter.amount = 0
             /\ b = c.reg[i.shifter.rm]
    <3>1. i.shifter.kind # "immediate"
      BY <2>2
    <3>2. amount = 0
      BY <1>2, <2>2, Zenon
    <3>3. GetReg(c1, i.shifter.rm) = b
      BY <1>5, <2>2, Zenon
    <3> DEFINE carry == c1.cpsr.c
               immediate == i.shifter.kind = "amount"
    <3>4. op2 = DoShift(i.shifter.type, GetReg(c1, i.shifter.rm), amount, carry, immediate)
      BY <3>1, Zenon DEF Shifted
    <3> HIDE DEF op2, amount, c1, carry, immediate, byRegister
    <3>5. op2 = DoShift("LSL", b, 0, carry, immediate)
      BY <2>2, <3>2, <3>3, <3>4, Zenon
    <3>6. DoShift("LSL", b, 0, carry, immediate).value = b
      BY UnshiftedIs
    <3>7. QED
      BY <3>5, <3>6, Zenon
  <2>3. QED
    BY <2>1, <2>2
<1> DEFINE f == Computed(i.code, n, b, op2.carry, c.cpsr)
<1>7. a = f
  BY <1>5, <1>6, Zenon
<1>8. c2 = SetFlags(c1, f)
  BY <1>7, Zenon
<1> HIDE DEF byRegister, amount, c1, op2, a, c2, f
<1>9. Plain(c2) /\ Flagged(c2, f) /\ Held(c1) /\ Held(c2)
  <2>1. Plain(c2) /\ Held(c1)
    BY <1>4, <1>8, PlainStays, Zenon DEF Plain
  <2>2. QED
    BY <1>8, <2>1, FlagsAreSet, Zenon DEF Plain
<1>10. n \in Word
  BY <1>1, GetRegWord, Zenon DEF Plain
<1> DEFINE carry == IF c.cpsr.c THEN 1 ELSE 0
           u == Exact(i.code, n, b, carry)
           s == Exact(i.code, Signed(n), Signed(b), carry)
           carried == IF i.code \in Sums THEN u >= Size ELSE u >= 0
<1>11. IsExact(f, u, s, carried)
  <2>1. i.code # "NEG"
    <3>1. i.code \in Tests \cup {"AND", "EOR", "SUB", "RSB", "ADD", "ADC", "SBC", "RSC",
                                   "ORR", "MOV", "BIC", "MVN"}
      BY Zenon DEF ArmEncoding
    <3>2. QED
      BY <3>1 DEF Tests
  <2> HIDE DEF n
  <2>2. QED
    BY <1>10, <2>1, ComputedExact, Zenon DEF f
<1>12. f.value \in Word
  <2>1. f.value = Wrap(u)
    <3> HIDE DEF u, s, carried
    <3>1. QED
      BY <1>11, Zenon DEF IsExact
  <2>2. i.code \in Tests \cup {"AND", "EOR", "SUB", "RSB", "ADD", "ADC", "SBC", "RSC",
                                   "ORR", "MOV", "BIC", "MVN"}
    BY Zenon DEF ArmEncoding
  <2> HIDE DEF n
  <2>3. QED
    BY <1>10, <2>2, ComputedIsWord, Zenon DEF f
<1>13. c3.cpsr = c2.cpsr /\ (~test => c3.reg[i.rd] = f.value)
  <2>1. CASE test
    BY <2>1, Zenon
  <2>2. CASE ~test
    <3>1. c3 = SetReg(c2, i.rd, f.value)
      BY <1>7, <2>2, Zenon
    <3> HIDE DEF c3
    <3>2. SetReg(c2, i.rd, f.value).cpsr = c2.cpsr /\ SetReg(c2, i.rd, f.value).reg[i.rd] = f.value
      BY <1>1, <1>9, PlainWrites
    <3>3. QED
      BY <3>1, <3>2, Zenon
  <2>3. QED
    BY <2>1, <2>2, Zenon
<1>14. Held(c3)
  <2>1. CASE test
    BY <1>9, <2>1, Zenon
  <2>2. CASE ~test
    <3>1. c3 = SetReg(c2, i.rd, f.value)
      BY <1>7, <2>2, Zenon
    <3> HIDE DEF c3
    <3>2. QED
      BY <1>1, <1>9, <1>12, <3>1, SetAlike, Zenon
  <2>3. QED
    BY <2>1, <2>2, Zenon
<1>15. d = Advance(c4, 4) /\ c4 = c3
  <2>1. c4 = c3
    BY Zenon
  <2>2. d = CASE i.rd = 15 /\ ~test -> ReloadSame(c4)
           [] byRegister /\ (i.rd # 15 \/ test) -> c4
           [] OTHER -> Advance(c4, 4)
    BY Zenon DEF ARM_DataProcessing, c4, c3, c2, c1, a, op2, amount, byRegister
  <2> HIDE DEF c4, d
  <2>3. QED
    BY <1>2, <2>1, <2>2, Zenon
<1> HIDE DEF c3, c4, d
<1>16. d.cpsr = c2.cpsr /\ (~test => d.reg[i.rd] = f.value)
  BY <1>1, <1>13, <1>14, <1>15, AdvanceSpares, Zenon
<1>17. Flagged(d, f)
  BY <1>9, <1>16, Zenon DEF Flagged
<1> HIDE DEF u, s, carried
<1>18. \E g : Flagged(d, g) /\ IsExact(g, u, s, carried) /\ (i.code \notin Tests => d.reg[i.rd] = g.value)
  BY <1>11, <1>16, <1>17, Zenon
<1>19. QED
  BY <1>18, Zenon DEF Computes, u, s, carried, carry, d

\* The Thumb handlers keep a result and its flags, before the pc moves on
LEMMA KeptFlags ==
  ASSUME NEW c, Held(c), NEW f, f.value \in Word, NEW rd \in LowRegister
  PROVE  /\ Held(SetFlags(c, f)) /\ Held(Keep(c, f, rd)) /\ Flagged(Keep(c, f, rd), f)
         /\ Keep(c, f, rd).reg[rd] = f.value
<1> DEFINE d == SetFlags(c, f)
           e == PutReg(d, rd, f.value)
<1>1. Held(d) /\ Flagged(d, f)
  BY FlagsKeep, FlagsAreSet, Zenon
<1> HIDE DEF d
<1>2. rd \in Register
  BY LowIs
<1>3. Held(e) /\ e.cpsr = d.cpsr /\ e.reg[rd] = f.value
  BY <1>1, <1>2, PutRegKeeps
<1>4. e = Keep(c, f, rd)
  BY Zenon DEF Keep, d
<1> HIDE DEF e
<1>5. Flagged(e, f)
  BY <1>1, <1>3, Zenon DEF Flagged
<1>6. QED
  BY <1>1, <1>3, <1>4, <1>5, Zenon DEF d

\* and after it.
LEMMA SteppedFlags ==
  ASSUME NEW c, Held(c), NEW f
  PROVE  /\ Held(Stepped(c)) /\ (Flagged(c, f) => Flagged(Stepped(c), f))
         /\ Stepped(c).cpsr = c.cpsr
         /\ \A r \in LowRegister : Stepped(c).reg[r] = c.reg[r]
<1> DEFINE d == Sequential(c)
           e == Advance(d, 2)
<1>1. Held(d) /\ d.cpsr = c.cpsr /\ d.reg = c.reg
  BY SequenceKeeps, Zenon
<1> HIDE DEF d
<1>2. 2 \in Int /\ \A r \in LowRegister : r \in Register /\ r # 15
  BY DEF LowRegister, Register
<1>3. Held(e)
  BY <1>1, <1>2, AdvanceKeeps, Zenon
<1>4. e.cpsr = d.cpsr /\ \A r \in LowRegister : e.reg[r] = d.reg[r]
  BY <1>1, <1>2, AdvanceSpares
<1>5. e = Stepped(c)
  BY Zenon DEF Stepped, d
<1> HIDE DEF e
<1>6. e.cpsr = c.cpsr /\ \A r \in LowRegister : e.reg[r] = c.reg[r]
  BY <1>1, <1>4, Zenon
<1>7. Flagged(c, f) => Flagged(e, f)
  BY <1>6, Zenon DEF Flagged
<1>8. QED
  BY <1>3, <1>5, <1>6, <1>7, Zenon

\* Arithmetic with an operand in a Thumb instruction,
LEMMA Op3Flags ==
  ASSUME NEW c, Held(c), NEW i, i.op = "Op3", ThumbEncoding(i), i.code \in Sums \cup Differences
  PROVE  Computes(c, Thumb_Op3(c, i), i, c.reg[i.rd], i.value)
<1> DEFINE a == c.reg[i.rd]
           b == i.value
           f == Computed(i.code, a, b, c.cpsr.c, c.cpsr)
           carry == IF c.cpsr.c THEN 1 ELSE 0
           u == Exact(i.code, a, b, carry)
           s == Exact(i.code, Signed(a), Signed(b), carry)
           carried == IF i.code \in Sums THEN u >= Size ELSE u >= 0
           d == Thumb_Op3(c, i)
           e == IF i.code = "CMP" THEN SetFlags(c, f) ELSE Keep(c, f, i.rd)
<1>1. i.code \in {"MOV", "CMP", "ADD", "SUB"} /\ i.rd \in LowRegister /\ b \in Word
  BY Zenon DEF ThumbEncoding
<1>2. i.code \in {"CMP", "ADD", "SUB"}
  BY <1>1 DEF Sums, Differences
<1>3. a \in Word
  BY <1>1, LowIs, GetRegWord
<1> HIDE DEF a, b
<1>4. IsExact(f, u, s, carried)
  <2>1. i.code # "NEG"
    BY <1>2
  <2>2. QED
    BY <1>1, <1>3, <2>1, ComputedExact, Zenon
<1>5. f.value \in Word
  <2>1. i.code \in Tests \cup {"AND", "EOR", "SUB", "RSB", "ADD", "ADC", "SBC", "RSC",
                                   "ORR", "MOV", "BIC", "MVN"}
    BY <1>2 DEF Tests
  <2>2. QED
    BY <1>1, <1>3, <2>1, ComputedIsWord, Zenon
<1>6. d = Stepped(e)
  <2>1. CASE i.code = "CMP"
    BY <2>1, Zenon DEF Thumb_Op3, Computed, a, b
  <2>2. CASE i.code = "ADD"
    BY <2>2, Zenon DEF Thumb_Op3, Computed, a, b
  <2>3. CASE i.code = "SUB"
    BY <2>3, Zenon DEF Thumb_Op3, Computed, a, b
  <2>4. QED
    BY <1>2, <2>1, <2>2, <2>3, Zenon
<1> HIDE DEF f, u, s, carried, d
<1>7. Held(e) /\ Flagged(e, f) /\ (i.code \notin Tests => e.reg[i.rd] = f.value)
  <2>1. CASE i.code = "CMP"
    <3>1. e = SetFlags(c, f) /\ i.code \in Tests
      BY <2>1, Zenon DEF Tests
    <3> HIDE DEF e
    <3>2. QED
      BY <1>1, <1>5, <3>1, KeptFlags, FlagsAreSet, Zenon
  <2>2. CASE i.code # "CMP"
    <3>1. e = Keep(c, f, i.rd)
      BY <2>2, Zenon
    <3> HIDE DEF e
    <3>2. QED
      BY <1>1, <1>5, <3>1, KeptFlags, Zenon
  <2>3. QED
    BY <2>1, <2>2, Zenon
<1> HIDE DEF e
<1>8. Flagged(d, f) /\ (i.code \notin Tests => d.reg[i.rd] = f.value)
  <2>1. Flagged(Stepped(e), f) /\ Stepped(e).reg[i.rd] = e.reg[i.rd]
    BY <1>1, <1>7, SteppedFlags
  <2>2. QED
    BY <1>6, <1>7, <2>1, Zenon
<1>9. \E g : Flagged(d, g) /\ IsExact(g, u, s, carried) /\ (i.code \notin Tests => d.reg[i.rd] = g.value)
  BY <1>4, <1>8, Zenon
<1>10. QED
  BY <1>9, Zenon DEF Computes, u, s, carried, carry, d, a, b

\* and with two registers.
LEMMA ALUFlags ==
  ASSUME NEW c, Held(c), NEW i, i.op = "ALU", ThumbEncoding(i), i.code \in Sums \cup Differences
  PROVE  Computes(c, Thumb_ALU(c, i), i, c.reg[i.rd], c.reg[i.rs])
<1> DEFINE a == c.reg[i.rd]
           b == c.reg[i.rs]
           f == IF i.code = "NEG" THEN Subtracted(0, b, 0)
                ELSE Computed(i.code, a, b, c.cpsr.c, c.cpsr)
           carry == IF c.cpsr.c THEN 1 ELSE 0
           u == Exact(i.code, a, b, carry)
           s == Exact(i.code, Signed(a), Signed(b), carry)
           carried == IF i.code \in Sums THEN u >= Size ELSE u >= 0
           d == Thumb_ALU(c, i)
           step == Stepped(c)
<1>1. i.code \in {"ADC", "SBC", "NEG", "CMP", "CMN"} /\ i.rd \in LowRegister /\ i.rs \in LowRegister
  <2>1. /\ i.code \in ShiftKind \cup {"AND", "EOR", "ORR", "BIC", "MVN", "TST", "ADC", "SBC",
                                       "NEG", "CMP", "CMN", "MUL"}
        /\ {i.rd, i.rs} \subseteq LowRegister
    BY Zenon DEF ThumbEncoding
  <2>2. i.rd \in LowRegister /\ i.rs \in LowRegister
    BY <2>1, Zenon
  <2>3. i.code \in {"ADC", "SBC", "NEG", "CMP", "CMN"}
    BY <2>1 DEF ShiftKind, Sums, Differences
  <2>4. QED
    BY <2>2, <2>3, Zenon
<1>2. a \in Word /\ b \in Word
  BY <1>1, LowIs, GetRegWord
<1>3. Held(step) 
  BY SteppedFlags, Zenon
<1> HIDE DEF a, b
<1>4. ASSUME i.code = "NEG" PROVE f = Subtracted(0, b, 0)
  BY <1>4, Zenon
<1>5. ASSUME i.code # "NEG" PROVE f = Computed(i.code, a, b, c.cpsr.c, c.cpsr)
  BY <1>5, Zenon
<1>6. IsExact(f, u, s, carried) /\ f.value \in Word
  <2>1. CASE i.code = "NEG"
    <3>1. 0 \in Word /\ 0 \in {0, 1} /\ Signed(0) = 0 /\ b \in Int /\ 0 \in Int
      BY <1>2, SizeIs, TopAssumption, WordInt DEF Word, Signed, Negative
    <3>2. IsExact(Subtracted(0, b, 0), (0 - b) - 0, (Signed(0) - Signed(b)) - 0, (0 - b) - 0 >= 0)
      BY <1>2, <3>1, SubtractedExact
    <3>3. Signed(b) \in Int
      BY <3>1, SizeIs DEF Signed
    <3>4. u = (0 - b) - 0 /\ s = (Signed(0) - Signed(b)) - 0
      BY <2>1, <3>1, <3>3 DEF Exact
    <3>5. carried = (u >= 0)
      BY <2>1 DEF Sums
    <3>6. Subtracted(0, b, 0).value \in Word
      BY <3>1, ComputedWord
    <3> HIDE DEF f, u, s, carried
    <3>7. QED
      BY <1>4, <2>1, <3>2, <3>4, <3>5, <3>6
  <2>2. CASE i.code # "NEG"
    <3>1. IsExact(Computed(i.code, a, b, c.cpsr.c, c.cpsr), u, s, carried)
      BY <1>2, <2>2, ComputedExact, Zenon
    <3>2. i.code \in Tests \cup {"AND", "EOR", "SUB", "RSB", "ADD", "ADC", "SBC", "RSC",
                                   "ORR", "MOV", "BIC", "MVN"}
      BY <1>1, <2>2 DEF Tests
    <3>3. Computed(i.code, a, b, c.cpsr.c, c.cpsr).value \in Word
      BY <1>2, <3>2, ComputedIsWord, Zenon
    <3> HIDE DEF f, u, s, carried
    <3>4. QED
      BY <1>5, <2>2, <3>1, <3>3, Zenon
  <2>3. QED
    BY <2>1, <2>2, Zenon
<1>7. IF i.code \in {"CMP", "CMN"} THEN d = SetFlags(step, f) ELSE d = Keep(step, f, i.rd)
  <2>1. CASE i.code = "CMP"
    BY <2>1, Zenon DEF Thumb_ALU, Computed, a, b, ShiftKind
  <2>2. CASE i.code = "CMN"
    BY <2>2, Zenon DEF Thumb_ALU, Computed, a, b, ShiftKind
  <2>3. CASE i.code = "ADC"
    BY <2>3, Zenon DEF Thumb_ALU, Computed, a, b, ShiftKind
  <2>4. CASE i.code = "SBC"
    BY <2>4, Zenon DEF Thumb_ALU, Computed, a, b, ShiftKind
  <2>5. CASE i.code = "NEG"
    BY <2>5, Zenon DEF Thumb_ALU, a, b, ShiftKind
  <2>6. QED
    BY <1>1, <2>1, <2>2, <2>3, <2>4, <2>5, Zenon
<1> HIDE DEF f, u, s, carried, d, step
<1>8. Flagged(d, f) /\ (i.code \notin Tests => d.reg[i.rd] = f.value)
  <2>1. CASE i.code \in {"CMP", "CMN"}
    <3>1. d = SetFlags(step, f) /\ i.code \in Tests
      BY <1>7, <2>1, Zenon DEF Tests
    <3>2. QED
      BY <1>3, <3>1, FlagsAreSet, Zenon
  <2>2. CASE i.code \notin {"CMP", "CMN"}
    <3>1. d = Keep(step, f, i.rd)
      BY <1>7, <2>2, Zenon
    <3>2. QED
      BY <1>1, <1>3, <1>6, <3>1, KeptFlags, Zenon
  <2>3. QED
    BY <2>1, <2>2, Zenon
<1>9. \E g : Flagged(d, g) /\ IsExact(g, u, s, carried) /\ (i.code \notin Tests => d.reg[i.rd] = g.value)
  BY <1>6, <1>8, Zenon
<1>10. QED
  BY <1>9, Zenon DEF Computes, u, s, carried, carry, d, a, b

\* The flags, condition by condition.
Results(c, d, i, a, b) ==
  LET carry == IF c.cpsr.c THEN 1 ELSE 0
      u == Exact(i.code, a, b, carry)
      s == Exact(i.code, Signed(a), Signed(b), carry)
      p == d.cpsr
  IN  /\ p.z = (Wrap(u) = 0)
      /\ p.c = IF i.code \in Sums THEN u >= Size ELSE u >= 0
      /\ p.v = (s \notin -Top .. Top - 1)
      /\ CheckCondition("LT", p) = (s < 0)
      /\ CheckCondition("GT", p) = (s >= 0 /\ Wrap(u) # 0)
      /\ i.code \notin Tests => d.reg[i.rd] = Wrap(u)

\* They follow from those of the computation.
LEMMA ComputesFlags ==
  ASSUME NEW c, NEW d, NEW i, NEW a, NEW b, Computes(c, d, i, a, b)
  PROVE  Results(c, d, i, a, b)
<1> DEFINE carry == IF c.cpsr.c THEN 1 ELSE 0
           u == Exact(i.code, a, b, carry)
           s == Exact(i.code, Signed(a), Signed(b), carry)
           carried == IF i.code \in Sums THEN u >= Size ELSE u >= 0
           p == d.cpsr
<1>1. PICK f : /\ Flagged(d, f) /\ IsExact(f, u, s, carried)
               /\ i.code \notin Tests => d.reg[i.rd] = f.value
  BY Zenon DEF Computes
<1> HIDE DEF u, s, carried
<1>2. p.n = f.n /\ p.z = f.z /\ p.c = f.c /\ p.v = f.v
  BY <1>1, Zenon DEF Flagged
<1> HIDE DEF p
<1>3. /\ f.value = Wrap(u) /\ f.z = (Wrap(u) = 0) /\ f.c = carried /\ f.v = (s \notin -Top .. Top - 1)
      /\ (f.n # f.v) = (s < 0) /\ (~(f.z \/ f.n # f.v)) = (s >= 0 /\ Wrap(u) # 0)
  BY <1>1, Zenon DEF IsExact
<1>4. CheckCondition("LT", p) = (p.n # p.v) /\ CheckCondition("GT", p) = (~(p.z \/ p.n # p.v))
  BY Zenon DEF CheckCondition
<1>5. /\ p.z = (Wrap(u) = 0) /\ p.c = carried /\ p.v = (s \notin -Top .. Top - 1)
      /\ i.code \notin Tests => d.reg[i.rd] = Wrap(u)
  BY <1>1, <1>2, <1>3, Zenon
<1>6. (p.n # p.v) = (s < 0) /\ (~(p.z \/ p.n # p.v)) = (s >= 0 /\ Wrap(u) # 0)
  BY <1>2, <1>3, Zenon
<1>7. CheckCondition("LT", p) = (s < 0) /\ CheckCondition("GT", p) = (s >= 0 /\ Wrap(u) # 0)
  BY <1>4, <1>6, Zenon
<1>8. QED
  BY <1>5, <1>7, Zenon DEF Results, u, s, carried, p

\* The operands of an instruction of the ARM state,
LEMMA ArmFlags ==
  ASSUME CpuInv, Plainly, NEW slow, NEW contents \in Int, NEW booth, ~cpu.cpsr.t,
         NEW i, ArmEncoding(i), i.op \in {"DataProcessing", "ALU", "Op3"},
         i.code \in Sums \cup Differences, PlainOperands(i) # << >>, SetsFlags(i), i.rd # 15
  PROVE  LET c == Ready(slow, contents, booth) IN
         Computes(cpu, ArmHandler(c, i), i, Found(PlainOperands(i)[1]), PlainOperands(i)[2])
<1> DEFINE c == Ready(slow, contents, booth)
           s == i.shifter
           b == IF s.kind = "immediate" THEN s.value ELSE Found(s.rm)
           given == s.kind = "immediate" /\ s.rot = 0
           plain == s.kind = "amount" /\ s.type = "LSL" /\ s.amount = 0
<1>1. Settled(cpu) /\ Held(cpu)
  BY SettledParts, Zenon DEF CpuInv
<1>2. Held(c)
  BY <1>1, ReadyFed, Zenon DEF Fed
<1>3. ~c.cpuModeInvalid /\ c.conflict = 0 /\ c.cpsr = cpu.cpsr /\ \A r \in Register : c.reg[r] = Found(r)
  BY <1>1, ReadyPlain, Zenon
<1> HIDE DEF c
<1>4. Plain(c)
  BY <1>2, <1>3, Zenon DEF Plain
<1>5. i.op = "DataProcessing"
  BY Zenon DEF ArmEncoding
<1>6. ArmHandler(c, i) = ARM_DataProcessing(c, i)
  BY <1>5, Zenon DEF ArmHandler
<1>7. /\ {i.rd, i.rn} \subseteq Register /\ Operand(s, {"immediate", "amount", "register"})
  BY <1>5, Zenon DEF ArmEncoding
<1>8. (i.s \/ i.code \in Tests) /\ i.rn \in Register
  BY <1>5, <1>7, Zenon DEF SetsFlags
<1>9. /\ given \/ plain
      /\ PlainOperands(i) = <<i.rn, b>>
  <2>1. CASE given
    BY <1>5, <2>1, Zenon DEF PlainOperands
  <2>2. CASE ~given /\ plain
    BY <1>5, <2>2, Zenon DEF PlainOperands
  <2>3. CASE ~given /\ ~plain
    BY <1>5, <2>3, Zenon DEF PlainOperands
  <2>4. QED
    BY <2>1, <2>2, <2>3, Zenon
<1>10. PlainOperands(i)[1] = i.rn /\ PlainOperands(i)[2] = b
  <2> HIDE DEF b
  <2>1. QED
    BY <1>9
<1>11. b \in Word /\ (plain => b = c.reg[s.rm])
  <2>1. CASE given
    BY <1>7, <2>1, Zenon DEF Operand
  <2>2. CASE plain
    <3>1. s.rm \in Register /\ b = Found(s.rm)
      BY <1>7, <2>2, Zenon DEF Operand
    <3> HIDE DEF b
    <3>2. b = c.reg[s.rm]
      BY <1>3, <3>1, Zenon
    <3>3. QED
      BY <1>2, <3>1, <3>2, GetRegWord, Zenon
  <2>3. QED
    BY <1>9, <2>1, <2>2, Zenon
<1>12. given => b = s.value
  BY Zenon
<1> HIDE DEF b
<1>13. Computes(c, ARM_DataProcessing(c, i), i, c.reg[i.rn], b)
  BY <1>4, <1>5, <1>8, <1>9, <1>11, <1>12, DataProcessingFlags, Zenon
<1>14. c.reg[i.rn] = Found(i.rn)
  BY <1>3, <1>8, Zenon
<1>15. Computes(cpu, ARM_DataProcessing(c, i), i, c.reg[i.rn], b)
  BY <1>3, <1>13, Zenon DEF Computes
<1>16. QED
  BY <1>6, <1>10, <1>14, <1>15, Zenon DEF c

\* and of one of the Thumb state.
LEMMA ThumbFlags ==
  ASSUME CpuInv, Plainly, NEW slow, NEW contents \in Int, NEW booth,
         NEW i, ThumbEncoding(i), i.op \in {"DataProcessing", "ALU", "Op3"},
         i.code \in Sums \cup Differences
  PROVE  LET c == Ready(slow, contents, booth) IN
         Computes(cpu, ThumbHandler(c, i), i, Found(PlainOperands(i)[1]), PlainOperands(i)[2])
<1> DEFINE c == Ready(slow, contents, booth)
<1>1. Settled(cpu) /\ Held(cpu)
  BY SettledParts, Zenon DEF CpuInv
<1>2. Held(c)
  BY <1>1, ReadyFed, Zenon DEF Fed
<1>3. c.cpsr = cpu.cpsr /\ \A r \in Register : c.reg[r] = Found(r)
  BY <1>1, ReadyPlain, Zenon
<1> HIDE DEF c
<1>4. \A r \in LowRegister : Found(r) = c.reg[r] /\ cpu.reg[r] = c.reg[r]
  <2>1. \A r \in LowRegister : r \in Register /\ r # 15
    BY DEF LowRegister, Register
  <2>2. QED
    BY <1>3, <2>1 DEF Found
<1>5. CASE i.op = "Op3"
  <2>1. i.rd \in LowRegister
    BY <1>5, Zenon DEF ThumbEncoding
  <2>2. PlainOperands(i) = <<i.rd, i.value>> /\ ThumbHandler(c, i) = Thumb_Op3(c, i)
    BY <1>5, Zenon DEF PlainOperands, ThumbHandler
  <2>3. Found(PlainOperands(i)[1]) = c.reg[i.rd] /\ PlainOperands(i)[2] = i.value
    BY <1>4, <2>1, <2>2
  <2>4. Computes(c, Thumb_Op3(c, i), i, c.reg[i.rd], i.value)
    BY <1>2, <1>5, Op3Flags, Zenon
  <2>5. Computes(cpu, Thumb_Op3(c, i), i, c.reg[i.rd], i.value)
    BY <1>3, <2>4, Zenon DEF Computes
  <2>6. QED
    BY <2>2, <2>3, <2>5, Zenon DEF c
<1>6. CASE i.op = "ALU"
  <2>1. {i.rd, i.rs} \subseteq LowRegister
    BY <1>6, Zenon DEF ThumbEncoding
  <2>2. PlainOperands(i) = <<i.rd, cpu.reg[i.rs]>> /\ ThumbHandler(c, i) = Thumb_ALU(c, i)
    BY <1>6, Zenon DEF PlainOperands, ThumbHandler
  <2>3. Found(PlainOperands(i)[1]) = c.reg[i.rd] /\ PlainOperands(i)[2] = c.reg[i.rs]
    BY <1>4, <2>1, <2>2
  <2>4. Computes(c, Thumb_ALU(c, i), i, c.reg[i.rd], c.reg[i.rs])
    BY <1>2, <1>6, ALUFlags, Zenon
  <2>5. Computes(cpu, Thumb_ALU(c, i), i, c.reg[i.rd], c.reg[i.rs])
    BY <1>3, <2>4, Zenon DEF Computes
  <2>6. QED
    BY <2>2, <2>3, <2>5, Zenon DEF c
<1>7. i.op # "DataProcessing"
  BY Zenon DEF ThumbEncoding
<1>8. QED
  BY <1>5, <1>6, <1>7, Zenon

\* Every step is exact: those of other actions run no instruction.
LEMMA StepsAreExact ==
  ASSUME CpuInv, CpuNext
  PROVE  ComputesExactly
<1> DEFINE i == ran'.instr
           a == Found(PlainOperands(i)[1])
           b == PlainOperands(i)[2]
<1>1. SUFFICES ASSUME i.op \in {"DataProcessing", "ALU", "Op3"},
                      i.code \in Sums \cup Differences,
                      PlainOperands(i) # << >>, SetsFlags(i), i.rd # 15, Plainly
               PROVE  \E d : /\ cpu'.cpsr = d.cpsr /\ cpu'.reg = d.reg
                             /\ Computes(cpu, d, i, a, b)
  <2>1. ASSUME NEW d, cpu'.cpsr = d.cpsr, cpu'.reg = d.reg, Computes(cpu, d, i, a, b)
        PROVE  LET carry == IF cpu.cpsr.c THEN 1 ELSE 0
                   u == Exact(i.code, a, b, carry)
                   s == Exact(i.code, Signed(a), Signed(b), carry)
                   p == cpu'.cpsr
               IN  /\ p.z = (Wrap(u) = 0)
                   /\ p.c = IF i.code \in Sums THEN u >= Size ELSE u >= 0
                   /\ p.v = (s \notin -Top .. Top - 1)
                   /\ CheckCondition("LT", p) = (s < 0)
                   /\ CheckCondition("GT", p) = (s >= 0 /\ Wrap(u) # 0)
                   /\ i.code \notin Tests => cpu'.reg[i.rd] = Wrap(u)
    <3> HIDE DEF i, a, b
    <3>1. Results(cpu, d, i, a, b)
      BY <2>1, ComputesFlags, Zenon
    <3>2. QED
      BY <2>1, <3>1, Zenon DEF Results
  <2>2. QED
    BY <2>1, Zenon DEF ComputesExactly
<1>2. scenario \in DOMAIN Scenario /\ Settled(cpu)
  BY Zenon DEF CpuInv
<1>3. ASSUME NEW kind, NEW bank PROVE ran' # Event(kind, bank)
  <2>1. Event(kind, bank).instr.op = "none"
    BY Zenon DEF Event, NoInstr
  <2>2. QED
    BY <2>1, <1>1
<1>4. ASSUME NEW d, Held(d) PROVE Ended(d).cpsr = d.cpsr /\ Ended(d).reg = d.reg
  BY <1>4, BesidesKeep, Zenon
<1>5. PICK slow \in Bounds.waits, contents \in Bounds.contents, booth \in Bounds.booth :
        \/ \E j \in Bounds.arm : RunArm(j, slow, contents, booth)
        \/ \E j \in Bounds.thumb : RunThumb(j, slow, contents, booth)
  <2>1. ASSUME NEW v, SetIRQLine(v) PROVE FALSE
    BY <1>3, <2>1, Zenon DEF SetIRQLine
  <2>2. ASSUME NEW slow, SignalIRQ(slow) PROVE FALSE
    BY <1>3, <2>2, Zenon DEF SignalIRQ
  <2>3. ASSUME NEW cond, NEW slow, Skip(cond, slow) PROVE FALSE
    BY <1>3, <2>3, Zenon DEF Skip
  <2>4. ~CopyState /\ ~LoadState /\ ~Reset
    BY <1>3, Zenon DEF CopyState, LoadState, Reset
  <2>5. QED
    BY <2>1, <2>2, <2>3, <2>4, Zenon DEF CpuNext
<1>6. contents \in Int
  BY <1>2, <1>5, ScenarioAssumption, Zenon DEF Bounds
<1> DEFINE c == Ready(slow, contents, booth)
<1>7. ASSUME NEW j \in Bounds.arm, RunArm(j, slow, contents, booth)
      PROVE  \E d : cpu'.cpsr = d.cpsr /\ cpu'.reg = d.reg /\ Computes(cpu, d, i, a, b)
  <2>1. /\ cpu' = Ended(ArmHandler(c, j)) /\ ~cpu.cpsr.t /\ Predictable(c, j) /\ ran' = Ran(j)
    BY <1>7, Zenon DEF RunArm
  <2>2. ArmEncoding(j)
    BY <1>2, <1>7, ScenarioAssumption, Zenon DEF Bounds
  <2>3. i = j
    BY <2>1, Zenon DEF Ran
  <2>4. Computes(cpu, ArmHandler(c, i), i, a, b)
    BY <1>1, <1>6, <2>1, <2>2, <2>3, ArmFlags
  <2>5. Held(ArmHandler(c, j))
    <3>1. Fed(c) /\ c.cpsr = cpu.cpsr
      BY <1>2, <1>6, ReadyFed, Zenon
    <3>2. cpu.cpsr.t \in BOOLEAN
      BY <1>2, SettledParts, HeldParts, Zenon
    <3> HIDE DEF c
    <3>3. InArm(c)
      BY <2>1, <3>1, <3>2, Zenon DEF InArm
    <3>4. QED
      BY <2>1, <2>2, <3>3, ArmSettles, SettledParts, Zenon
  <2>6. QED
    BY <1>4, <2>1, <2>3, <2>4, <2>5, Zenon
<1>8. ASSUME NEW j \in Bounds.thumb, RunThumb(j, slow, contents, booth)
      PROVE  \E d : cpu'.cpsr = d.cpsr /\ cpu'.reg = d.reg /\ Computes(cpu, d, i, a, b)
  <2>1. /\ cpu' = Ended(ThumbHandler(c, j)) /\ cpu.cpsr.t /\ ran' = Ran(j)
    BY <1>8, Zenon DEF RunThumb
  <2>2. ThumbEncoding(j)
    BY <1>2, <1>8, ScenarioAssumption, Zenon DEF Bounds
  <2>3. i = j
    BY <2>1, Zenon DEF Ran
  <2>4. Computes(cpu, ThumbHandler(c, i), i, a, b)
    BY <1>1, <1>6, <2>1, <2>2, <2>3, ThumbFlags
  <2>5. Held(ThumbHandler(c, j))
    <3>1. Fed(c) /\ c.cpsr = cpu.cpsr
      BY <1>2, <1>6, ReadyFed, Zenon
    <3>2. cpu.cpsr.t \in BOOLEAN
      BY <1>2, SettledParts, HeldParts, Zenon
    <3> HIDE DEF c
    <3>3. InThumb(c)
      BY <2>1, <3>1, <3>2, Zenon DEF InThumb
    <3>4. QED
      BY <2>2, <3>3, ThumbSettles, SettledParts, Zenon
  <2>6. QED
    BY <1>4, <2>1, <2>3, <2>4, <2>5, Zenon
<1>9. QED
  BY <1>5, <1>7, <1>8, Zenon

\* In every program ADD, ADC, SUB, SBC, RSB, RSC, NEG, CMP and CMN, in ARM and in
\* Thumb code, leave the flags of the result over the integers, and its word,
\* outside the user-bank window and the modes that do not exist.
THEOREM FlagsExact == CpuSpec => FlagsAreArithmetic
<1>1. CpuInv /\ [CpuNext]_cpuVars => [ComputesExactly]_cpuVars
  BY StepsAreExact
<1>2. QED
  BY <1>1, CpuInvAlways, PTL DEF CpuSpec, FlagsAreArithmetic

\* The quotient is as unique as the remainder,
LEMMA OneQuotient ==
  ASSUME NEW x \in Int, NEW k \in Int, NEW r \in Int, NEW S \in Nat, S > 0, 0 <= r, r < S,
         x = k * S + r
  PROVE  x \div S = k
<1> DEFINE q == x \div S
<1>1. q \in Int /\ x = S * q + r
  BY OneRemainder
<1> HIDE DEF q
<1>2. (k - q) * S = 0
  BY <1>1
<1>3. k - q < 1
  <2>1. SUFFICES ASSUME k - q >= 1 PROVE FALSE
    BY <1>1
  <2>2. (k - q) * S >= 1 * S
    BY <1>1, <2>1
  <2>3. QED
    BY <1>1, <1>2, <2>2
<1>4. k - q > -1
  <2>1. SUFFICES ASSUME k - q <= -1 PROVE FALSE
    BY <1>1
  <2>2. (k - q) * S <= (-1) * S
    BY <1>1, <2>1
  <2>3. QED
    BY <1>1, <1>2, <2>2
<1>5. QED
  BY <1>1, <1>3, <1>4 DEF q

\* and a division by two powers is one by their product.
LEMMA QuotientOfQuotient ==
  ASSUME NEW x \in Int, NEW a \in Nat, NEW b \in Nat
  PROVE  (x \div 2 ^ a) \div 2 ^ b = x \div 2 ^ (a + b) /\ x \div 2 ^ a \in Int
<1> DEFINE A == 2 ^ a
           B == 2 ^ b
           q == x \div A
           r == x % A
           p == q \div B
           t == q % B
<1>1. A \in Nat /\ A >= 1 /\ B \in Nat /\ B >= 1
  BY Powers
<1>2. 2 ^ (a + b) = A * B
  BY PowersMultiply
<1> HIDE DEF A, B
<1>3. q \in Int /\ r \in Int /\ 0 <= r /\ r < A /\ x = A * q + r
  BY <1>1
<1> HIDE DEF q, r
<1>4. p \in Int /\ t \in Int /\ 0 <= t /\ t < B /\ q = B * p + t
  BY <1>1, <1>3
<1> HIDE DEF p, t
<1>5. x = p * (A * B) + (A * t + r)
  <2>1. A * q = A * (B * p) + A * t
    BY <1>1, <1>4
  <2>2. A * (B * p) = p * (A * B)
    BY <1>1, <1>4
  <2>3. A * (B * p) \in Int /\ A * t \in Int
    BY <1>1, <1>4
  <2>4. QED
    BY <1>3, <2>1, <2>2, <2>3
<1>6. A * t + r \in Int /\ 0 <= A * t + r /\ A * t + r < A * B
  <2>1. A * t >= 0 /\ A * t <= A * (B - 1) /\ A * t \in Int
    BY <1>1, <1>4
  <2>2. A * (B - 1) = A * B - A /\ A * B \in Int
    BY <1>1
  <2>3. QED
    BY <1>1, <1>3, <2>1, <2>2
<1>7. A * B \in Nat /\ A * B > 0
  BY <1>1, <1>6
<1>8. x \div (A * B) = p
  <2> DEFINE S == A * B
             u == A * t + r
  <2>1. S \in Nat /\ S > 0 /\ u \in Int /\ 0 <= u /\ u < S /\ x = p * S + u
    BY <1>5, <1>6, <1>7
  <2> HIDE DEF S, u
  <2>2. x \div S = p
    BY <1>4, <2>1, OneQuotient
  <2>3. QED
    BY <2>2 DEF S
<1>9. QED
  BY <1>2, <1>3, <1>8 DEF p, q, A, B

\* The bits of a quotient are the higher ones,
LEMMA BitOfQuotient ==
  ASSUME NEW x \in Int, NEW n \in Nat, NEW k \in Nat
  PROVE  Bit(x \div 2 ^ n, k) = Bit(x, k + n)
<1>1. (x \div 2 ^ n) \div 2 ^ k = x \div 2 ^ (n + k)
  BY QuotientOfQuotient, Zenon
<1>2. n + k = k + n
  OBVIOUS
<1>3. QED
  BY <1>1, <1>2, Zenon DEF Bit

\* those of a multiple move up,
LEMMA BitOfMultiple ==
  ASSUME NEW x \in Int, NEW n \in Nat, NEW k \in Nat
  PROVE  Bit(x * 2 ^ n, k) = (k >= n /\ Bit(x, k - n))
<1> DEFINE y == x * 2 ^ n
<1>1. \A m \in Nat : 2 ^ m \in Nat /\ 2 ^ m >= 1
  BY Powers
<1>2. y \in Int
  BY <1>1
<1>3. CASE k >= n
  <2>1. y \div 2 ^ n = x
    <3> DEFINE S == 2 ^ n
    <3>1. S \in Nat /\ S > 0
      BY <1>1
    <3> HIDE DEF S
    <3>2. (x * S) \div S = x
      <4>1. x * S \in Int /\ x * S = x * S + 0
        BY <3>1
      <4>2. QED
        BY <3>1, <4>1, OneQuotient
    <3>3. QED
      BY <3>2, Zenon DEF S
  <2>2. k - n \in Nat /\ k - n + n = k
    BY <1>3
  <2>3. Bit(y \div 2 ^ n, k - n) = Bit(y, k - n + n)
    BY <1>2, <2>2, BitOfQuotient
  <2> HIDE DEF y
  <2>4. Bit(x, k - n) = Bit(y, k) /\ Bit(y, k) \in BOOLEAN
    <3>1. Bit(y, k) \in BOOLEAN
      BY DEF Bit
    <3>2. QED
      BY <2>1, <2>2, <2>3, <3>1, Zenon
  <2>5. Bit(y, k) = (k >= n /\ Bit(x, k - n))
    BY <1>3, <2>4, Zenon
  <2>6. QED
    BY <2>5, Zenon DEF y
<1>4. CASE k < n
  <2> DEFINE m == n - k - 1
             S == 2 ^ k
             z == x * 2 ^ m
  <2>1. m \in Nat /\ n = k + (m + 1) /\ m + 1 \in Nat
    BY <1>4
  <2>2. 2 ^ n = S * (2 * 2 ^ m) /\ S \in Nat /\ S > 0 /\ 2 ^ m \in Nat
    <3> HIDE DEF m
    <3>1. 2 ^ (k + (m + 1)) = 2 ^ k * 2 ^ (m + 1) /\ 2 ^ (m + 1) = 2 * 2 ^ m
      BY <2>1, PowersMultiply, Powers
    <3>2. QED
      BY <1>1, <2>1, <3>1
  <2>3. y = (2 * z) * S + 0 /\ z \in Int
    <3> DEFINE M == 2 ^ m
    <3>1. M \in Nat /\ 2 ^ n = S * (2 * M)
      BY <2>2
    <3> HIDE DEF M, S
    <3>2. x * (S * (2 * M)) = (2 * (x * M)) * S /\ x * M \in Int
      BY <2>2, <3>1
    <3>3. QED
      BY <2>2, <3>1, <3>2 DEF M
  <2> HIDE DEF S, z
  <2>4. y \div S = 2 * z
    BY <1>2, <2>2, <2>3, OneQuotient
  <2>5. (y \div S) % 2 = 0
    BY <2>3, <2>4
  <2>6. ~Bit(y, k)
    <3> HIDE DEF y
    <3>1. QED
      BY <2>5 DEF Bit, S
  <2>7. ~(k >= n)
    BY <1>4
  <2> HIDE DEF y
  <2>8. Bit(y, k) \in BOOLEAN
    BY DEF Bit
  <2>9. Bit(y, k) = (k >= n /\ Bit(x, k - n))
    BY <2>6, <2>7, <2>8, Zenon
  <2>10. QED
    BY <2>9, Zenon DEF y
<1>5. QED
  BY <1>3, <1>4

\* and bits below a multiple are not touched by it.
LEMMA BitBelow ==
  ASSUME NEW x \in Int, NEW q \in Int, NEW n \in Nat, NEW k \in Nat, k < n
  PROVE  Bit(q * 2 ^ n + x, k) = Bit(x, k)
<1> DEFINE m == n - k - 1
           S == 2 ^ k
           M == 2 ^ m
           a == x \div S
           r == x % S
<1>1. m \in Nat /\ n = k + (m + 1) /\ m + 1 \in Nat
  OBVIOUS
<1>2. 2 ^ n = S * (2 * M) /\ S \in Nat /\ S > 0 /\ M \in Nat
  <2> HIDE DEF m
  <2>1. 2 ^ (k + (m + 1)) = 2 ^ k * 2 ^ (m + 1) /\ 2 ^ (m + 1) = 2 * 2 ^ m
        /\ 2 ^ k \in Nat /\ 2 ^ k >= 1 /\ 2 ^ m \in Nat
    BY <1>1, PowersMultiply, Powers
  <2>2. QED
    BY <1>1, <2>1
<1> HIDE DEF S, M, m
<1>3. a \in Int /\ r \in Int /\ 0 <= r /\ r < S /\ x = S * a + r
  BY <1>2
<1> DEFINE z == q * M
           y == q * 2 ^ n + x
           w == 2 * z + a
<1>4. y = w * S + r /\ z \in Int /\ w \in Int /\ y \in Int
  <2> HIDE DEF a, r
  <2>1. q * (S * (2 * M)) = (2 * (q * M)) * S /\ q * M \in Int
    BY <1>2, <1>3
  <2>2. (2 * (q * M)) * S \in Int /\ S * a \in Int
    BY <1>2, <1>3, <2>1
  <2>3. (2 * (q * M) + a) * S = (2 * (q * M)) * S + S * a
    BY <1>2, <1>3, <2>1
  <2>4. QED
    BY <1>2, <1>3, <2>1, <2>2, <2>3
<1>5. y \div S = w
  <2> HIDE DEF y, w, r
  <2>1. QED
    BY <1>2, <1>3, <1>4, OneQuotient
<1>6. (w % 2) = (a % 2)
  <2> HIDE DEF z, a
  <2>1. QED
    BY <1>3, <1>4
<1>7. Bit(y, k) = Bit(x, k)
  <2>1. ((y \div S) % 2) = ((x \div S) % 2)
    BY <1>5, <1>6
  <2> HIDE DEF y
  <2>2. QED
    BY <2>1 DEF Bit, S
<1>8. QED
  BY <1>7

\* A number and the word it wraps around to have the same bits,
LEMMA BitOfWrap ==
  ASSUME NEW x \in Int, NEW k \in Bits
  PROVE  Bit(Wrap(x), k) = Bit(x, k)
<1> DEFINE q == x \div Size
           r == Wrap(x)
<1>1. Size \in Nat /\ Size > 0 /\ Size = 2 ^ Width /\ Width \in Nat
  BY SizeIs, WidthAssumption
<1>2. q \in Int /\ r \in Int /\ x = q * Size + r
  BY <1>1 DEF Wrap
<1>3. k \in Nat /\ k < Width
  BY WidthAssumption DEF Bits
<1> HIDE DEF q, r
<1>4. Bit(q * 2 ^ Width + r, k) = Bit(r, k)
  <2>1. q \in Int /\ r \in Int /\ Width \in Nat
    BY <1>1, <1>2
  <2>2. QED
    BY <1>3, <2>1, BitBelow
<1>5. QED
  BY <1>1, <1>2, <1>4, Zenon DEF r

\* a word has none beyond its width,
LEMMA BitBeyond ==
  ASSUME NEW x \in Word, NEW k \in Nat, k >= Width
  PROVE  x \div 2 ^ k = 0 /\ ~Bit(x, k) /\ 2 ^ k \in Nat /\ 2 ^ k >= Size
<1> DEFINE S == 2 ^ k
           M == 2 ^ (k - Width)
<1>1. Width \in Nat /\ k - Width \in Nat /\ Width + (k - Width) = k
  BY WidthAssumption
<1>2. S = 2 ^ Width * M /\ M \in Nat /\ M >= 1 /\ S \in Nat
  <2> DEFINE m == k - Width
  <2>1. m \in Nat /\ k = Width + m
    BY <1>1
  <2> HIDE DEF m
  <2>2. 2 ^ (Width + m) = 2 ^ Width * 2 ^ m /\ 2 ^ m \in Nat /\ 2 ^ m >= 1
    BY <1>1, <2>1, PowersMultiply, Powers
  <2>3. S \in Nat
    BY Powers
  <2>4. QED
    BY <2>1, <2>2, <2>3 DEF m
<1>3. Size \in Nat /\ Size > 0 /\ Size = 2 ^ Width
  BY SizeIs
<1> HIDE DEF S, M
<1>4. S >= Size /\ S > 0
  <2>1. Size * M >= Size * 1
    BY <1>2, <1>3
  <2>2. QED
    BY <1>2, <1>3, <2>1
<1>5. x \in Int /\ 0 <= x /\ x < S
  BY <1>2, <1>3, <1>4 DEF Word
<1>6. x \div S = 0
  BY <1>2, <1>4, <1>5, OneQuotient
<1>7. ((x \div S) % 2) = 0
  BY <1>6
<1>8. ~Bit(x, k)
  BY <1>7 DEF Bit, S
<1>9. QED
  BY <1>2, <1>4, <1>6, <1>8 DEF S

\* the highest one is the sign,
LEMMA SignBit ==
  ASSUME NEW x \in Word
  PROVE  Negative(x) = Bit(x, Width - 1)
<1>1. Top \in Nat /\ Top > 0 /\ Size = 2 * Top /\ x \in Int /\ 0 <= x /\ x < Size
  BY SizeIs, TopAssumption DEF Word
<1>2. CASE x >= Top
  <2>1. x - Top \in Int /\ 0 <= x - Top /\ x - Top < Top /\ x = 1 * Top + (x - Top)
    BY <1>1, <1>2
  <2>2. x \div Top = 1
    BY <1>1, <2>1, OneQuotient
  <2>3. QED
    BY <1>2, <2>2, WidthAssumption DEF Negative, Bit
<1>3. CASE x < Top
  <2>1. x \div Top = 0
    BY <1>1, <1>3, OneQuotient
  <2>2. ((x \div Top) % 2) = 0
    BY <2>1
  <2>3. QED
    BY <1>1, <1>3, <2>2, WidthAssumption DEF Negative, Bit
<1>4. QED
  BY <1>1, <1>2, <1>3

\* and a signed word repeats its sign for ever.
LEMMA SignedBit ==
  ASSUME NEW x \in Word, NEW k \in Nat
  PROVE  /\ Signed(x) \in Int
         /\ Bit(Signed(x), k) = Bit(x, IF k < Width THEN k ELSE Width - 1)
<1> DEFINE y == Signed(x)
<1>1. Top \in Nat /\ Top > 0 /\ Size = 2 * Top /\ x \in Int /\ 0 <= x /\ x < Size /\ Size \in Nat
  BY SizeIs, TopAssumption DEF Word
<1>2. y = (IF x >= Top THEN x - Size ELSE x) /\ y \in Int
  BY <1>1 DEF Signed, Negative
<1> HIDE DEF y
<1>3. CASE k < Width
  <2>1. Wrap(y) = x
    BY <1>1, <1>2, WrapIs
  <2>2. k \in Bits
    BY <1>3, WidthAssumption DEF Bits
  <2>3. Bit(y, k) = Bit(x, k)
    BY <1>2, <2>1, <2>2, BitOfWrap
  <2>4. QED
    BY <1>2, <1>3, <2>3, Zenon DEF y
<1>4. CASE ~(k < Width)
  <2> DEFINE S == 2 ^ k
  <2>1. S \in Nat /\ S >= Size /\ ~Bit(x, k)
    BY <1>4, BitBeyond, WidthAssumption
  <2> HIDE DEF S
  <2>2. Negative(x) = Bit(x, Width - 1)
    BY SignBit
  <2>3. CASE x >= Top
    <3>1. y = (-1) * S + (x - Size + S) /\ x - Size + S \in Int /\ 0 <= x - Size + S /\ x - Size + S < S
      BY <1>1, <1>2, <2>1, <2>3
    <3>2. y \div S = -1
      BY <1>1, <1>2, <2>1, <3>1, OneQuotient
    <3>3. ((y \div S) % 2) = 1
      BY <3>2
    <3>4. Bit(y, k) /\ Negative(x)
      BY <2>3, <3>3 DEF Bit, S, Negative
    <3>5. Bit(y, k) = Bit(x, Width - 1)
      BY <2>2, <3>4 DEF Bit
    <3>6. QED
      BY <1>2, <1>4, <3>5, Zenon DEF y
  <2>4. CASE x < Top
    <3>1. y = x /\ ~Negative(x)
      BY <1>1, <1>2, <2>4 DEF Negative
    <3>2. Bit(y, k) = Bit(x, Width - 1)
      BY <2>1, <2>2, <3>1 DEF Bit
    <3>3. QED
      BY <1>2, <1>4, <3>2, Zenon DEF y
  <2>5. QED
    BY <1>1, <2>3, <2>4
<1>5. QED
  BY <1>3, <1>4

\* Every bit of r is the one of x that a shift by n moves there.
Moves(kind, x, n, r) == \A k \in Bits : Bit(r, k) <=> ShiftedBit(kind, x, n, k)

\* A bit is there or not, and the places of bits are numbers.
LEMMA BitsAre ==
  /\ \A x, k : Bit(x, k) \in BOOLEAN
  /\ \A k \in Bits : k \in Nat /\ k < Width
  /\ Width \in Nat /\ Width > 0 /\ Width - 1 \in Nat /\ Width - 1 \in Bits
  /\ \A k \in Nat : k < Width => k \in Bits
  /\ \A x \in Word : x \in Int
  /\ \A k \in Nat : 2 ^ k \in Nat /\ 2 ^ k >= 1
<1>1. Width \in Nat /\ Width > 0
  BY WidthAssumption
<1>2. \A x \in Word : x \in Int
  BY WordInt
<1>3. \A k \in Nat : 2 ^ k \in Nat /\ 2 ^ k >= 1
  BY Powers
<1>4. \A x, k : Bit(x, k) \in BOOLEAN
  BY DEF Bit
<1>5. QED
  BY <1>1, <1>2, <1>3, <1>4 DEF Bits

\* A shift to the left,
LEMMA LSLMoves ==
  ASSUME NEW x \in Word, NEW n \in Nat, n > 0, NEW c
  PROVE  /\ Moves("LSL", x, n, LSL(x, n, c).value)
         /\ LSL(x, n, c).carry = ShiftedOut("LSL", x, n)
<1> DEFINE m == Adjusted(n)
           r == Wrap(x * 2 ^ m)
           y == x * 2 ^ (m - 1)
<1>1. /\ m \in Nat /\ m > 0 /\ m - 1 \in Nat /\ (n <= Width => m = n)
      /\ (n > Width => m = Width + 1)
  BY BitsAre DEF Adjusted
<1>2. LSL(x, n, c).value = r /\ LSL(x, n, c).carry = Negative(Wrap(y))
  BY <1>1 DEF LSL, Shift
<1> HIDE DEF m
<1>3. x * 2 ^ m \in Int /\ y \in Int
  <2>1. 2 ^ m \in Nat /\ 2 ^ (m - 1) \in Nat /\ x \in Int
    BY <1>1, BitsAre
  <2>2. QED
    BY <2>1
<1>4. ASSUME NEW k \in Bits PROVE Bit(r, k) <=> ShiftedBit("LSL", x, n, k)
  <2>1. k \in Nat /\ k < Width
    BY BitsAre
  <2>2. Bit(r, k) = Bit(x * 2 ^ m, k)
    BY <1>3, BitOfWrap
  <2>3. Bit(x * 2 ^ m, k) = (k >= m /\ Bit(x, k - m))
    <3>1. x \in Int /\ m \in Nat /\ k \in Nat
      BY <1>1, <2>1, BitsAre
    <3>2. QED
      BY <3>1, BitOfMultiple, Zenon
  <2>4. ShiftedBit("LSL", x, n, k) = (k >= n /\ Bit(x, k - n))
    BY Zenon DEF ShiftedBit
  <2>5. CASE n <= Width
    <3>1. m = n
      BY <1>1, <2>5
    <3>2. QED
      BY <2>2, <2>3, <2>4, <3>1, Zenon
  <2>6. CASE n > Width
    <3>1. ~(k >= n) /\ ~(k >= m)
      BY <1>1, <2>1, <2>6, BitsAre
    <3> HIDE DEF r
    <3>2. QED
      BY <2>2, <2>3, <2>4, <3>1, Zenon
  <2>7. QED
    BY <2>5, <2>6, BitsAre
<1>5. Negative(Wrap(y)) = ShiftedOut("LSL", x, n)
  <2> DEFINE w == Width - 1
  <2>1. Wrap(y) \in Word /\ w \in Bits /\ w \in Nat
    BY <1>3, WrapWord, BitsAre
  <2>2. Negative(Wrap(y)) = Bit(Wrap(y), w)
    BY <2>1, SignBit
  <2>3. Bit(Wrap(y), w) = Bit(y, w)
    BY <1>3, <2>1, BitOfWrap
  <2>4. Bit(y, w) = (w >= m - 1 /\ Bit(x, w - (m - 1)))
    <3>1. x \in Int /\ m - 1 \in Nat
      BY <1>1, BitsAre
    <3> HIDE DEF w
    <3>2. QED
      BY <2>1, <3>1, BitOfMultiple, Zenon
  <2>5. ShiftedOut("LSL", x, n) = (n <= Width /\ Bit(x, Width - n))
    BY Zenon DEF ShiftedOut
  <2>6. CASE n <= Width
    <3>1. w - (m - 1) = Width - n /\ w >= m - 1
      BY <1>1, <2>6, BitsAre
    <3> HIDE DEF w, y
    <3>2. Negative(Wrap(y)) = Bit(x, Width - n)
      <4>1. Bit(y, w) = Bit(x, Width - n)
        <5>1. Bit(x, Width - n) \in BOOLEAN
          BY BitsAre
        <5>2. Bit(x, w - (m - 1)) = Bit(x, Width - n)
          BY <3>1, Zenon
        <5>3. Bit(y, w) = (TRUE /\ Bit(x, Width - n))
          BY <2>4, <3>1, <5>2
        <5>4. QED
          BY <5>1, <5>3
      <4>2. QED
        BY <2>2, <2>3, <4>1, Zenon
    <3>3. ShiftedOut("LSL", x, n) = Bit(x, Width - n)
      <4>1. Bit(x, Width - n) \in BOOLEAN
        BY BitsAre
      <4>2. QED
        BY <2>5, <2>6, <4>1, Zenon
    <3>4. QED
      BY <3>2, <3>3, Zenon
  <2>7. CASE n > Width
    <3>1. ~(w >= m - 1) /\ ~(n <= Width)
      BY <1>1, <2>7, BitsAre
    <3> HIDE DEF w, y
    <3>2. Negative(Wrap(y)) = FALSE /\ ShiftedOut("LSL", x, n) = FALSE
      BY <2>2, <2>3, <2>4, <2>5, <3>1, Zenon
    <3>3. QED
      BY <3>2, Zenon
  <2>8. QED
    BY <2>6, <2>7, BitsAre
<1>6. QED
  BY <1>2, <1>4, <1>5, Zenon DEF Moves

\* where an encoded amount of none means all places,
LEMMA EffectiveIs ==
  ASSUME NEW amount \in Nat, NEW immediate, immediate \/ amount > 0
  PROVE  LET n == IF immediate /\ amount = 0 THEN Width ELSE amount
             m == Effective(amount, immediate)
         IN  /\ n \in Nat /\ n > 0 /\ m \in Nat /\ m > 0 /\ m - 1 \in Nat
             /\ (n <= Width => m = n) /\ (n > Width => m = Width + 1)
<1>1. CASE immediate /\ amount = 0
  BY <1>1, BitsAre DEF Effective
<1>2. CASE ~(immediate /\ amount = 0)
  <2>1. amount > 0
    BY <1>2
  <2>2. QED
    BY <1>2, <2>1, BitsAre DEF Effective, Adjusted
<1>3. QED
  BY <1>1, <1>2

\* one to the right, into which zeros come,
LEMMA LSRMoves ==
  ASSUME NEW x \in Word, NEW amount \in Nat, NEW immediate, immediate \/ amount > 0, NEW c
  PROVE  LET n == IF immediate /\ amount = 0 THEN Width ELSE amount
             r == LSR(x, amount, c, immediate)
         IN  Moves("LSR", x, n, r.value) /\ r.carry = ShiftedOut("LSR", x, n)
<1> DEFINE n == IF immediate /\ amount = 0 THEN Width ELSE amount
           m == Effective(amount, immediate)
           r == LSR(x, amount, c, immediate)
           v == x \div 2 ^ m
<1>1. /\ n \in Nat /\ n > 0 /\ m \in Nat /\ m > 0 /\ m - 1 \in Nat
      /\ (n <= Width => m = n) /\ (n > Width => m = Width + 1)
  BY EffectiveIs, Zenon
<1>2. r.value = v /\ r.carry = Bit(x, m - 1)
  <2>1. m # 0
    BY <1>1
  <2>2. r = Shift(v, Bit(x, m - 1))
    BY <2>1, Zenon DEF LSR
  <2> HIDE DEF r, v, m
  <2>3. QED
    BY <2>2, Zenon DEF Shift
<1> HIDE DEF n, m, r
<1>3. x \in Int /\ \A k \in Nat : k >= Width => Bit(x, k) = FALSE
  <2>1. \A k \in Nat : k >= Width => ~Bit(x, k)
    BY BitBeyond
  <2>2. QED
    BY <2>1, BitsAre
<1>4. ASSUME NEW k \in Bits PROVE Bit(v, k) <=> ShiftedBit("LSR", x, n, k)
  <2>1. k \in Nat /\ k < Width
    BY BitsAre
  <2>2. Bit(v, k) = Bit(x, k + m)
    BY <1>1, <1>3, <2>1, BitOfQuotient
  <2>3. ShiftedBit("LSR", x, n, k) = (k + n < Width /\ Bit(x, k + n))
    BY Zenon DEF ShiftedBit
  <2>4. CASE k + n < Width
    <3>1. k + m = k + n
      BY <1>1, <2>1, <2>4, BitsAre
    <3> HIDE DEF v
    <3>2. QED
      BY <2>2, <2>3, <2>4, <3>1, Zenon
  <2>5. CASE ~(k + n < Width)
    <3>1. k + m \in Nat /\ k + m >= Width
      BY <1>1, <2>1, <2>5, BitsAre
    <3> HIDE DEF v
    <3>2. ~Bit(x, k + m)
      BY <1>3, <3>1
    <3>3. QED
      BY <2>2, <2>3, <2>5, <3>2, Zenon
  <2>6. QED
    BY <2>4, <2>5, Zenon
<1>5. Bit(x, m - 1) = ShiftedOut("LSR", x, n)
  <2>1. ShiftedOut("LSR", x, n) = (n <= Width /\ Bit(x, n - 1))
    BY Zenon DEF ShiftedOut
  <2>2. CASE n <= Width
    <3>1. Bit(x, m - 1) = Bit(x, n - 1) /\ Bit(x, n - 1) \in BOOLEAN
      BY <1>1, <2>2, BitsAre, Zenon
    <3>2. QED
      BY <2>1, <2>2, <3>1
  <2>3. CASE n > Width
    <3>1. m - 1 >= Width /\ ~(n <= Width)
      BY <1>1, <2>3, BitsAre
    <3>2. Bit(x, m - 1) = FALSE
      BY <1>1, <1>3, <3>1
    <3>3. QED
      BY <2>1, <3>1, <3>2
  <2>4. QED
    BY <1>1, <2>2, <2>3, BitsAre
<1>6. Moves("LSR", x, n, v)
  BY <1>4, Zenon DEF Moves
<1> HIDE DEF v
<1>7. QED
  BY <1>2, <1>5, <1>6, Zenon DEF n, r

\* one that repeats the sign,
LEMMA ASRMoves ==
  ASSUME NEW x \in Word, NEW amount \in Nat, NEW immediate, immediate \/ amount > 0, NEW c
  PROVE  LET n == IF immediate /\ amount = 0 THEN Width ELSE amount
             r == ASR(x, amount, c, immediate)
         IN  Moves("ASR", x, n, r.value) /\ r.carry = ShiftedOut("ASR", x, n)
<1> DEFINE n == IF immediate /\ amount = 0 THEN Width ELSE amount
           m == Effective(amount, immediate)
           r == ASR(x, amount, c, immediate)
           y == Signed(x)
           v == y \div 2 ^ m
           w == Width - 1
           From(k) == IF k < Width THEN k ELSE w
<1>1. /\ n \in Nat /\ n > 0 /\ m \in Nat /\ m > 0 /\ m - 1 \in Nat
      /\ (n <= Width => m = n) /\ (n > Width => m = Width + 1)
  BY EffectiveIs, Zenon
<1>2. r.value = Wrap(v) /\ r.carry = Bit(y, m - 1)
  <2>1. m # 0
    BY <1>1
  <2>2. r = Shift(Wrap(v), Bit(y, m - 1))
    BY <2>1, Zenon DEF ASR
  <2> HIDE DEF r, v, m, y
  <2>3. QED
    BY <2>2, Zenon DEF Shift
<1> HIDE DEF n, m, r
<1>3. y \in Int /\ \A k \in Nat : Bit(y, k) = Bit(x, From(k))
  BY SignedBit
<1> HIDE DEF y
<1>4. ASSUME NEW k \in Bits PROVE Bit(Wrap(v), k) <=> ShiftedBit("ASR", x, n, k)
  <2>1. k \in Nat /\ k < Width
    BY BitsAre
  <2>2. v \in Int
    BY <1>1, <1>3, BitsAre
  <2>3. Bit(Wrap(v), k) = Bit(v, k)
    BY <2>2, BitOfWrap
  <2>4. Bit(v, k) = Bit(y, k + m)
    BY <1>1, <1>3, <2>1, BitOfQuotient
  <2>5. From(k + m) = IF k + n < Width THEN k + n ELSE Width - 1
    BY <1>1, <2>1, BitsAre
  <2>6. Bit(y, k + m) = Bit(x, From(k + m))
    <3>1. k + m \in Nat
      BY <1>1, <2>1
    <3> HIDE DEF From
    <3>2. QED
      BY <1>3, <3>1
  <2>7. ShiftedBit("ASR", x, n, k) = Bit(x, IF k + n < Width THEN k + n ELSE Width - 1)
    BY Zenon DEF ShiftedBit
  <2> HIDE DEF v, From
  <2>8. QED
    BY <2>3, <2>4, <2>5, <2>6, <2>7, Zenon
<1>5. Bit(y, m - 1) = ShiftedOut("ASR", x, n)
  <2>1. Bit(y, m - 1) = Bit(x, From(m - 1))
    <3> HIDE DEF From
    <3>1. QED
      BY <1>1, <1>3
  <2>2. From(m - 1) = IF n <= Width THEN n - 1 ELSE Width - 1
    BY <1>1, BitsAre
  <2>3. ShiftedOut("ASR", x, n) = Bit(x, IF n <= Width THEN n - 1 ELSE Width - 1)
    BY Zenon DEF ShiftedOut
  <2> HIDE DEF From
  <2>4. QED
    BY <2>1, <2>2, <2>3, Zenon
<1>6. Moves("ASR", x, n, Wrap(v))
  BY <1>4, Zenon DEF Moves
<1> HIDE DEF v
<1>7. QED
  BY <1>2, <1>5, <1>6, Zenon DEF n, r

\* A remainder does not see multiples,
LEMMA RemaindersAgree ==
  ASSUME NEW x \in Int, NEW y \in Int, NEW q \in Int, NEW S \in Nat, S > 0, y = S * q + x
  PROVE  (y % S) = (x % S)
<1> DEFINE p == x \div S
           t == x % S
<1>1. p \in Int /\ t \in Int /\ 0 <= t /\ t < S /\ x = S * p + t
  OBVIOUS
<1> HIDE DEF p, t
<1>2. y = (q + p) * S + t
  <2>1. (q + p) * S = S * q + S * p /\ S * q \in Int /\ S * p \in Int
    BY <1>1
  <2>2. QED
    BY <1>1, <2>1
<1>3. (y % S) = t
  BY <1>1, <1>2, OneRemainder
<1>4. QED
  BY <1>3 DEF t

\* so a rotation brings every bit round, whatever the amount.
LEMMA RotatedBit ==
  ASSUME NEW x \in Word, NEW m \in 0 .. Width - 1, NEW k \in Bits
  PROVE  Bit(Rotated(x, m), k) = Bit(x, (k + m) % Width)
<1> DEFINE P == 2 ^ m
           w == Width - m
           Q == 2 ^ w
           a == x \div P
           b == x % P
           r == Rotated(x, m)
<1>1. m \in Nat /\ w \in Nat /\ m < Width /\ Width \in Nat /\ k \in Nat /\ k < Width
  BY BitsAre
<1>2. P \in Nat /\ P >= 1 /\ Q \in Nat /\ Q >= 1 /\ Size = P * Q /\ Size \in Nat /\ Size > 0
  BY <1>1, SizeIs
<1>3. x \in Int /\ 0 <= x /\ x < Size
  BY <1>2 DEF Word
<1> HIDE DEF P, Q
<1>4. a \in Int /\ b \in Int /\ 0 <= b /\ b < P /\ x = P * a + b
  BY <1>2, <1>3
<1> HIDE DEF b
<1>5. 0 <= a /\ a < Q
  <2> HIDE DEF a
  <2>1. a >= 0
    <3>1. SUFFICES ASSUME a <= -1 PROVE FALSE
      BY <1>4
    <3>2. P * a <= P * (-1)
      BY <1>2, <1>4, <3>1
    <3>3. QED
      BY <1>2, <1>3, <1>4, <3>2
  <2>2. a < Q
    <3>1. SUFFICES ASSUME a >= Q PROVE FALSE
      BY <1>2, <1>4
    <3>2. P * a >= P * Q
      BY <1>2, <1>4, <3>1
    <3>3. QED
      BY <1>2, <1>3, <1>4, <3>2
  <2>3. QED
    BY <2>1, <2>2
<1>6. Wrap(x * Q) = b * Q
  <2> HIDE DEF a
  <2>1. x * Q = a * Size + b * Q
    <3>1. (P * a + b) * Q = a * (P * Q) + b * Q
      BY <1>2, <1>4
    <3>2. QED
      BY <1>2, <1>4, <3>1
  <2>2. b * Q \in Int /\ 0 <= b * Q /\ b * Q < Size
    <3>1. b * Q <= (P - 1) * Q /\ b * Q >= 0 /\ b * Q \in Int
      BY <1>2, <1>4
    <3>2. (P - 1) * Q = P * Q - Q
      BY <1>2
    <3>3. QED
      BY <1>2, <3>1, <3>2
  <2> DEFINE u == x * Q
             v == b * Q
  <2>3. u \in Int /\ u = a * Size + v /\ v \in Int /\ 0 <= v /\ v < Size
    BY <1>2, <1>3, <2>1, <2>2
  <2> HIDE DEF u, v
  <2>4. (u % Size) = v
    BY <1>2, <1>4, <2>3, OneRemainder
  <2>5. QED
    BY <2>4, Zenon DEF Wrap, u, v
<1>7. r = b * Q + a /\ r \in Int
  <2>1. r = a + Wrap(x * Q)
    BY Zenon DEF Rotated, a, P, Q
  <2> HIDE DEF r, a
  <2>2. QED
    BY <1>2, <1>4, <1>6, <2>1
<1> HIDE DEF r
<1>8. CASE k < w
  <2>1. Bit(b * 2 ^ w + a, k) = Bit(a, k)
    <3> HIDE DEF a, w
    <3>1. QED
      BY <1>1, <1>4, <1>8, BitBelow
  <2>2. Bit(a, k) = Bit(x, k + m)
    BY <1>1, <1>3, BitOfQuotient, Zenon DEF P
  <2>3. ((k + m) % Width) = k + m
    <3>1. k + m \in Int /\ 0 <= k + m /\ k + m < Width /\ k + m = 0 * Width + (k + m)
      BY <1>1, <1>8
    <3>2. QED
      BY <1>1, <3>1, OneRemainder
  <2> HIDE DEF a, w
  <2>4. Bit(r, k) = Bit(a, k)
    BY <1>7, <2>1, Zenon DEF Q
  <2>5. Bit(r, k) = Bit(x, (k + m) % Width)
    BY <2>2, <2>3, <2>4, Zenon
  <2>6. QED
    BY <2>5, Zenon DEF r
<1>9. CASE ~(k < w)
  <2> DEFINE j == k - w
  <2>1. j \in Nat /\ j < m /\ j + w = k
    BY <1>1, <1>9
  <2>2. r \div Q = b
    <3> HIDE DEF a
    <3>1. QED
      BY <1>2, <1>4, <1>5, <1>7, OneQuotient
  <2>3. Bit(r \div 2 ^ w, j) = Bit(r, j + w)
    <3> HIDE DEF w, j
    <3>1. QED
      BY <1>1, <1>7, <2>1, BitOfQuotient, Zenon
  <2>4. Bit(a * 2 ^ m + b, j) = Bit(b, j)
    <3> HIDE DEF a, j
    <3>1. QED
      BY <1>1, <1>4, <2>1, BitBelow
  <2>5. ((k + m) % Width) = j
    <3>1. k + m \in Int /\ j \in Int /\ 0 <= j /\ j < Width /\ k + m = 1 * Width + j
      BY <1>1, <2>1
    <3> HIDE DEF j
    <3>2. QED
      BY <1>1, <3>1, OneRemainder
  <2>6. a * P + b = x
    <3> HIDE DEF a
    <3>1. QED
      BY <1>2, <1>4
  <2> HIDE DEF a, w, j
  <2>7. Bit(r, k) = Bit(b, j)
    <3>1. Bit(r \div Q, j) = Bit(r, k)
      BY <2>1, <2>3, Zenon DEF Q
    <3>2. QED
      BY <2>2, <3>1, Zenon
  <2>8. Bit(x, j) = Bit(b, j)
    BY <2>4, <2>6, Zenon DEF P
  <2>9. Bit(r, k) = Bit(x, (k + m) % Width)
    BY <2>5, <2>7, <2>8, Zenon
  <2>10. QED
    BY <2>9, Zenon DEF r
<1>10. QED
  BY <1>8, <1>9, Zenon

\* a rotation,
LEMMA RORMoves ==
  ASSUME NEW x \in Word, NEW n \in Nat, n > 0, NEW c, NEW immediate
  PROVE  LET r == ROR(x, n, c, immediate) IN
         Moves("ROR", x, n, r.value) /\ r.carry = ShiftedOut("ROR", x, n)
<1> DEFINE m == n % Width
           q == n \div Width
           v == Rotated(x, m)
           r == ROR(x, n, c, immediate)
           w == Width - 1
<1>1. Width \in Nat /\ Width > 0 /\ w \in Bits /\ w \in Nat
  BY BitsAre
<1>2. m \in Nat /\ m \in 0 .. Width - 1 /\ q \in Int /\ n = Width * q + m
  BY <1>1
<1>3. r.value = v /\ r.carry = Negative(v)
  <2>1. n # 0
    OBVIOUS
  <2>2. r = Shift(v, Negative(v))
    BY <2>1, Zenon DEF ROR
  <2> HIDE DEF r, v
  <2>3. QED
    BY <2>2, Zenon DEF Shift
<1>4. v \in Word
  <2> HIDE DEF m, q
  <2>1. m \in 0 .. Width
    BY <1>1, <1>2
  <2>2. QED
    BY <2>1, RotatedWord, Zenon
<1> HIDE DEF m, q, r
<1>5. ASSUME NEW k \in Bits PROVE Bit(v, k) = Bit(x, (k + n) % Width)
  <2>1. Bit(v, k) = Bit(x, (k + m) % Width)
    BY <1>2, RotatedBit
  <2>2. ((k + n) % Width) = ((k + m) % Width)
    <3>1. k + m \in Int /\ k + n \in Int /\ k + n = Width * q + (k + m)
      BY <1>1, <1>2, BitsAre
    <3>2. QED
      BY <1>1, <1>2, <3>1, RemaindersAgree
  <2> HIDE DEF v
  <2>3. QED
    BY <2>1, <2>2, Zenon
<1> HIDE DEF v
<1>6. ((n - 1) % Width) = ((w + n) % Width)
  <2>1. w + n \in Int /\ n - 1 \in Int /\ w + n = Width * 1 + (n - 1) /\ 1 \in Int
    BY <1>1
  <2>2. QED
    BY <1>1, <2>1, RemaindersAgree
<1>7. Negative(v) = ShiftedOut("ROR", x, n)
  <2>1. Negative(v) = Bit(v, w)
    BY <1>4, SignBit
  <2>2. ShiftedOut("ROR", x, n) = Bit(x, (n - 1) % Width)
    BY Zenon DEF ShiftedOut
  <2>3. QED
    BY <1>1, <1>5, <1>6, <2>1, <2>2, Zenon
<1>8. Moves("ROR", x, n, v)
  <2>1. \A k \in Bits : ShiftedBit("ROR", x, n, k) = Bit(x, (k + n) % Width)
    BY Zenon DEF ShiftedBit
  <2>2. QED
    BY <1>5, <2>1, Zenon DEF Moves
<1>9. QED
  BY <1>3, <1>7, <1>8, Zenon DEF r

\* one by a single place through the carry,
LEMMA ThroughCarry ==
  ASSUME NEW x \in Word, NEW c
  PROVE  LET v == (x \div 2) + (IF c THEN Top ELSE 0) IN
         \A k \in Bits : Bit(v, k) <=> IF k = Width - 1 THEN c ELSE Bit(x, k + 1)
<1> DEFINE h == x \div 2
           t == IF c THEN 1 ELSE 0
           v == h + (IF c THEN Top ELSE 0)
           w == Width - 1
<1>1. Top \in Nat /\ Size = 2 * Top /\ Top > 0 /\ x \in Int /\ 0 <= x /\ x < Size /\ Top = 2 ^ w
  BY SizeIs, TopAssumption, WidthAssumption DEF Word
<1>2. h \in Int /\ 0 <= h /\ h < Top
  BY <1>1
<1>3. t \in Int /\ v = t * Top + h /\ v \in Int /\ 0 <= v /\ v < Size
  <2> HIDE DEF h
  <2>1. QED
    BY <1>1, <1>2
<1>4. h = x \div 2 ^ 1
  <2>1. 2 ^ 1 = 2
    OBVIOUS
  <2>2. QED
    BY <2>1, Zenon
<1>5. ASSUME NEW k \in Bits PROVE Bit(v, k) <=> IF k = w THEN c ELSE Bit(x, k + 1)
  <2>1. k \in Nat /\ k < Width /\ w \in Nat /\ 1 \in Nat
    BY BitsAre
  <2>2. CASE k = w
    <3>1. v \in Word
      BY <1>1, <1>3 DEF Word
    <3>2. Negative(v) <=> c
      <4> HIDE DEF h
      <4>1. QED
        BY <1>1, <1>2 DEF Negative
    <3> HIDE DEF v
    <3>3. Negative(v) = Bit(v, Width - 1)
      BY <3>1, SignBit
    <3>4. QED
      BY <2>2, <3>2, <3>3, Zenon
  <2>3. CASE k # w
    <3>1. k < w
      <4>1. Width \in Nat /\ w = Width - 1
        BY BitsAre
      <4> HIDE DEF w
      <4>2. QED
        BY <2>1, <2>3, <4>1
    <3>2. Bit(t * 2 ^ w + h, k) = Bit(h, k)
      <4> HIDE DEF t, h, w
      <4>1. QED
        BY <1>2, <1>3, <2>1, <3>1, BitBelow
    <3>3. Bit(h, k) = Bit(x, k + 1)
      <4>1. Bit(x \div 2 ^ 1, k) = Bit(x, k + 1)
        BY <1>1, <2>1, BitOfQuotient, Zenon
      <4> HIDE DEF h
      <4>2. QED
        BY <1>4, <4>1, Zenon
    <3> HIDE DEF t, h, v
    <3>4. Bit(v, k) = Bit(h, k)
      BY <1>1, <1>3, <3>2, Zenon
    <3>5. QED
      BY <2>3, <3>3, <3>4, Zenon
  <2>4. QED
    BY <2>2, <2>3, Zenon
<1>6. QED
  BY <1>5, Zenon

\* and no shift at all.
LEMMA NoMove ==
  ASSUME NEW x \in Word, NEW kind \in ShiftKind
  PROVE  Moves(kind, x, 0, x)
<1>1. SUFFICES ASSUME NEW k \in Bits PROVE Bit(x, k) <=> ShiftedBit(kind, x, 0, k)
  BY Zenon DEF Moves
<1>2. k \in Nat /\ k < Width /\ k - 0 = k /\ k + 0 = k /\ k >= 0 /\ Width \in Nat
  BY BitsAre
<1>3. (k % Width) = k
  BY <1>2, OneRemainder, k = 0 * Width + k
<1>4. CASE kind = "LSL"
  <2>1. ShiftedBit(kind, x, 0, k) = (k >= 0 /\ Bit(x, k - 0))
    BY <1>4, Zenon DEF ShiftedBit
  <2>2. QED
    BY <1>2, <2>1, Zenon
<1>5. CASE kind = "LSR"
  <2>1. ShiftedBit(kind, x, 0, k) = (k + 0 < Width /\ Bit(x, k + 0))
    BY <1>5, Zenon DEF ShiftedBit
  <2>2. QED
    BY <1>2, <2>1, Zenon
<1>6. CASE kind = "ASR"
  <2>1. ShiftedBit(kind, x, 0, k) = Bit(x, IF k + 0 < Width THEN k + 0 ELSE Width - 1)
    BY <1>6, Zenon DEF ShiftedBit
  <2>2. QED
    BY <1>2, <2>1, Zenon
<1>7. CASE kind = "ROR"
  <2>1. ShiftedBit(kind, x, 0, k) = Bit(x, (k + 0) % Width)
    BY <1>7, Zenon DEF ShiftedBit
  <2>2. QED
    BY <1>2, <1>3, <2>1, Zenon
<1>8. QED
  BY <1>4, <1>5, <1>6, <1>7, Zenon DEF ShiftKind

\* The shifter does what the kind and the amount of a shift mean.
LEMMA DoShiftMoves ==
  ASSUME NEW kind \in ShiftKind, NEW x \in Word, NEW amount \in Nat, NEW c, NEW encoded
  PROVE  LET s == DoShift(kind, x, amount, c, encoded) IN
         MovedExactly(kind, x, amount, c, encoded, s.value, s.carry)
<1> DEFINE given == amount % 2 ^ AmountWidth
           n == IF encoded /\ given = 0 /\ kind \in {"LSR", "ASR"} THEN Width ELSE given
           through == encoded /\ given = 0 /\ kind = "ROR"
           s == DoShift(kind, x, amount, c, encoded)
           out == CASE through -> Bit(x, 0) [] ~through /\ n = 0 -> c [] OTHER -> ShiftedOut(kind, x, n)
<1>9. SUFFICES MovedExactly(kind, x, amount, c, encoded, s.value, s.carry)
  BY Zenon
<1>1. given \in Nat
  <2>1. 2 ^ AmountWidth \in Nat /\ 2 ^ AmountWidth >= 1
    BY Powers, WidthAssumption
  <2>2. QED
    BY <2>1
<1>2. s = CASE kind = "LSL" -> LSL(x, given, c)
            [] kind = "LSR" -> LSR(x, given, c, encoded)
            [] kind = "ASR" -> ASR(x, given, c, encoded)
            [] kind = "ROR" -> ROR(x, given, c, encoded)
  BY Zenon DEF DoShift
<1> HIDE DEF given, s
<1>3. n \in Nat
  BY <1>1, BitsAre
<1>4. CASE through
  <2> DEFINE v == (x \div 2) + (IF c THEN Top ELSE 0)
  <2>1. s = ROR(x, given, c, encoded)
    BY <1>2, <1>4, Zenon
  <2>2. s = Shift(v, Bit(x, 0))
    BY <1>4, <2>1, Zenon DEF ROR
  <2>3. \A k \in Bits : Bit(v, k) <=> IF k = Width - 1 THEN c ELSE Bit(x, k + 1)
    BY ThroughCarry, Zenon
  <2> HIDE DEF v
  <2>4. s.value = v /\ s.carry = Bit(x, 0)
    BY <2>2, Zenon DEF Shift
  <2>5. \A k \in Bits : Bit(s.value, k) <=> IF through THEN IF k = Width - 1 THEN c ELSE Bit(x, k + 1)
                                            ELSE ShiftedBit(kind, x, n, k)
    BY <1>4, <2>3, <2>4, Zenon
  <2>6. s.carry = out
    BY <1>4, <2>4, Zenon
  <2>7. QED
    BY <2>5, <2>6, Zenon DEF MovedExactly, given, s
<1>5. ASSUME ~through /\ Moves(kind, x, n, s.value),
             s.carry = IF n = 0 THEN c ELSE ShiftedOut(kind, x, n)
      PROVE  MovedExactly(kind, x, amount, c, encoded, s.value, s.carry)
  <2>1. \A k \in Bits : Bit(s.value, k) <=> IF through THEN IF k = Width - 1 THEN c ELSE Bit(x, k + 1)
                                            ELSE ShiftedBit(kind, x, n, k)
    BY <1>5, Zenon DEF Moves
  <2>2. s.carry = out
    BY <1>5, Zenon
  <2>3. QED
    BY <2>1, <2>2, Zenon DEF MovedExactly, given
<1>6. CASE ~through /\ n = 0
  <2>1. s = Shift(x, c)
    <3>1. CASE kind = "LSL"
      <4>1. Adjusted(given) = 0 /\ s = LSL(x, given, c)
        BY <1>2, <1>6, <3>1, BitsAre DEF Adjusted
      <4>2. QED
        BY <4>1, Zenon DEF LSL
    <3>2. CASE kind = "LSR"
      <4>1. given = 0 /\ ~(encoded /\ given = 0)
        BY <1>6, <3>2, BitsAre
      <4>2. s = LSR(x, given, c, encoded)
        BY <1>2, <3>2, Zenon
      <4>3. Effective(given, encoded) = 0
        BY <4>1, BitsAre DEF Effective, Adjusted
      <4>4. QED
        BY <4>2, <4>3, Zenon DEF LSR
    <3>3. CASE kind = "ASR"
      <4>1. given = 0 /\ ~(encoded /\ given = 0)
        BY <1>6, <3>3, BitsAre
      <4>2. s = ASR(x, given, c, encoded)
        BY <1>2, <3>3, Zenon
      <4>3. Effective(given, encoded) = 0
        BY <4>1, BitsAre DEF Effective, Adjusted
      <4>4. QED
        BY <4>2, <4>3, Zenon DEF ASR
    <3>4. CASE kind = "ROR"
      <4>1. given = 0 /\ ~encoded
        BY <1>6, <3>4
      <4>2. s = ROR(x, given, c, encoded)
        BY <1>2, <3>4, Zenon
      <4>3. QED
        BY <4>1, <4>2, Zenon DEF ROR
    <3>5. QED
      BY <3>1, <3>2, <3>3, <3>4, Zenon DEF ShiftKind
  <2>2. s.value = x /\ s.carry = c
    BY <2>1, Zenon DEF Shift
  <2>3. Moves(kind, x, 0, x)
    BY NoMove, Zenon
  <2>4. ~through /\ Moves(kind, x, n, s.value)
    <3> HIDE DEF n, through
    <3>1. QED
      BY <1>6, <2>2, <2>3, Zenon
  <2>5. s.carry = IF n = 0 THEN c ELSE ShiftedOut(kind, x, n)
    <3> HIDE DEF n, through
    <3>1. QED
      BY <1>6, <2>2, Zenon
  <2>6. QED
    <3> HIDE DEF n, through, s
    <3>1. QED
      BY <1>5, <2>4, <2>5, Zenon
<1>7. CASE ~through /\ n # 0
  <2>1. Moves(kind, x, n, s.value) /\ s.carry = ShiftedOut(kind, x, n)
    <3>1. CASE kind = "LSL"
      <4>1. s = LSL(x, given, c) /\ n = given
        BY <1>2, <3>1
      <4>2. given > 0
        BY <1>1, <1>7, <4>1
      <4> HIDE DEF n
      <4>3. QED
        BY <1>1, <3>1, <4>1, <4>2, LSLMoves, Zenon
    <3>2. CASE kind = "LSR"
      <4>1. s = LSR(x, given, c, encoded) /\ n = (IF encoded /\ given = 0 THEN Width ELSE given)
        BY <1>2, <3>2
      <4>2. encoded \/ given > 0
        BY <1>1, <1>7, <4>1
      <4> HIDE DEF n
      <4>3. QED
        BY <1>1, <3>2, <4>1, <4>2, LSRMoves, Zenon
    <3>3. CASE kind = "ASR"
      <4>1. s = ASR(x, given, c, encoded) /\ n = (IF encoded /\ given = 0 THEN Width ELSE given)
        BY <1>2, <3>3
      <4>2. encoded \/ given > 0
        BY <1>1, <1>7, <4>1
      <4> HIDE DEF n
      <4>3. QED
        BY <1>1, <3>3, <4>1, <4>2, ASRMoves, Zenon
    <3>4. CASE kind = "ROR"
      <4>1. s = ROR(x, given, c, encoded) /\ n = given
        BY <1>2, <3>4
      <4>2. given > 0
        BY <1>1, <1>7, <4>1
      <4> HIDE DEF n
      <4>3. QED
        BY <1>1, <3>4, <4>1, <4>2, RORMoves, Zenon
    <3>5. QED
      BY <3>1, <3>2, <3>3, <3>4, Zenon DEF ShiftKind
  <2>2. ~through /\ Moves(kind, x, n, s.value)
    <3> HIDE DEF n, through
    <3>1. QED
      BY <1>7, <2>1, Zenon
  <2>3. s.carry = IF n = 0 THEN c ELSE ShiftedOut(kind, x, n)
    <3> HIDE DEF n, through
    <3>1. QED
      BY <1>7, <2>1, Zenon
  <2>4. QED
    <3> HIDE DEF n, through, s
    <3>1. QED
      BY <1>5, <2>2, <2>3, Zenon
<1>8. QED
  <2> HIDE DEF n, through, s
  <2>1. QED
    BY <1>4, <1>6, <1>7, Zenon

\* The value and the carry of a shift are kept with the overflow as it was
LEMMA LogicalFlags ==
  ASSUME NEW r, NEW carry, NEW v, NEW d, Flagged(d, Logical(r, carry, v))
  PROVE  d.cpsr.c = carry
BY DEF Flagged, Logical

\* by a Thumb instruction with the amount in it,
LEMMA MoveShiftedExact ==
  ASSUME NEW c, Held(c), NEW i, i.op = "MoveShiftedRegister", ThumbEncoding(i),
         NEW encoded, encoded = TRUE
  PROVE  LET d == Thumb_MoveShiftedRegister(c, i) IN
         MovedExactly(i.type, c.reg[i.rs], i.amount, c.cpsr.c, encoded, d.reg[i.rd], d.cpsr.c)
<1> DEFINE x == c.reg[i.rs]
           s == DoShift(i.type, x, i.amount, c.cpsr.c, encoded)
           a == Logical(s.value, s.carry, c.cpsr.v)
           e == Keep(c, a, i.rd)
           d == Thumb_MoveShiftedRegister(c, i)
<1>1. i.rd \in LowRegister /\ i.rs \in LowRegister /\ i.type \in ShiftKind /\ i.amount \in Nat
  <2>1. {i.rd, i.rs} \subseteq LowRegister /\ i.type \in ShiftKind /\ i.amount \in Nat
    BY Zenon DEF ThumbEncoding
  <2>2. QED
    BY <2>1, Zenon
<1>2. x \in Word
  BY <1>1, LowIs, GetRegWord, Zenon
<1>3. d = Stepped(e)
  BY Zenon DEF Thumb_MoveShiftedRegister
<1>4. MovedExactly(i.type, x, i.amount, c.cpsr.c, encoded, s.value, s.carry)
  <2> HIDE DEF x
  <2>1. QED
    BY <1>1, <1>2, DoShiftMoves, Zenon
<1>5. s.value \in Word
  <2> HIDE DEF x
  <2>1. QED
    BY <1>1, <1>2, ShiftWord, Zenon
<1> HIDE DEF s, x, d
<1>6. a.value = s.value
  BY LogicalValue, Zenon
<1> HIDE DEF a
<1>7. Held(e) /\ Flagged(e, a) /\ e.reg[i.rd] = s.value
  BY <1>1, <1>5, <1>6, KeptFlags, Zenon
<1> HIDE DEF e
<1>8. Flagged(d, a) /\ d.reg[i.rd] = s.value
  BY <1>1, <1>3, <1>7, SteppedFlags, Zenon
<1>9. d.cpsr.c = s.carry
  BY <1>8, LogicalFlags, Zenon DEF a
<1>10. MovedExactly(i.type, x, i.amount, c.cpsr.c, encoded, d.reg[i.rd], d.cpsr.c)
  BY <1>4, <1>8, <1>9, Zenon
<1>11. QED
  BY <1>10, Zenon DEF x, d

\* An idle cycle after the pc has moved on leaves the low registers alone.
LEMMA WorkingSpares ==
  ASSUME NEW c, Held(c)
  PROVE  Held(Idle(Busy(c)))
<1> DEFINE n == Nonsequential(c)
           b == Advance(n, 2)
<1>1. Held(n)
  BY SequenceKeeps, Zenon
<1> HIDE DEF n
<1>2. 2 \in Int
  OBVIOUS
<1>3. Held(b)
  BY <1>1, <1>2, AdvanceKeeps, Zenon
<1> HIDE DEF b
<1>4. Held(Idle(b))
  BY <1>3, TouchHeld, Zenon DEF Idle
<1>5. QED
  BY <1>4, Zenon DEF Busy, b, n

\* by one with the amount in a register,
LEMMA ALUShiftExact ==
  ASSUME NEW c, Held(c), NEW i, i.op = "ALU", i.code \in ShiftKind, ThumbEncoding(i),
         NEW encoded, encoded = FALSE
  PROVE  LET d == Thumb_ALU(c, i) IN
         MovedExactly(i.code, c.reg[i.rd], c.reg[i.rs], c.cpsr.c, encoded, d.reg[i.rd], d.cpsr.c)
<1> DEFINE x == c.reg[i.rd]
           b == c.reg[i.rs]
           s == DoShift(i.code, x, b, c.cpsr.c, encoded)
           a == Logical(s.value, s.carry, c.cpsr.v)
           working == Idle(Busy(c))
           d == Thumb_ALU(c, i)
<1>1. i.rd \in LowRegister /\ i.rs \in LowRegister
  <2>1. {i.rd, i.rs} \subseteq LowRegister
    BY Zenon DEF ThumbEncoding
  <2>2. QED
    BY <2>1, Zenon
<1>2. x \in Word /\ b \in Word /\ b \in Nat
  BY <1>1, LowIs, GetRegWord, WordInt, Zenon
<1>3. i.code \notin {"AND", "EOR", "ORR", "BIC", "MVN", "TST", "ADC", "SBC",
                     "NEG", "CMP", "CMN", "MUL"}
  BY DEF ShiftKind
<1>4. d = Keep(working, a, i.rd)
  BY <1>3, Zenon DEF Thumb_ALU
<1>5. MovedExactly(i.code, x, b, c.cpsr.c, encoded, s.value, s.carry)
  <2> HIDE DEF x, b
  <2>1. QED
    BY <1>2, DoShiftMoves, Zenon
<1>6. s.value \in Word
  <2> HIDE DEF x, b
  <2>1. QED
    BY <1>2, ShiftWord, Zenon
<1>7. Held(working)
  BY WorkingSpares, Zenon
<1> HIDE DEF s, x, b, d, working
<1>8. a.value = s.value
  BY LogicalValue, Zenon
<1> HIDE DEF a
<1>9. Flagged(d, a) /\ d.reg[i.rd] = s.value
  BY <1>1, <1>4, <1>6, <1>7, <1>8, KeptFlags, Zenon
<1>10. d.cpsr.c = s.carry
  BY <1>9, LogicalFlags, Zenon DEF a
<1>11. MovedExactly(i.code, x, b, c.cpsr.c, encoded, d.reg[i.rd], d.cpsr.c)
  BY <1>5, <1>9, <1>10, Zenon
<1>12. QED
  BY <1>11, Zenon DEF x, b, d

\* The cycle a shift by a register takes changes r15 only.
LEMMA RegisterCycle ==
  ASSUME NEW c, Plain(c)
  PROVE  LET d == Nonsequential(Idle(Advance(c, 4))) IN
         Plain(d) /\ d.cpsr = c.cpsr /\ \A r \in Register : r # 15 => d.reg[r] = c.reg[r]
<1> DEFINE d == Advance(c, 4)
           e == Idle(d)
           f == Nonsequential(e)
<1>1. Held(c) /\ HoldsWords(c) /\ 4 \in Int /\ ~c.cpuModeInvalid /\ c.conflict = 0
  BY DEF Plain, Held
<1>2. Held(d) /\ d.cpsr = c.cpsr /\ \A r \in Register : r # 15 => d.reg[r] = c.reg[r]
  <2>1. Held(d)
    BY <1>1, AdvanceKeeps, Zenon
  <2>2. d.cpsr = c.cpsr /\ \A r \in Register : r # 15 => d.reg[r] = c.reg[r]
    BY <1>1, AdvanceSpares
  <2>3. QED
    BY <2>1, <2>2, Zenon
<1>3. d.conflict = c.conflict /\ d.cpuModeInvalid = c.cpuModeInvalid
  BY <1>1, FieldsAre DEF Advance
<1> HIDE DEF d
<1>4. Held(e)
  BY <1>2, TouchHeld, Zenon DEF Idle
<1>5. e.cpsr = d.cpsr /\ e.reg = d.reg
  BY <1>2, TouchFields DEF Idle
<1>6. e.conflict = 0 /\ e.cpuModeInvalid = d.cpuModeInvalid
  <2>1. HoldsWords(d) /\ d.conflict = 0
    BY <1>1, <1>2, <1>3 DEF Held
  <2>2. QED
    BY <2>1, FieldsAre DEF Idle, Touch
<1> HIDE DEF e
<1>7. Held(f) /\ f.cpsr = e.cpsr /\ f.reg = e.reg
  BY <1>4, SequenceKeeps, Zenon
<1>8. f.conflict = e.conflict /\ f.cpuModeInvalid = e.cpuModeInvalid
  <2>1. HoldsWords(e)
    BY <1>4 DEF Held
  <2>2. QED
    BY <2>1, FieldsAre DEF Nonsequential
<1> HIDE DEF f
<1>9. Plain(f) /\ f.cpsr = c.cpsr /\ \A r \in Register : r # 15 => f.reg[r] = c.reg[r]
  BY <1>1, <1>2, <1>3, <1>5, <1>6, <1>7, <1>8, Zenon DEF Plain
<1>10. QED
  BY <1>9, Zenon DEF f, e, d

\* and by one of the ARM state.
LEMMA MOVExact ==
  ASSUME NEW c, Plain(c), NEW i, i.op = "DataProcessing", ArmEncoding(i), i.code = "MOV", i.s,
         i.rd # 15, i.shifter.kind \in {"amount", "register"}, i.shifter.rm # 15,
         NEW encoded, encoded = (i.shifter.kind = "amount"),
         NEW given, given = IF i.shifter.kind = "amount" THEN i.shifter.amount
                            ELSE c.reg[i.shifter.rs]
  PROVE  LET d == ARM_DataProcessing(c, i) IN
         MovedExactly(i.shifter.type, c.reg[i.shifter.rm], given, c.cpsr.c, encoded,
                      d.reg[i.rd], d.cpsr.c)
<1> DEFINE byRegister == i.shifter.kind = "register"
           amount ==
             CASE byRegister -> GetReg(c, i.shifter.rs)
               [] i.shifter.kind = "amount" -> i.shifter.amount
               [] OTHER -> 0
           c1 == IF byRegister THEN Nonsequential(Idle(Advance(c, 4))) ELSE Sequential(c)
           op2 == Shifted(c1, i.shifter, amount)
           a == Computed(i.code, GetReg(c1, i.rn), op2.value, op2.carry, c.cpsr)
           test == i.code \in Tests
           c2 == IF i.s \/ test THEN SetFlags(c1, a) ELSE c1
           c3 == IF test THEN c2 ELSE SetReg(c2, i.rd, a.value)
           c4 == IF i.s /\ i.rd = 15 THEN RestorePSR(c3) ELSE c3
           kinds == {"immediate", "amount", "register"}
           x == c.reg[i.shifter.rm]
           carry == c.cpsr.c
           d == ARM_DataProcessing(c, i)
<1>1. i.rd \in Register /\ i.shifter.rm \in Register /\ i.shifter.type \in ShiftKind
  <2>1. {i.rd, i.rn} \subseteq Register /\ Operand(i.shifter, kinds)
    BY Zenon DEF ArmEncoding
  <2>2. i.shifter.kind # "immediate"
    OBVIOUS
  <2>3. QED
    BY <2>1, <2>2, Zenon DEF Operand
<1>2. given \in Nat
  <2>1. Operand(i.shifter, kinds)
    BY Zenon DEF ArmEncoding
  <2>2. CASE i.shifter.kind = "amount"
    <3>1. i.shifter.amount \in Nat
      BY <2>1, <2>2, Zenon DEF Operand
    <3>2. QED
      BY <2>2, <3>1, Zenon
  <2>3. CASE i.shifter.kind = "register"
    <3>1. i.shifter.rs \in Register
      BY <2>1, <2>3, Zenon DEF Operand
    <3>2. c.reg[i.shifter.rs] \in Nat
      BY <3>1, GetRegWord, WordInt, Zenon DEF Plain
    <3>3. i.shifter.kind # "amount"
      BY <2>3
    <3>4. QED
      BY <3>2, <3>3, Zenon
  <2>4. QED
    BY <2>2, <2>3, Zenon
<1>3. amount = given
  <2>1. CASE i.shifter.kind = "amount"
    <3>1. ~byRegister
      BY <2>1
    <3>2. QED
      BY <2>1, <3>1, Zenon
  <2>2. CASE i.shifter.kind = "register"
    <3>1. i.shifter.kind # "amount" /\ byRegister
      BY <2>2
    <3>2. GetReg(c, i.shifter.rs) = c.reg[i.shifter.rs]
      BY PlainReads, Zenon
    <3>3. QED
      BY <3>1, <3>2, Zenon
  <2>3. QED
    BY <2>1, <2>2, Zenon
<1>4. Plain(c1) /\ c1.cpsr = c.cpsr /\ \A r \in Register : r # 15 => c1.reg[r] = c.reg[r]
  <2>1. CASE byRegister
    <3>1. c1 = Nonsequential(Idle(Advance(c, 4)))
      BY <2>1, Zenon
    <3> HIDE DEF c1
    <3>2. QED
      BY <3>1, RegisterCycle, Zenon
  <2>2. CASE ~byRegister
    <3>1. c1 = Sequential(c)
      BY <2>2, Zenon
    <3> HIDE DEF c1
    <3>2. QED
      BY <3>1, PlainStays, Zenon
  <2>3. QED
    BY <2>1, <2>2, Zenon
<1>5. op2 = DoShift(i.shifter.type, x, given, carry, encoded)
  <2>1. GetReg(c1, i.shifter.rm) = x /\ c1.cpsr.c = carry
    <3> HIDE DEF c1
    <3>1. GetReg(c1, i.shifter.rm) = c1.reg[i.shifter.rm]
      BY <1>4, PlainReads
    <3>2. QED
      BY <1>1, <1>4, <3>1, Zenon
  <2>2. i.shifter.kind # "immediate"
    OBVIOUS
  <2> HIDE DEF c1, amount, carry, x
  <2>3. QED
    BY <1>3, <2>1, <2>2, Zenon DEF Shifted
<1> DEFINE s == DoShift(i.shifter.type, x, given, carry, encoded)
<1>6. x \in Word
  BY <1>1, GetRegWord, Zenon DEF Plain
<1>7. MovedExactly(i.shifter.type, x, given, carry, encoded, s.value, s.carry) /\ s.value \in Word
  <2> HIDE DEF x, carry
  <2>1. QED
    BY <1>1, <1>2, <1>6, DoShiftMoves, ShiftWord, Zenon
<1> DEFINE f == Logical(s.value, s.carry, c.cpsr.v)
<1>8. a = f
  <2> HIDE DEF c1, op2, s
  <2>1. op2 = s
    BY <1>5, Zenon DEF s
  <2>2. a = Logical(op2.value, op2.carry, c.cpsr.v)
    BY Zenon DEF Computed
  <2>3. QED
    BY <2>1, <2>2, Zenon
<1>9. ~test
  BY DEF Tests
<1>10. c2 = SetFlags(c1, f) /\ c3 = SetReg(c2, i.rd, f.value) /\ c4 = c3
  <2> HIDE DEF c1, a, f, test
  <2>1. QED
    BY <1>8, <1>9, Zenon
<1>11. d = IF byRegister THEN c4 ELSE Advance(c4, 4)
  <2>1. d = CASE i.rd = 15 /\ ~test -> ReloadSame(c4)
           [] byRegister /\ (i.rd # 15 \/ test) -> c4
           [] OTHER -> Advance(c4, 4)
    BY Zenon DEF ARM_DataProcessing
  <2> HIDE DEF c4, d, byRegister, test
  <2>2. QED
    BY <1>9, <2>1, Zenon
<1> HIDE DEF s, carry, x
<1>12. f.value = s.value
  BY LogicalValue, Zenon
<1> HIDE DEF byRegister, amount, c1, op2, a, test, c2, f, c3, c4, d
<1>13. Plain(c2) /\ Held(c2) /\ Flagged(c2, f)
  <2>1. Plain(c2) /\ Held(c1)
    BY <1>4, <1>10, PlainStays, Zenon DEF Plain
  <2>2. QED
    BY <1>10, <2>1, FlagsAreSet, Zenon DEF Plain
<1>14. c3.cpsr = c2.cpsr /\ c3.reg[i.rd] = s.value
  <2>1. SetReg(c2, i.rd, f.value).cpsr = c2.cpsr /\ SetReg(c2, i.rd, f.value).reg[i.rd] = f.value
    BY <1>1, <1>13, PlainWrites
  <2>2. QED
    BY <1>10, <1>12, <2>1, Zenon
<1>15. Held(c3)
  BY <1>1, <1>7, <1>10, <1>12, <1>13, SetAlike, Zenon
<1>16. d.cpsr = c2.cpsr /\ d.reg[i.rd] = s.value
  <2>1. CASE byRegister
    BY <1>10, <1>11, <1>14, <2>1, Zenon
  <2>2. CASE ~byRegister
    <3>1. d = Advance(c3, 4)
      BY <1>10, <1>11, <2>2, Zenon
    <3>2. QED
      BY <1>1, <1>14, <1>15, <3>1, AdvanceSpares, Zenon
  <2>3. QED
    BY <2>1, <2>2, Zenon
<1>17. Flagged(d, f)
  BY <1>13, <1>16, Zenon DEF Flagged
<1>18. d.cpsr.c = s.carry
  BY <1>17, LogicalFlags, Zenon DEF f
<1>19. MovedExactly(i.shifter.type, x, given, carry, encoded, d.reg[i.rd], d.cpsr.c)
  BY <1>7, <1>16, <1>18, Zenon
<1>20. QED
  BY <1>19, Zenon DEF x, carry, d

\* What a shift leaves, in a step from c to d.
Shifts(c, d, i, s) ==
  MovedExactly(s[2], Found(s[1]), s[3], c.cpsr.c, s[4], d.reg[i.rd], d.cpsr.c)

\* The shift of an instruction of the ARM state,
LEMMA ArmShifts ==
  ASSUME CpuInv, Plainly, NEW slow, NEW contents \in Int, NEW booth,
         NEW i, ArmEncoding(i), ShiftOf(i) # << >>, 15 \notin {i.rd, ShiftOf(i)[1]}
  PROVE  LET c == Ready(slow, contents, booth) IN
         Shifts(cpu, ArmHandler(c, i), i, ShiftOf(i))
<1> DEFINE c == Ready(slow, contents, booth)
           s == i.shifter
           encoded == s.kind = "amount"
           given == IF s.kind = "amount" THEN s.amount ELSE c.reg[s.rs]
           d == ARM_DataProcessing(c, i)
<1>1. Settled(cpu) /\ Held(cpu)
  BY SettledParts, Zenon DEF CpuInv
<1>2. Held(c)
  BY <1>1, ReadyFed, Zenon DEF Fed
<1>3. ~c.cpuModeInvalid /\ c.conflict = 0 /\ c.cpsr = cpu.cpsr /\ \A r \in Register : c.reg[r] = Found(r)
  BY <1>1, ReadyPlain, Zenon
<1> HIDE DEF c
<1>4. Plain(c)
  BY <1>2, <1>3, Zenon DEF Plain
<1>5. i.op # "MoveShiftedRegister" /\ i.op # "ALU"
  BY Zenon DEF ArmEncoding
<1>6. /\ i.op = "DataProcessing" /\ i.code = "MOV" /\ i.s
      /\ \/ s.kind = "amount" /\ ShiftOf(i) = <<s.rm, s.type, s.amount, TRUE>>
         \/ s.kind = "register" /\ ShiftOf(i) = <<s.rm, s.type, Found(s.rs), FALSE>>
  <2>1. CASE i.op = "DataProcessing" /\ i.code = "MOV" /\ i.s /\ s.kind = "amount"
    BY <1>5, <2>1, Zenon DEF ShiftOf
  <2>2. CASE i.op = "DataProcessing" /\ i.code = "MOV" /\ i.s /\ s.kind = "register"
    BY <1>5, <2>2, Zenon DEF ShiftOf
  <2>3. CASE ~(i.op = "DataProcessing" /\ i.code = "MOV" /\ i.s /\ s.kind \in {"amount", "register"})
    BY <1>5, <2>3, Zenon DEF ShiftOf
  <2>4. QED
    BY <2>1, <2>2, <2>3, Zenon
<1>7. Operand(s, {"immediate", "amount", "register"})
  BY <1>6, Zenon DEF ArmEncoding
<1>8. s.rm \in Register /\ (s.kind = "register" => s.rs \in Register)
  <2>1. s.kind # "immediate"
    BY <1>6
  <2>2. QED
    BY <1>7, <2>1, Zenon DEF Operand
<1>9. ShiftOf(i) = <<s.rm, s.type, given, encoded>>
  <2>1. CASE s.kind = "amount" /\ ShiftOf(i) = <<s.rm, s.type, s.amount, TRUE>>
    BY <2>1, Zenon
  <2>2. CASE s.kind = "register" /\ ShiftOf(i) = <<s.rm, s.type, Found(s.rs), FALSE>>
    <3>1. ~encoded
      BY <2>2
    <3>2. encoded = FALSE
      BY <3>1, Zenon
    <3>3. given = Found(s.rs)
      BY <1>3, <1>8, <2>2, <3>1, Zenon
    <3> HIDE DEF given, encoded
    <3>4. QED
      BY <2>2, <3>2, <3>3, Zenon
  <2>3. QED
    BY <1>6, <2>1, <2>2, Zenon
<1>10. ASSUME NEW w, NEW k, NEW n, NEW e, ShiftOf(i) = <<w, k, n, e>>
       PROVE  ShiftOf(i)[1] = w /\ ShiftOf(i)[2] = k /\ ShiftOf(i)[3] = n /\ ShiftOf(i)[4] = e
  <2> DEFINE m == ShiftOf(i)
  <2>1. m = <<w, k, n, e>>
    BY <1>10, Zenon
  <2> HIDE DEF m
  <2>2. m[1] = w /\ m[2] = k /\ m[3] = n /\ m[4] = e
    BY <2>1
  <2>3. QED
    BY <2>2, Zenon DEF m
<1>11. /\ ShiftOf(i)[1] = s.rm /\ ShiftOf(i)[2] = s.type /\ ShiftOf(i)[3] = given
       /\ ShiftOf(i)[4] = encoded
  <2> HIDE DEF given, encoded, s
  <2>1. QED
    BY <1>9, <1>10, Zenon
<1>12. s.rm # 15 /\ i.rd # 15 /\ s.kind \in {"amount", "register"}
  BY <1>6, <1>11, Zenon
<1>13. MovedExactly(s.type, c.reg[s.rm], given, c.cpsr.c, encoded, d.reg[i.rd], d.cpsr.c)
  BY <1>4, <1>6, <1>12, MOVExact, Zenon
<1>14. c.reg[s.rm] = Found(s.rm) /\ ArmHandler(c, i) = d
  BY <1>3, <1>6, <1>8, Zenon DEF ArmHandler
<1> HIDE DEF d, given, encoded
<1>15. QED
  BY <1>3, <1>11, <1>13, <1>14, Zenon DEF Shifts, c

\* and of one of the Thumb state.
LEMMA ThumbShifts ==
  ASSUME CpuInv, Plainly, NEW slow, NEW contents \in Int, NEW booth,
         NEW i, ThumbEncoding(i), ShiftOf(i) # << >>
  PROVE  LET c == Ready(slow, contents, booth) IN
         Shifts(cpu, ThumbHandler(c, i), i, ShiftOf(i))
<1> DEFINE c == Ready(slow, contents, booth)
<1>1. Settled(cpu) /\ Held(cpu)
  BY SettledParts, Zenon DEF CpuInv
<1>2. Held(c)
  BY <1>1, ReadyFed, Zenon DEF Fed
<1>3. c.cpsr = cpu.cpsr /\ \A r \in Register : c.reg[r] = Found(r)
  BY <1>1, ReadyPlain, Zenon
<1> HIDE DEF c
<1>4. \A r \in LowRegister : Found(r) = c.reg[r] /\ cpu.reg[r] = c.reg[r]
  <2>1. \A r \in LowRegister : r \in Register /\ r # 15
    BY DEF LowRegister, Register
  <2>2. QED
    BY <1>3, <2>1 DEF Found
<1>5. ASSUME NEW w, NEW k, NEW n, NEW e, ShiftOf(i) = <<w, k, n, e>>
      PROVE  ShiftOf(i)[1] = w /\ ShiftOf(i)[2] = k /\ ShiftOf(i)[3] = n /\ ShiftOf(i)[4] = e
  <2> DEFINE m == ShiftOf(i)
  <2>1. m = <<w, k, n, e>>
    BY <1>5, Zenon
  <2> HIDE DEF m
  <2>2. m[1] = w /\ m[2] = k /\ m[3] = n /\ m[4] = e
    BY <2>1
  <2>3. QED
    BY <2>2, Zenon DEF m
<1>6. CASE i.op = "MoveShiftedRegister"
  <2> DEFINE encoded == TRUE
             d == Thumb_MoveShiftedRegister(c, i)
  <2>1. {i.rd, i.rs} \subseteq LowRegister
    BY <1>6, Zenon DEF ThumbEncoding
  <2>2. ShiftOf(i) = <<i.rs, i.type, i.amount, encoded>> /\ ThumbHandler(c, i) = d
    BY <1>6, Zenon DEF ShiftOf, ThumbHandler
  <2>3. encoded = TRUE
    BY Zenon
  <2> HIDE DEF encoded, d
  <2>4. MovedExactly(i.type, c.reg[i.rs], i.amount, c.cpsr.c, encoded, d.reg[i.rd], d.cpsr.c)
    BY <1>2, <1>6, <2>3, MoveShiftedExact, Zenon DEF d
  <2>5. /\ ShiftOf(i)[1] = i.rs /\ ShiftOf(i)[2] = i.type /\ ShiftOf(i)[3] = i.amount
        /\ ShiftOf(i)[4] = encoded
    BY <1>5, <2>2, Zenon
  <2>6. Found(i.rs) = c.reg[i.rs]
    BY <1>4, <2>1, Zenon
  <2>7. QED
    BY <1>3, <2>2, <2>4, <2>5, <2>6, Zenon DEF Shifts, c
<1>7. CASE i.op = "ALU" /\ i.code \in ShiftKind
  <2> DEFINE encoded == FALSE
             d == Thumb_ALU(c, i)
  <2>1. {i.rd, i.rs} \subseteq LowRegister
    BY <1>7, Zenon DEF ThumbEncoding
  <2>2. ShiftOf(i) = <<i.rd, i.code, cpu.reg[i.rs], encoded>> /\ ThumbHandler(c, i) = d
    BY <1>7, Zenon DEF ShiftOf, ThumbHandler
  <2>3. encoded = FALSE
    BY Zenon
  <2> HIDE DEF encoded, d
  <2>4. MovedExactly(i.code, c.reg[i.rd], c.reg[i.rs], c.cpsr.c, encoded, d.reg[i.rd], d.cpsr.c)
    BY <1>2, <1>7, <2>3, ALUShiftExact, Zenon DEF d
  <2>5. /\ ShiftOf(i)[1] = i.rd /\ ShiftOf(i)[2] = i.code /\ ShiftOf(i)[3] = cpu.reg[i.rs]
        /\ ShiftOf(i)[4] = encoded
    BY <1>5, <2>2, Zenon
  <2>6. Found(i.rd) = c.reg[i.rd] /\ cpu.reg[i.rs] = c.reg[i.rs]
    BY <1>4, <2>1, Zenon
  <2>7. QED
    BY <1>3, <2>2, <2>4, <2>5, <2>6, Zenon DEF Shifts, c
<1>8. i.op # "DataProcessing"
  BY Zenon DEF ThumbEncoding
<1>9. CASE i.op # "MoveShiftedRegister" /\ ~(i.op = "ALU" /\ i.code \in ShiftKind)
  <2>1. /\ ~(i.op = "DataProcessing" /\ i.code = "MOV" /\ i.s /\ i.shifter.kind = "amount")
        /\ ~(i.op = "DataProcessing" /\ i.code = "MOV" /\ i.s /\ i.shifter.kind = "register")
    BY <1>8, Zenon
  <2>2. ShiftOf(i) = << >>
    BY <1>9, <2>1, Zenon DEF ShiftOf
  <2>3. QED
    BY <2>2, Zenon
<1>10. QED
  BY <1>6, <1>7, <1>9, Zenon

\* Every step leaves what a shift must leave.
LEMMA StepsShift ==
  ASSUME CpuInv, CpuNext
  PROVE  ShiftsExactly
<1> DEFINE i == ran'.instr
           s == ShiftOf(i)
<1>1. SUFFICES ASSUME s # << >>, 15 \notin {i.rd, s[1]}, Plainly
               PROVE  \E d : cpu'.cpsr = d.cpsr /\ cpu'.reg = d.reg /\ Shifts(cpu, d, i, s)
  <2>1. Found(s[1]) = cpu.reg[s[1]] \/ s[1] = 15
    BY Zenon DEF Found
  <2> HIDE DEF s, i
  <2>2. ASSUME NEW d, cpu'.cpsr = d.cpsr, cpu'.reg = d.reg, Shifts(cpu, d, i, s), 15 \notin {i.rd, s[1]}
        PROVE  MovedExactly(s[2], cpu.reg[s[1]], s[3], cpu.cpsr.c, s[4], cpu'.reg[i.rd], cpu'.cpsr.c)
    <3>1. Found(s[1]) = cpu.reg[s[1]]
      BY <2>1, <2>2, Zenon
    <3>2. QED
      BY <2>2, <3>1, Zenon DEF Shifts
  <2>3. QED
    BY <2>2, Zenon DEF ShiftsExactly, s, i
<1>2. scenario \in DOMAIN Scenario /\ Settled(cpu)
  BY Zenon DEF CpuInv
<1>3. ASSUME NEW kind, NEW bank PROVE ran' # Event(kind, bank)
  <2>1. Event(kind, bank).instr.op = "none"
    BY Zenon DEF Event, NoInstr
  <2>2. QED
    BY <2>1, <1>1, Zenon DEF ShiftOf
<1>4. ASSUME NEW d, Held(d) PROVE Ended(d).cpsr = d.cpsr /\ Ended(d).reg = d.reg
  BY <1>4, BesidesKeep, Zenon
<1>5. PICK slow \in Bounds.waits, contents \in Bounds.contents, booth \in Bounds.booth :
        \/ \E j \in Bounds.arm : RunArm(j, slow, contents, booth)
        \/ \E j \in Bounds.thumb : RunThumb(j, slow, contents, booth)
  <2>1. ASSUME NEW v, SetIRQLine(v) PROVE FALSE
    BY <1>3, <2>1, Zenon DEF SetIRQLine
  <2>2. ASSUME NEW slow, SignalIRQ(slow) PROVE FALSE
    BY <1>3, <2>2, Zenon DEF SignalIRQ
  <2>3. ASSUME NEW cond, NEW slow, Skip(cond, slow) PROVE FALSE
    BY <1>3, <2>3, Zenon DEF Skip
  <2>4. ~CopyState /\ ~LoadState /\ ~Reset
    BY <1>3, Zenon DEF CopyState, LoadState, Reset
  <2>5. QED
    BY <2>1, <2>2, <2>3, <2>4, Zenon DEF CpuNext
<1>6. contents \in Int
  BY <1>2, <1>5, ScenarioAssumption, Zenon DEF Bounds
<1> DEFINE c == Ready(slow, contents, booth)
<1>7. ASSUME NEW j \in Bounds.arm, RunArm(j, slow, contents, booth)
      PROVE  \E d : cpu'.cpsr = d.cpsr /\ cpu'.reg = d.reg /\ Shifts(cpu, d, i, s)
  <2>1. /\ cpu' = Ended(ArmHandler(c, j)) /\ ~cpu.cpsr.t /\ Predictable(c, j) /\ ran' = Ran(j)
    BY <1>7, Zenon DEF RunArm
  <2>2. ArmEncoding(j)
    BY <1>2, <1>7, ScenarioAssumption, Zenon DEF Bounds
  <2>3. i = j
    BY <2>1, Zenon DEF Ran
  <2>4. Shifts(cpu, ArmHandler(c, i), i, s)
    BY <1>1, <1>6, <2>1, <2>2, <2>3, ArmShifts
  <2>5. Held(ArmHandler(c, j))
    <3>1. Fed(c) /\ c.cpsr = cpu.cpsr
      BY <1>2, <1>6, ReadyFed, Zenon
    <3>2. cpu.cpsr.t \in BOOLEAN
      BY <1>2, SettledParts, HeldParts, Zenon
    <3> HIDE DEF c
    <3>3. InArm(c)
      BY <2>1, <3>1, <3>2, Zenon DEF InArm
    <3>4. QED
      BY <2>1, <2>2, <3>3, ArmSettles, SettledParts, Zenon
  <2>6. QED
    BY <1>4, <2>1, <2>3, <2>4, <2>5, Zenon
<1>8. ASSUME NEW j \in Bounds.thumb, RunThumb(j, slow, contents, booth)
      PROVE  \E d : cpu'.cpsr = d.cpsr /\ cpu'.reg = d.reg /\ Shifts(cpu, d, i, s)
  <2>1. /\ cpu' = Ended(ThumbHandler(c, j)) /\ cpu.cpsr.t /\ ran' = Ran(j)
    BY <1>8, Zenon DEF RunThumb
  <2>2. ThumbEncoding(j)
    BY <1>2, <1>8, ScenarioAssumption, Zenon DEF Bounds
  <2>3. i = j
    BY <2>1, Zenon DEF Ran
  <2>4. Shifts(cpu, ThumbHandler(c, i), i, s)
    BY <1>1, <1>6, <2>1, <2>2, <2>3, ThumbShifts
  <2>5. Held(ThumbHandler(c, j))
    <3>1. Fed(c) /\ c.cpsr = cpu.cpsr
      BY <1>2, <1>6, ReadyFed, Zenon
    <3>2. cpu.cpsr.t \in BOOLEAN
      BY <1>2, SettledParts, HeldParts, Zenon
    <3> HIDE DEF c
    <3>3. InThumb(c)
      BY <2>1, <3>1, <3>2, Zenon DEF InThumb
    <3>4. QED
      BY <2>2, <3>3, ThumbSettles, SettledParts, Zenon
  <2>6. QED
    BY <1>4, <2>1, <2>3, <2>4, <2>5, Zenon
<1>9. QED
  BY <1>5, <1>7, <1>8, Zenon

\* In every program a shift, in ARM and in Thumb code, moves every bit to its
\* place and leaves the last one out in the carry, whatever its amount, for
\* registers other than r15, outside the user-bank window and the modes that
\* do not exist.
THEOREM ShiftsExact == CpuSpec => ShiftsAreExact
<1>1. CpuInv /\ [CpuNext]_cpuVars => [ShiftsExactly]_cpuVars
  BY StepsShift
<1>2. QED
  BY <1>1, CpuInvAlways, PTL DEF CpuSpec, ShiftsAreExact
=============================================================================
