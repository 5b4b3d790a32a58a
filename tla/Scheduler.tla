------------------------------- MODULE Scheduler -------------------------------
(***************************************************************************)
(* internal/scheduler/scheduler.go: the discrete-event scheduler that      *)
(* drives every other component.  Events lie in the binary heap of Go's    *)
(* container/heap under absolute timestamps; Cancel only marks an event    *)
(* and the mark is looked at when the event reaches the top.               *)
(*                                                                         *)
(* The loop of Step is one action per iteration.  AddClass, Add and Cancel *)
(* are called by the CPU between two calls of Advance (phase "idle") or by *)
(* the callback of the event that Step has just taken (phase "callback").  *)
(***************************************************************************)
EXTENDS Integers, Sequences, FiniteSets, SequencesExt

CONSTANTS
  Class, Closure, Delay, Cycles, NoSave,  \* as in EventQueue
  Pri,        \* priorities the clients use
  EndOfQueue, \* class of the sentinel
  Forever,    \* timestamp of the sentinel, 1<<62 - 1 in the code
  MaxEvents,  \* bound: the last handle that is given out
  MaxNow,     \* bound: the clock stays below
  MaxCancels, \* bound: cancelled events in the queue at a time
  SaveAt      \* bound: the one save state is taken while nextID is this

ASSUME SchedulerAssumption ==
  /\ Pri \subseteq 0 .. 3
  /\ EndOfQueue \notin Class \cup {Closure}
  /\ \A d \in Delay : MaxNow + d < Forever

VARIABLES
  now,        \* Scheduler.now
  queue,      \* Scheduler.queue: the heap's slice, position 1 is the top
  nextID,     \* Scheduler.nextID
  phase,      \* "idle", "step" (the loop of Step) or "callback"
  target,     \* Step's argument
  saved       \* what Core.CopyState kept of the scheduler

vars == <<now, queue, nextID, phase, target, saved>>

\* (timestamp << 2) | priority
KeyOf(e) == 4 * e.ts + e.pri

Binary == INSTANCE Heap

Sentinel ==
  [id |-> 1, ts |-> Forever, pri |-> 0, class |-> EndOfQueue, cancelled |-> FALSE]

\* What Reset leaves in the heap.
ResetQueue == <<Sentinel>>

Init ==
  /\ now = 0
  /\ queue = ResetQueue
  /\ nextID = 2
  /\ phase = "idle"
  /\ target = 0
  /\ saved = NoSave
-----------------------------------------------------------------------------
Top == queue[1]

Insert(delay, class, pri) ==
  /\ phase \in {"idle", "callback"}
  /\ nextID <= MaxEvents
  /\ queue' = Binary!Push(queue, [id |-> nextID, ts |-> now + delay, pri |-> pri,
                           class |-> class, cancelled |-> FALSE])
  /\ nextID' = nextID + 1
  /\ UNCHANGED <<now, phase, target, saved>>

AddClass(delay, class, pri) == Insert(delay, class, pri)

\* No client in this repository adds a closure: one, added first, is enough here.
Add(delay) ==
  /\ nextID = 2
  /\ Insert(delay, Closure, 0)

\* Any handle ever given out, also one whose event is long gone.
Cancel(id) ==
  /\ phase \in {"idle", "callback"}
  /\ Cardinality({i \in DOMAIN queue : queue[i].cancelled}) < MaxCancels
  /\ queue' = [i \in DOMAIN queue |->
                 IF queue[i].id = id THEN [queue[i] EXCEPT !.cancelled = TRUE]
                                     ELSE queue[i]]
  /\ UNCHANGED <<now, nextID, phase, target, saved>>

\* The halt loop's look at the next timestamp drops cancelled events at the top.
TimestampTarget ==
  /\ phase = "idle"
  /\ Top.cancelled
  /\ queue' = Binary!Pop(queue)
  /\ UNCHANGED <<now, nextID, phase, target, saved>>

Advance(cycles) ==
  /\ phase = "idle"
  /\ now + cycles \in 0 .. MaxNow
  /\ phase' = "step"
  /\ target' = now + cycles
  /\ UNCHANGED <<now, queue, nextID, saved>>

StepDropCancelled ==
  /\ phase # "idle"
  /\ Top.cancelled
  /\ queue' = Binary!Pop(queue)
  /\ phase' = "step"
  /\ UNCHANGED <<now, nextID, target, saved>>

\* Mutant: a cancelled event fires.
StepFireCancelled ==
  /\ phase # "idle"
  /\ Top.ts <= target
  /\ queue' = Binary!Pop(queue)
  /\ now' = Top.ts
  /\ phase' = "callback"
  /\ UNCHANGED <<nextID, target, saved>>

StepFire ==
  /\ phase # "idle"
  /\ ~Top.cancelled
  /\ Top.ts <= target
  /\ queue' = Binary!Pop(queue)
  /\ now' = Top.ts
  /\ phase' = "callback"
  /\ UNCHANGED <<nextID, target, saved>>

\* Step returns and Advance sets the clock to its target (which is dead from
\* here on, and forgotten).
StepReturn ==
  /\ phase # "idle"
  /\ ~Top.cancelled
  /\ Top.ts > target
  /\ now' = target
  /\ phase' = "idle"
  /\ target' = 0
  /\ UNCHANGED <<queue, nextID, saved>>

\* PendingClassEvents: the live class events, in the order of the slice.
PendingClassEvents ==
  SelectSeq(queue, LAMBDA e : ~e.cancelled /\ e.class \notin {EndOfQueue, Closure})

CopyState ==
  /\ phase = "idle"
  /\ saved = NoSave /\ nextID = SaveAt
  /\ saved' = [now |-> now, events |-> PendingClassEvents, nextID |-> nextID]
  /\ UNCHANGED <<now, queue, nextID, phase, target>>

\* RestoreClassEvents raises the counter past every restored event, then to
\* the saved counter.
RestoredNextID(s) ==
  LET m == FoldLeft(LAMBDA n, e : IF e.id >= n THEN e.id + 1 ELSE n, 2, s.events)
  IN  IF s.nextID > m THEN s.nextID ELSE m

\* Core.LoadState: Reset, SetTimestampNow, RestoreClassEvents.
LoadState ==
  /\ phase = "idle"
  /\ saved # NoSave
  /\ now' = saved.now
  /\ queue' = FoldLeft(Binary!Push, ResetQueue, saved.events)
  /\ nextID' = RestoredNextID(saved)
  /\ UNCHANGED <<phase, target, saved>>

Next ==
  \/ \E d \in Delay, c \in Class, p \in Pri : AddClass(d, c, p)
  \/ \E d \in Delay : Add(d)
  \/ \E id \in 2 .. nextID - 1 : Cancel(id)
  \/ TimestampTarget
  \/ \E n \in Cycles : Advance(n)
  \/ StepDropCancelled
  \/ StepFire
  \/ StepReturn
  \/ CopyState
  \/ LoadState

Spec == Init /\ [][Next]_vars
-----------------------------------------------------------------------------
HeapEvent ==
  [id : 1 .. nextID - 1, ts : 0 .. Forever, pri : 0 .. 3,
   class : Class \cup {Closure, EndOfQueue}, cancelled : BOOLEAN]

\* The shape of the state of scheduler.go.  The sentinel keeps the heap from
\* ever being empty, and every queued event's handle lies below the counter,
\* also after a save state was loaded.
TypeOK ==
  /\ now \in 0 .. MaxNow
  /\ queue \in Seq(HeapEvent)
  /\ phase \in {"idle", "step", "callback"}
  /\ Len(queue) >= 1
-----------------------------------------------------------------------------
Live == {i \in DOMAIN queue : ~queue[i].cancelled}

\* The refinement mapping to EventQueue: cancelled events and the sentinel are
\* not there, and times are relative to the clock.
Abstract(e, t) == [id |-> e.id, due |-> e.ts - t, pri |-> e.pri, class |-> e.class]

AbstractPending ==
  {Abstract(queue[i], now) : i \in {j \in Live : queue[j].class # EndOfQueue}}

AbstractSaved ==
  IF saved = NoSave THEN NoSave
  ELSE [pending |-> {Abstract(saved.events[i], saved.now) : i \in DOMAIN saved.events},
        nextID |-> saved.nextID]

Promise == INSTANCE EventQueue WITH
  pending <- AbstractPending,
  advancing <- phase # "idle",
  budget <- IF phase = "idle" THEN 0 ELSE target - now,
  saved <- AbstractSaved

ASSUME SchedulerKeepsConstants == Promise!QueueConstants

\* The heap implements the promise: every live event fires once, at its own
\* cycle, in the order of keys, cancelled events never do, and loading a save
\* state brings back exactly the class events that were live.
ImplementsQueue == Promise!Spec
=============================================================================
