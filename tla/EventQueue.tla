------------------------------ MODULE EventQueue ------------------------------
(***************************************************************************)
(* What internal/scheduler promises to the rest of the emulator, without   *)
(* the heap, the absolute clock and the lazily dropped cancelled events:   *)
(* every event that is added and not cancelled fires exactly once, at its  *)
(* own cycle, after every event of a smaller (timestamp, priority) key,    *)
(* whatever the callbacks add or cancel while the clock is being advanced. *)
(* Module Scheduler implements this module; the modules of the other       *)
(* components build on the operators of Agenda that it is written with.    *)
(***************************************************************************)
EXTENDS Agenda, FiniteSets

CONSTANTS
  Class,      \* event classes that survive a save state
  Closure,    \* the class of events added with a Go closure (Scheduler.Add)
  Delay,      \* delays the clients of the scheduler ask for
  Cycles,     \* numbers of cycles the clock is advanced by; Core.Run passes
              \* a negative one when a DMA transfer overran its target
  NoSave      \* no save state has been taken

\* What the clients respect; the theorems about this module assume it.
QueueConstants ==
  /\ Closure \notin Class
  /\ Delay \subseteq Nat \ {0}
  /\ Cycles \subseteq Int

VARIABLES
  pending,    \* the agenda: events [id, due, pri, class] neither fired nor cancelled
  nextID,     \* the handle the next event gets
  advancing,  \* a call of Advance is running
  budget,     \* the cycles it has left (0 outside of it)
  saved       \* the scheduler's part of the last save state

vars == <<pending, nextID, advancing, budget, saved>>

Event == [id : Nat, due : Nat, pri : Priority, class : Class \cup {Closure}]

TypeOK ==
  /\ pending \subseteq Event
  /\ nextID \in Nat
  /\ advancing \in BOOLEAN
  /\ budget \in Int
  /\ saved \in [pending : SUBSET Event, nextID : Nat] \cup {NoSave}

\* Handle 1 belongs to the end-of-queue sentinel.
Init ==
  /\ pending = {}
  /\ nextID = 2
  /\ advancing = FALSE
  /\ budget = 0
  /\ saved = NoSave
-----------------------------------------------------------------------------
Add(d, p, c) ==
  /\ pending' = pending \cup {[id |-> nextID, due |-> d, pri |-> p, class |-> c]}
  /\ nextID' = nextID + 1
  /\ UNCHANGED <<advancing, budget, saved>>

Cancel(id) ==
  /\ pending' = {e \in pending : e.id # id}
  /\ UNCHANGED <<nextID, advancing, budget, saved>>

Advance(n) ==
  /\ ~advancing
  /\ advancing' = TRUE
  /\ budget' = n
  /\ UNCHANGED <<pending, nextID, saved>>

\* The clock moves to the event's own cycle before its callback runs, so what
\* the callback adds is relative to that cycle.
Fire(e) ==
  /\ advancing
  /\ e \in Frontier(pending)
  /\ e.due <= budget
  /\ pending' = Elapsed(pending \ {e}, e.due)
  /\ budget' = budget - e.due
  /\ UNCHANGED <<nextID, advancing, saved>>

\* Advance returns: nothing is left to fire up to its target.
Settle ==
  /\ advancing
  /\ \A e \in pending : e.due > budget
  /\ pending' = Elapsed(pending, budget)
  /\ advancing' = FALSE
  /\ budget' = 0
  /\ UNCHANGED <<nextID, saved>>

\* Closures cannot be serialised and are left out of the save state.
CopyState ==
  /\ ~advancing
  /\ saved' = [pending |-> {e \in pending : e.class # Closure}, nextID |-> nextID]
  /\ UNCHANGED <<pending, nextID, advancing, budget>>

LoadState ==
  /\ ~advancing
  /\ saved # NoSave
  /\ pending' = saved.pending
  /\ nextID' = saved.nextID
  /\ UNCHANGED <<advancing, budget, saved>>

Next ==
  \/ \E d \in Delay, p \in Priority, c \in Class \cup {Closure} : Add(d, p, c)
  \/ \E id \in 2 .. nextID - 1 : Cancel(id)
  \/ \E n \in Cycles : Advance(n)
  \/ \E e \in pending : Fire(e)
  \/ Settle
  \/ CopyState
  \/ LoadState

Spec == Init /\ [][Next]_vars
-----------------------------------------------------------------------------
\* A handle names one event: two pending events never share an id, and no id
\* that is still to be handed out is in use (Scheduler.Cancel finds its event
\* by id alone, in the running machine and after a save state was loaded).
IdsUnique ==
  /\ \A e, f \in pending : e.id = f.id => e = f
  /\ \A e \in pending : e.id < nextID

\* Between two calls of Advance every event lies strictly ahead: the halted
\* CPU, which advances to the next event, always makes progress.
IdleMeansAhead == ~advancing => \A e \in pending : e.due > 0
=============================================================================
