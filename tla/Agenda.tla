-------------------------------- MODULE Agenda --------------------------------
(***************************************************************************)
(* Operators on agendas: finite sets of scheduled events, each a record    *)
(* with at least the fields                                                *)
(*   due   cycles from now until the event is to fire                      *)
(*   pri   0 (high) .. 3 (low), the tie-breaker on equal timestamps        *)
(* An agenda is what a client of internal/scheduler may rely on: times are *)
(* relative to Scheduler.now, and events of equal key come in any order,   *)
(* because pq.Less compares keys only and container/heap is not stable.    *)
(***************************************************************************)
EXTENDS Integers

Priority == 0 .. 3

\* (timestamp << 2) | priority
Key(e) == 4 * e.due + e.pri

\* The events Step may take next: those of the least key.
Frontier(q) == {e \in q : \A f \in q : Key(e) <= Key(f)}

\* The same agenda n cycles later.
Elapsed(q, n) == {[e EXCEPT !.due = @ - n] : e \in q}

\* The events to fire before anybody else may act at this cycle.
DueNow(q) == {e \in q : e.due = 0}
=============================================================================
