------------------------------- MODULE Counters --------------------------------
(***************************************************************************)
(* What the timers promise: counters that are looked at every cycle.  A    *)
(* counter that runs counts once in every period cycles of its prescaler,  *)
(* one in cascade mode counts when the counter before it overflows, and    *)
(* one that has counted up to Range is reloaded before anything else       *)
(* happens.  There is no queue, and no counter is ever out of date.        *)
(*                                                                         *)
(* internal/timer looks at its counters only when it must: module Timer    *)
(* models that and is shown to implement this module.                      *)
(***************************************************************************)
EXTENDS Integers

CONSTANTS
  Channel,   \* 0 .. 3 in the code
  Range,     \* 16^4 in the code
  Reload,    \* values a program loads
  Control    \* control words a program writes, for each channel

VARIABLES
  reload,    \* the value a counter restarts from
  control,   \* [period, cascade, enable]
  counter,   \* Range for an instant, at an overflow
  sub,       \* cycles since the last count, -1 for a counter that starts late
  phase      \* of the prescalers that all channels share

vars == <<reload, control, counter, sub, phase>>

CONSTANTS Wrap, Off   \* the longest period; the control word after a reset

Init ==
  /\ reload = [c \in Channel |-> 0]
  /\ control = [c \in Channel |-> Off]
  /\ counter = [c \in Channel |-> 0]
  /\ sub = [c \in Channel |-> 0]
  /\ phase = 0

Counts(c) == control[c].enable /\ ~control[c].cascade

\* What a program reads.  A counter that starts a cycle late reads one less until
\* then: the counter before its reload value.
Read(c) == (counter[c] - IF sub[c] < 0 THEN 1 ELSE 0) % Range

Settled == \A c \in Channel : counter[c] # Range

Tick ==
  /\ Settled
  /\ phase' = (phase + 1) % Wrap
  /\ counter' = [c \in Channel |->
       IF Counts(c) /\ sub[c] + 1 = control[c].period THEN counter[c] + 1
                                                       ELSE counter[c]]
  /\ sub' = [c \in Channel |->
       IF Counts(c) /\ sub[c] + 1 # control[c].period THEN sub[c] + 1 ELSE 0]
  /\ UNCHANGED <<reload, control>>

\* d counts with the overflow of c: all of c + 1 .. d are in cascade mode, and
\* those before d overflow with it.
CarriesTo(c, d) ==
  /\ d > c
  /\ \A e \in c + 1 .. d : control[e].enable /\ control[e].cascade
  /\ \A e \in c + 1 .. d - 1 : counter[e] = Range - 1

Overflow(c) ==
  /\ counter[c] = Range
  /\ counter' = [d \in Channel |->
       IF d = c \/ (CarriesTo(c, d) /\ counter[d] = Range - 1) THEN reload[d]
       ELSE IF CarriesTo(c, d) THEN counter[d] + 1 ELSE counter[d]]
  /\ UNCHANGED <<reload, control, sub, phase>>

SetReload(c, v) ==
  /\ Settled
  /\ reload' = [reload EXCEPT ![c] = v]
  /\ UNCHANGED <<control, counter, sub, phase>>

\* A counter that is enabled restarts from its reload value a cycle late, unless
\* it stands at its last value when the prescaler counts.
Restarts(c, k) ==
  /\ k.enable /\ ~control[c].enable
  /\ k.cascade \/ counter[c] # Range - 1 \/ phase % k.period # 0

SetControl(c, k) ==
  /\ Settled
  /\ control' = [control EXCEPT ![c] = k]
  /\ counter' = [counter EXCEPT ![c] = IF Restarts(c, k) THEN reload[c] ELSE @]
  /\ sub' = [sub EXCEPT ![c] =
               IF ~k.enable \/ k.cascade THEN 0
               ELSE (phase % k.period) - IF Restarts(c, k) THEN 1 ELSE 0]
  /\ UNCHANGED <<reload, phase>>

Next ==
  \/ Tick
  \/ \E c \in Channel : Overflow(c)
  \/ \E c \in Channel, v \in Reload : SetReload(c, v)
  \/ \E c \in Channel : \E k \in Control[c] : SetControl(c, k)

Spec == Init /\ [][Next]_vars
=============================================================================
