------------------------------ MODULE TimerProofs ------------------------------
(***************************************************************************)
(* Theorems about module Timer, for any number of channels, any range of   *)
(* the counters and any prescalers that divide the longest one: the type   *)
(* and the safety invariants, from an inductive invariant, and below them  *)
(* that the timers implement module Counters.                              *)
(***************************************************************************)
EXTENDS Timer, TLAPS

\* OverflowOnTime of one channel in state r when the queue is q.
OnTime(r, q, c) ==
  IF r.running
  THEN \E e \in q :
         /\ e.kind = "overflow" /\ e.chan = c
         /\ \A f \in q : f.kind = "overflow" /\ f.chan = c => f = e
         /\ r.hasEvent /\ r.eventOverflow = e.tag
         /\ e.due = (Range - r.counter) * r.control.period - r.age
  ELSE \A f \in q : ~(f.kind = "overflow" /\ f.chan = c)

Runs(r) == r.running = (r.control.enable /\ ~r.control.cascade)

\* The inductive invariant: each channel runs when it is enabled and its event is
\* on time; the types hold because of that.
Inv == TypeOK /\ \A c \in Channel : Runs(chan[c]) /\ OnTime(chan[c], queue, c)

LEMMA InvMeans == Inv => RunsWhenEnabled /\ OverflowOnTime
<1> SUFFICES ASSUME Inv PROVE RunsWhenEnabled /\ OverflowOnTime  OBVIOUS
<1>1. RunsWhenEnabled  BY DEF Inv, RunsWhenEnabled, Runs
<1>2. ASSUME NEW c \in Channel, chan[c].running
      PROVE  \E e \in queue :
               /\ Overflows(c) = {e}
               /\ chan[c].hasEvent /\ chan[c].eventOverflow = e.tag
               /\ e.due = (Range - chan[c].counter) * chan[c].control.period - chan[c].age
  <2>1. PICK e \in queue :
          /\ e.kind = "overflow" /\ e.chan = c
          /\ \A f \in queue : f.kind = "overflow" /\ f.chan = c => f = e
          /\ chan[c].hasEvent /\ chan[c].eventOverflow = e.tag
          /\ e.due = (Range - chan[c].counter) * chan[c].control.period - chan[c].age
    BY <1>2, Zenon DEF Inv, OnTime
  <2>2. Overflows(c) = {e}  BY <2>1, Zenon DEF Overflows
  <2> QED  BY <2>1, <2>2
<1>3. ASSUME NEW c \in Channel, ~chan[c].running PROVE Overflows(c) = {}
  BY <1>3, Zenon DEF Inv, OnTime, Overflows
<1>4. OverflowOnTime  BY <1>2, <1>3, Zenon DEF OverflowOnTime
<1> QED  BY <1>1, <1>4

-----------------------------------------------------------------------------
\* Arithmetic: what a counter has left, in cycles
LEMMA CyclesLeft ==
  ASSUME NEW k \in 0 .. Range - 1, NEW p \in Period
  PROVE  /\ (Range - k) * p \in Int
         /\ p <= (Range - k) * p
         /\ (Range - k) * p <= Range * Wrap
         /\ p >= 1 /\ p <= Wrap /\ Wrap \in Nat /\ Range * Wrap \in Nat
<1>1. p \in Nat /\ p >= 1 /\ p <= Wrap /\ Wrap \in Nat /\ Range \in Nat /\ k \in Nat
  BY TimerAssumption
<1> DEFINE n == Range - k
<1>2. n \in Nat /\ n >= 1 /\ n <= Range  BY <1>1
<1> HIDE DEF n
<1>3. n * p \in Nat /\ p <= n * p  BY <1>1, <1>2
<1>4. n * p <= Range * p  BY <1>1, <1>2
<1>5. Range * p <= Range * Wrap /\ Range * Wrap \in Nat  BY <1>1
<1>6. n * p <= Range * Wrap  BY <1>1, <1>2, <1>3, <1>4, <1>5
<1> QED  BY <1>1, <1>3, <1>5, <1>6 DEF n

LEMMA Remainder ==
  ASSUME NEW a \in Nat, NEW p \in Period
  PROVE  a % p \in 0 .. p - 1
BY TimerAssumption

LEMMA OffFits == Off \in ControlState
BY TimerAssumption DEF Off, ControlState

\* Carrying an overflow of c touches nothing but counters, and of those only c's
\* and the cascading channels'.
LEMMA ReloadedKeeps ==
  ASSUME NEW ch \in [Channel -> ChannelState], NEW c \in Channel
  PROVE  /\ Reloaded(ch, c) \in [Channel -> ChannelState]
         /\ \A d \in Channel :
              LET r == Reloaded(ch, c)[d] IN
              /\ r.control = ch[d].control /\ r.running = ch[d].running
              /\ r.age = ch[d].age /\ r.hasEvent = ch[d].hasEvent
              /\ r.eventOverflow = ch[d].eventOverflow /\ r.reload = ch[d].reload
              /\ d # c /\ ~Cascades(ch[d]) => r.counter = ch[d].counter
<1> DEFINE R(d) == Reloaded(ch, c)[d]
<1>1. ASSUME NEW d \in Channel
      PROVE  /\ R(d) \in ChannelState
             /\ R(d).control = ch[d].control /\ R(d).running = ch[d].running
             /\ R(d).age = ch[d].age /\ R(d).hasEvent = ch[d].hasEvent
             /\ R(d).eventOverflow = ch[d].eventOverflow /\ R(d).reload = ch[d].reload
             /\ d # c /\ ~Cascades(ch[d]) => R(d).counter = ch[d].counter
  <2>1. ch[d] \in ChannelState  OBVIOUS
  <2>2. CASE d = c \/ (CarriesTo(ch, c, d) /\ ch[d].counter = Range - 1)
    <3>1. R(d) = [ch[d] EXCEPT !.counter = ch[d].reload]  BY <2>2 DEF Reloaded
    <3>2. d # c => Cascades(ch[d])  BY <2>2 DEF CarriesTo, Channel
    <3> QED  BY <2>1, <3>1, <3>2 DEF ChannelState
  <2>3. CASE ~(d = c \/ (CarriesTo(ch, c, d) /\ ch[d].counter = Range - 1)) /\ CarriesTo(ch, c, d)
    <3>1. R(d) = [ch[d] EXCEPT !.counter = ch[d].counter + 1]  BY <2>3 DEF Reloaded
    <3>2. Cascades(ch[d])  BY <2>3 DEF CarriesTo, Channel
    <3>3. ch[d].counter + 1 \in 0 .. Range - 1
      BY <2>1, <2>3, TimerAssumption DEF ChannelState
    <3> QED  BY <2>1, <3>1, <3>2, <3>3 DEF ChannelState
  <2>4. CASE d # c /\ ~CarriesTo(ch, c, d)
    <3>1. R(d) = ch[d]  BY <2>4 DEF Reloaded
    <3> QED  BY <2>1, <3>1
  <2> QED  BY <2>2, <2>3, <2>4
<1>2. Reloaded(ch, c) \in [Channel -> ChannelState]
  BY <1>1 DEF Reloaded
<1> QED  BY <1>1, <1>2
-----------------------------------------------------------------------------
\* stopChannel(c) in any state that keeps the invariant, with an event taken from
\* the queue that is not an overflow: c does not run, no overflow of it is left,
\* and nothing has changed for the others.
LEMMA Stopped ==
  ASSUME Inv, NEW c \in Channel, NEW t \in queue, t.kind # "overflow"
  PROVE  LET s == StopChannel(chan, queue \ {t}, c) IN
         /\ s.channels \in [Channel -> ChannelState]
         /\ s.events \subseteq queue
         /\ ~s.channels[c].running
         /\ \A f \in s.events : ~(f.kind = "overflow" /\ f.chan = c)
         /\ \A d \in Channel : s.channels[d].control = chan[d].control
         /\ \A d \in Channel \ {c} : Runs(s.channels[d]) /\ OnTime(s.channels[d], s.events, d)
<1> DEFINE q == queue \ {t}
           n == chan[c].counter + Delta(chan[c])
           counted == IF n \in 0 .. Range - 1 THEN [chan EXCEPT ![c].counter = n]
                                             ELSE Reloaded(chan, c)
           off(r) == [r EXCEPT !.hasEvent = FALSE, !.running = FALSE, !.age = 0]
           s == StopChannel(chan, q, c)
<1>1. chan \in [Channel -> ChannelState] /\ queue \subseteq EventState
  BY DEF Inv, TypeOK
<1>2. \A d \in Channel : Runs(chan[d]) /\ OnTime(chan[d], queue, d)
  BY Zenon DEF Inv
<1>3. \A d \in Channel : OnTime(chan[d], q, d)
  <2> SUFFICES ASSUME NEW d \in Channel PROVE OnTime(chan[d], q, d)  OBVIOUS
  <2>1. OnTime(chan[d], queue, d)  BY <1>2
  <2>2. CASE chan[d].running
    <3>1. PICK e \in queue :
            /\ e.kind = "overflow" /\ e.chan = d
            /\ \A f \in queue : f.kind = "overflow" /\ f.chan = d => f = e
            /\ chan[d].hasEvent /\ chan[d].eventOverflow = e.tag
            /\ e.due = (Range - chan[d].counter) * chan[d].control.period - chan[d].age
      BY <2>1, <2>2, Zenon DEF OnTime
    <3>2. e \in q  BY <3>1, Zenon
    <3> QED  BY <2>2, <3>1, <3>2, Zenon DEF OnTime
  <2>3. CASE ~chan[d].running
    BY <2>1, <2>3, Zenon DEF OnTime
  <2> QED  BY <2>2, <2>3
<1>4. CASE ~chan[c].running
  <2>1. s = [channels |-> chan, events |-> q]  BY <1>4, Zenon DEF StopChannel
  <2>2. s.channels = chan /\ s.events = q  BY <2>1
  <2>3. \A f \in q : ~(f.kind = "overflow" /\ f.chan = c)
    BY <1>3, <1>4, Zenon DEF OnTime
  <2> HIDE DEF s, q
  <2>4. q \subseteq queue  BY DEF q
  <2> QED  BY <1>1, <1>2, <1>3, <1>4, <2>2, <2>3, <2>4, Zenon DEF s, q
<1>5. CASE chan[c].running
  <2>1. PICK e \in q :
          /\ e.kind = "overflow" /\ e.chan = c
          /\ \A f \in q : f.kind = "overflow" /\ f.chan = c => f = e
          /\ chan[c].hasEvent /\ chan[c].eventOverflow = e.tag
    BY <1>3, <1>5, Zenon DEF OnTime
  <2> DEFINE left == {f \in q : ~(f.kind = "overflow" /\ f.chan = c /\ f.tag = chan[c].eventOverflow)}
  <2>2. s = [channels |-> [counted EXCEPT ![c] = off(counted[c])], events |-> left]
    BY <1>5, <2>1, Zenon DEF StopChannel
  <2> HIDE DEF s, counted, off, left
  <2>3. s.channels = [counted EXCEPT ![c] = off(counted[c])] /\ s.events = left
    BY <2>2
  <2>4. /\ counted \in [Channel -> ChannelState]
        /\ \A d \in Channel : counted[d].control = chan[d].control
        /\ \A d \in Channel \ {c} :
              /\ counted[d].running = chan[d].running /\ counted[d].age = chan[d].age
              /\ counted[d].hasEvent = chan[d].hasEvent
              /\ counted[d].eventOverflow = chan[d].eventOverflow
              /\ ~Cascades(chan[d]) => counted[d].counter = chan[d].counter
    <3>1. CASE n \in 0 .. Range - 1
      <4>1. counted = [chan EXCEPT ![c] = [chan[c] EXCEPT !.counter = n]]  BY <3>1 DEF counted
      <4>2. [chan[c] EXCEPT !.counter = n] \in ChannelState
        BY <1>1, <3>1 DEF ChannelState
      <4>3. [chan[c] EXCEPT !.counter = n].control = chan[c].control
        BY <1>1 DEF ChannelState
      <4> DEFINE r == [chan[c] EXCEPT !.counter = n]
      <4> HIDE DEF n, r
      <4>4. counted = [chan EXCEPT ![c] = r] /\ r \in ChannelState /\ r.control = chan[c].control
        BY <4>1, <4>2, <4>3 DEF r
      <4>5. counted[c] = r /\ \A d \in Channel \ {c} : counted[d] = chan[d]
        BY <1>1, <4>4
      <4>6. counted \in [Channel -> ChannelState]  BY <1>1, <4>4
      <4> QED  BY <4>4, <4>5, <4>6, Zenon
    <3>2. CASE n \notin 0 .. Range - 1
      <4>1. counted = Reloaded(chan, c)  BY <3>2 DEF counted
      <4>2. /\ Reloaded(chan, c) \in [Channel -> ChannelState]
            /\ \A d \in Channel :
                 /\ Reloaded(chan, c)[d].control = chan[d].control
                 /\ Reloaded(chan, c)[d].running = chan[d].running
                 /\ Reloaded(chan, c)[d].age = chan[d].age
                 /\ Reloaded(chan, c)[d].hasEvent = chan[d].hasEvent
                 /\ Reloaded(chan, c)[d].eventOverflow = chan[d].eventOverflow
                 /\ d # c /\ ~Cascades(chan[d]) => Reloaded(chan, c)[d].counter = chan[d].counter
        BY <1>1, ReloadedKeeps
      <4> QED  BY <4>1, <4>2, Zenon
    <3> QED  BY <3>1, <3>2
  <2> HIDE DEF n
  <2>5. /\ off(counted[c]) \in ChannelState
        /\ off(counted[c]).running = FALSE
        /\ off(counted[c]).control = counted[c].control
    <3>1. counted[c] \in ChannelState  BY <2>4
    <3>2. 0 \in -1 .. Range * Wrap
      <4>1. Range \in Nat /\ Wrap \in Nat  BY TimerAssumption
      <4> QED  BY <4>1
    <3> QED  BY <3>1, <3>2 DEF ChannelState, off
  <2>6. s.channels \in [Channel -> ChannelState]  BY <2>3, <2>4, <2>5
  <2>7. s.channels[c] = off(counted[c]) /\ \A d \in Channel \ {c} : s.channels[d] = counted[d]
    BY <2>3, <2>4
  <2>8. \A f \in left : ~(f.kind = "overflow" /\ f.chan = c)
    BY <2>1, Zenon DEF left
  <2>9. ASSUME NEW d \in Channel \ {c}
        PROVE  Runs(s.channels[d]) /\ OnTime(s.channels[d], left, d)
    <3>1. s.channels[d] = counted[d]  BY <2>7
    <3>2. Runs(counted[d])  BY <1>2, <2>4, Zenon DEF Runs
    <3>3. CASE chan[d].running
      <4>1. PICK g \in q :
              /\ g.kind = "overflow" /\ g.chan = d
              /\ \A f \in q : f.kind = "overflow" /\ f.chan = d => f = g
              /\ chan[d].hasEvent /\ chan[d].eventOverflow = g.tag
              /\ g.due = (Range - chan[d].counter) * chan[d].control.period - chan[d].age
        BY <1>3, <3>3, Zenon DEF OnTime
      <4>2. g \in left  BY <4>1, Zenon DEF left
      <4>3. counted[d].counter = chan[d].counter
        BY <1>2, <2>4, <3>3, Zenon DEF Runs, Cascades
      <4>4. counted[d].running /\ counted[d].hasEvent  BY <2>4, <3>3, <4>1, Zenon
      <4>5. g.due = (Range - counted[d].counter) * counted[d].control.period - counted[d].age
        <5>1. counted[d].control = chan[d].control /\ counted[d].age = chan[d].age
          BY <2>4, Zenon
        <5> QED  BY <4>1, <4>3, <5>1, Zenon
      <4>6. \A f \in left : f.kind = "overflow" /\ f.chan = d => f = g
        BY <4>1, Zenon DEF left
      <4>7. counted[d].eventOverflow = g.tag  BY <2>4, <4>1, Zenon
      <4>8. OnTime(counted[d], left, d)
        BY <4>1, <4>2, <4>4, <4>5, <4>6, <4>7, Zenon DEF OnTime
      <4> QED  BY <3>1, <3>2, <4>8, Zenon
    <3>4. CASE ~chan[d].running
      <4>1. ~counted[d].running  BY <2>4, <3>4, Zenon
      <4>2. \A f \in q : ~(f.kind = "overflow" /\ f.chan = d)
        BY <1>3, <3>4, Zenon DEF OnTime
      <4>3. OnTime(counted[d], left, d)  BY <4>1, <4>2, Zenon DEF OnTime, left
      <4> QED  BY <3>1, <3>2, <4>3, Zenon
    <3> QED  BY <3>3, <3>4
  <2>10. ~s.channels[c].running  BY <2>5, <2>7
  <2>11. \A d \in Channel : s.channels[d].control = chan[d].control
    BY <2>4, <2>5, <2>7, Zenon
  <2>12. left \subseteq queue  BY DEF left
  <2> QED  BY <2>3, <2>6, <2>8, <2>9, <2>10, <2>11, <2>12, Zenon DEF s, q
<1> QED  BY <1>4, <1>5

\* startChannel(c, offset) when c does not run and no overflow of it is queued
LEMMA Started ==
  ASSUME NEW ch \in [Channel -> ChannelState], NEW q \in SUBSET EventState,
         NEW c \in Channel, NEW offset \in -1 .. Wrap,
         offset < ch[c].control.period,
         ch[c].control.enable, ~ch[c].control.cascade,
         \A f \in q : ~(f.kind = "overflow" /\ f.chan = c),
         \A d \in Channel \ {c} : Runs(ch[d]) /\ OnTime(ch[d], q, d),
         StartChannel(ch, q, c, offset)
  PROVE  /\ chan' \in [Channel -> ChannelState]
         /\ queue' \subseteq EventState
         /\ \A d \in Channel : Runs(chan'[d]) /\ OnTime(chan'[d], queue', d)
<1> DEFINE tag == FreshTag(q, c)
           cycles == (Range - ch[c].counter) * ch[c].control.period - offset
           new == [ch[c] EXCEPT !.running = TRUE, !.age = offset,
                                !.hasEvent = TRUE, !.eventOverflow = tag]
           e == [due |-> cycles, pri |-> 0, kind |-> "overflow", chan |-> c, tag |-> tag]
<1>1. /\ chan' = [ch EXCEPT ![c] = new] /\ queue' = q \cup {e} /\ FreeTags(q, c) # {}
  BY Zenon DEF StartChannel
<1>2. tag \in Tag
  <2>1. PICK x : x \in FreeTags(q, c)  BY <1>1
  <2>2. x \in Tag  BY <2>1 DEF FreeTags
  <2>3. tag \in Tag  BY <2>1, <2>2, Zenon DEF FreshTag
  <2> QED  BY <2>3
<1> HIDE DEF tag
<1>3. /\ ch[c] \in ChannelState /\ ch[c].control \in ControlState
      /\ ch[c].counter \in 0 .. Range - 1 /\ ch[c].control.period \in Period
  BY DEF ChannelState, ControlState
<1>4. /\ cycles \in 0 .. Range * Wrap + 1
      /\ offset \in -1 .. Range * Wrap
  <2> DEFINE k == ch[c].counter
             p == ch[c].control.period
             x == (Range - k) * p
  <2>1. k \in 0 .. Range - 1 /\ p \in Period  BY <1>3
  <2>2. /\ x \in Int /\ p <= x /\ x <= Range * Wrap
        /\ p >= 1 /\ p <= Wrap /\ Wrap \in Nat /\ Range * Wrap \in Nat
    <3> HIDE DEF k, p
    <3> QED  BY <2>1, CyclesLeft
  <2>3. p \in Int
    <3>1. \A y \in Period : y \in Int  BY TimerAssumption
    <3> QED  BY <2>1, <3>1, Zenon
  <2>4. offset \in Int /\ -1 <= offset /\ offset < p
    <3>1. Wrap \in Nat  BY <2>2
    <3> QED  BY <3>1
  <2>5. cycles = x - offset  OBVIOUS
  <2> DEFINE m == Range * Wrap
  <2> HIDE DEF k, p, x, cycles, m
  <2>6. x \in Int /\ p <= x /\ x <= m /\ m \in Nat  BY <2>2 DEF m
  <2>7. cycles \in 0 .. m + 1 /\ offset \in -1 .. m
    BY <2>3, <2>4, <2>5, <2>6
  <2> QED  BY <2>7 DEF m
<1>5. /\ new \in ChannelState /\ new.running /\ new.hasEvent /\ new.eventOverflow = tag
      /\ new.age = offset /\ new.counter = ch[c].counter /\ new.control = ch[c].control
  <2>1. new \in ChannelState  BY <1>2, <1>3, <1>4 DEF ChannelState
  <2>2. new.eventOverflow = tag /\ new.age = offset /\ new.counter = ch[c].counter
        /\ new.control = ch[c].control
    BY <1>3 DEF ChannelState
  <2>3. new.running = TRUE /\ new.hasEvent = TRUE  BY <1>3 DEF ChannelState
  <2> QED  BY <2>1, <2>2, <2>3
<1>6. e \in EventState  BY <1>2, <1>4 DEF EventState
<1>7. /\ e.kind = "overflow" /\ e.chan = c /\ e.tag = tag /\ e.due = cycles
  OBVIOUS
<1>8. cycles = (Range - new.counter) * new.control.period - new.age
  BY <1>5
<1> HIDE DEF new, e, cycles
<1>9. Runs(new)  BY <1>5, Zenon DEF Runs
<1>10. OnTime(new, q \cup {e}, c)
  <2>1. \A f \in q \cup {e} : f.kind = "overflow" /\ f.chan = c => f = e
    BY Zenon
  <2>2. e.due = (Range - new.counter) * new.control.period - new.age
    BY <1>7, <1>8, Zenon
  <2> QED  BY <1>5, <1>7, <2>1, <2>2, Zenon DEF OnTime
<1>11. ASSUME NEW d \in Channel \ {c} PROVE OnTime(ch[d], q \cup {e}, d)
  <2>1. OnTime(ch[d], q, d)  OBVIOUS
  <2>2. e.chan # d  BY <1>7
  <2>3. CASE ch[d].running
    <3>1. PICK g \in q :
            /\ g.kind = "overflow" /\ g.chan = d
            /\ \A f \in q : f.kind = "overflow" /\ f.chan = d => f = g
            /\ ch[d].hasEvent /\ ch[d].eventOverflow = g.tag
            /\ g.due = (Range - ch[d].counter) * ch[d].control.period - ch[d].age
      BY <2>1, <2>3, Zenon DEF OnTime
    <3>2. \A f \in q \cup {e} : f.kind = "overflow" /\ f.chan = d => f = g
      BY <2>2, <3>1, Zenon
    <3> QED  BY <2>3, <3>1, <3>2, Zenon DEF OnTime
  <2>4. CASE ~ch[d].running
    BY <2>1, <2>2, <2>4, Zenon DEF OnTime
  <2> QED  BY <2>3, <2>4
<1>12. chan' \in [Channel -> ChannelState]  BY <1>1, <1>5
<1>13. queue' \subseteq EventState  BY <1>1, <1>6
<1>14. chan'[c] = new /\ \A d \in Channel \ {c} : chan'[d] = ch[d]  BY <1>1
<1>15. \A d \in Channel : Runs(chan'[d]) /\ OnTime(chan'[d], queue', d)
  BY <1>1, <1>9, <1>10, <1>11, <1>14, Zenon
<1> QED  BY <1>12, <1>13, <1>15
-----------------------------------------------------------------------------
LEMMA InitInv == Init => Inv
<1> SUFFICES ASSUME Init PROVE Inv  OBVIOUS
<1> DEFINE r == [reload |-> 0, counter |-> 0, control |-> Off, running |-> FALSE,
                 age |-> 0, hasEvent |-> FALSE, eventOverflow |-> NoHandle]
<1>1. /\ chan = [c \in Channel |-> r] /\ queue = {} /\ clock = 0
      /\ pending = [c \in Channel |-> [reload |-> 0, control |-> Off]]
  BY DEF Init
<1>2. 0 \in 0 .. Range - 1 /\ 0 \in -1 .. Range * Wrap /\ 0 \in 0 .. Wrap - 1
  BY TimerAssumption
<1>3. r \in ChannelState  BY <1>2, OffFits DEF ChannelState
<1>4. [reload |-> 0, control |-> Off] \in [reload : 0 .. Range - 1, control : ControlState]
  BY <1>2, OffFits
<1>5. TypeOK  BY <1>1, <1>2, <1>3, <1>4 DEF TypeOK
<1>6. r.running = FALSE /\ r.control.enable = FALSE  BY DEF Off
<1> HIDE DEF r
<1>7. \A c \in Channel : chan[c] = r  BY <1>1
<1>8. \A c \in Channel : Runs(chan[c]) /\ OnTime(chan[c], queue, c)
  BY <1>1, <1>6, <1>7, Zenon DEF Runs, OnTime
<1> QED  BY <1>5, <1>8, Zenon DEF Inv

\* An event that is no overflow changes nothing about the overflows.
LEMMA SameOverflows ==
  ASSUME NEW q, NEW p,
         \A f : f.kind = "overflow" => (f \in q <=> f \in p),
         NEW r, NEW c, OnTime(r, q, c)
  PROVE  OnTime(r, p, c)
<1>1. CASE r.running
  <2>1. PICK e \in q :
          /\ e.kind = "overflow" /\ e.chan = c
          /\ \A f \in q : f.kind = "overflow" /\ f.chan = c => f = e
          /\ r.hasEvent /\ r.eventOverflow = e.tag
          /\ e.due = (Range - r.counter) * r.control.period - r.age
    BY <1>1, Zenon DEF OnTime
  <2>2. e \in p  BY <2>1, Zenon
  <2>3. \A f \in p : f.kind = "overflow" /\ f.chan = c => f = e  BY <2>1, Zenon
  <2> QED  BY <1>1, <2>1, <2>2, <2>3, Zenon DEF OnTime
<1>2. CASE ~r.running
  <2>1. \A f \in q : ~(f.kind = "overflow" /\ f.chan = c)  BY <1>2, Zenon DEF OnTime
  <2> QED  BY <1>2, <2>1, Zenon DEF OnTime
<1> QED  BY <1>1, <1>2

\* A commit is scheduled.
LEMMA WritesInv ==
  ASSUME Inv, NEW c \in Channel, NEW kind, NEW pri,
         \/ kind = "reload" /\ pri = 1
         \/ kind = "control" /\ pri = 2,
         Writes(c, kind, pri),
         pending' \in [Channel -> [reload : 0 .. Range - 1, control : ControlState]]
  PROVE  Inv'
<1> DEFINE e == [due |-> 1, pri |-> pri, kind |-> kind, chan |-> c, tag |-> NoHandle]
<1>1. queue' = queue \cup {e} /\ chan' = chan /\ clock' = clock  BY DEF Writes
<1>2. e \in EventState  BY DEF EventState
<1>3. e.kind # "overflow"  OBVIOUS
<1> HIDE DEF e
<1>4. TypeOK'  BY <1>1, <1>2 DEF Inv, TypeOK
<1>5. ASSUME NEW d \in Channel PROVE Runs(chan'[d]) /\ OnTime(chan'[d], queue', d)
  <2>1. Runs(chan[d]) /\ OnTime(chan[d], queue, d)  BY Zenon DEF Inv
  <2>2. \A f : f.kind = "overflow" => (f \in queue <=> f \in queue')
    BY <1>1, <1>3, Zenon
  <2>3. OnTime(chan[d], queue', d)  BY <2>1, <2>2, SameOverflows, Zenon
  <2> QED  BY <1>1, <2>1, <2>3, Zenon
<1>6. (\A d \in Channel : Runs(chan[d]) /\ OnTime(chan[d], queue, d))'
  BY <1>5, Zenon DEF Runs, OnTime
<1> QED  BY <1>4, <1>6, Zenon DEF Inv

LEMMA OverflowInv ==
  ASSUME Inv, NEW e \in queue, OnOverflow(e)
  PROVE  Inv'
<1> DEFINE c == e.chan
           ch == Reloaded(chan, c)
           q == queue \ {e}
<1>1. /\ e.kind = "overflow" /\ StartChannel(ch, q, c, 0)
      /\ pending' = pending /\ clock' = clock
  BY DEF OnOverflow
<1>2. chan \in [Channel -> ChannelState] /\ queue \subseteq EventState
  BY DEF Inv, TypeOK
<1>3. c \in Channel  BY <1>2 DEF EventState
<1>4. \A d \in Channel : Runs(chan[d]) /\ OnTime(chan[d], queue, d)  BY Zenon DEF Inv
<1>5. /\ ch \in [Channel -> ChannelState]
      /\ \A d \in Channel :
           /\ ch[d].control = chan[d].control /\ ch[d].running = chan[d].running
           /\ ch[d].age = chan[d].age /\ ch[d].hasEvent = chan[d].hasEvent
           /\ ch[d].eventOverflow = chan[d].eventOverflow
           /\ d # c /\ ~Cascades(chan[d]) => ch[d].counter = chan[d].counter
  <2> HIDE DEF c
  <2> QED  BY <1>2, <1>3, ReloadedKeeps
<1> HIDE DEF ch, c
<1>6. chan[c].running /\ \A f \in queue : f.kind = "overflow" /\ f.chan = c => f = e
  <2>1. e.chan = c  BY DEF c
  <2>2. chan[c].running  BY <1>1, <1>3, <1>4, <2>1, Zenon DEF OnTime
  <2>3. PICK g \in queue : \A f \in queue : f.kind = "overflow" /\ f.chan = c => f = g
    BY <1>3, <1>4, <2>2, Zenon DEF OnTime
  <2>4. e = g  BY <1>1, <2>1, <2>3, Zenon
  <2> QED  BY <2>2, <2>3, <2>4, Zenon
<1>7. \A f \in q : ~(f.kind = "overflow" /\ f.chan = c)  BY <1>6, Zenon
<1>8. ch[c].control.enable /\ ~ch[c].control.cascade
  BY <1>3, <1>4, <1>5, <1>6, Zenon DEF Runs
<1>9. ASSUME NEW d \in Channel \ {c} PROVE Runs(ch[d]) /\ OnTime(ch[d], q, d)
  <2>1. d # c /\ d \in Channel  OBVIOUS
  <2>2. Runs(ch[d])  BY <1>4, <1>5, Zenon DEF Runs
  <2>3. CASE chan[d].running
    <3>1. PICK g \in queue :
            /\ g.kind = "overflow" /\ g.chan = d
            /\ \A f \in queue : f.kind = "overflow" /\ f.chan = d => f = g
            /\ chan[d].hasEvent /\ chan[d].eventOverflow = g.tag
            /\ g.due = (Range - chan[d].counter) * chan[d].control.period - chan[d].age
      BY <1>4, <2>3, Zenon DEF OnTime
    <3>2. g \in q
      <4>1. e.chan # d  BY DEF c
      <4> QED  BY <3>1, <4>1, Zenon
    <3>3. ch[d].counter = chan[d].counter
      BY <1>4, <1>5, <2>1, <2>3, Zenon DEF Runs, Cascades
    <3>4. g.due = (Range - ch[d].counter) * ch[d].control.period - ch[d].age
      <4>1. ch[d].control = chan[d].control /\ ch[d].age = chan[d].age
        BY <1>5, <2>1, Zenon
      <4> QED  BY <3>1, <3>3, <4>1, Zenon
    <3>5. ch[d].running /\ ch[d].hasEvent /\ ch[d].eventOverflow = g.tag
      BY <1>5, <2>1, <2>3, <3>1, Zenon
    <3>6. \A f \in q : f.kind = "overflow" /\ f.chan = d => f = g  BY <3>1, Zenon
    <3>7. OnTime(ch[d], q, d)
      BY <3>1, <3>2, <3>4, <3>5, <3>6, Zenon DEF OnTime
    <3> QED  BY <2>2, <3>7
  <2>4. CASE ~chan[d].running
    <3>1. ~ch[d].running  BY <1>5, <2>1, <2>4, Zenon
    <3>2. \A f \in queue : ~(f.kind = "overflow" /\ f.chan = d)
      BY <1>4, <2>1, <2>4, Zenon DEF OnTime
    <3>3. OnTime(ch[d], q, d)  BY <3>1, <3>2, Zenon DEF OnTime
    <3> QED  BY <2>2, <3>3
  <2> QED  BY <2>3, <2>4
<1>10. 0 \in -1 .. Wrap /\ 0 < ch[c].control.period
  <2>1. ch[c] \in ChannelState  BY <1>3, <1>5
  <2>2. ch[c].control.period \in Nat \ {0}
    BY <2>1, TimerAssumption DEF ChannelState, ControlState
  <2>3. Wrap \in Nat  BY TimerAssumption
  <2> QED  BY <2>2, <2>3
<1>11. q \in SUBSET EventState  BY <1>2
<1> HIDE DEF q
<1>12. /\ chan' \in [Channel -> ChannelState] /\ queue' \subseteq EventState
       /\ \A d \in Channel : Runs(chan'[d]) /\ OnTime(chan'[d], queue', d)
  BY <1>1, <1>3, <1>5, <1>7, <1>8, <1>9, <1>10, <1>11, Started
<1>13. TypeOK'  BY <1>1, <1>12 DEF Inv, TypeOK
<1>14. (\A d \in Channel : Runs(chan[d]) /\ OnTime(chan[d], queue, d))'
  BY <1>12, Zenon DEF Runs, OnTime
<1> QED  BY <1>13, <1>14, Zenon DEF Inv

LEMMA ReloadWrittenInv ==
  ASSUME Inv, NEW e \in queue, OnReloadWritten(e)
  PROVE  Inv'
<1> DEFINE v == pending[e.chan].reload
           new == [chan[e.chan] EXCEPT !.reload = v]
<1>1. /\ e.kind = "reload" /\ chan' = [chan EXCEPT ![e.chan] = new]
      /\ pending' = [pending EXCEPT ![e.chan] = [pending[e.chan] EXCEPT !.reload = 0]]
      /\ queue' = queue \ {e} /\ clock' = clock
  BY DEF OnReloadWritten
<1>2. /\ chan \in [Channel -> ChannelState] /\ queue \subseteq EventState
      /\ pending \in [Channel -> [reload : 0 .. Range - 1, control : ControlState]]
  BY DEF Inv, TypeOK
<1>3. e.chan \in Channel  BY <1>2 DEF EventState
<1>4. chan[e.chan] \in ChannelState /\ v \in 0 .. Range - 1  BY <1>2, <1>3
<1> HIDE DEF v
<1>5. /\ new \in ChannelState /\ new.control = chan[e.chan].control
      /\ new.running = chan[e.chan].running /\ new.age = chan[e.chan].age
      /\ new.hasEvent = chan[e.chan].hasEvent /\ new.counter = chan[e.chan].counter
      /\ new.eventOverflow = chan[e.chan].eventOverflow
  BY <1>4 DEF ChannelState
<1> HIDE DEF new
<1>6. pending' \in [Channel -> [reload : 0 .. Range - 1, control : ControlState]]
  <2>1. 0 \in 0 .. Range - 1  BY TimerAssumption
  <2>2. [pending[e.chan] EXCEPT !.reload = 0] \in [reload : 0 .. Range - 1, control : ControlState]
    BY <1>2, <1>3, <2>1
  <2> QED  BY <1>1, <1>2, <2>2
<1>7. TypeOK'  BY <1>1, <1>2, <1>5, <1>6 DEF Inv, TypeOK
<1>8. ASSUME NEW d \in Channel PROVE Runs(chan'[d]) /\ OnTime(chan'[d], queue', d)
  <2>1. Runs(chan[d]) /\ OnTime(chan[d], queue, d)  BY Zenon DEF Inv
  <2>2. \A f : f.kind = "overflow" => (f \in queue <=> f \in queue')
    BY <1>1, Zenon
  <2>3. OnTime(chan[d], queue', d)  BY <2>1, <2>2, SameOverflows, Zenon
  <2>4. CASE d = e.chan
    <3>1. chan'[d] = new  BY <1>1, <1>2, <2>4
    <3>2. Runs(new)  BY <1>5, <2>1, <2>4, Zenon DEF Runs
    <3>3. OnTime(new, queue', d)  BY <1>5, <2>3, <2>4, Zenon DEF OnTime
    <3> QED  BY <3>1, <3>2, <3>3, Zenon
  <2>5. CASE d # e.chan
    <3>1. chan'[d] = chan[d]  BY <1>1, <1>2, <2>5
    <3> QED  BY <2>1, <2>3, <3>1, Zenon
  <2> QED  BY <2>4, <2>5
<1>9. (\A d \in Channel : Runs(chan[d]) /\ OnTime(chan[d], queue, d))'
  BY <1>8, Zenon DEF Runs, OnTime
<1> QED  BY <1>7, <1>9, Zenon DEF Inv

\* The control word new is in the channel, which has been stopped; it is, or is
\* not, loaded and started.
LEMMA ControlWrittenInv ==
  ASSUME Inv, NEW e \in queue, OnControlWritten(e)
  PROVE  Inv'
<1> DEFINE c == e.chan
           new == pending[c].control
           stopped == StopChannel(chan, queue \ {e}, c)
           old == stopped.channels[c]
           ch == [stopped.channels EXCEPT ![c] = [old EXCEPT !.control = new]]
           loaded == [ch EXCEPT ![c] = [ch[c] EXCEPT !.counter = ch[c].reload]]
           offset == clock % new.period
           Stays(state) == chan' = state /\ queue' = stopped.events
<1>1. /\ e.kind = "control" /\ clock' = clock
      /\ pending' = [pending EXCEPT ![c] = [pending[c] EXCEPT !.control = Off]]
  BY DEF OnControlWritten
<1>2. \/ (~new.enable \/ new.cascade) /\ (Stays(ch) \/ Stays(loaded))
      \/ /\ new.enable /\ ~new.cascade
         /\ \/ StartChannel(ch, stopped.events, c, offset)
            \/ StartChannel(ch, stopped.events, c, 0)
            \/ StartChannel(loaded, stopped.events, c, offset - 1)
  BY Zenon DEF OnControlWritten
<1>3. /\ chan \in [Channel -> ChannelState] /\ queue \subseteq EventState
      /\ pending \in [Channel -> [reload : 0 .. Range - 1, control : ControlState]]
      /\ clock \in 0 .. Wrap - 1
  BY DEF Inv, TypeOK
<1>4. c \in Channel  BY <1>3 DEF EventState
<1> HIDE DEF c
<1>5. new \in ControlState  BY <1>3, <1>4
<1>6. /\ stopped.channels \in [Channel -> ChannelState]
      /\ stopped.events \subseteq queue
      /\ ~stopped.channels[c].running
      /\ \A f \in stopped.events : ~(f.kind = "overflow" /\ f.chan = c)
      /\ \A d \in Channel \ {c} :
           Runs(stopped.channels[d]) /\ OnTime(stopped.channels[d], stopped.events, d)
  BY <1>1, <1>4, Stopped
<1> HIDE DEF new, stopped
<1>7. /\ ch \in [Channel -> ChannelState] /\ loaded \in [Channel -> ChannelState]
      /\ ch[c].control = new /\ loaded[c].control = new
      /\ ~ch[c].running /\ ~loaded[c].running
      /\ \A d \in Channel \ {c} : ch[d] = stopped.channels[d] /\ loaded[d] = stopped.channels[d]
  <2> DEFINE r == [old EXCEPT !.control = new]
             l == [r EXCEPT !.counter = r.reload]
  <2>1. old \in ChannelState  BY <1>4, <1>6
  <2>2. r \in ChannelState /\ r.control = new /\ r.running = old.running
    BY <1>5, <2>1 DEF ChannelState
  <2> HIDE DEF r
  <2>3. l \in ChannelState /\ l.control = new /\ l.running = old.running
    BY <2>2 DEF ChannelState
  <2> HIDE DEF l, old
  <2>4. ch = [stopped.channels EXCEPT ![c] = r]  BY DEF r
  <2> HIDE DEF ch
  <2>5. ch[c] = r /\ \A d \in Channel \ {c} : ch[d] = stopped.channels[d]
    BY <1>4, <1>6, <2>4
  <2>6. ch \in [Channel -> ChannelState]  BY <1>4, <1>6, <2>2, <2>4
  <2>7. loaded = [ch EXCEPT ![c] = l]  BY <2>5 DEF l
  <2> HIDE DEF loaded
  <2>8. loaded[c] = l /\ \A d \in Channel \ {c} : loaded[d] = ch[d]
    BY <1>4, <2>6, <2>7
  <2>9. loaded \in [Channel -> ChannelState]  BY <1>4, <2>3, <2>6, <2>7
  <2>10. ~old.running  BY <1>6 DEF old
  <2> QED  BY <2>2, <2>3, <2>5, <2>6, <2>8, <2>9, <2>10, Zenon
<1> HIDE DEF ch, loaded, old
<1>8. stopped.events \in SUBSET EventState  BY <1>3, <1>6
<1>9. \A d \in Channel \ {c} :
        /\ Runs(ch[d]) /\ OnTime(ch[d], stopped.events, d)
        /\ Runs(loaded[d]) /\ OnTime(loaded[d], stopped.events, d)
  BY <1>6, <1>7, Zenon
<1>10. pending' \in [Channel -> [reload : 0 .. Range - 1, control : ControlState]]
  <2>1. [pending[c] EXCEPT !.control = Off] \in [reload : 0 .. Range - 1, control : ControlState]
    BY <1>3, <1>4, OffFits
  <2> QED  BY <1>1, <1>3, <2>1
<1>11. /\ chan' \in [Channel -> ChannelState] /\ queue' \subseteq EventState
       /\ \A d \in Channel : Runs(chan'[d]) /\ OnTime(chan'[d], queue', d)
  <2>1. CASE (~new.enable \/ new.cascade) /\ (Stays(ch) \/ Stays(loaded))
    <3>1. Runs(ch[c]) /\ Runs(loaded[c])
      <4>1. (new.enable /\ ~new.cascade) = FALSE  BY <2>1, Zenon
      <4>2. ch[c].running \in BOOLEAN /\ loaded[c].running \in BOOLEAN
        BY <1>4, <1>7 DEF ChannelState
      <4>3. ch[c].running = FALSE /\ loaded[c].running = FALSE
        BY <1>7, <4>2, Zenon
      <4> QED  BY <1>7, <4>1, <4>3, Zenon DEF Runs
    <3>2. OnTime(ch[c], stopped.events, c) /\ OnTime(loaded[c], stopped.events, c)
      BY <1>6, <1>7, Zenon DEF OnTime
    <3>3. queue' = stopped.events  BY <2>1
    <3>4. CASE chan' = ch
      BY <1>7, <1>8, <1>9, <3>1, <3>2, <3>3, <3>4, Zenon
    <3>5. CASE chan' = loaded
      BY <1>7, <1>8, <1>9, <3>1, <3>2, <3>3, <3>5, Zenon
    <3> QED  BY <2>1, <3>4, <3>5
  <2>2. ASSUME new.enable, ~new.cascade,
               NEW o \in {0, offset, offset - 1},
               NEW state \in {ch, loaded},
               StartChannel(state, stopped.events, c, o)
        PROVE  /\ chan' \in [Channel -> ChannelState] /\ queue' \subseteq EventState
               /\ \A d \in Channel : Runs(chan'[d]) /\ OnTime(chan'[d], queue', d)
    <3>1. new.period \in Period  BY <1>5 DEF ControlState
    <3> DEFINE p == new.period
    <3> HIDE DEF p
    <3>2. p \in Period  BY <3>1 DEF p
    <3>3. p \in Nat /\ p >= 1 /\ p <= Wrap /\ Wrap \in Nat
      BY <3>2, TimerAssumption
    <3>4. clock \in Nat  BY <1>3, <3>3
    <3>5. clock % p \in 0 .. p - 1  BY <3>2, <3>4, Remainder
    <3>6. o \in {0, clock % p, (clock % p) - 1}  BY DEF p
    <3> DEFINE x == clock % p
    <3>7. x \in 0 .. p - 1 /\ o \in {0, x, x - 1}  BY <3>5, <3>6
    <3> HIDE DEF x
    <3>8. o \in -1 .. Wrap /\ o < p  BY <3>3, <3>7
    <3>9. /\ state \in [Channel -> ChannelState] /\ state[c].control = new
          /\ \A d \in Channel \ {c} : Runs(state[d]) /\ OnTime(state[d], stopped.events, d)
      BY <1>7, <1>9, Zenon
    <3>10. o < state[c].control.period  BY <3>8, <3>9 DEF p
    <3>11. state[c].control.enable /\ ~state[c].control.cascade  BY <2>2, <3>9, Zenon
    <3> QED  BY <1>4, <1>6, <1>8, <2>2, <3>8, <3>9, <3>10, <3>11, Started
  <2> QED  BY <1>2, <2>1, <2>2, Zenon
<1>12. TypeOK'  BY <1>1, <1>3, <1>10, <1>11 DEF TypeOK
<1>13. (\A d \in Channel : Runs(chan[d]) /\ OnTime(chan[d], queue, d))'
  BY <1>11, Zenon DEF Runs, OnTime
<1> QED  BY <1>12, <1>13, Zenon DEF Inv

\* A cycle passes: every event comes closer, every running channel ages.
LEMMA TickInv ==
  ASSUME Inv, Tick
  PROVE  Inv'
<1> DEFINE sooner(e) == [e EXCEPT !.due = @ - 1]
           older(r) == IF r.running THEN [r EXCEPT !.age = @ + 1] ELSE r
<1>1. /\ queue' = {sooner(e) : e \in queue}
      /\ chan' = [d \in Channel |-> older(chan[d])]
      /\ clock' = (clock + 1) % Wrap /\ pending' = pending
      /\ \A e \in queue : e.due # 0
  BY DEF Tick, Elapsed, DueNow
<1>2. /\ chan \in [Channel -> ChannelState] /\ queue \subseteq EventState
      /\ clock \in 0 .. Wrap - 1
  BY DEF Inv, TypeOK
<1>3. \A d \in Channel : Runs(chan[d]) /\ OnTime(chan[d], queue, d)  BY Zenon DEF Inv
<1>4. Range * Wrap \in Nat /\ Wrap \in Nat /\ Wrap >= 1  BY TimerAssumption
<1>5. ASSUME NEW e \in queue
      PROVE  /\ sooner(e) \in EventState
             /\ sooner(e).kind = e.kind /\ sooner(e).chan = e.chan /\ sooner(e).tag = e.tag
             /\ sooner(e).due = e.due - 1 /\ e.due \in Nat /\ e.due >= 1
  <2>1. e \in EventState /\ e.due # 0  BY <1>1, <1>2
  <2> DEFINE m == Range * Wrap
  <2>2. m \in Nat  BY <1>4
  <2> HIDE DEF m
  <2>3. EventState =
          [due : 0 .. m + 1, pri : {0}, kind : {"overflow"}, chan : Channel, tag : Tag]
            \cup [due : 0 .. 1, pri : {1}, kind : {"reload"}, chan : Channel, tag : {NoHandle}]
            \cup [due : 0 .. 1, pri : {2}, kind : {"control"}, chan : Channel, tag : {NoHandle}]
    BY DEF EventState, m
  <2>4. CASE e \in [due : 0 .. m + 1, pri : {0}, kind : {"overflow"}, chan : Channel, tag : Tag]
    BY <2>1, <2>2, <2>3, <2>4
  <2>5. CASE e \in [due : 0 .. 1, pri : {1}, kind : {"reload"}, chan : Channel, tag : {NoHandle}]
    BY <2>1, <2>3, <2>5
  <2>6. CASE e \in [due : 0 .. 1, pri : {2}, kind : {"control"}, chan : Channel, tag : {NoHandle}]
    BY <2>1, <2>3, <2>6
  <2> QED  BY <2>1, <2>3, <2>4, <2>5, <2>6
<1> HIDE DEF sooner
<1>6. queue' \subseteq EventState  BY <1>1, <1>5
<1>7. (clock + 1) % Wrap \in 0 .. Wrap - 1
  <2>1. clock + 1 \in Nat  BY <1>2, <1>4
  <2>2. Wrap \in Period  BY TimerAssumption
  <2> QED  BY <2>1, <2>2, Remainder
<1>8. ASSUME NEW d \in Channel
      PROVE  older(chan[d]) \in ChannelState /\ Runs(older(chan[d])) /\ OnTime(older(chan[d]), queue', d)
  <2> DEFINE r == chan[d]
             left == (Range - r.counter) * r.control.period
  <2>1. /\ r \in ChannelState /\ r.counter \in 0 .. Range - 1 /\ r.control.period \in Period
        /\ r.age \in -1 .. Range * Wrap
    BY <1>2 DEF ChannelState, ControlState
  <2>2. left \in Int /\ left <= Range * Wrap  BY <2>1, CyclesLeft
  <2>3. CASE r.running
    <3>1. PICK g \in queue :
            /\ g.kind = "overflow" /\ g.chan = d
            /\ \A f \in queue : f.kind = "overflow" /\ f.chan = d => f = g
            /\ r.hasEvent /\ r.eventOverflow = g.tag
            /\ g.due = left - r.age
      BY <1>3, <2>3, Zenon DEF OnTime
    <3>2. older(r) = [r EXCEPT !.age = r.age + 1]  BY <2>3
    <3>3. r.age + 1 \in -1 .. Range * Wrap
      <4>1. g.due \in Nat /\ g.due >= 1  BY <1>5
      <4> DEFINE m == Range * Wrap
                 a == r.age
      <4>2. left \in Int /\ left <= m /\ m \in Nat /\ a \in -1 .. m /\ g.due = left - a
        BY <1>4, <2>1, <2>2, <3>1
      <4> HIDE DEF left, m, a
      <4>3. a + 1 \in -1 .. m  BY <4>1, <4>2
      <4> QED  BY <4>3 DEF a, m
    <3>4. /\ older(r) \in ChannelState
          /\ older(r).counter = r.counter /\ older(r).control = r.control
          /\ older(r).age = r.age + 1 /\ older(r).running = r.running
          /\ older(r).hasEvent = r.hasEvent /\ older(r).eventOverflow = r.eventOverflow
      BY <2>1, <3>2, <3>3 DEF ChannelState
    <3> HIDE DEF older
    <3>5. Runs(older(r))  BY <1>3, <3>4, Zenon DEF Runs
    <3>6. sooner(g) \in queue'  BY <1>1
    <3>7. \A f \in queue' : f.kind = "overflow" /\ f.chan = d => f = sooner(g)
      <4> SUFFICES ASSUME NEW f \in queue', f.kind = "overflow", f.chan = d
                   PROVE  f = sooner(g)
        OBVIOUS
      <4>1. PICK h \in queue : f = sooner(h)  BY <1>1
      <4>2. h.kind = "overflow" /\ h.chan = d  BY <1>5, <4>1
      <4> QED  BY <3>1, <4>1, <4>2, Zenon
    <3>8. sooner(g).due = (Range - older(r).counter) * older(r).control.period - older(r).age
      <4>1. left = (Range - older(r).counter) * older(r).control.period  BY <3>4
      <4>2. g.due = left - r.age /\ left \in Int /\ r.age \in Int
        BY <1>4, <2>1, <2>2, <3>1
      <4> HIDE DEF left
      <4>3. sooner(g).due = left - (r.age + 1)  BY <1>5, <4>2
      <4> QED  BY <3>4, <4>1, <4>3
    <3>9. sooner(g).kind = "overflow" /\ sooner(g).chan = d /\ sooner(g).tag = g.tag
      BY <1>5, <3>1
    <3>10. OnTime(older(r), queue', d)
      <4>1. older(r).running /\ older(r).hasEvent /\ older(r).eventOverflow = sooner(g).tag
        BY <2>3, <3>1, <3>4, <3>9, Zenon
      <4> QED  BY <3>6, <3>7, <3>8, <3>9, <4>1, Zenon DEF OnTime
    <3> QED  BY <3>4, <3>5, <3>10
  <2>4. CASE ~r.running
    <3>1. older(r) = r  BY <2>4
    <3>2. \A f \in queue : ~(f.kind = "overflow" /\ f.chan = d)
      BY <1>3, <2>4, Zenon DEF OnTime
    <3>3. \A f \in queue' : ~(f.kind = "overflow" /\ f.chan = d)
      <4> SUFFICES ASSUME NEW f \in queue' PROVE ~(f.kind = "overflow" /\ f.chan = d)
        OBVIOUS
      <4>1. PICK h \in queue : f = sooner(h)  BY <1>1
      <4>2. f.kind = h.kind /\ f.chan = h.chan  BY <1>5, <4>1
      <4> QED  BY <3>2, <4>2, Zenon
    <3>4. OnTime(r, queue', d)  BY <2>4, <3>3, Zenon DEF OnTime
    <3> QED  BY <1>3, <2>1, <3>1, <3>4, Zenon
  <2> QED  BY <2>3, <2>4
<1> HIDE DEF older
<1>9. chan' \in [Channel -> ChannelState] /\ \A d \in Channel : chan'[d] = older(chan[d])
  BY <1>1, <1>8
<1>10. TypeOK'  BY <1>1, <1>6, <1>7, <1>9 DEF Inv, TypeOK
<1>11. \A d \in Channel : Runs(chan'[d]) /\ OnTime(chan'[d], queue', d)
  BY <1>8, <1>9, Zenon
<1>12. (\A d \in Channel : Runs(chan[d]) /\ OnTime(chan[d], queue, d))'
  BY <1>11, Zenon DEF Runs, OnTime
<1> QED  BY <1>10, <1>12, Zenon DEF Inv

LEMMA NextInv == Inv /\ [Next]_vars => Inv'
<1> SUFFICES ASSUME Inv, [Next]_vars PROVE Inv'  OBVIOUS
<1>1. ASSUME NEW c \in Channel, NEW v \in Reload, WriteReload(c, v) PROVE Inv'
  <2>1. pending' \in [Channel -> [reload : 0 .. Range - 1, control : ControlState]]
    <3>1. pending' = [pending EXCEPT ![c] = [pending[c] EXCEPT !.reload = v]]
      BY <1>1 DEF WriteReload
    <3>2. pending \in [Channel -> [reload : 0 .. Range - 1, control : ControlState]]
      BY DEF Inv, TypeOK
    <3>3. v \in 0 .. Range - 1  BY TimerAssumption
    <3>4. [pending[c] EXCEPT !.reload = v] \in [reload : 0 .. Range - 1, control : ControlState]
      BY <3>2, <3>3
    <3> QED  BY <3>1, <3>2, <3>4
  <2>2. Writes(c, "reload", 1)  BY <1>1 DEF WriteReload
  <2> QED  BY <2>1, <2>2, WritesInv
<1>2. ASSUME NEW c \in Channel, NEW k \in Control[c], WriteControl(c, k) PROVE Inv'
  <2>1. pending' \in [Channel -> [reload : 0 .. Range - 1, control : ControlState]]
    <3>1. pending' = [pending EXCEPT ![c] = [pending[c] EXCEPT !.control = k]]
      BY <1>2 DEF WriteControl
    <3>2. pending \in [Channel -> [reload : 0 .. Range - 1, control : ControlState]]
      BY DEF Inv, TypeOK
    <3>3. k \in ControlState
      <4>1. Control[c] \in SUBSET ControlState  BY TimerAssumption
      <4> QED  BY <4>1
    <3>4. [pending[c] EXCEPT !.control = k] \in [reload : 0 .. Range - 1, control : ControlState]
      BY <3>2, <3>3
    <3> QED  BY <3>1, <3>2, <3>4
  <2>2. Writes(c, "control", 2)  BY <1>2 DEF WriteControl
  <2> QED  BY <2>1, <2>2, WritesInv
<1>3. ASSUME NEW e \in queue, Fire(e) PROVE Inv'
  <2>1. OnReloadWritten(e) \/ OnControlWritten(e) \/ OnOverflow(e)  BY <1>3 DEF Fire
  <2> QED  BY <2>1, ReloadWrittenInv, ControlWrittenInv, OverflowInv
<1>4. CASE Tick  BY <1>4, TickInv
<1>5. CASE UNCHANGED vars
  <2>1. chan' = chan /\ pending' = pending /\ queue' = queue /\ clock' = clock
    BY <1>5 DEF vars
  <2>2. TypeOK'  BY <2>1 DEF Inv, TypeOK
  <2>3. \A d \in Channel : Runs(chan'[d]) /\ OnTime(chan'[d], queue', d)
    BY <2>1, Zenon DEF Inv
  <2>4. (\A d \in Channel : Runs(chan[d]) /\ OnTime(chan[d], queue, d))'
    BY <2>3, Zenon DEF Runs, OnTime
  <2> QED  BY <2>2, <2>4, Zenon DEF Inv
<1> QED  BY <1>1, <1>2, <1>3, <1>4, <1>5, Zenon DEF Next

LEMMA InvHolds == Spec => []Inv
<1> QED  BY InitInv, NextInv, PTL DEF Spec

\* The timers keep their types: no counter leaves its range, no age outgrows the
\* counter's period, and no event is due later than a full count.
THEOREM TimerTypeCorrect == Spec => []TypeOK
<1>1. Inv => TypeOK  BY DEF Inv
<1> QED  BY <1>1, InvHolds, PTL

\* A channel runs exactly while it is enabled and does not cascade, whatever is
\* written in the cycle of its overflow (onControlWritten, onOverflow).
THEOREM RunningIsEnabled == Spec => []RunsWhenEnabled
<1>1. Inv => RunsWhenEnabled  BY InvMeans
<1> QED  BY <1>1, InvHolds, PTL

\* A running channel has exactly one overflow queued, the one it can cancel, in the
\* cycle in which its counter reaches Range; a stopped one has none.
THEOREM OverflowsOnTime == Spec => []OverflowOnTime
<1>1. Inv => OverflowOnTime  BY InvMeans
<1> QED  BY <1>1, InvHolds, PTL
-----------------------------------------------------------------------------
(***************************************************************************)
(* The timers implement Counters: each lemma named ...Implements says what *)
(* an action of Timer is for the counters, and that Commits still holds.   *)
(***************************************************************************)
\* Quotient and remainder by a prescaler's period
LEMMA Division ==
  ASSUME NEW q \in Nat, NEW p \in Period, NEW r \in 0 .. p - 1
  PROVE  q * p + r \in Nat /\ (q * p + r) \div p = q /\ (q * p + r) % p = r
<1> DEFINE n == q * p + r
           d == n \div p
           m == n % p
           qp == q * p
           dp == d * p
<1>1. p \in Nat /\ p > 0  BY TimerAssumption
<1>2. qp \in Nat  BY <1>1
<1>3. n \in Nat  BY <1>1, <1>2
<1>4. d \in Int /\ m \in 0 .. p - 1 /\ n = d * p + m  BY <1>1, <1>3
<1>5. d < q => dp <= qp - p  BY <1>1, <1>4
<1>6. d > q => dp >= qp + p  BY <1>1, <1>4
<1>7. dp \in Int /\ n = dp + m /\ n = qp + r  BY <1>1, <1>4
<1> HIDE DEF n, qp, dp, d, m
<1>8. d = q  BY <1>1, <1>2, <1>3, <1>4, <1>5, <1>6, <1>7
<1>9. m = r  BY <1>2, <1>4, <1>7, <1>8 DEF qp, dp
<1> QED  BY <1>3, <1>8, <1>9 DEF n, d, m

LEMMA Divided ==
  ASSUME NEW a \in Nat, NEW p \in Period
  PROVE  a \div p \in Nat /\ a % p \in 0 .. p - 1 /\ a = (a \div p) * p + (a % p)
<1> DEFINE d == a \div p
           m == a % p
           dp == d * p
<1>1. p \in Nat /\ p > 0  BY TimerAssumption
<1>2. d \in Int /\ m \in 0 .. p - 1 /\ a = d * p + m  BY <1>1
<1>3. d < 0 => dp <= -p  BY <1>1, <1>2
<1>4. dp \in Int /\ a = dp + m  BY <1>1, <1>2
<1> HIDE DEF d, m, dp
<1>5. d \in Nat  BY <1>1, <1>2, <1>3, <1>4
<1> QED  BY <1>2, <1>5, Zenon DEF d, m

\* A cycle more: the prescaler goes on, or counts and starts again.
LEMMA OneMore ==
  ASSUME NEW a \in Nat, NEW p \in Period
  PROVE  /\ (a % p) + 1 = p => (a + 1) % p = 0 /\ (a + 1) \div p = (a \div p) + 1
         /\ (a % p) + 1 # p => (a + 1) % p = (a % p) + 1 /\ (a + 1) \div p = a \div p
<1> DEFINE d == a \div p
           m == a % p
           dp == d * p
<1>1. p \in Nat /\ p > 0 /\ d \in Nat /\ m \in 0 .. p - 1 /\ a = dp + m /\ dp \in Nat
  <2>1. p \in Nat /\ p > 0  BY TimerAssumption
  <2>2. d \in Nat /\ m \in 0 .. p - 1 /\ a = dp + m  BY Divided, Zenon
  <2>3. dp \in Nat  BY <2>1, <2>2
  <2> QED  BY <2>1, <2>2, <2>3
<1>2. (d + 1) * p = dp + p  BY <1>1
<1>3. ASSUME m + 1 = p PROVE (a + 1) % p = 0 /\ (a + 1) \div p = d + 1
  <2> DEFINE n == (d + 1) * p + 0
  <2>1. a + 1 = n
    <3>1. n = dp + p  BY <1>1, <1>2
    <3> HIDE DEF dp, n, m
    <3> QED  BY <1>1, <1>3, <3>1
  <2>2. d + 1 \in Nat /\ 0 \in 0 .. p - 1  BY <1>1
  <2>3. n \div p = d + 1 /\ n % p = 0
    <3> HIDE DEF d
    <3> QED  BY <2>2, Division
  <2> HIDE DEF n, d
  <2> QED  BY <2>1, <2>3, Zenon
<1>4. ASSUME m + 1 # p PROVE (a + 1) % p = m + 1 /\ (a + 1) \div p = d
  <2> DEFINE n == d * p + (m + 1)
  <2>1. a + 1 = n
    <3>1. n = dp + (m + 1)  OBVIOUS
    <3> HIDE DEF dp, n, m
    <3> QED  BY <1>1, <3>1
  <2>2. d \in Nat /\ m + 1 \in 0 .. p - 1
    <3> HIDE DEF m, d, dp
    <3> QED  BY <1>1, <1>4
  <2>3. n \div p = d /\ n % p = m + 1
    <3> HIDE DEF d, m
    <3> QED  BY <2>2, Division
  <2> HIDE DEF n, d, m
  <2> QED  BY <2>1, <2>3, Zenon
<1> QED  BY <1>3, <1>4
-----------------------------------------------------------------------------
\* Cycles since the last count
Sub(r) == IF r.age < 0 THEN r.age ELSE r.age % r.control.period

Shown == [c \in Channel |-> Counted(chan[c])]
Begun == [c \in Channel |-> Sub(chan[c])]

\* What the commits under way rely on: a channel that does not run has no age, at
\* most one value is committed for each register, it is one that was written, and
\* a channel that has just been started late is not written in the same cycle.
Commits ==
  /\ \A c \in Channel : chan[c].running \/ chan[c].age = 0
  /\ \A f, g \in queue : f.kind = g.kind /\ f.kind # "overflow" => f = g
  /\ \A f \in queue : f.kind = "reload" => pending[f.chan].reload \in Reload
  /\ \A f \in queue : f.kind = "control" => pending[f.chan].control \in Control[f.chan]
  /\ \A f \in queue : f.kind = "control" /\ f.due = 0 => chan[f.chan].age >= 0

\* A counter reads Range exactly when its overflow is due.
LEMMA ReadsRangeWhenDue ==
  ASSUME Inv, Commits, NEW c \in Channel
  PROVE  /\ Counted(chan[c]) \in 0 .. Range
         /\ ~chan[c].running => Counted(chan[c]) = chan[c].counter
         /\ Counted(chan[c]) = Range =>
              chan[c].running /\ \E e \in queue : e.kind = "overflow" /\ e.chan = c /\ e.due = 0
         /\ \A e \in queue : e.kind = "overflow" /\ e.chan = c /\ e.due = 0 =>
              Counted(chan[c]) = Range /\ Sub(chan[c]) = 0
<1> DEFINE r == chan[c]
           k == r.counter
           p == r.control.period
           a == r.age
           full == (Range - k) * p
<1>1. /\ r \in ChannelState /\ k \in 0 .. Range - 1 /\ p \in Period /\ a \in -1 .. Range * Wrap
      /\ queue \subseteq EventState
  BY DEF Inv, TypeOK, ChannelState, ControlState
<1>2. Range \in Nat /\ k \in Nat /\ k < Range /\ p \in Nat /\ p > 0 /\ a \in Int /\ a >= -1
  <2>1. Range \in Nat /\ p \in Nat /\ p > 0
    <3> HIDE DEF p
    <3> QED  BY <1>1, TimerAssumption
  <2>2. Range * Wrap \in Int  BY TimerAssumption
  <2> DEFINE m == Range * Wrap
  <2>3. a \in -1 .. m /\ m \in Int  BY <1>1, <2>2
  <2> HIDE DEF m, a, k
  <2> QED  BY <1>1, <2>1, <2>3
<1>3. OnTime(r, queue, c)  BY Zenon DEF Inv
<1>4. Counted(r) = k + IF r.running /\ a >= 0 THEN a \div p ELSE 0  BY DEF Counted, Delta
<1>5. CASE ~r.running
  <2>1. Counted(r) = k  BY <1>2, <1>4, <1>5
  <2>2. \A e \in queue : ~(e.kind = "overflow" /\ e.chan = c)  BY <1>3, <1>5, Zenon DEF OnTime
  <2> HIDE DEF k
  <2>3. k \in 0 .. Range /\ k # Range  BY <1>2
  <2> QED  BY <1>5, <2>1, <2>2, <2>3 DEF k
<1>6. CASE r.running
  <2>1. PICK e \in queue :
          /\ e.kind = "overflow" /\ e.chan = c
          /\ \A f \in queue : f.kind = "overflow" /\ f.chan = c => f = e
          /\ e.due = full - a
    BY <1>3, <1>6, Zenon DEF OnTime
  <2>2. full \in Int /\ p <= full  BY <1>1, CyclesLeft
  <2>3. e.due \in Nat
    <3>1. e \in EventState /\ Range * Wrap + 1 \in Nat
      <4>1. Range * Wrap \in Nat  BY TimerAssumption
      <4> QED  BY <1>1, <4>1
    <3> DEFINE m == Range * Wrap + 1
    <3>2. e.due \in 0 .. m  BY <2>1, <3>1 DEF EventState
    <3> HIDE DEF m
    <3> QED  BY <3>2
  <2> DEFINE d == a \div p
             t == a % p
             dp == d * p
             n == Range - k
  <2>4. ASSUME a >= 0 PROVE d \in Nat /\ t \in 0 .. p - 1 /\ a = dp + t /\ dp \in Nat
    <3>1. a \in Nat  BY <1>2, <2>4
    <3>2. d \in Nat /\ t \in 0 .. p - 1 /\ a = dp + t
      <4> HIDE DEF a, p
      <4> QED  BY <1>1, <3>1, Divided, Zenon
    <3> QED  BY <1>2, <3>2
  <2>5. n \in Nat /\ n > 0  BY <1>2
  <2>6. ASSUME a >= 0 PROVE d <= n
    <3>1. d > n => dp >= full + p
      <4> HIDE DEF d, n, p
      <4> QED  BY <1>2, <2>4, <2>5, <2>6 DEF n
    <3> HIDE DEF dp, full, d, n, a, p, t
    <3> QED  BY <1>2, <2>1, <2>2, <2>3, <2>4, <2>5, <2>6, <3>1
  <2>7. ASSUME a >= 0, d = n PROVE e.due = 0
    <3>1. dp = full  BY <2>7
    <3> HIDE DEF dp, full, d, n, a, p, t
    <3> QED  BY <1>2, <2>1, <2>2, <2>3, <2>4, <2>7, <3>1
  <2>8. ASSUME e.due = 0 PROVE a >= 0 /\ d = n /\ t = 0
    <3>1. a = full + 0 /\ a >= 0
      <4> HIDE DEF full, a
      <4> QED  BY <1>2, <2>1, <2>2, <2>8
    <3>2. n \in Nat /\ 0 \in 0 .. p - 1  BY <1>2, <2>5
    <3>3. (n * p + 0) \div p = n /\ (n * p + 0) % p = 0
      <4> HIDE DEF n, p
      <4> QED  BY <1>1, <3>2, Division
    <3> QED  BY <3>1, <3>3, Zenon
  <2>9. Counted(r) = IF a >= 0 THEN k + d ELSE k
    BY <1>2, <1>4, <1>6
  <2>10. a >= 0 => Sub(r) = t
    BY <1>2 DEF Sub
  <2> HIDE DEF d, t, n, k, p, full, dp
  <2>11. /\ Counted(r) \in 0 .. Range
         /\ Counted(r) = Range <=> a >= 0 /\ d = n
    BY <1>2, <2>4, <2>5, <2>6, <2>9 DEF n
  <2>12. Counted(r) = Range <=> e.due = 0
    BY <2>7, <2>8, <2>11
  <2>13. e.due = 0 => Sub(r) = 0
    BY <2>8, <2>10
  <2> QED  BY <1>6, <2>1, <2>11, <2>12, <2>13, Zenon
<1> QED  BY <1>5, <1>6

Reloads == [c \in Channel |-> chan[c].reload]
Controls == [c \in Channel |-> chan[c].control]

\* The mapping in the next state
LEMMA Primed ==
  /\ Shown' = [d \in Channel |-> Counted(chan'[d])]
  /\ Begun' = [d \in Channel |-> Sub(chan'[d])]
  /\ Reloads' = [d \in Channel |-> chan'[d].reload]
  /\ Controls' = [d \in Channel |-> chan'[d].control]
BY DEF Shown, Begun, Reloads, Controls, Counted, Sub, Delta

\* When no overflow is due, no counter reads Range.
LEMMA SettledUnlessDue ==
  ASSUME Inv, Commits, \A e \in queue : ~(e.kind = "overflow" /\ e.due = 0)
  PROVE  Eager!Settled
<1>1. ASSUME NEW c \in Channel PROVE Counted(chan[c]) # Range
  BY ReadsRangeWhenDue, Zenon
<1> QED  BY <1>1 DEF Eager!Settled

\* Of the events that are due, Fire takes an overflow first.
LEMMA OverflowsFirst ==
  ASSUME Inv, NEW e \in Frontier(DueNow(queue)), e.kind # "overflow"
  PROVE  e \in queue /\ e.due = 0 /\ \A f \in queue : ~(f.kind = "overflow" /\ f.due = 0)
<1>1. e \in queue /\ e.due = 0  BY DEF Frontier, DueNow
<1>2. queue \subseteq EventState  BY DEF Inv, TypeOK
<1>3. ASSUME NEW f \in queue, f.kind = "overflow", f.due = 0 PROVE FALSE
  <2>1. Key(e) <= Key(f)  BY <1>3 DEF Frontier, DueNow
  <2>2. e \in EventState /\ f \in EventState  BY <1>1, <1>2, <1>3
  <2>3. e.pri \in {1, 2}  BY <2>2 DEF EventState
  <2>4. f.pri = 0  BY <1>3, <2>2 DEF EventState
  <2> QED  BY <1>1, <1>3, <2>1, <2>3, <2>4 DEF Key
<1> QED  BY <1>1, <1>3

\* A write is only noted.
LEMMA WritesStutter ==
  ASSUME Inv, Commits, NEW c \in Channel, NEW kind, NEW pri, Writes(c, kind, pri),
         \/ /\ kind = "reload"
            /\ \E v \in Reload : pending' = [pending EXCEPT ![c] = [pending[c] EXCEPT !.reload = v]]
         \/ /\ kind = "control"
            /\ \E k \in Control[c] : pending' = [pending EXCEPT ![c] = [pending[c] EXCEPT !.control = k]]
  PROVE  Commits' /\ UNCHANGED <<chan, clock>>
<1> DEFINE e == [due |-> 1, pri |-> pri, kind |-> kind, chan |-> c, tag |-> NoHandle]
<1>1. /\ queue' = queue \cup {e} /\ chan' = chan /\ clock' = clock
      /\ \A f \in queue : f.kind # "overflow" => f.chan = c /\ f.kind # kind
  BY DEF Writes
<1>2. e.kind = kind /\ e.chan = c /\ e.due = 1 /\ kind # "overflow"  OBVIOUS
<1> HIDE DEF e
<1>3. pending \in [Channel -> [reload : 0 .. Range - 1, control : ControlState]]
  BY DEF Inv, TypeOK
<1>4. /\ \A d \in Channel : chan'[d].running \/ chan'[d].age = 0
      /\ \A f \in queue' : f.kind = "control" /\ f.due = 0 => chan'[f.chan].age >= 0
  <2>1. e.due # 0  BY <1>2
  <2> QED  BY <1>1, <2>1, Zenon DEF Commits
<1>5. ASSUME NEW f \in queue', NEW g \in queue', f.kind = g.kind, f.kind # "overflow"
      PROVE  f = g
  BY <1>1, <1>2, <1>5, Zenon DEF Commits
<1>6. /\ \A f \in queue' : f.kind = "reload" => pending'[f.chan].reload \in Reload
      /\ \A f \in queue' : f.kind = "control" => pending'[f.chan].control \in Control[f.chan]
  <2>1. CASE kind = "reload"
    <3>1. PICK v \in Reload : pending' = [pending EXCEPT ![c] = [pending[c] EXCEPT !.reload = v]]
      BY <2>1
    <3>2. pending'[c].reload = v /\ pending'[c].control = pending[c].control
      BY <1>3, <3>1
    <3>3. \A f \in queue : f.kind # "overflow" => f.chan = c /\ f.kind # "reload"
      BY <1>1, <2>1
    <3>4. /\ \A f \in queue' : f.kind = "reload" => f.chan = c
          /\ \A f \in queue' : f.kind = "control" => f.chan = c /\ f \in queue
      BY <1>1, <1>2, <2>1, <3>3
    <3> QED  BY <3>2, <3>4, Zenon DEF Commits
  <2>2. CASE kind = "control"
    <3>1. PICK k \in Control[c] : pending' = [pending EXCEPT ![c] = [pending[c] EXCEPT !.control = k]]
      BY <2>2
    <3>2. pending'[c].control = k /\ pending'[c].reload = pending[c].reload
      BY <1>3, <3>1
    <3>3. \A f \in queue : f.kind # "overflow" => f.chan = c /\ f.kind # "control"
      BY <1>1, <2>2
    <3>4. /\ \A f \in queue' : f.kind = "control" => f.chan = c
          /\ \A f \in queue' : f.kind = "reload" => f.chan = c /\ f \in queue
      BY <1>1, <1>2, <2>2, <3>3
    <3> QED  BY <3>2, <3>4, Zenon DEF Commits
  <2> QED  BY <2>1, <2>2
<1> QED  BY <1>1, <1>4, <1>5, <1>6, Zenon DEF Commits

\* The commit of a reload value is the abstract write.
LEMMA ReloadWrittenImplements ==
  ASSUME Inv, Commits, NEW e \in Frontier(DueNow(queue)), OnReloadWritten(e)
  PROVE  Commits' /\ \E c \in Channel, v \in Reload : Eager!SetReload(c, v)
<1> DEFINE c == e.chan
           v == pending[c].reload
           new == [chan[c] EXCEPT !.reload = v]
<1>1. /\ e.kind = "reload" /\ chan' = [chan EXCEPT ![c] = new]
      /\ pending' = [pending EXCEPT ![c] = [pending[c] EXCEPT !.reload = 0]]
      /\ queue' = queue \ {e} /\ clock' = clock
  BY DEF OnReloadWritten
<1>2. /\ e \in queue /\ e.due = 0 /\ Eager!Settled
  BY <1>1, OverflowsFirst, SettledUnlessDue
<1>3. /\ chan \in [Channel -> ChannelState] /\ queue \subseteq EventState
      /\ pending \in [Channel -> [reload : 0 .. Range - 1, control : ControlState]]
  BY DEF Inv, TypeOK
<1>4. c \in Channel /\ v \in Reload
  BY <1>1, <1>2, <1>3 DEF EventState, Commits
<1> HIDE DEF v, c
<1>5. chan[c] \in ChannelState  BY <1>3, <1>4
<1>6. /\ new.reload = v /\ new.control = chan[c].control /\ new.running = chan[c].running
      /\ new.age = chan[c].age /\ new.counter = chan[c].counter
  BY <1>5 DEF ChannelState
<1> HIDE DEF new
<1>7. chan'[c] = new /\ \A d \in Channel \ {c} : chan'[d] = chan[d]
  BY <1>1, <1>3, <1>4
<1>8. Counted(new) = Counted(chan[c]) /\ Sub(new) = Sub(chan[c])
  BY <1>6, Zenon DEF Counted, Sub, Delta
<1>9. \A d \in Channel :
        /\ Counted(chan'[d]) = Counted(chan[d]) /\ Sub(chan'[d]) = Sub(chan[d])
        /\ chan'[d].control = chan[d].control /\ chan'[d].running = chan[d].running
        /\ chan'[d].age = chan[d].age
        /\ chan'[d].reload = IF d = c THEN v ELSE chan[d].reload
  <2> SUFFICES ASSUME NEW d \in Channel
               PROVE  /\ Counted(chan'[d]) = Counted(chan[d]) /\ Sub(chan'[d]) = Sub(chan[d])
                      /\ chan'[d].control = chan[d].control /\ chan'[d].running = chan[d].running
                      /\ chan'[d].age = chan[d].age
                      /\ chan'[d].reload = IF d = c THEN v ELSE chan[d].reload
    OBVIOUS
  <2>1. CASE d = c  BY <1>6, <1>7, <1>8, <2>1, Zenon
  <2>2. CASE d # c  BY <1>7, <2>2
  <2> QED  BY <2>1, <2>2
<1>10. Shown' = Shown /\ Begun' = Begun /\ Controls' = Controls
  <2>1. Shown' = Shown  BY <1>9, Primed DEF Shown
  <2>2. Begun' = Begun  BY <1>9, Primed DEF Begun
  <2>3. Controls' = Controls  BY <1>9, Primed DEF Controls
  <2> QED  BY <2>1, <2>2, <2>3
<1>11. Reloads' = [Reloads EXCEPT ![c] = v]
  <2>1. [Reloads EXCEPT ![c] = v] = [d \in Channel |-> IF d = c THEN v ELSE chan[d].reload]
    BY DEF Reloads
  <2> QED  BY <1>9, <2>1, Primed
<1>12. \E y \in Reload : Eager!SetReload(c, y)
  <2>1. PICK y \in Reload : y = v  BY <1>4
  <2>2. Reloads' = [Reloads EXCEPT ![c] = y]  BY <1>11, <2>1
  <2>3. Eager!SetReload(c, y)
    BY <1>1, <1>2, <1>10, <2>2, Zenon
    DEF Eager!SetReload, Reloads, Controls, Shown, Begun, Sub
  <2> QED  BY <2>3
<1>13. Commits'
  <2>1. \A f \in queue' : f \in queue /\ (f.kind = "reload" => FALSE)
    BY <1>1, <1>2, Zenon DEF Commits
  <2>2. \A d \in Channel : pending'[d].control = pending[d].control
    BY <1>1, <1>3, <1>4
  <2>3. \A f \in queue' : f.chan \in Channel  BY <1>3, <2>1 DEF EventState
  <2>4. \A d \in Channel : chan'[d].running \/ chan'[d].age = 0
    BY <1>9, Zenon DEF Commits
  <2>5. \A f \in queue' : f.kind = "control" /\ f.due = 0 => chan'[f.chan].age >= 0
    BY <1>9, <2>1, <2>3, Zenon DEF Commits
  <2>6. \A f \in queue' : f.kind = "control" => pending'[f.chan].control \in Control[f.chan]
    BY <2>1, <2>2, <2>3, Zenon DEF Commits
  <2>7. \A f, g \in queue' : f.kind = g.kind /\ f.kind # "overflow" => f = g
    BY <2>1, Zenon DEF Commits
  <2> QED  BY <2>1, <2>4, <2>5, <2>6, <2>7, Zenon DEF Commits
<1> QED  BY <1>4, <1>12, <1>13

\* An overflow fires when its counter reads Range.
LEMMA OverflowImplements ==
  ASSUME Inv, Commits, NEW e \in Frontier(DueNow(queue)), OnOverflow(e)
  PROVE  Commits' /\ \E c \in Channel : Eager!Overflow(c)
<1> DEFINE c == e.chan
           ch == Reloaded(chan, c)
           tag == FreshTag(queue \ {e}, c)
           new == [ch[c] EXCEPT !.running = TRUE, !.age = 0, !.hasEvent = TRUE, !.eventOverflow = tag]
           n == [due |-> (Range - ch[c].counter) * ch[c].control.period - 0, pri |-> 0,
                 kind |-> "overflow", chan |-> c, tag |-> tag]
<1>1. /\ e.kind = "overflow" /\ chan' = [ch EXCEPT ![c] = new]
      /\ queue' = (queue \ {e}) \cup {n}
      /\ pending' = pending /\ clock' = clock
  BY Zenon DEF OnOverflow, StartChannel
<1>2. e \in queue /\ e.due = 0  BY DEF Frontier, DueNow
<1>3. chan \in [Channel -> ChannelState] /\ queue \subseteq EventState
  BY DEF Inv, TypeOK
<1>4. c \in Channel  BY <1>2, <1>3 DEF EventState
<1>5. /\ Counted(chan[c]) = Range /\ Sub(chan[c]) = 0
  <2>1. e.chan = c  OBVIOUS
  <2> HIDE DEF c
  <2> QED  BY <1>1, <1>2, <1>4, <2>1, ReadsRangeWhenDue
<1>6. n.kind = "overflow" /\ n.chan = c  OBVIOUS
<1> HIDE DEF c, n, tag
<1>7. /\ ch \in [Channel -> ChannelState]
      /\ \A d \in Channel :
           /\ ch[d].control = chan[d].control /\ ch[d].running = chan[d].running
           /\ ch[d].age = chan[d].age /\ ch[d].reload = chan[d].reload
           /\ d # c /\ ~Cascades(chan[d]) => ch[d].counter = chan[d].counter
  BY <1>3, <1>4, ReloadedKeeps
<1>8. /\ new.running = TRUE /\ new.age = 0 /\ new.counter = ch[c].counter
      /\ new.control = ch[c].control /\ new.reload = ch[c].reload
  <2>1. ch[c] \in ChannelState  BY <1>4, <1>7
  <2> HIDE DEF ch
  <2> QED  BY <2>1 DEF ChannelState
<1> HIDE DEF new
<1>9. chan'[c] = new /\ \A d \in Channel \ {c} : chan'[d] = ch[d]
  <2> HIDE DEF ch
  <2> QED  BY <1>1, <1>4, <1>7
<1>10. \A d \in Channel : Runs(chan[d])  BY Zenon DEF Inv
<1>11. \A d \in Channel : Cascades(chan[d]) => Counted(chan[d]) = chan[d].counter
  <2> SUFFICES ASSUME NEW d \in Channel, Cascades(chan[d]) PROVE Counted(chan[d]) = chan[d].counter
    OBVIOUS
  <2>1. ~chan[d].running  BY <1>10, Zenon DEF Cascades, Runs
  <2> QED  BY <2>1, ReadsRangeWhenDue
<1>12. ASSUME NEW d \in Channel PROVE CarriesTo(chan, c, d) <=> Eager!CarriesTo(c, d)
  <2>1. ASSUME d > c, NEW x \in c + 1 .. d PROVE x \in Channel
    BY <1>4, <2>1, TimerAssumption DEF Channel
  <2>2. ASSUME d > c, NEW x \in c + 1 .. d - 1 PROVE x \in c + 1 .. d
    BY <1>4, TimerAssumption DEF Channel
  <2>3. \A x \in Channel : Shown[x] = Counted(chan[x]) /\ Controls[x] = chan[x].control
    BY DEF Shown, Controls
  <2>4. Eager!CarriesTo(c, d) <=>
          /\ d > c
          /\ \A x \in c + 1 .. d : Controls[x].enable /\ Controls[x].cascade
          /\ \A x \in c + 1 .. d - 1 : Shown[x] = Range - 1
    BY Zenon DEF Eager!CarriesTo, Shown, Controls
  <2>5. ASSUME d > c
        PROVE  /\ \A x \in c + 1 .. d : Cascades(chan[x]) <=> Controls[x].enable /\ Controls[x].cascade
               /\ \A x \in c + 1 .. d - 1 : Cascades(chan[x]) => Shown[x] = chan[x].counter
    BY <1>11, <2>1, <2>2, <2>3, <2>5, Zenon DEF Cascades
  <2>6. ASSUME CarriesTo(chan, c, d) PROVE Eager!CarriesTo(c, d)
    <3>1. d > c  BY <2>6, Zenon DEF CarriesTo
    <3>2. \A x \in c + 1 .. d - 1 : Cascades(chan[x])  BY <2>2, <2>6, <3>1, Zenon DEF CarriesTo
    <3> QED  BY <2>4, <2>5, <2>6, <3>1, <3>2, Zenon DEF CarriesTo
  <2>7. ASSUME Eager!CarriesTo(c, d) PROVE CarriesTo(chan, c, d)
    <3>1. d > c  BY <2>4, <2>7, Zenon
    <3>2. \A x \in c + 1 .. d : Cascades(chan[x])  BY <2>4, <2>5, <2>7, <3>1, Zenon
    <3>3. \A x \in c + 1 .. d - 1 : Cascades(chan[x])  BY <2>2, <3>1, <3>2, Zenon
    <3>4. \A x \in c + 1 .. d - 1 : chan[x].counter = Range - 1
      BY <2>4, <2>5, <2>7, <3>1, <3>3, Zenon
    <3> QED  BY <3>1, <3>2, <3>4, Zenon DEF CarriesTo
  <2> QED  BY <2>6, <2>7
<1>13. ASSUME NEW d \in Channel
       PROVE  Counted(chan'[d]) =
                IF d = c \/ (Eager!CarriesTo(c, d) /\ Counted(chan[d]) = Range - 1) THEN chan[d].reload
                ELSE IF Eager!CarriesTo(c, d) THEN Counted(chan[d]) + 1 ELSE Counted(chan[d])
  <2>1. CASE d = c
    <3>1. ch[c].counter = chan[c].reload
      <4>1. ch[c] = [chan[c] EXCEPT !.counter = chan[c].reload]  BY <1>4 DEF Reloaded
      <4>2. chan[c] \in ChannelState  BY <1>3, <1>4
      <4> QED  BY <4>1, <4>2 DEF ChannelState
    <3> HIDE DEF ch
    <3>2. chan'[d] = new  BY <1>9, <2>1
    <3>3. new.control.period \in Period
      <4>1. ch[c] \in ChannelState  BY <1>4, <1>7
      <4> QED  BY <1>8, <4>1 DEF ChannelState, ControlState
    <3>4. 0 \div new.control.period = 0
      <4> DEFINE p == new.control.period
      <4>1. p \in Period  BY <3>3
      <4> HIDE DEF p
      <4>2. p \in Nat /\ p > 0  BY <4>1, TimerAssumption
      <4>3. 0 \div p = 0  BY <4>2
      <4> QED  BY <4>3 DEF p
    <3>5. chan[c].reload \in Int  BY <1>3, <1>4, TimerAssumption DEF ChannelState
    <3>6. Counted(new) = chan[c].reload + 0
      BY <1>8, <3>1, <3>4 DEF Counted, Delta
    <3>7. Counted(new) = chan[c].reload  BY <3>5, <3>6
    <3> QED  BY <2>1, <3>2, <3>7
  <2>2. CASE d # c /\ CarriesTo(chan, c, d)
    <3>1. Cascades(chan[d])  BY <1>4, <2>2 DEF CarriesTo, Channel
    <3>2. ~chan[d].running /\ Counted(chan[d]) = chan[d].counter
      BY <1>10, <1>11, <3>1, Zenon DEF Cascades, Runs
    <3>3. chan[d] \in ChannelState  BY <1>3
    <3>4. ch[d].counter = IF chan[d].counter = Range - 1 THEN chan[d].reload ELSE chan[d].counter + 1
      <4>1. ch[d] = IF chan[d].counter = Range - 1
                    THEN [chan[d] EXCEPT !.counter = chan[d].reload]
                    ELSE [chan[d] EXCEPT !.counter = chan[d].counter + 1]
        BY <2>2 DEF Reloaded
      <4> QED  BY <3>3, <4>1 DEF ChannelState
    <3>5. ~ch[d].running  BY <1>7, <3>2, Zenon
    <3>6. ch[d] \in ChannelState  BY <1>7
    <3> HIDE DEF ch
    <3>7. Counted(ch[d]) = ch[d].counter
      BY <3>5, <3>6, TimerAssumption DEF Counted, ChannelState
    <3>8. chan'[d] = ch[d]  BY <1>9, <2>2
    <3> QED  BY <1>12, <2>2, <3>2, <3>4, <3>7, <3>8
  <2>3. CASE d # c /\ ~CarriesTo(chan, c, d)
    <3>1. ch[d] = chan[d]  BY <2>3 DEF Reloaded
    <3> HIDE DEF ch
    <3>2. chan'[d] = chan[d]  BY <1>9, <2>3, <3>1
    <3> QED  BY <1>12, <2>3, <3>2
  <2> QED  BY <2>1, <2>2, <2>3
<1> HIDE DEF ch
<1>14. ASSUME NEW d \in Channel
       PROVE  /\ chan'[d].reload = chan[d].reload /\ chan'[d].control = chan[d].control
              /\ chan'[d].running \/ chan'[d].age = 0
              /\ Sub(chan'[d]) = Sub(chan[d])
              /\ d # c => chan'[d].age = chan[d].age
              /\ d = c => chan'[d].age = 0
  <2>1. CASE d = c
    <3>1. new.control.period \in Period
      <4>1. ch[c] \in ChannelState  BY <1>4, <1>7
      <4> QED  BY <1>8, <4>1 DEF ChannelState, ControlState
    <3>2. 0 % new.control.period = 0
      <4> DEFINE p == new.control.period
      <4>1. p \in Period  BY <3>1
      <4> HIDE DEF p
      <4>2. p \in Nat /\ p > 0  BY <4>1, TimerAssumption
      <4>3. 0 % p = 0  BY <4>2
      <4> QED  BY <4>3 DEF p
    <3>3. Sub(new) = 0  BY <1>8, <3>2 DEF Sub
    <3>4. chan'[d] = new  BY <1>9, <2>1
    <3> QED  BY <1>5, <1>7, <1>8, <2>1, <3>3, <3>4, Zenon
  <2>2. CASE d # c
    <3>1. chan'[d] = ch[d]  BY <1>9, <2>2
    <3>2. Sub(ch[d]) = Sub(chan[d])  BY <1>7, Zenon DEF Sub
    <3>3. chan[d].running \/ chan[d].age = 0  BY DEF Commits
    <3> QED  BY <1>7, <2>2, <3>1, <3>2, <3>3, Zenon
  <2> QED  BY <2>1, <2>2
<1>15. Eager!Overflow(c)
  <2>1. Shown' = [d \in Channel |->
           IF d = c \/ (Eager!CarriesTo(c, d) /\ Shown[d] = Range - 1) THEN Reloads[d]
           ELSE IF Eager!CarriesTo(c, d) THEN Shown[d] + 1 ELSE Shown[d]]
    <3>1. \A d \in Channel : Shown[d] = Counted(chan[d]) /\ Reloads[d] = chan[d].reload
      BY DEF Shown, Reloads
    <3> QED  BY <1>13, <3>1, Primed
  <2>2. Reloads' = Reloads /\ Controls' = Controls /\ Begun' = Begun
    <3>1. Reloads' = Reloads  BY <1>14, Primed DEF Reloads
    <3>2. Controls' = Controls  BY <1>14, Primed DEF Controls
    <3>3. Begun' = Begun  BY <1>14, Primed DEF Begun
    <3> QED  BY <3>1, <3>2, <3>3
  <2>3. Shown[c] = Range  BY <1>4, <1>5 DEF Shown
  <2> QED  BY <1>1, <2>1, <2>2, <2>3, Zenon DEF Eager!Overflow, Reloads, Controls, Shown, Begun, Sub
<1>16. Commits'
  <2>1. \A f \in queue' : f.kind # "overflow" => f \in queue  BY <1>1, <1>6, Zenon
  <2>2. \A f \in queue' : f.kind # "overflow" => f.chan \in Channel
    BY <1>3, <2>1 DEF EventState
  <2>3. \A d \in Channel : chan'[d].running \/ chan'[d].age = 0  BY <1>14
  <2>4. \A f \in queue' : f.kind = "control" /\ f.due = 0 => chan'[f.chan].age >= 0
    <3> SUFFICES ASSUME NEW f \in queue', f.kind = "control", f.due = 0
                 PROVE  chan'[f.chan].age >= 0
      OBVIOUS
    <3>1. chan[f.chan].age >= 0 /\ f.chan \in Channel  BY <2>1, <2>2 DEF Commits
    <3>2. chan'[f.chan].age = chan[f.chan].age \/ chan'[f.chan].age = 0
      BY <1>14, <3>1
    <3> QED  BY <3>1, <3>2
  <2>5. \A f, g \in queue' : f.kind = g.kind /\ f.kind # "overflow" => f = g
    BY <2>1, Zenon DEF Commits
  <2>6. /\ \A f \in queue' : f.kind = "reload" => pending'[f.chan].reload \in Reload
        /\ \A f \in queue' : f.kind = "control" => pending'[f.chan].control \in Control[f.chan]
    <3>1. "reload" # "overflow" /\ "control" # "overflow"  OBVIOUS
    <3> QED  BY <1>1, <2>1, <3>1, Zenon DEF Commits
  <2> QED  BY <2>3, <2>4, <2>5, <2>6, Zenon DEF Commits
<1> QED  BY <1>4, <1>15, <1>16

\* stopChannel brings the counter up to date, if it is not called in the cycle of a
\* late start.
LEMMA StoppedReads ==
  ASSUME Inv, Commits, NEW c \in Channel, NEW q,
         Counted(chan[c]) # Range, chan[c].running => chan[c].age >= 0
  PROVE  LET s == StopChannel(chan, q, c) IN
         /\ \A d \in Channel \ {c} : s.channels[d] = chan[d]
         /\ s.channels \in [Channel -> ChannelState]
         /\ s.channels[c].counter = Counted(chan[c])
         /\ s.channels[c].reload = chan[c].reload
         /\ s.channels[c].running = FALSE /\ s.channels[c].age = 0
         /\ s.events \subseteq q
<1> DEFINE n == chan[c].counter + Delta(chan[c])
           up == [chan[c] EXCEPT !.counter = n]
           off == [up EXCEPT !.hasEvent = FALSE, !.running = FALSE, !.age = 0]
           s == StopChannel(chan, q, c)
<1>1. chan \in [Channel -> ChannelState] /\ chan[c] \in ChannelState
  BY DEF Inv, TypeOK
<1>2. CASE ~chan[c].running
  <2>1. s = [channels |-> chan, events |-> q]  BY <1>2, Zenon DEF StopChannel
  <2>2. s.channels = chan /\ s.events = q  BY <2>1
  <2>3. Counted(chan[c]) = chan[c].counter  BY <1>2, ReadsRangeWhenDue
  <2>4. chan[c].running = FALSE
    <3>1. chan[c].running \in BOOLEAN  BY <1>1 DEF ChannelState
    <3> QED  BY <1>2, <3>1, Zenon
  <2>5. chan[c].age = 0  BY <1>2, Zenon DEF Commits
  <2> HIDE DEF s
  <2> QED  BY <1>1, <2>2, <2>3, <2>4, <2>5, Zenon DEF s
<1>3. CASE chan[c].running
  <2>1. Counted(chan[c]) = n  BY <1>3 DEF Counted
  <2>2. Counted(chan[c]) \in 0 .. Range /\ Range \in Nat  BY ReadsRangeWhenDue, TimerAssumption
  <2> HIDE DEF n
  <2>3. n \in 0 .. Range - 1  BY <2>1, <2>2
  <2>4. PICK t :
          s = [channels |-> [[chan EXCEPT ![c].counter = n] EXCEPT
                               ![c] = [@ EXCEPT !.hasEvent = FALSE, !.running = FALSE, !.age = 0]],
               events |-> t] /\ t \subseteq q
    <3> DEFINE kept == IF ~chan[c].hasEvent THEN q
                       ELSE {e \in q : ~(e.kind = "overflow" /\ e.chan = c
                                         /\ e.tag = chan[c].eventOverflow)}
    <3>1. s = [channels |-> [[chan EXCEPT ![c].counter = n] EXCEPT
                               ![c] = [@ EXCEPT !.hasEvent = FALSE, !.running = FALSE, !.age = 0]],
               events |-> kept]
      BY <1>3, <2>3, Zenon DEF StopChannel, n
    <3>2. kept \subseteq q  OBVIOUS
    <3> HIDE DEF kept, s
    <3> QED  BY <3>1, <3>2
  <2>5. up \in ChannelState /\ up.counter = n /\ up.reload = chan[c].reload
    BY <1>1, <2>3 DEF ChannelState
  <2> HIDE DEF up
  <2>6. /\ off \in ChannelState /\ off.counter = n /\ off.reload = chan[c].reload
        /\ off.running = FALSE /\ off.age = 0
    <3>1. 0 \in -1 .. Range * Wrap
      <4>1. Range \in Nat /\ Wrap \in Nat  BY TimerAssumption
      <4> QED  BY <4>1
    <3> QED  BY <2>5, <3>1 DEF ChannelState
  <2> HIDE DEF off, s
  <2>7. [chan EXCEPT ![c].counter = n] = [chan EXCEPT ![c] = up]  BY DEF up
  <2> DEFINE ch == [chan EXCEPT ![c] = up]
  <2>8. ch[c] = up  BY <1>1
  <2>9. s.channels = [ch EXCEPT ![c] = off] /\ s.events \subseteq q
    BY <2>4, <2>7, <2>8 DEF off
  <2>10. s.channels = [chan EXCEPT ![c] = off]  BY <1>1, <2>9
  <2>11. /\ s.channels[c] = off /\ \A d \in Channel \ {c} : s.channels[d] = chan[d]
         /\ s.channels \in [Channel -> ChannelState]
    BY <1>1, <2>6, <2>10
  <2> QED  BY <2>1, <2>6, <2>9, <2>11, Zenon DEF s
<1> QED  BY <1>2, <1>3

\* startChannel(c, offset) when the channel does not run
LEMMA StartedReads ==
  ASSUME NEW ch \in [Channel -> ChannelState], NEW q, NEW c \in Channel,
         NEW offset \in -1 .. Wrap, offset < ch[c].control.period,
         StartChannel(ch, q, c, offset)
  PROVE  /\ \A d \in Channel \ {c} : chan'[d] = ch[d]
         /\ chan'[c].running = TRUE
         /\ chan'[c].control = ch[c].control /\ chan'[c].reload = ch[c].reload
         /\ Counted(chan'[c]) = ch[c].counter
         /\ Sub(chan'[c]) = offset
         /\ \A f \in queue' : f.kind # "overflow" => f \in q
<1> DEFINE tag == FreshTag(q, c)
           new == [ch[c] EXCEPT !.running = TRUE, !.age = offset,
                                !.hasEvent = TRUE, !.eventOverflow = tag]
           e == [due |-> (Range - ch[c].counter) * ch[c].control.period - offset, pri |-> 0,
                 kind |-> "overflow", chan |-> c, tag |-> tag]
           p == ch[c].control.period
<1>1. chan' = [ch EXCEPT ![c] = new] /\ queue' = q \cup {e}
  BY Zenon DEF StartChannel
<1>2. e.kind = "overflow"  OBVIOUS
<1> HIDE DEF e, tag
<1>3. ch[c] \in ChannelState /\ p \in Period /\ ch[c].counter \in Int
  BY TimerAssumption DEF ChannelState, ControlState
<1>4. /\ new.running = TRUE /\ new.age = offset /\ new.counter = ch[c].counter
      /\ new.control = ch[c].control /\ new.reload = ch[c].reload
  BY <1>3 DEF ChannelState
<1> HIDE DEF new
<1>5. chan'[c] = new /\ \A d \in Channel \ {c} : chan'[d] = ch[d]
  BY <1>1
<1>6. Counted(new) = ch[c].counter /\ Sub(new) = offset
  <2>1. Wrap \in Nat  BY TimerAssumption
  <2>2. offset \in Int /\ offset >= -1 /\ offset < p  BY <2>1
  <2> DEFINE k == ch[c].counter
  <2>3. /\ Counted(new) = k + IF offset >= 0 THEN offset \div p ELSE 0
        /\ Sub(new) = IF offset < 0 THEN offset ELSE offset % p
    BY <1>4 DEF Counted, Delta, Sub
  <2>4. ASSUME offset >= 0 PROVE offset \div p = 0 /\ offset % p = offset
    <3> HIDE DEF p
    <3>1. p \in Nat /\ p > 0  BY <1>3, TimerAssumption
    <3> QED  BY <2>2, <2>4, <3>1
  <2> HIDE DEF p, k
  <2>5. k \in Int  BY <1>3 DEF k
  <2> QED  BY <2>2, <2>3, <2>4, <2>5 DEF k
<1> QED  BY <1>1, <1>2, <1>4, <1>5, <1>6, Zenon

\* The commit of a control word is the abstract one.
LEMMA ControlWrittenImplements ==
  ASSUME Inv, Commits, NEW e \in Frontier(DueNow(queue)), OnControlWritten(e)
  PROVE  Commits' /\ \E c \in Channel : \E k \in Control[c] : Eager!SetControl(c, k)
<1> DEFINE c == e.chan
           new == pending[c].control
           stopped == StopChannel(chan, queue \ {e}, c)
           old == stopped.channels[c]
           ch == [stopped.channels EXCEPT ![c] = [old EXCEPT !.control = new]]
           loaded == [ch EXCEPT ![c] = [ch[c] EXCEPT !.counter = ch[c].reload]]
           offset == clock % new.period
           already == chan[c].control.enable
           last == ch[c].counter = Range - 1 /\ offset = 0
           Stays(state) == chan' = state /\ queue' = stopped.events
           restarts == /\ new.enable /\ ~already
                       /\ new.cascade \/ Counted(chan[c]) # Range - 1 \/ offset # 0
<1>1. /\ e.kind = "control" /\ clock' = clock
      /\ pending' = [pending EXCEPT ![c] = [pending[c] EXCEPT !.control = Off]]
      /\ \/ ~new.enable /\ Stays(ch)
         \/ new.enable /\ already /\ new.cascade /\ Stays(ch)
         \/ new.enable /\ already /\ ~new.cascade /\ StartChannel(ch, stopped.events, c, offset)
         \/ new.enable /\ ~already /\ new.cascade /\ Stays(loaded)
         \/ new.enable /\ ~already /\ ~new.cascade /\ last /\ StartChannel(ch, stopped.events, c, 0)
         \/ /\ new.enable /\ ~already /\ ~new.cascade /\ ~last
            /\ StartChannel(loaded, stopped.events, c, offset - 1)
  BY Zenon DEF OnControlWritten
<1>2. /\ e \in queue /\ e.due = 0 /\ Eager!Settled
  BY <1>1, OverflowsFirst, SettledUnlessDue
<1>3. /\ chan \in [Channel -> ChannelState] /\ queue \subseteq EventState
      /\ pending \in [Channel -> [reload : 0 .. Range - 1, control : ControlState]]
      /\ clock \in 0 .. Wrap - 1
  BY DEF Inv, TypeOK
<1>4. c \in Channel /\ new \in Control[c] /\ new \in ControlState
  BY <1>1, <1>2, <1>3 DEF EventState, Commits
<1>5. chan[c].age >= 0  BY <1>1, <1>2 DEF Commits
<1> HIDE DEF c
<1>6. Counted(chan[c]) # Range  BY <1>2, <1>4 DEF Eager!Settled
<1>7. /\ \A d \in Channel \ {c} : stopped.channels[d] = chan[d]
      /\ stopped.channels \in [Channel -> ChannelState]
      /\ old.counter = Counted(chan[c]) /\ old.reload = chan[c].reload
      /\ old.running = FALSE /\ old.age = 0
      /\ stopped.events \subseteq queue \ {e}
  <2>1. PICK q : q = queue \ {e}  OBVIOUS
  <2>2. stopped = StopChannel(chan, q, c)  BY <2>1
  <2> HIDE DEF old, stopped
  <2>3. LET t == StopChannel(chan, q, c) IN
        /\ \A d \in Channel \ {c} : t.channels[d] = chan[d]
        /\ t.channels \in [Channel -> ChannelState]
        /\ t.channels[c].counter = Counted(chan[c])
        /\ t.channels[c].reload = chan[c].reload
        /\ t.channels[c].running = FALSE /\ t.channels[c].age = 0
        /\ t.events \subseteq q
    BY <1>4, <1>5, <1>6, StoppedReads, Zenon
  <2> QED  BY <2>1, <2>2, <2>3, Zenon DEF old
<1> HIDE DEF new, stopped
<1>8. /\ ch \in [Channel -> ChannelState] /\ loaded \in [Channel -> ChannelState]
      /\ ch[c].control = new /\ loaded[c].control = new
      /\ ch[c].running = FALSE /\ loaded[c].running = FALSE
      /\ ch[c].age = 0 /\ loaded[c].age = 0
      /\ ch[c].reload = chan[c].reload /\ loaded[c].reload = chan[c].reload
      /\ ch[c].counter = Counted(chan[c]) /\ loaded[c].counter = chan[c].reload
      /\ \A d \in Channel \ {c} : ch[d] = chan[d] /\ loaded[d] = chan[d]
  <2> DEFINE r == [old EXCEPT !.control = new]
             l == [r EXCEPT !.counter = r.reload]
  <2>1. old \in ChannelState  BY <1>4, <1>7
  <2>2. /\ r \in ChannelState /\ r.control = new /\ r.running = old.running /\ r.age = old.age
        /\ r.counter = old.counter /\ r.reload = old.reload
    BY <1>4, <2>1 DEF ChannelState
  <2> HIDE DEF r
  <2>3. /\ l \in ChannelState /\ l.control = new /\ l.running = old.running /\ l.age = old.age
        /\ l.counter = r.reload /\ l.reload = r.reload
    BY <2>2 DEF ChannelState
  <2> HIDE DEF l, old
  <2>4. ch = [stopped.channels EXCEPT ![c] = r]  BY DEF r
  <2> HIDE DEF ch
  <2>5. ch[c] = r /\ \A d \in Channel \ {c} : ch[d] = stopped.channels[d]
    BY <1>4, <1>7, <2>4
  <2>6. ch \in [Channel -> ChannelState]  BY <1>4, <1>7, <2>2, <2>4
  <2>7. loaded = [ch EXCEPT ![c] = l]  BY <2>5 DEF l
  <2> HIDE DEF loaded
  <2>8. loaded[c] = l /\ \A d \in Channel \ {c} : loaded[d] = ch[d]
    BY <1>4, <2>6, <2>7
  <2>9. loaded \in [Channel -> ChannelState]  BY <1>4, <2>3, <2>6, <2>7
  <2> QED  BY <1>7, <2>2, <2>3, <2>5, <2>6, <2>8, <2>9, Zenon
<1> HIDE DEF ch, loaded, old
<1> DEFINE result == /\ \A d \in Channel \ {c} : chan'[d] = chan[d]
                     /\ chan'[c].control = new /\ chan'[c].reload = chan[c].reload
                     /\ chan'[c].running \/ chan'[c].age = 0
                     /\ Counted(chan'[c]) = IF restarts THEN chan[c].reload ELSE Counted(chan[c])
                     /\ Sub(chan'[c]) = IF ~new.enable \/ new.cascade THEN 0
                                        ELSE offset - IF restarts THEN 1 ELSE 0
                     /\ \A f \in queue' : f.kind # "overflow" => f \in queue \ {e}
<1>9. /\ new.period \in Nat /\ new.period > 0 /\ offset \in 0 .. new.period - 1
      /\ new.period <= Wrap /\ Wrap \in Nat
  <2>1. new.period \in Period  BY <1>4 DEF ControlState
  <2> DEFINE p == new.period
  <2> HIDE DEF p
  <2>2. p \in Period  BY <2>1 DEF p
  <2>3. p \in Nat /\ p > 0 /\ p <= Wrap /\ Wrap \in Nat  BY <2>2, TimerAssumption
  <2>4. clock \in Nat  BY <1>3, <2>3
  <2>5. clock % p \in 0 .. p - 1  BY <2>2, <2>4, Remainder
  <2> QED  BY <2>3, <2>5 DEF p
<1> HIDE DEF offset
<1>10. ASSUME NEW state \in {ch, loaded}, Stays(state),
              ~new.enable \/ new.cascade,
              state[c].counter = IF restarts THEN chan[c].reload ELSE Counted(chan[c])
       PROVE  result
  <2> HIDE DEF restarts
  <2>1. /\ chan'[c].control = new /\ chan'[c].running = FALSE /\ chan'[c].age = 0
        /\ chan'[c].reload = chan[c].reload
        /\ \A d \in Channel \ {c} : chan'[d] = chan[d]
        /\ chan'[c].counter = state[c].counter
        /\ chan'[c] \in ChannelState
    <3>1. chan' = ch \/ chan' = loaded  BY <1>10
    <3>2. chan' = state  BY <1>10
    <3>3. chan'[c] \in ChannelState  BY <1>4, <1>8, <3>1
    <3> QED  BY <1>8, <3>1, <3>2, <3>3, Zenon
  <2>2. Counted(chan'[c]) = chan'[c].counter
    <3> DEFINE r == chan'[c]
    <3>1. r \in ChannelState /\ ~r.running  BY <2>1
    <3> HIDE DEF r
    <3>2. r.counter \in Int  BY <3>1, TimerAssumption DEF ChannelState
    <3>3. Counted(r) = r.counter + 0  BY <3>1 DEF Counted
    <3>4. Counted(r) = r.counter  BY <3>2, <3>3
    <3> QED  BY <3>4 DEF r
  <2>3. Sub(chan'[c]) = 0
    <3> DEFINE p == new.period
    <3>1. p \in Nat /\ p > 0  BY <1>9
    <3>2. Sub(chan'[c]) = 0 % p  BY <2>1 DEF Sub
    <3> HIDE DEF p
    <3>3. 0 % p = 0  BY <3>1
    <3> QED  BY <3>2, <3>3
  <2>4. queue' \subseteq queue \ {e}  BY <1>7, <1>10
  <2> QED  BY <1>10, <2>1, <2>2, <2>3, <2>4, Zenon
<1>11. ASSUME NEW state \in {ch, loaded}, NEW o \in {0, offset, offset - 1},
              new.enable, ~new.cascade,
              StartChannel(state, stopped.events, c, o),
              state[c].counter = IF restarts THEN chan[c].reload ELSE Counted(chan[c]),
              o = offset - IF restarts THEN 1 ELSE 0
       PROVE  result
  <2> HIDE DEF restarts
  <2>1. o \in -1 .. Wrap /\ o < new.period  BY <1>9
  <2>2. /\ state \in [Channel -> ChannelState] /\ state[c].control = new
        /\ state[c].reload = chan[c].reload
        /\ \A d \in Channel \ {c} : state[d] = chan[d]
    BY <1>8, Zenon
  <2>3. o < state[c].control.period  BY <2>1, <2>2
  <2>4. /\ \A d \in Channel \ {c} : chan'[d] = state[d]
        /\ chan'[c].running = TRUE
        /\ chan'[c].control = state[c].control /\ chan'[c].reload = state[c].reload
        /\ Counted(chan'[c]) = state[c].counter
        /\ Sub(chan'[c]) = o
        /\ \A f \in queue' : f.kind # "overflow" => f \in stopped.events
    BY <1>4, <1>11, <2>1, <2>2, <2>3, StartedReads
  <2>5. \A f \in queue' : f.kind # "overflow" => f \in queue \ {e}  BY <1>7, <2>4
  <2> QED  BY <1>11, <2>2, <2>4, <2>5, Zenon
<1> HIDE DEF result
<1>12. result
  <2>1. CASE ~new.enable /\ Stays(ch)
    <3>1. ~restarts  BY <2>1
    <3> QED  BY <1>8, <1>10, <2>1, <3>1, Zenon
  <2>2. CASE new.enable /\ already /\ new.cascade /\ Stays(ch)
    <3>1. ~restarts  BY <2>2
    <3> QED  BY <1>8, <1>10, <2>2, <3>1, Zenon
  <2>3. CASE new.enable /\ already /\ ~new.cascade /\ StartChannel(ch, stopped.events, c, offset)
    <3>1. ~restarts  BY <2>3
    <3>2. offset = offset - 0  BY <1>9
    <3> HIDE DEF restarts
    <3>3. offset = offset - IF restarts THEN 1 ELSE 0  BY <3>1, <3>2, Zenon
    <3> QED  BY <1>8, <1>11, <2>3, <3>1, <3>3, Zenon
  <2>4. CASE new.enable /\ ~already /\ new.cascade /\ Stays(loaded)
    <3>1. restarts  BY <2>4
    <3> QED  BY <1>8, <1>10, <2>4, <3>1, Zenon
  <2>5. CASE new.enable /\ ~already /\ ~new.cascade /\ last /\ StartChannel(ch, stopped.events, c, 0)
    <3>1. ~restarts /\ offset = 0  BY <1>8, <2>5
    <3>2. 0 = offset - 0  BY <3>1
    <3> HIDE DEF restarts
    <3>3. 0 = offset - IF restarts THEN 1 ELSE 0  BY <3>1, <3>2, Zenon
    <3> QED  BY <1>8, <1>11, <2>5, <3>1, <3>3, Zenon
  <2>6. CASE /\ new.enable /\ ~already /\ ~new.cascade /\ ~last
             /\ StartChannel(loaded, stopped.events, c, offset - 1)
    <3>1. restarts  BY <1>8, <2>6
    <3> HIDE DEF restarts
    <3>2. offset - 1 = offset - IF restarts THEN 1 ELSE 0  BY <3>1, Zenon
    <3> QED  BY <1>8, <1>11, <2>6, <3>1, <3>2, Zenon
  <2> QED  BY <1>1, <2>1, <2>2, <2>3, <2>4, <2>5, <2>6, Zenon
<1>13. \E k \in Control[c] : Eager!SetControl(c, k)
  <2>1. Eager!Restarts(c, new) <=> restarts
    BY <1>4 DEF Eager!Restarts, offset
  <2> HIDE DEF restarts, already
  <2>2. Controls' = [Controls EXCEPT ![c] = new]
    <3>1. [Controls EXCEPT ![c] = new] = [d \in Channel |-> IF d = c THEN new ELSE chan[d].control]
      BY DEF Controls
    <3>2. \A d \in Channel : chan'[d].control = IF d = c THEN new ELSE chan[d].control
      BY <1>12 DEF result
    <3> QED  BY <3>1, <3>2, Primed
  <2>3. Shown' = [Shown EXCEPT ![c] = IF Eager!Restarts(c, new) THEN Reloads[c] ELSE @]
    <3> DEFINE x == IF restarts THEN chan[c].reload ELSE Counted(chan[c])
    <3>1. x = IF Eager!Restarts(c, new) THEN Reloads[c] ELSE Shown[c]
      BY <1>4, <2>1 DEF Shown, Reloads
    <3>2. Counted(chan'[c]) = x  BY <1>12, Zenon DEF result
    <3> HIDE DEF x
    <3>3. [Shown EXCEPT ![c] = x] = [d \in Channel |-> IF d = c THEN x ELSE Counted(chan[d])]
      BY DEF Shown
    <3>4. \A d \in Channel : Counted(chan'[d]) = IF d = c THEN x ELSE Counted(chan[d])
      BY <1>12, <3>2 DEF result
    <3>5. Shown' = [Shown EXCEPT ![c] = x]  BY <3>3, <3>4, Primed
    <3> QED  BY <3>1, <3>5, Zenon
  <2>4. Begun' = [Begun EXCEPT ![c] = IF ~new.enable \/ new.cascade THEN 0
                                      ELSE (clock % new.period) - IF Eager!Restarts(c, new) THEN 1 ELSE 0]
    <3> DEFINE x == IF ~new.enable \/ new.cascade THEN 0 ELSE offset - IF restarts THEN 1 ELSE 0
    <3>1. x = IF ~new.enable \/ new.cascade THEN 0
              ELSE (clock % new.period) - IF Eager!Restarts(c, new) THEN 1 ELSE 0
      BY <2>1, Zenon DEF offset
    <3>2. Sub(chan'[c]) = x  BY <1>12, Zenon DEF result
    <3> HIDE DEF x
    <3>3. [Begun EXCEPT ![c] = x] = [d \in Channel |-> IF d = c THEN x ELSE Sub(chan[d])]
      BY DEF Begun
    <3>4. \A d \in Channel : Sub(chan'[d]) = IF d = c THEN x ELSE Sub(chan[d])
      BY <1>12, <3>2 DEF result
    <3>5. Begun' = [Begun EXCEPT ![c] = x]  BY <3>3, <3>4, Primed
    <3> QED  BY <3>1, <3>5, Zenon
  <2>5. Reloads' = Reloads
    <3>1. \A d \in Channel : chan'[d].reload = chan[d].reload  BY <1>12 DEF result
    <3> QED  BY <3>1, Primed DEF Reloads
  <2>6. PICK k \in Control[c] : k = new  BY <1>4
  <2>7. Eager!SetControl(c, k)
    <3>1. /\ Controls' = [Controls EXCEPT ![c] = k]
          /\ Shown' = [Shown EXCEPT ![c] = IF Eager!Restarts(c, k) THEN Reloads[c] ELSE @]
          /\ Begun' = [Begun EXCEPT ![c] = IF ~k.enable \/ k.cascade THEN 0
                                            ELSE (clock % k.period) - IF Eager!Restarts(c, k) THEN 1 ELSE 0]
      <4>1. Eager!Restarts(c, k) <=> Eager!Restarts(c, new)
        BY <2>6 DEF Eager!Restarts
      <4> QED  BY <2>2, <2>3, <2>4, <2>6, <4>1
    <3> QED  BY <1>1, <1>2, <2>5, <3>1, Zenon
             DEF Eager!SetControl, Reloads, Controls, Shown, Begun, Sub
  <2> QED  BY <2>7
<1>14. Commits'
  <2>1. \A f \in queue' : f.kind # "overflow" => f \in queue \ {e}  BY <1>12 DEF result
  <2>2. \A f \in queue' : f.kind # "overflow" => f.kind # "control"
    BY <1>1, <1>2, <2>1, Zenon DEF Commits
  <2>3. \A f \in queue' : f.kind # "control"
    <3>1. "control" # "overflow"  OBVIOUS
    <3> QED  BY <2>2, <3>1, Zenon
  <2>4. \A d \in Channel : pending'[d].reload = pending[d].reload  BY <1>1, <1>3, <1>4
  <2>5. \A f \in queue' : f.kind # "overflow" => f.chan \in Channel
    BY <1>3, <2>1 DEF EventState
  <2>6. \A d \in Channel : chan'[d].running \/ chan'[d].age = 0
    <3>1. ASSUME NEW d \in Channel \ {c} PROVE chan'[d].running \/ chan'[d].age = 0
      <4>1. chan'[d] = chan[d]  BY <1>12 DEF result
      <4> QED  BY <4>1, Zenon DEF Commits
    <3>2. chan'[c].running \/ chan'[c].age = 0  BY <1>12 DEF result
    <3> QED  BY <3>1, <3>2, Zenon
  <2>7. \A f \in queue' : f.kind = "reload" => pending'[f.chan].reload \in Reload
    <3>1. "reload" # "overflow"  OBVIOUS
    <3>2. ASSUME NEW f \in queue', f.kind = "reload" PROVE pending'[f.chan].reload \in Reload
      <4>1. f \in queue /\ f.chan \in Channel  BY <2>1, <2>5, <3>1, <3>2
      <4>2. pending[f.chan].reload \in Reload  BY <3>2, <4>1 DEF Commits
      <4> QED  BY <2>4, <4>1, <4>2
    <3> QED  BY <3>2
  <2>8. \A f, g \in queue' : f.kind = g.kind /\ f.kind # "overflow" => f = g
    BY <2>1, Zenon DEF Commits
  <2> QED  BY <2>3, <2>6, <2>7, <2>8, Zenon DEF Commits
<1> QED  BY <1>4, <1>13, <1>14

\* A cycle that passes is a cycle counted.
LEMMA TickImplements ==
  ASSUME Inv, Commits, Tick
  PROVE  Commits' /\ Eager!Tick
<1> DEFINE sooner(e) == [e EXCEPT !.due = @ - 1]
           older(r) == IF r.running THEN [r EXCEPT !.age = @ + 1] ELSE r
<1>1. /\ queue' = {sooner(e) : e \in queue}
      /\ chan' = [d \in Channel |-> older(chan[d])]
      /\ clock' = (clock + 1) % Wrap /\ pending' = pending
      /\ \A e \in queue : e.due # 0
  BY DEF Tick, Elapsed, DueNow
<1>2. /\ chan \in [Channel -> ChannelState] /\ queue \subseteq EventState
  BY DEF Inv, TypeOK
<1>3. ASSUME NEW d \in Channel
      PROVE  /\ chan'[d].reload = chan[d].reload /\ chan'[d].control = chan[d].control
             /\ chan'[d].counter = chan[d].counter
             /\ chan'[d].running = chan[d].running
             /\ chan'[d].age = IF chan[d].running THEN chan[d].age + 1 ELSE chan[d].age
  <2> DEFINE r == chan[d]
  <2>1. r \in ChannelState /\ chan'[d] = older(r)  BY <1>1, <1>2
  <2>2. CASE r.running
    <3>1. chan'[d] = [r EXCEPT !.age = r.age + 1]  BY <2>1, <2>2
    <3> HIDE DEF r
    <3> QED  BY <2>1, <2>2, <3>1 DEF ChannelState, r
  <2>3. CASE ~r.running
    <3>1. chan'[d] = r  BY <2>1, <2>3
    <3> QED  BY <2>3, <3>1, Zenon
  <2> QED  BY <2>2, <2>3
<1>4. ASSUME NEW e \in queue
      PROVE  sooner(e).kind = e.kind /\ sooner(e).chan = e.chan
  BY <1>2 DEF EventState
<1> HIDE DEF older
<1>5. ASSUME NEW d \in Channel
      PROVE  /\ Counted(chan'[d]) = IF chan[d].running /\ Sub(chan[d]) + 1 = chan[d].control.period
                                    THEN Counted(chan[d]) + 1 ELSE Counted(chan[d])
             /\ Sub(chan'[d]) = IF chan[d].running /\ Sub(chan[d]) + 1 # chan[d].control.period
                                THEN Sub(chan[d]) + 1 ELSE 0
  <2> DEFINE k == chan[d].counter
             p == chan[d].control.period
             a == chan[d].age
  <2>1. k \in Int /\ p \in Period /\ a \in Int /\ a >= -1
    <3>1. chan[d] \in ChannelState  BY <1>2
    <3>2. a \in -1 .. Range * Wrap /\ Range * Wrap \in Int
      <4>1. a \in -1 .. Range * Wrap  BY <3>1 DEF ChannelState
      <4>2. Range \in Nat /\ Wrap \in Nat  BY TimerAssumption
      <4> QED  BY <4>1, <4>2
    <3>3. a \in Int /\ a >= -1
      <4> DEFINE m == Range * Wrap
      <4>1. a \in -1 .. m /\ m \in Int  BY <3>2
      <4> HIDE DEF m, a
      <4> QED  BY <4>1
    <3> QED  BY <3>1, <3>3, TimerAssumption DEF ChannelState, ControlState
  <2>2. p \in Nat /\ p > 0
    <3> HIDE DEF p
    <3> QED  BY <2>1, TimerAssumption
  <2>3. CASE ~chan[d].running
    <3>1. a = 0  BY <2>3 DEF Commits
    <3>2. 0 % p = 0
      <4> HIDE DEF p
      <4> QED  BY <2>2
    <3>3. Sub(chan'[d]) = 0  BY <1>3, <2>3, <3>1, <3>2 DEF Sub
    <3>4. Counted(chan'[d]) = k + 0 /\ Counted(chan[d]) = k + 0
      BY <1>3, <2>3, Zenon DEF Counted
    <3> QED  BY <2>3, <3>3, <3>4, Zenon
  <2>4. CASE chan[d].running
    <3>1. /\ Counted(chan[d]) = IF a >= 0 THEN k + (a \div p) ELSE k
          /\ Sub(chan[d]) = IF a < 0 THEN a ELSE a % p
      BY <2>1, <2>4 DEF Counted, Delta, Sub
    <3>2. /\ Counted(chan'[d]) = k + ((a + 1) \div p)
          /\ Sub(chan'[d]) = (a + 1) % p
      <4>1. a + 1 >= 0 /\ ~(a + 1 < 0)  BY <2>1
      <4>2. /\ Counted(chan'[d]) = k + IF a + 1 >= 0 THEN (a + 1) \div p ELSE 0
            /\ Sub(chan'[d]) = IF a + 1 < 0 THEN a + 1 ELSE (a + 1) % p
        BY <1>3, <2>4, Zenon DEF Counted, Delta, Sub
      <4> HIDE DEF a, p, k
      <4> QED  BY <4>1, <4>2, Zenon
    <3>3. CASE a >= 0
      <4> DEFINE q == a \div p
                 t == a % p
                 q1 == (a + 1) \div p
                 t1 == (a + 1) % p
      <4>1. a \in Nat  BY <2>1, <3>3
      <4>2. /\ t + 1 = p => t1 = 0 /\ q1 = q + 1
            /\ t + 1 # p => t1 = t + 1 /\ q1 = q
        <5> HIDE DEF a, p
        <5> QED  BY <2>1, <4>1, OneMore, Zenon
      <4>3. q \in Nat /\ t \in Int
        <5> HIDE DEF a, p
        <5>1. a \div p \in Nat /\ a % p \in 0 .. p - 1  BY <2>1, <4>1, Divided, Zenon
        <5> QED  BY <2>2, <5>1
      <4>4. /\ Counted(chan[d]) = k + q /\ Sub(chan[d]) = t
            /\ Counted(chan'[d]) = k + q1 /\ Sub(chan'[d]) = t1
        BY <2>1, <3>1, <3>2, <3>3
      <4> HIDE DEF q, t, q1, t1, k, p, a
      <4> QED  BY <2>1, <2>4, <4>2, <4>3, <4>4 DEF p
    <3>4. CASE a < 0
      <4>1. a = -1  BY <2>1, <3>4
      <4>2. a + 1 = 0 /\ 0 \div p = 0 /\ 0 % p = 0 /\ a + 1 # p
        <5>1. a + 1 = 0  BY <4>1
        <5> HIDE DEF a, p
        <5> QED  BY <2>2, <5>1
      <4>3. Counted(chan[d]) = k /\ Sub(chan[d]) = a
        BY <2>1, <3>1, <3>4
      <4>4. Counted(chan'[d]) = k + 0 /\ Sub(chan'[d]) = 0
        BY <3>2, <4>2, Zenon
      <4>5. Counted(chan'[d]) = k  BY <2>1, <4>4
      <4> HIDE DEF a, k
      <4> QED  BY <2>4, <4>2, <4>3, <4>4, <4>5 DEF p
    <3> QED  BY <2>1, <3>3, <3>4
  <2> QED  BY <2>3, <2>4
<1>6. ASSUME NEW d \in Channel
      PROVE  chan[d].running <=> Controls[d].enable /\ ~Controls[d].cascade
  <2>1. Runs(chan[d]) /\ Controls[d] = chan[d].control  BY DEF Inv, Controls
  <2>2. chan[d].running = (chan[d].control.enable /\ ~chan[d].control.cascade)
    BY <2>1, Zenon DEF Runs
  <2> QED  BY <2>1, <2>2, Zenon
<1>7. Eager!Tick
  <2>1. Eager!Settled  BY <1>1, SettledUnlessDue
  <2>2. \A d \in Channel : Eager!Counts(d) <=> chan[d].running
    BY <1>6, Zenon DEF Eager!Counts, Controls
  <2>3. \A d \in Channel : /\ Shown[d] = Counted(chan[d]) /\ Begun[d] = Sub(chan[d])
                           /\ Controls[d] = chan[d].control
    BY DEF Shown, Begun, Controls
  <2>4. Shown' = [d \in Channel |->
           IF Eager!Counts(d) /\ Begun[d] + 1 = Controls[d].period THEN Shown[d] + 1 ELSE Shown[d]]
    BY <1>5, <2>2, <2>3, Primed
  <2>5. Begun' = [d \in Channel |->
           IF Eager!Counts(d) /\ Begun[d] + 1 # Controls[d].period THEN Begun[d] + 1 ELSE 0]
    BY <1>5, <2>2, <2>3, Primed
  <2>6. Reloads' = Reloads  BY <1>3, Primed DEF Reloads
  <2>7. Controls' = Controls  BY <1>3, Primed DEF Controls
  <2> QED  BY <1>1, <2>1, <2>4, <2>5, <2>6, <2>7, Zenon
           DEF Eager!Tick, Reloads, Controls, Shown, Begun, Sub
<1>8. Commits'
  <2>1. \A f \in queue' : \E e \in queue : f = sooner(e) /\ f.kind = e.kind /\ f.chan = e.chan
    BY <1>1, <1>4
  <2>2. \A f \in queue' : f.chan \in Channel  BY <1>2, <2>1 DEF EventState
  <2>3. ASSUME NEW d \in Channel
        PROVE  (chan'[d].running \/ chan'[d].age = 0) /\ chan'[d].age >= 0
    <3>1. chan[d].running \/ chan[d].age = 0  BY DEF Commits
    <3>2. chan[d].age \in Int /\ chan[d].age >= -1
      <4> DEFINE m == Range * Wrap
                 a == chan[d].age
      <4>1. a \in -1 .. m /\ m \in Int  BY <1>2, TimerAssumption DEF ChannelState
      <4> HIDE DEF m, a
      <4>2. a \in Int /\ a >= -1  BY <4>1
      <4> QED  BY <4>2 DEF a
    <3>3. CASE chan[d].running  BY <1>3, <3>2, <3>3
    <3>4. CASE ~chan[d].running
      <4>1. chan'[d].age = 0  BY <1>3, <3>1, <3>4
      <4> QED  BY <4>1
    <3> QED  BY <3>3, <3>4
  <2>4. \A f, g \in queue' : f.kind = g.kind /\ f.kind # "overflow" => f = g
    <3> SUFFICES ASSUME NEW f \in queue', NEW g \in queue', f.kind = g.kind, f.kind # "overflow"
                 PROVE  f = g
      OBVIOUS
    <3>1. PICK e \in queue : f = sooner(e) /\ f.kind = e.kind  BY <2>1
    <3>2. PICK h \in queue : g = sooner(h) /\ g.kind = h.kind  BY <2>1
    <3>3. e = h  BY <3>1, <3>2, Zenon DEF Commits
    <3> QED  BY <3>1, <3>2, <3>3, Zenon
  <2>5. /\ \A f \in queue' : f.kind = "reload" => pending'[f.chan].reload \in Reload
        /\ \A f \in queue' : f.kind = "control" => pending'[f.chan].control \in Control[f.chan]
    <3> SUFFICES ASSUME NEW f \in queue'
                 PROVE  /\ f.kind = "reload" => pending'[f.chan].reload \in Reload
                        /\ f.kind = "control" => pending'[f.chan].control \in Control[f.chan]
      OBVIOUS
    <3>1. PICK e \in queue : f.kind = e.kind /\ f.chan = e.chan  BY <2>1
    <3> QED  BY <1>1, <3>1, Zenon DEF Commits
  <2>6. \A f \in queue' : f.kind = "control" /\ f.due = 0 => chan'[f.chan].age >= 0
    BY <2>2, <2>3
  <2>7. \A d \in Channel : chan'[d].running \/ chan'[d].age = 0  BY <2>3
  <2> QED  BY <2>4, <2>5, <2>6, <2>7, Zenon DEF Commits
<1> QED  BY <1>7, <1>8

LEMMA CommitsInit == Init => Commits /\ Eager!Init
<1> SUFFICES ASSUME Init PROVE Commits /\ Eager!Init  OBVIOUS
<1> DEFINE r == [reload |-> 0, counter |-> 0, control |-> Off, running |-> FALSE,
                 age |-> 0, hasEvent |-> FALSE, eventOverflow |-> NoHandle]
<1>1. chan = [c \in Channel |-> r] /\ queue = {} /\ clock = 0
  BY DEF Init
<1>2. r.age = 0 /\ r.reload = 0 /\ r.counter = 0 /\ r.control = Off /\ r.running = FALSE
      /\ r.control.period = 1
  BY DEF Off
<1> HIDE DEF r
<1>3. Counted(r) = 0 /\ Sub(r) = 0
  <2>1. 0 % 1 = 0  OBVIOUS
  <2>2. Sub(r) = 0 % 1  BY <1>2 DEF Sub
  <2>3. Counted(r) = 0 + 0  BY <1>2 DEF Counted
  <2> QED  BY <2>1, <2>2, <2>3
<1>4. Commits  BY <1>1, <1>2 DEF Commits
<1>5. /\ Reloads = [c \in Channel |-> 0] /\ Controls = [c \in Channel |-> Off]
      /\ Shown = [c \in Channel |-> 0] /\ Begun = [c \in Channel |-> 0]
  BY <1>1, <1>2, <1>3 DEF Reloads, Controls, Shown, Begun
<1>6. Eager!Init
  BY <1>1, <1>5, Zenon DEF Eager!Init, Reloads, Controls, Shown, Begun, Sub
<1> QED  BY <1>4, <1>6

\* A step that leaves the channels and the clock alone leaves the counters alone.
LEMMA Stutters ==
  ASSUME UNCHANGED <<chan, clock>>
  PROVE  UNCHANGED Eager!vars
<1>1. Shown' = Shown /\ Begun' = Begun /\ Reloads' = Reloads /\ Controls' = Controls
  BY Primed DEF Shown, Begun, Reloads, Controls
<1> QED  BY <1>1 DEF Eager!vars, Reloads, Controls, Shown, Begun, Sub

LEMMA StepImplements == Inv /\ Commits /\ [Next]_vars => Commits' /\ [Eager!Next]_(Eager!vars)
<1> SUFFICES ASSUME Inv, Commits, [Next]_vars PROVE Commits' /\ [Eager!Next]_(Eager!vars)
  OBVIOUS
<1>1. ASSUME NEW c \in Channel, NEW v \in Reload, WriteReload(c, v)
      PROVE  Commits' /\ UNCHANGED <<chan, clock>>
  <2>1. /\ pending' = [pending EXCEPT ![c] = [pending[c] EXCEPT !.reload = v]]
        /\ Writes(c, "reload", 1)
    BY <1>1 DEF WriteReload
  <2> QED  BY <2>1, WritesStutter
<1>2. ASSUME NEW c \in Channel, NEW k \in Control[c], WriteControl(c, k)
      PROVE  Commits' /\ UNCHANGED <<chan, clock>>
  <2>1. /\ pending' = [pending EXCEPT ![c] = [pending[c] EXCEPT !.control = k]]
        /\ Writes(c, "control", 2)
    BY <1>2 DEF WriteControl
  <2> QED  BY <2>1, WritesStutter
<1>3. ASSUME NEW e \in queue, Fire(e) PROVE Commits' /\ Eager!Next
  <2>1. /\ e \in Frontier(DueNow(queue))
        /\ OnReloadWritten(e) \/ OnControlWritten(e) \/ OnOverflow(e)
    BY <1>3 DEF Fire
  <2>2. CASE OnReloadWritten(e)  BY <2>1, <2>2, ReloadWrittenImplements DEF Eager!Next
  <2>3. CASE OnControlWritten(e)  BY <2>1, <2>3, ControlWrittenImplements DEF Eager!Next
  <2>4. CASE OnOverflow(e)  BY <2>1, <2>4, OverflowImplements DEF Eager!Next
  <2> QED  BY <2>1, <2>2, <2>3, <2>4
<1>4. CASE Tick  BY <1>4, TickImplements DEF Eager!Next
<1>5. CASE UNCHANGED vars
  <2>1. chan' = chan /\ pending' = pending /\ queue' = queue /\ clock' = clock
    BY <1>5 DEF vars
  <2>2. Commits'  BY <2>1, Zenon DEF Commits
  <2> QED  BY <2>1, <2>2, Stutters
<1> QED  BY <1>1, <1>2, <1>3, <1>4, <1>5, Stutters DEF Next

\* -1 shifted to the right stays -1.
LEMMA LateByOne == \A p \in Period : (-1) \div p = -1
<1> SUFFICES ASSUME NEW p \in Period PROVE (-1) \div p = -1  OBVIOUS
<1>1. p \in Nat /\ p > 0  BY TimerAssumption
<1> QED  BY <1>1

\* Also in the cycle before a late start
LEMMA CountersReadTrue ==
  ASSUME Inv, Commits
  PROVE  \A c \in Channel : ReadCounter(chan[c]) = Eager!Read(c)
<1> SUFFICES ASSUME NEW c \in Channel PROVE ReadCounter(chan[c]) = Eager!Read(c)  OBVIOUS
<1> DEFINE r == chan[c]
<1>1. /\ r \in ChannelState /\ r.counter \in 0 .. Range - 1 /\ r.control.period \in Period
      /\ r.age \in -1 .. Range * Wrap
  BY DEF Inv, TypeOK, ChannelState, ControlState
<1>2. r.running \/ r.age = 0  BY Zenon DEF Commits
<1>3. Eager!Read(c) = (Counted(r) - IF Sub(r) < 0 THEN 1 ELSE 0) % Range
  BY Zenon DEF Eager!Read, Shown, Begun, Sub
<1>4. Range \in Nat /\ Range > 0 /\ Range * Wrap \in Nat  BY TimerAssumption
<1>5. r.counter \in Int /\ r.age \in Int /\ (r.age < 0 => r.age = -1)
  <2> DEFINE m == Range * Wrap
  <2>1. r.age \in -1 .. m /\ m \in Int  BY <1>1, <1>4
  <2> HIDE DEF m
  <2> QED  BY <1>1, <1>4, <2>1
<1>6. CASE r.age < 0
  <2>1. r.running /\ Delta(r) = -1
    <3>1. r.running /\ r.age = -1  BY <1>2, <1>5, <1>6
    <3> QED  BY <1>1, <3>1, LateByOne, Zenon DEF Delta
  <2>2. Counted(r) = r.counter /\ Sub(r) < 0
    BY <1>5, <1>6 DEF Counted, Sub
  <2>3. Eager!Read(c) = (r.counter - 1) % Range
    BY <1>3, <2>2, Zenon
  <2>4. r.counter + (-1) = r.counter - 1  BY <1>5
  <2> QED  BY <2>1, <2>3, <2>4, Zenon DEF ReadCounter
<1>7. CASE ~(r.age < 0)
  <2>1. r.age >= 0  BY <1>5, <1>7
  <2>2. ReadCounter(r) = Counted(r) % Range
    BY <2>1, Zenon DEF ReadCounter, Counted
  <2>3. ~(Sub(r) < 0)
    <3> DEFINE p == r.control.period
               t == r.age % p
    <3>1. Sub(r) = t  BY <1>7 DEF Sub
    <3>2. t \in 0 .. p - 1
      <4>1. r.age \in Nat  BY <1>5, <2>1
      <4> QED  BY <1>1, <4>1, Divided, Zenon
    <3>3. p \in Nat
      <4>1. \A q \in Period : q \in Nat  BY TimerAssumption
      <4> QED  BY <1>1, <4>1, Zenon
    <3> HIDE DEF t, p
    <3> QED  BY <3>1, <3>2, <3>3
  <2>4. Counted(r) - 0 = Counted(r)
    <3>1. Counted(r) \in 0 .. Range  BY ReadsRangeWhenDue
    <3> QED  BY <1>4, <3>1
  <2> QED  BY <1>3, <2>2, <2>3, <2>4, Zenon
<1> QED  BY <1>6, <1>7

\* The timers, which look at their counters only when a register is written or an
\* overflow fires, count like counters that are looked at in every cycle, and a
\* program that reads one reads what that counter reads, one less in the cycle
\* before a late start: module Timer implements module Counters (timer.go).
THEOREM TimersCount == Spec => ImplementsCounters
<1>1. Init => Inv /\ Commits /\ Eager!Init  BY InitInv, CommitsInit
<1>2. Inv /\ Commits /\ [Next]_vars => Inv' /\ Commits' /\ [Eager!Next]_(Eager!vars)
  BY NextInv, StepImplements
<1>3. Inv /\ Commits => \A c \in Channel : ReadCounter(chan[c]) = Eager!Read(c)
  BY CountersReadTrue
<1> QED  BY <1>1, <1>2, <1>3, PTL DEF Spec, ImplementsCounters, Eager!Spec
=============================================================================
