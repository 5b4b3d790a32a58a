--------------------------------- MODULE Timer ---------------------------------
(***************************************************************************)
(* The timers (internal/timer/timer.go).  A counter is brought up to date  *)
(* only when something asks for it: while a channel runs, counter is what  *)
(* it was at timestampStarted and an event is queued for its overflow.     *)
(* Register writes are committed by events one cycle later; priorities     *)
(* order an overflow, a reload and a control commit of the same cycle.     *)
(*                                                                         *)
(* The interrupt of an overflow is action Raise of module Irq; draining    *)
(* the sound FIFOs belongs to the APU.                                     *)
(***************************************************************************)
EXTENDS Agenda, FiniteSets

CONSTANTS
  Last,      \* the last channel, 3 in the code
  Range,     \* 0x10000 in the code
  Reload,    \* reload values a program writes
  Control,   \* control words a program writes, for each channel
  Period,    \* the prescalers' periods, {1, 64, 256, 1024} in the code
  Wrap,      \* the longest of them: the clock matters modulo Wrap
  Tag        \* bound: handles that tell a channel's overflow events apart

Channel == 0 .. Last

ControlState == [period : Period, cascade : BOOLEAN, enable : BOOLEAN]

ASSUME TimerAssumption ==
  /\ Last \in Nat
  /\ Range \in Nat \ {0} /\ Reload \subseteq 0 .. Range - 1
  /\ Control \in [Channel -> SUBSET ControlState]
  /\ \A k \in Control[0] : ~k.cascade    \* onControlWritten leaves channel 0's alone
  /\ Period \subseteq Nat \ {0} /\ 1 \in Period /\ Wrap \in Period
  /\ \A p \in Period : p <= Wrap /\ Wrap % p = 0
  /\ 0 \notin Tag

VARIABLES
  chan,      \* the channels
  pending,   \* written values, kept while their commit is under way
  queue,     \* the timers' events [due, pri, kind, chan, tag]
  clock      \* Scheduler.now modulo Wrap

vars == <<chan, pending, queue, clock>>

NoHandle == 0
Off == [period |-> 1, cascade |-> FALSE, enable |-> FALSE]

\* age is Now() - timestampStarted, 0 for a channel that does not run; control.period
\* is 1 << shift.
ChannelState ==
  [reload : 0 .. Range - 1, counter : 0 .. Range - 1, control : ControlState,
   running : BOOLEAN, age : -1 .. Range * Wrap,
   hasEvent : BOOLEAN, eventOverflow : Tag \cup {NoHandle}]

EventState ==
  [due : 0 .. Range * Wrap + 1, pri : {0}, kind : {"overflow"}, chan : Channel, tag : Tag]
    \cup [due : 0 .. 1, pri : {1}, kind : {"reload"}, chan : Channel, tag : {NoHandle}]
    \cup [due : 0 .. 1, pri : {2}, kind : {"control"}, chan : Channel, tag : {NoHandle}]

TypeOK ==
  /\ chan \in [Channel -> ChannelState]
  /\ pending \in [Channel -> [reload : 0 .. Range - 1, control : ControlState]]
  /\ queue \subseteq EventState
  /\ clock \in 0 .. Wrap - 1

Init ==
  /\ chan = [c \in Channel |->
               [reload |-> 0, counter |-> 0, control |-> Off, running |-> FALSE,
                age |-> 0, hasEvent |-> FALSE, eventOverflow |-> NoHandle]]
  /\ pending = [c \in Channel |-> [reload |-> 0, control |-> Off]]
  /\ queue = {}
  /\ clock = 0
-----------------------------------------------------------------------------
\* getCounterDeltaSinceLastUpdate: an arithmetic shift, -1 for the age -1
Delta(r) == r.age \div r.control.period

\* readCounter, the low 16 bits of the sum
ReadCounter(r) == (r.counter + IF r.running THEN Delta(r) ELSE 0) % Range

Overflows(c) == {e \in queue : e.kind = "overflow" /\ e.chan = c}

FreeTags(q, c) == Tag \ {e.tag : e \in {f \in q : f.kind = "overflow" /\ f.chan = c}}
FreshTag(q, c) == CHOOSE t \in Tag : t \in FreeTags(q, c)

\* Mutant: the overflow is scheduled as if the prescaler started with the channel.
StartChannelUnaligned(ch, q, c, offset) ==
  LET tag == FreshTag(q, c)
  IN  /\ FreeTags(q, c) # {}
      /\ chan' = [ch EXCEPT ![c] =
           [@ EXCEPT !.running = TRUE, !.age = offset,
                     !.hasEvent = TRUE, !.eventOverflow = tag]]
      /\ queue' = q \cup {[due |-> (Range - ch[c].counter) * ch[c].control.period,
                           pri |-> 0, kind |-> "overflow", chan |-> c, tag |-> tag]}

\* startChannel(c, offset) when the channels are ch and the queue is q
StartChannel(ch, q, c, offset) ==
  LET cycles == (Range - ch[c].counter) * ch[c].control.period - offset
      tag    == FreshTag(q, c)
  IN  /\ FreeTags(q, c) # {}
      /\ chan' = [ch EXCEPT ![c] =
           [@ EXCEPT !.running = TRUE, !.age = offset,
                     !.hasEvent = TRUE, !.eventOverflow = tag]]
      /\ queue' = q \cup {[due |-> cycles, pri |-> 0, kind |-> "overflow",
                           chan |-> c, tag |-> tag]}

Cascades(r) == r.control.enable /\ r.control.cascade

\* Mutant: an overflow is not carried beyond the next channel.
CarriesToNext(ch, c, d) == d = c + 1 /\ Cascades(ch[d])

\* The recursion of reloadCascadeAndRequestIRQ(c) reaches d.
CarriesTo(ch, c, d) ==
  /\ d > c
  /\ \A e \in c + 1 .. d : Cascades(ch[e])
  /\ \A e \in c + 1 .. d - 1 : ch[e].counter = Range - 1

\* reloadCascadeAndRequestIRQ(c)
Reloaded(ch, c) ==
  [d \in Channel |->
     IF d = c \/ (CarriesTo(ch, c, d) /\ ch[d].counter = Range - 1)
     THEN [ch[d] EXCEPT !.counter = ch[d].reload]
     ELSE IF CarriesTo(ch, c, d) THEN [ch[d] EXCEPT !.counter = @ + 1]
     ELSE ch[d]]

\* stopChannel(c), if the channel runs; a uint32 that went below 0 is above Range.
StopChannel(ch, q, c) ==
  LET n       == ch[c].counter + Delta(ch[c])
      counted == IF n \in 0 .. Range - 1 THEN [ch EXCEPT ![c].counter = n]
                                         ELSE Reloaded(ch, c)
  IN  IF ~ch[c].running THEN [channels |-> ch, events |-> q]
      ELSE [channels |-> [counted EXCEPT ![c] = [@ EXCEPT !.hasEvent = FALSE,
                                                          !.running = FALSE, !.age = 0]],
            events   |-> IF ~ch[c].hasEvent THEN q
                         ELSE {e \in q : ~(e.kind = "overflow" /\ e.chan = c
                                           /\ e.tag = ch[c].eventOverflow)}]
-----------------------------------------------------------------------------
\* A program writes between two steps of the bus.  A bus access takes a cycle at
\* least and stores to one or to both registers of one channel: what is under
\* way belongs to a single access.
Writes(c, kind, pri) ==
  LET e == [due |-> 1, pri |-> pri, kind |-> kind, chan |-> c, tag |-> NoHandle]
  IN  /\ DueNow(queue) = {}
      /\ \A f \in queue : f.kind # "overflow" => f.chan = c /\ f.kind # kind
      /\ queue' = queue \cup {e}
      /\ UNCHANGED <<chan, clock>>

\* A byte written to CNT_L is merged with the other one of pending: any value.
WriteReload(c, v) ==
  Writes(c, "reload", 1) /\ pending' = [pending EXCEPT ![c].reload = v]

WriteControl(c, k) ==
  Writes(c, "control", 2) /\ pending' = [pending EXCEPT ![c].control = k]

OnReloadWritten(e) ==
  /\ e.kind = "reload"
  /\ chan' = [chan EXCEPT ![e.chan].reload = pending[e.chan].reload]
  /\ pending' = [pending EXCEPT ![e.chan].reload = 0]
  /\ queue' = queue \ {e}
  /\ UNCHANGED clock

\* The control word is assigned and the channel started or not, as it was
\* enabled before or is now.
OnControlWritten(e) ==
  LET c       == e.chan
      new     == pending[c].control
      stopped == StopChannel(chan, queue \ {e}, c)
      ch      == [stopped.channels EXCEPT ![c].control = new]
      loaded  == [ch EXCEPT ![c].counter = ch[c].reload]
      offset  == clock % new.period
      already == chan[c].control.enable
      last    == ch[c].counter = Range - 1 /\ offset = 0
      Stays(state) == chan' = state /\ queue' = stopped.events
  IN  /\ e.kind = "control"
      /\ pending' = [pending EXCEPT ![c].control = Off]
      /\ UNCHANGED clock
      /\ \/ ~new.enable /\ Stays(ch)
         \/ new.enable /\ already /\ new.cascade /\ Stays(ch)
         \/ new.enable /\ already /\ ~new.cascade
              /\ StartChannel(ch, stopped.events, c, offset)
         \/ new.enable /\ ~already /\ new.cascade /\ Stays(loaded)
         \/ new.enable /\ ~already /\ ~new.cascade /\ last
              /\ StartChannel(ch, stopped.events, c, 0)
         \/ new.enable /\ ~already /\ ~new.cascade /\ ~last
              /\ StartChannel(loaded, stopped.events, c, offset - 1)

\* onOverflow
OnOverflow(e) ==
  /\ e.kind = "overflow"
  /\ StartChannel(Reloaded(chan, e.chan), queue \ {e}, e.chan, 0)
  /\ UNCHANGED <<pending, clock>>

Fire(e) ==
  /\ e \in Frontier(DueNow(queue))
  /\ OnReloadWritten(e) \/ OnControlWritten(e) \/ OnOverflow(e)

\* A cycle passes when nothing is due.
Tick ==
  /\ DueNow(queue) = {}
  /\ queue' = Elapsed(queue, 1)
  /\ clock' = (clock + 1) % Wrap
  /\ chan' = [c \in Channel |->
                IF chan[c].running THEN [chan[c] EXCEPT !.age = @ + 1] ELSE chan[c]]
  /\ UNCHANGED pending

Next ==
  \/ \E c \in Channel, v \in Reload : WriteReload(c, v)
  \/ \E c \in Channel : \E k \in Control[c] : WriteControl(c, k)
  \/ \E e \in queue : Fire(e)
  \/ Tick

Spec == Init /\ [][Next]_vars
-----------------------------------------------------------------------------
\* A channel runs exactly while it is enabled and does not cascade.
RunsWhenEnabled ==
  \A c \in Channel : chan[c].running = (chan[c].control.enable /\ ~chan[c].control.cascade)

\* A running channel has one overflow event in the queue, the one it can
\* cancel, due when its counter will have reached Range; a channel that stopped
\* has none, so that no overflow of an earlier life of it ever fires.
OverflowOnTime ==
  \A c \in Channel :
    LET r == chan[c] IN
    IF r.running
    THEN \E e \in queue :
           /\ Overflows(c) = {e}
           /\ r.hasEvent /\ r.eventOverflow = e.tag
           /\ e.due = (Range - r.counter) * r.control.period - r.age
    ELSE Overflows(c) = {}

\* What the counter of a channel stands at, Range for the instant before the
\* overflow fires.
Counted(r) == r.counter + IF r.running /\ r.age >= 0 THEN Delta(r) ELSE 0

\* Reading the clock only at writes and overflows is as good as counting every
\* cycle: the timers implement module Counters, and what readCounter returns is
\* what those counters read, in the cycle before a late start too.
Eager == INSTANCE Counters WITH
  reload  <- [c \in Channel |-> chan[c].reload],
  control <- [c \in Channel |-> chan[c].control],
  counter <- [c \in Channel |-> Counted(chan[c])],
  sub     <- [c \in Channel |-> IF chan[c].age < 0 THEN chan[c].age
                                ELSE chan[c].age % chan[c].control.period],
  phase   <- clock

ImplementsCounters ==
  /\ Eager!Spec
  /\ [](\A c \in Channel : ReadCounter(chan[c]) = Eager!Read(c))
=============================================================================
