---------------------------------- MODULE Psg -----------------------------------
(***************************************************************************)
(* One of the four sound generators of internal/apu: a square wave with or *)
(* without sweep, a wave, or noise.  The frame sequencer (BaseChannel)     *)
(* counts its length, bends its frequency and shapes its volume; a chain   *)
(* of Generate events, each scheduling the next, makes its samples.        *)
(*                                                                         *)
(* Frequencies matter only where the sweep changes them, so events of the  *)
(* chain and of the sequencer fire at any time; of a sample is kept        *)
(* whether it is heard.                                                    *)
(*                                                                         *)
(* A behaviour follows the life of a channel.  One that has been saved     *)
(* goes on in the core that loads the state: in the one that saved it, at  *)
(* any later time, or in another one, which may have just been started.    *)
(***************************************************************************)
EXTENDS Integers

CONSTANTS
  Kind,        \* those of "sweep", "quad", "wave", "noise" that are looked at
  MaxLength,   \* defaultLength of each kind: 64, of a wave 256
  LengthByte,  \* what the counter of a save state holds: 256 values
  Lengths,     \* lengths a program writes, by kind
  Counting,    \* whether it has them counted, by kind
  Shape,       \* envelope registers a program writes, by kind: [divider, up, initial]
  MaxVolume,   \* 15
  Dividers,    \* values of a three-bit counter: 8
  MaxShift,    \* 7
  Limit,       \* frequencies lie below: 2048
  LowByte,     \* the part of a frequency written first: 256
  Tag,         \* handles
  NoEvent      \* the handle of a channel that has scheduled nothing yet

Envelopes == {"sweep", "quad", "noise"}    \* Envelope.Enabled
Divider == 0 .. Dividers - 1
Frequency == 0 .. Limit - 1

ASSUME PsgAssumption ==
  /\ Kind \subseteq {"sweep", "quad", "wave", "noise"}
  /\ \A k \in Kind : /\ MaxLength[k] \in Nat \ {0}
                     /\ Lengths[k] \subseteq 1 .. MaxLength[k]
                     /\ Counting[k] \subseteq BOOLEAN
                     /\ Shape[k] \subseteq [divider : Divider, up : BOOLEAN, initial : 0 .. MaxVolume]
  /\ MaxVolume \in Nat /\ Dividers \in Nat \ {0} /\ MaxShift \in Nat
  /\ Limit \in Nat \ {0} /\ LowByte \in Nat \ {0} /\ Limit % LowByte = 0
  /\ LengthByte \in Nat /\ LengthByte >= Dividers
  /\ NoEvent \notin Tag

VARIABLES
  kind,
  soundOn,   \* SOUNDCNT.MasterEnable
  base,      \* BaseChannel: enabled, step; Length: length, counting
  env,       \* Envelope
  sweep,     \* Sweep
  dac,       \* dacEnable, of a wave playing
  heard,     \* Sample is not 0
  handle,    \* hasEvent and eventID
  events,    \* Generate events that are scheduled
  forgotten, \* history: Reset dropped the handle of an event that is queued
  cut,       \* history: a save state cut the length
  leftover,  \* history: Sample is what the core that loaded the state was at
  muted      \* history: that core has sound off, which it was saved with on

control == <<kind, soundOn, cut, muted>>
psgVars == <<kind, soundOn, base, env, sweep, dac, heard, handle, events, forgotten, cut,
             leftover, muted>>

PsgTypeOK ==
  /\ kind \in Kind
  /\ soundOn \in BOOLEAN
  /\ base \in [enabled : BOOLEAN, step : 0 .. 7,
               length : -1 .. MaxLength[kind], counting : BOOLEAN]
  /\ env \in [active : BOOLEAN, up : BOOLEAN, initial : 0 .. MaxVolume,
              volume : 0 .. MaxVolume, divider : Divider, step : Divider]
  /\ sweep \in [active : BOOLEAN, down : BOOLEAN, current : Frequency, shadow : Frequency,
                divider : Divider, shift : 0 .. MaxShift, step : {-1} \cup Divider]
  /\ dac \in BOOLEAN /\ heard \in BOOLEAN
  /\ handle \in [has : BOOLEAN, id : Tag \cup {NoEvent}]
  /\ events \subseteq Tag
  /\ forgotten \in BOOLEAN /\ cut \in BOOLEAN /\ leftover \in BOOLEAN /\ muted \in BOOLEAN
-----------------------------------------------------------------------------
\* The parts of BaseChannel

RestartLength(b) == IF b.length = 0 THEN [b EXCEPT !.length = MaxLength[kind]] ELSE b

\* -1 stands for all that counting from 0 may reach.
Below(n) == IF n < 0 THEN -1 ELSE n - 1

\* Mutant: the channel is turned off a tick late.
TickLengthLate(b) ==
  IF b.enabled /\ b.counting
  THEN [b EXCEPT !.length = Below(@), !.enabled = b.length > 0]
  ELSE b

TickLength(b) ==
  IF b.enabled /\ b.counting
  THEN [b EXCEPT !.length = Below(@), !.enabled = b.length > 1]
  ELSE b

RestartEnvelope(e) ==
  [e EXCEPT !.step = e.divider, !.volume = e.initial, !.active = kind \in Envelopes]

\* A volume at its end stays there.
TickEnvelope(e) ==
  LET end == IF e.up THEN MaxVolume ELSE 0
  IN  IF e.step # 1 THEN [e EXCEPT !.step = (@ - 1) % Dividers]
      ELSE IF ~e.active \/ e.divider = 0 THEN [e EXCEPT !.step = e.divider]
      ELSE IF e.volume = end THEN [e EXCEPT !.step = e.divider, !.active = FALSE]
      ELSE [e EXCEPT !.step = e.divider, !.volume = IF e.up THEN @ + 1 ELSE @ - 1]

RestartSweep(s) ==
  IF kind = "sweep"
  THEN [s EXCEPT !.shadow = s.current, !.step = s.divider,
                 !.active = s.shift # 0 \/ s.divider # 0]
  ELSE s

\* The step counts down from divider to 1; from 0 it goes on below.
SweepFires(s) == s.active /\ s.step = 1
NewFrequency(s) ==
  LET offset == s.shadow \div 2 ^ s.shift
  IN  IF s.down THEN s.shadow - offset ELSE s.shadow + offset
TooHigh(f) == f >= Limit

TickSweep(s) ==
  IF ~s.active THEN s
  ELSE IF ~SweepFires(s) THEN [s EXCEPT !.step = Below(@)]
  ELSE IF TooHigh(NewFrequency(s)) \/ s.shift = 0 THEN [s EXCEPT !.step = s.divider]
  ELSE [s EXCEPT !.step = s.divider, !.shadow = NewFrequency(s), !.current = NewFrequency(s)]
-----------------------------------------------------------------------------
\* BaseChannel.Tick, called by the sequencer: a channel that has been
\* disabled by its length is not swept in the same call.
Sequencer ==
  LET timed == IF base.step % 2 = 0 THEN TickLength(base) ELSE base
      swept == base.step % 4 = 2 /\ timed.enabled
      ends  == swept /\ SweepFires(sweep) /\ TooHigh(NewFrequency(sweep))
  IN  /\ base' = [timed EXCEPT !.enabled = @ /\ ~ends, !.step = (@ + 1) % 8]
      /\ sweep' = IF swept THEN TickSweep(sweep) ELSE sweep
      /\ env' = IF base.step = 7 THEN TickEnvelope(env) ELSE env
      /\ UNCHANGED <<dac, heard, handle, events, forgotten, leftover>> /\ UNCHANGED control

\* AddClass for the next sample.  Handles are only compared, so any that no
\* event has may be the new one.
Fresh(q) == CHOOSE t \in Tag : t \notin q
Schedule(q) ==
  /\ Tag \ q # {}
  /\ events' = q \cup {Fresh(q)}
  /\ handle' = [has |-> TRUE, id |-> Fresh(q)]

\* What the new sample is; the generators differ in what silences them.
Sounds == base.enabled /\ dac /\ (kind = "wave" \/ env.volume > 0)

\* Mutant: a silent channel's chain ends.
GenerateHeard ==
  \E t \in events :
    /\ heard' = Sounds /\ leftover' = FALSE
    /\ IF Sounds
       THEN Schedule(events \ {t})
       ELSE events' = events \ {t} /\ handle' = [handle EXCEPT !.has = FALSE]
    /\ forgotten' = (forgotten /\ events' # {})
    /\ UNCHANGED <<base, env, sweep, dac>> /\ UNCHANGED control

\* Mutant: the chain goes on for ever.
GenerateAlways ==
  \E t \in events :
    /\ heard' = Sounds /\ leftover' = FALSE
    /\ Schedule(events \ {t})
    /\ UNCHANGED forgotten
    /\ UNCHANGED <<base, env, sweep, dac>> /\ UNCHANGED control

Generate ==
  \E t \in events :
    /\ heard' = Sounds /\ leftover' = FALSE
    /\ IF base.enabled
       THEN Schedule(events \ {t})
       ELSE events' = events \ {t} /\ handle' = [handle EXCEPT !.has = FALSE]
    /\ forgotten' = (forgotten /\ events' # {})
    /\ UNCHANGED <<base, env, sweep, dac>> /\ UNCHANGED control
-----------------------------------------------------------------------------
\* Register writes, which IOWrite8 takes only while sound is on

Others == UNCHANGED <<heard, forgotten, leftover>> /\ UNCHANGED control

WriteSweep ==
  /\ soundOn /\ kind = "sweep"
  /\ \E shift \in 0 .. MaxShift, down \in BOOLEAN, d \in Divider :
       sweep' = [sweep EXCEPT !.shift = shift, !.down = down, !.divider = d]
  /\ UNCHANGED <<base, env, dac, handle, events>> /\ Others

WriteLength ==
  /\ soundOn
  /\ \E n \in Lengths[kind] : base' = [base EXCEPT !.length = n]
  /\ UNCHANGED <<env, sweep, dac, handle, events>> /\ Others

\* A volume of 0 that does not rise turns the converter and the channel off.
WriteEnvelope ==
  /\ soundOn /\ kind \in Envelopes
  /\ \E e \in Shape[kind] :
       /\ env' = [env EXCEPT !.divider = e.divider, !.up = e.up, !.initial = e.initial]
       /\ dac' = (e.up \/ e.initial # 0)
       /\ base' = [base EXCEPT !.enabled = @ /\ dac']
  /\ UNCHANGED <<sweep, handle, events>> /\ Others

\* The wave's first register starts and stops playing, but not the channel.
WritePlaying ==
  /\ soundOn /\ kind = "wave"
  /\ dac' \in BOOLEAN
  /\ UNCHANGED <<base, env, sweep, handle, events>> /\ Others

\* Only the sweep's frequency is kept.
WriteFrequency ==
  /\ soundOn /\ kind = "sweep"
  /\ \E low \in 0 .. LowByte - 1 :
       LET f == (sweep.current \div LowByte) * LowByte + low
       IN  f < Limit /\ sweep' = [sweep EXCEPT !.current = f]
  /\ UNCHANGED <<base, env, dac, handle, events>> /\ Others

Tuned(high) ==
  IF kind = "sweep"
  THEN [sweep EXCEPT !.current = high * LowByte + (@ % LowByte)] ELSE sweep

Restart(b, s) ==
  /\ base' = [RestartLength(b) EXCEPT !.enabled = TRUE, !.step = 0]
  /\ sweep' = RestartSweep(s)
  /\ env' = RestartEnvelope(env)

\* Mutant: nothing is cancelled.
RechainOnly ==
  IF base.enabled THEN UNCHANGED <<events, handle>> ELSE Schedule(events)

\* A channel that is off cancels what its last life has left in the queue.
Rechain ==
  IF base.enabled THEN UNCHANGED <<events, handle>>
  ELSE Schedule(IF handle.has THEN events \ {handle.id} ELSE events)

WriteControl ==
  /\ soundOn
  /\ \E high \in 0 .. (Limit - 1) \div LowByte, counting \in Counting[kind],
        trigger \in BOOLEAN :
       LET b == [base EXCEPT !.counting = counting]
       IN  IF dac /\ trigger
           THEN Rechain /\ Restart(b, Tuned(high))
           ELSE base' = b /\ sweep' = Tuned(high) /\ UNCHANGED <<env, handle, events>>
  /\ UNCHANGED dac /\ Others
-----------------------------------------------------------------------------
\* SOUNDCNT_X: turned off, the generators are reset, but an event that is
\* queued stays and its handle is dropped.
Reset ==
  /\ base' = [enabled |-> FALSE, step |-> 0, length |-> 0, counting |-> FALSE]
  /\ env' = RestartEnvelope([env EXCEPT !.up = FALSE, !.initial = 0, !.divider = 0])
  /\ sweep' = RestartSweep([sweep EXCEPT !.down = FALSE, !.divider = 0, !.shift = 0])
  /\ dac' = FALSE /\ heard' = FALSE /\ leftover' = FALSE
  /\ handle' = [handle EXCEPT !.has = FALSE]
  /\ forgotten' = (forgotten \/ events # {})
  /\ UNCHANGED events

WriteMaster ==
  /\ soundOn' \in BOOLEAN
  /\ IF soundOn /\ ~soundOn' THEN Reset
     ELSE UNCHANGED <<base, env, sweep, dac, heard, handle, events, forgotten, leftover>>
  /\ muted' = (muted /\ ~soundOn')
  /\ UNCHANGED <<kind, cut>>

\* CopyState, and LoadState of the core in which the channel goes on.  A handle is
\* loaded as a live one if it ever was.  Counters are stored as bytes, which cuts
\* the longest length and makes some count of a negative one.  A state holds
\* neither MasterEnable nor the sample of a wave or of noise: both are what the
\* loading core is at, whatever that is.
AsByte(n, most) == IF n < 0 THEN 0 .. most ELSE {n % LengthByte}

Unsaved == {"wave", "noise"}    \* generators whose Sample is not in a state

SaveAndLoadChannel ==
  /\ \E n \in AsByte(base.length, MaxLength[kind]) : base' = [base EXCEPT !.length = n]
  /\ \E n \in AsByte(sweep.step, Dividers - 1) : sweep' = [sweep EXCEPT !.step = n]
  /\ handle' = [handle EXCEPT !.has = handle.id # NoEvent]
  /\ cut' = (cut \/ base.length >= LengthByte)
  /\ soundOn' \in BOOLEAN
  /\ muted' = (~soundOn' /\ (soundOn \/ muted))
  /\ \/ kind \in Unsaved /\ heard' \in BOOLEAN /\ leftover' = heard'
     \/ kind \notin Unsaved /\ UNCHANGED <<heard, leftover>>
  /\ UNCHANGED <<kind, env, dac, events, forgotten>>
-----------------------------------------------------------------------------
PsgInit ==
  /\ kind \in Kind
  /\ soundOn = FALSE
  /\ base = [enabled |-> FALSE, step |-> 0, length |-> 0, counting |-> FALSE]
  /\ env = [active |-> kind \in Envelopes, up |-> FALSE, initial |-> 0,
            volume |-> 0, divider |-> 0, step |-> 0]
  /\ sweep = [active |-> FALSE, down |-> FALSE, current |-> 0, shadow |-> 0,
              divider |-> 0, shift |-> 0, step |-> 0]
  /\ dac = FALSE /\ heard = FALSE
  /\ handle = [has |-> FALSE, id |-> NoEvent]
  /\ events = {}
  /\ forgotten = FALSE /\ cut = FALSE /\ leftover = FALSE /\ muted = FALSE

PsgNext ==
  \/ Sequencer \/ Generate
  \/ WriteSweep \/ WriteLength \/ WriteEnvelope \/ WritePlaying
  \/ WriteFrequency \/ WriteControl \/ WriteMaster \/ SaveAndLoadChannel

\* The scheduler calls what is due: the sequencer, and the chain's events.
PsgSpec == PsgInit /\ [][PsgNext]_psgVars
PsgFairSpec == PsgSpec /\ WF_psgVars(Sequencer) /\ WF_psgVars(Generate)
-----------------------------------------------------------------------------
\* A channel that is on, or still heard, has its next sample scheduled, and a
\* channel that is on can cancel it: no note hangs, and none is cut.  Only a sample
\* that the loading core was at may be heard without an event that ends it.
ChainAlive ==
  /\ base.enabled => handle.has /\ handle.id \in events
  /\ heard /\ ~leftover => events # {}

\* There is one chain of Generate events, of the event the channel can cancel,
\* although a channel that is switched on again finds the last one of its
\* former life still queued.  Only what Reset forgot adds another.
OneChain == ~forgotten => (events = {} \/ (events = {handle.id} /\ handle.has))

\* A channel that is on has length left, whether it counts or not, unless a
\* save state cut it.
LengthLeft == (base.enabled /\ ~cut) => base.length > 0

\* With sound off nothing plays, unless a state that was saved with sound on was
\* loaded where it is off; what is heard then is what the loading core was at.
OffIsSilent == ~soundOn /\ ~muted => ~base.enabled /\ (heard => leftover)

\* A channel whose registers are left alone falls silent when its length is
\* counted, and then its chain of events ends.  What still sounds is a sample of
\* the core that loaded a state in which the chain had ended.
LeftAlone == <>[][Sequencer \/ Generate]_psgVars
FallsSilent ==
  (LeftAlone /\ <>[]base.counting) =>
    <>[](~base.enabled /\ (heard => leftover) /\ events = {})
=============================================================================
