---------------------------------- MODULE Dma ----------------------------------
(***************************************************************************)
(* The DMA controller (internal/dma/dma.go).  Writing a channel's control  *)
(* register or an occasion of the PPU or the sound FIFOs schedules the     *)
(* channel's activation two cycles later; an activated channel is runnable *)
(* and DMA.Run, which the CPU's next bus access enters, moves its block    *)
(* unit by unit while the clock goes on: callbacks that fire in between    *)
(* activate further channels, and a unit may itself be a store to the      *)
(* control register of a channel.                                          *)
(*                                                                         *)
(* Addresses, sizes and values are left out; block lengths are small.  The *)
(* interrupt at the end of a block is action Raise of module Irq.          *)
(***************************************************************************)
EXTENDS Agenda, FiniteSets

CONSTANTS
  Channel,    \* a subset of 0 .. 3; 0 has the highest priority
  Timing,     \* the start timings a program uses, for each channel
  Block,      \* lengths a channel's length register may ask for, 0 being the longest
  FIFOBlock,  \* length of a sound FIFO's block, 4 in the code
  Tag         \* bound: handles that tell a channel's queued activations apart

FIFOChannel == {1, 2}
VideoChannel == 3

ASSUME DmaAssumption ==
  /\ Channel \subseteq 0 .. 3
  /\ Timing \in [Channel -> SUBSET {"immediate", "hblank", "vblank", "special"}]
  /\ Block \subseteq Nat \ {0} /\ FIFOBlock \in Nat \ {0}
  /\ 0 \notin Tag

VARIABLES
  chan,       \* the channels' registers and latches
  enrolled,   \* hblankSet, vblankSet and videoSet
  runnable,   \* runnableSet
  active,     \* activeDMAID
  reenter,    \* shouldReenterTransferLoop
  queue,      \* activations under way [due, pri, chan, tag]
  doubled,    \* a channel was scheduled while an activation of it was under way
  pc,         \* where DMA.Run is
  cur         \* the channel runChannel runs for

vars == <<chan, enrolled, runnable, active, reenter, queue, doubled, pc, cur>>

NoHandle == 0
NoChannel == -1
Occasion == {"hblank", "vblank", "video"}

ChannelState ==
  [enable : BOOLEAN, repeat : BOOLEAN,
   time : {"immediate", "hblank", "vblank", "special"},
   fifo : BOOLEAN, length : Nat, hasEvent : BOOLEAN, event : Tag \cup {NoHandle}]

\* off: the CPU has the bus.  lead, read, write and tail are in a Bus.Step, the
\* others between two of them.
Place == {"off", "lead", "pick", "loop", "read", "write", "store", "count", "tail"}

TypeOK ==
  /\ chan \in [Channel -> ChannelState]
  /\ enrolled \in [Occasion -> SUBSET Channel]
  /\ runnable \in SUBSET Channel
  /\ active \in Channel \cup {NoChannel}
  /\ reenter \in BOOLEAN
  /\ queue \subseteq [due : 0 .. 2, pri : {0}, chan : Channel, tag : Tag]
  /\ doubled \in BOOLEAN
  /\ pc \in Place
  /\ cur \in Channel \cup {NoChannel}

Init ==
  /\ chan = [c \in Channel |->
               [enable |-> FALSE, repeat |-> FALSE, time |-> "immediate",
                fifo |-> FALSE, length |-> 0, hasEvent |-> FALSE,
                event |-> NoHandle]]
  /\ enrolled = [o \in Occasion |-> {}]
  /\ runnable = {}
  /\ active = NoChannel
  /\ reenter = FALSE
  /\ queue = {}
  /\ doubled = FALSE
  /\ pc = "off"
  /\ cur = NoChannel
-----------------------------------------------------------------------------
\* dmaFromBitset: the channel of highest priority
Lowest(S) ==
  IF S = {} THEN NoChannel ELSE CHOOSE c \in S : \A d \in S : c <= d

UnderWay(c) == {e \in queue : e.chan = c}
FreeTags(c) == Tag \ {e.tag : e \in UnderWay(c)}
FreshTag(c) == CHOOSE t \in Tag : t \in FreeTags(c)

\* scheduleDMAs(S) when the channels are in state ch
ScheduleDMAs(ch, S) ==
  /\ \A c \in S : FreeTags(c) # {}
  /\ queue' = queue \cup {[due |-> 2, pri |-> 0, chan |-> c, tag |-> FreshTag(c)] : c \in S}
  /\ chan' = [c \in Channel |->
                IF c \in S THEN [ch[c] EXCEPT !.hasEvent = TRUE, !.event = FreshTag(c)]
                           ELSE ch[c]]
  /\ doubled' = (doubled \/ \E c \in S : UnderWay(c) # {})

NothingScheduled(ch) == chan' = ch /\ UNCHANGED <<queue, doubled>>

WithoutChannel(c) == [o \in Occasion |-> enrolled[o] \ {c}]

\* removeChannelFromDMASets, then addChannelToDMASet if the timing has a set
Reenrolled(c, time) ==
  LET o == IF time = "special" THEN "video" ELSE time
  IN  IF time \in {"hblank", "vblank"} \/ (time = "special" /\ c = VideoChannel)
      THEN [WithoutChannel(c) EXCEPT ![o] = @ \cup {c}]
      ELSE WithoutChannel(c)

\* onChannelWritten(c) for a channel that becomes enabled; new is its state
\* with the register fields assigned.
Enabled(c, new) ==
  /\ new.enable /\ ~chan[c].enable
  /\ UNCHANGED <<runnable, active, reenter>>
  /\ IF new.time = "special" /\ c \in FIFOChannel
     THEN /\ NothingScheduled([chan EXCEPT ![c] =
                                 [new EXCEPT !.fifo = TRUE, !.length = FIFOBlock]])
          /\ enrolled' = WithoutChannel(c)
     ELSE \E n \in Block :
            LET ch == [chan EXCEPT ![c] = [new EXCEPT !.fifo = FALSE, !.length = n]]
            IN  IF new.time = "immediate"
                THEN ScheduleDMAs(ch, {c}) /\ enrolled' = WithoutChannel(c)
                ELSE NothingScheduled(ch) /\ enrolled' = Reenrolled(c, new.time)

\* The same for a channel that was enabled and stays so.
StaysEnabled(c, new) ==
  /\ new.enable /\ chan[c].enable
  /\ NothingScheduled([chan EXCEPT ![c] = new])
  /\ enrolled' = IF new.hasEvent THEN WithoutChannel(c) ELSE Reenrolled(c, new.time)
  /\ reenter' = (reenter \/ (~new.hasEvent /\ c = active))
  /\ UNCHANGED <<runnable, active>>

\* Mutant: the activation under way is not cancelled.
DisabledNoCancel(c, new) ==
  /\ ~new.enable
  /\ NothingScheduled([chan EXCEPT ![c] = [new EXCEPT !.hasEvent = FALSE]])
  /\ enrolled' = WithoutChannel(c)
  /\ runnable' = runnable \ {c}
  /\ reenter' = (reenter \/ c = active)
  /\ active' = IF c = active THEN Lowest(runnable') ELSE active

\* Mutant: a disabled channel stays in its set.
DisabledEnrolled(c, new) ==
  /\ ~new.enable
  /\ chan' = [chan EXCEPT ![c] = [new EXCEPT !.hasEvent = FALSE]]
  /\ queue' = IF new.hasEvent
              THEN {e \in queue : ~(e.chan = c /\ e.tag = new.event)}
              ELSE queue
  /\ runnable' = runnable \ {c}
  /\ reenter' = (reenter \/ c = active)
  /\ active' = IF c = active THEN Lowest(runnable') ELSE active
  /\ UNCHANGED <<enrolled, doubled>>

\* The same for a channel that is, or becomes, disabled.
Disabled(c, new) ==
  /\ ~new.enable
  /\ chan' = [chan EXCEPT ![c] = [new EXCEPT !.hasEvent = FALSE]]
  /\ queue' = IF new.hasEvent
              THEN {e \in queue : ~(e.chan = c /\ e.tag = new.event)}
              ELSE queue
  /\ enrolled' = WithoutChannel(c)
  /\ runnable' = runnable \ {c}
  /\ reenter' = (reenter \/ c = active)
  /\ active' = IF c = active THEN Lowest(runnable') ELSE active
  /\ UNCHANGED doubled

\* The high byte of CNT_H is written.
Write(c, enable, time, repeat) ==
  LET new == [chan[c] EXCEPT !.enable = enable, !.time = time, !.repeat = repeat]
  IN  Enabled(c, new) \/ StaysEnabled(c, new) \/ Disabled(c, new)

WriteSome ==
  \E c \in Channel, enable, repeat \in BOOLEAN : \E time \in Timing[c] :
    Write(c, enable, time, repeat)

\* The CPU acts between two calls of Bus.Step: nothing is due.
CPUWrites ==
  /\ pc = "off"
  /\ DueNow(queue) = {}
  /\ WriteSome
  /\ UNCHANGED <<pc, cur>>

\* PPU events ask for the channels of an occasion at any moment of a Step, but
\* hundreds of cycles apart: what the last one scheduled has been activated ...
Request(o) ==
  /\ enrolled[o] # {}
  /\ \A c \in enrolled[o] \ FIFOChannel : UnderWay(c) = {}
  /\ ScheduleDMAs(chan, enrolled[o])
  /\ UNCHANGED <<enrolled, runnable, active, reenter, pc, cur>>

\* ... and so do the sound FIFOs for the channel that feeds them.
RequestFIFO(c) ==
  /\ chan[c].enable /\ chan[c].time = "special"
  /\ ScheduleDMAs(chan, {c})
  /\ UNCHANGED <<enrolled, runnable, active, reenter, pc, cur>>

\* The PPU ends the video transfer.
StopVideoTransferDMA ==
  /\ VideoChannel \in Channel
  /\ chan[VideoChannel].enable
  /\ Disabled(VideoChannel, [chan[VideoChannel] EXCEPT !.enable = FALSE])
  /\ UNCHANGED <<pc, cur>>

\* Mutant: a channel of higher priority does not interrupt the one that runs.
OnActivatedNoReenter(e) ==
  /\ e.due = 0
  /\ queue' = queue \ {e}
  /\ chan' = [chan EXCEPT ![e.chan].hasEvent = FALSE]
  /\ active' = IF runnable = {} \/ e.chan < active THEN e.chan ELSE active
  /\ runnable' = runnable \cup {e.chan}
  /\ UNCHANGED <<enrolled, reenter, doubled, pc, cur>>

\* onActivated: the callback of an activation.
OnActivated(e) ==
  /\ e.due = 0
  /\ queue' = queue \ {e}
  /\ chan' = [chan EXCEPT ![e.chan].hasEvent = FALSE]
  /\ active' = IF runnable = {} \/ e.chan < active THEN e.chan ELSE active
  /\ reenter' = (reenter \/ (runnable # {} /\ e.chan < active))
  /\ runnable' = runnable \cup {e.chan}
  /\ UNCHANGED <<enrolled, doubled, pc, cur>>

\* A cycle passes in a Step of the CPU or of DMA.Run.  An access without wait
\* states takes one.
Tick ==
  /\ DueNow(queue) = {}
  /\ pc \in {"off", "lead", "read", "write", "tail"}
  /\ queue' = Elapsed(queue, 1)
  /\ pc' = CASE pc = "lead"  -> "pick"
             [] pc = "read"  -> "write"
             [] pc = "write" -> "store"
             [] OTHER        -> "off"
  /\ UNCHANGED <<chan, enrolled, runnable, active, reenter, doubled, cur>>
-----------------------------------------------------------------------------
\* The transfer goes on from one place to the next when nothing is due.
Goes(from, to) == pc = from /\ DueNow(queue) = {} /\ pc' = to

\* A bus access or an idle cycle of the CPU, or the halt loop, finds IsRunning.
RunStart ==
  /\ Goes("off", "lead")
  /\ runnable # {}
  /\ UNCHANGED <<chan, enrolled, runnable, active, reenter, queue, doubled, cur>>

\* The loop of Run: runChannel for the active channel while there is one.
RunChannel ==
  /\ Goes("pick", "loop")
  /\ runnable # {}
  /\ cur' = active
  /\ UNCHANGED <<chan, enrolled, runnable, active, reenter, queue, doubled>>

RunReturn ==
  /\ Goes("pick", "tail")
  /\ runnable = {}
  /\ UNCHANGED <<chan, enrolled, runnable, active, reenter, queue, doubled, cur>>

\* The loop of runChannel.
Reenter ==
  /\ Goes("loop", "pick")
  /\ chan[cur].length # 0 /\ reenter
  /\ reenter' = FALSE
  /\ cur' = NoChannel
  /\ UNCHANGED <<chan, enrolled, runnable, active, queue, doubled>>

UnitStart ==
  /\ Goes("loop", "read")
  /\ chan[cur].length # 0 /\ ~reenter
  /\ UNCHANGED <<chan, enrolled, runnable, active, reenter, queue, doubled, cur>>

UnitToMemory ==
  /\ Goes("store", "count")
  /\ UNCHANGED <<chan, enrolled, runnable, active, reenter, queue, doubled, cur>>

UnitToRegister ==
  /\ Goes("store", "count")
  /\ WriteSome
  /\ UNCHANGED cur

\* Mutant: the unit is not counted.
UnitNotCounted ==
  /\ Goes("count", "loop")
  /\ UNCHANGED <<chan, enrolled, runnable, active, reenter, queue, doubled, cur>>

UnitCount ==
  /\ Goes("count", "loop")
  /\ chan' = [chan EXCEPT ![cur].length = @ - 1]
  /\ UNCHANGED <<enrolled, runnable, active, reenter, queue, doubled, cur>>

\* Mutant: the end of a block leaves the active channel as it was.
BlockEndKeepsActive ==
  /\ Goes("loop", "pick")
  /\ chan[cur].length = 0
  /\ runnable' = runnable \ {cur}
  /\ chan' = [chan EXCEPT ![cur].enable = FALSE]
  /\ enrolled' = WithoutChannel(cur)
  /\ UNCHANGED <<active, reenter, queue, doubled, cur>>

\* A channel that repeats is armed for its next occasion, any other is done.
BlockEnd ==
  /\ Goes("loop", "pick")
  /\ chan[cur].length = 0
  /\ runnable' = runnable \ {cur}
  /\ IF chan[cur].repeat /\ chan[cur].time # "immediate"
     THEN /\ \E n \in IF chan[cur].fifo THEN {FIFOBlock} ELSE Block :
               chan' = [chan EXCEPT ![cur].length = n]
          /\ UNCHANGED enrolled
     ELSE /\ chan' = [chan EXCEPT ![cur].enable = FALSE]
          /\ enrolled' = WithoutChannel(cur)
  /\ active' = Lowest(runnable')
  /\ cur' = NoChannel
  /\ UNCHANGED <<reenter, queue, doubled>>

\* CopyState and LoadState: a state loaded later is the state it was saved in
\* but for what the two leave out, so loading at once says all there is to say.
Reload ==
  /\ pc = "off"
  /\ DueNow(queue) = {}
  /\ reenter' = FALSE
  /\ active' = Lowest(runnable)
  /\ chan' = [c \in Channel |->
                [chan[c] EXCEPT !.hasEvent = chan[c].event # NoHandle]]
  /\ UNCHANGED <<enrolled, runnable, queue, doubled, pc, cur>>

OnActivatedSome == \E e \in queue : OnActivated(e)

Runs ==
  \/ RunChannel \/ RunReturn
  \/ Reenter \/ UnitStart \/ UnitToMemory \/ UnitToRegister \/ UnitCount \/ BlockEnd

Next ==
  \/ CPUWrites
  \/ \E o \in Occasion : Request(o)
  \/ \E c \in FIFOChannel \cap Channel : RequestFIFO(c)
  \/ StopVideoTransferDMA
  \/ \E e \in queue : OnActivated(e)
  \/ Tick
  \/ RunStart
  \/ Runs
  \/ Reload

\* The clock goes on, what is due fires, the loops of Run and runChannel are
\* sequential code, and every bus access of the CPU tests IsRunning.
Fairness ==
  /\ WF_vars(Tick) /\ WF_vars(OnActivatedSome) /\ WF_vars(Runs)
  /\ SF_vars(RunStart)

Spec == Init /\ [][Next]_vars /\ Fairness
-----------------------------------------------------------------------------
\* Run indexes the channels with activeDMAID: it is the runnable channel of
\* highest priority, and -1 only when there is none, whatever activates,
\* disables or finishes in the middle of another channel's transfer.
ActiveIsLowest == active = Lowest(runnable)

\* Only enabled channels are asked for at an occasion, each at the one its
\* timing names.
EnrolledAreEnabled ==
  \A o \in Occasion : \A c \in enrolled[o] :
    /\ chan[c].enable
    /\ chan[c].time = IF o = "video" THEN "special" ELSE o

\* dma.go:114: the handle is kept so that the activation can be cancelled when
\* the channel is disabled; it names the activation under way, also after a
\* save state was loaded, unless a second one has been scheduled over it.
ActivationCancellable ==
  ~doubled => \A e \in queue : chan[e.chan].hasEvent /\ chan[e.chan].event = e.tag

\* A unit is only begun for the active channel: the transfer of a channel is
\* interrupted within a unit of a higher one becoming runnable.
UnitByActive == [][pc = "loop" /\ pc' = "read" => cur = active]_vars

\* The transfer of the highest channel is always brought to its end.
TopServed ==
  LET top == Lowest(Channel) IN (top \in runnable) ~> (top \notin runnable)
=============================================================================
