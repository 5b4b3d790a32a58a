------------------------------- MODULE DmaProofs -------------------------------
(***************************************************************************)
(* The DMA controller's arbitration is right for any number of channels,   *)
(* block lengths and activations under way.                                *)
(***************************************************************************)
EXTENDS Dma, TLAPS

Activation == [due : 0 .. 2, pri : {0}, chan : Channel, tag : Tag]

\* The part of the state that does not depend on where DMA.Run is.
Sound ==
  /\ chan \in [Channel -> ChannelState]
  /\ enrolled \in [Occasion -> SUBSET Channel]
  /\ runnable \in SUBSET Channel
  /\ reenter \in BOOLEAN
  /\ queue \in SUBSET Activation
  /\ doubled \in BOOLEAN
  /\ ActiveIsLowest
  /\ EnrolledAreEnabled

InChannel == {"loop", "read", "write", "store", "count"}
InUnit == {"read", "write", "store", "count"}

\* While runChannel runs, the flag is up whenever its channel is not the active
\* one any more, and a unit that is being moved is left to be moved.
Running ==
  /\ pc \in Place
  /\ cur \in Channel \cup {NoChannel}
  /\ pc \in InChannel => cur \in Channel /\ (cur = active \/ reenter)
  /\ pc \in InUnit => chan[cur].length > 0

\* The inductive invariant.
Inv == Sound /\ Running

\* What a register write or a callback may do to the transfer under way.
Respects ==
  /\ active' = active \/ reenter' \/ active = NoChannel
  /\ reenter => reenter'
  /\ \A c \in Channel : chan[c].length > 0 => chan'[c].length > 0
-----------------------------------------------------------------------------
LEMMA LowestIsLeast ==
  ASSUME NEW S \in SUBSET Channel, S # {}
  PROVE  /\ Lowest(S) \in S
         /\ \A d \in S : Lowest(S) <= d
<1>1. S \subseteq {0, 1, 2, 3}
  BY DmaAssumption
<1>2. \E c \in S : \A d \in S : c <= d
  <2>1. CASE 0 \in S
    BY <1>1, <2>1
  <2>2. CASE 0 \notin S /\ 1 \in S
    BY <1>1, <2>2
  <2>3. CASE 0 \notin S /\ 1 \notin S /\ 2 \in S
    BY <1>1, <2>3
  <2>4. CASE 0 \notin S /\ 1 \notin S /\ 2 \notin S
    <3>1. PICK c \in S : TRUE
      OBVIOUS
    <3>2. c = 3 /\ \A d \in S : d = 3
      BY <1>1, <2>4
    <3>3. QED
      BY <3>1, <3>2
  <2>5. QED
    BY <2>1, <2>2, <2>3, <2>4
<1>3. QED
  BY <1>2 DEF Lowest

LEMMA LowestIsOnly ==
  ASSUME NEW S \in SUBSET Channel, NEW c \in S, \A d \in S : c <= d
  PROVE  Lowest(S) = c
<1>1. Lowest(S) \in S /\ Lowest(S) <= c
  BY LowestIsLeast
<1>2. c <= Lowest(S)
  BY <1>1
<1>3. \A d \in Channel : d \in Int
  BY DmaAssumption
<1>4. c \in Int /\ Lowest(S) \in Int
  BY <1>1, <1>3
<1>5. QED
  BY <1>1, <1>2, <1>4

\* A channel that joins the others is active if it comes before the active one.
LEMMA LowestWithOneMore ==
  ASSUME NEW S \in SUBSET Channel, NEW c \in Channel
  PROVE  Lowest(S \cup {c}) = IF S = {} \/ c < Lowest(S) THEN c ELSE Lowest(S)
<1>1. \A d \in Channel : d \in Int
  BY DmaAssumption
<1>2. CASE S = {}
  <2>1. \A d \in S \cup {c} : c <= d
    BY <1>1, <1>2
  <2>2. QED
    BY <1>2, <2>1, LowestIsOnly
<1>3. CASE S # {} /\ c < Lowest(S)
  <2>1. Lowest(S) \in S /\ \A d \in S : Lowest(S) <= d
    BY <1>3, LowestIsLeast
  <2>2. \A d \in S \cup {c} : c <= d
    BY <1>1, <1>3, <2>1
  <2>3. QED
    BY <1>3, <2>2, LowestIsOnly
<1>4. CASE S # {} /\ ~(c < Lowest(S))
  <2>1. Lowest(S) \in S /\ \A d \in S : Lowest(S) <= d
    BY <1>4, LowestIsLeast
  <2>2. \A d \in S \cup {c} : Lowest(S) <= d
    BY <1>1, <1>4, <2>1
  <2>3. Lowest(S) \in S \cup {c}
    BY <2>1
  <2>4. Lowest(S \cup {c}) = Lowest(S)
    BY <2>2, <2>3, LowestIsOnly
  <2>5. QED
    BY <1>4, <2>4
<1>5. QED
  BY <1>2, <1>3, <1>4

\* Without a channel that is not the active one, the active one stays.
LEMMA LowestWithoutOne ==
  ASSUME NEW S \in SUBSET Channel, NEW c, c # Lowest(S)
  PROVE  Lowest(S \ {c}) = Lowest(S)
<1>1. CASE S = {}
  BY <1>1
<1>2. CASE S # {}
  <2>1. Lowest(S) \in S \ {c} /\ \A d \in S \ {c} : Lowest(S) <= d
    BY <1>2, LowestIsLeast
  <2>2. S \ {c} \in SUBSET Channel
    OBVIOUS
  <2>3. QED
    BY <2>1, <2>2, LowestIsOnly
<1>3. QED
  BY <1>1, <1>2

\* There is an active channel exactly if there is a runnable one.
LEMMA ActiveType ==
  ASSUME Sound
  PROVE  /\ active \in Channel \cup {NoChannel}
         /\ runnable # {} => active \in runnable
BY LowestIsLeast DEF Sound, ActiveIsLowest, Lowest
-----------------------------------------------------------------------------
\* Scheduling activations changes handles only.
LEMMA ScheduleDMAsSound ==
  ASSUME Sound, NEW ch \in [Channel -> ChannelState], NEW S \in SUBSET Channel,
         ScheduleDMAs(ch, S)
  PROVE  /\ chan' \in [Channel -> ChannelState]
         /\ queue' \in SUBSET Activation
         /\ doubled' \in BOOLEAN
         /\ \A c \in Channel : /\ chan'[c].enable = ch[c].enable
                               /\ chan'[c].time = ch[c].time
                               /\ chan'[c].length = ch[c].length
<1>1. ASSUME NEW c \in S
      PROVE  FreshTag(c) \in Tag
  <2>1. \E t \in Tag : t \in FreeTags(c)
    BY DEF ScheduleDMAs, FreeTags
  <2>2. QED
    BY <2>1 DEF FreshTag
<1>2. queue' \in SUBSET Activation
  <2>1. ASSUME NEW c \in S
        PROVE  [due |-> 2, pri |-> 0, chan |-> c, tag |-> FreshTag(c)] \in Activation
    BY <1>1 DEF Activation
  <2>2. QED
    BY <2>1 DEF Sound, ScheduleDMAs
<1>3. chan' = [c \in Channel |->
                IF c \in S THEN [ch[c] EXCEPT !.hasEvent = TRUE, !.event = FreshTag(c)]
                           ELSE ch[c]]
  BY DEF ScheduleDMAs
<1>4. ASSUME NEW c \in Channel
      PROVE  /\ chan'[c] \in ChannelState
             /\ chan'[c].enable = ch[c].enable
             /\ chan'[c].time = ch[c].time
             /\ chan'[c].length = ch[c].length
  <2>1. CASE c \in S
    BY <1>1, <1>3, <2>1 DEF ChannelState
  <2>2. CASE c \notin S
    BY <1>3, <2>2
  <2>3. QED
    BY <2>1, <2>2
<1>5. doubled' \in BOOLEAN
  <2>1. doubled \in BOOLEAN /\ (\E c \in S : UnderWay(c) # {}) \in BOOLEAN
    BY DEF Sound
  <2>2. QED
    BY <2>1 DEF ScheduleDMAs
<1>6. QED
  BY <1>2, <1>3, <1>4, <1>5

\* The sets after a channel has been put into the one its timing names.
LEMMA ReenrolledSound ==
  ASSUME Sound, NEW c \in Channel,
         NEW time \in {"immediate", "hblank", "vblank", "special"}
  PROVE  /\ Reenrolled(c, time) \in [Occasion -> SUBSET Channel]
         /\ \A o \in Occasion :
              /\ Reenrolled(c, time)[o] \subseteq enrolled[o] \cup {c}
              /\ c \in Reenrolled(c, time)[o] =>
                   time = IF o = "video" THEN "special" ELSE o
<1> DEFINE w == WithoutChannel(c)
           p == IF time = "special" THEN "video" ELSE time
<1>1. /\ w \in [Occasion -> SUBSET Channel]
      /\ \A o \in Occasion : w[o] = enrolled[o] \ {c}
  BY DEF Sound, WithoutChannel
<1>2. CASE time \in {"hblank", "vblank"} \/ (time = "special" /\ c = VideoChannel)
  <2>1. p \in Occasion /\ time = IF p = "video" THEN "special" ELSE p
    BY <1>2 DEF Occasion
  <2>2. Reenrolled(c, time) = [w EXCEPT ![p] = @ \cup {c}]
    BY <1>2 DEF Reenrolled
  <2> HIDE DEF w, p
  <2>3. QED
    BY <1>1, <2>1, <2>2
<1>3. CASE ~(time \in {"hblank", "vblank"} \/ (time = "special" /\ c = VideoChannel))
  <2>1. Reenrolled(c, time) = w
    BY <1>3 DEF Reenrolled
  <2> HIDE DEF w, p
  <2>2. QED
    BY <1>1, <2>1
<1>4. QED
  BY <1>2, <1>3

\* Disabling a channel, by a register write or at the end of the video transfer.
LEMMA DisabledSound ==
  ASSUME Sound, NEW c \in Channel, NEW new \in ChannelState,
         new.length = chan[c].length, Disabled(c, new)
  PROVE  Sound' /\ Respects
<1>1. /\ chan' = [chan EXCEPT ![c] = [new EXCEPT !.hasEvent = FALSE]]
      /\ enrolled' = WithoutChannel(c)
      /\ runnable' = runnable \ {c}
      /\ reenter' = (reenter \/ c = active)
      /\ active' = IF c = active THEN Lowest(runnable') ELSE active
      /\ doubled' = doubled
      /\ queue' \subseteq queue
  BY DEF Disabled
<1>2. /\ [new EXCEPT !.hasEvent = FALSE] \in ChannelState
      /\ [new EXCEPT !.hasEvent = FALSE].length = new.length
  BY DEF ChannelState
<1>3. /\ chan' \in [Channel -> ChannelState]
      /\ \A d \in Channel : d # c => chan'[d] = chan[d]
      /\ chan'[c].length = chan[c].length
  BY <1>1, <1>2 DEF Sound
<1>4. ActiveIsLowest'
  BY <1>1, LowestWithoutOne DEF Sound, ActiveIsLowest
<1>5. /\ enrolled' \in [Occasion -> SUBSET Channel]
      /\ \A o \in Occasion : enrolled'[o] = enrolled[o] \ {c}
  BY <1>1 DEF Sound, WithoutChannel
<1>6. EnrolledAreEnabled'
  BY <1>3, <1>5 DEF Sound, EnrolledAreEnabled
<1>7. reenter' \in BOOLEAN
  BY <1>1 DEF Sound
<1>8. Sound'
  BY <1>1, <1>3, <1>4, <1>5, <1>6, <1>7 DEF Sound
<1>9. Respects
  BY <1>1, <1>3 DEF Respects
<1>10. QED
  BY <1>8, <1>9

\* A channel with its latch loaded.
LEMMA LatchedState ==
  ASSUME NEW new \in ChannelState, NEW f \in BOOLEAN, NEW n \in Nat \ {0}
  PROVE  LET st == [new EXCEPT !.fifo = f, !.length = n]
         IN  /\ st \in ChannelState /\ st.enable = new.enable /\ st.time = new.time
             /\ st.length > 0
<1> DEFINE st == [new EXCEPT !.fifo = f, !.length = n]
<1>1. st \in ChannelState
  BY DEF ChannelState
<1>2. st.enable = new.enable /\ st.time = new.time
  BY DEF ChannelState
<1>3. st.length = n /\ n > 0
  BY DEF ChannelState
<1>4. QED
  BY <1>1, <1>2, <1>3

LEMMA EnabledSound ==
  ASSUME Sound, NEW c \in Channel, NEW new \in ChannelState, Enabled(c, new)
  PROVE  Sound' /\ Respects
<1>1. new.enable /\ runnable' = runnable /\ active' = active /\ reenter' = reenter
  BY DEF Enabled
<1>2. new.time \in {"immediate", "hblank", "vblank", "special"}
  BY DEF ChannelState
<1>3. /\ WithoutChannel(c) \in [Occasion -> SUBSET Channel]
      /\ \A o \in Occasion : WithoutChannel(c)[o] = enrolled[o] \ {c}
  BY DEF Sound, WithoutChannel
<1>4. \E ch \in [Channel -> ChannelState] :
        /\ ch[c].enable /\ ch[c].time = new.time /\ ch[c].length > 0
        /\ \A d \in Channel : d # c => ch[d] = chan[d]
        /\ \/ NothingScheduled(ch)
           \/ ScheduleDMAs(ch, {c})
        /\ enrolled' \in {WithoutChannel(c), Reenrolled(c, new.time)}
  <2>1. CASE new.time = "special" /\ c \in FIFOChannel
    <3> DEFINE st == [new EXCEPT !.fifo = TRUE, !.length = FIFOBlock]
               ch == [chan EXCEPT ![c] = st]
    <3>1. /\ st \in ChannelState /\ st.enable = new.enable /\ st.time = new.time
          /\ st.length > 0
      BY DmaAssumption, LatchedState
    <3> HIDE DEF st
    <3>2. /\ ch \in [Channel -> ChannelState] /\ ch[c] = st
          /\ \A d \in Channel : d # c => ch[d] = chan[d]
      BY <3>1 DEF Sound
    <3>3. NothingScheduled(ch) /\ enrolled' = WithoutChannel(c)
      BY <2>1 DEF Enabled, st
    <3> HIDE DEF ch
    <3>4. QED
      BY <1>1, <3>1, <3>2, <3>3
  <2>2. CASE ~(new.time = "special" /\ c \in FIFOChannel)
    <3>1. PICK n \in Block :
            LET ch == [chan EXCEPT ![c] = [new EXCEPT !.fifo = FALSE, !.length = n]]
            IN  IF new.time = "immediate"
                THEN ScheduleDMAs(ch, {c}) /\ enrolled' = WithoutChannel(c)
                ELSE NothingScheduled(ch) /\ enrolled' = Reenrolled(c, new.time)
      BY <2>2 DEF Enabled
    <3> DEFINE st == [new EXCEPT !.fifo = FALSE, !.length = n]
               ch == [chan EXCEPT ![c] = st]
    <3>2. /\ st \in ChannelState /\ st.enable = new.enable /\ st.time = new.time
          /\ st.length > 0
      BY DmaAssumption, LatchedState
    <3>3. \/ ScheduleDMAs(ch, {c}) /\ enrolled' = WithoutChannel(c)
          \/ NothingScheduled(ch) /\ enrolled' = Reenrolled(c, new.time)
      BY <3>1
    <3> HIDE DEF st
    <3>4. /\ ch \in [Channel -> ChannelState] /\ ch[c] = st
          /\ \A d \in Channel : d # c => ch[d] = chan[d]
      BY <3>2 DEF Sound
    <3> HIDE DEF ch
    <3>5. QED
      BY <1>1, <3>2, <3>3, <3>4
  <2>3. QED
    BY <2>1, <2>2
<1>5. PICK ch \in [Channel -> ChannelState] :
        /\ ch[c].enable /\ ch[c].time = new.time /\ ch[c].length > 0
        /\ \A d \in Channel : d # c => ch[d] = chan[d]
        /\ \/ NothingScheduled(ch)
           \/ ScheduleDMAs(ch, {c})
        /\ enrolled' \in {WithoutChannel(c), Reenrolled(c, new.time)}
  BY <1>4
<1>6. /\ chan' \in [Channel -> ChannelState]
      /\ queue' \in SUBSET Activation
      /\ doubled' \in BOOLEAN
      /\ \A d \in Channel : /\ chan'[d].enable = ch[d].enable
                            /\ chan'[d].time = ch[d].time
                            /\ chan'[d].length = ch[d].length
  <2>1. CASE NothingScheduled(ch)
    BY <2>1 DEF Sound, NothingScheduled
  <2>2. CASE ScheduleDMAs(ch, {c})
    BY <2>2, ScheduleDMAsSound
  <2>3. QED
    BY <1>5, <2>1, <2>2
<1>7. /\ enrolled' \in [Occasion -> SUBSET Channel]
      /\ \A o \in Occasion :
           /\ enrolled'[o] \subseteq enrolled[o] \cup {c}
           /\ c \in enrolled'[o] => new.time = IF o = "video" THEN "special" ELSE o
  <2>1. CASE enrolled' = WithoutChannel(c)
    BY <1>3, <2>1
  <2>2. CASE enrolled' = Reenrolled(c, new.time)
    BY <1>2, <2>2, ReenrolledSound
  <2>3. QED
    BY <1>5, <2>1, <2>2
<1>8. EnrolledAreEnabled'
  BY <1>1, <1>5, <1>6, <1>7 DEF Sound, EnrolledAreEnabled
<1>9. Sound'
  BY <1>1, <1>6, <1>7, <1>8 DEF Sound, ActiveIsLowest
<1>10. Respects
  BY <1>1, <1>5, <1>6 DEF Respects
<1>11. QED
  BY <1>9, <1>10

LEMMA StaysEnabledSound ==
  ASSUME Sound, NEW c \in Channel, NEW new \in ChannelState,
         new.length = chan[c].length, StaysEnabled(c, new)
  PROVE  Sound' /\ Respects
<1>1. /\ new.enable /\ runnable' = runnable /\ active' = active
      /\ chan' = [chan EXCEPT ![c] = new] /\ queue' = queue /\ doubled' = doubled
      /\ enrolled' \in {WithoutChannel(c), Reenrolled(c, new.time)}
  BY DEF StaysEnabled, NothingScheduled
<1>2. reenter' \in BOOLEAN /\ (reenter => reenter')
  BY DEF Sound, StaysEnabled
<1>3. /\ chan' \in [Channel -> ChannelState] /\ chan'[c] = new
      /\ \A d \in Channel : d # c => chan'[d] = chan[d]
  BY <1>1 DEF Sound
<1>4. new.time \in {"immediate", "hblank", "vblank", "special"}
  BY DEF ChannelState
<1>5. /\ enrolled' \in [Occasion -> SUBSET Channel]
      /\ \A o \in Occasion :
           /\ enrolled'[o] \subseteq enrolled[o] \cup {c}
           /\ c \in enrolled'[o] => new.time = IF o = "video" THEN "special" ELSE o
  <2>1. CASE enrolled' = WithoutChannel(c)
    BY <2>1 DEF Sound, WithoutChannel
  <2>2. CASE enrolled' = Reenrolled(c, new.time)
    BY <1>4, <2>2, ReenrolledSound
  <2>3. QED
    BY <1>1, <2>1, <2>2
<1>6. EnrolledAreEnabled'
  BY <1>1, <1>3, <1>5 DEF Sound, EnrolledAreEnabled
<1>7. Sound'
  BY <1>1, <1>2, <1>3, <1>5, <1>6 DEF Sound, ActiveIsLowest
<1>8. Respects
  BY <1>1, <1>2, <1>3 DEF Respects
<1>9. QED
  BY <1>7, <1>8

\* Whatever is written to whichever channel, by the CPU or by a transfer.
LEMMA WriteSound ==
  ASSUME Sound, WriteSome
  PROVE  Sound' /\ Respects
<1>1. PICK c \in Channel, enable \in BOOLEAN, repeat \in BOOLEAN :
        \E time \in Timing[c] : Write(c, enable, time, repeat)
  BY DEF WriteSome
<1>2. PICK time \in Timing[c] : Write(c, enable, time, repeat)
  BY <1>1
<1> DEFINE new == [chan[c] EXCEPT !.enable = enable, !.time = time, !.repeat = repeat]
<1>3. time \in {"immediate", "hblank", "vblank", "special"}
  BY DmaAssumption
<1>4. new \in ChannelState /\ new.length = chan[c].length
  BY <1>3 DEF Sound, ChannelState
<1>5. Enabled(c, new) \/ StaysEnabled(c, new) \/ Disabled(c, new)
  BY <1>2 DEF Write
<1> HIDE DEF new
<1>6. QED
  BY <1>4, <1>5, EnabledSound, StaysEnabledSound, DisabledSound
-----------------------------------------------------------------------------
\* The PPU's and the FIFOs' requests.
LEMMA RequestSound ==
  ASSUME Sound, NEW S \in SUBSET Channel, ScheduleDMAs(chan, S),
         UNCHANGED <<enrolled, runnable, active, reenter>>
  PROVE  Sound' /\ Respects
<1>1. chan \in [Channel -> ChannelState]
  BY DEF Sound
<1>2. /\ chan' \in [Channel -> ChannelState]
      /\ queue' \in SUBSET Activation
      /\ doubled' \in BOOLEAN
      /\ \A c \in Channel : /\ chan'[c].enable = chan[c].enable
                            /\ chan'[c].time = chan[c].time
                            /\ chan'[c].length = chan[c].length
  BY <1>1, ScheduleDMAsSound
<1>3. EnrolledAreEnabled'
  BY <1>2 DEF Sound, EnrolledAreEnabled
<1>4. Sound'
  BY <1>2, <1>3 DEF Sound, ActiveIsLowest
<1>5. Respects
  BY <1>2 DEF Respects
<1>6. QED
  BY <1>4, <1>5

LEMMA ActivatedSound ==
  ASSUME Sound, NEW e \in queue, OnActivated(e)
  PROVE  Sound' /\ Respects
<1>1. e.chan \in Channel
  BY DEF Sound, Activation
<1>2. /\ chan' = [chan EXCEPT ![e.chan].hasEvent = FALSE]
      /\ queue' \subseteq queue
      /\ active' = IF runnable = {} \/ e.chan < active THEN e.chan ELSE active
      /\ reenter' = (reenter \/ (runnable # {} /\ e.chan < active))
      /\ runnable' = runnable \cup {e.chan}
      /\ UNCHANGED <<enrolled, doubled>>
  BY DEF OnActivated
<1>3. /\ chan' \in [Channel -> ChannelState]
      /\ \A c \in Channel : /\ chan'[c].enable = chan[c].enable
                            /\ chan'[c].time = chan[c].time
                            /\ chan'[c].length = chan[c].length
  <2> DEFINE st == [chan[e.chan] EXCEPT !.hasEvent = FALSE]
  <2>1. chan[e.chan] \in ChannelState
    BY <1>1 DEF Sound
  <2>2. /\ st \in ChannelState
        /\ st.enable = chan[e.chan].enable
        /\ st.time = chan[e.chan].time
        /\ st.length = chan[e.chan].length
    BY <2>1 DEF ChannelState
  <2>3. chan' = [chan EXCEPT ![e.chan] = st]
    BY <1>2
  <2> HIDE DEF st
  <2>4. QED
    BY <1>1, <2>2, <2>3 DEF Sound
<1>4. ActiveIsLowest'
  BY <1>1, <1>2, LowestWithOneMore DEF Sound, ActiveIsLowest
<1>5. EnrolledAreEnabled'
  BY <1>2, <1>3 DEF Sound, EnrolledAreEnabled
<1>6. reenter' \in BOOLEAN
  BY <1>2 DEF Sound
<1>7. Sound'
  BY <1>1, <1>2, <1>3, <1>4, <1>5, <1>6 DEF Sound
<1>8. (reenter => reenter') /\ \A c \in Channel : chan[c].length > 0 => chan'[c].length > 0
  BY <1>2, <1>3
<1>9. active' = active \/ reenter' \/ active = NoChannel
  BY <1>2 DEF Sound, ActiveIsLowest, Lowest
<1>10. QED
  BY <1>7, <1>8, <1>9 DEF Respects

\* A change that respects the transfer leaves it running as it should.
LEMMA RespectsRunning ==
  ASSUME Running, Respects, pc' \in Place, cur' = cur,
         pc' \in InChannel => pc \in InChannel,
         pc' \in InUnit => pc \in InUnit
  PROVE  Running'
<1>1. \A c \in Channel : c # NoChannel
  BY DmaAssumption DEF NoChannel
<1>2. QED
  BY <1>1 DEF Running, Respects, InUnit, InChannel
-----------------------------------------------------------------------------
LEMMA InitInv == Init => Inv
<1> SUFFICES ASSUME Init PROVE Inv
  OBVIOUS
<1>1. chan \in [Channel -> ChannelState]
  <2> DEFINE st == [enable |-> FALSE, repeat |-> FALSE, time |-> "immediate",
                    fifo |-> FALSE, length |-> 0, hasEvent |-> FALSE,
                    event |-> NoHandle]
  <2>1. st \in ChannelState
    BY DEF ChannelState
  <2>2. chan = [c \in Channel |-> st]
    BY DEF Init
  <2>3. QED
    BY <2>1, <2>2
<1>2. /\ enrolled = [o \in Occasion |-> {}] /\ runnable = {} /\ queue = {}
      /\ active = NoChannel /\ pc = "off" /\ cur = NoChannel
  BY DEF Init
<1>3. reenter \in BOOLEAN /\ doubled \in BOOLEAN
  BY Zenon DEF Init
<1>4. ActiveIsLowest /\ EnrolledAreEnabled
  BY <1>2 DEF ActiveIsLowest, EnrolledAreEnabled, Lowest
<1>5. Sound
  BY <1>1, <1>2, <1>3, <1>4 DEF Sound
<1>6. Running
  BY <1>2 DEF Running, Place, InChannel, InUnit
<1>7. QED
  BY <1>5, <1>6 DEF Inv

LEMMA NextInv == Inv /\ [Next]_vars => Inv'
<1> SUFFICES ASSUME Inv, [Next]_vars PROVE Inv'
  OBVIOUS
<1>0. Sound /\ Running
  BY DEF Inv
<1>1. CASE CPUWrites
  <2>1. WriteSome /\ UNCHANGED <<pc, cur>>
    BY <1>1 DEF CPUWrites
  <2>2. Sound' /\ Respects
    BY <1>0, <2>1, WriteSound
  <2>3. QED
    BY <1>0, <2>1, <2>2, RespectsRunning DEF Inv, Running
<1>2. ASSUME NEW o \in Occasion, Request(o)
      PROVE  Inv'
  <2>1. enrolled[o] \in SUBSET Channel
    BY <1>0 DEF Sound
  <2>2. Sound' /\ Respects
    BY <1>0, <1>2, <2>1, RequestSound DEF Request
  <2>3. QED
    BY <1>0, <1>2, <2>2, RespectsRunning DEF Inv, Running, Request
<1>3. ASSUME NEW c \in FIFOChannel \cap Channel, RequestFIFO(c)
      PROVE  Inv'
  <2>1. Sound' /\ Respects
    BY <1>0, <1>3, RequestSound DEF RequestFIFO
  <2>2. QED
    BY <1>0, <1>3, <2>1, RespectsRunning DEF Inv, Running, RequestFIFO
<1>4. CASE StopVideoTransferDMA
  <2> DEFINE new == [chan[VideoChannel] EXCEPT !.enable = FALSE]
  <2>1. VideoChannel \in Channel /\ Disabled(VideoChannel, new) /\ UNCHANGED <<pc, cur>>
    BY <1>4 DEF StopVideoTransferDMA
  <2>2. chan[VideoChannel] \in ChannelState
    BY <1>0, <2>1 DEF Sound
  <2>3. new \in ChannelState /\ new.length = chan[VideoChannel].length
    BY <2>2 DEF ChannelState
  <2> HIDE DEF new
  <2>4. Sound' /\ Respects
    BY <1>0, <2>1, <2>3, DisabledSound
  <2>5. QED
    BY <1>0, <2>1, <2>4, RespectsRunning DEF Inv, Running
<1>5. ASSUME NEW e \in queue, OnActivated(e)
      PROVE  Inv'
  <2>1. Sound' /\ Respects
    BY <1>0, <1>5, ActivatedSound
  <2>2. QED
    BY <1>0, <1>5, <2>1, RespectsRunning DEF Inv, Running, OnActivated
<1>6. CASE Tick
  <2>1. /\ queue' = Elapsed(queue, 1) /\ DueNow(queue) = {}
        /\ UNCHANGED <<chan, enrolled, runnable, active, reenter, doubled, cur>>
    BY <1>6 DEF Tick
  <2>2. ASSUME NEW e \in queue
        PROVE  [e EXCEPT !.due = @ - 1] \in Activation
    <3>1. e \in Activation /\ e.due \in 0 .. 2 /\ e.due # 0
      BY <1>0, <2>1 DEF Sound, Activation, DueNow
    <3>2. e.due - 1 \in 0 .. 2
      BY <3>1
    <3>3. QED
      BY <3>1, <3>2 DEF Activation
  <2>3. queue' \in SUBSET Activation
    BY <2>1, <2>2 DEF Elapsed
  <2>4. Sound'
    BY <1>0, <2>1, <2>3 DEF Sound, ActiveIsLowest, EnrolledAreEnabled
  <2>5. /\ pc' \in Place
        /\ pc' \in InChannel => pc \in InChannel
        /\ pc' \in InUnit => pc \in InUnit
    BY <1>6 DEF Tick, Place, InChannel, InUnit
  <2>6. Running'
    BY <1>0, <2>1, <2>5 DEF Running
  <2>7. QED
    BY <2>4, <2>6 DEF Inv
<1>7. CASE RunStart \/ RunReturn
  <2>1. /\ pc' \in {"lead", "tail"}
        /\ UNCHANGED <<chan, enrolled, runnable, active, reenter, queue, doubled, cur>>
    BY <1>7 DEF RunStart, RunReturn, Goes
  <2>2. QED
    BY <1>0, <2>1 DEF Inv, Sound, ActiveIsLowest, EnrolledAreEnabled, Running,
                      Place, InChannel, InUnit
<1>8. CASE RunChannel
  <2>1. /\ pc' = "loop" /\ cur' = active /\ runnable # {}
        /\ UNCHANGED <<chan, enrolled, runnable, active, reenter, queue, doubled>>
    BY <1>8 DEF RunChannel, Goes
  <2>2. active \in Channel
    BY <1>0, <2>1, ActiveType DEF Sound
  <2>3. QED
    BY <1>0, <2>1, <2>2 DEF Inv, Sound, ActiveIsLowest, EnrolledAreEnabled, Running,
                            Place, InChannel, InUnit
<1>9. CASE Reenter
  <2>1. /\ pc' = "pick" /\ cur' = NoChannel /\ reenter' = FALSE
        /\ UNCHANGED <<chan, enrolled, runnable, active, queue, doubled>>
    BY <1>9 DEF Reenter, Goes
  <2>2. reenter' \in BOOLEAN
    BY <2>1, Zenon
  <2>3. Sound'
    BY <1>0, <2>1, <2>2 DEF Sound, ActiveIsLowest, EnrolledAreEnabled
  <2>4. Running'
    BY <2>1 DEF Running, Place, InChannel, InUnit
  <2>5. QED
    BY <2>3, <2>4 DEF Inv
<1>10. CASE UnitStart
  <2>1. /\ pc = "loop" /\ pc' = "read" /\ chan[cur].length # 0
        /\ UNCHANGED <<chan, enrolled, runnable, active, reenter, queue, doubled, cur>>
    BY <1>10 DEF UnitStart, Goes
  <2>2. cur \in Channel
    BY <1>0, <2>1 DEF Running, InChannel
  <2>3. chan[cur].length \in Nat
    BY <1>0, <2>2 DEF Sound, ChannelState
  <2>4. QED
    BY <1>0, <2>1, <2>2, <2>3
    DEF Inv, Sound, ActiveIsLowest, EnrolledAreEnabled, Running, Place, InChannel, InUnit
<1>11. CASE UnitToMemory
  <2>1. /\ pc = "store" /\ pc' = "count"
        /\ UNCHANGED <<chan, enrolled, runnable, active, reenter, queue, doubled, cur>>
    BY <1>11 DEF UnitToMemory, Goes
  <2>2. QED
    BY <1>0, <2>1 DEF Inv, Sound, ActiveIsLowest, EnrolledAreEnabled, Running,
                      Place, InChannel, InUnit
<1>12. CASE UnitToRegister
  <2>1. pc = "store" /\ pc' = "count" /\ WriteSome /\ cur' = cur
    BY <1>12 DEF UnitToRegister, Goes
  <2>2. Sound' /\ Respects
    BY <1>0, <2>1, WriteSound
  <2>3. Running'
    BY <1>0, <2>1, <2>2, RespectsRunning DEF Place, InChannel, InUnit
  <2>4. QED
    BY <2>2, <2>3 DEF Inv
<1>13. CASE UnitCount
  <2> DEFINE st == [chan[cur] EXCEPT !.length = @ - 1]
  <2>1. /\ pc = "count" /\ pc' = "loop" /\ chan' = [chan EXCEPT ![cur] = st]
        /\ UNCHANGED <<enrolled, runnable, active, reenter, queue, doubled, cur>>
    BY <1>13 DEF UnitCount, Goes
  <2>2. cur \in Channel /\ (cur = active \/ reenter) /\ chan[cur].length > 0
    BY <1>0, <2>1 DEF Running, InChannel, InUnit
  <2>3. chan[cur] \in ChannelState /\ chan[cur].length \in Nat
    BY <1>0, <2>2 DEF Sound, ChannelState
  <2>4. chan[cur].length - 1 \in Nat
    BY <2>2, <2>3
  <2>5. st \in ChannelState /\ st.enable = chan[cur].enable /\ st.time = chan[cur].time
    BY <2>3, <2>4 DEF ChannelState
  <2> HIDE DEF st
  <2>6. /\ chan' \in [Channel -> ChannelState]
        /\ \A c \in Channel : chan'[c].enable = chan[c].enable /\ chan'[c].time = chan[c].time
    BY <1>0, <2>1, <2>2, <2>5 DEF Sound
  <2>7. EnrolledAreEnabled'
    BY <1>0, <2>1, <2>6 DEF Sound, EnrolledAreEnabled
  <2>8. Sound'
    BY <1>0, <2>1, <2>6, <2>7 DEF Sound, ActiveIsLowest
  <2>9. Running'
    BY <2>1, <2>2 DEF Running, Place, InChannel, InUnit
  <2>10. QED
    BY <2>8, <2>9 DEF Inv
<1>14. CASE BlockEnd
  <2>1. pc = "loop" /\ pc' = "pick" /\ cur' = NoChannel
    BY <1>14 DEF BlockEnd, Goes
  <2>2. /\ runnable' = runnable \ {cur} /\ active' = Lowest(runnable')
        /\ UNCHANGED <<reenter, queue, doubled>>
    BY <1>14 DEF BlockEnd
  <2>3. cur \in Channel
    BY <1>0, <2>1 DEF Running, InChannel
  <2>4. chan[cur] \in ChannelState
    BY <1>0, <2>3 DEF Sound
  <2>5. chan' \in [Channel -> ChannelState] /\ enrolled' \in [Occasion -> SUBSET Channel]
        /\ EnrolledAreEnabled'
    <3>1. CASE enrolled' = enrolled /\ \E n \in Nat : chan' = [chan EXCEPT ![cur].length = n]
      <4>1. PICK n \in Nat : chan' = [chan EXCEPT ![cur].length = n]
        BY <3>1
      <4> DEFINE st == [chan[cur] EXCEPT !.length = n]
      <4>2. st \in ChannelState /\ st.enable = chan[cur].enable /\ st.time = chan[cur].time
        BY <2>4 DEF ChannelState
      <4>3. chan' = [chan EXCEPT ![cur] = st]
        BY <4>1
      <4> HIDE DEF st
      <4>4. QED
        BY <1>0, <2>3, <3>1, <4>2, <4>3 DEF Sound, EnrolledAreEnabled
    <3>2. CASE enrolled' = WithoutChannel(cur) /\ chan' = [chan EXCEPT ![cur].enable = FALSE]
      <4> DEFINE st == [chan[cur] EXCEPT !.enable = FALSE]
      <4>1. st \in ChannelState
        BY <2>4 DEF ChannelState
      <4>2. chan' = [chan EXCEPT ![cur] = st]
        BY <3>2
      <4> HIDE DEF st
      <4>3. /\ enrolled' \in [Occasion -> SUBSET Channel]
            /\ \A o \in Occasion : enrolled'[o] = enrolled[o] \ {cur}
        BY <1>0, <3>2 DEF Sound, WithoutChannel
      <4>4. QED
        BY <1>0, <2>3, <4>1, <4>2, <4>3 DEF Sound, EnrolledAreEnabled
    <3>3. \A n \in Block \cup {FIFOBlock} : n \in Nat
      BY DmaAssumption
    <3>4. CASE chan[cur].repeat /\ chan[cur].time # "immediate"
      <4>1. \E n \in Block \cup {FIFOBlock} : chan' = [chan EXCEPT ![cur].length = n]
        BY <1>14, <3>4 DEF BlockEnd
      <4>2. enrolled' = enrolled
        BY <1>14, <3>4 DEF BlockEnd
      <4>3. QED
        BY <3>1, <3>3, <4>1, <4>2
    <3>5. CASE ~(chan[cur].repeat /\ chan[cur].time # "immediate")
      BY <1>14, <3>2, <3>5 DEF BlockEnd
    <3>6. QED
      BY <3>4, <3>5
  <2>6. Sound'
    BY <1>0, <2>2, <2>5 DEF Sound, ActiveIsLowest
  <2>7. Running'
    BY <2>1 DEF Running, Place, InChannel, InUnit
  <2>8. QED
    BY <2>6, <2>7 DEF Inv
<1>15. CASE Reload
  <2>1. /\ pc' = "off" /\ cur' = cur /\ reenter' = FALSE /\ active' = Lowest(runnable)
        /\ chan' = [c \in Channel |->
                      [chan[c] EXCEPT !.hasEvent = chan[c].event # NoHandle]]
        /\ UNCHANGED <<enrolled, runnable, queue, doubled>>
    BY <1>15 DEF Reload
  <2>2. ASSUME NEW c \in Channel
        PROVE  /\ chan'[c] \in ChannelState
               /\ chan'[c].enable = chan[c].enable /\ chan'[c].time = chan[c].time
    <3> DEFINE h == chan[c].event # NoHandle
    <3>1. chan[c] \in ChannelState /\ h \in BOOLEAN
      BY <1>0 DEF Sound
    <3>2. chan'[c] = [chan[c] EXCEPT !.hasEvent = h]
      BY <2>1
    <3> HIDE DEF h
    <3>3. QED
      BY <3>1, <3>2 DEF ChannelState
  <2>3. chan' \in [Channel -> ChannelState]
    BY <2>1, <2>2
  <2>4. reenter' \in BOOLEAN
    BY <2>1, Zenon
  <2>5. EnrolledAreEnabled'
    BY <1>0, <2>1, <2>2 DEF Sound, EnrolledAreEnabled
  <2>6. Sound'
    BY <1>0, <2>1, <2>3, <2>4, <2>5 DEF Sound, ActiveIsLowest
  <2>7. Running'
    BY <1>0, <2>1 DEF Running, Place, InChannel, InUnit
  <2>8. QED
    BY <2>6, <2>7 DEF Inv
<1>16. CASE UNCHANGED vars
  BY <1>0, <1>16 DEF vars, Inv, Sound, ActiveIsLowest, EnrolledAreEnabled, Running
<1>17. QED
  BY <1>1, <1>2, <1>3, <1>4, <1>5, <1>6, <1>7, <1>8, <1>9, <1>10, <1>11, <1>12,
     <1>13, <1>14, <1>15, <1>16 DEF Next, Runs

LEMMA InvHolds == Spec => []Inv
<1>1. QED
  BY InitInv, NextInv, PTL DEF Spec

\* The registers, the sets and the queue keep their shape.  That no length ever
\* runs below zero needs the whole invariant.
THEOREM DmaTypeCorrect == Spec => []TypeOK
<1>1. Inv => TypeOK
  <2> SUFFICES ASSUME Inv PROVE TypeOK
    OBVIOUS
  <2>1. active \in Channel \cup {NoChannel}
    BY ActiveType DEF Inv
  <2>2. QED
    BY <2>1 DEF Inv, Sound, Running, TypeOK, Activation
<1>2. QED
  BY <1>1, InvHolds, PTL

\* The active channel is the runnable one of highest priority.
THEOREM ArbitrationRight == Spec => []ActiveIsLowest
<1>1. Inv => ActiveIsLowest
  BY DEF Inv, Sound
<1>2. QED
  BY <1>1, InvHolds, PTL

\* A disabled channel is in no set.
THEOREM EnrolmentRight == Spec => []EnrolledAreEnabled
<1>1. Inv => EnrolledAreEnabled
  BY DEF Inv, Sound
<1>2. QED
  BY <1>1, InvHolds, PTL

\* A unit is only begun for the active channel.
THEOREM PreemptionRight == Spec => UnitByActive
<1>1. Inv /\ [Next]_vars => [pc = "loop" /\ pc' = "read" => cur = active]_vars
  <2> SUFFICES ASSUME Inv, Next, pc = "loop", pc' = "read" PROVE cur = active
    OBVIOUS
  <2>1. UnitStart
    BY DEF Next, Runs, CPUWrites, Request, RequestFIFO, StopVideoTransferDMA, OnActivated,
           Tick, RunStart, Goes, RunChannel, RunReturn, Reenter, UnitToMemory,
           UnitToRegister, UnitCount, BlockEnd, Reload
  <2>2. ~reenter
    BY <2>1 DEF UnitStart
  <2>3. QED
    BY <2>2 DEF Inv, Running, InChannel
<1>2. QED
  BY <1>1, InvHolds, PTL DEF Spec, UnitByActive
-----------------------------------------------------------------------------
\* The handles: a channel has at most one activation under way, and names it.
Names(ch, q) ==
  /\ \A e \in q : ch[e.chan].hasEvent /\ ch[e.chan].event = e.tag
  /\ \A e, f \in q : e.chan = f.chan => e = f

HandlesName == ~doubled => Names(chan, queue)

SameHandles(ch, new) ==
  \A c \in Channel : new[c].hasEvent = ch[c].hasEvent /\ new[c].event = ch[c].event

\* A change that leaves the handles and the queue alone.
LEMMA HandlesKept ==
  ASSUME Sound, NEW ch, SameHandles(chan, ch), Names(chan, queue)
  PROVE  Names(ch, queue)
<1>1. \A e \in queue : e.chan \in Channel
  BY DEF Sound, Activation
<1>2. QED
  BY <1>1 DEF Names, SameHandles

\* One that changes a single channel and not its handle.
LEMMA HandlesKeptBut ==
  ASSUME Sound, NEW c \in Channel, NEW st,
         st.hasEvent = chan[c].hasEvent, st.event = chan[c].event
  PROVE  SameHandles(chan, [chan EXCEPT ![c] = st])
BY DEF Sound, SameHandles

\* Scheduling an activation names it; a second one of the channel doubles it.
LEMMA ScheduleDMAsNames ==
  ASSUME Sound, HandlesName, NEW ch \in [Channel -> ChannelState], SameHandles(chan, ch),
         NEW S \in SUBSET Channel, ScheduleDMAs(ch, S)
  PROVE  HandlesName'
<1> SUFFICES ASSUME ~doubled' PROVE Names(chan', queue')
  BY DEF HandlesName
<1> DEFINE New(c) == [due |-> 2, pri |-> 0, chan |-> c, tag |-> FreshTag(c)]
<1>1. ~doubled /\ \A c \in S : UnderWay(c) = {}
  BY DEF ScheduleDMAs
<1>2. Names(ch, queue)
  BY <1>1, HandlesKept DEF HandlesName
<1>3. queue' = queue \cup {New(c) : c \in S}
  BY DEF ScheduleDMAs
<1>4. \A c \in Channel :
        /\ c \in S => chan'[c].hasEvent /\ chan'[c].event = FreshTag(c)
        /\ c \notin S => chan'[c] = ch[c]
  BY DEF ScheduleDMAs, ChannelState
<1>5. \A e \in queue : e.chan \in Channel /\ e.chan \notin S
  BY <1>1 DEF Sound, Activation, UnderWay
<1>6. \A c \in S : New(c).chan = c /\ New(c).tag = FreshTag(c)
  OBVIOUS
<1> HIDE DEF New
<1>7. ASSUME NEW e \in queue'
      PROVE  chan'[e.chan].hasEvent /\ chan'[e.chan].event = e.tag
  <2>1. CASE e \in queue
    <3>1. chan'[e.chan] = ch[e.chan]
      BY <2>1, <1>4, <1>5
    <3>2. QED
      BY <2>1, <3>1, <1>2 DEF Names
  <2>2. CASE e \notin queue
    <3>1. PICK c \in S : e = New(c)
      BY <2>2, <1>3
    <3>2. QED
      BY <3>1, <1>4, <1>6
  <2>3. QED
    BY <2>1, <2>2
<1>8. ASSUME NEW e \in queue', NEW f \in queue', e.chan = f.chan
      PROVE  e = f
  <2>1. CASE e \in queue /\ f \in queue
    BY <2>1, <1>2, <1>8 DEF Names
  <2>2. CASE e \notin queue \/ f \notin queue
    BY <2>2, <1>3, <1>5, <1>6, <1>8
  <2>3. QED
    BY <2>1, <2>2
<1>9. QED
  BY <1>7, <1>8 DEF Names

LEMMA NothingScheduledNames ==
  ASSUME Sound, HandlesName, NEW ch, SameHandles(chan, ch), NothingScheduled(ch)
  PROVE  HandlesName'
BY HandlesKept DEF HandlesName, NothingScheduled

\* A register write: a channel that is disabled takes its activation with it.
LEMMA DisabledNames ==
  ASSUME Sound, HandlesName, NEW c \in Channel, NEW new \in ChannelState,
         new.hasEvent = chan[c].hasEvent, new.event = chan[c].event, Disabled(c, new)
  PROVE  HandlesName'
<1> SUFFICES ASSUME ~doubled PROVE Names(chan', queue')
  BY DEF HandlesName, Disabled
<1>1. Names(chan, queue)
  BY DEF HandlesName
<1>2. /\ chan' = [chan EXCEPT ![c] = [new EXCEPT !.hasEvent = FALSE]]
      /\ queue' = IF new.hasEvent THEN {e \in queue : ~(e.chan = c /\ e.tag = new.event)}
                                  ELSE queue
  BY DEF Disabled
<1>3. \A e \in queue' : e \in queue /\ e.chan # c
  BY <1>1, <1>2 DEF Names
<1>4. \A d \in Channel : d # c => chan'[d] = chan[d]
  BY <1>2 DEF Sound
<1>5. \A e \in queue : e.chan \in Channel
  BY DEF Sound, Activation
<1>6. QED
  BY <1>1, <1>3, <1>4, <1>5 DEF Names

LEMMA EnabledNames ==
  ASSUME Sound, HandlesName, NEW c \in Channel, NEW new \in ChannelState,
         new.hasEvent = chan[c].hasEvent, new.event = chan[c].event, Enabled(c, new)
  PROVE  HandlesName'
<1>1. ASSUME NEW f \in BOOLEAN, NEW n \in Nat \ {0}
      PROVE  LET ch == [chan EXCEPT ![c] = [new EXCEPT !.fifo = f, !.length = n]]
             IN  ch \in [Channel -> ChannelState] /\ SameHandles(chan, ch)
  <2> DEFINE st == [new EXCEPT !.fifo = f, !.length = n]
  <2>1. st \in ChannelState
    BY DEF ChannelState
  <2>2. st.hasEvent = chan[c].hasEvent /\ st.event = chan[c].event
    BY DEF ChannelState
  <2> HIDE DEF st
  <2>3. [chan EXCEPT ![c] = st] \in [Channel -> ChannelState]
    BY <2>1 DEF Sound
  <2>4. SameHandles(chan, [chan EXCEPT ![c] = st])
    BY <2>2, HandlesKeptBut
  <2>5. QED
    BY <2>3, <2>4 DEF st
<1>2. \E f \in BOOLEAN, n \in Nat \ {0} :
        LET ch == [chan EXCEPT ![c] = [new EXCEPT !.fifo = f, !.length = n]]
        IN  NothingScheduled(ch) \/ ScheduleDMAs(ch, {c})
  <2>1. CASE new.time = "special" /\ c \in FIFOChannel
    <3>1. NothingScheduled([chan EXCEPT ![c] = [new EXCEPT !.fifo = TRUE, !.length = FIFOBlock]])
      BY <2>1 DEF Enabled
    <3>2. FIFOBlock \in Nat \ {0}
      BY DmaAssumption
    <3>3. QED
      BY <3>1, <3>2
  <2>2. CASE ~(new.time = "special" /\ c \in FIFOChannel)
    <3>1. PICK n \in Block :
            LET ch == [chan EXCEPT ![c] = [new EXCEPT !.fifo = FALSE, !.length = n]]
            IN  NothingScheduled(ch) \/ ScheduleDMAs(ch, {c})
      BY <2>2 DEF Enabled
    <3>2. n \in Nat \ {0}
      BY DmaAssumption
    <3>3. QED
      BY <3>1, <3>2
  <2>3. QED
    BY <2>1, <2>2
<1>3. PICK f \in BOOLEAN, n \in Nat \ {0} :
        LET ch == [chan EXCEPT ![c] = [new EXCEPT !.fifo = f, !.length = n]]
        IN  NothingScheduled(ch) \/ ScheduleDMAs(ch, {c})
  BY <1>2
<1> DEFINE ch == [chan EXCEPT ![c] = [new EXCEPT !.fifo = f, !.length = n]]
<1>4. ch \in [Channel -> ChannelState] /\ SameHandles(chan, ch)
  BY <1>1
<1>5. NothingScheduled(ch) \/ ScheduleDMAs(ch, {c})
  BY <1>3
<1> HIDE DEF ch
<1>6. QED
  BY <1>4, <1>5, ScheduleDMAsNames, NothingScheduledNames

LEMMA WriteNames ==
  ASSUME Sound, HandlesName, WriteSome
  PROVE  HandlesName'
<1>1. PICK c \in Channel, enable \in BOOLEAN, repeat \in BOOLEAN :
        \E time \in Timing[c] : Write(c, enable, time, repeat)
  BY DEF WriteSome
<1>2. PICK time \in Timing[c] : Write(c, enable, time, repeat)
  BY <1>1
<1> DEFINE new == [chan[c] EXCEPT !.enable = enable, !.time = time, !.repeat = repeat]
<1>3. time \in {"immediate", "hblank", "vblank", "special"}
  BY DmaAssumption
<1>4. new \in ChannelState /\ new.hasEvent = chan[c].hasEvent /\ new.event = chan[c].event
  BY <1>3 DEF Sound, ChannelState
<1>5. Enabled(c, new) \/ StaysEnabled(c, new) \/ Disabled(c, new)
  BY <1>2 DEF Write
<1> HIDE DEF new
<1>6. CASE StaysEnabled(c, new)
  <2>1. NothingScheduled([chan EXCEPT ![c] = new])
    BY <1>6 DEF StaysEnabled
  <2>2. QED
    BY <2>1, <1>4, HandlesKeptBut, NothingScheduledNames
<1>7. QED
  BY <1>4, <1>5, <1>6, EnabledNames, DisabledNames

LEMMA HandlesNext == Inv /\ HandlesName /\ [Next]_vars => HandlesName'
<1> SUFFICES ASSUME Inv, HandlesName, [Next]_vars PROVE HandlesName'
  OBVIOUS
<1>0. Sound /\ Running
  BY DEF Inv
<1>1. CASE WriteSome
  BY <1>0, <1>1, WriteNames
<1>2. ASSUME NEW S \in SUBSET Channel, ScheduleDMAs(chan, S)
      PROVE  HandlesName'
  <2>1. chan \in [Channel -> ChannelState] /\ SameHandles(chan, chan)
    BY <1>0 DEF Sound, SameHandles
  <2>2. QED
    BY <1>0, <1>2, <2>1, ScheduleDMAsNames
<1>3. CASE \E o \in Occasion : Request(o)
  <2>1. PICK o \in Occasion : Request(o)
    BY <1>3
  <2>2. enrolled[o] \in SUBSET Channel
    BY <1>0 DEF Sound
  <2>3. QED
    BY <1>2, <2>1, <2>2 DEF Request
<1>4. CASE \E c \in FIFOChannel \cap Channel : RequestFIFO(c)
  BY <1>2, <1>4 DEF RequestFIFO
<1>5. CASE StopVideoTransferDMA
  <2> DEFINE new == [chan[VideoChannel] EXCEPT !.enable = FALSE]
  <2>1. VideoChannel \in Channel /\ Disabled(VideoChannel, new)
    BY <1>5 DEF StopVideoTransferDMA
  <2>2. /\ new \in ChannelState
        /\ new.hasEvent = chan[VideoChannel].hasEvent /\ new.event = chan[VideoChannel].event
    BY <1>0, <2>1 DEF Sound, ChannelState
  <2> HIDE DEF new
  <2>3. QED
    BY <1>0, <2>1, <2>2, DisabledNames
<1>6. ASSUME NEW e \in queue, OnActivated(e)
      PROVE  HandlesName'
  <2> SUFFICES ASSUME ~doubled PROVE Names(chan', queue')
    BY <1>6 DEF HandlesName, OnActivated
  <2>1. Names(chan, queue)
    BY DEF HandlesName
  <2>2. queue' = queue \ {e} /\ chan' = [chan EXCEPT ![e.chan].hasEvent = FALSE]
    BY <1>6 DEF OnActivated
  <2>3. \A f \in queue' : f \in queue /\ f.chan # e.chan /\ f.chan \in Channel
    BY <1>0, <2>1, <2>2 DEF Names, Sound, Activation
  <2>4. \A c \in Channel : c # e.chan => chan'[c] = chan[c]
    BY <1>0, <2>2 DEF Sound
  <2>5. QED
    BY <2>1, <2>3, <2>4 DEF Names
<1>7. CASE Tick
  <2> SUFFICES ASSUME ~doubled PROVE Names(chan', queue')
    BY <1>7 DEF HandlesName, Tick
  <2> DEFINE Later(e) == [e EXCEPT !.due = @ - 1]
  <2>1. Names(chan, queue) /\ chan' = chan /\ queue' = {Later(e) : e \in queue}
    BY <1>7 DEF HandlesName, Tick, Elapsed
  <2>2. \A e \in queue : Later(e).chan = e.chan /\ Later(e).tag = e.tag
    BY <1>0 DEF Sound, Activation
  <2> HIDE DEF Later
  <2>3. QED
    BY <2>1, <2>2 DEF Names
<1>8. ASSUME SameHandles(chan, chan'), queue' = queue, doubled' = doubled
      PROVE  HandlesName'
  BY <1>0, <1>8, HandlesKept DEF HandlesName
<1>9. CASE UnitCount
  <2> DEFINE st == [chan[cur] EXCEPT !.length = @ - 1]
  <2>1. chan' = [chan EXCEPT ![cur] = st] /\ queue' = queue /\ doubled' = doubled
    BY <1>9 DEF UnitCount
  <2>2. cur \in Channel
    BY <1>0, <1>9 DEF UnitCount, Goes, Running, InChannel
  <2>3. st.hasEvent = chan[cur].hasEvent /\ st.event = chan[cur].event
    BY <1>0, <2>2 DEF Sound, ChannelState
  <2> HIDE DEF st
  <2>4. SameHandles(chan, chan')
    BY <1>0, <2>1, <2>2, <2>3, HandlesKeptBut
  <2>5. QED
    BY <1>8, <2>1, <2>4
<1>10. CASE BlockEnd
  <2>1. cur \in Channel
    BY <1>0, <1>10 DEF BlockEnd, Goes, Running, InChannel
  <2>2. \E st : /\ st.hasEvent = chan[cur].hasEvent /\ st.event = chan[cur].event
                /\ chan' = [chan EXCEPT ![cur] = st]
    <3>1. chan[cur] \in ChannelState
      BY <1>0, <2>1 DEF Sound
    <3>2. CASE \E n : chan' = [chan EXCEPT ![cur].length = n]
      <4>1. PICK n : chan' = [chan EXCEPT ![cur].length = n]
        BY <3>2
      <4> DEFINE st == [chan[cur] EXCEPT !.length = n]
      <4>2. st.hasEvent = chan[cur].hasEvent /\ st.event = chan[cur].event
        BY <3>1 DEF ChannelState
      <4>3. chan' = [chan EXCEPT ![cur] = st]
        BY <4>1
      <4>4. QED
        BY <4>2, <4>3
    <3>3. CASE chan' = [chan EXCEPT ![cur].enable = FALSE]
      <4> DEFINE st == [chan[cur] EXCEPT !.enable = FALSE]
      <4>1. st.hasEvent = chan[cur].hasEvent /\ st.event = chan[cur].event
        BY <3>1 DEF ChannelState
      <4>2. chan' = [chan EXCEPT ![cur] = st]
        BY <3>3
      <4>3. QED
        BY <4>1, <4>2
    <3>4. QED
      BY <1>10, <3>2, <3>3 DEF BlockEnd
  <2>3. SameHandles(chan, chan')
    BY <1>0, <2>1, <2>2, HandlesKeptBut
  <2>4. QED
    BY <1>8, <1>10, <2>3 DEF BlockEnd
<1>11. CASE Reload
  <2> SUFFICES ASSUME ~doubled PROVE Names(chan', queue')
    BY <1>11 DEF HandlesName, Reload
  <2>1. Names(chan, queue) /\ queue' = queue
    BY <1>11 DEF HandlesName, Reload
  <2>2. ASSUME NEW e \in queue
        PROVE  chan'[e.chan].hasEvent /\ chan'[e.chan].event = e.tag
    <3> DEFINE h == chan[e.chan].event # NoHandle
    <3>1. e.chan \in Channel /\ e.tag \in Tag /\ chan[e.chan].event = e.tag
      BY <1>0, <2>1 DEF Names, Sound, Activation
    <3>2. chan[e.chan] \in ChannelState
      BY <1>0, <3>1 DEF Sound
    <3>3. h
      BY <3>1, DmaAssumption DEF NoHandle
    <3>4. chan'[e.chan] = [chan[e.chan] EXCEPT !.hasEvent = h]
      BY <1>11, <3>1 DEF Reload
    <3> HIDE DEF h
    <3>5. QED
      BY <3>1, <3>2, <3>3, <3>4 DEF ChannelState
  <2>3. QED
    BY <2>1, <2>2 DEF Names
<1>12. CASE RunStart \/ RunChannel \/ RunReturn \/ Reenter \/ UnitStart \/ UnitToMemory
  <2>1. chan' = chan /\ queue' = queue /\ doubled' = doubled
    BY <1>12 DEF RunStart, RunChannel, RunReturn, Reenter, UnitStart, UnitToMemory
  <2>2. QED
    BY <1>8, <2>1 DEF SameHandles
<1>13. CASE UNCHANGED vars
  BY <1>8, <1>13 DEF vars, SameHandles
<1>14. QED
  BY <1>1, <1>3, <1>4, <1>5, <1>6, <1>7, <1>9, <1>10, <1>11, <1>12, <1>13
  DEF Next, Runs, CPUWrites, UnitToRegister

\* A channel that is disabled can take back the activation that is under way:
\* its handle names it through every write, request, activation and load,
\* unless one was scheduled over another.
THEOREM HandlesRight == Spec => []ActivationCancellable
<1>1. Init => HandlesName
  BY DEF Init, HandlesName, Names
<1>2. HandlesName => ActivationCancellable
  BY DEF HandlesName, Names, ActivationCancellable
<1>3. QED
  BY <1>1, <1>2, HandlesNext, InvHolds, PTL DEF Spec
=============================================================================
