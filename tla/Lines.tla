---------------------------------- MODULE Lines ----------------------------------
(***************************************************************************)
(* The line machine of internal/ppu: VCOUNT, the flags of DISPSTAT, the    *)
(* occasions announced to DMA and the interrupts raised on the way, the    *)
(* latch of DISPCNT, and beside it the sprite machine, which draws the     *)
(* sprites of the next line into the one buffer while the line that is     *)
(* shown takes them from the other.                                        *)
(*                                                                         *)
(* Both are chains of events in the scheduler.  Pixels are not modelled:   *)
(* of a buffer or a latch is kept the line its contents belong to.         *)
(***************************************************************************)
EXTENDS Agenda, FiniteSets

CONSTANTS
  Last,        \* linesPerFrame - 1 = 227
  Height,      \* ScreenHeight = 160, the lines that are shown
  VideoFirst,  \* 2, the first line of a video transfer
  VideoEnd,    \* 162, where it is stopped and taken up anew
  LatchFrom,   \* 224, from where DISPCNT is latched in the vertical blank
  HDraw,       \* cyclesPerLineHDraw = 1007
  HBlank,      \* cyclesPerLineHBlank = 225
  LatchDelay,  \* 40, from the start of a line to LatchDISPCNT
  VideoDelay,  \* 3, to a video transfer's request
  Setting      \* values a program gives to VCountSetting

Line == 0 .. Last
LineLength == HDraw + HBlank

ASSUME LinesAssumption ==
  /\ VideoFirst \in Nat /\ Height \in Nat \ {0} /\ VideoFirst < Height
  /\ VideoEnd \in Nat /\ LatchFrom \in Nat /\ Last \in Nat
  /\ Height < VideoEnd /\ VideoEnd < LatchFrom /\ LatchFrom + 3 = Last
  /\ HDraw \in Nat /\ HBlank \in Nat \ {0, 1}  \* an interrupt comes in its own line
  /\ LatchDelay \in Nat \ {0} /\ LatchDelay < HDraw  \* after the line has begun
  /\ VideoDelay \in Nat \ {0} /\ VideoDelay < HDraw
  /\ Setting \subseteq Nat

None == -1
Class == {"HBlank", "HDraw", "UpdateVCountFlag", "LatchDISPCNT", "VideoDMA",
          "BeginSpriteFetch", "HBlankIRQ", "VBlankIRQ", "VCountIRQ"}

VARIABLES
  VCOUNT,
  flags,     \* DISPSTAT: vblank, hblank, vcount
  enable,    \* DISPSTAT: the interrupts enabled, and VCountSetting
  latch,     \* DISPCNTLatch: the line in which each was taken
  sprite,    \* Buffer: the line drawn in each, and BufferRD; drawing: not yet flushed
  dma3,      \* DMA channel 3 is enabled for video transfer
  running,   \* DMA3VideoTransferRunning
  queue,
  beam,      \* history: where the beam is, counted in cycles
  announced, \* history: how often each occasion came in this frame and, while it
             \* is steady, each interrupt
  steady     \* history: DISPSTAT was not written in this frame

vars == <<VCOUNT, flags, enable, latch, sprite, dma3, running, queue, beam, announced, steady>>

Interrupt == {"HBlankIRQ", "VBlankIRQ", "VCountIRQ"}
Occasion == {"hblank", "vblank", "video"} \cup Interrupt

TypeOK ==
  /\ VCOUNT \in Line
  /\ flags \in [vblank : BOOLEAN, hblank : BOOLEAN, vcount : BOOLEAN]
  /\ enable \in [vblank : BOOLEAN, hblank : BOOLEAN, vcount : BOOLEAN, setting : Setting]
  /\ latch \in [0 .. 2 -> Line \cup {None}]
  /\ sprite \in [buffer : [{0, 1} -> Line \cup {None}], rd : {0, 1}, drawing : BOOLEAN]
  /\ dma3 \in BOOLEAN /\ running \in BOOLEAN
  /\ queue \subseteq [class : Class, due : 0 .. LineLength, pri : {0, 1}]
  /\ beam \in [line : Line, dot : 0 .. LineLength - 1]
  /\ announced \in [Occasion -> 0 .. Last + 1]
  /\ steady \in BOOLEAN
-----------------------------------------------------------------------------
Event(class, due) == [class |-> class, due |-> due, pri |-> 0]
If(condition, e) == IF condition THEN {e} ELSE {}
Count(o) == [announced EXCEPT ![o] = IF o \in Interrupt /\ ~steady THEN @ ELSE @ + 1]

\* UpdateVerticalCounterFlag, for a DISPSTAT with the enable bits en: it sets the
\* flag and on its rising edge asks for the interrupt, of low priority.
Matches(line, en) == line = en.setting
VCountIRQ(line, en) ==
  If(en.vcount /\ ~flags.vcount /\ Matches(line, en),
     [class |-> "VCountIRQ", due |-> 1, pri |-> 1])

UpdateVerticalCounterFlag(q, en) ==
  /\ queue' = q \cup VCountIRQ(VCOUNT, en)
  /\ flags' = [flags EXCEPT !.vcount = Matches(VCOUNT, en)]

\* Mutant: the flag of VCount waits for the next line.
WriteDISPSTATOnly ==
  /\ \E v, h, c \in BOOLEAN, s \in Setting :
       enable' = [vblank |-> v, hblank |-> h, vcount |-> c, setting |-> s]
  /\ steady' = FALSE
  /\ UNCHANGED <<VCOUNT, flags, latch, sprite, dma3, running, queue, beam, announced>>

\* The program's write of DISPSTAT, of one byte or two
WriteDISPSTAT ==
  /\ \E v, h, c \in BOOLEAN, s \in Setting :
       /\ enable' = [vblank |-> v, hblank |-> h, vcount |-> c, setting |-> s]
       /\ UpdateVerticalCounterFlag(queue, enable')
  /\ steady' = FALSE
  /\ UNCHANGED <<VCOUNT, latch, sprite, dma3, running, beam, announced>>

\* The program's write of DMA3CNT
WriteDMA3 ==
  /\ dma3' = ~dma3
  /\ UNCHANGED <<VCOUNT, flags, enable, latch, sprite, running, queue, beam, announced, steady>>
-----------------------------------------------------------------------------
\* Mutant: only in the lines that are shown.
HBlankIRQOfShownLines == If(enable.hblank /\ VCOUNT < Height, Event("HBlankIRQ", 1))
HBlankIRQ == If(enable.hblank, Event("HBlankIRQ", 1))

\* onHBlankStart
OnHBlankStart(q) ==
  /\ flags' = [flags EXCEPT !.hblank = TRUE]
  /\ announced' = IF VCOUNT < Height THEN Count("hblank") ELSE announced
  /\ queue' = q \cup HBlankIRQ \cup {Event("HDraw", HBlank)}
  /\ UNCHANGED <<VCOUNT, enable, latch, sprite, dma3, running, beam, steady>>

\* onLineEnd: the next line begins.  The video transfer of the next frame is
\* decided at the end of line VideoEnd, that of this one stopped at its start.
NextLine == IF VCOUNT = Last THEN 0 ELSE VCOUNT + 1
LatchesDISPCNT == VCOUNT < Height \/ VCOUNT >= LatchFrom
\* Mutant: decided in every line.
TakeUpAnyLine == dma3
TakeUp == IF VCOUNT = VideoEnd THEN dma3 ELSE running
VideoLine(line) == line \in VideoFirst .. VideoEnd - 1

OnLineEnd(q) ==
  /\ VCOUNT' = NextLine
  /\ running' = TakeUp
  /\ dma3' = (dma3 /\ ~(running' /\ VCOUNT' = VideoEnd))
  /\ flags' = [flags EXCEPT !.hblank = FALSE,
                            !.vblank = (@ \/ VCOUNT' = Height) /\ VCOUNT' # Last]
  /\ announced' = IF VCOUNT' = 0 THEN [o \in Occasion |-> 0]
                  ELSE IF VCOUNT' = Height THEN Count("vblank") ELSE announced
  /\ steady' = IF VCOUNT' = 0 THEN \A e \in q : e.class # "VCountIRQ" ELSE steady
  /\ queue' = q \cup {Event("UpdateVCountFlag", 1), Event("HBlank", HDraw)}
                \cup If(LatchesDISPCNT, Event("LatchDISPCNT", LatchDelay))
                \cup If(running' /\ VideoLine(VCOUNT'), Event("VideoDMA", VideoDelay))
                \cup If(enable.vblank /\ VCOUNT' = Height, Event("VBlankIRQ", 1))
  /\ UNCHANGED <<enable, latch, sprite, beam>>

\* DMA's video request and the interrupts
Announce(class, q) ==
  /\ announced' = Count(IF class = "VideoDMA" THEN "video" ELSE class)
  /\ queue' = q
  /\ UNCHANGED <<VCOUNT, flags, enable, latch, sprite, dma3, running, beam, steady>>

LatchDISPCNT(q) ==
  /\ latch' = [i \in 0 .. 2 |-> IF i < 2 THEN latch[i + 1] ELSE VCOUNT]
  /\ queue' = q
  /\ UNCHANGED <<VCOUNT, flags, enable, sprite, dma3, running, beam, announced, steady>>

UpdateVCountFlag(q) ==
  /\ UpdateVerticalCounterFlag(q, enable)
  /\ UNCHANGED <<VCOUNT, enable, latch, sprite, dma3, running, beam, announced, steady>>
-----------------------------------------------------------------------------
\* The callback of BeginSpriteFetch: flush what was drawn, swap the buffers, and
\* clear the other for the next line.
Flushed == IF VCOUNT < Height THEN [sprite EXCEPT !.drawing = FALSE] ELSE sprite
\* Mutant: no sprites are drawn for line 0.
SwapsShownLines == VCOUNT < Height
Swaps == VCOUNT = Last \/ VCOUNT < Height
Swapped(s) == [s EXCEPT !.rd = 1 - @]
InitSprite(s) ==
  [s EXCEPT !.buffer[1 - s.rd] = (VCOUNT + 1) % (Last + 1), !.drawing = TRUE]

BeginSpriteFetch(q) ==
  /\ sprite' = IF ~Swaps THEN Flushed
               ELSE IF VCOUNT = Height - 1 THEN Swapped(Flushed)
               ELSE InitSprite(Swapped(Flushed))
  /\ queue' = q \cup {Event("BeginSpriteFetch", LineLength)}
  /\ UNCHANGED <<VCOUNT, flags, enable, latch, dma3, running, beam, announced, steady>>
-----------------------------------------------------------------------------
\* Scheduler.Step: the events of this cycle, in their order
Callback(e) ==
  LET q == queue \ {e}
  IN  CASE e.class = "HBlank" -> OnHBlankStart(q)
        [] e.class = "HDraw" -> OnLineEnd(q)
        [] e.class = "UpdateVCountFlag" -> UpdateVCountFlag(q)
        [] e.class = "LatchDISPCNT" -> LatchDISPCNT(q)
        [] e.class = "BeginSpriteFetch" -> BeginSpriteFetch(q)
        [] OTHER -> Announce(e.class, q)

Fire == \E e \in Frontier(DueNow(queue)) : Callback(e)

Tick ==
  /\ DueNow(queue) = {}
  /\ queue' = Elapsed(queue, 1)
  /\ beam' = IF beam.dot + 1 < LineLength THEN [beam EXCEPT !.dot = @ + 1]
             ELSE [line |-> IF beam.line = Last THEN 0 ELSE beam.line + 1, dot |-> 0]
  /\ UNCHANGED <<VCOUNT, flags, enable, latch, sprite, dma3, running, announced, steady>>

\* Reset: as after the boot program, near the end of the vertical blank.  The
\* horizontal blank it begins with is a cycle longer than others.
FirstHBlank == HBlank + 1
Init ==
  /\ VCOUNT = Last - 2
  /\ flags = [vblank |-> TRUE, hblank |-> TRUE, vcount |-> FALSE]
  /\ enable \in [vblank : {FALSE}, hblank : {FALSE}, vcount : {FALSE}, setting : {0} \cap Setting]
  /\ latch = [i \in 0 .. 2 |-> None]
  /\ sprite = [buffer |-> [b \in {0, 1} |-> None], rd |-> 0, drawing |-> FALSE]
  /\ dma3 = FALSE /\ running = FALSE
  /\ queue = {Event("HDraw", FirstHBlank), Event("BeginSpriteFetch", FirstHBlank + LatchDelay)}
  /\ beam = [line |-> Last - 2, dot |-> LineLength - FirstHBlank]
  /\ announced = [o \in Occasion |-> IF o = "hblank" THEN Height
                                     ELSE IF o = "vblank" THEN 1 ELSE 0]
  /\ steady = FALSE

Next == Fire \/ Tick \/ WriteDISPSTAT \/ WriteDMA3

Spec == Init /\ [][Next]_vars
-----------------------------------------------------------------------------
Queued(class) == \E e \in queue : e.class = class
Quiet == DueNow(queue) = {}

\* VCOUNT and the flags are what the position of the beam says, also that of
\* VCount, whose update comes a cycle late unless the program was there first.
\* The vertical blank's ends a line before the blank does.  In the line of a reset
\* the horizontal blank is on from the first.
FlagsMatchBeam ==
  Quiet =>
    /\ VCOUNT = beam.line
    /\ flags.hblank = (beam.dot >= HDraw \/ (latch[2] = None /\ beam.line = Last - 2))
    /\ flags.vblank = (beam.line \in Height .. Last - 1)
    /\ ~Queued("UpdateVCountFlag") =>
         flags.vcount = (beam.line = enable.setting)

\* Each occasion is announced once: the horizontal blank for every line that is
\* shown, the vertical blank once a frame, the video transfer for each of its lines
\* so far in a frame that took it up, and for none in another.
OccasionsOnce ==
  Quiet =>
    /\ announced["hblank"] =
         IF VCOUNT < Height THEN VCOUNT + (IF flags.hblank THEN 1 ELSE 0) ELSE Height
    /\ announced["vblank"] = IF VCOUNT < Height THEN 0 ELSE 1
    /\ VCOUNT <= VideoEnd =>
         announced["video"] + (IF Queued("VideoDMA") THEN 1 ELSE 0) =
           IF running THEN Cardinality({l \in 0 .. VCOUNT : VideoLine(l)}) ELSE 0

\* So is each interrupt that is enabled, while DISPSTAT is left alone: one for every
\* horizontal blank, also of the lines that are not shown, one for the vertical
\* blank and one for the line that matches.
InterruptsOnce ==
  (Quiet /\ steady /\ \A i \in Interrupt \cup {"UpdateVCountFlag"} : ~Queued(i)) =>
    /\ announced["HBlankIRQ"] =
         IF enable.hblank THEN VCOUNT + (IF flags.hblank THEN 1 ELSE 0) ELSE 0
    /\ announced["VBlankIRQ"] = IF enable.vblank /\ VCOUNT >= Height THEN 1 ELSE 0
    /\ announced["VCountIRQ"] = IF enable.vcount /\ enable.setting <= VCOUNT THEN 1 ELSE 0

\* The line that is shown takes the sprites that were drawn for it, and all of
\* them; the layers' enable bits are those of two lines before.
ShowsItsLine ==
  (Quiet /\ VCOUNT < Height /\ beam.dot >= LatchDelay) =>
    /\ sprite.buffer[sprite.rd] = VCOUNT
    /\ sprite.drawing => sprite.buffer[1 - sprite.rd] # VCOUNT
    /\ latch[0] = (VCOUNT + Last - 1) % (Last + 1)
=============================================================================
