------------------------------- MODULE LinesProofs -------------------------------
(***************************************************************************)
(* Theorems about module Lines, for frames and lines of any lengths.  The  *)
(* flags, the counts and the buffers are what the place in the line says   *)
(* because every event in the queue is due at its own dot of the line.     *)
(***************************************************************************)
EXTENDS Lines, FiniteSetTheorems, TLAPS

\* The dot of line VCOUNT the beam has come to, LineLength when the line is over
\* and its last event is still to fire.
Dot == IF beam.line = VCOUNT THEN beam.dot ELSE LineLength

BeamInLine ==
  \/ beam.line = VCOUNT
  \/ beam.line = NextLine /\ beam.dot = 0

\* The sprites for the line that follows have been begun.
Begun == \E e \in queue : e.class = "BeginSpriteFetch" /\ e.due = LatchDelay + LineLength - Dot

\* When an event is due, at dot d of a line with the flag h of the horizontal blank;
\* s tells whether the sprites have been begun.
OnTime(e, h, d, s) ==
  /\ e.class = "HDraw" => h = TRUE /\ e.due = LineLength - d
  /\ e.class = "HBlank" => h = FALSE /\ e.due = HDraw - d
  /\ e.class = "HBlankIRQ" => h = TRUE /\ e.due = HDraw + 1 - d
  /\ e.class \in {"UpdateVCountFlag", "VBlankIRQ"} => h = FALSE /\ e.due = 1 - d
  /\ e.class = "LatchDISPCNT" => h = FALSE /\ e.due = LatchDelay - d
  /\ e.class = "VideoDMA" => h = FALSE /\ e.due = VideoDelay - d
  /\ e.class = "BeginSpriteFetch" =>
       e.due = IF s THEN LatchDelay + LineLength - d ELSE LatchDelay - d
  /\ e.class = "VCountIRQ" => e.due \in {0, 1}
  /\ e.class # "VCountIRQ" => e.pri = 0

\* The events that are always there.
Chained ==
  /\ \E e \in queue : e.class = IF flags.hblank = TRUE THEN "HDraw" ELSE "HBlank"
  /\ \E e \in queue : e.class = "BeginSpriteFetch"
  /\ flags.hblank = TRUE => Begun

AllOnTime == \A e \in queue : OnTime(e, flags.hblank, Dot, Begun)

\* The line of the reset begins within its horizontal blank, before DISPCNT is
\* latched for the first time.
Starting == latch[2] = None /\ VCOUNT = Last - 2

Start ==
  /\ latch[2] = None =>
       \/ VCOUNT = Last - 2 /\ flags.hblank = TRUE
       \/ VCOUNT = Last - 1 /\ Queued("LatchDISPCNT")
  /\ flags.hblank = TRUE /\ Dot < HDraw => Starting

\* What the flags are, without a look at the beam.
FlagsMatch ==
  /\ flags.vblank = TRUE <=> VCOUNT \in Height .. Last - 1
  /\ ~Queued("UpdateVCountFlag") => (flags.vcount = TRUE <=> VCOUNT = enable.setting)
  /\ Queued("UpdateVCountFlag") /\ steady = TRUE =>
       (flags.vcount = TRUE <=> enable.setting = IF VCOUNT = 0 THEN Last ELSE VCOUNT - 1)

\* How many lines of a video transfer come before the end of line l.
VideoLines(l) == IF l < VideoFirst THEN 0 ELSE IF l < VideoEnd THEN l - VideoFirst + 1 ELSE VideoEnd - VideoFirst

One(b) == IF b THEN 1 ELSE 0

OccasionsCounted ==
  /\ announced["hblank"] = IF VCOUNT < Height THEN VCOUNT + One(flags.hblank = TRUE) ELSE Height
  /\ announced["vblank"] = One(VCOUNT >= Height)
  /\ Queued("VideoDMA") => running = TRUE /\ VideoLine(VCOUNT)
  /\ VCOUNT <= VideoEnd =>
       announced["video"] + One(Queued("VideoDMA")) = IF running = TRUE THEN VideoLines(VCOUNT) ELSE 0

InterruptsCounted ==
  steady = TRUE =>
    /\ \A e, f \in queue : e.class = "VCountIRQ" /\ f.class = "VCountIRQ" => e = f
    /\ announced["HBlankIRQ"] + One(Queued("HBlankIRQ")) =
         IF enable.hblank = TRUE THEN VCOUNT + One(flags.hblank = TRUE) ELSE 0
    /\ announced["VBlankIRQ"] + One(Queued("VBlankIRQ")) =
         One(enable.vblank = TRUE /\ VCOUNT >= Height)
    /\ announced["VCountIRQ"] + One(Queued("VCountIRQ"))
         + One(Queued("UpdateVCountFlag") /\ enable.vcount = TRUE /\ enable.setting = VCOUNT) =
         One(enable.vcount = TRUE /\ enable.setting <= VCOUNT)

SpritesInTime ==
  /\ VCOUNT = Last /\ Begun => sprite.buffer[1 - sprite.rd] = 0
  /\ VCOUNT < Height /\ ~Begun => sprite.buffer[1 - sprite.rd] = VCOUNT
  /\ VCOUNT < Height /\ Begun =>
       /\ sprite.buffer[sprite.rd] = VCOUNT
       /\ VCOUNT < Height - 1 => sprite.buffer[1 - sprite.rd] = VCOUNT + 1
       /\ VCOUNT = Height - 1 => sprite.drawing = FALSE

\* The line n before l
Before(l, n) == IF l < n THEN l + Last + 1 - n ELSE l - n

LatchesInTime ==
  LET now == Queued("LatchDISPCNT") IN
  /\ VCOUNT = Last - 1 /\ ~now => latch[2] = VCOUNT
  /\ VCOUNT = Last \/ VCOUNT < Height =>
       IF now THEN latch[2] = Before(VCOUNT, 1) ELSE latch[2] = VCOUNT /\ latch[1] = Before(VCOUNT, 1)
  /\ VCOUNT < Height => latch[IF now THEN 1 ELSE 0] = Before(VCOUNT, 2)

Inv ==
  /\ TypeOK
  /\ BeamInLine /\ Chained /\ AllOnTime /\ Start
  /\ FlagsMatch /\ OccasionsCounted /\ InterruptsCounted
  /\ SpritesInTime /\ LatchesInTime
-----------------------------------------------------------------------------
\* The lengths of lines and frames
LEMMA Lengths ==
  /\ HDraw \in Int /\ HBlank \in Int /\ LineLength \in Int /\ LineLength = HDraw + HBlank
  /\ LatchDelay \in Int /\ 1 <= LatchDelay /\ LatchDelay < HDraw
  /\ VideoDelay \in Int /\ 1 <= VideoDelay /\ VideoDelay < HDraw
  /\ 2 <= HBlank
  /\ Last \in Int /\ Height \in Int /\ VideoFirst \in Int /\ VideoEnd \in Int /\ LatchFrom \in Int
  /\ 0 <= VideoFirst /\ VideoFirst < Height /\ Height < VideoEnd /\ VideoEnd < LatchFrom
  /\ Last = LatchFrom + 3
  /\ Line = 0 .. Last
BY LinesAssumption DEF LineLength, Line

\* An event's type and its time
LEMMA EventFacts ==
  ASSUME Inv, NEW e \in queue
  PROVE  /\ e.class \in Class /\ e.due \in Int /\ 0 <= e.due /\ e.due <= LineLength
         /\ e.pri \in {0, 1} /\ OnTime(e, flags.hblank, Dot, Begun)
<1>1. e \in [class : Class, due : 0 .. LineLength, pri : {0, 1}]  BY DEF Inv, TypeOK
<1>2. OnTime(e, flags.hblank, Dot, Begun)  BY Zenon DEF Inv, AllOnTime
<1> QED  BY <1>1, <1>2, Lengths

\* The ranges of the beam, and the two places it may be in
LEMMA BeamFacts ==
  ASSUME Inv
  PROVE  /\ Dot \in Int /\ 0 <= Dot /\ Dot <= LineLength
         /\ VCOUNT \in Int /\ 0 <= VCOUNT /\ VCOUNT <= Last
         /\ beam.dot \in Int /\ 0 <= beam.dot /\ beam.dot < LineLength
         /\ beam.line \in Int
         /\ Dot < LineLength => beam.line = VCOUNT /\ beam.dot = Dot
         /\ Dot = LineLength => beam.line = NextLine /\ beam.dot = 0
<1>1. /\ beam.dot \in 0 .. LineLength - 1 /\ beam.line \in Line /\ VCOUNT \in Line
  BY DEF Inv, TypeOK
<1>2. BeamInLine  BY DEF Inv
<1> QED  BY <1>1, <1>2, Lengths DEF Dot, BeamInLine

\* Of each kind there is one event, but for the interrupts the program provokes.
LEMMA Unique ==
  ASSUME Inv, NEW e \in queue, NEW f \in queue, e.class = f.class,
         e.class # "VCountIRQ" \/ steady = TRUE
  PROVE  e = f
<1>1. CASE e.class = "VCountIRQ"  BY <1>1, Zenon DEF Inv, InterruptsCounted
<1>2. CASE e.class # "VCountIRQ"
  <2>1. /\ e \in [class : Class, due : 0 .. LineLength, pri : {0, 1}]
        /\ f \in [class : Class, due : 0 .. LineLength, pri : {0, 1}]
    BY DEF Inv, TypeOK
  <2>2. OnTime(e, flags.hblank, Dot, Begun) /\ OnTime(f, flags.hblank, Dot, Begun)
    BY EventFacts
  <2>3. e.class \in Class  BY <2>1
  <2>4. e.due = f.due /\ e.pri = f.pri
    BY <1>2, <2>2, <2>3 DEF OnTime, Class
  <2> QED  BY <2>1, <2>4
<1> QED  BY <1>1, <1>2

\* The type of what an event may be
LEMMA EventFits ==
  ASSUME NEW class \in Class, NEW due \in Int, 0 <= due, due <= LineLength
  PROVE  /\ Event(class, due) \in [class : Class, due : 0 .. LineLength, pri : {0, 1}]
         /\ Event(class, due).class = class /\ Event(class, due).due = due
         /\ Event(class, due).pri = 0
BY Lengths DEF Event

-----------------------------------------------------------------------------
\* Inv holds after a reset.
LEMMA InitInv == Init => Inv
<1> SUFFICES ASSUME Init PROVE Inv  OBVIOUS
<1> DEFINE h == Event("HDraw", FirstHBlank)
           s == Event("BeginSpriteFetch", FirstHBlank + LatchDelay)
<1>1. /\ VCOUNT = Last - 2 /\ latch = [i \in 0 .. 2 |-> None] /\ queue = {h, s}
      /\ beam = [line |-> Last - 2, dot |-> LineLength - FirstHBlank]
      /\ dma3 = FALSE /\ running = FALSE /\ steady = FALSE
      /\ flags = [vblank |-> TRUE, hblank |-> TRUE, vcount |-> FALSE]
      /\ enable \in [vblank : {FALSE}, hblank : {FALSE}, vcount : {FALSE}, setting : {0} \cap Setting]
      /\ sprite = [buffer |-> [b \in {0, 1} |-> None], rd |-> 0, drawing |-> FALSE]
      /\ announced = [o \in Occasion |-> IF o = "hblank" THEN Height
                                         ELSE IF o = "vblank" THEN 1 ELSE 0]
  BY DEF Init
<1>2. FirstHBlank = HBlank + 1 /\ FirstHBlank \in Int  BY Lengths DEF FirstHBlank
<1>3. /\ h \in [class : Class, due : 0 .. LineLength, pri : {0, 1}]
      /\ h.class = "HDraw" /\ h.due = FirstHBlank /\ h.pri = 0
      /\ s \in [class : Class, due : 0 .. LineLength, pri : {0, 1}]
      /\ s.class = "BeginSpriteFetch" /\ s.due = FirstHBlank + LatchDelay /\ s.pri = 0
  <2>1. "HDraw" \in Class /\ "BeginSpriteFetch" \in Class  BY DEF Class
  <2> QED  BY <1>2, <2>1, EventFits, Lengths
<1> HIDE DEF h, s
<1>4. Dot = LineLength - FirstHBlank  BY <1>1 DEF Dot
<1>5. Begun = TRUE
  <2>1. s \in queue /\ s.due = LatchDelay + LineLength - Dot
    BY <1>1, <1>2, <1>3, <1>4, Lengths
  <2>2. Begun  BY <1>3, <2>1, Zenon DEF Begun
  <2>3. Begun \in BOOLEAN  BY Zenon DEF Begun
  <2> QED  BY <2>2, <2>3, Zenon
<1>6. TypeOK
  <2>1. VCOUNT \in Line /\ beam \in [line : Line, dot : 0 .. LineLength - 1]
    BY <1>1, <1>2, Lengths
  <2>2. /\ flags \in [vblank : BOOLEAN, hblank : BOOLEAN, vcount : BOOLEAN]
        /\ enable \in [vblank : BOOLEAN, hblank : BOOLEAN, vcount : BOOLEAN, setting : Setting]
    BY <1>1
  <2>3. /\ latch \in [0 .. 2 -> Line \cup {None}]
        /\ sprite \in [buffer : [{0, 1} -> Line \cup {None}], rd : {0, 1}, drawing : BOOLEAN]
        /\ dma3 \in BOOLEAN /\ running \in BOOLEAN /\ steady \in BOOLEAN
    BY <1>1
  <2>4. queue \subseteq [class : Class, due : 0 .. LineLength, pri : {0, 1}]
    BY <1>1, <1>3
  <2>5. announced \in [Occasion -> 0 .. Last + 1]
    BY <1>1, Lengths
  <2> QED  BY <2>1, <2>2, <2>3, <2>4, <2>5 DEF TypeOK
<1>7. BeamInLine  BY <1>1 DEF BeamInLine
<1>8. flags.hblank = TRUE /\ flags.vblank = TRUE /\ flags.vcount = FALSE  BY <1>1
<1>9. Chained  BY <1>1, <1>3, <1>5, <1>8 DEF Chained
<1>10. AllOnTime
  <2>1. OnTime(h, TRUE, Dot, TRUE)  BY <1>2, <1>3, <1>4, Lengths DEF OnTime
  <2>2. OnTime(s, TRUE, Dot, TRUE)  BY <1>2, <1>3, <1>4, Lengths DEF OnTime
  <2> QED  BY <1>1, <1>5, <1>8, <2>1, <2>2, Zenon DEF AllOnTime
<1>11. latch[2] = None  BY <1>1
<1>12. Start  BY <1>1, <1>8, <1>11 DEF Start, Starting
<1>13. \A c : c # "HDraw" /\ c # "BeginSpriteFetch" => ~Queued(c)
  BY <1>1, <1>3 DEF Queued
<1>14. enable.setting = 0  BY <1>1
<1>15. FlagsMatch
  <2>1. VCOUNT # 0 /\ VCOUNT \in Height .. Last - 1  BY <1>1, Lengths
  <2> QED  BY <1>8, <1>13, <1>14, <2>1 DEF FlagsMatch
<1>16. OccasionsCounted
  <2>1. announced["hblank"] = Height /\ announced["vblank"] = 1  BY <1>1 DEF Occasion
  <2>2. VCOUNT >= Height /\ ~(VCOUNT < Height) /\ ~(VCOUNT <= VideoEnd)  BY <1>1, Lengths
  <2> QED  BY <1>13, <2>1, <2>2 DEF OccasionsCounted, One
<1>17. InterruptsCounted  BY <1>1 DEF InterruptsCounted
<1>18. SpritesInTime /\ LatchesInTime
  <2>1. VCOUNT # Last /\ VCOUNT # Last - 1 /\ ~(VCOUNT < Height)  BY <1>1, Lengths
  <2> QED  BY <2>1 DEF SpritesInTime, LatchesInTime
<1> QED  BY <1>6, <1>7, <1>9, <1>10, <1>12, <1>15, <1>16, <1>17, <1>18, Zenon DEF Inv

-----------------------------------------------------------------------------
\* The event that fires
LEMMA Firing ==
  ASSUME Inv, NEW e \in Frontier(DueNow(queue))
  PROVE  /\ e \in queue /\ e.due = 0 /\ e.class \in Class
         /\ OnTime(e, flags.hblank, Dot, Begun)
<1>1. e \in queue /\ e.due = 0  BY DEF Frontier, DueNow
<1> QED  BY <1>1, EventFacts

\* Nothing depends on where the beam is but through Dot.
LEMMA SameDot ==
  ASSUME UNCHANGED <<beam, VCOUNT>>
  PROVE  Dot' = Dot /\ (BeamInLine => BeamInLine')
BY DEF Dot, BeamInLine, NextLine

\* An occasion is announced, or an interrupt raised.
LEMMA AnnounceInv ==
  ASSUME Inv, NEW e \in Frontier(DueNow(queue)), e.class \in Interrupt \cup {"VideoDMA"},
         Announce(e.class, queue \ {e})
  PROVE  Inv'
<1> DEFINE o == IF e.class = "VideoDMA" THEN "video" ELSE e.class
           steadily == o \notin Interrupt \/ steady = TRUE
<1>1. /\ queue' = queue \ {e} /\ announced' = Count(o)
      /\ VCOUNT' = VCOUNT /\ flags' = flags /\ enable' = enable /\ latch' = latch
      /\ sprite' = sprite /\ dma3' = dma3 /\ running' = running /\ beam' = beam
      /\ steady' = steady
  BY DEF Announce
<1>2. e \in queue /\ OnTime(e, flags.hblank, Dot, Begun) /\ e.due = 0
  BY Firing
<1>3. Dot' = Dot /\ BeamInLine'  BY <1>1, SameDot DEF Inv
<1>4. Begun' = Begun
  <2>1. e.class # "BeginSpriteFetch"  BY DEF Interrupt
  <2> QED  BY <1>1, <1>3, <2>1 DEF Begun
<1>5. e.class \notin {"HDraw", "HBlank", "BeginSpriteFetch", "UpdateVCountFlag", "LatchDISPCNT"}
  BY DEF Interrupt
<1>6. \A c : c # e.class => ((\E f \in queue' : f.class = c) <=> (\E f \in queue : f.class = c))
  BY <1>1
<1>7. steadily => ~\E f \in queue' : f.class = e.class
  BY <1>1, <1>2, Unique, Zenon DEF Interrupt
<1>8. Chained'  BY <1>1, <1>4, <1>5, <1>6, Zenon DEF Chained, Inv
<1>9. AllOnTime'  BY <1>1, <1>3, <1>4, Zenon DEF AllOnTime, Inv
<1>10. Start'
  BY <1>1, <1>3, <1>5, <1>6, Zenon DEF Start, Starting, Inv, Queued
<1>11. FlagsMatch'
  BY <1>1, <1>5, <1>6, Zenon DEF FlagsMatch, Inv, Queued
<1>12. /\ announced \in [Occasion -> 0 .. Last + 1]
       /\ announced' = [p \in Occasion |->
                          IF p = o /\ steadily THEN announced[p] + 1 ELSE announced[p]]
       /\ \A p \in Occasion : announced'[p] = IF p = o /\ steadily THEN announced[p] + 1 ELSE announced[p]
  <2>1. announced \in [Occasion -> 0 .. Last + 1] /\ steady \in BOOLEAN  BY DEF Inv, TypeOK
  <2>2. (o \in Interrupt /\ ~steady) <=> ~steadily  BY <2>1, Zenon
  <2> HIDE DEF o, steadily
  <2>3. announced' = [announced EXCEPT ![o] = IF ~steadily THEN @ ELSE @ + 1]
    BY <1>1, <2>2, Zenon DEF Count
  <2> QED  BY <2>1, <2>3
<1> HIDE DEF steadily
<1>13. o \in Interrupt \cup {"video"} /\ (o = "video" <=> e.class = "VideoDMA") /\ (o # "video" => o = e.class)
  BY DEF Interrupt
<1> HIDE DEF o
<1>14. OccasionsCounted'
  <2>1. announced'["hblank"] = announced["hblank"] /\ announced'["vblank"] = announced["vblank"]
    BY <1>12, <1>13 DEF Occasion, Interrupt
  <2>2. CASE e.class = "VideoDMA"
    <3>1. Queued("VideoDMA") /\ ~Queued("VideoDMA")'
      BY <1>2, <1>7, <1>13, <2>2 DEF Queued, steadily, Interrupt
    <3>2. announced'["video"] = announced["video"] + 1
      BY <1>12, <1>13, <2>2 DEF Occasion, steadily, Interrupt
    <3>3. announced["video"] \in Int  BY <1>12, Lengths DEF Occasion
    <3> QED  BY <1>1, <2>1, <3>1, <3>2, <3>3 DEF OccasionsCounted, One, Inv
  <2>3. CASE e.class # "VideoDMA"
    <3>1. announced'["video"] = announced["video"]
      BY <1>12, <1>13, <2>3 DEF Occasion, Interrupt
    <3>2. Queued("VideoDMA") <=> Queued("VideoDMA")'  BY <1>6, <2>3 DEF Queued
    <3> QED  BY <1>1, <2>1, <3>1, <3>2 DEF OccasionsCounted, One, Inv
  <2> QED  BY <2>2, <2>3
<1>15. InterruptsCounted'
  <2> SUFFICES ASSUME steady = TRUE PROVE InterruptsCounted'
    BY <1>1, Zenon DEF InterruptsCounted
  <2>1. \A f, g \in queue' : f.class = "VCountIRQ" /\ g.class = "VCountIRQ" => f = g
    BY <1>1, Zenon DEF InterruptsCounted, Inv
  <2>2. ASSUME NEW i \in Interrupt
        PROVE  announced'[i] + One(\E f \in queue' : f.class = i) = announced[i] + One(\E f \in queue : f.class = i)
    <3>1. announced[i] \in Int  BY <1>12, Lengths DEF Occasion, Interrupt
    <3>2. CASE i = e.class
      <4>1. o = i /\ steadily  BY <1>13, <3>2 DEF steadily, Interrupt
      <4>2. announced'[i] = announced[i] + 1  BY <1>12, <4>1 DEF Occasion
      <4>3. (\E f \in queue : f.class = i) /\ ~(\E f \in queue' : f.class = i)
        BY <1>2, <1>7, <3>2, <4>1
      <4> QED  BY <3>1, <4>2, <4>3 DEF One
    <3>3. CASE i # e.class
      <4>1. o # i  BY <1>13, <3>3 DEF Interrupt
      <4>2. announced'[i] = announced[i]  BY <1>12, <4>1 DEF Occasion
      <4> QED  BY <1>6, <3>3, <4>2 DEF One
    <3> QED  BY <3>2, <3>3
  <2>3. (\E f \in queue' : f.class = "UpdateVCountFlag") <=> (\E f \in queue : f.class = "UpdateVCountFlag")
    BY <1>5, <1>6
  <2>4. "HBlankIRQ" \in Interrupt /\ "VBlankIRQ" \in Interrupt /\ "VCountIRQ" \in Interrupt
    BY DEF Interrupt
  <2>5. /\ announced'["HBlankIRQ"] + One(Queued("HBlankIRQ")') = announced["HBlankIRQ"] + One(Queued("HBlankIRQ"))
        /\ announced'["VBlankIRQ"] + One(Queued("VBlankIRQ")') = announced["VBlankIRQ"] + One(Queued("VBlankIRQ"))
        /\ announced'["VCountIRQ"] + One(Queued("VCountIRQ")') = announced["VCountIRQ"] + One(Queued("VCountIRQ"))
        /\ Queued("UpdateVCountFlag")' <=> Queued("UpdateVCountFlag")
    BY <2>2, <2>3, <2>4 DEF Queued
  <2> QED  BY <1>1, <2>1, <2>5, Zenon DEF InterruptsCounted, Inv, One
<1>16. SpritesInTime' /\ LatchesInTime'
  BY <1>1, <1>4, <1>5, <1>6, Zenon DEF SpritesInTime, LatchesInTime, Queued, Inv, Before
<1>17. TypeOK'
  <2>1. announced' \in [Occasion -> 0 .. Last + 1]
    <3>1. ASSUME steadily PROVE announced[o] + 1 \in 0 .. Last + 1
      <4>1. announced[o] \in Int /\ announced[o] >= 0
        BY <1>12, <1>13, Lengths DEF Occasion, Interrupt
      <4>2. CASE e.class = "VideoDMA"
        <5>1. Queued("VideoDMA")  BY <1>2, <4>2 DEF Queued
        <5>2. running = TRUE /\ VideoLine(VCOUNT)
          BY <5>1, Zenon DEF OccasionsCounted, Inv
        <5>3. VCOUNT <= VideoEnd /\ VideoLines(VCOUNT) <= Last + 1
          BY <5>2, BeamFacts, Lengths DEF VideoLine, VideoLines
        <5>4. announced["video"] + 1 = VideoLines(VCOUNT)
          BY <5>1, <5>2, <5>3 DEF OccasionsCounted, Inv, One
        <5> QED  BY <1>13, <4>1, <4>2, <5>3, <5>4, Lengths
      <4>3. CASE e.class # "VideoDMA"
        <5>1. o = e.class /\ o \in Interrupt /\ steady = TRUE
          BY <1>13, <3>1, <4>3 DEF steadily
        <5>2. Queued(o)  BY <1>2, <5>1 DEF Queued
        <5>3. CASE o = "HBlankIRQ"
          <6>1. announced[o] + 1 = IF enable.hblank = TRUE THEN VCOUNT + One(flags.hblank = TRUE) ELSE 0
            BY <5>1, <5>2, <5>3 DEF InterruptsCounted, Inv, One
          <6> QED  BY <4>1, <6>1, BeamFacts, Lengths DEF One
        <5>4. CASE o = "VBlankIRQ"
          <6>1. announced[o] + 1 = One(enable.vblank = TRUE /\ VCOUNT >= Height)
            BY <5>1, <5>2, <5>4 DEF InterruptsCounted, Inv, One
          <6> QED  BY <4>1, <6>1, BeamFacts, Lengths DEF One
        <5>5. CASE o = "VCountIRQ"
          <6>1. announced[o] + 1
                  + One(Queued("UpdateVCountFlag") /\ enable.vcount = TRUE /\ enable.setting = VCOUNT)
                  = One(enable.vcount = TRUE /\ enable.setting <= VCOUNT)
            BY <5>1, <5>2, <5>5 DEF InterruptsCounted, Inv, One
          <6> QED  BY <4>1, <6>1, BeamFacts, Lengths DEF One
        <5> QED  BY <5>1, <5>3, <5>4, <5>5 DEF Interrupt
      <4> QED  BY <4>2, <4>3
    <3>2. \A p \in Occasion :
            (IF p = o /\ steadily THEN announced[p] + 1 ELSE announced[p]) \in 0 .. Last + 1
      BY <1>12, <3>1
    <3> QED  BY <1>12, <3>2
  <2> QED  BY <1>1, <2>1 DEF TypeOK, Inv
<1> QED  BY <1>3, <1>8, <1>9, <1>10, <1>11, <1>14, <1>15, <1>16, <1>17, Zenon DEF Inv

\* DISPCNT is latched.
LEMMA LatchInv ==
  ASSUME Inv, NEW e \in Frontier(DueNow(queue)), e.class = "LatchDISPCNT",
         LatchDISPCNT(queue \ {e})
  PROVE  Inv'
<1>1. /\ queue' = queue \ {e} /\ announced' = announced
      /\ latch' = [i \in 0 .. 2 |-> IF i < 2 THEN latch[i + 1] ELSE VCOUNT]
      /\ VCOUNT' = VCOUNT /\ flags' = flags /\ enable' = enable
      /\ sprite' = sprite /\ dma3' = dma3 /\ running' = running /\ beam' = beam
      /\ steady' = steady
  BY DEF LatchDISPCNT
<1>2. e \in queue /\ OnTime(e, flags.hblank, Dot, Begun) /\ e.due = 0
  BY Firing
<1>3. Dot' = Dot /\ BeamInLine'  BY <1>1, SameDot DEF Inv
<1>4. Begun' = Begun  BY <1>1, <1>3 DEF Begun
<1>5. \A c : c # "LatchDISPCNT" => ((\E f \in queue' : f.class = c) <=> (\E f \in queue : f.class = c))
  BY <1>1
<1>6. Queued("LatchDISPCNT") /\ ~Queued("LatchDISPCNT")'
  BY <1>1, <1>2, Unique, Zenon DEF Queued
<1>7. /\ latch'[0] = latch[1] /\ latch'[1] = latch[2] /\ latch'[2] = VCOUNT
      /\ latch' \in [0 .. 2 -> Line \cup {None}]
  <2>1. latch \in [0 .. 2 -> Line \cup {None}] /\ VCOUNT \in Line  BY DEF Inv, TypeOK
  <2>2. 0 < 2 /\ 1 < 2 /\ ~(2 < 2)  OBVIOUS
  <2>3. latch'[0] = latch[1] /\ latch'[1] = latch[2] /\ latch'[2] = VCOUNT  BY <1>1, <2>2
  <2>4. latch' \in [0 .. 2 -> Line \cup {None}]
    <3>1. \A i \in 0 .. 2 : (IF i < 2 THEN latch[i + 1] ELSE VCOUNT) \in Line \cup {None}
      BY <2>1
    <3> QED  BY <1>1, <3>1
  <2> QED  BY <2>3, <2>4
<1>8. Chained'  BY <1>1, <1>4, <1>5, Zenon DEF Chained, Inv
<1>9. AllOnTime'  BY <1>1, <1>3, <1>4, Zenon DEF AllOnTime, Inv
<1>10. Start'
  <2>1. latch'[2] # None  BY <1>7, BeamFacts DEF None
  <2>2. flags.hblank = FALSE  BY <1>2 DEF OnTime
  <2> QED  BY <1>1, <2>1, <2>2 DEF Start
<1>11. FlagsMatch'  BY <1>1, <1>5, Zenon DEF FlagsMatch, Inv, Queued
<1>12. OccasionsCounted' /\ InterruptsCounted'
  <2>1. OccasionsCounted'  BY <1>1, <1>5, Zenon DEF OccasionsCounted, Inv, Queued, One
  <2>2. InterruptsCounted'  BY <1>1, <1>5, Zenon DEF InterruptsCounted, Inv, Queued, One
  <2> QED  BY <2>1, <2>2
<1>13. SpritesInTime'  BY <1>1, <1>4, Zenon DEF SpritesInTime, Inv
<1>14. LatchesInTime'
  <2>1. LatchesInTime  BY DEF Inv
  <2> QED  BY <1>1, <1>6, <1>7, <2>1 DEF LatchesInTime, Before
<1>15. TypeOK'  BY <1>1, <1>7 DEF TypeOK, Inv
<1> QED  BY <1>3, <1>8, <1>9, <1>10, <1>11, <1>12, <1>13, <1>14, <1>15, Zenon DEF Inv

\* What UpdateVerticalCounterFlag asks for
LEMMA VCountIRQFacts ==
  ASSUME NEW line, NEW en
  PROVE  /\ \A f \in VCountIRQ(line, en) :
              /\ f = [class |-> "VCountIRQ", due |-> 1, pri |-> 1]
              /\ f.class = "VCountIRQ" /\ f.due = 1 /\ f.pri = 1
              /\ f \in [class : Class, due : 0 .. LineLength, pri : {0, 1}]
         /\ (\E f \in VCountIRQ(line, en) : TRUE) <=> en.vcount /\ ~flags.vcount /\ line = en.setting
<1> DEFINE e == [class |-> "VCountIRQ", due |-> 1, pri |-> 1]
<1>1. VCountIRQ(line, en) = IF en.vcount /\ ~flags.vcount /\ line = en.setting THEN {e} ELSE {}
  BY Zenon DEF VCountIRQ, If, Matches
<1>2. e.class = "VCountIRQ" /\ e.due = 1 /\ e.pri = 1
      /\ e \in [class : Class, due : 0 .. LineLength, pri : {0, 1}]
  BY Lengths DEF Class
<1> HIDE DEF e
<1>3. CASE en.vcount /\ ~flags.vcount /\ line = en.setting
  <2>1. VCountIRQ(line, en) = {e}  BY <1>1, <1>3, Zenon
  <2> QED  BY <1>2, <1>3, <2>1, Zenon DEF e
<1>4. CASE ~(en.vcount /\ ~flags.vcount /\ line = en.setting)
  <2>1. VCountIRQ(line, en) = {}  BY <1>1, <1>4, Zenon
  <2> QED  BY <1>4, <2>1, Zenon
<1> QED  BY <1>3, <1>4

\* The flag of VCount catches up with the new line.
LEMMA UpdateInv ==
  ASSUME Inv, NEW e \in Frontier(DueNow(queue)), e.class = "UpdateVCountFlag",
         UpdateVCountFlag(queue \ {e})
  PROVE  Inv'
<1> DEFINE new == VCountIRQ(VCOUNT, enable)
           matches == VCOUNT = enable.setting
<1>1. /\ queue' = (queue \ {e}) \cup new
      /\ flags' = [flags EXCEPT !.vcount = matches]
      /\ announced' = announced /\ latch' = latch
      /\ VCOUNT' = VCOUNT /\ enable' = enable
      /\ sprite' = sprite /\ dma3' = dma3 /\ running' = running /\ beam' = beam
      /\ steady' = steady
  BY DEF UpdateVCountFlag, UpdateVerticalCounterFlag, Matches
<1>2. e \in queue /\ OnTime(e, flags.hblank, Dot, Begun) /\ e.due = 0
  BY Firing
<1>3. Dot' = Dot /\ BeamInLine'  BY <1>1, SameDot DEF Inv
<1>4. /\ flags \in [vblank : BOOLEAN, hblank : BOOLEAN, vcount : BOOLEAN]
      /\ flags' \in [vblank : BOOLEAN, hblank : BOOLEAN, vcount : BOOLEAN]
      /\ flags'.vblank = flags.vblank /\ flags'.hblank = flags.hblank
      /\ flags'.vcount = matches
  <2>1. flags \in [vblank : BOOLEAN, hblank : BOOLEAN, vcount : BOOLEAN]  BY DEF Inv, TypeOK
  <2>2. matches \in BOOLEAN  BY Zenon
  <2> HIDE DEF matches
  <2> QED  BY <1>1, <2>1, <2>2
<1>5. /\ \A f \in new : /\ f.class = "VCountIRQ" /\ f.due = 1 /\ f.pri = 1
                        /\ f \in [class : Class, due : 0 .. LineLength, pri : {0, 1}]
      /\ \A f, g \in new : f = g
      /\ (\E f \in new : TRUE) <=> enable.vcount = TRUE /\ flags.vcount = FALSE /\ matches
  <2>1. flags.vcount \in BOOLEAN /\ enable.vcount \in BOOLEAN  BY <1>4 DEF Inv, TypeOK
  <2>2. (enable.vcount /\ ~flags.vcount) <=> (enable.vcount = TRUE /\ flags.vcount = FALSE)
    BY <2>1, Zenon
  <2>3. /\ \A f \in new :
              /\ f = [class |-> "VCountIRQ", due |-> 1, pri |-> 1]
              /\ f.class = "VCountIRQ" /\ f.due = 1 /\ f.pri = 1
              /\ f \in [class : Class, due : 0 .. LineLength, pri : {0, 1}]
        /\ (\E f \in new : TRUE) <=> enable.vcount /\ ~flags.vcount /\ matches
    BY VCountIRQFacts, Zenon
  <2> HIDE DEF new, matches
  <2> QED  BY <2>2, <2>3, Zenon
<1> HIDE DEF new, matches
<1>6. \A c : c \notin {"VCountIRQ", "UpdateVCountFlag"} =>
               ((\E f \in queue' : f.class = c) <=> (\E f \in queue : f.class = c))
  BY <1>1, <1>5
<1>7. Queued("UpdateVCountFlag") /\ ~Queued("UpdateVCountFlag")'
  <2>1. \A f \in queue : f.class = "UpdateVCountFlag" => f = e  BY <1>2, Unique, Zenon
  <2> QED  BY <1>1, <1>2, <1>5, <2>1 DEF Queued
<1>8. Begun' = Begun  BY <1>1, <1>2, <1>3, <1>5 DEF Begun
<1>9. Chained'  BY <1>4, <1>6, <1>8 DEF Chained, Inv
<1>10. AllOnTime'
  <2>1. \A f \in new : OnTime(f, flags.hblank, Dot, Begun)  BY <1>5 DEF OnTime
  <2> QED  BY <1>1, <1>3, <1>4, <1>8, <2>1, Zenon DEF AllOnTime, Inv
<1>11. Start'
  BY <1>1, <1>3, <1>4, <1>6 DEF Start, Starting, Inv, Queued
<1>12. FlagsMatch'
  <2>1. VCOUNT' = enable'.setting <=> flags'.vcount = TRUE
    BY <1>1, <1>4, Zenon DEF matches
  <2>2. (flags.vblank = TRUE <=> VCOUNT \in Height .. Last - 1)  BY Zenon DEF Inv, FlagsMatch
  <2> QED  BY <1>1, <1>4, <1>7, <2>1, <2>2, Zenon DEF FlagsMatch
<1>13. OccasionsCounted'
  <2>1. Queued("VideoDMA")' <=> Queued("VideoDMA")  BY <1>6 DEF Queued
  <2> QED  BY <1>1, <1>4, <2>1, Zenon DEF OccasionsCounted, Inv, One
<1>14. InterruptsCounted'
  <2> SUFFICES ASSUME steady = TRUE PROVE InterruptsCounted'
    BY <1>1, Zenon DEF InterruptsCounted
  <2>1. Queued("HBlankIRQ")' <=> Queued("HBlankIRQ")  BY <1>6 DEF Queued
  <2>2. Queued("VBlankIRQ")' <=> Queued("VBlankIRQ")  BY <1>6 DEF Queued
  <2>3. announced["VCountIRQ"] \in Int /\ announced["VCountIRQ"] >= 0
    BY Lengths DEF Inv, TypeOK, Occasion, Interrupt
  <2> DEFINE q == Queued("VCountIRQ")
             m == enable.vcount = TRUE /\ enable.setting = VCOUNT
             n == announced["VCountIRQ"]
             all == One(enable.vcount = TRUE /\ enable.setting <= VCOUNT)
  <2>4. n + One(q) + One(m) = all
    BY <1>7, Zenon DEF InterruptsCounted, Inv, One
  <2>5. all \in {0, 1}  BY DEF One
  <2>6. m => (\E f \in new : TRUE)
    <3>1. ASSUME m PROVE flags.vcount = FALSE
      <4>1. flags.vcount = TRUE <=> enable.setting = IF VCOUNT = 0 THEN Last ELSE VCOUNT - 1
        BY <1>7, Zenon DEF FlagsMatch, Inv
      <4>2. enable.setting # IF VCOUNT = 0 THEN Last ELSE VCOUNT - 1
        BY <3>1, BeamFacts, Lengths
      <4>3. flags.vcount \in BOOLEAN  BY <1>4
      <4> QED  BY <4>1, <4>2, <4>3, Zenon
    <3> QED  BY <1>5, <3>1 DEF matches
  <2>7. (\E f \in new : TRUE) => m  BY <1>5 DEF matches
  <2>8. Queued("VCountIRQ")' <=> q \/ m
    BY <1>1, <1>2, <1>5, <2>6, <2>7 DEF Queued
  <2> HIDE DEF q, m, n, all
  <2>9. ~(q /\ m)  BY <2>3, <2>4, <2>5 DEF One, n
  <2>10. n + One(Queued("VCountIRQ")') = all
    BY <2>3, <2>4, <2>8, <2>9 DEF One, n
  <2>11. \A f, g \in queue' : f.class = "VCountIRQ" /\ g.class = "VCountIRQ" => f = g
    <3>1. \A f, g \in queue : f.class = "VCountIRQ" /\ g.class = "VCountIRQ" => f = g
      BY Zenon DEF InterruptsCounted, Inv
    <3>2. \A f \in new, g \in queue : g.class # "VCountIRQ"
      BY <2>7, <2>9 DEF q, Queued
    <3> QED  BY <1>1, <1>5, <3>1, <3>2, Zenon
  <2>12. /\ announced'["VCountIRQ"] + One(Queued("VCountIRQ")')
              + One(Queued("UpdateVCountFlag")' /\ enable'.vcount = TRUE /\ enable'.setting = VCOUNT')
            = One(enable'.vcount = TRUE /\ enable'.setting <= VCOUNT')
    <3>1. One(Queued("UpdateVCountFlag")' /\ enable'.vcount = TRUE /\ enable'.setting = VCOUNT') = 0
      BY <1>7, Zenon DEF One
    <3>2. n + One(Queued("VCountIRQ")') \in Int  BY <2>3 DEF n, One
    <3>3. n + One(Queued("VCountIRQ")') + 0 = all  BY <2>10, <3>2
    <3> QED  BY <1>1, <3>1, <3>3, Zenon DEF n, all
  <2> QED  BY <1>1, <1>4, <2>1, <2>2, <2>11, <2>12, Zenon DEF InterruptsCounted, Inv, One
<1>15. SpritesInTime'  BY <1>1, <1>8, Zenon DEF SpritesInTime, Inv
<1>16. LatchesInTime'
  <2>1. Queued("LatchDISPCNT")' <=> Queued("LatchDISPCNT")  BY <1>6 DEF Queued
  <2> QED  BY <1>1, <2>1, Zenon DEF LatchesInTime, Inv, Before
<1>17. TypeOK'
  <2>1. queue' \subseteq [class : Class, due : 0 .. LineLength, pri : {0, 1}]
    BY <1>1, <1>5 DEF Inv, TypeOK
  <2> QED  BY <1>1, <1>4, <2>1 DEF Inv, TypeOK
<1> QED  BY <1>3, <1>9, <1>10, <1>11, <1>12, <1>13, <1>14, <1>15, <1>16, <1>17, Zenon DEF Inv

\* The set of an event that is added on a condition
LEMMA IfFacts ==
  ASSUME NEW c, NEW e
  PROVE  /\ \A f \in If(c, e) : f = e
         /\ (\E f \in If(c, e) : TRUE) <=> c
         /\ \A k : (\E f \in If(c, e) : f.class = k) <=> (c /\ e.class = k)
<1>1. CASE c
  <2>1. If(c, e) = {e}  BY <1>1, Zenon DEF If
  <2> QED  BY <1>1, <2>1, Zenon
<1>2. CASE ~c
  <2>1. If(c, e) = {}  BY <1>2, Zenon DEF If
  <2> QED  BY <1>2, <2>1, Zenon
<1> QED  BY <1>1, <1>2

\* The horizontal blank begins.
LEMMA HBlankInv ==
  ASSUME Inv, NEW e \in Frontier(DueNow(queue)), e.class = "HBlank",
         OnHBlankStart(queue \ {e})
  PROVE  Inv'
<1> DEFINE i == Event("HBlankIRQ", 1)
           h == Event("HDraw", HBlank)
           new == If(enable.hblank, i)
<1>1. /\ queue' = ((queue \ {e}) \cup new) \cup {h}
      /\ flags' = [flags EXCEPT !.hblank = TRUE]
      /\ announced' = IF VCOUNT < Height THEN Count("hblank") ELSE announced
      /\ latch' = latch /\ VCOUNT' = VCOUNT /\ enable' = enable
      /\ sprite' = sprite /\ dma3' = dma3 /\ running' = running /\ beam' = beam
      /\ steady' = steady
  BY DEF OnHBlankStart, HBlankIRQ
<1>2. e \in queue /\ OnTime(e, flags.hblank, Dot, Begun) /\ e.due = 0
  BY Firing
<1>3. flags.hblank = FALSE /\ Dot = HDraw
  BY <1>2, BeamFacts, Lengths DEF OnTime
<1>4. Dot' = Dot /\ BeamInLine'  BY <1>1, SameDot DEF Inv
<1>5. /\ flags \in [vblank : BOOLEAN, hblank : BOOLEAN, vcount : BOOLEAN]
      /\ flags' \in [vblank : BOOLEAN, hblank : BOOLEAN, vcount : BOOLEAN]
      /\ flags'.vblank = flags.vblank /\ flags'.hblank = TRUE
      /\ flags'.vcount = flags.vcount
  <2>1. flags \in [vblank : BOOLEAN, hblank : BOOLEAN, vcount : BOOLEAN]  BY DEF Inv, TypeOK
  <2> QED  BY <1>1, <2>1
<1>6. /\ i.class = "HBlankIRQ" /\ i.due = 1 /\ i.pri = 0
      /\ i \in [class : Class, due : 0 .. LineLength, pri : {0, 1}]
      /\ h.class = "HDraw" /\ h.due = HBlank /\ h.pri = 0
      /\ h \in [class : Class, due : 0 .. LineLength, pri : {0, 1}]
  <2>1. "HBlankIRQ" \in Class /\ "HDraw" \in Class  BY DEF Class
  <2>2. 1 \in Int /\ 0 <= 1 /\ 1 <= LineLength /\ HBlank \in Int /\ 0 <= HBlank /\ HBlank <= LineLength
    BY Lengths
  <2> QED  BY <2>1, <2>2, EventFits
<1> HIDE DEF i, h
<1>7. \A f \in new : f = i  BY IfFacts, Zenon
<1>8. (\E f \in new : TRUE) <=> enable.hblank = TRUE
  <2>1. enable.hblank \in BOOLEAN  BY DEF Inv, TypeOK
  <2>2. (\E f \in new : TRUE) <=> enable.hblank  BY IfFacts, Zenon
  <2> HIDE DEF new
  <2> QED  BY <2>1, <2>2, Zenon
<1> HIDE DEF new
<1>9. ASSUME NEW f \in queue \ {e} PROVE f.class \in {"BeginSpriteFetch", "VCountIRQ"}
  <2>1. f.class \in Class /\ f.due \in Int /\ 0 <= f.due /\ OnTime(f, FALSE, HDraw, Begun)
    BY <1>3, EventFacts
  <2>2. f.class # "HBlank"  BY <1>2, Unique, Zenon
  <2> QED  BY <2>1, <2>2, Lengths DEF OnTime, Class
<1>10. Begun
  <2>1. PICK s \in queue : s.class = "BeginSpriteFetch"  BY DEF Inv, Chained
  <2>2. s.due \in Int /\ 0 <= s.due /\ OnTime(s, FALSE, HDraw, Begun)
    BY <1>3, EventFacts
  <2> QED  BY <2>1, <2>2, Lengths DEF OnTime
<1>11. Begun' = Begun
  <2>1. PICK s \in queue : s.class = "BeginSpriteFetch" /\ s.due = LatchDelay + LineLength - Dot
    BY <1>10, Zenon DEF Begun
  <2>2. s \in queue'  BY <1>1, <1>2, <2>1
  <2>3. Begun'  BY <1>4, <2>1, <2>2 DEF Begun
  <2>4. Begun \in BOOLEAN /\ Begun' \in BOOLEAN  BY Zenon DEF Begun
  <2> QED  BY <1>10, <2>3, <2>4, Zenon
<1>12. \A c : (\E f \in queue' : f.class = c) <=>
                \/ c = "HDraw"
                \/ c = "HBlankIRQ" /\ enable.hblank = TRUE
                \/ c \in {"BeginSpriteFetch", "VCountIRQ"} /\ \E f \in queue : f.class = c
  BY <1>1, <1>2, <1>6, <1>7, <1>8, <1>9, Zenon
<1>13. \A c : c \notin {"HBlank", "BeginSpriteFetch", "VCountIRQ"} => ~\E f \in queue : f.class = c
  BY <1>2, <1>9, Zenon
<1>14. Chained'
  <2>1. \E f \in queue : f.class = "BeginSpriteFetch"  BY DEF Inv, Chained
  <2> QED  BY <1>5, <1>10, <1>11, <1>12, <2>1 DEF Chained
<1>15. AllOnTime'
  <2>1. OnTime(i, TRUE, HDraw, Begun) /\ OnTime(h, TRUE, HDraw, Begun)
    BY <1>6, Lengths DEF OnTime
  <2>2. ASSUME NEW f \in queue \ {e} PROVE OnTime(f, TRUE, HDraw, Begun)
    <3>1. OnTime(f, FALSE, HDraw, Begun)  BY <1>3, EventFacts
    <3> QED  BY <1>9, <3>1 DEF OnTime
  <2>3. \A f \in queue' : OnTime(f, TRUE, HDraw, Begun)  BY <1>1, <1>7, <2>1, <2>2, Zenon
  <2> QED  BY <1>3, <1>4, <1>5, <1>11, <2>3, Zenon DEF AllOnTime
<1>16. Start'
  <2>1. latch[2] # None
    <3>1. ~Queued("LatchDISPCNT")  BY <1>13 DEF Queued
    <3> QED  BY <1>3, <3>1 DEF Inv, Start
  <2> QED  BY <1>1, <1>3, <1>4, <2>1, Lengths DEF Start
<1>17. FlagsMatch'
  <2>1. ~Queued("UpdateVCountFlag") /\ ~Queued("UpdateVCountFlag")'
    BY <1>12, <1>13 DEF Queued
  <2> QED  BY <1>1, <1>5, <2>1, Zenon DEF Inv, FlagsMatch
<1>18. /\ announced \in [Occasion -> 0 .. Last + 1]
       /\ announced' \in [Occasion -> 0 .. Last + 1]
       /\ announced'["hblank"] = IF VCOUNT < Height THEN announced["hblank"] + 1 ELSE announced["hblank"]
       /\ \A o \in Occasion \ {"hblank"} : announced'[o] = announced[o]
  <2>1. announced \in [Occasion -> 0 .. Last + 1] /\ "hblank" \in Occasion /\ "hblank" \notin Interrupt
    BY DEF Inv, TypeOK, Occasion, Interrupt
  <2>2. announced["hblank"] = IF VCOUNT < Height THEN VCOUNT + 0 ELSE Height
    BY <1>3 DEF Inv, OccasionsCounted, One
  <2>3. CASE VCOUNT < Height
    <3>1. announced' = [announced EXCEPT !["hblank"] = announced["hblank"] + 1]
      BY <1>1, <2>1, <2>3, Zenon DEF Count
    <3>2. announced["hblank"] + 1 \in 0 .. Last + 1
      BY <2>2, <2>3, BeamFacts, Lengths
    <3> QED  BY <2>1, <2>3, <3>1, <3>2
  <2>4. CASE ~(VCOUNT < Height)  BY <1>1, <2>1, <2>4
  <2> QED  BY <2>3, <2>4
<1>19. OccasionsCounted'
  <2>1. ~Queued("VideoDMA") /\ ~Queued("VideoDMA")'  BY <1>12, <1>13 DEF Queued
  <2>2. announced'["vblank"] = announced["vblank"] /\ announced'["video"] = announced["video"]
    BY <1>18 DEF Occasion
  <2>3. announced'["hblank"] = IF VCOUNT < Height THEN VCOUNT + 1 ELSE Height
    <3>1. announced["hblank"] = IF VCOUNT < Height THEN VCOUNT + 0 ELSE Height
      BY <1>3 DEF Inv, OccasionsCounted, One
    <3> QED  BY <1>18, <3>1, BeamFacts
  <2> QED  BY <1>1, <1>5, <2>1, <2>2, <2>3 DEF Inv, OccasionsCounted, One
<1>20. InterruptsCounted'
  <2> SUFFICES ASSUME steady = TRUE PROVE InterruptsCounted'
    BY <1>1, Zenon DEF InterruptsCounted
  <2>1. /\ announced'["HBlankIRQ"] = announced["HBlankIRQ"]
        /\ announced'["VBlankIRQ"] = announced["VBlankIRQ"]
        /\ announced'["VCountIRQ"] = announced["VCountIRQ"]
        /\ announced["HBlankIRQ"] \in Int
    BY <1>18, Lengths DEF Occasion, Interrupt
  <2>2. /\ ~Queued("HBlankIRQ") /\ (Queued("HBlankIRQ")' <=> enable.hblank = TRUE)
        /\ ~Queued("VBlankIRQ") /\ ~Queued("VBlankIRQ")'
        /\ ~Queued("UpdateVCountFlag") /\ ~Queued("UpdateVCountFlag")'
        /\ Queued("VCountIRQ")' <=> Queued("VCountIRQ")
    BY <1>12, <1>13 DEF Queued
  <2>3. announced'["HBlankIRQ"] + One(Queued("HBlankIRQ")') =
          IF enable'.hblank = TRUE THEN VCOUNT' + One(flags'.hblank = TRUE) ELSE 0
    <3>1. announced["HBlankIRQ"] + 0 = IF enable.hblank = TRUE THEN VCOUNT + 0 ELSE 0
      BY <1>3, <2>2 DEF Inv, InterruptsCounted, One
    <3> QED  BY <1>1, <1>5, <2>1, <2>2, <3>1, BeamFacts DEF One
  <2>4. \A f, g \in queue' : f.class = "VCountIRQ" /\ g.class = "VCountIRQ" => f = g
    <3>1. \A f \in queue' : f.class = "VCountIRQ" => f \in queue
      BY <1>1, <1>6, <1>7
    <3> QED  BY <3>1, Zenon DEF Inv, InterruptsCounted
  <2> QED  BY <1>1, <2>1, <2>2, <2>3, <2>4, Zenon DEF Inv, InterruptsCounted, One
<1>21. SpritesInTime'  BY <1>1, <1>11, Zenon DEF Inv, SpritesInTime
<1>22. LatchesInTime'
  <2>1. ~Queued("LatchDISPCNT") /\ ~Queued("LatchDISPCNT")'  BY <1>12, <1>13 DEF Queued
  <2> QED  BY <1>1, <2>1, Zenon DEF Inv, LatchesInTime, Before
<1>23. TypeOK'
  <2>1. queue' \subseteq [class : Class, due : 0 .. LineLength, pri : {0, 1}]
    BY <1>1, <1>6, <1>7 DEF Inv, TypeOK
  <2> QED  BY <1>1, <1>5, <1>18, <2>1 DEF Inv, TypeOK
<1> QED  BY <1>4, <1>14, <1>15, <1>16, <1>17, <1>19, <1>20, <1>21, <1>22, <1>23, Zenon DEF Inv

\* The line ends.
LEMMA LineEndInv ==
  ASSUME Inv, NEW e \in Frontier(DueNow(queue)), e.class = "HDraw",
         OnLineEnd(queue \ {e})
  PROVE  Inv'
<1> DEFINE q == queue \ {e}
           update == Event("UpdateVCountFlag", 1)
           hblank == Event("HBlank", HDraw)
           latching == Event("LatchDISPCNT", LatchDelay)
           video == Event("VideoDMA", VideoDelay)
           irq == Event("VBlankIRQ", 1)
           latches == If(LatchesDISPCNT, latching)
           videos == If(running' /\ VideoLine(VCOUNT'), video)
           irqs == If(enable.vblank /\ VCOUNT' = Height, irq)
           vblank == (flags.vblank \/ VCOUNT' = Height) /\ VCOUNT' # Last
           quiet == \A f \in q : f.class # "VCountIRQ"
<1>1. /\ queue' = q \cup {update, hblank} \cup latches \cup videos \cup irqs
      /\ VCOUNT' = NextLine
      /\ running' = TakeUp
      /\ dma3' = (dma3 /\ ~(running' /\ VCOUNT' = VideoEnd))
      /\ flags' = [flags EXCEPT !.hblank = FALSE, !.vblank = vblank]
      /\ announced' = IF VCOUNT' = 0 THEN [o \in Occasion |-> 0]
                      ELSE IF VCOUNT' = Height THEN Count("vblank") ELSE announced
      /\ steady' = IF VCOUNT' = 0 THEN quiet ELSE steady
      /\ latch' = latch /\ enable' = enable /\ sprite' = sprite /\ beam' = beam
  BY DEF OnLineEnd
<1>2. e \in queue /\ OnTime(e, flags.hblank, Dot, Begun) /\ e.due = 0
  BY Firing
<1>3. flags.hblank = TRUE /\ Dot = LineLength
  BY <1>2, BeamFacts, Lengths DEF OnTime
<1>4. beam.line = NextLine /\ beam.dot = 0  BY <1>3, BeamFacts
<1>5. Dot' = 0 /\ BeamInLine'  BY <1>1, <1>4 DEF Dot, BeamInLine
<1>6. /\ VCOUNT' \in Int /\ 0 <= VCOUNT' /\ VCOUNT' <= Last /\ VCOUNT' \in Line
      /\ VCOUNT' = IF VCOUNT = Last THEN 0 ELSE VCOUNT + 1
  BY <1>1, BeamFacts, Lengths DEF NextLine
<1>7. /\ flags \in [vblank : BOOLEAN, hblank : BOOLEAN, vcount : BOOLEAN]
      /\ flags' \in [vblank : BOOLEAN, hblank : BOOLEAN, vcount : BOOLEAN]
      /\ flags'.hblank = FALSE /\ flags'.vcount = flags.vcount /\ flags'.vblank = vblank
  <2>1. flags \in [vblank : BOOLEAN, hblank : BOOLEAN, vcount : BOOLEAN]  BY DEF Inv, TypeOK
  <2>2. vblank \in BOOLEAN  BY Zenon
  <2> HIDE DEF vblank
  <2> QED  BY <1>1, <2>1, <2>2
<1>8. /\ running \in BOOLEAN /\ running' \in BOOLEAN /\ dma3' \in BOOLEAN /\ steady' \in BOOLEAN
      /\ VCOUNT # VideoEnd => running' = running
  <2>1. running \in BOOLEAN /\ dma3 \in BOOLEAN /\ steady \in BOOLEAN  BY DEF Inv, TypeOK
  <2>2. running' = running \/ running' = dma3  BY <1>1 DEF TakeUp
  <2>3. dma3' \in BOOLEAN
    <3>1. (dma3 /\ ~(running' /\ VCOUNT' = VideoEnd)) \in BOOLEAN  BY Zenon
    <3> QED  BY <1>1, <3>1, Zenon
  <2>4. quiet \in BOOLEAN  BY Zenon
  <2>5. steady' \in BOOLEAN  BY <1>1, <2>1, <2>4, Zenon
  <2>6. VCOUNT # VideoEnd => running' = running  BY <1>1, Zenon DEF TakeUp
  <2> QED  BY <2>1, <2>2, <2>3, <2>5, <2>6, Zenon
<1>9. ASSUME NEW f \in {update, hblank, latching, video, irq}
      PROVE  /\ f \in [class : Class, due : 0 .. LineLength, pri : {0, 1}]
             /\ f.pri = 0
             /\ f = update => f.class = "UpdateVCountFlag" /\ f.due = 1
             /\ f = hblank => f.class = "HBlank" /\ f.due = HDraw
             /\ f = latching => f.class = "LatchDISPCNT" /\ f.due = LatchDelay
             /\ f = video => f.class = "VideoDMA" /\ f.due = VideoDelay
             /\ f = irq => f.class = "VBlankIRQ" /\ f.due = 1
  <2>1. {"UpdateVCountFlag", "HBlank", "LatchDISPCNT", "VideoDMA", "VBlankIRQ"} \subseteq Class
    BY DEF Class
  <2>2. /\ 1 \in Int /\ 0 <= 1 /\ 1 <= LineLength
        /\ HDraw \in Int /\ 0 <= HDraw /\ HDraw <= LineLength
        /\ LatchDelay \in Int /\ 0 <= LatchDelay /\ LatchDelay <= LineLength
        /\ VideoDelay \in Int /\ 0 <= VideoDelay /\ VideoDelay <= LineLength
    BY Lengths
  <2> QED  BY <2>1, <2>2, EventFits
<1> HIDE DEF update, hblank, latching, video, irq
<1>10. /\ \A f \in latches : f = latching
       /\ \A f \in videos : f = video
       /\ \A f \in irqs : f = irq
  BY IfFacts, Zenon
<1>11. /\ (\E f \in latches : TRUE) <=> LatchesDISPCNT
       /\ (\E f \in videos : TRUE) <=> running' = TRUE /\ VideoLine(VCOUNT')
       /\ (\E f \in irqs : TRUE) <=> enable.vblank = TRUE /\ VCOUNT' = Height
  <2>1. enable.vblank \in BOOLEAN  BY DEF Inv, TypeOK
  <2>2. (\E f \in latches : TRUE) <=> LatchesDISPCNT  BY IfFacts, Zenon
  <2>3. (\E f \in irqs : TRUE) <=> enable.vblank /\ VCOUNT' = Height  BY IfFacts, Zenon
  <2>4. (\E f \in videos : TRUE) <=> running' /\ VideoLine(VCOUNT')
    <3>1. PICK b \in BOOLEAN : b <=> running' /\ VideoLine(VCOUNT')  BY Zenon
    <3>2. videos = If(b, video)  BY <3>1, Zenon DEF If
    <3>3. (\E f \in If(b, video) : TRUE) <=> b  BY IfFacts, Zenon
    <3> QED  BY <3>1, <3>2, <3>3, Zenon
  <2> HIDE DEF latches, videos, irqs
  <2> QED  BY <1>8, <2>1, <2>2, <2>3, <2>4, Zenon
<1> HIDE DEF latches, videos, irqs
<1>12. ASSUME NEW f \in q PROVE f.class \in {"BeginSpriteFetch", "VCountIRQ"}
  <2>1. f.class \in Class /\ f.due \in Int /\ 0 <= f.due /\ OnTime(f, TRUE, LineLength, Begun)
    BY <1>3, EventFacts
  <2>2. f.class # "HDraw"  BY <1>2, Unique, Zenon
  <2> QED  BY <2>1, <2>2, Lengths DEF OnTime, Class
<1>13. Begun  BY <1>3 DEF Inv, Chained
<1>14. ASSUME NEW f \in q, f.class = "BeginSpriteFetch" PROVE f.due = LatchDelay
  <2>1. OnTime(f, TRUE, LineLength, Begun) /\ f.due \in Int  BY <1>3, EventFacts
  <2> QED  BY <1>13, <1>14, <2>1, Lengths DEF OnTime
<1>15. Begun' = FALSE
  <2>1. ASSUME NEW f \in queue', f.class = "BeginSpriteFetch" PROVE f.due = LatchDelay
    <3>1. f \in q  BY <1>1, <1>9, <1>10, <2>1
    <3> QED  BY <1>14, <2>1, <3>1
  <2>2. LatchDelay # LatchDelay + LineLength - 0  BY Lengths
  <2>3. ~Begun'  BY <1>5, <2>1, <2>2 DEF Begun
  <2>4. Begun' \in BOOLEAN  BY Zenon DEF Begun
  <2> QED  BY <2>3, <2>4, Zenon
<1>16. \A c : (\E f \in queue' : f.class = c) <=>
                \/ c \in {"UpdateVCountFlag", "HBlank"}
                \/ c = "LatchDISPCNT" /\ LatchesDISPCNT
                \/ c = "VideoDMA" /\ running' = TRUE /\ VideoLine(VCOUNT')
                \/ c = "VBlankIRQ" /\ enable.vblank = TRUE /\ VCOUNT' = Height
                \/ c \in {"BeginSpriteFetch", "VCountIRQ"} /\ \E f \in queue : f.class = c
  <2>1. \A c : (\E f \in q : f.class = c) <=>
                 c \in {"BeginSpriteFetch", "VCountIRQ"} /\ \E f \in queue : f.class = c
    BY <1>2, <1>12, Zenon
  <2>2. \A c : (\E f \in latches : f.class = c) <=> c = "LatchDISPCNT" /\ LatchesDISPCNT
    BY <1>9, <1>10, <1>11, Zenon
  <2>3. \A c : (\E f \in videos : f.class = c) <=> c = "VideoDMA" /\ running' = TRUE /\ VideoLine(VCOUNT')
    BY <1>9, <1>10, <1>11, Zenon
  <2>4. \A c : (\E f \in irqs : f.class = c) <=> c = "VBlankIRQ" /\ enable.vblank = TRUE /\ VCOUNT' = Height
    BY <1>9, <1>10, <1>11, Zenon
  <2>5. \A c : (\E f \in {update, hblank} : f.class = c) <=> c \in {"UpdateVCountFlag", "HBlank"}
    BY <1>9, Zenon
  <2>6. \A c : (\E f \in queue' : f.class = c) <=>
                 \/ \E f \in q : f.class = c
                 \/ \E f \in {update, hblank} : f.class = c
                 \/ \E f \in latches : f.class = c
                 \/ \E f \in videos : f.class = c
                 \/ \E f \in irqs : f.class = c
    BY <1>1, Zenon
  <2> QED  BY <2>1, <2>2, <2>3, <2>4, <2>5, <2>6, Zenon
<1>17. \A c : c \notin {"HDraw", "BeginSpriteFetch", "VCountIRQ"} => ~\E f \in queue : f.class = c
  BY <1>2, <1>12, Zenon
<1> HIDE DEF q
<1>18. Chained'
  <2>1. \E f \in queue : f.class = "BeginSpriteFetch"  BY DEF Inv, Chained
  <2> QED  BY <1>7, <1>16, <2>1 DEF Chained
<1>19. AllOnTime'
  <2>1. ASSUME NEW f \in {update, hblank, latching, video, irq} PROVE OnTime(f, FALSE, 0, FALSE)
    BY <1>9, Lengths DEF OnTime
  <2>2. ASSUME NEW f \in q PROVE OnTime(f, FALSE, 0, FALSE)
    <3>1. OnTime(f, TRUE, LineLength, Begun)  BY <1>3, EventFacts DEF q
    <3> QED  BY <1>12, <1>14, <3>1, Lengths DEF OnTime
  <2>3. \A f \in queue' : OnTime(f, FALSE, 0, FALSE)  BY <1>1, <1>10, <2>1, <2>2, Zenon
  <2> QED  BY <1>5, <1>7, <1>15, <2>3, Zenon DEF AllOnTime
<1>20. LatchesDISPCNT <=> VCOUNT' \in 1 .. Height \/ VCOUNT' > LatchFrom \/ VCOUNT' = 0
  BY <1>6, BeamFacts, Lengths DEF LatchesDISPCNT
<1>21. Start'
  <2>1. ~Queued("LatchDISPCNT")  BY <1>17 DEF Queued
  <2>2. ASSUME latch[2] = None PROVE VCOUNT' = Last - 1 /\ Queued("LatchDISPCNT")'
    <3>1. VCOUNT = Last - 2  BY <2>1, <2>2 DEF Inv, Start
    <3>2. VCOUNT' = Last - 1  BY <1>6, <3>1, Lengths
    <3>3. LatchesDISPCNT  BY <1>20, <3>2, Lengths
    <3> QED  BY <1>16, <3>2, <3>3 DEF Queued
  <2> QED  BY <1>1, <1>7, <2>2 DEF Start
<1>22. FlagsMatch'
  <2>1. ~Queued("UpdateVCountFlag") /\ Queued("UpdateVCountFlag")'
    BY <1>16, <1>17 DEF Queued
  <2>2. flags'.vcount = TRUE <=> enable'.setting = IF VCOUNT' = 0 THEN Last ELSE VCOUNT' - 1
    <3>1. flags.vcount = TRUE <=> VCOUNT = enable.setting
      BY <2>1, Zenon DEF Inv, FlagsMatch
    <3>2. VCOUNT = IF VCOUNT' = 0 THEN Last ELSE VCOUNT' - 1  BY <1>6, BeamFacts
    <3> QED  BY <1>1, <1>7, <3>1, <3>2, Zenon
  <2>3. flags'.vblank = TRUE <=> VCOUNT' \in Height .. Last - 1
    <3>1. flags.vblank <=> VCOUNT \in Height .. Last - 1
      <4>1. flags.vblank \in BOOLEAN  BY <1>7
      <4> QED  BY <4>1, Zenon DEF Inv, FlagsMatch
    <3>2. VCOUNT' \in Height .. Last - 1 <=>
            (VCOUNT \in Height .. Last - 1 \/ VCOUNT' = Height) /\ VCOUNT' # Last
      BY <1>6, BeamFacts, Lengths
    <3>3. vblank <=> VCOUNT' \in Height .. Last - 1  BY <3>1, <3>2, Zenon
    <3> HIDE DEF vblank
    <3>4. vblank \in BOOLEAN  BY Zenon DEF vblank
    <3> QED  BY <1>7, <3>3, <3>4, Zenon
  <2> QED  BY <2>1, <2>2, <2>3, Zenon DEF FlagsMatch
<1> HIDE DEF vblank
<1>23. /\ announced \in [Occasion -> 0 .. Last + 1]
       /\ announced' \in [Occasion -> 0 .. Last + 1]
       /\ \A o \in Occasion : announced'[o] = IF VCOUNT' = 0 THEN 0
                                              ELSE IF VCOUNT' = Height /\ o = "vblank" THEN announced[o] + 1
                                              ELSE announced[o]
  <2>1. announced \in [Occasion -> 0 .. Last + 1] /\ "vblank" \in Occasion /\ "vblank" \notin Interrupt
    BY DEF Inv, TypeOK, Occasion, Interrupt
  <2>2. CASE VCOUNT' = 0  BY <1>1, <2>1, <2>2, Lengths
  <2>3. CASE VCOUNT' # 0 /\ VCOUNT' = Height
    <3>1. announced' = [announced EXCEPT !["vblank"] = announced["vblank"] + 1]
      BY <1>1, <2>1, <2>3, Zenon DEF Count
    <3>2. announced["vblank"] = 0
      <4>1. ~(VCOUNT >= Height)  BY <1>6, <2>3, BeamFacts, Lengths
      <4> QED  BY <4>1 DEF Inv, OccasionsCounted, One
    <3>3. announced["vblank"] + 1 \in 0 .. Last + 1  BY <3>2, Lengths
    <3> QED  BY <2>1, <2>3, <3>1, <3>3
  <2>4. CASE VCOUNT' # 0 /\ VCOUNT' # Height  BY <1>1, <2>1, <2>4
  <2> QED  BY <2>2, <2>3, <2>4
<1>24. {"hblank", "vblank", "video", "HBlankIRQ", "VBlankIRQ", "VCountIRQ"} \subseteq Occasion
  BY DEF Occasion, Interrupt
<1>25. OccasionsCounted'
  <2>1. announced'["hblank"] = IF VCOUNT' < Height THEN VCOUNT' + One(flags'.hblank = TRUE) ELSE Height
    <3>1. announced["hblank"] = IF VCOUNT < Height THEN VCOUNT + 1 ELSE Height
      BY <1>3 DEF Inv, OccasionsCounted, One
    <3>2. announced'["hblank"] = IF VCOUNT' = 0 THEN 0 ELSE announced["hblank"]
      BY <1>23, <1>24
    <3>3. One(flags'.hblank = TRUE) = 0  BY <1>7 DEF One
    <3> QED  BY <1>6, <3>1, <3>2, <3>3, BeamFacts, Lengths
  <2>2. announced'["vblank"] = One(VCOUNT' >= Height)
    <3>1. announced["vblank"] = One(VCOUNT >= Height)  BY DEF Inv, OccasionsCounted
    <3>2. announced'["vblank"] = IF VCOUNT' = 0 THEN 0
                                 ELSE IF VCOUNT' = Height THEN announced["vblank"] + 1 ELSE announced["vblank"]
      BY <1>23, <1>24
    <3> QED  BY <1>6, <3>1, <3>2, BeamFacts, Lengths DEF One
  <2>3. ~Queued("VideoDMA") /\ (Queued("VideoDMA")' <=> running' = TRUE /\ VideoLine(VCOUNT'))
    BY <1>16, <1>17 DEF Queued
  <2>4. ASSUME VCOUNT' <= VideoEnd
        PROVE  announced'["video"] + One(Queued("VideoDMA")') =
                 IF running' = TRUE THEN VideoLines(VCOUNT') ELSE 0
    <3>1. announced'["video"] = IF VCOUNT' = 0 THEN 0 ELSE announced["video"]
      BY <1>23, <1>24
    <3>2. announced["video"] \in Int  BY <1>23, <1>24, Lengths
    <3>3. running' = running
      <4>1. VCOUNT # VideoEnd  BY <1>6, <2>4, BeamFacts, Lengths
      <4> QED  BY <1>8, <4>1
    <3>4. VCOUNT' # 0 => announced["video"] + 0 = IF running = TRUE THEN VideoLines(VCOUNT) ELSE 0
      <4>1. VCOUNT' # 0 => VCOUNT <= VideoEnd  BY <1>6, <2>4, BeamFacts, Lengths
      <4> QED  BY <2>3, <4>1 DEF Inv, OccasionsCounted, One
    <3>5. CASE running = TRUE /\ VideoLine(VCOUNT')
      <4>1. One(Queued("VideoDMA")') = 1  BY <2>3, <3>3, <3>5, Zenon DEF One
      <4>2. VCOUNT' # 0 => VideoLines(VCOUNT') = VideoLines(VCOUNT) + 1
        BY <1>6, <3>5, BeamFacts, Lengths DEF VideoLine, VideoLines
      <4>3. VCOUNT' = 0 => VideoLines(VCOUNT') = 1
        BY <3>5, Lengths DEF VideoLine, VideoLines
      <4> QED  BY <3>1, <3>2, <3>3, <3>4, <3>5, <4>1, <4>2, <4>3
    <3>6. CASE running = TRUE /\ ~VideoLine(VCOUNT')
      <4>1. One(Queued("VideoDMA")') = 0  BY <2>3, <3>6, Zenon DEF One
      <4>2. VCOUNT' # 0 => VideoLines(VCOUNT') = VideoLines(VCOUNT)
        BY <1>6, <2>4, <3>6, BeamFacts, Lengths DEF VideoLine, VideoLines
      <4>3. VCOUNT' = 0 => VideoLines(VCOUNT') = 0
        BY <3>6, Lengths DEF VideoLine, VideoLines
      <4> QED  BY <3>1, <3>2, <3>3, <3>4, <3>6, <4>1, <4>2, <4>3
    <3>7. CASE running # TRUE
      <4>1. One(Queued("VideoDMA")') = 0  BY <2>3, <3>3, <3>7, Zenon DEF One
      <4>2. VCOUNT' # 0 => announced["video"] + 0 = 0  BY <3>4, <3>7, Zenon
      <4>3. announced'["video"] = 0  BY <3>1, <3>2, <4>2
      <4>4. announced'["video"] + One(Queued("VideoDMA")') = 0  BY <4>1, <4>3
      <4> QED  BY <3>3, <3>7, <4>4, Zenon
    <3> QED  BY <3>5, <3>6, <3>7
  <2> QED  BY <2>1, <2>2, <2>3, <2>4, Zenon DEF OccasionsCounted, One
<1>26. InterruptsCounted'
  <2> SUFFICES ASSUME steady' = TRUE PROVE InterruptsCounted'
    BY Zenon DEF InterruptsCounted
  <2>1. /\ ~Queued("HBlankIRQ") /\ ~Queued("HBlankIRQ")'
        /\ ~Queued("VBlankIRQ") /\ (Queued("VBlankIRQ")' <=> enable.vblank = TRUE /\ VCOUNT' = Height)
        /\ ~Queued("UpdateVCountFlag") /\ Queued("UpdateVCountFlag")'
        /\ Queued("VCountIRQ")' <=> Queued("VCountIRQ")
    BY <1>16, <1>17 DEF Queued
  <2>2. /\ enable.setting \in Int /\ enable.setting >= 0
        /\ \A o \in Occasion : announced[o] \in Int
    <3>1. Setting \subseteq Nat  BY LinesAssumption
    <3>2. enable.setting \in Setting  BY DEF Inv, TypeOK
    <3>3. enable.setting \in Nat  BY <3>1, <3>2
    <3>4. \A o \in Occasion : announced[o] \in Int  BY <1>23, Lengths
    <3> QED  BY <3>3, <3>4
  <2>3. \A f \in queue' : f.class = "VCountIRQ" => f \in q
    BY <1>1, <1>9, <1>10
  <2>4. CASE VCOUNT' = 0
    <3>1. \A f \in q : f.class # "VCountIRQ"  BY <1>1, <2>4
    <3>2. \A f \in queue' : f.class # "VCountIRQ"  BY <2>3, <3>1
    <3>3. ~Queued("VCountIRQ")'  BY <3>2 DEF Queued
    <3>4. announced'["HBlankIRQ"] = 0 /\ announced'["VBlankIRQ"] = 0 /\ announced'["VCountIRQ"] = 0
      BY <1>23, <1>24, <2>4
    <3>5. VCOUNT' # Height /\ ~(VCOUNT' >= Height)  BY <2>4, Lengths
    <3>6. enable.setting = VCOUNT' <=> enable.setting <= VCOUNT'  BY <2>2, <2>4
    <3>7. /\ announced'["HBlankIRQ"] + One(Queued("HBlankIRQ")') =
               IF enable'.hblank = TRUE THEN VCOUNT' + One(flags'.hblank = TRUE) ELSE 0
          /\ announced'["VBlankIRQ"] + One(Queued("VBlankIRQ")') =
               One(enable'.vblank = TRUE /\ VCOUNT' >= Height)
          /\ announced'["VCountIRQ"] + One(Queued("VCountIRQ")')
               + One(Queued("UpdateVCountFlag")' /\ enable'.vcount = TRUE /\ enable'.setting = VCOUNT') =
               One(enable'.vcount = TRUE /\ enable'.setting <= VCOUNT')
      BY <1>1, <1>7, <2>1, <2>4, <3>3, <3>4, <3>5, <3>6 DEF One
    <3> QED  BY <3>2, <3>7, Zenon DEF InterruptsCounted, One
  <2>5. CASE VCOUNT' # 0
    <3>1. steady = TRUE /\ VCOUNT' = VCOUNT + 1  BY <1>1, <1>6, <2>5
    <3>2. /\ announced'["HBlankIRQ"] = announced["HBlankIRQ"]
          /\ announced'["VBlankIRQ"] = announced["VBlankIRQ"]
          /\ announced'["VCountIRQ"] = announced["VCountIRQ"]
      BY <1>23, <1>24, <2>5
    <3>3. announced'["HBlankIRQ"] + One(Queued("HBlankIRQ")') =
            IF enable'.hblank = TRUE THEN VCOUNT' + One(flags'.hblank = TRUE) ELSE 0
      <4>1. announced["HBlankIRQ"] + 0 = IF enable.hblank = TRUE THEN VCOUNT + 1 ELSE 0
        BY <1>3, <2>1, <3>1 DEF Inv, InterruptsCounted, One
      <4> QED  BY <1>1, <1>7, <2>1, <3>1, <3>2, <4>1, BeamFacts DEF One
    <3>4. announced'["VBlankIRQ"] + One(Queued("VBlankIRQ")') =
            One(enable'.vblank = TRUE /\ VCOUNT' >= Height)
      <4>1. announced["VBlankIRQ"] + 0 = One(enable.vblank = TRUE /\ VCOUNT >= Height)
        BY <2>1, <3>1 DEF Inv, InterruptsCounted, One
      <4>2. announced["VBlankIRQ"] \in Int  BY <1>24, <2>2
      <4> QED  BY <1>1, <2>1, <3>1, <3>2, <4>1, <4>2, BeamFacts, Lengths DEF One
    <3>5. announced'["VCountIRQ"] + One(Queued("VCountIRQ")')
            + One(Queued("UpdateVCountFlag")' /\ enable'.vcount = TRUE /\ enable'.setting = VCOUNT') =
            One(enable'.vcount = TRUE /\ enable'.setting <= VCOUNT')
      <4>1. announced["VCountIRQ"] + One(Queued("VCountIRQ")) + 0 =
              One(enable.vcount = TRUE /\ enable.setting <= VCOUNT)
        BY <2>1, <3>1 DEF Inv, InterruptsCounted, One
      <4>2. announced["VCountIRQ"] \in Int /\ One(Queued("VCountIRQ")) \in Int
        BY <1>24, <2>2 DEF One
      <4>3. One(Queued("VCountIRQ")') = One(Queued("VCountIRQ"))  BY <2>1 DEF One
      <4>4. One(enable.vcount = TRUE /\ enable.setting <= VCOUNT')
              = One(enable.vcount = TRUE /\ enable.setting <= VCOUNT)
                + One(enable.vcount = TRUE /\ enable.setting = VCOUNT')
        BY <2>2, <3>1, BeamFacts DEF One
      <4>5. One(Queued("UpdateVCountFlag")' /\ enable'.vcount = TRUE /\ enable'.setting = VCOUNT') =
              One(enable.vcount = TRUE /\ enable.setting = VCOUNT')
        BY <1>1, <2>1, Zenon DEF One
      <4>6. One(enable.vcount = TRUE /\ enable.setting = VCOUNT') \in Int  BY DEF One
      <4> QED  BY <1>1, <3>2, <4>1, <4>2, <4>3, <4>4, <4>5, <4>6
    <3>6. \A f, g \in queue' : f.class = "VCountIRQ" /\ g.class = "VCountIRQ" => f = g
      <4>1. \A f, g \in queue : f.class = "VCountIRQ" /\ g.class = "VCountIRQ" => f = g
        BY <3>1, Zenon DEF Inv, InterruptsCounted
      <4> QED  BY <2>3, <4>1, Zenon DEF q
    <3> QED  BY <3>3, <3>4, <3>5, <3>6, Zenon DEF InterruptsCounted, One
  <2> QED  BY <2>4, <2>5
<1>27. SpritesInTime'
  <2>1. ASSUME VCOUNT' < Height PROVE sprite.buffer[1 - sprite.rd] = VCOUNT'
    <3>1. VCOUNT = Last \/ VCOUNT < Height - 1  BY <1>6, <2>1, BeamFacts, Lengths
    <3>2. VCOUNT = Last => VCOUNT' = 0  BY <1>6
    <3>3. VCOUNT < Height - 1 => VCOUNT' = VCOUNT + 1 /\ VCOUNT < Height
      BY <1>6, BeamFacts, Lengths
    <3> QED  BY <1>13, <3>1, <3>2, <3>3, Zenon DEF Inv, SpritesInTime
  <2> QED  BY <1>1, <1>15, <2>1, Zenon DEF SpritesInTime
<1>28. LatchesInTime'
  <2>1. ~Queued("LatchDISPCNT") /\ (Queued("LatchDISPCNT")' <=> LatchesDISPCNT)
    BY <1>16, <1>17 DEF Queued
  <2>2. VCOUNT' = Last - 1 => LatchesDISPCNT  BY <1>20, Lengths
  <2>3. ASSUME VCOUNT' = Last \/ VCOUNT' < Height
        PROVE  LatchesDISPCNT /\ latch[2] = Before(VCOUNT', 1)
    <3>1. LatchesDISPCNT  BY <1>6, <1>20, <2>3, Lengths
    <3>2. Before(VCOUNT', 1) = VCOUNT  BY <1>6, BeamFacts, Lengths DEF Before
    <3>3. VCOUNT = Last - 1 \/ VCOUNT = Last \/ VCOUNT < Height
      BY <1>6, <2>3, BeamFacts, Lengths
    <3>4. latch[2] = VCOUNT  BY <2>1, <3>3 DEF Inv, LatchesInTime
    <3> QED  BY <3>1, <3>2, <3>4
  <2>4. ASSUME VCOUNT' < Height
        PROVE  latch[1] = Before(VCOUNT', 2)
    <3>1. VCOUNT = Last \/ VCOUNT < Height  BY <1>6, <2>4, BeamFacts, Lengths
    <3>2. latch[1] = Before(VCOUNT, 1)  BY <2>1, <3>1 DEF Inv, LatchesInTime
    <3>3. Before(VCOUNT', 2) = Before(VCOUNT, 1)  BY <1>6, BeamFacts, Lengths DEF Before
    <3> QED  BY <3>2, <3>3
  <2> QED  BY <1>1, <2>1, <2>2, <2>3, <2>4 DEF LatchesInTime, Before
<1>29. TypeOK'
  <2>1. queue' \subseteq [class : Class, due : 0 .. LineLength, pri : {0, 1}]
    <3>1. q \subseteq [class : Class, due : 0 .. LineLength, pri : {0, 1}]  BY DEF Inv, TypeOK, q
    <3> QED  BY <1>1, <1>9, <1>10, <3>1
  <2> QED  BY <1>1, <1>6, <1>7, <1>8, <1>23, <2>1 DEF Inv, TypeOK
<1> QED  BY <1>5, <1>18, <1>19, <1>21, <1>22, <1>25, <1>26, <1>27, <1>28, <1>29, Zenon DEF Inv

\* The sprites of the next line are begun.
LEMMA SpriteInv ==
  ASSUME Inv, NEW e \in Frontier(DueNow(queue)), e.class = "BeginSpriteFetch",
         BeginSpriteFetch(queue \ {e})
  PROVE  Inv'
<1> DEFINE n == Event("BeginSpriteFetch", LineLength)
           line == (VCOUNT + 1) % (Last + 1)
<1>1. /\ queue' = (queue \ {e}) \cup {n}
      /\ sprite' = IF ~Swaps THEN Flushed
                   ELSE IF VCOUNT = Height - 1 THEN Swapped(Flushed)
                   ELSE InitSprite(Swapped(Flushed))
      /\ announced' = announced /\ latch' = latch
      /\ VCOUNT' = VCOUNT /\ flags' = flags /\ enable' = enable
      /\ dma3' = dma3 /\ running' = running /\ beam' = beam /\ steady' = steady
  BY DEF BeginSpriteFetch
<1>2. e \in queue /\ OnTime(e, flags.hblank, Dot, Begun) /\ e.due = 0
  BY Firing
<1>3. Dot' = Dot /\ BeamInLine'  BY <1>1, SameDot DEF Inv
<1>4. Begun = FALSE /\ Dot = LatchDelay
  <2>1. Begun \in BOOLEAN  BY Zenon DEF Begun
  <2>2. ~Begun
    <3>1. Begun => 0 = LatchDelay + LineLength - Dot  BY <1>2, Zenon DEF OnTime
    <3> QED  BY <3>1, BeamFacts, Lengths
  <2>3. 0 = LatchDelay - Dot  BY <1>2, <2>2, Zenon DEF OnTime
  <2>4. Dot = LatchDelay  BY <2>3, BeamFacts, Lengths
  <2> QED  BY <2>1, <2>2, <2>4, Zenon
<1>5. flags.hblank = FALSE
  <2>1. flags.hblank \in BOOLEAN  BY DEF Inv, TypeOK
  <2>2. flags.hblank # TRUE  BY <1>4 DEF Inv, Chained
  <2> QED  BY <2>1, <2>2, Zenon
<1>6. /\ n.class = "BeginSpriteFetch" /\ n.due = LineLength /\ n.pri = 0
      /\ n \in [class : Class, due : 0 .. LineLength, pri : {0, 1}]
  <2>1. "BeginSpriteFetch" \in Class  BY DEF Class
  <2>2. 0 <= LineLength  BY Lengths
  <2> QED  BY <2>1, <2>2, Lengths, EventFits
<1> HIDE DEF n
<1>7. Begun' = TRUE
  <2>1. n.due = LatchDelay + LineLength - Dot'  BY <1>3, <1>4, <1>6, Lengths
  <2>2. Begun'  BY <1>1, <1>6, <2>1, Zenon DEF Begun
  <2>3. Begun' \in BOOLEAN  BY Zenon DEF Begun
  <2> QED  BY <2>2, <2>3, Zenon
<1>8. \A c : (\E f \in queue' : f.class = c) <=> (\E f \in queue : f.class = c)
  BY <1>1, <1>2, <1>6, Zenon
<1>9. \A f \in queue \ {e} : f.class # "BeginSpriteFetch"  BY <1>2, Unique, Zenon
<1>10. Chained'  BY <1>1, <1>7, <1>8, Zenon DEF Chained, Inv
<1>11. AllOnTime'
  <2>1. OnTime(n, FALSE, LatchDelay, TRUE)  BY <1>6, Lengths DEF OnTime
  <2>2. ASSUME NEW f \in queue \ {e} PROVE OnTime(f, FALSE, LatchDelay, TRUE)
    <3>1. OnTime(f, FALSE, LatchDelay, FALSE)  BY <1>4, <1>5, EventFacts
    <3> QED  BY <1>9, <3>1 DEF OnTime
  <2>3. \A f \in queue' : OnTime(f, FALSE, LatchDelay, TRUE)  BY <1>1, <2>1, <2>2, Zenon
  <2> QED  BY <1>1, <1>3, <1>4, <1>5, <1>7, <2>3, Zenon DEF AllOnTime
<1>12. Start'  BY <1>1, <1>3, <1>8, Zenon DEF Start, Starting, Inv, Queued
<1>13. FlagsMatch'  BY <1>1, <1>8, Zenon DEF FlagsMatch, Inv, Queued
<1>14. OccasionsCounted'  BY <1>1, <1>8, Zenon DEF OccasionsCounted, Inv, Queued, One
<1>15. InterruptsCounted'
  <2>1. ASSUME steady = TRUE, NEW f \in queue', NEW g \in queue',
               f.class = "VCountIRQ", g.class = "VCountIRQ"
        PROVE  f = g
    <3>1. f \in queue /\ g \in queue  BY <1>1, <1>6, <2>1
    <3> QED  BY <2>1, <3>1, Zenon DEF Inv, InterruptsCounted
  <2>2. /\ Queued("HBlankIRQ")' <=> Queued("HBlankIRQ")
        /\ Queued("VBlankIRQ")' <=> Queued("VBlankIRQ")
        /\ Queued("VCountIRQ")' <=> Queued("VCountIRQ")
        /\ Queued("UpdateVCountFlag")' <=> Queued("UpdateVCountFlag")
    BY <1>8 DEF Queued
  <2> QED  BY <1>1, <2>1, <2>2, Zenon DEF InterruptsCounted, Inv, One
<1>16. LatchesInTime'  BY <1>1, <1>8, Zenon DEF LatchesInTime, Inv, Queued, Before
<1>17. /\ sprite \in [buffer : [{0, 1} -> Line \cup {None}], rd : {0, 1}, drawing : BOOLEAN]
       /\ Flushed \in [buffer : [{0, 1} -> Line \cup {None}], rd : {0, 1}, drawing : BOOLEAN]
       /\ Flushed.buffer = sprite.buffer /\ Flushed.rd = sprite.rd
       /\ VCOUNT < Height => Flushed.drawing = FALSE
  BY DEF Inv, TypeOK, Flushed
<1>18. line \in Line /\ (VCOUNT < Last => line = VCOUNT + 1) /\ (VCOUNT = Last => line = 0)
  <2>1. VCOUNT < Last => line = VCOUNT + 1  BY BeamFacts, Lengths
  <2>2. VCOUNT = Last => line = 0  BY BeamFacts, Lengths
  <2> HIDE DEF line
  <2> QED  BY <2>1, <2>2, BeamFacts, Lengths
<1> HIDE DEF line
<1>19. /\ sprite' \in [buffer : [{0, 1} -> Line \cup {None}], rd : {0, 1}, drawing : BOOLEAN]
       /\ Swaps => sprite'.rd = 1 - sprite.rd
       /\ Swaps => sprite'.buffer[1 - sprite.rd] = sprite.buffer[1 - sprite.rd]
       /\ Swaps /\ VCOUNT # Height - 1 => sprite'.buffer[sprite.rd] = line
       /\ VCOUNT = Height - 1 => sprite'.drawing = FALSE
  <2> DEFINE F == Flushed
             S == Swapped(F)
  <2>1. /\ S \in [buffer : [{0, 1} -> Line \cup {None}], rd : {0, 1}, drawing : BOOLEAN]
        /\ S.rd = 1 - sprite.rd /\ S.buffer = sprite.buffer /\ S.drawing = F.drawing
        /\ 1 - S.rd = sprite.rd /\ S.rd \in {0, 1} /\ S.rd # sprite.rd
    <3> HIDE DEF F
    <3>1. F.rd \in {0, 1} /\ 1 - F.rd \in {0, 1} /\ 1 - (1 - F.rd) = F.rd /\ 1 - F.rd # F.rd
      BY <1>17 DEF F
    <3> QED  BY <1>17, <3>1 DEF Swapped, F
  <2> HIDE DEF S
  <2> DEFINE T == InitSprite(S)
             B == [S.buffer EXCEPT ![sprite.rd] = line]
  <2>2. T = [S EXCEPT !.buffer = B, !.drawing = TRUE]
    BY <2>1, Zenon DEF InitSprite, line
  <2>3. /\ T \in [buffer : [{0, 1} -> Line \cup {None}], rd : {0, 1}, drawing : BOOLEAN]
        /\ T.rd = 1 - sprite.rd
        /\ T.buffer[1 - sprite.rd] = sprite.buffer[1 - sprite.rd]
        /\ T.buffer[sprite.rd] = line
    <3>1. sprite.rd \in {0, 1} /\ 1 - sprite.rd \in {0, 1} /\ 1 - sprite.rd # sprite.rd
      BY <1>17
    <3>2. /\ B \in [{0, 1} -> Line \cup {None}]
          /\ B[1 - sprite.rd] = sprite.buffer[1 - sprite.rd] /\ B[sprite.rd] = line
      BY <1>17, <1>18, <2>1, <3>1
    <3> HIDE DEF B, T
    <3> QED  BY <2>1, <2>2, <3>2
  <2> HIDE DEF T
  <2>4. sprite' = IF ~Swaps THEN Flushed ELSE IF VCOUNT = Height - 1 THEN S ELSE T
    BY <1>1, Zenon DEF S, T, F
  <2>5. VCOUNT = Height - 1 => Swaps /\ VCOUNT < Height  BY BeamFacts, Lengths DEF Swaps
  <2> QED  BY <1>17, <2>1, <2>3, <2>4, <2>5 DEF F
<1>20. SpritesInTime'
  <2>1. ASSUME VCOUNT = Last PROVE sprite'.buffer[1 - sprite'.rd] = 0
    <3>1. Swaps /\ VCOUNT # Height - 1  BY <2>1, Lengths DEF Swaps
    <3>2. 1 - (1 - sprite.rd) = sprite.rd  BY <1>17
    <3> QED  BY <1>18, <1>19, <2>1, <3>1, <3>2
  <2>2. ASSUME VCOUNT < Height PROVE sprite'.buffer[sprite'.rd] = VCOUNT
    <3>1. Swaps  BY <2>2 DEF Swaps
    <3>2. sprite.buffer[1 - sprite.rd] = VCOUNT  BY <1>4, <2>2, Zenon DEF Inv, SpritesInTime
    <3> QED  BY <1>19, <3>1, <3>2
  <2>3. ASSUME VCOUNT < Height - 1 PROVE sprite'.buffer[1 - sprite'.rd] = VCOUNT + 1
    <3>1. Swaps /\ VCOUNT # Height - 1 /\ VCOUNT < Last
      BY <2>3, BeamFacts, Lengths DEF Swaps
    <3>2. 1 - (1 - sprite.rd) = sprite.rd  BY <1>17
    <3> QED  BY <1>18, <1>19, <3>1, <3>2
  <2> QED  BY <1>1, <1>7, <1>19, <2>1, <2>2, <2>3, Zenon DEF SpritesInTime
<1>21. TypeOK'
  <2>1. queue' \subseteq [class : Class, due : 0 .. LineLength, pri : {0, 1}]
    BY <1>1, <1>6 DEF Inv, TypeOK
  <2> QED  BY <1>1, <1>19, <2>1 DEF Inv, TypeOK
<1> QED  BY <1>3, <1>10, <1>11, <1>12, <1>13, <1>14, <1>15, <1>16, <1>20, <1>21, Zenon DEF Inv

\* What the place of the beam says, when no event is due
LEMMA QuietFacts ==
  ASSUME Inv, Quiet
  PROVE  /\ Dot < LineLength /\ beam.line = VCOUNT /\ beam.dot = Dot
         /\ flags.hblank \in BOOLEAN
         /\ flags.hblank = FALSE => Dot < HDraw
         /\ Dot >= LatchDelay => Begun /\ ~Queued("LatchDISPCNT")
<1>1. \A f \in queue : f.due # 0  BY DEF Quiet, DueNow
<1>2. ASSUME NEW f \in queue PROVE OnTime(f, flags.hblank, Dot, Begun) /\ f.due \in Int /\ f.due >= 1
  BY <1>1, EventFacts
<1>3. flags.hblank \in BOOLEAN  BY DEF Inv, TypeOK
<1>4. Dot < LineLength /\ (flags.hblank = FALSE => Dot < HDraw)
  <2>1. PICK f \in queue : f.class = IF flags.hblank = TRUE THEN "HDraw" ELSE "HBlank"
    BY DEF Inv, Chained
  <2>2. OnTime(f, flags.hblank, Dot, Begun) /\ f.due \in Int /\ f.due >= 1  BY <1>2
  <2> QED  BY <1>3, <2>1, <2>2, BeamFacts, Lengths DEF OnTime
<1>5. Dot >= LatchDelay => Begun
  <2>1. PICK s \in queue : s.class = "BeginSpriteFetch"  BY DEF Inv, Chained
  <2>2. OnTime(s, flags.hblank, Dot, Begun) /\ s.due \in Int /\ s.due >= 1  BY <1>2
  <2> QED  BY <2>1, <2>2, BeamFacts, Lengths DEF OnTime
<1>6. Dot >= LatchDelay => ~Queued("LatchDISPCNT")
  <2>1. ASSUME NEW f \in queue, f.class = "LatchDISPCNT" PROVE ~(Dot >= LatchDelay)
    <3>1. f.due = LatchDelay - Dot /\ f.due >= 1  BY <1>2, <2>1 DEF OnTime
    <3> QED  BY <3>1, BeamFacts, Lengths
  <2> QED  BY <2>1 DEF Queued
<1> QED  BY <1>3, <1>4, <1>5, <1>6, BeamFacts

\* A cycle passes in which no event is due.
LEMMA TickInv ==
  ASSUME Inv, Tick
  PROVE  Inv'
<1> DEFINE Later(f) == [f EXCEPT !.due = @ - 1]
<1>1. /\ queue' = {Later(f) : f \in queue} /\ \A f \in queue : f.due # 0
      /\ beam' = IF beam.dot + 1 < LineLength THEN [beam EXCEPT !.dot = @ + 1]
                 ELSE [line |-> IF beam.line = Last THEN 0 ELSE beam.line + 1, dot |-> 0]
      /\ announced' = announced /\ latch' = latch /\ VCOUNT' = VCOUNT /\ flags' = flags
      /\ enable' = enable /\ sprite' = sprite /\ dma3' = dma3 /\ running' = running
      /\ steady' = steady
  BY DEF Tick, Elapsed, DueNow
<1>2. ASSUME NEW f \in queue
      PROVE  /\ Later(f) \in [class : Class, due : 0 .. LineLength, pri : {0, 1}]
             /\ Later(f).class = f.class /\ Later(f).pri = f.pri
             /\ Later(f).due = f.due - 1 /\ f.due \in Int /\ f.due >= 1
  <2>1. f \in [class : Class, due : 0 .. LineLength, pri : {0, 1}] /\ f.due # 0
    BY <1>1 DEF Inv, TypeOK
  <2>2. f.due \in Int /\ f.due >= 1 /\ f.due - 1 \in 0 .. LineLength  BY <2>1, Lengths
  <2> QED  BY <2>1, <2>2
<1> HIDE DEF Later
<1>3. \A c : (\E f \in queue' : f.class = c) <=> (\E f \in queue : f.class = c)
  BY <1>1, <1>2, Zenon
<1>4. Dot < LineLength /\ beam.line = VCOUNT /\ beam.dot = Dot
  BY QuietFacts DEF Tick, Quiet
<1>6. Dot' = Dot + 1 /\ BeamInLine' /\ beam' \in [line : Line, dot : 0 .. LineLength - 1]
  <2>1. beam \in [line : Line, dot : 0 .. LineLength - 1]  BY DEF Inv, TypeOK
  <2>2. CASE Dot + 1 < LineLength
    <3>1. beam' = [beam EXCEPT !.dot = Dot + 1]  BY <1>1, <1>4, <2>2
    <3>2. Dot + 1 \in 0 .. LineLength - 1  BY <2>2, BeamFacts, Lengths
    <3> QED  BY <1>1, <1>4, <2>1, <3>1, <3>2 DEF Dot, BeamInLine
  <2>3. CASE ~(Dot + 1 < LineLength)
    <3>1. beam' = [line |-> NextLine, dot |-> 0]  BY <1>1, <1>4, <2>3 DEF NextLine
    <3>2. NextLine # VCOUNT /\ NextLine \in Line /\ Dot + 1 = LineLength
      BY <1>4, <2>3, BeamFacts, Lengths DEF NextLine
    <3>3. NextLine' = NextLine  BY <1>1 DEF NextLine
    <3> QED  BY <1>1, <3>1, <3>2, <3>3, Lengths DEF Dot, BeamInLine
  <2> QED  BY <2>2, <2>3
<1>7. Begun' = Begun
  <2>1. Begun \in BOOLEAN /\ Begun' \in BOOLEAN  BY Zenon DEF Begun
  <2>2. ASSUME Begun PROVE Begun'
    <3>1. PICK f \in queue : f.class = "BeginSpriteFetch" /\ f.due = LatchDelay + LineLength - Dot
      BY <2>2, Zenon DEF Begun
    <3>2. Later(f).due = LatchDelay + LineLength - Dot'
      BY <1>2, <1>6, <3>1, BeamFacts, Lengths
    <3> QED  BY <1>1, <1>2, <3>1, <3>2, Zenon DEF Begun
  <2>3. ASSUME Begun' PROVE Begun
    <3>1. PICK g \in queue' : g.class = "BeginSpriteFetch" /\ g.due = LatchDelay + LineLength - Dot'
      BY <2>3, Zenon DEF Begun
    <3>2. PICK f \in queue : g = Later(f)  BY <1>1, <3>1
    <3>3. f.due = LatchDelay + LineLength - Dot
      BY <1>2, <1>6, <3>1, <3>2, BeamFacts, Lengths
    <3> QED  BY <1>2, <3>1, <3>2, <3>3, Zenon DEF Begun
  <2> QED  BY <2>1, <2>2, <2>3, Zenon
<1>8. Chained'  BY <1>1, <1>3, <1>7, Zenon DEF Inv, Chained
<1>9. AllOnTime'
  <2>1. ASSUME NEW f \in queue PROVE OnTime(Later(f), flags.hblank, Dot + 1, Begun)
    <3>1. OnTime(f, flags.hblank, Dot, Begun)  BY EventFacts
    <3> QED  BY <1>2, <3>1, BeamFacts, Lengths DEF OnTime
  <2> QED  BY <1>1, <1>6, <1>7, <2>1, Zenon DEF AllOnTime
<1>10. Start'
  <2>1. Dot' < HDraw => Dot < HDraw  BY <1>6, BeamFacts, Lengths
  <2>2. Queued("LatchDISPCNT")' <=> Queued("LatchDISPCNT")  BY <1>3 DEF Queued
  <2> QED  BY <1>1, <2>1, <2>2, Zenon DEF Inv, Start, Starting
<1>11. FlagsMatch'  BY <1>1, <1>3, Zenon DEF Inv, FlagsMatch, Queued
<1>12. OccasionsCounted'  BY <1>1, <1>3, Zenon DEF Inv, OccasionsCounted, Queued, One
<1>13. InterruptsCounted'
  <2>1. ASSUME steady = TRUE, NEW f \in queue', NEW g \in queue',
               f.class = "VCountIRQ", g.class = "VCountIRQ"
        PROVE  f = g
    <3>1. PICK a \in queue : f = Later(a)  BY <1>1
    <3>2. PICK b \in queue : g = Later(b)  BY <1>1
    <3>3. a.class = "VCountIRQ" /\ b.class = "VCountIRQ"  BY <1>2, <2>1, <3>1, <3>2
    <3>4. a = b  BY <2>1, <3>3, Zenon DEF Inv, InterruptsCounted
    <3> QED  BY <3>1, <3>2, <3>4
  <2>2. /\ Queued("HBlankIRQ")' <=> Queued("HBlankIRQ")
        /\ Queued("VBlankIRQ")' <=> Queued("VBlankIRQ")
        /\ Queued("VCountIRQ")' <=> Queued("VCountIRQ")
        /\ Queued("UpdateVCountFlag")' <=> Queued("UpdateVCountFlag")
    BY <1>3 DEF Queued
  <2> QED  BY <1>1, <2>1, <2>2, Zenon DEF InterruptsCounted, Inv, One
<1>14. SpritesInTime'  BY <1>1, <1>7, Zenon DEF Inv, SpritesInTime
<1>15. LatchesInTime'  BY <1>1, <1>3, Zenon DEF Inv, LatchesInTime, Queued, Before
<1>16. TypeOK'
  <2>1. queue' \subseteq [class : Class, due : 0 .. LineLength, pri : {0, 1}]
    BY <1>1, <1>2
  <2> QED  BY <1>1, <1>6, <2>1 DEF Inv, TypeOK
<1> QED  BY <1>6, <1>8, <1>9, <1>10, <1>11, <1>12, <1>13, <1>14, <1>15, <1>16, Zenon DEF Inv

\* The program writes DISPSTAT.
LEMMA WriteInv ==
  ASSUME Inv, WriteDISPSTAT
  PROVE  Inv'
<1>1. PICK en \in [vblank : BOOLEAN, hblank : BOOLEAN, vcount : BOOLEAN, setting : Setting] :
        /\ enable' = en
        /\ queue' = queue \cup VCountIRQ(VCOUNT, en)
        /\ flags' = [flags EXCEPT !.vcount = (VCOUNT = en.setting)]
  <2>1. PICK v \in BOOLEAN, h \in BOOLEAN, c \in BOOLEAN, s \in Setting :
          /\ enable' = [vblank |-> v, hblank |-> h, vcount |-> c, setting |-> s]
          /\ UpdateVerticalCounterFlag(queue, enable')
    BY DEF WriteDISPSTAT
  <2> DEFINE new == [vblank |-> v, hblank |-> h, vcount |-> c, setting |-> s]
  <2>2. new \in [vblank : BOOLEAN, hblank : BOOLEAN, vcount : BOOLEAN, setting : Setting]
    OBVIOUS
  <2> HIDE DEF new
  <2>3. UpdateVerticalCounterFlag(queue, new)  BY <2>1 DEF new
  <2> QED  BY <2>1, <2>2, <2>3, Zenon DEF UpdateVerticalCounterFlag, Matches, new
<1> DEFINE irq == VCountIRQ(VCOUNT, en)
           matches == VCOUNT = en.setting
<1>2. /\ announced' = announced /\ latch' = latch /\ VCOUNT' = VCOUNT /\ sprite' = sprite
      /\ dma3' = dma3 /\ running' = running /\ beam' = beam /\ steady' = FALSE
  BY DEF WriteDISPSTAT
<1>3. Dot' = Dot /\ BeamInLine'  BY <1>2, SameDot DEF Inv
<1>4. /\ flags' \in [vblank : BOOLEAN, hblank : BOOLEAN, vcount : BOOLEAN]
      /\ flags'.vblank = flags.vblank /\ flags'.hblank = flags.hblank
      /\ flags'.vcount = matches
  <2>1. flags \in [vblank : BOOLEAN, hblank : BOOLEAN, vcount : BOOLEAN]  BY DEF Inv, TypeOK
  <2>2. matches \in BOOLEAN  BY Zenon
  <2> HIDE DEF matches
  <2> QED  BY <1>1, <2>1, <2>2 DEF matches
<1>5. \A f \in irq : /\ f.class = "VCountIRQ" /\ f.due = 1
                     /\ f \in [class : Class, due : 0 .. LineLength, pri : {0, 1}]
  <2>1. /\ \A f \in VCountIRQ(VCOUNT, en) :
              /\ f = [class |-> "VCountIRQ", due |-> 1, pri |-> 1]
              /\ f.class = "VCountIRQ" /\ f.due = 1 /\ f.pri = 1
              /\ f \in [class : Class, due : 0 .. LineLength, pri : {0, 1}]
        /\ (\E f \in VCountIRQ(VCOUNT, en) : TRUE) <=> en.vcount /\ ~flags.vcount /\ VCOUNT = en.setting
    BY VCountIRQFacts, Zenon
  <2> QED  BY <2>1, Zenon
<1> HIDE DEF irq
<1>6. queue' = queue \cup irq  BY <1>1, Zenon DEF irq
<1>7. \A c : c # "VCountIRQ" => ((\E f \in queue' : f.class = c) <=> (\E f \in queue : f.class = c))
  BY <1>5, <1>6
<1>8. Begun' = Begun  BY <1>3, <1>5, <1>6 DEF Begun
<1>9. Chained'  BY <1>4, <1>7, <1>8 DEF Inv, Chained
<1>10. AllOnTime'
  <2>1. \A f \in irq : OnTime(f, flags.hblank, Dot, Begun)  BY <1>5 DEF OnTime
  <2> QED  BY <1>3, <1>4, <1>6, <1>8, <2>1, Zenon DEF Inv, AllOnTime
<1>11. Start'  BY <1>2, <1>3, <1>4, <1>7 DEF Inv, Start, Starting, Queued
<1>12. FlagsMatch'
  <2>1. flags'.vcount = TRUE <=> VCOUNT' = enable'.setting
    BY <1>1, <1>2, <1>4, Zenon DEF matches
  <2>2. flags.vblank = TRUE <=> VCOUNT \in Height .. Last - 1  BY Zenon DEF Inv, FlagsMatch
  <2> QED  BY <1>2, <1>4, <2>1, <2>2, Zenon DEF FlagsMatch
<1>13. OccasionsCounted'
  <2>1. Queued("VideoDMA")' <=> Queued("VideoDMA")  BY <1>7 DEF Queued
  <2> QED  BY <1>2, <1>4, <2>1, Zenon DEF Inv, OccasionsCounted, One
<1>14. InterruptsCounted'  BY <1>2, Zenon DEF InterruptsCounted
<1>15. SpritesInTime'  BY <1>2, <1>8, Zenon DEF Inv, SpritesInTime
<1>16. LatchesInTime'
  <2>1. Queued("LatchDISPCNT")' <=> Queued("LatchDISPCNT")  BY <1>7 DEF Queued
  <2> QED  BY <1>2, <2>1, Zenon DEF Inv, LatchesInTime, Before
<1>17. TypeOK'
  <2>1. queue' \subseteq [class : Class, due : 0 .. LineLength, pri : {0, 1}]
    BY <1>5, <1>6 DEF Inv, TypeOK
  <2> QED  BY <1>1, <1>2, <1>4, <2>1 DEF Inv, TypeOK
<1> QED  BY <1>3, <1>9, <1>10, <1>11, <1>12, <1>13, <1>14, <1>15, <1>16, <1>17, Zenon DEF Inv

\* The program writes DMA3CNT, or nothing happens: dma3 alone may change.
LEMMA WriteDMA3Inv ==
  ASSUME Inv, WriteDMA3 \/ UNCHANGED vars
  PROVE  Inv'
<1>1. /\ VCOUNT' = VCOUNT /\ flags' = flags /\ enable' = enable /\ latch' = latch
      /\ sprite' = sprite /\ running' = running /\ queue' = queue /\ beam' = beam
      /\ announced' = announced /\ steady' = steady
  BY DEF WriteDMA3, vars
<1>2. dma3' \in BOOLEAN
  <2>1. dma3 \in BOOLEAN /\ (~dma3) \in BOOLEAN  BY Zenon DEF Inv, TypeOK
  <2> QED  BY <2>1, Zenon DEF WriteDMA3, vars
<1>3. Dot' = Dot /\ BeamInLine'  BY <1>1, SameDot DEF Inv
<1>4. Begun' = Begun  BY <1>1, <1>3 DEF Begun
<1>5. \A c : Queued(c)' = Queued(c)  BY <1>1 DEF Queued
<1>6. Chained' /\ AllOnTime' /\ Start'
  BY <1>1, <1>3, <1>4, Zenon DEF Inv, Chained, AllOnTime, Start, Starting, Queued
<1>7. FlagsMatch' /\ OccasionsCounted'
  BY <1>1, Zenon DEF Inv, FlagsMatch, OccasionsCounted, Queued, One
<1>8. InterruptsCounted'  BY <1>1, Zenon DEF Inv, InterruptsCounted, Queued, One
<1>9. SpritesInTime' /\ LatchesInTime'
  BY <1>1, <1>4, Zenon DEF Inv, SpritesInTime, LatchesInTime, Queued, Before
<1>10. TypeOK'  BY <1>1, <1>2 DEF Inv, TypeOK
<1> QED  BY <1>3, <1>6, <1>7, <1>8, <1>9, <1>10, Zenon DEF Inv

-----------------------------------------------------------------------------
\* Inv is inductive.
LEMMA NextInv == Inv /\ [Next]_vars => Inv'
<1> SUFFICES ASSUME Inv, [Next]_vars PROVE Inv'  OBVIOUS
<1>1. CASE Fire
  <2>1. PICK e \in Frontier(DueNow(queue)) : Callback(e)  BY <1>1, Zenon DEF Fire
  <2>2. e.class \in Class  BY Firing
  <2>3. CASE e.class = "HBlank"
    <3>1. OnHBlankStart(queue \ {e})  BY <2>1, <2>3 DEF Callback
    <3> QED  BY <2>3, <3>1, HBlankInv
  <2>4. CASE e.class = "HDraw"
    <3>1. OnLineEnd(queue \ {e})  BY <2>1, <2>4 DEF Callback
    <3> QED  BY <2>4, <3>1, LineEndInv
  <2>5. CASE e.class = "UpdateVCountFlag"
    <3>1. UpdateVCountFlag(queue \ {e})  BY <2>1, <2>5 DEF Callback
    <3> QED  BY <2>5, <3>1, UpdateInv
  <2>6. CASE e.class = "LatchDISPCNT"
    <3>1. LatchDISPCNT(queue \ {e})  BY <2>1, <2>6 DEF Callback
    <3> QED  BY <2>6, <3>1, LatchInv
  <2>7. CASE e.class = "BeginSpriteFetch"
    <3>1. BeginSpriteFetch(queue \ {e})  BY <2>1, <2>7 DEF Callback
    <3> QED  BY <2>7, <3>1, SpriteInv
  <2>8. CASE e.class \in Interrupt \cup {"VideoDMA"}
    <3>1. Announce(e.class, queue \ {e})  BY <2>1, <2>8 DEF Callback, Interrupt
    <3> QED  BY <2>8, <3>1, AnnounceInv
  <2> QED  BY <2>2, <2>3, <2>4, <2>5, <2>6, <2>7, <2>8 DEF Class, Interrupt
<1>2. CASE Tick  BY <1>2, TickInv
<1>3. CASE WriteDISPSTAT  BY <1>3, WriteInv
<1>4. CASE WriteDMA3 \/ UNCHANGED vars  BY <1>4, WriteDMA3Inv
<1> QED  BY <1>1, <1>2, <1>3, <1>4 DEF Next

\* Inv holds always.
LEMMA InvHolds == Spec => []Inv
BY InitInv, NextInv, PTL DEF Spec

\* The line machine and the sprite machine keep their registers, buffers and events
\* within their types: no event is due more than a line ahead or in the past, and an
\* occasion is announced at most once for each line.
THEOREM LinesTypeCorrect == Spec => []TypeOK
<1>1. Inv => TypeOK  BY DEF Inv
<1> QED  BY <1>1, InvHolds, PTL

\* Whenever no event is due, VCOUNT and the flags of DISPSTAT are what the place of
\* the beam says, though each is moved by events chained one to another.
THEOREM FlagsAreTheBeams == Spec => []FlagsMatchBeam
<1>1. ASSUME Inv, Quiet
      PROVE  /\ VCOUNT = beam.line
             /\ flags.hblank = (beam.dot >= HDraw \/ (latch[2] = None /\ beam.line = Last - 2))
             /\ flags.vblank = (beam.line \in Height .. Last - 1)
             /\ ~Queued("UpdateVCountFlag") => flags.vcount = (beam.line = enable.setting)
  <2>1. /\ beam.line = VCOUNT /\ beam.dot = Dot /\ flags.hblank \in BOOLEAN
        /\ flags.hblank = FALSE => Dot < HDraw
    BY <1>1, QuietFacts
  <2>2. flags.vblank \in BOOLEAN /\ flags.vcount \in BOOLEAN  BY <1>1 DEF Inv, TypeOK
  <2>3. flags.hblank = (beam.dot >= HDraw \/ (latch[2] = None /\ beam.line = Last - 2))
    <3>1. ASSUME flags.hblank = TRUE, ~(Dot >= HDraw) PROVE latch[2] = None /\ VCOUNT = Last - 2
      <4>1. Dot < HDraw  BY <1>1, <3>1, BeamFacts, Lengths
      <4> QED  BY <1>1, <3>1, <4>1, Zenon DEF Inv, Start, Starting
    <3>2. ASSUME Dot >= HDraw PROVE flags.hblank = TRUE
      <4>1. ~(Dot < HDraw)  BY <1>1, <3>2, BeamFacts, Lengths
      <4> QED  BY <2>1, <4>1, Zenon
    <3>3. ASSUME latch[2] = None, VCOUNT = Last - 2 PROVE flags.hblank = TRUE
      <4>1. VCOUNT # Last - 1  BY <3>3, Lengths
      <4> QED  BY <1>1, <3>3, <4>1, Zenon DEF Inv, Start
    <3>4. flags.hblank = TRUE <=> (Dot >= HDraw \/ (latch[2] = None /\ VCOUNT = Last - 2))
      BY <3>1, <3>2, <3>3, Zenon
    <3> QED  BY <2>1, <3>4, Zenon
  <2>4. flags.vblank = (beam.line \in Height .. Last - 1)
    <3>1. flags.vblank = TRUE <=> VCOUNT \in Height .. Last - 1
      <4>1. FlagsMatch  BY <1>1 DEF Inv
      <4> QED  BY <4>1, Zenon DEF FlagsMatch
    <3>2. (VCOUNT \in Height .. Last - 1) \in BOOLEAN  OBVIOUS
    <3>3. flags.vblank = (VCOUNT \in Height .. Last - 1)
      <4> DEFINE b == VCOUNT \in Height .. Last - 1
      <4>1. b \in BOOLEAN /\ (flags.vblank = TRUE <=> b)  BY <3>1, <3>2
      <4> HIDE DEF b
      <4>2. flags.vblank = b  BY <2>2, <4>1, Zenon
      <4> QED  BY <4>2 DEF b
    <3> QED  BY <2>1, <3>3
  <2>5. ~Queued("UpdateVCountFlag") => flags.vcount = (beam.line = enable.setting)
    <3>1. ~Queued("UpdateVCountFlag") => (flags.vcount = TRUE <=> VCOUNT = enable.setting)
      BY <1>1, Zenon DEF Inv, FlagsMatch
    <3> QED  BY <2>1, <2>2, <3>1, Zenon
  <2> QED  BY <2>1, <2>3, <2>4, <2>5, Zenon
<1>2. Inv => FlagsMatchBeam  BY <1>1, Zenon DEF FlagsMatchBeam
<1> QED  BY <1>2, InvHolds, PTL

\* VideoLines counts the lines of a transfer.
LEMMA VideoLinesCount ==
  ASSUME NEW l \in Nat, l <= VideoEnd
  PROVE  Cardinality({k \in 0 .. l : VideoLine(k)}) = VideoLines(l)
<1> DEFINE end == IF l < VideoEnd THEN l ELSE VideoEnd - 1
<1>1. {k \in 0 .. l : VideoLine(k)} = VideoFirst .. end  BY Lengths DEF VideoLine
<1>2. end \in Int /\ VideoLines(l) = IF VideoFirst > end THEN 0 ELSE end - VideoFirst + 1
  BY Lengths DEF VideoLines
<1> HIDE DEF end
<1>3. Cardinality(VideoFirst .. end) = IF VideoFirst > end THEN 0 ELSE end - VideoFirst + 1
  BY <1>2, FS_Interval, Lengths
<1> QED  BY <1>1, <1>2, <1>3

\* Whatever the program writes to DISPSTAT and to DMA 3, the horizontal blank is
\* announced once for every line that is shown, the vertical blank once a frame, and
\* the video transfer once for each of its lines if it was taken up, and else never.
THEOREM OccasionsComeOnce == Spec => []OccasionsOnce
<1>1. ASSUME Inv
      PROVE  /\ announced["hblank"] =
                  IF VCOUNT < Height THEN VCOUNT + (IF flags.hblank THEN 1 ELSE 0) ELSE Height
             /\ announced["vblank"] = IF VCOUNT < Height THEN 0 ELSE 1
             /\ VCOUNT <= VideoEnd =>
                  announced["video"] + (IF Queued("VideoDMA") THEN 1 ELSE 0) =
                    IF running THEN Cardinality({l \in 0 .. VCOUNT : VideoLine(l)}) ELSE 0
  <2>1. flags.hblank \in BOOLEAN /\ running \in BOOLEAN  BY <1>1 DEF Inv, TypeOK
  <2>2. One(flags.hblank = TRUE) = (IF flags.hblank THEN 1 ELSE 0)  BY <2>1, Zenon DEF One
  <2>3. VCOUNT >= Height <=> ~(VCOUNT < Height)  BY <1>1, BeamFacts, Lengths
  <2>4. VCOUNT <= VideoEnd => Cardinality({l \in 0 .. VCOUNT : VideoLine(l)}) = VideoLines(VCOUNT)
    <3>1. PICK n \in Nat : n = VCOUNT  BY <1>1, BeamFacts
    <3> QED  BY <3>1, VideoLinesCount, Zenon
  <2>5. announced["hblank"] = IF VCOUNT < Height THEN VCOUNT + One(flags.hblank = TRUE) ELSE Height
    BY <1>1, Zenon DEF Inv, OccasionsCounted
  <2>6. announced["vblank"] = IF VCOUNT < Height THEN 0 ELSE 1
    BY <1>1, <2>3, Zenon DEF Inv, OccasionsCounted, One
  <2>7. VCOUNT <= VideoEnd =>
          announced["video"] + (IF Queued("VideoDMA") THEN 1 ELSE 0) =
            IF running = TRUE THEN VideoLines(VCOUNT) ELSE 0
    BY <1>1, Zenon DEF Inv, OccasionsCounted, One
  <2> QED  BY <2>1, <2>2, <2>4, <2>5, <2>6, <2>7, Zenon
<1>2. Inv => OccasionsOnce  BY <1>1, Zenon DEF OccasionsOnce
<1> QED  BY <1>2, InvHolds, PTL

\* While DISPSTAT is left alone, each interrupt that is enabled comes once: for every
\* horizontal blank, for the vertical blank, and for the line that matches.
THEOREM InterruptsComeOnce == Spec => []InterruptsOnce
<1>1. ASSUME Inv, steady, \A i \in Interrupt \cup {"UpdateVCountFlag"} : ~Queued(i)
      PROVE  /\ announced["HBlankIRQ"] =
                  IF enable.hblank THEN VCOUNT + (IF flags.hblank THEN 1 ELSE 0) ELSE 0
             /\ announced["VBlankIRQ"] = IF enable.vblank /\ VCOUNT >= Height THEN 1 ELSE 0
             /\ announced["VCountIRQ"] = IF enable.vcount /\ enable.setting <= VCOUNT THEN 1 ELSE 0
  <2>1. /\ steady \in BOOLEAN /\ flags.hblank \in BOOLEAN
        /\ enable.hblank \in BOOLEAN /\ enable.vblank \in BOOLEAN /\ enable.vcount \in BOOLEAN
    BY <1>1 DEF Inv, TypeOK
  <2>2. steady = TRUE  BY <1>1, <2>1, Zenon
  <2>3. /\ ~Queued("HBlankIRQ") /\ ~Queued("VBlankIRQ") /\ ~Queued("VCountIRQ")
        /\ ~Queued("UpdateVCountFlag")
    BY <1>1 DEF Interrupt
  <2>4. /\ announced["HBlankIRQ"] \in Int /\ announced["VBlankIRQ"] \in Int
        /\ announced["VCountIRQ"] \in Int
    BY <1>1, Lengths DEF Inv, TypeOK, Occasion, Interrupt
  <2>5. announced["HBlankIRQ"] = IF enable.hblank THEN VCOUNT + (IF flags.hblank THEN 1 ELSE 0) ELSE 0
    <3>1. announced["HBlankIRQ"] + 0 = IF enable.hblank = TRUE THEN VCOUNT + One(flags.hblank = TRUE) ELSE 0
      BY <1>1, <2>2, <2>3, Zenon DEF Inv, InterruptsCounted, One
    <3>2. announced["HBlankIRQ"] + 0 = announced["HBlankIRQ"]  BY <2>4
    <3> QED  BY <2>1, <3>1, <3>2, Zenon DEF One
  <2>6. announced["VBlankIRQ"] = IF enable.vblank /\ VCOUNT >= Height THEN 1 ELSE 0
    <3>1. announced["VBlankIRQ"] + 0 = One(enable.vblank = TRUE /\ VCOUNT >= Height)
      BY <1>1, <2>2, <2>3, Zenon DEF Inv, InterruptsCounted, One
    <3>2. announced["VBlankIRQ"] + 0 = announced["VBlankIRQ"]  BY <2>4
    <3> QED  BY <2>1, <3>1, <3>2, Zenon DEF One
  <2>7. announced["VCountIRQ"] = IF enable.vcount /\ enable.setting <= VCOUNT THEN 1 ELSE 0
    <3>1. announced["VCountIRQ"] + 0 + 0 = One(enable.vcount = TRUE /\ enable.setting <= VCOUNT)
      BY <1>1, <2>2, <2>3, Zenon DEF Inv, InterruptsCounted, One
    <3>2. announced["VCountIRQ"] + 0 + 0 = announced["VCountIRQ"]  BY <2>4
    <3> QED  BY <2>1, <3>1, <3>2, Zenon DEF One
  <2> QED  BY <2>5, <2>6, <2>7
<1>2. Inv => InterruptsOnce  BY <1>1, Zenon DEF InterruptsOnce
<1> QED  BY <1>2, InvHolds, PTL

\* Once around
LEMMA Around ==
  ASSUME NEW x \in Nat, NEW m \in Nat, x < m
  PROVE  (x + m) % m = x
<1> DEFINE q == (x + m) \div m
           r == (x + m) % m
           p == m * q
<1>1. q \in Int /\ r \in Int /\ 0 <= r /\ r < m /\ p \in Int /\ x + m = p + r
  OBVIOUS
<1>2. q = 1
  <2>1. q <= 0 => p <= 0  BY <1>1
  <2>2. q >= 2 => p >= m + m  BY <1>1
  <2> HIDE DEF p
  <2> QED  BY <1>1, <2>1, <2>2
<1>3. p = m  BY <1>2
<1> HIDE DEF p
<1> QED  BY <1>1, <1>3

\* From the cycle a line's sprites are fetched on, the line shows the buffer that was
\* drawn for it, nobody draws into that buffer, and the layers' bits are those of two
\* lines before.
THEOREM LinesShowTheirOwn == Spec => []ShowsItsLine
<1>1. ASSUME Inv, Quiet, VCOUNT < Height, beam.dot >= LatchDelay
      PROVE  /\ sprite.buffer[sprite.rd] = VCOUNT
             /\ sprite.drawing => sprite.buffer[1 - sprite.rd] # VCOUNT
             /\ latch[0] = (VCOUNT + Last - 1) % (Last + 1)
  <2>1. Begun /\ ~Queued("LatchDISPCNT")  BY <1>1, QuietFacts
  <2>2. /\ sprite.buffer[sprite.rd] = VCOUNT
        /\ VCOUNT < Height - 1 => sprite.buffer[1 - sprite.rd] = VCOUNT + 1
        /\ VCOUNT = Height - 1 => sprite.drawing = FALSE
    BY <1>1, <2>1, Zenon DEF Inv, SpritesInTime
  <2>3. sprite.drawing => sprite.buffer[1 - sprite.rd] # VCOUNT
    <3>1. VCOUNT < Height - 1 \/ VCOUNT = Height - 1  BY <1>1, BeamFacts, Lengths
    <3>2. VCOUNT + 1 # VCOUNT  BY <1>1, BeamFacts
    <3>3. CASE VCOUNT = Height - 1  BY <2>2, <3>3, Zenon
    <3>4. CASE VCOUNT < Height - 1
      <4>1. sprite.buffer[1 - sprite.rd] = VCOUNT + 1  BY <2>2, <3>4
      <4> QED  BY <3>2, <4>1, Zenon
    <3> QED  BY <3>1, <3>3, <3>4
  <2>4. latch[0] = (VCOUNT + Last - 1) % (Last + 1)
    <3>1. latch[0] = Before(VCOUNT, 2)  BY <1>1, <2>1, Zenon DEF Inv, LatchesInTime
    <3>2. CASE VCOUNT < 2
      <4>1. Before(VCOUNT, 2) = VCOUNT + Last - 1  BY <1>1, <3>2, BeamFacts, Lengths DEF Before
      <4>2. (VCOUNT + Last - 1) % (Last + 1) = VCOUNT + Last - 1
        BY <1>1, <3>2, BeamFacts, Lengths
      <4> QED  BY <3>1, <4>1, <4>2
    <3>3. CASE ~(VCOUNT < 2)
      <4>1. Before(VCOUNT, 2) = VCOUNT - 2  BY <1>1, <3>3 DEF Before
      <4>2. (VCOUNT + Last - 1) % (Last + 1) = VCOUNT - 2
        <5>1. PICK x \in Nat : x = VCOUNT - 2  BY <1>1, <3>3, BeamFacts
        <5>2. x + (Last + 1) = VCOUNT + Last - 1 /\ x < Last + 1
          BY <1>1, <5>1, BeamFacts, Lengths
        <5>3. Last + 1 \in Nat  BY <1>1, BeamFacts, Lengths
        <5>4. (x + (Last + 1)) % (Last + 1) = x  BY <5>2, <5>3, Around, Zenon
        <5> QED  BY <5>1, <5>2, <5>4, Zenon
      <4> QED  BY <3>1, <4>1, <4>2
    <3> QED  BY <3>2, <3>3
  <2> QED  BY <2>2, <2>3, <2>4
<1>2. Inv => ShowsItsLine  BY <1>1, Zenon DEF ShowsItsLine
<1> QED  BY <1>2, InvHolds, PTL
=============================================================================
