# Verification of nanogoadvance

TLA+ specifications of the core of this repository, a Go port of the NanoBoyAdvance
Game Boy Advance emulator, with the TLC configurations that check them on small
instances and theorems checked by TLAPS. File names below are relative to `internal/`
unless they begin with `cmd/`, `tests/` or name a `.tla` file.

## 1. The system

The emulator is one loop on one goroutine. `Core.Run` executes a CPU instruction, the
instruction's bus accesses let *time pass*, and passing time fires the callbacks of the
*scheduler*, through which all devices live. There are no locks in it, but there is
concurrency all the same: a callback may run in the middle of any bus access, callbacks
schedule and cancel other callbacks, two callbacks of one cycle come in an order that
nobody chose, and a save state may be taken between any two steps. Beside the loop run the
audio device's goroutine (`APU.ReadSamples`) and the signal handler that flushes the save
files.

| Component | State | Operations | Talks to | What is hard | What makes it correct |
|---|---|---|---|---|---|
| Scheduler (`scheduler`) | clock, binary heap of events, handle counter | Add, AddClass, Cancel, Advance/Step, TimestampTarget, save and load | everybody: it calls their callbacks | callbacks that add and cancel, lazy cancellation, equal keys, handles after a load | every live event fires once, in its cycle, in key order; a handle names one event |
| Interrupt controller (`irq`) | IE, IF, IME, their pending copies, wake-up flag, CPU line | register writes, Raise, three delayed updates, save and load | devices raise, `Core.Run` tests the flag, the CPU tests the line | a pipeline of three delayed stages fed from two sides | no interrupt is lost, a halted CPU wakes, the outputs agree with the registers |
| DMA (`dma`) | four channels, sets by occasion, runnable set, active channel | register writes, requests of PPU and APU, activation, the transfer loop, save and load | takes the bus from the CPU, may write any register, its own included | preemption in the middle of a block, channels disabled while enrolled, scheduled or running | the highest runnable channel runs, disabled channels do not, blocks end |
| Timers (`timer`) | four channels, counted lazily; one overflow event each | register writes, their delayed commits, overflow with cascade, save and load | raise interrupts, drain the sound FIFOs | counting from a time stamp, a prescaler that is shared, events of one cycle | the counters read as if they counted every cycle |
| Emulation loop (`core`) | halted or not, the target of the call | Run, register dispatch, Reset, serial port | CPU, bus, DMA, interrupt controller, scheduler | halting, DMA and events interleave; clamped steps | every call returns, a wake-up is never overlooked |
| System bus (`bus`) | prefetch buffer, wait states, last access | accesses by CPU and DMA, Idle, Step, Prefetch | scheduler, DMA, devices | prefetch runs beside accesses, DMA is entered from inside an access | the buffer's counters stay in range; a prefetch finishes once |
| Picture processor (`ppu`) | line machine, VCOUNT, DISPSTAT flags, sprite fetch machine | line events, register writes, save and load | requests DMA, raises interrupts | two event machines side by side, video transfer latched a frame earlier | lines and flags follow one another, each occasion is announced once |
| Sound (`apu`) | FIFOs, sound channels with an event chain each, sample buffer | register writes, timer overflows, Generate events, ReadSamples | requests DMA, is drained by timers; read by the audio goroutine | refill races the drain, resets of a chain that is queued, two locks | a FIFO does not overflow, a channel has one chain of events |
| Backup memory (`backup`) | memory, FLASH command state, EEPROM serial state, file | byte and bit accesses, busy timeout, size hint, save and load | bus, files | protocols spread over many accesses; a process that ends at any of them; files that fail | data changes only by a complete command, and what was stored survives |
| Cartridge GPIO (`gpio`) | port, RTC serial state, solar sensor | port writes and reads | bus | a serial protocol clocked by a program that may break off | a frame is understood as sent, and acts once |
| CPU (`arm`) | registers with banks, two status registers, pipeline, user-bank window | instructions, exceptions, interrupt entry, save and load | bus, interrupt controller | mode switches that copy registers, a pipeline to reload, carries at the edges | banks are not mixed up, exceptions come back, results are exact |
| Keypad, cartridge header, save-state record, sample streams, MP2K driver, window | | | | | |

## 2. The modules

Time in the modules is relative: an event carries the cycles that are left to it, so that
state spaces stay finite without a bound on the clock. `Agenda` has the few operators on
sets of such events; every component module is written with them and takes events of
equal key in *any* order, since that is all the scheduler promises.

    Agenda ──► EventQueue ◄── implemented by ── Scheduler ──► Heap
       ├──► IrqController ──► Irq
       │           └────────► IrqHeap ──► Heap
       ├──► Dma ──► DmaProofs
       ├──► Timer ── implements ──► Counters
       │        └──► TimerProofs
       ├──► SoundFifo ── implements ──► SampleStream
       │        └──┬──► SoundProofs
       │    Psg ───┘
       └──► Lines ──► LinesProofs
    Alu, Banks ──► Cpu ──► ArmHandlers, ThumbHandlers ──► Arm7tdmi ── implements ──► Registers
                                                              └──► CpuProofs
    RunLoop, CpuProofs ──► CoreProofs (with INSTANCE, what is proved of EventQueue and Irq)
    Backup ──► Flash, Eeprom ┐
                        Gpio ┴──► Cartridge ──► CartridgeProofs ──► EepromProofs

### Scheduler: `EventQueue`, `Scheduler`, `Heap`

`EventQueue` is what clients rely on: a set of pending events. `Scheduler` is
`scheduler/scheduler.go`: the slice of the heap, absolute time stamps, keys
`timestamp << 2 | priority`, events only marked when cancelled, and `Step`'s loop with one
action per iteration, so that callbacks (phase `callback`) add and cancel between them.
`Heap` has `container/heap`'s sifting as functions on sequences; it is the Go library's,
modelled from its use. `CopyState` and `LoadState` are the scheduler's share of
`Core.CopyState` and `Core.LoadState`.

### Interrupt controller: `IrqController`, `Irq`, `IrqHeap`

`IrqController` has the registers and what one call does to them, as operators. `Irq`
adds the queue, the devices that raise at any moment of a cycle, and the part of `Core.Run`
that halts and wakes the CPU. The history variable `raced` remembers that two *conflicting*
events of one key met; the properties that need an order say `~raced`. `IrqHeap` asks
whether that matters: it puts the same operators on the code's own heap, with events of
other components to shape it. A store by DMA to IE, IF or IME has no action of its own: it
reaches the handlers that a CPU write does (`Core.Run`'s order of halting and writing apart,
since a halted CPU does not write), and what it may do to them is what a CPU write may.

### DMA: `Dma`

The channels' registers and latches, the sets, and `DMA.Run` with a program counter (`pc`):
`pick` is the loop of `Run`, `loop` that of `runChannel`, `read` and `write` the bus accesses
in which time passes and callbacks fire, `store` a unit that may be a store to a control
register. `Tag` tells activations of one channel apart; `doubled` remembers that one was
scheduled over another.

### Timers: `Counters`, `Timer`

`Counters` counts every cycle and has no queue. `Timer` is `timer/timer.go`: `counter` is
what it was at `timestampStarted` (kept as an age), an event is queued for the overflow, and
writes are committed a cycle later. The clock matters only modulo the longest prescaler.
What a program reads is `ReadCounter`, with the shift of a negative age and the cut to 16
bits: after a start with an age of -1 it is for one cycle one below the counter, and 0xFFFF
when that is 0. `Counters` says the same of its own counters (`Read`), so that the
refinement relates what is read and not only what is counted.
Saving and loading timers is not modelled (see the divergences of section 5).

### Emulation loop: `RunLoop`

`Core.Run` with its inner loop for a halted CPU. The bus's `Step`, `DMA.Run` and the
scheduler's next event are lengths of time chosen from small sets; what a callback does is
reduced to whether DMA is runnable and an interrupt available after it. An instruction makes
up to `Most` accesses and internal cycles (`made`), and before each of them the bus lets DMA
in (`drainDMAOnAccess`, `Idle`): what one access activates has the bus before the next one,
except before the store of a swap. An internal cycle that runs beside a transfer takes no time.

### Sound: `SampleStream`, `SoundFifo`, `Psg`

`SampleStream` is a queue of samples. `SoundFifo` is one direct sound channel of `apu/apu.go`
and `apu/channels.go` with the DMA channel that feeds it: the ring (`fifo`), the word being
played (`pipe`), the timer's overflow, the activations that it requests and the block that
DMA writes, whose cycles (`Serve`) alternate with those of everybody else (`Tick`). Bytes and
halves written by a program fill the rest of their word with what the slot held, as the code
does. `Psg` is one sound generator; `kind` says which. Frequencies are kept only where the
sweep changes them, and the sequencer and the chain's events fire at any time, so what holds
does not depend on how they are tuned. The history variable `forgotten` says that switching
sound off dropped the handle of a queued event, `cut` that a save state cut a length of 256
to its low byte.

A behaviour of `Psg` follows the channel, not the core: after `SaveAndLoadChannel` it is in the
core that loaded the state, which may be another one or a later moment of the same. What
`APU.LoadState` restores is as it was saved; what it leaves alone, the switch `MasterEnable`
(`apu/serialization.go:130`) and the `Sample` of the wave and noise channels (lines 65 and 92),
is whatever it is in that core. `leftover` says that what is heard is such a sample, `muted`
that the state was saved with sound on and loaded where it is off.

### Picture processor: `Lines`

The line machine of `ppu/ppu.go` and, beside it, the chain of `BeginSpriteFetch`. Of a
buffer or a latch is kept the line it belongs to, so that "this line shows its own sprites"
is a statement about numbers. `beam` counts cycles independently of all events.

### CPU: `Alu`, `Banks`, `Cpu`, `ArmHandlers`, `ThumbHandlers`, `Arm7tdmi`, `Registers`

A CPU is a record and an operation a function from CPUs to CPUs, so that a handler reads like
the Go method it stands for. `Alu` is `arithmetic.go` and the rotations and extensions of
`memory.go` on words of `Width` bits; `Banks` the modes and their banks; `Cpu` the record
with `SwitchMode`, `GetReg` and `SetReg`, the two reloads of the pipeline, accesses and
`SignalIRQ`; `ArmHandlers` and `ThumbHandlers` have one operator for each handler of
`handler32.go` and `handler16.go`. `Arm7tdmi` is `Run`: the look at the interrupt line, the
fetch and the handler are steps, so that the line may move between any two of them
(`polled`). A decoded instruction is a record; which pattern of bits decodes to it is left
out. What memory holds is not known: `contents` chooses the words that are read, `slow`
whether accesses take several cycles (the user-bank window closes by cycles), `booth` the
carry that a multiplication leaves. `bus` lists the accesses of the step.

`Registers` is the abstract specification: one flat file with a slot for every register of
every mode and no copying at all; an instruction changes the slots it names, an exception
its return address and saved status. `Arm7tdmi` implements it with the mapping `File`, which
takes a bank from the registers in use while its mode is on. Two warts of the program are
part of the promise because the code has them: an invalid mode destroys r8 to r12, and in the
window after `LDM ^` a store to a banked register also reaches the user's. The history
`frame` remembers of each exception where it came from, for as long as its r14 and saved
status are as it left them. `Predictable` leaves out the few encodings that the
architecture calls unpredictable (listed at its definition).

### Save chips: `Backup`, `Flash`, `Eeprom`

`Backup` is `BackupFile`: `store` has the memory and what a reader of the file would find
(`disk`). A file may fail to open and a write to it may fail, which is only logged; `missed`
remembers the cells whose last write failed. `Flash` and `Eeprom` are the two state
machines of `backup.go`, and beside each the program: it sends a command one store
(`Send`), or a frame one bit (`Unit`) at a time, and the steps between are everybody's. A
FLASH program may also forget what it was doing (`GiveUp`), as a game does that is reset by
its own keys; `orphan` and `lost` say what that left in the chip, and `misled` that an EEPROM
took bits for a chip of another size. `did` names the last step. An access outside the memory
panics in the code; the model marks it (`panicked`), and only a new start is possible then.

### Four lines: `Gpio`

The port with its direction, the clock behind it (`RTC`) and the light sensor, which
shares two lines with it. The program drives lines: selects, sets a bit up, clocks it, breaks
off (`Deselect`), turns the lines round, reads. `heard` are the bits clocked since the
selection, and the properties say what the chip must have made of them. The levels on the
lines are not saved (`gpio.go:225`): `astray` says that a load found other ones than the
program left, and after that nothing is promised until the next selection that the chip can see.

### Cartridge: `Cartridge`

The composition: a cartridge with one of the chips, as `LoadROMWithSave` equips it, in a
machine that is saved (`CopyState`), loaded, and ended and started again (`Restart`) between
any two steps of the program, or after a panic. What a load restores and what it leaves (the EEPROM's size, the
RTC's port) is there as in each `LoadState`. The history `sizes` collects, from a load on, the
size of the memory with which that state was saved and each size it has been used with
since; `OneSize` says that they are one. Each behaviour has one chip, since they share
nothing but the record of the save state.

## 3. The runs

| Run | States | Question and answer |
|---|---|---|
| `scheduler` | 680,969 | Does the heap implement `EventQueue`? Yes (`ImplementsQueue`); so no event is ever late (`NothingLeftBehind` of the queue is proved). |
| `irq` | 378,274 | Is an interrupt ever lost in the pipeline? Every write and every raise has its commit under way (`CommitUnderWay`), outputs agree with registers once all has arrived (`SettledAgrees`), only an acknowledge forgets a source (`OnlyAckForgets`), a halted CPU wakes (`HaltedWakes`), and saving at any instant loses nothing (`LoadRestores`). |
| `irq_lost_wakeup` | violation | `irq.go:131` says that a source raised in the cycle of a write is not masked by it. On the heap it can be: finding 1. |
| `dma` | 496,543 | Is the active channel always the highest runnable one (`ActiveIsLowest`), are units begun for it alone (`UnitByActive`), are only enabled channels enrolled (`EnrolledAreEnabled`), can an activation be cancelled (`ActivationCancellable`), and does the highest channel's transfer end (`TopServed`)? Yes. |
| `timer` | 2,856,812 | Do the lazily counted timers implement `Counters`, and does `readCounter` return in every cycle what those say (`ImplementsCounters`)? Yes, with one overflow event per running channel, due when it must be (`OverflowOnTime`). |
| `run_loop` | 25,058 | Does every call of `Run` return (`RunReturns`), and is the halted CPU woken in the cycle after an interrupt (`WakesAtOnce`)? Yes. |
| `sound_fifo` | 171,203 | Does the channel play what was written, in order, also across a save (`ImplementsStream`)? Yes. Does a refill find room (`RefillFits`)? Yes, unless it was requested in the middle of a block or a program writes too. Is an empty FIFO filled (`EmptyIsRefilled`)? Yes. |
| `psg` | 630,512 | Does a generator that is on have one chain of events that it can cancel (`ChainAlive`, `OneChain`)? Yes; only what a reset forgets may run beside it. Does it have length left (`LengthLeft`), does a counted note end (`FallsSilent`)? Yes; but a sample that was in the core before a state was loaded may go on being heard. |
| `lines` | 752,088 | Do VCOUNT and the flags follow the beam (`FlagsMatchBeam`), do occasions and interrupts come once (`OccasionsOnce`, `InterruptsOnce`), does a line show the sprites and layers meant for it (`ShowsItsLine`)? Yes, whenever DISPSTAT and DMA 3 are written. |
| `cpu` | 193,523 | Do the banks implement a flat file of registers (`ImplementsRegisters`)? Yes. Are the opcodes in the pipeline the ones before r15, and is a fetch called sequential only if it is (`PipelineFollowsPC`, `SequentialContinues`)? Yes. Does the prescribed return instruction come back to where an exception was taken (`ExceptionsReturn`)? Yes. Are flags those of the exact results, also of two-word arithmetic (`FlagsAreArithmetic`), are shifts right for every amount (`ShiftsAreExact`), do block transfers put each register where it belongs (`BlocksInOrder`)? Yes. |
| `cartridge` | 3,324,984 | Is the file what the memory is, but for writes that failed (`FileMirrorsMemory`), and does a new process find what the last one stored (`SavesSurvive`)? Yes. Does a FLASH command happen as a whole, at its last store (`CommandsAreWhole`)? Yes; one given up before its argument swallows the next command's first store. Does an EEPROM frame write its block and no other (`BlocksAreWhole`)? Yes, once the size is right. Does the clock understand frames in both bit orders (`FramesDecoded`) and act on them once, at their last bit (`FramesAct`)? Yes, unless a load found the lines at other levels. Does the emulator ever ask a chip for a cell it does not have, and panic? Only after a load of a state that has been used with memories of two sizes (`PanicsAcrossSizesOnly`). |
| `eeprom_size` | violation | `backup.go:254` and `427` say that the first transfer decides the size of an EEPROM with a file too: finding 2. |

### Bounds, and why they are enough

* `Scheduler`: `MaxEvents` 5 gives up to four events beside the sentinel, so a pop sinks
  through two levels and has both children to compare; `MaxNow` 2 and `Delay` {1, 2} make
  events meet in one cycle, lie beyond the target, or be overtaken; `Cycles` has the negative
  advance that `Core.Run` may make. One save state is taken (`SaveAt` 4) when two events may
  be queued and one cancelled (`MaxCancels` 1). The system stops when the bounds are used up,
  so deadlock is not checked in this run.
* `Irq`: two sources, so that one may be acknowledged while another is raised; two copies of
  equal events (`Copy`), which is as many commits as can be told apart within their one cycle
  of delay.
* `Dma`: two channels of which the first, a sound FIFO's, may interrupt the second, which is
  started at once, by the line machine or by the video transfer; blocks of 2 units, so that
  one may be interrupted in its middle, and of 1; two tags, so that an activation may be
  scheduled over another.
* `Timer`: three channels make a chain with a middle; `Range` 3 lets a counter start below,
  at and above its last value; periods 1 and 2 have a prescaler that divides and one that
  does not.
* `RunLoop`: accesses, transfers and gaps that end before, at and after the call's end; two
  accesses to an instruction, so that a second transfer may come between them.
* `SoundFifo`: a ring of 3 words with blocks of 2 and requests at 1 keeps the code's relation
  3 + 4 = 7 between them; the pointers wrap in the middle of a block. Words of two samples
  have a first and a last one.
* `Psg`: lengths up to 2 (a wave's 3, which a saved "byte" of three values cuts), volumes up
  to 2, counters of one bit, frequencies below 4 in two parts: each boundary of the code is
  reached, and two events may be queued.
* `Lines`: ten lines of six cycles have every kind of line the code distinguishes (shown, first
  blank, before, at and after the video transfer's end, latching and not, last), and all
  delays fit into a line in the order they have in the code.

* `Cpu`: words of 12 bits are the shortest that hold a status register (mode, masks, four
  flags) and the exception vectors; 5 bits of a shift's amount reach 0, the width, beyond it and
  more than twice of it. A scenario is a set of first registers, a set of instructions and a
  number of steps, one for each question: exceptions of three kinds nested, with changes of
  mode and state, in five instructions; all modes, and an invalid one, in four; the user-bank
  window with slow and fast memory and an interrupt in it; operands at both edges of the
  signed and the unsigned range; amounts around each boundary; lists that are empty, hold the
  base, the pc or both ends; and each remaining handler in two steps. `Reset` is always possible.
* `Cartridge`: FLASH banks of four cells in sectors of two (each holds one of the two
  addresses of a command's preamble), in chips of one and of two banks; EEPROM blocks of two cells of two bits in
  chips of four and eight cells, so that addresses are 1 and 3 bits long and a frame for one
  chip is a wrong one for the other. Files are missing, of either size, or of neither. Three
  commands let one be given up, one be swallowed and one be seen to work; two frames let a
  block be written and read back. One write fails at a time (`MayFail`), one restart. The clock
  is selected twice, with frames of each kind of register and in both bit orders, and one
  that is preceded by a byte that is no command; for the composition with a save state the
  state is taken nine bits into a frame (`SaveAt`), in the middle of an argument. The program
  stops when its bounds are used up, so deadlock is not checked.

### Fairness

The emulation loop is sequential code that nothing but its caller stops: weak fairness of
the clock (`Tick`), of the callbacks that are due and of the loop's own steps says no more
than that. `Dma` has strong fairness of `RunStart`: every bus access and idle cycle of the
CPU and every round of the halt loop tests `IsRunning`, and DMA may be runnable with
interruptions (a channel may be disabled and enabled again) before one of them comes.
In `SoundFifo` the DMA channel's cycles have strong fairness, which is what `TopServed` of
`Dma` promises it; in `Psg` the sequencer and the chain are callbacks of the scheduler.
Nothing is assumed of what a program or a device does.

## 4. The proofs

| Module | Theorems | Argument |
|---|---|---|
| `DmaProofs` | `DmaTypeCorrect`, `ArbitrationRight`, `EnrolmentRight`, `PreemptionRight`, `HandlesRight` | `ActiveIsLowest` is inductive with types once the operator `Lowest` is known to return a least element. `UnitByActive` needs that `cur` is the active channel in `runChannel` unless `shouldReenterTransferLoop` is set. `ActivationCancellable` needs `HandlesName`: every activation under way is named by its channel's handle and no channel has two, unless one was scheduled over another. |
| `TimerProofs` | `TimerTypeCorrect`, `RunningIsEnabled`, `OverflowsOnTime` | The types depend on the events being on time (a counter that ran on past `Range` would leave its type), so the invariant is both at once: a running channel's overflow is the only one in the queue, its handle is the channel's, and it is due after exactly the cycles the counter has left. The one nonlinear fact, that these are at least one period, is the lemma `CyclesLeft`. |
| | `TimersCount` | `Timer` implements `Counters`: the value that a counter shows is computed from the cycles since it was last latched, so each step is shown to change what is *shown* as the abstract step says, action by action; that `readCounter` shows that value less one at an age of -1 is the lemma `LateByOne`. What it relies on of the commits under way is an invariant beside the first (`Commits`): at most one value is committed for each register, and it is one that was written. |
| `CpuProofs` | `PipelineFollows`, `SequentialAccess`, `RegistersHoldWords` | Of `Arm7tdmi`, for words of any width, any scenario and every instruction but the unpredictable ones, which break the pipeline in the program too (`Predictable`). The invariant (`CpuInv`) is one about the CPU between two instructions (`Settled`: words in every register and bank, a pipeline of two opcodes that precede r15, and a fetch that is only called sequential after the fetch before it), and it must hold of the saved CPU too. A handler starts one opcode further (`Fed`), and there is a lemma for each handler of `handler32.go` and `handler16.go` that it settles again. It can do so in two ways: it reloads (`ReloadSettles`, `JumpSettles`), or it leaves state and r15 `Alike` until it moves r15 on, as a sequential access (`Done`) or, after an access to data or an idle cycle, as a nonsequential one (`Busied`). So a handler that writes r15 or the state without reloading, or that forgets to say that it used the bus, fails at its lemma. Where it is known that every result is a word (`ComputedIsWord`, `ShiftedIsWord`, `LoadedWord`), the registers hold words; for the bitwise operators this is the lemma `OfBitsWord` on sums of powers of two (`SumsBounded`), and blocks of registers are taken one unit at a time (`BlockUnitsKeep`, `ThumbUnitsKeep`). Wrapping around is `StepsBack`: `Wrap` of a step back from a wrapped sum is the step back from the sum. |
| | `BankingIsFlat` | `Arm7tdmi` implements `Registers`. The invariant is `CpuInv` and that the saved status in use is the one of the mode's bank (`Selected`), which `SwitchMode` and a load establish and `ScenarioAssumption` asks of the CPUs a scenario begins with. `AgreeOutside` says that two CPUs have the same flat file outside a set of slots. A handler that stays in its mode only stores: `StoresOnly` says of what it calls that it leaves the banks, the mode and every register it does not name alone, one lemma for each handler; and `StoresReach` what a store can reach in the file, with the user's slot in the window after `LDM ^`. A change of mode moves registers but leaves the file alone (`SwitchMode`'s lemmas, by cases of FIQ, an invalid mode and all others), but for r8 to r12 when the new mode is invalid (`Lost`). Both together are `Writes`, which chains through a handler that stores and then switches; `Trapped` is the same for an exception. |
| `CoreProofs` | `QueueTypeCorrect`, `HandlesNameOneEvent`, `NothingLeftBehind` | Of `EventQueue`: the saved queue must satisfy what the live one does, or loading it breaks handles: the invariant speaks of both. An event is strictly ahead when no `Advance` runs, and not behind while one does, because `Fire` takes the least key. |
| | `HaltedCPUWakes` | The halt loop's step never reaches beyond the next event (`todo <= due`): so an event that brings an interrupt ends the step. |
| | `RunKeepsToItsBudget` | The type invariant of `RunLoop`, which bounds how far a call of `Run` may outlast its budget: by less than `Most` rounds of a transfer, its last cycle and an access. `Budget` says for each place what is left once the step under way is over: an instruction begins with time left, and each access made since, with the transfer before it, takes one round at most (`Spent`); a step back, the only way for the clock to go back, happens in the halt loop and gives back what the transfer took, so that afterwards the next event may be further away than a gap. Needs that each set of durations has a greatest (`RunLoopAssumption`). |
| | `IrqTypeCorrect`, `NothingStaysPending`, `IrqLoadRestores`, `PipelineSettles`, `OnlyAcknowledgeForgets` | The properties of the run `irq`, stated of the instance `Irqs` of `Irq`. `CommitUnderWay` needs that commits are at most a cycle ahead and that time does not pass over one that is due; `LoadRestores` that `irqLine` is always the conjunction of the committed registers, which every commit restores. `SettledAgrees` needs `InOrder`: of the updates under way of a kind the last to arrive says what the registers ask for now; a second commit in the cycle of a first finds nothing new, since the CPU does not write while a commit is due and a raise between the two makes conflicting events meet, which sets `raced`. |
| | `FlagsExact`, `ShiftsExact` | Of `Arm7tdmi`, for words of any width. `SumWraps` and `DifferenceWraps` say what is left of an exact sum or difference that leaves the words, `SignsOfSum` and `SignsOfDifference` that the formulas of `arithmetic.go` for the overflow find out whether the signed result left the signed words, with a carry or a borrow coming in; so every computation gives the flags of its exact result (`ComputedExact`, `IsExact`). The rest follows the operands from the CPU between two instructions (`ReadyPlain`) through each handler to the flags and the register it leaves (`DataProcessingFlags`, `Op3Flags`, `ALUFlags`; `MoveShiftedExact`, `ALUShiftExact`, `MOVExact`), on top of `CpuInv`. Shifts are about bits: `BitOfQuotient`, `BitOfMultiple`, `BitBelow`, `BitOfWrap` and `SignBit` say which bit of a number is which of its multiple, quotient or wrapped value, and from them there is one lemma for each kind of shift (`LSLMoves`, `LSRMoves`, `ASRMoves`, `RORMoves`) and one for the rotation through the carry (`ThroughCarry`). |
| `SoundProofs` | `FifoTypeCorrect`, `RefillsFit` | An activation that is scheduled while a block is under way comes before the block's end (`RefillsOnce`), so it finds the channel runnable and adds no block; one that is scheduled while the channel rests found at most `Low` words. Both need that a request's delay is shorter than the rest of its block (`DelayAssumption`). The ring's arithmetic is one lemma, `WithinTwoRounds`. |
| | `FifoIsStream` | `SoundFifo` implements `SampleStream`: the stream is what is left in the pipe followed by the ring's words from the read pointer on. One lemma for each thing that can happen to them (`WrittenLast`, `ReloadedFlat`, `RefilledFlat`, `ShiftedFlat`, `EmptiedFlat`) says what that does to the stream; that silence is heard only once all is played needs that the pipe is padded with silence (`Drained`). |
| | `ChainsAlive`, `ChainsSingle`, `LengthsLeft`, `SilentWhenOff` | Of `Psg`: of a queued event the channel has the handle, which is then a real one, unless a reset dropped it. `LengthLeft` needs that a length which no save state cut never falls below 0 (`LengthCounts`). Loading into any core is one more step of the invariant: what it brings there is excused only by `leftover` and `muted`, which the next Generate event, a reset or the next write to the switch end. |
| | `PsgTypeCorrect` | Each part of a generator keeps its type (`PsgParts`): one lemma for what restarts, ticks or writes an envelope, a sweep or a length counter. A frequency is built of a low and a high byte, so that it stays below `Limit` takes that `Limit` is a multiple of `LowByte`, which `PsgAssumption` says (2048 and 256); a sweep's next frequency because it is only latched when it does not overflow. |
| `LinesProofs` | `LinesTypeCorrect`, `FlagsAreTheBeams` | `beam` runs beside the line machine and knows nothing of its events, so the invariant says where the beam is when each event is due: every queued event is due at its own dot of the line (`AllOnTime`), the event that ends the part of the line which `flags.hblank` names is queued, and so is the sprite chain's (`Chained`), and a flag is what its dots have made it. Only what the assumption `LinesAssumption` says of the delays is used: the sums and the order in which they fall into a line. |
| | `OccasionsComeOnce`, `InterruptsComeOnce` | What was announced since the frame began, with what is still queued, is what the lines so far ask for (`OccasionsCounted`, and `InterruptsCounted` while DISPSTAT is not written): nothing comes twice, and nothing is left out. |
| | `LinesShowTheirOwn` | Before and after the swap, which of the two buffers holds which line (`SpritesInTime`), and of which line each stage of the latched DISPCNT is before and after the latch (`LatchesInTime`); a line is drawn where the two agree. |
| `CartridgeProofs` | `FileIsMirrored`, `NothingSavedIsLost` | Of any number of cells, sectors and banks, whichever writes fail. The invariant needs the file's shape (`IsStore`): a write beyond the end of a file makes it longer, and what it skipped reads as zero, so that the lemma `OverwrittenCells` must say what every cell of the new file is. `UpdateGood` says that a write repairs the cells it covers if all others agree already (`MirrorsBut`), which is how `MemorySet`, `MemoryLoaded` and `OpenOrCreate` use it. The invariant also keeps the kind of chip, because a size hint replaces memory and file at once. `SavesSurvive` needs besides that the file has no gaps and is no longer than the memory, and that a memory with a file has a size the chip may have (`Fits`), or the next start would make the file anew: an access outside the memory would lengthen the file, but it panics first. |
| | `PanicsNeedTwoSizes` | While there is one size, bank, address and received bits always fit the memory (`Fitting`): a bank is one the memory has, an address of *k* bits is a block of a chip of 2^*k* blocks (`Powers`), a half-received frame is shorter than the frames of its chip, and the saved state fits the size it remembers. So no access can leave the memory, and nothing panicked (`Alive`). |
| | `CommandsHappenWhole` | Beside the chip there is the program, and the invariant (`Followed`) says where it is: the chip is idle and so is the program (`Idle`), they are at the same store of a command (`Sending`), the chip waits for the argument of a command the program gave up (`Torn`), or it is one command behind, having taken a first store for that argument (`Lost`). All four are needed: a load, a reset of the game and a restart move from each to another. |
| | `FramesUnderstood`, `FramesActOnce` | The clock keeps 8 bits and a place, the property speaks of all the bits since the selection, so the invariant (`Listening`) says which of them the clock still has: the bits of the byte that is not whole yet (`Waiting`, `Taking`), and of an answer each byte that is not sent, halved as often as it was shifted (`Telling`). `Heeds` says of one clocked bit that it keeps this up, does what the bits say and nothing else, and there is a lemma for each state of the clock (`CommandHeeds`, `BufferHeeds`, `TransmitHeeds`, `CompleteHeeds`), over facts about what one more bit does to a meaning (`MeaningBegins`, `MeaningGrows`): a command that was found stays the first one. Of the program is needed that it says whole frames (`Begun`): after one the clock takes no more bits (`Whole`), so that turning the lines round cannot put a wrong bit into it. The same must hold of the saved clock and the saved program together (`Saving`), or a load would break it. Induction over bits is by the least byte at which something fails (`NatLeast`). |
| `EepromProofs` | `BlocksComeWhole` | The invariant says how far the chip is in the frame the program sends, one definition for each part of it (`Stage`: `AtRest`, `InCommand`, `InAddress`, `InBlock`, `AtEndToWrite`, `AtEndToRead`, `InDummies`, `InAnswer`): in an address the serial buffer is the block's number without the bits that are to come; in a block the first *t* bits are those that were sent and all others are zero (`Holds`), since the cells were cleared before the first bit and each bit is added as a weight of its own. That the bit which arrives is the next one and disturbs no other is arithmetic of powers of two (`AddedBelow`, and the lemmas after it). The same must hold of the saved chip, program and memory together (`SavedFrame`), or a load would break it; until a state is saved a frame of which something was sent has a chip of the right size (`LiveFrame`), so a saved frame always has, while a load keeps the size the new process took its chip for. The rest is `Fitting`, as in `PanicsNeedTwoSizes`. |

Assumed are only the `ASSUME`s of the modules (channels are among 0 .. 3, delays are
positive, and so on), which TLC evaluates for the instances. `DelayAssumption` of `SoundFifo`
is `2 <= (4 - 1) * 2` in the code: an activation two cycles after its request, four words to a
block, a read and a write of at least a cycle each. `FrameAssumption` of `Gpio` is what makes a
sequence of bits a frame: it has a command and, if that sets a register, all its bits; a frame
that is cut short is one that was given up, which the program may do at any bit. `EepromGeometry` says
that the small chip's addresses name its blocks exactly, 512 bytes being 2^6 blocks of 8, and
that every block of the large one, 8192 bytes, has an address of its 14 bits. `ScenarioAssumption`
of `Arm7tdmi` says what a scenario is made of: CPUs between two instructions after a jump, whose
registers hold words, whose saved status is the one of their mode and whose pipeline is filled
from before r15 (as a reset, a jump or a loaded state leaves it), and instructions with the fields and ranges their encodings have
(`ArmEncoding`, `ThumbEncoding`). `WidthAssumption` asks for words of whole groups of four bits,
of which a status register needs twelve; in the code they have 32. Liveness (`HaltedWakes`, `TopServed`,
`RunReturns`, `EmptyIsRefilled`, `FallsSilent`) is out of the prover's reach and stays with TLC.
Each type invariant that is proved is left to the proof, so no run repeats it; nor do runs
repeat `RunsWhenEnabled`, that a running timer is enabled, and `OffIsSilent`, that no sound
channel is on when sound is off. Model-checked only, so far, are the refinements of
`EventQueue` by `Scheduler` (that sifting keeps a heap is an induction over data), and of the
CPU that exceptions return and that block transfers are exact (`ExceptionsReturn`,
`BlocksInOrder`).

Two properties speak of a CPU that is in a mode there is and not in the user-bank window
(`Plainly`), and of r15 as the handler finds it, with its lowest bit clear (`Found`). Without
either the proof of `FlagsAreArithmetic` fails, and rightly so: in a mode that does not exist a
store to r8 .. r14 goes nowhere (`SetReg` in `arm7tdmi.go`), so a result is lost though its flags are
set, and r15 after a jump to an odd address is odd until `Run` aligns it. The run has both
cases now: an ADD that sets flags in every mode, and r15 as each operand.

## 5. Findings

1. **A wake-up can be lost** (`irq_lost_wakeup`). The update of the wake-up flag that an
   acknowledge's commit schedules has priority 0; so has the commit of a source raised in
   between. With equal keys the heap decides, and if the raise's commit comes first the stale
   update clears the flag although the source is requested.
2. **An EEPROM of unknown size is taken for the larger one** (`eeprom_size`). With a save path
   `resetWithError` makes a file of 8192 bytes and clears `detectSize` because that is a valid
   size (`backup.go:331`); `SetSizeHint` then returns at once, so neither the first transfer nor
   its branch for files that says it re-opens them has any effect.

Divergences that the models have as the code has them, and that no run shows because no
document says otherwise, or because the property would restate one line:

* A DMA channel's `eventID` is saved after its event fired and loaded as a live one
  (`dma/serialization.go:46`): the next rewrite of its control register is dropped.
* A state holds neither the switch of all sound nor the samples of the wave and noise channels
  (`apu/serialization.go:65`, 92, 130): after loading in a core that was just started, channels
  are on while sound is off, until the program writes SOUNDCNT_X; and a sample of the core that
  loads may be heard with no event to end it, until the channel is used again or sound is
  switched off.
* A timer started with the prescaler at 0 reads one below its reload value for a cycle
  (`timer/timer.go:216`).
* No timer runs after a load until its queued overflow fires (`timer/serialization.go:22`).
* The clock of a halted CPU may go back after a transfer that outlasts the call
  (`core/core.go:357`).
* An EEPROM without a file whose size is not known forgets a loaded memory at the next
  hint (`backup/backup.go:447`), when the size is not the one it had.
* A FLASH command given up before its argument takes the next command's first store for it
  (as hardware does); `CommandsAreWhole` says exactly how far that reaches.
* A load takes a FLASH's bank and an EEPROM's address over from a chip that may have been
  larger (`backup/serialization.go:22`): the next access panics (`backup_file.go:81`). The run
  `cartridge` reaches it with a file of 64 KiB for a game of 128 KiB that could not be opened
  in the session that saved the state. A second way is an EEPROM of unknown size without a
  file: a state loaded in the middle of a frame, and the next hint shrinks the memory under it.
  In both the state has been used with memories of two sizes, and `PanicsAcrossSizesOnly`,
  which is proved, says that there is no way without that.
* The RTC's flag for the afternoon is put in before the conversion to BCD (`gpio/gpio.go:328`);
  its port lines are not saved (`gpio/gpio.go:225`).
* In the two cycles after a load of the user's registers an interrupt's entry overwrites the
  user's r14 (`arm/handler32.go:604`); a mode that does not exist destroys r8 to r12;
  `LoadState` does not restore the window, the mark of an invalid mode and the latched mask.

## 6. Plan

In order of what the system depends on most:

1. *(done)* Scheduler, interrupt controller, DMA, timers, emulation loop.
2. *(done)* Sound: FIFOs with their refill by DMA; the generators' event chains. *(left)* The
   sample buffer between two goroutines.
3. *(done)* Picture processor: the line machine and the sprite buffers. *(left)* Drawing is
   lazy: `Sync` draws up to now before a register write (`bus/bus.go:749`). Abstract
   specification: a painter that draws every cycle, refined by the lazy one; save states.
4. *(done)* Backup memory: FLASH and EEPROM protocols, files, save states and restarts.
5. *(done)* GPIO: the RTC's serial protocol against the bits a program sent.
6. *(done)* CPU: banks, mode switches, pipeline, arithmetic, every handler. *(left)* The bus:
   prefetch buffer and wait states, which need the CPU's sequence of accesses (`bus` of `Cpu`)
   as input.
7. *(done)* Proofs of the theorems of section 4. *(left)* Of the CPU `ExceptionsReturn` and
   `BlocksInOrder`.
8. *(left)* Save states of the timers and of the picture processor, checked against what the
   divergences above allow.

### Not modelled

* Pixels, the mixing of samples and their filters, the MP2K driver: pure or floating-point
  functions of memory. The window, shaders, cartridge header, game table and command lines:
  input and output.
* CPU: decoding of bit patterns, `Thumb_Undefined` (empty: r15 stays where it is, and the
  next opcode is fetched twice), what the carry of a multiplication is, how many idle cycles it
  takes (one stands for them), encodings the architecture leaves unpredictable.
* Bus: prefetch, wait states, open bus. `Idle`, `Step` and the way DMA is entered from inside an
  access are in `RunLoop` and `Dma`, where an access is an amount of time.
* The serial port, whose transfer without a partner is one interrupt; the keypad, the same.
* Save files of other emulators with bytes behind the memory, and `Sync`: what the operating
  system keeps of a file after power is lost.
* The sample buffer between the audio goroutine and the loop (`apu/apu.go:544`).

Behaviours of modelled components that no property is about: a save
state keeps at most 64 events (`core/serialization.go:107`), and a DMA block that ends while
another activation of its channel is queued (`dma/dma.go:337`). `Core.Reset` resets neither
EEPROM nor GPIO (`core/core.go:227`); every command calls it once, before anything ran.
