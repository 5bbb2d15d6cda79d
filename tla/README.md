# A verification project for DAPCmdr

DAPCmdr is a command line debugger for Arm and RISC-V targets. It talks to J-Link
(through the vendor's DLL), to OpenOCD (through its Tcl socket), and, through a trimmed
copy of pyOCD in `src/pyocd/`, to CMSIS-DAP probes. The pyOCD part holds almost all of
the program's state and concurrency; the commander adds the connection and three links
that fail in three different ways.

The modules here are translated from the source, checked by TLC on small instances and,
for the core, proved by TLAPS for every value of the constants. `PROJECT.json` maps every
definition to its lines, lists the runs, the faulty variants the properties reject, the
hazards and the theorems.

Contents: [inventory](#inventory) · [plan](#plan) · [modules](#modules) · [runs](#runs)
· [findings](#findings) · [what the properties leave out](#what-the-properties-leave-out)
· [fairness](#fairness) · [proofs](#proofs) · [what is not modelled](#what-is-not-modelled)

## Inventory

Layers, from the user down. Each calls the one below; only the USB interface, the SWO
stream and the stream server have threads of their own.

| component | source | state | operations |
|---|---|---|---|
| command line | `DAPCmdr.py` | mode, speed, the open link | one method per command, reconnect on an empty line |
| link front end | `xlink.py`, `jlink.py`, `openocd.py` | the back end, register aliases | memory and register access, reset, halt, step, go |
| core run control | `coresight/cortex_m.py` | run token, reset types | halt, step, resume, reset, vector catch, core registers |
| breakpoints, watchpoints | `debug/breakpoints/`, `fpb.py`, `dwt.py` | table of breakpoints, slots of the FPB and the DWT, original instructions | set, remove, remove all, filter memory |
| register and memory caches | `debug/cache.py` | cached values, run token | read, write, invalidate |
| memory access port | `coresight/ap.py`, `core/memory_interface.py` | cached CSW | memory reads and writes, single, deferred, block |
| debug port | `coresight/dap.py` | the list of APs, access number | DP and AP access, error recovery, power up, reset |
| probe adaptor | `probe/cmsis_dap_probe.py` | cached SELECT | the same, over the link; SWO |
| **transfer engine** | `dap_access_cmsis_dap.py` | transfers, current packet, packets in flight, response buffer | register access, flush, deferred mode, abort |
| **packets** | the same, `_Command` | counts, block flag, segments | room, add, encode, decode |
| **USB interface** | `interface/pyusb_v2_backend.py` and three others | receive queue, semaphore, thread, closed | open, write, read, close, SWO |
| session, target set-up | `core/session.py`, `coresight_target.py`, `sequencer.py`, `graph.py` | open, inited | open, close, call sequence |
| stream server, semihosting | `utility/server.py`, `debug/semihost.py` | client, buffer, shutdown event | accept, read, write, stop |
| symbols, ELF, SVD, fault analysis | `callstack.py`, `hardfault.py`, `svd.py`, `debug/` | none that changes | parsing and presentation |

How they interact, and what is hard:

* **Deferral.** With deferred transfers on (the probe adaptor turns them on in `open`)
  a register access is only put into a packet. Its error surfaces in whatever call
  pushes the packet through: a later write, a flush, a read's callback. Everything queued
  behind the refused access is thrown away. Every layer above that remembers what it
  wrote (SELECT, CSW, breakpoint slots, register values) must cope with that.
* **Position.** An answer names neither its packet nor its reads. Words go to reads by
  counting, over packets that hold many reads and reads that span many packets. One
  answer too many left on the wire shifts everything after it.
* **Pipelining.** Several packets are in flight when one is refused. Their answers must
  be discarded, exactly theirs, and no other.
* **Threads.** The bulk interface reads in a thread that a semaphore keeps in step with
  the writes; `read` polls, `close` joins.
* **Time.** Reads of the interface expire; an answer may come after that.
* **Polling without a limit** at power-up, single step and reset.
* **A core that does not wait.** It runs, sleeps, locks up, halts and leaves reset
  between any two accesses of a call, and the caches are told of it by a token only.
* **Calls cut short.** An access that fails leaves undone what the rest of the call
  would have restored: a mask, a vector catch, a BKPT, a halted core.
* **Requests without a number.** OpenOCD's answers come through a socket that gives up
  after a second; a late one is there for the next request.

The properties that make the components correct, by component: packets fit and decode as
they were built; every read gets its own words or an error, once; the pipeline stays
within the probe's buffers; a flush leaves nothing behind; calls return; the receive
thread reads the endpoint exactly for the answers to come; SWO data keeps its order; an
access reaches the register it was addressed to,
in the right size, whatever failed before; a breakpoint slot is in use exactly while its
comparator is programmed, and memory shows the original instructions; cached registers
and bytes are those of the core; a reset that is to stop on the reset handler does, and a
step executes one instruction; a command of the commander leaves the core as it was told
to, and a block access is whole; shutting down ends.

## Plan

In the order of importance to the whole: what lies below is trusted by everything above.

1. `DapCommand`, `PacketBuilder`, `DapLink`, `DapPort`: packets and the transfer engine,
   with proofs. *Done.*
2. `UsbInterface`, `Wire`: the bulk interface, its receive thread and its SWO threads;
   `ProbeCommands`: the calls that go to the probe past the engine, SWO included, on top
   of it. *Done*, with the theorems about its permits, its SWO data, the wire that it
   implements and whose answer a call takes.
3. `DebugAccess`: probe adaptor, debug port and memory access port over a deferred link;
   the caches of SELECT and CSW; error recovery. *Done*, with the theorems that an access
   reaches the port and bank it was meant for, in its size and to its address.
4. `BlockAccess`, `MemoryMap`: the splitting of ranges into accesses and the regions,
   pure operators. *Done*, with the theorem that every range is split right.
5. `Breakpoints`: manager, comparators and patched instructions, with failing accesses.
   *Done*, with the theorems about what is hidden and what is armed; left: `Watchpoints`,
   which the commander never sets.
6. `CoreRunControl`: halt, step, resume, reset and vector catch against a core that
   resets, sleeps and locks up. *Done*, with the theorems about resets and steps.
7. `RegisterCache`, `MemoryCache`: the caches in front of the core. *Done*, with the
   theorems about both.
8. `XLink`, `Commander`: the link front end over its three links, and the command line.
   *Done*, with the theorems about what a command does and about block accesses.
9. `StreamServer`, `Session`, `CallSequence`: not used by the commander. *Left.*

`RegisterCache` composes with `CoreRunControl` and `MemoryCache` with `Breakpoints`,
`BlockAccess` and `MemoryMap` (each EXTENDS the other), `Commander` with `XLink`, and
`ProbeCommands` with `UsbInterface`. The engine stands on the interface through `Wire`, which the interface is shown to
implement. Of the engine, `DebugAccess` uses what `DapPort` says and the engine is proved
to implement: reads answered in order, or failed together. It does not instantiate
`DapPort`: it adds the writes, which the port leaves out.

## Modules

**`DapCommand`** translates class `_Command` into operators on a record of its fields:
how many words of a read or a write still fit (`FreeWords`, `RequestSpace`), full, empty,
and `Add`. It has no state; `PacketBuilder` and `DapLink` share it.

**`PacketBuilder`** is one packet from its creation to its transmission, at the level of
segments (`_data`), so that `Encode` can be compared with what was added.
`MCPacketBuilder` gives the sizes and counts for TLC.

**`DapLink`** is the engine. A caller starts an operation when none is in progress; the
loops of the code are the values of `pc` (listed at the head of the module), so the
probe's steps interleave at every iteration. `ReadReg`, `WriteReg` are `read_reg`,
`write_reg` and the repeated forms up to the loop of `_write`; `AddWords`, `NoRoom`,
`WriteDone` that loop; `SendPacket` and `NothingToSend` `_send_packet`; `ReadPacket`,
`ReadBadPacket` and `AddResponse` `_read_packet`; `Abort`, `DrainOne` and `Raise`
`_abort_all_transfers`; `BacklogDone`, `ResultReady`, `ResultNeedsFlush`, `ResultLost` the
ends of `flush` and `get_result`. `_read_packet` hands out data before anything else
runs: every action of the caller is guarded by `At`, which waits for `DataForHead` to be
false. A word is the number of the read it answers, counted over the life of the engine,
so "the words asked for" is an interval and needs no history variable. The probe and the
failing interface are external; their actions are in the module, marked.

**`DapPort`** is what the layers above rely on: reads answered in order, each with its
own words, or failed all together. `DapLink` implements it with the mapping `Status`.

**`UsbInterface`** is class `PyUSBv2` and the probe's endpoints: the caller
(`callerPc`), the receive thread (`rxPc`; one action per line of `rx_task` that another
thread can observe) and the SWO threads (`readers`; more than one, since `start_swo` does
not ask whether one runs). It has actions, but no caller of its own.
**`ProbeCommands`** is that caller: the methods of `CMSISDAPProtocol`, those of
`DAPAccessCMSISDAP` that go past the engine (open, close, connecting, identify, vendor,
clock, pins, resets, SWO) and those of `CMSISDAPProbe` that call these. A call is a list of
steps (`todo`), a command one step that writes and one that reads, whatever the engine
has in flight. Of the engine there is what that takes: it writes packets, leaves up to
`MaxUnread` of them unread (`backlog`) and reads them in a flush. After an error callers
only open, close, flush and ask for information: less than what the commander may still
call before its next check fails and it drops the link (`DAPCmdr.py:196`), so that
`CallsReturn` says less there than it does before (what the engine's packets do after an
error is `DapLink`'s). `strayed` is a history: an answer may be left that nobody is to read.
**`Wire`** is the abstract channel that all this implements: the one `DapLink` uses as
`toProbe` and `fromProbe`.

**`DebugAccess`** is register and memory access in the three layers above the engine.
A call of the caller (`WriteMemory`, `ReadMemory`, `WriteBlock32`, `ReadIDR`, ...) is the
list of calls it makes of the link; each is an action (`WriteSelect`, `Issue`, `GetResult`,
`FlushDone`, `ResetDone`, or none at all in `SkipCsw`), so that the target's steps come
between any two. The engine is reduced to what `DapPort` promises of it: a queue, an
error that waits to be noticed (`linkError`), and reads that are answered or lost. `Raise` is
the one place where an error comes out, and may happen in any call of the link. A step
lists the layers whose `_handle_error` the exception passes, which differ from method to
method in the code: `_write_block32` sends its data past `DebugPort`, its TAR outside the
`try`. `SelectAfter`, `CswAfter` and `Recovery` are what those handlers do. The target
executes what it is sent against its own SELECT, CSW and TAR; TAR holds the number of
the call, for its address. `surfaced` is a history variable: where errors came out.

**`CoreRunControl`** is `CortexM` (halt, step, resume, the resets, vector catch, state,
identification, disconnect, transfer of registers) and the reset of `XLink` that stops on
the reset handler. A call is the list of its accesses and of the local steps between them
(`HaltSteps`, `StepSteps`, `ResetAndHaltSteps`, ...); each is an action, and the core's own
actions come between any two: `Halts` (a breakpoint, a vector catch, C_HALT), `Execute`,
`Wake`, `ResetEnds`. `sticky` are S_RESET_ST and S_RETIRE_ST, which a read of DHCSR clears;
`ctl` and `demcr` the control bits; `token` the run token. `Fault` fails an access: most
calls raise, `reset` swallows. `executed` and `fresh` are histories: the instructions since
the step began, and whether none was executed since the reset. A register that is part of
another (CONTROL, FAULTMASK and PRIMASK of CFBP, APSR and IPSR of XPSR) is a function on
its parts, so that a write of a part reads, overlays and writes the whole.

**`RegisterCache`** EXTENDS it with class `RegisterCache`: each operation dispatches on the
run token (`synced`), and the cached registers (`cached`) follow. Of the calls on the core it
takes those that change registers or let the core go (`RunAlone`): halt, step, resume, every
reset and disconnect. `MCRegisterCache` gives the lists of registers.

**`MemoryMap`**, **`BlockAccess`**: the regions and the look-ups among them (`Having`,
`FirstRegion`, `GetIntersectingRegions`); how `MEM_AP` and the core split a range into bytes, halfwords, words and
blocks at the auto-increment page. No state. **`Breakpoints`** is `BreakpointManager`,
`SoftwareBreakpointProvider` and `FPB`, and the program's memory, with the breakpoints
written into it (`mem`) and without (`program`, a history). A call is one action, since
nothing of the core between two of its accesses matters here; an access may fail in the
call, or be found to have failed later (`broken`), writes being deferred. A `Step` may so
raise after its instruction (`untold`, a history: what that changed).
**`MemoryCache`** EXTENDS it with class `MemoryCache`: a set of intervals, as the interval
tree is; what is cached of a range and what is lacking (`UncachedRanges`), merging, and
writes through. `MCMemoryCache` gives the regions and ranges.

**`XLink`** is class `XLink` over `DAPLink`, `JLink` and `OpenOCD`. What differs is how an
access fails: a `DAPLink` raises; J-Link does nothing, reads zeros, and is taken for a halted
core; OpenOCD's answer is not read, and may be on its way (`late`) when the next
request is made, which then takes it for its own (`mixed`, a history). A command is
a list of steps; `halt_required` is `look`, halt, the command's own, `go_back`. **`Commander`**
is class `DAPCmdr`: connecting, opening anew, the mode and the settings file, the check
before each command, and each command as the list of its accesses. A
breakpoint, a power cycle and Ctrl-C come at any step. `wasHalted` is the local variable in
which `halt_required` keeps what its look saw; `owed` is what the core is to do
after the command, `ran` whether it ran before, both histories.

**`DapCommandProofs`, `PacketBuilderProofs`, `DapLinkProofs`, `DebugAccessProofs`,
`ProbeCommandsProofs`, `CoreProofs`, `MemoryCacheProofs`, `CommanderProofs`** hold the
proofs: `CoreProofs` those of `CoreRunControl` and `RegisterCache`, the others those of the
module of their name and of the modules it extends.

## Runs

| run | what it asks | bounds |
|---|---|---|
| `packet` | does every packet fit, and does the probe decode what was added? | 4 segments of 1, 2, 14, 130 or 300 words; sizes 9 (one word fits), 13, 64 (HID) and 1100 |
| `link` | the engine on an interface that delivers | a pipeline of 2, packets of 17 bytes, one read and two write requests, 3 accesses of 1 or 4 words, one refused packet |
| `link_failing` | the engine on an interface that fails | packets of 16 bytes, one read and one write request, the same accesses, one refused packet and one failed write or read |
| `link_overrun`, `link_lost_result` | findings, below | as `link` or `link_failing` |
| `usb` | calls past the engine, packets of the engine, threads and probe in every order | 2 packets unread, 8 writes, 2 requests for information, 2 sessions, 2 SWO threads, 2 chunks of SWO data, one fault (a failed write, a late answer, a refusal); a caller of SWO and a caller of the rest (`tracing`) are separate behaviours |
| `access` | do accesses reach the port, bank, size and address they were meant for? | 2 access ports, 2 sizes, 2 calls and any number of flushes and callbacks, one refusal (a fault refuses more by itself), one reset |
| `access_skipped` | finding, below | the same, faults only |
| `core` | do calls of run control do what they are for, whatever the core does between two accesses? | three reset types (SW_VECTRESET not supported, so it is emulated or replaced), 3 runs of the core, two failing accesses in a call |
| `registers` | is the register cache that of the core? | two lists to read and two to write, a combined register among each, two runs, one failing access |
| `memory` | breakpoints and the memory cache over one core | a word of flash, two of RAM, a device of two bytes; one comparator, breakpoints at 0 and 6; reads of 4–6, 4–11, 12 and 10–13, writes of 6–7; one run, one failing access |
| `commander` | every command on every link | an Arm or a RISC-V target, blocks of 1, 2 and 3 items in chunks of 2 (128 in the code), 2 late answers, two failing accesses in a command |

Why the bounds are enough. A packet of 16 or 17 bytes holds two or three words, so an access of
four words spans packets and a packet holds words of several accesses; three accesses
over a pipeline of two fill it, wait for it and leave a read half answered when the
target refuses a packet, before, between and behind others. Two write requests and 17 bytes are what it takes for a
block of writes that still has room to refuse the next request (the negative free count of
`get_request_space`). What a larger instance adds is
more of the same, and the safety properties are proved for all instances. For `packet`,
1100 bytes hold more than 255 words (the limit of DAP_Transfer's count), and 300 words
span the limit in one access. For `access`, what goes wrong takes one call whose accesses
are thrown away, a place where that is noticed, and a second call that trusts a cache;
packets may end anywhere in the queue. For `usb`, two sessions reach the reopening of an
interface after every way of ending the one before, and two SWO threads what a third
would repeat. The caller has then used up its
sessions and stops, so that run does not check for deadlock. For `core` and `registers`,
the token is compared for equality with the last one seen only: two runs make a stale, a
current and an invalid cache; a second failure reaches the reset that swallows one and
then fails in its restoring. For `memory`, one comparator makes the second hardware
breakpoint fail or fall back to software, in RAM, and leaves flash with none; the ranges
overlap, contain each other and cross the end of a region into a device. For
`commander`, the chunk of 2 and counts of 1 to 3 are one less, equal and one more than it;
two late answers are enough for a request to take another's and leave its own.

The runs take from a few seconds to a minute and a half; the largest are `usb` (a million
states), `registers` (four million) and `memory` (half a million).

What they show.

* `Fits`, `DecodedAsAdded`: packets and answers fit; a packet that began as a block and
  was joined by another request is decoded as the accesses that were added.
* `OwnResults`, `ImplementsPort`: every read gets its own words, in order, once.
* `InFlightBound`: the guarantee of `_send_packet`'s docstring.
* `SilentWire`, `NoOrphanData`: what an abort leaves: no answer on the wire, no data
  without a transfer (where `_transfer_list[0]` would raise IndexError).
* `FlushCompletes`, `ReadNowFlushes`: after a flush, or a READ_NOW, nothing is unsent,
  unread or unanswered.
* `CallsReturn`: every call returns, also when the interface fails (`link_failing` has the
  behaviours without a failure too). The two ways in which
  it might not are told apart: waiting for an answer that is never sent (`AnswerOwed`), and
  going round a loop without getting on (`CallsGetOn`, over the measure `WorkLeft`).
* `PermitPerPacket`: semaphore, endpoint and packets stay in
  step, so that the thread never waits at the endpoint for nothing.
* `OwnAnswers`: a command takes the answer to the very packet it wrote and the engine that
  to its oldest, as long as no call goes past packets in flight: `identify`, `vendor`,
  `connect`, `swj_sequence` and the SWO commands do not flush, and rely on callers who did.
* `SwoInOrder`: SWO data keeps its order with nothing lost or doubled, from the probe to
  `read_swo`.
* `BankRight`: an access goes to the access port and the bank it was meant for, wherever an
  earlier error was noticed, but for `flush` and `set_clock` (finding, below).
* `SizeRight`: data goes in the size and to the address asked for, if every error came out
  in a memory access on the same access port. The condition is what the code needs: an
  error noticed in a flush, in the TAR write of a block, in a read of IDR or CTRL/STAT, or
  in another access port's call leaves `_csw` standing, though the write of CSW may have
  been thrown away; so does the hardware reset of `CortexM`.
* `FaultCleared`: after a fault that anybody handles, the clear of the sticky error is the
  first thing the target is sent. `CallsEnd`: every call returns or raises.
* `ImplementsWire`: answers keep their order across dead threads and sessions.
* `ResetCaught`, `StepOne`: a reset that stops on the reset handler has the core there, fresh,
  when it restores DEMCR; a step executes one instruction.
* `CacheRight` (registers, and memory): what a cache would answer for a halted core is
  what the core would, but for the failures that each names (below). `PartsKept`: writing a
  part of a combined register leaves the other parts.
* `BreakpointsHidden`, `BreakpointsArmed`: reads show the program; the table, the slots,
  the comparators and the BKPTs in memory agree, whatever was set, removed or run into.
* `IntervalsDisjoint`, `ReadsPossible`: the cache's intervals do not overlap, and what it
  lacks of a range is read in accesses the port can make, each byte once.
* `StaysHalted`, `AsTold`, `BlockComplete`: looking at a halted core leaves it halted; a
  command of which no access failed leaves the core as it was told to; a block is whole.
* `CallsEnd`, `CommandsEnd`: calls and commands come to their end.

`PermitPerPacket` is stated for the first session: `close`
releases a permit to wake the thread, and if the thread leaves at its loop test instead
of taking it, the permit is still there when the same object is opened again. The thread
then reads an endpoint nobody asked anything of, and dies after ten seconds
(`CallsReturn` and `ImplementsWire` hold regardless). In DAPCmdr an object is seldom
opened twice.

## Findings

`link_overrun` — `_send_packet`'s docstring guarantees that the packets written and not
read never outnumber what the device supports. After an error other than a TransferError
(a read that timed out), `_abort_all_transfers` empties the list of commands to read
without reading the outstanding answers; they come later, and the pipeline is overrun.
`OwnResults` and `SilentWire` fail under `FailingSpec` for the same reason: the next packet
takes a late answer for its own, and only a different command code or count gives it away.

`link_lost_result` — a deferred read that an abort failed keeps its exception, which
`get_result` is to raise; its loop waits for a result only, finds nothing to read and
nothing to send, and fails its assertion instead.

`access_skipped` — a fault noticed in `flush`, the way `CortexM` ends a halt, a step or a
software reset, throws queued accesses away like any other, but neither the probe's `flush`
nor `DebugPort.flush` invalidates the cached SELECT. If the write of SELECT was among them,
the next access skips it as unchanged and goes to the access port selected before.

## What the properties leave out

Where the code does not do what one would want and no line of it promises more, the
property says what does hold, and the model goes on past that point.

* *USB.* The adaptor's `swo_stop` does not stop the interface's thread, so that a second
  `swo_start` makes a second reader (`SwoInOrder` until then). A thread that stops leaves
  None in `swo_data`, which a session opened later finds; `read_swo` then raises, then and ever
  after, and throws away what it had accumulated. `swo_start` does not look at what
  `swo_configure` returned. An `open` that fails after the interface was opened leaves it open.
* *Run control.* A failing `reset_and_halt` leaves VC_CORERESET set; a failed step leaves
  the token as it was and C_MASKINTS set; a reset swallows the errors of its polling.
* *Register cache.* A write that raises after it was cached leaves the new value
  (`cache.py:196`). `write_core_registers_raw` drops parts of CFBP when a list of raw writes
  begins with one (`cortex_m.py:1123`); aliases (MSP and SP, d0 and s0) are not
  invalidated with each other, and the run has none of them.
* *Memory cache.* A step that raises after its instruction and before its new token
  (an access of `cortex_m.py:693`–`701` fails; the token is counted at 703) leaves the
  cache with the bytes from before the instruction (`untold`), as it does the registers'.
  Deferred or partial writes, and writes to flash, are cached though the
  target did not take them; what is read of a core that sleeps or is in reset is cached
  with the token that later holds for the halted core (`cache.py:242`).
* *Breakpoints.* A write over a planted BKPT is hidden, and undone when the breakpoint is
  removed (`software.py:80`). A removal whose write fails leaves a BKPT that nobody
  remembers; `remove_all_breakpoints` that fails leaves a table of disarmed ones
  (`manager.py:51`); a comparator whose write fails is lost (`fpb.py:115`). Blocks of
  words are filtered at `addr + i` (`manager.py:164`) and left out.
* *Commander.* After a late answer of OpenOCD was taken for another's (`mixed`), a command may
  take a halted core for a running one and let it run. An exception between `halt_required`'s
  halt and its `go_back` leaves the core halted; a core that stops by itself between its
  look and its halt is let run again. `connection_required` drops a link without closing
  it, and opening it anew does not initialise the debug port. OpenOCD asks for
  `min(128, count)` items every time round, so that a block of more than 128 returns
  more than was asked (`BlockComplete` asks for no fewer).

## Fairness

`DapLink` assumes weak fairness of `ContinueCall` (the thread inside a call runs; it
never waits for anything but an answer) and of `Probe` (the firmware executes what it is
sent: without it every read waits for ever, as the code does). Nothing makes the caller
start anything. In `FailingSpec` failures are not fair: an interface need not fail.
`DebugAccess` assumes weak fairness of the thread inside a call and of the target.
`ProbeCommands` assumes weak fairness of the caller inside a call, of the receive thread and of
each SWO thread (all scheduled threads), and of the probe.
`CoreRunControl` assumes weak fairness of the thread inside a call and of the core as far
as hardware gives it: it takes a halt that was asked for, comes out of reset, and
executes the instruction of a step. It need not wake, stop or run otherwise. The limits on
waiting (`GiveUp`) are time, and not fair.
`Commander` assumes weak fairness of the steps of a command. Its user need not type.

## Proofs

Assumptions: `RequestAssumption` (reads and writes are different requests),
`LinkAssumption` (packet size from 9 to 65535, at least one packet, counts from 1 on),
`BuilderAssumption` and `AccessAssumption` (access ports and sizes are numbers, 32 is a
size). The other modules' assumptions (`InterfaceAssumption`, `CommandAssumption`,
`RunAssumption`, `RegionsAssumption`, `PageAssumption`, `BreakpointAssumption`, `XLinkAssumption`)
say which values their constants take, and `RangesAssumption` that what is read and written
through the memory cache has a first address and a length of at least one. `CacheAssumption`
says that the register cache is asked for registers, and given values with all their parts. That of the
breakpoints says that both bytes of one in RAM are in memory and that the program keeps no
data under one. TLC evaluates all of them.

*Packets* (`DapCommandProofs`, `PacketBuilderProofs`). `PacketWellFormed` is the inductive
invariant: counts are naturals, a block holds reads or writes only, the lengths are
within the size. `PacketFits` follows for every size and every sequence of accesses;
`NewCommandHasRoom` says an empty packet always takes a word. `PacketsDecode` proves
`DecodedAsAdded`. Its `DecodeInv` says that the words counted are the words added, and that
a packet that may still go out as a block holds words of one request, the one of its header;
`WellFormed` has that no count wraps round. What was added is written out by a fold
(`FlattenSegments`): that its recursive equation has a solution for any number of segments
(`UnfoldsExists`), and that another segment comes out behind the others (`FlattenAppended`),
are proved by the least number for which they would not hold.

*Types* (`DapLinkProofs`). `TypeCorrect` holds under `FailingSpec`. `TypeOK` alone is not
inductive: `held` must stay within the transfers, which needs that a deferred read in
progress has already made its transfer (`ReadStarted`).

*The safety of the engine* (`DapLinkProofs`). None of `OwnResults`, `InFlightBound`,
`NoOrphanData`, `SilentWire` is inductive: each speaks of one end of a chain that goes from
the transfers through the current packet, the packets in flight, the wire and the response
buffer. `IInv` describes the chain:

* `Flight`: the answers and packets on the wire are those of the commands to read, in
  that order (`AnswersMatch`); while an abort drains, exactly `drainLeft` are left
  (`Drained`); and their number is bounded;
* `Order`: the first-word numbers of the packets follow each other (`PacketsFollow`), so
  do those of the pending transfers (`TransfersFollow`), and the words not yet handed out,
  in the buffer, in flight, in the current packet and still to be packed, are exactly
  those the pending transfers ask for, from the head on (`BufferFollows`, `HeadFollows`);
* `TodoOnlyPacking`, and the results handed out so far (`OwnResults`).

There is one lemma per action. `ResultsAreOwn`, `PipelineBounded` and `WireIsSilent` follow,
under `Spec`, for all values of the constants.

*What a failing interface cannot undo* (`DapLinkProofs`). When answers come late or not at
all, `Flight`, `BufferFollows` and `OwnResults` are lost: answers are taken for others'.
`Books`, what the engine's lists say of each other, does not depend on any answer, and is
inductive under `FailingSpec`. `DataHasAnOwner` proves `NoOrphanData` from it;
`AnswersAreOwed` proves `AnswerOwed` with `Owed`, that the probe owes at least the packets to
read and the answers to discard (after a time-out, more). `CallsAdvance` proves `CallsGetOn`
with `GetsOn`: a packet is sent only with a word in it, nothing is packed any more when
`flush` reads its backlog, and an empty packet has room for a word. The two are the
safety halves of `CallsReturn`: no wait is for an answer that nobody will send, and the steps
of a call come to an end.

*Flushes* (`DapLinkProofs`). `FlushesComplete` and `ReadsNowFlush` prove `FlushCompletes`
and `ReadNowFlushes`. `IInv` does not say where in the chain a read has got to; `Ends`
does: before flush reads its backlog the current packet has been sent (`SentFirst`); no
pending transfer asks for words beyond those packed or still to pack (`ListEnds`), and the
words of an answered one have left the buffer (`DoneEnds`); the read in progress is the
newest, and its words, once packed, are the last ones: some are in the current packet,
or it is empty, and every packet in flight was begun before the last of them
(`ReadEnds`). So if it is answered, nothing is left.

*Refinement* (`DapLinkProofs`). `PortRefined` proves `Spec => ImplementsPort`: with
`IInv` and `Listed` (the transfer list holds the pending transfers, all of them, oldest
first) every step asks for a read, answers the oldest pending one with its own words,
fails all pending ones, or leaves the port alone.

*Access* (`DebugAccessProofs`). `TypeCorrect` needs `Shape` besides `TypeOK`: the steps of
a call are those of one access or a single call of the link, and SELECT is unknown while
a reset waits. `BanksAreRight` proves `BankRight` for any number of access ports, calls,
refusals and resets. `BankRight` speaks of the access the target executes next, and only
while no error has surfaced in a flush; the invariant `BankInv` says how that access got
there: of every access in the queue, the last write of SELECT before it (or, if there is
none, the target's SELECT) selects the port and bank it was meant for, and the cache holds
the last one queued (`Selected`); unless an error waits to be noticed, in which
case the queue behind it is refused or thrown away (`FaultSticky`), or has just been
noticed, and the abort goes first (`ClearsFirst`). `FaultsAreCleared` proves
`FaultCleared`, which is inductive together with the types. `SizesAreRight` proves
`SizeRight`; its `SizeInv` says the like of CSW and TAR as `BankInv` of SELECT, for each
access port whose errors came out in its own memory accesses only (`DataRight`): every
transfer in the queue will find its size and its address, and what is cached of CSW will
be so. It needs the shape of what is left of a call (`Planned`: a call that transfers data
has its size in place or still to write, then its address) and that a reset starts with
nothing cached (`Forgotten`).

*Permits* (`ProbeCommandsProofs`). `PermitsMatch` proves `PermitPerPacket` for any number of
calls, packets and SWO threads. It is inductive with three additions: the counts are
numbers (`CountTypes`); before the first `open` there is nothing at the endpoints and no
permit (`Untouched`); and the stop of the receive thread is set by nobody but a `close`
(`StopsClosed`), so that in a session the thread takes its permit and reads one answer.

*The wire* (`ProbeCommandsProofs`). `WireRefined` proves `ImplementsWire`: every step of the
callers, the threads and the probe is a step of `Wire` or leaves it alone. The mapping
takes the packets and answers at the endpoints, in the thread's hand and in its queue for the
wire's (`InHand`, `Answers`). `WireInv` says what the mapping needs: a thread that has
exited has left its None behind the answers and nothing comes after it (`NoneLast`), and
between two sessions no thread lives and nothing is queued (`QuietClosed`).

*SWO* (`ProbeCommandsProofs`). `SwoIsInOrder` proves `SwoInOrder` for any number of threads
and chunks: what is at the endpoint are the probe's last chunks (`EndpointLast`), one
thread lives at most until a second is started (`OneReader`), and what it holds and what
is queued are the chunks before those (`HandInOrder`).

*Whose answer* (`ProbeCommandsProofs`). `AnswersAreOwn` proves `OwnAnswers` for any number
of packets, calls, sessions and threads. The action says what a read that returns takes; the
invariant says what is there to take (`TurnInv`): while nothing strayed, the answers on the
wire and the packets behind them are the last `Pending` of those written, in order
(`Waits`), and with a backlog the caller is between two calls, in a flush, or sends a packet
of the engine. That rests on what is left of a call (`StepsInv`, which also says where the
caller stands): every command is followed by the read of its answer (`Paired`), only
`_send_packet` writes for the engine (`PacketFree`, `Sends`), and behind a command of SWO is
the mark where its refusal goes on (`Marked`), without which a refusal would read twice.
Lemmas show it of every call, put together from its commands (`JoinedWhole`), and of every
rest of a list (`RestListed`).

*Run control* (`CoreProofs`). `ResetsAreCaught` proves `ResetCaught` and `StepsAreSingle`
`StepOne`, for every set of reset types, any number of calls and of failed accesses.
Neither property is inductive: each speaks of one late step of a call, and what makes it
so was done by the steps before. The invariants are grammars of what is left of the call
(`Outline`, from `Starting` to `Restoring`; `StepOutline`, from `Clearing` to `Stepped`) with
what is known of the core at each stage: debug on, the catch on, then the reset made and
bound to end in a halt (`Armed`), then what `get_state` told no more than what is so
(`Told`), then halted (`Caught`); for a step, halted with nothing executed (`Before`),
let run for one instruction (`During`), halted after it (`After`). `Outline` is claimed only
while no access failed, as `ResetCaught` is; a step of which an access failed is given up.
That each call begins in its grammar is proved from its list of steps. `RunTypesCorrect`
proves `RunTypeOK` (the state of run control is of its types, which the run `registers`
checks as part of its `TypeOK`); that the tokens stay within the bound needs that a call has at most one
step left that counts one (`TokenLeft`).

*Register cache* (`CoreProofs`). `TypeCorrect` needs the grammar of a cached call
(`AskingFirst` to `Writing`), since what a write is given is kept until its last step
(`Listed`), and what the writes of a list leave in each part (`PartAfter`), for any list: the
greatest index is the least of a set of numbers (`Least`, `LastOfSome`). `CacheIsRight` proves
`CacheRight`. `CacheInv` holds within calls too: unless the cache is about to be dropped or
has nothing to answer with (`Blank`), every cached register is the core's, or is to be written
by the write in progress (`Right`, `Pending`), and every step in which a halted core would
change its registers or leave its halt (`HotSteps`) has a step before it in its call that counts a new
token (`Covered`). `resume` counts one only if it was told that the core is halted;
that it is told so whenever it is halted (`SeenRight`, `AgainRight`) is why a resume covers
what follows it. `KeptAfter` says what a list of writes makes of a register that stays in the
cache. `PartsAreKept` proves `PartsKept` from the types and `UnnamedKept`.

*Splitting* (`MemoryCacheProofs`). `RangesAreSplit` says of `Accesses`, for every address,
length and page size, what `ReadsPossible` asks: the accesses are possible, follow each
other and make up the range. `Chain` is that of a list of accesses; chains join
(`ChainJoined`), and each part of the split is one. The blocks (`Pages`) are a recursive
function: the least number of words for which there is no such function, or it is no
chain, would have one below it (`Least`).

*Breakpoints* (`MemoryCacheProofs`). `BreakpointsAreHidden` proves `BreakpointsHidden` for
every memory map. `HiddenInv` speaks of the bytes that are not in doubt: the filter knows
the program's bytes under each breakpoint that it hides (`FilterRight`), memory holds all
the others (`MemoryRight`), and what a removal puts back is what the filter shows
(`OriginalsRight`). `BreakpointsAreArmed` proves `BreakpointsArmed` for any number of
comparators. `ArmedInv` counts the breakpoints that are still set (`Live`), of which
`remove_all_breakpoints` has some left while the table has all: each has its slot and its
comparator (`SlotsMatch`), `used` and the free slots count them (`Counted`), and the BKPTs
in memory are those of the software breakpoints (`Planted`).

*Memory cache* (`MemoryCacheProofs`). `IntervalsAreDisjoint` and `ReadsArePossible`: the
cached intervals are disjoint and without gaps (`Intervals`). `LackingIs` says what the
fold `UncachedRanges` computes: pieces that share no byte and together are all that is
lacking. It is proved for every order in which the fold takes the intervals, by the
least number of intervals for which it is not so. `WrittenIs` and `AddedIs` say what the
cache is after a write and a read. `CacheIsRight` proves `CacheRight` with `CacheInv`:
while the cache counts as the core's, its bytes are the program's but for those in doubt and those
untold, nothing of it is a device's, and it is empty unless the core is halted; with `HiddenInv`
they are what a read returns. `TypeCorrect` needs more than `TypeOK`: software breakpoints
are in RAM (`TableTypes`), and the data that the program changes are never a BKPT
(`MemTypes`).

*Commands* (`CommanderProofs`). Chips, counts, the chunk and the number of late answers and
failing accesses are any. A link's access that goes on is the same for all three links
(`Access`): it took effect and told so, or it failed, or its answer was another's, and it
takes a step off the list, repeats it, or puts a halt in place of a look (`Evolves`). What is
proved of a command is an invariant on the list of steps it has left, and holds at its
beginning because the lists of `XLink`'s operations have it (`CommandsGiven`).

* `HaltedCoresStay` proves `StaysHalted`. While the core is halted and nothing is to let it
  run, every `go_back` left has its look before it, or what that look saw, `wasHalted`, is
  known (`HaltInv`, `Led`).
* `CommandsDoAsTold` proves `AsTold`. Either the core does what it is to do, and whatever
  halts it in the steps left stands between a look and its `go_back` (`NeutralFrom`); or one
  step left sees to it, go, halt, a reset or the end of the wait (`DecidedBy`), or the
  `go_back` whose look was made (`RestoredBy`), nothing before it ends the command, and
  the steps behind are neutral (`ToldInv`, `Settles`). It covers the commands end to end, the connection
  and the check included; without `is_halted` among the steps before, a command could end early.
* `BlocksAreComplete` proves `BlockComplete`: a list has one request of a block and what is
  moved is used after it (`OneMove`); between two requests the items so far are those from
  the first on, as many as `index` and `addr` say (`Fresh`); after the last they are complete
  (`Complete`). The order of items is proved for each chunk (`ChunkRight`).
* `TypeCorrect` proves `TypeOK`, whose bounds on answers and block are not types only.

Induction over data is out of reach of the library's induction theorems; where it was
needed, the well-foundedness of the numbers gave the least counterexample instead.

Only model-checked: the liveness properties (`CallsReturn`, `CallsEnd`, `CommandsEnd`). To
go from `AnswerOwed` and `CallsGetOn` to `CallsReturn` takes ENABLED and fairness.

## What is not modelled

* The DAP index (asserted to be 0), word values, request bytes beyond read and write,
  the formatting of packets, logging.
* Of the commands to the probe: `set_led`, `write_abort`, `reset_target`, `jtag_sequence` and
  `jtag_id_code`, of the same shape as the others and never called.
* In the engine, the acknowledge values other than OK: every other is a refusal. Their
  kinds matter to the layers above and are told apart in `DebugAccess`.
* In `DebugAccess`: values read, deferred reads of registers, the
  power-up sequence and the scan for access ports. What runs behind a WAIT or a missing
  acknowledge before the host has read of it is left open by `BankRight` and `SizeRight`:
  packets in flight are not recalled.
* The other USB back ends: `pyusb_backend` repeats the design of `PyUSBv2`; what
  distinguishes `pywinusb` (a read that times out while the answer may still come) is
  `DapLink`'s `ReadTimesOut`.
* In `CoreRunControl`: floating-point registers, delegates, the GDB description. In
  `XLink` and `Commander`: values of registers, files, completion, help, the search for
  packs; `targets` of OpenOCD is taken to be accurate and always answered.
  An answer of OpenOCD that comes in pieces over more than two seconds is cut off by `_read`
  (`openocd.py:35`), and its rest is taken for the next: answers are modelled as whole and
  late, never as parts.
* Watchpoints: the commander sets none. (A DWT slot whose programming fails stays found,
  `dwt.py:139`.)
* Session and target set-up, the stream server and semihosting: the commander starts
  none of them. ROM table, trace and discovery: a sequential walk without state.
  J-Link's DLL, ELF, SVD and presentation stay out.
