# Verification of hfirmware

TLA+ models of the firmware under `src/` (ChibiOS kernel, its libraries and the
application of a Bluetooth audio chip), model-checked with TLC. The safety of the
configuration store, the message service, the power scan, the heap, mailboxes,
semaphores, synchronous messages and dynamic threads is also proved with TLAPS,
for any number of threads, messages and blocks. `PROJECT.json` maps every
definition to the source lines it translates.

## The system

The firmware is ChibiOS/RT (`os/rt`), drivers (`os/hal`) and libraries (`lib`).
Everything runs on one core: threads with fixed priorities, interrupt handlers,
and two service threads that most of the library hangs on: the *timer service*
of `lib/oshal`, which runs timer callbacks taken from one mailbox, and the
*message service* of `lib/config/system/cfg_sys.c`, which takes events from
another and calls handlers and listeners.

| part | state | operations | where it is hard |
|---|---|---|---|
| configuration store, `cfg_cachemem.c`, `cfg_hal.c` | list of cached 4K blocks, NOR flash, backup area | read, write, flush one/all, restore | power loss in any flash operation, failed writes, reuse of a freed node |
| configuration items, `cfg_main.c` | header (tag, length) and data of each item | get, get part, set | set is several cache operations, header read outside the lock, failing allocations |
| buttons, `cfg_button.c` | `g_stBnInfo`, its periodic timer | press interrupt, timer callback | bounce, interrupt against callback, expiries that arrive late, 16-bit time |
| message service, `cfg_sys.c` | mailbox, count of fast events | send, serve, clear | unlocked count, full queue, handlers that send |
| listeners, `cfg_sys.c` | linked list and its mutex | listen, cancel, walk | mutex released around callbacks, head read before it is taken |
| LEDs, `cfg_led.c` | two bit maps, one timer per LED | start, blink, wait for the end | two threads on a bit map, lost expiries, a wait without limit |
| heap, `chheap.c`, `chmemcore.c` | free list, core memory | allocate, free | splitting and merging, mutex released before the core is asked |
| DMA memory, `bmem.c`, `lib_mem.c` | bit map of units | allocate, free | one-pass scan, 16-bit size |
| mailboxes and semaphores, `chmboxes.c`, `chsem.c` | ring buffer, two semaphores | post, post ahead, fetch, reset, time-out | claims of woken threads that have not run |
| virtual timers, `chvt.c` | delta list | arm, disarm, tick | callbacks that arm and disarm inside a tick, wrap of the time type |
| mutexes, condition variables, scheduler, `chmtx.c`, `chcond.c`, `chschd.c` | ready list, queues, owners, priorities | lock, unlock, wait, signal, broadcast, set priority | inheritance along chains, order of queues |
| semaphores, messages, events, byte queues, `chsem.c`, `chmsg.c`, `chevents.c`, `chqueues.c` | counters, masks, queues of threads | wait, signal, send, broadcast, put, get, reset | woken threads that run later, time-outs, waits for any or all |
| dynamic threads, `chdynamic.c`, `chregistry.c` | references, registry | create, pass on, wait, release, walk | release that decides outside of the lock |
| oshal timers, `oshal_chibi.c` | timers, one mailbox | create, start, stop, delete, serve | expiries posted before a stop or a delete |
| audio users, `audio.c`, `ao.c`, `cfg_audio.c`, `app_fsm.c` | owner of the device, stack of events, flags of three users | start, stop, resume | flags tested before the lock, RESUME after it |
| audio streams, `audio.c`, `i2s_lld.c` | two rings, hardware and software pointers | get buffer, done, interrupt, start, stop | full and empty ring, DMA at the end of the ring, sleeping with the mutex |
| music, `music.c` | status, message queue, signal, timer | start, stop, pause, next, destroy, disk removed | a signal cleared before the wait, puts into a queue only the thread empties |
| power, `drvhal.c`, `pmu.c`, `lib_adc.c` | counters of the scan, requests | scan, serve a request | one moment to switch off, a count of one byte, a full queue |
| PPP, `fsm.c`, `lcp.c` | two machines and a line | open, close, receive, time-out | packets lost and crossing, negotiation that does not converge |
| FAT, `ff.c` | window, FAT, directory, FSINFO, open files | open, write, seek, sync, close, truncate, unlink | card or power gone at any disk access |

How they interact: buttons and handlers send messages; the message service
starts LED actions and waits for them; LEDs and buttons run on oshal timers,
which are virtual timers that post into a mailbox; messages, list nodes, cached
blocks and LED records come from the heap, flash buffers from the DMA memory.
The message service drives the music player, whose output shares the audio
device with the Bluetooth host and the tones; the scan that switches the chip
off runs on an oshal timer and asks the message service to flush the
configuration first.

## Modules

| module | models |
|---|---|
| `CfgBackupWrite` | blocks as opaque contents: cache list, flash sectors, each erase and program of `_cfg_cachemem_blockwr` and `_cfg_cachemem_restore` as one step, failure of any flash write, loss of power in any step |
| `CfgStore` | what the store promises: a write is visible at once and becomes stable a whole block at a time |
| `CfgBackupWriteProofs` | theorems about both |
| `CfgCache` | the same cache byte by byte, for offsets and lengths across blocks; write-back is atomic here, which is what `CfgBackupWrite` shows |
| `CfgItem` | items over `CfgCache`: tags, get, set |
| `CfgButton` | recognition of presses, clicks, repeats and combinations |
| `CfgSys`, `CfgSysProofs` | sending, the service thread, fast events; its inductive invariant |
| `CfgSysListen` | the list of listeners with its nodes in memory; `Chain` is what a walk over their links visits |
| `CfgLed` | LED actions over the timer mailbox |
| `ChHeap`, `ChHeapProofs` | the heap over the core memory |
| `Bmem` | the DMA memory |
| `ChMailbox`, `MBQueue`, `ChMailboxProofs` | a mailbox, the bounded queue it implements, and its inductive invariant |
| `ChVt`, `VtTimers` | the delta list, and the independent countdowns it implements |
| `ChMtx` | mutexes, condition variables and scheduler |
| `ChSem`, `ChMsg`, `ChEvents`, `ChQueues` | semaphores, synchronous messages, event flags (and CMSIS signals), byte queues |
| `ChThreads` | dynamic threads, their references and the registry |
| `ChSyncProofs` | the inductive invariants of `ChThreads`, `ChSem` and `ChMsg` |
| `OshalTimer` | timers over the mailbox of the timer service |
| `AudioUsers` | who plays: player, Bluetooth host and tones on one device |
| `AudioPlay`, `AudioRecord` | the rings between a thread and the DMA |
| `Music` | the music thread, its client and its timer |
| `Power` | the scan, the power key, the battery's filter, the countdown |
| `PppFsm` | two ends of a PPP link and the line |
| `FatFs` | a volume, two files, crashes |
| `MCConfig`, `MCThreads`, `MCTimed`, `MCDevices`, `MCKernel`, `MCChains` | instances for TLC, several components side by side; `MCCfgItem` and `MCCfgSysListen` are the instances of two violations |
| `MCConfigProofs`, `MCThreadsProofs` | the theorems about what `MCConfig` and `MCThreads` put together |
| `Counts`, `Counting` | the facts about finite sets that the proofs use, and their proofs |

Steps are as small as the code's atomicity: a section with the system locked, or
with a mutex or semaphore held, is one action; a plain load and the store that
follows it are two where another thread can come between. `chRegNextThread` is one
action up to the unlocked part of its release: between its two locked sections the
walk has a reference to both threads, which keeps either from being freed. Contents, messages and
events are model values; integers wrap at the width of their C type.

A loop whose passes nobody can see between is written as what it does at once:
`chSemAddCounterI` wakes the first n of its queue and adds n, a walk over links
is the sequence of nodes it visits. A caller chooses the arguments of a set of an
item when it has the lock; what it read before that, the length in the header, is
kept from then.

Memory that was freed keeps its content until it is handed out again
(`CfgSysListen`) or may have been cleared (`HeapReuse` of `CfgBackupWrite`).

A variable `world`, `faults`, `layout` or `part` is chosen in the initial state
and never changes. It says which disturbances may happen in a behaviour, so that
one run covers all of them and each property names the ones it depends on.
Each of the six modules named above has a variable `part` that lets one
component run while the others rest: those it puts together have no variable in
common, so nothing is lost by that.

External to `src/`: the NOR flash. Erasing makes a sector blank, programming a
blank sector stores the data and anything else leaves junk, and power loss leaves
junk in the sector that is worked on. Two assumptions come with it: the checksum
of the backup record tells a torn record from a whole one, and so does
`CFG_BKW_DATA_FLAG` for an erased or zeroed one.

## What the runs check

`tlc -config X.cfg M` for the modules and configurations below.

| run | module, config | components | distinct states |
|---|---|---|---|
| `config` | `MCConfig`, `Config.cfg` | blocks with any number of power losses and failed writes; two threads and the handlers that send; the power scan and the requests it makes | 729 789 |
| `threads` | `MCThreads`, `Threads.cfg` | mailbox, messages, semaphores, dynamic threads, listeners, audio users | 179 480 |
| `timed` | `MCTimed`, `Timed.cfg` | buttons (two keys that bounce in any way, GPIO or ADC), LEDs, oshal timers | 668 184 |
| `devices` | `MCDevices`, `Devices.cfg` | playing and recording stream, music, PPP | 342 614 |
| `kernel` | `MCKernel`, `Kernel.cfg` | heap, DMA memory, virtual timers, mutexes, events, byte queues | 156 557 |
| `chains` | `MCChains`, `Chains.cfg` | FAT volume; two threads on configuration items | 99 194 |

The components' properties are in their modules. A run checks them under one name
for what belongs together:

| run | property | consists of |
|---|---|---|
| `config` | `Coherent` | `ReadsLatest`, `FlushAllDurable` |
| | `MessagesSound` | `FastUnmasked`, `HeapBalanced` of `CfgSys` |
| | `GoesOff` | `OrderlyOff`, `ReadyGoesOff` |
| | `CallsReturn` | `SemReleased` of `CfgBackupWrite`, `ServiceReturns` of `CfgSys`, `CountdownEnds` |
| | as they are | `Recoverable`, `ImplementsStore`, `CountExact` |
| `threads` | `MailboxSound` | `SlotsAddUp`, `NoLostWakeup` |
| | `SendersSound` | `SenderInOnePlace`, `WokenFindsSender` |
| | `ThreadsSound` | `RefsExact`, `RegistryExact`, `LeakOnlyEarly`, `WaitedForRuns` |
| | `ListenersServed` | `ListIntact`, `ListenersCalled` |
| | `UsersAgree` | `MusicSoundsAlone`, `OwnerOnTop`, `NobodyForgotten` |
| | as they are | `IsQueue` of `ChMailbox`, `CounterExact`, `ReferenceKeepsThreadAlone` |
| `timed` | `WellBracketed` | `Bracketed`, `LongIsNoClick` |
| | `LedsSound` | `OneDriver`, `RepeatHolds`, `WaitedForIsAlive` |
| | `TimersServe` | `ReleaseComes`, `ServiceReturns` of `CfgLed`, `PostedIsServed` |
| | as they are | `PressHasTimer`, `PendingIsLive` |
| `devices` | `StreamsSound` | `AllHeard`, `TakenInOrder`, `SleeperWakes` of `AudioRecord` |
| | `MusicAwake` | `NoCommandSlept`, `PlayingPlays` |
| | `LinkExact` | `UpExactElse`, `TimerExact`, `Agree` |
| | `WaitsEnd` | `SleeperWakes` of `AudioPlay`, `DestroyEnds`, `ComesUp` |
| | as they are | `NothingTwice` |
| `kernel` | `HeapSound` | `FreeListSound`, `NoOverlap`, `NothingLost` |
| | `BmemSound` | `MapExact`, `BlockLargeEnough`, `ScanIsFirstFit` |
| | `LocksSound` | `OwnersAgree`, `NoCircularWait` |
| | `PrioritiesSound` | `PrioExact`, `QueuesSorted`, `RunsHighest` |
| | `WakeupsKept` | `NoSleepThrough`, `WokenFindsEvents`, `NoFlagMissed`, `EveryByteClaimed` |
| | `KeepsOrder` | `IsQueue` of `ChQueues` |
| | as they are | `TimersIndependent` |
| `chains` | `VolumeSound` | `DiskSound`, `DataSafe`, `NoneLost` |
| | as they are | `SetThenGet` |

Each run checks the type invariants of its components as well. `PROJECT.json` lists,
for every one of these conjuncts, a fault in the code that breaks it.

**Configuration store.** `Recoverable`: at every step of every flush and
restore, the next boot can rebuild each block whole. `ReadsLatest` and
`FlushAllDurable`: reads are coherent, and a flush of everything that returned
`HS_CFG_OK` is durable. `ImplementsStore`: the protocol implements `CfgStore`, so
the step that makes a block stable is the one that completes the backup record.
`SemReleased`: every flush, with the restore after it, ends. The variable
`health` marks the one gap: after a restore that failed, the next flush erases
the backup that may be the only copy of a block ("lost"), and the promises end.

**Items.** `SetThenGet`: after sets that succeeded, a get returns what they left,
whatever was flushed, lost with power, or failed before. A set that fails
half-way leaves the item with a wrong tag until the next one succeeds; that is
what the history value `Torn` stands for.

**Buttons.** `Bracketed`: a press is announced once and released once, with long
presses and repeats inside and a click only with the release. `LongIsNoClick`.
`PressHasTimer`: a press in progress has its timer, so the buttons never go dead.
`ReleaseComes`: when the keys stay up the release is reported. What they depend
on: `Bracketed` needs a timer thread that keeps up with the timer ("late" is the
other case: an expiry posted before `oshalTimerStop` runs the callback on the
cleared data of a new press), `PressHasTimer` needs that no press interrupts the
callback between the clearing of `u8Pd` and the stop of the timer ("isr"), and
`LongIsNoClick` that a press ends before its 16-bit time wraps (65.5 s).

**Message service.** `FastUnmasked`: no event reaches the tables with
`FAST_EVENT_MASK` on. `HeapBalanced`: no message is leaked or freed twice.
`CountExact`: `g_u32FastEvent` drifts
from the number of fast messages only by those that found the queue full.
`ServiceReturns`: a full queue never blocks the service on itself. The first
needs that changes of `g_u32FastEvent` are not interrupted and that no button is
released while a fast message is queued; run `sys_release` is that case. The
second excludes `hs_cfg_sysClearMsg`, which only the test shell calls and which
drops messages without freeing them.

**Listeners.** `ListIntact`: the list is exactly what is registered.
`ListenersCalled`: every listener registered before the walk and not cancelled in
it is called. Checked with threads that listen during a walk, and with callbacks
that cancel themselves, but not both: the walk then reads the next pointer of a
node that was freed and may have been handed out again (run `listen_reuse`). Two
threads that overlap in listening or cancelling, or a cancel by another thread
during a walk, break the list in the same way, because both functions read the
head before they take the mutex; the model has these worlds ("overlap",
"cancel"), and no run claims anything about them.

**LEDs.** `OneDriver` and `RepeatHolds` hold whatever goes wrong. `WaitedForIsAlive`
and `ServiceReturns` (the message service leaves its wait for a LED) hold if
nothing does: the race of two threads on `g_u32LedOverMap`, a failed allocation
after the bit was cleared, or an expiry lost in the full timer mailbox each leave
the message service waiting for ever. So does, with nothing going wrong, an action
whose duty time is its whole period (`Stuck`): its time off is 0, `oshalTimerStart`
refuses it, and no timer ends the action; both properties name it.

**Mailboxes.** `IsQueue`: the ring buffer with its two semaphores implements a
bounded queue. `SlotsAddUp`, `NoLostWakeup`: nothing is counted twice or lost by
time-outs. `LateReset` is FALSE: `chMBReset` while a woken thread has not run yet
leaves that thread a claim on a slot that was emptied. The other services where
threads queue: `CounterExact` (a semaphore's counter tells its queue, what the
assertions of `chsem.c` say), `SenderInOnePlace` and `WokenFindsSender` (a sender
of a synchronous message is queued, served or released, never two of these).

**oshal timers.** `PendingIsLive`: the timer thread uses no timer that was freed
or stopped. The code never looks into the mailbox when it stops or deletes a
timer; what saves it is that the timer thread has the highest priority, so that
no other thread runs while an expiry is there. A callback that sleeps ends that,
and the property says so. `PostedIsServed`: an expiry in the mailbox is served.

**Kernel.** Heap: `FreeListSound`, `NoOverlap`, `NothingLost`. DMA memory:
`MapExact`, `BlockLargeEnough`, `ScanIsFirstFit`; sizes that do not fit
`lib_bmem_alloc`'s `uint16_t` are served with their low bits, and
`BlockLargeEnough` speaks of the others. Timers: `TimersIndependent`. Mutexes:
`OwnersAgree`, `QueuesSorted`, `RunsHighest`, `PrioExact`, `NoCircularWait`; they
assume that threads lock in one order (`InOrder`; unlocking in reverse order, as
the comment in `chmtx.c` has it, is not enough), and that no thread lowers its
priority while it owns a mutex (`LowersOwning`; `chThdSetPriority` then drops an
owner below a waiter of its old priority). Events: `NoSleepThrough` (no thread
waits for what is pending), `WokenFindsEvents`, `NoFlagMissed` (a listener has
every flag of the broadcasts it wants). Byte queues: `IsQueue` (a bounded
queue, which only a reset empties), `EveryByteClaimed` (no wake-up is lost when several bytes move).

**Audio users.** `OwnerOnTop`, `NobodyForgotten`, `MusicSoundsAlone`: the flags of
the users agree with the device's stack of events, whoever was interrupted is
resumed, and a started player is not blocked. The users test their flags before
they take the mutex; with other threads in between (`races`) none of this holds,
and no line of the repository promises it. In particular `MusicSounds`, without
that condition, fails: `hs_ao_start` tests `isStart`, a RESUME starts the player,
and the second start stops the first and blocks it.

**Audio streams.** `AllHeard`, `NothingTwice`, `TakenInOrder`: frames are played
and recorded once and in order, as long as the thread is in time, and none is
played twice even when it is not. `SleeperWakes` of both modules: who sleeps
holds the mutex that stopping needs. That of the writer holds for requests of at most `MaxPlay`
frames (more, without time-out and before the DMA was started, sleep for good). The
time-out is armed before the writer goes to sleep, and what runs out in between
wakes nobody (`early`): before the DMA was started, that writer sleeps for good as
well, and the property names it. That
of the reader names the one place, the start of the ring, where a reader that raced
with a stop sleeps for good. In world "edge" the DMA is seen at the end of the
ring before it wraps, and `TakenInOrder` is not claimed.

**Music.** `NoCommandSlept`, `PlayingPlays`: the thread sleeps over no command and
is not taken for playing when it sleeps, but for a signal that it clears just
after it was set (`lost`). `DestroyEnds`: the end is reached but for the cases
`Hangs` lists.

**Power.** `OrderlyOff`: the configuration is flushed before the chip goes off.
`ReadyGoesOff`, `CountdownEnds`: a chip made ready goes off, and so does one with
a battery that stays empty; a battery that hovers at the threshold is reported
empty again and again, and each report starts the countdown over. They exclude requests dropped by a full queue and a key that
comes up at the very scan that made the chip ready, or after its byte wrapped.

**PPP.** `UpExactElse`, `TimerExact`, `Agree`, `ComesUp`: layers are told up
exactly in OPENED, the timer runs exactly while an answer is awaited, both ends
use what the other acknowledged, negotiation ends. PPP is compiled in only with
`PPP_SUPPORT`, which is 0 by default.

**FAT.** `DiskSound`, `DataSafe`: whenever power or card goes, each file's chain is
as long as its size says, no cluster is in two files, and files hold their own
data. `f_truncate` is the exception: it frees the chain before the entry is
written. Seeks stay within the file: one behind its end makes the file longer,
with clusters nobody has written, which `DataSafe` could not speak of. `NoneLost`: without a crash no cluster is lost and the free count is right.

**Threads.** `RefsExact`, `RegistryExact`, `WaitedForRuns`, `LeakOnlyEarly`: references
are those held, the registry is a cycle through the threads that exist and the
same in both directions, who waits is woken, and only a thread whose last reference went while it ran is never freed.
`ReferenceKeepsThreadAlone`: who has a reference finds the memory, if no thread
runs in the unlocked part of a release; run `thread_ref` is the other case.

Six runs end in a counterexample, each against a line of the repository; the
`findings` of `PROJECT.json` quote them.

| run | property | what happens |
|---|---|---|
| `cfg_flush_reuse` | `FlushAllDurable` | `_cfg_cachemem_cleanunit` frees a node and then reads its next pointer |
| `cfg_item_span` | `SetThenGet` | a read across two blocks takes one from the flash although it is cached |
| `sys_release` | `EventUnmasked` | a button release resets the count while a fast event is queued |
| `listen_reuse` | `ListenersCalled` | the walk continues from a node that its callback cancelled |
| `thread_ref` | `ReferenceKeepsThread` | a walk over the registry gets a reference to a thread that is then freed |
| `ppp_down` | `UpExact` | a Terminate-Ack in OPENED takes the layers down and leaves the machine in OPENED |

### Bounds

Two blocks and two contents distinguish the block that is written back from
another and old data from new. Items are one or two cells, so that a set can
change part of one; blocks of six cells hold two items. The button times keep
the order of the defaults in ticks (debounce < click < long < very long), and
`MaxHold` is past the very long press. The queue of `CfgSys` is shorter than the
number of sends, so it fills up. Three nodes let a listener be first, in the
middle and last. The timer mailbox has room for both LEDs and one other timer,
or is filled by others. Three threads on two slots give a waiting, a woken and
an arriving thread at once. The heap has room for four blocks, two of which can
be neighbours of a third. `TimeRange` 6 lets delays reach the largest value of
the type. Four threads are the fewest in which an owner that waits behind
another waiter inherits a priority. `U8` is 6 instead of 256, so that a repeat
count of 2 is the largest the counter of half turns can reach (127 in the code;
an action with more repeats blinks until it is told to stop).

The frames written (`MaxFrame` 8) and recorded (`MaxRecorded` 9) fill their rings
of 6 and 4 more than once, and requests may be longer than what is left up to the
end. `Arm`, `Hold` and `Byte` of `Power` keep the order of 10, 30 and 256, and a status
of the battery is reported again within `Delay`, as 208 scans are within 300 in
the code. One of the LED actions has no time off. Each
end of the PPP line has two tries, one packet is lost and three times somebody
opens, closes, hangs up or rejects. The volume has three clusters in two sectors
of the FAT, so that two files compete for the last one and a chain crosses
sectors. On a FAT16 volume one of the three belongs to another file, which leaves
room to go on after a first crash; a FAT32 volume is not used after a crash. Two actors and two dynamic threads are the
fewest for a release against a walk that goes on to another thread.

### Fairness

Only the steps the code's scheduling guarantees are fair. `CfgBackupWrite`: the
thread that holds the semaphore keeps running, since none of its steps waits for
another thread, and power is not lost for ever again. `CfgButton`: the periodic
timer fires and the timer thread, which has the highest priority, runs; nothing
is assumed of the keys except in `ReleaseComes`, which is about keys that stay
up. `CfgSys`: the service thread and each sender run, and handlers return.
`CfgLed`: the service thread, the timer thread and the timers run. `OshalTimer`: the
timer thread serves and callbacks return. `AudioPlay`: the DMA goes on, its
interrupt is served and a time-out comes. `Music`: the thread and the timer run;
the client's puts, and the thread's end, are strongly fair, since a queue with
room wakes the first that waits. `Power`: the scan is periodic, and the service
serves. `PppFsm`: what arrives is received, and a retransmission timer that is
armed again and again expires at last (strong fairness). Sends, presses,
commands, flushes, faults and allocations are never fair.

Deadlock is checked in `kernel`. In the other runs a behaviour may end: the bound on
sends of `CfgSys`, the service that waits for a LED once something went wrong
(`ServiceReturns` of `CfgLed` says when it does not), timers that are all deleted, threads that
all send messages to each other, a link that nobody opens any more, a disk that
crashed for the last time, threads that were all freed.

## What is proved

`tlapm M.tla` for `CfgBackupWriteProofs`, `ChHeapProofs`, `MCConfigProofs`,
`MCThreadsProofs` and the modules they rest on, `CfgSysProofs`, `ChSyncProofs`,
`ChMailboxProofs` and `Counting`. The theorems hold for every value of the
constants that meets the named assumptions.

The theorems of `MCConfigProofs` and `MCThreadsProofs` are about the very
specifications and properties that the runs `config` and `threads` check. The work
is done in the components' proof modules, whose lemmas say that `Init` implies
the component's inductive invariant and every step keeps it. The two modules
lift them: `part` never changes, a step of another component leaves these
variables alone, so the invariant of the component that runs holds always. Facts
about finite sets enter the component's lemmas as hypotheses (`FiniteSetFacts`,
`OneEach` of `Counts`); `Counting` proves these, and the theorems use them
through it. Nothing is left as a hypothesis in the end.

**Configuration store** (`CfgBackupWriteProofs`). Assumptions: the sectors and
the special values differ from each other and from blocks and contents
(`AreasDiffer`, `ValuesDiffer`), and `HeapReuse` is a Boolean.

* `TypeCorrect`: `TypeOK`, by induction over the actions; the part that needs
  care is that the list has no block twice (`TailUnique`, `AppendUnique`).
* `AlwaysRecoverable`: `Recoverable`. It is not inductive: it says nothing of the
  data sector before the record is written, nor of where an operation stands.
  `Inv` adds `BackupInv` (at each program counter, what the two backup sectors
  and the target hold) and `StoreInv` (a record in the info sector means whole
  data, and every block it does not name is whole), under the condition that no
  flush has followed a failed restore.
* `StoreImplemented`: `ImplementsStore`. `StableSteps` shows that only
  `BwWriteInfo` changes what is stable, and only for the head of the list;
  `CacheInv` relates the cached blocks to the last writes; each step is then a
  step of `CfgStore` or a stutter.
* `CacheCoherent`: `Coherent`, that is `ReadsLatest` and `FlushAllDurable`, if freed nodes are not
  reused early (`~HeapReuse`). `CoherentInv` adds that a block that is not cached
  is stable as last written and that a flush of everything that succeeded leaves
  the list empty.

**Message service and power scan** (`CfgSysProofs`, `MCConfigProofs`).
Assumptions: finitely many threads, and fewer sends than `g_u32FastEvent` can
count (`SysConstants`); the key's threshold to be armed fits its byte, the
delay is not 0 (`PowerConstants`).

* `ConfigTypes`: `ConfigTypeOK`, the types of all three components.
* `MessagesAreSound`: `MessagesSound`, for any number of senders and any length
  of the queue. That no message is freed twice is not inductive, since it does not
  say who may free one: `OneHolder` of `SysInv` adds that a message is with one
  sender, at one place of the queue, or with the service. That fast events reach
  handlers without the mask needs `Counted`: the count covers the fast messages
  under way and leaves room for those about to be counted.
* `CountIsExact`: the action property `CountExact`, from `CountStep`, which says of
  each step how the count and the number of fast messages under way move.
* `SwitchesOff`: `GoesOff`, for any thresholds. `PowerInv` adds the order of
  requests in the queue (`OffOrder`: before OFF there is PRE, or the chip was made
  ready) and what a key that is held down long enough has already asked for.

**Heap** (`ChHeapProofs`). Assumptions: the header has a positive size and the
sizes are natural numbers (`HdrPositive`, `SizesNatural`).

* `HeapSafe`: `TypeOK` and `HeapSound` (`FreeListSound`, `NoOverlap`, `NothingLost`),
  for any number of threads and any core memory. The conjunction is inductive;
  none of the last three is without the others, since a free finds its place by
  the order of the list and merges by the absence of overlaps. The lemmas say
  what a splice and a cut of the list return, and there is one for each way a
  block is taken, split, inserted and merged with one or two neighbours.

**Semaphores, messages, mailboxes, dynamic threads** (`ChSyncProofs`,
`ChMailboxProofs`, `MCThreadsProofs`). Assumptions: `MaxCnt` is a natural number
(`SemConstants`); `None` is no thread (`MsgConstants`); threads are finitely many,
an interrupt handler is none of them and a mailbox has slots (`MailboxConstants`);
actors and dynamic threads are finitely many, and neither `Root` nor `None` is one
(`ThreadConstants`).

* `SemaphoresCount`: `CounterExact`. `SemSound` adds that nobody is in two places of
  the queues, without which a wake-up could leave a second entry of the same
  thread behind; `LeaveSound` treats signal, reset, time-out and
  `chSemAddCounterI` alike, as a queue that loses some of its members.
* `SendersAreSound`: `SendersSound`. `MsgInv` relates three things both ways: who
  is in a receiver's queue (`Queued`), who is held by it (`Held`), and when a
  receiver may sleep (`Receiving`).
* `MailboxIsSound`, `MailboxIsQueue`: `MailboxSound`, and the refinement `IsQueue`:
  every step of the ring buffer is a step of `MBQueue` or a stutter. The mailbox
  is `ChMailbox` with `LateReset` FALSE. `MbInv` accounts for every slot: the units of
  each semaphore and the claims of threads that were woken and have not run add
  up to `Size`, and the write pointer is as far behind the read pointer as there are
  messages. Only with the claims counted does a woken thread find its slot.
* `ReferencesKeepThreads`, `RegistryIsSound`: `ReferenceKeepsThreadAlone`, and
  `ThreadsSound` when the unlocked parts of releases do not overlap (`~overlap`).
  `ThInv` adds that what a release has read is still so at its next step, that only
  one is under way, that threads with references are alive, and the shape of the
  registry in the middle of its removal of a thread (`HalfChain`: one direction
  has lost the thread, the other still has it).

### What is only model-checked

* Liveness under fairness, which is beyond the prover: `CallsReturn`,
  `TimersServe`, `WaitsEnd`.
* What is said of dynamic threads when releases overlap: `RefsExact`,
  `LeakOnlyEarly` and `WaitedForRuns` are checked by run `threads` for that case too,
  and so are the types of all components in it (`ThreadsTypeOK`).
* Run `chains`: following clusters and cached blocks is recursive, and a proof
  would need induction over data.
* `ListenersServed` and `UsersAgree`: both hold only in some of their worlds, and
  the first depends on the shape of lists with cycles and reused nodes.
* The runs `timed` and `devices`, and of run `kernel` all but the heap. Their
  invariants depend on sums and scans along lists, which need induction over data
  (`TimersIndependent`, `BmemSound`), on the order of queues along chains of owners
  (`LocksSound`, `PrioritiesSound`), or on many program counters; no inductive
  invariant has been worked out for them.

## What is not modelled

`PROJECT.json` lists every part with the reason. In short: signal processing
(SBC, echo and noise suppression, equalizers, decoders), tables and register
settings, which are most of the lines; the TCP/IP stack, which no product of the
repository starts; the Bluetooth host, whose stack comes as binaries so that the
order of its callbacks is not in the source; USB, shell, tests and start-up.

Left out of modelled parts:

* configuration: the lookup of an item in the index tables (the layout of items
  is fixed), the directory that `hs_cfg_Init` reads before it restores, and the
  get of a part of the tones (`HS_CFG_SOUND_INFO`), whose tag is not looked at;
* kernel: suspension by reference, memory pools, variants that are compiled out
  (tick-less time, recursive mutexes, queues by priority of messages and
  semaphores, round-robin);
* audio: gain, resampling, repair by resampling, pause and resume;
* music: files, play lists, break points;
* power: conversion of readings, ADC keys;
* PPP: Code-Reject, echo, authentication, the network protocols; LCP's options
  are one option;
* FAT: reading, seeks that make a file longer, subdirectories, long names, renaming, disk errors, the second
  copy of the FAT, growth of a directory, and writes of less than a cluster. The
  module follows the firmware's configuration: a lock per volume
  (`_FS_REENTRANT`), which makes a call one action, and file data that does not
  go through the volume's window (`_FS_TINY` 0).
