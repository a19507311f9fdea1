# SunWiseSpace: a TLA+ development

SunWiseSpace is board-support software for two processors, a RISC-V SoC
(`soc2022_project`) and a PowerPC SoC (`xyp1022_project`). Each runs FreeRTOS and
lwIP over a GMAC Ethernet controller, with a serial shell, peripheral drivers,
iperf and on-target tests. This directory models the parts in which something can
go wrong that a test would hardly reach: the network driver with its DMA engine,
interrupt handler and tasks; the kernel services it rests on (queues, mutexes,
delays, software timers, heap); the console (line editing, arguments, formatted
output); and the programs started from it (network tests, YMODEM).

Paths below are relative to `src/`. FreeRTOS is `FreeRTOS/FreeRTOS-Kernel`,
with the repository's `FreeRTOSConfig.h`.

## Inventory

| Component | State | Operations | Interacts through | What is hard | What makes it correct |
|---|---|---|---|---|---|
| GMAC receive path (`ethernetif.c`, `drv_gmac.c`, `GMAC_IRQHandler` in `isr.c`) | ring of receive descriptors, `_s_last_rx_descriptor`, `rx_desc_start`, `rx_buffer_list`, Register5, `g_eth_semaphore` | `HW_GMAC_GetRecvPacket`, `HW_GMAC_StopRecvPacket`, `low_level_input`, `ethernetif_input` | owner bits and Register5 with the DMA engine, the semaphore with the handler, `netif->input` with lwIP | interrupts coalesce, the status is read and acknowledged in two accesses, the engine refills while the driver reads, one call of several fails | frames reach lwIP unmixed, once and in order; the driver never reads what the engine owns; NETIN never sleeps on a frame |
| GMAC transmit path (`ethernetif.c`, `drv_gmac.c`) | ring of transmit descriptors, `_s_last_tx_descriptor`, TU and bit 5 of Register5, `ousem` | `low_level_output`, `HW_GMAC_GetSendPacket`, `HW_GMAC_StartSendPacket` | the lwIP core lock among senders, owner bits and poll demands with the engine | the receive handler acknowledges transmit status, the engine suspends by itself, an address is fetched before a wait | what was answered ERR_OK leaves, in order and unaltered; calls return |
| PHY and frame checksum (`drv_gmac_phy.c`, `drv_gmac_crc.c`) | PHY registers behind a management bus, CRC register | `PHY_Read`, `PHY_Write`, `PHY_InitConfig`, `PHY_GetLinkSpeed`, `PHY_GetLinkDuplex`, `CRC_Calc` | the busy bit of the bus | accesses outlast their timeout, the link changes between two reads | the PHY ends up configured, what is reported of the link is true, the CRC is that of the standard |
| FreeRTOS queues and semaphores (`queue.c`) | storage area, `uxMessagesWaiting`, `cTxLock`, `cRxLock`, two event lists | send, receive, peek, overwrite, reset, the `FromISR` forms | the scheduler, tick and handlers | blocking takes many steps with handlers between any two; timeouts race wake-ups | a bounded FIFO; nobody waits for what is there; finite waits end |
| FreeRTOS mutexes (`queue.c`, `tasks.c`) | holder, recursion count, `uxMutexesHeld`, base and inherited priority | take, give, inherit, disinherit, disinherit after timeout | event lists, the priority scheduler | several mutexes, timeouts that take a loan back, nested calls | the highest task is not held up by lower ones; loans end |
| FreeRTOS time (`tasks.c`) | `xTickCount`, two delayed lists, `xNextTaskUnblockTime`, `xPendedTicks`, `xNumOfOverflows` | tick, delay, delay until, timeouts, suspend and resume all | the tick interrupt | the count overflows, ticks are pended, stale next time | each task wakes at its tick |
| FreeRTOS software timers (`timers.c`) | command queue, two timer lists, `xLastTime` | start, stop, reset, change of period, timer task | a queue, the scheduler | late commands, overflow seen by comparing samples | no early callback, no oversleeping |
| FreeRTOS heap (`heap_4.c`) | block headers, free list, counters | `pvPortMalloc`, `vPortFree` | the scheduler lock | merging, overflow of sizes, the bit cleared before the lock | blocks tile the heap |
| lwIP core lock and critical nesting (`sys_arch.c`, `port.c`, `ethernetif.c`) | recursive mutex, `ulCriticalNesting`, pending yield | `LOCK_TCPIP_CORE`, enter and exit critical, yield | NETIN takes the lock inside a critical section | a yield is deferred on RISC-V and immediate on PowerPC | nobody blocks in a critical section |
| lwIP system layer (`sys_arch.c`) | handles of semaphores, mailboxes, mutexes | `sys_sem_*`, `sys_mbox_*`, `sys_mutex_*` | queue operations | as the queue | as the queue |
| Shell (`xshell.c`, `xshell_command.c`) | line buffer, cursor, one line of history | editing, completion, splitting, look-up | UART; commands run in a critical section | out-of-date characters, a full line, edges of quoting | the line shown is the line executed; the arguments are those of the line |
| Formatted output (`xprintf.c`) | digit buffer | conversions | output device | boundaries of words and of the buffer | the numeral printed is that of the value |
| iperf (`iperf.c`) | pool of netconns, running flags | TCP client, server, speed tests | lwIP, heap, shell | error paths, the pool at its limit, restarts | nothing leaks; a test ends and can be started again |
| YMODEM receiver (`xyp1022_project/libs/ymodem.c`) | packet buffer, header and EOT flags | receive packet, receive file | UART, FatFs | damaged, lost and repeated packets, writes that fail, the index wraps | the file is what was sent |
| On-target tests; peripheral drivers; start-up | - | - | - | - | - |
| xyp1022 network driver, shell, PHY | as soc2022 | as soc2022 | as soc2022 | byte order of descriptors | as soc2022 |
| lwIP, FatFs, CoreMark, ThirdLib | third-party code | - | - | - | - |

`PROJECT.json` lists the components with their status, and the hazards, each at
the line where it bites.

## Modules

| Module | Models | Kind |
|---|---|---|
| `GmacRx` | receive path, handler, receive DMA engine | detailed |
| `GmacRxProofs` | theorems about `GmacRx` | proofs |
| `TxService` | what `netif->linkoutput` promises lwIP | abstract |
| `GmacTx` | transmit path, transmit DMA engine, effect of the handler | detailed, implements `TxService` |
| `GmacTxProofs` | theorems about `GmacTx`, among them the refinement of `TxService` | proofs |
| `BoundedFifo` | what a queue promises | abstract |
| `Queue` | `queue.c` and what it needs of `tasks.c` | detailed, implements `BoundedFifo` |
| `QueueProofs` | theorems about `Queue`, among them the refinement of `BoundedFifo` | proofs |
| `Mutex` | mutexes, priority inheritance, priority scheduler, critical sections | detailed |
| `MutexProofs` | theorems about `Mutex` | proofs |
| `Delay` | tick, delayed lists, delays, timeouts, suspended scheduler | detailed |
| `DelayProofs` | theorems about `Delay` | proofs |
| `Timers` | software timers | detailed |
| `Heap` | `heap_4.c` | detailed |
| `HeapProofs` | theorem about `Heap` | proofs |
| `LineEditor` | what the console promises its user | abstract |
| `Shell` | `Shell_GetCommand` | detailed, implements `LineEditor` |
| `ShellScreen` | `Shell` with the terminal that shows what it prints | composition |
| `ShellArgs` | `Shell_SplitCommand`, `Shell_HandleCommand` | algorithm, with its reference |
| `Xprintf` | conversions of `xvprintf` | algorithm, with its reference |
| `Iperf` | network tests, netconn pool, the PC at the other end | detailed |
| `Phy` | PHY driver, management bus, PHY, link | detailed |
| `NetworkProofs` | theorems about `Iperf` and `Phy` | proofs |
| `Ymodem` | YMODEM receiver, sender, serial line | detailed |
| `YmodemProofs` | theorems about `Ymodem` | proofs |
| `Checksums` | `CRC_Calc` with its table, `YmodemCrc16` | algorithm, with its reference |
| `MCGmacRx`, `MCGmacTx`, `MCQueue`, `MCMutex`, `MCKernel`, `MCConsole`, `MCPrograms`, `MCYmodem` | - | instances for TLC |

Definitions called *faulty* are variants of the definition that follows them, with
one plausible mistake. No specification uses them; each shows that some property
notices the mistake (`mutants` in `PROJECT.json`); where a property puts several
named invariants together there is one for each.

**How the MC modules combine instances.** A question often needs the same module
with other constants, and related modules that share no state are checked
together. An MC module therefore declares the variables of all its parts and one
more, `part`, `instance` or `build`, which `MCInit` chooses and no step changes.
`MCNext` takes a step of the instance that was chosen and leaves the variables of
the others alone, so that each behaviour of the run is a behaviour of exactly one
instance. A property that does not depend on the constants that differ is stated in
the component's module and holds in every instance, where the theorems also refer
to it; the others are stated in the MC module, guarded by the instance they are
about. Where a refinement is
checked, the mapping gives the abstract variables their initial values in the
other instances, whose steps are then stutters.

### GmacRx

A descriptor is its owner bit and its first and last segment bits; a buffer holds
the frame number and part that the engine last wrote there, so that a buffer
overwritten too early is seen. The pending count is `sem`, Register5 bits 6 and 7
are `ri` and `ru`. `pc` is where NETIN stands:

| `pc` | in the code | actions |
|---|---|---|
| `wait` | `xSemaphoreTake`, or `vTaskDelay(1)` when polling | `Wake` |
| `get` | `HW_GMAC_GetRecvPacket` | `GetNothing`, `GetSegment` |
| `alloc` | `pbuf_alloc` | `Alloc` |
| `copy` | the `memcpy` loop, one buffer a step | `CopySegment` |
| `stop` | `HW_GMAC_StopRecvPacket`, one descriptor a step | `StopSegment`, `StopDone` |
| `exit` | `taskEXIT_CRITICAL` | `ExitCritical` |
| `handoff` | `netif->input` in its own critical section | `InputOk`, `InputError` |

From `get` to `exit` NETIN is in a critical section and `IsrRead` is held off. The
handler is two steps, the read of Register5 and its acknowledgement, because the
engine may complete a frame between them; NETIN does not run between them. The
engine is external: it fills the descriptors it owns in ring order, may spread a
frame over `MaxFrags` of them, truncates a frame when it does not own the next,
drops a frame when it owns none, and raises RI on the last part unless `DIC` was
set. More than one part happens for frames longer than the 1600 bytes of a buffer,
which the controller accepts up to 2048 bytes. `InputError` cannot happen with the
repository's `lwipopts.h`, where `netif->input` is `tcpip_input` with core
locking, and is modelled because the code handles it.

### GmacTx

A transmit buffer holds the number of a frame. Senders hold the lwIP core lock for
the whole of `low_level_output`; those in `MaskedSenders` (NETIN answering in
`netif->input`) also hold off the handler. The steps are the accesses to what the
engine shares: the process state, the owner bit, the buffer, the hand-over, TU and
bit 5. `RxInterrupt` is the effect of `Register5 = 0xffffffff` on the transmit
bits. `TxService` has a bounded backlog, `Accept` and `Leave`, and is implemented
with `accepted` and `wire` for its variables: a frame is accepted when its
descriptor is handed over.

### Queue

One action is one critical section of the code, or one call outside any. A call
that cannot proceed goes `try`, `suspend`, `lock`, `check`, `test`, `place`,
`unlockTx`, `unlockRx`, `resume` and then `try` again (or `lastLook` when a receive
has timed out), and handlers run between any two of these. Any ready task may run:
this covers the schedules of the priority scheduler, so safety properties carry
over. Time is abstracted: a finite timeout may expire at any check and at any tick.
`TryReset` is `xQueueGenericReset` of a queue in use, which wakes one sender. The
refinement mapping takes the `uxMessagesWaiting` slots behind `pcReadFrom` as the
abstract sequence.

### Mutex

Unlike in `Queue`, priorities decide: only the task `cur` takes steps, and it
changes where the code yields, in the tick and at the end of a critical section.
`Deferred` is the port: on RISC-V a yield inside a critical section stays pending
until interrupts are enabled, on PowerPC it happens at once. One action is a
critical section or a stretch with the scheduler suspended, in which no other task
runs; no handler uses a mutex, so the lock counters of the queue are left out.
`waiters` are event lists in the order the code keeps them, including the place of
a waiter whose priority has changed since. `Sleep` is a holder that blocks for
something else, `Signal` an event that makes it ready.

### Delay, Timers

Tick counts wrap at `TickRange`, for 2^32. `Delay` keeps the true time beside them
to say what a count means. Each action is one stretch between two points at which
the tick interrupt may come; `CatchUp` is one turn of the loop over `xPendedTicks`.
The event a task waits for may come at any time and be consumed by another
(`LookFails`), which makes it wait again for the rest of its time.

`Timers` has the timer task, its command queue, and callers that take the tick
count for a command and send it later (`Age`). The timer task may be late by `Lag`
ticks, since callbacks and interrupts keep it from running. As documented for
`timers.c`, a period and the lateness together stay below the range of the count;
`TimerConstants` says so.

### Heap

Addresses count from `ucHeap`. `FreeBegin` and `FreeEnd` are the two halves of
`vPortFree`, before and after `vTaskSuspendAll`. Sizes have the width `SizeMax`,
and requests go up to where the additions of `pvPortMalloc` overflow.

### Shell, ShellScreen, ShellArgs, Xprintf

`Shell` is one action per key, over the buffer with whatever lies behind the line.
NUL is a byte like others, since the UART delivers it: the shell stores it, prints
nothing visible, cuts the history there and copies it to the caller; and
`Shell_AutoComplete`, if the line up to the NUL is the name of a command, reads on
behind the end of that name. What lies there is up to the linker: the model chooses
nothing or one character (`Rest`), which goes behind the new line only.
`LineEditor` knows a text and a cursor only; the mapping takes `len` characters of
the buffer. `ShellScreen` displays what each step prints, up to the first key that
leads the display astray (`Strays`, `strayed`): up, down or tab with the cursor
inside the line, the character that fills the line, NUL, and a character put into
the middle of a line that out-of-date characters follow. `ShellArgs` is the loop of
`Shell_SplitCommand` character by character; `Arguments` defines the result without
the loop. `Xprintf` likewise, with `Denotes` and `IsNumeral` as the reference.

### Iperf, Phy

`Iperf`: a task of a test walks through netconn calls that take from and give to
the pool; `Commands` are the tests a user may start, and `Listens` says whether the
PC already accepts connections. `Pool` is what the two listening servers leave of
`MEMP_NUM_NETCONN`. `Phy`: an access is issued when the bus is not busy,
and completes or times out, in which case the bus still ends it later and the driver
reads whatever Register5 holds. `PowerUp` is what the control register may hold at
first, anything but its reserved bit 2. The histories `seen` and `late` are the links
of the time of a call, and whether one of its accesses timed out.

### Ymodem, Checksums

`Ymodem` is byte by byte, because a lost byte shifts what the receiver takes for a
packet. The sizes are scaled down (128, 1024, 256, 10 and 6 are `SmallSize`,
`LargeSize`, `IndexMod`, `Drain` and `Cancels`). The sender, external, repeats its
packet until it is acknowledged. `Transfers` are the files (sequences of packets of
either size), each with the kinds of faults its line has and how many; the variable
`transfer` is the one that takes place. A fault `write` is a call of `f_write` that
stores less than it was given, or a failing `f_close`, after which the file has the
size it had when it was opened; the code looks at neither result. The history
`given` is what `f_write` was given, `failed` counts the failures. In `Checksums` a
word is the set of its bits; `Remainder` is polynomial division, and
`EthernetChecksum` the checksum of IEEE 802.3 with both of its complements.

## Runs

A run is one question put to one part of the system; the instances it combines
are named in its MC module.

| Run | Shows | Instances and bounds, and why they are enough |
|---|---|---|
| `rx` | with interrupts: no frame is stranded, every frame is consumed; polling: frames in order and unmixed, buffers not shared, none lost unseen, list bounded; types | `irq`: 3 descriptors, limit 2, 6 frames: the ring wraps twice, fills up, and interrupts exceed the limit. `poll`, which the configuration gives: 3 descriptors, frames of 1 or 2, 5 frames, both failures: frames that wrap, that are truncated, and two in the ring |
| `rx_stranded` | *violation*: a failed `pbuf_alloc` strands the next frame | 3 frames |
| `tx` | safety of the service, own buffer, ring holds the backlog, calls return; polling: accepted frames leave; with interrupts: the next call flushes | 2 descriptors, 2 senders, 5 frames: full ring and wrap. `underflow` has 2 aborted frames, so that one follows a recovery |
| `tx_stall` | *violation*: TU acknowledged by the receive handler stalls a frame | 2 frames |
| `queue` | bounded FIFO, no task forgotten while there is an item or room for it, no lock left, reset leaves nobody stuck | `wakeup`, which the configuration gives: 2 senders and 2 receivers, so that one is woken and another stays, finite waits, which need not expire and so cover those without a limit; length 2, so that a queue with room for one is neither full nor empty, and handlers may free both slots while it is locked. `ends`: 2 tasks, both ends, all calls, waits of zero and some ticks, length 2. `mailbox`: length 1, overwritten. `reset`: 2 senders asleep before a full queue of 2. In `ends` and `mailbox` two of the four tasks are idle |
| `mutex` | counts agree, holders carry their waiters, loans end, the highest task runs and gets its mutex, NETIN never blocks in its critical section; finite queue waits end | `timeout`, which the configuration gives: 4 priorities, recursion 2, every timeout, and the lowest task takes the mutex in a critical section. `sleep`: 3 tasks whose holders go to sleep. `two`: one task with two mutexes. `riscv`, `ppc`: the core lock with the four tasks and priorities of the repository. `busy`: 2 low tasks, a middle one that only runs, a high one. `queue`: a sender, 2 receivers that compete, a handler that steals |
| `kernel` | tasks wake at their tick, no pended tick lost, periods kept, waits as long as asked; timers never early, never overslept; heap tiled, merged, counted | `period`, `timeout`: 2 tasks each, range 5, 12 ticks (the count overflows twice), 2 pended. `timers`: range 6, 12 ticks, one auto-reload and one one-shot timer, 3 commands, lag 1, age 2. `heap`: 124 bytes, 7 request sizes from 0 to overflow, all sequences |
| `console` | the shell is a line editor, the terminal shows the line, arguments are those of the line, cutting ends, numerals are right; both CRCs are divisions | `shell`: 11 bytes, NUL among them, line of 4, two commands, with a letter that also ends an escape sequence, 8 columns: longer lines of before lie behind shorter ones. `args`: every line of up to 6 characters, 2 arguments. `print`: every word of 8 bits, buffer of 4, widths beyond it. `sums`: every first byte, 4 bytes in all |
| `programs` | netconns are given back, speed tests end, one of a kind, the client connects; the PHY is configured, calls return, reports are true; the file is what was sent where no call of FatFs failed, the transfer ends; with lost acknowledgements no packet is skipped; with noise the buffer is not overrun | 3 tasks and a pool of 2, as on the board: too small for two tests when the server holds one. `speed`: two speed tests. `client`: the TCP client, which may try before the PC listens. `pool`: all tests at once. `phy`: a bus on which any access may time out, a link that comes up 3 times in any mode, 2 queries. `transfer`, five of them: 6 packets of both sizes without faults, where the index, modulo 4, wraps; 2 packets and 3 lost acknowledgements; 3 packets and 2 failing calls of FatFs; 2 packets and 2 of either; 2 packets and 2 bytes that are changed or lost |
| `ymodem_damaged` | *violation*: a damaged packet is stored and acknowledged | 2 packets, 1 damaged byte |
| `phy_speed` | *violation*: without a link the speed reported is 10 | no link during the call, no timeout |
| `speed_stuck` | *violation*: a speed test that gets no netconn leaves its flag set | 2 tests, pool of 2 |

Deadlock is not checked in `tx`, where lwIP may have nothing more to send.
Elsewhere the only steps that change nothing are those named `AtRest` (the peer has
sent its last frame), `Done`, `End`, `Idle`, `Rest`: a bound was reached, the
program is over or, in `Ymodem`, the receiver waits for ever for bytes that a noisy
line has lost (that it ends on a line without faults is `TransferEnds`).
The bounds are `MaxFrames`, `MaxPackets`, `MaxUnderflows`, `MaxTick`, `MaxPended`,
`MaxCommands`, `MaxNest`, `MaxFaults`, `MaxLinks`, `MaxQueries`, `MaxLength` and
`Slots`. The counters of frames only feed histories and names of frames; `MaxTick` is
chosen for two overflows, since an error of one shows in the next.

### What the violations mean

* `rx_stranded`: NETIN is asleep, nothing will wake it, and a complete frame is in
  the ring. It is delivered when another frame arrives. `low_level_input` returns
  NULL for an empty ring, for a failed allocation and for a segment that is not the
  last, and `ethernetif_input` treats all as the first. With `MaxFrags = 2` and no
  failure a frame over two descriptors strands itself in the same way.
* `tx_stall`: the engine suspends with TU set after `low_level_output` tested the
  process state; the driver hands a descriptor over; a receive interrupt
  acknowledges TU; the driver sees no TU and demands no poll. The frame leaves with
  the next call (second part of `AcceptedLeaves`).
* `ymodem_damaged`: `YmodemRecvPacket` computes the CRC and sets `eRymFail`, which
  `Ymodem_ReceiveTask` never reads. The module leaves open whether the CRC matches:
  by `ymodem.c:135` the received CRC is put together with a wrong shift, so that
  it differs for good packets too, and a receiver that did look would refuse them.
* `phy_speed`: `PHY_GetLinkSpeed` takes 0 for the two speed bits if there is no link,
  and the `switch` that follows makes 10 of it, while the comment of the function
  (`drv_gmac_phy.c:238`, 244) says that 0 is returned. `PHY_GetLinkDuplex` does
  return 0.
* `speed_stuck`: with a connection at the server and one speed test under way the
  pool is empty. The other speed test returns from its task function
  (`iperf.c:354`, 462) without clearing the flag that the shell set, and the shell
  answers "already running" to every further command, though nothing runs. This is
  why `TestsProceed` says of a speed test that its flag is cleared or that its task
  has returned.

### Disagreements met that no run carries

Met while modelling, by reading and by trial runs. The models do what the code
does, and the properties of the runs are stated so that they hold of it.

* `queue.c:949` looks at the result of `xTaskPriorityDisinherit` only if no task
  waits for the mutex. With a waiting task of no higher priority there is no
  switch, though a third task of higher priority is ready; `tasks.c:4208` says a
  switch should occur "whether a task is waiting on it or not". The next tick
  repairs it. `RightTaskRuns` excepts a ready task whose own wait has just timed out:
  with one mutex only such a task, which lent its priority and has left the list, can
  be the third.
* `tasks.c:4091` changes the priority of a holder that waits for another mutex but
  does not move it in that list; `tasks.c:3096` says the list is "in priority
  order". `WokenByPriority` is checked for tasks with one mutex.
* `xshell.c:224` prints the out-of-date characters behind the line but moves back
  only over the line, so that the terminal's cursor is not where the next character
  goes. `TerminalShowsLine` is checked with such characters in the buffer; where one
  is printed this way the display is no longer followed, and neither is it after the
  other keys of `Strays`.
* `xshell.c:368` compares `apszArgv[0]`, never set, for a line of blanks.
* `iperf.c:171` calls `netconn_close` where `netconn_delete` is needed: each failed
  try of the TCP client takes a netconn from the pool for good, while
  `iperf.c:31` says it "will recv/send data from/to PC". `TestsProceed`
  says that a client connects once the PC listens unless it has lost the whole pool
  by then, and `NothingLeaked` counts netconns where no TCP client was started.
* `iperf.c:216` returns from the client's task function, which `task.h:294` forbids.
* `iperf.c:215` frees a pointer that line 184 made point into a netbuf; `heap_4.c:297`
  expects a `BlockLink_t` before it. `NothingLeaked` excepts this buffer.
* `iperf.c:521`: a speed test of zero duration divides by it.
* `drv_gmac_crc.c:115` returns the remainder without the final complement;
  line 94 says "Compliant with IEEE 802.3 Ethernet CRC32 standard". `ChecksumsAreRight`
  says what is returned: the complement of the checksum of the standard. The one
  caller, the self-test in `drv_gmac.c:476`, appends it to a frame as it is.
* `ymodem.c:179` and 202 ignore the results of `f_write` and `f_close`. The packet is
  acknowledged, the transfer ends as if it were complete, and `FileIsWhatWasSent` says
  what is missing. A packet that is repeated because its acknowledgement was lost is
  written twice, which the property permits.
* `drv_gmac_phy.c:52` waits for the busy bit without a bound; line 20 says
  "Includes timeout protection". `PhyCallsReturn` supposes that the bus becomes free.
* `xshell.c:370`: commands run with interrupts disabled, `udp` among them, which
  blocks.

### Fairness

* `GmacRx`: the engine finishes a frame it has begun, a pending interrupt is taken,
  and NETIN is scheduled. The tasks above NETIN block on their mailboxes. The peer
  need not send.
* `GmacTx`: the engine works through its ring, a call that was begun goes on. lwIP
  need not call again, and no receive interrupt need come.
* `Queue`: a task that is ready again and again is run in the end, and a finite
  timeout expires however often the wait is resumed (strong fairness, since
  others suspend the scheduler in between). Tasks need not call. The first is what
  time slicing gives tasks of one priority; under priorities it means that the
  tasks above are not always ready.
* `Mutex`: the task that runs goes on with its call, gives what it holds and leaves
  its critical section (weak fairness). Who runs is not assumed but modelled: the
  task of middling priority may keep the processor for ever.
* `ShellArgs`: a sequential loop goes on.
* `Ymodem`: the receiver, which polls, and the sender go on. No fault need happen,
  and on a line with faults nothing is claimed to end.
* `Iperf`: tasks are scheduled, the server's connections are closed by their
  clients, and the PC listens in the end. In `pool` nothing is fair and nothing live is claimed.
* `Phy`: the driver goes on, each access ends on the bus, the PHY leaves its reset
  and the link comes up in the end; `PHY_InitConfig` waits for both without a limit.

`GmacRx`, `GmacTx` and the safety properties of all modules use no fairness beyond
this; `Delay`, `Timers`, `Heap` and `Xprintf` state safety only. That a timer or
delay is not late is safety here, since the tick is part of the model.

## Proofs

TLAPS checks eight proof modules, from the named assumptions on constants alone. A
theorem is about every value of the constants; where it states a property of a run,
`PROJECT.json` names that property. The bounds on counters (`MaxFrames`, `MaxTick`
and so on) are any natural numbers, so that the theorems hold for behaviours of any
length.

### GmacRxProofs

From `RxConstants`: a ring of at least two descriptors, a positive limit, any number
of frames and of parts of a frame, with or without interrupts.

* `TypeCorrect`: `Spec => []TypeOK`, any failures and any number of parts. `TypeOK`
  is not inductive, because the index in `CopySegment` and the first part in
  `InputError` are valid only where NETIN can stand. `InBounds` adds that.
* `NoneStranded`: `Spec => []NoFrameStranded`, in the run `FrameWakesNetin`, if `MaxFrags = 1` and `Failures = {}`
  (without these it is false, see above). `NoFrameStranded` is about
  all descriptors, while `ethernetif_input` only looks at the next. The inductive
  invariant `RxInv` therefore has three parts besides types: `RingShape`, the filled
  descriptors are the arc of the ring from where NETIN reads to where the engine
  writes; `HoldsOne`, the descriptor NETIN is copying from is the one just before;
  `WakeupPending`, if the next descriptor is filled then RI is pending, or the
  handler is between its two accesses, or the count is positive, or NETIN will look
  again. When NETIN sleeps the next descriptor is not filled, so the arc is empty.
  The steps of interest are `DmaFill` (the arc grows and may close on itself) and
  `StopSegment` (it loses its first descriptor).
* `SegmentsOurs`, `FramesIntact`, `FramesAccountedFor`: the list NETIN collects fits
  and is its own, lwIP gets one frame at a time, from its first part on and in order, and no frame vanishes, with frames
  of any number of parts, truncated frames and every failure. Their invariant
  `FrameInv` says that the descriptors the engine does not own are an arc of the ring
  (`Arc`), of which NETIN holds the first few; that its buffers hold the parts of
  frames in the order of the wire (`WireOrder`); that NETIN's list and pbuf are the
  beginning of it (`Held`, `Copied`); and that what lwIP has is older.

### GmacTxProofs

From `TxConstants`: a ring of at least two descriptors, any senders, frames and
underflows, with or without interrupts.

* `RingSound`: `Spec => []RingIsSound`. The invariant `TxInv` adds to the three parts
  of `RingIsSound` who holds the core lock and where (`LockHeld`), that the next
  frame is the sender's (`NextInLine`, `BufferFilled`), and `ArcOfBacklog`: the
  engine's descriptors begin at its position, are as many as the frames that were
  accepted and have not left, and end at `_s_last_tx_descriptor`. That is why a
  descriptor the sender finds free is not one it has just filled.
* `SafeServiceImplemented`: `Spec => ImplementsSafeService`, the refinement of the
  safety of `TxService`, step by step: the hand-over of a descriptor is `Accept`, a
  frame on the wire or one that is aborted is `Leave`, all else is a stutter.

### QueueProofs

From `QueueConstants`: any finite set of tasks with any priorities and calls, any
items, any length, any handlers.

* `NoneForgotten`: `Spec => []NobodyForgotten`. That a task which was woken will look
  is not enough for an invariant, since it may be one of several. The invariant
  `QInv` counts: while anybody waits to receive, or is about to, the tasks that
  will look and the wake-ups counted in `cTxLock` are at least as many as the items
  (`ItemsHaveTakers`, with `Enough`). Each send adds an item and a wake-up, each
  receive takes an item and at most one task that would look. `EmptyHasSender` is the
  weaker form for senders that survives a reset, which empties many slots and wakes
  one sender. `Places`, `Locks` and `OnLists` say where tasks stand, when the queue
  is locked, and that the tasks on an event list are the ones asleep.
* `SendersRemembered`: `Spec => []NoSenderForgotten`, which is about queues that no
  task resets or that have one slot (`NoReset`); otherwise it is false. The run `queue`
  checks it on a queue of two items that is not reset, and on a mailbox, as
  `SendersGetTheRoom`. It rests on
  `RoomHasSenders`, the counting for free slots.
* `TypeCorrect`: the pointers stay in the storage area and the count within the
  length.
* `FifoImplemented`: `Spec => Fifo!Fifo`, the refinement of `BoundedFifo`; the run
  checks it on two instances as `ImplementsFifo`. `RingOK` says that
  `pcWriteTo` is where the items behind `pcReadFrom` end. The steps of interest are
  those at the front (`front`, `overwrite`, `peek`) and `TryReset`.

### MutexProofs

From `MutexConstants`: any finite sets of tasks and mutexes, any priorities, timeouts
and nesting, either port.

* `CountsAreRight`: `Spec => [](TypeOK /\ CountsAgree)`, for any number of mutexes and
  also inside critical sections. Disinheritance relies on it: a task falls back to its
  own priority when `uxMutexesHeld` says that it gives its last mutex.
* `InheritanceWorks`: `Spec => []PrioritiesAreRight`. Beyond the counts it is about one
  mutex (`Simple`); where a yield is held back and somebody takes it inside a critical
  section, that task is below all others that use it, and holders do not go to sleep,
  which is how the repository uses the lwIP core lock. With two mutexes the holder
  may stand behind a waiting task whose own priority was raised, and `WokenByPriority`
  is false (see above). The properties are not inductive. That the holder carries its
  waiters depends on who obtains the mutex, so `FreeForHighest` says that while the
  mutex is free and tasks still wait, the one that was woken is ready, on its way to
  take it and not below any of them, and neither is the task that runs. Where yields are
  held back this is so because nobody else holds the mutex or waits for it (`Alone`,
  below). This needs the
  scheduler (`YieldToHighest`), the order of the event list (`WokenByPriority`, kept by
  `vListInsert`, `InsertIs`, and by timeouts, `WithoutIs`), and that nobody but the
  holder has a raised priority (`Borrowed`). What a holder falls back to after a
  timeout is read off the head of the list, which again needs its order. That loans
  end is `Lent`: whatever the holder has above its own priority was lent by a task that
  waits, or has timed out but knows (`xInheritanceOccurred`) that it has to take it
  back, at every point of its call.
* `RightTaskAlwaysRuns`: `Spec => []RightTaskRuns`, in the same systems: the processor
  is with a task that is not blocked and, unless a yield is pending, of highest
  priority. `TopRuns` is the part about priorities. It survives every step that ends
  with a yield, and the steps that only block or lower others; the step of interest is
  a `Give` after which `queue.c` does not yield, where `Lent` shows that whoever is
  above the giver is a lender whose wait has timed out. That the task that runs is not
  blocked needs that nobody blocks inside a critical section on the port that holds
  yields back. `Alone` says why: while one task is in such a section, no other that
  uses the mutex holds it or waits for it. When the section is entered, any of them
  that held the mutex, or was woken to take it, would be ready and above the task that
  runs, which `TopRuns` excludes; and nobody else runs before the section is left.

### DelayProofs

From `DelayConstants`: any tasks, any range of the tick count of at least two, times
to wait within it, any number of pended ticks and any bound on time; the tasks that
wait with a timeout are not the ones that delay, since no call of the kernel delays
a task between two checks of one timeout.

* `Invariance`: `Spec => []IInv`, where `IInv` is `TypeOK`, `NoTickLost`,
  `NoneOverslept`, `NextIsEarliest` and `CallsProper`. None of the first four is
  inductive alone. That nobody oversleeps rests on the tick that skips the delayed
  list, hence on `NextIsEarliest`; that a value on the other list means a time after
  the overflow rests on the lists having been exchanged at every overflow, hence on
  `NoneOverslept` before it, which leaves the current list empty at count 0; and what
  is put on a list is right because a call's arguments are (`CallsProper`).
  `IncrementTickKeeps` is the tick, with and without overflow, used by the interrupt
  and by each pended tick; `AddKeeps` is `prvAddCurrentTaskToDelayedList`. The least
  of a set of wake times exists by well-foundedness of the naturals (`LeastIs`).
* `TypeCorrect`, `OnTime`, `NextUnblock`, `TicksKept`: its parts; the run `kernel`
  checks the last three on a small instance.
* `Punctual`: `Spec => WokenOnTime`, an action property: a tick that wakes a task is
  the very tick it asked for.
* `PeriodsKept`, `WaitsRight`: `Spec => PeriodKept` and `Spec => WaitsAsAsked`, action
  properties about what the calls make of wrapped counts. `CallInv` adds to `IInv`
  that the previous wake time of a periodic task is that of its last period, less
  than a turn of the count ago (`PreviousTrue`), and that a waiter's `TimeOut_t` with
  what remains of its wait adds up to the time it first asked for, and is at most one
  turn old when it is checked (`TimeoutTrue`).

### HeapProofs

From `HeapConstants`: a heap, a header and an alignment of any size that leave room
for one block, and any requests.

* `HeapAlwaysSound`: `HeapSpec => []HeapIsSound`. The model computes the free list by
  walking it, so what has to be shown first is that the walk meets every node once:
  `Chain` says that each link leads upwards to the next node and at last to `pxEnd`.
  `Tiles` says that the blocks, free or not, follow one another without gaps or
  overlap, and `MergedBut` that no free block is followed by a free one, except at the
  block that is being inserted. `Shape` is the three together, and `HeapInv` adds that
  `xFreeBytesRemaining` is the number of bytes in free blocks (`Cells`), that a block
  whose bit was cleared before the lock is neither allocated nor free, and that a block
  is as large as was asked for.
  `LinkedChain`, `UnlinkedChain`, `JoinedTiles` and `CutTiles` are about
  single assignments to the headers; `FirstFitIs` and `BeforeIs` about the loops, by
  well-foundedness of the addresses; `InsertedShape` about
  `prvInsertBlockIntoFreeList` with its four ways of merging; `TakenShape` about a
  block that is cut, of which the rest goes back on the list.

### YmodemProofs

From `YmodemConstants`: any files, faults and number of faults, packets of any two
sizes, an index modulo any power of two up to that of a byte.

* `PacketAlwaysFits`: `YmodemSpec => []PacketFits`, whatever the line does.
  `FitInv` adds to types that a packet which is being received has one of
  the two lengths and lacks a byte (`Partial`).
* `FileIsAlwaysWhatWasSent`: `YmodemSpec => []FileIsWhatWasSent`. That the file is what
  `f_write` was given, but for the calls that failed, holds on any line (`DiskInv`, with
  one short packet for each failure). What it was given is told of lines that lose at
  most acknowledgements. `FileInv` says in which phase the transfer is (`Starting`,
  `Sending`, `Received`, `Answering`, `Answered`, `Ending`, `Ended` or `Refused`), and
  for each of them what is on the line, how much of the packet under way is in the
  buffer (`Parts`) and up to which packet the file is there (`FileUpTo`). While packet
  n is under way the receiver has the packets below n or, if an acknowledgement was
  lost, n already (`Expects`). The points of interest are that a packet with a good
  index is never taken for a bad one, whatever its index (`ComplementIsDisjoint`, since
  the code tests it with a bitwise and), and that a packet whose index wrapped to 0 is
  not taken for a header once the file is open.

### NetworkProofs

Of `Iperf`, from `IperfConstants`: any finite set of tasks, pool, duration and commands.

* `NoLeak`, `OneAtATime`: `Spec => []NothingLeaked` and `Spec => []OneTestAtATime`.
  The invariant adds where a task has a netconn (`Where`), that the flag of a test is
  set while its task is not over (`Marked`), from which two of a kind exclude each
  other (`Alone`), and that netconns are not given back twice (`Bounded`).
* `PoolKept`: if the PC listens from the start, the netconns in the pool, with the
  tasks and with the server are always the whole pool, the TCP client included.

Of `Phy`, from `PhyConstants`: any configured speed, any modes of the link, any value of the
control register at first but for its reserved bit, any accesses that time out.

* `PhyConfigured`: `Spec => []PhyIsConfigured`. The difficulty is that a read that
  timed out returns an older value. `ResetUnderWay` says why that does no harm while
  the reset is waited for: either the reset has not reached the PHY, and then
  Register5 holds it with its bit set, or it has, and then a clear bit in Register5
  is one that was read after the reset was over. `LinkBit` is the same for bit 2 of the
  status: until the status was read with the link up, no value of Register5 has it.
* `LinkReported`: `Spec => []LinkReportIsTrue`: in a call of which no access times
  out, each of the two readings of register 17 is of a link of the time of the call
  (`Reading`), although the link may change between them and an access of an earlier
  call may still be under way when it begins.

### Only model-checked

* Liveness under fairness is out of the prover's reach: `AcceptedLeaves`,
  `OutputReturns`, `FramesConsumed`, `WaitsEnd`, `CuttingEnds`, `TransferEnds`,
  `TestsProceed`, `PhyCallsReturn`.
* What a recursive definition computes for every input: `ChecksumsAreRight`,
  `ArgumentsAreThose`, `NumeralIsRight`. `Shell`, `ShellScreen` and `Timers` declare
  recursive operators too, so that `ImplementsEditor`, `TerminalShowsLine`,
  `TimersAreOnTime` and their neighbours stay with TLC.
* `ImplementsFifo` and `MutexesWork` are about named instances. What they say of each
  is `FifoImplemented`, `InheritanceWorks`, `RightTaskAlwaysRuns` and `CountsAreRight`,
  but for `HolderCarriesBase`, which is about a task with two mutexes.

## Not modelled

* Bytes: lengths, cache maintenance, byte order of descriptors; the DEBUG_GMAC
  self-test; PHY variants behind compile-time switches.
* Priorities in `GmacRx`, `GmacTx`, `Queue` and `Delay`, which allow more schedules
  than the code has.
* Of the kernel: queue sets, deletion, notifications, creating and suspending single
  tasks (none is used by the driver), `pvPortCalloc`; of timers deletion, pended
  functions and the order of callbacks due at one tick. The kernel code is the one in
  the tree, and is modelled where the project depends on it.
* Of iperf the UDP client and server and the data; of `xvprintf` the parsing of the
  `%` sequence; of the shell the commands other than those that start tests.
* The xyp1022 copies of the network driver, shell and PHY code, which differ in
  the layout of descriptors and in the port; `Mutex` has the PowerPC port.
* Peripheral drivers: sequences of register accesses that keep no state of their
  own, whose effect is in hardware the repository does not describe. Start-up code
  runs once with interrupts disabled. On-target tests are measurements.
* lwIP, FatFs, CoreMark and ThirdLib, used unchanged, which together with the
  kernel's unused files are most of the lines of the tree.

## Plan

Done: the modules above; the safety of `GmacRx`, `GmacTx`, `Queue`, `Mutex`, `Delay`,
`Heap`, `Iperf`, `Phy` and `Ymodem` for every value of their constants, with the
refinements of `TxService` and `BoundedFifo`.

1. `Shell`: the refinement of `LineEditor`, with `StringAt` as a recursive function.
2. Models of `sys_mbox` with `tcpip_thread`, and of the UDP tests of iperf.
