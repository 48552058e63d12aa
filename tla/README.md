# BikeTracker: a verification development

BikeTracker is the firmware of a bicycle tracker on an STM32F030: a GSM modem
and a GPS receiver on one UART, an accelerometer on I2C, on top of ChibiOS/RT
2.6.8, which the repository contains whole. This directory holds TLA+ models of
the parts whose correctness depends on the order in which things happen, the TLC
configurations that check them and TLAPS proofs about them. Paths below are
relative to `src/ChibiOS_2.6.8/`.

## 1. The system

| Component | Source | State it keeps | Operations | Interacts with |
|---|---|---|---|---|
| UART driver | `os/hal/src/uart.c`, `os/hal/platforms/STM32/USARTv2/uart_lld.c` | `state`, `txstate`, `rxstate`, registers of the USART | start, stop, start/stop send, start/stop receive, and the I-class variants; the DMA services of both directions and the USART handler | its client by calls and by five callbacks, the DMA by registers and one shared interrupt vector |
| DMA support | `os/hal/platforms/STM32F0xx/stm32_dma.c/.h` | control and flag bits per channel, the table of handlers | allocate, release, set mode, enable, disable, the shared handlers | the drivers |
| GSM session | `demos/BikeTracker/main.c`, `test/gsm.c` | `RX_Flag`, the receive buffer, `Data`, `IMEI`, `Carga` | `GSM_init`, `AT_Command2`, `IMEI_GET`, `BATT_GET`, `GSM_OFF`, callback `rxend` | the modem through the UART and its power key |
| GPS reader | `main.c` (`GPS`), `test/gps.c` | `GRMC`, `latitud`, `longitud`, ... | `GPS` | the receiver through the UART |
| Accelerometer | `test/AcelerometroV2.c`, `os/hal/src/gpt.c` | `status`, `rxbuf`, the timer | the poll loop, the timer callback | I2C driver, GPT |
| I2C driver | `os/hal/src/i2c.c`, `os/hal/platforms/STM32/I2Cv2/i2c_lld.c` | `state`, `errors`, the suspended thread, two DMA channels, the safety timer | start, stop, transmit, receive; the event, error and DMA handlers | one calling thread, the shared DMA vector, virtual timers |
| Serial driver | `os/hal/src/serial.c`, `os/hal/platforms/STM32/USARTv2/serial_lld.c` | `state`, the two queues, `event`, registers of the USART | start, stop, read, write, the interrupt handler | I/O queues, events; not compiled in by the tracker |
| Scheduler | `os/kernel/src/chschd.c` | ready list, running thread, quantum | ready, sleep, wake, reschedule, preempt | every other kernel part |
| Mutexes | `chmtx.c` | owner, waiting queue, stack of owned mutexes, two priorities per thread | lock, try, unlock, unlock all | scheduler (priority inheritance), condition variables |
| Semaphores | `chsem.c` | counter, queue | wait, wait with timeout, signal, reset, signal-and-wait | scheduler, timers, mailboxes, pools |
| Mailboxes | `chmboxes.c` | ring, two semaphores | post, post ahead, fetch, reset | semaphores |
| Virtual timers | `chvt.c` | list of differences | set, reset, tick | every timeout |
| Condition variables | `chcond.c` | waiting queues | wait, wait with timeout, signal, broadcast | mutexes, scheduler |
| Events | `chevents.c` | pending events, waited mask, listeners and their flags | register, signal, broadcast, wait for one, any, all | scheduler |
| I/O queues | `chqueues.c` | counter, pointers, waiting threads | put, get, read, write, reset | scheduler, serial driver |
| Messages | `chmsg.c` | queue of senders per thread | send, wait, release | scheduler |
| Memory, threads | `chheap.c`, `chmempools.c`, `chmemcore.c`, `chthreads.c`, `chdynamic.c`, `chregistry.c` | free lists, reference counts | allocate, free, create, exit, wait | mutexes or semaphores |

What makes each one hard, and what makes it correct:

* **UART driver.** A client's calls, two DMA channels, the USART and two
  interrupt vectors all move at once, and on the STM32F0 the two DMA channels
  share a vector whose handler looks at every flag. Correct means: a buffer that
  is given back is not touched, a stopped transfer calls nothing back, a
  transfer that is complete is reported once, and nothing gets stuck.
* **GSM session.** Replies, retries and a shared one-shot flag overlap; the modem
  keeps its power across a reset of the processor. Correct means: every reply is
  taken for the query it answers, the session ends, and the modem ends up off.
* **GPS reader.** A busy loop against slow hardware; correct means that it gets
  its sentence and parses what it got.
* **Scheduler and mutexes.** Priority inheritance through chains of owners;
  correct means that the running thread has the highest priority of those that
  can run, and that every thread has exactly the priority its waiters give it.
* **Semaphores, timers, mailboxes.** A timeout races the signal it waits for; a
  reset races threads already woken. Correct means that counter and queue agree,
  every deadline is kept, and a mailbox is a FIFO.
* **I2C driver.** Its two channels share a vector like those of the UART, and the
  timeout of a call can fall between any two of its interrupts. Correct means that
  the answer says what happened on the bus, that the buffers are the caller's
  again, and that a call with a timeout returns.
* **Serial driver, queues, events.** A handler that works on copies of registers,
  calls that release the lock after each byte, a listener that looks at events
  and at queues. Correct means that nobody sleeps next to what he waits for and
  that the end of a transmission is announced.
* **Memory, threads.** Free lists and reference counts, worked on outside the
  lock by a creator, an exiting thread, its waiters and a walk over the registry.
  Correct means that memory is given back once, and not while somebody has a
  reference to it.

The full list of hazards, each with its line and the properties that cover it, is
`hazards` in `PROJECT.json`.

## 2. Plan

Most important first: what the tracker cannot work without is the UART and the
session over it, then the kernel that both stand on.

| Step | Module | Composes | Promise it implements | Main properties | Theorems |
|---|---|---|---|---|---|
| 1 (done) | `UartDriver` | - | `UartService` | buffers, silence after a stop, completion | type, four safety properties, refinement |
| 2 (done) | `GsmSession` | `UartService` | - | replies, end of session, power | type, genuine answers, readings, power, use of the driver |
| 3 (done) | `KernelMutex` | scheduler, mutexes, condition variables, priorities of threads | `LockService` | inheritance, scheduling order, list and owner agreement, hand-over, round robin | type, places, owners, refinement, order, inheritance, hand-over |
| 4 (done) | `Semaphores`, `Mailbox` | mailbox on semaphores | `MailboxService` | counter and queue agree, no slot lost, order of service | counters and queues, order, slots, refinement |
| 5 (done) | `VirtualTimers` | a periodic thread | `TimerService` | no early or late expiry, deadlines over a wrap | list, deadlines, refinement |
| 6 (done) | `I2cDriver` | - | - | truthful answers, buffers, return | type, answers, buffers |
| 7 (done) | `IoQueues`, `Events`, `SerialDriver` | queues and events in the driver | - | no lost wake-up, rings, announcements, end of transmission | rings, events, wake-ups, transmit interrupt, announcements |
| 8 (done) | `GpsReader` | - | - | a position is taken | - (violated) |
| 9 (done) | `Heap`, `Messages`, `Threads` | threads made of the heap | - | memory whole, references, the registry leads to every active thread, every sleeper woken | memory, life of threads, registry |

Left: the accelerometer's own loop.

## 3. Modules

### UartService
What `uart.c` promises its client: in each direction at most one transfer, `snd`
and `rcv` items left of it; it is stopped silently or ends, when all of it has
been moved, with exactly one callback (`note`).

### UartDriver
| Variable | Code |
|---|---|
| `drv` | `UARTDriver.state`, `.txstate`, `.rxstate` |
| `tx`, `rx` | the channels: `CCR` (`en`, `tcie`, `circ`), `CNDTR` (`left`), the flags `HTIF`, `TCIF` of `DMA1->ISR` |
| `usart` | frames in the data and shift registers (`out`), `TC`, `TCIE`, an error flag |
| `pend` | interrupts pending in the NVIC |
| `cpu` | thread, lock zone, or the callback or point of a handler that control has reached |
| `use` | no variable of the code: how this behaviour uses the line, `"full"` or `"half"` |

Every API call is one action inside a lock zone or a callback; a handler is cut
where it calls the client back, because there the client may call the driver.
`Disable`, `Program` and `IdleLoop` are `dmaStreamDisable`, the programming
sequences and `set_rx_idle_loop`. `Vector68` is `TxService`/`TxNoFlag` (channel 2)
followed by `RxService`/`RxNoFlag` (channel 3); `serve_usart_irq` is
`UsartService`. The channels, the line and the shifter move at any time
(`RxByte`, `TxByte`, `FrameOut`, `LineError`): these are external. A latched
interrupt stays pending when its request goes away, and a request still high when
the handler returns is latched again (`Latch`).

The driver's assertions (a send or a receive is started only in an idle
direction, and on a started driver) are the client's obligation and are guards
here; that the tracker does not always keep them is a finding of `GsmSession`.

A behaviour with `use = "full"` has every legal use of the driver; one with `use = "half"` keeps to
`HalfDuplexUse`: no `rxchar_cb` (`CharCb`), a send, and then the receive
of its answer, which does not arrive before the interrupt of the send has been
served. Only then do the callbacks mean what they are documented to mean, see
section 5: `EndMeansDone`, `PhysicalEndReported` and `ImplementsService` are about it.

### GsmSession
One main thread (`pc`), its exchanges in order (`step`), the loop variables of
`AT_Command2`, `RX_Flag`, the receive buffer, the UART as `UartService` and the
modem. Bytes come in chunks: a receive takes two, and a reply has what is received
and possibly a rest, so that the buffer can hold parts of two replies. `strstr`
is certain when the reply is in place, impossible when no chunk holds the text,
and undetermined otherwise (`MatchOutcomes`). `setting.prompt` says that the modem
boots and answers within the sleeps of the code; without it the modem may boot
and answer at any time, lose commands, and overlap with the session, and the
UART's shared vector may then end both transfers at once (`BothEnd`). A reset
restarts the processor and leaves the modem as it is.

### LockService
What a mutex promises: one holder; a thread that finds it taken waits; a holder
that lets go hands it straight to one of the waiters (`HandOver`), and only a
mutex nobody waits for becomes free (`Free`).

### KernelMutex
| Variable | Code |
|---|---|
| `currp`, `ready` | `rlist.r_current`, `rlist.r_queue` |
| `p_prio`, `p_realprio`, `p_state`, `p_preempt`, `p_mtxlist` | the fields of `Thread` |
| `wtobjp` | `p_u.wtobjp`, None when the field means something else |
| `relock` | the mutex `chCondWaitS` and `chCondWaitTimeoutS` keep in a local variable over their sleep, None once they will not lock it again |
| `timed` | is the timer of `chSchGoSleepTimeoutS` armed? |
| `m_owner`, `m_queue`, `c_queue` | the fields of `Mutex` and `CondVar` |
| `wanted`, `cursor` | `mp` and `tp` of the `chMtxLockS` that runs; `cursor` is also the condition variable a broadcast empties |
| `phase` | where control is: a thread, a handler, or the loop that is running with interrupts masked |

The kernel runs with interrupts masked, so a call is one action, up to and
including the switch it ends with. The three loops over lists
(`chMtxLockS`, `chMtxUnlockAll`, `chCondBroadcastI`) are cut at every turn, with
`phase` keeping everything else out, so that their invariants and their
termination can be stated. A thread that is switched in continues
where it slept: `Resume` sends one that comes back from a condition variable to
`Relock`, every other to its own code. The compiled options are those of
`demos/BikeTracker/chconf.h`. The tick and the expiry of a timer are actions of
`phase = "isr"`: when a timer expires is left open, its order is the subject
of `VirtualTimers`. The lists are sequences and the insertions are written as the
scans the code makes (`FirstBelow`), behind the peers or, for a preempted thread,
ahead of them.

`MayUndercut = FALSE` leaves out the one use that `chThdSetPriority` does not cope
with (`Undercuts`): with it inheritance is not exact, see section 5.

### ThreadsQueue, Semaphores, Mailbox, MailboxService
`ThreadsQueue` has `dequeue`, by which a thread leaves a queue from wherever it stands;
semaphores, I/O queues and the registry share it. `k` holds the counter and queue of each semaphore (`Semaphore.s_cnt`, `.s_queue`)
and, of each thread, `p_u.wtobjp`, `rdymsg` and whether the timer of its sleep is
armed. The I- and S-class calls are functions from a kernel state to a kernel state
(`SignalI`, `ResetI`, `Sleep`, ...), because a mailbox makes several of them under one
lock. `Mailbox` adds `mb_buffer`, the two pointers, the message a poster brings
(`item`) and the one last fetched (`out`). A thread that had to sleep is made ready
by another and touches the ring in a step of its own, much later: between the two it
is *admitted* (`Admitted`). Nearly all that is hard about a mailbox is what happens
meanwhile. `RacyReset = FALSE` leaves out the reset at that moment (section 5).
`MailboxService` is a bounded queue with two ends; the detailed ring is mapped to
it by the `Stored` messages from `mb_rdptr` on, those that fetchers are admitted for
included.

### VirtualTimers, TimerService
`vt_list` and `vt_time` are the list of differences, `vt_systime` a counter of
`Range32` values that wraps. The handler of the tick releases the lock around
every callback (`phase = "callback"`), where anybody may set and reset timers
(`chVTSetI`, `chVTResetI`). A thread in periods (`time`, `turn`) uses
`chThdSleepUntil`; it wakes within `Work` ticks of its deadline. `TimerService` is
what a user is promised: `left` counts down, for each timer on its own.

### I2cDriver
The thread's call is three lock zones (`pc`), the peripheral a `bus` with the phase
of a transfer, the bytes to go, its flags and `CR1.TCIE`. `dmatx` and `dmarx` are the channels with
`EN`, `TCIE`, the count and the flags; each of `SetUp`, `Enable` and `Disable` writes what its
function in `stm32_dma.h` writes: only `dmaStreamDisable` clears flags, so that they outlive
`i2cStart` on a driver that has not been stopped, and it clears the interrupt enable, which
`dmaStreamEnable` does not set again.

The handlers hold no lock and the tick preempts them. `isr` says where one is and what it
has read: `EnterEvent` or `EnterError` takes and clears the flags of `ISR`; `TransferComplete` reads the length of
the read phase, `EnableRead` enables its channel, `StartRead` sends START; `EventIrq` does the rest. `DmaIrq`
and `RxEnd` are the two parts of the shared vector. `SafetyTimeout` may come between any two. The slave answers, refuses or
holds the clock; another master or noise may take the bus. `Restarts` is after which answers the
client starts the driver again without a stop (the comment at `i2c_lld.c:613` forbids it after a timeout
only). `moved` is what was really transferred and what went wrong, for the properties only.

### IoQueues, Events, SerialDriver
`iq` and `oq` are `InputQueue` and `OutputQueue` without the bytes: counter, pointers,
waiting threads. A call of several bytes releases the lock after each; `thr` says
where a thread is in one. `evt` is one listening thread (`p_epending`, `ewmask`) with its
listener (`el_flags`). `sd` is the driver with its USART: CR1's enables, the status
flags and the frames in its double buffer. `serve_interrupt` reads CR1 and the
status once, works on the copies and writes CR1 back: `ServeInterrupt` is that
whole pass. `use` fixes for a behaviour which side the threads work on, because the
two directions share nothing but the handler and the listener. `told` and `ended`
are histories for the properties.

`sdStart` and `sdStop` are allowed in `SD_STOP` and `SD_READY` alike: in a driver that runs, `usart_init`
rewrites CR1 without the transmit interrupts and clears `ICR`. With `Careless = FALSE` the client does not
start a driver that is sending (`Sending`), nor stop it while a thread is on its way into the output queue;
with `TRUE` it does (section 5).

### GpsReader
The busy loop of `GPS` (`at`), the receive it starts again (`left`), the buffer, the
copy `GRMC`, and `latitud`, of which only the origin is kept. `heard` says that
a byte arrived in this turn of the loop.

### Heap, Messages, Threads
`heap` has the free list and the blocks handed out, in units of the header, and
`nextmem`/`endmem` of the core allocator. `th` has `p_state`, `p_refs` and `p_waiting` of
each `Thread` object, which is known by its address: a stale pointer to freed and
reused memory is then a pointer to the new thread, as in the code. `held` is the
record of who has a reference to whom, and `job` where a thread is in a call that
leaves the lock on its way (`chThdRelease`, `chThdCreateFromHeap`, ...). `registry` holds
the links `p_newer` and `p_older` of every thread and of `rlist`; a thread that has left keeps its own, which lead
where they led. `REG_REMOVE` is one step in a lock zone and two in `chThdRelease` (`Unlink`, `Relink`),
which does not hold one. The registry is walked with `chRegFirstThread` and `chRegNextThread`.

What `chThdRelease` does after it has left the lock does not survive two interruptions, and `Races` names those
that a behaviour has: `"walk"`, a walk takes a reference to the thread being released, or to one that has
left; `"unlink"`, another thread changes the registry between the two statements of `REG_REMOVE`. Without
them such a walk or change waits; with them it is made, and what follows is followed.
`Messages` is the queue of senders of a server, which may hold several at once.

## 4. Runs

| Run | Question | Bounds and why they are enough |
|---|---|---|
| `uart` | any legal use, all callbacks, both directions; what the callbacks mean on a half-duplex line, and refinement of `UartService` there | transfers of 1 to 3 items: 1 sets both flags at once, 2 and 3 have a half-way point that is and is not one before the end; nothing in the driver depends on a larger size |
| `uart_rx_end` | does `rxend_cb` mean a full buffer with both directions in use? | the same; violated |
| `gsm` | the session with a prompt modem and with any modem | two settings in one run. Prompt modem, with the queries of `test/gsm.c`: three tries, which are none, one and several repetitions of a query; 1000 in the code. Any modem, without queries: two tries and one reset; a second only repeats the first, as memory starts again |
| `kernel` | every list, both records of the owner, inheritance, hand-over, the promise of `LockService`, the end of the kernel's loops | idle and three threads of three priorities: a chain of two owners, the shortest that follows `m_owner` twice, with a third to compare with; two mutexes, for chains, circles and a fall-back to the inheritance of the mutex still owned; one condition variable, for requeueing in it; quantum 1; a thread may set its priority to that of the middle one, so that peers occur |
| `kernel_turns` | does each of two peers get its turn? | the same threads, one mutex; quantum 2, so that a thread preempted after the first tick goes back ahead of its peers with a tick left, and behind them after the second; the third thread preempts as often as it likes, at any of these moments |
| `mailbox` | counters, ring and order of service, with timeouts, resets and handlers at any instant; refinement of `MailboxService` | two threads and the handlers; a ring of two slots, so that it wraps and both ends differ; two messages, so that an exchange shows; a semaphore besides those of the mailbox, counting to two |
| `mailbox_reset` | does every poster find its slot if a reset comes between? | three threads and one slot; violated |
| `timers` | is every deadline kept, is the list of differences what each timer was promised? | a sleep and three timers: two is a list, three has a middle; five values of the system time, so that it wraps during every behaviour; periods of two ticks and work of at most two, so that work may take the whole period |
| `i2c` | do the answers mean what they say, and does the call come back? | transfers of 0 to 2 bytes each way: two has a half-way point, which the shared vector mistakes; nothing depends on more. The client starts the driver again after `RDY_OK` or a stop |
| `gps_position` | is a position ever taken? | three bytes instead of 70; violated |
| `serial` | lost wake-ups, rings, announcements of input and of the end | two threads in the same call, so that one can be passed over; rings and calls of two bytes, so that a call meets an empty and a full ring half way; all four flags of the driver; `Careless = FALSE` |
| `threads` | the heap, lifetimes of threads, messages | three uses in one run, `use`. Heap: seven units and blocks of 0 to 2, enough for three blocks, so that a middle one is freed between free neighbours. Threads: main, one static, one from the pool and what two units of heap hold, so that memory is reused. Messages: two clients and one server, one queue with a second in it. `Races = {}` |

A run is a group of questions that share a state space; the properties named in
`PROJECT.json` are conjunctions of named parts where the parts belong together
(`Consistent`, `BuffersGivenBack`, ...), each part with a comment of its own. The types
of `GsmSession` are proved (`SessionTypes`) and are not in its run.

Deadlock is checked in all runs but one. The GSM session really ends
(`pc = "done"`: `main` loops for ever doing nothing), hence `CHECK_DEADLOCK FALSE` there.

**Fairness.** `UartDriver`: a handler that can go on does (interrupt handlers run
to completion), a lock zone ends (it holds one call), the channel and the shifter
move what they are given (a peripheral with a clock). `SF` on the USART handler
and the assumption that the DMA vector leaves the processor now and then say
that bytes are much slower than handlers (1 ms against microseconds at 9600 baud);
without it the vector of lower number would starve the other. Nothing is assumed
of the client or of the far end: bytes may never arrive. `GsmSession`: the main
thread goes on when awake (the other thread, `Blink_LED`, sleeps all but
microseconds) and the environment does not stop altogether. `KernelMutex`: what
runs with interrupts masked, or in a handler, runs on (`WF`); a tick that comes
while interrupts are masked stays pending and is served when they are enabled
(`SF`). Nothing is assumed of the threads: one may loop for ever without a call. `RoundRobin` is
about two threads of which one keeps using up its time (`UsesTime`: a tick meets it): the other, of the same
priority, runs again and again, whoever preempts them and how often.
`VirtualTimers`: the tick keeps coming although threads mask it now and then (`SF`), its handler
goes through (`WF`), and the periodic thread gets to run between ticks (`SF`,
it may be preempted). `I2cDriver`: handlers run and the safety timer
fires (`WF`). Events on the bus are bit times apart and handlers shorter, so that what they delay is
done between them: the event handler is entered and a handler ends with no further error to serve (`SF`),
and so do the thread's lock zones (`SF`). Of the bus nothing is assumed, it may stand still
for ever. `SerialDriver`: the handler runs, a frame leaves the
shifter, and a thread that is ready runs (`WF`); bytes, timeouts and stops may come or not.
`Threads`: ready callers go on (`WF`), a server takes and answers
messages (`SF`, as another sender may come first). `GpsReader`: the loop runs (`WF`) and bytes
keep arriving, at most one in a turn (`SF`). `Mailbox` assumes no fairness of the threads: a
poster gets its turn if messages go on being fetched, which is a premise of `PosterServed`
itself.

## 5. Findings

* `uart_rx_end`: the vector shared by channels 2 and 3
  (`stm32_dma.c:130-152`) asks which flags are up and not which interrupts are
  enabled, and the flags include half transfer. An interrupt of one direction
  that finds the other half way ends that one: `rxend_cb` for a half-filled
  buffer, or, the same way, a send cut off. It takes both directions in use at once, which
  is why `UartService` is implemented only on a half-duplex line.
* `mailbox_reset`: `chMBReset` resets the two semaphores and rewinds the pointers
  (`chmboxes.c:90-99`). A poster that `chSemSignalI` has already made ready is in no queue any
  more, keeps its `RDY_OK`, and stores into the mailbox that now has all its slots free besides:
  more messages than slots, and the oldest is overwritten.
* `gps_position`: `GPS` starts its receive again in every turn of a loop that does
  not wait (`main.c:108-113`), each time from the first byte, so that 70 bytes are never
  received. With the buffer full it would take the position out of the local array `datos`,
  which nothing writes (`main.c:131`).

Met while modelling, left out of the runs by a value of a constant that names the condition. The other
value lets the code's behaviour in, and TLC then refutes the property:

| Constant | Property refuted | What the code does |
|---|---|---|
| `MayUndercut = TRUE`, with `Prios = {2, 3}` so that a thread can go below its waiter (`KernelMutex`) | `InheritanceExact` | `chThdSetPriority` (`chthreads.c:225`) takes `p_prio = p_realprio` to mean that nothing is inherited. The two are also equal when a thread of the same priority waits; the holder then lowers itself below its waiter, against `chmtx.c:59-64`. |
| `Restarts = {"RDY_OK", "RDY_RESET"}` (`I2cDriver`) | `AnswerIsTrue` | A bus error wakes the caller while the transfer goes on (`i2c_lld.c:288`), and its TC enables the receive channel again, so that a half-transfer flag can be left up. `i2c_lld_start` on a driver that is not stopped and `dmaStreamSetMode` (`stm32_dma.h:277`) leave it, and the next end of a send ends the operation with `RDY_OK` and nothing received. |
| `Careless = TRUE` (`SerialDriver`) | `WriterServed` | `sdStart` in `SD_READY` (`serial.c:164`) rewrites CR1 without TXEIE (`serial_lld.c:101`) over a full queue; the threads asleep on it are not woken. The same call clears TCIE and TC with the last frame on its way, so that the end of the transmission is not announced either. `sdStop` while a woken thread is on its way into the output queue resets the queue before the thread stores its byte (`serial.c:181-195`); the next `sdStart` leaves TXEIE clear over it. |
| `Races = {"walk"}` (`Threads`) | `ReferenceKeepsThread` | `chThdRelease` counts the last reference down under the lock and goes on without it (`chdynamic.c:80-101`). A walk still finds the thread and takes a reference, and the memory is freed under it, against `chregistry.c:108-109`. A walk that stands on a static thread when it exits also goes on from links that are no longer kept up to date (`chregistry.c:144`). |
| `Races = {"unlink"}` (`Threads`) | `RegistryHoldsActive` | `REG_REMOVE` in `chThdRelease` is outside the lock (`chdynamic.c:90`). A thread created between its two assignments is linked behind the one that leaves, and no walk comes to it. |

Two properties of the I2C driver name their exception themselves, and TLC refutes each of them without it:

* `BuffersGivenBack`: a bus error lets a byte reach a buffer that has been given back, as the transfer it has
  interrupted goes on (`moved.berr`). So does a timeout in the middle of the handler (`moved.cut`): the TC branch reads
  the length of the read phase and then enables the receive channel (`i2c_lld.c:176-181`), without a lock; the abort of a
  timeout between the two is undone, and bytes come into the buffer of a call that has returned, though the
  abort "stops the associated DMA streams" (`i2c_lld.c:132`).
* `TimedCallReturns`, `CaughtInHandler`: a write that ends with an error leaves `CR1.TCIE` set. A later receive whose
  channel a bus error has disabled with its last byte on the way ends with TC, which no branch serves in
  `I2C_ACTIVE_RX`: the handler is entered for ever and no thread runs again.

Met besides, left out by a named condition or a bound:

* `IMEI_GET` takes what is in the buffer for the IMEI (`main.c:414`). With replies later
  than the 100 ms of its loop it stores another exchange's bytes. `ReadingsAreReplies` is
  therefore checked with a prompt modem.
* `AT_Command2` starts a receive over one in progress (`main.c:176`) when the modem is
  slow, against the assertion in `uart.c:265`, which `chconf.h` compiles out.
* After a reset with the modem on, the toggling pulses of the power key are out of step
  (`main.c:285`), and `GSM_OFF` leaves the modem on; `ModemOffAtEnd` is about sessions
  without a reset.
* `chThdSleepUntil` with a deadline already past sleeps for nearly the whole range of
  `systime_t` (`chthreads.c:312`): `Work <= Period` keeps the periodic thread from it.
* `chTimeIsWithin` with `start` equal to `end` is documented as always true
  (`chvt.h:231`); the comparison at `:241` is then always false. `WindowExact` is about
  windows of at least one tick.
* The accelerometer demo ignores the status of its transfer (`AcelerometroV2.c:160`), and
  its one-shot interval 100000 does not fit the timer's 16 bits (`:166`).
* Servers that send each other messages wait for ever (`chmsg.c:86`); the kernel leaves
  that to its user, and `Messages` keeps clients and servers apart.

## 6. Proofs

Every safety property and every action property that a passing run checks is a theorem, for
all values of the constants that its assumptions allow; so are the refinements. Each module of proofs has one inductive
invariant or a few on top of each other, every one of which was model-checked on the bounds of
section 4 before it was proved. The constants are assumed to be what the code has: an
idle thread below all others (`IDLEPRIO`), a quantum of at least one tick, a ring with a slot,
a call with a byte, a period shorter than `systime_t` counts, finitely many threads.

**`UartDriverProofs`**, for every size of transfer and every choice of callbacks.

* `Inv`, the type invariant and `ChannelsAgree` (a flag or an enable of the TX
  channel means an ACTIVE send; an enabled RX channel in no ACTIVE receive is
  the circular idle loop; COMPLETE only while the callback runs). The buffer
  properties and the two silence properties follow from it: none of them is
  inductive alone, because each speaks of the moment a handler acts on flags
  raised long before.
* `HalfInv` adds, on a half-duplex line, that a pending DMA
  interrupt finds each transfer complete or not begun (`PendingMeansDone`), and
  that this still holds at each point inside the handler (`HandlerMeansDone`).
  From it follow what the callbacks mean and that every step is a step of
  `UartService` or a stutter (`HalfDuplexImplementsService`).

A half-duplex client has no `rxchar_cb` (`CharCb`) because with one the idle
loop's own interrupts reach the shared vector at any time.

**`GsmSessionProofs`**, for any set of sessions and surroundings, any number of tries and of resets.
`Inv` has a part for each question:

* `LoopOK` places the loop variables of `AT_Command2`.
* `Toggled` says that the power key, which toggles, is in step until the first reset; with it
  the last pulse switches off (`ModemIsLeftOff`).
* `Truthful` says that a positive chunk under way or in the buffer is one that the modem has
  said since it was switched on. `AnswerIsGenuine` is not inductive without it, because the
  answer is taken from what arrived several exchanges ago.
* `PromptOK` follows one exchange with a prompt modem, byte by byte: where the session does not
  wait, nothing is under way (`CalmOK`); command, reply and echo alternate (`TurnOK`); what is on
  its way is the rest of the reply (`ReplyOK`), and in the buffer it is in place (`BufferOK`). From it
  follow `ReadingsAreWhole` and, step by step, `DriverIsUsedWell`.

The last assumes that sessions with a prompt modem are not reset: a reset in the middle of a send
stops the UART without a call to its driver, which `UartService` does not have. `Settings` in the
run is so.

**`KernelMutexProofs`**, for any finite set of threads, any mutexes, condition variables
and priorities, and any quantum.

* `KInv` is `TypeOK`, `Places`, `Control` and `Waiting`. `Places`, every thread in
  exactly the list its state names, is what the scheduler rests on, and is not
  inductive alone. A sleep takes the first ready thread, so that
  there must be one: `Control` says that the idle thread is always ready or running.
  A turn of the inheritance loop takes a thread out of the queue of
  `wtobjp` and follows `m_owner`: `Waiting` says that a waiter waits for a mutex
  with an owner, or for a condition variable. And the turns of a loop rely on
  what the call left in `wanted` and `cursor` (`Control`).
* The lemmas on lists say that the scan stops (`ScanStops`), and that an insertion
  adds, and `Dequeue` removes, exactly one thread; the lemmas on the scheduler
  (`GoSleepStep`, `WakeupStep`, `SwapStep`, `RescheduleStep`) say what each way to
  switch leaves behind, and every action is proved from them (`KStep`).
* `OwnersCorrect`: with `KInv`, a mutex and the stack of its owner always
  agree; the top of the stack is then owned by the thread that unlocks it.
* `LocksImplemented`: from both, every step is a step of `LockService` or a
  stutter. Five kinds of step show (taking, sleeping, and the three
  ways to unlock); each of the others leaves the waiters as they were (`Hidden`).
* `Ranked`, on top of these: every list is sorted; the running thread outranks the ready ones at
  every place where the code has just scheduled (`TopRuns`); a thread has more than its own
  priority only if a *donor*, one who waits for a mutex of its, has that much (`NoExcess`),
  but for the running thread in the middle of `chMtxUnlockAll` and for the one that the loop
  of `chMtxLockS` is about to raise, which has a donor too (`LoopDonor`).
  `PrioritiesInOrder` and `HandsOverByPriority` follow. The sorted
  lists and the inheritance need each other: the new priority after an unlock is read from
  the *first* waiter of each mutex, and the loop inserts by a priority it has just changed.
* `NoLack`, that no donor is more urgent than the owner except where the loop has yet to go, needs
  `~ MayUndercut`; with it inheritance is exact (`InheritanceIsExact`). The other theorems hold for
  every use of `chThdSetPriority`.

**`MailboxProofs`**, for any finite set of threads, any semaphores, messages and size of the ring.

* Lemmas first, on a queue that holds every thread of a set once (`IsQueueOf`): how one joins it, leaves
  from the front, or from the middle. `SerialDriverProofs` has the same for its queues.
* `Kept` (in `PlainInv`): the counter of a semaphore, when negative, is minus the length of its
  queue; the queue holds once each thread whose `wtobjp` it is; and such a thread is in a call that
  uses this semaphore. `SemaphoresAgree` and, from what each call does to a queue (`OrderKept`),
  `NobodyOvertakes` need no more, and hold whatever is reset when.
* `BoxInv` counts *units*: what a semaphore's counter has left and what it has given to threads that have
  been made ready and not yet come back. A semaphore's units are neither counter nor
  admitted threads alone, since a signal turns the one into the other long before the
  ring is touched. The units of `empty` and `full` add up to the size, and those of `full` are the distance of the
  pointers. `SlotsKept`, `PostersFindSlots` and the refinement `MailboxIsQueue` follow from it.

`~ RacyReset` is the assumption of these three: a reset between the signal and the return of the thread
adds units that are there already, which the run `mailbox_reset` shows. No other use is left out.

**`VirtualTimersProofs`**, for any timers and any width of `systime_t`.

* `Sums` is what its recursion says, and the only such function (`SumsAddUp`, `OnlySum`). Induction over the
  list is not at hand; both are shown by way of the least position at which
  they would fail, which exists because the positions are well-founded.
* `Says(list, time, armed, l)`: the list is consistent and gives each timer the ticks `l`. `SetSays`,
  `ResetSays`, `TickSays` and `ExpireSays` compute the new sums position by position: a call changes
  the ticks of its own timer and of no other, although it changes the difference kept in a neighbour.
* `Inv` adds that every expiry stays below `Range32`, without which a sum of differences
  could exceed the type that holds each, that nothing is due between two ticks (`NothingDue`), and the
  rhythm of the periodic thread (`Rhythm`): asleep exactly while its timer is set, for the ticks up to its deadline;
  awake no later than its work takes. `Differences` and `Later` are the arithmetic that wraps around.
  `ListCorrect`, `WrapAround` and the refinement `TimersImplemented` follow.

**`I2cDriverProofs`**, for transfers of any length. `Inv` has a part that holds whatever the client does (`Shape`,
from which `TypesCorrect` follows), and one (`Order`) for a client who starts a driver again only after `RDY_OK` or a stop:
`Restarts \subseteq {"RDY_OK"}` is the assumption of `AnswersAreTrue` and `BuffersAreGivenBack`, and
they need it (section 5).

* A channel and the peripheral have the same number of bytes to go (`BusOK`); what a handler has
  read is still so when it acts on it, or the timeout has come between (`HandlersOK`, `EventsOK`).
* A half-transfer flag means a transfer under way or an interrupt to come that clears it
  (`ChannelOK`). This is what an answer given by the shared vector rests on, and what a restart breaks.
* While the thread sleeps, what has been moved and what is left add up to what it asked for, and an error is on
  record (`SleepOK`); once it does not sleep nothing moves (`QuietOK`), and after `RDY_OK` no flag is up (`AnswerOK`).

`AnswersAreTrue` is not inductive alone, as the answer is given by a
handler that knows only its own flags; `BuffersAreGivenBack` is an action property over `QuietOK`. After a bus error
(`moved.berr`) or a timeout in the middle of the handler that starts the read phase (`moved.cut`) `QuietOK` claims
nothing (section 5), and `AnswersAreTrue` holds all the same.

**`SerialDriverProofs`**, for any finite set of threads, rings of any size and calls of any length.

* `Inv` says of each queue that the counter is what lies between the pointers and that a
  thread waits only at an empty input or a full output queue (`QueuesOK`); of the listener
  that it sleeps only while what it waits for is missing (`ListenerOK`); of the
  driver, for a client who is not `Careless`, that the transmit interrupt is on while bytes wait
  (`TransmitEnabled`, in `Orderly`). None of these is
  inductive alone: the handler decides on the pointers what the theorem says about the
  counter (`PointersMeet`, `FilledByCounter`), and `sdStart` clears the interrupt's enable, which is
  harmless only if the driver has nothing to send, or is stopped, with an empty output queue and no writer on the
  way into it (`StoppedIsQuiet`). `TransmitInterruptOn` assumes `Careless = FALSE` and nothing else does; section 5
  says what a careless client gets.
* `RingsCorrect`, `EventsCorrect`, `TransmitInterruptOn` and `InputIsAnnounced` are conjuncts or
  consequences of it; `EventsNotLost` is an action property over its steps.
* `Inv2` adds the *sides* (`SidesOK`): a queue holds once each thread that waits in it, and while it holds
  one, the bytes (or free places) do not outnumber the threads made ready for them. Between two
  steps a byte belongs to the thread that was woken for it, or to one that overtakes it, and then the woken one
  goes back to the queue. `DataAgree` and `WakeupsKept` follow.

**`ThreadsProofs`**, for any size of the memory and of the pool, any number of static threads, any
clients and servers, and each use on its own or any of them. Its assumptions are that there is some memory, that
the threads' part of it is not empty, that no server is a client, and that `Races` is empty: each of
the two races breaks what is proved (section 5). `Inv` is about the memory and about its users.

* `HeapInv`, the memory: `Tiles` says that the free blocks and those handed out are
  inside what the core allocator has given, that each unit of it is in one of them, that no two share
  one, and that the free list is in the order of the addresses; and no neighbours in the list *touch*
  (`Touch`). `chHeapFree` needs all of it to do its work: it looks for its place
  by comparing addresses, which finds the right one only in an ordered list, and merges once on each
  side, which is enough only if nothing touched before. In between, after the insertion, blocks
  may touch at one or two known places; `InsertAtIs` and `MergedAt` say which, and how each of
  the two merges takes one away, so that `GivenBack` ends where it began. `AllTaken`, `PartTaken` and
  `CoreTaken` do the same for the three ways in which `chHeapAlloc` finds a block. All of them
  rest on one lemma about replacing a part of a list (`Splice`).
* `ThreadInv`, its users: `CountInv` says that `p_refs` is the number of references that are held
  (`RefsOf`), `HeldInv` that a reference is held by a caller who is alive, to a thread there
  is. From these a count that reaches zero is the last reference, and nobody raises it again (`GivenUp`).
  `chThdRelease` leaves the lock, takes the thread out of the registry and frees it: `JobInv` says what each
  of these stages can rely on, and `OnlyOne` that no two threads are in them with the same thread.
  `MemoryInv` says exactly when a thread's memory is handed out. None of the parts stays true without the others.
* `RegistryInv`: the links of the threads that stay form one ring with `rlist`, in which one thread at most is half cut
  out, its predecessor's link moved on and its successor's not. `RingInserts`, `RingCut` and `RingCloses` are the
  insertion and the two statements of `REG_REMOVE`. Where a walk comes is not defined by recursion but as what is
  in every set that holds `rlist` and is closed under `p_newer` (`Registered`), so that no induction is needed
  to show that it comes to the threads of the ring and no others (`RingReached`).
* There is one lemma per action; `MemoryWholeHolds`, `ReferenceKeepsThreadHolds` and
  `RegistryHoldsActiveHolds` follow.

`BuffersReturned`, `StopsAreSilent` and `KernelConsistent` put theorems above together into the
properties that the runs check.

Out of the prover's reach, and checked by TLC only: liveness (`TransfersEnd`,
`PhysicalEndReported`, `SessionEnds`, `KernelUnlocks`, `RoundRobin`, `TimerEnds`, `NobodyPassedOver`,
`TimedCallReturns`, `WriterServed`, `EndReported`, `SleepersWoken`).

## 7. Not modelled

DMA transfer errors (`STM32_UART_DMA_ERROR_HOOK` halts the system), stream
allocation, baud rates and word sizes; the text of commands and replies; `HTTP_Post`
and `AT_Command`, which nothing calls; the loop
of the accelerometer demo and the GPT driver under it (a one-shot timer and a callback that
turns an LED off); bytes in the queues, contents of messages, event sources with
several listeners (each would be served like the one); `chHeapStatus`; the core
allocator by itself beyond what the heap takes from it; `chSysInit` and the halting paths of
`chdebug.c`, whose checks `chconf.h` compiles out. Drivers, boards and ports for other hardware, and the
libraries in `ext`, are not part of the tracker.
