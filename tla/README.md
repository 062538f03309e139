# TLA+ models of ChipCode's drivers

This directory holds TLA+ specifications of the program logic in this
repository, the TLC configurations that check them on small instances, and
TLAPS proofs of the results that matter most. Everything is translated from the
source: above all from `src/USBNET_Linux_driver/`, the GobiNet USB network
driver, and further from the board kernel's `omap_hwmod.c`, the `mult_time` timer
module and the ISL12026 clock driver. A line number without a file refers
to the source of the part it is about; `PROJECT.json` has them in full.

## 1. The system

ChipCode collects device code: drivers, small chip libraries, sample
programs and vendor patches. The largest piece of the repository's own logic, and
the one where threads, interrupts, callbacks and timeouts meet, is the
GobiNet driver.

### 1.1 GobiNet (`USBNET_Linux_driver/`)

| part | source | state | operations |
|---|---|---|---|
| client memory: read side | `QMIDevice.c` 1488-1715, 2397-2768 | per client: `mpList` (messages), `mpReadNotifyList` (waiters), a semaphore per waiting call | `ReadSync`, `ReadAsync`, `NotifyAndPopNotifyList`, `UpSem`, `ReleaseClientID` |
| client memory: write side | `QMIDevice.c` 1731-1963, 2786-2880 | per client: `mpURBList`; a semaphore per call | `WriteSync`, `WriteSyncCallback`, `ReleaseClientID` |
| continuous read | `QMIDevice.c` 970-1462, `GobiUSBNet.c` 142-299 | `mpIntURB`, `mpReadURB` | `StartRead`, `IntCallback`, `ReadCallback`, `ResubmitIntURB`, `KillRead`, `GobiSuspend`, `GobiResume` |
| client IDs | `QMIDevice.c` 761-771, 1985-2277 | `mpClientMemList`, `mQMICTLTransactionID` | `GetClientID`, `ReleaseClientID`, `QMIGetTransactionID` |
| control requests | `QMIDevice.c` 2296-2377, 2899-3040, 3366-3482 | client 0's memory | `QMIReady`, `QMICTLSyncProc`, `QMIWDASetDataFormat`, `QMIDMSGetMEID` |
| WDS indications | `QMIDevice.c` 894-945, 3500-3779 | `mDownReason`, carrier | `SetupQMIWDSCallback`, `QMIWDSCallback`, `GobiSetDownReason`, `GobiClearDownReason` |
| character device | `QMIDevice.c` 179-735 | `sQMIFilpStorage`, `private_data`, reference count | `UserspaceOpen`, `Close`, `Read`, `Write`, `Poll`, `IOCTL` |
| device lifetime | `QMIDevice.c` 3056-3345, `GobiUSBNet.c` 317-444, 1178-1305 | `mbQMIValid`, `mbDeregisterQMIDevice`, `refcount` | `RegisterQMIDevice`, `DeregisterQMIDevice`, `GobiUSBNetProbe`, `Unbind` |
| transmit thread | `GobiUSBNet.c` 554-978 (built for kernels before 2.6.29 only) | `sAutoPM`: `mpURBList`, `mpActiveURB`, `mURBListLen` | `StartXmit`, `URBCallback`, `AutoPMThread`, `TXTimeout` |
| QMUX and TLV codec | `QMI.c` | none | `ParseQMUX`, `FillQMUX`, `GetTLV`, `ValidQMIMessage`, the fillers and parsers |
| network frames | `GobiUSBNet.c` 461-537 | `mbRawIPMode` | `GobiNetDriverTxFixup`, `RxFixup` |

How the parts interact. The continuous read is a relay of two URBs: the
interrupt URB announces a message, `IntCallback` submits the control read,
`ReadCallback` files the message under its client and submits the interrupt URB
again. A thread that wants a message (`UserspaceRead`, or the driver's own
requests through client 0) finds it in its client's `mpList` or sleeps in
`mpReadNotifyList`; `ReadCallback` takes the first waiter that matches off the
list, drops the spinlock and runs its function, `UpSem` for a sleeping thread or
`QMIWDSCallback` for the driver's own asynchronous client. `WriteSync` does the
same in the other direction with `mpURBList`. `ReleaseClientID` wakes all
waiters, kills all URBs and frees the memory. `DeregisterQMIDevice`, called at
disconnect, releases every client, closes every open file and stops the
continuous read.

What is hard: all of it is shared by system calls, USB completion handlers,
kernel threads and power management under one spinlock that several functions
drop in the middle; calls end early on signals; devices disappear; and
the notify list holds pointers to semaphores on other threads' stacks.

### 1.2 The other parts

| part | source | what it is |
|---|---|---|
| omap hwmod | `omap_hwmod.c` of the board kernel in `UnmannedShop/` | the IP blocks: state, clocks, sysconfig, reset lines; boot, drivers' calls, suspend |
| `mult_time` | `timers_module/` | a misc device with 48 timers: one list of started timers, a count of expiries, and a `read` that reports which timer ran |
| ISL12026 | `ISL12026_Linux_driver/rtc-x1226.c` | real-time clock: write-enable sequences, BCD dates, alarm, two trims in sysfs |
| TSL2561 | `TSL2561_driver/` | light sensor: I2C state and the fixed-point `calculateLux` |
| ICM20948 | `ICM20948/` | motion sensor driver over SPI/I2C register banks |
| ATSHA204A | `ATSHA204A.c` | crypto chip protocol: wake, command with CRC-16, response |
| TVP5150 | `TVP5150_Linux_driver/` | video decoder driver derived from the kernel's |
| serial samples | `HUAWEI_ME909S-821/`, `Bluetooth_bluez_sample/` | straight-line sample programs |
| U-Boot patches, documents | `JN-ccssoft-beta_rtsdk_3.3_patch`, `UnmannedShop`, `WL1837_Linux_driver` | board files of U-Boot, images, manuals |

The parts of this table do not interact with one another or with GobiNet. Inside
them: the blocks of hwmod depend on their parent and on the lists that are
worked through at boot and after a suspend; the callers of `mult_time`
share one list and one count, with timers in interrupt context; the clock's
class operations, sysfs files and probe share the chip.

### 1.3 What makes each part correct

- *Client memory, read side*: a reader gets the oldest message it asked for; a
  message never stays in the store while a reader who wants it sleeps; the end of
  a client wakes everybody; nobody touches the semaphore of a call that is over.
- *Client memory, write side*: each write destroys one URB, one that exists and
  that the host controller is done with; each write returns.
- *Continuous read*: exactly one of the two URBs is in flight while the device is
  up, none afterwards; an error of a read does not end the reading.
- *Link state*: the carrier is on exactly when no reason is set, whoever sets and
  clears the reasons; the link reason follows the last message of the device.
- *Character device and lifetime*: the structure lives as long as a thread, a
  call or a descriptor may use it, and no longer; every client has one owner who
  gives it back; the disconnect ends.
- *Control requests*: each answer reaches the request with its transaction ID.
- *Transmit thread*: packets leave in order, none is forgotten while the thread
  sleeps, the queue keeps its limit, the usage count of the interface is balanced.
- *Codec and frames*: what a filler writes, the device can read; what an answer says
  is what the caller gets; frames have the form the device was asked for.
- *hwmod*: what a block has enabled is given back exactly when it leaves `ENABLED`;
  its sysconfig register says what its state asks for; no register is touched
  without clocks; a driver that was told "enabled" has a block that is.
- *mult_time*: a read reports a timer that ran.
- *ISL12026*: a sequence that ends has stored its value, and what is read back is
  what was written.

## 2. The plan

In the order of importance. All of it is done but number 6.

| | module | models | composes, refines | status |
|---|---|---|---|---|
| 1 | `ReadStore` | read side of a client | implements `MailBox` | checked, proved |
| 2 | `WriteSync` | write side of the clients | | checked, proved |
| 3 | `ReadChain` | the two URBs of the continuous read | | checked, proved |
| 4 | `LinkState` | WDS callback, power, open and stop, disconnect | extends and implements `DownReason` | checked, proved |
| 5 | `DeviceLife` | probe, `qmi_sync_thread`, `/dev/qcqmi`, disconnect | | checked, proved |
| 6 | `ClientList` | `mpClientMemList` with its pointers: `ReadCallback`, `GetClientID`, `ReleaseClientID` walking it while the lock is dropped | | not modelled |
| 7 | `TxThread` | `StartXmit`, `AutoPMThread`, `URBCallback`, `TXTimeout` | | checked, proved |
| 8 | `Control` | transaction numbers, `QMIReady`, `QMICTLSyncProc`, requests and late answers | uses what `MailBox` says of `ReadSync` | checked, proved |
| 9 | `Codec`, `QMIExchange` | `QMI.c` byte by byte, and the requests, answers and frames it is used for | `QMIExchange` extends `Codec`; against a reference reading of an answer | checked, proved |
| 10 | `Hwmod` | the life of an IP block and its parent | | checked, proved |
| 11 | `MultTime`, `RtcX1226` | the timer module and the clock | composed in `Drivers` | checked, proved |

`ClientList` is left: what goes wrong with pointers into that list is a matter of
memory that is freed and used, and the driver protects none of it, so that a model
would only repeat what reading lines 1151-1166, 2112 and 2231-2262 shows.
Every safety property that a passing run checks is a theorem as well; the
liveness properties are left, for a prover that handles fairness.

## 3. The modules and the code

A definition carries the name of its function where it models the whole of it;
`PROJECT.json` maps each one to its lines. A critical section of a spinlock is one
action. Where a function drops the lock, sleeps or makes a call that others can
overtake, the action ends and another one takes over. Each module also holds *variants*,
operators that no specification uses and whose comment starts with "Variant":
plausible mistakes in that code, each of which some property rejects. Variables
whose comment says *history* are written only, apart from the properties.

| module | proofs | MC module and configurations |
|---|---|---|
| `ReadStore`, `MailBox` | `ReadStoreProofs` | `MCReadStore`: `ReadAny`, `ReadSignals`, `StaleSem` |
| `WriteSync` | `UrbProofs` | `MCWriteSync`: `Write` |
| `ReadChain` | `UrbProofs` | `Chain` |
| `DownReason`, `LinkState` | `LinkStateProofs` | `Link` |
| `DeviceLife` | `DeviceLifeProofs` | `Life` |
| `TxThread` | `TxThreadProofs` | `Tx` |
| `Control` | `ControlProofs` | `Control` |
| `Codec`, `QMIExchange` | `QMIExchangeProofs` | `MCQMIExchange`: `Codec` |
| `Hwmod` | `BoardProofs` | `MCHwmod`: `Hwmod` |
| `MultTime`, `RtcX1226`, `Drivers` | `BoardProofs` | `MCDrivers`: `Drivers` |

**ReadStore.** One client. `mpList` is the sequence of the unread messages'
transaction IDs, `mpReadNotifyList` the sequence of the waiting threads,
`readSem[r]` the count of the semaphore on the stack of thread `r`. `ReadSync(r)`
is the first pass through the loop of `ReadSync`, `Woken(r)` a later one,
`Interrupt(r)` and `CancelRead(r)` the signal and what the code does after
it. `ReadCallback` stores a message and takes the first waiter that matches off the
list; `popped` then holds this waiter for as long as the lock is dropped, `UpSem`
is its function. `ReleaseClientID` notifies in the same way, again and again,
and then deletes the client; the action after each dropped lock is
`ReleaseContinue`. That a stored message and a waiter match by different rules
(`Wanted`, `ToNotify`) is in the code: lines 2564 and 2723.

**MailBox** is what `ReadSync`'s callers rely on: put, take, block, close,
without notify lists and semaphores, with the promises that mail for a blocked
reader is taken in the end and that a closed box dismisses everyone; a signal sends
one reader away.
`ReadStore` implements it (`ImplementsMailBox`) with `open` as "the client is
listed", `box` as `mpList` and `blocked` as the threads asleep in `ReadSync`.

**WriteSync.** All clients at once, since the threads of the driver share client
0. An entry of `mpURBList` is the thread whose URB it points to, or `Freed` once
that URB was freed. `WriteSync` is the first critical section (`AddToURBList`);
`Submit`, `SubmitFailed` and `Finish` are the second and third;
`Interrupt` is the signal during the wait; `WriteSyncCallback` is the
completion for a thread that waits, `StrayCallback` for one that has left: the
semaphore of that call is gone, and the `up()` may go to the one of the thread's next
call, which stands in the same place of its stack. History: `left[w]` says how the
last call of a thread ended while its URB was flying, `early` whether a stray
callback is what raised the semaphore of the present one.

**ReadChain.** `mpReadURB` and `mpIntURB` are NULL, idle or flying; a freed URB
that the host controller still has is counted in `strayRead` or `strayInt`.
`IntCallback` and `ReadCallback` run for the device's own URBs or for strays.
`KillRead` is four actions (`KillReadURB`, `KillIntURB`, `FreeURBs`, and the
callers), since a callback can come between its calls.

**DownReason, LinkState.** `GobiSetDownReason` and `GobiClearDownReason` are
two and three actions: they change the bit and then the carrier. `step[r]`
says where the caller of reason `r` is; each reason has one caller at a time,
which `LinkState` shows for the driver by implementing `DownReason`'s
specification. `QMIWDSCallback` and `ReadAsync` call each other; `wds` says where
they are and `inRead` whether this is the completion handler.

**DeviceLife.** `usb` is the thread that probes and unbinds, `sync` is
`qmi_sync_thread`, `pc[t]` and `call[t]` are the call of a program's thread.
`data[f]`, `private[f]` and `client[f]` are the `sQMIFilpStorage` of a file,
whether `private_data` points to it, and its `mClientID`; `fds[f]` counts the
file's descriptors. `DropAndFree` is the decrement of `refcount` that frees the
structure at zero. `ReleaseHead`, `DeleteHead`, `AllReleased`, `ForceClose`,
`RemoveNode`, `DeleteCdev` are the steps of `DeregisterQMIDevice`.

**TxThread.** The driver as compiled for kernels before 2.6.29. A packet is its
number in the order the stack sent it. `mpURBList`, `mpActiveURB` (with
its two values that are no URB, `NULL` and `EAGAIN`) and `mThreadDoWork` are
the code's; `thread` says where `GobiUSBNetAutoPMThread` is between two locked
sections, `timeout` where `GobiUSBNetTXTimeout` is, `pURB` what each of them is
about to kill. Packets, timeouts and the stop of an interface exclude each other,
as the network stack has it; the URB's callback comes at any time. `pm` counts the
references from `usb_autopm_get_interface` that the thread holds.

**Control.** The control client after `RegisterQMIDevice`. A request is known
by the value that the counter had when its number was drawn, so that a number used again
can be told from its first use; `Number` cuts the value to the width of a `u8`.
`QMIReady` is six actions, with the entry of the notify list and the
semaphore on its stack in full; the other requests (`GetClientID`,
`ReleaseClientID`, `QMICTLSyncProc`) draw, send, and receive as
`MailBox` says of `ReadSync`. `underWay` are the answers that the device has not yet
delivered, also those to requests nobody waits for any more.

**Codec, QMIExchange.** `Codec` has an operator for each function of `QMI.c`:
the fillers return the buffer, the parsers take one and return what the C function
returns and writes through its pointers. `QMIExchange` is one request at a
time: filled and written, answered with any sequence of TLVs from a pool, read by
`ReadCallback` as far as it needs to find the waiter, and parsed by the caller.
The answer to `QMIWDASetDataFormat` decides `mbRawIPMode`, and with it what
`GobiNetDriverTxFixup` and `GobiNetDriverRxFixup` make of a frame; `deviceRawIP` is what
the device itself has made of it. `misread` is history. A frame has the first bytes
of its payload and the length of all of it, which `RxFixup` compares with a header's.

**Hwmod.** The public functions that take the lock of their block are one
step each, built from operators with the names of the static functions
(`_enable`, `_idle`, `_shutdown`, `_ocp_softreset`, `_reset`, ...). Such an operator
returns the set of blocks that the code may leave: a wait for the block may run out.
`omap_hwmod_softreset` takes no lock: `Softreset` (or the notifier's
`_reidle_all_softreset`) ends with its first write and leaves in `resets` what the
second has still to write; `omap_hwmod_softreset` is that second one. The notifier of
PM_POST_SUSPEND goes through its list block by block (`stage`), with
`_reidle_all_enable`, `_reidle_all_softreset` and `_reidle_all_idle` beside the
drivers' calls. A block is a record: the code's fields, the hardware (`modulemode`,
`reg`, `mux`), counts of what the block has enabled elsewhere, and history.
Registration, setup at boot (one block early, then all), and driver calls, suspends and
reidling follow one another in `phase`. In a suspend (`Suspend`) the tasks are frozen, so
that saving and restoring the context is one step. A driver makes one call after
the other and resets a block only while it has it enabled; wakeups and reset lines
may be set by anyone, at any time.

**MultTime.** An entry of `timer_list_head` is the number of the start that made
it. Each locked section of `misc_ioctl`, `misc_read`, `misc_close` and
`mult_timer_process` is a step of its own, and so is an access without a lock.
`timer_status` is the count of expiries that no read has taken.

**RtcX1226.** A task is a sequence of transfers, one step each: the class
operations, the two trim files and the probe. `chip` holds the registers with
WEL and RWEL; a transfer may fail; a write the chip is not unlocked for is
ignored by it, and its caller is not told.

**Drivers** puts the two last modules into one state space without making
them interact: `part` chooses which of them runs. A specification of both lets one
invariant, and one run, speak of each.

### 3.1 Abstractions

- A QMI message is its transaction ID (`ReadStore`), the request it answers
  (`Control`), or what it says of the link (`LinkState`). Its bytes are in `Codec`.
- A memory allocation, submission or control request may fail whenever it is made,
  save in `Codec`, which is about what is in the buffers.
- `down()` without `interruptible` cannot be ended by a signal: the set
  `Interruptible` is the threads which one can reach. Kernel threads are outside it.
- The USB core is modelled from how the driver uses it: an URB in flight cannot be
  submitted again, `usb_kill_urb` waits for the callback, `usb_free_urb` drops a
  reference. The kernel's file table in `DeviceLife` likewise: `flush` for each
  `close`, and a file that exists until its descriptors and calls are gone.
- `usb_autopm_get_interface` at the start of `WriteSync` is left out; it fails before
  anything has changed. In `TxThread` it is an action, which may fail.
- Of the preprocessor's branches for old kernels only those of the transmit thread
  are modelled, in `TxThread`.
- An address on the network is its first byte; the counters of a statistics message
  are compared as bytes.

## 4. The runs

| run | instance | distinct states | what it shows |
|---|---|---|---|
| `read_any` | 3 readers that take any message, 2 IDs, up to 4 unread and 3 waiting, no signals | 1,799 | no wake-up is lost (`NoLostWakeup`), none goes to a call that is over; `ReadStore` implements `MailBox`, with its liveness |
| `read_signals` | 3 requests with IDs of their own on client 0, messages with ID 0 too, signals for 2 of them | 243,647 | who sleeps can still be woken (`SleeperCanBeWoken`), every read returns once its client is released |
| `write` | 2 threads on client 0, 1 with a client of its own, signals | 22,944 | one pop for each add, nobody frees another's URB, an URB is left behind only by a signal or by the callback of one that a signal had left, every write returns |
| `chain` | 3 suspends | 1,204 | the chain is never forgotten, hands over one token, goes on after a failed read |
| `link` | 3 messages, all four reasons | 492,559 | the carrier and the link reason are right whenever nobody is at work on them, the callback stays registered and the release ends |
| `life` | 2 threads, 1 file with 2 descriptors | 477,697 | references, frees, owners of the clients, and the disconnect ends |
| `tx` | 3 packets, a queue of 2, 2 sessions, 1 timeout, 1 suspend | 454,887 | packets in order and none forgotten, the thread notices its work, power references and transfers in step, a stop ends and a queued packet is served |
| `control` | 2 callers, 4 numbers, 2 rounds of `QMIReady`, late and lost answers, 1 indication | 1,277,130 | requests that wait have different numbers, each gets its own answer, `QMIReady` leaves no entry behind |
| `codec` | 3 clients, 2 transaction numbers, answers of up to 3 of 11 TLVs | 1,224,136 | every request is well formed, every answer but a misread refusal is understood, frames follow the agreed format |
| `hwmod` | a block and its parent, 12 choices of flags, both orders on the list, 2 reset lines, 1 failed wait | 654,158 | what a block has enabled follows its state, so does its sysconfig register, no access without clocks, a block in use is on, with the notifier beside the drivers |
| `drivers` | 2 callers, 2 timers, 3 starts; or class operations, 1 trim writer, the probe, 1 failed transfer | 1,278,695 | a read reports a timer that ran, but for the ways the code has to mislead it; a sequence that nothing crossed has stored its value; what was written is read back |
| `stale_sem` | 2 readers whom signals can reach | | the finding of section 6 |

**Why these bounds are enough.** The notify list tells apart the first
waiter that matches, those before it and those after it: three readers. The two
notifiers can each hold one waiter, which leaves a third on the list. Two IDs
distinguish "any" from "this one"; in `read_signals` each thread has an ID, and 0 is
the unsolicited one. Two threads on one client let each take the other's URB off the
list; a third on another client shows what is promised to a thread which is alone on
its client. After a suspend and a resume the chain is in the state it started
in, unless an URB is astray: three suspends allow two strays and a normal
round. Three messages let the callback find a message waiting, be registered,
and be called again in the completion handler. Two threads are enough for
each of the races in `DeviceLife`, all of which are of two calls, or of
a call and the disconnect, on one file; two descriptors are enough for a
duplicated file. WDA is there for the driver's `ReleaseClientID` of client 1 of WDA
(224), which programs can lose to another. `MaxIds = 1` makes a second
request for a service fail until the client is given back, so that a
client which is given back too early or never is seen.

In `tx` a queue of two has a first, a last and a packet too many; the third
packet can come while one is in hand and two are queued. The second session is there
for callbacks that outlive the first. In `control` four numbers come round after three
requests, so that a late answer of the first round meets a request with its
number; `QMIReady` has a round that fails and one that succeeds. The code has 256
numbers and at most 60 rounds, which `ControlAssumption` keeps in order. In
`codec` three TLVs are one that is looked for with one before and one after it; the
pool has values that are too short, too long and empty, and a refusal whose code
starts with a 0. In `hwmod` each choice
of flags turns on the branches of one part of the code; the parent is a
block without, with, and with more than the plain behaviour; a block with reset lines
that is not idled loses its module mode while nobody uses it; a block on the notifier's
list is idled, reset and enabled by its driver between any two of the notifier's steps;
one failed wait and one
leaked denial show what a second one would repeat. In `drivers` two timers let the
wrong one be reported, three starts give a timer that was started again.
`SYMMETRY` there is of callers and of timers, which nothing orders; the run has no
liveness property. For the properties that are proved no bound is needed.

Deadlock is checked in `hwmod`, `codec` and `drivers`, which can always go on. In
the others the device may be gone, or a bound used up, with everybody at rest.

### 4.1 Fairness

- `ReadStore`: a thread whose semaphore is up runs, an interrupted one finishes,
  the notifiers finish what they have started. The device need not send anything,
  and nobody has to call `ReadSync` or `ReleaseClientID`.
- `WriteSync`: calls go on, and an URB in flight completes: the USB core ends
  every transfer on a connected device or cancels it.
- `ReadChain`: a read URB in flight completes. The interrupt URB may wait for ever.
- `LinkState`: the callback, the power and disconnect calls and the callers of
  the reasons go on. Strong fairness for `KillRead`, since it waits for callbacks
  that may run again and again; `usb_kill_urb` rejects new submissions meanwhile, so
  it does end.
- `DeviceLife`: the unbind, `qmi_sync_thread` and calls in the kernel go on, and a
  control request fails once client 0 is gone. Programs need not close, read
  or leave `poll`.
- `TxThread`: the thread runs, each transfer ends, a timeout or a stop that has begun
  goes on. Packets, timeouts, stops, suspends and resumes need not come.
- The other modules state no liveness and no fairness.


## 5. The proofs

Each theorem is for every value of the constants that the named assumption of its
module allows, and for behaviours of any length. The assumptions: the sets of
readers, writers, threads and files are finite, bounds are natural numbers,
and the special values (`NoReader`, `Freed`, `None`) are none of the others;
`QMIReady` has at least one round and fewer rounds than there are transaction
numbers (`ControlAssumption`); a parent has no parent, and the blocks of hwmod are
registered before `omap_hwmod_setup_all` looks for them (`BlocksAreFamilies`,
`OrdersAreLists`); callers of the timers are finitely many (`TimersAssumption`); times
are what the kernel's clock class lets through, and the chip comes with one that its probe
accepts (`ClockAssumption`); client IDs are 16 bits wide and transaction numbers 8
(`ClientsAreIDs`), and what a device says is made of bytes and fits into the read URB
(`AnswersFit`), with any TLVs, in any order, of any length.

| theorem | module | argument |
|---|---|---|
| `TypeCorrect` | `ReadStoreProofs` | `TypeOK` is inductive |
| `SleepersCanBeWoken` | `ReadStoreProofs` | with `NotifierHolds`: a notifier between its critical sections holds a waiter. A sleeper is on the list, or held, or its semaphore is up; each action moves it one place on |
| `NoWaiterLeft` | `ReadStoreProofs` | the list is empty when the client is deleted, and only who finds the client registers |
| `NoSignalNoDanglingSem`, `NoSignalWaitersAreInside` | `ReadStoreProofs` | without signals a sleeper has exactly one ticket (`OneTicket`): one list entry, or one notifier, or one `up` |
| `WakeupsAreNotLost` | `ReadStoreProofs` | without signals and with uniform readers: the messages that a sleeping reader could take are no more than the wake-ups under way to readers of its kind. The counts are cardinalities of positions (`Hits`); a removal takes one position away |
| `ReadsLikeMailBox` | `ReadStoreProofs` | step by step, with signals: every step of `ReadStore` is one of `MailBox` or leaves its variables alone. `MailInv`: a release that is under way still has its client, so the box is closed once; a closed box is empty |
| `WriteTypes` | `UrbProofs` | `TypeOK` is inductive |
| `UrbsAlive`, `StraysBySignal` | `UrbProofs` | `WriteInv`: a list has only its own client's threads (`Homes`) and is empty once the client is gone (`Unlisted`); a thread alone on its client has one entry or none (`AloneList`); until then a thread inside `WriteSync` owns its URB (`Owned`); a semaphore is up for a transfer that ended, or because of a stray callback, and then `early` says so (`Semaphores`); how a call ended that left its URB is what `left` has, and where a call is early an older one was interrupted |
| `OnePop` | `UrbProofs` | with `WriteInv`, by counting: the thread that enters adds one entry and itself to those inside (`AddCounts`), the one that returns takes one entry and itself away (`ReturnCounts`) |
| `ChainTypes`, `ChainSafe` | `UrbProofs` | `ChainInv`, as long as no interrupt comes between the two kills (`late`) |
| `ChainStillReads` | `UrbProofs` | `ReadingInv`, without an exception: a chain that counts as reading is on a valid device that nobody stops, and each callback that ends one URB submits one |
| `NeverStuckDown` | `LinkStateProofs` | `OwedInv`: who is about to turn the carrier off has its reason set, and while the carrier is off without a reason someone still tests or turns it on |
| `DownIsOff` | `LinkStateProofs` | `OffInv`, unless a reason was set under a caller that had found none (`raced`) |
| `LinkImplementsDown`, `CarrierRight` | `LinkStateProofs` | every step of the driver is a step of `DownReason` or leaves its variables alone; the two results above then hold for the driver |
| `LinkTypes` | `LinkStateProofs` | `DownReason`'s types by the refinement, the others are inductive |
| `LinkFollows` | `LinkStateProofs` | `LinkInv`: the last state the device sent is in the store, in the callback's hand or in the bit; a registered callback has left nothing in the store |
| `CallbackStillListens` | `LinkStateProofs` | with `LinkInv` and `ListenInv`: a callback that looks for a message finds one, unless the release of its client has called it |
| `RefsCountedAlways` | `DeviceLifeProofs` | with `OwnFiles` (an open has its file to itself, a close has one to close) each action changes the count and the set of holders alike |
| `NoUseAfterFreeAlways` | `DeviceLifeProofs` | the count reaches zero only when nobody holds a reference (`RefsCounted`); that nobody without one is left is what the unbind has waited for (`GoneQuiet`); `FreedLast` puts the two together |
| `TypesAlways` | `DeviceLifeProofs` | with `SyncOK`: `qmi_sync_thread` has a service and a client where it uses them |
| `FreedInTheEndAlways` | `DeviceLifeProofs` | when the three kinds of holders are gone the count is zero (`RefsCounted`), and a count that has come to zero has freed (`ZeroIsFreed`) |
| `ClientsReleasedAlways` | `DeviceLifeProofs` | `ReleasedInv`: from the end of `AllReleased` on only a `GetClientID` that was under way lists a client |
| `ClientHasOwnerAlways` | `DeviceLifeProofs` | `ListOwned`, case by case of who owns: a file, a call, the driver (`DriverInv`); a client whose owner lets it go is off the list in the same step or in the hands of the call that takes it off |
| `TypesAlways` | `TxThreadProofs` | with `HandInv`: the thread has a packet in hand exactly between `Dequeue` and `Submit` or `PutBack` |
| `SentInOrderAlways` | `TxThreadProofs` | `OrderInv`: sent, in hand and queued packets follow one another, and with the lost ones they are all that were accepted |
| `WorkIsNoticedAlways` | `TxThreadProofs` | `WorkInv`: an active URB flies or is marked as done, and a mark comes with a `complete()` nobody has waited for yet |
| `PowerFollowsAlways` | `TxThreadProofs` | `TransferInv`: only the active URB can be in flight, and a reference is held for it and for each unpaid exit; `ExitInv` keeps the mark of a finished URB from `usb_kill_urb` while the thread exits |
| `ControlTypes` | `ControlProofs` | `TypeOK` is inductive |
| `NumbersAlwaysDiffer` | `ControlProofs` | `DrawnInv`: requests are different values of the counter. Two of them with the same number are a multiple of `Numbers` apart, by the division lemmas; a 0 that is kept was drawn twice |
| `AnswersAreOwn` | `ControlProofs` | `StoreInv`: a request that is not written has no answer anywhere, and an answer is in one place; `StartInv`: until the device is ready too few numbers are drawn for one to come back |
| `ReadyAlwaysLeavesNothing` | `ControlProofs` | `ReadyInv`: unless a late `UpSem` has crossed a round, the list holds the entry of this round or nothing |
| `HwmodTypes`, `CountsAlwaysFollow`, `SyscAlwaysFollows`, `NeverBlind`, `InUseAlwaysOn` | `BoardProofs` | one invariant of a single block, since blocks meet only in the setup of a child: `Sound` (type, counts, `Regular`, no blind access), `InMode`, and `Used` for the blocks in use. One lemma for each static function of the code says what it does to these, the actions compose them. `PendingInv`: what a softreset has still to write is a content of the register, and a block under one is in its driver's use or on the notifier's list. Between the two writes the block is `busy`, and the second either finds the cache as the first left it and puts the register back, or is marked as crossed |
| `ReadReportsExpired` | `BoardProofs` | `CountFits`: while nothing has misled a read, the expired entries on the list are the oldest and as many as the expiries that are counted, still to be counted, or with a reader. `OwnEntries`: a timer that runs has an entry of its own. The list is sorted (`NewestFirst`), which `list_del` keeps |
| `SequencesStore` | `BoardProofs` | `Undisturbed`: a sequence that nobody crosses is the only one, and the chip is as far unlocked as its step needs |
| `WhatIsSetIsRead` | `BoardProofs` | `Meaning`: each group of registers is the coding of what was accepted; and that the coding can be undone, for all times from 1970 to 9999 and all trims, by arithmetic |
| `ExchangeInvariant` | `QMIExchangeProofs` | the bytes on the wire are those of the request, the reply those of the answer, what `ReadCallback` heard is what was asked for, driver and device agree on the format unless its answer is under way or was misread |
| `RequestsAreWellFormed` | `QMIExchangeProofs` | a lemma for each filler of `QMI.c` says what stands where (`RequestFilled`), `WireIs` what the QMUX header adds, `IDsDiffer` compares the requests of a service |
| `AnswersAreUnderstood` | `QMIExchangeProofs` | for the QMI error code of two bytes. `FlattenPlaces`: where each TLV of an answer stands; `GetTLVSteps`: `GetTLV` walks from one to the next; `GetTLVTells`: so it returns the first TLV of the type, or says that there is none or no room. One lemma for each parser (`...Understood`) |
| `FramesHaveTheFormat` | `QMIExchangeProofs` | `FormatInv`, and that a frame which both sides treat alike comes back as it was (`FramesFit`). `MeansToDevice`: the device reads its answer as the driver does |

Why the strengthenings are needed: `NoUseAfterFree` by itself says nothing of
the states before the free, and a close of a file that was never opened would
break it; `NoLostWakeup` speaks of one sleeping reader, but a wake-up can go
to another one of its kind who takes another message, so that only the
counts are preserved; `OneToken` does not know which URB the code is about to
submit; and `UrbAlive` is not inductive, since a release frees whatever its
client's list holds: only `Homes` says that these are URBs of that client's own
threads, for which `UrbAlive` then promises nothing more. `OnePopPerAdd` needs
it as well: a pop takes an entry away only if there is one. `SentInOrder` says
nothing of the packet between the two sequences, `WorkIsNoticed` nothing of a thread
that is about to sleep, and `PowerFollows` nothing of what an exit finds, so that
each needs its part of the thread's places. `OwnAnswer` compares a request with the
answer it takes; that an answer to a later request cannot be in the store yet, and
that an earlier one is a whole round of numbers away, is `StoreInv` and `DrawnInv`.
In `BoardProofs`, `SyscFollowsState` is silent on a block that lost its
context, which an idle or an enable brings back into its promise: `InMode` tells
the register's and the cache's part of it apart. `NoBlindAccess` needs the counts
(an enabled block has its clocks) and `InUseIsOn` needs `Regular`, because an
enable of an enabled block only looks at its state.

What the attempts changed. `SentInOrder` made an exception for callbacks that outlive
their session (`left`); it needs none. `OwnAnswer` counted indications, which nobody
asked for, among the wrong answers of a reader of any ID. `InUseIsOn` did
not hold: a block with reset lines that is not idled (NO_IDLE) can
lose its module mode to a line that is released while nobody uses it, and the next
enable is skipped, so that the exception "deasserted" must outlive that enable
(`Enabling`). `hwmod` now has a choice of flags for which this happens. When the
softreset became two writes, `SyscFollowsState` did not hold of a block whose boot reset
had timed out: if the register is read back while the reset is going on, SOFTRESET
stays in the cache and each later write resets the block again (`busy`). The proof that
driver and device agree on the frame format failed at a refusal: `ValidQMIMessage`
reads one byte of its code, the model had read two. The model follows the code now,
the properties keep to two bytes and except such a refusal (`misread`), and the pool of
`codec` has one. `ReportsExpired` and the clock's coding stand as they were.

Two ways around what the prover cannot do. A statement about all messages, or all
positions in one, needs an induction; the library's theorems of induction cannot
be instantiated, but where a set can take the place of the operator, `WFMin`, by which
a set of natural numbers has a least member, is enough (`Least` and `Induction` in
`QMIExchangeProofs`). This reaches the loop of `GetTLV`, even where a wrapped position
would keep it from ending, the chain of TLVs in a message, and `FlattenSeq`. And the prover writes out every set
`a..b` whose bounds are numbers, so that 65535 has a name in `Codec` (`U16Max`).

Proved, but checked by no run of their own: the type invariants (`TypeOK` of `Hwmod`
is in `BoardProofs`), `NoWaiterOutlivesClient` and `WaitersAreInside` of `ReadStore`,
`NoOops` of `ReadChain`, `NoRecursionInRead` of `LinkState`, and that `ReadStore`
behaves like a `MailBox` with signals too (`read_any` has none).

Model-checked only: all liveness, which the prover does not do under fairness
(`ImplementsMailBox` with its fairness, `ReadersReturn`, `WriteReturns`, `ReadGoesOn`,
`ReleaseEnds`, `DisconnectEnds`, `ThreadResponds`). Every invariant and every
action property of a passing run is a theorem; those of `ReadStore` that exclude signals
(`NoLostWakeup`, `NoDanglingSem`) say nothing of a thread whom one can reach:
`read_signals` shows what is left in that case, `stale_sem` what is lost.

## 6. Findings

One run ends in a violation of what a comment of the code says:

- `stale_sem` (QMIDevice.c 1674). A signal ends `ReadSync` after
  `NotifyAndPopNotifyList` took its entry off the list and dropped the lock: the
  `up()` goes to a semaphore on a stack that is gone, which line 1672 says cannot happen.

### 6.1 What the properties except

The passing runs name the situations in which the code does not keep their properties,
as history variables or in the property itself. Each of them is reachable.

Client memory:

- With signals `NoLostWakeup` does not hold: the reader that was notified may be
  interrupted and return, and the message stays while another sleeps (2733). What
  holds is `SleeperCanBeWoken`.
- Of two threads that write on one client, one may take the other's URB off the
  list and return an error for a write that went well (1919); after a signal its own
  URB is then not killed (`stray`). Its callback may raise the semaphore of the thread's
  next `WriteSync` (`early`), which then returns, without a signal, while its own URB is
  flying: `StrayOnlyBySignal` names both ways. `UrbAlive` and `StrayOnlyBySignal` promise
  more to a thread alone on its client.
- `ReleaseClientID` frees an URB that `WriteSync` then submits or frees a second
  time (2243): `UrbAlive` speaks of registered clients.
- Seen in the code, outside the model: after a signal `ReadSync` goes on with the
  `pClientMem` it found before it slept, which may have been freed (1675), and the
  pointers of hazard 1151.

Continuous read and link:

- `late` (`OneToken`): an interrupt between the two `usb_kill_urb` of `KillRead`
  submits the read URB that was just killed; its buffer is freed in flight (1440).
- `raced` (`DownMeansOff`): `GobiClearDownReason` tests and then turns the carrier on
  (925); a reason set in between leaves it on.

Device lifetime:

- `doubled` (`RefsCounted`, `NoUseAfterFree`, `FreedInTheEnd`): two threads closing
  the duplicated descriptors of one file both pass the check of `f_count`
  (422-486), and give the client and the reference back twice.
- `timedOut` (`NoUseAfterFree`): the wait of the disconnect that should never run out
  does, when a file was being opened while the descriptors were closed (3326).
- `orphans` (`ClientHasOwner`): two `ioctl` calls on one file both see no client and
  the second overwrites the first's (232); an error return of
  `QMIWDASetDataFormat` or its like leaves the driver's own client on the list (2324).
- `late` (`ClientsReleased`): a `GetClientID` under way lists its client after the
  disconnect has released the others (2090); a failed `StartRead` leaves the
  clients of a failed probe (3089).
- A file open at the disconnect keeps its `sQMIFilpStorage` and its reference
  (464): `FreedInTheEnd` excepts it.
- A thread that polls a client another thread releases is not woken, and the
  client's wait queue is left to leak (2258): `WaitqueueActive`, `ForgetQueue`.

Transmit thread (GobiUSBNet.c):

- `unkicked` (`WorkIsNoticed`, `ThreadResponds`): a packet put back after a failed
  `usb_autopm_get_interface` waits until somebody else wakes the thread (809), as it
  does after a resume that fails.
- `left` (`PowerFollows`): a stop while the thread is at work ends it past
  its clean-up (689); the callback of the URB in flight meets the next session.
- `unpaid` (`PowerFollows`): such an exit keeps its power reference.
- `oops` (`PowerFollows`): `TXTimeout` may call `usb_kill_urb` with the mark of an URB
  that is done (632).

Control requests:

- `crossed` (`ReadyLeavesNothing`): an `up()` for a round that `QMIReady` has given up
  is taken for one of the next, whose entry then stays on the notify list (3457).
- A number comes round again: `OwnAnswer` and `NumbersDiffer` except requests with
  all numbers drawn in between, and a second draw that comes to 0 because others drew
  as many (767).
- `QMICTLSyncResp` returns the code of the device, a positive number, where its
  comment announces a negative one, and `QMICTLSyncProc` takes anything that is not negative for a
  success.

Codec and frames:

- `misread` (`FramesFollowFormat`, `AnswersUnderstood`): `ValidQMIMessage` gives `get_unaligned` a pointer to
  `char`, which makes it read one byte (QMI.c 409), where its comment promises the QMI error
  code (396): a refusal whose code has a first byte of 0 is taken for a success. If it
  was of raw IP, the driver strips headers that the device wants. The code in
  `AnswersUnderstood` (`Code`) is the one of two bytes; of any other code above 255 the
  caller of `QMICTLSyncResp` learns that it is an error.
- `GetTLV` does not see an empty TLV at the end of a message (`Seen`).
- `QMICTLSetDataFormatReq` is filled correctly and never sent.

hwmod (omap_hwmod.c):

- `failed` (`CountsFollowState`): an `_enable` whose block does not get ready
  keeps the dependency, the denial to idle and the polling (2146-2185). `noauto`: the
  shutdown of an enabled block with CLKDM_NOAUTO keeps the denial (2302).
- `odd` (`InUseIsOn`, `SyscFollowsState`): "skipped", a leftover
  `_HWMOD_SKIP_ENABLE` makes an enable do nothing (2091); "held", all reset lines are
  asserted; "reidled", a suspend idles a block in use (3168); "deasserted", a
  line released while the block is enabled; "lost", a suspend took the register's
  contents; "woken", somebody has chosen another wakeup mode; "crossed", the second
  write of a softreset took back what was written since the first, or met a block that
  was off (3233): a block in use may so be left in its idle mode.
- `unlocked` (`NoBlindAccess`): on a block that the notifier reidles a driver's idle may
  come between the notifier's enable and its softreset (3152-3153), or between the two
  writes, which then go to a block without clocks.
- `omap_hwmod_enable_wakeup` and `_disable_wakeup` write OCP_SYSCONFIG whether or not the
  block has its clocks (3790-3841), though the comment on a helper of theirs (594-606)
  counts on idle blocks. `NoBlindAccess` leaves them out.
- `busy` (`SyscFollowsState`): the reset at boot that does not complete is followed by a
  read of the register (1985): if SOFTRESET is still set, it stays in `_sysc_cache`, and
  every write until the next softreset resets the block.
- The parent of a block that is registered before it stays idle: the order on the list
  decides. The comment on 1832-1834 wants a module disabled only when all its reset
  lines are asserted; the code does so only when none is.

mult_time and ISL12026:

- `odd` (`ReportsExpired`): `misc_read` takes the oldest entry, whatever timer
  ran (129): "order"; a signal or a second reader lets it go on without an
  expiry: "signal", "shared"; the entry was stopped or closed: "stale".
- Sequences of the clock's operations that cross take the write enable from each other
  and the chip ignores data while the caller is told success (271).
  `EndMeansStored` excepts them. A trim reports success though `x1226_set_reg` failed
  (404, 450). An error path leaves the chip unlocked.
- A time from 2100 on is stored and read back, and the next probe refuses the chip
  (477).

## 7. What is not modelled

- GobiNet: the list of clients as a list with pointers (plan 6). In `TxThread`, an
  `mpUSBNetOpen` that fails when the thread already runs, and a `StartXmit` turned
  away for NO_NDIS_CONNECTION. `UserspaceWrite` is in `WriteSync` only: in
  `DeviceLife` it would hold what a read holds. Messages shorter than their
  headers, and what `GetTLV` reads past the end of one whose TLV claims too much.
- hwmod: OMAP2 and 3, the look-ups of interrupts, DMA and address spaces, interface
  links and their clocks, the preprogram and custom reset functions, the MPU block. A
  wakeup call on a block whose registers are not mapped yet, which would stop the kernel;
  two drivers that call one block at the same time.
- mult_time: what a second `list_del` and free of an entry does to the memory (89-97), a `time_id` of 48 and more, and a start of a timer that is pending, for
  which `add_timer` stops the kernel. Loading and unloading are around the
  model: nobody has the device open.
- ISL12026: the parsing of the trim files' text, the registers whose bits the probe only
  tests for zero, the 10 ms of a write.
- TSL2561, ICM20948, ATSHA204A, TVP5150, the serial and Bluetooth samples: one caller
  and a straight sequence of transfers or register tables, with no state that
  two calls could disagree about.
- The U-Boot patches and documents: pin tables and board setup that runs once.

## 8. Running it

    tlc -config ReadAny.cfg MCReadStore.tla
    tlapm ReadStoreProofs.tla

`PROJECT.json` lists each run's module, configuration and properties. The
largest runs, `drivers`, `life`, `link` and `codec`, take one to two minutes each.
