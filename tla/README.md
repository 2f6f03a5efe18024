# Verification of jyj_github

TLA+ models of the drivers of this repository that have a protocol of their
own, the TLC runs that check them, and theorems about them that TLAPS proves.
This file says what the repository holds, what is modelled, what each run and
proof shows, and what is left.  Paths are relative to
`src/jiege_browser/source_code/`, where the modelled drivers are, unless they
begin with `src/`.

## 1. Inventory

The repository is a collection of programs.

| Component | Where | State it keeps | Operations | Hard behaviour | Status |
|---|---|---|---|---|---|
| **ndisprot** | `ndisprot/` (5.9k lines) | open contexts: two reference counts, flag word, queues of IRPs and packets, pools, power state | read, write, ioctl, cancel, cleanup, close; NDIS bind, unbind, power, receive, send-complete, status | three spin locks, cancel routines, callbacks from NDIS, waits outside locks | modelled |
| **DP** | `DP/` (1.5k) | bitmap of redirected sectors, request queue, one worker thread, a temporary file | AddDevice, PnP, volume online, reinitialize, read, write | worker against dispatch and removal; failures in mid-write; region arithmetic | modelled |
| **tdi_fw** | `tdi_fw/` (7.1k) | table of file objects, connection table and its thread, ring of logged requests, list of processes, rule chains | TDI requests and events, log application, process callbacks | tables under spin locks, a check in one critical section and its use in another, waits with timeouts | connections, log and names: partly; rules: not |
| **crypt_file** | `crypt_file/` (1.7k) | list of files under encryption, with the cache manager's pages beside it | create, close, paging and user read and write, set and query length | the cache against the list, checks before or after the lower open | partly |
| passthru, ndisedge | `passthru/`, `ndisedge/` | as ndisprot, plus adapter pairs | NDIS intermediate and protocol handlers | same lineage as ndisprot | not |
| sfilter, sflt_smpl, minifilter | `sfilter/`, ... | attached devices | mount, attach, pass through | mostly glue to the I/O manager | not |
| keyboard, serial, ramdisk | `Kb_sniff_Mp/`, `ctrl2cap/`, `ps2intcap/`, `comcap/`, `ramdisk_wdf/`, `first/` | little | filters and samples | little | not |
| sysark, process_killer | `src/jiege_browser/sysark`, `process_killer` | Windows' own | walk kernel structures | none of their own | not |
| browser UI | `src/jiege_browser/jiege_browser`, `xbase`, ... | windows | drawing | none | not |
| photo_app, android_browser | `src/photo_app`, `src/android_browser` | views; a thumbnail cache and loader threads | UI | loader threads against recycled views | not |
| third_src | `src/jiege_browser/third_src` | vendored | | | not |

The drivers do not talk to each other: each sits between its own pair of
Windows components, and each model is closed off by what those may do.

**ndisprot.**  NDIS calls `NdisProtBindAdapter` for each adapter;
`ndisprotCreateBinding` makes an open context, puts it on `Globals.OpenList`
and opens the adapter.  `IOCTL_NDISPROT_OPEN_DEVICE` associates a file object
with a context, which stays busy until Cleanup.  Reads are pended on
`PendedReads`; the miniport's indications queue packets on `RecvPktQueue`;
`ndisprotServiceReads`, called after either, marries them, dropping the lock to
copy and complete.  Writes become packets that NDIS sends, and
`NdisProtSendComplete` completes the IRP.  One IRP per context may wait for a
status indication.  Unbind, power-down and Cleanup stop and drain all that.
What makes it correct: an IRP or packet has one owner at any time; reference
counts are exact and nobody uses a freed context; pools and binding outlive
what uses them; reads get packets in order; every wait ends; file and context
point to each other or neither does.

**DP.**  Once protection is on, `DPDispatchReadWrite` queues requests and
`DPReadWriteThread` serves them one by one: a write goes to the temporary file
and into the bitmap, a read takes each sector from file or volume.  A restart
forgets both.  Correct: a read returns current data however it is put
together, across the start of protection and through failures; the bitmap is
exact; the disk is left as it was; queued requests end.

**tdi_fw.**  A connection object has an entry in the connection table from
connect or accept on; completions and events move its state, a closed entry
stays for a time, and `conn_thread` frees it; the packet filter looks entries
up by address and port.  Correct: an entry belongs to one object or is
on the list to be deleted, once; packets find the live connection; closed ones go.
Every intercepted request may be logged to a ring that an application reads.  A
thread whose process has no name yet waits for the application to send it.
Correct: nothing is lost without being counted, memory is freed once, a waiter
is woken when the name is there.

**crypt_file.**  Files that notepad writes get a hidden header and are
ciphered on the paging path while they are in a list; other processes may not
open such a file at the same time; the last close clears the cache and takes
the file off the list.  Correct: who has it open and who is refused agree with
the list; the text is never in the clear on the disk or before others; no file stays
in the list.

`PROJECT.json` lists each hazard at its line with the properties aimed at it.

## 2. Modules

| Module | Models | Builds on |
|---|---|---|
| `PacketDelivery` | what a reader is promised: a bounded FIFO of packets matched with waiting reads (abstract) | |
| `NdisProtRecv` | receive path of one context: `ndisprot/recv.c`, with Cleanup, Close, Unbind and power as far as they touch it | refines `PacketDelivery` |
| `NdisProtRecvProofs` | theorems about it: types, ownership, counts, drain, use of the memory, wakeups, the refinement | |
| `NdisProtOpen`, `NdisProtOpenProofs` | contexts, files, bindings: `ntdisp.c` ioctls, Cleanup, Close; `ndisbind.c` bind, unbind, power, requests; theorems | |
| `NdisProtSend`, `NdisProtSendProofs` | send path of one context: `send.c`; theorems | |
| `NdisProtStatus`, `NdisProtStatusProofs` | the status IRP and the RESET and MEDIA flags: end of `ndisbind.c`; theorems | |
| `DPBitmap` | `DP/DPBitmap.c` as functions of a bitmap | |
| `DPFilter` | `DP/DPMain.c`: dispatch, worker thread, lower device, life of the device | extends `DPBitmap` |
| `DPFilterProofs` | theorems: that the bitmap is what a set of sectors is; types, regions, disk; that reads are current | |
| `TdiConn`, `TdiConnProofs` | `tdi_fw/conn_state.c` with `disp_conn.c`, `ev_conn.c`, `obj_tbl.c` and the lookup of `packet.c`; theorems | |
| `TdiLogQueue` | the ring of `tdi_fw/filter.c` and its reader's end | |
| `TdiResolve`, `TdiResolveProofs` | the list of processes of `pid_pname.c`, the wait in `disp_obj.c`, the log application, process callbacks; theorems about the queue and the names | extends and composes with `TdiLogQueue` |
| `CryptFile`, `CryptFileProofs` | `crypt_file`: `cf_list.c`, `cf_create.c`, `cf_sfilter.c`, `cf_modify_irp.c` for one file; theorems | |
| `MC...` | instances for TLC: symmetry sets, and constraints that keep one kind of event out of a run | the module of that name |

An operator marked "(A mutant)" is a plausible bug, kept beside the
definition it would replace; no specification uses one.

### Grain and agents

A step is one critical section of a spin lock, or one operation done outside
it that others can see: an interlocked change of a count, an IRP's completion,
a request to a lower driver, one unlocked read or write of a shared field.
`IoSetCancelRoutine` touches one IRP, so an exchange made inside a critical
section belongs to that step.  Each thread that can be inside a driver is an
agent with a program counter.  What clients, NDIS, TCP and the file system may
do is guarded only by what Windows guarantees.

### State and actions in the code

- `NdisProtRecv` (the other `NdisProt` modules follow it): `bindState` is
  `NUIOO_BIND_FLAGS`; `powerOn` is `PowerState = D0`; queues, counts and handle
  keep their names; `irpRoutine` says whether a cancel routine is set and
  `irpCancel` is `pIrp->Cancel`; `pktHome` is the pool a packet comes from;
  `curIrp`/`curPkt` are locals of the service routine and the drains.  A status
  of `SUCCESS` also stands for `BUFFER_OVERFLOW`.
- `DPFilter`: a sector's content is the write that made it.  `state[i]` says
  where an IRP is: queued, with the worker, sent below before protection
  (`below`), handed on by the worker with (`sync`) or without (`next`)
  waiting, ended.  `worker` is the
  thread's place and locals.  One action per thing `DPReadWriteThread` does
  between two events others can see.  `before` is history: what had ended when
  a request was dispatched.
- `TdiConn`: `connEntry` and `object` are an `ot_entry`; `state`, `address`,
  `age`, `hash` the entries; `toDel` and `newToDel` the list to delete;
  `thread` and `timeout` are `conn_thread`.  `tcp`, `port` and `fins` are what
  TCP itself knows.  A disconnect is read and set by two actions, as the code
  takes the lock twice.
- `TdiLogQueue`: a ring of numbered requests, `heap` the memory they own;
  `reported` and `lastRead` are history.  `TdiResolve`: `plist` is `g_plist`,
  `woken` the event on the waiting thread's stack; the application is external
  and does what the driver's interface asks of it.
- `CryptFile`: `inList` is the node in `s_cf_list`; `size`, `disk`, `cache`,
  `dirty` one file of two blocks as FASTFAT and the cache manager have it; a
  block is a text and whether it is ciphered.  `pc[h]` is the life of a file
  object; the labels from `look` to `clearMy` are `cfIrpCreatePre` with its own
  handle `my_file`.  `mishaps` is history: the gaps between the filter's
  checks and what they are for that this behaviour has been through.

### What the environment is assumed to do

| Constant | Meaning | Value |
|---|---|---|
| `DispatchPinsFile` (Recv) | IRP_MJ_CLOSE waits for dispatch routines of the file to return | TRUE: the caller holds the file while in the call; `RecvUnpinned` has the other case |
| `SynchronousFiles` (Open) | the I/O manager serialises the calls on one file | both, by run |
| `WaitOutlastsRequests` (Open) | a request is over before `ndisprotWaitForPendingIO` gives up (60 polls, ndisbind.c:960) | TRUE; `OpenWait` has the other case |
| `UnbindDuringBind` (Open) | NDIS may unbind what BindAdapter has not returned from | FALSE, as NDIS serialises the two; the code provides for it, `BindUnbind` shows how |
| `AtomicMediaFlags` (Open) | nothing writes `Flags` between the unlocked read and write of ndisbind.c:664-671 | FALSE in `open_overlapped`, TRUE in `open_sync`, where the hazard would hide others |
| `Faults` (DP) | what may fail: allocation, file, lower device, thread handle, mapping of a buffer, a second volume online | the first four in the run; the other two break properties, see below |
| `Reuse` (Conn) | TCP gives the client a connection object for a new accept while it has an entry | FALSE in `tdi_conn`; TRUE in `tdi_reuse` |
| `AllocResults` (Resolve) | results of `malloc_np` for the list of processes | `{TRUE}` in the runs: a name there is no memory for is never known, but its thread is woken (pid_pname.c:139-150), so that `NameReachesWaiters` fails with `FALSE` in it |

`NdisProtSend` chooses in `Init` whether `NDIS51` is defined; the committed
`ndisprot/sources` (line 26) does not define it.  `NdisProtSend` and
`NdisProtRecv` assume that the waits for pended I/O end with their counts at
zero, not with the 60th poll; `NdisProtOpen` shows what the other end means.

## 3. Runs

`CHECK_DEADLOCK FALSE` everywhere: once a binding is gone, a file closed or all
requests made, the system stops.

| Run | Instance | Question | Result |
|---|---|---|---|
| `recv_reads` | 2 reads, 1 packet (a copy), no power events; 891k states | do reads have one owner, are the counts exact, is the context freed last while Cleanup and Unbind drain; does the path implement `PacketDelivery` (safety) | holds |
| `recv_packets` | 1 read, 2 packets, queue 1, power events; 737k | packets' owners, the water mark, no lost wakeup, nothing queued after Unbind; `PacketDelivery` again, with overflow | holds |
| `recv_live` | 1 read, 1 packet, fair | does it implement `PacketDelivery` with its promise to match; do Cleanup and Unbind end | holds |
| `open_sync` | 2 contexts, 2 files, 2 threads; 105k | association, freeing, one binding per device | holds |
| `open_overlapped` | 1 context, 1 overlapped file, 2 threads, fair | reference counts, pinning, every wait ends | holds |
| `send_writes` | 2 writes, both builds, fair; 38k | pools, binding and context outlive sends; counts are exact; writes and Unbind complete | holds |
| `status_irps` | 2 IRPs, 3 kinds of indication, fair; 403k | the slot and the IRP's owner; cancelled IRPs complete | holds |
| `dp_shadow` | 3 IRPs out of one read and two overlapping writes, 4 sectors in 2 regions of one byte of 2 bits, four kinds of fault, fair | current reads, exact bitmap, disk kept, array bounds, life of the bitmap, queued requests end | holds |
| `tdi_conn` | 2 connections over 1 port, 2 entries, `MaxClosedTime` 2; 1.3M | owners of entries, lookup, state, time to live | holds |
| `tdi_log` | 1 process id, 2 threads, 5 requests, ring of 3, 2 list entries; 3.6M | losses counted, memory owned, application and waiters woken | holds |
| `crypt_files` | 2 opens of notepad, 1 of another process, 2 blocks, one kind of mishap per behaviour; 3.6M | exclusion, the list is cleaned, the text stays secret | holds |
| `tdi_reuse` | `tdi_conn` with `Reuse` | is an entry deleted once | **violated** |

Some properties are conjunctions of parts that are named and commented in
their module: `CallsReturn` (every ioctl, wait, unbind ends), `AssociationIsSound`,
`SendIsOutlived`, `CountsAreExact`, `StatusIrpIsOwned`, `RingIsExact` (losses
counted, order kept, memory owned), `NameReachesWaiters`,
`LookupFindsConnection`.  Types are checked by `OpenTypes.cfg`,
`StatusTypes.cfg`, `TdiConnTypes.cfg`, `TdiLogTypes.cfg` and
`CryptTypes.cfg` (`tlc -config X.cfg MC...`, all pass), and proved for the
modules with proofs.

### Bounds, and why they are enough

- ndisprot: nothing is bounded but the number of IRPs, packets, files,
  contexts and threads.  Two of a kind let every pair of routines compete for
  one, and one be skipped; a queue of one overflows with two packets.
  `MaxRecvQueueSize` is 4 in the code.  Constraints: `NoPower` (power-down
  repeats the flush that Unbind runs too), `NoCopies` and `OnlyCopies` (a copy
  differs from a lent packet in its transfer and its release; `recv_live` has
  both).
- DP: two bits to a byte and one byte to a region reach all three parts of the
  fast path, the boundary between regions and the region past the end of the
  volume, with 4 sectors.  `SetIsExact` and the theorems below hold
  for every size.  Three requests are a write, another that overlaps it and a
  read, in any order and any combination.
- TdiConn: `MaxAge` (5) is where the model stops counting, above twice
  `MaxClosedTime`.  `OneDisconnects` lets one connection's disconnect be under
  way at a time; two meet only in the table.  The proofs need neither.
- TdiLog: five requests wrap a ring of three and overflow it twice.
  `MaxEntries` bounds the list of processes, in which the code never looks for
  duplicates.
- CryptFile: two blocks are a header and one of text, enough for the shift to
  meet the end of the file.  `OneMishap` keeps a behaviour to one kind of
  gap; the properties say what holds with none or with the first.  The proofs
  have no such bound.

### Fairness

Threads inside a driver are weakly fair: the scheduler runs them, and a spin
lock held for a bounded section is obtained.  The environment is not: clients
need not read, cancel or close, NDIS need not indicate or unbind.  The
miniport is fair only in that requests (`NdisProtOpen`), transfers and, in
`SendingSpec`, sends complete; that is NDIS's contract.  A cancel of a send
that NDIS accepted completes even under `FairSpec`.  In `DPFilter` the worker
and the lower device are fair.  `TdiConn`, `TdiResolve` and `CryptFile` are
checked for safety only: the application and the clients promise nothing, and
what must happen is stated as what must not be left undone
(`RequestWakesApp`, `NameReachesWaiters`, `ListedIsOpen`, `FreedInTwiceTheTime`).

### Finding

`tdi_reuse`: `tdi_event_connect` puts the entry that a reused connection
object still has on `g_conn_to_del` but leaves the pointer
(`tdi_fw/ev_conn.c:214`); `add_tcp_conn` then refuses the object, and the error
path puts the same entry on the list again, which links it to itself.  The
comment (ev_conn.c:202) says "clear listen & conn entries in connobj
(fileobject can be reused)".

### Further counterexamples

Each of these properties says what a comment, an assertion or the evident
intention of the code says, and the model of the code violates it.  A
`...Comments.cfg` has one property active and the others as comment lines, to
be checked one at a time.

| Configuration | Property | What happens |
|---|---|---|
| `RecvComments` | `LocalCopyIsFreed` | recv.c:975 tells a local copy by comparing its pool with `RecvPacketPool`, which Unbind clears while Cleanup's flush has a packet in hand: the driver's own packet goes to the miniport |
| | `CleanupLeavesNoRead` | a read dispatched beside Cleanup is pended after its sweep (recv.c:76) |
| | `CancelledReadCompletes` | the cancel routine is set without a look at `pIrp->Cancel` (recv.c:92); the status IRP does look (ndisbind.c:1841) |
| `RecvQueueDoc` | `AtMostOnePacketQueued` | `ndisprot.h`'s overview says one packet is queued; the constant is 4 |
| `RecvUnpinned` | `NoUseAfterFree` | without `DispatchPinsFile`, NdisProtRead services a context its read no longer holds |
| `OpenComments` | `BusyDeviceHasFile` | CreateBinding writes back (ndisbind.c:664-671) an OPEN_ACTIVE that a failing open has cleared; asserted not to happen at ntdisp.c:718 |
| | `OpenedDeviceReceives` | Cleanup frees the device (ntdisp.c:425) before it clears the packet filter (435): an open in between loses its filter |
| | `LowPowerBlocksQueries` | OID requests do not wait for power (ndisbind.c:341) |
| | `PoweredUpEventIsD0` | Unbind signals the event in a low power state (ndisbind.c:257) |
| `OpenOverlappedComments` | `FreedContextIsUnassociated` | overlapped file: OPEN_DEVICE claims a context after the file's Cleanup |
| | `NoUseAfterFree` | overlapped file: a failing OPEN_DEVICE takes the context from under an OID request of the same file |
| `OpenWait` | `RequestPinsBinding` | the 60 polls are over while a request holds the binding (ndisbind.c:960) |
| `BindUnbind` | `ClosedByOneThread` | Unbind inside Bind: both threads close the binding (ndisbind.c:249) |
| `SendNoCancel` | `CancelledWriteCompletes` | without NDIS51 writes have no cancel routine |
| `SendComments` | `CancelledWriteCompletes` | NDIS51: the cancel comes before NdisSendPackets (send.c:323) |
| | `CancelledPacketHasPool` | NDIS51: Unbind frees the pool under the cancel routine (297) |
| | `CancelRoutineHasIrp` | NDIS51: the cancel routine starts after the send completion released IRP and context (282) |
| `StatusComments` | `UnbindCompletesStatus` | a status IRP queued after the shutdown looked stays pending (ndisbind.c:1829) |
| | `ResetEndFindsFlag` | CreateBinding writes an older RESET bit back |
| `DPComments` | `DeviceOutlivesThread` | removal deletes the device and its extension without waiting where it has no thread object (DPMain.c:610-619) |
| | `BitmapIsExact` | a second IOCTL_VOLUME_ONLINE puts an empty bitmap in place of the one in use (997, 1013-1020) |
| | `DiskIsKept` | a write whose buffer cannot be mapped is passed to the disk (306-310); the comment at 425 says writes go to the buffer file and not to the disk |
| | `EveryRequestEnds` | a request queued when the thread is told to end is never completed (266-271, 710) |
| `TdiConnComments` | `BothClosed` | local and remote disconnect interleave between reading and setting the state (disp_conn.c:473, ev_conn.c:389-394) |
| | `PacketFindsNewConnection` | until its local address is known a new connection is hidden by a closed one over the same ports (packet.c:600-608) |
| | `FreedInTime` | conn_thread waits for the longest of the remaining times (conn_state.c:714), against the comment at 671 |
| | `UnloadFreesAll` | unload clears `g_conn_thread` while the thread sweeps: it exits without the last sweep (727, against 668-669) |
| | `WorkItemHasObject` | the work item queries a file object that may be gone (disp_conn.c:311-345) |
| `TdiLogComments` | `EventOutlivesSignal` | the event is looked at and set outside the lock under which it is deleted (filter.c:374-375) |
| | `NamedThreadIsWoken` | the answer wakes the last waiter only (pid_pname.c:148) |
| | `EventIsOfWaiter` | a thread that has timed out leaves its stack's event in the list (pid_pname.c:111) |
| | `EndedProcessIsForgotten` | the list may have a process twice, and termination removes one (262) |
| | `FreedOnce` | a request lost from the full ring and then unloaded has its memory freed twice (filter.c:190-195, 335-339) |
| `CryptComments` | `LockIsReleased` | a file inserted meanwhile makes the function return with the lock held (cf_list.c:97-100); the comment at 84-85 says the lock has it inserted only once |
| | `HeaderStays` | my_file and other processes' opens may overwrite the header (cf_create.c:372-375) |
| | `SecureReadsClear` | the header or ciphered text is read into the cache again before the file is in the list (cf_create.c:355) |
| | `PassedIsListed` | a file found in the list has left it when the file system opens it (cf_create.c:269-278) |
| | `CreateFindsNoNode` | ASSERT at cf_sfilter.c:226 |
| | `SecretIsCiphered` | the cache is cleared first and the node removed afterwards (cf_list.c:133-134): what is written in between goes to the disk in the clear |

Seen while reading, and in no model: IRP_MN_REMOVE_DEVICE forwards through the
extension of a device already deleted (DPMain.c:743, 824);
`gProtectDevExt` is used unchecked (44); `PagingPathCountEvent` serialises
nothing (556, 760); `tdi_event_connect` uses an address entry after its
unlock (ev_conn.c:119); `ot_free` looks at the last object of a bucket only;
crypt_file uses FsContext after the lower close (cf_sfilter.c:256), calls at
close what its comment (cf_list.c:122) says is for cleanup, and does not look
whether the node was allocated.

## 4. Proofs

The theorems hold for every value of the constants allowed by the named
assumptions of the modules, finite sets of agents of any size among them.

**Receive** (`NdisProtRecvProofs`).  `TypeCorrect`:
`TypeOK` is inductive because it ties each thread's label to the routines it
can be in (`LabelsOK`).  `QueueBoundHolds`: a packet that would exceed the
water mark costs the head in the same critical section.
`CancelRoutineFound` and `ReadsHaveOneOwner`: the invariant `ReadInv` says
where a read is: on the queue exactly while its cancel routine is set or has
been called and has not yet got the lock; else with the one thread that took
it; else with its cancel routine; and nowhere before NdisProtRead has the lock.
`PacketsHaveOneOwner` does the same for packets (`PacketInv`).
`UnbindDrains` needs `PendedReadCount` exact first, as that is all Unbind looks
at; `DrainInv` then says how much is drained by the label Unbind is at.
`CountsCorrect`: every step changes one holder of the context at most
(`SameBut`, `OneHolder`); that a thread which drops a reference had it, and was
the only one, is `HoldInv`, which follows a read and a packet past the moment
they are disposed of.  `FreedIsUnused`, assuming `DispatchPinsFile`, which
`RecvUnpinned` shows to be needed: a count of zero means that nobody is left,
and file and adapter are closed so that nobody comes in (`GoneInv`).
`NothingStranded`: a thread leaves the service routine in the critical section
that found no match.
`DeliversInOrder` is the refinement, for `PacketDelivery` without its fairness.
A read waits while its cancel routine is set; who takes the routine away has
decided its outcome, long before the IRP is completed.  `ReadInv` makes that
well defined (`OutcomeRules`: at most one thread matches a read), and
`GivenPackets` adds that a packet some read got is never queued again, so that
the packets' fates do not change behind the reader's back.  Then there is one
lemma per kind of step: `MatchStep`, `CancelTakes`, `PendReadStep` and
`FailReadStep`, `ArriveStep`, `RefuseStep`, `DiscardStep` map to Match, Cancel,
Submit, Arrive, Refuse and Discard, all others (`CalmStep`, `SameOutcomes`) to a
stutter.
`PacketDelivery` keeps the line of reads as a set with an order, not as a
sequence, because reads leave it from any place: `BeforeRemove` and
`BeforeAppend` are all that is needed of `PendedReads`.

**Open** (`NdisProtOpenProofs`).  `TypeCorrect` needs no assumption.  The other
five assume `~UnbindDuringBind` (`BindUnbind` shows what happens without
it): `Life` says, context by context, which NDIS thread works on it and what
its list entry, flags and handle then are; `OpenInv` that an OPEN_DEVICE that
has claimed a context keeps its file until it is decided.  `RefCountCorrect`
follows step by step: a step adds or takes at most two holders (a lookup that
lets go, a claim that becomes a file's), and a freed context has no holder
left (`FreedInv`, `HeldIsAlive`).  `OneIsFound`: while a binder looks whether
the device is bound, no other context has its name (`OneFound`).
`RequestsPin`, assuming `WaitOutlastsRequests`: the count of requests is exact
and nobody joins it once CLOSING is set (`PinInv`).  `FreedIsUnused` and
`AssociationSound`, assuming `SynchronousFiles` and `AtomicMediaFlags`: an
OID request and a Cleanup hold no reference of their own and live on that of
their file, which Close, kept out until they are done, has not yet dropped
(`SerialInv`).

**Send** (`NdisProtSendProofs`).  `TypeCorrect`, `RefCountCorrect`,
`CancelledHeld`, `Outlived`: the reference count is the number of holders at
every moment, and pool, binding and context outlive what uses them.  The
invariant has the types, the `Linked` states of each write's IRP, packet and
threads, the two counts as cardinalities (`Counted`) and how far Unbind and
Close have come (`Unwound`).  `Effects` reduces every step to one of five
effects on the sets that are counted; the counts follow from those alone.

**Status** (`NdisProtStatusProofs`).  `TypeCorrect`, `StatusIrpsAreOwned`: the
slot alone says little, as an IRP may be in it with its cancel routine about to
run, or not yet in it and already cancelled.  The invariant says IRP by IRP
which combinations of slot, cancel routine and threads there are (`Place`);
that the slot is empty while an IRP is being put in it makes it inductive.

**DP** (`DPFilterProofs`).  `SetIsExact` (DPBitmapSet marks the sectors of its
range and no others, fast path and region boundaries included, for all sizes)
and `RegionsAreThere` (it stays in the array).  `TypeCorrect`, `RegionsCorrect`; `DiskKept` (if no mapping fails);
`BitmapOutlives` and `Exact` (if the volume comes online once).  They rest on
where a request can go (`Moves`, `QueueInv`).  Last comes
`ReadsCorrect`, under both conditions: what has ended never changes, so a
request's history holds ended requests only (`HistInv`); each store is current
by itself (`DiskInv`, `TempInv`); and a read of the disk is current because
nothing the file hides from it had ended when it began (`EarlyInv`,
`ReadInv`).  The conditions are needed, as `DPComments` shows.

**Connections** (`TdiConnProofs`).  `TypeCorrect`, `OneOwner`, `FreedByTwice`,
`Open`, `Lookup`, assuming `Reuse = FALSE`, which `tdi_reuse` shows to be needed.
`Table` says that the table, the list to delete and the thread's timeout fit;
`Links(c)` ties an object's requests and events to TCP's view.  Each operation
of the table is a lemma of its own, each handler cites one.  `Lookup`
(`LookupFindsConnection`) adds the hash chain: it has each entry in use once,
and the entry of TCP's present connection comes before those that were closed
or left before it (`Chain`), so that the first match is the right one.

**Log queue and names** (`TdiResolveProofs`).  `RingExact` goes from arithmetic
to lists to sums.  The ring's modular arithmetic is done once (`Place`,
`Span`, `Window`): the slots from tail to head are different, head is outside,
and each end moves by one.  From then on the queue is a list, and log_request
adds at its end and takes from its front if it is full (`Pushed`), get_request
takes from its front (`Popped`).  What has been counted is a sum over a set of
slots; it has its recursion by a set with one slot less, and the lemmas about
unions by induction over the size of the set.  `RingInv` needs that the numbers
of queued requests are different, or memory that one owns could be freed with
another.  `WakesApp`: the event exists only while the device is open, and a
request logged since is followed by a thread about to signal (`AppInv`).
`NameReaches` (`NameReachesWaiters`) assumes `AllocResults = {TRUE}`, as above.
Its invariant `NameInv` follows the first create of a process: nothing is known
of the process before it (`NoneYet`); until it logs its request no entry has the
name and nobody has asked (`BeforeRequest`); from then on it is woken, or its
request is lost, or it is pending: the request is in the queue or with the
application and is the only one, no entry has the name yet, and the first entry
for the process has its event, so that the answer will find it (`Pending`).
`RingInv` gives the queue's place in it.  A step disturbs one thread
(`ActorStep`) or none (`QuietStep`), if the list and the queue keep what the
others need of them (`ListStays`, `RequestStays`).

**crypt_file** (`CryptFileProofs`).  `TypeCorrect`, `OthersAreKeptOut`,
`ListIsCleaned`, `SecretIsKept`.  The invariant adds to the properties that
what waits in the cache is as it was written (`DirtyIsClear`) and, as long as
no gap has been gone through, `TextIsHidden`: the disk has no text in the
clear; the cache has none unless the file is in the list; and none when a
close has cleared it for the removal and nobody has the file open.  The last
part carries the secret over the two critical sections of the close.
`Count` is the one place where cardinalities are used.

Only model-checked: liveness (fairness and ENABLED are outside what the prover
handles: `ImplementsDelivery`, `TeardownCompletes`, `CallsReturn`,
`CancelledStatusCompletes`, `QueuedRequestEnds`); every safety property of the
passing runs is stated by a theorem.  There are no induction theorems over data
to cite, as they take an operator as a parameter; where the proofs need
induction (`SetIsExact`, `RingExact`, `Lookup`), it goes from a least
counterexample, among numbers or among finite sets.

## 5. Not modelled

- ndisprot: `QUERY_BINDING` and `BIND_WAIT`, which keep no state of a context;
  DriverEntry and Unload; contents of frames, filters and OID buffers; debug
  allocation accounting; the callback object of `excallbk.c`.  `NdisProtRecv`
  has one file object per context and `NdisProtOpen` has no queues: what the
  Cleanup of one handle does to the reads of the next is in neither.
- DP: power, paging-usage and other IOCTLs, which are passed on; the sparse
  file's own creation.
- tdi_fw: rule chains, datagrams and receive events, listening entries and
  enumeration, SIDs, the packet filter's table of TCP flags.
- crypt_file: corrections of queried lengths, directories, files shorter than
  a header, buffer allocation, reuse of the memory of an FCB in the list, more
  than one file.
- The other programs are listed in `PROJECT.json` with the reason for each.
  Nearly all lines of the repository are user interface code and vendored
  libraries (two copies of WTL, TinyXml, freeglut), Microsoft samples
  (sfilter), and walks through Windows' structures, which have no protocol
  for a model checker to look at; so the share of lines that is modelled is
  small, though most of the code with concurrency of its own is.

## 6. Plan

1. Done: ndisprot; DP; connections, log and names of tdi_fw; crypt_file's
   list, create, close and paging path.
2. A composition of `NdisProtOpen` with the read queue of `NdisProtRecv` for
   two handles on one context (ntdisp.c:460), and the status IRP in it
   (ndisbind.c:2029).
3. tdi_fw: rule chains with their activation, the TCP flag table of `packet.c`,
   listening entries.
4. crypt_file: short files and length queries, two files with FCB reuse.
5. photo_app's loader threads and thumbnail cache; ndisedge and passthru by
   their differences from ndisprot.
6. Proofs: the invariants of those modules as they come; those of the modules
   here are done.
