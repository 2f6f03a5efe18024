------------------------------ MODULE DPFilter ------------------------------
(***************************************************************************)
(* The disk protection filter (DP/DPMain.c): reads and writes of the       *)
(* protected volume are queued by DPDispatchReadWrite and carried out one  *)
(* by one by DPReadWriteThread, which writes to a temporary file instead   *)
(* of the volume, remembers in a bitmap which sectors are there, and reads *)
(* each sector from where it is.  A restart forgets file and bitmap: what  *)
(* it brings back is the disk.                                             *)
(*                                                                         *)
(* Actors: the system (any thread that dispatches a request), the worker   *)
(* thread, the lower device, and the PnP and volume handlers.  The content *)
(* of a sector is the write that made it.                                  *)
(***************************************************************************)
EXTENDS DPBitmap, Sequences

CONSTANTS
    Irps,       \* read and write requests
    Requests,   \* the requests that may be made, records [op, offset, length]
    Faults,     \* what may go wrong around the driver, a subset of FaultKinds
    Original,   \* content of a sector no request has written
    Blank,      \* content of a sector of the temporary file never written
    NoIrp, NoBitmap

Sectors == 0..VolumeSectors-1

\* "mapping": MmGetSystemAddressForMdlSafe returns NULL.  "alloc": no pool.
\* "file": an operation on the temporary file fails.  "lower": the lower
\* device fails a request.  "handle": ObReferenceObjectByHandle fails.
\* "online": IOCTL_VOLUME_ONLINE comes again.
FaultKinds == {"mapping", "alloc", "file", "lower", "handle", "online"}

ASSUME DPAssumption ==
    /\ Requests \subseteq [op : {"READ", "WRITE"}, offset : Nat, length : Nat \ {0}]
    /\ \A q \in Requests : q.offset + q.length <= VolumeSectors
    /\ Faults \subseteq FaultKinds
    /\ Original \notin Irps /\ Blank \notin Irps /\ Original # Blank
    /\ NoIrp \notin Irps
    /\ NoBitmap \notin Bitmaps

VARIABLES
    disk,           \* the volume below the filter
    temp,           \* TempFile
    Bitmap,         \* DevExt->Bitmap
    bitmapFreed,    \* what Bitmap points to has been freed
    Protect,
    ReqList, ReqEvent, ThreadTermFlag,
    device,         \* life of the filter device: none, started, stopping, deleted
    worker,         \* DPReadWriteThread: where it is, its Irp and fileBuf
    request,        \* what each IRP asks for
    state,          \* where each IRP is
    result,         \* what a read returned
    before          \* history: the IRPs completed when this one was dispatched

vars == <<disk, temp, Bitmap, bitmapFreed, Protect, ReqList, ReqEvent,
          ThreadTermFlag, device, worker, request, state, result, before>>

store == <<disk, temp>>
volume == <<Bitmap, bitmapFreed, Protect>>
reqs == <<request, before>>

NoData == [s \in {} |-> Blank]
Content == Irps \cup {Original, Blank}
Buffers == {NoData} \cup UNION {[Span(q.offset, q.length) -> Content] : q \in Requests}

\* "below": passed down by the dispatch routine.  "next": sent on by the
\* worker.  "sync": sent down by the worker, which waits for it.
Ended == {"done", "passed", "failed"}
States == {"idle", "queued", "worker", "below", "next", "sync"} \cup Ended

Places == {"none", "wait", "next", "readset", "readblend", "lower", "merge",
           "write", "set", "exit"}
At(pc, i) == [pc |-> pc, irp |-> i, fileBuf |-> NoData]
Idle(pc) == At(pc, NoIrp)

Op(i) == request[i].op

SpanOf(i) == Span(request[i].offset, request[i].length)
\* What a write that fails may have written: a first part of its range.
PartsOf(i) == {Span(request[i].offset, n) : n \in 0..request[i].length}
On(f, S) == [s \in S |-> f[s]]
Put(f, S, v) == [s \in DOMAIN f |-> IF s \in S THEN v ELSE f[s]]
Fails(kind) == kind \in Faults

Init ==
    /\ disk = [s \in Sectors |-> Original]
    /\ temp = [s \in Sectors |-> Blank]
    /\ Bitmap = NoBitmap /\ bitmapFreed = FALSE
    /\ Protect = FALSE
    /\ ReqList = <<>> /\ ReqEvent = FALSE /\ ThreadTermFlag = FALSE
    /\ device = "none"
    /\ worker = Idle("none")
    /\ request \in [Irps -> Requests]
    /\ state = [i \in Irps |-> "idle"]
    /\ result = [i \in Irps |-> NoData]
    /\ before = [i \in Irps |-> {}]

-----------------------------------------------------------------------------
(* The life of the device                                                  *)

\* DPAddDevice.  A failure before the thread is created leaves nothing; one
\* of ObReferenceObjectByHandle tells the thread to end, and deletes the
\* device without waiting for it.
AddDevice ==
    /\ device = "none"
    /\ \/ /\ device' = "started"
          /\ worker' = Idle("wait")
          /\ UNCHANGED <<ReqEvent, ThreadTermFlag>>
       \/ /\ Fails("handle")
          /\ device' = "deleted"
          /\ worker' = Idle("wait")
          /\ ThreadTermFlag' = TRUE
          /\ ReqEvent' = TRUE
    /\ UNCHANGED <<store, volume, ReqList, reqs, state, result>>

\* DPVolumeOnLineCompleteRoutine, for the volume D: the bitmap is made anew;
\* a failure frees the one there is and keeps the pointer.  The bitmap array
\* is the "alloc" that can fail, the boot sector the "lower" read.
VolumeOnline ==
    /\ device = "started"
    /\ Bitmap = NoBitmap \/ Fails("online")
    /\ \/ /\ Bitmap' = EmptyBitmap
          /\ bitmapFreed' = FALSE
       \/ /\ Fails("lower")
          /\ bitmapFreed' = (Bitmap # NoBitmap)
          /\ UNCHANGED Bitmap
       \/ /\ Fails("alloc")
          /\ Bitmap' = NoBitmap
          /\ bitmapFreed' = FALSE
    /\ UNCHANGED <<store, Protect, ReqList, ReqEvent, ThreadTermFlag, device,
                   worker, reqs, state, result>>

\* DPReinitializationRoutine, once the boot drivers have started: the
\* temporary file is created empty, and the volume is protected from now on.
\* It runs once, with the volume D found before (gProtectDevExt).
Reinitialize ==
    /\ device = "started"
    /\ Bitmap # NoBitmap /\ ~ Protect
    /\ Protect' = TRUE
    /\ temp' = [s \in Sectors |-> Blank]
    /\ UNCHANGED <<disk, Bitmap, bitmapFreed, ReqList, ReqEvent, ThreadTermFlag,
                   device, worker, reqs, state, result>>

\* IRP_MN_REMOVE_DEVICE: the worker is told to end ...
RemoveStop ==
    /\ device = "started"
    /\ device' = "stopping"
    /\ ThreadTermFlag' = TRUE
    /\ ReqEvent' = TRUE
    /\ UNCHANGED <<store, volume, ReqList, worker, reqs, state, result>>

\* (A mutant) the thread is not waited for.
RemoveDeleteUnwaited ==
    /\ device = "stopping"
    /\ device' = "deleted"
    /\ bitmapFreed' = (Bitmap # NoBitmap)
    /\ UNCHANGED <<store, Bitmap, Protect, ReqList, ReqEvent, ThreadTermFlag,
                   worker, reqs, state, result>>

\* ... and waited for; then the bitmap is freed and the device deleted.
RemoveDelete ==
    /\ device = "stopping"
    /\ worker.pc = "exit"
    /\ device' = "deleted"
    /\ bitmapFreed' = (Bitmap # NoBitmap)
    /\ UNCHANGED <<store, Bitmap, Protect, ReqList, ReqEvent, ThreadTermFlag,
                   worker, reqs, state, result>>

-----------------------------------------------------------------------------
(* Requests                                                                *)

\* DPDispatchReadWrite.
DispatchReadWrite(i) ==
    /\ device \in {"started", "stopping"}
    /\ state[i] = "idle"
    /\ before' = [before EXCEPT ![i] = {j \in Irps : state[j] \in Ended}]
    /\ \/ /\ Protect
          /\ state' = [state EXCEPT ![i] = "queued"]
          /\ ReqList' = Append(ReqList, i)
          /\ ReqEvent' = TRUE
       \/ /\ ~ Protect
          /\ state' = [state EXCEPT ![i] = "below"]
          /\ UNCHANGED <<ReqList, ReqEvent>>
    /\ UNCHANGED <<store, volume, ThreadTermFlag, device, worker, request, result>>

\* The lower device carries out a request, or fails it, part of it written.
LowerDevice(i) ==
    /\ state[i] \in {"below", "next", "sync"}
    /\ LET ends(s) == IF state[i] = "sync" THEN "worker" ELSE s
       IN  \/ /\ Op(i) = "READ"
              /\ state' = [state EXCEPT ![i] = ends("passed")]
              /\ result' = [result EXCEPT ![i] = On(disk, SpanOf(i))]
              /\ worker' = IF state[i] = "sync" THEN [worker EXCEPT !.pc = "merge"] ELSE worker
              /\ UNCHANGED disk
           \/ /\ Op(i) = "WRITE"
              /\ state' = [state EXCEPT ![i] = "passed"]
              /\ disk' = Put(disk, SpanOf(i), i)
              /\ UNCHANGED <<result, worker>>
           \/ /\ Fails("lower")
              /\ \/ Op(i) = "READ" /\ UNCHANGED disk
                 \/ Op(i) = "WRITE" /\ \E S \in PartsOf(i) : disk' = Put(disk, S, i)
              /\ state' = [state EXCEPT ![i] = "failed"]
              /\ worker' = IF state[i] = "sync" THEN Idle("next") ELSE worker
              /\ UNCHANGED result
    /\ UNCHANGED <<temp, volume, ReqList, ReqEvent, ThreadTermFlag, device, reqs>>

-----------------------------------------------------------------------------
(* DPReadWriteThread                                                       *)

\* KeWaitForSingleObject on a synchronization event, then the only exit.
WaitReqEvent ==
    /\ worker.pc = "wait"
    /\ ReqEvent
    /\ ReqEvent' = FALSE
    /\ worker' = Idle(IF ThreadTermFlag THEN "exit" ELSE "next")
    /\ UNCHANGED <<store, volume, ReqList, ThreadTermFlag, device, reqs, state, result>>

QueueEmpty ==
    /\ worker.pc = "next"
    /\ ReqList = <<>>
    /\ worker' = Idle("wait")
    /\ UNCHANGED <<store, volume, ReqList, ReqEvent, ThreadTermFlag, device, reqs,
                   state, result>>

Goto(i, pc) ==
    /\ worker' = At(pc, i)
    /\ state' = [state EXCEPT ![i] = "worker"]

\* ERRNEXT: the request is sent to the lower device, whatever it is.
SendToNextDriver(i) ==
    /\ worker' = Idle("next")
    /\ state' = [state EXCEPT ![i] = "next"]

\* (A mutant) the thread waits for the next signal after each request.
CompleteRequestAndWait(i, how) ==
    /\ worker' = Idle("wait")
    /\ state' = [state EXCEPT ![i] = how]

\* ERRERR and ERRCMPLT.
CompleteRequest(i, how) ==
    /\ worker' = Idle("next")
    /\ state' = [state EXCEPT ![i] = how]

\* (A mutant) a write to sectors that are not in the file goes to the disk.
NextRequestByBitmap ==
    /\ worker.pc = "next"
    /\ ReqList # <<>>
    /\ ReqList' = Tail(ReqList)
    /\ LET i == Head(ReqList)
           test == IF Bitmap = NoBitmap THEN "UNKNOWN"
                   ELSE BitmapTest(Bitmap, request[i].offset, request[i].length)
       IN  \/ test = "CLEAR" /\ SendToNextDriver(i)
           \/ Op(i) = "WRITE" /\ test # "CLEAR" /\ Goto(i, "write")
           \/ Op(i) = "READ" /\ test \in {"SET", "BLEND"} /\ Goto(i, "readset")
    /\ UNCHANGED <<store, volume, ReqEvent, ThreadTermFlag, device, reqs, result>>

\* A request is taken off the queue; a request without a system address goes
\* down, a read goes where the bitmap says, a write to the file.
NextRequest ==
    /\ worker.pc = "next"
    /\ ReqList # <<>>
    /\ ReqList' = Tail(ReqList)
    /\ LET i == Head(ReqList)
           test == IF Bitmap = NoBitmap THEN "UNKNOWN"
                   ELSE BitmapTest(Bitmap, request[i].offset, request[i].length)
       IN  \/ Fails("mapping") /\ SendToNextDriver(i)
           \/ Op(i) = "READ" /\ test = "CLEAR" /\ SendToNextDriver(i)
           \/ Op(i) = "READ" /\ test = "SET" /\ Goto(i, "readset")
           \/ Op(i) = "READ" /\ test = "BLEND" /\ Goto(i, "readblend")
           \/ Op(i) = "READ" /\ test = "UNKNOWN" /\ CompleteRequest(i, "failed")
           \/ Op(i) = "WRITE" /\ Goto(i, "write")
    /\ UNCHANGED <<store, volume, ReqEvent, ThreadTermFlag, device, reqs, result>>

\* ZwReadFile, after the buffers have been allocated: all the data of a read
\* in the SET range; of one in the BLEND range the file's half, for which the
\* request is then sent down to get the disk's.
ReadTempFile ==
    /\ LET i == worker.irp
       IN  \/ /\ worker.pc = "readset"
              /\ result' = [result EXCEPT ![i] = On(temp, SpanOf(i))]
              /\ CompleteRequest(i, "done")
           \/ /\ worker.pc = "readblend"
              /\ worker' = [worker EXCEPT !.pc = "lower", !.fileBuf = On(temp, SpanOf(i))]
              /\ state' = [state EXCEPT ![i] = "sync"]
              /\ UNCHANGED result
           \/ /\ worker.pc \in {"readset", "readblend"}
              /\ Fails("alloc") \/ Fails("file")
              /\ CompleteRequest(i, "failed")
              /\ UNCHANGED result
    /\ UNCHANGED <<store, volume, ReqList, ReqEvent, ThreadTermFlag, device, reqs>>

\* The disk's data has come into the caller's buffer; DPBitmapGet puts the
\* file's over it where the bitmap says so.
MergeBuffers ==
    /\ worker.pc = "merge"
    /\ LET i == worker.irp
       IN  IF Bitmap = NoBitmap
           THEN CompleteRequest(i, "failed") /\ UNCHANGED result
           ELSE /\ result' = [result EXCEPT ![i] = BitmapGet(Bitmap, result[i], worker.fileBuf)]
                /\ CompleteRequest(i, "done")
    /\ UNCHANGED <<store, volume, ReqList, ReqEvent, ThreadTermFlag, device, reqs>>

\* ZwWriteFile; when it fails some of the range may have been written.
WriteTempFile ==
    /\ worker.pc = "write"
    /\ LET i == worker.irp
       IN  \/ /\ temp' = Put(temp, SpanOf(i), i)
              /\ worker' = [worker EXCEPT !.pc = "set"]
              /\ UNCHANGED state
           \/ /\ Fails("file")
              /\ \E S \in PartsOf(i) : temp' = Put(temp, S, i)
              /\ CompleteRequest(i, "failed")
    /\ UNCHANGED <<disk, volume, ReqList, ReqEvent, ThreadTermFlag, device, reqs, result>>

\* DPBitmapSet; a region that cannot be allocated fails the write.
SetBitmap ==
    /\ worker.pc = "set"
    /\ LET i == worker.irp
           offset == request[i].offset
           length == request[i].length
       IN  \/ /\ Bitmap # NoBitmap
              /\ Bitmap' = BitmapSet(Bitmap, offset, length)
              /\ CompleteRequest(i, "done")
           \/ /\ Bitmap = NoBitmap
              /\ CompleteRequest(i, "failed")
              /\ UNCHANGED Bitmap
           \/ /\ Bitmap # NoBitmap
              /\ Fails("alloc")
              /\ \E r \in RegionsUsed(offset, length) :
                   /\ Bitmap[r] = NoRegion
                   /\ Bitmap' = BitmapSetFailed(Bitmap, offset, r)
              /\ CompleteRequest(i, "failed")
    /\ UNCHANGED <<store, bitmapFreed, Protect, ReqList, ReqEvent, ThreadTermFlag,
                   device, reqs, result>>

ReadWriteThread ==
    \/ WaitReqEvent \/ QueueEmpty \/ NextRequest
    \/ ReadTempFile \/ MergeBuffers \/ WriteTempFile \/ SetBitmap

-----------------------------------------------------------------------------
Next ==
    \/ AddDevice \/ VolumeOnline \/ Reinitialize
    \/ RemoveStop \/ RemoveDelete
    \/ \E i \in Irps : DispatchReadWrite(i) \/ LowerDevice(i)
    \/ ReadWriteThread

\* The worker is a running thread and the lower device answers what it is
\* given; nothing makes the system send requests or remove the device.
Fairness ==
    /\ WF_vars(ReadWriteThread)
    /\ \A i \in Irps : WF_vars(LowerDevice(i))

Spec == Init /\ [][Next]_vars
FairSpec == Spec /\ Fairness

-----------------------------------------------------------------------------
(* Properties                                                              *)

TypeOK ==
    /\ disk \in [Sectors -> Irps \cup {Original}]
    /\ temp \in [Sectors -> Content]
    /\ Bitmap \in Bitmaps \cup {NoBitmap}
    /\ {bitmapFreed, Protect, ReqEvent, ThreadTermFlag} \subseteq BOOLEAN
    /\ ReqList \in Seq(Irps)
    /\ device \in {"none", "started", "stopping", "deleted"}
    /\ worker \in [pc : Places, irp : Irps \cup {NoIrp}, fileBuf : Buffers]
    /\ request \in [Irps -> Requests]
    /\ state \in [Irps -> States]
    /\ result \in [Irps -> Buffers]
    /\ before \in [Irps -> SUBSET Irps]

Succeeded(i) == state[i] \in {"done", "passed"}
Writes(i, s) == Op(i) = "WRITE" /\ s \in SpanOf(i)

\* Some write of s had ended well before r began, and began after v had ended.
Overwritten(v, s, r) ==
    \E w \in before[r] :
        /\ Writes(w, s) /\ Succeeded(w) /\ w # v
        /\ v = Original \/ v \in before[w]

\* A read that succeeds returns, sector by sector, what a write to that
\* sector has put there, or what was there from the start, and nothing that
\* was overwritten before the read began: whether the sector is on the disk,
\* in the file or on its way, and across the moment protection begins.
ReadsAreCurrent ==
    \A r \in Irps : Op(r) = "READ" /\ Succeeded(r) =>
        /\ DOMAIN result[r] = SpanOf(r)
        /\ \A s \in SpanOf(r) :
             /\ result[r][s] = Original \/ \E w \in Irps : w = result[r][s] /\ Writes(w, s)
             /\ ~ Overwritten(result[r][s], s, r)

\* The bitmap has exactly the sectors of the writes that the worker has
\* completed: a write that failed half way leaves no trace in it, and the
\* fast path for whole bytes marks no sector more or less.
BitmapIsExact ==
    Bitmap # NoBitmap =>
        \A s \in Sectors :
            IsSet(Bitmap, s) <=> \E w \in Irps : state[w] = "done" /\ Writes(w, s)

\* The regions that DPBitmapSet is about to look at are in the array that
\* DPVolumeOnLineCompleteRoutine has asked for, the last of a request that
\* ends with the volume included.
RegionsInBitmap ==
    worker.pc = "set" /\ Bitmap # NoBitmap =>
        RegionsUsed(request[worker.irp].offset, request[worker.irp].length)
            \subseteq DOMAIN Bitmap

\* While the worker is about a request, the bitmap it may use is not freed
\* by the removal of the device.
BitmapOutlivesThread ==
    worker.irp # NoIrp \/ worker.pc = "next" => ~ bitmapFreed

\* The device and its extension are there as long as the worker runs.
DeviceOutlivesThread ==
    worker.pc \notin {"none", "exit"} => device \in {"started", "stopping"}

\* What a restart brings back: from the moment the volume is protected no
\* request dispatched since changes a sector of the disk.  Only writes that
\* the dispatch routine had passed down before may still arrive.
DiskIsKept ==
    [][\A s \in Sectors : disk'[s] # disk[s] => state[disk'[s]] = "below"]_vars

\* A request that was queued is completed, or passed on and completed below,
\* unless the device is being removed.
QueuedRequestEnds ==
    \A i \in Irps : state[i] = "queued" ~> state[i] \in Ended \/ ThreadTermFlag

\* The same, device removal or not.
EveryRequestEnds ==
    \A i \in Irps : state[i] = "queued" ~> state[i] \in Ended
=============================================================================
