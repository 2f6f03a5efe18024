---------------------------- MODULE NdisProtRecv ----------------------------
(***************************************************************************)
(* The receive side of one NDISPROT_OPEN_CONTEXT: read IRPs pended by       *)
(* NdisProtRead, packets queued by ndisprotQueueReceivePacket, the service  *)
(* routine that marries the two, the cancel routine, and the three          *)
(* activities that drain the queues (Cleanup, power-down and Unbind).       *)
(*                                                                          *)
(* Grain.  A step is one critical section of the open context's spin lock,  *)
(* or one interlocked operation, IRP completion or packet release done      *)
(* outside of it.  The exchange of an IRP's cancel routine touches that     *)
(* IRP only, so the exchanges made inside a critical section belong to it.  *)
(*                                                                          *)
(* Agents.  An IRP and a packet each name the thread that brings them in:   *)
(* r \in Reads is the thread in the dispatch routine of read r, p \in       *)
(* Packets the NDIS context indicating p.  "cleanup" is the thread that     *)
(* sends IRP_MJ_CLEANUP and IRP_MJ_CLOSE for the file object and "pnp" the  *)
(* one NDIS delivers power and unbind events on, which it serialises.  The  *)
(* cancel routine of read r runs on a thread of its own (cancelPc[r]).      *)
(***************************************************************************)
EXTENDS Integers, FiniteSets, SequencesExt

CONSTANTS
    Reads,              \* read IRPs
    Packets,            \* packets the miniport indicates
    None,               \* no IRP, no packet
    MaxRecvQueueSize,   \* MAX_RECV_QUEUE_SIZE
    DispatchPinsFile    \* is IRP_MJ_CLOSE held back until dispatch routines return?

Agents == Reads \cup Packets \cup {"cleanup", "pnp"}

ASSUME AgentsAssumption ==
    /\ IsFiniteSet(Reads) /\ IsFiniteSet(Packets)
    /\ Reads \cap Packets = {}
    /\ {"cleanup", "pnp"} \cap (Reads \cup Packets) = {}
    /\ None \notin Reads \cup Packets

ASSUME SizeAssumption == MaxRecvQueueSize \in Nat

ASSUME PinAssumption == DispatchPinsFile \in BOOLEAN

\* No packet is mistaken for what else may become of a read.
ASSUME OutcomeAssumption ==
    Packets \cap {"unsent", "waiting", "failed", "cancelled"} = {}

VARIABLES
    \* the open context
    bindState,          \* NUIOO_BIND_FLAGS
    powerOn,            \* PowerState = NetDeviceStateD0
    BindingHandle,      \* non-NULL
    RecvPacketPool,     \* non-NULL
    PendedReads, PendedReadCount,
    RecvPktQueue, RecvPktCount,
    RefCount,
    freed,              \* the memory of the context was given back
    \* the file object: "open", past its last handle ("cleanup"), "closed"
    fileState,
    \* IRPs, as the I/O manager and the driver see them
    irpRoutine,         \* is a cancel routine set?
    irpCancel,          \* pIrp->Cancel
    irpStatus,
    irpData,            \* the packet copied to the IRP's MDL
    \* packets
    pktHome,            \* our receive pool ("local") or the miniport's
    pktState,
    \* the threads
    pc, curIrp, curPkt, cancelPc

bindVars == <<bindState, powerOn, BindingHandle, RecvPacketPool, fileState>>
readVars == <<PendedReads, PendedReadCount>>
recvVars == <<RecvPktQueue, RecvPktCount>>
refVars  == <<RefCount, freed>>
irpVars  == <<irpRoutine, irpCancel, irpStatus, irpData>>
pktVars  == <<pktHome, pktState>>
curVars  == <<curIrp, curPkt>>

vars == <<bindVars, readVars, recvVars, refVars, irpVars, pktVars, curVars,
          pc, cancelPc>>

Init ==
    /\ bindState = "ACTIVE" /\ powerOn = TRUE
    /\ BindingHandle = TRUE /\ RecvPacketPool = TRUE
    /\ fileState = "open"
    /\ PendedReads = <<>> /\ PendedReadCount = 0
    /\ RecvPktQueue = <<>> /\ RecvPktCount = 0
    /\ RefCount = 2                     \* the binding and the open file
    /\ freed = FALSE
    /\ irpRoutine = [r \in Reads |-> FALSE]
    /\ irpCancel = [r \in Reads |-> FALSE]
    /\ irpStatus = [r \in Reads |-> "unsent"]
    /\ irpData = [r \in Reads |-> None]
    /\ pktHome = [p \in Packets |-> "none"]
    /\ pktState = [p \in Packets |-> "absent"]
    /\ pc = [t \in Agents |-> "idle"]
    /\ curIrp = [t \in Agents |-> None]
    /\ curPkt = [t \in Agents |-> None]
    /\ cancelPc = [r \in Reads |-> "idle"]

-----------------------------------------------------------------------------
(* What the routines below are made of.                                     *)

Goto(t, label) == pc' = [pc EXCEPT ![t] = label]

\* ndisprotRefOpen
RefOpen == RefCount' = RefCount + 1 /\ UNCHANGED freed

\* ndisprotDerefOpen: the last reference frees the context
DerefOpen == RefCount' = RefCount - 1 /\ freed' = (freed \/ RefCount = 1)

\* The test of NUIOO_BIND_FLAGS, and (a mutant) one that a binding being torn
\* down passes.
IsBoundOrClosing == bindState # "IDLE"

IsBound == bindState = "ACTIVE"

\* The test of the water mark, and (a mutant) one that is off by one.
IsTooLongByTwo(count) == count > MaxRecvQueueSize + 1

IsTooLong(count) == count > MaxRecvQueueSize

\* IoCompleteRequest
Complete(r, status) == irpStatus' = [irpStatus EXCEPT ![r] = status]

\* ndisprotFreeReceivePacket: the packet's pool tells a local copy from a
\* packet of the miniport, which is handed back with NdisReturnPackets
FreeReceivePacket(p) ==
    /\ pktState' = [pktState EXCEPT ![p] =
           IF RecvPacketPool /\ pktHome[p] = "local" THEN "freed" ELSE "returned"]
    /\ UNCHANGED pktHome

-----------------------------------------------------------------------------
(* ndisprotServiceReads, run by the thread of a read or of a packet.        *)

\* (A mutant) the routine trusts its caller's reference.
ServiceRefUncounted(t) ==
    /\ pc[t] = "svcRef"
    /\ Goto(t, "svcLock")
    /\ UNCHANGED <<bindVars, readVars, recvVars, refVars, irpVars, pktVars, curVars, cancelPc>>

ServiceRef(t) ==
    /\ pc[t] = "svcRef"
    /\ RefOpen
    /\ Goto(t, "svcLock")
    /\ UNCHANGED <<bindVars, readVars, recvVars, irpVars, pktVars, curVars, cancelPc>>

\* (Mutants) the first read, being cancelled or not; the newest takable one.
IsFirst(i) == i = 1 /\ PendedReads # <<>>

IsLastTakable(i) ==
    /\ i \in 1 .. Len(PendedReads)
    /\ irpRoutine[PendedReads[i]]
    /\ \A j \in (i + 1) .. Len(PendedReads) : ~irpRoutine[PendedReads[j]]

\* The first pended read whose cancel routine could be taken away.
IsFirstTakable(i) ==
    /\ i \in 1 .. Len(PendedReads)
    /\ irpRoutine[PendedReads[i]]
    /\ \A j \in 1 .. (i - 1) : ~irpRoutine[PendedReads[j]]

\* One turn of the loop, under the lock: marry the oldest packet to the
\* first read that is not being cancelled, or leave.
ServiceTurn(t) ==
    \/ /\ RecvPktQueue # <<>>
       /\ \E i \in 1 .. Len(PendedReads) :
             /\ IsFirstTakable(i)
             /\ irpRoutine' = [irpRoutine EXCEPT ![PendedReads[i]] = FALSE]
             /\ curIrp' = [curIrp EXCEPT ![t] = PendedReads[i]]
             /\ PendedReads' = RemoveAt(PendedReads, i)
       /\ curPkt' = [curPkt EXCEPT ![t] = Head(RecvPktQueue)]
       /\ RecvPktQueue' = Tail(RecvPktQueue)
       /\ RecvPktCount' = RecvPktCount - 1
       /\ Goto(t, "svcDerefPkt")
    \/ /\ \/ RecvPktQueue = <<>>
          \/ \A i \in 1 .. Len(PendedReads) : ~irpRoutine[PendedReads[i]]
       /\ Goto(t, "svcDerefTemp")
       /\ UNCHANGED <<PendedReads, recvVars, irpRoutine, curVars>>

ServiceFirst(t) ==
    /\ pc[t] = "svcLock"
    /\ ServiceTurn(t)
    /\ UNCHANGED <<bindVars, PendedReadCount, refVars, irpCancel, irpStatus,
                   irpData, pktVars, cancelPc>>

\* The packet's reference on the context goes before the packet does.
ServiceDerefPacket(t) ==
    /\ pc[t] = "svcDerefPkt"
    /\ DerefOpen
    /\ Goto(t, "svcComplete")
    /\ UNCHANGED <<bindVars, readVars, recvVars, irpVars, pktVars, curVars, cancelPc>>

ServiceComplete(t) ==
    /\ pc[t] = "svcComplete"
    /\ irpData' = [irpData EXCEPT ![curIrp[t]] = curPkt[t]]
    /\ Complete(curIrp[t], "SUCCESS")
    /\ Goto(t, "svcFree")
    /\ UNCHANGED <<bindVars, readVars, recvVars, refVars, irpRoutine, irpCancel,
                   pktVars, curVars, cancelPc>>

ServiceFree(t) ==
    /\ pc[t] = "svcFree"
    /\ FreeReceivePacket(curPkt[t])
    /\ curPkt' = [curPkt EXCEPT ![t] = None]
    /\ Goto(t, "svcDerefRead")
    /\ UNCHANGED <<bindVars, readVars, recvVars, refVars, irpVars, curIrp, cancelPc>>

ServiceDerefRead(t) ==
    /\ pc[t] = "svcDerefRead"
    /\ DerefOpen
    /\ curIrp' = [curIrp EXCEPT ![t] = None]
    /\ Goto(t, "svcRelock")
    /\ UNCHANGED <<bindVars, readVars, recvVars, irpVars, pktVars, curPkt, cancelPc>>

\* The read stops counting as pended only now, in the critical section that
\* takes the next turn.
ServiceAgain(t) ==
    /\ pc[t] = "svcRelock"
    /\ PendedReadCount' = PendedReadCount - 1
    /\ ServiceTurn(t)
    /\ UNCHANGED <<bindVars, refVars, irpCancel, irpStatus, irpData, pktVars, cancelPc>>

ServiceReturn(t) ==
    /\ pc[t] = "svcDerefTemp"
    /\ DerefOpen
    /\ Goto(t, "done")
    /\ UNCHANGED <<bindVars, readVars, recvVars, irpVars, pktVars, curVars, cancelPc>>

ServiceReads(t) ==
    \/ ServiceRef(t) \/ ServiceFirst(t) \/ ServiceDerefPacket(t)
    \/ ServiceComplete(t) \/ ServiceFree(t) \/ ServiceDerefRead(t)
    \/ ServiceAgain(t) \/ ServiceReturn(t)

-----------------------------------------------------------------------------
(* NdisProtRead and NdisProtCancelRead.                                     *)

\* A client issues the read; the I/O manager has referenced the file object.
SubmitRead(r) ==
    /\ irpStatus[r] = "unsent" /\ fileState = "open"
    /\ irpStatus' = [irpStatus EXCEPT ![r] = "dispatched"]
    /\ Goto(r, "rdLock")
    /\ UNCHANGED <<bindVars, readVars, recvVars, refVars, irpRoutine, irpCancel,
                   irpData, pktVars, curVars, cancelPc>>

\* (A mutant) the read is left for the next packet to find.
PendReadUnserviced(r) ==
    /\ pc[r] = "rdLock" /\ IsBound
    /\ PendedReads' = Append(PendedReads, r)
    /\ RefOpen
    /\ PendedReadCount' = PendedReadCount + 1
    /\ irpRoutine' = [irpRoutine EXCEPT ![r] = TRUE]
    /\ irpStatus' = [irpStatus EXCEPT ![r] = "pending"]
    /\ Goto(r, "done")
    /\ UNCHANGED <<bindVars, recvVars, irpCancel, irpData, pktVars, curVars, cancelPc>>

\* The cancel routine is set without a look at pIrp->Cancel.
PendRead(r) ==
    /\ pc[r] = "rdLock" /\ IsBound
    /\ PendedReads' = Append(PendedReads, r)
    /\ RefOpen
    /\ PendedReadCount' = PendedReadCount + 1
    /\ irpRoutine' = [irpRoutine EXCEPT ![r] = TRUE]
    /\ irpStatus' = [irpStatus EXCEPT ![r] = "pending"]
    /\ Goto(r, "svcRef")
    /\ UNCHANGED <<bindVars, recvVars, irpCancel, irpData, pktVars, curVars, cancelPc>>

\* No binding, or no system mapping for the IRP's buffer.
FailRead(r) ==
    /\ pc[r] = "rdLock"
    /\ Complete(r, "FAILED")
    /\ Goto(r, "done")
    /\ UNCHANGED <<bindVars, readVars, recvVars, refVars, irpRoutine, irpCancel,
                   irpData, pktVars, curVars, cancelPc>>

\* IoCancelIrp: takes the cancel routine away and calls it.
CancelIrp(r) ==
    /\ irpStatus[r] \in {"dispatched", "pending"} /\ ~irpCancel[r]
    /\ irpCancel' = [irpCancel EXCEPT ![r] = TRUE]
    /\ irpRoutine' = [irpRoutine EXCEPT ![r] = FALSE]
    /\ cancelPc' = [cancelPc EXCEPT ![r] = IF irpRoutine[r] THEN "lock" ELSE "idle"]
    /\ UNCHANGED <<bindVars, readVars, recvVars, refVars, irpStatus, irpData,
                   pktVars, curVars, pc>>

\* (A mutant) the IRP is found but stays linked.
CancelReadKeepsEntry(r) ==
    /\ cancelPc[r] = "lock"
    /\ \E i \in 1 .. Len(PendedReads) : PendedReads[i] = r
    /\ PendedReadCount' = PendedReadCount - 1
    /\ cancelPc' = [cancelPc EXCEPT ![r] = "complete"]
    /\ UNCHANGED <<bindVars, PendedReads, recvVars, refVars, irpVars, pktVars, curVars, pc>>

\* The critical section of NdisProtCancelRead.
CancelReadUnlink(r) ==
    /\ cancelPc[r] = "lock"
    /\ \/ \E i \in 1 .. Len(PendedReads) :
             /\ PendedReads[i] = r
             /\ PendedReads' = RemoveAt(PendedReads, i)
             /\ PendedReadCount' = PendedReadCount - 1
             /\ cancelPc' = [cancelPc EXCEPT ![r] = "complete"]
       \/ /\ \A i \in 1 .. Len(PendedReads) : PendedReads[i] # r
          /\ cancelPc' = [cancelPc EXCEPT ![r] = "done"]
          /\ UNCHANGED readVars
    /\ UNCHANGED <<bindVars, recvVars, refVars, irpVars, pktVars, curVars, pc>>

CancelReadComplete(r) ==
    /\ cancelPc[r] = "complete"
    /\ Complete(r, "CANCELLED")
    /\ cancelPc' = [cancelPc EXCEPT ![r] = "deref"]
    /\ UNCHANGED <<bindVars, readVars, recvVars, refVars, irpRoutine, irpCancel,
                   irpData, pktVars, curVars, pc>>

\* (A mutant) the read's reference on the context is forgotten.
CancelReadLeaksRef(r) ==
    /\ cancelPc[r] = "deref"
    /\ cancelPc' = [cancelPc EXCEPT ![r] = "done"]
    /\ UNCHANGED <<bindVars, readVars, recvVars, refVars, irpVars, pktVars, curVars, pc>>

CancelReadDeref(r) ==
    /\ cancelPc[r] = "deref"
    /\ DerefOpen
    /\ cancelPc' = [cancelPc EXCEPT ![r] = "done"]
    /\ UNCHANGED <<bindVars, readVars, recvVars, irpVars, pktVars, curVars, pc>>

CancelRead(r) == CancelReadUnlink(r) \/ CancelReadComplete(r) \/ CancelReadDeref(r)

-----------------------------------------------------------------------------
(* Indications: NdisProtReceivePacket, NdisProtReceive and the completion of *)
(* its NdisTransferData, then ndisprotQueueReceivePacket.  A runt, or a      *)
(* packet no copy could be allocated for, changes no state.                  *)

\* The miniport lends one of its own packets.
IndicateMiniportPacket(p) ==
    /\ pktState[p] = "absent" /\ BindingHandle
    /\ pktHome' = [pktHome EXCEPT ![p] = "miniport"]
    /\ pktState' = [pktState EXCEPT ![p] = "ours"]
    /\ Goto(p, "rcvRef")
    /\ UNCHANGED <<bindVars, readVars, recvVars, refVars, irpVars, curVars, cancelPc>>

\* The data is copied to a packet of the receive pool, at once or by a
\* NdisTransferData that pends.
IndicateCopy(p) ==
    /\ pktState[p] = "absent" /\ BindingHandle
    /\ pktHome' = [pktHome EXCEPT ![p] = "local"]
    /\ pktState' = [pktState EXCEPT ![p] = "ours"]
    /\ \E label \in {"rcvRef", "transfer"} : Goto(p, label)
    /\ UNCHANGED <<bindVars, readVars, recvVars, refVars, irpVars, curVars, cancelPc>>

TransferDataComplete(p) ==
    /\ pc[p] = "transfer"
    /\ \/ /\ Goto(p, "rcvRef")
          /\ UNCHANGED pktVars
       \/ /\ FreeReceivePacket(p)
          /\ Goto(p, "done")
    /\ UNCHANGED <<bindVars, readVars, recvVars, refVars, irpVars, curVars, cancelPc>>

QueueReceivePacketRef(p) ==
    /\ pc[p] = "rcvRef"
    /\ RefOpen
    /\ Goto(p, "rcvLock")
    /\ UNCHANGED <<bindVars, readVars, recvVars, irpVars, pktVars, curVars, cancelPc>>

\* Above the water mark the head of the queue is discarded in the same
\* critical section.
QueueReceivePacket(p) ==
    /\ pc[p] = "rcvLock" /\ IsBound /\ powerOn
    /\ LET queue == Append(RecvPktQueue, p)
       IN  IF IsTooLong(RecvPktCount + 1)
             THEN /\ RecvPktQueue' = Tail(queue)
                  /\ RecvPktCount' = RecvPktCount
                  /\ curPkt' = [curPkt EXCEPT ![p] = Head(queue)]
                  /\ Goto(p, "rcvDiscard")
             ELSE /\ RecvPktQueue' = queue
                  /\ RecvPktCount' = RecvPktCount + 1
                  /\ UNCHANGED curPkt
                  /\ Goto(p, "svcRef")
    /\ UNCHANGED <<bindVars, readVars, refVars, irpVars, pktVars, curIrp, cancelPc>>

\* Not bound, or powered down: the packet itself is dropped.
RefuseReceivePacket(p) ==
    /\ pc[p] = "rcvLock" /\ ~(IsBound /\ powerOn)
    /\ curPkt' = [curPkt EXCEPT ![p] = p]
    /\ Goto(p, "rcvDrop")
    /\ UNCHANGED <<bindVars, readVars, recvVars, refVars, irpVars, pktVars, curIrp, cancelPc>>

DiscardFree(p) ==
    /\ pc[p] \in {"rcvDiscard", "rcvDrop"}
    /\ FreeReceivePacket(curPkt[p])
    /\ Goto(p, IF pc[p] = "rcvDrop" THEN "rcvDropDeref" ELSE "rcvDiscardDeref")
    /\ UNCHANGED <<bindVars, readVars, recvVars, refVars, irpVars, curVars, cancelPc>>

DiscardDeref(p) ==
    /\ pc[p] \in {"rcvDiscardDeref", "rcvDropDeref"}
    /\ DerefOpen
    /\ curPkt' = [curPkt EXCEPT ![p] = None]
    /\ Goto(p, IF pc[p] = "rcvDropDeref" THEN "done" ELSE "svcRef")
    /\ UNCHANGED <<bindVars, readVars, recvVars, irpVars, pktVars, curIrp, cancelPc>>

Receive(p) ==
    \/ TransferDataComplete(p) \/ QueueReceivePacketRef(p) \/ QueueReceivePacket(p)
    \/ RefuseReceivePacket(p) \/ DiscardFree(p) \/ DiscardDeref(p)

-----------------------------------------------------------------------------
(* ndisprotCancelPendingReads, run by Cleanup and by ndisprotWaitForPendingIO.*)

CancelPendingRef(t) ==
    /\ pc[t] = "cprRef"
    /\ RefOpen
    /\ Goto(t, "cprLock")
    /\ UNCHANGED <<bindVars, readVars, recvVars, irpVars, pktVars, curVars, cancelPc>>

\* One turn of the loop.  While the head of the queue is being cancelled the
\* routine sleeps and looks again: no step is enabled.
CancelPendingTurn(t) ==
    \/ /\ PendedReads # <<>> /\ irpRoutine[Head(PendedReads)]
       /\ irpRoutine' = [irpRoutine EXCEPT ![Head(PendedReads)] = FALSE]
       /\ curIrp' = [curIrp EXCEPT ![t] = Head(PendedReads)]
       /\ PendedReads' = Tail(PendedReads)
       /\ Goto(t, "cprComplete")
    \/ /\ PendedReads = <<>>
       /\ Goto(t, "cprDerefTemp")
       /\ UNCHANGED <<PendedReads, irpRoutine, curIrp>>

CancelPendingFirst(t) ==
    /\ pc[t] = "cprLock"
    /\ CancelPendingTurn(t)
    /\ UNCHANGED <<bindVars, PendedReadCount, recvVars, refVars, irpCancel, irpStatus,
                   irpData, pktVars, curPkt, cancelPc>>

CancelPendingComplete(t) ==
    /\ pc[t] = "cprComplete"
    /\ Complete(curIrp[t], "CANCELLED")
    /\ Goto(t, "cprDeref")
    /\ UNCHANGED <<bindVars, readVars, recvVars, refVars, irpRoutine, irpCancel,
                   irpData, pktVars, curVars, cancelPc>>

CancelPendingDeref(t) ==
    /\ pc[t] = "cprDeref"
    /\ DerefOpen
    /\ curIrp' = [curIrp EXCEPT ![t] = None]
    /\ Goto(t, "cprRelock")
    /\ UNCHANGED <<bindVars, readVars, recvVars, irpVars, pktVars, curPkt, cancelPc>>


\* (A mutant) the read is never counted out.
CancelPendingUncounted(t) ==
    /\ pc[t] = "cprRelock"
    /\ Goto(t, "cprLock")
    /\ UNCHANGED <<bindVars, readVars, recvVars, refVars, irpVars, pktVars, curVars, cancelPc>>

\* The read stops counting as pended in the critical section that takes the
\* next turn; if that turn has to sleep, the next one finds it counted out.
CancelPendingAgain(t) ==
    /\ pc[t] = "cprRelock"
    /\ PendedReadCount' = PendedReadCount - 1
    /\ \/ CancelPendingTurn(t)
       \/ /\ PendedReads # <<>> /\ ~irpRoutine[Head(PendedReads)]
          /\ Goto(t, "cprLock")
          /\ UNCHANGED <<PendedReads, irpRoutine, curIrp>>
    /\ UNCHANGED <<bindVars, recvVars, refVars, irpCancel, irpStatus, irpData,
                   pktVars, curPkt, cancelPc>>

CancelPendingReturn(t) ==
    /\ pc[t] = "cprDerefTemp"
    /\ DerefOpen
    /\ Goto(t, IF t = "cleanup" THEN "flRef" ELSE "waitReads")
    /\ UNCHANGED <<bindVars, readVars, recvVars, irpVars, pktVars, curVars, cancelPc>>

CancelPendingReads(t) ==
    \/ CancelPendingRef(t) \/ CancelPendingFirst(t) \/ CancelPendingComplete(t)
    \/ CancelPendingDeref(t) \/ CancelPendingAgain(t) \/ CancelPendingReturn(t)

-----------------------------------------------------------------------------
(* ndisprotFlushReceiveQueue, run by Cleanup, power-down and Unbind.        *)

FlushRef(t) ==
    /\ pc[t] = "flRef"
    /\ RefOpen
    /\ Goto(t, "flLock")
    /\ UNCHANGED <<bindVars, readVars, recvVars, irpVars, pktVars, curVars, cancelPc>>

\* (A mutant) the packet is freed but stays linked.
FlushKeepsEntry(t) ==
    /\ pc[t] = "flLock"
    /\ IF RecvPktQueue # <<>>
         THEN curPkt' = [curPkt EXCEPT ![t] = Head(RecvPktQueue)] /\ Goto(t, "flFree")
         ELSE Goto(t, "flDerefTemp") /\ UNCHANGED curPkt
    /\ UNCHANGED <<bindVars, readVars, recvVars, refVars, irpVars, pktVars, curIrp, cancelPc>>

FlushTurn(t) ==
    /\ pc[t] = "flLock"
    /\ \/ /\ RecvPktQueue # <<>>
          /\ curPkt' = [curPkt EXCEPT ![t] = Head(RecvPktQueue)]
          /\ RecvPktQueue' = Tail(RecvPktQueue)
          /\ RecvPktCount' = RecvPktCount - 1
          /\ Goto(t, "flFree")
       \/ /\ RecvPktQueue = <<>>
          /\ Goto(t, "flDerefTemp")
          /\ UNCHANGED <<recvVars, curPkt>>
    /\ UNCHANGED <<bindVars, readVars, refVars, irpVars, pktVars, curIrp, cancelPc>>

FlushFree(t) ==
    /\ pc[t] = "flFree"
    /\ FreeReceivePacket(curPkt[t])
    /\ Goto(t, "flDeref")
    /\ UNCHANGED <<bindVars, readVars, recvVars, refVars, irpVars, curVars, cancelPc>>

FlushDeref(t) ==
    /\ pc[t] = "flDeref"
    /\ DerefOpen
    /\ curPkt' = [curPkt EXCEPT ![t] = None]
    /\ Goto(t, "flLock")
    /\ UNCHANGED <<bindVars, readVars, recvVars, irpVars, pktVars, curIrp, cancelPc>>

\* Back to NdisProtCleanup, to ndisprotShutdownBinding or to the power event.
FlushReturn(t) ==
    /\ pc[t] = "flDerefTemp"
    /\ DerefOpen
    /\ Goto(t, IF t = "cleanup" THEN "closing"
               ELSE IF bindState = "CLOSING" THEN "closeAdapter" ELSE "idle")
    /\ UNCHANGED <<bindVars, readVars, recvVars, irpVars, pktVars, curVars, cancelPc>>

FlushReceiveQueue(t) ==
    \/ FlushRef(t) \/ FlushTurn(t) \/ FlushFree(t) \/ FlushDeref(t) \/ FlushReturn(t)

-----------------------------------------------------------------------------
(* NdisProtCleanup and NdisProtClose for the one file object.               *)

\* The last handle goes: pFileObject is cleared, then reads are cancelled
\* and the queue is flushed.  Neither part is undone or repeated later.
Cleanup ==
    /\ pc["cleanup"] = "idle"
    /\ fileState' = "cleanup"
    /\ Goto("cleanup", "cprRef")
    /\ UNCHANGED <<bindState, powerOn, BindingHandle, RecvPacketPool, readVars,
                   recvVars, refVars, irpVars, pktVars, curVars, cancelPc>>

\* Every IRP that has not been completed references the file object, and so
\* may the thread in a dispatch routine.
FileReferenced(r) ==
    \/ irpStatus[r] \in {"dispatched", "pending"}
    \/ DispatchPinsFile /\ pc[r] \notin {"idle", "done"}

Close ==
    /\ pc["cleanup"] = "closing"
    /\ \A r \in Reads : ~FileReferenced(r)
    /\ DerefOpen
    /\ fileState' = "closed"
    /\ Goto("cleanup", "done")
    /\ UNCHANGED <<bindState, powerOn, BindingHandle, RecvPacketPool, readVars,
                   recvVars, irpVars, pktVars, curVars, cancelPc>>

-----------------------------------------------------------------------------
(* NdisProtPnPEventHandler, and NdisProtUnbindAdapter with the parts of      *)
(* ndisprotShutdownBinding and ndisprotWaitForPendingIO that concern         *)
(* receives.                                                                 *)

PowerDown ==
    /\ pc["pnp"] = "idle" /\ powerOn
    /\ powerOn' = FALSE
    /\ Goto("pnp", "flRef")
    /\ UNCHANGED <<bindState, BindingHandle, RecvPacketPool, fileState, readVars,
                   recvVars, refVars, irpVars, pktVars, curVars, cancelPc>>

PowerUp ==
    /\ pc["pnp"] = "idle" /\ ~powerOn
    /\ powerOn' = TRUE
    /\ UNCHANGED <<bindState, BindingHandle, RecvPacketPool, fileState, readVars,
                   recvVars, refVars, irpVars, pktVars, curVars, pc, cancelPc>>

Unbind ==
    /\ pc["pnp"] = "idle"
    /\ bindState' = "CLOSING"
    /\ Goto("pnp", "waitReads")
    /\ UNCHANGED <<powerOn, BindingHandle, RecvPacketPool, fileState, readVars,
                   recvVars, refVars, irpVars, pktVars, curVars, cancelPc>>

\* PendedReadCount is read without the lock.
WaitForPendingReads ==
    /\ pc["pnp"] = "waitReads"
    /\ Goto("pnp", IF PendedReadCount # 0 THEN "cprRef" ELSE "flRef")
    /\ UNCHANGED <<bindVars, readVars, recvVars, refVars, irpVars, pktVars,
                   curVars, cancelPc>>

\* NDIS completes NdisCloseAdapter when no indication and no transfer of the
\* binding is in progress, and starts none afterwards.
CloseAdapter ==
    /\ pc["pnp"] = "closeAdapter"
    /\ \A p \in Packets : pc[p] \in {"idle", "done"}
    /\ BindingHandle' = FALSE
    /\ Goto("pnp", "setIdle")
    /\ UNCHANGED <<bindState, powerOn, RecvPacketPool, fileState, readVars, recvVars,
                   refVars, irpVars, pktVars, curVars, cancelPc>>

SetBindIdle ==
    /\ pc["pnp"] = "setIdle"
    /\ bindState' = "IDLE"
    /\ Goto("pnp", "freePools")
    /\ UNCHANGED <<powerOn, BindingHandle, RecvPacketPool, fileState, readVars,
                   recvVars, refVars, irpVars, pktVars, curVars, cancelPc>>

FreeBindResources ==
    /\ pc["pnp"] = "freePools"
    /\ RecvPacketPool' = FALSE
    /\ Goto("pnp", "bindDeref")
    /\ UNCHANGED <<bindState, powerOn, BindingHandle, fileState, readVars, recvVars,
                   refVars, irpVars, pktVars, curVars, cancelPc>>

ShutdownReturn ==
    /\ pc["pnp"] = "bindDeref"
    /\ DerefOpen
    /\ Goto("pnp", "done")
    /\ UNCHANGED <<bindVars, readVars, recvVars, irpVars, pktVars, curVars, cancelPc>>

ShutdownBinding ==
    \/ WaitForPendingReads \/ CloseAdapter \/ SetBindIdle
    \/ FreeBindResources \/ ShutdownReturn

-----------------------------------------------------------------------------
ReadThread(r) == PendRead(r) \/ FailRead(r) \/ ServiceReads(r)

PacketThread(p) == Receive(p) \/ ServiceReads(p)

CleanupThread ==
    CancelPendingReads("cleanup") \/ FlushReceiveQueue("cleanup") \/ Close

PnPThread ==
    CancelPendingReads("pnp") \/ FlushReceiveQueue("pnp") \/ ShutdownBinding

\* What clients, the I/O manager and NDIS may start and need not.
Environment ==
    \/ \E r \in Reads : SubmitRead(r) \/ CancelIrp(r)
    \/ \E p \in Packets : IndicateMiniportPacket(p) \/ IndicateCopy(p)
    \/ Cleanup \/ PowerDown \/ PowerUp \/ Unbind

Next ==
    \/ Environment
    \/ \E r \in Reads : ReadThread(r) \/ CancelRead(r)
    \/ \E p \in Packets : PacketThread(p)
    \/ CleanupThread
    \/ PnPThread

Spec == Init /\ [][Next]_vars

\* A thread inside the driver is scheduled again: the spin lock is held for
\* a bounded time, and a pended transfer is completed by the miniport.
Fairness ==
    /\ \A r \in Reads : WF_vars(ReadThread(r)) /\ WF_vars(CancelRead(r))
    /\ \A p \in Packets : WF_vars(PacketThread(p))
    /\ WF_vars(CleanupThread)
    /\ WF_vars(PnPThread)

FairSpec == Spec /\ Fairness

-----------------------------------------------------------------------------
(* Types.                                                                   *)

ServiceLabels == {"svcRef", "svcLock", "svcDerefPkt", "svcComplete", "svcFree",
                  "svcDerefRead", "svcRelock", "svcDerefTemp"}
CancelPendingLabels == {"cprRef", "cprLock", "cprComplete", "cprDeref",
                        "cprRelock", "cprDerefTemp"}
FlushLabels == {"flRef", "flLock", "flFree", "flDeref", "flDerefTemp"}

\* Where a thread may be, given what it was started for.
Labels(t) ==
    IF t \in Reads THEN ServiceLabels \cup {"idle", "rdLock", "done"}
    ELSE IF t \in Packets THEN ServiceLabels \cup
        {"idle", "transfer", "rcvRef", "rcvLock", "rcvDiscard", "rcvDrop",
         "rcvDiscardDeref", "rcvDropDeref", "done"}
    ELSE IF t = "cleanup" THEN CancelPendingLabels \cup FlushLabels \cup
        {"idle", "closing", "done"}
    ELSE CancelPendingLabels \cup FlushLabels \cup
        {"idle", "waitReads", "closeAdapter", "setIdle", "freePools", "bindDeref", "done"}

ContextTypeOK ==
    /\ bindState \in {"ACTIVE", "CLOSING", "IDLE"}
    /\ powerOn \in BOOLEAN /\ BindingHandle \in BOOLEAN /\ RecvPacketPool \in BOOLEAN
    /\ fileState \in {"open", "cleanup", "closed"}
    /\ PendedReads \in Seq(Reads) /\ PendedReadCount \in Int
    /\ RecvPktQueue \in Seq(Packets) /\ RecvPktCount \in Int
    /\ RefCount \in Int /\ freed \in BOOLEAN

DataTypeOK ==
    /\ irpRoutine \in [Reads -> BOOLEAN] /\ irpCancel \in [Reads -> BOOLEAN]
    /\ irpStatus \in [Reads -> {"unsent", "dispatched", "pending", "SUCCESS",
                                "CANCELLED", "FAILED"}]
    /\ irpData \in [Reads -> Packets \cup {None}]
    /\ pktHome \in [Packets -> {"none", "local", "miniport"}]
    /\ pktState \in [Packets -> {"absent", "ours", "freed", "returned"}]

ThreadTypeOK ==
    /\ curIrp \in [Agents -> Reads \cup {None}]
    /\ curPkt \in [Agents -> Packets \cup {None}]
    /\ cancelPc \in [Reads -> {"idle", "lock", "complete", "deref", "done"}]

LabelsOK ==
    /\ pc \in [Agents -> UNION {Labels(t) : t \in Agents}]
    /\ \A t \in Agents : pc[t] \in Labels(t)

\* Every variable has its type, and every thread is in a routine that it can
\* have called: ndisprotCancelPendingReads and ndisprotFlushReceiveQueue
\* return to the caller they were called by.
TypeOK == ContextTypeOK /\ DataTypeOK /\ ThreadTypeOK /\ LabelsOK

-----------------------------------------------------------------------------
(* Ownership.                                                               *)

\* Threads between a temporary reference on the context and its release.
TempLabels == (ServiceLabels \cup CancelPendingLabels \cup FlushLabels)
                  \ {"svcRef", "cprRef", "flRef"}

\* Where a thread still has to complete the IRP it took off PendedReads.
OwnsIrp(t) == pc[t] \in {"svcDerefPkt", "svcComplete", "cprComplete"}

\* Where a thread has taken a read that PendedReadCount still counts.
CountsARead(t) == pc[t] \in {"svcDerefPkt", "svcComplete", "svcFree", "svcDerefRead",
                             "svcRelock", "cprComplete", "cprDeref", "cprRelock"}

\* Where a thread still has to dispose of the packet in curPkt.
OwnsPacket(t) == pc[t] \in {"svcDerefPkt", "svcComplete", "svcFree", "rcvDiscard",
                            "rcvDrop", "flFree"}

\* Where the reference taken for the packet in curPkt is still held.
HoldsPacketRef(t) == pc[t] \in {"svcDerefPkt", "rcvDiscard", "rcvDrop",
                                "rcvDiscardDeref", "rcvDropDeref", "flFree", "flDeref"}

\* Who must complete read r: the queue, a thread, or its cancel routine.
ReadOwners(r) ==
    {<<"queue", i>> : i \in {j \in 1 .. Len(PendedReads) : PendedReads[j] = r}}
    \cup {<<"thread", t>> : t \in {u \in Agents : OwnsIrp(u) /\ curIrp[u] = r}}
    \cup {<<"cancel", c>> : c \in {q \in {r} : cancelPc[q] = "complete"}}

\* Who must give packet p back: its indication before it is queued, the
\* queue, or a thread that took it off the queue.
PacketOwners(p) ==
    {<<"queue", i>> : i \in {j \in 1 .. Len(RecvPktQueue) : RecvPktQueue[j] = p}}
    \cup {<<"thread", t>> : t \in {u \in Agents : OwnsPacket(u) /\ curPkt[u] = p}}
    \cup {<<"arrival", q>> : q \in {u \in {p} : pc[u] \in {"transfer", "rcvRef", "rcvLock"}}}

\* The reasons for a reference: ndisprot.h's list of long-lived ones (an
\* open file, the binding, pended reads, queued packets) and each routine's
\* temporary one.
Holders ==
    {<<"open", f>> : f \in {g \in {"file"} : fileState # "closed"}}
    \cup {<<"binding", b>> : b \in {g \in {"pnp"} : pc[g] # "done"}}
    \cup {<<"read", r>> : r \in
            {q \in Reads : \/ \E i \in 1 .. Len(PendedReads) : PendedReads[i] = q
                           \/ \E t \in Agents : curIrp[t] = q
                           \/ cancelPc[q] \in {"complete", "deref"}}}
    \cup {<<"packet", p>> : p \in
            {q \in Packets : \/ \E i \in 1 .. Len(RecvPktQueue) : RecvPktQueue[i] = q
                             \/ \E t \in Agents : curPkt[t] = q /\ HoldsPacketRef(t)
                             \/ pc[q] = "rcvLock"}}
    \cup {<<"temp", t>> : t \in {u \in Agents : pc[u] \in TempLabels}}

-----------------------------------------------------------------------------
(* Safety.                                                                  *)

\* RefCount is the number of the reasons above: no path through read,
\* service, cancel, discard, flush or shutdown leaks or over-drops one.
RefCountIsExact == RefCount = Cardinality(Holders)

\* A read the driver marked pending has exactly one owner, and one it has
\* completed has none: it is neither lost nor completed twice however the
\* service routine, NdisProtCancelRead and ndisprotCancelPendingReads race
\* for its cancel routine.
PendingReadHasOneOwner ==
    \A r \in Reads : Cardinality(ReadOwners(r)) = IF irpStatus[r] = "pending" THEN 1 ELSE 0

\* The same of packets: ndisprotFreeReceivePacket or NdisReturnPackets is
\* called once for each packet the driver took, by whoever dequeued it.
PacketHasOneOwner ==
    \A p \in Packets : Cardinality(PacketOwners(p)) = IF pktState[p] = "ours" THEN 1 ELSE 0

\* A cancel routine that the I/O manager calls finds its IRP on PendedReads:
\* whoever takes an IRP off the queue has taken the routine away first.
CancelRoutineFindsRead ==
    \A r \in Reads : cancelPc[r] = "lock" => \E i \in 1 .. Len(PendedReads) : PendedReads[i] = r

\* PendedReadCount, which Unbind polls without the lock, counts a read until
\* the thread that took it is back under the lock, so that Unbind goes on
\* only when every read has been completed and its packet released.
PendedReadCountIsExact ==
    PendedReadCount = Len(PendedReads) + Cardinality({t \in Agents : CountsARead(t)})

\* Both counts that others wait for, or free the context by, are exact at every
\* step of reads, cancellations, indications, drains and shutdown.
CountsAreExact == RefCountIsExact /\ PendedReadCountIsExact

\* MAX_RECV_QUEUE_SIZE bounds the queue in every state another thread sees.
RecvQueueIsBounded ==
    RecvPktCount = Len(RecvPktQueue) /\ RecvPktCount <= MaxRecvQueueSize

\* A packet never sits on the queue beside a read that could take it unless
\* some thread is on its way through ndisprotServiceReads: no wakeup is lost
\* between NdisProtRead and ndisprotQueueReceivePacket.
NoStrandedWork ==
    (RecvPktQueue # <<>> /\ \E i \in 1 .. Len(PendedReads) : irpRoutine[PendedReads[i]])
        => \E t \in Agents : /\ pc[t] # "svcDerefTemp"
                             /\ pc[t] \in ServiceLabels \cup {"rcvDiscard", "rcvDiscardDeref"}

\* Once ndisprotFreeBindResources has run, no read is pended and no packet
\* queued, and none will be: Unbind drained what came before it and the
\* binding state turned away what came after.
NothingQueuedAfterUnbind ==
    ~RecvPacketPool => PendedReads = <<>> /\ RecvPktQueue = <<>>

\* The asserts of ndisprotDerefOpen, and the reason for the count: the
\* context is freed only when the binding and the file are gone and no
\* routine, on any thread, is still to touch it.
NoUseAfterFree ==
    freed => /\ ~BindingHandle /\ fileState = "closed"
             /\ \A t \in Agents : pc[t] \in {"idle", "done"}
             /\ \A r \in Reads : cancelPc[r] \in {"idle", "done"}

-----------------------------------------------------------------------------
(* Refinement.  A read waits from the moment NdisProtRead queues it until    *)
(* some thread, or the I/O manager for the sake of IoCancelIrp, takes its    *)
(* cancel routine away; what happens to it later follows from who did.       *)

Matches(t) == pc[t] \in {"svcDerefPkt", "svcComplete"}

TakenBy(r) == {t \in Agents : Matches(t) /\ curIrp[t] = r}

Outcome(r) ==
    CASE irpStatus[r] \in {"unsent", "dispatched"} -> "unsent"
      [] irpStatus[r] = "FAILED"                   -> "failed"
      [] irpStatus[r] = "SUCCESS"                  -> irpData[r]
      [] irpStatus[r] = "CANCELLED"                -> "cancelled"
      [] irpStatus[r] = "pending"                  ->
            IF irpRoutine[r] THEN "waiting"
            ELSE IF TakenBy(r) = {} THEN "cancelled"
            ELSE curPkt[CHOOSE t \in TakenBy(r) : TRUE]

\* A packet that its indication has not brought to the queue yet.
IsNew(p) == pc[p] \in {"idle", "transfer", "rcvRef", "rcvLock"}

Fate(p) ==
    IF Contains(RecvPktQueue, p) THEN "buffered"
    ELSE IF \E r \in Reads : Outcome(r) = p THEN "delivered"
    ELSE IF IsNew(p) THEN "new"
    ELSE "lost"

Outcomes == [r \in Reads |-> Outcome(r)]

Fates == [p \in Packets |-> Fate(p)]

\* The reads that wait, and the pairs of them in the order of PendedReads,
\* where reads that are being cancelled may still stand between them.
Waiting == {r \in Reads : irpRoutine[r] /\ Contains(PendedReads, r)}

Ahead == {d \in Waiting \X Waiting :
              \E j \in 1 .. Len(PendedReads) : \E i \in 1 .. (j - 1) :
                  PendedReads[i] = d[1] /\ PendedReads[j] = d[2]}

Delivery == INSTANCE PacketDelivery WITH
    Capacity <- MaxRecvQueueSize,
    waiting  <- Waiting,
    ahead    <- Ahead,
    buffer   <- RecvPktQueue,
    outcome  <- Outcomes,
    fate     <- Fates

\* Whatever the interleaving, a reader sees the bounded first-in first-out
\* buffer of PacketDelivery: reads and packets are married in the order both
\* came, none is given out twice, and only the oldest packet is dropped.
ImplementsDeliverySafely == Delivery!SafeSpec

\* The same, and a match that is possible is made in the end.
ImplementsDelivery == Delivery!Spec

-----------------------------------------------------------------------------
(* Liveness.                                                                *)

\* NdisProtUnbindAdapter returns: its wait for pended reads, its flush and
\* NdisCloseAdapter end, whatever reads, cancels and packets are under way.
UnbindCompletes == pc["pnp"] = "waitReads" ~> pc["pnp"] = "done"

\* NdisProtCleanup returns.
CleanupCompletes == fileState = "cleanup" ~> pc["cleanup"] \in {"closing", "done"}

\* Unbind completes every read that was pended on the binding.
UnbindCompletesReads ==
    \A r \in Reads :
        (bindState = "CLOSING" /\ irpStatus[r] = "pending") ~> irpStatus[r] \in {"SUCCESS", "CANCELLED"}

\* Whatever reads, cancellations and packets are under way, Unbind and Cleanup
\* both return, and Unbind leaves no read behind.
TeardownCompletes == UnbindCompletes /\ CleanupCompletes /\ UnbindCompletesReads

-----------------------------------------------------------------------------
(* What the comments say and the code does not do.                          *)

\* ndisprot.h:52-54: data that arrives with no read pended is queued "to the
\* extent of one packet".  MAX_RECV_QUEUE_SIZE is 4.
AtMostOnePacketQueued == RecvPktCount <= 1

\* recv.c:955-957: "If this is a local copy, free the packet to our receive
\* pool, else return this to the miniport".  The pool that tells the two
\* apart may be gone when a flush gets to the packet it dequeued.
LocalCopyIsFreed ==
    \A p \in Packets : pktHome[p] = "local" => pktState[p] # "returned"

\* recv.c:125-128: NdisProtCancelRead unlinks and completes a read that is
\* cancelled.  It is never called for one cancelled on its way to the queue.
CancelledReadCompletes ==
    \A r \in Reads : (irpCancel[r] /\ irpStatus[r] = "pending") ~> irpStatus[r] # "pending"

\* ntdisp.c:457-460, Cleanup: "Cancel any pending reads."  One whose dispatch
\* routine gets the lock after the sweep stays pended on a handle that is gone.
CleanupLeavesNoRead == pc["cleanup"] = "closing" => PendedReads = <<>>
=============================================================================
