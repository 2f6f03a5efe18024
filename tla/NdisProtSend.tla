---------------------------- MODULE NdisProtSend ----------------------------
(***************************************************************************)
(* The send side of one NDISPROT_OPEN_CONTEXT: NdisProtWrite, the send      *)
(* completion, the cancel routine of a write (in a build with NDIS51), and  *)
(* the Close and Unbind that wait for them.                                 *)
(*                                                                          *)
(* Agents.  pc[w] is the thread in the dispatch routine of write w, scPc[w] *)
(* the NDIS thread in NdisProtSendComplete for its packet, cancelPc[w] the  *)
(* one in NdisProtCancelWrite, pnpPc the one in NdisProtUnbindAdapter.      *)
(* A step is one critical section of the context's lock, or one operation   *)
(* outside of it on something shared.                                       *)
(***************************************************************************)
EXTENDS Integers, FiniteSets

CONSTANT Writes     \* write IRPs, and the one packet each of them allocates

ASSUME WritesAssumption == IsFiniteSet(Writes)

VARIABLES
    NDIS51,     \* is it defined for the build?  The committed one does not.
    \* the open context and its file object
    bindState, BindingHandle, SendPacketPool, RefCount, freed,
    PendedWrites, PendedSendCount, fileState,
    \* IRPs
    irpStatus, irpRoutine, irpCancel,
    \* packets: the memory, our RefCount in it, and what NDIS does with it
    pktState, pktRefs, ndis,
    \* threads
    pc, scPc, cancelPc, pnpPc

bindVars == <<NDIS51, bindState, BindingHandle, SendPacketPool, fileState>>
refVars  == <<RefCount, freed>>
sendVars == <<PendedWrites, PendedSendCount>>
irpVars  == <<irpStatus, irpRoutine, irpCancel>>
pktVars  == <<pktState, pktRefs>>
pcVars   == <<pc, scPc, cancelPc, pnpPc>>

vars == <<bindVars, refVars, sendVars, irpVars, pktVars, ndis, pcVars>>

Init ==
    /\ NDIS51 \in BOOLEAN
    /\ bindState = "ACTIVE" /\ BindingHandle = TRUE /\ SendPacketPool = TRUE
    /\ fileState = "open"
    /\ RefCount = 2                     \* the binding and the open file
    /\ freed = FALSE
    /\ PendedWrites = {} /\ PendedSendCount = 0
    /\ irpStatus = [w \in Writes |-> "unsent"]
    /\ irpRoutine = [w \in Writes |-> FALSE]
    /\ irpCancel = [w \in Writes |-> FALSE]
    /\ pktState = [w \in Writes |-> "none"]
    /\ pktRefs = [w \in Writes |-> 0]
    /\ ndis = [w \in Writes |-> "none"]
    /\ pc = [w \in Writes |-> "idle"]
    /\ scPc = [w \in Writes |-> "idle"]
    /\ cancelPc = [w \in Writes |-> "idle"]
    /\ pnpPc = "idle"

-----------------------------------------------------------------------------
Goto(w, label)       == pc' = [pc EXCEPT ![w] = label] /\ UNCHANGED <<scPc, cancelPc, pnpPc>>
GotoSc(w, label)     == scPc' = [scPc EXCEPT ![w] = label] /\ UNCHANGED <<pc, cancelPc, pnpPc>>
GotoCancel(w, label) == cancelPc' = [cancelPc EXCEPT ![w] = label] /\ UNCHANGED <<pc, scPc, pnpPc>>
GotoPnp(label)       == pnpPc' = label /\ UNCHANGED <<pc, scPc, cancelPc>>

\* ndisprotRefOpen, ndisprotDerefOpen
RefOpen   == RefCount' = RefCount + 1 /\ UNCHANGED freed
DerefOpen == RefCount' = RefCount - 1 /\ freed' = (freed \/ RefCount = 1)

\* IoCompleteRequest
Complete(w, status) == irpStatus' = [irpStatus EXCEPT ![w] = status]

\* NPROT_DEREF_SEND_PKT
DerefPacket(w) ==
    /\ pktRefs' = [pktRefs EXCEPT ![w] = @ - 1]
    /\ pktState' = [pktState EXCEPT ![w] = IF pktRefs[w] = 1 THEN "freed" ELSE @]

-----------------------------------------------------------------------------
(* NdisProtWrite.                                                           *)

SubmitWrite(w) ==
    /\ pc[w] = "idle" /\ fileState = "open"
    /\ Complete(w, "dispatched")
    /\ Goto(w, "wrLock")
    /\ UNCHANGED <<bindVars, refVars, sendVars, irpRoutine, irpCancel, pktVars, ndis>>

\* Not a frame of the device, no binding, or no packet descriptor.
FailWrite(w) ==
    /\ pc[w] = "wrLock"
    /\ Complete(w, "FAILED")
    /\ Goto(w, "done")
    /\ UNCHANGED <<bindVars, refVars, sendVars, irpRoutine, irpCancel, pktVars, ndis>>

\* The test of NUIOO_BIND_FLAGS, and (a mutant) one that a binding being
\* closed passes.
IsBoundOrClosing == bindState # "IDLE"

IsBound == bindState = "ACTIVE"

\* The packet, the counts and, with NDIS51, the queue and the cancel routine,
\* all under the lock.  The IRP may have been cancelled before.
PendWrite(w) ==
    /\ pc[w] = "wrLock" /\ IsBound
    /\ pktState' = [pktState EXCEPT ![w] = "allocated"]
    /\ pktRefs' = [pktRefs EXCEPT ![w] = 1]
    /\ PendedSendCount' = PendedSendCount + 1
    /\ RefOpen
    /\ Complete(w, "pending")
    /\ PendedWrites' = IF NDIS51 THEN PendedWrites \cup {w} ELSE PendedWrites
    /\ irpRoutine' = [irpRoutine EXCEPT ![w] = NDIS51]
    /\ Goto(w, "wrSend")
    /\ UNCHANGED <<bindVars, irpCancel, ndis>>

\* NdisSendPackets, with the binding handle read from the context
SendPacket(w) ==
    /\ pc[w] = "wrSend"
    /\ ndis' = [ndis EXCEPT ![w] = "sent"]
    /\ Goto(w, "done")
    /\ UNCHANGED <<bindVars, refVars, sendVars, irpVars, pktVars>>

WriteThread(w) == FailWrite(w) \/ PendWrite(w) \/ SendPacket(w)

-----------------------------------------------------------------------------
(* IoCancelIrp and NdisProtCancelWrite.                                     *)

CancelIrp(w) ==
    /\ irpStatus[w] \in {"dispatched", "pending"} /\ ~irpCancel[w]
    /\ irpCancel' = [irpCancel EXCEPT ![w] = TRUE]
    /\ irpRoutine' = [irpRoutine EXCEPT ![w] = FALSE]
    /\ IF irpRoutine[w] THEN GotoCancel(w, "lock") ELSE UNCHANGED pcVars
    /\ UNCHANGED <<bindVars, refVars, sendVars, irpStatus, pktVars, ndis>>

\* (A mutant) the packet is used without a reference.
CancelWriteUncounted(w) ==
    /\ cancelPc[w] = "lock"
    /\ GotoCancel(w, IF w \in PendedWrites THEN "cancel" ELSE "done")
    /\ UNCHANGED <<bindVars, refVars, sendVars, irpVars, pktVars, ndis>>

\* A write that is still queued has its packet referenced.
CancelWriteLookup(w) ==
    /\ cancelPc[w] = "lock"
    /\ \/ /\ w \in PendedWrites
          /\ pktRefs' = [pktRefs EXCEPT ![w] = @ + 1]
          /\ GotoCancel(w, "cancel")
       \/ w \notin PendedWrites /\ GotoCancel(w, "done") /\ UNCHANGED pktRefs
    /\ UNCHANGED <<bindVars, refVars, sendVars, irpVars, pktState, ndis>>

\* NdisCancelSendPackets cancels what NDIS has been given, and nothing else.
CancelWriteNdis(w) ==
    /\ cancelPc[w] = "cancel"
    /\ ndis' = [ndis EXCEPT ![w] = IF @ = "sent" THEN "cancelled" ELSE @]
    /\ GotoCancel(w, "deref")
    /\ UNCHANGED <<bindVars, refVars, sendVars, irpVars, pktVars>>

CancelWriteDeref(w) ==
    /\ cancelPc[w] = "deref"
    /\ DerefPacket(w)
    /\ GotoCancel(w, "done")
    /\ UNCHANGED <<bindVars, refVars, sendVars, irpVars, ndis>>

CancelWrite(w) == CancelWriteLookup(w) \/ CancelWriteNdis(w) \/ CancelWriteDeref(w)

-----------------------------------------------------------------------------
(* NdisProtSendComplete.                                                    *)

\* The miniport is done with a packet; one that was cancelled is given up.
MiniportCompletes(w) ==
    /\ ndis[w] \in {"sent", "cancelled"}
    /\ ndis' = [ndis EXCEPT ![w] = "completed"]
    /\ GotoSc(w, IF NDIS51 THEN "clear" ELSE "derefPkt")
    /\ UNCHANGED <<bindVars, refVars, sendVars, irpVars, pktVars>>

\* IoSetCancelRoutine: whether there was a routine to clear is not looked at.
SendCompleteClear(w) ==
    /\ scPc[w] = "clear"
    /\ irpRoutine' = [irpRoutine EXCEPT ![w] = FALSE]
    /\ GotoSc(w, "unlink")
    /\ UNCHANGED <<bindVars, refVars, sendVars, irpStatus, irpCancel, pktVars, ndis>>

SendCompleteUnlink(w) ==
    /\ scPc[w] = "unlink"
    /\ PendedWrites' = PendedWrites \ {w}
    /\ GotoSc(w, "derefPkt")
    /\ UNCHANGED <<bindVars, refVars, PendedSendCount, irpVars, pktVars, ndis>>

SendCompleteDerefPacket(w) ==
    /\ scPc[w] = "derefPkt"
    /\ DerefPacket(w)
    /\ GotoSc(w, "complete")
    /\ UNCHANGED <<bindVars, refVars, sendVars, irpVars, ndis>>

SendCompleteIrp(w) ==
    /\ scPc[w] = "complete"
    /\ \E status \in {"SUCCESS", "FAILED"} : Complete(w, status)
    /\ GotoSc(w, "count")
    /\ UNCHANGED <<bindVars, refVars, sendVars, irpRoutine, irpCancel, pktVars, ndis>>

\* (A mutant) the count of sends is left as it is.
SendCompleteUncounted(w) ==
    /\ scPc[w] = "count"
    /\ GotoSc(w, "deref")
    /\ UNCHANGED <<bindVars, refVars, sendVars, irpVars, pktVars, ndis>>

SendCompleteCount(w) ==
    /\ scPc[w] = "count"
    /\ PendedSendCount' = PendedSendCount - 1
    /\ GotoSc(w, "deref")
    /\ UNCHANGED <<bindVars, refVars, PendedWrites, irpVars, pktVars, ndis>>

\* (A mutant) the reference of the write is kept.
SendCompleteKeepsRef(w) ==
    /\ scPc[w] = "deref"
    /\ GotoSc(w, "done")
    /\ UNCHANGED <<bindVars, refVars, sendVars, irpVars, pktVars, ndis>>

SendCompleteDeref(w) ==
    /\ scPc[w] = "deref"
    /\ DerefOpen
    /\ GotoSc(w, "done")
    /\ UNCHANGED <<bindVars, sendVars, irpVars, pktVars, ndis>>

SendComplete(w) ==
    \/ SendCompleteClear(w) \/ SendCompleteUnlink(w) \/ SendCompleteDerefPacket(w)
    \/ SendCompleteIrp(w) \/ SendCompleteCount(w) \/ SendCompleteDeref(w)

-----------------------------------------------------------------------------
(* Cleanup and Close of the file object, and Unbind.                        *)

\* NdisProtCleanup does nothing about writes.
Cleanup ==
    /\ fileState = "open"
    /\ fileState' = "cleanup"
    /\ UNCHANGED <<NDIS51, bindState, BindingHandle, SendPacketPool, refVars, sendVars, irpVars,
                   pktVars, ndis, pcVars>>

\* Every IRP in the driver, and every dispatch routine, references the file.
FileReferenced(w) == irpStatus[w] \in {"dispatched", "pending"} \/ pc[w] \notin {"idle", "done"}

Close ==
    /\ fileState = "cleanup" /\ \A w \in Writes : ~FileReferenced(w)
    /\ fileState' = "closed"
    /\ DerefOpen
    /\ UNCHANGED <<NDIS51, bindState, BindingHandle, SendPacketPool, sendVars, irpVars, pktVars,
                   ndis, pcVars>>

Unbind ==
    /\ pnpPc = "idle"
    /\ bindState' = "CLOSING"
    /\ GotoPnp("wait")
    /\ UNCHANGED <<NDIS51, BindingHandle, SendPacketPool, fileState, refVars, sendVars, irpVars,
                   pktVars, ndis>>

\* The poll of PendedSendCount ends because it is zero.
WaitForPendingSends ==
    /\ pnpPc = "wait" /\ PendedSendCount = 0
    /\ GotoPnp("close")
    /\ UNCHANGED <<bindVars, refVars, sendVars, irpVars, pktVars, ndis>>

\* NDIS closes the adapter when the calls of NdisProtSendComplete are over.
CloseAdapter ==
    /\ pnpPc = "close"
    /\ \A w \in Writes : scPc[w] \in {"idle", "done"}
    /\ BindingHandle' = FALSE
    /\ GotoPnp("setIdle")
    /\ UNCHANGED <<NDIS51, bindState, SendPacketPool, fileState, refVars, sendVars, irpVars, pktVars, ndis>>

SetBindIdle ==
    /\ pnpPc = "setIdle"
    /\ bindState' = "IDLE"
    /\ GotoPnp("freePools")
    /\ UNCHANGED <<NDIS51, BindingHandle, SendPacketPool, fileState, refVars, sendVars, irpVars,
                   pktVars, ndis>>

FreeBindResources ==
    /\ pnpPc = "freePools"
    /\ SendPacketPool' = FALSE
    /\ GotoPnp("deref")
    /\ UNCHANGED <<NDIS51, bindState, BindingHandle, fileState, refVars, sendVars, irpVars, pktVars, ndis>>

ShutdownReturn ==
    /\ pnpPc = "deref"
    /\ DerefOpen
    /\ GotoPnp("done")
    /\ UNCHANGED <<bindVars, sendVars, irpVars, pktVars, ndis>>

ShutdownBinding ==
    WaitForPendingSends \/ CloseAdapter \/ SetBindIdle \/ FreeBindResources \/ ShutdownReturn

-----------------------------------------------------------------------------
Environment ==
    \/ \E w \in Writes : SubmitWrite(w) \/ CancelIrp(w) \/ MiniportCompletes(w)
    \/ Cleanup \/ Close \/ Unbind

Next ==
    \/ Environment
    \/ \E w \in Writes : WriteThread(w) \/ CancelWrite(w) \/ SendComplete(w)
    \/ ShutdownBinding

Spec == Init /\ [][Next]_vars

\* Threads inside the driver go on, and a send that NDIS was asked to cancel
\* is completed.
Fairness ==
    /\ \A w \in Writes :
          /\ WF_vars(WriteThread(w)) /\ WF_vars(CancelWrite(w)) /\ WF_vars(SendComplete(w))
          /\ WF_vars(ndis[w] = "cancelled" /\ MiniportCompletes(w))
    /\ WF_vars(ShutdownBinding)

FairSpec == Spec /\ Fairness

\* And the miniport completes every send in the end.
SendingSpec == FairSpec /\ \A w \in Writes : WF_vars(MiniportCompletes(w))

-----------------------------------------------------------------------------
\* Every variable has its type; only a build with NDIS51 queues writes and
\* runs cancel routines.
TypeOK ==
    /\ NDIS51 \in BOOLEAN /\ bindState \in {"ACTIVE", "CLOSING", "IDLE"}
    /\ BindingHandle \in BOOLEAN /\ SendPacketPool \in BOOLEAN
    /\ fileState \in {"open", "cleanup", "closed"}
    /\ RefCount \in Int /\ freed \in BOOLEAN /\ PendedSendCount \in Int
    /\ PendedWrites \subseteq (IF NDIS51 THEN Writes ELSE {})
    /\ irpStatus \in [Writes -> {"unsent", "dispatched", "pending", "SUCCESS", "FAILED"}]
    /\ irpRoutine \in [Writes -> BOOLEAN] /\ irpCancel \in [Writes -> BOOLEAN]
    /\ pktState \in [Writes -> {"none", "allocated", "freed"}]
    /\ pktRefs \in [Writes -> Int]
    /\ ndis \in [Writes -> {"none", "sent", "cancelled", "completed"}]
    /\ pc \in [Writes -> {"idle", "wrLock", "wrSend", "done"}]
    /\ scPc \in [Writes -> {"idle", "clear", "unlink", "derefPkt", "complete", "count", "deref", "done"}]
    /\ cancelPc \in [Writes -> IF NDIS51 THEN {"idle", "lock", "cancel", "deref", "done"}
                             ELSE {"idle"}]
    /\ pnpPc \in {"idle", "wait", "close", "setIdle", "freePools", "deref", "done"}

\* A write between its acceptance and the last act of its send completion.
IsOutstanding(w) == (pc[w] = "wrSend" \/ ndis[w] # "none") /\ scPc[w] # "done"

\* The references: the file, the binding, and every outstanding send.
Holders ==
    {<<"open", f>> : f \in {g \in {"file"} : fileState # "closed"}}
    \cup {<<"binding", b>> : b \in {g \in {"pnp"} : pnpPc # "done"}}
    \cup {<<"write", w>> : w \in {v \in Writes : IsOutstanding(v)}}

\* RefCount is the number of the reasons for a reference: an outstanding
\* write holds one whatever cancels it or closes its handle.
RefCountIsExact == RefCount = Cardinality(Holders)

\* Once ndisprotFreeBindResources has freed the send pool, no write has, or
\* can get, a packet of it; only a cancel routine may still hold one.
PoolOutlivesPackets ==
    ~SendPacketPool => \A w \in Writes : pktState[w] = "allocated" => cancelPc[w] \in {"cancel", "deref"}

\* NdisProtWrite sends, outside the lock in which it tested the binding, on a
\* handle that has not been closed since, and so does the miniport complete.
BindingOutlivesSends ==
    ~BindingHandle => \A w \in Writes : pc[w] # "wrSend" /\ ndis[w] \notin {"sent", "cancelled"}

\* The context is freed only when no thread is still to touch it, and neither
\* the binding nor the file is left.
NoUseAfterFree ==
    freed => /\ ~BindingHandle /\ fileState = "closed"
             /\ \A w \in Writes : pc[w] \in {"idle", "done"} /\ scPc[w] \in {"idle", "done"}

\* What a write uses outlives it, although it uses it outside the lock and
\* gives back its count and its reference only after the IRP is completed: the
\* packet pool, the binding and the context.
SendIsOutlived == PoolOutlivesPackets /\ BindingOutlivesSends /\ NoUseAfterFree

\* The packet that NdisProtCancelWrite works on is not freed under it, should
\* the send complete meanwhile.
CancelledPacketIsHeld ==
    \A w \in Writes : cancelPc[w] \in {"cancel", "deref"} => pktState[w] = "allocated"

\* NdisProtUnbindAdapter returns, with writes in progress.
UnbindCompletes == pnpPc = "wait" ~> pnpPc = "done"

\* Every write is completed, and its handle can be closed.
WritesComplete == \A w \in Writes : pc[w] = "wrLock" ~> irpStatus[w] \in {"SUCCESS", "FAILED"}

\* Neither waits for the other for ever: Unbind waits for the count of sends,
\* which every path of a write must bring back.
CallsReturn == UnbindCompletes /\ WritesComplete

-----------------------------------------------------------------------------
(* What the comments say and the code does not do.                          *)

\* send.c:323-324: after NdisCancelSendPackets "our SendComplete handler will
\* be called"; ndisprot.h:62-63: write IRPs can be cancelled.  The call may
\* come before NdisSendPackets, or there may be no cancel routine at all.
CancelledWriteCompletes ==
    \A w \in Writes : (irpCancel[w] /\ irpStatus[w] = "pending") ~> irpStatus[w] # "pending"

\* send.c:297-298: the packet "won't get freed/reused until we are done with
\* it".  Unbind waits for sends, not for the cancel routine, and frees the pool.
CancelledPacketHasPool ==
    \A w \in Writes : cancelPc[w] \in {"cancel", "deref"} => SendPacketPool

\* send.c:282-284: the cancel routine looks for the IRP in the queue because
\* the send completion "might have removed it".  It reads the IRP, and takes
\* the context's lock, to find out, when both may be gone.
CancelRoutineHasIrp ==
    \A w \in Writes : cancelPc[w] = "lock" => irpStatus[w] = "pending" /\ ~freed
=============================================================================
