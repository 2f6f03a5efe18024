--------------------------- MODULE NdisProtStatus ---------------------------
(***************************************************************************)
(* Status indications of the miniport: the one INDICATE_STATUS IRP that an  *)
(* open context may hold, its cancel routine, the routine that completes it *)
(* for an indication, for Cleanup and for Unbind, and the RESET and MEDIA   *)
(* bits of Flags, which ndisprotCreateBinding writes without the lock.      *)
(*                                                                          *)
(* Agents.  pc[i] is the thread in the ioctl that brings IRP i, cancelPc[i] *)
(* the one in its cancel routine; "status" is the NDIS thread that          *)
(* indicates, one status at a time, "cleanup" the one closing the handle,   *)
(* "bind" the one in ndisprotCreateBinding and "pnp" the one in             *)
(* NdisProtUnbindAdapter.                                                   *)
(***************************************************************************)
EXTENDS FiniteSets

CONSTANTS
    Irps, None,
    Statuses    \* what the miniport may indicate

Callers == {"status", "cleanup", "pnp"}     \* of ndisServiceIndicateStatusIrp
Agents == Irps \cup Callers \cup {"bind"}

ASSUME StatusesAssumption ==
    Statuses \subseteq {"RESET_START", "RESET_END", "MEDIA_CONNECT", "MEDIA_DISCONNECT"}

ASSUME IrpsAssumption ==
    IsFiniteSet(Irps) /\ None \notin Irps /\ Irps \cap (Callers \cup {"bind"}) = {}

VARIABLES
    bindState, fileState,
    Lock,                   \* the IRP whose thread is in a critical section, if any
    StatusIndicationIrp,
    resetting, connected,   \* the bits of Flags
    inReset, linkUp,        \* what they are about, at the miniport
    cbLink, cbResetting,    \* CreateBinding: the state it queried, the bit it read
    indication,             \* the status being indicated
    irpStatus, irpRoutine, irpCancel,
    pc, cur, cancelPc

flagVars == <<resetting, connected>>
linkVars == <<inReset, linkUp, indication>>
bindVars == <<bindState, cbLink, cbResetting>>
irpVars  == <<irpStatus, irpRoutine, irpCancel>>

vars == <<bindVars, fileState, Lock, StatusIndicationIrp, flagVars, linkVars, irpVars,
          pc, cur, cancelPc>>

\* NdisOpenAdapter has succeeded: the miniport indicates status from now on.
Init ==
    /\ bindState = "OPENING" /\ fileState = "open"
    /\ Lock = None /\ StatusIndicationIrp = None
    /\ resetting = FALSE /\ connected = TRUE        \* Flags is zero
    /\ inReset = FALSE /\ linkUp \in BOOLEAN
    /\ cbLink = FALSE /\ cbResetting = FALSE
    /\ indication = "none"
    /\ irpStatus = [i \in Irps |-> "unsent"]
    /\ irpRoutine = [i \in Irps |-> FALSE]
    /\ irpCancel = [i \in Irps |-> FALSE]
    /\ pc = [t \in Agents |-> IF t = "bind" THEN "cbQuery" ELSE "idle"]
    /\ cur = [t \in Callers |-> None]
    /\ cancelPc = [i \in Irps |-> "idle"]

-----------------------------------------------------------------------------
Goto(t, label) == pc' = [pc EXCEPT ![t] = label]

\* IoCompleteRequest
Complete(i, status) == irpStatus' = [irpStatus EXCEPT ![i] = status]

-----------------------------------------------------------------------------
(* IOCTL_NDISPROT_INDICATE_STATUS: ndisprotQueueStatusIndicationIrp.         *)

SubmitStatusIrp(i) ==
    /\ pc[i] = "idle" /\ fileState = "open"
    /\ Complete(i, "dispatched")
    /\ Goto(i, "qsLock")
    /\ UNCHANGED <<bindVars, fileState, Lock, StatusIndicationIrp, flagVars, linkVars,
                   irpRoutine, irpCancel, cur, cancelPc>>

\* Another IRP is pending: this one is completed with DEVICE_BUSY.
RefuseStatusIrp(i) ==
    /\ pc[i] = "qsLock" /\ Lock = None
    /\ StatusIndicationIrp # None
    /\ Complete(i, "BUSY")
    /\ Goto(i, "done")
    /\ UNCHANGED <<bindVars, fileState, Lock, StatusIndicationIrp, flagVars, linkVars,
                   irpRoutine, irpCancel, cur, cancelPc>>

\* The cancel routine is set under the lock; from here on it may be called.
SetCancelRoutine(i) ==
    /\ pc[i] = "qsLock" /\ Lock = None
    /\ StatusIndicationIrp = None
    /\ Lock' = i
    /\ irpRoutine' = [irpRoutine EXCEPT ![i] = TRUE]
    /\ Goto(i, "qsCheck")
    /\ UNCHANGED <<bindVars, fileState, StatusIndicationIrp, flagVars, linkVars,
                   irpStatus, irpCancel, cur, cancelPc>>

\* (A mutant) the IRP is queued without another look at pIrp->Cancel.
QueueStatusIrpUnchecked(i) ==
    /\ pc[i] = "qsCheck"
    /\ Complete(i, "pending")
    /\ StatusIndicationIrp' = i
    /\ Lock' = None
    /\ Goto(i, "done")
    /\ UNCHANGED <<bindVars, fileState, flagVars, linkVars, irpRoutine, irpCancel, cur, cancelPc>>

\* Cancelled before, and the routine can be taken back: it is not queued.
\* Otherwise it is, even with its cancel routine waiting for the lock.
QueueStatusIrp(i) ==
    /\ pc[i] = "qsCheck"
    /\ IF irpCancel[i] /\ irpRoutine[i]
         THEN /\ Complete(i, "CANCELLED")
              /\ irpRoutine' = [irpRoutine EXCEPT ![i] = FALSE]
              /\ UNCHANGED StatusIndicationIrp
         ELSE /\ Complete(i, "pending")
              /\ StatusIndicationIrp' = i
              /\ UNCHANGED irpRoutine
    /\ Lock' = None
    /\ Goto(i, "done")
    /\ UNCHANGED <<bindVars, fileState, flagVars, linkVars, irpCancel, cur, cancelPc>>

IoctlThread(i) == RefuseStatusIrp(i) \/ SetCancelRoutine(i) \/ QueueStatusIrp(i)

-----------------------------------------------------------------------------
(* IoCancelIrp and ndisCancelIndicateStatusIrp.                             *)

CancelIrp(i) ==
    /\ irpStatus[i] \in {"dispatched", "pending"} /\ ~irpCancel[i]
    /\ irpCancel' = [irpCancel EXCEPT ![i] = TRUE]
    /\ irpRoutine' = [irpRoutine EXCEPT ![i] = FALSE]
    /\ cancelPc' = [cancelPc EXCEPT ![i] = IF irpRoutine[i] THEN "lock" ELSE @]
    /\ UNCHANGED <<bindVars, fileState, Lock, StatusIndicationIrp, flagVars, linkVars,
                   irpStatus, pc, cur>>

\* The slot is cleared without a look at what is in it.
CancelStatusUnlink(i) ==
    /\ cancelPc[i] = "lock" /\ Lock = None
    /\ StatusIndicationIrp' = None
    /\ cancelPc' = [cancelPc EXCEPT ![i] = "complete"]
    /\ UNCHANGED <<bindVars, fileState, Lock, flagVars, linkVars, irpVars, pc, cur>>

CancelStatusComplete(i) ==
    /\ cancelPc[i] = "complete"
    /\ Complete(i, "CANCELLED")
    /\ cancelPc' = [cancelPc EXCEPT ![i] = "done"]
    /\ UNCHANGED <<bindVars, fileState, Lock, StatusIndicationIrp, flagVars, linkVars,
                   irpRoutine, irpCancel, pc, cur>>

CancelStatus(i) == CancelStatusUnlink(i) \/ CancelStatusComplete(i)

-----------------------------------------------------------------------------
(* ndisServiceIndicateStatusIrp and its three callers.                       *)

\* (A mutant) the slot is emptied although the cancel routine is running.
ServiceStatusIrpAlways(t) ==
    /\ pc[t] = "svcLock" /\ Lock = None
    /\ cur' = [cur EXCEPT ![t] = StatusIndicationIrp]
    /\ irpRoutine' = [i \in Irps |-> irpRoutine[i] /\ i # StatusIndicationIrp]
    /\ StatusIndicationIrp' = None
    /\ Goto(t, "svcComplete")
    /\ UNCHANGED <<bindVars, fileState, Lock, flagVars, linkVars, irpStatus, irpCancel, cancelPc>>

\* The IRP is taken from the slot if its cancel routine can be.
ServiceStatusIrp(t) ==
    /\ pc[t] = "svcLock" /\ Lock = None
    /\ IF StatusIndicationIrp # None /\ irpRoutine[StatusIndicationIrp]
         THEN /\ cur' = [cur EXCEPT ![t] = StatusIndicationIrp]
              /\ irpRoutine' = [irpRoutine EXCEPT ![StatusIndicationIrp] = FALSE]
              /\ StatusIndicationIrp' = None
         ELSE UNCHANGED <<cur, irpRoutine, StatusIndicationIrp>>
    /\ Goto(t, "svcComplete")
    /\ UNCHANGED <<bindVars, fileState, Lock, flagVars, linkVars, irpStatus, irpCancel, cancelPc>>

\* Completed outside the lock (SUCCESS stands for BUFFER_OVERFLOW too: the size
\* of the caller's buffer decides); a status goes on to the bits of Flags.
CompleteStatusIrp(t) ==
    /\ pc[t] = "svcComplete"
    /\ IF cur[t] = None THEN UNCHANGED irpStatus
       ELSE Complete(cur[t], IF t = "status" THEN "SUCCESS" ELSE "CANCELLED")
    /\ cur' = [cur EXCEPT ![t] = None]
    /\ Goto(t, IF t = "status" THEN "stLock" ELSE "done")
    /\ UNCHANGED <<bindVars, fileState, Lock, StatusIndicationIrp, flagVars, linkVars,
                   irpRoutine, irpCancel, cancelPc>>

\* NdisProtStatus, called for something that happened at the miniport
Indicate(status) ==
    /\ pc["status"] = "idle" /\ bindState \in {"OPENING", "ACTIVE"}
    /\ \/ /\ status = (IF inReset THEN "RESET_END" ELSE "RESET_START")
          /\ inReset' = ~inReset /\ UNCHANGED linkUp
       \/ /\ status = (IF linkUp THEN "MEDIA_DISCONNECT" ELSE "MEDIA_CONNECT")
          /\ linkUp' = ~linkUp /\ UNCHANGED inReset
    /\ indication' = status
    /\ Goto("status", "svcLock")
    /\ UNCHANGED <<bindVars, fileState, Lock, StatusIndicationIrp, flagVars, irpVars, cur, cancelPc>>

\* The second critical section of NdisProtStatus
NoteStatus ==
    /\ pc["status"] = "stLock" /\ Lock = None
    /\ resetting' = IF indication \in {"RESET_START", "RESET_END"}
                    THEN indication = "RESET_START" ELSE resetting
    /\ connected' = IF indication \in {"MEDIA_CONNECT", "MEDIA_DISCONNECT"}
                    THEN indication = "MEDIA_CONNECT" ELSE connected
    /\ indication' = "none"
    /\ Goto("status", "idle")
    /\ UNCHANGED <<bindVars, fileState, Lock, StatusIndicationIrp, inReset, linkUp, irpVars,
                   cur, cancelPc>>

Cleanup ==
    /\ fileState = "open"
    /\ fileState' = "cleanup"
    /\ Goto("cleanup", "svcLock")
    /\ UNCHANGED <<bindVars, Lock, StatusIndicationIrp, flagVars, linkVars, irpVars, cur, cancelPc>>

\* ndisprotShutdownBinding, up to its call of the service routine
Unbind ==
    /\ pc["pnp"] = "idle" /\ bindState = "ACTIVE" /\ Lock = None
    /\ bindState' = "CLOSING"
    /\ Goto("pnp", "svcLock")
    /\ UNCHANGED <<cbLink, cbResetting, fileState, Lock, StatusIndicationIrp, flagVars,
                   linkVars, irpVars, cur, cancelPc>>

-----------------------------------------------------------------------------
(* The end of ndisprotCreateBinding.                                        *)

QueryMedia ==
    /\ pc["bind"] = "cbQuery"
    /\ cbLink' = linkUp
    /\ Goto("bind", "cbRead")
    /\ UNCHANGED <<bindState, cbResetting, fileState, Lock, StatusIndicationIrp, flagVars,
                   linkVars, irpVars, cur, cancelPc>>

\* NPROT_SET_FLAGS of the MEDIA bit, without the lock: Flags is read ...
ReadFlags ==
    /\ pc["bind"] = "cbRead"
    /\ cbResetting' = resetting
    /\ Goto("bind", "cbWrite")
    /\ UNCHANGED <<bindState, cbLink, fileState, Lock, StatusIndicationIrp, flagVars,
                   linkVars, irpVars, cur, cancelPc>>

\* ... and written back as a whole.
WriteFlags ==
    /\ pc["bind"] = "cbWrite"
    /\ connected' = cbLink /\ resetting' = cbResetting
    /\ cbLink' = FALSE /\ cbResetting' = FALSE
    /\ Goto("bind", "cbActive")
    /\ UNCHANGED <<bindState, fileState, Lock, StatusIndicationIrp, linkVars, irpVars, cur, cancelPc>>

SetBindActive ==
    /\ pc["bind"] = "cbActive" /\ Lock = None
    /\ bindState' = "ACTIVE"
    /\ Goto("bind", "done")
    /\ UNCHANGED <<cbLink, cbResetting, fileState, Lock, StatusIndicationIrp, flagVars,
                   linkVars, irpVars, cur, cancelPc>>

CreateBinding == QueryMedia \/ ReadFlags \/ WriteFlags \/ SetBindActive

-----------------------------------------------------------------------------
Service(t) == ServiceStatusIrp(t) \/ CompleteStatusIrp(t)

Environment ==
    \/ \E i \in Irps : SubmitStatusIrp(i) \/ CancelIrp(i)
    \/ \E status \in Statuses : Indicate(status)
    \/ Cleanup \/ Unbind

Next ==
    \/ Environment
    \/ \E i \in Irps : IoctlThread(i) \/ CancelStatus(i)
    \/ \E t \in Callers : Service(t)
    \/ NoteStatus
    \/ CreateBinding

Spec == Init /\ [][Next]_vars

\* Threads in the driver are scheduled and get the lock: weak fairness is
\* enough for that, as each of the IRPs holds it once.
Fairness ==
    /\ \A i \in Irps : WF_vars(IoctlThread(i)) /\ WF_vars(CancelStatus(i))
    /\ \A t \in Callers : WF_vars(Service(t))
    /\ WF_vars(NoteStatus) /\ WF_vars(CreateBinding)

FairSpec == Spec /\ Fairness

-----------------------------------------------------------------------------
\* Every variable has its type, and a thread in the critical section that
\* queues an IRP is the one that holds the lock.
TypeOK ==
    /\ bindState \in {"OPENING", "ACTIVE", "CLOSING"} /\ fileState \in {"open", "cleanup"}
    /\ Lock \in Irps \cup {None} /\ StatusIndicationIrp \in Irps \cup {None}
    /\ \A b \in {resetting, connected, inReset, linkUp, cbLink, cbResetting} : b \in BOOLEAN
    /\ indication \in Statuses \cup {"none"}
    /\ irpStatus \in [Irps -> {"unsent", "dispatched", "pending", "SUCCESS", "CANCELLED", "BUSY"}]
    /\ irpRoutine \in [Irps -> BOOLEAN] /\ irpCancel \in [Irps -> BOOLEAN]
    /\ cur \in [Callers -> Irps \cup {None}]
    /\ cancelPc \in [Irps -> {"idle", "lock", "complete", "done"}]
    /\ \A i \in Irps : pc[i] \in {"idle", "qsLock", "qsCheck", "done"} /\ (pc[i] = "qsCheck" <=> Lock = i)
    /\ \A t \in Callers : pc[t] \in {"idle", "svcLock", "svcComplete", "stLock", "done"}
    /\ pc["bind"] \in {"cbQuery", "cbRead", "cbWrite", "cbActive", "done"}

\* Who is to complete IRP i: whoever may take it from the slot, a caller of
\* the service routine that has, or its cancel routine.
Owners(i) ==
    {<<"slot", j>> : j \in {k \in {StatusIndicationIrp} : k = i /\ irpRoutine[i]}}
    \cup {<<"thread", t>> : t \in {u \in Callers : cur[u] = i}}
    \cup {<<"cancel", j>> : j \in {k \in {i} : cancelPc[k] \in {"lock", "complete"}}}

\* A pending IRP has one owner and a completed one none, although
\* ndisCancelIndicateStatusIrp clears the slot without looking and the
\* service routine leaves an IRP that is being cancelled where it is.
StatusIrpHasOneOwner ==
    \A i \in Irps :
        /\ irpStatus[i] = "pending" => Cardinality(Owners(i)) = 1
        /\ irpStatus[i] \in {"SUCCESS", "CANCELLED", "BUSY"} => Owners(i) = {}

\* The slot never holds an IRP that has been completed, and the cancel
\* routine that is about to clear it clears its own IRP out of it.
SlotHoldsPendingIrp ==
    /\ StatusIndicationIrp # None => irpStatus[StatusIndicationIrp] = "pending"
    /\ \A i \in Irps : (cancelPc[i] = "lock" /\ Lock = None) => StatusIndicationIrp = i

\* Who completes a status IRP, and what the slot says of it, agree.
StatusIrpIsOwned == StatusIrpHasOneOwner /\ SlotHoldsPendingIrp

\* An IRP that is cancelled, before, while or after it is queued, completes.
CancelledStatusCompletes == \A i \in Irps : irpCancel[i] ~> irpStatus[i] \notin {"dispatched", "pending"}

-----------------------------------------------------------------------------
(* What the comments and assertions say and the code does not do.            *)

\* ndisbind.c:1807-1811: the IRP is completed when "we have been asked to
\* unbind".  One that is queued after the shutdown has looked is not.
UnbindCompletesStatus ==
    \A i \in Irps : (bindState = "CLOSING" /\ irpStatus[i] = "pending") ~> irpStatus[i] # "pending"

\* ndisbind.c:1365-1367: when a reset ends, the flag says that one was in
\* progress.  CreateBinding may have written an older Flags over it.
ResetEndFindsFlag ==
    pc["status"] = "stLock" /\ indication = "RESET_END" => resetting
=============================================================================
