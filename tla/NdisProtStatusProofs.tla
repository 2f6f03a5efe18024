------------------------ MODULE NdisProtStatusProofs ------------------------
(***************************************************************************)
(* Proof that every status IRP has one owner until it is completed, for any *)
(* finite set of IRPs.  The slot is no witness of that: an IRP may be in it *)
(* with its cancel routine about to run, or not yet be in it although it    *)
(* can be cancelled.  The invariant says, IRP by IRP, which combinations of *)
(* slot, cancel routine and threads there are.                              *)
(***************************************************************************)
EXTENDS NdisProtStatus, FiniteSetTheorems, TLAPS

Labels == {"idle", "qsLock", "qsCheck", "svcLock", "svcComplete", "stLock", "done",
           "cbQuery", "cbRead", "cbWrite", "cbActive"}

InSlot(i) == StatusIndicationIrp = i
NotTaken(i) == \A t \in Callers : cur[t] # i
TakenOnce(i) == \E t \in Callers : cur[t] = i /\ \A u \in Callers : cur[u] = i => u = t

\* The cancel routine is set, or has been called and waits for the lock.
Cancellable(i) == cancelPc[i] = IF irpRoutine[i] THEN "idle" ELSE "lock"

\* Before its thread has the lock nobody else knows of an IRP.
Unseen(i) ==
    /\ \/ pc[i] = "idle" /\ irpStatus[i] = "unsent"
       \/ pc[i] = "qsLock" /\ irpStatus[i] = "dispatched"
    /\ ~irpRoutine[i] /\ ~InSlot(i) /\ NotTaken(i) /\ cancelPc[i] = "idle"

\* In between, under the lock, it is its thread's and can be cancelled.
Entering(i) ==
    /\ pc[i] = "qsCheck" /\ irpStatus[i] = "dispatched"
    /\ ~InSlot(i) /\ NotTaken(i) /\ Cancellable(i)

\* A pending IRP is in the slot, with its cancel routine, or with one thread.
Pended(i) ==
    /\ pc[i] = "done" /\ irpStatus[i] = "pending"
    /\ \/ InSlot(i) /\ NotTaken(i) /\ Cancellable(i)
       \/ ~InSlot(i) /\ ~irpRoutine[i] /\ NotTaken(i) /\ cancelPc[i] = "complete"
       \/ ~InSlot(i) /\ ~irpRoutine[i] /\ TakenOnce(i) /\ cancelPc[i] = "idle"

Ended(i) ==
    /\ pc[i] = "done" /\ irpStatus[i] \in {"SUCCESS", "CANCELLED", "BUSY"}
    /\ ~InSlot(i) /\ ~irpRoutine[i] /\ NotTaken(i) /\ cancelPc[i] \in {"idle", "done"}

Place(i) == Unseen(i) \/ Entering(i) \/ Pended(i) \/ Ended(i)

\* The IRP under the lock finds the slot empty, and a caller of the service
\* routine that comes to the slot has no IRP; Cleanup comes once.
IInv ==
    /\ TypeOK /\ pc \in [Agents -> Labels]
    /\ Lock # None => StatusIndicationIrp = None
    /\ fileState = "open" => pc["cleanup"] = "idle"
    /\ \A t \in Callers : cur[t] # None => pc[t] = "svcComplete"
    /\ \A i \in Irps : Place(i)

-----------------------------------------------------------------------------
\* A step that leaves what concerns an IRP alone leaves it in its place.
LEMMA Undisturbed ==
    ASSUME NEW i \in Irps, Place(i),
           pc'[i] = pc[i], irpStatus'[i] = irpStatus[i], irpRoutine'[i] = irpRoutine[i],
           cancelPc'[i] = cancelPc[i], InSlot(i)' <=> InSlot(i),
           \A t \in Callers : cur'[t] = i <=> cur[t] = i
    PROVE  Place(i)'
<1>1. NotTaken(i)' <=> NotTaken(i)
  BY DEF NotTaken
<1>2. TakenOnce(i)' <=> TakenOnce(i)
  BY DEF TakenOnce
<1>3. Cancellable(i)' <=> Cancellable(i)
  BY DEF Cancellable
<1> QED BY <1>1, <1>2, <1>3 DEF Place, Unseen, Entering, Pended, Ended

\* The agents are distinct, as the model tells them apart.
LEMMA AgentFacts ==
    /\ Irps \subseteq Agents /\ Callers \subseteq Agents /\ "bind" \in Agents
    /\ \A i \in Irps : i \notin Callers /\ i # "bind" /\ i # None
    /\ "status" \in Callers /\ "cleanup" \in Callers /\ "pnp" \in Callers
    /\ "bind" \notin Callers
BY IrpsAssumption DEF Agents, Callers

\* Nothing has been sent at first.
LEMMA InitCorrect == Init => IInv
<1> SUFFICES ASSUME Init PROVE IInv
  OBVIOUS
<1> USE DEF Init
<1>1. TypeOK /\ pc \in [Agents -> Labels]
  BY AgentFacts DEF TypeOK, Labels
<1>2. \A i \in Irps : Place(i)
  BY AgentFacts DEF Place, Unseen, InSlot, NotTaken
<1> QED BY <1>1, <1>2, AgentFacts DEF IInv

\* The thread that brings an IRP finds the slot taken, or takes it.
LEMMA IoctlStep ==
    ASSUME IInv, NEW i \in Irps, SubmitStatusIrp(i) \/ IoctlThread(i)
    PROVE  IInv'
<1> USE AgentFacts DEF IInv, Goto, Complete, irpVars, bindVars, flagVars, linkVars
<1>1. /\ UNCHANGED <<cur, cancelPc>>
      /\ pc' = [pc EXCEPT ![i] = pc'[i]] /\ pc'[i] \in Labels
      /\ \A j \in Irps \ {i} : irpStatus'[j] = irpStatus[j] /\ irpRoutine'[j] = irpRoutine[j]
      /\ StatusIndicationIrp' = StatusIndicationIrp \/ StatusIndicationIrp' = i
  BY DEF SubmitStatusIrp, IoctlThread, RefuseStatusIrp, SetCancelRoutine, QueueStatusIrp, TypeOK, Labels
<1>2. StatusIndicationIrp' = i => StatusIndicationIrp \in {None, i}
  BY DEF SubmitStatusIrp, IoctlThread, RefuseStatusIrp, SetCancelRoutine, QueueStatusIrp, TypeOK
<1>3. ASSUME NEW j \in Irps \ {i} PROVE Place(j)'
  <2>1. InSlot(j)' <=> InSlot(j)
    BY <1>1, <1>2 DEF InSlot
  <2>2. pc'[j] = pc[j]
    BY <1>1
  <2> QED BY <1>1, <2>1, <2>2, Undisturbed
<1>4. CASE SubmitStatusIrp(i)
  <2> USE <1>4 DEF SubmitStatusIrp
  <2>1. TypeOK'
    BY DEF TypeOK
  <2>2. Place(i)'
    BY DEF Place, Unseen, Entering, Pended, Ended, InSlot, NotTaken, TypeOK
  <2> QED BY <1>1, <1>3, <2>1, <2>2
<1>5. CASE RefuseStatusIrp(i)
  <2> USE <1>5 DEF RefuseStatusIrp
  <2>1. TypeOK'
    BY DEF TypeOK
  <2>2. Place(i)'
    BY DEF Place, Unseen, Entering, Pended, Ended, InSlot, NotTaken, TypeOK
  <2> QED BY <1>1, <1>3, <2>1, <2>2
<1>6. CASE SetCancelRoutine(i)
  <2> USE <1>6 DEF SetCancelRoutine
  <2>1. TypeOK'
    BY DEF TypeOK
  <2>2. Unseen(i)
    BY DEF Place, Unseen, Entering, Pended, Ended
  <2>3. Entering(i)'
    BY <2>2 DEF Unseen, Entering, InSlot, NotTaken, Cancellable, TypeOK
  <2> QED BY <1>1, <1>3, <2>1, <2>3 DEF Place
<1>7. CASE QueueStatusIrp(i)
  <2> USE <1>7 DEF QueueStatusIrp
  <2>1. TypeOK'
    <3>1. Lock = i /\ Lock' = None /\ pc' = [pc EXCEPT ![i] = "done"]
      BY DEF TypeOK
    <3>2. \A j \in Irps : pc'[j] \in {"idle", "qsLock", "qsCheck", "done"} /\ pc'[j] # "qsCheck" /\ Lock' # j
      BY <3>1 DEF TypeOK
    <3>3. pc'["bind"] = pc["bind"] /\ \A t \in Callers : pc'[t] = pc[t]
      BY <3>1
    <3>4. /\ StatusIndicationIrp' \in Irps \cup {None} /\ irpRoutine' \in [Irps -> BOOLEAN]
          /\ irpStatus' \in [Irps -> {"unsent", "dispatched", "pending", "SUCCESS", "CANCELLED", "BUSY"}]
      <4>1. irpStatus' = [irpStatus EXCEPT ![i] = "CANCELLED"] \/ irpStatus' = [irpStatus EXCEPT ![i] = "pending"]
        OBVIOUS
      <4>2. irpRoutine' = irpRoutine \/ irpRoutine' = [irpRoutine EXCEPT ![i] = FALSE]
        OBVIOUS
      <4>3. StatusIndicationIrp' = StatusIndicationIrp \/ StatusIndicationIrp' = i
        OBVIOUS
      <4> QED BY <4>1, <4>2, <4>3 DEF TypeOK
    <3> QED BY <3>1, <3>2, <3>3, <3>4 DEF TypeOK
  <2>2. Entering(i)
    BY DEF Place, Unseen, Entering, Pended, Ended
  <2>3. CASE irpCancel[i] /\ irpRoutine[i]
    <3>1. Ended(i)'
      BY <2>2, <2>3 DEF Ended, Entering, InSlot, NotTaken, Cancellable, TypeOK
    <3> QED BY <1>1, <1>3, <2>1, <3>1 DEF Place
  <2>4. CASE ~(irpCancel[i] /\ irpRoutine[i])
    <3>1. Pended(i)'
      BY <2>2, <2>4 DEF Pended, Entering, InSlot, NotTaken, Cancellable, TypeOK
    <3> QED BY <1>1, <1>3, <2>1, <3>1 DEF Place
  <2> QED BY <2>3, <2>4
<1> QED BY <1>4, <1>5, <1>6, <1>7 DEF IoctlThread

\* A cancel routine clears the slot of its own IRP, whatever has happened
\* since it was called.
LEMMA CancelStep ==
    ASSUME IInv, NEW i \in Irps, CancelIrp(i) \/ CancelStatus(i)
    PROVE  IInv'
<1> USE AgentFacts DEF IInv, Complete, irpVars, bindVars, flagVars, linkVars
<1>1. /\ UNCHANGED <<pc, cur, Lock>>
      /\ \A j \in Irps \ {i} : /\ irpStatus'[j] = irpStatus[j] /\ irpRoutine'[j] = irpRoutine[j]
                               /\ cancelPc'[j] = cancelPc[j]
  BY DEF CancelIrp, CancelStatus, CancelStatusUnlink, CancelStatusComplete, TypeOK
<1>2. CASE CancelIrp(i)
  <2> USE <1>2 DEF CancelIrp
  <2>1. TypeOK'
    BY DEF TypeOK
  <2>2. Place(i)'
    BY DEF Place, Unseen, Entering, Pended, Ended, InSlot, NotTaken, TakenOnce, Cancellable, TypeOK
  <2>3. \A j \in Irps \ {i} : Place(j)'
    BY <1>1, Undisturbed DEF InSlot
  <2> QED BY <1>1, <2>1, <2>2, <2>3
<1>3. CASE CancelStatusUnlink(i)
  <2> USE <1>3 DEF CancelStatusUnlink
  <2>1. TypeOK'
    BY DEF TypeOK
  <2>2. Pended(i) /\ InSlot(i) /\ NotTaken(i) /\ ~irpRoutine[i]
    BY DEF Place, Unseen, Entering, Pended, Ended, Cancellable, TypeOK
  <2>3. Pended(i)'
    BY <2>2 DEF Pended, InSlot, NotTaken, TypeOK
  <2>4. \A j \in Irps \ {i} : Place(j)'
    BY <1>1, <2>2, Undisturbed DEF InSlot
  <2> QED BY <1>1, <2>1, <2>3, <2>4 DEF Place
<1>4. CASE CancelStatusComplete(i)
  <2> USE <1>4 DEF CancelStatusComplete
  <2>1. TypeOK'
    BY DEF TypeOK
  <2>2. Ended(i)'
    BY DEF Place, Unseen, Entering, Pended, Ended, InSlot, NotTaken, Cancellable, TypeOK
  <2>3. \A j \in Irps \ {i} : Place(j)'
    BY <1>1, Undisturbed DEF InSlot
  <2> QED BY <1>1, <2>1, <2>2, <2>3 DEF Place
<1> QED BY <1>2, <1>3, <1>4 DEF CancelStatus

\* The service routine takes an IRP whose cancel routine it can take back.
LEMMA ServiceStep ==
    ASSUME IInv, NEW t \in Callers, Service(t)
    PROVE  IInv'
<1> USE AgentFacts DEF IInv, Goto, Complete, irpVars, bindVars, flagVars, linkVars
<1>1. /\ UNCHANGED <<Lock, cancelPc>> /\ \A i \in Irps : pc'[i] = pc[i]
      /\ pc' \in [Agents -> Labels]
  BY DEF Service, ServiceStatusIrp, CompleteStatusIrp, TypeOK, Labels
<1>2. ASSUME ServiceStatusIrp(t), NEW i \in Irps, StatusIndicationIrp = i, irpRoutine[i]
      PROVE  IInv'
  <2> USE <1>2 DEF ServiceStatusIrp
  <2>1. cur[t] = None /\ Lock = None
    BY DEF TypeOK
  <2>2. /\ cur' = [cur EXCEPT ![t] = i] /\ irpRoutine' = [irpRoutine EXCEPT ![i] = FALSE]
        /\ StatusIndicationIrp' = None /\ pc' = [pc EXCEPT ![t] = "svcComplete"]
        /\ UNCHANGED <<bindVars, fileState, Lock, flagVars, linkVars, irpStatus, irpCancel, cancelPc>>
    OBVIOUS
  <2>3. TypeOK'
    <3>1. cur' \in [Callers -> Irps \cup {None}] /\ irpRoutine' \in [Irps -> BOOLEAN]
      BY <2>2 DEF TypeOK
    <3>2. \A u \in Callers : pc'[u] \in {"idle", "svcLock", "svcComplete", "stLock", "done"}
      BY <2>2 DEF TypeOK
    <3>3. pc'["bind"] = pc["bind"]
      BY <2>2
    <3> QED BY <1>1, <2>2, <3>1, <3>2, <3>3 DEF TypeOK
  <2>4. Pended(i) /\ NotTaken(i) /\ cancelPc[i] = "idle"
    BY DEF Place, Unseen, Entering, Pended, Ended, InSlot, Cancellable
  <2>5. \A u \in Callers : cur'[u] = IF u = t THEN i ELSE cur[u]
    BY <2>2 DEF TypeOK
  <2>6. TakenOnce(i)'
    BY <2>4, <2>5 DEF TakenOnce, NotTaken
  <2>7. Pended(i)'
    BY <1>1, <2>2, <2>4, <2>6 DEF Pended, InSlot, TypeOK
  <2>8. ASSUME NEW j \in Irps, j # i PROVE Place(j)'
    <3>1. \A u \in Callers : cur'[u] = j <=> cur[u] = j
      BY <2>1, <2>5, <2>8
    <3>2. irpRoutine'[j] = irpRoutine[j] /\ (InSlot(j)' <=> InSlot(j))
      BY <2>2, <2>8 DEF InSlot, TypeOK
    <3> QED BY <1>1, <2>8, <3>1, <3>2, Undisturbed
  <2>9. \A u \in Callers : cur'[u] # None => pc'[u] = "svcComplete"
    BY <2>2, <2>5
  <2> QED BY <1>1, <2>2, <2>3, <2>7, <2>8, <2>9 DEF Place
<1>3. CASE ServiceStatusIrp(t) /\ ~(StatusIndicationIrp # None /\ irpRoutine[StatusIndicationIrp])
  <2> USE <1>3 DEF ServiceStatusIrp
  <2>1. TypeOK'
    BY DEF TypeOK
  <2>2. \A j \in Irps : Place(j)'
    BY <1>1, Undisturbed DEF InSlot
  <2> QED BY <1>1, <2>1, <2>2
<1>4. CASE CompleteStatusIrp(t)
  <2> USE <1>4 DEF CompleteStatusIrp
  <2>1. TypeOK'
    BY DEF TypeOK
  <2>2. \A u \in Callers : cur'[u] = IF u = t THEN None ELSE cur[u]
    BY DEF TypeOK
  <2>3. ASSUME NEW j \in Irps, j = cur[t] PROVE Place(j)'
    <3>1. Pended(j) /\ TakenOnce(j) /\ ~InSlot(j) /\ ~irpRoutine[j] /\ cancelPc[j] = "idle"
      BY <2>3 DEF Place, Unseen, Entering, Pended, Ended, NotTaken
    <3>2. NotTaken(j)'
      BY <2>2, <2>3, <3>1 DEF NotTaken, TakenOnce
    <3>3. Ended(j)'
      BY <1>1, <2>3, <3>1, <3>2 DEF Ended, Pended, InSlot, TypeOK
    <3> QED BY <3>3 DEF Place
  <2>4. ASSUME NEW j \in Irps, j # cur[t] PROVE Place(j)'
    <3>1. irpStatus'[j] = irpStatus[j] /\ irpRoutine'[j] = irpRoutine[j]
      BY <2>4 DEF TypeOK
    <3> QED BY <1>1, <2>2, <2>4, <3>1, Undisturbed DEF InSlot
  <2>5. \A u \in Callers : cur'[u] # None => pc'[u] = "svcComplete"
    BY <2>2
  <2> QED BY <1>1, <2>1, <2>3, <2>4, <2>5
<1> QED BY <1>2, <1>3, <1>4 DEF Service, TypeOK

\* The rest concerns no IRP.
LEMMA OtherStep ==
    ASSUME IInv,
           \/ \E status \in Statuses : Indicate(status)
           \/ Cleanup \/ Unbind \/ NoteStatus \/ CreateBinding \/ UNCHANGED vars
    PROVE  IInv'
<1> USE AgentFacts DEF IInv, Goto, irpVars, bindVars, flagVars, linkVars, vars
<1>1. UNCHANGED <<Lock, StatusIndicationIrp, irpStatus, irpRoutine, irpCancel, cur, cancelPc>>
  BY DEF Indicate, Cleanup, Unbind, NoteStatus, CreateBinding, QueryMedia, ReadFlags, WriteFlags,
         SetBindActive
<1>2. \/ \E label \in {"svcLock", "idle"} : Goto("status", label) /\ pc["status"] \in {"idle", "stLock"}
      \/ Goto("cleanup", "svcLock") /\ fileState = "open"
      \/ Goto("pnp", "svcLock") /\ pc["pnp"] = "idle"
      \/ \E label \in {"cbRead", "cbWrite", "cbActive", "done"} : Goto("bind", label)
      \/ pc' = pc
  BY DEF Indicate, Cleanup, Unbind, NoteStatus, CreateBinding, QueryMedia, ReadFlags, WriteFlags,
         SetBindActive
<1>3. /\ pc' \in [Agents -> Labels] /\ \A i \in Irps : pc'[i] = pc[i]
      /\ \A t \in Callers : pc[t] = "svcComplete" => pc'[t] = "svcComplete"
      /\ \A t \in Callers : pc'[t] \in {"idle", "svcLock", "svcComplete", "stLock", "done"}
      /\ pc'["bind"] \in {"cbQuery", "cbRead", "cbWrite", "cbActive", "done"}
  BY <1>2 DEF TypeOK, Labels
<1>4. \A i \in Irps : Place(i)'
  BY <1>1, <1>3, Undisturbed DEF InSlot
<1>5. /\ bindState' \in {"OPENING", "ACTIVE", "CLOSING"} /\ fileState' \in {"open", "cleanup"}
      /\ indication' \in Statuses \cup {"none"}
      /\ resetting' \in BOOLEAN /\ connected' \in BOOLEAN /\ inReset' \in BOOLEAN
      /\ linkUp' \in BOOLEAN /\ cbLink' \in BOOLEAN /\ cbResetting' \in BOOLEAN
  BY DEF Indicate, Cleanup, Unbind, NoteStatus, CreateBinding, QueryMedia, ReadFlags, WriteFlags,
         SetBindActive, TypeOK
<1>6. fileState' = "open" => pc'["cleanup"] = "idle"
  BY <1>2 DEF Indicate, Cleanup, Unbind, NoteStatus, CreateBinding, QueryMedia, ReadFlags, WriteFlags,
              SetBindActive
<1>7. TypeOK'
  BY <1>1, <1>3, <1>5 DEF TypeOK
<1> QED BY <1>1, <1>3, <1>4, <1>6, <1>7

\* The invariant holds in every state of every behaviour.
LEMMA InvariantHolds == Spec => []IInv
<1>1. IInv /\ [Next]_vars => IInv'
  BY IoctlStep, CancelStep, ServiceStep, OtherStep DEF Next, Environment
<1> QED BY InitCorrect, <1>1, PTL DEF Spec

\* The variables have their types, and the lock is held by the thread that
\* is in the critical section that queues an IRP.
THEOREM TypeCorrect == Spec => []TypeOK
<1>1. IInv => TypeOK
  BY DEF IInv
<1> QED BY <1>1, InvariantHolds, PTL

\* Who owns an IRP, in each of its places.
LEMMA OwnersOf ==
    ASSUME IInv, NEW i \in Irps
    PROVE  /\ irpStatus[i] = "pending" => \E owner : Owners(i) = {owner}
           /\ irpStatus[i] \in {"SUCCESS", "CANCELLED", "BUSY"} => Owners(i) = {}
<1>1. Place(i)
  BY DEF IInv
<1>2. ASSUME irpStatus[i] = "pending" PROVE \E owner : Owners(i) = {owner}
  <2>1. Pended(i)
    BY <1>1, <1>2 DEF Place, Unseen, Entering, Ended
  <2>2. CASE InSlot(i) /\ NotTaken(i) /\ Cancellable(i)
    <3>1. CASE irpRoutine[i]
      <4>1. Owners(i) = {<<"slot", i>>}
        BY <2>2, <3>1 DEF Owners, InSlot, NotTaken, Cancellable
      <4> QED BY <4>1
    <3>2. CASE ~irpRoutine[i]
      <4>1. Owners(i) = {<<"cancel", i>>}
        BY <2>2, <3>2 DEF Owners, NotTaken, Cancellable
      <4> QED BY <4>1
    <3> QED BY <3>1, <3>2
  <2>3. CASE ~InSlot(i) /\ ~irpRoutine[i] /\ NotTaken(i) /\ cancelPc[i] = "complete"
    <3>1. Owners(i) = {<<"cancel", i>>}
      BY <2>3 DEF Owners, NotTaken
    <3> QED BY <3>1
  <2>4. CASE ~InSlot(i) /\ ~irpRoutine[i] /\ TakenOnce(i) /\ cancelPc[i] = "idle"
    <3>1. PICK t \in Callers : cur[t] = i /\ \A u \in Callers : cur[u] = i => u = t
      BY <2>4 DEF TakenOnce
    <3>2. Owners(i) = {<<"thread", t>>}
      BY <2>4, <3>1 DEF Owners
    <3> QED BY <3>2
  <2> QED BY <2>1, <2>2, <2>3, <2>4 DEF Pended
<1>3. ASSUME irpStatus[i] \in {"SUCCESS", "CANCELLED", "BUSY"} PROVE Owners(i) = {}
  BY <1>1, <1>3 DEF Place, Unseen, Entering, Pended, Ended, NotTaken, Owners
<1> QED BY <1>2, <1>3

\* A pending status IRP is completed by exactly one of those who race for it,
\* the slot holds none that is completed, and a cancel routine finds its own
\* IRP there: for any number of IRPs, indications and callers.
THEOREM StatusIrpsAreOwned == Spec => []StatusIrpIsOwned
<1>1. IInv => StatusIrpHasOneOwner
  <2>1. \A owner : Cardinality({owner}) = 1
    BY FS_Singleton
  <2> QED BY <2>1, OwnersOf DEF StatusIrpHasOneOwner
<1>2. IInv => SlotHoldsPendingIrp
  <2> SUFFICES ASSUME IInv PROVE SlotHoldsPendingIrp
    OBVIOUS
  <2>1. StatusIndicationIrp # None => irpStatus[StatusIndicationIrp] = "pending"
    BY DEF IInv, TypeOK, Place, Unseen, Entering, Pended, Ended, InSlot
  <2>2. \A i \in Irps : cancelPc[i] = "lock" /\ Lock = None => StatusIndicationIrp = i
    BY AgentFacts DEF IInv, TypeOK, Place, Unseen, Entering, Pended, Ended, InSlot
  <2> QED BY <2>1, <2>2 DEF SlotHoldsPendingIrp
<1>3. IInv => StatusIrpIsOwned
  BY <1>1, <1>2 DEF StatusIrpIsOwned
<1> QED BY <1>3, InvariantHolds, PTL
=============================================================================
