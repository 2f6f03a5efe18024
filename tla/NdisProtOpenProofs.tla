------------------------- MODULE NdisProtOpenProofs -------------------------
(***************************************************************************)
(* Proofs about the open contexts of ndisprot for any number of contexts,  *)
(* files and threads: types, reference counts, that one binding is found,  *)
(* that requests keep their binding open, that nothing uses a context that *)
(* is freed, and that a context and its file point to each other.          *)
(*                                                                         *)
(* The threads fall into callers (ioctls, Cleanup and Close) and binders   *)
(* (the NDIS threads); a step is of one of them and leaves the others      *)
(* where they are (Alone).  Which thread closes a binding, and which still *)
(* builds it, is told by the labels of the binders alone: Life says so     *)
(* context by context.  OpenInv is what an OPEN_DEVICE that has claimed a  *)
(* context counts on until it succeeds or fails.  From the two follow the  *)
(* reference counts: every step changes at most two of a context's holders *)
(* (CallerCounts, BinderCounts), and RefCount with them.  SerialInv adds   *)
(* what the serialised calls on a synchronous file can count on.           *)
(***************************************************************************)
EXTENDS NdisProtOpen, FiniteSetTheorems, TLAPS

\* The two halves of the types: the data, and where the threads are.
DataOK ==
    /\ OpenList \subseteq Contexts /\ named \subseteq Contexts
    /\ bindFlags \in [Contexts -> {"none", "IDLE", "OPENING", "FAILED", "ACTIVE", "CLOSING"}]
    /\ unbindReceived \in [Contexts -> BOOLEAN] /\ BindingHandle \in [Contexts -> BOOLEAN]
    /\ openActive \in [Contexts -> BOOLEAN] /\ pFileObject \in [Contexts -> Files \cup {None}]
    /\ RefCount \in [Contexts -> Int] /\ freed \in [Contexts -> BOOLEAN]
    /\ powerOn \in [Contexts -> BOOLEAN] /\ PoweredUpEvent \in [Contexts -> BOOLEAN]
    /\ PendedSendCount \in [Contexts -> Int] /\ filter \in [Contexts -> BOOLEAN]
    /\ FsContext \in [Files -> Contexts \cup {None}]
    /\ fileState \in [Files -> {"open", "cleanup", "closed"}]
    /\ file \in [IoThreads -> Files \cup {None}] /\ op \in [IoThreads -> {"none", "open", "oid"}]
    /\ tmp \in Contexts \cup {None} /\ readFlags \in BOOLEAN \X BOOLEAN

ThreadsOK ==
    /\ pc \in [Agents -> UNION {Labels(t) : t \in Agents}]
    /\ ctx \in [Agents -> Contexts \cup {None}]
    /\ \A t \in Agents :
          /\ pc[t] \in Labels(t)
          /\ ctx[t] = None <=> pc[t] \in {"idle", "odLookup", "closing"}

\* The two halves make the whole, before and after a step.
LEMMA TypeParts == (TypeOK <=> DataOK /\ ThreadsOK) /\ (TypeOK' <=> DataOK' /\ ThreadsOK')
<1>1. TypeOK <=> DataOK /\ ThreadsOK
  BY DEF TypeOK, DataOK, ThreadsOK
<1>2. TypeOK' <=> DataOK' /\ ThreadsOK'
  BY DEF TypeOK, DataOK, ThreadsOK
<1>3. QED BY <1>1, <1>2

\* The labels of the four kinds of thread.
LEMMA LabelsAre ==
    /\ \A w \in IoThreads : w \in Agents /\ Labels(w) =
          RequestLabels \cup {"idle", "odLookup", "odClaim", "vWait", "odFail", "odDeref"}
    /\ \A f \in Files : f \in Agents /\ Labels(f) =
          RequestLabels \cup {"idle", "clMark", "clSweep", "closing"}
    /\ "bind" \in Agents /\ Labels("bind") = ShutdownLabels \cup
        {"idle", "cbLookup", "cbDerefTmp", "cbOpening", "cbName", "cbOpen", "cbQuery",
         "cbRead", "cbWrite", "cbActive", "cbFail", "cbFailOpen"}
    /\ "pnp" \in Agents /\ Labels("pnp") = ShutdownLabels \cup {"idle", "pwEvent", "pwWait"}
    /\ "bind" # "pnp" /\ "bind" \notin IoThreads \cup Files /\ "pnp" \notin IoThreads \cup Files
    /\ \A w \in IoThreads : w \notin Files
<1>1. "bind" # "pnp" /\ "bind" \notin IoThreads \cup Files /\ "pnp" \notin IoThreads \cup Files
  BY AgentsAssumption
<1>2. \A w \in IoThreads : w \notin Files
  BY AgentsAssumption
<1>3. QED BY <1>1, <1>2 DEF Labels, Agents

\* A thread moves, and takes another context with it.
LEMMA MoveOK ==
    ASSUME ThreadsOK, NEW t \in Agents, NEW label \in Labels(t), NEW c \in Contexts \cup {None},
           c = None <=> label \in {"idle", "odLookup", "closing"},
           pc' = [pc EXCEPT ![t] = label], ctx' = [ctx EXCEPT ![t] = c]
    PROVE  ThreadsOK'
<1>1. label \in UNION {Labels(u) : u \in Agents}
  OBVIOUS
<1>2. pc' \in [Agents -> UNION {Labels(u) : u \in Agents}]
  BY <1>1 DEF ThreadsOK
<1>3. QED BY <1>2 DEF ThreadsOK

\* A thread moves, and stays with its context.
LEMMA StayOK ==
    ASSUME ThreadsOK, NEW t \in Agents, NEW label \in Labels(t),
           pc[t] \in {"idle", "odLookup", "closing"} <=> label \in {"idle", "odLookup", "closing"},
           pc' = [pc EXCEPT ![t] = label], ctx' = ctx
    PROVE  ThreadsOK'
<1>1. ctx' = [ctx EXCEPT ![t] = ctx[t]] /\ ctx[t] \in Contexts \cup {None}
  BY DEF ThreadsOK
<1>2. ctx[t] = None <=> label \in {"idle", "odLookup", "closing"}
  BY DEF ThreadsOK
<1>3. QED BY <1>1, <1>2, MoveOK

\* The context of a thread at work.
LEMMA AtWork ==
    ASSUME ThreadsOK, NEW t \in Agents, pc[t] \notin {"idle", "odLookup", "closing"}
    PROVE  ctx[t] \in Contexts /\ ctx[t] # None
BY AgentsAssumption DEF ThreadsOK

\* A call that returns leaves its thread idle, with no context.
LEMMA IdleOK ==
    ASSUME ThreadsOK, NEW t \in Agents, Return(t) PROVE ThreadsOK'
<1>1. "idle" \in Labels(t)
  BY DEF Labels
<1>2. QED BY <1>1, MoveOK DEF Return, Goto, Use

\* The same of an ioctl, and its file and kind.
LEMMA CallReturnsOK ==
    ASSUME DataOK, ThreadsOK, NEW w \in IoThreads, CallReturns(w)
    PROVE  /\ ThreadsOK'
           /\ file' \in [IoThreads -> Files \cup {None}]
           /\ op' \in [IoThreads -> {"none", "open", "oid"}]
<1>1. ThreadsOK'
  BY IdleOK, LabelsAre DEF CallReturns
<1>2. file' \in [IoThreads -> Files \cup {None}]
  BY DEF CallReturns, DataOK
<1>3. op' \in [IoThreads -> {"none", "open", "oid"}]
  BY DEF CallReturns, DataOK
<1>4. QED BY <1>1, <1>2, <1>3

\* A reference that is let go of.
LEMMA DerefOK ==
    ASSUME DataOK, NEW c, DerefOpen(c)
    PROVE  RefCount' \in [Contexts -> Int] /\ freed' \in [Contexts -> BOOLEAN]
<1>1. RefCount' \in [Contexts -> Int]
  <2>1. RefCount' = [RefCount EXCEPT ![c] = RefCount[c] - 1] /\ RefCount \in [Contexts -> Int]
    BY DEF DerefOpen, DataOK
  <2>2. CASE c \in Contexts
    <3>1. RefCount[c] - 1 \in Int
      BY <2>1, <2>2
    <3>2. QED BY <2>1, <3>1
  <2>3. CASE c \notin Contexts
    BY <2>1, <2>3
  <2>4. QED BY <2>2, <2>3
<1>2. PICK b \in BOOLEAN : b <=> freed[c] \/ RefCount[c] = 1
  OBVIOUS
<1>3. freed' = [freed EXCEPT ![c] = freed[c] \/ RefCount[c] = 1]
  BY DEF DerefOpen
<1>4. \A d \in Contexts : freed'[d] \in BOOLEAN
  BY <1>3 DEF DataOK
<1>5. freed' = [d \in Contexts |-> freed'[d]]
  BY <1>3 DEF DataOK
<1>6. QED BY <1>1, <1>4, <1>5

-----------------------------------------------------------------------------
\* The calls of clients and of NDIS.
LEMMA EnvironmentType == ASSUME TypeOK, Environment PROVE TypeOK'
<1>0. DataOK /\ ThreadsOK
  BY TypeParts
<1>1. ASSUME NEW w \in IoThreads, NEW f \in Files, NEW request \in {"open", "oid"},
             IoControl(w, f, request)
      PROVE  TypeOK'
  <2>1. DataOK'
    BY <1>0, <1>1 DEF DataOK, IoControl, listVars, bindVars, openVars, refVars, powerVars, reqVars, bindLocals
  <2>2. FsContext[f] \in Contexts \cup {None} /\ (FsContext[f] \in Contexts => FsContext[f] # None)
    BY <1>0, AgentsAssumption DEF DataOK
  <2>3. PICK label \in {"odLookup", "vLock"} : /\ Goto(w, label)
                                                /\ label = "odLookup" <=> FsContext[f] = None
    BY <1>1 DEF IoControl
  <2>4. ThreadsOK'
    BY <1>0, <1>1, <2>2, <2>3, MoveOK, LabelsAre DEF IoControl, Goto, Use, RequestLabels
  <2>5. QED BY <2>1, <2>4, TypeParts
<1>2. ASSUME NEW f \in Files, Cleanup(f) PROVE TypeOK'
  <2>1. DataOK'
    BY <1>0, <1>2 DEF DataOK, Cleanup, listVars, bindVars, openVars, refVars, powerVars, reqVars, callVars, bindLocals
  <2>2. FsContext[f] \in Contexts \cup {None} /\ (FsContext[f] \in Contexts => FsContext[f] # None)
    BY <1>0, AgentsAssumption DEF DataOK
  <2>3. PICK label \in {"closing", "clMark"} : /\ Goto(f, label)
                                                /\ label = "closing" <=> FsContext[f] = None
    BY <1>2 DEF Cleanup
  <2>4. ThreadsOK'
    BY <1>0, <1>2, <2>2, <2>3, MoveOK, LabelsAre DEF Cleanup, Goto, Use
  <2>5. QED BY <2>1, <2>4, TypeParts
<1>3. ASSUME NEW c \in Contexts, BindAdapter(c) PROVE TypeOK'
  <2>1. DataOK'
    BY <1>0, <1>3 DEF DataOK, BindAdapter, RefOpen, openVars, reqVars, callVars, bindLocals
  <2>2. ThreadsOK'
    BY <1>0, <1>3, MoveOK, LabelsAre, AgentsAssumption DEF BindAdapter, Goto, Use
  <2>5. QED BY <2>1, <2>2, TypeParts
<1>4. ASSUME NEW c \in Contexts, Unbind(c) PROVE TypeOK'
  <2>1. DataOK'
    BY <1>0, <1>4 DEF DataOK, Unbind, listVars, refVars, openVars, reqVars, callVars, bindLocals
  <2>2. ThreadsOK'
    BY <1>0, <1>4, MoveOK, LabelsAre, AgentsAssumption DEF Unbind, Goto, Use, ShutdownLabels
  <2>5. QED BY <2>1, <2>2, TypeParts
<1>5. ASSUME NEW c \in Contexts, SetPower(c) PROVE TypeOK'
  <2>1. DataOK'
    BY <1>0, <1>5 DEF DataOK, SetPower, listVars, bindVars, refVars, openVars, reqVars, callVars, bindLocals
  <2>2. ThreadsOK'
    BY <1>0, <1>5, MoveOK, LabelsAre, AgentsAssumption DEF SetPower, Goto, Use
  <2>5. QED BY <2>1, <2>2, TypeParts
<1>6. QED BY <1>1, <1>2, <1>3, <1>4, <1>5 DEF Environment
-----------------------------------------------------------------------------
\* The steps of OPEN_DEVICE.
LEMMA IoType ==
    ASSUME TypeOK, NEW w \in IoThreads, LookupDevice(w) \/ ClaimDevice(w) \/ OpenFailed(w) \/ OpenDeref(w)
    PROVE  TypeOK'
<1> USE DEF listVars, bindVars, openVars, refVars, powerVars, reqVars, callVars, bindLocals
<1>0. DataOK /\ ThreadsOK
  BY TypeParts
<1>1. CASE LookupDevice(w)
  <2>1. DataOK'
    BY <1>0, <1>1 DEF DataOK, LookupDevice, RefOpen, CallReturns
  <2>2. CASE \E c \in Found : Use(w, c) /\ Goto(w, "odClaim")
    <3>1. PICK c \in Found : Use(w, c) /\ Goto(w, "odClaim")
      BY <2>2
    <3>2. c \in Contexts
      BY <1>0, <3>1 DEF DataOK, Found
    <3>3. c # None /\ "odClaim" \in Labels(w) /\ w \in Agents
      BY <3>2, AgentsAssumption, LabelsAre
    <3>4. ThreadsOK'
      BY <1>0, <3>1, <3>2, <3>3, MoveOK DEF Goto, Use
    <3>5. QED BY <2>1, <3>4, TypeParts
  <2>3. CASE CallReturns(w)
    BY <1>0, <2>1, <2>3, CallReturnsOK, TypeParts
  <2>4. QED BY <1>1, <2>2, <2>3 DEF LookupDevice
<1>2. CASE ClaimDevice(w)
  <2>1. ctx[w] \in Contexts
    BY <1>0, <1>2, AtWork, LabelsAre DEF ClaimDevice
  <2>2. file[w] \in Files \cup {None}
    BY <1>0 DEF DataOK
  <2>3. DataOK'
    BY <1>0, <1>2, <2>1, <2>2 DEF DataOK, ClaimDevice
  <2>4. ThreadsOK'
    BY <1>0, <1>2, StayOK, LabelsAre DEF ClaimDevice, Goto, RequestLabels
  <2>5. QED BY <2>3, <2>4, TypeParts
<1>3. CASE OpenFailed(w)
  <2>3. DataOK'
    BY <1>0, <1>3 DEF DataOK, OpenFailed
  <2>4. ThreadsOK'
    BY <1>0, <1>3, StayOK, LabelsAre DEF OpenFailed, Goto
  <2>5. QED BY <2>3, <2>4, TypeParts
<1>4. CASE OpenDeref(w)
  <2>1. DerefOpen(ctx[w]) /\ CallReturns(w)
    BY <1>4 DEF OpenDeref
  <2>2. /\ ThreadsOK' /\ RefCount' \in [Contexts -> Int] /\ freed' \in [Contexts -> BOOLEAN]
        /\ file' \in [IoThreads -> Files \cup {None}]
        /\ op' \in [IoThreads -> {"none", "open", "oid"}]
    BY <1>0, <2>1, DerefOK, CallReturnsOK
  <2>3. DataOK'
    BY <1>0, <1>4, <2>2 DEF DataOK, OpenDeref
  <2>4. QED BY <2>2, <2>3, TypeParts
<1>5. QED BY <1>1, <1>2, <1>3, <1>4

\* Where a request leaves its caller.
LEMMA ResumeType ==
    ASSUME DataOK, ThreadsOK, NEW t \in IoThreads \cup Files, NEW done \in BOOLEAN,
           pc[t] \in RequestLabels, Resume(t, done)
    PROVE  /\ ThreadsOK'
           /\ file' \in [IoThreads -> Files \cup {None}]
           /\ op' \in [IoThreads -> {"none", "open", "oid"}]
<1>1. CASE Operation(t) = "open" /\ ~done
  <2>1. t \in IoThreads
    BY <1>1, LabelsAre DEF Operation
  <2>2. Goto(t, "odFail") /\ UNCHANGED <<ctx, file, op>>
    BY <1>1 DEF Resume
  <2>3. file' = file /\ op' = op /\ "odFail" \in Labels(t) /\ t \in Agents
    BY <2>1, <2>2, LabelsAre
  <2>4. ThreadsOK'
    BY <2>2, <2>3, StayOK DEF Goto, RequestLabels
  <2>5. QED BY <2>3, <2>4 DEF DataOK
<1>2. CASE Operation(t) = "cleanup"
  <2>1. t \in Files
    BY <1>2, LabelsAre DEF Operation, DataOK
  <2>2. Goto(t, "clSweep") /\ UNCHANGED <<ctx, file, op>>
    BY <1>2 DEF Resume
  <2>3. file' = file /\ op' = op /\ "clSweep" \in Labels(t) /\ t \in Agents
    BY <2>1, <2>2, LabelsAre
  <2>4. ThreadsOK'
    BY <2>2, <2>3, StayOK DEF Goto, RequestLabels
  <2>5. QED BY <2>3, <2>4 DEF DataOK
<1>3. CASE ~(Operation(t) = "open" /\ ~done) /\ Operation(t) # "cleanup"
  <2>1. t \in IoThreads
    BY <1>3, LabelsAre DEF Operation
  <2>2. CallReturns(t)
    BY <1>3 DEF Resume
  <2>3. QED BY <2>1, <2>2, CallReturnsOK
<1>4. QED BY <1>1, <1>2, <1>3

\* The steps of a request.
LEMMA RequestType ==
    ASSUME TypeOK, NEW t \in IoThreads \cup Files, ValidateOpenAndDoRequest(t) PROVE TypeOK'
<1> USE DEF listVars, bindVars, openVars, refVars, powerVars, reqVars, callVars, bindLocals
<1>0. DataOK /\ ThreadsOK
  BY TypeParts
<1>01. /\ t \in Agents /\ RequestLabels \subseteq Labels(t)
       /\ RequestLabels = {"vLock", "vRequest", "vDone", "vFailed"}
       /\ t \in IoThreads => "vWait" \in Labels(t)
       /\ t \notin IoThreads => Operation(t) = "cleanup"
  BY LabelsAre DEF RequestLabels, Operation
<1>1. CASE ValidateOpen(t)
  <2>1. CASE IsBindActive(ctx[t])
    <3>1. DataOK'
      BY <1>0, <1>1, <2>1 DEF DataOK, ValidateOpen
    <3>2. ThreadsOK'
      BY <1>0, <1>01, <1>1, <2>1, StayOK DEF ValidateOpen, Goto
    <3>3. QED BY <3>1, <3>2, TypeParts
  <2>2. CASE ~IsBindActive(ctx[t])
    <3>1. Resume(t, FALSE) /\ pc[t] \in RequestLabels
      BY <1>01, <1>1, <2>2 DEF ValidateOpen
    <3>2. ThreadsOK' /\ file' \in [IoThreads -> Files \cup {None}]
                     /\ op' \in [IoThreads -> {"none", "open", "oid"}]
      BY <1>0, <3>1, ResumeType
    <3>3. DataOK'
      BY <1>0, <1>1, <2>2, <3>2 DEF DataOK, ValidateOpen
    <3>4. QED BY <3>2, <3>3, TypeParts
  <2>3. QED BY <2>1, <2>2
<1>2. CASE WaitForPower(t)
  <2>1. DataOK'
    BY <1>0, <1>2 DEF DataOK, WaitForPower
  <2>2. ThreadsOK'
    BY <1>0, <1>01, <1>2, StayOK DEF WaitForPower, Goto
  <2>3. QED BY <2>1, <2>2, TypeParts
<1>3. CASE Request(t)
  <2>1. filter' \in [Contexts -> BOOLEAN]
    <3>1. ctx[t] \in Contexts
      BY <1>0, <1>01, <1>3, AtWork DEF Request
    <3>2. filter[ctx[t]] \in BOOLEAN
      BY <1>0, <3>1 DEF DataOK
    <3>3. PICK b \in BOOLEAN : filter' = [filter EXCEPT ![ctx[t]] = b]
      <4>1. PICK done, on \in BOOLEAN :
                filter' = [filter EXCEPT ![ctx[t]] = IF done THEN on ELSE filter[ctx[t]]]
        BY <1>3, <3>2 DEF Request, DoRequest
      <4>2. QED BY <3>2, <4>1
    <3>4. filter \in [Contexts -> BOOLEAN]
      BY <1>0 DEF DataOK
    <3>5. QED BY <3>3, <3>4
  <2>2. DataOK'
    BY <1>0, <1>3, <2>1 DEF DataOK, Request
  <2>3. ThreadsOK'
    BY <1>0, <1>01, <1>3, StayOK DEF Request, DoRequest, Goto
  <2>4. QED BY <2>2, <2>3, TypeParts
<1>4. CASE ReleaseBinding(t)
  <2>1. PICK done \in BOOLEAN : Resume(t, done) /\ pc[t] \in RequestLabels
    BY <1>01, <1>4 DEF ReleaseBinding
  <2>2. ThreadsOK' /\ file' \in [IoThreads -> Files \cup {None}]
                   /\ op' \in [IoThreads -> {"none", "open", "oid"}]
    BY <1>0, <2>1, ResumeType
  <2>3. PendedSendCount' \in [Contexts -> Int]
    <3>1. ctx[t] \in Contexts
      BY <1>0, <1>01, <1>4, AtWork DEF ReleaseBinding
    <3>2. PendedSendCount' = [PendedSendCount EXCEPT ![ctx[t]] = PendedSendCount[ctx[t]] - 1]
      BY <1>4 DEF ReleaseBinding
    <3>3. QED BY <1>0, <3>1, <3>2 DEF DataOK
  <2>5. UNCHANGED <<listVars, bindVars, openVars, refVars, powerVars, filter, fileState, bindLocals>>
    BY <1>4 DEF ReleaseBinding
  <2>6. DataOK'
    BY <1>0, <2>2, <2>3, <2>5 DEF DataOK
  <2>4. QED BY <2>2, <2>6, TypeParts
<1>5. QED BY <1>1, <1>2, <1>3, <1>4 DEF ValidateOpenAndDoRequest

\* The steps of Cleanup and Close.
LEMMA FileType == ASSUME TypeOK, NEW f \in Files, CleanupMark(f) \/ CleanupSweep(f) \/ Close(f) PROVE TypeOK'
<1> USE DEF listVars, bindVars, openVars, refVars, powerVars, reqVars, callVars, bindLocals
<1>0. DataOK /\ ThreadsOK
  BY TypeParts
<1>1. CASE CleanupMark(f)
  <2>1. DataOK'
    BY <1>0, <1>1 DEF DataOK, CleanupMark
  <2>2. ThreadsOK'
    BY <1>0, <1>1, StayOK, LabelsAre DEF CleanupMark, Goto, RequestLabels
  <2>3. QED BY <2>1, <2>2, TypeParts
<1>2. CASE CleanupSweep(f)
  <2>1. DataOK'
    BY <1>0, <1>2 DEF DataOK, CleanupSweep
  <2>2. ThreadsOK'
    BY <1>0, <1>2, MoveOK, LabelsAre DEF CleanupSweep, Goto, Use
  <2>3. QED BY <2>1, <2>2, TypeParts
<1>3. CASE Close(f)
  <2>1. DataOK'
    <3>1. RefCount' \in [Contexts -> Int] /\ freed' \in [Contexts -> BOOLEAN]
      BY <1>0, <1>3, DerefOK DEF Close, DataOK
    <3>2. QED BY <1>0, <1>3, <3>1 DEF DataOK, Close
  <2>2. ThreadsOK'
    BY <1>0, <1>3, StayOK, LabelsAre DEF Close, Goto
  <2>3. QED BY <2>1, <2>2, TypeParts
<1>4. QED BY <1>1, <1>2, <1>3

\* The steps of the shutdown, in either thread.
LEMMA ShutdownType == ASSUME TypeOK, NEW t \in {"bind", "pnp"}, ShutdownBinding(t) PROVE TypeOK'
<1> USE DEF listVars, bindVars, openVars, refVars, powerVars, reqVars, callVars, bindLocals
<1>0. DataOK /\ ThreadsOK
  BY TypeParts
<1>01. t \in Agents /\ ShutdownLabels \cup {"idle"} \subseteq Labels(t)
  BY LabelsAre
<1>02. ShutdownLabels = {"sdLock", "sdFilter", "sdWait", "sdClose", "sdIdle", "sdUnlink", "sdFree", "sdDeref"}
  BY DEF ShutdownLabels
<1>1. CASE ShutdownStart(t)
  <2>1. DataOK'
    BY <1>0, <1>1 DEF DataOK, ShutdownStart
  <2>2. CASE bindFlags[ctx[t]] = "OPENING"
    BY <1>0, <1>01, <1>1, <2>2, <2>1, MoveOK, TypeParts DEF ShutdownStart, Return, Goto, Use
  <2>3. CASE bindFlags[ctx[t]] # "OPENING"
    <3>1. PICK label \in {"sdFilter", "sdUnlink"} : Goto(t, label) /\ ctx' = ctx
      BY <1>1, <2>3 DEF ShutdownStart
    <3>2. ThreadsOK'
      BY <1>0, <1>01, <1>02, <1>1, <3>1, StayOK DEF ShutdownStart, Goto
    <3>3. QED BY <2>1, <3>2, TypeParts
  <2>4. QED BY <2>2, <2>3
<1>2. CASE ShutdownFilter(t)
  <2>1. filter' \in [Contexts -> BOOLEAN]
    <3>1. ctx[t] \in Contexts
      BY <1>0, <1>01, <1>2, AtWork DEF ShutdownFilter
    <3>2. PICK b \in BOOLEAN : filter' = [filter EXCEPT ![ctx[t]] = b]
      <4>1. PICK done \in BOOLEAN :
                filter' = [filter EXCEPT ![ctx[t]] = IF done THEN FALSE ELSE filter[ctx[t]]]
        BY <1>2 DEF ShutdownFilter, DoRequest
      <4>2. filter[ctx[t]] \in BOOLEAN
        BY <1>0, <3>1 DEF DataOK
      <4>3. QED BY <4>1, <4>2
    <3>3. filter \in [Contexts -> BOOLEAN]
      BY <1>0 DEF DataOK
    <3>4. QED BY <3>2, <3>3
  <2>2. DataOK'
    BY <1>0, <1>2, <2>1 DEF DataOK, ShutdownFilter
  <2>3. ThreadsOK'
    BY <1>0, <1>01, <1>02, <1>2, StayOK DEF ShutdownFilter, DoRequest, Goto
  <2>4. QED BY <2>2, <2>3, TypeParts
<1>3. CASE ShutdownWait(t)
  <2>1. DataOK'
    BY <1>0, <1>3 DEF DataOK, ShutdownWait
  <2>2. ThreadsOK'
    BY <1>0, <1>01, <1>02, <1>3, StayOK DEF ShutdownWait, Goto
  <2>3. QED BY <2>1, <2>2, TypeParts
<1>4. CASE ShutdownClose(t)
  <2>1. DataOK'
    BY <1>0, <1>4 DEF DataOK, ShutdownClose
  <2>2. ThreadsOK'
    BY <1>0, <1>01, <1>02, <1>4, StayOK DEF ShutdownClose, Goto
  <2>3. QED BY <2>1, <2>2, TypeParts
<1>5. CASE ShutdownIdle(t)
  <2>1. DataOK'
    BY <1>0, <1>5 DEF DataOK, ShutdownIdle
  <2>2. ThreadsOK'
    BY <1>0, <1>01, <1>02, <1>5, StayOK DEF ShutdownIdle, Goto
  <2>3. QED BY <2>1, <2>2, TypeParts
<1>6. CASE ShutdownUnlink(t)
  <2>1. DataOK'
    BY <1>0, <1>6 DEF DataOK, ShutdownUnlink
  <2>2. ThreadsOK'
    BY <1>0, <1>01, <1>02, <1>6, StayOK DEF ShutdownUnlink, Goto
  <2>3. QED BY <2>1, <2>2, TypeParts
<1>7. CASE ShutdownFree(t)
  <2>1. DataOK'
    BY <1>0, <1>7 DEF DataOK, ShutdownFree
  <2>2. ThreadsOK'
    BY <1>0, <1>01, <1>02, <1>7, StayOK DEF ShutdownFree, Goto
  <2>3. QED BY <2>1, <2>2, TypeParts
<1>8. CASE ShutdownDeref(t)
  <2>1. DataOK'
    <3>1. RefCount' \in [Contexts -> Int] /\ freed' \in [Contexts -> BOOLEAN]
      BY <1>0, <1>8, DerefOK DEF ShutdownDeref
    <3>2. QED BY <1>0, <1>8, <3>1 DEF DataOK, ShutdownDeref
  <2>2. ThreadsOK'
    BY <1>0, <1>01, <1>8, MoveOK DEF ShutdownDeref, Return, Goto, Use
  <2>3. QED BY <2>1, <2>2, TypeParts
<1>9. QED BY <1>1, <1>2, <1>3, <1>4, <1>5, <1>6, <1>7, <1>8 DEF ShutdownBinding

\* The steps of CreateBinding.
LEMMA CreateType == ASSUME TypeOK, CreateBinding PROVE TypeOK'
<1> USE DEF listVars, bindVars, openVars, refVars, powerVars, reqVars, callVars, bindLocals
<1>0. DataOK /\ ThreadsOK
  BY TypeParts
<1>1. CASE CreateBindingLookup
  <2>1. DataOK'
    BY <1>0, <1>1 DEF DataOK, CreateBindingLookup, RefOpen, Found
  <2>2. ThreadsOK'
    BY <1>0, <1>1, StayOK, LabelsAre DEF CreateBindingLookup, Goto, ShutdownLabels
  <2>3. QED BY <2>1, <2>2, TypeParts
<1>2. CASE CreateBindingDerefTmp
  <2>1. DataOK'
    <3>1. RefCount' \in [Contexts -> Int] /\ freed' \in [Contexts -> BOOLEAN]
      BY <1>0, <1>2, DerefOK DEF CreateBindingDerefTmp
    <3>2. QED BY <1>0, <1>2, <3>1 DEF DataOK, CreateBindingDerefTmp
  <2>2. ThreadsOK'
    BY <1>0, <1>2, StayOK, LabelsAre DEF CreateBindingDerefTmp, Goto, ShutdownLabels
  <2>3. QED BY <2>1, <2>2, TypeParts
<1>3. CASE CreateBindingOpening
  <2>1. DataOK'
    BY <1>0, <1>3 DEF DataOK, CreateBindingOpening
  <2>2. ThreadsOK'
    BY <1>0, <1>3, StayOK, LabelsAre DEF CreateBindingOpening, Goto, ShutdownLabels
  <2>3. QED BY <2>1, <2>2, TypeParts
<1>4. CASE CreateBindingAllocate
  <2>1. DataOK'
    <3>1. ctx["bind"] \in Contexts
      BY <1>0, <1>4, AtWork, LabelsAre DEF CreateBindingAllocate
    <3>2. named' \subseteq Contexts
      BY <1>0, <1>4, <3>1 DEF DataOK, CreateBindingAllocate
    <3>3. QED BY <1>0, <1>4, <3>2 DEF DataOK, CreateBindingAllocate
  <2>2. ThreadsOK'
    BY <1>0, <1>4, StayOK, LabelsAre DEF CreateBindingAllocate, Goto, ShutdownLabels
  <2>3. QED BY <2>1, <2>2, TypeParts
<1>5. CASE CreateBindingOpen
  <2>1. DataOK'
    BY <1>0, <1>5 DEF DataOK, CreateBindingOpen
  <2>2. ThreadsOK'
    BY <1>0, <1>5, StayOK, LabelsAre DEF CreateBindingOpen, Goto, ShutdownLabels
  <2>3. QED BY <2>1, <2>2, TypeParts
<1>6. CASE CreateBindingQuery
  <2>1. DataOK'
    BY <1>0, <1>6 DEF DataOK, CreateBindingQuery
  <2>2. ThreadsOK'
    BY <1>0, <1>6, StayOK, LabelsAre DEF CreateBindingQuery, Goto, ShutdownLabels
  <2>3. QED BY <2>1, <2>2, TypeParts
<1>7. CASE CreateBindingReadFlags
  <2>1. ctx["bind"] \in Contexts
    BY <1>0, <1>7, AtWork, LabelsAre DEF CreateBindingReadFlags
  <2>2. openActive[ctx["bind"]] \in BOOLEAN /\ unbindReceived[ctx["bind"]] \in BOOLEAN
    BY <1>0, <2>1 DEF DataOK
  <2>3. DataOK'
    BY <1>0, <1>7, <2>2 DEF DataOK, CreateBindingReadFlags
  <2>4. ThreadsOK'
    BY <1>0, <1>7, StayOK, LabelsAre DEF CreateBindingReadFlags, Goto
  <2>5. QED BY <2>3, <2>4, TypeParts
<1>8. CASE CreateBindingWriteFlags
  <2>1. readFlags[1] \in BOOLEAN /\ readFlags[2] \in BOOLEAN
    BY <1>0 DEF DataOK
  <2>2. DataOK'
    BY <1>0, <1>8, <2>1 DEF DataOK, CreateBindingWriteFlags
  <2>3. ThreadsOK'
    BY <1>0, <1>8, StayOK, LabelsAre DEF CreateBindingWriteFlags, Goto
  <2>4. QED BY <2>2, <2>3, TypeParts
<1>9. CASE CreateBindingActive
  <2>1. DataOK'
    BY <1>0, <1>9 DEF DataOK, CreateBindingActive
  <2>2. CASE unbindReceived[ctx["bind"]]
    BY <1>0, <1>9, <2>1, <2>2, StayOK, LabelsAre, TypeParts DEF CreateBindingActive, Goto
  <2>3. CASE ~unbindReceived[ctx["bind"]]
    BY <1>0, <1>9, <2>1, <2>3, IdleOK, LabelsAre, TypeParts DEF CreateBindingActive
  <2>4. QED BY <2>2, <2>3
<1>10. CASE CreateBindingFailed
  <2>1. DataOK'
    BY <1>0, <1>10 DEF DataOK, CreateBindingFailed
  <2>2. ThreadsOK'
    BY <1>0, <1>10, StayOK, LabelsAre DEF CreateBindingFailed, Goto, ShutdownLabels
  <2>3. QED BY <2>1, <2>2, TypeParts
<1>11. QED BY <1>1, <1>2, <1>3, <1>4, <1>5, <1>6, <1>7, <1>8, <1>9, <1>10 DEF CreateBinding

\* The steps of the power events.
LEMMA PowerType == ASSUME TypeOK, SetPoweredUpEvent \/ PowerDownWait PROVE TypeOK'
<1> USE DEF listVars, bindVars, openVars, refVars, powerVars, reqVars, callVars, bindLocals
<1>0. DataOK /\ ThreadsOK
  BY TypeParts
<1>1. CASE SetPoweredUpEvent
  <2>1. ctx["pnp"] \in Contexts
    BY <1>0, <1>1, AtWork, LabelsAre DEF SetPoweredUpEvent
  <2>2. powerOn[ctx["pnp"]] \in BOOLEAN
    BY <1>0, <2>1 DEF DataOK
  <2>3. DataOK'
    BY <1>0, <1>1, <2>1, <2>2 DEF DataOK, SetPoweredUpEvent
  <2>4. CASE powerOn[ctx["pnp"]]
    BY <1>0, <1>1, <2>3, <2>4, IdleOK, LabelsAre, TypeParts DEF SetPoweredUpEvent
  <2>5. CASE ~powerOn[ctx["pnp"]]
    BY <1>0, <1>1, <2>3, <2>5, StayOK, LabelsAre, TypeParts DEF SetPoweredUpEvent, Goto
  <2>6. QED BY <2>4, <2>5
<1>2. CASE PowerDownWait
  <2>1. DataOK'
    BY <1>0, <1>2 DEF DataOK, PowerDownWait
  <2>2. ThreadsOK'
    BY <1>0, <1>2, IdleOK, LabelsAre DEF PowerDownWait
  <2>3. QED BY <2>1, <2>2, TypeParts
<1>3. QED BY <1>1, <1>2

-----------------------------------------------------------------------------
\* What holds of the types at the start, and what every step keeps.
LEMMA InitType == Init => TypeOK
<1>1. SUFFICES ASSUME Init PROVE TypeOK
  OBVIOUS
<1>2. DataOK
  <2>1. /\ unbindReceived \in [Contexts -> BOOLEAN] /\ BindingHandle \in [Contexts -> BOOLEAN]
        /\ openActive \in [Contexts -> BOOLEAN] /\ freed \in [Contexts -> BOOLEAN]
        /\ powerOn \in [Contexts -> BOOLEAN] /\ PoweredUpEvent \in [Contexts -> BOOLEAN]
        /\ filter \in [Contexts -> BOOLEAN]
    BY <1>1 DEF Init
  <2>2. readFlags \in BOOLEAN \X BOOLEAN /\ tmp \in Contexts \cup {None}
    BY <1>1 DEF Init
  <2>3. /\ RefCount \in [Contexts -> Int] /\ PendedSendCount \in [Contexts -> Int]
        /\ bindFlags \in [Contexts -> {"none", "IDLE", "OPENING", "FAILED", "ACTIVE", "CLOSING"}]
        /\ pFileObject \in [Contexts -> Files \cup {None}]
        /\ FsContext \in [Files -> Contexts \cup {None}]
        /\ fileState \in [Files -> {"open", "cleanup", "closed"}]
        /\ file \in [IoThreads -> Files \cup {None}]
        /\ op \in [IoThreads -> {"none", "open", "oid"}]
    BY <1>1 DEF Init
  <2>4. OpenList \subseteq Contexts /\ named \subseteq Contexts
    BY <1>1 DEF Init
  <2>5. QED BY <2>1, <2>2, <2>3, <2>4 DEF DataOK
<1>3. \A t \in Agents : "idle" \in Labels(t)
  BY DEF Labels
<1>4. ThreadsOK
  BY <1>1, <1>3 DEF Init, ThreadsOK
<1>5. QED BY <1>2, <1>4, TypeParts

\* Every step.
LEMMA TypeStep == TypeOK /\ [Next]_vars => TypeOK'
<1>1. SUFFICES ASSUME TypeOK, [Next]_vars PROVE TypeOK'
  OBVIOUS
<1>2. CASE UNCHANGED vars
  BY <1>1, <1>2 DEF vars, TypeOK, listVars, bindVars, openVars, refVars, powerVars, reqVars,
                    callVars, bindLocals
<1>3. CASE Next
  BY <1>1, <1>3, EnvironmentType, IoType, RequestType, FileType, ShutdownType, CreateType,
     PowerType DEF Next, IoThread, FileThread, BindThread, PnPThread
<1>4. QED BY <1>1, <1>2, <1>3

\* Every variable of the open contexts has its type and every thread is where
\* it can be, however many bindings, files and threads there are.
THEOREM TypeCorrect == Spec => []TypeOK
BY InitType, TypeStep, PTL DEF Spec
-----------------------------------------------------------------------------
(* Who may step, and what it leaves alone.                                  *)

Callers == IoThreads \cup Files
Binders == {"bind", "pnp"}

CallerStep(t) ==
    \/ t \in IoThreads /\ \/ IoThread(t)
                          \/ \E f \in Files, request \in {"open", "oid"} : IoControl(t, f, request)
    \/ t \in Files /\ (FileThread(t) \/ Cleanup(t))

BinderStep(t) ==
    \/ t = "bind" /\ (BindThread \/ \E c \in Contexts : BindAdapter(c))
    \/ t = "pnp" /\ (PnPThread \/ \E c \in Contexts : Unbind(c) \/ SetPower(c))

\* Every step is one of a caller or of a binder.
LEMMA StepOfWhom == Next => (\E t \in Callers : CallerStep(t)) \/ (\E t \in Binders : BinderStep(t))
BY DEF Next, Environment, CallerStep, BinderStep, Callers, Binders

\* The other threads stay where they are.
Alone(t) == \A u \in Agents : u # t => pc'[u] = pc[u] /\ ctx'[u] = ctx[u]

\* Goto and Use are about one thread.
LEMMA MovesAlone ==
    ASSUME NEW t, NEW label, NEW c, TypeOK, Goto(t, label), Use(t, c) \/ ctx' = ctx
    PROVE  /\ Alone(t)
           /\ t \in Agents => pc'[t] = label /\ (ctx'[t] = ctx[t] \/ ctx'[t] = c)
           /\ t \in Agents /\ Use(t, c) => ctx'[t] = c
BY DEF Goto, Use, Alone, TypeOK

\* The same of a call that returns.
LEMMA ReturnsAlone ==
    ASSUME NEW t, TypeOK, Return(t) \/ CallReturns(t)
    PROVE  Alone(t) /\ (t \in Agents => pc'[t] = "idle" /\ ctx'[t] = None)
BY MovesAlone DEF Return, CallReturns

\* Where the end of a request takes its caller.
LEMMA ResumesAlone ==
    ASSUME NEW t \in Callers, NEW done \in BOOLEAN, TypeOK, Resume(t, done)
    PROVE  /\ Alone(t)
           /\ \/ pc'[t] = "odFail" /\ ctx'[t] = ctx[t] /\ t \in IoThreads /\ op[t] = "open"
                 /\ UNCHANGED <<file, op>> /\ ~done
              \/ pc'[t] = "clSweep" /\ ctx'[t] = ctx[t] /\ t \in Files /\ UNCHANGED <<file, op>>
              \/ pc'[t] = "idle" /\ ctx'[t] = None /\ t \in IoThreads /\ CallReturns(t)
<1>0. t \in Agents /\ (t \in Files <=> t \notin IoThreads)
  BY LabelsAre DEF Callers
<1>1. CASE Operation(t) = "open" /\ ~done
  <2>1. Goto(t, "odFail") /\ UNCHANGED <<ctx, file, op>> /\ t \in IoThreads /\ op[t] = "open"
    BY <1>1 DEF Resume, Operation
  <2>2. QED BY <1>0, <1>1, <2>1, MovesAlone
<1>2. CASE Operation(t) = "cleanup"
  <2>1. Goto(t, "clSweep") /\ UNCHANGED <<ctx, file, op>> /\ t \in Files
    BY <1>0, <1>2 DEF Resume, Operation, TypeOK
  <2>2. QED BY <1>0, <2>1, MovesAlone
<1>3. CASE ~(Operation(t) = "open" /\ ~done) /\ Operation(t) # "cleanup"
  <2>1. CallReturns(t) /\ t \in IoThreads
    BY <1>0, <1>3 DEF Resume, Operation
  <2>2. QED BY <1>0, <2>1, ReturnsAlone
<1>4. QED BY <1>1, <1>2, <1>3

\* A caller changes no list, no binding and no thread but itself.
LEMMA CallerFrame ==
    ASSUME TypeOK, NEW t \in Callers, CallerStep(t)
    PROVE  Alone(t) /\ UNCHANGED <<listVars, bindVars, powerVars, bindLocals>>
<1> USE DEF listVars, bindVars, openVars, refVars, powerVars, reqVars, callVars, bindLocals
<1>1. ASSUME NEW f \in Files, NEW request \in {"open", "oid"}, IoControl(t, f, request)
      PROVE  Alone(t) /\ UNCHANGED <<listVars, bindVars, powerVars, bindLocals>>
  BY <1>1, MovesAlone DEF IoControl
<1>2. ASSUME Cleanup(t) PROVE Alone(t) /\ UNCHANGED <<listVars, bindVars, powerVars, bindLocals>>
  BY <1>2, MovesAlone DEF Cleanup
<1>3. ASSUME LookupDevice(t) PROVE Alone(t) /\ UNCHANGED <<listVars, bindVars, powerVars, bindLocals>>
  BY <1>3, MovesAlone, ReturnsAlone DEF LookupDevice
<1>4. ASSUME ClaimDevice(t) PROVE Alone(t) /\ UNCHANGED <<listVars, bindVars, powerVars, bindLocals>>
  BY <1>4, MovesAlone DEF ClaimDevice
<1>5. ASSUME OpenFailed(t) PROVE Alone(t) /\ UNCHANGED <<listVars, bindVars, powerVars, bindLocals>>
  BY <1>5, MovesAlone DEF OpenFailed
<1>6. ASSUME OpenDeref(t) PROVE Alone(t) /\ UNCHANGED <<listVars, bindVars, powerVars, bindLocals>>
  BY <1>6, ReturnsAlone DEF OpenDeref
<1>7. ASSUME ValidateOpen(t) PROVE Alone(t) /\ UNCHANGED <<listVars, bindVars, powerVars, bindLocals>>
  BY <1>7, MovesAlone, ResumesAlone DEF ValidateOpen
<1>8. ASSUME WaitForPower(t) PROVE Alone(t) /\ UNCHANGED <<listVars, bindVars, powerVars, bindLocals>>
  BY <1>8, MovesAlone DEF WaitForPower
<1>9. ASSUME Request(t) PROVE Alone(t) /\ UNCHANGED <<listVars, bindVars, powerVars, bindLocals>>
  BY <1>9, MovesAlone DEF Request, DoRequest
<1>10. ASSUME ReleaseBinding(t) PROVE Alone(t) /\ UNCHANGED <<listVars, bindVars, powerVars, bindLocals>>
  <2>1. PICK done \in BOOLEAN : Resume(t, done)
    BY <1>10 DEF ReleaseBinding
  <2>2. QED BY <1>10, <2>1, ResumesAlone DEF ReleaseBinding
<1>11. ASSUME CleanupMark(t) PROVE Alone(t) /\ UNCHANGED <<listVars, bindVars, powerVars, bindLocals>>
  BY <1>11, MovesAlone DEF CleanupMark
<1>12. ASSUME CleanupSweep(t) PROVE Alone(t) /\ UNCHANGED <<listVars, bindVars, powerVars, bindLocals>>
  BY <1>12, MovesAlone DEF CleanupSweep
<1>13. ASSUME Close(t) PROVE Alone(t) /\ UNCHANGED <<listVars, bindVars, powerVars, bindLocals>>
  BY <1>13, MovesAlone DEF Close
<1>14. QED BY <1>1, <1>2, <1>3, <1>4, <1>5, <1>6, <1>7, <1>8, <1>9, <1>10, <1>11, <1>12, <1>13
       DEF CallerStep, IoThread, FileThread, ValidateOpenAndDoRequest
-----------------------------------------------------------------------------
(* The life of a binding: which thread works on it, and how far it is.      *)

HandleLabels == {"cbQuery", "cbRead", "cbWrite", "cbActive", "cbFailOpen", "sdFilter", "sdWait",
                 "sdClose", "pwEvent", "pwWait"}

Bound(c) == bindFlags[c] = "ACTIVE" /\ BindingHandle[c]
Bare(c) == bindFlags[c] \in {"IDLE", "FAILED"} /\ ~BindingHandle[c]

\* The context that binder t works on is as far as t is.
Stage(t, c) ==
    /\ c \in OpenList <=> pc[t] \notin {"sdFree", "sdDeref"}
    /\ pc[t] = "sdLock" => Bound(c) \/ (t = "bind" /\ Bare(c))
    /\ pc[t] # "sdLock" => (BindingHandle[c] <=> pc[t] \in HandleLabels)
    /\ pc[t] \in {"cbLookup", "cbDerefTmp", "cbOpening"} => bindFlags[c] = "IDLE"
    /\ pc[t] \in {"cbName", "cbOpen", "cbQuery", "cbRead", "cbWrite", "cbActive"}
          => bindFlags[c] = "OPENING"
    /\ pc[t] = "cbFail" => bindFlags[c] \in {"IDLE", "OPENING"}
    /\ pc[t] = "cbFailOpen" => bindFlags[c] \in {"OPENING", "ACTIVE"}
    /\ pc[t] \in {"sdFilter", "sdWait", "sdClose", "sdIdle"} => bindFlags[c] = "CLOSING"
    /\ pc[t] \in {"pwEvent", "pwWait"} => bindFlags[c] = "ACTIVE"
    /\ pc[t] \in {"sdUnlink", "sdFree", "sdDeref"} => bindFlags[c] \in {"IDLE", "FAILED"}

\* A context that no binder works on is bound, or done with, or not yet made.
Settled(c) ==
    \/ c \in OpenList /\ Bound(c)
    \/ c \notin OpenList /\ ~BindingHandle[c] /\ bindFlags[c] \in {"none", "IDLE", "FAILED"}

\* Nobody has heard of a context that is not yet made.
Unknown(c) ==
    /\ c \notin named /\ ~freed[c] /\ tmp # c
    /\ \A t \in Agents : ctx[t] # c
    /\ \A f \in Files : FsContext[f] # c

Life ==
    /\ ctx["bind"] # None => ctx["bind"] # ctx["pnp"]
    /\ \A t \in Binders : \A c \in Contexts : ctx[t] = c => Stage(t, c)
    /\ \A c \in Contexts : ctx["bind"] # c /\ ctx["pnp"] # c => Settled(c)
    /\ \A c \in Contexts : bindFlags[c] = "none" => Unknown(c)
    /\ tmp # None <=> pc["bind"] = "cbDerefTmp"

\* Nothing is bound at the start.
LEMMA LifeInit == Init => Life
<1>1. SUFFICES ASSUME Init PROVE Life
  OBVIOUS
<1>2. \A t \in Agents : pc[t] = "idle" /\ ctx[t] = None
  BY <1>1 DEF Init
<1>3. \A c \in Contexts : c # None
  BY AgentsAssumption
<1>4. \A c \in Contexts : Settled(c) /\ Unknown(c)
  BY <1>1, <1>2, <1>3 DEF Init, Settled, Unknown
<1>5. tmp = None
  BY <1>1 DEF Init
<1>6. QED BY <1>2, <1>3, <1>4, <1>5, LabelsAre DEF Life, Binders

\* A step of a caller that finds only what is known.
LEMMA CallerLife ==
    ASSUME TypeOK, Life, NEW t \in Callers, CallerStep(t),
           \A c \in Contexts : bindFlags[c] = "none" =>
               ctx'[t] # c /\ freed'[c] = freed[c] /\ \A f \in Files : FsContext'[f] # c
    PROVE  Life'
<1> USE DEF listVars, bindVars, bindLocals
<1>1. Alone(t) /\ UNCHANGED <<OpenList, named, bindFlags, BindingHandle, tmp>>
  BY CallerFrame
<1>2. t # "bind" /\ t # "pnp" /\ {"bind", "pnp"} \subseteq Agents
  BY LabelsAre DEF Callers
<1>3. \A u \in Binders : pc'[u] = pc[u] /\ ctx'[u] = ctx[u]
  BY <1>1, <1>2 DEF Alone, Binders
<1>4. \A u \in Binders : \A c \in Contexts : Stage(u, c) => Stage(u, c)'
  BY <1>1, <1>3 DEF Stage, Bound, Bare
<1>5. \A c \in Contexts : Settled(c) => Settled(c)'
  BY <1>1 DEF Settled, Bound
<1>6. \A c \in Contexts : bindFlags[c] = "none" => Unknown(c)'
  BY <1>1 DEF Life, Unknown, Alone
<1>7. QED BY <1>1, <1>3, <1>4, <1>5, <1>6 DEF Life, Binders

\* What a caller has or finds is known.
LEMMA WhatIsKnown ==
    ASSUME TypeOK, Life, NEW c \in Contexts, bindFlags[c] = "none"
    PROVE  /\ \A t \in Agents : ctx[t] # c
           /\ \A f \in Files : FsContext[f] # c
           /\ c \notin Found /\ tmp # c /\ ~freed[c]
BY DEF Life, Unknown, Found

\* Letting go of a reference frees that context only.
LEMMA DerefElsewhere ==
    ASSUME TypeOK, NEW c, DerefOpen(c)
    PROVE  \A d \in Contexts : d # c => freed'[d] = freed[d] /\ RefCount'[d] = RefCount[d]
BY DEF TypeOK, DerefOpen

\* Callers change the life of no binding.
LEMMA CallersLife == ASSUME TypeOK, Life, NEW t \in Callers, CallerStep(t) PROVE Life'
<1> USE DEF listVars, bindVars, openVars, refVars, powerVars, reqVars, callVars, bindLocals
<1>0. t \in Agents /\ (t \in IoThreads \/ t \in Files)
  BY LabelsAre DEF Callers
<1> DEFINE Safe == \A c \in Contexts : bindFlags[c] = "none" =>
               ctx'[t] # c /\ freed'[c] = freed[c] /\ \A f \in Files : FsContext'[f] # c
<1>01. \A c \in Contexts : c # None
  BY AgentsAssumption
<1>1. ASSUME NEW f \in Files, NEW request \in {"open", "oid"}, IoControl(t, f, request)
      PROVE  Safe
  BY <1>0, <1>1, WhatIsKnown, MovesAlone DEF IoControl
<1>2. ASSUME t \in Files, Cleanup(t) PROVE Safe
  BY <1>0, <1>2, WhatIsKnown, MovesAlone DEF Cleanup
<1>3. ASSUME LookupDevice(t) PROVE Safe
  <2>1. CASE \E c \in Found : RefOpen(c) /\ Use(t, c) /\ Goto(t, "odClaim") /\ UNCHANGED openVars
    BY <1>0, <2>1, WhatIsKnown, MovesAlone DEF RefOpen
  <2>2. CASE CallReturns(t) /\ UNCHANGED <<openVars, refVars>>
    BY <1>0, <1>01, <2>2, WhatIsKnown, ReturnsAlone
  <2>3. QED BY <1>3, <2>1, <2>2 DEF LookupDevice
<1>4. ASSUME ClaimDevice(t) PROVE Safe
  BY <1>0, <1>4, WhatIsKnown DEF ClaimDevice, TypeOK
<1>5. ASSUME OpenFailed(t) PROVE Safe
  BY <1>0, <1>01, <1>5, WhatIsKnown DEF OpenFailed, TypeOK
<1>6. ASSUME OpenDeref(t) PROVE Safe
  BY <1>0, <1>01, <1>6, WhatIsKnown, ReturnsAlone, DerefElsewhere DEF OpenDeref
<1>7. ASSUME ValidateOpen(t) PROVE Safe
  BY <1>0, <1>01, <1>7, WhatIsKnown, ResumesAlone DEF ValidateOpen
<1>8. ASSUME WaitForPower(t) PROVE Safe
  BY <1>0, <1>8, WhatIsKnown DEF WaitForPower
<1>9. ASSUME Request(t) PROVE Safe
  BY <1>0, <1>9, WhatIsKnown DEF Request
<1>10. ASSUME ReleaseBinding(t) PROVE Safe
  <2>1. PICK done \in BOOLEAN : Resume(t, done)
    BY <1>10 DEF ReleaseBinding
  <2>2. ctx'[t] = ctx[t] \/ ctx'[t] = None
    BY <2>1, ResumesAlone
  <2>3. UNCHANGED <<FsContext, freed>>
    BY <1>10 DEF ReleaseBinding
  <2>4. QED BY <1>0, <1>01, <2>2, <2>3, WhatIsKnown
<1>11. ASSUME t \in Files, CleanupMark(t) PROVE Safe
  BY <1>0, <1>11, WhatIsKnown DEF CleanupMark
<1>12. ASSUME t \in Files, CleanupSweep(t) PROVE Safe
  BY <1>0, <1>01, <1>12, WhatIsKnown, MovesAlone DEF CleanupSweep
<1>13. ASSUME t \in Files, Close(t) PROVE Safe
  <2>1. \A c \in Contexts : c # FsContext[t] => freed'[c] = freed[c]
    BY <1>13, DerefElsewhere DEF Close
  <2>2. \A g \in Files : FsContext'[g] = IF g = t THEN None ELSE FsContext[g]
    BY <1>13 DEF Close, TypeOK
  <2>3. ctx' = ctx
    BY <1>13 DEF Close
  <2>4. QED BY <1>0, <1>01, <1>13, <2>1, <2>2, <2>3, WhatIsKnown
<1>14. Safe
  BY <1>1, <1>2, <1>3, <1>4, <1>5, <1>6, <1>7, <1>8, <1>9, <1>10, <1>11, <1>12, <1>13
       DEF CallerStep, IoThread, FileThread, ValidateOpenAndDoRequest
<1>15. QED BY <1>14, CallerLife

-----------------------------------------------------------------------------
\* A binder touches no file and no ioctl.
FilesKept == UNCHANGED <<FsContext, pFileObject, file, op, fileState, PendedSendCount>>

\* Only the binding c changes, and it is one that has been made.
OnlyBinding(c) ==
    /\ \A d \in Contexts : d # c => /\ d \in OpenList' <=> d \in OpenList
                                    /\ bindFlags'[d] = bindFlags[d]
                                    /\ BindingHandle'[d] = BindingHandle[d]
                                    /\ d \in named' => d \in named
                                    /\ bindFlags[d] = "none" => freed'[d] = freed[d] /\ tmp' # d
    /\ bindFlags'[c] # "none"

\* Binder t goes on with c, or leaves it settled.
LeavesStaged(t, c) ==
    \/ ctx'[t] = c /\ Stage(t, c)'
    \/ ctx'[t] = None /\ Settled(c)'

\* Binder t works on c, or takes a context that no binder works on.
WorksOn(t, c) ==
    \/ ctx[t] = c
    \/ ctx[t] = None /\ \A u \in Binders : ctx[u] # c

\* A step of binder t that changes the binding c only.
LEMMA BinderLife ==
    ASSUME TypeOK, Life, NEW t \in Binders, NEW c \in Contexts, Alone(t), FilesKept,
           WorksOn(t, c), OnlyBinding(c),
           LeavesStaged(t, c),
           tmp' # None <=> pc'["bind"] = "cbDerefTmp"
    PROVE  Life'
<1> USE DEF OnlyBinding, FilesKept, LeavesStaged, WorksOn
<1>1. "bind" \in Agents /\ "pnp" \in Agents /\ "bind" # "pnp" /\ t \in Agents
      /\ Binders = {"bind", "pnp"} /\ \A d \in Contexts : d # None
  BY LabelsAre, AgentsAssumption DEF Binders
<1>2. PICK u \in Binders : u # t /\ u \in Agents /\ Binders = {t, u}
  BY <1>1
<1>3. pc'[u] = pc[u] /\ ctx'[u] = ctx[u] /\ ctx[u] # c
  BY <1>1, <1>2 DEF Alone, Life
<1>4. \A d \in Contexts : d # c => (Settled(d) => Settled(d)')
  BY DEF Settled, Bound
<1>5. \A d \in Contexts : d # c => (Stage(u, d) => Stage(u, d)')
  BY <1>3 DEF Stage, Bound, Bare
<1>6. \A d \in Contexts : ctx'[u] = d => Stage(u, d)'
  BY <1>2, <1>3, <1>5 DEF Life
<1>7. \A d \in Contexts : ctx'[t] = d => Stage(t, d)'
  BY <1>1
<1>8. ctx[t] \in {c, None} /\ ctx'[t] \in {c, None}
  BY <1>1
<1>9. \A d \in Contexts : ctx'[t] # d /\ ctx'[u] # d => Settled(d)'
  <2>1. SUFFICES ASSUME NEW d \in Contexts, ctx'[t] # d, ctx'[u] # d PROVE Settled(d)'
    OBVIOUS
  <2>2. CASE d = c
    BY <1>8, <2>1, <2>2
  <2>3. CASE d # c
    BY <1>1, <1>2, <1>3, <1>4, <1>8, <2>1, <2>3 DEF Life
  <2>4. QED BY <2>2, <2>3
<1>10. \A d \in Contexts : bindFlags'[d] = "none" => Unknown(d)'
  <2>1. SUFFICES ASSUME NEW d \in Contexts, bindFlags'[d] = "none" PROVE Unknown(d)'
    OBVIOUS
  <2>2. d # c /\ bindFlags[d] = "none" /\ Unknown(d)
    BY <2>1 DEF Life
  <2>3. \A v \in Agents : ctx'[v] # d
    BY <1>1, <1>8, <2>2 DEF Alone, Unknown
  <2>4. QED BY <2>2, <2>3 DEF Unknown
<1>11. ctx'["bind"] # None => ctx'["bind"] # ctx'["pnp"]
  BY <1>1, <1>2, <1>3, <1>8
<1>12. QED BY <1>1, <1>2, <1>6, <1>7, <1>9, <1>10, <1>11 DEF Life

\* A binder touches no file, no ioctl, and no thread but itself.
LEMMA BinderFrame ==
    ASSUME TypeOK, NEW t \in Binders, BinderStep(t)
    PROVE  Alone(t) /\ FilesKept
<1> USE DEF listVars, bindVars, openVars, refVars, powerVars, reqVars, callVars, bindLocals, FilesKept
<1>1. ASSUME ShutdownStart(t) PROVE Alone(t) /\ FilesKept
  BY <1>1, MovesAlone, ReturnsAlone DEF ShutdownStart
<1>2. ASSUME ShutdownFilter(t) PROVE Alone(t) /\ FilesKept
  BY <1>2, MovesAlone DEF ShutdownFilter, DoRequest
<1>3. ASSUME ShutdownWait(t) PROVE Alone(t) /\ FilesKept
  BY <1>3, MovesAlone DEF ShutdownWait
<1>4. ASSUME ShutdownClose(t) PROVE Alone(t) /\ FilesKept
  BY <1>4, MovesAlone DEF ShutdownClose
<1>5. ASSUME ShutdownIdle(t) PROVE Alone(t) /\ FilesKept
  BY <1>5, MovesAlone DEF ShutdownIdle
<1>6. ASSUME ShutdownUnlink(t) PROVE Alone(t) /\ FilesKept
  BY <1>6, MovesAlone DEF ShutdownUnlink
<1>7. ASSUME ShutdownFree(t) PROVE Alone(t) /\ FilesKept
  BY <1>7, MovesAlone DEF ShutdownFree
<1>8. ASSUME ShutdownDeref(t) PROVE Alone(t) /\ FilesKept
  BY <1>8, MovesAlone, ReturnsAlone DEF ShutdownDeref
<1>9. ASSUME CreateBindingLookup PROVE Alone("bind") /\ FilesKept
  BY <1>9, MovesAlone DEF CreateBindingLookup
<1>10. ASSUME CreateBindingDerefTmp PROVE Alone("bind") /\ FilesKept
  BY <1>10, MovesAlone DEF CreateBindingDerefTmp
<1>11. ASSUME CreateBindingOpening PROVE Alone("bind") /\ FilesKept
  BY <1>11, MovesAlone DEF CreateBindingOpening
<1>12. ASSUME CreateBindingAllocate PROVE Alone("bind") /\ FilesKept
  BY <1>12, MovesAlone DEF CreateBindingAllocate
<1>13. ASSUME CreateBindingOpen PROVE Alone("bind") /\ FilesKept
  BY <1>13, MovesAlone DEF CreateBindingOpen
<1>14. ASSUME CreateBindingQuery PROVE Alone("bind") /\ FilesKept
  BY <1>14, MovesAlone DEF CreateBindingQuery
<1>15. ASSUME CreateBindingReadFlags PROVE Alone("bind") /\ FilesKept
  BY <1>15, MovesAlone DEF CreateBindingReadFlags
<1>16. ASSUME CreateBindingWriteFlags PROVE Alone("bind") /\ FilesKept
  BY <1>16, MovesAlone DEF CreateBindingWriteFlags
<1>17. ASSUME CreateBindingActive PROVE Alone("bind") /\ FilesKept
  BY <1>17, MovesAlone, ReturnsAlone DEF CreateBindingActive
<1>18. ASSUME CreateBindingFailed PROVE Alone("bind") /\ FilesKept
  BY <1>18, MovesAlone DEF CreateBindingFailed
<1>19. ASSUME SetPoweredUpEvent PROVE Alone("pnp") /\ FilesKept
  BY <1>19, MovesAlone, ReturnsAlone DEF SetPoweredUpEvent
<1>20. ASSUME PowerDownWait PROVE Alone("pnp") /\ FilesKept
  BY <1>20, MovesAlone, ReturnsAlone DEF PowerDownWait
<1>21. ASSUME NEW c \in Contexts, BindAdapter(c) PROVE Alone("bind") /\ FilesKept
  BY <1>21, MovesAlone DEF BindAdapter
<1>22. ASSUME NEW c \in Contexts, Unbind(c) PROVE Alone("pnp") /\ FilesKept
  BY <1>22, MovesAlone DEF Unbind
<1>23. ASSUME NEW c \in Contexts, SetPower(c) PROVE Alone("pnp") /\ FilesKept
  BY <1>23, MovesAlone DEF SetPower
<1>24. QED BY <1>1, <1>2, <1>3, <1>4, <1>5, <1>6, <1>7, <1>8, <1>9, <1>10, <1>11, <1>12, <1>13, <1>14, <1>15, <1>16, <1>17, <1>18, <1>19, <1>20, <1>21, <1>22, <1>23
       DEF BinderStep, BindThread, PnPThread, CreateBinding, ShutdownBinding

\* Where a binder is at work, on which context, and how far that is.
LEMMA WhereBinderIs ==
    ASSUME TypeOK, Life, NEW t \in Binders, pc[t] # "idle"
    PROVE  /\ t \in Agents /\ ctx[t] \in Contexts /\ ctx[t] # None /\ Stage(t, ctx[t])
           /\ pc[t] \in Labels(t) /\ bindFlags[ctx[t]] # "none"
<1>1. t \in Agents /\ pc[t] \in Labels(t) /\ pc[t] \notin {"odLookup", "closing"}
  <2>1. t \in Agents /\ t \in {"bind", "pnp"}
    BY LabelsAre DEF Binders
  <2>2. pc[t] \in Labels(t)
    BY <2>1 DEF TypeOK
  <2>3. QED BY <2>1, <2>2, LabelsAre DEF ShutdownLabels
<1>2. ctx[t] # None /\ ctx[t] \in Contexts
  BY <1>1 DEF TypeOK
<1>3. QED BY <1>1, <1>2 DEF Life, Unknown

\* The shutdown.
LEMMA ShutdownLife ==
    ASSUME TypeOK, Life, NEW t \in Binders, ShutdownBinding(t)
    PROVE  Life'
<1> USE DEF listVars, bindVars, openVars, refVars, powerVars, reqVars, callVars, bindLocals
<1>0. Alone(t) /\ FilesKept
  BY BinderFrame DEF BinderStep, Binders, BindThread, PnPThread
<1>01. pc[t] \in {"sdLock", "sdFilter", "sdWait", "sdClose", "sdIdle", "sdUnlink", "sdFree", "sdDeref"}
  BY DEF ShutdownBinding, ShutdownStart, ShutdownFilter, ShutdownWait, ShutdownClose, ShutdownIdle,
         ShutdownUnlink, ShutdownFree, ShutdownDeref
<1>03. PICK c \in Contexts : ctx[t] = c
  BY <1>01, WhereBinderIs
<1>02. t \in Agents /\ c \in Contexts /\ c # None /\ Stage(t, c) /\ bindFlags[c] # "none"
  BY <1>01, <1>03, WhereBinderIs
<1>04. tmp' = tmp /\ (pc'["bind"] = "cbDerefTmp" <=> pc["bind"] = "cbDerefTmp")
  <2>1. tmp' = tmp
    BY DEF ShutdownBinding, ShutdownStart, ShutdownFilter, ShutdownWait, ShutdownClose, ShutdownIdle,
           ShutdownUnlink, ShutdownFree, ShutdownDeref
  <2>2. pc'[t] # "cbDerefTmp"
    <3>1. PICK label \in ShutdownLabels \cup {"idle"} : Goto(t, label)
      BY DEF ShutdownBinding, ShutdownStart, ShutdownFilter, ShutdownWait, ShutdownClose, ShutdownIdle,
             ShutdownUnlink, ShutdownFree, ShutdownDeref, DoRequest, Return, ShutdownLabels
    <3>2. pc'[t] = label
      BY <1>02, <3>1 DEF Goto, TypeOK
    <3>3. QED BY <3>1, <3>2 DEF ShutdownLabels
  <2>3. QED BY <1>0, <1>01, <2>1, <2>2, LabelsAre DEF Alone
<1>06. WorksOn(t, c)
  BY <1>03 DEF WorksOn
<1>05. tmp' # None <=> pc'["bind"] = "cbDerefTmp"
  BY <1>04 DEF Life
<1>1. CASE ShutdownStart(t)
  <2>1. bindFlags[c] # "OPENING"
    BY <1>01, <1>02, <1>03, <1>1 DEF ShutdownStart, Stage, Bound, Bare
  <2>2. CASE bindFlags[c] = "ACTIVE"
    <3>1. /\ bindFlags' = [bindFlags EXCEPT ![c] = "CLOSING"] /\ Goto(t, "sdFilter") /\ ctx' = ctx
          /\ UNCHANGED <<listVars, BindingHandle, freed>> /\ pc[t] = "sdLock"
      BY <1>03, <1>1, <2>2 DEF ShutdownStart
    <3>2. pc'[t] = "sdFilter" /\ ctx'[t] = c
      BY <1>02, <1>03, <3>1, MovesAlone
    <3>3. Stage(t, c)'
      BY <1>02, <2>2, <3>1, <3>2 DEF Stage, Bound, Bare, HandleLabels, TypeOK
    <3>4. OnlyBinding(c)
      BY <1>02, <1>04, <3>1, WhatIsKnown DEF OnlyBinding, TypeOK
    <3>5. LeavesStaged(t, c)
      BY <3>2, <3>3 DEF LeavesStaged
    <3>6. QED BY <1>0, <1>05, <1>06, <3>4, <3>5, BinderLife
  <2>3. CASE bindFlags[c] # "ACTIVE"
    <3>1. /\ Goto(t, "sdUnlink") /\ pc[t] = "sdLock"
          /\ UNCHANGED <<listVars, bindFlags, BindingHandle, freed, ctx>>
      BY <1>03, <1>1, <2>1, <2>3 DEF ShutdownStart
    <3>2. pc'[t] = "sdUnlink" /\ ctx'[t] = c
      BY <1>02, <1>03, <3>1, MovesAlone
    <3>3. Stage(t, c)'
      BY <1>02, <2>3, <3>1, <3>2 DEF Stage, Bound, Bare, HandleLabels
    <3>4. OnlyBinding(c)
      BY <1>02, <1>04, <3>1, WhatIsKnown DEF OnlyBinding
    <3>5. LeavesStaged(t, c)
      BY <3>2, <3>3 DEF LeavesStaged
    <3>6. QED BY <1>0, <1>05, <1>06, <3>4, <3>5, BinderLife
  <2>4. QED BY <2>2, <2>3
<1>2. CASE ShutdownFilter(t)
  <2>1. /\ Goto(t, "sdWait") /\ pc[t] = "sdFilter" /\ ctx' = ctx
        /\ UNCHANGED <<listVars, bindFlags, BindingHandle, freed>>
    BY <1>03, <1>2 DEF ShutdownFilter, DoRequest
  <2>2. pc'[t] = "sdWait" /\ ctx'[t] = c
    BY <1>02, <1>03, <2>1, MovesAlone
  <2>3. Stage(t, c)'
    BY <1>02, <2>1, <2>2 DEF Stage, Bound, Bare, HandleLabels, TypeOK
  <2>4. OnlyBinding(c)
    BY <1>02, <1>04, <2>1, WhatIsKnown DEF OnlyBinding, TypeOK
  <2>5. LeavesStaged(t, c)
    BY <2>2, <2>3 DEF LeavesStaged
  <2>6. QED BY <1>0, <1>05, <1>06, <2>4, <2>5, BinderLife
<1>3. CASE ShutdownWait(t)
  <2>1. /\ Goto(t, "sdClose") /\ pc[t] = "sdWait" /\ ctx' = ctx
        /\ UNCHANGED <<listVars, bindFlags, BindingHandle, freed>>
    BY <1>03, <1>3 DEF ShutdownWait
  <2>2. pc'[t] = "sdClose" /\ ctx'[t] = c
    BY <1>02, <1>03, <2>1, MovesAlone
  <2>3. Stage(t, c)'
    BY <1>02, <2>1, <2>2 DEF Stage, Bound, Bare, HandleLabels, TypeOK
  <2>4. OnlyBinding(c)
    BY <1>02, <1>04, <2>1, WhatIsKnown DEF OnlyBinding, TypeOK
  <2>5. LeavesStaged(t, c)
    BY <2>2, <2>3 DEF LeavesStaged
  <2>6. QED BY <1>0, <1>05, <1>06, <2>4, <2>5, BinderLife
<1>4. CASE ShutdownClose(t)
  <2>1. /\ Goto(t, "sdIdle") /\ pc[t] = "sdClose" /\ ctx' = ctx
        /\ BindingHandle' = [BindingHandle EXCEPT ![c] = FALSE] /\ UNCHANGED <<listVars, bindFlags, freed>>
    BY <1>03, <1>4 DEF ShutdownClose
  <2>2. pc'[t] = "sdIdle" /\ ctx'[t] = c
    BY <1>02, <1>03, <2>1, MovesAlone
  <2>3. Stage(t, c)'
    BY <1>02, <2>1, <2>2 DEF Stage, Bound, Bare, HandleLabels, TypeOK
  <2>4. OnlyBinding(c)
    BY <1>02, <1>04, <2>1, WhatIsKnown DEF OnlyBinding, TypeOK
  <2>5. LeavesStaged(t, c)
    BY <2>2, <2>3 DEF LeavesStaged
  <2>6. QED BY <1>0, <1>05, <1>06, <2>4, <2>5, BinderLife
<1>5. CASE ShutdownIdle(t)
  <2>1. /\ Goto(t, "sdUnlink") /\ pc[t] = "sdIdle" /\ ctx' = ctx
        /\ bindFlags' = [bindFlags EXCEPT ![c] = "IDLE"] /\ UNCHANGED <<listVars, BindingHandle, freed>>
    BY <1>03, <1>5 DEF ShutdownIdle
  <2>2. pc'[t] = "sdUnlink" /\ ctx'[t] = c
    BY <1>02, <1>03, <2>1, MovesAlone
  <2>3. Stage(t, c)'
    BY <1>02, <2>1, <2>2 DEF Stage, Bound, Bare, HandleLabels, TypeOK
  <2>4. OnlyBinding(c)
    BY <1>02, <1>04, <2>1, WhatIsKnown DEF OnlyBinding, TypeOK
  <2>5. LeavesStaged(t, c)
    BY <2>2, <2>3 DEF LeavesStaged
  <2>6. QED BY <1>0, <1>05, <1>06, <2>4, <2>5, BinderLife
<1>6. CASE ShutdownUnlink(t)
  <2>1. /\ Goto(t, "sdFree") /\ pc[t] = "sdUnlink" /\ ctx' = ctx
        /\ OpenList' = OpenList \ {c} /\ UNCHANGED <<named, bindFlags, BindingHandle, freed>>
    BY <1>03, <1>6 DEF ShutdownUnlink
  <2>2. pc'[t] = "sdFree" /\ ctx'[t] = c
    BY <1>02, <1>03, <2>1, MovesAlone
  <2>3. Stage(t, c)'
    BY <1>02, <2>1, <2>2 DEF Stage, Bound, Bare, HandleLabels, TypeOK
  <2>4. OnlyBinding(c)
    BY <1>02, <1>04, <2>1, WhatIsKnown DEF OnlyBinding, TypeOK
  <2>5. LeavesStaged(t, c)
    BY <2>2, <2>3 DEF LeavesStaged
  <2>6. QED BY <1>0, <1>05, <1>06, <2>4, <2>5, BinderLife
<1>7. CASE ShutdownFree(t)
  <2>1. /\ Goto(t, "sdDeref") /\ pc[t] = "sdFree" /\ ctx' = ctx
        /\ named' = named \ {c} /\ UNCHANGED <<OpenList, bindFlags, BindingHandle, freed>>
    BY <1>03, <1>7 DEF ShutdownFree
  <2>2. pc'[t] = "sdDeref" /\ ctx'[t] = c
    BY <1>02, <1>03, <2>1, MovesAlone
  <2>3. Stage(t, c)'
    BY <1>02, <2>1, <2>2 DEF Stage, Bound, Bare, HandleLabels, TypeOK
  <2>4. OnlyBinding(c)
    BY <1>02, <1>04, <2>1, WhatIsKnown DEF OnlyBinding, TypeOK
  <2>5. LeavesStaged(t, c)
    BY <2>2, <2>3 DEF LeavesStaged
  <2>6. QED BY <1>0, <1>05, <1>06, <2>4, <2>5, BinderLife
<1>8. CASE ShutdownDeref(t)
  <2>1. /\ Return(t) /\ pc[t] = "sdDeref" /\ DerefOpen(c)
        /\ UNCHANGED <<listVars, bindFlags, BindingHandle>>
    BY <1>03, <1>8 DEF ShutdownDeref
  <2>2. pc'[t] = "idle" /\ ctx'[t] = None
    BY <1>02, <2>1, ReturnsAlone
  <2>3. Settled(c)'
    BY <1>02, <2>1 DEF Stage, Settled, HandleLabels
  <2>4. OnlyBinding(c)
    BY <1>02, <1>04, <2>1, WhatIsKnown, DerefElsewhere DEF OnlyBinding
  <2>5. LeavesStaged(t, c)
    BY <2>2, <2>3 DEF LeavesStaged
  <2>6. QED BY <1>0, <1>05, <1>06, <2>4, <2>5, BinderLife
<1>9. QED BY <1>1, <1>2, <1>3, <1>4, <1>5, <1>6, <1>7, <1>8 DEF ShutdownBinding

\* ndisprotCreateBinding.
LEMMA CreateLife ==
    ASSUME TypeOK, Life, CreateBinding
    PROVE  Life'
<1> USE DEF listVars, bindVars, openVars, refVars, powerVars, reqVars, callVars, bindLocals
<1>0. "bind" \in Binders /\ Alone("bind") /\ FilesKept
  BY BinderFrame DEF BinderStep, Binders, BindThread
<1>01. pc["bind"] # "idle"
  BY DEF CreateBinding, CreateBindingLookup, CreateBindingDerefTmp, CreateBindingOpening,
         CreateBindingAllocate, CreateBindingOpen, CreateBindingQuery, CreateBindingReadFlags,
         CreateBindingWriteFlags, CreateBindingActive, CreateBindingFailed
<1>02. PICK c \in Contexts : ctx["bind"] = c
  BY <1>0, <1>01, WhereBinderIs
<1>03. /\ "bind" \in Agents /\ c # None /\ Stage("bind", c) /\ bindFlags[c] # "none"
       /\ pc["bind"] = "cbDerefTmp" <=> tmp # None
  BY <1>0, <1>01, <1>02, WhereBinderIs DEF Life
<1>04. WorksOn("bind", c)
  BY <1>02 DEF WorksOn
<1>1. CASE CreateBindingLookup
  <2>1. \E label \in {"cbDerefTmp", "cbOpening"} :
            /\ Goto("bind", label) /\ ctx' = ctx
            /\ UNCHANGED <<OpenList, named, bindFlags, BindingHandle, freed>>
            /\ IF label = "cbDerefTmp" THEN tmp' \in Found ELSE tmp' = tmp
    <3>1. CASE Found = {} /\ Goto("bind", "cbOpening") /\ UNCHANGED <<refVars, tmp>>
      BY <1>1, <3>1 DEF CreateBindingLookup
    <3>2. CASE \E d \in Found : RefOpen(d) /\ tmp' = d /\ Goto("bind", "cbDerefTmp")
      BY <1>1, <3>2 DEF CreateBindingLookup, RefOpen
    <3>3. QED BY <1>1, <3>1, <3>2 DEF CreateBindingLookup
  <2>0. PICK label \in {"cbDerefTmp", "cbOpening"} :
            /\ Goto("bind", label) /\ ctx' = ctx
            /\ UNCHANGED <<OpenList, named, bindFlags, BindingHandle, freed>>
            /\ IF label = "cbDerefTmp" THEN tmp' \in Found ELSE tmp' = tmp
    BY <2>1
  <2>2. pc["bind"] = "cbLookup" /\ pc'["bind"] = label /\ ctx'["bind"] = c
    BY <1>02, <1>03, <1>1, <2>0, MovesAlone DEF CreateBindingLookup
  <2>3. Stage("bind", c)'
    BY <1>03, <2>0, <2>2 DEF Stage, Bound, Bare, HandleLabels
  <2>4. OnlyBinding(c)
    BY <1>03, <2>0, WhatIsKnown DEF OnlyBinding
  <2>5. LeavesStaged("bind", c)
    BY <2>2, <2>3 DEF LeavesStaged
  <2>6. tmp' # None <=> pc'["bind"] = "cbDerefTmp"
    BY <1>03, <2>0, <2>2, AgentsAssumption DEF Found, TypeOK
  <2>7. QED BY <1>0, <1>04, <2>4, <2>5, <2>6, BinderLife
<1>2. CASE CreateBindingDerefTmp
  <2>1. /\ Goto("bind", "cbFail") /\ ctx' = ctx /\ tmp' = None /\ DerefOpen(tmp)
        /\ UNCHANGED <<OpenList, named, bindFlags, BindingHandle>>
    BY <1>2 DEF CreateBindingDerefTmp
  <2>2. pc["bind"] = "cbDerefTmp" /\ pc'["bind"] = "cbFail" /\ ctx'["bind"] = c
    BY <1>02, <1>03, <1>2, <2>1, MovesAlone DEF CreateBindingDerefTmp
  <2>3. Stage("bind", c)'
    BY <1>03, <2>1, <2>2 DEF Stage, Bound, Bare, HandleLabels
  <2>4. OnlyBinding(c)
    <3>1. \A d \in Contexts : d # None
      BY AgentsAssumption
    <3>2. QED BY <1>03, <2>1, <3>1, WhatIsKnown, DerefElsewhere DEF OnlyBinding
  <2>5. LeavesStaged("bind", c)
    BY <2>2, <2>3 DEF LeavesStaged
  <2>6. tmp' # None <=> pc'["bind"] = "cbDerefTmp"
    BY <2>1, <2>2
  <2>7. QED BY <1>0, <1>04, <2>4, <2>5, <2>6, BinderLife
<1>3. CASE CreateBindingOpening
  <2>1. PICK label \in {"cbName"} :
            /\ Goto("bind", label) /\ ctx' = ctx /\ tmp' = tmp
            /\ bindFlags' = [bindFlags EXCEPT ![c] = "OPENING"] /\ UNCHANGED <<OpenList, named, BindingHandle, freed>>
    BY <1>02, <1>3 DEF CreateBindingOpening
  <2>2. pc["bind"] = "cbOpening" /\ pc'["bind"] = label /\ ctx'["bind"] = c
    BY <1>02, <1>03, <1>3, <2>1, MovesAlone DEF CreateBindingOpening
  <2>3. Stage("bind", c)'
    BY <1>03, <1>3, <2>1, <2>2 DEF CreateBindingOpening, Stage, Bound, Bare, HandleLabels, TypeOK
  <2>4. OnlyBinding(c)
    BY <1>03, <2>1, WhatIsKnown DEF OnlyBinding, TypeOK
  <2>5. LeavesStaged("bind", c)
    BY <2>2, <2>3 DEF LeavesStaged
  <2>6. tmp' # None <=> pc'["bind"] = "cbDerefTmp"
    BY <1>03, <2>1, <2>2
  <2>7. QED BY <1>0, <1>04, <2>4, <2>5, <2>6, BinderLife
<1>4. CASE CreateBindingAllocate
  <2>1. PICK label \in {"cbOpen", "cbFail"} :
            /\ Goto("bind", label) /\ ctx' = ctx /\ tmp' = tmp
            /\ named' \subseteq named \cup {c} /\ UNCHANGED <<OpenList, bindFlags, BindingHandle, freed>>
    BY <1>02, <1>4 DEF CreateBindingAllocate
  <2>2. pc["bind"] = "cbName" /\ pc'["bind"] = label /\ ctx'["bind"] = c
    BY <1>02, <1>03, <1>4, <2>1, MovesAlone DEF CreateBindingAllocate
  <2>3. Stage("bind", c)'
    BY <1>03, <1>4, <2>1, <2>2 DEF CreateBindingAllocate, Stage, Bound, Bare, HandleLabels, TypeOK
  <2>4. OnlyBinding(c)
    BY <1>03, <2>1, WhatIsKnown DEF OnlyBinding, TypeOK
  <2>5. LeavesStaged("bind", c)
    BY <2>2, <2>3 DEF LeavesStaged
  <2>6. tmp' # None <=> pc'["bind"] = "cbDerefTmp"
    BY <1>03, <2>1, <2>2
  <2>7. QED BY <1>0, <1>04, <2>4, <2>5, <2>6, BinderLife
<1>5. CASE CreateBindingOpen
  <2>1. PICK label \in {"cbQuery", "cbFail"} :
            /\ Goto("bind", label) /\ ctx' = ctx /\ tmp' = tmp
            /\ (IF label = "cbQuery" THEN BindingHandle' = [BindingHandle EXCEPT ![c] = TRUE] ELSE BindingHandle' = BindingHandle)
            /\ UNCHANGED <<OpenList, named, bindFlags, freed>>
    BY <1>02, <1>5 DEF CreateBindingOpen
  <2>2. pc["bind"] = "cbOpen" /\ pc'["bind"] = label /\ ctx'["bind"] = c
    BY <1>02, <1>03, <1>5, <2>1, MovesAlone DEF CreateBindingOpen
  <2>3. Stage("bind", c)'
    BY <1>03, <1>5, <2>1, <2>2 DEF CreateBindingOpen, Stage, Bound, Bare, HandleLabels, TypeOK
  <2>4. OnlyBinding(c)
    BY <1>03, <2>1, WhatIsKnown DEF OnlyBinding, TypeOK
  <2>5. LeavesStaged("bind", c)
    BY <2>2, <2>3 DEF LeavesStaged
  <2>6. tmp' # None <=> pc'["bind"] = "cbDerefTmp"
    BY <1>03, <2>1, <2>2
  <2>7. QED BY <1>0, <1>04, <2>4, <2>5, <2>6, BinderLife
<1>6. CASE CreateBindingQuery
  <2>1. PICK label \in {"cbActive", "cbRead", "cbFailOpen"} :
            /\ Goto("bind", label) /\ ctx' = ctx /\ tmp' = tmp
            /\ UNCHANGED <<OpenList, named, bindFlags, BindingHandle, freed>>
    BY <1>02, <1>6 DEF CreateBindingQuery
  <2>2. pc["bind"] = "cbQuery" /\ pc'["bind"] = label /\ ctx'["bind"] = c
    BY <1>02, <1>03, <1>6, <2>1, MovesAlone DEF CreateBindingQuery
  <2>3. Stage("bind", c)'
    BY <1>03, <1>6, <2>1, <2>2 DEF CreateBindingQuery, Stage, Bound, Bare, HandleLabels, TypeOK
  <2>4. OnlyBinding(c)
    BY <1>03, <2>1, WhatIsKnown DEF OnlyBinding, TypeOK
  <2>5. LeavesStaged("bind", c)
    BY <2>2, <2>3 DEF LeavesStaged
  <2>6. tmp' # None <=> pc'["bind"] = "cbDerefTmp"
    BY <1>03, <2>1, <2>2
  <2>7. QED BY <1>0, <1>04, <2>4, <2>5, <2>6, BinderLife
<1>7. CASE CreateBindingReadFlags
  <2>1. PICK label \in {"cbWrite"} :
            /\ Goto("bind", label) /\ ctx' = ctx /\ tmp' = tmp
            /\ UNCHANGED <<OpenList, named, bindFlags, BindingHandle, freed>>
    BY <1>02, <1>7 DEF CreateBindingReadFlags
  <2>2. pc["bind"] = "cbRead" /\ pc'["bind"] = label /\ ctx'["bind"] = c
    BY <1>02, <1>03, <1>7, <2>1, MovesAlone DEF CreateBindingReadFlags
  <2>3. Stage("bind", c)'
    BY <1>03, <1>7, <2>1, <2>2 DEF CreateBindingReadFlags, Stage, Bound, Bare, HandleLabels, TypeOK
  <2>4. OnlyBinding(c)
    BY <1>03, <2>1, WhatIsKnown DEF OnlyBinding, TypeOK
  <2>5. LeavesStaged("bind", c)
    BY <2>2, <2>3 DEF LeavesStaged
  <2>6. tmp' # None <=> pc'["bind"] = "cbDerefTmp"
    BY <1>03, <2>1, <2>2
  <2>7. QED BY <1>0, <1>04, <2>4, <2>5, <2>6, BinderLife
<1>8. CASE CreateBindingWriteFlags
  <2>1. PICK label \in {"cbActive"} :
            /\ Goto("bind", label) /\ ctx' = ctx /\ tmp' = tmp
            /\ UNCHANGED <<OpenList, named, bindFlags, BindingHandle, freed>>
    BY <1>02, <1>8 DEF CreateBindingWriteFlags
  <2>2. pc["bind"] = "cbWrite" /\ pc'["bind"] = label /\ ctx'["bind"] = c
    BY <1>02, <1>03, <1>8, <2>1, MovesAlone DEF CreateBindingWriteFlags
  <2>3. Stage("bind", c)'
    BY <1>03, <1>8, <2>1, <2>2 DEF CreateBindingWriteFlags, Stage, Bound, Bare, HandleLabels, TypeOK
  <2>4. OnlyBinding(c)
    BY <1>03, <2>1, WhatIsKnown DEF OnlyBinding, TypeOK
  <2>5. LeavesStaged("bind", c)
    BY <2>2, <2>3 DEF LeavesStaged
  <2>6. tmp' # None <=> pc'["bind"] = "cbDerefTmp"
    BY <1>03, <2>1, <2>2
  <2>7. QED BY <1>0, <1>04, <2>4, <2>5, <2>6, BinderLife
<1>9. CASE CreateBindingActive
  <2>1. /\ pc["bind"] = "cbActive" /\ bindFlags' = [bindFlags EXCEPT ![c] = "ACTIVE"]
        /\ UNCHANGED <<OpenList, named, BindingHandle, freed, tmp>>
    BY <1>02, <1>9 DEF CreateBindingActive
  <2>2. OnlyBinding(c)
    BY <1>03, <2>1, WhatIsKnown DEF OnlyBinding, TypeOK
  <2>3. LeavesStaged("bind", c) /\ pc'["bind"] # "cbDerefTmp"
    <3>1. CASE Goto("bind", "cbFailOpen") /\ ctx' = ctx
      <4>1. pc'["bind"] = "cbFailOpen" /\ ctx'["bind"] = c
        BY <1>02, <1>03, <3>1, MovesAlone
      <4>2. Stage("bind", c)'
        BY <1>03, <2>1, <4>1 DEF Stage, Bound, Bare, HandleLabels, TypeOK
      <4>3. QED BY <4>1, <4>2 DEF LeavesStaged
    <3>2. CASE Return("bind")
      <4>1. pc'["bind"] = "idle" /\ ctx'["bind"] = None
        BY <1>03, <3>2, ReturnsAlone
      <4>2. Settled(c)'
        BY <1>03, <2>1 DEF Stage, Settled, Bound, HandleLabels, TypeOK
      <4>3. QED BY <4>1, <4>2 DEF LeavesStaged
    <3>3. QED BY <1>9, <3>1, <3>2 DEF CreateBindingActive
  <2>4. tmp' # None <=> pc'["bind"] = "cbDerefTmp"
    BY <1>03, <2>1, <2>3
  <2>5. QED BY <1>0, <1>04, <2>2, <2>3, <2>4, BinderLife
<1>10. CASE CreateBindingFailed
  <2>1. /\ Goto("bind", "sdLock") /\ ctx' = ctx /\ tmp' = tmp
        /\ UNCHANGED <<OpenList, named, BindingHandle, freed>>
        /\ bindFlags' = [bindFlags EXCEPT ![c] =
               IF pc["bind"] = "cbFailOpen" THEN "ACTIVE"
               ELSE IF bindFlags[c] = "OPENING" THEN "FAILED" ELSE bindFlags[c]]
    BY <1>02, <1>10 DEF CreateBindingFailed
  <2>2. pc["bind"] \in {"cbFail", "cbFailOpen"} /\ pc'["bind"] = "sdLock" /\ ctx'["bind"] = c
    BY <1>02, <1>03, <1>10, <2>1, MovesAlone DEF CreateBindingFailed
  <2>3. Stage("bind", c)'
    BY <1>03, <2>1, <2>2 DEF Stage, Bound, Bare, HandleLabels, TypeOK
  <2>4. OnlyBinding(c)
    BY <1>03, <2>1, WhatIsKnown DEF OnlyBinding, TypeOK
  <2>5. LeavesStaged("bind", c)
    BY <2>2, <2>3 DEF LeavesStaged
  <2>6. tmp' # None <=> pc'["bind"] = "cbDerefTmp"
    BY <1>03, <2>1, <2>2
  <2>7. QED BY <1>0, <1>04, <2>4, <2>5, <2>6, BinderLife
<1>11. QED BY <1>1, <1>2, <1>3, <1>4, <1>5, <1>6, <1>7, <1>8, <1>9, <1>10 DEF CreateBinding

\* A binding that NDIS may call for is bound, and nobody works on it.
LEMMA MayBeCalled ==
    ASSUME TypeOK, Life, ~UnbindDuringBind, NEW c \in Contexts, NdisMayCall(c)
    PROVE  /\ c \in OpenList /\ Bound(c) /\ bindFlags[c] # "none" /\ c # None
           /\ pc["pnp"] = "idle" /\ ctx["pnp"] = None /\ ctx["bind"] # c
<1>1. /\ pc["pnp"] = "idle" /\ ctx["bind"] # c /\ BindingHandle[c] /\ c # None
  BY AgentsAssumption DEF NdisMayCall
<1>2. ctx["pnp"] = None
  BY <1>1, LabelsAre DEF TypeOK
<1>3. Settled(c)
  BY <1>1, <1>2 DEF Life
<1>4. QED BY <1>1, <1>2, <1>3 DEF Settled, Bound

\* Bind, Unbind and the power events.
LEMMA EventsLife ==
    ASSUME TypeOK, Life, ~UnbindDuringBind, NEW c \in Contexts,
           BindAdapter(c) \/ Unbind(c) \/ SetPower(c)
    PROVE  Life'
<1> USE DEF listVars, bindVars, openVars, refVars, powerVars, reqVars, callVars, bindLocals
<1>0. {"bind", "pnp"} \subseteq Agents /\ Binders = {"bind", "pnp"} /\ "bind" # "pnp" /\ c # None
  BY LabelsAre, AgentsAssumption DEF Binders
<1>1. CASE BindAdapter(c)
  <2>1. Alone("bind") /\ FilesKept
    BY <1>0, <1>1, BinderFrame DEF BinderStep
  <2>2. /\ pc["bind"] = "idle" /\ bindFlags[c] = "none" /\ Goto("bind", "cbLookup") /\ Use("bind", c)
        /\ bindFlags' = [bindFlags EXCEPT ![c] = "IDLE"] /\ OpenList' = OpenList \cup {c}
        /\ UNCHANGED <<named, BindingHandle, freed, tmp>>
    BY <1>1 DEF BindAdapter, RefOpen
  <2>3. ctx["bind"] = None /\ ctx["bind"] # c /\ ctx["pnp"] # c /\ tmp = None
    BY <1>0, <2>2, WhatIsKnown, LabelsAre DEF TypeOK, Life
  <2>4. WorksOn("bind", c)
    BY <1>0, <2>3 DEF WorksOn
  <2>5. pc'["bind"] = "cbLookup" /\ ctx'["bind"] = c
    BY <1>0, <2>2, MovesAlone
  <2>6. Settled(c)
    BY <2>3 DEF Life
  <2>7. Stage("bind", c)'
    BY <2>2, <2>5, <2>6 DEF Settled, Bound, Stage, HandleLabels, TypeOK
  <2>8. OnlyBinding(c)
    BY <2>2, WhatIsKnown DEF OnlyBinding, TypeOK
  <2>9. LeavesStaged("bind", c)
    BY <2>5, <2>7 DEF LeavesStaged
  <2>10. tmp' # None <=> pc'["bind"] = "cbDerefTmp"
    BY <2>2, <2>3, <2>5
  <2>11. QED BY <1>0, <2>1, <2>4, <2>8, <2>9, <2>10, BinderLife
<1>2. CASE Unbind(c) \/ SetPower(c)
  <2>1. Alone("pnp") /\ FilesKept
    BY <1>0, <1>2, BinderFrame DEF BinderStep
  <2>2. PICK label \in {"sdLock", "pwEvent"} :
            /\ NdisMayCall(c) /\ Goto("pnp", label) /\ Use("pnp", c)
            /\ UNCHANGED <<OpenList, named, bindFlags, BindingHandle, freed, tmp>>
    BY <1>2 DEF Unbind, SetPower
  <2>3. /\ c \in OpenList /\ Bound(c) /\ bindFlags[c] # "none"
        /\ ctx["pnp"] = None /\ ctx["bind"] # c
    BY <2>2, MayBeCalled
  <2>4. WorksOn("pnp", c)
    BY <1>0, <2>3 DEF WorksOn
  <2>5. pc'["pnp"] = label /\ ctx'["pnp"] = c
    BY <1>0, <2>2, MovesAlone
  <2>6. Stage("pnp", c)'
    BY <2>2, <2>3, <2>5 DEF Bound, Stage, HandleLabels
  <2>7. OnlyBinding(c)
    BY <2>2, <2>3, WhatIsKnown DEF OnlyBinding
  <2>8. LeavesStaged("pnp", c)
    BY <2>5, <2>6 DEF LeavesStaged
  <2>9. tmp' # None <=> pc'["bind"] = "cbDerefTmp"
    BY <1>0, <2>1, <2>2 DEF Alone, Life
  <2>10. QED BY <1>0, <2>1, <2>4, <2>7, <2>8, <2>9, BinderLife
<1>3. QED BY <1>1, <1>2

\* The rest of a power event.
LEMMA PowerLife ==
    ASSUME TypeOK, Life, SetPoweredUpEvent \/ PowerDownWait
    PROVE  Life'
<1> USE DEF listVars, bindVars, openVars, refVars, powerVars, reqVars, callVars, bindLocals
<1>0. "pnp" \in Binders /\ Alone("pnp") /\ FilesKept
  BY BinderFrame DEF BinderStep, Binders, PnPThread
<1>1. /\ pc["pnp"] \in {"pwEvent", "pwWait"}
      /\ UNCHANGED <<OpenList, named, bindFlags, BindingHandle, freed, tmp>>
  BY DEF SetPoweredUpEvent, PowerDownWait
<1>2. PICK c \in Contexts : ctx["pnp"] = c
  BY <1>0, <1>1, WhereBinderIs
<1>3. "pnp" \in Agents /\ c # None /\ Stage("pnp", c) /\ bindFlags[c] # "none"
  BY <1>0, <1>1, <1>2, WhereBinderIs
<1>4. WorksOn("pnp", c)
  BY <1>2 DEF WorksOn
<1>5. OnlyBinding(c)
  BY <1>1, <1>3, WhatIsKnown DEF OnlyBinding
<1>6. LeavesStaged("pnp", c)
  <2>1. CASE Return("pnp")
    <3>1. ctx'["pnp"] = None
      BY <1>3, <2>1, ReturnsAlone
    <3>2. Settled(c)'
      BY <1>1, <1>3 DEF Stage, Settled, Bound, HandleLabels
    <3>3. QED BY <3>1, <3>2 DEF LeavesStaged
  <2>2. CASE Goto("pnp", "pwWait") /\ ctx' = ctx
    <3>1. pc'["pnp"] = "pwWait" /\ ctx'["pnp"] = c
      BY <1>2, <1>3, <2>2, MovesAlone
    <3>2. Stage("pnp", c)'
      BY <1>1, <1>3, <3>1 DEF Stage, HandleLabels
    <3>3. QED BY <3>1, <3>2 DEF LeavesStaged
  <2>3. QED BY <2>1, <2>2 DEF SetPoweredUpEvent, PowerDownWait
<1>7. tmp' # None <=> pc'["bind"] = "cbDerefTmp"
  BY <1>0, <1>1, LabelsAre DEF Alone, Life
<1>8. QED BY <1>0, <1>4, <1>5, <1>6, <1>7, BinderLife

\* A binding is worked on by one thread at most, and is as far as that is.
LEMMA LifeStep == ~UnbindDuringBind /\ TypeOK /\ Life /\ [Next]_vars => Life'
<1> SUFFICES ASSUME ~UnbindDuringBind, TypeOK, Life, [Next]_vars PROVE Life'
  OBVIOUS
<1>1. CASE UNCHANGED vars
  <2>1. UNCHANGED <<OpenList, named, bindFlags, BindingHandle, tmp, pc, ctx, freed, FsContext>>
    BY <1>1 DEF vars, listVars, bindVars, openVars, refVars, callVars, bindLocals
  <2>2. QED BY <2>1 DEF Life, Stage, Settled, Unknown, Bound, Bare
<1>2. ASSUME NEW t \in Callers, CallerStep(t) PROVE Life'
  BY <1>2, CallersLife
<1>3. ASSUME NEW t \in Binders, BinderStep(t) PROVE Life'
  <2>1. CreateBinding => Life'
    BY CreateLife
  <2>2. ShutdownBinding(t) => Life'
    BY ShutdownLife
  <2>3. SetPoweredUpEvent \/ PowerDownWait => Life'
    BY PowerLife
  <2>4. \A c \in Contexts : BindAdapter(c) \/ Unbind(c) \/ SetPower(c) => Life'
    BY EventsLife
  <2>5. QED BY <1>3, <2>1, <2>2, <2>3, <2>4 DEF BinderStep, BindThread, PnPThread
<1>4. QED BY <1>1, <1>2, <1>3, StepOfWhom
-----------------------------------------------------------------------------
(* What ndisprotLookupDevice can find.                                      *)

OneFound ==
    /\ \A c \in Found : Found = {c}
    /\ pc["bind"] \in {"cbOpening", "cbName"} => Found = {}

\* A step that adds nothing to what can be found.
LEMMA FoundShrinks ==
    ASSUME OneFound, Found' \subseteq Found,
           pc'["bind"] \in {"cbOpening", "cbName"} =>
               Found = {} \/ pc["bind"] \in {"cbOpening", "cbName"}
    PROVE  OneFound'
<1>1. \A c \in Found' : Found' = {c}
  BY DEF OneFound
<1>2. pc'["bind"] \in {"cbOpening", "cbName"} => Found' = {}
  BY DEF OneFound
<1>3. QED BY <1>1, <1>2 DEF OneFound

\* Every step keeps the name to one binding.
LEMMA OneFoundStep ==
    ~UnbindDuringBind /\ TypeOK /\ Life /\ OneFound /\ [Next]_vars => OneFound'
<1> SUFFICES ASSUME ~UnbindDuringBind, TypeOK, Life, OneFound, [Next]_vars PROVE OneFound'
  OBVIOUS
<1> USE DEF listVars, bindVars, openVars, refVars, powerVars, reqVars, callVars, bindLocals
<1>0. {"bind", "pnp"} \subseteq Agents /\ "bind" # "pnp"
  BY LabelsAre
<1>1. CASE UNCHANGED vars
  BY <1>1 DEF vars, OneFound, Found
<1>2. ASSUME NEW t \in Callers, CallerStep(t) PROVE OneFound'
  <2>1. Alone(t) /\ t # "bind" /\ UNCHANGED <<OpenList, named>>
    BY <1>2, CallerFrame, LabelsAre DEF Callers
  <2>2. QED BY <1>0, <2>1, FoundShrinks DEF Found, Alone
<1>3. ASSUME NEW t \in Binders, ShutdownBinding(t) PROVE OneFound'
  <2>1. Found' \subseteq Found
    BY <1>3 DEF Found, ShutdownBinding, ShutdownStart, ShutdownFilter, ShutdownWait, ShutdownClose,
                ShutdownIdle, ShutdownUnlink, ShutdownFree, ShutdownDeref
  <2>2. Alone(t)
    BY <1>3, BinderFrame DEF BinderStep, Binders, BindThread, PnPThread
  <2>3. PICK label \in ShutdownLabels \cup {"idle"} : Goto(t, label)
    BY <1>3 DEF ShutdownBinding, ShutdownStart, ShutdownFilter, ShutdownWait, ShutdownClose,
                ShutdownIdle, ShutdownUnlink, ShutdownFree, ShutdownDeref, DoRequest, Return,
                ShutdownLabels
  <2>4. pc'["bind"] = IF t = "bind" THEN label ELSE pc["bind"]
    BY <1>0, <2>3 DEF Goto, TypeOK
  <2>5. QED BY <2>1, <2>3, <2>4, FoundShrinks DEF ShutdownLabels
<1>4. CASE SetPoweredUpEvent \/ PowerDownWait
  <2>1. Alone("pnp") /\ UNCHANGED <<OpenList, named>>
    BY <1>4, BinderFrame DEF BinderStep, Binders, PnPThread, SetPoweredUpEvent, PowerDownWait
  <2>2. QED BY <1>0, <2>1, FoundShrinks DEF Found, Alone
<1>5. ASSUME NEW c \in Contexts, Unbind(c) \/ SetPower(c) PROVE OneFound'
  <2>1. Alone("pnp") /\ UNCHANGED <<OpenList, named>>
    BY <1>5, BinderFrame DEF BinderStep, Binders, Unbind, SetPower
  <2>2. QED BY <1>0, <2>1, FoundShrinks DEF Found, Alone
<1>6. ASSUME NEW c \in Contexts, BindAdapter(c) PROVE OneFound'
  <2>1. c \notin named /\ OpenList' = OpenList \cup {c} /\ named' = named
    BY <1>6 DEF BindAdapter, Life, Unknown
  <2>2. Found' \subseteq Found
    BY <2>1 DEF Found
  <2>3. pc'["bind"] = "cbLookup"
    BY <1>0, <1>6, MovesAlone DEF BindAdapter
  <2>4. QED BY <2>2, <2>3, FoundShrinks
<1>7. CASE CreateBindingAllocate
  <2>1. named' \subseteq named \cup {ctx["bind"]} /\ OpenList' = OpenList /\ Found = {}
    BY <1>7 DEF CreateBindingAllocate, OneFound
  <2>2. Found' \subseteq {ctx["bind"]}
    BY <2>1 DEF Found
  <2>3. pc'["bind"] \in {"cbOpen", "cbFail"}
    BY <1>0, <1>7, MovesAlone DEF CreateBindingAllocate
  <2>4. QED BY <2>2, <2>3 DEF OneFound
<1>8. CASE CreateBindingLookup
  <2>1. Found' = Found
    BY <1>8 DEF CreateBindingLookup, Found
  <2>2. Found = {} \/ pc'["bind"] = "cbDerefTmp"
    BY <1>0, <1>8, MovesAlone DEF CreateBindingLookup
  <2>3. QED BY <2>1, <2>2, FoundShrinks
<1>9. CASE CreateBinding /\ ~CreateBindingAllocate /\ ~CreateBindingLookup
  <2>1. Found' = Found
    BY <1>9 DEF Found, CreateBinding, CreateBindingDerefTmp, CreateBindingOpening, CreateBindingOpen,
                CreateBindingQuery, CreateBindingReadFlags, CreateBindingWriteFlags,
                CreateBindingActive, CreateBindingFailed
  <2>2. PICK label \in {"cbName", "cbQuery", "cbRead", "cbWrite", "cbActive", "cbFail", "cbFailOpen",
                       "sdLock", "idle"} :
            Goto("bind", label) /\ (label = "cbName" => pc["bind"] = "cbOpening")
    BY <1>9 DEF CreateBinding, CreateBindingDerefTmp, CreateBindingOpening, CreateBindingOpen,
                CreateBindingQuery, CreateBindingReadFlags, CreateBindingWriteFlags,
                CreateBindingActive, CreateBindingFailed, Return
  <2>3. pc'["bind"] = label
    BY <1>0, <2>2 DEF Goto, TypeOK
  <2>4. QED BY <2>1, <2>2, <2>3, FoundShrinks
<1>10. ASSUME NEW t \in Binders, BinderStep(t) PROVE OneFound'
  BY <1>10, <1>3, <1>4, <1>5, <1>6, <1>7, <1>8, <1>9 DEF BinderStep, BindThread, PnPThread
<1>11. QED BY <1>1, <1>2, <1>10, StepOfWhom

-----------------------------------------------------------------------------
(* OPEN_DEVICE and the file it works for.                                   *)

Opening(w) == op[w] = "open" /\ pc[w] \in {"vLock", "vRequest", "vDone", "vFailed", "vWait", "odFail"}

\* An ioctl has a file; the file of an OPEN_DEVICE that has claimed its context
\* keeps it, and no other OPEN_DEVICE claims one for that file.
OpenInv ==
    /\ \A w \in IoThreads : /\ file[w] = None <=> pc[w] = "idle"
                            /\ pc[w] = "odFail" => op[w] = "open"
                            /\ Opening(w) => FsContext[file[w]] = ctx[w]
    /\ \A v, w \in IoThreads : Opening(v) /\ Opening(w) /\ file[v] = file[w] => v = w

\* Nothing changes of other ioctls, and of the files of those that have claimed.
OthersOpen(t) ==
    \A w \in IoThreads : w # t =>
        /\ file'[w] = file[w] /\ op'[w] = op[w]
        /\ Opening(w) => FsContext'[file[w]] = FsContext[file[w]]

\* The ioctl of t itself.
OwnOpen(t) ==
    t \in IoThreads =>
        /\ file'[t] = None <=> pc'[t] = "idle"
        /\ pc'[t] = "odFail" => op'[t] = "open"
        /\ Opening(t)' => /\ FsContext'[file'[t]] = ctx'[t]
                          /\ \A w \in IoThreads : w # t /\ Opening(w) => file[w] # file'[t]

\* A step that changes its own ioctl only.
LEMMA OpenKept ==
    ASSUME TypeOK, OpenInv, NEW t, Alone(t), OthersOpen(t), OwnOpen(t)
    PROVE  OpenInv'
<1> USE DEF OthersOpen, OwnOpen
<1>1. \A w \in IoThreads : w \in Agents
  BY LabelsAre
<1>2. \A w \in IoThreads : w # t => (Opening(w)' <=> Opening(w))
  BY <1>1 DEF Opening, Alone
<1>3. \A w \in IoThreads : w # t =>
          /\ file'[w] = None <=> pc'[w] = "idle"
          /\ pc'[w] = "odFail" => op'[w] = "open"
          /\ Opening(w)' => FsContext'[file'[w]] = ctx'[w]
  BY <1>1, <1>2 DEF OpenInv, Alone
<1>4. \A v, w \in IoThreads : Opening(v)' /\ Opening(w)' /\ file'[v] = file'[w] => v = w
  BY <1>2 DEF OpenInv
<1>5. QED BY <1>3, <1>4 DEF OpenInv

\* A step of t that changes only where it is.
LEMMA OpenMoves ==
    ASSUME TypeOK, OpenInv, NEW t \in Agents, Alone(t), UNCHANGED <<file, op, FsContext>>,
           t \in IoThreads => /\ pc[t] # "idle" /\ pc'[t] # "idle"
                              /\ pc'[t] = "odFail" => op[t] = "open"
                              /\ Opening(t)' => Opening(t) /\ ctx'[t] = ctx[t]
    PROVE  OpenInv'
<1>1. OthersOpen(t)
  BY DEF OthersOpen
<1>2. OwnOpen(t)
  BY DEF OwnOpen, OpenInv, Opening
<1>3. QED BY <1>1, <1>2, OpenKept

\* An ioctl that returns.
LEMMA OpenReturns ==
    ASSUME TypeOK, OpenInv, NEW w \in IoThreads, CallReturns(w), UNCHANGED FsContext
    PROVE  OpenInv'
<1>1. w \in Agents /\ Alone(w) /\ pc'[w] = "idle"
  BY LabelsAre, ReturnsAlone
<1>2. file' = [file EXCEPT ![w] = None] /\ op' = [op EXCEPT ![w] = "none"]
  BY DEF CallReturns
<1>3. OthersOpen(w)
  BY <1>2 DEF OthersOpen, TypeOK
<1>4. OwnOpen(w)
  BY <1>1, <1>2 DEF OwnOpen, Opening, TypeOK
<1>5. QED BY <1>1, <1>3, <1>4, OpenKept

\* Every step keeps the claims of OPEN_DEVICE.
LEMMA OpenStep == TypeOK /\ OpenInv /\ [Next]_vars => OpenInv'
<1> SUFFICES ASSUME TypeOK, OpenInv, [Next]_vars PROVE OpenInv'
  OBVIOUS
<1> USE DEF listVars, bindVars, openVars, refVars, powerVars, reqVars, callVars, bindLocals
<1>0. \A w \in IoThreads : w \in Agents /\ w \notin Files
  BY LabelsAre
<1>1. CASE UNCHANGED vars
  BY <1>1 DEF vars, OpenInv, Opening
<1>2. ASSUME NEW t \in Binders, BinderStep(t) PROVE OpenInv'
  <2>1. Alone(t) /\ UNCHANGED <<file, op, FsContext>> /\ t \in Agents /\ t \notin IoThreads
    BY <1>2, BinderFrame, LabelsAre DEF FilesKept, Binders
  <2>2. QED BY <2>1, OpenMoves
<1>3. ASSUME NEW w \in IoThreads, NEW f \in Files, NEW request \in {"open", "oid"}, IoControl(w, f, request)
      PROVE  OpenInv'
  <2>1. /\ pc[w] = "idle" /\ UNCHANGED FsContext /\ f # None
        /\ file' = [file EXCEPT ![w] = f] /\ op' = [op EXCEPT ![w] = request]
    BY <1>3, AgentsAssumption DEF IoControl
  <2>2. Alone(w) /\ (request = "open" => pc'[w] = "odLookup") /\ pc'[w] \in {"odLookup", "vLock"}
    BY <1>0, <1>3, MovesAlone DEF IoControl
  <2>3. OthersOpen(w)
    BY <2>1 DEF OthersOpen, TypeOK
  <2>4. OwnOpen(w)
    BY <2>1, <2>2 DEF OwnOpen, Opening, TypeOK
  <2>5. QED BY <2>2, <2>3, <2>4, OpenKept
<1>4. ASSUME NEW w \in IoThreads, LookupDevice(w) PROVE OpenInv'
  <2>1. CASE CallReturns(w)
    BY <1>4, <2>1, OpenReturns DEF LookupDevice
  <2>2. CASE \E c \in Found : Use(w, c) /\ Goto(w, "odClaim") /\ UNCHANGED <<file, op>>
    <3>1. Alone(w) /\ pc'[w] = "odClaim" /\ pc[w] = "odLookup" /\ UNCHANGED <<file, op, FsContext>>
      BY <1>0, <1>4, <2>2, MovesAlone DEF LookupDevice
    <3>2. QED BY <1>0, <3>1, OpenMoves DEF Opening
  <2>3. QED BY <1>4, <2>1, <2>2 DEF LookupDevice
<1>5. ASSUME NEW w \in IoThreads, ClaimDevice(w) PROVE OpenInv'
  <2>1. CASE Goto(w, "odDeref") /\ UNCHANGED openVars
    <3>1. Alone(w) /\ pc'[w] = "odDeref" /\ pc[w] = "odClaim" /\ UNCHANGED <<file, op, FsContext>>
      BY <1>0, <1>5, <2>1, MovesAlone DEF ClaimDevice
    <3>2. QED BY <1>0, <3>1, OpenMoves DEF Opening
  <2>2. CASE Goto(w, "vLock") /\ FsContext[file[w]] = None
             /\ FsContext' = [FsContext EXCEPT ![file[w]] = ctx[w]]
    <3>1. /\ Alone(w) /\ pc'[w] = "vLock" /\ ctx'[w] = ctx[w] /\ pc[w] = "odClaim"
          /\ UNCHANGED <<file, op>>
      BY <1>0, <1>5, <2>2, MovesAlone DEF ClaimDevice
    <3>2. file[w] \in Files
      BY <3>1 DEF OpenInv, TypeOK
    <3>3. \A v \in IoThreads : Opening(v) => ctx[v] # None /\ file[v] # file[w]
      BY <1>0, <2>2 DEF OpenInv, Opening, TypeOK
    <3>4. OthersOpen(w)
      BY <2>2, <3>1, <3>3 DEF OthersOpen, TypeOK
    <3>5. OwnOpen(w)
      BY <2>2, <3>1, <3>2, <3>3, AgentsAssumption DEF OwnOpen, TypeOK
    <3>6. QED BY <3>1, <3>4, <3>5, OpenKept
  <2>3. QED BY <1>5, <2>1, <2>2 DEF ClaimDevice
<1>6. ASSUME NEW w \in IoThreads, OpenFailed(w) PROVE OpenInv'
  <2>0. /\ Goto(w, "odDeref") /\ UNCHANGED ctx /\ pc[w] = "odFail" /\ UNCHANGED <<file, op>>
        /\ \A f \in Files : f # file[w] => FsContext'[f] = FsContext[f]
    BY <1>6 DEF OpenFailed, TypeOK
  <2>1. /\ Alone(w) /\ pc'[w] = "odDeref" /\ pc[w] = "odFail" /\ UNCHANGED <<file, op>>
        /\ \A f \in Files : f # file[w] => FsContext'[f] = FsContext[f]
    BY <1>0, <2>0, MovesAlone
  <2>2. Opening(w)
    BY <2>1 DEF OpenInv, Opening
  <2>3. \A v \in IoThreads : v # w /\ Opening(v) => file[v] \in Files /\ file[v] # file[w]
    BY <2>2 DEF OpenInv, Opening, TypeOK
  <2>4. OthersOpen(w)
    BY <2>1, <2>3 DEF OthersOpen
  <2>5. OwnOpen(w)
    BY <2>1 DEF OwnOpen, Opening, OpenInv
  <2>6. QED BY <2>1, <2>4, <2>5, OpenKept
<1>7. ASSUME NEW w \in IoThreads, OpenDeref(w) PROVE OpenInv'
  BY <1>7, OpenReturns DEF OpenDeref
<1>8. ASSUME NEW t \in Callers, NEW done \in BOOLEAN, Resume(t, done), UNCHANGED FsContext,
             pc[t] \in RequestLabels
      PROVE  OpenInv'
  <2>1. CASE t \in IoThreads /\ CallReturns(t)
    BY <1>8, <2>1, OpenReturns
  <2>2. CASE ~(t \in IoThreads /\ CallReturns(t))
    <3>1. /\ Alone(t) /\ ctx'[t] = ctx[t] /\ UNCHANGED <<file, op, FsContext>>
          /\ t \in IoThreads => pc'[t] = "odFail" /\ op[t] = "open"
      BY <1>0, <1>8, <2>2, ResumesAlone
    <3>2. t \in Agents /\ (t \in IoThreads => Opening(t)) /\ pc[t] # "idle"
      BY <1>8, <3>1, LabelsAre DEF Opening, Callers, RequestLabels
    <3>3. QED BY <3>1, <3>2, OpenMoves
  <2>3. QED BY <2>1, <2>2
<1>9. ASSUME NEW t \in Callers, ValidateOpenAndDoRequest(t) PROVE OpenInv'
  <2>0. t \in Agents
    BY LabelsAre DEF Callers
  <2>1. CASE ReleaseBinding(t)
    <3>1. PICK done \in BOOLEAN : Resume(t, done)
      BY <2>1 DEF ReleaseBinding
    <3>2. QED BY <1>8, <2>1, <3>1 DEF ReleaseBinding, RequestLabels
  <2>2. CASE ValidateOpen(t) /\ ~IsBindActive(ctx[t])
    BY <1>8, <2>2 DEF ValidateOpen, RequestLabels
  <2>3. CASE (ValidateOpen(t) /\ IsBindActive(ctx[t])) \/ WaitForPower(t) \/ Request(t)
    <3>1. PICK label \in {"vWait", "vRequest", "vDone", "vFailed"} : Goto(t, label)
      BY <2>3 DEF ValidateOpen, WaitForPower, Request, DoRequest
    <3>2. UNCHANGED <<file, op, ctx, FsContext>> /\ pc[t] \in {"vLock", "vWait", "vRequest"}
      BY <2>3 DEF ValidateOpen, WaitForPower, Request
    <3>3. Alone(t) /\ pc'[t] = label /\ ctx'[t] = ctx[t]
      BY <2>0, <3>1, <3>2, MovesAlone
    <3>4. QED BY <2>0, <3>1, <3>2, <3>3, OpenMoves DEF Opening
  <2>4. QED BY <1>9, <2>1, <2>2, <2>3 DEF ValidateOpenAndDoRequest
<1>10. ASSUME NEW f \in Files, Cleanup(f) \/ CleanupMark(f) \/ CleanupSweep(f) PROVE OpenInv'
  <2>1. Alone(f) /\ f \in Agents /\ f \notin IoThreads
    BY <1>10, CallerFrame, LabelsAre DEF Callers, CallerStep, FileThread
  <2>2. QED BY <1>10, <2>1, OpenMoves DEF Cleanup, CleanupMark, CleanupSweep
<1>11. ASSUME NEW f \in Files, Close(f) PROVE OpenInv'
  <2>1. /\ Alone(f) /\ f \notin IoThreads /\ UNCHANGED <<file, op>>
        /\ FsContext' = [FsContext EXCEPT ![f] = None] /\ \A w \in IoThreads : file[w] # f
    BY <1>11, CallerFrame, LabelsAre DEF Callers, CallerStep, FileThread, Close, InDispatch
  <2>2. OthersOpen(f) /\ OwnOpen(f)
    BY <2>1 DEF OthersOpen, OwnOpen, TypeOK
  <2>3. QED BY <2>1, <2>2, OpenKept
<1>12. ASSUME NEW t \in Callers, CallerStep(t) PROVE OpenInv'
  BY <1>12, <1>3, <1>4, <1>5, <1>6, <1>7, <1>9, <1>10, <1>11
     DEF CallerStep, IoThread, FileThread, Callers
<1>13. QED BY <1>1, <1>2, <1>12, StepOfWhom
-----------------------------------------------------------------------------
(* The count of references.                                                 *)

\* What one element more or less does to the size of a set.
LEMMA OneElement ==
    ASSUME NEW S, NEW T, NEW x, IsFiniteSet(S), \A o : o # x => (o \in T <=> o \in S)
    PROVE  /\ IsFiniteSet(T)
           /\ Cardinality(T) = Cardinality(S) + (IF x \in T THEN 1 ELSE 0)
                                              - (IF x \in S THEN 1 ELSE 0)
<1>0. Cardinality(S) \in Nat
  BY FS_CardinalityType
<1>1. CASE x \in T <=> x \in S
  <2>1. T = S
    BY <1>1
  <2>2. QED BY <1>0, <2>1
<1>2. CASE x \in T /\ x \notin S
  <2>1. T = S \cup {x}
    BY <1>2
  <2>2. QED BY <1>0, <1>2, <2>1, FS_AddElement
<1>3. CASE x \notin T /\ x \in S
  <2>1. T = S \ {x}
    BY <1>3
  <2>2. QED BY <1>0, <1>3, <2>1, FS_RemoveElement
<1>4. QED BY <1>1, <1>2, <1>3

\* The same of two.
LEMMA TwoElements ==
    ASSUME NEW S, NEW T, NEW x, NEW y, x # y, IsFiniteSet(S),
           \A o : o # x /\ o # y => (o \in T <=> o \in S)
    PROVE  /\ IsFiniteSet(T)
           /\ Cardinality(T) = Cardinality(S) + (IF x \in T THEN 1 ELSE 0)
                                              - (IF x \in S THEN 1 ELSE 0)
                                              + (IF y \in T THEN 1 ELSE 0)
                                              - (IF y \in S THEN 1 ELSE 0)
<1>1. PICK M : M = {o \in S \cup T : IF o = x THEN x \in T ELSE o \in S}
  OBVIOUS
<1>2. \A o : o # x => (o \in M <=> o \in S)
  BY <1>1
<1>3. \A o : o # y => (o \in T <=> o \in M)
  BY <1>1
<1>4. (x \in M <=> x \in T) /\ (y \in M <=> y \in S)
  BY <1>1
<1>5. /\ IsFiniteSet(M)
      /\ Cardinality(M) = Cardinality(S) + (IF x \in M THEN 1 ELSE 0) - (IF x \in S THEN 1 ELSE 0)
  BY <1>2, OneElement
<1>6. /\ IsFiniteSet(T)
      /\ Cardinality(T) = Cardinality(M) + (IF y \in T THEN 1 ELSE 0) - (IF y \in M THEN 1 ELSE 0)
  BY <1>3, <1>5, OneElement
<1>7. Cardinality(S) \in Nat /\ Cardinality(M) \in Nat /\ Cardinality(T) \in Nat
  BY <1>5, <1>6, FS_CardinalityType
<1>8. QED BY <1>4, <1>5, <1>6, <1>7

\* The reasons for a reference to c, one by one.
BindingHeld(c) ==
    c \in OpenList \/ \E t \in {"bind", "pnp"} : ctx[t] = c /\ pc[t] \in {"sdFree", "sdDeref"}

LookupHeld(w, c) == ctx[w] = c /\ pc[w] \in {"odClaim", "odDeref"}

IsHolder(o, c) ==
    \/ o = <<"binding", c>> /\ BindingHeld(c)
    \/ \E f \in Files : o = <<"open", f>> /\ FsContext[f] = c
    \/ \E w \in IoThreads : o = <<"lookup", w>> /\ LookupHeld(w, c)
    \/ o = <<"lookup", "bind">> /\ tmp = c

\* The set of holders is made of these.
LEMMA HoldersAre == \A c : \A o : o \in Holders(c) <=> IsHolder(o, c)
BY DEF Holders, IsHolder, BindingHeld, LookupHeld

HoldersListed == \A c \in Contexts : \A o : o \in Holders(c) <=> IsHolder(o, c)

\* Before and after a step.
LEMMA HoldersListedNow == HoldersListed /\ HoldersListed'
<1>1. HoldersListed
  BY HoldersAre DEF HoldersListed
<1>2. HoldersListed'
  BY DEF HoldersListed, Holders, IsHolder, BindingHeld, LookupHeld
<1>3. QED BY <1>1, <1>2

\* The kinds of holder are told apart.
LEMMA KindsOfHolder ==
    ASSUME NEW c \in Contexts
    PROVE  /\ IsHolder(<<"binding", c>>, c) <=> BindingHeld(c)
           /\ \A f \in Files : IsHolder(<<"open", f>>, c) <=> FsContext[f] = c
           /\ \A w \in IoThreads : IsHolder(<<"lookup", w>>, c) <=> LookupHeld(w, c)
           /\ IsHolder(<<"lookup", "bind">>, c) <=> tmp = c
BY LabelsAre DEF IsHolder

\* There are finitely many of them.
LEMMA HoldersAreFinite == \A c \in Contexts : IsFiniteSet(Holders(c))
<1>1. SUFFICES ASSUME NEW c \in Contexts PROVE IsFiniteSet(Holders(c))
  OBVIOUS
<1> DEFINE Who == ((Files \cup IoThreads) \cup {c}) \cup {"bind"}
           Kinds == (({} \cup {"binding"}) \cup {"open"}) \cup {"lookup"}
<1>2. IsFiniteSet(Kinds)
  BY FS_EmptySet, FS_AddElement
<1>3. IsFiniteSet(Files \cup IoThreads)
  BY AgentsAssumption, FS_Union
<1>4. IsFiniteSet(Who)
  BY <1>3, FS_AddElement
<1>5. IsFiniteSet(Kinds \X Who)
  <2> HIDE DEF Kinds, Who
  <2>1. QED BY <1>2, <1>4, FS_Product
<1>6. Holders(c) \subseteq Kinds \X Who
  BY DEF Holders
<1>7. QED BY <1>5, <1>6, FS_Subset

\* The count of one context after a step that changes two of its holders.
LEMMA CountOfTwo ==
    ASSUME RefCountIsExact, NEW c \in Contexts, NEW x, NEW y, x # y, RefCount[c] \in Int,
           \A o : o # x /\ o # y => (IsHolder(o, c)' <=> IsHolder(o, c)),
           RefCount'[c] = RefCount[c]
               + (IF IsHolder(x, c)' THEN 1 ELSE 0) - (IF IsHolder(x, c) THEN 1 ELSE 0)
               + (IF IsHolder(y, c)' THEN 1 ELSE 0) - (IF IsHolder(y, c) THEN 1 ELSE 0)
    PROVE  RefCount'[c] = Cardinality(Holders(c)')
<1>1. \A o : (o \in Holders(c) <=> IsHolder(o, c)) /\ (o \in Holders(c)' <=> IsHolder(o, c)')
  BY HoldersListedNow DEF HoldersListed
<1>2. IsFiniteSet(Holders(c)) /\ RefCount[c] = Cardinality(Holders(c)) /\ Cardinality(Holders(c)) \in Nat
  BY HoldersAreFinite, FS_CardinalityType DEF RefCountIsExact
<1>3. \A o : o # x /\ o # y => (o \in Holders(c)' <=> o \in Holders(c))
  BY <1>1
<1>4. Cardinality(Holders(c)') = Cardinality(Holders(c))
          + (IF x \in Holders(c)' THEN 1 ELSE 0) - (IF x \in Holders(c) THEN 1 ELSE 0)
          + (IF y \in Holders(c)' THEN 1 ELSE 0) - (IF y \in Holders(c) THEN 1 ELSE 0)
  BY <1>2, <1>3, TwoElements
<1>5. QED BY <1>1, <1>2, <1>4

\* The gains and losses of a step of caller t that changes the context of the
\* file f only ...
CallerCounts(t, f) ==
    \A c \in Contexts : RefCount'[c] = RefCount[c]
        + (IF ctx'[t] = c /\ pc'[t] \in {"odClaim", "odDeref"} THEN 1 ELSE 0)
        - (IF ctx[t] = c /\ pc[t] \in {"odClaim", "odDeref"} THEN 1 ELSE 0)
        + (IF f \in Files /\ FsContext'[f] = c THEN 1 ELSE 0)
        - (IF f \in Files /\ FsContext[f] = c THEN 1 ELSE 0)

\* ... and of one of binder t.
BinderCounts(t) ==
    \A c \in Contexts : RefCount'[c] = RefCount[c]
        + (IF BindingHeld(c)' THEN 1 ELSE 0) - (IF BindingHeld(c) THEN 1 ELSE 0)
        + (IF tmp' = c THEN 1 ELSE 0) - (IF tmp = c THEN 1 ELSE 0)

\* With them the count stays exact.
LEMMA CallerCount ==
    ASSUME TypeOK, TypeOK', RefCountIsExact, NEW t \in Callers, NEW f,
           Alone(t), UNCHANGED <<OpenList, tmp>>,
           \A g \in Files : g # f => FsContext'[g] = FsContext[g], CallerCounts(t, f)
    PROVE  RefCountIsExact'
<1>1. /\ t \in Agents /\ t # "bind" /\ t # "pnp" /\ {"bind", "pnp"} \subseteq Agents
      /\ \A w \in IoThreads : w \in Agents /\ w # "bind"
      /\ \A w \in IoThreads : w \notin Files
  BY LabelsAre DEF Callers
<1>2. SUFFICES ASSUME NEW c \in Contexts PROVE RefCount'[c] = Cardinality(Holders(c)')
  BY DEF RefCountIsExact
<1> DEFINE x == <<"lookup", t>>
           y == <<"open", f>>
<1>3. x # y /\ RefCount[c] \in Int
  BY DEF TypeOK
<1>4. BindingHeld(c)' <=> BindingHeld(c)
  BY <1>1 DEF BindingHeld, Alone
<1>5. \A w \in IoThreads : w # t => (LookupHeld(w, c)' <=> LookupHeld(w, c))
  BY <1>1 DEF LookupHeld, Alone
<1>6. \A o : o # x /\ o # y => (IsHolder(o, c)' <=> IsHolder(o, c))
  BY <1>4, <1>5 DEF IsHolder
<1>7. /\ IsHolder(x, c) <=> ctx[t] = c /\ pc[t] \in {"odClaim", "odDeref"}
      /\ IsHolder(x, c)' <=> ctx'[t] = c /\ pc'[t] \in {"odClaim", "odDeref"}
  <2>1. CASE t \in IoThreads
    BY <1>1, <2>1 DEF IsHolder, LookupHeld
  <2>2. CASE t \notin IoThreads
    <3>1. pc[t] \notin {"odClaim", "odDeref"} /\ pc'[t] \notin {"odClaim", "odDeref"}
      <4>1. pc[t] \in Labels(t) /\ pc'[t] \in Labels(t)
        BY <1>1 DEF TypeOK
      <4>2. t \in Files
        BY <2>2 DEF Callers
      <4>3. QED BY <4>1, <4>2, LabelsAre DEF RequestLabels
    <3>2. ~IsHolder(x, c) /\ ~IsHolder(x, c)'
      BY <1>1, <2>2 DEF IsHolder
    <3>3. QED BY <3>1, <3>2
  <2>3. QED BY <2>1, <2>2
<1>8. /\ IsHolder(y, c) <=> f \in Files /\ FsContext[f] = c
      /\ IsHolder(y, c)' <=> f \in Files /\ FsContext'[f] = c
  BY DEF IsHolder
<1>9. RefCount'[c] = RefCount[c]
          + (IF IsHolder(x, c)' THEN 1 ELSE 0) - (IF IsHolder(x, c) THEN 1 ELSE 0)
          + (IF IsHolder(y, c)' THEN 1 ELSE 0) - (IF IsHolder(y, c) THEN 1 ELSE 0)
  BY <1>7, <1>8 DEF CallerCounts
<1> HIDE DEF x, y
<1>10. QED BY <1>3, <1>6, <1>9, CountOfTwo

\* With them the count stays exact.
LEMMA BinderCount ==
    ASSUME TypeOK, RefCountIsExact, NEW t \in Binders, Alone(t), UNCHANGED FsContext, BinderCounts(t)
    PROVE  RefCountIsExact'
<1>1. \A w \in IoThreads : w \in Agents /\ w # t
  BY LabelsAre DEF Binders
<1>2. SUFFICES ASSUME NEW c \in Contexts PROVE RefCount'[c] = Cardinality(Holders(c)')
  BY DEF RefCountIsExact
<1> DEFINE x == <<"binding", c>>
           y == <<"lookup", "bind">>
<1>3. x # y /\ RefCount[c] \in Int
  BY DEF TypeOK
<1>4. \A w \in IoThreads : LookupHeld(w, c)' <=> LookupHeld(w, c)
  BY <1>1 DEF LookupHeld, Alone
<1>5. \A o : o # x /\ o # y => (IsHolder(o, c)' <=> IsHolder(o, c))
  BY <1>4 DEF IsHolder
<1>6. (IsHolder(x, c) <=> BindingHeld(c)) /\ (IsHolder(x, c)' <=> BindingHeld(c)')
  BY DEF IsHolder
<1>7. (IsHolder(y, c) <=> tmp = c) /\ (IsHolder(y, c)' <=> tmp' = c)
  BY LabelsAre DEF IsHolder
<1>8. RefCount'[c] = RefCount[c]
          + (IF IsHolder(x, c)' THEN 1 ELSE 0) - (IF IsHolder(x, c) THEN 1 ELSE 0)
          + (IF IsHolder(y, c)' THEN 1 ELSE 0) - (IF IsHolder(y, c) THEN 1 ELSE 0)
  BY <1>6, <1>7 DEF BinderCounts, BindingHeld
<1> HIDE DEF x, y
<1>9. QED BY <1>3, <1>5, <1>8, CountOfTwo

\* A step of a caller that has nothing to do with references.
LEMMA CallerCountsNothing ==
    ASSUME TypeOK, NEW t \in Callers, UNCHANGED <<RefCount, FsContext>>,
           pc[t] \notin {"odClaim", "odDeref"}, pc'[t] \notin {"odClaim", "odDeref"}
    PROVE  CallerCounts(t, None)
<1>1. \A c \in Contexts : RefCount[c] \in Int
  BY DEF TypeOK
<1>2. None \notin Files
  BY AgentsAssumption
<1>3. QED BY <1>1, <1>2 DEF CallerCounts

\* The references of OPEN_DEVICE, of a request, of Cleanup and of Close.
LEMMA CallersCount ==
    ASSUME TypeOK, TypeOK', OpenInv, RefCountIsExact, NEW t \in Callers, CallerStep(t)
    PROVE  RefCountIsExact'
<1> USE DEF listVars, bindVars, openVars, refVars, powerVars, reqVars, callVars, bindLocals
<1>0. /\ t \in Agents /\ (t \in IoThreads <=> t \notin Files) /\ Alone(t)
      /\ UNCHANGED <<OpenList, tmp>> /\ None \notin Contexts \cup Files
  BY CallerFrame, LabelsAre, AgentsAssumption DEF Callers
<1>01. \A c \in Contexts : RefCount[c] \in Int
  BY DEF TypeOK
<1>02. CallerCounts(t, None) /\ UNCHANGED FsContext => RefCountIsExact'
  BY <1>0, CallerCount
<1>03. ASSUME t \in IoThreads, pc[t] \in {"odClaim", "odFail"}
       PROVE  file[t] \in Files /\ ctx[t] \in Contexts /\ file[t] # None
  <2>1. file[t] # None /\ file[t] \in Files \cup {None}
    BY <1>03 DEF OpenInv, TypeOK
  <2>2. ctx[t] # None /\ ctx[t] \in Contexts \cup {None}
    BY <1>0, <1>03 DEF TypeOK
  <2>3. QED BY <2>1, <2>2
<1>1. ASSUME NEW f \in Files, NEW request \in {"open", "oid"}, IoControl(t, f, request)
      PROVE  RefCountIsExact'
  <2>1. pc[t] = "idle" /\ pc'[t] \in {"odLookup", "vLock"} /\ UNCHANGED <<RefCount, FsContext>>
    BY <1>0, <1>1, MovesAlone DEF IoControl
  <2>2. QED BY <1>02, <2>1, CallerCountsNothing
<1>2. ASSUME t \in Files, Cleanup(t) \/ CleanupMark(t) \/ CleanupSweep(t) PROVE RefCountIsExact'
  <2>1. /\ pc[t] \in Labels(t) /\ pc'[t] \in Labels(t)
        /\ UNCHANGED <<RefCount, FsContext>>
    BY <1>0, <1>2 DEF Cleanup, CleanupMark, CleanupSweep, TypeOK
  <2>2. QED BY <1>02, <1>2, <2>1, CallerCountsNothing, LabelsAre DEF RequestLabels
<1>3. ASSUME LookupDevice(t) PROVE RefCountIsExact'
  <2>1. CASE CallReturns(t) /\ UNCHANGED refVars
    <3>1. pc[t] = "odLookup" /\ pc'[t] = "idle" /\ UNCHANGED <<RefCount, FsContext>>
      BY <1>0, <1>3, <2>1, ReturnsAlone DEF LookupDevice
    <3>2. QED BY <1>02, <3>1, CallerCountsNothing
  <2>2. CASE \E c \in Found : RefOpen(c) /\ Use(t, c) /\ Goto(t, "odClaim")
    <3>1. PICK c \in Found : RefOpen(c) /\ Use(t, c) /\ Goto(t, "odClaim")
      BY <2>2
    <3>2. /\ pc[t] = "odLookup" /\ pc'[t] = "odClaim" /\ ctx'[t] = c /\ UNCHANGED FsContext
      BY <1>0, <1>3, <3>1, MovesAlone DEF LookupDevice
    <3>3. \A d \in Contexts : RefCount'[d] = RefCount[d] + (IF d = c THEN 1 ELSE 0)
      BY <1>01, <3>1 DEF RefOpen, TypeOK
    <3>4. CallerCounts(t, None)
      BY <1>0, <1>01, <3>2, <3>3 DEF CallerCounts
    <3>5. QED BY <1>02, <3>2, <3>4
  <2>3. QED BY <1>3, <2>1, <2>2 DEF LookupDevice
<1>4. ASSUME t \in IoThreads, ClaimDevice(t) PROVE RefCountIsExact'
  <2>1. /\ pc[t] = "odClaim" /\ UNCHANGED <<RefCount, ctx>> /\ file[t] \in Files
        /\ ctx[t] \in Contexts
    BY <1>03, <1>4 DEF ClaimDevice
  <2>2. CASE Goto(t, "odDeref") /\ UNCHANGED openVars
    <3>1. pc'[t] = "odDeref" /\ UNCHANGED FsContext
      BY <1>0, <2>2 DEF Goto, TypeOK
    <3>2. CallerCounts(t, None)
      BY <1>0, <1>01, <2>1, <3>1 DEF CallerCounts
    <3>3. QED BY <1>02, <3>1, <3>2
  <2>3. CASE Goto(t, "vLock") /\ FsContext[file[t]] = None
             /\ FsContext' = [FsContext EXCEPT ![file[t]] = ctx[t]]
    <3>1. pc'[t] = "vLock" /\ FsContext'[file[t]] = ctx[t]
      BY <1>0, <2>1, <2>3 DEF Goto, TypeOK
    <3>2. \A g \in Files : g # file[t] => FsContext'[g] = FsContext[g]
      BY <2>3 DEF TypeOK
    <3>3. CallerCounts(t, file[t])
      BY <1>0, <1>01, <2>1, <2>3, <3>1 DEF CallerCounts
    <3>4. QED BY <1>0, <3>2, <3>3, CallerCount
  <2>4. QED BY <1>4, <2>2, <2>3 DEF ClaimDevice
<1>5. ASSUME t \in IoThreads, OpenFailed(t) PROVE RefCountIsExact'
  <2>1. /\ pc[t] = "odFail" /\ pc'[t] = "odDeref" /\ UNCHANGED <<RefCount, ctx>>
        /\ file[t] \in Files /\ ctx[t] \in Contexts
        /\ FsContext' = [FsContext EXCEPT ![file[t]] = IF FsContext[file[t]] = ctx[t] THEN None
                                                       ELSE FsContext[file[t]]]
    BY <1>0, <1>03, <1>5, MovesAlone DEF OpenFailed
  <2>2. FsContext[file[t]] = ctx[t]
    BY <1>5, <2>1 DEF OpenInv, Opening
  <2>3. FsContext'[file[t]] = None /\ \A g \in Files : g # file[t] => FsContext'[g] = FsContext[g]
    BY <2>1, <2>2 DEF TypeOK
  <2>4. CallerCounts(t, file[t])
    BY <1>0, <1>01, <2>1, <2>2, <2>3 DEF CallerCounts
  <2>5. QED BY <1>0, <2>3, <2>4, CallerCount
<1>6. ASSUME OpenDeref(t) PROVE RefCountIsExact'
  <2>1. pc[t] = "odDeref" /\ pc'[t] = "idle" /\ ctx'[t] = None /\ UNCHANGED FsContext
    BY <1>0, <1>6, ReturnsAlone DEF OpenDeref
  <2>2. \A d \in Contexts : RefCount'[d] = RefCount[d] - (IF d = ctx[t] THEN 1 ELSE 0)
    BY <1>01, <1>6 DEF OpenDeref, DerefOpen, TypeOK
  <2>3. CallerCounts(t, None)
    BY <1>0, <1>01, <2>1, <2>2 DEF CallerCounts
  <2>4. QED BY <1>02, <2>1, <2>3
<1>7. ASSUME NEW done \in BOOLEAN, Resume(t, done), UNCHANGED <<RefCount, FsContext>>,
             pc[t] \in RequestLabels
      PROVE  RefCountIsExact'
  <2>1. pc'[t] \notin {"odClaim", "odDeref"} /\ pc[t] \notin {"odClaim", "odDeref"}
    BY <1>7, ResumesAlone DEF RequestLabels
  <2>2. QED BY <1>02, <1>7, <2>1, CallerCountsNothing
<1>8. ASSUME ValidateOpenAndDoRequest(t) PROVE RefCountIsExact'
  <2>1. CASE ReleaseBinding(t)
    <3>1. PICK done \in BOOLEAN : Resume(t, done)
      BY <2>1 DEF ReleaseBinding
    <3>2. QED BY <1>7, <2>1, <3>1 DEF ReleaseBinding, RequestLabels
  <2>2. CASE ValidateOpen(t) /\ ~IsBindActive(ctx[t])
    BY <1>7, <2>2 DEF ValidateOpen, RequestLabels
  <2>3. CASE (ValidateOpen(t) /\ IsBindActive(ctx[t])) \/ WaitForPower(t) \/ Request(t)
    <3>1. PICK label \in {"vWait", "vRequest", "vDone", "vFailed"} : Goto(t, label)
      BY <2>3 DEF ValidateOpen, WaitForPower, Request, DoRequest
    <3>2. UNCHANGED <<RefCount, FsContext>> /\ pc[t] \in {"vLock", "vWait", "vRequest"}
      BY <2>3 DEF ValidateOpen, WaitForPower, Request
    <3>3. pc'[t] = label
      BY <1>0, <3>1 DEF Goto, TypeOK
    <3>4. QED BY <1>02, <3>1, <3>2, <3>3, CallerCountsNothing
  <2>4. QED BY <1>8, <2>1, <2>2, <2>3 DEF ValidateOpenAndDoRequest
<1>9. ASSUME t \in Files, Close(t) PROVE RefCountIsExact'
  <2>1. /\ pc[t] = "closing" /\ pc'[t] = "idle" /\ UNCHANGED ctx
        /\ FsContext' = [FsContext EXCEPT ![t] = None]
    BY <1>0, <1>9, MovesAlone DEF Close
  <2>2. FsContext'[t] = None /\ \A g \in Files : g # t => FsContext'[g] = FsContext[g]
    BY <1>9, <2>1 DEF TypeOK
  <2>3. \A d \in Contexts : RefCount'[d] = RefCount[d] - (IF d = FsContext[t] THEN 1 ELSE 0)
    BY <1>0, <1>01, <1>9 DEF Close, DerefOpen, TypeOK
  <2>4. CallerCounts(t, t)
    BY <1>0, <1>01, <1>9, <2>1, <2>2, <2>3 DEF CallerCounts
  <2>5. QED BY <1>0, <2>2, <2>4, CallerCount
<1>10. QED BY <1>0, <1>1, <1>2, <1>3, <1>4, <1>5, <1>6, <1>8, <1>9
       DEF CallerStep, IoThread, FileThread

\* A step of a binder that has nothing to do with references.
LEMMA BinderCountsNothing ==
    ASSUME TypeOK, NEW t \in Binders, Alone(t), UNCHANGED <<RefCount, OpenList, tmp>>,
           pc[t] \in {"sdFree", "sdDeref"} <=> pc'[t] \in {"sdFree", "sdDeref"},
           pc[t] \in {"sdFree", "sdDeref"} => ctx'[t] = ctx[t]
    PROVE  BinderCounts(t)
<1>1. \A c \in Contexts : RefCount[c] \in Int
  BY DEF TypeOK
<1>2. \A c \in Contexts : BindingHeld(c)' <=> BindingHeld(c)
  BY LabelsAre DEF BindingHeld, Alone, Binders
<1>3. QED BY <1>1, <1>2 DEF BinderCounts, BindingHeld

\* The references of the binding, and of the lookup of CreateBinding.
LEMMA BindersCount ==
    ASSUME TypeOK, Life, RefCountIsExact, NEW t \in Binders, BinderStep(t)
    PROVE  RefCountIsExact'
<1> USE DEF listVars, bindVars, openVars, refVars, powerVars, reqVars, callVars, bindLocals
<1>0. /\ t \in Agents /\ Alone(t) /\ UNCHANGED FsContext /\ {"bind", "pnp"} \subseteq Agents
      /\ Binders = {"bind", "pnp"} /\ None \notin Contexts /\ "bind" # "pnp"
  BY BinderFrame, LabelsAre, AgentsAssumption DEF Binders, FilesKept
<1>01. \A c \in Contexts : RefCount[c] \in Int
  BY DEF TypeOK
<1>02. BinderCounts(t) => RefCountIsExact'
  BY <1>0, BinderCount
<1>03. ASSUME pc[t] # "idle", NEW u \in Binders, u # t
       PROVE  ctx[u] # ctx[t]
  <2>1. ctx[t] # None
    BY <1>03, WhereBinderIs
  <2>2. QED BY <1>0, <1>03, <2>1 DEF Life
<1>1. ASSUME ShutdownUnlink(t) PROVE RefCountIsExact'
  <2>1. /\ pc[t] = "sdUnlink" /\ pc'[t] = "sdFree" /\ UNCHANGED <<RefCount, ctx, tmp>>
        /\ OpenList' = OpenList \ {ctx[t]}
    BY <1>0, <1>1, MovesAlone DEF ShutdownUnlink
  <2>2. ctx[t] \in OpenList /\ ctx[t] \in Contexts
    BY <2>1, WhereBinderIs DEF Stage
  <2>3. \A c \in Contexts : BindingHeld(c)' <=> BindingHeld(c)
    BY <1>0, <2>1, <2>2 DEF BindingHeld, Alone
  <2>4. BinderCounts(t)
    BY <1>01, <2>1, <2>3 DEF BinderCounts, BindingHeld
  <2>5. QED BY <1>02, <2>4
<1>2. ASSUME ShutdownDeref(t) PROVE RefCountIsExact'
  <2>1. /\ pc[t] = "sdDeref" /\ pc'[t] = "idle" /\ ctx'[t] = None /\ UNCHANGED <<OpenList, tmp>>
    BY <1>0, <1>2, ReturnsAlone DEF ShutdownDeref
  <2>2. ctx[t] \notin OpenList /\ ctx[t] \in Contexts
    BY <2>1, WhereBinderIs DEF Stage
  <2>3. \A d \in Contexts : RefCount'[d] = RefCount[d] - (IF d = ctx[t] THEN 1 ELSE 0)
    BY <1>01, <1>2 DEF ShutdownDeref, DerefOpen, TypeOK
  <2>4. \A u \in Binders : u # t => ctx'[u] # ctx[t] /\ ctx'[u] = ctx[u] /\ pc'[u] = pc[u]
    BY <1>0, <1>03, <2>1 DEF Alone
  <2>5. BindingHeld(ctx[t]) /\ ~(ctx[t] \in OpenList' \/ \E u \in {"bind", "pnp"} :
                                     ctx'[u] = ctx[t] /\ pc'[u] \in {"sdFree", "sdDeref"})
    BY <1>0, <2>1, <2>2, <2>4 DEF BindingHeld
  <2>6. \A d \in Contexts : d # ctx[t] => (BindingHeld(d)' <=> BindingHeld(d))
    BY <1>0, <2>1, <2>4 DEF BindingHeld
  <2>7. BinderCounts(t)
    BY <1>01, <2>1, <2>3, <2>5, <2>6 DEF BinderCounts, BindingHeld
  <2>8. QED BY <1>02, <2>7
<1>3. ASSUME NEW c \in Contexts, BindAdapter(c), t = "bind" PROVE RefCountIsExact'
  <2>1. /\ pc'[t] = "cbLookup" /\ ctx'[t] = c /\ pc[t] = "idle" /\ UNCHANGED tmp
        /\ OpenList' = OpenList \cup {c} /\ bindFlags[c] = "none"
    BY <1>0, <1>3, MovesAlone DEF BindAdapter
  <2>2. \A d \in Contexts : RefCount'[d] = RefCount[d] + (IF d = c THEN 1 ELSE 0)
    BY <1>01, <1>3 DEF BindAdapter, RefOpen, TypeOK
  <2>3. c \notin OpenList /\ \A u \in Binders : ctx[u] # c
    BY <1>0, <2>1, WhatIsKnown DEF Life, Settled, Bound
  <2>4. ~BindingHeld(c)
    BY <1>0, <2>3 DEF BindingHeld
  <2>5. \A d \in Contexts : d # c => (BindingHeld(d)' <=> BindingHeld(d))
    BY <1>0, <1>3, <2>1 DEF BindingHeld, Alone
  <2>6. BinderCounts(t)
    BY <1>01, <2>1, <2>2, <2>4, <2>5 DEF BinderCounts, BindingHeld
  <2>7. QED BY <1>02, <2>6
<1>4. ASSUME CreateBindingLookup, t = "bind" PROVE RefCountIsExact'
  <2>1. CASE Found = {} /\ Goto("bind", "cbOpening") /\ UNCHANGED <<refVars, tmp>>
    <3>1. pc[t] = "cbLookup" /\ pc'[t] = "cbOpening" /\ UNCHANGED <<RefCount, OpenList, tmp>>
      BY <1>0, <1>4, <2>1 DEF CreateBindingLookup, Goto, TypeOK
    <3>2. QED BY <1>0, <1>02, <3>1, BinderCountsNothing
  <2>2. CASE \E c \in Found : RefOpen(c) /\ tmp' = c /\ Goto("bind", "cbDerefTmp")
    <3>1. PICK c \in Found : RefOpen(c) /\ tmp' = c /\ Goto("bind", "cbDerefTmp")
      BY <2>2
    <3>2. /\ pc[t] = "cbLookup" /\ pc'[t] = "cbDerefTmp" /\ UNCHANGED <<OpenList, ctx>> /\ tmp = None
      BY <1>0, <1>4, <3>1 DEF CreateBindingLookup, Goto, TypeOK, Life
    <3>3. \A d \in Contexts : RefCount'[d] = RefCount[d] + (IF d = c THEN 1 ELSE 0)
      BY <1>01, <3>1 DEF RefOpen, TypeOK
    <3>4. \A d \in Contexts : BindingHeld(d)' <=> BindingHeld(d)
      BY <1>0, <1>4, <3>2 DEF BindingHeld, Alone
    <3>5. BinderCounts(t)
      BY <1>0, <1>01, <3>1, <3>2, <3>3, <3>4 DEF BinderCounts, BindingHeld
    <3>6. QED BY <1>02, <3>5
  <2>3. QED BY <1>4, <2>1, <2>2 DEF CreateBindingLookup
<1>5. ASSUME CreateBindingDerefTmp, t = "bind" PROVE RefCountIsExact'
  <2>1. /\ pc[t] = "cbDerefTmp" /\ pc'[t] = "cbFail" /\ UNCHANGED <<OpenList, ctx>> /\ tmp' = None
    BY <1>0, <1>5 DEF CreateBindingDerefTmp, Goto, TypeOK
  <2>2. \A d \in Contexts : RefCount'[d] = RefCount[d] - (IF d = tmp THEN 1 ELSE 0)
    BY <1>01, <1>5 DEF CreateBindingDerefTmp, DerefOpen, TypeOK
  <2>3. \A d \in Contexts : BindingHeld(d)' <=> BindingHeld(d)
    BY <1>0, <1>5, <2>1 DEF BindingHeld, Alone
  <2>4. BinderCounts(t)
    BY <1>0, <1>01, <2>1, <2>2, <2>3 DEF BinderCounts, BindingHeld
  <2>5. QED BY <1>02, <2>4
<1>6. ASSUME NEW label, Goto(t, label), UNCHANGED <<RefCount, OpenList, tmp>>,
             pc[t] \in {"sdFree", "sdDeref"} <=> label \in {"sdFree", "sdDeref"},
             pc[t] \in {"sdFree", "sdDeref"} => UNCHANGED ctx
      PROVE  RefCountIsExact'
  <2>1. pc'[t] = label
    BY <1>0, <1>6 DEF Goto, TypeOK
  <2>2. QED BY <1>0, <1>02, <1>6, <2>1, BinderCountsNothing
<1>7. ASSUME ShutdownBinding(t), ~ShutdownUnlink(t), ~ShutdownDeref(t) PROVE RefCountIsExact'
  <2>1. PICK label \in {"idle", "sdFilter", "sdUnlink", "sdWait", "sdClose", "sdIdle", "sdDeref"} :
            /\ Goto(t, label) /\ UNCHANGED <<RefCount, OpenList, tmp>>
            /\ pc[t] \in {"sdFree", "sdDeref"} <=> label = "sdDeref"
            /\ label = "sdDeref" => UNCHANGED ctx
    BY <1>7 DEF ShutdownBinding, ShutdownStart, ShutdownFilter, ShutdownWait, ShutdownClose,
                ShutdownIdle, ShutdownFree, DoRequest, Return
  <2>2. QED BY <1>6, <2>1
<1>8. ASSUME CreateBinding, ~CreateBindingLookup, ~CreateBindingDerefTmp, t = "bind"
      PROVE  RefCountIsExact'
  <2>1. PICK label \in {"cbName", "cbOpen", "cbQuery", "cbRead", "cbWrite", "cbActive", "cbFail",
                        "cbFailOpen", "sdLock", "idle"} :
            /\ Goto(t, label) /\ UNCHANGED <<RefCount, OpenList, tmp>>
            /\ pc[t] \notin {"sdFree", "sdDeref"}
    BY <1>8 DEF CreateBinding, CreateBindingOpening, CreateBindingAllocate, CreateBindingOpen,
                CreateBindingQuery, CreateBindingReadFlags, CreateBindingWriteFlags,
                CreateBindingActive, CreateBindingFailed, Return
  <2>2. QED BY <1>6, <2>1
<1>9. ASSUME t = "pnp", SetPoweredUpEvent \/ PowerDownWait \/ \E c \in Contexts : Unbind(c) \/ SetPower(c)
      PROVE  RefCountIsExact'
  <2>1. PICK label \in {"idle", "pwWait", "sdLock", "pwEvent"} :
            /\ Goto(t, label) /\ UNCHANGED <<RefCount, OpenList, tmp>>
            /\ pc[t] \notin {"sdFree", "sdDeref"}
    BY <1>9 DEF SetPoweredUpEvent, PowerDownWait, Unbind, SetPower, NdisMayCall, Return
  <2>2. QED BY <1>6, <2>1
<1>10. QED BY <1>1, <1>2, <1>3, <1>4, <1>5, <1>7, <1>8, <1>9 DEF BinderStep, BindThread, PnPThread

-----------------------------------------------------------------------------
(* Nothing refers to a context that is freed.                               *)

FreedInv == \A c \in Contexts : freed[c] => RefCount[c] = 0

\* What holds a context keeps it.
LEMMA HeldIsAlive ==
    ASSUME TypeOK, RefCountIsExact, FreedInv, NEW c \in Contexts, NEW o, IsHolder(o, c)
    PROVE  RefCount[c] > 0 /\ ~freed[c]
<1>1. Holders(c) # {}
  BY HoldersListedNow DEF HoldersListed
<1>2. Cardinality(Holders(c)) # 0 /\ Cardinality(Holders(c)) \in Nat
  BY <1>1, HoldersAreFinite, FS_EmptySet, FS_CardinalityType
<1>3. RefCount[c] > 0
  BY <1>2 DEF RefCountIsExact
<1>4. QED BY <1>3 DEF FreedInv

\* What a lookup finds is listed, and so is held.
LEMMA FoundIsAlive ==
    ASSUME TypeOK, RefCountIsExact, FreedInv, NEW c \in Found
    PROVE  c \in Contexts /\ ~freed[c]
<1>1. c \in Contexts /\ IsHolder(<<"binding", c>>, c)
  BY DEF Found, TypeOK, IsHolder, BindingHeld
<1>2. QED BY <1>1, HeldIsAlive

\* What the three ways to change a count do.
LEMMA FreedKept ==
    ASSUME TypeOK, FreedInv,
           \/ UNCHANGED refVars
           \/ \E c \in Contexts : RefOpen(c) /\ ~freed[c]
           \/ \E c \in Contexts : DerefOpen(c) /\ ~freed[c]
    PROVE  FreedInv'
<1>1. CASE UNCHANGED refVars
  BY <1>1 DEF FreedInv, refVars
<1>2. ASSUME NEW c \in Contexts, RefOpen(c), ~freed[c] PROVE FreedInv'
  BY <1>2 DEF FreedInv, RefOpen, TypeOK
<1>3. ASSUME NEW c \in Contexts, DerefOpen(c), ~freed[c] PROVE FreedInv'
  <2>1. RefCount'[c] = RefCount[c] - 1 /\ (freed'[c] <=> RefCount[c] = 1)
    BY <1>3 DEF DerefOpen, TypeOK
  <2>2. \A d \in Contexts : d # c => RefCount'[d] = RefCount[d] /\ freed'[d] = freed[d]
    BY <1>3, DerefElsewhere
  <2>3. RefCount[c] \in Int
    BY DEF TypeOK
  <2>4. QED BY <2>1, <2>2, <2>3 DEF FreedInv
<1>4. QED BY <1>1, <1>2, <1>3

\* Every step frees at most what nobody holds.
LEMMA FreedStep ==
    TypeOK /\ Life /\ OpenInv /\ RefCountIsExact /\ FreedInv /\ [Next]_vars => FreedInv'
<1> SUFFICES ASSUME TypeOK, Life, OpenInv, RefCountIsExact, FreedInv, [Next]_vars PROVE FreedInv'
  OBVIOUS
<1>0. None \notin Contexts
  BY AgentsAssumption
<1>1. CASE UNCHANGED vars
  BY <1>1, FreedKept DEF vars
<1>2. ASSUME NEW w \in IoThreads, LookupDevice(w) PROVE FreedInv'
  BY <1>2, FreedKept, FoundIsAlive DEF LookupDevice
<1>3. ASSUME NEW w \in IoThreads, OpenDeref(w) PROVE FreedInv'
  <2>1. pc[w] = "odDeref" /\ DerefOpen(ctx[w]) /\ ctx[w] \in Contexts
    BY <1>3, LabelsAre DEF OpenDeref, TypeOK
  <2>2. IsHolder(<<"lookup", w>>, ctx[w])
    BY <2>1 DEF IsHolder, LookupHeld
  <2>3. QED BY <2>1, <2>2, HeldIsAlive, FreedKept
<1>4. ASSUME NEW f \in Files, Close(f) PROVE FreedInv'
  <2>1. CASE FsContext[f] = None
    BY <1>4, <2>1, FreedKept DEF Close
  <2>2. CASE FsContext[f] # None
    <3>1. FsContext[f] \in Contexts /\ DerefOpen(FsContext[f])
      BY <1>4, <2>2 DEF Close, TypeOK
    <3>2. IsHolder(<<"open", f>>, FsContext[f])
      BY DEF IsHolder
    <3>3. QED BY <3>1, <3>2, HeldIsAlive, FreedKept
  <2>3. QED BY <2>1, <2>2
<1>5. ASSUME NEW t \in Binders, ShutdownDeref(t) PROVE FreedInv'
  <2>1. pc[t] = "sdDeref" /\ DerefOpen(ctx[t]) /\ ctx[t] \in Contexts
    BY <1>5, WhereBinderIs DEF ShutdownDeref
  <2>2. IsHolder(<<"binding", ctx[t]>>, ctx[t])
    BY <2>1 DEF IsHolder, BindingHeld, Binders
  <2>3. QED BY <2>1, <2>2, HeldIsAlive, FreedKept
<1>6. ASSUME NEW c \in Contexts, BindAdapter(c) PROVE FreedInv'
  BY <1>6, FreedKept, WhatIsKnown DEF BindAdapter
<1>7. CASE CreateBindingLookup
  BY <1>7, FreedKept, FoundIsAlive DEF CreateBindingLookup
<1>8. CASE CreateBindingDerefTmp
  <2>1. tmp # None /\ tmp \in Contexts /\ DerefOpen(tmp)
    BY <1>8 DEF CreateBindingDerefTmp, Life, TypeOK
  <2>2. IsHolder(<<"lookup", "bind">>, tmp)
    BY DEF IsHolder
  <2>3. QED BY <2>1, <2>2, HeldIsAlive, FreedKept
<1>9. ASSUME NEW t \in Callers, CallerStep(t) PROVE FreedInv'
  <2>1. ASSUME ~LookupDevice(t), ~OpenDeref(t), ~Close(t) PROVE UNCHANGED refVars
    BY <1>9, <2>1 DEF CallerStep, IoThread, FileThread, IoControl, Cleanup, ClaimDevice, OpenFailed,
       ValidateOpenAndDoRequest, ValidateOpen, WaitForPower, Request, ReleaseBinding,
       CleanupMark, CleanupSweep
  <2>2. LookupDevice(t) \/ OpenDeref(t) => t \in IoThreads
    <3>1. t \in Agents /\ (LookupDevice(t) \/ OpenDeref(t) =>
                               pc[t] \in {"odLookup", "odDeref"} /\ pc[t] \in Labels(t))
      BY <1>9, LabelsAre DEF LookupDevice, OpenDeref, Callers, TypeOK
    <3>2. \A f \in Files : "odLookup" \notin Labels(f) /\ "odDeref" \notin Labels(f)
      BY LabelsAre DEF RequestLabels
    <3>3. QED BY <1>9, <3>1, <3>2 DEF Callers
  <2>3. Close(t) => t \in Files
    <3>1. t \in Agents /\ (Close(t) => pc[t] = "closing" /\ pc[t] \in Labels(t))
      BY <1>9, LabelsAre DEF Close, Callers, TypeOK
    <3>2. \A w \in IoThreads : "closing" \notin Labels(w)
      BY LabelsAre DEF RequestLabels
    <3>3. QED BY <1>9, <3>1, <3>2 DEF Callers
  <2>4. QED BY <1>2, <1>3, <1>4, <2>1, <2>2, <2>3, FreedKept
<1>10. ASSUME NEW t \in Binders, BinderStep(t) PROVE FreedInv'
  <2>1. ASSUME ~ShutdownDeref(t), ~CreateBindingLookup, ~CreateBindingDerefTmp,
               \A c \in Contexts : ~BindAdapter(c)
        PROVE  UNCHANGED refVars
    BY <1>10, <2>1 DEF BinderStep, BindThread, PnPThread, ShutdownBinding, CreateBinding, ShutdownStart,
       ShutdownFilter, ShutdownWait, ShutdownClose, ShutdownIdle, ShutdownUnlink, ShutdownFree,
       CreateBindingOpening, CreateBindingAllocate, CreateBindingOpen, CreateBindingQuery,
       CreateBindingReadFlags, CreateBindingWriteFlags, CreateBindingActive, CreateBindingFailed,
       SetPoweredUpEvent, PowerDownWait, Unbind, SetPower
  <2>2. QED BY <1>5, <1>6, <1>7, <1>8, <2>1, FreedKept
<1>11. QED BY <1>1, <1>9, <1>10, StepOfWhom

-----------------------------------------------------------------------------
(* A file is being cleaned up for as long as its thread is at work.         *)

FileInv == \A f \in Files : fileState[f] = "cleanup" <=> pc[f] # "idle"

\* Every step keeps it so.
LEMMA FileStep == TypeOK /\ FileInv /\ [Next]_vars => FileInv'
<1> SUFFICES ASSUME TypeOK, FileInv, [Next]_vars PROVE FileInv'
  OBVIOUS
<1> USE DEF listVars, bindVars, openVars, refVars, powerVars, reqVars, callVars, bindLocals
<1>0. \A f \in Files : f \in Agents /\ f \notin IoThreads /\ f \notin Binders
  BY LabelsAre DEF Binders
<1>1. CASE UNCHANGED vars
  BY <1>1 DEF vars, FileInv
<1>2. ASSUME NEW t \in Binders, BinderStep(t) PROVE FileInv'
  BY <1>0, <1>2, BinderFrame DEF FilesKept, Alone, FileInv
<1>3. ASSUME NEW w \in IoThreads, CallerStep(w) PROVE FileInv'
  <2>1. UNCHANGED fileState
    BY <1>0, <1>3 DEF CallerStep, IoThread, IoControl, LookupDevice, ClaimDevice, OpenFailed, OpenDeref,
       ValidateOpenAndDoRequest, ValidateOpen, WaitForPower, Request, ReleaseBinding
  <2>2. Alone(w)
    BY <1>3, CallerFrame DEF Callers
  <2>3. QED BY <1>0, <2>1, <2>2 DEF Alone, FileInv
<1>4. ASSUME NEW f \in Files, CallerStep(f) PROVE FileInv'
  <2>0. Alone(f) /\ f \in Agents /\ f \notin IoThreads
    BY <1>0, <1>4, CallerFrame DEF Callers
  <2>1. CASE Cleanup(f)
    <3>1. PICK label \in {"closing", "clMark"} : Goto(f, label)
      BY <2>1 DEF Cleanup
    <3>2. pc'[f] = label /\ fileState' = [fileState EXCEPT ![f] = "cleanup"]
      BY <2>0, <2>1, <3>1 DEF Cleanup, Goto, TypeOK
    <3>3. QED BY <1>0, <2>0, <3>2 DEF Alone, FileInv, TypeOK
  <2>2. CASE Close(f)
    <3>1. pc'[f] = "idle" /\ fileState' = [fileState EXCEPT ![f] = "closed"]
      BY <2>0, <2>2 DEF Close, Goto, TypeOK
    <3>2. QED BY <1>0, <2>0, <3>1 DEF Alone, FileInv, TypeOK
  <2>3. ASSUME NEW label, Goto(f, label), label # "idle", pc[f] # "idle", UNCHANGED fileState
        PROVE  FileInv'
    <3>1. pc'[f] = label
      BY <2>0, <2>3 DEF Goto, TypeOK
    <3>2. QED BY <1>0, <2>0, <2>3, <3>1 DEF Alone, FileInv
  <2>4. CASE CleanupMark(f) \/ CleanupSweep(f)
    BY <2>3, <2>4 DEF CleanupMark, CleanupSweep
  <2>5. ASSUME NEW done \in BOOLEAN, Resume(f, done) PROVE Goto(f, "clSweep")
    BY <2>0, <2>5 DEF Resume, Operation
  <2>6. CASE ValidateOpenAndDoRequest(f)
    <3>1. PICK label \in {"vWait", "vRequest", "vDone", "vFailed", "clSweep"} : Goto(f, label)
      BY <2>5, <2>6 DEF ValidateOpenAndDoRequest, ValidateOpen, WaitForPower, Request, DoRequest,
         ReleaseBinding
    <3>2. pc[f] # "idle" /\ UNCHANGED fileState
      BY <2>6 DEF ValidateOpenAndDoRequest, ValidateOpen, WaitForPower, Request, ReleaseBinding
    <3>3. QED BY <2>3, <3>1, <3>2
  <2>7. QED BY <1>4, <2>0, <2>1, <2>2, <2>4, <2>6 DEF CallerStep, FileThread
<1>5. QED BY <1>1, <1>2, <1>3, <1>4, StepOfWhom DEF Callers

-----------------------------------------------------------------------------
(* The invariant of the references.                                         *)

RefInv == TypeOK /\ Life /\ OneFound /\ OpenInv /\ FileInv /\ RefCountIsExact /\ FreedInv

\* It holds at the start.
LEMMA RefInit == Init => RefInv
<1> SUFFICES ASSUME Init PROVE RefInv
  OBVIOUS
<1>1. TypeOK /\ Life
  BY InitType, LifeInit
<1>2. /\ OpenList = {} /\ tmp = None /\ \A t \in Agents : pc[t] = "idle" /\ ctx[t] = None
      /\ \A f \in Files : FsContext[f] = None
      /\ \A c \in Contexts : RefCount[c] = 0 /\ c # None
      /\ \A w \in IoThreads : file[w] = None
  BY AgentsAssumption DEF Init
<1>3. OneFound
  BY <1>2, LabelsAre DEF OneFound, Found
<1>4. OpenInv
  BY <1>2, LabelsAre DEF OpenInv, Opening
<1>5. \A c \in Contexts : Holders(c) = {}
  BY <1>2, LabelsAre DEF Holders
<1>6. RefCountIsExact
  BY <1>2, <1>5, FS_EmptySet DEF RefCountIsExact
<1>7. FreedInv
  BY <1>2 DEF FreedInv
<1>8. FileInv
  BY LabelsAre DEF Init, FileInv
<1>9. QED BY <1>1, <1>3, <1>4, <1>6, <1>7, <1>8 DEF RefInv

\* Every step preserves it.
LEMMA RefStep == ~UnbindDuringBind /\ RefInv /\ [Next]_vars => RefInv'
<1> SUFFICES ASSUME ~UnbindDuringBind, RefInv, [Next]_vars PROVE RefInv'
  OBVIOUS
<1>0. TypeOK /\ Life /\ OneFound /\ OpenInv /\ FileInv /\ RefCountIsExact /\ FreedInv
  BY DEF RefInv
<1>1. TypeOK' /\ Life' /\ OneFound' /\ OpenInv' /\ FileInv' /\ FreedInv'
  BY <1>0, TypeStep, FileStep, LifeStep, OneFoundStep, OpenStep, FreedStep
<1>2. CASE UNCHANGED vars
  <2>1. UNCHANGED <<OpenList, ctx, pc, FsContext, tmp, RefCount>>
    BY <1>2 DEF vars, listVars, openVars, refVars, callVars, bindLocals
  <2>2. RefCountIsExact'
    BY <1>0, <2>1 DEF RefCountIsExact, Holders
  <2>3. QED BY <1>1, <2>2 DEF RefInv
<1>3. CASE Next
  <2>1. RefCountIsExact'
    BY <1>0, <1>1, <1>3, StepOfWhom, CallersCount, BindersCount
  <2>2. QED BY <1>1, <2>1 DEF RefInv
<1>4. QED BY <1>2, <1>3

\* The references are right at every time, if NDIS does not unbind what it is
\* still binding.
LEMMA RefInvAlways == ASSUME ~UnbindDuringBind PROVE Spec => []RefInv
<1>1. RefInv /\ [Next]_vars => RefInv'
  BY RefStep
<1>2. QED BY RefInit, <1>1, PTL DEF Spec

\* RefCount is the number of the reasons to keep the context (RefCountIsExact),
\* for any number of contexts, files and threads, whether or not the calls on
\* one file are serialised, with and without lost bits of Flags.
THEOREM RefCountCorrect == ASSUME ~UnbindDuringBind PROVE Spec => []RefCountIsExact
<1>1. RefInv => RefCountIsExact
  BY DEF RefInv
<1>2. QED BY RefInvAlways, <1>1, PTL

\* ndisprotLookupDevice finds one context at most, and never a freed one
\* (OneBindingIsFound).
THEOREM OneIsFound == ASSUME ~UnbindDuringBind PROVE Spec => []OneBindingIsFound
<1>1. RefInv => OneBindingIsFound
  BY FoundIsAlive DEF RefInv, OneFound, OneBindingIsFound
<1>2. QED BY RefInvAlways, <1>1, PTL

-----------------------------------------------------------------------------
(* Requests pin the binding.                                                *)

Requesting(t) == pc[t] \in {"vWait", "vRequest", "vDone", "vFailed"}

Requests(c) == {t \in Callers : ctx[t] = c /\ Requesting(t)}

PinInv ==
    /\ \A c \in Contexts : PendedSendCount[c] = Cardinality(Requests(c))
    /\ \A t \in Callers : Requesting(t) => BindingHandle[ctx[t]]
    /\ \A t \in Binders : pc[t] = "sdClose" => Requests(ctx[t]) = {}

\* There are finitely many of them.
LEMMA RequestsAreFinite == \A c : IsFiniteSet(Requests(c))
<1>1. IsFiniteSet(Callers)
  BY AgentsAssumption, FS_Union DEF Callers
<1>2. QED BY <1>1, FS_Subset DEF Requests

PendLabels == {"vWait", "vRequest", "vDone", "vFailed"}

\* A step of a binder that takes no handle from a request.
LEMMA PinOfBinder ==
    ASSUME TypeOK, PinInv, UNCHANGED PendedSendCount, NEW t \in Binders, Alone(t),
           \A u \in Callers : Requesting(u) => BindingHandle'[ctx[u]],
           pc'[t] = "sdClose" => Requests(ctx'[t]) = {}
    PROVE  PinInv'
<1>1. \A u \in Callers : pc'[u] = pc[u] /\ ctx'[u] = ctx[u]
  BY LabelsAre DEF Alone, Callers, Binders
<1>2. \A c : Requests(c)' = Requests(c)
  BY <1>1 DEF Requests, Requesting
<1>3. \A c \in Contexts : PendedSendCount'[c] = Cardinality(Requests(c)')
  BY <1>2 DEF PinInv
<1>4. \A u \in Callers : Requesting(u)' => BindingHandle'[ctx'[u]]
  BY <1>1 DEF Requesting
<1>5. \A u \in Binders : pc'[u] = "sdClose" => Requests(ctx'[u]) = {}
  BY LabelsAre DEF PinInv, Alone, Binders
<1>6. \A u \in Binders : pc'[u] = "sdClose" =>
          {v \in Callers : ctx'[v] = ctx'[u] /\ pc'[v] \in {"vWait", "vRequest", "vDone", "vFailed"}} = {}
  BY <1>1, <1>5 DEF Requests, Requesting
<1>7. QED BY <1>3, <1>4, <1>6 DEF PinInv, Requests, Requesting

\* A step of a caller that is, or is not, one of those who make a request.
LEMMA PinOfCaller ==
    ASSUME TypeOK, PinInv, NEW t \in Callers, Alone(t), UNCHANGED BindingHandle, NEW c \in Contexts,
           pc[t] \in PendLabels => ctx[t] = c,
           pc'[t] \in PendLabels => /\ ctx'[t] = c /\ BindingHandle[c]
                                    /\ \A u \in Binders : pc[u] = "sdClose" => ctx[u] # c,
           \A d \in Contexts : d # c => PendedSendCount'[d] = PendedSendCount[d],
           PendedSendCount'[c] = PendedSendCount[c] + (IF pc'[t] \in PendLabels THEN 1 ELSE 0)
                                                    - (IF pc[t] \in PendLabels THEN 1 ELSE 0)
    PROVE  PinInv'
<1> USE DEF PendLabels
<1>0. t \in Agents /\ \A u \in Callers : u \in Agents
  BY LabelsAre DEF Callers
<1>1. \A u \in Binders : pc'[u] = pc[u] /\ ctx'[u] = ctx[u] /\ u # t
  BY LabelsAre DEF Alone, Callers, Binders
<1> DEFINE R(d) == {u \in Callers : ctx'[u] = d /\ pc'[u] \in {"vWait", "vRequest", "vDone", "vFailed"}}
<1>2. \A d \in Contexts : \A u : u # t => (u \in R(d) <=> u \in Requests(d))
  BY <1>0 DEF Alone, Requests, Requesting
<1>3. \A d \in Contexts : (t \in R(d) <=> d = c /\ pc'[t] \in PendLabels)
                          /\ (t \in Requests(d) <=> d = c /\ pc[t] \in PendLabels)
  BY DEF Requests, Requesting
<1>4. ASSUME NEW d \in Contexts PROVE PendedSendCount'[d] = Cardinality(R(d))
  <2>1. IsFiniteSet(Requests(d)) /\ Cardinality(Requests(d)) \in Nat
        /\ PendedSendCount[d] = Cardinality(Requests(d))
    BY RequestsAreFinite, FS_CardinalityType DEF PinInv
  <2>2. \A u : u # t => (u \in R(d) <=> u \in Requests(d))
    BY <1>2
  <2>3. (t \in R(d) <=> d = c /\ pc'[t] \in PendLabels)
        /\ (t \in Requests(d) <=> d = c /\ pc[t] \in PendLabels)
    BY <1>3
  <2> HIDE DEF R, PendLabels
  <2>4. Cardinality(R(d)) = Cardinality(Requests(d)) + (IF t \in R(d) THEN 1 ELSE 0)
                                                     - (IF t \in Requests(d) THEN 1 ELSE 0)
    BY <2>1, <2>2, OneElement
  <2>5. QED BY <2>1, <2>3, <2>4
<1>5. \A u \in Callers : pc'[u] \in PendLabels => BindingHandle'[ctx'[u]]
  BY <1>0 DEF Alone, PinInv, Requesting
<1>6. \A u \in Binders : pc'[u] = "sdClose" => R(ctx'[u]) = {}
  <2>1. SUFFICES ASSUME NEW u \in Binders, pc'[u] = "sdClose", NEW v \in R(ctx'[u]) PROVE FALSE
    OBVIOUS
  <2>2. ctx'[u] = ctx[u] /\ pc[u] = "sdClose" /\ Requests(ctx[u]) = {}
    BY <1>1, <2>1 DEF PinInv
  <2>3. CASE v = t
    BY <2>1, <2>2, <2>3
  <2>4. CASE v # t
    BY <1>0, <2>1, <2>2, <2>4 DEF Alone, Requests, Requesting
  <2>5. QED BY <2>3, <2>4
<1>7. QED BY <1>4, <1>5, <1>6 DEF PinInv, Requests, Requesting

\* ACTIVE is a binding with a handle, that nobody closes yet.
LEMMA ActiveIsBound ==
    ASSUME TypeOK, Life, NEW c \in Contexts, bindFlags[c] = "ACTIVE"
    PROVE  BindingHandle[c] /\ \A u \in Binders : pc[u] = "sdClose" => ctx[u] # c
<1>1. ASSUME NEW u \in Binders, ctx[u] = c PROVE BindingHandle[c] /\ pc[u] # "sdClose"
  <2>1. pc[u] # "idle" /\ Stage(u, c) /\ pc[u] \in Labels(u)
    BY <1>1, LabelsAre, AgentsAssumption DEF Life, TypeOK, Binders
  <2>2. CASE u = "bind"
    BY <2>1, <2>2, LabelsAre DEF Stage, Bound, Bare, HandleLabels, ShutdownLabels
  <2>3. CASE u = "pnp"
    BY <2>1, <2>3, LabelsAre DEF Stage, Bound, Bare, HandleLabels, ShutdownLabels
  <2>4. QED BY <2>2, <2>3 DEF Binders
<1>2. CASE ctx["bind"] # c /\ ctx["pnp"] # c
  BY <1>2 DEF Life, Settled, Bound, Binders
<1>3. QED BY <1>1, <1>2 DEF Binders

\* A step of a caller outside of a request.
LEMMA PinOutside ==
    ASSUME TypeOK, PinInv, NEW t \in Callers, Alone(t), UNCHANGED <<BindingHandle, PendedSendCount>>,
           pc[t] \notin PendLabels, pc'[t] \notin PendLabels
    PROVE  PinInv'
<1> USE DEF PendLabels
<1>0. t \in Agents /\ \A u \in Callers : u \in Agents
  BY LabelsAre DEF Callers
<1>1. \A u \in Binders : pc'[u] = pc[u] /\ ctx'[u] = ctx[u]
  BY LabelsAre DEF Alone, Callers, Binders
<1>2. \A c : Requests(c)' = Requests(c)
  BY <1>0 DEF Alone, Requests, Requesting
<1>3. \A c \in Contexts : PendedSendCount'[c] = Cardinality(Requests(c)')
  BY <1>2 DEF PinInv
<1>4. \A u \in Callers : Requesting(u)' => BindingHandle'[ctx'[u]]
  BY <1>0 DEF Alone, Requesting, PinInv
<1>5. \A u \in Binders : pc'[u] = "sdClose" => Requests(ctx'[u]) = {}
  BY <1>1 DEF PinInv
<1>6. \A u \in Binders : pc'[u] = "sdClose" =>
          {v \in Callers : ctx'[v] = ctx'[u] /\ pc'[v] \in {"vWait", "vRequest", "vDone", "vFailed"}} = {}
  BY <1>0, <1>5 DEF Alone, Requests, Requesting
<1>7. QED BY <1>3, <1>4, <1>6 DEF PinInv, Requests, Requesting

\* The steps of callers.
LEMMA CallersPin ==
    ASSUME TypeOK, Life, FileInv, PinInv, NEW t \in Callers, CallerStep(t)
    PROVE  PinInv'
<1> USE DEF listVars, bindVars, openVars, refVars, powerVars, reqVars, callVars, bindLocals
<1>0. t \in Agents /\ Alone(t) /\ UNCHANGED BindingHandle
  BY CallerFrame, LabelsAre DEF Callers
<1>1. ASSUME NEW label, Goto(t, label), UNCHANGED PendedSendCount,
             label \notin PendLabels, pc[t] \notin PendLabels
      PROVE  PinInv'
  <2>1. pc'[t] = label
    BY <1>0, <1>1 DEF Goto, TypeOK
  <2>2. QED BY <1>0, <1>1, <2>1, PinOutside
<1>2. ASSUME NEW f \in Files, NEW request \in {"open", "oid"}, IoControl(t, f, request)
      PROVE  PinInv'
  BY <1>1, <1>2 DEF IoControl, PendLabels
<1>3. ASSUME LookupDevice(t) \/ ClaimDevice(t) \/ OpenFailed(t) \/ OpenDeref(t) PROVE PinInv'
  <2>1. /\ pc[t] \in {"odLookup", "odClaim", "odFail", "odDeref"} /\ UNCHANGED PendedSendCount
        /\ \E label \in {"odClaim", "vLock", "odDeref", "idle"} : Goto(t, label)
    BY <1>3 DEF LookupDevice, ClaimDevice, OpenFailed, OpenDeref, CallReturns, Return
  <2>2. QED BY <1>1, <2>1 DEF PendLabels
<1>4. ASSUME Cleanup(t) \/ CleanupMark(t) \/ CleanupSweep(t) \/ Close(t), t \in Files PROVE PinInv'
  <2>1. UNCHANGED PendedSendCount /\ \E label \in {"closing", "clMark", "vLock", "idle"} : Goto(t, label)
    BY <1>4 DEF Cleanup, CleanupMark, CleanupSweep, Close
  <2>2. CASE Cleanup(t)
    <3>1. pc[t] = "idle"
      BY <1>4, <2>2 DEF Cleanup, FileInv
    <3>2. QED BY <1>1, <2>1, <3>1 DEF PendLabels
  <2>3. CASE CleanupMark(t) \/ CleanupSweep(t) \/ Close(t)
    <3>1. pc[t] \in {"clMark", "clSweep", "closing"}
      BY <2>3 DEF CleanupMark, CleanupSweep, Close
    <3>2. QED BY <1>1, <2>1, <3>1 DEF PendLabels
  <2>4. QED BY <1>4, <2>2, <2>3
<1>5. ASSUME ValidateOpen(t) PROVE PinInv'
  <2>1. ctx[t] \in Contexts /\ pc[t] = "vLock"
    BY <1>0, <1>5 DEF ValidateOpen, TypeOK
  <2>2. CASE IsBindActive(ctx[t])
    <3>1. PICK label \in {"vWait", "vRequest"} : Goto(t, label)
      BY <1>5, <2>2 DEF ValidateOpen
    <3>2. UNCHANGED ctx /\ PendedSendCount' = [PendedSendCount EXCEPT ![ctx[t]] = PendedSendCount[ctx[t]] + 1]
      BY <1>5, <2>2 DEF ValidateOpen
    <3>3. pc'[t] = label /\ ctx'[t] = ctx[t]
      BY <1>0, <3>1, <3>2, MovesAlone
    <3>4. BindingHandle[ctx[t]] /\ \A u \in Binders : pc[u] = "sdClose" => ctx[u] # ctx[t]
      BY <2>1, <2>2, ActiveIsBound DEF IsBindActive
    <3>5. /\ \A d \in Contexts : d # ctx[t] => PendedSendCount'[d] = PendedSendCount[d]
          /\ PendedSendCount'[ctx[t]] = PendedSendCount[ctx[t]] + 1 - 0
      BY <2>1, <3>2 DEF TypeOK
    <3>6. QED BY <1>0, <2>1, <3>1, <3>3, <3>4, <3>5, PinOfCaller DEF PendLabels
  <2>3. CASE ~IsBindActive(ctx[t])
    <3>1. Resume(t, FALSE) /\ UNCHANGED PendedSendCount
      BY <1>5, <2>3 DEF ValidateOpen
    <3>2. pc'[t] \in {"odFail", "clSweep", "idle"}
      BY <3>1, ResumesAlone
    <3>3. QED BY <1>0, <2>1, <3>1, <3>2, PinOutside DEF PendLabels
  <2>4. QED BY <2>2, <2>3
<1>6. ASSUME WaitForPower(t) \/ Request(t) PROVE PinInv'
  <2>1. PICK label \in {"vRequest", "vDone", "vFailed"} :
            Goto(t, label) /\ UNCHANGED <<ctx, PendedSendCount>> /\ pc[t] \in {"vWait", "vRequest"}
    BY <1>6 DEF WaitForPower, Request, DoRequest
  <2>2. pc'[t] = label /\ ctx'[t] = ctx[t] /\ ctx[t] \in Contexts
    BY <1>0, <2>1 DEF Goto, TypeOK
  <2>3. BindingHandle[ctx[t]] /\ \A u \in Binders : pc[u] = "sdClose" => ctx[u] # ctx[t]
    BY <2>1 DEF PinInv, Requests, Requesting
  <2>4. PendedSendCount[ctx[t]] \in Int
    BY <2>2 DEF TypeOK
  <2>5. QED BY <1>0, <2>1, <2>2, <2>3, <2>4, PinOfCaller DEF PendLabels
<1>7. ASSUME ReleaseBinding(t) PROVE PinInv'
  <2>1. PICK done \in BOOLEAN : Resume(t, done)
    BY <1>7 DEF ReleaseBinding
  <2>2. pc'[t] \in {"odFail", "clSweep", "idle"}
    BY <2>1, ResumesAlone
  <2>3. pc[t] \in {"vDone", "vFailed"} /\ ctx[t] \in Contexts
    BY <1>0, <1>7 DEF ReleaseBinding, TypeOK
  <2>4. PendedSendCount' = [PendedSendCount EXCEPT ![ctx[t]] = PendedSendCount[ctx[t]] - 1]
    BY <1>7 DEF ReleaseBinding
  <2>5. /\ \A d \in Contexts : d # ctx[t] => PendedSendCount'[d] = PendedSendCount[d]
        /\ PendedSendCount'[ctx[t]] = PendedSendCount[ctx[t]] + 0 - 1
    BY <2>3, <2>4 DEF TypeOK
  <2>6. QED BY <1>0, <2>2, <2>3, <2>5, PinOfCaller DEF PendLabels
<1>8. QED BY <1>2, <1>3, <1>4, <1>5, <1>6, <1>7
       DEF CallerStep, IoThread, FileThread, ValidateOpenAndDoRequest

\* The steps of binders: the handle goes when no request is left.
LEMMA BindersPin ==
    ASSUME WaitOutlastsRequests, TypeOK, Life, PinInv, NEW t \in Binders, BinderStep(t)
    PROVE  PinInv'
<1> USE DEF listVars, bindVars, openVars, refVars, powerVars, reqVars, callVars, bindLocals
<1>0. t \in Agents /\ Alone(t) /\ UNCHANGED PendedSendCount
  BY BinderFrame, LabelsAre DEF Binders, FilesKept
<1>1. \A u \in Callers : Requesting(u) => ctx[u] \in Contexts /\ BindingHandle[ctx[u]]
  BY LabelsAre DEF PinInv, TypeOK, Requesting, Callers
<1>2. ASSUME ShutdownWait(t) PROVE PinInv'
  <2>1. pc[t] = "sdWait" /\ UNCHANGED <<ctx, BindingHandle>> /\ PendedSendCount[ctx[t]] = 0
    BY <1>2 DEF ShutdownWait, NothingPending
  <2>2. ctx[t] \in Contexts
    BY <2>1, WhereBinderIs
  <2>3. Requests(ctx[t]) = {}
    BY <2>1, <2>2, RequestsAreFinite, FS_EmptySet DEF PinInv
  <2>4. QED BY <1>0, <1>1, <2>1, <2>3, PinOfBinder
<1>3. ASSUME ShutdownClose(t) PROVE PinInv'
  <2>1. pc[t] = "sdClose" /\ pc'[t] = "sdIdle" /\ BindingHandle' = [BindingHandle EXCEPT ![ctx[t]] = FALSE]
    BY <1>0, <1>3, MovesAlone DEF ShutdownClose
  <2>2. \A u \in Callers : Requesting(u) => ctx[u] # ctx[t]
    BY <2>1 DEF PinInv, Requests
  <2>3. \A u \in Callers : Requesting(u) => BindingHandle'[ctx[u]]
    BY <1>1, <2>1, <2>2 DEF TypeOK
  <2>4. QED BY <1>0, <2>1, <2>3, PinOfBinder
<1>4. ASSUME CreateBindingOpen, t = "bind" PROVE PinInv'
  <2>1. \/ BindingHandle' = [BindingHandle EXCEPT ![ctx["bind"]] = TRUE]
        \/ UNCHANGED BindingHandle
    BY <1>4 DEF CreateBindingOpen
  <2>2. pc'[t] \in {"cbQuery", "cbFail"}
    BY <1>0, <1>4, MovesAlone DEF CreateBindingOpen
  <2>3. \A u \in Callers : Requesting(u) => BindingHandle'[ctx[u]]
    BY <1>1, <2>1 DEF TypeOK
  <2>4. QED BY <1>0, <2>2, <2>3, PinOfBinder
<1>5. ASSUME ~ShutdownWait(t), ~ShutdownClose(t), ~(CreateBindingOpen /\ t = "bind") PROVE PinInv'
  <2>1. ShutdownBinding(t) => UNCHANGED BindingHandle /\ \E label \in {"idle", "sdFilter", "sdUnlink",
                                  "sdWait", "sdIdle", "sdFree", "sdDeref"} : Goto(t, label)
    BY <1>5 DEF ShutdownBinding, ShutdownStart, ShutdownFilter, ShutdownIdle, ShutdownUnlink, ShutdownFree,
                ShutdownDeref, DoRequest, Return
  <2>2. t = "bind" /\ CreateBinding => UNCHANGED BindingHandle /\ \E label \in {"cbDerefTmp", "cbOpening",
             "cbName", "cbOpen", "cbQuery", "cbRead", "cbWrite", "cbActive", "cbFail", "cbFailOpen",
             "sdLock", "idle"} : Goto(t, label)
    BY <1>5 DEF CreateBinding, CreateBindingLookup, CreateBindingDerefTmp, CreateBindingOpening,
       CreateBindingAllocate, CreateBindingQuery, CreateBindingReadFlags, CreateBindingWriteFlags,
       CreateBindingActive, CreateBindingFailed, Return
  <2>3. ASSUME t = "pnp", SetPoweredUpEvent \/ PowerDownWait \/ \E c \in Contexts : Unbind(c) \/ SetPower(c)
        PROVE  UNCHANGED BindingHandle /\ \E label \in {"idle", "pwWait", "sdLock", "pwEvent"} : Goto(t, label)
    BY <2>3 DEF SetPoweredUpEvent, PowerDownWait, Unbind, SetPower, Return
  <2>4. ASSUME t = "bind", \E c \in Contexts : BindAdapter(c)
        PROVE  UNCHANGED BindingHandle /\ Goto(t, "cbLookup")
    BY <2>4 DEF BindAdapter
  <2>5. UNCHANGED BindingHandle /\ \E label : label # "sdClose" /\ Goto(t, label)
    BY <2>1, <2>2, <2>3, <2>4 DEF BinderStep, BindThread, PnPThread
  <2>6. pc'[t] # "sdClose"
    BY <1>0, <2>5 DEF Goto, TypeOK
  <2>7. QED BY <1>0, <1>1, <2>5, <2>6, PinOfBinder
<1>6. QED BY <1>2, <1>3, <1>4, <1>5

\* ndisbind.c:1176-1177: a request keeps its binding open to its end
\* (RequestPinsBinding), if every request is over before Unbind stops polling.
THEOREM RequestsPin ==
    ASSUME ~UnbindDuringBind, WaitOutlastsRequests PROVE Spec => []RequestPinsBinding
<1>1. Init => PinInv
  <2>1. SUFFICES ASSUME Init PROVE PinInv
    OBVIOUS
  <2>2. \A t \in Agents : pc[t] = "idle"
    BY <2>1 DEF Init
  <2>3. \A c : Requests(c) = {}
    BY <2>2, LabelsAre DEF Requests, Requesting, Callers
  <2>4. QED BY <2>1, <2>2, <2>3, FS_EmptySet, LabelsAre DEF Init, PinInv, Requesting, Callers, Binders
<1>2. RefInv /\ PinInv /\ [Next]_vars => PinInv'
  <2>1. SUFFICES ASSUME RefInv, PinInv, [Next]_vars PROVE PinInv'
    OBVIOUS
  <2>2. CASE UNCHANGED vars
    <3>1. UNCHANGED <<ctx, pc, PendedSendCount, BindingHandle>>
      BY <2>2 DEF vars, bindVars, reqVars
    <3>2. QED BY <2>1, <3>1 DEF PinInv, Requests, Requesting
  <2>3. CASE Next
    BY <2>1, <2>3, StepOfWhom, CallersPin, BindersPin DEF RefInv
  <2>4. QED BY <2>1, <2>2, <2>3
<1>3. RefInv /\ PinInv => RequestPinsBinding
  <2>1. SUFFICES ASSUME RefInv, PinInv, NEW t \in Agents, pc[t] \in {"vWait", "vRequest"}
                 PROVE  BindingHandle[ctx[t]]
    BY DEF RequestPinsBinding
  <2>2. t \in Callers
    BY <2>1, LabelsAre DEF Agents, Callers, RefInv, TypeOK, ShutdownLabels
  <2>3. QED BY <2>1, <2>2 DEF PinInv, Requesting
<1>4. QED BY RefInvAlways, <1>1, <1>2, <1>3, PTL DEF Spec

-----------------------------------------------------------------------------
(* The calls on a synchronous file come one after the other.                *)

\* What an ioctl, and the thread of a file, can count on while they run.
IoctlAlone(w) ==
    /\ op[w] = "none" <=> pc[w] = "idle"
    /\ op[w] = "oid" => pc[w] \in {"idle", "vLock", "vRequest", "vDone", "vFailed"}
                        /\ FsContext[file[w]] = ctx[w]
    /\ file[w] # None => fileState[file[w]] = "open"

SerialInv ==
    /\ \A w \in IoThreads : IoctlAlone(w)
    /\ \A v, w \in IoThreads : file[v] = file[w] /\ file[v] # None => v = w
    /\ \A f \in Files : ctx[f] # None => FsContext[f] = ctx[f]
    /\ pc["bind"] \notin {"cbRead", "cbWrite"}

\* An ioctl that moves on.
LEMMA SerialMoves ==
    ASSUME TypeOK, SerialInv, NEW w \in IoThreads, Alone(w), UNCHANGED <<file, op, FsContext, fileState>>,
           pc[w] # "idle", pc'[w] # "idle",
           op[w] = "oid" => pc'[w] \in {"vLock", "vRequest", "vDone", "vFailed"} /\ ctx'[w] = ctx[w]
    PROVE  SerialInv'
<1>1. \A v \in IoThreads : v # w => pc'[v] = pc[v] /\ ctx'[v] = ctx[v]
  BY LabelsAre DEF Alone
<1>2. \A v \in IoThreads :
          /\ op'[v] = "none" <=> pc'[v] = "idle"
          /\ op'[v] = "oid" => pc'[v] \in {"idle", "vLock", "vRequest", "vDone", "vFailed"}
                               /\ FsContext'[file'[v]] = ctx'[v]
          /\ file'[v] # None => fileState'[file'[v]] = "open"
  BY <1>1 DEF SerialInv, IoctlAlone
<1>3. /\ \A f \in Files : ctx'[f] = ctx[f]
      /\ pc'["bind"] = pc["bind"]
  BY LabelsAre DEF Alone
<1>4. QED BY <1>2, <1>3 DEF SerialInv, IoctlAlone

\* An ioctl that returns.
LEMMA SerialReturns ==
    ASSUME TypeOK, SerialInv, NEW w \in IoThreads, CallReturns(w), UNCHANGED <<FsContext, fileState>>
    PROVE  SerialInv'
<1>0. w \in Agents /\ Alone(w) /\ pc'[w] = "idle" /\ ctx'[w] = None
  BY LabelsAre, ReturnsAlone
<1>1. \A v \in IoThreads : v # w => pc'[v] = pc[v] /\ ctx'[v] = ctx[v]
  BY <1>0, LabelsAre DEF Alone
<1>2. \A v \in IoThreads : /\ file'[v] = (IF v = w THEN None ELSE file[v])
                           /\ op'[v] = (IF v = w THEN "none" ELSE op[v])
  BY DEF CallReturns, TypeOK
<1>3. \A v \in IoThreads :
          /\ op'[v] = "none" <=> pc'[v] = "idle"
          /\ op'[v] = "oid" => pc'[v] \in {"idle", "vLock", "vRequest", "vDone", "vFailed"}
                               /\ FsContext'[file'[v]] = ctx'[v]
          /\ file'[v] # None => fileState'[file'[v]] = "open"
  BY <1>0, <1>1, <1>2 DEF SerialInv, IoctlAlone
<1>4. \A u, v \in IoThreads : file'[u] = file'[v] /\ file'[u] # None => u = v
  BY <1>2 DEF SerialInv
<1>5. /\ \A f \in Files : ctx'[f] = ctx[f]
      /\ pc'["bind"] = pc["bind"]
  BY <1>0, LabelsAre DEF Alone
<1>6. QED BY <1>3, <1>4, <1>5 DEF SerialInv, IoctlAlone

\* A step of an ioctl that changes the context of its own file.
LEMMA SerialClaims ==
    ASSUME TypeOK, OpenInv, FileInv, SerialInv, NEW w \in IoThreads, Alone(w),
           UNCHANGED <<file, op, fileState, ctx>>, file[w] \in Files, op[w] # "oid",
           pc[w] # "idle", pc'[w] # "idle",
           \A g \in Files : g # file[w] => FsContext'[g] = FsContext[g]
    PROVE  SerialInv'
<1>0. \A v \in IoThreads : v # w => pc'[v] = pc[v]
  BY LabelsAre DEF Alone
<1>1. ASSUME NEW v \in IoThreads, op[v] = "oid" PROVE FsContext'[file[v]] = ctx[v]
  <2>1. pc[v] # "idle" /\ v # w
    BY <1>1 DEF SerialInv, IoctlAlone
  <2>2. file[v] \in Files /\ file[v] # file[w]
    BY <1>1, <2>1, AgentsAssumption DEF OpenInv, SerialInv, TypeOK
  <2>3. QED BY <1>1, <2>2 DEF SerialInv, IoctlAlone
<1>2. \A v \in IoThreads :
          /\ op'[v] = "none" <=> pc'[v] = "idle"
          /\ op'[v] = "oid" => pc'[v] \in {"idle", "vLock", "vRequest", "vDone", "vFailed"}
                               /\ FsContext'[file'[v]] = ctx'[v]
          /\ file'[v] # None => fileState'[file'[v]] = "open"
  BY <1>0, <1>1 DEF SerialInv, IoctlAlone
<1>3. ctx[file[w]] = None
  <2>1. fileState[file[w]] = "open"
    BY AgentsAssumption DEF SerialInv, IoctlAlone
  <2>2. pc[file[w]] = "idle"
    BY <2>1 DEF FileInv, TypeOK
  <2>3. QED BY <2>2, LabelsAre DEF TypeOK
<1>4. \A f \in Files : ctx'[f] # None => FsContext'[f] = ctx'[f]
  BY <1>3 DEF SerialInv
<1>5. pc'["bind"] = pc["bind"]
  BY LabelsAre DEF Alone
<1>6. QED BY <1>2, <1>4, <1>5 DEF SerialInv, IoctlAlone

\* A step of a file's own thread: no ioctl is at work on the file where its
\* context or its state changes.
LEMMA SerialOfFile ==
    ASSUME TypeOK, OpenInv, SerialInv, NEW f \in Files, Alone(f), UNCHANGED <<file, op>>,
           \A g \in Files : g # f => FsContext'[g] = FsContext[g] /\ fileState'[g] = fileState[g],
           UNCHANGED <<FsContext, fileState>> \/ ~InDispatch(f),
           ctx'[f] # None => FsContext'[f] = ctx'[f]
    PROVE  SerialInv'
<1>1. \A v \in IoThreads : pc'[v] = pc[v] /\ ctx'[v] = ctx[v]
  BY LabelsAre DEF Alone
<1>2. \A v \in IoThreads : file[v] \in Files => FsContext'[file[v]] = FsContext[file[v]]
                                                /\ fileState'[file[v]] = fileState[file[v]]
  BY DEF InDispatch
<1>3. \A v \in IoThreads : op[v] = "oid" \/ file[v] # None => file[v] \in Files
  BY DEF TypeOK, OpenInv, SerialInv, IoctlAlone
<1>4. \A v \in IoThreads :
          /\ op'[v] = "none" <=> pc'[v] = "idle"
          /\ op'[v] = "oid" => pc'[v] \in {"idle", "vLock", "vRequest", "vDone", "vFailed"}
                               /\ FsContext'[file'[v]] = ctx'[v]
          /\ file'[v] # None => fileState'[file'[v]] = "open"
  BY <1>1, <1>2, <1>3 DEF SerialInv, IoctlAlone
<1>5. \A g \in Files : ctx'[g] # None => FsContext'[g] = ctx'[g]
  BY LabelsAre DEF Alone, SerialInv
<1>6. pc'["bind"] = pc["bind"]
  BY LabelsAre DEF Alone
<1>7. QED BY <1>4, <1>5, <1>6 DEF SerialInv, IoctlAlone

\* A binder: with the bits of Flags written at once, it is never between the
\* read of them and the write.
LEMMA SerialOfBinder ==
    ASSUME AtomicMediaFlags, TypeOK, SerialInv, NEW t \in Binders, BinderStep(t)
    PROVE  SerialInv'
<1>1. Alone(t) /\ FilesKept /\ t \in Agents /\ (t # "bind" => pc'["bind"] = pc["bind"])
  BY BinderFrame, LabelsAre DEF Binders, Alone
<1>2. \A u \in Callers : pc'[u] = pc[u] /\ ctx'[u] = ctx[u]
  BY <1>1, LabelsAre DEF Alone, Binders, Callers
<1>3. pc'["bind"] \notin {"cbRead", "cbWrite"}
  <2>1. CASE t = "bind"
    <3>1. ShutdownBinding(t) => \E label \in {"idle", "sdFilter", "sdUnlink", "sdWait", "sdClose",
                                      "sdIdle", "sdFree", "sdDeref"} : Goto(t, label)
      BY DEF ShutdownBinding, ShutdownStart, ShutdownFilter, ShutdownWait, ShutdownClose, ShutdownIdle,
             ShutdownUnlink, ShutdownFree, ShutdownDeref, DoRequest, Return
    <3>2. ~CreateBindingReadFlags /\ ~CreateBindingWriteFlags
      BY DEF SerialInv, CreateBindingReadFlags, CreateBindingWriteFlags
    <3>3. CreateBindingQuery => Goto(t, "cbActive") \/ Goto(t, "cbFailOpen")
      BY <2>1 DEF CreateBindingQuery
    <3>4. CreateBinding => \E label \in {"cbDerefTmp", "cbOpening", "cbName", "cbOpen", "cbQuery",
                               "cbActive", "cbFail", "cbFailOpen", "sdLock", "idle"} : Goto(t, label)
      BY <2>1, <3>2, <3>3 DEF CreateBinding, CreateBindingLookup, CreateBindingDerefTmp,
         CreateBindingOpening, CreateBindingAllocate, CreateBindingOpen,
         CreateBindingActive, CreateBindingFailed, Return
    <3>5. (\E c \in Contexts : BindAdapter(c)) => Goto(t, "cbLookup")
      BY <2>1 DEF BindAdapter
    <3>6. \E label : label \notin {"cbRead", "cbWrite"} /\ Goto(t, label)
      BY <2>1, <3>1, <3>4, <3>5, LabelsAre DEF BinderStep, BindThread
    <3>7. QED BY <1>1, <2>1, <3>6 DEF Goto, TypeOK
  <2>2. CASE t # "bind"
    BY <1>1, <2>2 DEF SerialInv
  <2>3. QED BY <2>1, <2>2
<1>4. QED BY <1>1, <1>2, <1>3 DEF FilesKept, SerialInv, IoctlAlone, Callers

\* Every step preserves it.
LEMMA SerialStep ==
    SynchronousFiles /\ AtomicMediaFlags /\ TypeOK /\ OpenInv /\ FileInv /\ SerialInv /\ [Next]_vars
        => SerialInv'
<1> SUFFICES ASSUME SynchronousFiles, AtomicMediaFlags, TypeOK, OpenInv, FileInv, SerialInv, [Next]_vars
             PROVE  SerialInv'
  OBVIOUS
<1> USE DEF listVars, bindVars, openVars, refVars, powerVars, reqVars, callVars, bindLocals
<1>0. /\ \A w \in IoThreads : w \in Agents /\ w \in Callers
      /\ \A f \in Files : f \in Agents /\ f \in Callers /\ f \notin IoThreads
  BY LabelsAre DEF Callers
<1>1. CASE UNCHANGED vars
  BY <1>1 DEF vars, SerialInv, IoctlAlone
<1>2. ASSUME NEW w \in IoThreads, NEW f \in Files, NEW request \in {"open", "oid"}, IoControl(w, f, request)
      PROVE  SerialInv'
  <2>1. /\ pc[w] = "idle" /\ UNCHANGED <<FsContext, fileState>> /\ f # None /\ fileState[f] = "open"
        /\ file' = [file EXCEPT ![w] = f] /\ op' = [op EXCEPT ![w] = request]
        /\ ~InDispatch(f)
    BY <1>2, AgentsAssumption DEF IoControl
  <2>2. /\ Alone(w) /\ pc'[w] \in {"odLookup", "vLock"} /\ ctx'[w] = FsContext[f]
        /\ request = "oid" => pc'[w] = "vLock"
    BY <1>0, <1>2, MovesAlone DEF IoControl
  <2>3. \A v \in IoThreads : /\ file'[v] = (IF v = w THEN f ELSE file[v])
                             /\ op'[v] = (IF v = w THEN request ELSE op[v])
    BY <2>1 DEF TypeOK
  <2>4. \A v \in IoThreads : v # w => pc'[v] = pc[v] /\ ctx'[v] = ctx[v]
    BY <1>0, <2>2 DEF Alone
  <2>5. \A v \in IoThreads :
          /\ op'[v] = "none" <=> pc'[v] = "idle"
          /\ op'[v] = "oid" => pc'[v] \in {"idle", "vLock", "vRequest", "vDone", "vFailed"}
                               /\ FsContext'[file'[v]] = ctx'[v]
          /\ file'[v] # None => fileState'[file'[v]] = "open"
    BY <2>1, <2>2, <2>3, <2>4 DEF SerialInv, IoctlAlone
  <2>6. \A u, v \in IoThreads : file'[u] = file'[v] /\ file'[u] # None => u = v
    BY <2>1, <2>3 DEF SerialInv, InDispatch
  <2>7. (\A g \in Files : ctx'[g] = ctx[g]) /\ pc'["bind"] = pc["bind"]
    BY <1>0, <2>2, LabelsAre DEF Alone
  <2>8. QED BY <2>1, <2>5, <2>6, <2>7 DEF SerialInv, IoctlAlone
<1>3. ASSUME NEW w \in IoThreads, pc[w] # "idle", op[w] # "oid" \/ UNCHANGED ctx,
             op[w] = "oid" => pc'[w] \in {"vLock", "vRequest", "vDone", "vFailed"},
             Alone(w), pc'[w] # "idle", UNCHANGED <<file, op, FsContext, fileState>>
      PROVE  SerialInv'
  BY <1>3, SerialMoves
<1>4. \A w \in IoThreads : op[w] = "oid" => pc[w] \in {"idle", "vLock", "vRequest", "vDone", "vFailed"}
  BY DEF SerialInv, IoctlAlone
<1>5. \A w \in IoThreads : pc[w] # "idle" => file[w] \in Files
  BY DEF OpenInv, TypeOK
<1>6. ASSUME NEW w \in IoThreads, LookupDevice(w) PROVE SerialInv'
  <2>1. CASE CallReturns(w)
    BY <1>6, <2>1, SerialReturns DEF LookupDevice
  <2>2. CASE \E c \in Found : Use(w, c) /\ Goto(w, "odClaim") /\ UNCHANGED <<file, op>>
    <3>1. Alone(w) /\ pc'[w] = "odClaim" /\ pc[w] = "odLookup" /\ UNCHANGED <<file, op, FsContext, fileState>>
      BY <1>0, <1>6, <2>2, MovesAlone DEF LookupDevice
    <3>2. QED BY <1>3, <1>4, <3>1
  <2>3. QED BY <1>6, <2>1, <2>2 DEF LookupDevice
<1>7. ASSUME NEW w \in IoThreads, ClaimDevice(w) \/ OpenFailed(w) PROVE SerialInv'
  <2>1. /\ UNCHANGED <<file, op, fileState, ctx>> /\ pc[w] \in {"odClaim", "odFail"}
        /\ \A g \in Files : g # file[w] => FsContext'[g] = FsContext[g]
        /\ \E label \in {"vLock", "odDeref"} : Goto(w, label)
    BY <1>7 DEF ClaimDevice, OpenFailed, TypeOK
  <2>2. Alone(w) /\ pc'[w] # "idle"
    BY <1>0, <2>1, MovesAlone
  <2>3. op[w] # "oid" /\ file[w] \in Files
    BY <1>4, <1>5, <2>1
  <2>4. QED BY <2>1, <2>2, <2>3, SerialClaims
<1>8. ASSUME NEW w \in IoThreads, OpenDeref(w) PROVE SerialInv'
  BY <1>8, SerialReturns DEF OpenDeref
<1>9. ASSUME NEW w \in IoThreads, ValidateOpenAndDoRequest(w) PROVE SerialInv'
  <2>1. /\ pc[w] \in {"vLock", "vWait", "vRequest", "vDone", "vFailed"}
        /\ UNCHANGED <<FsContext, fileState>>
    BY <1>9 DEF ValidateOpenAndDoRequest, ValidateOpen, WaitForPower, Request, ReleaseBinding
  <2>2. ASSUME NEW done \in BOOLEAN, Resume(w, done) PROVE SerialInv'
    <3>1. CASE CallReturns(w)
      BY <2>1, <3>1, SerialReturns
    <3>2. CASE ~CallReturns(w)
      <4>1. pc'[w] = "odFail" /\ Alone(w) /\ op[w] = "open" /\ UNCHANGED <<file, op>>
        BY <1>0, <2>2, <3>2, ResumesAlone
      <4>2. QED BY <1>3, <2>1, <4>1
    <3>3. QED BY <3>1, <3>2
  <2>3. CASE ReleaseBinding(w) \/ (ValidateOpen(w) /\ ~IsBindActive(ctx[w]))
    <3>1. \E done \in BOOLEAN : Resume(w, done)
      BY <2>3 DEF ReleaseBinding, ValidateOpen
    <3>2. QED BY <2>2, <3>1
  <2>4. CASE WaitForPower(w) \/ Request(w) \/ (ValidateOpen(w) /\ IsBindActive(ctx[w]))
    <3>1. PICK label \in {"vWait", "vRequest", "vDone", "vFailed"} :
              /\ Goto(w, label)
              /\ label = "vWait" => op[w] = "open"
      BY <2>4 DEF ValidateOpen, WaitForPower, Request, DoRequest, Operation
    <3>2. UNCHANGED <<file, op, ctx>>
      BY <2>4 DEF ValidateOpen, WaitForPower, Request
    <3>3. Alone(w) /\ pc'[w] = label
      BY <1>0, <3>1, <3>2, MovesAlone
    <3>4. QED BY <1>3, <2>1, <3>1, <3>2, <3>3
  <2>5. QED BY <1>9, <2>3, <2>4 DEF ValidateOpenAndDoRequest
<1>10. ASSUME NEW f \in Files, CallerStep(f) PROVE SerialInv'
  <2>1. Alone(f) /\ f \in Agents /\ f \notin IoThreads
    BY <1>0, <1>10, CallerFrame
  <2>2. CASE Cleanup(f)
    <3>1. /\ ctx'[f] = FsContext[f] /\ ~InDispatch(f) /\ UNCHANGED <<file, op, FsContext>>
          /\ \A g \in Files : g # f => fileState'[g] = fileState[g]
      BY <2>1, <2>2 DEF Cleanup, Use, TypeOK
    <3>2. QED BY <2>1, <3>1, SerialOfFile
  <2>3. CASE Close(f)
    <3>1. /\ ctx'[f] = None /\ ~InDispatch(f) /\ UNCHANGED <<file, op>>
          /\ \A g \in Files : g # f => FsContext'[g] = FsContext[g] /\ fileState'[g] = fileState[g]
      BY <2>1, <2>3 DEF Close, TypeOK
    <3>2. QED BY <2>1, <3>1, SerialOfFile
  <2>4. ASSUME UNCHANGED <<file, op, FsContext, fileState>>, ctx'[f] \in {ctx[f], None} PROVE SerialInv'
    <3>1. ctx'[f] # None => FsContext'[f] = ctx'[f]
      BY <2>4 DEF SerialInv
    <3>2. QED BY <2>1, <2>4, <3>1, SerialOfFile
  <2>5. CASE CleanupMark(f) \/ CleanupSweep(f)
    BY <2>1, <2>4, <2>5 DEF CleanupMark, CleanupSweep, Use, TypeOK
  <2>6. CASE ValidateOpenAndDoRequest(f)
    <3>1. ASSUME NEW done \in BOOLEAN, Resume(f, done) PROVE UNCHANGED <<file, op>> /\ ctx'[f] = ctx[f]
      BY <1>0, <2>1, <3>1, ResumesAlone
    <3>2. UNCHANGED <<file, op, FsContext, fileState>> /\ ctx'[f] = ctx[f]
      BY <2>6, <3>1 DEF ValidateOpenAndDoRequest, ValidateOpen, WaitForPower, Request, ReleaseBinding
    <3>3. QED BY <2>4, <3>2
  <2>7. QED BY <1>10, <2>1, <2>2, <2>3, <2>5, <2>6 DEF CallerStep, FileThread
<1>11. ASSUME NEW w \in IoThreads, CallerStep(w) PROVE SerialInv'
  BY <1>0, <1>2, <1>6, <1>7, <1>8, <1>9, <1>11, LabelsAre DEF CallerStep, IoThread
<1>12. QED BY <1>1, <1>10, <1>11, SerialOfBinder, StepOfWhom DEF Callers

-----------------------------------------------------------------------------
(* The association of a context and its file.                               *)

\* A handle that has not come to Cleanup, or whose Cleanup has not yet let go.
Live(f) == fileState[f] = "open" \/ pc[f] = "clMark"

\* The one half of AssociationIsMutual.
Pointing(c, f) == pFileObject[c] = f <=> FsContext[f] = c /\ (fileState[f] = "open" \/ pc[f] = "clMark")

\* Each half holds of every context and file.
LEMMA MutualPoints == ASSUME AssociationIsMutual PROVE \A c \in Contexts, f \in Files : Pointing(c, f)
BY DEF AssociationIsMutual, Pointing

\* The steps that change neither half of the association.
LEMMA MutualKept ==
    ASSUME TypeOK, AssociationIsMutual, UNCHANGED <<openActive, pFileObject>>,
           \A f \in Files : FsContext'[f] = FsContext[f] \/ (~Live(f) /\ ~Live(f)'),
           \A f \in Files : (Live(f)' <=> Live(f)) \/ (FsContext[f] = None /\ FsContext'[f] = None)
    PROVE  AssociationIsMutual'
<1>1. None \notin Contexts
  BY AgentsAssumption
<1>2. ASSUME NEW c \in Contexts, NEW f \in Files
      PROVE  pFileObject'[c] = f <=> FsContext'[f] = c /\ (fileState'[f] = "open" \/ pc'[f] = "clMark")
  BY <1>1, <1>2 DEF AssociationIsMutual, Live
<1>3. QED BY <1>2 DEF AssociationIsMutual

\* Every step preserves the association.
LEMMA MutualStep ==
    ASSUME SynchronousFiles, AtomicMediaFlags, TypeOK, OpenInv, FileInv, SerialInv, AssociationIsMutual,
           [Next]_vars
    PROVE  AssociationIsMutual'
<1> USE DEF listVars, bindVars, openVars, refVars, powerVars, reqVars, callVars, bindLocals
<1>0. /\ \A w \in IoThreads : w \in Agents /\ w \in Callers /\ w \notin Files
      /\ \A f \in Files : f \in Agents /\ f \in Callers /\ f \notin Binders /\ f # None
      /\ None \notin Contexts
  BY LabelsAre, AgentsAssumption DEF Callers, Binders
<1>1. CASE UNCHANGED vars
  BY <1>1, MutualKept DEF vars, Live
<1>2. ASSUME NEW t \in Agents, Alone(t), UNCHANGED <<openActive, pFileObject, FsContext, fileState>>,
             t \in Files => pc[t] # "clMark" /\ pc'[t] # "clMark"
      PROVE  AssociationIsMutual'
  <2>1. \A f \in Files : Live(f)' <=> Live(f)
    BY <1>0, <1>2 DEF Alone, Live
  <2>2. QED BY <1>2, <2>1, MutualKept
<1>3. ASSUME NEW t \in Binders, BinderStep(t) PROVE AssociationIsMutual'
  <2>1. Alone(t) /\ FilesKept /\ t \in Agents /\ t \notin Files
    BY <1>3, BinderFrame, LabelsAre DEF Binders
  <2>2. ~CreateBindingWriteFlags
    BY DEF SerialInv, CreateBindingWriteFlags
  <2>3. UNCHANGED openActive
    BY <1>3, <2>2 DEF BinderStep, BindThread, PnPThread, ShutdownBinding, CreateBinding, ShutdownStart,
       ShutdownFilter, ShutdownWait, ShutdownClose, ShutdownIdle, ShutdownUnlink, ShutdownFree, ShutdownDeref,
       CreateBindingLookup, CreateBindingDerefTmp,
       CreateBindingOpening, CreateBindingAllocate, CreateBindingOpen, CreateBindingQuery,
       CreateBindingReadFlags, CreateBindingActive, CreateBindingFailed,
       SetPoweredUpEvent, PowerDownWait, Unbind, SetPower, BindAdapter
  <2>4. QED BY <1>2, <2>1, <2>3 DEF FilesKept
<1>4. ASSUME NEW w \in IoThreads, CallerStep(w), ~ClaimDevice(w), ~OpenFailed(w) PROVE AssociationIsMutual'
  <2>1. UNCHANGED <<openActive, pFileObject, FsContext, fileState>>
    BY <1>0, <1>4 DEF CallerStep, IoThread, IoControl, LookupDevice, OpenDeref,
       ValidateOpenAndDoRequest, ValidateOpen, WaitForPower, Request, ReleaseBinding
  <2>2. QED BY <1>0, <1>2, <1>4, <2>1, CallerFrame
<1>5. ASSUME NEW w \in IoThreads, ClaimDevice(w) PROVE AssociationIsMutual'
  <2>1. Alone(w) /\ pc[w] = "odClaim" /\ UNCHANGED fileState
    BY <1>0, <1>5, MovesAlone DEF ClaimDevice
  <2>2. CASE UNCHANGED openVars
    BY <1>0, <1>2, <2>1, <2>2
  <2>3. CASE ~UNCHANGED openVars
    <3>1. PICK c \in Contexts : c = ctx[w]
      BY <1>0, <2>1 DEF TypeOK
    <3>2. PICK f \in Files : f = file[w]
      BY <2>1 DEF OpenInv, TypeOK
    <3>3. /\ ~openActive[c] /\ FsContext[f] = None
          /\ FsContext' = [FsContext EXCEPT ![f] = c]
          /\ pFileObject' = [pFileObject EXCEPT ![c] = f]
          /\ openActive' = [openActive EXCEPT ![c] = TRUE]
      BY <1>5, <2>3, <3>1, <3>2 DEF ClaimDevice, IsOpenIdle
    <3>4. fileState'[f] = "open"
      BY <1>0, <2>1, <3>2 DEF SerialInv, IoctlAlone
    <3>5. \A g \in Files : pc'[g] = pc[g] /\ fileState'[g] = fileState[g]
      BY <1>0, <2>1 DEF Alone
    <3>6. /\ \A d \in Contexts : /\ pFileObject'[d] = (IF d = c THEN f ELSE pFileObject[d])
                                 /\ openActive'[d] = (IF d = c THEN TRUE ELSE openActive[d])
          /\ \A g \in Files : FsContext'[g] = (IF g = f THEN c ELSE FsContext[g])
      BY <3>3 DEF TypeOK
    <3>7. pFileObject[c] = None
      BY <3>3 DEF AssociationIsMutual, TypeOK
    <3>8. ASSUME NEW d \in Contexts, NEW g \in Files
          PROVE  pFileObject'[d] = g <=> FsContext'[g] = d /\ (fileState'[g] = "open" \/ pc'[g] = "clMark")
      <4>1. /\ \A e \in {c, d}, h \in {f, g} : Pointing(e, h)
            /\ fileState'[g] = fileState[g] /\ pc'[g] = pc[g]
        BY <3>5, MutualPoints
      <4>2. CASE d = c
        <5>1. pFileObject'[d] = f
          BY <3>6, <4>2
        <5>2. CASE g = f
          BY <3>4, <3>6, <4>2, <5>1, <5>2
        <5>3. CASE g # f
          <6>1. FsContext'[g] = FsContext[g] /\ pFileObject[c] # g /\ Pointing(c, g)
            BY <1>0, <3>6, <3>7, <4>1, <5>3
          <6>2. QED BY <4>1, <4>2, <5>1, <5>3, <6>1 DEF Pointing
        <5>4. QED BY <5>2, <5>3
      <4>3. CASE d # c
        BY <1>0, <3>3, <3>4, <3>5, <3>6, <3>7, <4>1, <4>3 DEF Pointing
      <4>4. QED BY <4>2, <4>3
    <3>9. \A d \in Contexts : openActive'[d] <=> pFileObject'[d] # None
      <4>1. SUFFICES ASSUME NEW d \in Contexts PROVE openActive'[d] <=> pFileObject'[d] # None
        OBVIOUS
      <4>2. openActive[d] <=> pFileObject[d] # None
        BY <3>2 DEF AssociationIsMutual
      <4>3. QED BY <1>0, <3>6, <4>2
    <3>10. QED BY <3>8, <3>9 DEF AssociationIsMutual
  <2>4. QED BY <2>2, <2>3
<1>6. ASSUME NEW w \in IoThreads, OpenFailed(w) PROVE AssociationIsMutual'
  <2>1. Alone(w) /\ pc[w] = "odFail" /\ UNCHANGED fileState
    BY <1>0, <1>6, MovesAlone DEF OpenFailed
  <2>2. PICK c \in Contexts : c = ctx[w]
    BY <1>0, <2>1 DEF TypeOK
  <2>3. PICK f \in Files : f = file[w]
    BY <2>1 DEF OpenInv, TypeOK
  <2>4. FsContext[f] = c /\ fileState[f] = "open"
    BY <1>0, <2>1, <2>2, <2>3 DEF OpenInv, Opening, SerialInv, IoctlAlone
  <2>5. /\ FsContext' = [FsContext EXCEPT ![f] = None]
        /\ pFileObject' = [pFileObject EXCEPT ![c] = None]
        /\ openActive' = [openActive EXCEPT ![c] = FALSE]
    BY <1>6, <2>2, <2>3, <2>4 DEF OpenFailed
  <2>6. pFileObject[c] = f
    BY <2>4 DEF AssociationIsMutual
  <2>7. \A g \in Files : pc'[g] = pc[g] /\ fileState'[g] = fileState[g]
    BY <1>0, <2>1 DEF Alone
  <2>8. /\ \A d \in Contexts : /\ pFileObject'[d] = (IF d = c THEN None ELSE pFileObject[d])
                               /\ openActive'[d] = (IF d = c THEN FALSE ELSE openActive[d])
        /\ \A g \in Files : FsContext'[g] = (IF g = f THEN None ELSE FsContext[g])
    BY <2>5 DEF TypeOK
  <2>9. ASSUME NEW d \in Contexts, NEW g \in Files
        PROVE  pFileObject'[d] = g <=> FsContext'[g] = d /\ (fileState'[g] = "open" \/ pc'[g] = "clMark")
    <3>1. /\ \A e \in {c, d}, h \in {f, g} : Pointing(e, h)
          /\ fileState'[g] = fileState[g] /\ pc'[g] = pc[g]
      BY <2>7, MutualPoints
    <3>2. CASE d = c
      BY <1>0, <2>4, <2>6, <2>8, <3>1, <3>2 DEF Pointing
    <3>3. CASE d # c
      BY <1>0, <2>4, <2>6, <2>8, <3>1, <3>3 DEF Pointing
    <3>4. QED BY <3>2, <3>3
  <2>10. \A d \in Contexts : openActive'[d] <=> pFileObject'[d] # None
    <3>1. SUFFICES ASSUME NEW d \in Contexts PROVE openActive'[d] <=> pFileObject'[d] # None
      OBVIOUS
    <3>2. openActive[d] <=> pFileObject[d] # None
      BY <2>3 DEF AssociationIsMutual
    <3>3. QED BY <2>8, <3>2
  <2>11. QED BY <2>9, <2>10 DEF AssociationIsMutual
<1>7. ASSUME NEW f \in Files, CallerStep(f) PROVE AssociationIsMutual'
  <2>1. Alone(f)
    BY <1>0, <1>7, CallerFrame
  <2>2. \A g \in Files : g # f => pc'[g] = pc[g]
    BY <1>0, <2>1 DEF Alone
  <2>3. CASE Cleanup(f)
    <3>1. /\ fileState[f] = "open" /\ UNCHANGED <<openActive, pFileObject, FsContext>>
          /\ fileState' = [fileState EXCEPT ![f] = "cleanup"]
          /\ FsContext[f] # None => pc'[f] = "clMark"
      BY <1>0, <2>3 DEF Cleanup, Goto, TypeOK
    <3>2. \A g \in Files : g # f => fileState'[g] = fileState[g]
      BY <3>1 DEF TypeOK
    <3>3. \A g \in Files : (Live(g)' <=> Live(g)) \/ (FsContext[g] = None /\ FsContext'[g] = None)
      BY <2>2, <3>1, <3>2 DEF Live
    <3>4. QED BY <3>1, <3>3, MutualKept
  <2>4. CASE CleanupMark(f)
    <3>1. pc[f] = "clMark" /\ pc'[f] = "vLock" /\ UNCHANGED <<FsContext, fileState>>
      BY <1>0, <2>4, MovesAlone DEF CleanupMark
    <3>2. PICK c \in Contexts : c = ctx[f]
      BY <1>0, <3>1 DEF TypeOK
    <3>3. FsContext[f] = c /\ fileState[f] = "cleanup"
      BY <1>0, <3>1, <3>2 DEF SerialInv, FileInv
    <3>4. pFileObject[c] = f
      BY <3>1, <3>3 DEF AssociationIsMutual
    <3>5. \A d \in Contexts : /\ pFileObject'[d] = (IF d = c THEN None ELSE pFileObject[d])
                              /\ openActive'[d] = (IF d = c THEN FALSE ELSE openActive[d])
      BY <2>4, <3>2 DEF CleanupMark, TypeOK
    <3>6. ASSUME NEW d \in Contexts, NEW g \in Files
          PROVE  pFileObject'[d] = g <=> FsContext'[g] = d /\ (fileState'[g] = "open" \/ pc'[g] = "clMark")
      <4>0. \A e \in {c, d}, h \in {f, g} : Pointing(e, h)
        BY MutualPoints
      <4>1. CASE g = f
        <5>1. FsContext'[g] = c /\ fileState'[g] # "open" /\ pc'[g] # "clMark"
          BY <3>1, <3>3, <4>1
        <5>2. pFileObject'[d] # g
          BY <1>0, <3>3, <3>4, <3>5, <4>0, <4>1 DEF Pointing
        <5>3. QED BY <5>1, <5>2
      <4>2. CASE g # f
        <5>1. FsContext'[g] = FsContext[g] /\ fileState'[g] = fileState[g] /\ pc'[g] = pc[g]
          BY <2>2, <3>1, <4>2
        <5>2. QED BY <1>0, <3>4, <3>5, <4>0, <4>2, <5>1 DEF Pointing
      <4>3. QED BY <4>1, <4>2
    <3>7. \A d \in Contexts : openActive'[d] <=> pFileObject'[d] # None
      <4>1. SUFFICES ASSUME NEW d \in Contexts PROVE openActive'[d] <=> pFileObject'[d] # None
        OBVIOUS
      <4>2. openActive[d] <=> pFileObject[d] # None
        BY DEF AssociationIsMutual
      <4>3. QED BY <3>5, <4>2
    <3>8. QED BY <3>6, <3>7 DEF AssociationIsMutual
  <2>5. CASE Close(f)
    <3>1. pc[f] = "closing" /\ pc'[f] = "idle" /\ UNCHANGED <<openActive, pFileObject>>
      BY <1>0, <2>5 DEF Close, Goto, TypeOK
    <3>2. fileState[f] = "cleanup" /\ fileState'[f] = "closed"
      BY <1>0, <2>5, <3>1 DEF FileInv, Close, TypeOK
    <3>3. \A g \in Files : g # f => FsContext'[g] = FsContext[g] /\ fileState'[g] = fileState[g]
      BY <2>5 DEF Close, TypeOK
    <3>4. ~Live(f) /\ ~Live(f)'
      BY <3>1, <3>2 DEF Live
    <3>5. \A g \in Files : g # f => (Live(g)' <=> Live(g))
      BY <2>2, <3>3 DEF Live
    <3>6. \A g \in Files : FsContext'[g] = FsContext[g] \/ (~Live(g) /\ ~Live(g)')
      BY <3>3, <3>4
    <3>7. \A g \in Files : Live(g)' <=> Live(g)
      BY <3>4, <3>5
    <3>8. QED BY <3>1, <3>6, <3>7, MutualKept
  <2>6. CASE CleanupSweep(f)
    <3>1. /\ pc[f] = "clSweep" /\ pc'[f] = "closing"
          /\ UNCHANGED <<openActive, pFileObject, FsContext, fileState>>
      BY <1>0, <2>6, MovesAlone DEF CleanupSweep
    <3>2. QED BY <1>0, <1>2, <2>1, <3>1
  <2>7. CASE ValidateOpenAndDoRequest(f)
    <3>1. ASSUME NEW done \in BOOLEAN, Resume(f, done) PROVE Goto(f, "clSweep")
      BY <1>0, <3>1 DEF Resume, Operation
    <3>2. PICK label \in {"vWait", "vRequest", "vDone", "vFailed", "clSweep"} : Goto(f, label)
      BY <2>7, <3>1 DEF ValidateOpenAndDoRequest, ValidateOpen, WaitForPower, Request, DoRequest,
         ReleaseBinding
    <3>3. /\ pc[f] # "clMark" /\ pc'[f] # "clMark"
          /\ UNCHANGED <<openActive, pFileObject, FsContext, fileState>>
      BY <1>0, <2>7, <3>2 DEF ValidateOpenAndDoRequest, ValidateOpen, WaitForPower, Request, ReleaseBinding,
         Goto, TypeOK
    <3>4. QED BY <1>0, <1>2, <2>1, <3>3
  <2>8. QED BY <1>0, <1>7, <2>3, <2>4, <2>5, <2>6, <2>7 DEF CallerStep, FileThread
<1>8. QED BY <1>1, <1>3, <1>4, <1>5, <1>6, <1>7, StepOfWhom DEF Callers

\* What is freed has no binder, no handle and no place on the list.
LEMMA FreedIsLeft ==
    ASSUME RefInv, NEW c \in Contexts, freed[c]
    PROVE  /\ \A o : ~IsHolder(o, c)
           /\ \A t \in Binders : ctx[t] # c
           /\ \A f \in Files : FsContext[f] # c
           /\ c \notin OpenList /\ tmp # c /\ ~BindingHandle[c]
<1>1. \A o : ~IsHolder(o, c)
  BY HeldIsAlive DEF RefInv
<1>2. ~BindingHeld(c) /\ tmp # c /\ \A f \in Files : FsContext[f] # c
  <2>1. ~IsHolder(<<"binding", c>>, c) /\ ~IsHolder(<<"lookup", "bind">>, c)
    BY <1>1
  <2>2. \A f \in Files : ~IsHolder(<<"open", f>>, c)
    BY <1>1
  <2>3. QED BY <2>1, <2>2, KindsOfHolder
<1>3. c \notin OpenList
  BY <1>2 DEF BindingHeld
<1>4. ASSUME NEW t \in Binders, ctx[t] = c PROVE FALSE
  <2>1. Stage(t, c)
    BY <1>4 DEF RefInv, Life
  <2>2. pc[t] \in {"sdFree", "sdDeref"}
    BY <1>3, <2>1 DEF Stage
  <2>3. QED BY <1>2, <1>4, <2>2 DEF BindingHeld, Binders
<1>5. Settled(c)
  BY <1>4 DEF RefInv, Life, Binders
<1>6. QED BY <1>1, <1>2, <1>3, <1>4, <1>5 DEF Settled

\* All of it at every time.
LEMMA SerialAlways ==
    ASSUME SynchronousFiles, AtomicMediaFlags, ~UnbindDuringBind
    PROVE  Spec => [](RefInv /\ SerialInv /\ AssociationIsMutual)
<1>1. Init => SerialInv /\ AssociationIsMutual
  <2>1. SUFFICES ASSUME Init PROVE SerialInv /\ AssociationIsMutual
    OBVIOUS
  <2>2. \A t \in Agents : pc[t] = "idle" /\ ctx[t] = None
    BY <2>1 DEF Init
  <2>3. SerialInv
    BY <2>1, <2>2, LabelsAre DEF Init, SerialInv, IoctlAlone
  <2>4. \A c \in Contexts, f \in Files : pFileObject[c] # f /\ FsContext[f] # c
    BY <2>1, AgentsAssumption DEF Init
  <2>5. AssociationIsMutual
    BY <2>1, <2>4 DEF Init, AssociationIsMutual
  <2>6. QED BY <2>3, <2>5
<1>2. RefInv /\ SerialInv /\ AssociationIsMutual /\ [Next]_vars => SerialInv' /\ AssociationIsMutual'
  BY SerialStep, MutualStep DEF RefInv
<1>3. QED BY RefInvAlways, <1>1, <1>2, PTL DEF Spec

\* No thread, no file object and no list has a context that is freed
\* (NoUseAfterFree), for any number of them, if the calls on one file are
\* serialised and no bits of Flags are lost.
THEOREM FreedIsUnused ==
    ASSUME SynchronousFiles, AtomicMediaFlags, ~UnbindDuringBind PROVE Spec => []NoUseAfterFree
<1>1. RefInv /\ SerialInv /\ AssociationIsMutual => NoUseAfterFree
  <2>1. SUFFICES ASSUME RefInv, SerialInv, NEW c \in Contexts, freed[c]
                 PROVE  /\ \A t \in Agents : ctx[t] # c
                        /\ \A f \in Files : FsContext[f] # c
                        /\ c \notin OpenList /\ tmp # c
    BY DEF NoUseAfterFree
  <2>2. c # None
    BY AgentsAssumption
  <2>3. \A f \in Files : ctx[f] # c
    BY <2>1, <2>2, FreedIsLeft DEF SerialInv
  <2>4. ASSUME NEW w \in IoThreads, ctx[w] = c PROVE FALSE
    <3>1. w \in Agents /\ pc[w] \in {"vLock", "vRequest", "vDone", "vFailed", "odClaim", "vWait", "odFail", "odDeref"}
      BY <2>1, <2>2, <2>4, LabelsAre DEF RefInv, TypeOK, RequestLabels
    <3>2. file[w] \in Files /\ op[w] \in {"open", "oid"}
      BY <2>1, <3>1 DEF RefInv, TypeOK, OpenInv, SerialInv, IoctlAlone
    <3>3. CASE pc[w] \in {"odClaim", "odDeref"}
      BY <2>1, <2>4, <3>3, FreedIsLeft, KindsOfHolder DEF LookupHeld
    <3>4. CASE pc[w] \notin {"odClaim", "odDeref"}
      <4>1. FsContext[file[w]] = c
        BY <2>1, <2>4, <3>1, <3>2, <3>4 DEF RefInv, OpenInv, Opening, SerialInv, IoctlAlone
      <4>2. QED BY <2>1, <3>2, <4>1, FreedIsLeft
    <3>5. QED BY <3>3, <3>4
  <2>5. QED BY <2>1, <2>3, <2>4, FreedIsLeft DEF Agents, Binders
<1>2. QED BY SerialAlways, <1>1, PTL

\* A context and the file that has it point to each other from OPEN_DEVICE to
\* Cleanup and no longer, and before the context is freed both have stopped and
\* the binding is closed (AssociationIsSound).
THEOREM AssociationSound ==
    ASSUME SynchronousFiles, AtomicMediaFlags, ~UnbindDuringBind PROVE Spec => []AssociationIsSound
<1>1. RefInv /\ SerialInv /\ AssociationIsMutual => AssociationIsSound
  <2>1. SUFFICES ASSUME RefInv, AssociationIsMutual PROVE FreedContextIsUnassociated
    BY DEF AssociationIsSound
  <2>2. SUFFICES ASSUME NEW c \in Contexts, freed[c] PROVE ~BindingHandle[c] /\ pFileObject[c] = None
    BY DEF FreedContextIsUnassociated
  <2>3. ~BindingHandle[c] /\ \A f \in Files : FsContext[f] # c
    BY <2>1, <2>2, FreedIsLeft
  <2>4. \A f \in Files : pFileObject[c] # f
    BY <2>1, <2>3 DEF AssociationIsMutual
  <2>5. QED BY <2>1, <2>3, <2>4 DEF RefInv, TypeOK
<1>2. QED BY SerialAlways, <1>1, PTL
=============================================================================
