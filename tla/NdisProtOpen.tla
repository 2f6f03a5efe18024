---------------------------- MODULE NdisProtOpen ----------------------------
(***************************************************************************)
(* Open contexts, the bindings they stand for and the file objects that are *)
(* associated with them: IOCTL_NDISPROT_OPEN_DEVICE, the OID requests,      *)
(* Cleanup and Close of ntdisp.c against BindAdapter, UnbindAdapter and the *)
(* power events of ndisbind.c.  All contexts are bindings to one device.    *)
(*                                                                          *)
(* Grain.  A step is one critical section of a context's lock or of the     *)
(* global lock, one interlocked operation, one unlocked access to a shared  *)
(* field, or the completion of one NDIS request.                            *)
(*                                                                          *)
(* Agents.  w \in IoThreads issues ioctls, one at a time, on any file; the  *)
(* file f names the thread that sends its Cleanup and Close; "bind" is the  *)
(* NDIS thread in NdisProtBindAdapter; "pnp" the one in                     *)
(* NdisProtUnbindAdapter or NdisProtPnPEventHandler.                        *)
(***************************************************************************)
EXTENDS Integers, FiniteSets

CONSTANTS
    Contexts, Files, IoThreads,
    None,                   \* no context, no file object
    SynchronousFiles,       \* does the I/O manager serialise the calls on a file?
    WaitOutlastsRequests,   \* is every request over before 60 polls are?
    UnbindDuringBind,       \* may NDIS unbind what it is still binding?
    AtomicMediaFlags        \* is nothing else written while CreateBinding, without the
                            \* lock, reads Flags, sets the media bit and writes them?

Agents == IoThreads \cup Files \cup {"bind", "pnp"}

ASSUME AgentsAssumption ==
    /\ IsFiniteSet(Contexts) /\ IsFiniteSet(Files) /\ IsFiniteSet(IoThreads)
    /\ Files \cap IoThreads = {}
    /\ {"bind", "pnp"} \cap (Files \cup IoThreads) = {}
    /\ None \notin Contexts \cup Files

ASSUME EnvironmentAssumption ==
    {SynchronousFiles, WaitOutlastsRequests, UnbindDuringBind, AtomicMediaFlags} \subseteq BOOLEAN

VARIABLES
    OpenList,           \* the contexts on Globals.OpenList
    named,              \* those with a DeviceName
    bindFlags,          \* NUIOO_BIND_FLAGS, "none" before BindAdapter
    unbindReceived,     \* NUIOO_UNBIND_RECEIVED
    BindingHandle,      \* non-NULL
    openActive,         \* NUIOO_OPEN_ACTIVE
    pFileObject,
    RefCount, freed,
    powerOn,            \* PowerState = NetDeviceStateD0
    PoweredUpEvent,     \* signalled
    PendedSendCount,    \* requests that hold the binding
    filter,             \* is the miniport's packet filter for the binding non-zero?
    FsContext,
    fileState,          \* "open", past its last handle ("cleanup"), "closed"
    \* the threads: the context in use, the ioctl's file and kind, and
    \* CreateBinding's pTmpOpenContext and the other bits of Flags it has read
    pc, ctx, file, op, tmp, readFlags

listVars   == <<OpenList, named>>
bindVars   == <<bindFlags, unbindReceived, BindingHandle>>
openVars   == <<openActive, pFileObject, FsContext>>
refVars    == <<RefCount, freed>>
powerVars  == <<powerOn, PoweredUpEvent>>
reqVars    == <<PendedSendCount, filter>>
bindLocals == <<tmp, readFlags>>
callVars   == <<file, op, bindLocals>>

vars == <<listVars, bindVars, openVars, refVars, powerVars, reqVars, callVars,
          fileState, pc, ctx>>

Init ==
    /\ OpenList = {} /\ named = {}
    /\ bindFlags = [c \in Contexts |-> "none"]
    /\ unbindReceived = [c \in Contexts |-> FALSE]
    /\ BindingHandle = [c \in Contexts |-> FALSE]
    /\ openActive = [c \in Contexts |-> FALSE]
    /\ pFileObject = [c \in Contexts |-> None]
    /\ RefCount = [c \in Contexts |-> 0]
    /\ freed = [c \in Contexts |-> FALSE]
    /\ powerOn = [c \in Contexts |-> TRUE]
    /\ PoweredUpEvent = [c \in Contexts |-> FALSE]
    /\ PendedSendCount = [c \in Contexts |-> 0]
    /\ filter = [c \in Contexts |-> FALSE]
    /\ FsContext = [f \in Files |-> None]       \* NdisProtOpen
    /\ fileState = [f \in Files |-> "open"]
    /\ pc = [t \in Agents |-> "idle"]
    /\ ctx = [t \in Agents |-> None]
    /\ file = [w \in IoThreads |-> None]
    /\ op = [w \in IoThreads |-> "none"]
    /\ tmp = None /\ readFlags = <<FALSE, FALSE>>

-----------------------------------------------------------------------------
Goto(t, label) == pc' = [pc EXCEPT ![t] = label]

Use(t, c) == ctx' = [ctx EXCEPT ![t] = c]

\* The call of t ends; its locals go.
Return(t) == Goto(t, "idle") /\ Use(t, None)

\* The same of an ioctl.
CallReturns(w) ==
    /\ Return(w)
    /\ file' = [file EXCEPT ![w] = None]
    /\ op' = [op EXCEPT ![w] = "none"]

\* ndisprotRefOpen
RefOpen(c) == RefCount' = [RefCount EXCEPT ![c] = @ + 1] /\ UNCHANGED freed

\* ndisprotDerefOpen: the last reference frees the context
DerefOpen(c) ==
    /\ RefCount' = [RefCount EXCEPT ![c] = @ - 1]
    /\ freed' = [freed EXCEPT ![c] = @ \/ RefCount[c] = 1]

\* What ndisprotLookupDevice finds: a listed context with the device's name.
Found == OpenList \cap named

\* Is a dispatch routine working on file f?
InDispatch(f) == \E w \in IoThreads : file[w] = f

\* NdisRequest, pended or not, with its completion: the miniport may refuse.
DoRequest(t, c, on, success, failure) ==
    \E done \in BOOLEAN :
        /\ filter' = [filter EXCEPT ![c] = IF done THEN on ELSE @]
        /\ Goto(t, IF done THEN success ELSE failure)

-----------------------------------------------------------------------------
(* NdisProtIoControl: OPEN_DEVICE, and QUERY_OID_VALUE / SET_OID_VALUE.      *)

\* FsContext is read once, when the dispatch routine starts.
IoControl(w, f, request) ==
    /\ pc[w] = "idle" /\ fileState[f] = "open"
    /\ SynchronousFiles => ~InDispatch(f)
    /\ \/ /\ request = "open" /\ FsContext[f] = None
          /\ Goto(w, "odLookup")
       \/ /\ request = "oid" /\ FsContext[f] # None
          /\ Goto(w, "vLock")
    /\ file' = [file EXCEPT ![w] = f]
    /\ op' = [op EXCEPT ![w] = request]
    /\ Use(w, FsContext[f])
    /\ UNCHANGED <<listVars, bindVars, openVars, refVars, powerVars, reqVars, fileState, bindLocals>>

\* (A mutant) the context is returned without a reference.
LookupUncounted(w) ==
    /\ pc[w] = "odLookup"
    /\ \/ \E c \in Found : Use(w, c) /\ Goto(w, "odClaim") /\ UNCHANGED <<file, op>>
       \/ Found = {} /\ CallReturns(w)
    /\ UNCHANGED <<listVars, bindVars, openVars, refVars, powerVars, reqVars, fileState, bindLocals>>

LookupDevice(w) ==
    /\ pc[w] = "odLookup"
    /\ \/ /\ \E c \in Found : RefOpen(c) /\ Use(w, c)
          /\ Goto(w, "odClaim")
          /\ UNCHANGED <<file, op>>
       \/ Found = {} /\ CallReturns(w) /\ UNCHANGED refVars
    /\ UNCHANGED <<listVars, bindVars, openVars, powerVars, reqVars, fileState, bindLocals>>

\* NUIOO_OPEN_IDLE, and (a mutant) a test that any context passes.
IsAnyOpen(c) == c \in Contexts

IsOpenIdle(c) == ~openActive[c]

\* The claim, under the context's lock: the file is associated with the
\* context and the context with the file, or neither is.
ClaimDevice(w) ==
    /\ pc[w] = "odClaim"
    /\ LET c == ctx[w] f == file[w] IN
       \/ /\ IsOpenIdle(c) /\ FsContext[f] = None
          /\ FsContext' = [FsContext EXCEPT ![f] = c]
          /\ pFileObject' = [pFileObject EXCEPT ![c] = f]
          /\ openActive' = [openActive EXCEPT ![c] = TRUE]
          /\ Goto(w, "vLock")
       \/ /\ ~IsOpenIdle(c) \/ FsContext[f] # None
          /\ Goto(w, "odDeref")
          /\ UNCHANGED openVars
    /\ UNCHANGED <<listVars, bindVars, refVars, powerVars, reqVars, callVars, fileState, ctx>>

OpenFailed(w) ==
    /\ pc[w] = "odFail"
    /\ LET c == ctx[w] f == file[w] IN
       /\ FsContext' = [FsContext EXCEPT ![f] = IF @ = c THEN None ELSE @]
       /\ openActive' = [openActive EXCEPT ![c] = FALSE]
       /\ pFileObject' = [pFileObject EXCEPT ![c] = None]
    /\ Goto(w, "odDeref")
    /\ UNCHANGED <<listVars, bindVars, refVars, powerVars, reqVars, callVars, fileState, ctx>>

\* (A mutant) a refused open keeps the reference of the lookup.
OpenKeepsRef(w) ==
    /\ pc[w] = "odDeref"
    /\ CallReturns(w)
    /\ UNCHANGED <<listVars, bindVars, openVars, refVars, powerVars, reqVars, fileState, bindLocals>>

OpenDeref(w) ==
    /\ pc[w] = "odDeref"
    /\ DerefOpen(ctx[w])
    /\ CallReturns(w)
    /\ UNCHANGED <<listVars, bindVars, openVars, powerVars, reqVars, fileState, bindLocals>>

-----------------------------------------------------------------------------
(* ndisprotValidateOpenAndDoRequest, for OPEN_DEVICE and for Cleanup, and    *)
(* the same steps of ndisprotQueryOidValue and ndisprotSetOidValue.          *)

Operation(t) == IF t \in IoThreads THEN op[t] ELSE "cleanup"

\* The test of NUIOO_BIND_FLAGS, and (a mutant) one that passes a binding
\* being closed.
HasBinding(c) == bindFlags[c] \in {"ACTIVE", "CLOSING"}

IsBindActive(c) == bindFlags[c] = "ACTIVE"

\* Where a request that succeeded or failed leaves its caller.
Resume(t, done) ==
    CASE Operation(t) = "open" /\ ~done -> Goto(t, "odFail") /\ UNCHANGED <<ctx, file, op>>
      [] Operation(t) = "cleanup"       -> Goto(t, "clSweep") /\ UNCHANGED <<ctx, file, op>>
      [] OTHER                          -> CallReturns(t)

\* Only OPEN_DEVICE waits for the device to be powered up.
ValidateOpen(t) ==
    /\ pc[t] = "vLock"
    /\ \/ /\ IsBindActive(ctx[t])
          /\ PendedSendCount' = [PendedSendCount EXCEPT ![ctx[t]] = @ + 1]
          /\ Goto(t, IF Operation(t) = "open" THEN "vWait" ELSE "vRequest")
          /\ UNCHANGED <<ctx, file, op>>
       \/ ~IsBindActive(ctx[t]) /\ Resume(t, FALSE) /\ UNCHANGED PendedSendCount
    /\ UNCHANGED <<listVars, bindVars, openVars, refVars, powerVars, filter, fileState, bindLocals>>

\* (A mutant) the wait has no time limit.
WaitForPowerOnly(t) ==
    /\ pc[t] = "vWait"
    /\ PoweredUpEvent[ctx[t]]
    /\ Goto(t, "vRequest")
    /\ UNCHANGED <<listVars, bindVars, openVars, refVars, powerVars, reqVars, callVars, fileState, ctx>>

\* The event is signalled, or 4500 ms pass: both lead to the request.
WaitForPower(t) ==
    /\ pc[t] = "vWait"
    /\ Goto(t, "vRequest")
    /\ UNCHANGED <<listVars, bindVars, openVars, refVars, powerVars, reqVars, callVars, fileState, ctx>>

Request(t) ==
    /\ pc[t] = "vRequest"
    /\ LET on == CASE Operation(t) = "open"    -> TRUE
                   [] Operation(t) = "cleanup" -> FALSE
                   [] OTHER                    -> filter[ctx[t]]
       IN DoRequest(t, ctx[t], on, "vDone", "vFailed")
    /\ UNCHANGED <<listVars, bindVars, openVars, refVars, powerVars, PendedSendCount,
                   callVars, fileState, ctx>>

\* The binding is let go of; a failure matters to OPEN_DEVICE only.
ReleaseBinding(t) ==
    /\ pc[t] \in {"vDone", "vFailed"}
    /\ PendedSendCount' = [PendedSendCount EXCEPT ![ctx[t]] = @ - 1]
    /\ Resume(t, pc[t] = "vDone")
    /\ UNCHANGED <<listVars, bindVars, openVars, refVars, powerVars, filter, fileState, bindLocals>>

ValidateOpenAndDoRequest(t) ==
    ValidateOpen(t) \/ WaitForPower(t) \/ Request(t) \/ ReleaseBinding(t)

-----------------------------------------------------------------------------
(* NdisProtCleanup and NdisProtClose.                                       *)

Cleanup(f) ==
    /\ fileState[f] = "open"
    /\ SynchronousFiles => ~InDispatch(f)
    /\ fileState' = [fileState EXCEPT ![f] = "cleanup"]
    /\ Use(f, FsContext[f])
    /\ Goto(f, IF FsContext[f] = None THEN "closing" ELSE "clMark")
    /\ UNCHANGED <<listVars, bindVars, openVars, refVars, powerVars, reqVars, callVars>>

CleanupMark(f) ==
    /\ pc[f] = "clMark"
    /\ openActive' = [openActive EXCEPT ![ctx[f]] = FALSE]
    /\ pFileObject' = [pFileObject EXCEPT ![ctx[f]] = None]
    /\ Goto(f, "vLock")
    /\ UNCHANGED <<listVars, bindVars, FsContext, refVars, powerVars, reqVars, callVars,
                   fileState, ctx>>

\* The reads, the status IRP and the receive queue: NdisProtRecv.
CleanupSweep(f) ==
    /\ pc[f] = "clSweep"
    /\ Goto(f, "closing")
    /\ Use(f, None)
    /\ UNCHANGED <<listVars, bindVars, openVars, refVars, powerVars, reqVars, callVars, fileState>>

\* The I/O manager holds Close back while a dispatch routine is at work.
Close(f) ==
    /\ pc[f] = "closing" /\ ~InDispatch(f)
    /\ IF FsContext[f] = None THEN UNCHANGED refVars ELSE DerefOpen(FsContext[f])
    /\ FsContext' = [FsContext EXCEPT ![f] = None]
    /\ fileState' = [fileState EXCEPT ![f] = "closed"]
    /\ Goto(f, "idle")
    /\ UNCHANGED <<listVars, bindVars, openActive, pFileObject, powerVars, reqVars, callVars, ctx>>

-----------------------------------------------------------------------------
(* ndisprotShutdownBinding, called by Unbind and by a CreateBinding that     *)
(* failed.  Reads and queued packets are drained in NdisProtRecv.            *)

\* NdisProtUnbindAdapter comes after CreateBinding, or else it finds the
\* binding OPENING and leaves the shutdown to CreateBinding.
ShutdownStart(t) ==
    /\ pc[t] = "sdLock"
    /\ LET c == ctx[t] IN
       CASE bindFlags[c] = "OPENING" -> Return(t) /\ UNCHANGED bindFlags
         [] bindFlags[c] = "ACTIVE"  ->
                /\ bindFlags' = [bindFlags EXCEPT ![c] = "CLOSING"]
                /\ Goto(t, "sdFilter") /\ UNCHANGED ctx
         [] OTHER -> Goto(t, "sdUnlink") /\ UNCHANGED <<bindFlags, ctx>>
    /\ UNCHANGED <<listVars, unbindReceived, BindingHandle, openVars, refVars, powerVars,
                   reqVars, callVars, fileState>>

ShutdownFilter(t) ==
    /\ pc[t] = "sdFilter"
    /\ DoRequest(t, ctx[t], FALSE, "sdWait", "sdWait")
    /\ UNCHANGED <<listVars, bindVars, openVars, refVars, powerVars, PendedSendCount,
                   callVars, fileState, ctx>>

\* ndisprotWaitForPendingIO polls the count, once a second and 60 times.
NothingPending(c) == WaitOutlastsRequests => PendedSendCount[c] = 0

ShutdownWait(t) ==
    /\ pc[t] = "sdWait"
    /\ NothingPending(ctx[t])
    /\ Goto(t, "sdClose")
    /\ UNCHANGED <<listVars, bindVars, openVars, refVars, powerVars, reqVars, callVars,
                   fileState, ctx>>

\* NdisCloseAdapter
ShutdownClose(t) ==
    /\ pc[t] = "sdClose"
    /\ BindingHandle' = [BindingHandle EXCEPT ![ctx[t]] = FALSE]
    /\ filter' = [filter EXCEPT ![ctx[t]] = FALSE]
    /\ Goto(t, "sdIdle")
    /\ UNCHANGED <<listVars, bindFlags, unbindReceived, openVars, refVars, powerVars,
                   PendedSendCount, callVars, fileState, ctx>>

ShutdownIdle(t) ==
    /\ pc[t] = "sdIdle"
    /\ bindFlags' = [bindFlags EXCEPT ![ctx[t]] = "IDLE"]
    /\ unbindReceived' = [unbindReceived EXCEPT ![ctx[t]] = FALSE]
    /\ Goto(t, "sdUnlink")
    /\ UNCHANGED <<listVars, BindingHandle, openVars, refVars, powerVars, reqVars, callVars,
                   fileState, ctx>>

ShutdownUnlink(t) ==
    /\ pc[t] = "sdUnlink"
    /\ OpenList' = OpenList \ {ctx[t]}
    /\ Goto(t, "sdFree")
    /\ UNCHANGED <<named, bindVars, openVars, refVars, powerVars, reqVars, callVars,
                   fileState, ctx>>

\* ndisprotFreeBindResources: the pools, the DeviceName
ShutdownFree(t) ==
    /\ pc[t] = "sdFree"
    /\ named' = named \ {ctx[t]}
    /\ Goto(t, "sdDeref")
    /\ UNCHANGED <<OpenList, bindVars, openVars, refVars, powerVars, reqVars, callVars,
                   fileState, ctx>>

ShutdownDeref(t) ==
    /\ pc[t] = "sdDeref"
    /\ DerefOpen(ctx[t])
    /\ Return(t)
    /\ UNCHANGED <<listVars, bindVars, openVars, powerVars, reqVars, callVars, fileState>>

ShutdownBinding(t) ==
    \/ ShutdownStart(t) \/ ShutdownFilter(t) \/ ShutdownWait(t) \/ ShutdownClose(t)
    \/ ShutdownIdle(t) \/ ShutdownUnlink(t) \/ ShutdownFree(t) \/ ShutdownDeref(t)

-----------------------------------------------------------------------------
(* NdisProtBindAdapter and ndisprotCreateBinding.                           *)

BindAdapter(c) ==
    /\ pc["bind"] = "idle" /\ bindFlags[c] = "none"
    /\ bindFlags' = [bindFlags EXCEPT ![c] = "IDLE"]
    /\ PoweredUpEvent' = [PoweredUpEvent EXCEPT ![c] = TRUE]
    /\ RefOpen(c)
    /\ OpenList' = OpenList \cup {c}
    /\ Use("bind", c) /\ Goto("bind", "cbLookup")
    /\ UNCHANGED <<named, unbindReceived, BindingHandle, openVars, powerOn, reqVars,
                   callVars, fileState>>

\* (A mutant) nobody looks.
CreateBindingUnchecked ==
    /\ pc["bind"] = "cbLookup"
    /\ Goto("bind", "cbOpening")
    /\ UNCHANGED <<listVars, bindVars, openVars, refVars, powerVars, reqVars, callVars, fileState, ctx>>

\* Is the device bound already?
CreateBindingLookup ==
    /\ pc["bind"] = "cbLookup"
    /\ \/ \E c \in Found : RefOpen(c) /\ tmp' = c /\ Goto("bind", "cbDerefTmp")
       \/ Found = {} /\ Goto("bind", "cbOpening") /\ UNCHANGED <<refVars, tmp>>
    /\ UNCHANGED <<listVars, bindVars, openVars, powerVars, reqVars, file, op, readFlags,
                   fileState, ctx>>

CreateBindingDerefTmp ==
    /\ pc["bind"] = "cbDerefTmp"
    /\ DerefOpen(tmp)
    /\ tmp' = None
    /\ Goto("bind", "cbFail")
    /\ UNCHANGED <<listVars, bindVars, openVars, powerVars, reqVars, file, op, readFlags,
                   fileState, ctx>>

\* The test of BIND_IDLE and UNBIND_RECEIVED passes: nobody else knows the
\* context before NdisOpenAdapter.
CreateBindingOpening ==
    /\ pc["bind"] = "cbOpening"
    /\ bindFlags[ctx["bind"]] = "IDLE" /\ ~unbindReceived[ctx["bind"]]
    /\ bindFlags' = [bindFlags EXCEPT ![ctx["bind"]] = "OPENING"]
    /\ Goto("bind", "cbName")
    /\ UNCHANGED <<listVars, unbindReceived, BindingHandle, openVars, refVars, powerVars,
                   reqVars, callVars, fileState, ctx>>

\* The device name, then the pools: each allocation may fail.
CreateBindingAllocate ==
    /\ pc["bind"] = "cbName"
    /\ \/ named' = named \cup {ctx["bind"]} /\ Goto("bind", "cbOpen")
       \/ named' \in {named, named \cup {ctx["bind"]}} /\ Goto("bind", "cbFail")
    /\ UNCHANGED <<OpenList, bindVars, openVars, refVars, powerVars, reqVars, callVars,
                   fileState, ctx>>

\* NdisOpenAdapter, pended or not
CreateBindingOpen ==
    /\ pc["bind"] = "cbOpen"
    /\ \/ /\ BindingHandle' = [BindingHandle EXCEPT ![ctx["bind"]] = TRUE]
          /\ Goto("bind", "cbQuery")
       \/ Goto("bind", "cbFail") /\ UNCHANGED BindingHandle
    /\ UNCHANGED <<listVars, bindFlags, unbindReceived, openVars, refVars, powerVars,
                   reqVars, callVars, fileState, ctx>>

\* The address, the options, the frame size and the media state: the first
\* request to fail fails the binding.
CreateBindingQuery ==
    /\ pc["bind"] = "cbQuery"
    /\ \/ Goto("bind", IF AtomicMediaFlags THEN "cbActive" ELSE "cbRead")
       \/ Goto("bind", "cbFailOpen")
    /\ UNCHANGED <<listVars, bindVars, openVars, refVars, powerVars, reqVars, callVars,
                   fileState, ctx>>

\* NPROT_SET_FLAGS of the media bit, without the lock: Flags is read ...
CreateBindingReadFlags ==
    /\ pc["bind"] = "cbRead"
    /\ readFlags' = <<openActive[ctx["bind"]], unbindReceived[ctx["bind"]]>>
    /\ Goto("bind", "cbWrite")
    /\ UNCHANGED <<listVars, bindVars, openVars, refVars, powerVars, reqVars, file, op, tmp,
                   fileState, ctx>>

\* ... and written back as a whole.
CreateBindingWriteFlags ==
    /\ pc["bind"] = "cbWrite"
    /\ openActive' = [openActive EXCEPT ![ctx["bind"]] = readFlags[1]]
    /\ unbindReceived' = [unbindReceived EXCEPT ![ctx["bind"]] = readFlags[2]]
    /\ readFlags' = <<FALSE, FALSE>>
    /\ Goto("bind", "cbActive")
    /\ UNCHANGED <<listVars, bindFlags, BindingHandle, pFileObject, FsContext, refVars, powerVars,
                   reqVars, file, op, tmp, fileState, ctx>>

CreateBindingActive ==
    /\ pc["bind"] = "cbActive"
    /\ bindFlags' = [bindFlags EXCEPT ![ctx["bind"]] = "ACTIVE"]
    /\ IF unbindReceived[ctx["bind"]]
         THEN Goto("bind", "cbFailOpen") /\ UNCHANGED ctx
         ELSE Return("bind")
    /\ UNCHANGED <<listVars, unbindReceived, BindingHandle, openVars, refVars, powerVars,
                   reqVars, callVars, fileState>>

\* A binding whose adapter was opened is made ACTIVE, for the shutdown to
\* close it.
CreateBindingFailed ==
    /\ pc["bind"] \in {"cbFail", "cbFailOpen"}
    /\ bindFlags' = [bindFlags EXCEPT ![ctx["bind"]] =
           IF pc["bind"] = "cbFailOpen" THEN "ACTIVE"
           ELSE IF @ = "OPENING" THEN "FAILED" ELSE @]
    /\ Goto("bind", "sdLock")
    /\ UNCHANGED <<listVars, unbindReceived, BindingHandle, openVars, refVars, powerVars,
                   reqVars, callVars, fileState, ctx>>

CreateBinding ==
    \/ CreateBindingLookup \/ CreateBindingDerefTmp \/ CreateBindingOpening
    \/ CreateBindingAllocate \/ CreateBindingOpen \/ CreateBindingQuery
    \/ CreateBindingReadFlags \/ CreateBindingWriteFlags
    \/ CreateBindingActive \/ CreateBindingFailed

-----------------------------------------------------------------------------
(* NdisProtUnbindAdapter and NdisProtPnPEventHandler.                       *)

\* NDIS knows the context once it has opened the adapter, and has one event
\* in progress for it.
NdisMayCall(c) ==
    /\ pc["pnp"] = "idle" /\ BindingHandle[c] /\ ~unbindReceived[c]
    /\ UnbindDuringBind \/ ctx["bind"] # c

\* The flag, and a signal for those who wait for power.
Unbind(c) ==
    /\ NdisMayCall(c)
    /\ unbindReceived' = [unbindReceived EXCEPT ![c] = TRUE]
    /\ PoweredUpEvent' = [PoweredUpEvent EXCEPT ![c] = TRUE]
    /\ Use("pnp", c) /\ Goto("pnp", "sdLock")
    /\ UNCHANGED <<listVars, bindFlags, BindingHandle, openVars, refVars, powerOn, reqVars,
                   callVars, fileState>>

\* PowerState is stored without the lock, then the event follows it.
SetPower(c) ==
    /\ NdisMayCall(c)
    /\ powerOn' = [powerOn EXCEPT ![c] = ~@]
    /\ Use("pnp", c) /\ Goto("pnp", "pwEvent")
    /\ UNCHANGED <<listVars, bindVars, openVars, refVars, PoweredUpEvent, reqVars, callVars,
                   fileState>>

SetPoweredUpEvent ==
    /\ pc["pnp"] = "pwEvent"
    /\ PoweredUpEvent' = [PoweredUpEvent EXCEPT ![ctx["pnp"]] = powerOn[ctx["pnp"]]]
    /\ IF powerOn[ctx["pnp"]] THEN Return("pnp") ELSE Goto("pnp", "pwWait") /\ UNCHANGED ctx
    /\ UNCHANGED <<listVars, bindVars, openVars, refVars, powerOn, reqVars, callVars,
                   fileState>>

\* The wait for requests in progress; the receive queue is flushed after it.
PowerDownWait ==
    /\ pc["pnp"] = "pwWait"
    /\ NothingPending(ctx["pnp"])
    /\ Return("pnp")
    /\ UNCHANGED <<listVars, bindVars, openVars, refVars, powerVars, reqVars, callVars,
                   fileState>>

-----------------------------------------------------------------------------
IoThread(w) ==
    LookupDevice(w) \/ ClaimDevice(w) \/ OpenFailed(w) \/ OpenDeref(w) \/ ValidateOpenAndDoRequest(w)

FileThread(f) == CleanupMark(f) \/ CleanupSweep(f) \/ Close(f) \/ ValidateOpenAndDoRequest(f)

BindThread == CreateBinding \/ ShutdownBinding("bind")

PnPThread == SetPoweredUpEvent \/ PowerDownWait \/ ShutdownBinding("pnp")

\* What clients and NDIS may start and need not.
Environment ==
    \/ \E w \in IoThreads, f \in Files, request \in {"open", "oid"} : IoControl(w, f, request)
    \/ \E f \in Files : Cleanup(f)
    \/ \E c \in Contexts : BindAdapter(c) \/ Unbind(c) \/ SetPower(c)

Next ==
    \/ Environment
    \/ \E w \in IoThreads : IoThread(w)
    \/ \E f \in Files : FileThread(f)
    \/ BindThread
    \/ PnPThread

Spec == Init /\ [][Next]_vars

\* A thread inside the driver is scheduled again and the miniport completes
\* its requests.
Fairness ==
    /\ \A w \in IoThreads : WF_vars(IoThread(w))
    /\ \A f \in Files : WF_vars(FileThread(f))
    /\ WF_vars(BindThread)
    /\ WF_vars(PnPThread)

FairSpec == Spec /\ Fairness

-----------------------------------------------------------------------------
(* Types.                                                                   *)

RequestLabels  == {"vLock", "vRequest", "vDone", "vFailed"}
ShutdownLabels == {"sdLock", "sdFilter", "sdWait", "sdClose", "sdIdle", "sdUnlink", "sdFree", "sdDeref"}

\* Where a thread may be, given what it was started for.
Labels(t) ==
    IF t \in IoThreads THEN RequestLabels \cup {"idle", "odLookup", "odClaim", "vWait", "odFail", "odDeref"}
    ELSE IF t \in Files THEN RequestLabels \cup {"idle", "clMark", "clSweep", "closing"}
    ELSE IF t = "bind" THEN ShutdownLabels \cup
        {"idle", "cbLookup", "cbDerefTmp", "cbOpening", "cbName", "cbOpen", "cbQuery",
         "cbRead", "cbWrite", "cbActive", "cbFail", "cbFailOpen"}
    ELSE ShutdownLabels \cup {"idle", "pwEvent", "pwWait"}

\* Every variable has its type, every thread is in a routine that it can have
\* called, and one at work on a context names it.
TypeOK ==
    /\ OpenList \subseteq Contexts /\ named \subseteq Contexts
    /\ bindFlags \in [Contexts -> {"none", "IDLE", "OPENING", "FAILED", "ACTIVE", "CLOSING"}]
    /\ unbindReceived \in [Contexts -> BOOLEAN] /\ BindingHandle \in [Contexts -> BOOLEAN]
    /\ openActive \in [Contexts -> BOOLEAN] /\ pFileObject \in [Contexts -> Files \cup {None}]
    /\ RefCount \in [Contexts -> Int] /\ freed \in [Contexts -> BOOLEAN]
    /\ powerOn \in [Contexts -> BOOLEAN] /\ PoweredUpEvent \in [Contexts -> BOOLEAN]
    /\ PendedSendCount \in [Contexts -> Int] /\ filter \in [Contexts -> BOOLEAN]
    /\ FsContext \in [Files -> Contexts \cup {None}]
    /\ fileState \in [Files -> {"open", "cleanup", "closed"}]
    /\ ctx \in [Agents -> Contexts \cup {None}]
    /\ file \in [IoThreads -> Files \cup {None}] /\ op \in [IoThreads -> {"none", "open", "oid"}]
    /\ tmp \in Contexts \cup {None} /\ readFlags \in BOOLEAN \X BOOLEAN
    /\ pc \in [Agents -> UNION {Labels(t) : t \in Agents}]
    /\ \A t \in Agents :
          /\ pc[t] \in Labels(t)
          /\ ctx[t] = None <=> pc[t] \in {"idle", "odLookup", "closing"}

-----------------------------------------------------------------------------
(* Safety.                                                                  *)

\* The reasons for a reference: the binding until its shutdown lets go, files
\* from OPEN_DEVICE to Close, and lookups that are still undecided.
Holders(c) ==
    {<<"binding", d>> : d \in {e \in {c} : e \in OpenList \/ \E t \in {"bind", "pnp"} :
                                              ctx[t] = e /\ pc[t] \in {"sdFree", "sdDeref"}}}
    \cup {<<"open", f>> : f \in {g \in Files : FsContext[g] = c}}
    \cup {<<"lookup", w>> : w \in {v \in IoThreads : ctx[v] = c /\ pc[v] \in {"odClaim", "odDeref"}}}
    \cup {<<"lookup", b>> : b \in {a \in {"bind"} : tmp = c}}

\* RefCount is the number of the reasons above, whichever of the exits of
\* ndisprotOpenDevice, Close and the shutdown are taken.
RefCountIsExact == \A c \in Contexts : RefCount[c] = Cardinality(Holders(c))

\* A context is not freed while a thread, a file object or the global list
\* still points to it.
NoUseAfterFree ==
    \A c \in Contexts : freed[c] =>
        /\ \A t \in Agents : ctx[t] # c
        /\ \A f \in Files : FsContext[f] # c
        /\ c \notin OpenList /\ tmp # c

\* The asserts of ndisprotDerefOpen: what is freed has neither a binding nor
\* a file object.
FreedContextIsUnassociated ==
    \A c \in Contexts : freed[c] => ~BindingHandle[c] /\ pFileObject[c] = None

\* From OPEN_DEVICE to Cleanup, and no longer, the context points back to the
\* one file that has it: no two handles are open on a context, and a handle
\* that is gone does not keep the device busy.
AssociationIsMutual ==
    \A c \in Contexts, f \in Files :
        /\ pFileObject[c] = f <=> /\ FsContext[f] = c
                                  /\ fileState[f] = "open" \/ pc[f] = "clMark"
        /\ openActive[c] <=> pFileObject[c] # None

\* A context and a file object that point to each other stop doing so in time:
\* after Cleanup or a failed OPEN_DEVICE, and before the context is freed.
AssociationIsSound == FreedContextIsUnassociated /\ AssociationIsMutual

\* ndisbind.c:1176-1177: the binding does not go away before the request
\* that counted itself in PendedSendCount is finished.
RequestPinsBinding ==
    \A t \in Agents : pc[t] \in {"vWait", "vRequest"} => BindingHandle[ctx[t]]

\* A context that ndisprotLookupDevice finds is alive, and the only one bound
\* to the device.
OneBindingIsFound ==
    \A c \in Found : ~freed[c] /\ Found = {c}

-----------------------------------------------------------------------------
(* Liveness.                                                                *)

\* Every ioctl returns: OPEN_DEVICE does not wait for power for ever.
IoctlsReturn == \A w \in IoThreads : pc[w] # "idle" ~> pc[w] = "idle"

\* NdisProtUnbindAdapter returns, whatever requests are in progress.
UnbindCompletes == pc["pnp"] \in ShutdownLabels ~> pc["pnp"] = "idle"

\* SetPower waits for requests that wait for power, and returns all the same,
\* unless clients never stop making new requests: they hold it up, not the
\* wait for PoweredUpEvent.
PowerDownCompletes ==
    <>[](pc["pnp"] = "pwWait") => []<>(\E w \in IoThreads : pc[w] = "vLock")

\* Clients and NDIS get their threads back from every ioctl, from Unbind, and
\* from a power-down that clients do not hold up, although OPEN_DEVICE waits
\* for power and Unbind and SetPower wait for OPEN_DEVICE.
CallsReturn == IoctlsReturn /\ UnbindCompletes /\ PowerDownCompletes

-----------------------------------------------------------------------------
(* What the comments say and the code does not do.                          *)

\* ntdisp.c:753, OPEN_DEVICE: set the packet filter, so that packets are
\* received.  The Cleanup of the previous handle may clear it afterwards.
OpenedDeviceReceives ==
    \A f \in Files :
        /\ FsContext[f] # None /\ fileState[f] = "open" /\ ~InDispatch(f)
        /\ bindFlags[FsContext[f]] = "ACTIVE"
        => filter[FsContext[f]]

\* ndisbind.c:341-343: threads that attempt to query the device while it is in
\* a low power state are blocked.  Those in ndisprotQueryOidValue are not.
LowPowerBlocksQueries ==
    \A w \in IoThreads : (op[w] = "oid" /\ pc[w] = "vRequest" /\ pc["pnp"] = "idle")
        => powerOn[ctx[w]]

\* ndisprot.h:101: PoweredUpEvent is "signalled iff PowerState is D0".  Even
\* with no change of PowerState under way, Unbind signals it in a lower state.
PoweredUpEventIsD0 ==
    \A c \in Contexts :
        bindFlags[c] = "ACTIVE" /\ pc["pnp"] # "pwEvent" => PoweredUpEvent[c] = powerOn[c]

\* ndisbind.c:585-586: the state is updated late, so that no other thread
\* starts to close the binding.  An Unbind that found it OPENING goes on to
\* close it beside the CreateBinding that failed because of that Unbind.
ClosedByOneThread ==
    ctx["bind"] # ctx["pnp"] \/ {pc["bind"], pc["pnp"]} \cap (ShutdownLabels \ {"sdLock"}) = {}

\* ntdisp.c:718, where OPEN_DEVICE refuses a device that is open: pFileObject is
\* not NULL.  CreateBinding may have written back the OPEN_ACTIVE of an open
\* that failed since, and the device stays busy for ever.
BusyDeviceHasFile == \A c \in Contexts : openActive[c] => pFileObject[c] # None
=============================================================================
