---------------------------- MODULE TdiResolve -----------------------------
(***************************************************************************)
(* How the TDI firewall learns a process name (tdi_fw/pid_pname.c, and     *)
(* tdi_create of disp_obj.c): a thread that creates a TDI object while the *)
(* name of its process is unknown logs a request to resolve it, and waits  *)
(* up to 5 seconds for the log application to set the name.  The list of   *)
(* processes g_plist holds a pointer to the KEVENT on the thread's stack.  *)
(*                                                                         *)
(* Actors: the threads, the log application (external: it waits for the    *)
(* event, reads until nothing is left, and answers each request), process  *)
(* creation and termination, and the unloading of the driver.  A step is a *)
(* critical section of g_queue.guard or of g_plist.guard.                  *)
(***************************************************************************)
EXTENDS TdiLogQueue

CONSTANTS
    Pids,           \* processes, by their id
    ThreadIds,      \* the threads of a process
    AllocResults,   \* whether malloc_np for the list of processes succeeds
    MaxEntries,     \* bound: the entries of the list of processes
    NoThread

Threads == Pids \X ThreadIds
OnStack == {"enter", "add", "log", "test", "set", "wait"}   \* where tdi_create has its event
PidOf(t) == t[1]

ASSUME ResolveAssumption ==
    /\ NoPid \notin Pids /\ NoThread \notin Threads
    /\ AllocResults \subseteq BOOLEAN /\ MaxEntries \in Nat

VARIABLES
    plist,      \* g_plist: pid, whether pname is set, pname_event
    alive,      \* the processes there are
    pc,         \* what a thread is doing in tdi_create or in log_request
    woken,      \* the KEVENT on a thread's stack, while there, is signalled
    asked,      \* the number of its request, 0 if it has none, Lost if it was lost
    creates,    \* how many calls of tdi_create a process id has begun: 0, 1, 2 for more
    app,        \* the log application: closed, opening, idle, reading, closing
    answers,    \* requests it has read and not answered: number and pid
    adding      \* the process for which it is to add an entry

threadVars == <<pc, woken, asked, creates>>
appVars == <<app, answers, adding>>
vars == <<queueVars, plist, alive, threadVars, appVars>>

\* The driver may be loaded when there are processes: they are not in the list.
Init ==
    /\ QueueInit
    /\ plist = <<>>
    /\ alive \in [Pids -> BOOLEAN]
    /\ pc = [t \in Threads |-> "idle"]
    /\ woken = [t \in Threads |-> FALSE]
    /\ asked = [t \in Threads |-> 0]
    /\ creates = [p \in Pids |-> 0]
    /\ app = "closed" /\ answers = {} /\ adding = NoPid

-----------------------------------------------------------------------------
(* The list of processes                                                   *)

Lost == -1

\* The requests with these numbers will not be answered.
Losing(ids) == [t \in Threads |-> IF asked[t] \in ids THEN Lost ELSE asked[t]]

Entry(p, named, t) == [pid |-> p, pname |-> named, event |-> t]

\* find_ple: the first entry for p, 0 if there is none.
FindPle(p) ==
    LET found == {k \in DOMAIN plist : plist[k].pid = p}
    IN  IF found = {} THEN 0 ELSE CHOOSE k \in found : \A j \in found : k <= j

\* pid_pname_resolve.
Resolved(p) == FindPle(p) # 0 /\ plist[FindPle(p)].pname

\* add_ple, and what its caller puts in the entry under the same lock.
AddPle(e) ==
    /\ Len(plist) < MaxEntries
    /\ \E ok \in AllocResults : plist' = IF ok THEN Append(plist, e) ELSE plist

\* ProcessNotifyProc.  An entry is added even if there is one for this id.
ProcessCreate(p) ==
    /\ ~ alive[p] /\ ~ unloaded
    /\ alive' = [alive EXCEPT ![p] = TRUE]
    /\ AddPle(Entry(p, FALSE, NoThread))
    /\ UNCHANGED <<queueVars, threadVars, appVars>>

ProcessTerminate(p) ==
    /\ alive[p] /\ \A t \in Threads : PidOf(t) = p => pc[t] = "idle"
    /\ ~ unloaded
    /\ alive' = [alive EXCEPT ![p] = FALSE]
    /\ plist' = [k \in 1..(Len(plist) - IF FindPle(p) = 0 THEN 0 ELSE 1) |->
                   IF FindPle(p) # 0 /\ k >= FindPle(p) THEN plist[k + 1] ELSE plist[k]]
    /\ UNCHANGED <<queueVars, threadVars, appVars>>

-----------------------------------------------------------------------------
(* A thread                                                                *)

\* tdi_create, when the name is not known.
CreateBegin(t) ==
    /\ pc[t] = "idle" /\ alive[PidOf(t)] /\ ~ unloaded
    /\ ~ Resolved(PidOf(t))
    /\ pc' = [pc EXCEPT ![t] = "enter"]
    /\ woken' = [woken EXCEPT ![t] = FALSE]
    /\ creates' = [creates EXCEPT ![PidOf(t)] = IF @ = 0 THEN 1 ELSE 2]
    /\ UNCHANGED <<queueVars, plist, alive, asked, appVars>>

\* pid_pname_set_event, before the request and after it.  The lock is
\* released when there is no entry, and taken again to add one; that there
\* is no memory for it is not noticed.
PointsTo(t) == IF pc[t] \in {"enter", "add"} THEN t ELSE NoThread
AfterSetEvent(t) == IF pc[t] \in {"enter", "add"} THEN "log" ELSE "idle"

SetEventFound(t) ==
    /\ pc[t] \in {"enter", "leave"} /\ FindPle(PidOf(t)) # 0
    /\ plist' = [plist EXCEPT ![FindPle(PidOf(t))].event = PointsTo(t)]
    /\ pc' = [pc EXCEPT ![t] = AfterSetEvent(t)]
    /\ UNCHANGED <<queueVars, alive, woken, asked, creates, appVars>>

\* (A mutant) no entry is added for the event.
SetEventNotFoundReturns(t) ==
    /\ pc[t] \in {"enter", "leave"} /\ FindPle(PidOf(t)) = 0
    /\ pc' = [pc EXCEPT ![t] = AfterSetEvent(t)]
    /\ UNCHANGED <<queueVars, plist, alive, woken, asked, creates, appVars>>

SetEventNotFound(t) ==
    /\ pc[t] \in {"enter", "leave"} /\ FindPle(PidOf(t)) = 0
    /\ pc' = [pc EXCEPT ![t] = IF @ = "enter" THEN "add" ELSE "addnull"]
    /\ UNCHANGED <<queueVars, plist, alive, woken, asked, creates, appVars>>

SetEventAdd(t) ==
    /\ pc[t] \in {"add", "addnull"}
    /\ AddPle(Entry(PidOf(t), FALSE, PointsTo(t)))
    /\ pc' = [pc EXCEPT ![t] = AfterSetEvent(t)]
    /\ UNCHANGED <<queueVars, alive, woken, asked, creates, appVars>>

\* The request to resolve the name; without a log application it is
\* not waited for, and the rules decide.
LogResolve(t) ==
    /\ pc[t] = "log"
    /\ IF gotLog
       THEN /\ LogRequest(PidOf(t), TRUE, TRUE, Resolved(PidOf(t)))
            /\ asked' = [Losing(Loses) EXCEPT ![t] = logged + 1]
            /\ pc' = [pc EXCEPT ![t] = "test"]
       ELSE /\ pc' = [pc EXCEPT ![t] = "leave"]
            /\ UNCHANGED <<queueVars, asked>>
    /\ UNCHANGED <<plist, alive, woken, creates, appVars>>

\* Any other request that is logged; the model takes one without a SID.
LogOther(t) ==
    /\ pc[t] = "idle" /\ alive[PidOf(t)] /\ ~ unloaded
    /\ LogRequest(PidOf(t), FALSE, FALSE, Resolved(PidOf(t)))
    /\ pc' = [pc EXCEPT ![t] = "test"]
    /\ asked' = Losing(Loses)
    /\ UNCHANGED <<plist, alive, woken, creates, appVars>>

AfterSignal(t) == IF asked[t] # 0 THEN "wait" ELSE "idle"

\* The end of log_request, without the lock.
SignalTest(t) ==
    /\ pc[t] = "test"
    /\ pc' = [pc EXCEPT ![t] = IF EventIsSeen THEN "set" ELSE AfterSignal(t)]
    /\ UNCHANGED <<queueVars, plist, alive, woken, asked, creates, appVars>>

SignalSet(t) ==
    /\ pc[t] = "set"
    /\ SetEvent
    /\ pc' = [pc EXCEPT ![t] = AfterSignal(t)]
    /\ UNCHANGED <<plist, alive, woken, asked, creates, appVars>>

\* KeWaitForSingleObject returns or times out; the object is denied if it does.
WaitEnds(t) ==
    /\ pc[t] = "wait"
    /\ pc' = [pc EXCEPT ![t] = "leave"]
    /\ asked' = [asked EXCEPT ![t] = 0]
    /\ woken' = [woken EXCEPT ![t] = FALSE]
    /\ UNCHANGED <<queueVars, plist, alive, creates, appVars>>

-----------------------------------------------------------------------------
(* The log application                                                     *)

Others == <<plist, alive, threadVars>>

AppOpens ==
    \/ /\ app = "closed" /\ FilterInit2
       /\ app' = "opening"
       /\ UNCHANGED <<Others, answers, adding>>
    \/ /\ app = "opening" /\ SetGotLog(TRUE)
       /\ app' = "idle"
       /\ UNCHANGED <<Others, answers, adding>>

\* It may end at any time, with what it has read unanswered.
AppCloses ==
    \/ /\ app \in {"idle", "reading"} /\ adding = NoPid
       /\ FilterFree2
       /\ app' = "closing" /\ answers' = {}
       /\ asked' = Losing({a.id : a \in answers})
       /\ UNCHANGED <<plist, alive, pc, woken, creates, adding>>
    \/ /\ app = "closing" /\ SetGotLog(FALSE)
       /\ app' = "closed"
       /\ UNCHANGED <<Others, answers, adding>>

AppWakes ==
    /\ app = "idle" /\ adding = NoPid /\ signalled
    /\ signalled' = FALSE
    /\ app' = "reading"
    /\ UNCHANGED <<ring, reader, fresh, event, gotLog, unloaded, Others, answers, adding>>

\* IOCTL_CMD_GETREQUEST with a buffer for at least one request, and again
\* when all it has read is answered, until none is left.
AppReads ==
    /\ app = "reading" /\ adding = NoPid /\ answers = {}
    /\ \/ /\ Length = 0
          /\ app' = "idle"
          /\ UNCHANGED <<queueVars, answers>>
       \/ \E n \in 1..Length :
             /\ GetRequest(n)
             /\ answers' = {[id |-> data[SlotAt(k)].id, pid |-> data[SlotAt(k)].pid] :
                     k \in {j \in 1..n : data[SlotAt(j)].resolve}}
             /\ UNCHANGED app
    /\ UNCHANGED <<Others, adding>>

\* It answers in the order of the requests.
NextAnswer == CHOOSE a \in answers : \A b \in answers : a.id <= b.id

\* IOCTL_CMD_SETPNAME, pid_pname_set.  With an entry for the process, its event
\* is signalled when the name is first set, whether there is memory for it or
\* not; without one, the lock is released ...
AppAnswers ==
    /\ app = "reading" /\ adding = NoPid /\ answers # {}
    /\ answers' = answers \ {NextAnswer}
    /\ LET k == FindPle(NextAnswer.pid)
       IN  \/ /\ k # 0 /\ plist[k].pname
              /\ UNCHANGED <<plist, woken, adding>>
           \/ /\ k # 0 /\ ~ plist[k].pname
              /\ \E ok \in AllocResults : plist' = [plist EXCEPT ![k].pname = ok]
              /\ woken' = [t \in Threads |-> woken[t] \/ (plist[k].event = t /\ pc[t] \in OnStack)]
              /\ UNCHANGED adding
           \/ /\ k = 0
              /\ adding' = NextAnswer.pid
              /\ UNCHANGED <<plist, woken>>
    /\ UNCHANGED <<queueVars, alive, pc, asked, creates, app>>

\* ... and taken again to add one.
AppAdds ==
    /\ adding # NoPid
    /\ adding' = NoPid
    /\ AddPle(Entry(adding, TRUE, NoThread))
    /\ UNCHANGED <<queueVars, alive, threadVars, app, answers>>

\* OnUnload, when nobody uses the driver.
Unload ==
    /\ app = "closed" /\ \A t \in Threads : pc[t] = "idle"
    /\ FilterFree
    /\ plist' = <<>>
    /\ UNCHANGED <<alive, threadVars, appVars>>

-----------------------------------------------------------------------------
Thread(t) ==
    \/ CreateBegin(t) \/ SetEventFound(t) \/ SetEventNotFound(t) \/ SetEventAdd(t)
    \/ LogResolve(t) \/ LogOther(t) \/ SignalTest(t) \/ SignalSet(t) \/ WaitEnds(t)

App ==
    \/ AppOpens \/ AppCloses \/ AppWakes \/ AppReads
    \/ AppAnswers \/ AppAdds

Next ==
    \/ \E t \in Threads : Thread(t)
    \/ \E p \in Pids : ProcessCreate(p) \/ ProcessTerminate(p)
    \/ App \/ Unload

Spec == Init /\ [][Next]_vars

-----------------------------------------------------------------------------
(* Properties                                                              *)

Request == [id : 0..MaxRequests, pid : Pids \cup {NoPid}, resolve : BOOLEAN,
            pname : BOOLEAN, sid : BOOLEAN, skipped : 0..MaxRequests]

TypeOK ==
    /\ data \in [Slots -> Request]
    /\ head \in Slots /\ tail \in Slots
    /\ heap \subseteq (1..MaxRequests) \X {"pname", "sid"}
    /\ {logged, reported, lastRead} \subseteq 0..MaxRequests
    /\ {freedTwice, fresh, event, signalled, gotLog, unloaded} \subseteq BOOLEAN
    /\ plist \in Seq([pid : Pids, pname : BOOLEAN, event : Threads \cup {NoThread}])
    /\ alive \in [Pids -> BOOLEAN]
    /\ pc \in [Threads -> {"idle", "enter", "add", "log", "test", "set", "wait", "leave",
                           "addnull"}]
    /\ woken \in [Threads -> BOOLEAN]
    /\ asked \in [Threads -> Lost..MaxRequests]
    /\ creates \in [Pids -> 0..2]
    /\ app \in {"closed", "opening", "idle", "reading", "closing"}
    /\ answers \subseteq [id : 1..MaxRequests, pid : Pids]
    /\ adding \in Pids \cup {NoPid}

\* The application does not sleep through a request that was logged since it
\* opened the device: the event is signalled, or a thread is about to.
RequestWakesApp ==
    app = "idle" /\ event /\ fresh /\ Length > 0
        => signalled \/ \E t \in Threads : pc[t] \in {"test", "set"}

\* The first thread that waits for the name of a process is not forgotten:
\* its request is in the queue or with the application, it is woken, or the
\* request was lost with the application or from a full ring.
FirstCreateIsAnswered ==
    \A t \in Threads :
        pc[t] = "wait" /\ creates[PidOf(t)] = 1
            => \/ woken[t] \/ asked[t] = Lost
               \/ \E i \in Queued : data[i].id = asked[t]
               \/ \E a \in answers : a.id = asked[t]

\* A thread is woken when the name of its process is known, whichever call,
\* and whichever process with that id, the event and the answer were for.
WokenHasName ==
    \A t \in Threads : pc[t] = "wait" /\ woken[t] => Resolved(PidOf(t))

\* The wait for the name of a process ends with the name, and not before.
NameReachesWaiters == FirstCreateIsAnswered /\ WokenHasName

\* "and signal event we have name!" (pid_pname.c:148): a thread that waits for
\* a name that is known has been woken.
NamedThreadIsWoken ==
    \A t \in Threads : pc[t] = "wait" /\ Resolved(PidOf(t)) => woken[t]

\* pname_event points to the stack of a thread that is still in tdi_create.
EventIsOfWaiter ==
    \A k \in DOMAIN plist : \A t \in Threads :
        plist[k].event = t => pc[t] \in {"log", "test", "set", "wait", "leave"}

\* "remove entry from plist" (pid_pname.c:262): a process that has ended is
\* not in the list, so that another with its id does not get its name.
EndedProcessIsForgotten ==
    \A p \in Pids : ~ alive[p] => FindPle(p) = 0

\* The event that log_request is about to set is there.
EventOutlivesSignal ==
    \A t \in Threads : pc[t] = "set" => event
=============================================================================
