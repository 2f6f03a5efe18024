---------------------------- MODULE TdiLogQueue ----------------------------
(***************************************************************************)
(* The queue of logged requests of the TDI firewall (tdi_fw/filter.c): a   *)
(* ring g_queue that every intercepted request may be written to, under    *)
(* g_queue.guard, and that the log application reads through the control   *)
(* device.  A queued request owns the memory of its process name and SID;  *)
(* a full ring loses its oldest request, and counts it in the newest.      *)
(*                                                                         *)
(* TdiResolve has the threads that log and the application that reads.     *)
(***************************************************************************)
EXTENDS Integers, Sequences, FiniteSetsExt

CONSTANTS
    QueueSize,      \* REQUEST_QUEUE_SIZE
    MaxRequests,    \* bound: the requests that are logged
    NoPid

ASSUME QueueAssumption == QueueSize \in Nat \ {0, 1} /\ MaxRequests \in Nat

VARIABLES
    data,           \* g_queue.data
    head, tail,     \* g_queue.head and tail
    heap,           \* the names and SIDs that are allocated
    freedTwice,     \* memory has been freed that was not allocated
    logged,         \* the requests logged so far, which are numbered
    reported,       \* those that the application has read of, or of their loss
    lastRead,       \* the last it has read
    fresh,          \* a request has been logged since the event was created
    event,          \* g_queue.event # NULL
    signalled,      \* the event, which is a SynchronizationEvent
    gotLog,         \* g_got_log
    unloaded        \* filter_free has been called

ring == <<data, head, tail, heap, freedTwice, logged>>
reader == <<reported, lastRead>>
queueVars == <<ring, reader, fresh, event, signalled, gotLog, unloaded>>

Slots == 0..(QueueSize - 1)
Empty == [id |-> 0, pid |-> NoPid, resolve |-> FALSE, pname |-> FALSE, sid |-> FALSE,
          skipped |-> 0]

\* filter_init.
QueueInit ==
    /\ data = [i \in Slots |-> Empty]
    /\ head = 0 /\ tail = 0
    /\ heap = {} /\ freedTwice = FALSE
    /\ logged = 0 /\ reported = 0 /\ lastRead = 0 /\ fresh = FALSE
    /\ event = FALSE /\ signalled = FALSE /\ gotLog = FALSE
    /\ unloaded = FALSE

NextSlot(i) == (i + 1) % QueueSize

\* The slots that hold requests, from the oldest to the newest.
Length == (head - tail) % QueueSize
SlotAt(k) == (tail + k - 1) % QueueSize
Queued == {SlotAt(k) : k \in 1..Length}

\* What the pointers of a request point to.
Memory(r) ==
    (IF r.pname THEN {<<r.id, "pname">>} ELSE {}) \cup (IF r.sid THEN {<<r.id, "sid">>} ELSE {})

\* How many requests an application learns of that reads the requests in these
\* slots of d.
Counted(d, slots) == MapThenSumSet(LAMBDA i : 1 + d[i].skipped, slots)

-----------------------------------------------------------------------------
\* The request that a full ring loses when another is logged.
Loses == IF NextSlot(head) = tail THEN {data[tail].id} ELSE {}

\* (A mutant) the count of the lost request is not taken over.
LogRequestForgetsLosses(pid, resolve, sid, named) ==
    LET full == NextSlot(head) = tail
        lost == IF full THEN Memory(data[tail]) ELSE {}
        new  == [id |-> logged + 1, pid |-> pid, resolve |-> resolve, pname |-> named,
                 sid |-> sid, skipped |-> IF full THEN 1 ELSE 0]
    IN  /\ logged < MaxRequests
        /\ logged' = logged + 1
        /\ data' = [data EXCEPT ![head] = new]
        /\ head' = NextSlot(head)
        /\ tail' = IF full THEN NextSlot(tail) ELSE tail
        /\ heap' = (heap \ lost) \cup Memory(new)
        /\ freedTwice' = (freedTwice \/ ~ lost \subseteq heap)
        /\ fresh' = event
        /\ UNCHANGED <<reader, event, signalled, gotLog, unloaded>>

\* log_request, up to the unlock, of a request for pid with or without a SID;
\* named is whether a process name was found and memory for it.  In a full
\* ring the memory of the oldest goes, but the pointers to it stay in its slot.
LogRequest(pid, resolve, sid, named) ==
    LET full == NextSlot(head) = tail
        lost == IF full THEN Memory(data[tail]) ELSE {}
        new  == [id |-> logged + 1, pid |-> pid, resolve |-> resolve, pname |-> named,
                 sid |-> sid, skipped |-> IF full THEN data[tail].skipped + 1 ELSE 0]
    IN  /\ logged < MaxRequests
        /\ logged' = logged + 1
        /\ data' = [data EXCEPT ![head] = new]
        /\ head' = NextSlot(head)
        /\ tail' = IF full THEN NextSlot(tail) ELSE tail
        /\ heap' = (heap \ lost) \cup Memory(new)
        /\ freedTwice' = (freedTwice \/ ~ lost \subseteq heap)
        /\ fresh' = event
        /\ UNCHANGED <<reader, event, signalled, gotLog, unloaded>>

\* (A mutant) g_got_log is looked at.
GotLogIsSeen == gotLog

\* The rest of it: the event is looked at, and looked at again to set it.
EventIsSeen == event

SetEvent ==
    /\ signalled' = (signalled \/ event)
    /\ UNCHANGED <<ring, reader, fresh, event, gotLog, unloaded>>

\* get_request: the oldest n requests, which are those that fit the buffer.
\* Their slots are left without pointers; what else they hold is not used.
GetRequest(n) ==
    LET read == {SlotAt(k) : k \in 1..n}
        memory == UNION {Memory(data[i]) : i \in read}
    IN  /\ data' = [i \in Slots |->
                      IF i \in read THEN Empty ELSE data[i]]
        /\ tail' = (tail + n) % QueueSize
        /\ heap' = heap \ memory
        /\ freedTwice' = (freedTwice \/ ~ memory \subseteq heap)
        /\ reported' = reported + Counted(data, read)
        /\ lastRead' = IF n = 0 THEN lastRead ELSE data[SlotAt(n)].id
        /\ UNCHANGED <<head, logged, fresh, event, signalled, gotLog, unloaded>>

\* The application opens the control device: filter_init_2, which may find no
\* memory for the event, and whose result nobody looks at.
FilterInit2 ==
    /\ ~ unloaded
    /\ event' \in BOOLEAN
    /\ signalled' = FALSE
    /\ fresh' = FALSE
    /\ UNCHANGED <<ring, reader, gotLog, unloaded>>

\* It closes the device: filter_free_2.
FilterFree2 ==
    /\ event' = FALSE /\ signalled' = FALSE
    /\ fresh' = FALSE
    /\ UNCHANGED <<ring, reader, gotLog, unloaded>>

\* g_got_log is set after filter_init_2, and reset after filter_free_2.
SetGotLog(b) ==
    /\ gotLog' = b
    /\ UNCHANGED <<ring, reader, fresh, event, signalled, unloaded>>

\* filter_free: what the pointers of every slot point to, queued or not.
FilterFree ==
    LET memory == UNION {Memory(data[i]) : i \in Slots}
    IN  /\ ~ unloaded
        /\ unloaded' = TRUE
        /\ heap' = heap \ memory
        /\ freedTwice' = (freedTwice \/ ~ memory \subseteq heap)
        /\ UNCHANGED <<data, head, tail, logged, reader, fresh, event, signalled, gotLog>>

-----------------------------------------------------------------------------
\* The application learns how many requests there have been: each is in the
\* queue, read, or counted in log_skipped of one that is.  A request that
\* takes the place of a lost one takes over its count.
LossesAreCounted == logged = reported + Counted(data, Queued)

\* Requests are read in the order they were logged in, none of them twice.
QueueIsInOrder ==
    \A k \in 1..Length :
        /\ data[SlotAt(k)].id > lastRead
        /\ \A j \in 1..(k - 1) : data[SlotAt(j)].id < data[SlotAt(k)].id

\* Every logged request is read once and in its turn, or counted as lost.
RequestsAreAccounted == LossesAreCounted /\ QueueIsInOrder

\* The names and SIDs that are allocated are those of the queued requests:
\* neither reading, nor losing, nor unloading leaves one behind, and no queued
\* request points to memory that has been freed.
MemoryIsOwned ==
    heap = IF unloaded THEN {} ELSE UNION {Memory(data[i]) : i \in Queued}

\* What is logged is read or counted as lost, and what it points to is freed
\* with it, when the ring wraps, overflows, is read empty or is unloaded.
RingIsExact == RequestsAreAccounted /\ MemoryIsOwned

\* No name or SID is freed twice.
FreedOnce == ~ freedTwice
=============================================================================
