------------------------------ MODULE TdiConn ------------------------------
(***************************************************************************)
(* The TCP connection table of the TDI firewall (tdi_fw/conn_state.c, with *)
(* its callers in disp_conn.c, ev_conn.c and obj_tbl.c): each connection   *)
(* object that is connected has a conn_entry, which check_packet of        *)
(* packet.c looks up by addresses and ports.  A closed entry stays there   *)
(* for MAX_CLOSED_TIME, until conn_thread frees it.                        *)
(*                                                                         *)
(* Actors: the client of each connection object, TCP, which completes its  *)
(* requests and raises its events, the work item that asks for a local     *)
(* address, conn_thread, time, and the unloading of the driver.  A step is *)
(* a critical section of g_ot_hash_guard or g_conn_guard.                  *)
(***************************************************************************)
EXTENDS Integers, Sequences, FiniteSetsExt

CONSTANTS
    Conns,          \* connection objects, by the address of their FILE_OBJECT
    Entries,        \* the memory of conn_entry structures
    Ports,          \* a local port with the remote address and port
    MaxClosedTime,  \* MAX_CLOSED_TIME, in ticks of the model
    MaxAge,         \* where the model stops counting the age of an entry
    Reuse,          \* a connection object may be used again while it has an entry
    NoEntry, NoPort

ASSUME ConnAssumption ==
    /\ NoEntry \notin Entries /\ NoPort \notin Ports
    /\ MaxClosedTime \in Nat \ {0} /\ MaxAge \in Nat
    /\ Reuse \in BOOLEAN

VARIABLES
    object,     \* life of the file object: none, open (in g_ot_hash), cleaned
    connEntry,  \* ot_entry.conn_entry
    state,      \* of each conn_entry structure: state, FREE when it is not allocated,
    address,    \*   local address, and the port and peer,
    age,        \*   ticks, as the time since it was closed
    hash,       \* g_conn, newest first
    toDel,      \* how often an entry has been put on g_conn_to_del
    newToDel,   \* g_conn_new_to_del
    handle,     \* g_conn_thread # NULL
    thread,     \* conn_thread: wait, check, exit
    timeout,    \* what is left of its timeout
    request,    \* the TDI_CONNECT or accept request of a connection object
    disconnect, \* its TDI_DISCONNECT request
    newState,   \* the state that request is to lead to
    event,      \* the state its TDI_EVENT_DISCONNECT handler is about to set
    workItem,   \* delayed_ucn is queued for it
    tcp,        \* TCP's own view: none, connecting, accepting, open
    port,       \* the port and peer TCP uses for it
    fins,       \* the sides that have closed: "local", "remote"
    unload      \* no, tables, thread, done

table == <<state, address, age, hash, toDel, newToDel>>
threadVars == <<handle, thread, timeout>>
disconnecting == <<disconnect, newState>>
requests == <<request, disconnecting, event, workItem>>
tcpVars == <<tcp, port, fins>>
vars == <<object, connEntry, table, threadVars, requests, tcpVars, unload>>

Established == {"ESTABLISHED_IN", "ESTABLISHED_OUT"}
TcpStates == Established \cup
    {"NONE", "SYN_SENT", "SYN_RCVD", "FIN_WAIT1", "FIN_WAIT2", "TIME_WAIT",
     "CLOSE_WAIT", "LAST_ACK", "CLOSED"}

NoTimeout == -1
NoAddress == [laddr |-> "any", port |-> NoPort]

Init ==
    /\ object = [c \in Conns |-> "none"]
    /\ connEntry = [c \in Conns |-> NoEntry]
    /\ state = [e \in Entries |-> "FREE"]
    /\ address = [e \in Entries |-> NoAddress]
    /\ age = [e \in Entries |-> 0]
    /\ hash = <<>>
    /\ toDel = [e \in Entries |-> 0]
    /\ newToDel = FALSE
    /\ handle = TRUE /\ thread = "wait" /\ timeout = NoTimeout
    /\ request = [c \in Conns |-> "none"]
    /\ disconnect = [c \in Conns |-> "none"]
    /\ newState = [c \in Conns |-> "NONE"]
    /\ event = [c \in Conns |-> "none"]
    /\ workItem = [c \in Conns |-> FALSE]
    /\ tcp = [c \in Conns |-> "none"]
    /\ port = [c \in Conns |-> NoPort]
    /\ fins = [c \in Conns |-> {}]
    /\ unload = "no"

-----------------------------------------------------------------------------
(* The table                                                               *)

HasEntry(c) == object[c] = "open" /\ connEntry[c] # NoEntry

\* get_tcp_conn_state_by_obj.
StateOf(c) == IF HasEntry(c) THEN state[connEntry[c]] ELSE "NONE"

At(e, laddr) == [address EXCEPT ![e] = [laddr |-> laddr, port |-> address[e].port]]

\* The chain s without the entries in gone, from the first one on.
Without(s, gone) ==
    LET kept[n \in 0..Len(s)] ==
          IF n = 0 THEN <<>>
          ELSE IF s[n] \in gone THEN kept[n - 1] ELSE Append(kept[n - 1], s[n])
    IN  kept[Len(s)]

\* add_tcp_conn.  The local address is that of the address object, which is
\* 0 unless the client has bound it to one.
AddTcpConn(c, e, p, s) ==
    /\ state[e] = "FREE"
    /\ state' = [state EXCEPT ![e] = s]
    /\ address' = [address EXCEPT ![e] = [laddr |-> "any", port |-> p]]
    /\ age' = [age EXCEPT ![e] = 0]
    /\ hash' = <<e>> \o hash
    /\ connEntry' = [connEntry EXCEPT ![c] = e]
    /\ UNCHANGED <<toDel, newToDel>>

\* (A mutant) conn_thread is not told of the entry.
DelTcpConnObjUnsignalled(e, n) ==
    /\ state' = [state EXCEPT ![e] = "CLOSED"]
    /\ age' = [age EXCEPT ![e] = 0]
    /\ toDel' = [toDel EXCEPT ![e] = @ + n]
    /\ UNCHANGED <<address, hash, newToDel>>

\* del_tcp_conn_obj, done n times.
DelTcpConnObj(e, n) ==
    /\ state' = [state EXCEPT ![e] = "CLOSED"]
    /\ age' = [age EXCEPT ![e] = 0]
    /\ toDel' = [toDel EXCEPT ![e] = @ + n]
    /\ newToDel' = TRUE
    /\ UNCHANGED <<address, hash>>

\* (A mutant) the object keeps its pointer to the entry.
DelTcpConnKeepsEntry(c) ==
    \/ /\ HasEntry(c)
       /\ UNCHANGED connEntry
       /\ DelTcpConnObj(connEntry[c], 1)
    \/ /\ ~ HasEntry(c)
       /\ UNCHANGED <<connEntry, table>>

\* del_tcp_conn, and what ot_del_fileobj and ot_free do with a conn_entry.
DelTcpConn(c) ==
    \/ /\ HasEntry(c)
       /\ connEntry' = [connEntry EXCEPT ![c] = NoEntry]
       /\ DelTcpConnObj(connEntry[c], 1)
    \/ /\ ~ HasEntry(c)
       /\ UNCHANGED <<connEntry, table>>

\* set_tcp_conn_state.
SetTcpConnState(c, s) ==
    /\ state' = IF HasEntry(c) THEN [state EXCEPT ![connEntry[c]] = s] ELSE state
    /\ UNCHANGED <<connEntry, address, age, hash, toDel, newToDel>>

\* (A mutant) the entry moves to the tail of its chain.
SetTcpConnLocalAtTail(c, laddr) ==
    /\ IF HasEntry(c)
       THEN /\ address' = At(connEntry[c], laddr)
            /\ hash' = Without(hash, {connEntry[c]}) \o <<connEntry[c]>>
       ELSE UNCHANGED <<address, hash>>
    /\ UNCHANGED <<connEntry, state, age, toDel, newToDel>>

\* set_tcp_conn_local: the entry moves to the head of its chain.
SetTcpConnLocal(c, laddr) ==
    /\ IF HasEntry(c)
       THEN /\ address' = At(connEntry[c], laddr)
            /\ hash' = <<connEntry[c]>> \o Without(hash, {connEntry[c]})
       ELSE UNCHANGED <<address, hash>>
    /\ UNCHANGED <<connEntry, state, age, toDel, newToDel>>

\* get_tcp_conn_state: the first entry with these addresses and ports.
GetTcpConnState(laddr, p) ==
    LET found == {k \in DOMAIN hash : address[hash[k]] = [laddr |-> laddr, port |-> p]}
    IN  IF found = {} THEN "NONE" ELSE state[hash[Min(found)]]

\* check_packet: an entry with the packet's address, else one with address 0.
CheckPacket(p) ==
    IF GetTcpConnState("known", p) # "NONE" THEN GetTcpConnState("known", p)
    ELSE GetTcpConnState("any", p)

-----------------------------------------------------------------------------
(* Connecting                                                              *)

\* tdi_create, with TDI_ASSOCIATE_ADDRESS.
Create(c) ==
    /\ unload = "no"
    /\ object[c] = "none"
    /\ object' = [object EXCEPT ![c] = "open"]
    /\ UNCHANGED <<connEntry, table, threadVars, requests, tcpVars, unload>>

\* The client has no request on the object, and TCP no connection.
Idle(c) ==
    /\ object[c] = "open" /\ tcp[c] = "none"
    /\ request[c] = "none" /\ disconnect[c] = "none" /\ event[c] = "none"

PortIsFree(p) == \A d \in Conns : tcp[d] # "none" => port[d] # p

TcpStarts(c, p, how) ==
    /\ tcp' = [tcp EXCEPT ![c] = how]
    /\ port' = [port EXCEPT ![c] = p]
    /\ fins' = [fins EXCEPT ![c] = {}]

TcpStops(c) ==
    /\ tcp' = [tcp EXCEPT ![c] = "none"]
    /\ port' = [port EXCEPT ![c] = NoPort]
    /\ fins' = [fins EXCEPT ![c] = {}]

\* tdi_connect.  It refuses the request, and leaves everything as it is,
\* when the rules say so, memory is short or there is an entry already.
Connect(c, p) ==
    /\ Idle(c) /\ PortIsFree(p)
    /\ connEntry[c] = NoEntry
    /\ \E e \in Entries : AddTcpConn(c, e, p, "SYN_SENT")
    /\ TcpStarts(c, p, "connecting")
    /\ request' = [request EXCEPT ![c] = "connect"]
    /\ UNCHANGED <<object, threadVars, disconnecting, event, workItem, unload>>

\* tdi_event_connect, from where the client's handler has accepted.  An
\* entry that the object still has is deleted but stays in the object, so
\* that add_tcp_conn fails and the error path deletes it again; that path,
\* taken without memory too, completes the accept request with an error.
EventConnect(c, p) ==
    /\ Idle(c) /\ PortIsFree(p)
    /\ Reuse \/ connEntry[c] = NoEntry
    /\ \/ /\ connEntry[c] = NoEntry
          /\ \E e \in Entries : AddTcpConn(c, e, p, "SYN_RCVD")
          /\ TcpStarts(c, p, "accepting")
          /\ request' = [request EXCEPT ![c] = "accept"]
       \/ /\ connEntry[c] = NoEntry
          /\ request' = [request EXCEPT ![c] = "aborted"]
          /\ UNCHANGED <<connEntry, table, tcpVars>>
       \/ /\ connEntry[c] # NoEntry
          /\ DelTcpConnObj(connEntry[c], 2)
          /\ connEntry' = [connEntry EXCEPT ![c] = NoEntry]
          /\ request' = [request EXCEPT ![c] = "aborted"]
          /\ UNCHANGED tcpVars
    /\ UNCHANGED <<object, threadVars, disconnecting, event, workItem, unload>>

\* TCP: the connection is made, or is not; the completion comes after.
TcpConnects(c) ==
    /\ request[c] \in {"connect", "accept"}
    /\ \/ /\ request' = [request EXCEPT ![c] = IF @ = "connect" THEN "connected" ELSE "accepted"]
          /\ tcp' = [tcp EXCEPT ![c] = "open"]
          /\ UNCHANGED <<port, fins>>
       \/ /\ request' = [request EXCEPT ![c] = IF @ = "connect" THEN "refused" ELSE "aborted"]
          /\ TcpStops(c)
    /\ UNCHANGED <<object, connEntry, table, threadVars, disconnecting, event, workItem, unload>>

\* (A mutant) an accepted connection stays in SYN_RCVD.
ConnectCompleteUnlessAccepted(c) ==
    /\ \/ /\ request[c] = "connected"
          /\ SetTcpConnState(c, "ESTABLISHED_OUT")
          /\ workItem' = [workItem EXCEPT ![c] = @ \/ HasEntry(c)]
       \/ /\ request[c] = "accepted"
          /\ workItem' = [workItem EXCEPT ![c] = TRUE]
          /\ UNCHANGED <<connEntry, table>>
       \/ /\ request[c] \in {"refused", "aborted"}
          /\ DelTcpConn(c)
          /\ UNCHANGED workItem
    /\ request' = [request EXCEPT ![c] = "none"]
    /\ UNCHANGED <<object, threadVars, disconnecting, event, tcpVars, unload>>

\* tdi_connect_complete and tdi_evconn_accept_complete.  The local address
\* is asked for by a work item; two of the same object are one here.
ConnectComplete(c) ==
    /\ \/ /\ request[c] = "connected"
          /\ SetTcpConnState(c, "ESTABLISHED_OUT")
          /\ workItem' = [workItem EXCEPT ![c] = @ \/ HasEntry(c)]
       \/ /\ request[c] = "accepted"
          /\ SetTcpConnState(c, "ESTABLISHED_IN")
          /\ workItem' = [workItem EXCEPT ![c] = TRUE]
       \/ /\ request[c] \in {"refused", "aborted"}
          /\ DelTcpConn(c)
          /\ UNCHANGED workItem
    /\ request' = [request EXCEPT ![c] = "none"]
    /\ UNCHANGED <<object, threadVars, disconnecting, event, tcpVars, unload>>

\* delayed_ucn: TCP tells the address of an open connection;
\* update_conn_info_complete does not look whether it did.
UpdateConnInfo(c) ==
    /\ workItem[c]
    /\ workItem' = [workItem EXCEPT ![c] = FALSE]
    /\ SetTcpConnLocal(c, IF tcp[c] = "open" THEN "known" ELSE "zero")
    /\ UNCHANGED <<object, threadVars, request, disconnecting, event, tcpVars, unload>>

-----------------------------------------------------------------------------
(* Disconnecting                                                           *)

\* What a new_state that is not initialized may be: one value for each way
\* tdi_disconnect_complete can go on.
Uninitialized == {"FIN_WAIT1", "LAST_ACK", "TIME_WAIT"}

\* tdi_disconnect with TDI_DISCONNECT_RELEASE: the state is read ...
DisconnectRead(c) ==
    /\ object[c] = "open" /\ tcp[c] = "open" /\ request[c] = "none"
    /\ disconnect[c] = "none" /\ "local" \notin fins[c]
    /\ \E s \in Uninitialized :
         /\ StateOf(c) \in Established => s = "FIN_WAIT1"
         /\ StateOf(c) = "CLOSE_WAIT" => s = "LAST_ACK"
         /\ newState' = [newState EXCEPT ![c] = s]
    /\ disconnect' = [disconnect EXCEPT ![c] = "set"]
    /\ UNCHANGED <<object, connEntry, table, threadVars, request, event, workItem, tcpVars, unload>>

\* ... and set, in another state new_state is not initialized.
DisconnectSet(c) ==
    /\ disconnect[c] = "set"
    /\ SetTcpConnState(c, newState[c])
    /\ disconnect' = [disconnect EXCEPT ![c] = "release"]
    /\ fins' = IF tcp[c] = "open" THEN [fins EXCEPT ![c] = @ \cup {"local"}] ELSE fins
    /\ UNCHANGED <<object, threadVars, request, newState, event, workItem, tcp, port, unload>>

\* tdi_disconnect without it.
DisconnectAbort(c) ==
    /\ object[c] = "open" /\ tcp[c] # "none"
    /\ disconnect[c] = "none"
    /\ SetTcpConnState(c, "CLOSED")
    /\ disconnect' = [disconnect EXCEPT ![c] = "abort"]
    /\ newState' = [newState EXCEPT ![c] = "CLOSED"]
    /\ UNCHANGED <<object, threadVars, request, event, workItem, tcpVars, unload>>

Failed(r) ==
    CASE r = "connect" -> "refused" [] r = "accept" -> "aborted" [] OTHER -> r

\* TCP: the disconnect is done; aborting fails what TCP was about to do.
TcpDisconnects(c) ==
    /\ disconnect[c] \in {"release", "abort"}
    /\ disconnect' = [disconnect EXCEPT ![c] = IF tcp[c] = "none" THEN "failed" ELSE "done"]
    /\ IF disconnect[c] = "abort"
       THEN /\ TcpStops(c)
            /\ request' = [request EXCEPT ![c] = Failed(@)]
       ELSE UNCHANGED <<tcpVars, request>>
    /\ UNCHANGED <<object, connEntry, table, threadVars, newState, event, workItem, unload>>

\* tdi_disconnect_complete.
DisconnectComplete(c) ==
    /\ \/ /\ disconnect[c] = "done" /\ newState[c] = "FIN_WAIT1"
          /\ SetTcpConnState(c, "FIN_WAIT2")
       \/ /\ disconnect[c] = "done" /\ newState[c] \in {"LAST_ACK", "CLOSED"}
          /\ DelTcpConn(c)
       \/ /\ \/ disconnect[c] = "failed"
             \/ /\ disconnect[c] = "done"
                /\ newState[c] \notin {"FIN_WAIT1", "LAST_ACK", "CLOSED"}
          /\ UNCHANGED <<connEntry, table>>
    /\ disconnect' = [disconnect EXCEPT ![c] = "none"]
    /\ newState' = [newState EXCEPT ![c] = "NONE"]
    /\ UNCHANGED <<object, threadVars, request, event, workItem, tcpVars, unload>>

\* tdi_event_disconnect with TDI_DISCONNECT_RELEASE: the state is read ...
EventDisconnectRead(c) ==
    /\ tcp[c] = "open" /\ "remote" \notin fins[c] /\ event[c] = "none"
    /\ fins' = [fins EXCEPT ![c] = @ \cup {"remote"}]
    /\ event' = [event EXCEPT ![c] =
         IF StateOf(c) \in Established THEN "CLOSE_WAIT"
         ELSE IF StateOf(c) = "FIN_WAIT2" THEN "TIME_WAIT" ELSE "none"]
    /\ UNCHANGED <<object, connEntry, table, threadVars, request, disconnecting, workItem,
                   tcp, port, unload>>

\* ... and set.
EventDisconnectSet(c) ==
    /\ event[c] # "none"
    /\ SetTcpConnState(c, event[c])
    /\ event' = [event EXCEPT ![c] = "none"]
    /\ UNCHANGED <<object, threadVars, request, disconnecting, workItem, tcpVars, unload>>

\* tdi_event_disconnect without it: the peer has reset the connection.
EventDisconnectAbort(c) ==
    /\ tcp[c] = "open" /\ event[c] = "none"
    /\ TcpStops(c)
    /\ DelTcpConn(c)
    /\ UNCHANGED <<object, threadVars, requests, unload>>

\* TCP: both sides have closed.
TcpCloses(c) ==
    /\ tcp[c] = "open" /\ fins[c] = {"local", "remote"}
    /\ event[c] = "none" /\ disconnect[c] = "none"
    /\ TcpStops(c)
    /\ UNCHANGED <<object, connEntry, table, threadVars, requests, unload>>

\* tdi_cleanup: ot_del_fileobj.
Cleanup(c) ==
    /\ object[c] = "open" /\ disconnect[c] # "set"
    /\ DelTcpConn(c)
    /\ object' = [object EXCEPT ![c] = "cleaned"]
    /\ UNCHANGED <<threadVars, requests, tcpVars, unload>>

\* TCP: the requests of the object end.
TcpCleanup(c) ==
    /\ object[c] = "cleaned" /\ tcp[c] # "none"
    /\ TcpStops(c)
    /\ request' = [request EXCEPT ![c] = Failed(@)]
    /\ UNCHANGED <<object, connEntry, table, threadVars, disconnecting, event, workItem, unload>>

\* IRP_MJ_CLOSE, which no request of the object outlives.
Close(c) ==
    /\ object[c] = "cleaned" /\ tcp[c] = "none"
    /\ request[c] = "none" /\ disconnect[c] = "none" /\ event[c] = "none"
    /\ object' = [object EXCEPT ![c] = "none"]
    /\ UNCHANGED <<connEntry, table, threadVars, requests, tcpVars, unload>>

-----------------------------------------------------------------------------
(* conn_thread and the end                                                 *)

Closed == {e \in Entries : toDel[e] > 0}
Expired == {e \in Closed : age[e] >= MaxClosedTime \/ ~ handle}

\* The timeout is the one of the entry that has longest to live.
NextTimeout ==
    IF Closed = Expired THEN NoTimeout
    ELSE CHOOSE t \in 0..MaxClosedTime :
           /\ \E e \in Closed \ Expired : t = MaxClosedTime - age[e]
           /\ \A e \in Closed \ Expired : MaxClosedTime - age[e] <= t

\* The entries that have been closed for long enough are freed.
ConnThreadSweep ==
    /\ thread = "wait"
    /\ newToDel \/ timeout = 0
    /\ newToDel' = FALSE
    /\ state' = [e \in Entries |-> IF e \in Expired THEN "FREE" ELSE state[e]]
    /\ address' = [e \in Entries |-> IF e \in Expired THEN NoAddress ELSE address[e]]
    /\ age' = [e \in Entries |-> IF e \in Expired THEN 0 ELSE age[e]]
    /\ hash' = Without(hash, Expired)
    /\ toDel' = [e \in Entries |-> IF e \in Expired THEN 0 ELSE toDel[e]]
    /\ timeout' = NextTimeout
    /\ thread' = "check"
    /\ UNCHANGED <<object, connEntry, handle, requests, tcpVars, unload>>

\* while(g_conn_thread != NULL), without the lock.
ConnThreadCheck ==
    /\ thread = "check"
    /\ thread' = IF handle THEN "wait" ELSE "exit"
    /\ UNCHANGED <<object, connEntry, table, handle, timeout, requests, tcpVars, unload>>

ConnThread == ConnThreadSweep \/ ConnThreadCheck

\* Time passes while conn_thread has nothing to do.
Tick ==
    /\ thread = "wait" /\ ~ newToDel /\ timeout # 0
    /\ Closed # {}
    /\ \A e \in Closed : age[e] < MaxAge
    /\ age' = [e \in Entries |-> IF e \in Closed THEN age[e] + 1 ELSE age[e]]
    /\ timeout' = IF timeout = NoTimeout THEN NoTimeout ELSE timeout - 1
    /\ UNCHANGED <<object, connEntry, state, address, hash, toDel, newToDel, handle, thread,
                   requests, tcpVars, unload>>

\* OnUnload, when no request is left: ot_free ...
OtFree(c) ==
    /\ \A d \in Conns : tcp[d] = "none" /\ request[d] = "none" /\ event[d] = "none"
                        /\ disconnect[d] = "none" /\ ~ workItem[d]
    /\ unload \in {"no", "tables"} /\ object[c] # "none"
    /\ unload' = "tables"
    /\ DelTcpConn(c)
    /\ object' = [object EXCEPT ![c] = "none"]
    /\ UNCHANGED <<threadVars, requests, tcpVars>>

\* ... and conn_state_free, which waits for the thread and frees the table.
ConnStateFree ==
    \/ /\ unload = "tables"
       /\ \A c \in Conns : object[c] = "none"
       /\ unload' = "thread"
       /\ handle' = FALSE /\ newToDel' = TRUE
       /\ UNCHANGED <<object, connEntry, state, address, age, hash, toDel, thread, timeout,
                      requests, tcpVars>>
    \/ /\ unload = "thread" /\ thread = "exit"
       /\ unload' = "done"
       /\ hash' = <<>>
       /\ UNCHANGED <<object, connEntry, state, address, age, toDel, newToDel, threadVars,
                      requests, tcpVars>>

-----------------------------------------------------------------------------
Client(c) ==
    \/ Create(c) \/ (\E p \in Ports : Connect(c, p))
    \/ DisconnectRead(c) \/ DisconnectSet(c) \/ DisconnectAbort(c)
    \/ Cleanup(c) \/ Close(c)

Tcp(c) ==
    \/ (\E p \in Ports : EventConnect(c, p))
    \/ TcpConnects(c) \/ ConnectComplete(c)
    \/ TcpDisconnects(c) \/ DisconnectComplete(c)
    \/ EventDisconnectRead(c) \/ EventDisconnectSet(c) \/ EventDisconnectAbort(c)
    \/ TcpCloses(c) \/ TcpCleanup(c)

Next ==
    \/ \E c \in Conns : Client(c) \/ Tcp(c) \/ UpdateConnInfo(c) \/ OtFree(c)
    \/ ConnThread \/ Tick \/ ConnStateFree

Spec == Init /\ [][Next]_vars
-----------------------------------------------------------------------------
(* Properties                                                              *)

TypeOK ==
    /\ object \in [Conns -> {"none", "open", "cleaned"}]
    /\ connEntry \in [Conns -> Entries \cup {NoEntry}]
    /\ state \in [Entries -> TcpStates \cup {"FREE"}]
    /\ address \in [Entries -> [laddr : {"any", "known", "zero"}, port : Ports \cup {NoPort}]]
    /\ age \in [Entries -> 0..MaxAge]
    /\ hash \in Seq(Entries)
    /\ toDel \in [Entries -> Nat]
    /\ {newToDel, handle} \subseteq BOOLEAN
    /\ thread \in {"wait", "check", "exit"}
    /\ timeout \in {NoTimeout} \cup 0..MaxClosedTime
    /\ request \in [Conns -> {"none", "connect", "connected", "refused",
                              "accept", "accepted", "aborted"}]
    /\ disconnect \in [Conns -> {"none", "set", "release", "abort", "done", "failed"}]
    /\ newState \in [Conns -> TcpStates]
    /\ event \in [Conns -> {"none", "CLOSE_WAIT", "TIME_WAIT"}]
    /\ workItem \in [Conns -> BOOLEAN]
    /\ tcp \in [Conns -> {"none", "connecting", "accepting", "open"}]
    /\ port \in [Conns -> Ports \cup {NoPort}]
    /\ fins \in [Conns -> SUBSET {"local", "remote"}]
    /\ unload \in {"no", "tables", "thread", "done"}

\* An entry in use belongs to one open connection object, or has been put
\* once on the list of those to delete: it is neither lost nor deleted twice,
\* which would make the list a cycle (conn_state.c:420), whoever gets to the
\* connection first of the client, TCP's completions and its events.
EntryHasOneOwner ==
    \A e \in Entries :
        /\ \A c \in Conns : connEntry[c] = e => HasEntry(c) /\ toDel[e] = 0
        /\ \A c, d \in Conns : connEntry[c] = e /\ connEntry[d] = e => c = d
        /\ toDel[e] <= 1
        /\ state[e] # "FREE" <=> toDel[e] = 1 \/ \E c \in Conns : connEntry[c] = e

\* The entries in use are in the hash table, each once, until it is freed.
HashHasEntries ==
    unload # "done" =>
        /\ {hash[k] : k \in DOMAIN hash} = {e \in Entries : state[e] # "FREE"}
        /\ \A j, k \in DOMAIN hash : hash[j] = hash[k] => j = k

\* While TCP has the connection and its local address is known, check_packet
\* finds its state and not that of an entry closed, or left, before.
PacketFindsConnection ==
    \A c \in Conns :
        tcp[c] # "none" /\ HasEntry(c) /\ address[connEntry[c]].laddr = "known"
            => CheckPacket(port[c]) = StateOf(c)

\* check_packet sees the table as it is: every entry once, and first the one
\* of the connection there is.
LookupFindsConnection == HashHasEntries /\ PacketFindsConnection

\* PacketFindsConnection before the local address is known.
PacketFindsNewConnection ==
    \A c \in Conns :
        tcp[c] # "none" /\ HasEntry(c) => CheckPacket(port[c]) = StateOf(c)

\* A connection that the client has been told of and that nobody has begun
\* to close is in the table as established.
OpenIsEstablished ==
    \A c \in Conns :
        object[c] = "open" /\ tcp[c] = "open" /\ request[c] = "none" /\ fins[c] = {}
            /\ disconnect[c] = "none"
            => StateOf(c) \in Established

\* The state that both sides' closing leads to, when no handler is at work.
BothClosed ==
    \A c \in Conns :
        HasEntry(c) /\ tcp[c] = "open" /\ fins[c] = {"local", "remote"}
            /\ event[c] = "none" /\ disconnect[c] = "none"
            => StateOf(c) = "TIME_WAIT"

\* conn_thread waits for the entry with longest to live, and each entry that
\* is closed wakes it: an entry is still freed before twice the time.
FreedInTwiceTheTime == \A e \in Closed : age[e] < 2 * MaxClosedTime

\* "find min timeout to next entry" (conn_state.c:671).
FreedInTime == \A e \in Closed : age[e] <= MaxClosedTime

\* "or all entries if (g_conn_thread == NULL)" (conn_state.c:669).
UnloadFreesAll == unload = "done" => \A e \in Entries : state[e] = "FREE"

\* The file object that update_conn_info sends a query to is there.
WorkItemHasObject == \A c \in Conns : workItem[c] => object[c] # "none"
=============================================================================
