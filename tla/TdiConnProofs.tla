--------------------------- MODULE TdiConnProofs ---------------------------
(***************************************************************************)
(* Proofs about the connection table of the TDI firewall for any number of *)
(* connection objects, entries and ports and any MAX_CLOSED_TIME.          *)
(***************************************************************************)
EXTENDS TdiConn, TLAPS, FiniteSetTheorems

\* What TypeOK says of all but the chain, which has an invariant of its own.
TableTypes ==
    /\ object \in [Conns -> {"none", "open", "cleaned"}]
    /\ connEntry \in [Conns -> Entries \cup {NoEntry}]
    /\ state \in [Entries -> TcpStates \cup {"FREE"}]
    /\ age \in [Entries -> Nat]
    /\ toDel \in [Entries -> Nat]
    /\ newToDel \in BOOLEAN /\ handle \in BOOLEAN
    /\ timeout \in {NoTimeout} \cup 0..MaxClosedTime

ConnTypes ==
    /\ request \in [Conns -> {"none", "connect", "connected", "refused",
                              "accept", "accepted", "aborted"}]
    /\ disconnect \in [Conns -> {"none", "set", "release", "abort", "done", "failed"}]
    /\ newState \in [Conns -> TcpStates]
    /\ event \in [Conns -> {"none", "CLOSE_WAIT", "TIME_WAIT"}]
    /\ tcp \in [Conns -> {"none", "connecting", "accepting", "open"}]
    /\ fins \in [Conns -> SUBSET {"local", "remote"}]

\* An entry that is closed is young enough, and conn_thread knows of it: it
\* has been told, or sleeps no longer than the entry has time.
Aging ==
    /\ \A e \in Closed : age[e] < 2 * MaxClosedTime
    /\ ~ newToDel => \A e \in Closed :
         timeout # NoTimeout /\ age[e] + timeout < 2 * MaxClosedTime

\* The table's part of the invariant.
Table == TableTypes /\ EntryHasOneOwner /\ Aging

\* The connection's part: where TCP and the requests of c are with each other,
\* and when its entry must be there.
Links(c) ==
    /\ object[c] = "none" => tcp[c] = "none"
    /\ request[c] \in {"connect", "accept"} => tcp[c] \in {"connecting", "accepting"}
    /\ request[c] \in {"refused", "aborted"} => tcp[c] = "none"
    /\ disconnect[c] = "set" => tcp[c] \in {"none", "open"}
    /\ disconnect[c] \in {"release", "done", "failed"} /\ tcp[c] # "none" => "local" \in fins[c]
    /\ event[c] # "none" /\ tcp[c] # "none" => "remote" \in fins[c]
    /\ object[c] = "open" /\ tcp[c] # "none" /\ "local" \notin fins[c] => connEntry[c] # NoEntry
    /\ object[c] = "open" /\ tcp[c] = "open" /\ request[c] = "none" /\ fins[c] = {}
         /\ disconnect[c] = "none" => state[connEntry[c]] \in Established

IInv == Table /\ ConnTypes /\ \A c \in Conns : Links(c)

\* EntryHasOneOwner, of one entry.
Owned(e) ==
    /\ \A c \in Conns : connEntry[c] = e => HasEntry(c) /\ toDel[e] = 0
    /\ \A c, d \in Conns : connEntry[c] = e /\ connEntry[d] = e => c = d
    /\ toDel[e] <= 1
    /\ state[e] # "FREE" <=> toDel[e] = 1 \/ \E c \in Conns : connEntry[c] = e

\* A step leaves the entry of c, and its state, alone.
Same(c) ==
    /\ connEntry'[c] = connEntry[c]
    /\ connEntry[c] # NoEntry => state'[connEntry[c]] = state[connEntry[c]]

\* A step leaves d alone.
Kept(d) ==
    /\ Same(d)
    /\ object'[d] = object[d] /\ request'[d] = request[d] /\ disconnect'[d] = disconnect[d]
    /\ event'[d] = event[d] /\ tcp'[d] = tcp[d] /\ fins'[d] = fins[d]

-----------------------------------------------------------------------------
(* The operations of the table                                             *)

\* A set of naturals that is bounded has a smallest member.
LEMMA SmallestOf ==
    ASSUME NEW n \in Nat, NEW T \in SUBSET (0..n), T # {}
    PROVE  \E x \in T : \A y \in T : x <= y
<1> DEFINE U == {0..k : k \in T}
           R == StrictSubsetOrdering(0..n)
<1>1. \A k \in T : 0..k \in FiniteSubsetsOf(0..n)
  <2> SUFFICES ASSUME NEW k \in T
               PROVE  0..k \in FiniteSubsetsOf(0..n)
    OBVIOUS
  <2>1. k \in Nat /\ k <= n
    OBVIOUS
  <2>2. IsFiniteSet(0..k)
    BY <2>1, FS_Interval
  <2> QED BY <2>1, <2>2 DEF FiniteSubsetsOf
<1>2. U \subseteq FiniteSubsetsOf(0..n) /\ U # {}
  BY <1>1
<1>3. PICK u \in U : \A v \in U : ~ (<<v, u>> \in R)
  BY <1>2, FS_StrictSubsetOrderingWellFounded, WFMin, Zenon
<1>4. PICK x \in T : u = 0..x
  OBVIOUS
<1>5. ASSUME NEW y \in T, y < x
      PROVE  FALSE
  <2>1. x \in Nat /\ y \in Nat /\ x <= n
    OBVIOUS
  <2>2. 0..y \subseteq 0..x /\ 0..y # 0..x
    BY <1>5, <2>1
  <2>3. <<0..y, 0..x>> \in R
    BY <2>1, <2>2 DEF StrictSubsetOrdering
  <2> QED BY <1>3, <1>4, <2>3
<1> QED BY <1>5

\* The entry with longest to live exists, and has no more than MAX_CLOSED_TIME.
LEMMA NextTimeoutFacts ==
    ASSUME TableTypes
    PROVE  /\ NextTimeout \in {NoTimeout} \cup 0..MaxClosedTime
           /\ Closed # Expired => NextTimeout \in 0..MaxClosedTime
<1> DEFINE T == {age[e] : e \in Closed \ Expired}
           Longest(t) == /\ \E e \in Closed \ Expired : t = MaxClosedTime - age[e]
                         /\ \A e \in Closed \ Expired : MaxClosedTime - age[e] <= t
<1>1. CASE Closed = Expired
  BY <1>1 DEF NextTimeout
<1>2. CASE Closed # Expired
  <2>1. \A e \in Closed \ Expired : age[e] \in Nat /\ age[e] < MaxClosedTime
    BY ConnAssumption DEF TableTypes, Expired, Closed
  <2>2. T \subseteq 0..MaxClosedTime /\ T # {}
    BY <1>2, <2>1, ConnAssumption DEF Expired
  <2>3. PICK x \in T : \A y \in T : x <= y
    BY <2>2, SmallestOf, ConnAssumption
  <2>4. PICK e \in Closed \ Expired : x = age[e]
    OBVIOUS
  <2>5. MaxClosedTime - x \in 0..MaxClosedTime
    BY <2>1, <2>4, ConnAssumption
  <2>6. ASSUME NEW f \in Closed \ Expired
        PROVE  MaxClosedTime - age[f] <= MaxClosedTime - x
    <3>1. age[f] \in T
      OBVIOUS
    <3>2. x <= age[f] /\ age[f] \in Nat /\ x \in Nat
      BY <2>1, <2>3, <2>4, <3>1
    <3> QED BY <3>2, ConnAssumption
  <2>7. Longest(MaxClosedTime - x)
    BY <2>4, <2>6
  <2>8. \E t \in 0..MaxClosedTime : Longest(t)
    BY <2>5, <2>7
  <2>9. NextTimeout = CHOOSE t \in 0..MaxClosedTime : Longest(t)
    BY <1>2 DEF NextTimeout
  <2> QED BY <2>8, <2>9
<1> QED BY <1>1, <1>2

\* add_tcp_conn keeps the table, and gives the connection an entry of its own.
LEMMA AddTcpConnStep ==
    ASSUME Table, NEW c \in Conns, NEW e \in Entries, NEW p, NEW s \in TcpStates,
           AddTcpConn(c, e, p, s), object[c] = "open", connEntry[c] = NoEntry,
           UNCHANGED <<object, handle, timeout>>
    PROVE  /\ Table'
           /\ connEntry'[c] = e /\ state'[e] = s
           /\ \A d \in Conns : d # c => Same(d)
<1> USE DEF Table, TableTypes
<1>1. /\ state[e] = "FREE" /\ s # "FREE"
      /\ toDel[e] = 0 /\ e # NoEntry
      /\ \A d \in Conns : connEntry[d] # e
  BY ConnAssumption DEF AddTcpConn, EntryHasOneOwner, TcpStates, Established
<1>2. /\ state' = [state EXCEPT ![e] = s] /\ age' = [age EXCEPT ![e] = 0]
      /\ connEntry' = [connEntry EXCEPT ![c] = e]
      /\ UNCHANGED <<object, toDel, newToDel, handle, timeout>>
  BY DEF AddTcpConn
<1>3. TableTypes'
  BY <1>2
<1>4. EntryHasOneOwner'
  BY <1>1, <1>2 DEF EntryHasOneOwner, HasEntry
<1>5. Aging'
  BY <1>1, <1>2 DEF Aging, Closed
<1>6. \A d \in Conns : d # c => Same(d)
  BY <1>1, <1>2 DEF Same
<1> QED BY <1>2, <1>3, <1>4, <1>5, <1>6

\* del_tcp_conn keeps the table, and takes the entry from the connection.
LEMMA DelTcpConnStep ==
    ASSUME Table, NEW c \in Conns, DelTcpConn(c), UNCHANGED <<handle, timeout>>,
           \/ UNCHANGED object
           \/ \E o \in {"none", "cleaned"} : object' = [object EXCEPT ![c] = o]
    PROVE  /\ Table'
           /\ connEntry'[c] = NoEntry
           /\ \A d \in Conns : d # c => Same(d)
<1> USE DEF Table, TableTypes
<1>1. CASE connEntry[c] = NoEntry
  <2>1. UNCHANGED <<connEntry, state, age, toDel, newToDel>>
    BY <1>1 DEF DelTcpConn, HasEntry, table
  <2>2. object' \in [Conns -> {"none", "open", "cleaned"}]
        /\ \A d \in Conns : d # c => object'[d] = object[d]
    OBVIOUS
  <2>3. TableTypes'
    BY <2>1, <2>2
  <2>4. EntryHasOneOwner'
    BY <1>1, <2>1, <2>2, ConnAssumption DEF EntryHasOneOwner, HasEntry
  <2>5. Aging'
    BY <2>1 DEF Aging, Closed
  <2> QED BY <1>1, <2>1, <2>3, <2>4, <2>5 DEF Same
<1>2. CASE connEntry[c] # NoEntry
  <2> DEFINE e == connEntry[c]
  <2>1. e \in Entries /\ HasEntry(c) /\ toDel[e] = 0
    BY <1>2 DEF EntryHasOneOwner
  <2>2. \A d \in Conns : d # c => connEntry[d] # e
    BY <2>1 DEF EntryHasOneOwner
  <2>3. /\ connEntry' = [connEntry EXCEPT ![c] = NoEntry]
        /\ state' = [state EXCEPT ![e] = "CLOSED"]
        /\ age' = [age EXCEPT ![e] = 0]
        /\ toDel' = [toDel EXCEPT ![e] = @ + 1]
        /\ newToDel' = TRUE
    BY <2>1 DEF DelTcpConn, DelTcpConnObj
  <2>9. connEntry[c] = e
    OBVIOUS
  <2> HIDE DEF e
  <2>4. object' \in [Conns -> {"none", "open", "cleaned"}]
        /\ \A d \in Conns : d # c => object'[d] = object[d]
    OBVIOUS
  <2>5. TableTypes'
    <3>1. connEntry' \in [Conns -> Entries \cup {NoEntry}]
      BY <2>3
    <3>2. state' \in [Entries -> TcpStates \cup {"FREE"}]
      BY <2>3 DEF TcpStates
    <3>3. age' \in [Entries -> Nat] /\ toDel' \in [Entries -> Nat]
      BY <2>1, <2>3
    <3> QED BY <2>3, <2>4, <3>1, <3>2, <3>3
  <2>6. EntryHasOneOwner'
    <3> SUFFICES ASSUME NEW f \in Entries
                 PROVE  Owned(f)'
      BY DEF EntryHasOneOwner, Owned
    <3>1. Owned(f) /\ connEntry'[c] = NoEntry /\ NoEntry # f
      BY <2>3, ConnAssumption DEF EntryHasOneOwner, Owned
    <3>2. \A d \in Conns : d # c => connEntry'[d] = connEntry[d]
      BY <2>3
    <3>3. CASE f = e
      <4>1. toDel'[f] = 1 /\ state'[f] = "CLOSED"
        BY <2>1, <2>3, <3>3
      <4>2. \A d \in Conns : connEntry'[d] # f
        BY <2>2, <3>1, <3>2, <3>3
      <4> QED BY <4>1, <4>2 DEF Owned
    <3>4. CASE f # e
      <4>1. toDel'[f] = toDel[f] /\ state'[f] = state[f]
        BY <2>1, <2>3, <3>4
      <4>2. \A d \in Conns : connEntry'[d] = f <=> d # c /\ connEntry[d] = f
        BY <3>1, <3>2
      <4>3. \A d \in Conns : connEntry[d] = f => d # c
        BY <3>4, <2>9
      <4>4. \A d \in Conns : connEntry[d] = f => object'[d] = "open"
        BY <2>4, <3>1, <4>3 DEF Owned, HasEntry
      <4> QED BY <3>1, <4>1, <4>2, <4>3, <4>4, ConnAssumption DEF Owned, HasEntry
    <3> QED BY <3>3, <3>4
  <2>7. Aging'
    BY <2>1, <2>3, ConnAssumption DEF Aging, Closed
  <2>8. \A d \in Conns : d # c => Same(d)
    BY <2>1, <2>2, <2>3 DEF Same
  <2> QED BY <2>3, <2>5, <2>6, <2>7, <2>8
<1> QED BY <1>1, <1>2

\* set_tcp_conn_state keeps the table, whatever the state.
LEMMA SetTcpConnStateStep ==
    ASSUME Table, NEW c \in Conns, NEW s \in TcpStates, SetTcpConnState(c, s),
           UNCHANGED <<object, handle, timeout>>
    PROVE  /\ Table'
           /\ UNCHANGED connEntry
           /\ connEntry[c] # NoEntry => state'[connEntry[c]] = s
           /\ \A d \in Conns : d # c => Same(d)
<1> USE DEF Table, TableTypes
<1>1. UNCHANGED <<object, connEntry, age, toDel, newToDel, handle, timeout>>
  BY DEF SetTcpConnState
<1>2. s # "FREE"
  BY DEF TcpStates, Established
<1>3. CASE connEntry[c] = NoEntry
  <2>1. UNCHANGED state
    BY <1>3 DEF SetTcpConnState, HasEntry
  <2>2. TableTypes' /\ Aging'
    BY <1>1, <2>1 DEF Aging, Closed
  <2>3. EntryHasOneOwner'
    BY <1>1, <2>1 DEF EntryHasOneOwner, HasEntry
  <2> QED BY <1>1, <1>3, <2>1, <2>2, <2>3 DEF Same
<1>4. CASE connEntry[c] # NoEntry
  <2>1. connEntry[c] \in Entries /\ HasEntry(c) /\ toDel[connEntry[c]] = 0
    BY <1>4 DEF EntryHasOneOwner
  <2>2. state' = [state EXCEPT ![connEntry[c]] = s]
    BY <2>1 DEF SetTcpConnState
  <2>3. TableTypes'
    BY <1>1, <2>1, <2>2
  <2>4. Aging'
    BY <1>1 DEF Aging, Closed
  <2>5. \A d \in Conns : d # c => connEntry[d] # connEntry[c]
    BY <2>1 DEF EntryHasOneOwner
  <2>6. EntryHasOneOwner'
    <3> SUFFICES ASSUME NEW f \in Entries
                 PROVE  Owned(f)'
      BY DEF EntryHasOneOwner, Owned
    <3>1. Owned(f)
      BY DEF EntryHasOneOwner, Owned
    <3>2. state'[f] # "FREE" <=> state[f] # "FREE"
      BY <1>2, <2>1, <2>2, <3>1 DEF Owned
    <3> QED BY <1>1, <3>1, <3>2 DEF Owned, HasEntry
  <2> QED BY <1>1, <2>1, <2>2, <2>3, <2>4, <2>5, <2>6 DEF Same
<1> QED BY <1>3, <1>4

\* A step that leaves the entries alone, and closes no object that has one.
LEMMA TableUnchanged ==
    ASSUME Table, UNCHANGED <<connEntry, state, age, toDel, newToDel, handle, timeout>>,
           object' \in [Conns -> {"none", "open", "cleaned"}],
           \A c \in Conns : connEntry[c] # NoEntry => object'[c] = "open"
    PROVE  /\ Table'
           /\ \A c \in Conns : Same(c)
<1>1. TableTypes'
  BY DEF Table, TableTypes
<1>2. EntryHasOneOwner'
  BY ConnAssumption DEF Table, EntryHasOneOwner, HasEntry
<1>3. Aging'
  BY DEF Table, Aging, Closed
<1> QED BY <1>1, <1>2, <1>3 DEF Table, Same

\* An object that has an entry is open.
LEMMA OwnerIsOpen ==
    ASSUME Table, NEW c \in Conns, connEntry[c] # NoEntry
    PROVE  object[c] = "open" /\ connEntry[c] \in Entries /\ toDel[connEntry[c]] = 0
BY DEF Table, TableTypes, EntryHasOneOwner, HasEntry

\* A sweep of conn_thread frees entries that belong to no connection.
LEMMA ConnThreadSweepStep ==
    ASSUME Table, ConnThreadSweep
    PROVE  /\ Table'
           /\ \A c \in Conns : Same(c)
<1> USE DEF Table, TableTypes
<1>1. /\ newToDel' = FALSE /\ timeout' = NextTimeout
      /\ state' = [e \in Entries |-> IF e \in Expired THEN "FREE" ELSE state[e]]
      /\ age' = [e \in Entries |-> IF e \in Expired THEN 0 ELSE age[e]]
      /\ toDel' = [e \in Entries |-> IF e \in Expired THEN 0 ELSE toDel[e]]
      /\ UNCHANGED <<object, connEntry, handle>>
  BY DEF ConnThreadSweep
<1>2. \A e \in Entries : e \in Expired => e \in Closed
  BY DEF Expired
<1>3. \A e \in Entries : e \in Closed => toDel[e] = 1 /\ \A c \in Conns : connEntry[c] # e
  <2> SUFFICES ASSUME NEW e \in Entries, e \in Closed
               PROVE  toDel[e] = 1 /\ \A c \in Conns : connEntry[c] # e
    OBVIOUS
  <2>1. toDel[e] \in Nat /\ toDel[e] > 0 /\ Owned(e)
    BY DEF Closed, EntryHasOneOwner, Owned
  <2> QED BY <2>1 DEF Owned
<1>4. TableTypes'
  <2>1. NextTimeout \in {NoTimeout} \cup 0..MaxClosedTime
    BY NextTimeoutFacts
  <2>2. state' \in [Entries -> TcpStates \cup {"FREE"}]
    BY <1>1
  <2>3. age' \in [Entries -> Nat] /\ toDel' \in [Entries -> Nat]
    BY <1>1
  <2> QED BY <1>1, <2>1, <2>2, <2>3
<1>5. EntryHasOneOwner'
  <2> SUFFICES ASSUME NEW f \in Entries
               PROVE  Owned(f)'
    BY DEF EntryHasOneOwner, Owned
  <2>1. Owned(f)
    BY DEF EntryHasOneOwner, Owned
  <2>2. CASE f \in Expired
    <3>1. toDel'[f] = 0 /\ state'[f] = "FREE" /\ \A c \in Conns : connEntry'[c] # f
      BY <1>1, <1>2, <1>3, <2>2
    <3> QED BY <3>1 DEF Owned
  <2>3. CASE f \notin Expired
    <3>1. toDel'[f] = toDel[f] /\ state'[f] = state[f]
      BY <1>1, <2>3
    <3> QED BY <1>1, <2>1, <3>1 DEF Owned, HasEntry
  <2> QED BY <2>2, <2>3
<1>6. Aging'
  <2> SUFFICES ASSUME NEW e \in Entries, toDel'[e] > 0
               PROVE  /\ timeout' # NoTimeout
                      /\ age'[e] < 2 * MaxClosedTime
                      /\ age'[e] + timeout' < 2 * MaxClosedTime
    BY DEF Aging, Closed
  <2>1. e \notin Expired /\ toDel[e] > 0 /\ age'[e] = age[e]
    BY <1>1
  <2>2. e \in Closed /\ age[e] \in Nat /\ age[e] < MaxClosedTime
    BY <2>1, ConnAssumption DEF Closed, Expired
  <2>3. timeout' \in 0..MaxClosedTime
    BY <1>1, <2>1, <2>2, NextTimeoutFacts
  <2> QED BY <2>1, <2>2, <2>3, ConnAssumption DEF NoTimeout
<1>7. \A c \in Conns : Same(c)
  <2> SUFFICES ASSUME NEW c \in Conns, connEntry[c] # NoEntry
               PROVE  state'[connEntry[c]] = state[connEntry[c]]
    BY <1>1 DEF Same
  <2>1. connEntry[c] \in Entries /\ connEntry[c] \notin Expired
    BY <1>2, <1>3
  <2> QED BY <1>1, <2>1
<1> QED BY <1>4, <1>5, <1>6, <1>7

\* The passing of time makes no entry older than the timeout allows.
LEMMA TickStep ==
    ASSUME Table, Tick
    PROVE  /\ Table'
           /\ \A c \in Conns : Same(c)
<1> USE DEF Table, TableTypes
<1>1. /\ ~ newToDel /\ timeout # 0
      /\ age' = [e \in Entries |-> IF e \in Closed THEN age[e] + 1 ELSE age[e]]
      /\ timeout' = IF timeout = NoTimeout THEN NoTimeout ELSE timeout - 1
      /\ UNCHANGED <<object, connEntry, state, toDel, newToDel, handle>>
  BY DEF Tick
<1>2. TableTypes'
  <2>1. age' \in [Entries -> Nat]
    BY <1>1
  <2>2. timeout' \in {NoTimeout} \cup 0..MaxClosedTime
    BY <1>1, ConnAssumption
  <2> QED BY <1>1, <2>1, <2>2
<1>3. EntryHasOneOwner'
  BY <1>1 DEF EntryHasOneOwner, HasEntry
<1>4. Aging'
  <2> SUFFICES ASSUME NEW e \in Entries, toDel'[e] > 0
               PROVE  /\ timeout' # NoTimeout
                      /\ age'[e] < 2 * MaxClosedTime
                      /\ age'[e] + timeout' < 2 * MaxClosedTime
    BY DEF Aging, Closed
  <2>1. e \in Closed /\ age'[e] = age[e] + 1
    BY <1>1 DEF Closed
  <2>2. timeout \in 1..MaxClosedTime /\ age[e] \in Nat /\ age[e] + timeout < 2 * MaxClosedTime
    BY <1>1, <2>1, ConnAssumption DEF Aging
  <2>3. timeout' = timeout - 1
    BY <1>1, <2>2 DEF NoTimeout
  <2> QED BY <2>1, <2>2, <2>3, ConnAssumption DEF NoTimeout
<1>5. \A c \in Conns : Same(c)
  BY <1>1 DEF Same
<1> QED BY <1>2, <1>3, <1>4, <1>5

\* conn_state_free leaves a table that is consistent.
LEMMA ConnStateFreeStep ==
    ASSUME Table, ConnStateFree
    PROVE  /\ Table'
           /\ \A c \in Conns : Same(c)
<1>1. CASE newToDel' = TRUE /\ handle' = FALSE
           /\ UNCHANGED <<object, connEntry, state, age, toDel, timeout>>
  <2>1. TableTypes'
    BY <1>1 DEF Table, TableTypes
  <2>2. EntryHasOneOwner'
    BY <1>1 DEF Table, EntryHasOneOwner, HasEntry
  <2>3. Aging'
    BY <1>1 DEF Table, Aging, Closed
  <2> QED BY <1>1, <2>1, <2>2, <2>3 DEF Table, Same
<1>2. CASE UNCHANGED <<object, connEntry, state, age, toDel, newToDel, handle, timeout>>
  <2>1. object' \in [Conns -> {"none", "open", "cleaned"}]
        /\ \A c \in Conns : connEntry[c] # NoEntry => object'[c] = "open"
    BY <1>2, OwnerIsOpen DEF Table, TableTypes
  <2> QED BY <1>2, <2>1, TableUnchanged
<1> QED BY <1>1, <1>2 DEF ConnStateFree, threadVars

-----------------------------------------------------------------------------
(* The steps                                                               *)

\* What a step leaves alone stays linked.
LEMMA KeptLinks ==
    ASSUME NEW d \in Conns, Kept(d), Links(d)
    PROVE  Links(d)'
BY DEF Kept, Links, Same

\* A step about c has to be looked at for the table and for c.
LEMMA StepOf ==
    ASSUME IInv, NEW c \in Conns, Table', ConnTypes', Links(c)',
           \A d \in Conns : d # c => Kept(d)
    PROVE  IInv'
<1>1. ASSUME NEW d \in Conns
      PROVE  Links(d)'
  <2>1. CASE d = c
    BY <2>1
  <2>2. CASE d # c
    BY <2>2, KeptLinks DEF IInv
  <2> QED BY <2>1, <2>2
<1> QED BY <1>1 DEF IInv

\* A step of conn_thread, of time, of the work item or of the end.
LEMMA StepOfNone ==
    ASSUME IInv, Table', \A c \in Conns : Same(c),
           UNCHANGED <<object, request, disconnect, newState, event, tcp, fins>>
    PROVE  IInv'
<1>1. ConnTypes'
  BY DEF IInv, ConnTypes
<1>2. \A d \in Conns : Links(d)'
  <2> SUFFICES ASSUME NEW d \in Conns
               PROVE  Links(d)'
    OBVIOUS
  <2>1. Kept(d)
    BY DEF Kept
  <2> QED BY <2>1, KeptLinks DEF IInv
<1> QED BY <1>1, <1>2 DEF IInv

\* TDI_CREATE gives a connection object without an entry.
LEMMA CreateStep ==
    ASSUME IInv, NEW c \in Conns, Create(c)
    PROVE  IInv'
<1> USE DEF IInv
<1>1. /\ object[c] = "none" /\ object' = [object EXCEPT ![c] = "open"]
      /\ UNCHANGED <<connEntry, state, age, toDel, newToDel, handle, timeout>>
      /\ UNCHANGED <<request, disconnect, newState, event, tcp, fins>>
  BY DEF Create, table, threadVars, requests, disconnecting, tcpVars
<1>2. object \in [Conns -> {"none", "open", "cleaned"}]
  BY DEF Table, TableTypes
<1>3. Table' /\ \A d \in Conns : Same(d)
  <2>1. \A d \in Conns : connEntry[d] # NoEntry => object'[d] = "open"
    BY <1>1, <1>2, OwnerIsOpen
  <2> QED BY <1>1, <1>2, <2>1, TableUnchanged
<1>4. ConnTypes'
  BY <1>1 DEF ConnTypes
<1>5. Links(c)'
  BY <1>1, <1>2 DEF Links
<1>6. \A d \in Conns : d # c => Kept(d)
  BY <1>1, <1>2, <1>3 DEF Kept
<1> QED BY <1>3, <1>4, <1>5, <1>6, StepOf

\* TDI_CONNECT adds the entry of a connection that goes out.
LEMMA ConnectStep ==
    ASSUME IInv, NEW c \in Conns, NEW p \in Ports, Connect(c, p)
    PROVE  IInv'
<1> USE DEF IInv
<1>1. PICK e \in Entries : AddTcpConn(c, e, p, "SYN_SENT")
  BY DEF Connect
<1>2. /\ Idle(c) /\ connEntry[c] = NoEntry
      /\ request' = [request EXCEPT ![c] = "connect"]
      /\ tcp' = [tcp EXCEPT ![c] = "connecting"]
      /\ fins' = [fins EXCEPT ![c] = {}]
      /\ UNCHANGED <<object, handle, timeout, disconnect, newState, event>>
  BY DEF Connect, TcpStarts, threadVars, disconnecting
<1>3. Table' /\ connEntry'[c] = e /\ \A d \in Conns : d # c => Same(d)
  <2>1. "SYN_SENT" \in TcpStates
    BY DEF TcpStates
  <2> QED BY <1>1, <1>2, <2>1, AddTcpConnStep DEF Idle
<1>4. ConnTypes'
  BY <1>2 DEF ConnTypes
<1>5. Links(c)'
  BY <1>2, <1>3, ConnAssumption DEF Links, Idle, ConnTypes
<1>6. \A d \in Conns : d # c => Kept(d)
  BY <1>2, <1>3 DEF Kept, ConnTypes
<1> QED BY <1>3, <1>4, <1>5, <1>6, StepOf

\* The entry that EventConnect would delete twice is not there.
LEMMA EventConnectStep ==
    ASSUME Reuse = FALSE, IInv, NEW c \in Conns, NEW p \in Ports, EventConnect(c, p)
    PROVE  IInv'
<1> USE DEF IInv
<1>1. /\ Idle(c) /\ connEntry[c] = NoEntry
      /\ UNCHANGED <<object, handle, timeout, disconnect, newState, event>>
  BY DEF EventConnect, threadVars, disconnecting
<1>2. CASE /\ \E e \in Entries : AddTcpConn(c, e, p, "SYN_RCVD")
           /\ TcpStarts(c, p, "accepting")
           /\ request' = [request EXCEPT ![c] = "accept"]
  <2>1. PICK e \in Entries : AddTcpConn(c, e, p, "SYN_RCVD")
    BY <1>2
  <2>2. /\ tcp' = [tcp EXCEPT ![c] = "accepting"]
        /\ fins' = [fins EXCEPT ![c] = {}]
    BY <1>2 DEF TcpStarts
  <2>3. Table' /\ connEntry'[c] = e /\ \A d \in Conns : d # c => Same(d)
    <3>1. "SYN_RCVD" \in TcpStates
      BY DEF TcpStates
    <3> QED BY <1>1, <2>1, <3>1, AddTcpConnStep DEF Idle
  <2>4. ConnTypes'
    BY <1>1, <1>2, <2>2 DEF ConnTypes
  <2>5. Links(c)'
    BY <1>1, <1>2, <2>2, <2>3, ConnAssumption DEF Links, Idle, ConnTypes
  <2>6. \A d \in Conns : d # c => Kept(d)
    BY <1>1, <1>2, <2>2, <2>3 DEF Kept, ConnTypes
  <2> QED BY <2>3, <2>4, <2>5, <2>6, StepOf
<1>3. CASE /\ request' = [request EXCEPT ![c] = "aborted"]
           /\ UNCHANGED <<connEntry, table, tcpVars>>
  <2>1. UNCHANGED <<connEntry, state, age, toDel, newToDel, tcp, fins>>
    BY <1>3 DEF table, tcpVars
  <2>2. Table' /\ \A d \in Conns : Same(d)
    <3>1. /\ object' \in [Conns -> {"none", "open", "cleaned"}]
          /\ \A d \in Conns : connEntry[d] # NoEntry => object'[d] = "open"
      BY <1>1, OwnerIsOpen DEF Table, TableTypes
    <3> QED BY <1>1, <2>1, <3>1, TableUnchanged
  <2>3. ConnTypes'
    BY <1>1, <1>3, <2>1 DEF ConnTypes
  <2>4. Links(c)'
    BY <1>1, <1>3, <2>1 DEF Links, Idle, ConnTypes
  <2>5. \A d \in Conns : d # c => Kept(d)
    BY <1>1, <1>3, <2>1, <2>2 DEF Kept, ConnTypes
  <2> QED BY <2>2, <2>3, <2>4, <2>5, StepOf
<1> QED BY <1>1, <1>2, <1>3 DEF EventConnect

\* TCP establishes, or refuses, the connection below the filter.
LEMMA TcpConnectsStep ==
    ASSUME IInv, NEW c \in Conns, TcpConnects(c)
    PROVE  IInv'
<1> USE DEF IInv
<1>1. /\ request[c] \in {"connect", "accept"}
      /\ UNCHANGED <<object, connEntry, state, age, toDel, newToDel, handle, timeout>>
      /\ UNCHANGED <<disconnect, newState, event>>
  BY DEF TcpConnects, table, threadVars, disconnecting
<1>2. Table' /\ \A d \in Conns : Same(d)
  <2>1. /\ object' \in [Conns -> {"none", "open", "cleaned"}]
        /\ \A d \in Conns : connEntry[d] # NoEntry => object'[d] = "open"
    BY <1>1, OwnerIsOpen DEF Table, TableTypes
  <2> QED BY <1>1, <2>1, TableUnchanged
<1>3. PICK r \in {"connected", "accepted", "refused", "aborted"},
           t \in {"open", "none"}, f \in {{}, fins[c]} :
        /\ request' = [request EXCEPT ![c] = r]
        /\ tcp' = [tcp EXCEPT ![c] = t]
        /\ fins' = [fins EXCEPT ![c] = f]
        /\ r \in {"connected", "accepted"} <=> t = "open"
        /\ t = "open" => f = fins[c]
  <2>1. CASE /\ request' = [request EXCEPT ![c] = IF @ = "connect" THEN "connected" ELSE "accepted"]
             /\ tcp' = [tcp EXCEPT ![c] = "open"]
             /\ UNCHANGED fins
    <3>1. fins' = [fins EXCEPT ![c] = fins[c]]
      BY <2>1 DEF ConnTypes
    <3>2. \E r \in {"connected", "accepted"} : request' = [request EXCEPT ![c] = r]
      BY <2>1
    <3> QED BY <2>1, <3>1, <3>2
  <2>2. CASE /\ request' = [request EXCEPT ![c] = IF @ = "connect" THEN "refused" ELSE "aborted"]
             /\ TcpStops(c)
    <3>1. \E r \in {"refused", "aborted"} : request' = [request EXCEPT ![c] = r]
      BY <2>2
    <3> QED BY <2>2, <3>1 DEF TcpStops
  <2> QED BY <2>1, <2>2 DEF TcpConnects
<1>4. ConnTypes'
  BY <1>1, <1>3 DEF ConnTypes
<1>5. Links(c)'
  <2>1. Links(c) /\ tcp[c] \in {"connecting", "accepting"}
    BY <1>1 DEF Links
  <2>2. request'[c] = r /\ tcp'[c] = t /\ fins'[c] = f
    BY <1>3 DEF ConnTypes
  <2> QED BY <1>1, <1>3, <2>1, <2>2 DEF Links
<1>6. \A d \in Conns : d # c => Kept(d)
  BY <1>1, <1>2, <1>3 DEF Kept, ConnTypes
<1> QED BY <1>2, <1>4, <1>5, <1>6, StepOf

\* The completion of a connect sets the state, or deletes the entry.
LEMMA ConnectCompleteStep ==
    ASSUME IInv, NEW c \in Conns, ConnectComplete(c)
    PROVE  IInv'
<1> USE DEF IInv
<1>1. /\ request' = [request EXCEPT ![c] = "none"]
      /\ UNCHANGED <<object, handle, timeout, disconnect, newState, event, tcp, fins>>
  BY DEF ConnectComplete, threadVars, disconnecting, tcpVars
<1>2. ConnTypes'
  BY <1>1 DEF ConnTypes
<1>3. ASSUME NEW s \in Established, request[c] \in {"connected", "accepted"},
             SetTcpConnState(c, s)
      PROVE  IInv'
  <2>1. s \in TcpStates
    BY DEF TcpStates
  <2>2. /\ Table' /\ UNCHANGED connEntry
        /\ connEntry[c] # NoEntry => state'[connEntry[c]] = s
        /\ \A d \in Conns : d # c => Same(d)
    BY <1>1, <1>3, <2>1, SetTcpConnStateStep
  <2>3. Links(c)'
    BY <1>1, <1>3, <2>2 DEF Links, ConnTypes
  <2>4. \A d \in Conns : d # c => Kept(d)
    BY <1>1, <2>2 DEF Kept, ConnTypes
  <2> QED BY <1>2, <2>2, <2>3, <2>4, StepOf
<1>4. ASSUME request[c] \in {"refused", "aborted"}, DelTcpConn(c)
      PROVE  IInv'
  <2>1. Table' /\ \A d \in Conns : d # c => Same(d)
    BY <1>1, <1>4, DelTcpConnStep
  <2>2. Links(c)'
    BY <1>1, <1>4 DEF Links, ConnTypes
  <2>3. \A d \in Conns : d # c => Kept(d)
    BY <1>1, <2>1 DEF Kept, ConnTypes
  <2> QED BY <1>2, <2>1, <2>2, <2>3, StepOf
<1> QED BY <1>3, <1>4 DEF ConnectComplete, Established

\* The work item of an established connection updates its entry.
LEMMA UpdateConnInfoStep ==
    ASSUME IInv, NEW c \in Conns, UpdateConnInfo(c)
    PROVE  IInv'
<1>1. /\ UNCHANGED <<object, connEntry, state, age, toDel, newToDel, handle, timeout>>
      /\ UNCHANGED <<request, disconnect, newState, event, tcp, fins>>
  BY DEF UpdateConnInfo, SetTcpConnLocal, threadVars, disconnecting, tcpVars
<1>2. Table' /\ \A d \in Conns : Same(d)
  <2>1. /\ object' \in [Conns -> {"none", "open", "cleaned"}]
        /\ \A d \in Conns : connEntry[d] # NoEntry => object'[d] = "open"
    BY <1>1, OwnerIsOpen DEF IInv, Table, TableTypes
  <2> QED BY <1>1, <2>1, TableUnchanged DEF IInv
<1> QED BY <1>1, <1>2, StepOfNone

\* A step of a connection that does not touch the table.
LEMMA TableAlone ==
    ASSUME IInv, UNCHANGED <<object, connEntry, table, threadVars>>
    PROVE  Table' /\ \A d \in Conns : Same(d)
<1>1. UNCHANGED <<object, connEntry, state, age, toDel, newToDel, handle, timeout>>
  BY DEF table, threadVars
<1>2. /\ object' \in [Conns -> {"none", "open", "cleaned"}]
      /\ \A d \in Conns : connEntry[d] # NoEntry => object'[d] = "open"
  BY <1>1, OwnerIsOpen DEF IInv, Table, TableTypes
<1> QED BY <1>1, <1>2, TableUnchanged DEF IInv

\* TDI_DISCONNECT reads the state under the lock ...
LEMMA DisconnectReadStep ==
    ASSUME IInv, NEW c \in Conns, DisconnectRead(c)
    PROVE  IInv'
<1> USE DEF IInv
<1>1. PICK s \in Uninitialized : newState' = [newState EXCEPT ![c] = s]
  BY DEF DisconnectRead
<1>2. /\ object[c] = "open" /\ tcp[c] = "open" /\ "local" \notin fins[c]
      /\ disconnect' = [disconnect EXCEPT ![c] = "set"]
      /\ UNCHANGED <<object, connEntry, table, threadVars>>
      /\ UNCHANGED <<request, event, tcp, fins>>
  BY DEF DisconnectRead, tcpVars
<1>3. Table' /\ \A d \in Conns : Same(d)
  BY <1>2, TableAlone
<1>4. ConnTypes'
  BY <1>1, <1>2 DEF ConnTypes, Uninitialized, TcpStates
<1>5. Links(c)'
  BY <1>2, <1>3 DEF Links, ConnTypes, Same
<1>6. \A d \in Conns : d # c => Kept(d)
  BY <1>2, <1>3 DEF Kept, ConnTypes
<1> QED BY <1>3, <1>4, <1>5, <1>6, StepOf

\* ... and sets the one it has worked out ...
LEMMA DisconnectSetStep ==
    ASSUME IInv, NEW c \in Conns, DisconnectSet(c)
    PROVE  IInv'
<1> USE DEF IInv
<1>1. /\ disconnect[c] = "set"
      /\ disconnect' = [disconnect EXCEPT ![c] = "release"]
      /\ UNCHANGED <<object, handle, timeout, request, newState, event, tcp>>
  BY DEF DisconnectSet, threadVars
<1>2. PICK f \in SUBSET {"local", "remote"} :
        /\ fins' = [fins EXCEPT ![c] = f]
        /\ fins[c] \subseteq f
        /\ tcp[c] = "open" => "local" \in f
  <2>1. CASE tcp[c] = "open"
    <3>1. fins' = [fins EXCEPT ![c] = fins[c] \cup {"local"}]
      BY <2>1 DEF DisconnectSet
    <3>2. fins[c] \cup {"local"} \in SUBSET {"local", "remote"}
      BY DEF ConnTypes
    <3> QED BY <3>1, <3>2
  <2>2. CASE tcp[c] # "open"
    <3>1. fins' = [fins EXCEPT ![c] = fins[c]]
      BY <2>2 DEF DisconnectSet, ConnTypes
    <3> QED BY <2>2, <3>1 DEF ConnTypes
  <2> QED BY <2>1, <2>2
<1>3. /\ Table' /\ UNCHANGED connEntry
      /\ \A d \in Conns : d # c => Same(d)
  <2>1. newState[c] \in TcpStates /\ SetTcpConnState(c, newState[c])
    BY DEF DisconnectSet, ConnTypes
  <2> QED BY <1>1, <2>1, SetTcpConnStateStep
<1>4. ConnTypes'
  BY <1>1, <1>2 DEF ConnTypes
<1>5. Links(c)'
  <2>1. Links(c) /\ fins'[c] = f /\ disconnect'[c] = "release"
    BY <1>1, <1>2 DEF ConnTypes
  <2> QED BY <1>1, <1>2, <1>3, <2>1 DEF Links
<1>6. \A d \in Conns : d # c => Kept(d)
  BY <1>1, <1>2, <1>3 DEF Kept, ConnTypes
<1> QED BY <1>3, <1>4, <1>5, <1>6, StepOf

\* ... or deletes the entry, where the disconnect is an abort.
LEMMA DisconnectAbortStep ==
    ASSUME IInv, NEW c \in Conns, DisconnectAbort(c)
    PROVE  IInv'
<1> USE DEF IInv
<1>1. /\ disconnect' = [disconnect EXCEPT ![c] = "abort"]
      /\ newState' = [newState EXCEPT ![c] = "CLOSED"]
      /\ UNCHANGED <<object, handle, timeout, request, event, tcp, fins>>
  BY DEF DisconnectAbort, threadVars, tcpVars
<1>2. "CLOSED" \in TcpStates
  BY DEF TcpStates
<1>3. /\ Table' /\ UNCHANGED connEntry
      /\ \A d \in Conns : d # c => Same(d)
  <2>1. SetTcpConnState(c, "CLOSED")
    BY DEF DisconnectAbort
  <2> QED BY <1>1, <1>2, <2>1, SetTcpConnStateStep
<1>4. ConnTypes'
  BY <1>1, <1>2 DEF ConnTypes
<1>5. Links(c)'
  BY <1>1, <1>3 DEF Links, ConnTypes
<1>6. \A d \in Conns : d # c => Kept(d)
  BY <1>1, <1>3 DEF Kept, ConnTypes
<1> QED BY <1>3, <1>4, <1>5, <1>6, StepOf

\* TCP gives up a connection, and with it what it was about to answer.
LEMMA TcpStopsStep ==
    ASSUME IInv, NEW c \in Conns, TcpStops(c),
           request' = [request EXCEPT ![c] = Failed(@)],
           \/ UNCHANGED disconnect
           \/ \E v \in {"done", "failed"} : disconnect' = [disconnect EXCEPT ![c] = v],
           UNCHANGED <<object, connEntry, table, threadVars, newState, event>>
    PROVE  IInv'
<1> USE DEF IInv
<1>1. Table' /\ \A d \in Conns : Same(d)
  BY TableAlone
<1>2. /\ tcp' = [tcp EXCEPT ![c] = "none"]
      /\ fins' = [fins EXCEPT ![c] = {}]
  BY DEF TcpStops
<1>3. PICK r \in {"none", "connected", "refused", "accepted", "aborted"} :
        request' = [request EXCEPT ![c] = r]
  <2>1. Failed(request[c]) \in {"none", "connected", "refused", "accepted", "aborted"}
    BY DEF Failed, ConnTypes
  <2> QED BY <2>1
<1>4. ConnTypes'
  BY <1>2, <1>3 DEF ConnTypes
<1>5. Links(c)'
  BY <1>2, <1>3 DEF Links, ConnTypes
<1>6. \A d \in Conns : d # c => Kept(d)
  BY <1>1, <1>2, <1>3 DEF Kept, ConnTypes
<1> QED BY <1>1, <1>4, <1>5, <1>6, StepOf

\* TCP carries out a disconnect.
LEMMA TcpDisconnectsStep ==
    ASSUME IInv, NEW c \in Conns, TcpDisconnects(c)
    PROVE  IInv'
<1> USE DEF IInv
<1>1. PICK v \in {"done", "failed"} : disconnect' = [disconnect EXCEPT ![c] = v]
  BY DEF TcpDisconnects
<1>2. UNCHANGED <<object, connEntry, table, threadVars, newState, event>>
  BY DEF TcpDisconnects
<1>3. CASE disconnect[c] = "abort"
  BY <1>1, <1>2, <1>3, TcpStopsStep DEF TcpDisconnects
<1>4. CASE disconnect[c] = "release"
  <2>1. UNCHANGED <<request, tcp, fins>>
    BY <1>4 DEF TcpDisconnects, tcpVars
  <2>2. Table' /\ \A d \in Conns : Same(d)
    BY <1>2, TableAlone
  <2>3. ConnTypes'
    BY <1>1, <1>2, <2>1 DEF ConnTypes
  <2>4. Links(c)'
    BY <1>1, <1>2, <1>4, <2>1, <2>2 DEF Links, ConnTypes, Same
  <2>5. \A d \in Conns : d # c => Kept(d)
    BY <1>1, <1>2, <2>1, <2>2 DEF Kept, ConnTypes
  <2> QED BY <2>2, <2>3, <2>4, <2>5, StepOf
<1> QED BY <1>3, <1>4 DEF TcpDisconnects

\* The completion of a disconnect, which sets the state it was given.
LEMMA DisconnectCompleteStep ==
    ASSUME IInv, NEW c \in Conns, DisconnectComplete(c)
    PROVE  IInv'
<1> USE DEF IInv
<1>1. /\ disconnect[c] \in {"done", "failed"}
      /\ disconnect' = [disconnect EXCEPT ![c] = "none"]
      /\ newState' = [newState EXCEPT ![c] = "NONE"]
      /\ UNCHANGED <<object, handle, timeout, request, event, tcp, fins>>
  BY DEF DisconnectComplete, threadVars, tcpVars
<1>2. Table' /\ \A d \in Conns : d # c => Same(d)
  <2>1. CASE SetTcpConnState(c, "FIN_WAIT2")
    <3>1. "FIN_WAIT2" \in TcpStates
      BY DEF TcpStates
    <3> QED BY <1>1, <2>1, <3>1, SetTcpConnStateStep
  <2>2. CASE DelTcpConn(c)
    BY <1>1, <2>2, DelTcpConnStep
  <2>3. CASE UNCHANGED <<connEntry, table>>
    BY <1>1, <2>3, TableAlone DEF threadVars, DisconnectComplete
  <2> QED BY <2>1, <2>2, <2>3 DEF DisconnectComplete
<1>3. ConnTypes'
  BY <1>1 DEF ConnTypes, TcpStates
<1>4. Links(c)'
  BY <1>1 DEF Links, ConnTypes
<1>5. \A d \in Conns : d # c => Kept(d)
  BY <1>1, <1>2 DEF Kept, ConnTypes
<1> QED BY <1>2, <1>3, <1>4, <1>5, StepOf

\* tdi_event_disconnect reads the state ...
LEMMA EventDisconnectReadStep ==
    ASSUME IInv, NEW c \in Conns, EventDisconnectRead(c)
    PROVE  IInv'
<1> USE DEF IInv
<1>1. PICK v \in {"none", "CLOSE_WAIT", "TIME_WAIT"} : event' = [event EXCEPT ![c] = v]
  BY DEF EventDisconnectRead
<1>2. PICK f \in SUBSET {"local", "remote"} :
        fins' = [fins EXCEPT ![c] = f] /\ f = fins[c] \cup {"remote"}
  <2>1. fins[c] \cup {"remote"} \in SUBSET {"local", "remote"}
    BY DEF ConnTypes
  <2> QED BY <2>1 DEF EventDisconnectRead
<1>3. UNCHANGED <<object, connEntry, table, threadVars, request, disconnect, newState, tcp>>
  BY DEF EventDisconnectRead, disconnecting
<1>4. Table' /\ \A d \in Conns : Same(d)
  BY <1>3, TableAlone
<1>5. ConnTypes'
  BY <1>1, <1>2, <1>3 DEF ConnTypes
<1>6. Links(c)'
  <2>1. Links(c) /\ fins'[c] = f /\ "remote" \in f /\ fins[c] \subseteq f
    BY <1>2 DEF ConnTypes
  <2> QED BY <1>3, <1>4, <2>1 DEF Links, Same
<1>7. \A d \in Conns : d # c => Kept(d)
  BY <1>1, <1>2, <1>3, <1>4 DEF Kept, ConnTypes
<1> QED BY <1>4, <1>5, <1>6, <1>7, StepOf

\* ... sets the next one ...
LEMMA EventDisconnectSetStep ==
    ASSUME IInv, NEW c \in Conns, EventDisconnectSet(c)
    PROVE  IInv'
<1> USE DEF IInv
<1>1. /\ event[c] # "none" /\ event' = [event EXCEPT ![c] = "none"]
      /\ UNCHANGED <<object, handle, timeout, request, disconnect, newState, tcp, fins>>
  BY DEF EventDisconnectSet, threadVars, disconnecting, tcpVars
<1>2. /\ Table' /\ UNCHANGED connEntry
      /\ \A d \in Conns : d # c => Same(d)
  <2>1. event[c] \in TcpStates /\ SetTcpConnState(c, event[c])
    BY <1>1 DEF EventDisconnectSet, ConnTypes, TcpStates
  <2> QED BY <1>1, <2>1, SetTcpConnStateStep
<1>3. ConnTypes'
  BY <1>1 DEF ConnTypes
<1>4. Links(c)'
  BY <1>1, <1>2 DEF Links, ConnTypes
<1>5. \A d \in Conns : d # c => Kept(d)
  BY <1>1, <1>2 DEF Kept, ConnTypes
<1> QED BY <1>2, <1>3, <1>4, <1>5, StepOf

\* ... or deletes the entry.
LEMMA EventDisconnectAbortStep ==
    ASSUME IInv, NEW c \in Conns, EventDisconnectAbort(c)
    PROVE  IInv'
<1> USE DEF IInv
<1>1. /\ tcp[c] = "open" /\ event[c] = "none"
      /\ tcp' = [tcp EXCEPT ![c] = "none"]
      /\ fins' = [fins EXCEPT ![c] = {}]
      /\ UNCHANGED <<object, handle, timeout, request, disconnect, newState, event>>
  BY DEF EventDisconnectAbort, TcpStops, threadVars, requests, disconnecting
<1>2. Table' /\ \A d \in Conns : d # c => Same(d)
  BY <1>1, DelTcpConnStep DEF EventDisconnectAbort
<1>3. ConnTypes'
  BY <1>1 DEF ConnTypes
<1>4. Links(c)'
  BY <1>1 DEF Links, ConnTypes
<1>5. \A d \in Conns : d # c => Kept(d)
  BY <1>1, <1>2 DEF Kept, ConnTypes
<1> QED BY <1>2, <1>3, <1>4, <1>5, StepOf

\* TCP ends the connection by itself.
LEMMA TcpClosesStep ==
    ASSUME IInv, NEW c \in Conns, TcpCloses(c)
    PROVE  IInv'
<1> USE DEF IInv
<1>1. request[c] \notin {"connect", "accept"}
  BY DEF TcpCloses, Links
<1>2. request' = [request EXCEPT ![c] = Failed(@)]
  BY <1>1 DEF TcpCloses, requests, ConnTypes, Failed
<1>3. UNCHANGED <<object, connEntry, table, threadVars, disconnect, newState, event>>
  BY DEF TcpCloses, requests, disconnecting
<1> QED BY <1>2, <1>3, TcpStopsStep DEF TcpCloses

\* TCP has closed the connection object.
LEMMA TcpCleanupStep ==
    ASSUME IInv, NEW c \in Conns, TcpCleanup(c)
    PROVE  IInv'
BY TcpStopsStep DEF TcpCleanup, disconnecting

\* The object ends: a Cleanup, or the end of the driver.
LEMMA ObjectEndsStep ==
    ASSUME IInv, NEW c \in Conns, DelTcpConn(c),
           NEW o \in {"none", "cleaned"}, object' = [object EXCEPT ![c] = o],
           o = "none" => tcp[c] = "none",
           UNCHANGED <<threadVars, requests, tcpVars>>
    PROVE  IInv'
<1> USE DEF IInv
<1>1. UNCHANGED <<handle, timeout, request, disconnect, newState, event, tcp, fins>>
  BY DEF threadVars, requests, disconnecting, tcpVars
<1>2. Table' /\ \A d \in Conns : d # c => Same(d)
  BY <1>1, DelTcpConnStep
<1>3. ConnTypes'
  BY <1>1 DEF ConnTypes
<1>4. object \in [Conns -> {"none", "open", "cleaned"}]
  BY DEF Table, TableTypes
<1>5. Links(c)'
  BY <1>1, <1>4 DEF Links
<1>6. \A d \in Conns : d # c => Kept(d)
  BY <1>1, <1>2, <1>4 DEF Kept
<1> QED BY <1>2, <1>3, <1>5, <1>6, StepOf

\* IRP_MJ_CLOSE ends an object that has no entry any more.
LEMMA CloseStep ==
    ASSUME IInv, NEW c \in Conns, Close(c)
    PROVE  IInv'
<1> USE DEF IInv
<1>1. /\ object[c] = "cleaned" /\ tcp[c] = "none"
      /\ object' = [object EXCEPT ![c] = "none"]
      /\ UNCHANGED <<connEntry, state, age, toDel, newToDel, handle, timeout>>
      /\ UNCHANGED <<request, disconnect, newState, event, tcp, fins>>
  BY DEF Close, table, threadVars, requests, disconnecting, tcpVars
<1>2. object \in [Conns -> {"none", "open", "cleaned"}]
  BY DEF Table, TableTypes
<1>3. Table' /\ \A d \in Conns : Same(d)
  <2>1. \A d \in Conns : connEntry[d] # NoEntry => d # c /\ object'[d] = "open"
    BY <1>1, <1>2, OwnerIsOpen
  <2> QED BY <1>1, <1>2, <2>1, TableUnchanged
<1>4. ConnTypes'
  BY <1>1 DEF ConnTypes
<1>5. Links(c)'
  BY <1>1, <1>2 DEF Links
<1>6. \A d \in Conns : d # c => Kept(d)
  BY <1>1, <1>2, <1>3 DEF Kept
<1> QED BY <1>3, <1>4, <1>5, <1>6, StepOf

-----------------------------------------------------------------------------
(* The invariant and what follows from it                                  *)

\* The initial states satisfy the invariant.
LEMMA InitIInv == Init => IInv
<1> SUFFICES ASSUME Init
             PROVE  IInv
  OBVIOUS
<1>1. Closed = {}
  BY DEF Init, Closed
<1>2. TableTypes
  BY ConnAssumption DEF Init, TableTypes
<1>3. EntryHasOneOwner
  BY ConnAssumption DEF Init, EntryHasOneOwner
<1>4. Aging
  BY <1>1 DEF Aging
<1>5. ConnTypes
  BY DEF Init, ConnTypes, TcpStates
<1>6. \A c \in Conns : Links(c)
  BY DEF Init, Links
<1> QED BY <1>2, <1>3, <1>4, <1>5, <1>6 DEF IInv, Table

\* Every step keeps the invariant ...
LEMMA NextIInv ==
    ASSUME Reuse = FALSE, IInv, [Next]_vars
    PROVE  IInv'
<1>1. ASSUME NEW c \in Conns, Client(c)
      PROVE  IInv'
  <2>1. CASE Cleanup(c)
    BY <2>1, ObjectEndsStep DEF Cleanup
  <2> QED BY <1>1, <2>1, CreateStep, ConnectStep, DisconnectReadStep, DisconnectSetStep,
             DisconnectAbortStep, CloseStep DEF Client
<1>2. ASSUME NEW c \in Conns, Tcp(c)
      PROVE  IInv'
  BY <1>2, EventConnectStep, TcpConnectsStep, ConnectCompleteStep, TcpDisconnectsStep,
     DisconnectCompleteStep, EventDisconnectReadStep, EventDisconnectSetStep,
     EventDisconnectAbortStep, TcpClosesStep, TcpCleanupStep DEF Tcp
<1>3. ASSUME NEW c \in Conns, OtFree(c)
      PROVE  IInv'
  BY <1>3, ObjectEndsStep DEF OtFree
<1>4. CASE ConnThreadSweep
  BY <1>4, ConnThreadSweepStep, StepOfNone
     DEF IInv, ConnThreadSweep, requests, disconnecting, tcpVars
<1>5. CASE ConnThreadCheck
  <2>1. UNCHANGED <<object, connEntry, state, age, toDel, newToDel, handle, timeout>>
        /\ UNCHANGED <<request, disconnect, newState, event, tcp, fins>>
    BY <1>5 DEF ConnThreadCheck, table, requests, disconnecting, tcpVars
  <2>2. /\ object' \in [Conns -> {"none", "open", "cleaned"}]
        /\ \A d \in Conns : connEntry[d] # NoEntry => object'[d] = "open"
    BY <2>1, OwnerIsOpen DEF IInv, Table, TableTypes
  <2> QED BY <2>1, <2>2, TableUnchanged, StepOfNone DEF IInv
<1>6. CASE Tick
  BY <1>6, TickStep, StepOfNone DEF IInv, Tick, requests, disconnecting, tcpVars
<1>7. CASE ConnStateFree
  BY <1>7, ConnStateFreeStep, StepOfNone DEF IInv, ConnStateFree, requests, disconnecting, tcpVars
<1>8. CASE UNCHANGED vars
  <2>1. UNCHANGED <<object, connEntry, table, threadVars>>
        /\ UNCHANGED <<request, disconnect, newState, event, tcp, fins>>
    BY <1>8 DEF vars, requests, disconnecting, tcpVars
  <2> QED BY <2>1, TableAlone, StepOfNone
<1> QED BY <1>1, <1>2, <1>3, <1>4, <1>5, <1>6, <1>7, <1>8, UpdateConnInfoStep DEF Next, ConnThread

\* ... which therefore always holds, if TCP gives no connection object twice.
LEMMA InvariantHolds ==
    ASSUME Reuse = FALSE
    PROVE  Spec => []IInv
<1>1. IInv /\ [Next]_vars => IInv'
  BY NextIInv
<1> QED BY <1>1, InitIInv, PTL DEF Spec

\* Whoever gets to a connection first of the client, TCP's completions and
\* its events, an entry is never lost and never put twice on g_conn_to_del,
\* when no object is used again before its entry has been deleted.
THEOREM OneOwner ==
    ASSUME Reuse = FALSE
    PROVE  Spec => []EntryHasOneOwner
<1>1. IInv => EntryHasOneOwner
  BY DEF IInv, Table
<1> QED BY <1>1, InvariantHolds, PTL

\* conn_thread, which sleeps for the longest of the times, still frees each
\* closed entry before twice MAX_CLOSED_TIME.
THEOREM FreedByTwice ==
    ASSUME Reuse = FALSE
    PROVE  Spec => []FreedInTwiceTheTime
<1>1. IInv => FreedInTwiceTheTime
  BY DEF IInv, Table, Aging, FreedInTwiceTheTime
<1> QED BY <1>1, InvariantHolds, PTL

\* A connection that the client knows of and nobody has begun to close is in
\* the table as established.
THEOREM Open ==
    ASSUME Reuse = FALSE
    PROVE  Spec => []OpenIsEstablished
<1>1. IInv => OpenIsEstablished
  <2> SUFFICES ASSUME IInv, NEW c \in Conns, object[c] = "open", tcp[c] = "open",
                      request[c] = "none", fins[c] = {}, disconnect[c] = "none"
               PROVE  StateOf(c) \in Established
    BY DEF OpenIsEstablished
  <2>1. Links(c)
    BY DEF IInv
  <2>2. connEntry[c] # NoEntry /\ state[connEntry[c]] \in Established
    BY <2>1 DEF Links
  <2> QED BY <2>2 DEF StateOf, HasEntry
<1> QED BY <1>1, InvariantHolds, PTL

-----------------------------------------------------------------------------
(* The operations on the chain                                             *)

\* A set that has 0, and with n below m also n + 1, has all naturals up to m.
LEMMA Induction ==
    ASSUME NEW m \in Nat, NEW S, 0 \in S, \A n \in 0..(m - 1) : n \in S => n + 1 \in S
    PROVE  \A n \in 0..m : n \in S
<1> DEFINE T == {n \in 0..m : n \notin S}
<1> SUFFICES ASSUME T # {} PROVE FALSE
  OBVIOUS
<1>1. PICK x \in T : \A y \in T : x <= y
  BY SmallestOf
<1>2. x # 0 /\ x - 1 \in 0..(m - 1) /\ x - 1 \notin T
  BY <1>1
<1>3. x - 1 \in S
  BY <1>2
<1> QED BY <1>2, <1>3

\* What Without is at n, given what it is before.
KeptAt(s, gone, f, n) ==
    IF n = 0 THEN <<>> ELSE IF s[n] \in gone THEN f[n - 1] ELSE Append(f[n - 1], s[n])

\* The function that Without takes its value from.
KeptTo(s, gone) == CHOOSE f : f = [n \in 0..Len(s) |-> KeptAt(s, gone, f, n)]

\* There is a function with the equation that Without chooses one by: it is
\* built from 0 up.
LEMMA KeptExists ==
    ASSUME NEW s, NEW gone, Len(s) \in Nat
    PROVE  \E f : f = [n \in 0..Len(s) |-> KeptAt(s, gone, f, n)]
<1> DEFINE m == Len(s)
           Upto(k) == \E f : f = [n \in 0..k |-> KeptAt(s, gone, f, n)]
           S == {k \in Nat : Upto(k)}
<1>1. 0 \in S
  <2> DEFINE f == [n \in {0} |-> <<>>]
  <2>1. f = [n \in 0..0 |-> KeptAt(s, gone, f, n)]
    BY DEF KeptAt
  <2> QED BY <2>1
<1>2. ASSUME NEW k \in 0..(m - 1), k \in S
      PROVE  k + 1 \in S
  <2>1. PICK f : f = [n \in 0..k |-> KeptAt(s, gone, f, n)]
    BY <1>2
  <2> DEFINE g == [n \in 0..(k + 1) |-> IF n = k + 1 THEN KeptAt(s, gone, f, n) ELSE f[n]]
  <2>2. ASSUME NEW n \in 0..(k + 1)
        PROVE  g[n] = KeptAt(s, gone, g, n)
    <3>1. CASE n = 0
      <4>1. f[0] = KeptAt(s, gone, f, 0)
        BY <2>1
      <4> QED BY <3>1, <4>1 DEF KeptAt
    <3>2. CASE n # 0
      <4>1. g[n - 1] = f[n - 1]
        BY <3>2
      <4>2. KeptAt(s, gone, g, n) = KeptAt(s, gone, f, n)
        BY <3>2, <4>1 DEF KeptAt
      <4>3. n # k + 1 => f[n] = KeptAt(s, gone, f, n)
        BY <2>1
      <4> QED BY <4>2, <4>3
    <3> QED BY <3>1, <3>2
  <2>3. g = [n \in 0..(k + 1) |-> KeptAt(s, gone, g, n)]
    BY <2>2
  <2>4. Upto(k + 1)
    BY <2>3
  <2> QED BY <2>4
<1>4. m \in Nat
  OBVIOUS
<1> HIDE DEF S, m
<1>5. \A n \in 0..m : n \in S
  BY <1>1, <1>2, <1>4, Induction
<1>3. m \in S
  BY <1>4, <1>5
<1> QED BY <1>3 DEF S, m

\* Without is the last value of that function.
LEMMA WithoutIsKept ==
    ASSUME NEW s, NEW gone
    PROVE  Without(s, gone) = KeptTo(s, gone)[Len(s)]
BY DEF Without, KeptTo, KeptAt

\* The entries of a chain, that it has none twice, and that one is ahead of another.
Elements(s) == {s[k] : k \in DOMAIN s}
Injective(s) == \A j, k \in DOMAIN s : s[j] = s[k] => j = k
Ahead(s, d, e) == \E j, k \in DOMAIN s : j < k /\ s[j] = d /\ s[k] = e

\* t is what remains of the first n of s.
Remains(t, s, gone, n) ==
    /\ t \in Seq(Entries)
    /\ \A k \in 1..n : s[k] \notin gone => \E i \in DOMAIN t : t[i] = s[k]
    /\ \A i \in DOMAIN t : \E k \in 1..n : t[i] = s[k] /\ s[k] \notin gone
    /\ \A i, j \in DOMAIN t : i < j => \E a, b \in 1..n : a < b /\ s[a] = t[i] /\ s[b] = t[j]

\* One more entry of the chain is kept or left out.
LEMMA RemainsStep ==
    ASSUME NEW s \in Seq(Entries), NEW gone, NEW n \in 0..(Len(s) - 1), NEW t,
           Remains(t, s, gone, n)
    PROVE  Remains(IF s[n + 1] \in gone THEN t ELSE Append(t, s[n + 1]), s, gone, n + 1)
<1>1. n + 1 \in 1..Len(s) /\ s[n + 1] \in Entries /\ n \in Nat
  OBVIOUS
<1>4. \A k \in 1..n : k \in 1..(n + 1)
  BY <1>1
<1>5. \A k \in 1..(n + 1) : k = n + 1 \/ k \in 1..n
  BY <1>1
<1>2. CASE s[n + 1] \in gone
  BY <1>1, <1>2, <1>4, <1>5 DEF Remains
<1>3. CASE s[n + 1] \notin gone
  <2> DEFINE u == Append(t, s[n + 1])
  <2>1. /\ t \in Seq(Entries) /\ u \in Seq(Entries)
        /\ Len(t) \in Nat /\ Len(u) = Len(t) + 1
        /\ DOMAIN t = 1..Len(t) /\ DOMAIN u = 1..(Len(t) + 1)
        /\ u[Len(t) + 1] = s[n + 1]
        /\ \A i \in 1..Len(t) : u[i] = t[i]
    BY <1>1 DEF Remains
  <2> HIDE DEF u
  <2>2. \A i \in DOMAIN u : i \in DOMAIN t \/ i = Len(t) + 1
    BY <2>1
  <2>7. \A i \in DOMAIN t : i \in DOMAIN u
    BY <2>1
  <2>3. ASSUME NEW k \in 1..(n + 1), s[k] \notin gone
        PROVE  \E i \in DOMAIN u : u[i] = s[k]
    <3>1. CASE k = n + 1
      BY <2>1, <3>1
    <3>2. CASE k # n + 1
      <4>1. PICK i \in DOMAIN t : t[i] = s[k]
        BY <1>5, <2>3, <3>2 DEF Remains
      <4> QED BY <2>1, <2>7, <4>1
    <3> QED BY <3>1, <3>2
  <2>4. ASSUME NEW i \in DOMAIN u
        PROVE  \E k \in 1..(n + 1) : u[i] = s[k] /\ s[k] \notin gone
    <3>1. CASE i = Len(t) + 1
      BY <1>1, <1>3, <2>1, <3>1
    <3>2. CASE i \in DOMAIN t
      <4>1. PICK k \in 1..n : t[i] = s[k] /\ s[k] \notin gone
        BY <3>2 DEF Remains
      <4> QED BY <1>4, <2>1, <3>2, <4>1
    <3> QED BY <2>2, <3>1, <3>2
  <2>5. ASSUME NEW i \in DOMAIN u, NEW j \in DOMAIN u, i < j
        PROVE  \E a, b \in 1..(n + 1) : a < b /\ s[a] = u[i] /\ s[b] = u[j]
    <3>1. i \in DOMAIN t
      BY <2>1, <2>5
    <3>2. CASE j = Len(t) + 1
      <4>1. PICK a \in 1..n : t[i] = s[a]
        BY <3>1 DEF Remains
      <4>2. a \in 1..(n + 1) /\ n + 1 \in 1..(n + 1) /\ a < n + 1
        BY <1>1
      <4> QED BY <2>1, <3>1, <3>2, <4>1, <4>2
    <3>3. CASE j \in DOMAIN t
      <4>1. PICK a \in 1..n, b \in 1..n : a < b /\ s[a] = t[i] /\ s[b] = t[j]
        BY <2>5, <3>1, <3>3 DEF Remains
      <4> QED BY <1>4, <2>1, <3>1, <3>3, <4>1
    <3> QED BY <2>2, <3>2, <3>3
  <2>6. Remains(u, s, gone, n + 1)
    BY <2>1, <2>3, <2>4, <2>5 DEF Remains
  <2> QED BY <1>3, <2>6 DEF u
<1> QED BY <1>2, <1>3

\* What Without computes, for every chain and every set of entries.
LEMMA WithoutRemains ==
    ASSUME NEW s \in Seq(Entries), NEW gone
    PROVE  Remains(Without(s, gone), s, gone, Len(s))
<1> DEFINE K == KeptTo(s, gone)
           S == {n \in 0..Len(s) : Remains(K[n], s, gone, n)}
<1>1. Len(s) \in Nat /\ DOMAIN s = 1..Len(s)
  OBVIOUS
<1>2. K = [n \in 0..Len(s) |-> KeptAt(s, gone, K, n)]
  BY <1>1, KeptExists DEF KeptTo
<1>3. \A n \in 0..Len(s) : K[n] = KeptAt(s, gone, K, n)
  BY <1>2
<1> HIDE DEF K
<1>4. 0 \in S
  <2>1. K[0] = <<>>
    BY <1>1, <1>3 DEF KeptAt
  <2>2. Remains(<<>>, s, gone, 0)
    BY DEF Remains
  <2> QED BY <1>1, <2>1, <2>2
<1>5. ASSUME NEW n \in 0..(Len(s) - 1), n \in S
      PROVE  n + 1 \in S
  <2>1. n + 1 \in 0..Len(s) /\ n + 1 # 0 /\ (n + 1) - 1 = n
    BY <1>1
  <2>2. K[n + 1] = IF s[n + 1] \in gone THEN K[n] ELSE Append(K[n], s[n + 1])
    BY <1>3, <2>1 DEF KeptAt
  <2>3. Remains(K[n], s, gone, n)
    BY <1>5
  <2>4. Remains(K[n + 1], s, gone, n + 1)
    BY <2>2, <2>3, RemainsStep
  <2> QED BY <2>1, <2>4
<1> HIDE DEF S
<1>6. \A n \in 0..Len(s) : n \in S
  BY <1>1, <1>4, <1>5, Induction
<1>7. Len(s) \in S
  BY <1>1, <1>6
<1> QED BY <1>7, WithoutIsKept DEF S, K

\* Taking entries out of a chain leaves the others, once and in their order.
LEMMA WithoutFacts ==
    ASSUME NEW s \in Seq(Entries), Injective(s), NEW gone
    PROVE  /\ Without(s, gone) \in Seq(Entries)
           /\ Injective(Without(s, gone))
           /\ Elements(Without(s, gone)) = Elements(s) \ gone
           /\ \A d, e : Ahead(Without(s, gone), d, e) => Ahead(s, d, e)
<1> DEFINE t == Without(s, gone)
<1>1. Remains(t, s, gone, Len(s))
  BY WithoutRemains
<1> HIDE DEF t
<1>2. DOMAIN s = 1..Len(s)
  OBVIOUS
<1>3. t \in Seq(Entries) /\ DOMAIN t = 1..Len(t) /\ Len(t) \in Nat
  BY <1>1 DEF Remains
<1>4. ASSUME NEW i \in DOMAIN t, NEW j \in DOMAIN t, t[i] = t[j], i < j
      PROVE  FALSE
  BY <1>1, <1>2, <1>4 DEF Remains, Injective
<1>5. Injective(t)
  BY <1>3, <1>4 DEF Injective
<1>6. Elements(t) = Elements(s) \ gone
  <2>1. ASSUME NEW x, x \in Elements(t)
        PROVE  x \in Elements(s) /\ x \notin gone
    <3>1. PICK i \in DOMAIN t : x = t[i]
      BY <2>1 DEF Elements
    <3>2. PICK k \in 1..Len(s) : t[i] = s[k] /\ s[k] \notin gone
      BY <1>1, <3>1 DEF Remains
    <3> QED BY <1>2, <3>1, <3>2 DEF Elements
  <2>2. ASSUME NEW x, x \in Elements(s), x \notin gone
        PROVE  x \in Elements(t)
    <3>1. PICK k \in 1..Len(s) : x = s[k]
      BY <1>2, <2>2 DEF Elements
    <3>2. PICK i \in DOMAIN t : t[i] = s[k]
      BY <1>1, <2>2, <3>1 DEF Remains
    <3> QED BY <3>1, <3>2 DEF Elements
  <2> QED BY <2>1, <2>2
<1>7. ASSUME NEW d, NEW e, Ahead(t, d, e)
      PROVE  Ahead(s, d, e)
  <2>1. PICK i \in DOMAIN t, j \in DOMAIN t : i < j /\ t[i] = d /\ t[j] = e
    BY <1>7 DEF Ahead
  <2>2. PICK a \in 1..Len(s), b \in 1..Len(s) : a < b /\ s[a] = t[i] /\ s[b] = t[j]
    BY <1>1, <2>1 DEF Remains
  <2> QED BY <1>2, <2>1, <2>2 DEF Ahead
<1> QED BY <1>3, <1>5, <1>6, <1>7 DEF t

\* A new entry at the head of the chain is ahead of the others, whose order
\* stays.
LEMMA PushFacts ==
    ASSUME NEW s \in Seq(Entries), Injective(s), NEW e \in Entries, e \notin Elements(s)
    PROVE  /\ <<e>> \o s \in Seq(Entries)
           /\ Injective(<<e>> \o s)
           /\ Elements(<<e>> \o s) = Elements(s) \cup {e}
           /\ \A d, f : Ahead(<<e>> \o s, d, f) => d = e \/ Ahead(s, d, f)
           /\ \A d : ~ Ahead(<<e>> \o s, d, e)
<1> DEFINE t == <<e>> \o s
<1>1. /\ t \in Seq(Entries) /\ DOMAIN t = 1..(Len(s) + 1) /\ DOMAIN s = 1..Len(s)
      /\ Len(s) \in Nat /\ t[1] = e /\ \A k \in 1..Len(s) : t[k + 1] = s[k]
  OBVIOUS
<1> HIDE DEF t
<1>2. \A k \in DOMAIN t : k = 1 \/ (k - 1 \in DOMAIN s /\ t[k] = s[k - 1])
  <2> SUFFICES ASSUME NEW k \in DOMAIN t, k # 1
               PROVE  k - 1 \in DOMAIN s /\ t[k] = s[k - 1]
    OBVIOUS
  <2>1. k - 1 \in 1..Len(s) /\ (k - 1) + 1 = k
    BY <1>1
  <2>2. t[(k - 1) + 1] = s[k - 1]
    BY <1>1, <2>1
  <2> QED BY <1>1, <2>1, <2>2
<1>3. \A k \in DOMAIN s : k + 1 \in DOMAIN t /\ t[k + 1] = s[k]
  BY <1>1
<1>4. \A k \in DOMAIN s : s[k] # e
  BY DEF Elements
<1>5. Injective(t)
  <2> SUFFICES ASSUME NEW j \in DOMAIN t, NEW k \in DOMAIN t, t[j] = t[k]
               PROVE  j = k
    BY DEF Injective
  <2>1. CASE j = 1 \/ k = 1
    BY <1>1, <1>2, <1>4, <2>1
  <2>2. CASE j # 1 /\ k # 1
    <3>1. s[j - 1] = s[k - 1] /\ j - 1 \in DOMAIN s /\ k - 1 \in DOMAIN s
      BY <1>2, <2>2
    <3>2. j - 1 = k - 1
      BY <3>1 DEF Injective
    <3> QED BY <1>1, <3>2
  <2> QED BY <2>1, <2>2
<1>6. Elements(t) = Elements(s) \cup {e}
  <2>1. 1 \in DOMAIN t
    BY <1>1
  <2> QED BY <1>1, <1>2, <1>3, <2>1 DEF Elements
<1>7. ASSUME NEW d, NEW f, Ahead(t, d, f)
      PROVE  f # e /\ (d = e \/ Ahead(s, d, f))
  <2>1. PICK j \in DOMAIN t, k \in DOMAIN t : j < k /\ t[j] = d /\ t[k] = f
    BY <1>7 DEF Ahead
  <2>2. k # 1 /\ k - 1 \in DOMAIN s /\ f = s[k - 1]
    BY <1>1, <1>2, <2>1
  <2>3. f # e
    BY <1>4, <2>2
  <2>4. CASE j = 1
    BY <1>1, <2>1, <2>3, <2>4
  <2>5. CASE j # 1
    <3>1. j - 1 \in DOMAIN s /\ d = s[j - 1]
      BY <1>2, <2>1, <2>5
    <3>2. j - 1 < k - 1
      BY <1>1, <2>1
    <3> QED BY <2>2, <2>3, <3>1, <3>2 DEF Ahead
  <2> QED BY <2>4, <2>5
<1> QED BY <1>1, <1>5, <1>6, <1>7 DEF t

-----------------------------------------------------------------------------
(* The chain                                                               *)

\* TCP has a connection for c.
Live(c) == tcp[c] # "none"

\* The objects have been freed.
Going == unload \in {"thread", "done"}

\* No entry with the same address is ahead of the entry of c.
First(c) ==
    Live(c) /\ connEntry[c] # NoEntry /\ address[connEntry[c]].laddr = "known"
        => \A d \in Entries : address[d] = address[connEntry[c]]
                                => ~ Ahead(hash, d, connEntry[c])

\* What TypeOK says of the chain and what it is looked up by.
ChainTypes ==
    /\ hash \in Seq(Entries)
    /\ address \in [Entries -> [laddr : {"any", "known", "zero"}, port : Ports \cup {NoPort}]]
    /\ port \in [Conns -> Ports \cup {NoPort}]
    /\ unload \in {"no", "tables", "thread", "done"}

\* The chain's part of the invariant: it has the entries in use, once, and
\* ahead of the entry of a connection whose address is known is none like it.
\* Two connections of TCP differ in their port, and the entry has the port.
Chain ==
    /\ ChainTypes
    /\ Injective(hash)
    /\ unload # "done" => Elements(hash) = {e \in Entries : state[e] # "FREE"}
    /\ \A e \in Entries : state[e] # "NONE"
    /\ \A c \in Conns : disconnect[c] # "none" => newState[c] # "NONE"
    /\ \A c, d \in Conns : Live(c) /\ Live(d) /\ port[c] = port[d] => c = d
    /\ \A c \in Conns : Live(c) /\ connEntry[c] # NoEntry => address[connEntry[c]].port = port[c]
    /\ \A c \in Conns : First(c)
    /\ Going => \A c \in Conns : object[c] = "none"

\* A step leaves the chain and what it is looked up by.
Inert ==
    /\ UNCHANGED <<hash, address>>
    /\ \A e \in Entries : (state'[e] = "FREE" <=> state[e] = "FREE") /\ state'[e] # "NONE"
    /\ \A d \in Conns : connEntry'[d] \in {connEntry[d], NoEntry}

\* No connection is begun.
Fewer ==
    /\ port' \in [Conns -> Ports \cup {NoPort}]
    /\ \A d \in Conns : tcp'[d] # "none" => tcp[d] # "none" /\ port'[d] = port[d]

\* The driver's unloading goes no further than the objects allow.
Ending ==
    \/ unload \in {"no", "tables"} /\ unload' \in {"no", "tables"}
    \/ unload' = unload /\ object' = object
    \/ unload' = "thread" /\ unload # "done" /\ \A c \in Conns : object'[c] = "none"

\* A disconnect has a state to set.
NewStates == \A c \in Conns : disconnect[c] # "none" => newState[c] # "NONE"

\* A step that leaves the chain, and begins no connection, keeps the invariant.
LEMMA InertStep ==
    ASSUME Chain, Inert, Fewer, Ending, NewStates'
    PROVE  Chain'
<1>1. ChainTypes'
  BY DEF Chain, ChainTypes, Inert, Fewer, Ending
<1>2. Injective(hash)'
  BY DEF Chain, Inert
<1>3. (unload # "done" => Elements(hash) = {e \in Entries : state[e] # "FREE"})'
  <2>1. unload' # "done" => unload # "done"
    BY DEF Ending
  <2> QED BY <2>1 DEF Chain, Inert
<1>4. \A e \in Entries : state'[e] # "NONE"
  BY DEF Inert
<1>5. \A d \in Conns : Live(d)' => Live(d) /\ port'[d] = port[d]
  BY DEF Fewer, Live
<1>6. \A c, d \in Conns : Live(c)' /\ Live(d)' /\ port'[c] = port'[d] => c = d
  BY <1>5 DEF Chain
<1>7. \A c \in Conns : connEntry'[c] # NoEntry => connEntry'[c] = connEntry[c]
  BY DEF Inert
<1>8. \A c \in Conns : Live(c)' /\ connEntry'[c] # NoEntry => address'[connEntry'[c]].port = port'[c]
  BY <1>5, <1>7 DEF Chain, Inert
<1>9. ASSUME NEW c \in Conns
      PROVE  First(c)'
  <2>1. First(c)
    BY DEF Chain
  <2> QED BY <1>5, <1>7, <2>1 DEF First, Inert
<1>10. (Going => \A c \in Conns : object[c] = "none")'
  BY DEF Chain, Ending, Going
<1> QED BY <1>1, <1>2, <1>3, <1>4, <1>6, <1>8, <1>9, <1>10 DEF Chain, NewStates

\* del_tcp_conn, set_tcp_conn_state, or nothing.
TableOp(c) ==
    \/ DelTcpConn(c)
    \/ \E s \in TcpStates \ {"NONE"} : SetTcpConnState(c, s)
    \/ UNCHANGED <<connEntry, table>>

\* These operations leave the chain: an entry in use stays in use.
LEMMA TableOpIsInert ==
    ASSUME Table, Chain, NEW c \in Conns, TableOp(c)
    PROVE  Inert
<1> USE DEF Table, TableTypes
<1>1. \A e \in Entries : state[e] # "NONE"
  BY DEF Chain
<1>2. CASE UNCHANGED <<connEntry, table>>
  BY <1>1, <1>2 DEF Inert, table
<1>3. CASE ~ HasEntry(c) /\ ~ UNCHANGED <<connEntry, table>>
  BY <1>1, <1>3 DEF Inert, TableOp, DelTcpConn, SetTcpConnState, table
<1>4. CASE HasEntry(c) /\ ~ UNCHANGED <<connEntry, table>>
  <2>1. connEntry[c] \in Entries /\ state[connEntry[c]] # "FREE"
    BY <1>4 DEF HasEntry, EntryHasOneOwner
  <2>2. /\ UNCHANGED <<hash, address>>
        /\ \/ connEntry' = [connEntry EXCEPT ![c] = NoEntry]
           \/ UNCHANGED connEntry
        /\ \E s \in TcpStates \ {"NONE"} : state' = [state EXCEPT ![connEntry[c]] = s]
    <3>1. CASE DelTcpConn(c)
      <4>1. "CLOSED" \in TcpStates \ {"NONE"}
        BY DEF TcpStates
      <4> QED BY <1>4, <3>1, <4>1 DEF DelTcpConn, DelTcpConnObj
    <3>2. ASSUME NEW s \in TcpStates \ {"NONE"}, SetTcpConnState(c, s)
          PROVE  /\ UNCHANGED <<hash, address, connEntry>>
                 /\ state' = [state EXCEPT ![connEntry[c]] = s]
      BY <1>4, <3>2 DEF SetTcpConnState
    <3> QED BY <1>4, <3>1, <3>2 DEF TableOp
  <2>3. \A s \in TcpStates : s # "FREE"
    BY DEF TcpStates, Established
  <2>4. PICK s \in TcpStates \ {"NONE"} : state' = [state EXCEPT ![connEntry[c]] = s]
    BY <2>2
  <2>5. \A e \in Entries : (state'[e] = "FREE" <=> state[e] = "FREE") /\ state'[e] # "NONE"
    BY <1>1, <2>1, <2>3, <2>4
  <2>6. \A d \in Conns : connEntry'[d] \in {connEntry[d], NoEntry}
    BY <2>2
  <2> QED BY <2>2, <2>5, <2>6 DEF Inert
<1> QED BY <1>2, <1>3, <1>4

\* A connection is begun with an entry at the head of the chain.
LEMMA BeginStep ==
    ASSUME IInv, Chain, NEW c \in Conns, NEW e \in Entries, NEW p \in Ports,
           NEW s \in TcpStates \ {"NONE"}, NEW how \in {"connecting", "accepting"},
           AddTcpConn(c, e, p, s), TcpStarts(c, p, how), PortIsFree(p),
           object[c] = "open", connEntry[c] = NoEntry, tcp[c] = "none",
           UNCHANGED <<object, unload, disconnect, newState>>
    PROVE  Chain'
<1> USE DEF IInv, Table, TableTypes
<1>1. /\ state[e] = "FREE" /\ s # "FREE" /\ e # NoEntry
      /\ \A d \in Conns : connEntry[d] # e
  BY ConnAssumption DEF AddTcpConn, EntryHasOneOwner, TcpStates, Established
<1>2. /\ state' = [state EXCEPT ![e] = s]
      /\ address' = [address EXCEPT ![e] = [laddr |-> "any", port |-> p]]
      /\ hash' = <<e>> \o hash
      /\ connEntry' = [connEntry EXCEPT ![c] = e]
      /\ tcp' = [tcp EXCEPT ![c] = how] /\ port' = [port EXCEPT ![c] = p]
  BY DEF AddTcpConn, TcpStarts
<1>3. ~ Going /\ ~ Going' /\ unload # "done"
  BY DEF Chain, Going
<1>4. /\ hash \in Seq(Entries) /\ Injective(hash)
      /\ Elements(hash) = {f \in Entries : state[f] # "FREE"}
      /\ e \notin Elements(hash)
  BY <1>1, <1>3 DEF Chain, ChainTypes
<1>5. /\ hash' \in Seq(Entries) /\ Injective(hash')
      /\ Elements(hash') = Elements(hash) \cup {e}
      /\ \A d, f : Ahead(hash', d, f) => d = e \/ Ahead(hash, d, f)
  BY <1>2, <1>4, PushFacts
<1>6. ChainTypes'
  BY <1>2, <1>5 DEF Chain, ChainTypes
<1>7. Elements(hash') = {f \in Entries : state'[f] # "FREE"}
  <2>1. \A f \in Entries : state'[f] # "FREE" <=> f = e \/ state[f] # "FREE"
    BY <1>1, <1>2
  <2> QED BY <1>4, <1>5, <2>1
<1>8. \A f \in Entries : state'[f] # "NONE"
  BY <1>2 DEF Chain
<1>9. tcp \in [Conns -> {"none", "connecting", "accepting", "open"}]
  BY DEF ConnTypes
<1>10. \A d \in Conns : d # c => (Live(d)' <=> Live(d)) /\ port'[d] = port[d]
                                 /\ connEntry'[d] = connEntry[d]
  BY <1>2, <1>9 DEF Live, Chain, ChainTypes
<1>11. port'[c] = p /\ connEntry'[c] = e /\ address'[e] = [laddr |-> "any", port |-> p]
  BY <1>2 DEF Chain, ChainTypes
<1>12. \A f \in Entries : f # e => address'[f] = address[f]
  BY <1>2 DEF Chain, ChainTypes
<1>13. \A d \in Conns : Live(d) => port[d] # p
  BY DEF PortIsFree, Live
<1>14. \A d, f \in Conns : Live(d)' /\ Live(f)' /\ port'[d] = port'[f] => d = f
  BY <1>10, <1>11, <1>13 DEF Chain
<1>15. \A d \in Conns : Live(d)' /\ connEntry'[d] # NoEntry => address'[connEntry'[d]].port = port'[d]
  BY <1>1, <1>10, <1>11, <1>12 DEF Chain
<1>16. ASSUME NEW d \in Conns
       PROVE  First(d)'
  <2>1. CASE d = c
    BY <1>11, <2>1 DEF First
  <2>2. CASE d # c
    <3>1. First(d) /\ connEntry[d] # e
      BY <1>1 DEF Chain
    <3>2. connEntry[d] # NoEntry => connEntry[d] \in Entries
      OBVIOUS
    <3> SUFFICES ASSUME Live(d)', connEntry'[d] # NoEntry,
                        address'[connEntry'[d]].laddr = "known",
                        NEW f \in Entries, address'[f] = address'[connEntry'[d]],
                        Ahead(hash', f, connEntry'[d])
                 PROVE  FALSE
      BY DEF First
    <3>3. f # e /\ address[f] = address[connEntry[d]] /\ address[connEntry[d]].laddr = "known"
      BY <1>10, <1>11, <1>12, <2>2, <3>1, <3>2
    <3>4. Ahead(hash, f, connEntry[d])
      BY <1>5, <1>10, <2>2, <3>3
    <3> QED BY <1>10, <2>2, <3>1, <3>3, <3>4 DEF First
  <2> QED BY <2>1, <2>2
<1> QED BY <1>3, <1>5, <1>6, <1>7, <1>8, <1>14, <1>15, <1>16 DEF Chain

\* The local address of an entry is set, and the entry moved to the head.
LEMMA LocalStep ==
    ASSUME IInv, Chain, NEW c \in Conns, UpdateConnInfo(c)
    PROVE  Chain'
<1> USE DEF IInv, Table, TableTypes
<1>1. UNCHANGED <<object, connEntry, state, disconnect, newState, tcp, port, unload>>
  BY DEF UpdateConnInfo, SetTcpConnLocal, disconnecting, tcpVars
<1>2. CASE ~ HasEntry(c)
  <2>1. UNCHANGED <<hash, address>>
    BY <1>2 DEF UpdateConnInfo, SetTcpConnLocal
  <2> QED BY <1>1, <2>1, InertStep DEF Inert, Fewer, Ending, NewStates, Chain, ChainTypes
<1>3. CASE HasEntry(c)
  <2>1. PICK e \in Entries : e = connEntry[c]
    BY <1>3 DEF HasEntry
  <2>2. e # NoEntry /\ state[e] # "FREE" /\ \A d \in Conns : connEntry[d] = e => d = c
    BY <2>1, ConnAssumption DEF EntryHasOneOwner
  <2>3. PICK l \in {"known", "zero"} :
          /\ l = "known" => tcp[c] = "open"
          /\ address' = [address EXCEPT ![e] = [laddr |-> l, port |-> address[e].port]]
          /\ hash' = <<e>> \o Without(hash, {e})
    BY <1>3, <2>1 DEF UpdateConnInfo, SetTcpConnLocal, At
  <2>4. ~ Going /\ ~ Going' /\ unload # "done"
    BY <1>1, <1>3 DEF Chain, Going, HasEntry
  <2>5. /\ hash \in Seq(Entries) /\ Injective(hash)
        /\ Elements(hash) = {f \in Entries : state[f] # "FREE"}
        /\ e \in Elements(hash)
    BY <2>2, <2>4 DEF Chain, ChainTypes
  <2>6. PICK t : /\ t = Without(hash, {e}) /\ t \in Seq(Entries) /\ Injective(t)
                 /\ Elements(t) = Elements(hash) \ {e}
                 /\ \A d, f : Ahead(t, d, f) => Ahead(hash, d, f)
    BY <2>5, WithoutFacts
  <2>7. /\ hash' \in Seq(Entries) /\ Injective(hash')
        /\ Elements(hash') = Elements(t) \cup {e}
        /\ \A d, f : Ahead(hash', d, f) => d = e \/ Ahead(t, d, f)
        /\ \A d : ~ Ahead(hash', d, e)
    <3>1. e \notin Elements(t)
      BY <2>6
    <3> QED BY <2>3, <2>6, <3>1, PushFacts
  <2>8. Elements(hash') = {f \in Entries : state'[f] # "FREE"}
    BY <1>1, <2>5, <2>6, <2>7
  <2>9. /\ address[e].port \in Ports \cup {NoPort}
        /\ address'[e] = [laddr |-> l, port |-> address[e].port]
        /\ \A f \in Entries : f # e => address'[f] = address[f]
    BY <2>3 DEF Chain, ChainTypes
  <2>10. ChainTypes'
    BY <1>1, <2>3, <2>7, <2>9 DEF Chain, ChainTypes
  <2>11. \A f \in Entries : address'[f].port = address[f].port
    BY <2>9
  <2>12. \A d \in Conns : Live(d)' <=> Live(d)
    BY <1>1 DEF Live
  <2>13. \A d \in Conns : connEntry[d] # NoEntry => connEntry[d] \in Entries
    OBVIOUS
  <2>14. ASSUME NEW d \in Conns
         PROVE  First(d)'
    <3> SUFFICES ASSUME Live(d), connEntry[d] # NoEntry,
                        address'[connEntry[d]].laddr = "known",
                        NEW f \in Entries, address'[f] = address'[connEntry[d]],
                        Ahead(hash', f, connEntry[d])
                 PROVE  FALSE
      BY <1>1, <2>12 DEF First
    <3>1. connEntry[d] # e /\ d # c
      BY <2>1, <2>7
    <3>2. address'[connEntry[d]] = address[connEntry[d]]
      BY <2>9, <2>13, <3>1
    <3>3. CASE f = e
      <4>1. tcp[c] = "open" /\ address[e].port = address[connEntry[d]].port
        BY <2>3, <2>9, <3>2, <3>3
      <4>2. Live(c) /\ address[e].port = port[c] /\ address[connEntry[d]].port = port[d]
        BY <2>1, <2>2, <4>1 DEF Chain, Live
      <4> QED BY <3>1, <4>1, <4>2 DEF Chain
    <3>4. CASE f # e
      <4>1. address[f] = address[connEntry[d]] /\ Ahead(hash, f, connEntry[d])
        BY <2>6, <2>7, <2>9, <3>2, <3>4
      <4>2. First(d)
        BY DEF Chain
      <4> QED BY <3>2, <4>1, <4>2 DEF First
    <3> QED BY <3>3, <3>4
  <2>15. \A d \in Conns : Live(d)' /\ connEntry'[d] # NoEntry => address'[connEntry'[d]].port = port'[d]
    BY <1>1, <2>11, <2>12, <2>13 DEF Chain
  <2>16. \A d, f \in Conns : Live(d)' /\ Live(f)' /\ port'[d] = port'[f] => d = f
    BY <1>1, <2>12 DEF Chain
  <2> QED BY <1>1, <2>4, <2>7, <2>8, <2>10, <2>14, <2>15, <2>16 DEF Chain
<1> QED BY <1>2, <1>3

\* conn_thread takes entries out of the chain that belong to no connection.
LEMMA SweepChain ==
    ASSUME IInv, Chain, ConnThreadSweep
    PROVE  Chain'
<1> USE DEF IInv, Table, TableTypes
<1>1. /\ state' = [e \in Entries |-> IF e \in Expired THEN "FREE" ELSE state[e]]
      /\ address' = [e \in Entries |-> IF e \in Expired THEN NoAddress ELSE address[e]]
      /\ hash' = Without(hash, Expired)
      /\ UNCHANGED <<object, connEntry, disconnect, newState, tcp, port, unload>>
  BY DEF ConnThreadSweep, requests, disconnecting, tcpVars
<1>2. \A c \in Conns : connEntry[c] \notin Expired
  BY DEF Expired, Closed, EntryHasOneOwner
<1>3. /\ hash \in Seq(Entries) /\ Injective(hash)
      /\ unload # "done" => Elements(hash) = {f \in Entries : state[f] # "FREE"}
  BY DEF Chain, ChainTypes
<1>4. /\ hash' \in Seq(Entries) /\ Injective(hash')
      /\ Elements(hash') = Elements(hash) \ Expired
      /\ \A d, f : Ahead(hash', d, f) => Ahead(hash, d, f)
  BY <1>1, <1>3, WithoutFacts
<1>5. ChainTypes'
  BY <1>1, <1>4 DEF Chain, ChainTypes, NoAddress
<1>6. unload' # "done" => Elements(hash') = {f \in Entries : state'[f] # "FREE"}
  BY <1>1, <1>3, <1>4
<1>7. \A f \in Entries : state'[f] # "NONE"
  BY <1>1 DEF Chain
<1>8. \A d \in Conns : Live(d)' <=> Live(d)
  BY <1>1 DEF Live
<1>9. \A d \in Conns : connEntry[d] # NoEntry =>
        connEntry[d] \in Entries /\ address'[connEntry[d]] = address[connEntry[d]]
  BY <1>1, <1>2
<1>10. ASSUME NEW d \in Conns
       PROVE  First(d)'
  <2> SUFFICES ASSUME Live(d), connEntry[d] # NoEntry,
                      address'[connEntry[d]].laddr = "known",
                      NEW f \in Entries, address'[f] = address'[connEntry[d]],
                      Ahead(hash', f, connEntry[d])
               PROVE  FALSE
    BY <1>1, <1>8 DEF First
  <2>1. f \notin Expired
    BY <1>1 DEF NoAddress
  <2>2. address[f] = address[connEntry[d]] /\ Ahead(hash, f, connEntry[d])
    BY <1>1, <1>4, <1>9, <2>1
  <2>3. First(d)
    BY DEF Chain
  <2> QED BY <1>9, <2>2, <2>3 DEF First
<1>11. \A d \in Conns : Live(d)' /\ connEntry'[d] # NoEntry => address'[connEntry'[d]].port = port'[d]
  BY <1>1, <1>8, <1>9 DEF Chain
<1>12. \A d, f \in Conns : Live(d)' /\ Live(f)' /\ port'[d] = port'[f] => d = f
  BY <1>1, <1>8 DEF Chain
<1> QED BY <1>1, <1>4, <1>5, <1>6, <1>7, <1>10, <1>11, <1>12 DEF Chain, Going

\* A step that begins no connection, unloads nothing and works on the table
\* by one of its operations.
LEMMA OpStep ==
    ASSUME IInv, Chain, NEW c \in Conns, TableOp(c), Fewer, NewStates',
           \/ UNCHANGED <<object, unload>>
           \/ unload \in {"no", "tables"} /\ unload' \in {"no", "tables"}
    PROVE  Chain'
<1>1. Inert
  BY TableOpIsInert DEF IInv
<1>2. Ending
  BY DEF Ending
<1> QED BY <1>1, <1>2, InertStep

\* An object that is open keeps the driver loaded.
LEMMA OpenIsLoaded ==
    ASSUME Chain, NEW c \in Conns, object[c] # "none"
    PROVE  unload \in {"no", "tables"}
BY DEF Chain, ChainTypes, Going

\* A step that leaves what TCP has begins no connection ...
LEMMA SameConns ==
    ASSUME Chain, UNCHANGED <<tcp, port>>
    PROVE  Fewer
BY DEF Chain, ChainTypes, Fewer

\* ... nor does one that ends a connection.
LEMMA TcpStopsIsFewer ==
    ASSUME IInv, Chain, NEW c \in Conns, TcpStops(c)
    PROVE  Fewer
<1>1. tcp' = [tcp EXCEPT ![c] = "none"] /\ port' = [port EXCEPT ![c] = NoPort]
  BY DEF TcpStops
<1>2. /\ port \in [Conns -> Ports \cup {NoPort}]
      /\ tcp \in [Conns -> {"none", "connecting", "accepting", "open"}]
  BY DEF Chain, ChainTypes, IInv, ConnTypes
<1> QED BY <1>1, <1>2 DEF Fewer

\* A step that leaves the disconnect requests leaves the states they are to set.
LEMMA SameStates ==
    ASSUME Chain, UNCHANGED <<disconnect, newState>>
    PROVE  NewStates'
BY DEF Chain, NewStates

\* A request of the client keeps the invariant of the chain.
LEMMA ClientChain ==
    ASSUME Reuse = FALSE, IInv, Chain, NEW c \in Conns, Client(c)
    PROVE  Chain'
<1> USE DEF disconnecting, tcpVars
<1>1. CASE Create(c)
  <2>1. unload \in {"no", "tables"} /\ unload' \in {"no", "tables"}
    BY <1>1 DEF Create
  <2>2. TableOp(c) /\ Fewer /\ NewStates'
    BY <1>1, SameConns, SameStates DEF Create, TableOp, requests
  <2> QED BY <2>1, <2>2, OpStep
<1>2. ASSUME NEW p \in Ports, Connect(c, p)
      PROVE  Chain'
  <2>1. PICK e \in Entries : AddTcpConn(c, e, p, "SYN_SENT")
    BY <1>2 DEF Connect
  <2>2. "SYN_SENT" \in TcpStates \ {"NONE"}
    BY DEF TcpStates
  <2>3. /\ TcpStarts(c, p, "connecting") /\ PortIsFree(p)
        /\ object[c] = "open" /\ connEntry[c] = NoEntry /\ tcp[c] = "none"
        /\ UNCHANGED <<object, unload, disconnect, newState>>
    BY <1>2 DEF Connect, Idle
  <2> QED BY <2>1, <2>2, <2>3, BeginStep
<1>3. CASE DisconnectRead(c)
  <2>1. NewStates'
    <3>1. PICK s \in Uninitialized : newState' = [newState EXCEPT ![c] = s]
      BY <1>3 DEF DisconnectRead
    <3>2. disconnect' = [disconnect EXCEPT ![c] = "set"]
      BY <1>3 DEF DisconnectRead
    <3>3. newState \in [Conns -> TcpStates] /\ s # "NONE"
          /\ disconnect \in [Conns -> {"none", "set", "release", "abort", "done", "failed"}]
      BY DEF IInv, ConnTypes, Uninitialized
    <3> QED BY <3>1, <3>2, <3>3 DEF NewStates, Chain
  <2>2. TableOp(c) /\ Fewer /\ UNCHANGED <<object, unload>>
    BY <1>3, SameConns DEF DisconnectRead, TableOp
  <2> QED BY <2>1, <2>2, OpStep
<1>4. CASE DisconnectSet(c)
  <2>1. newState[c] \in TcpStates \ {"NONE"}
    BY <1>4 DEF DisconnectSet, IInv, ConnTypes, Chain
  <2>2. TableOp(c)
    BY <1>4, <2>1 DEF DisconnectSet, TableOp
  <2>3. Fewer /\ UNCHANGED <<object, unload>>
    BY <1>4, SameConns DEF DisconnectSet
  <2>4. NewStates'
    BY <1>4 DEF DisconnectSet, NewStates, Chain, IInv, ConnTypes
  <2> QED BY <2>2, <2>3, <2>4, OpStep
<1>5. CASE DisconnectAbort(c)
  <2>1. "CLOSED" \in TcpStates \ {"NONE"}
    BY DEF TcpStates
  <2>2. TableOp(c) /\ Fewer /\ UNCHANGED <<object, unload>>
    BY <1>5, <2>1, SameConns DEF DisconnectAbort, TableOp
  <2>3. NewStates'
    BY <1>5 DEF DisconnectAbort, NewStates, Chain, IInv, ConnTypes
  <2> QED BY <2>2, <2>3, OpStep
<1>6. CASE Cleanup(c)
  <2>1. unload \in {"no", "tables"} /\ unload' = unload
    BY <1>6, OpenIsLoaded DEF Cleanup
  <2>2. TableOp(c) /\ Fewer /\ NewStates'
    BY <1>6, SameConns, SameStates DEF Cleanup, TableOp, requests
  <2> QED BY <2>1, <2>2, OpStep
<1>7. CASE Close(c)
  <2>1. unload \in {"no", "tables"} /\ unload' = unload
    BY <1>7, OpenIsLoaded DEF Close
  <2>2. TableOp(c) /\ Fewer /\ NewStates'
    BY <1>7, SameConns, SameStates DEF Close, TableOp, requests
  <2> QED BY <2>1, <2>2, OpStep
<1> QED BY <1>1, <1>2, <1>3, <1>4, <1>5, <1>6, <1>7 DEF Client

\* So does a connection that the client has accepted ...
LEMMA EventConnectChain ==
    ASSUME Reuse = FALSE, IInv, Chain, NEW c \in Conns, NEW p \in Ports, EventConnect(c, p)
    PROVE  Chain'
<1> USE DEF disconnecting, tcpVars
<1>1. connEntry[c] = NoEntry /\ UNCHANGED <<object, unload, disconnect, newState>>
  BY DEF EventConnect
<1>2. CASE \E e \in Entries : AddTcpConn(c, e, p, "SYN_RCVD") /\ TcpStarts(c, p, "accepting")
  <2>1. PICK e \in Entries : AddTcpConn(c, e, p, "SYN_RCVD") /\ TcpStarts(c, p, "accepting")
    BY <1>2
  <2>2. "SYN_RCVD" \in TcpStates \ {"NONE"}
    BY DEF TcpStates
  <2>3. PortIsFree(p) /\ object[c] = "open" /\ tcp[c] = "none"
    BY DEF EventConnect, Idle
  <2> QED BY <1>1, <2>1, <2>2, <2>3, BeginStep
<1>3. CASE UNCHANGED <<connEntry, table, tcp, port>>
  <2>1. TableOp(c) /\ Fewer /\ NewStates'
    BY <1>1, <1>3, SameConns, SameStates DEF TableOp
  <2> QED BY <1>1, <2>1, OpStep
<1> QED BY <1>1, <1>2, <1>3 DEF EventConnect

\* ... and what TCP does.
LEMMA TcpChain ==
    ASSUME Reuse = FALSE, IInv, Chain, NEW c \in Conns, Tcp(c)
    PROVE  Chain'
<1> USE DEF disconnecting, tcpVars
<1>0. \A s \in {"ESTABLISHED_OUT", "ESTABLISHED_IN", "FIN_WAIT2", "CLOSE_WAIT", "TIME_WAIT"} :
        s \in TcpStates \ {"NONE"}
  BY DEF TcpStates, Established
<1>1. CASE TcpConnects(c)
  <2>1. TableOp(c) /\ NewStates' /\ UNCHANGED <<object, unload>>
    BY <1>1, SameStates DEF TcpConnects, TableOp
  <2>2. CASE tcp' = [tcp EXCEPT ![c] = "open"] /\ port' = port
    <3>1. tcp[c] # "none"
      BY <1>1 DEF TcpConnects, IInv, Links
    <3>2. Fewer
      BY <2>2, <3>1 DEF Fewer, Chain, ChainTypes, IInv, ConnTypes
    <3> QED BY <2>1, <3>2, OpStep
  <2>3. CASE TcpStops(c)
    BY <2>1, <2>3, TcpStopsIsFewer, OpStep
  <2> QED BY <1>1, <2>2, <2>3 DEF TcpConnects
<1>2. CASE ConnectComplete(c)
  <2>1. TableOp(c)
    BY <1>0, <1>2 DEF ConnectComplete, TableOp
  <2>2. Fewer /\ NewStates' /\ UNCHANGED <<object, unload>>
    BY <1>2, SameConns, SameStates DEF ConnectComplete
  <2> QED BY <2>1, <2>2, OpStep
<1>3. CASE TcpDisconnects(c)
  <2>1. TableOp(c) /\ UNCHANGED <<object, unload>>
    BY <1>3 DEF TcpDisconnects, TableOp
  <2>2. NewStates'
    BY <1>3 DEF TcpDisconnects, NewStates, Chain, IInv, ConnTypes
  <2>3. Fewer
    BY <1>3, TcpStopsIsFewer, SameConns DEF TcpDisconnects
  <2> QED BY <2>1, <2>2, <2>3, OpStep
<1>4. CASE DisconnectComplete(c)
  <2>1. TableOp(c)
    BY <1>0, <1>4 DEF DisconnectComplete, TableOp
  <2>2. NewStates'
    BY <1>4 DEF DisconnectComplete, NewStates, Chain, IInv, ConnTypes
  <2>3. Fewer /\ UNCHANGED <<object, unload>>
    BY <1>4, SameConns DEF DisconnectComplete
  <2> QED BY <2>1, <2>2, <2>3, OpStep
<1>5. CASE EventDisconnectRead(c)
  <2>1. TableOp(c) /\ Fewer /\ NewStates' /\ UNCHANGED <<object, unload>>
    BY <1>5, SameConns, SameStates DEF EventDisconnectRead, TableOp
  <2> QED BY <2>1, OpStep
<1>6. CASE EventDisconnectSet(c)
  <2>1. event[c] \in TcpStates \ {"NONE"}
    BY <1>0, <1>6 DEF EventDisconnectSet, IInv, ConnTypes
  <2>2. TableOp(c)
    BY <1>6, <2>1 DEF EventDisconnectSet, TableOp
  <2>3. Fewer /\ NewStates' /\ UNCHANGED <<object, unload>>
    BY <1>6, SameConns, SameStates DEF EventDisconnectSet
  <2> QED BY <2>2, <2>3, OpStep
<1>7. CASE EventDisconnectAbort(c)
  <2>1. TableOp(c) /\ Fewer /\ NewStates' /\ UNCHANGED <<object, unload>>
    BY <1>7, TcpStopsIsFewer, SameStates DEF EventDisconnectAbort, TableOp, requests
  <2> QED BY <2>1, OpStep
<1>8. CASE TcpCloses(c)
  <2>1. TableOp(c) /\ Fewer /\ NewStates' /\ UNCHANGED <<object, unload>>
    BY <1>8, TcpStopsIsFewer, SameStates DEF TcpCloses, TableOp, requests
  <2> QED BY <2>1, OpStep
<1>9. CASE TcpCleanup(c)
  <2>1. TableOp(c) /\ Fewer /\ NewStates' /\ UNCHANGED <<object, unload>>
    BY <1>9, TcpStopsIsFewer, SameStates DEF TcpCleanup, TableOp
  <2> QED BY <2>1, OpStep
<1> QED BY <1>1, <1>2, <1>3, <1>4, <1>5, <1>6, <1>7, <1>8, <1>9, EventConnectChain DEF Tcp

\* OnUnload frees the objects' entries, and at last the table.
LEMMA UnloadChain ==
    ASSUME IInv, Chain, ConnStateFree
    PROVE  Chain'
<1> USE DEF disconnecting, tcpVars, requests
<1>1. CASE unload' = "thread"
  <2>1. /\ UNCHANGED <<object, connEntry, state, address, hash, tcp, port, disconnect, newState>>
        /\ unload = "tables" /\ \A c \in Conns : object[c] = "none"
    BY <1>1 DEF ConnStateFree
  <2>2. Inert
    BY <2>1 DEF Inert, Chain
  <2>3. Fewer /\ NewStates'
    BY <2>1, SameConns, SameStates
  <2>4. Ending
    BY <1>1, <2>1 DEF Ending
  <2> QED BY <2>2, <2>3, <2>4, InertStep
<1>2. CASE unload' = "done"
  <2>1. /\ UNCHANGED <<object, connEntry, state, address, tcp, port, disconnect, newState>>
        /\ unload = "thread" /\ hash' = <<>>
    BY <1>2 DEF ConnStateFree
  <2>2. <<>> \in Seq(Entries) /\ Injective(<<>>) /\ \A d, f : ~ Ahead(<<>>, d, f)
    BY DEF Injective, Ahead
  <2>3. ChainTypes'
    BY <1>2, <2>1, <2>2 DEF Chain, ChainTypes
  <2>4. \A c \in Conns : First(c)'
    BY <2>1, <2>2 DEF First
  <2>5. \A d \in Conns : Live(d)' <=> Live(d)
    BY <2>1 DEF Live
  <2> QED BY <1>2, <2>1, <2>2, <2>3, <2>4, <2>5 DEF Chain, Going
<1> QED BY <1>1, <1>2 DEF ConnStateFree

\* Every step keeps the invariant of the chain ...
LEMMA NextChain ==
    ASSUME Reuse = FALSE, IInv, Chain, [Next]_vars
    PROVE  Chain'
<1> USE DEF disconnecting, tcpVars, requests, table
<1>1. ASSUME NEW c \in Conns, OtFree(c)
      PROVE  Chain'
  <2>1. unload \in {"no", "tables"} /\ unload' \in {"no", "tables"}
    BY <1>1 DEF OtFree
  <2>2. TableOp(c) /\ Fewer /\ NewStates'
    BY <1>1, SameConns, SameStates DEF OtFree, TableOp
  <2> QED BY <2>1, <2>2, OpStep
<1>2. ASSUME UNCHANGED <<object, connEntry, state, address, hash, tcp, port, disconnect,
                         newState, unload>>
      PROVE  Chain'
  <2>1. Inert
    BY <1>2 DEF Inert, Chain
  <2>2. Fewer /\ NewStates' /\ Ending
    BY <1>2, SameConns, SameStates DEF Ending
  <2> QED BY <2>1, <2>2, InertStep
<1>3. CASE ConnThreadCheck
  BY <1>2, <1>3 DEF ConnThreadCheck
<1>4. CASE Tick
  BY <1>2, <1>4 DEF Tick
<1>5. CASE UNCHANGED vars
  BY <1>2, <1>5 DEF vars
<1> QED BY <1>1, <1>3, <1>4, <1>5, ClientChain, TcpChain, LocalStep, SweepChain, UnloadChain
        DEF Next, ConnThread

\* ... which holds initially ...
LEMMA InitChain == Init => Chain
<1> SUFFICES ASSUME Init
             PROVE  Chain
  OBVIOUS
<1>1. <<>> \in Seq(Entries) /\ Injective(<<>>) /\ Elements(<<>>) = {}
  BY DEF Injective, Elements
<1>2. ChainTypes
  BY <1>1 DEF Init, ChainTypes, NoAddress
<1>3. \A c \in Conns : First(c)
  BY DEF Init, First
<1> QED BY <1>1, <1>2, <1>3, ConnAssumption DEF Init, Chain, Going, Live

\* ... and therefore always.
LEMMA ChainHolds ==
    ASSUME Reuse = FALSE
    PROVE  Spec => []Chain
<1>1. IInv /\ Chain /\ [Next]_vars => Chain'
  BY NextChain
<1> QED BY <1>1, InitChain, InvariantHolds, PTL DEF Spec

\* The entry that a packet finds is the first of those with its address.
LEMMA FirstIsFound ==
    ASSUME IInv, Chain, NEW c \in Conns, Live(c), HasEntry(c),
           address[connEntry[c]].laddr = "known"
    PROVE  GetTcpConnState("known", port[c]) = state[connEntry[c]]
<1> DEFINE e == connEntry[c]
           a == [laddr |-> "known", port |-> port[c]]
           found == {k \in DOMAIN hash : address[hash[k]] = a}
<1>1. e \in Entries /\ e # NoEntry /\ state[e] # "FREE"
  BY ConnAssumption DEF HasEntry, IInv, Table, TableTypes, EntryHasOneOwner
<1>2. unload # "done"
  BY OpenIsLoaded DEF HasEntry
<1>3. address[e] = a
  <2>1. address[e] \in [laddr : {"any", "known", "zero"}, port : Ports \cup {NoPort}]
    BY <1>1 DEF Chain, ChainTypes
  <2>2. address[e].port = port[c]
    BY <1>1 DEF Chain
  <2> QED BY <2>1, <2>2
<1>4. PICK k \in DOMAIN hash : hash[k] = e
  BY <1>1, <1>2 DEF Chain, Elements
<1>5. hash \in Seq(Entries) /\ DOMAIN hash = 1..Len(hash)
  BY DEF Chain, ChainTypes
<1>6. ASSUME NEW j \in found
      PROVE  k <= j
  <2>1. j \in DOMAIN hash /\ hash[j] \in Entries /\ address[hash[j]] = address[e]
    BY <1>3, <1>5
  <2>2. ~ Ahead(hash, hash[j], e)
    BY <1>1, <2>1 DEF Chain, First
  <2>3. ~ j < k
    BY <1>4, <2>1, <2>2 DEF Ahead
  <2> QED BY <1>5, <2>1, <2>3
<1>7. k \in found
  BY <1>3, <1>4
<1>8. Min(found) = k
  <2>1. \E x \in found : \A y \in found : x <= y
    BY <1>6, <1>7
  <2>2. Min(found) \in found /\ \A y \in found : Min(found) <= y
    BY <2>1 DEF Min
  <2>3. Min(found) \in Int /\ k \in Int
    BY <1>5, <2>2
  <2> HIDE DEF found
  <2> QED BY <1>6, <1>7, <2>2, <2>3
<1>9. GetTcpConnState("known", port[c]) = state[hash[Min(found)]]
  BY <1>7 DEF GetTcpConnState
<1> QED BY <1>4, <1>8, <1>9

\* check_packet finds the state of the connection that TCP has, and not of an
\* entry that was closed, or left, before it; and the chain has each entry in
\* use, once.
THEOREM Lookup ==
    ASSUME Reuse = FALSE
    PROVE  Spec => []LookupFindsConnection
<1>1. IInv /\ Chain => LookupFindsConnection
  <2> SUFFICES ASSUME IInv, Chain
               PROVE  LookupFindsConnection
    OBVIOUS
  <2>1. HashHasEntries
    BY DEF Chain, HashHasEntries, Elements, Injective
  <2>2. ASSUME NEW c \in Conns, tcp[c] # "none", HasEntry(c),
               address[connEntry[c]].laddr = "known"
        PROVE  CheckPacket(port[c]) = StateOf(c)
    <3>1. GetTcpConnState("known", port[c]) = state[connEntry[c]]
      BY <2>2, FirstIsFound DEF Live
    <3>2. connEntry[c] \in Entries
      BY <2>2, OwnerIsOpen DEF IInv, HasEntry
    <3>3. state[connEntry[c]] # "NONE"
      BY <3>2 DEF Chain
    <3> QED BY <2>2, <3>1, <3>3 DEF CheckPacket, StateOf
  <2> QED BY <2>1, <2>2 DEF LookupFindsConnection, PacketFindsConnection
<1> QED BY <1>1, ChainHolds, InvariantHolds, PTL

\* What TypeOK says of the rest.
RestTypes ==
    /\ age \in [Entries -> 0..MaxAge]
    /\ thread \in {"wait", "check", "exit"}
    /\ workItem \in [Conns -> BOOLEAN]

\* The operations of the table leave an entry's age, or set it to 0.
LEMMA OpAge ==
    ASSUME IInv, RestTypes, NEW c \in Conns, TableOp(c)
    PROVE  age' \in [Entries -> 0..MaxAge]
<1>1. connEntry[c] # NoEntry => connEntry[c] \in Entries
  BY DEF IInv, Table, TableTypes
<1>2. age' = age \/ \E e \in Entries : age' = [age EXCEPT ![e] = 0]
  BY <1>1 DEF TableOp, DelTcpConn, DelTcpConnObj, SetTcpConnState, HasEntry, table
<1>3. 0 \in 0..MaxAge
  BY ConnAssumption
<1> QED BY <1>2, <1>3 DEF RestTypes

\* Every step keeps the types.
LEMMA RestStep ==
    ASSUME Reuse = FALSE, IInv, Chain, RestTypes, [Next]_vars
    PROVE  RestTypes'
<1> USE DEF disconnecting, tcpVars, requests, threadVars
<1>0. \A s \in {"ESTABLISHED_OUT", "ESTABLISHED_IN", "FIN_WAIT2", "CLOSED"} :
        s \in TcpStates \ {"NONE"}
  BY DEF TcpStates, Established
<1>1. ASSUME NEW c \in Conns, TableOp(c), UNCHANGED <<thread, workItem>>
      PROVE  RestTypes'
  BY <1>1, OpAge DEF RestTypes
<1>2. ASSUME NEW c \in Conns, NEW e \in Entries, NEW p \in Ports, NEW s,
             AddTcpConn(c, e, p, s), UNCHANGED <<thread, workItem>>
      PROVE  RestTypes'
  BY <1>2, ConnAssumption DEF AddTcpConn, RestTypes
<1>3. ASSUME NEW c \in Conns, Client(c)
      PROVE  RestTypes'
  <2>1. ASSUME NEW p \in Ports, Connect(c, p)
        PROVE  RestTypes'
    BY <1>2, <2>1 DEF Connect
  <2>2. CASE DisconnectSet(c)
    <3>1. newState[c] \in TcpStates \ {"NONE"}
      BY <2>2 DEF DisconnectSet, IInv, ConnTypes, Chain
    <3> QED BY <1>1, <2>2, <3>1 DEF DisconnectSet, TableOp
  <2>3. CASE DisconnectAbort(c)
    BY <1>0, <1>1, <2>3 DEF DisconnectAbort, TableOp
  <2>4. CASE Create(c) \/ DisconnectRead(c) \/ Cleanup(c) \/ Close(c)
    BY <1>1, <2>4 DEF Create, DisconnectRead, Cleanup, Close, TableOp
  <2> QED BY <1>3, <2>1, <2>2, <2>3, <2>4 DEF Client
<1>4. ASSUME NEW c \in Conns, Tcp(c)
      PROVE  RestTypes'
  <2>1. ASSUME NEW p \in Ports, EventConnect(c, p)
        PROVE  RestTypes'
    <3>1. CASE \E e \in Entries : AddTcpConn(c, e, p, "SYN_RCVD")
      BY <1>2, <2>1, <3>1 DEF EventConnect
    <3>2. CASE UNCHANGED <<connEntry, table>>
      BY <1>1, <2>1, <3>2 DEF EventConnect, TableOp
    <3> QED BY <2>1, <3>1, <3>2 DEF EventConnect
  <2>2. CASE ConnectComplete(c)
    <3>1. TableOp(c)
      BY <1>0, <2>2 DEF ConnectComplete, TableOp
    <3>2. workItem' \in [Conns -> BOOLEAN] /\ UNCHANGED thread
      BY <2>2 DEF ConnectComplete, RestTypes, HasEntry
    <3> QED BY <3>1, <3>2, OpAge DEF RestTypes
  <2>3. CASE DisconnectComplete(c)
    BY <1>0, <1>1, <2>3 DEF DisconnectComplete, TableOp
  <2>4. CASE EventDisconnectSet(c)
    <3>1. event[c] \in TcpStates \ {"NONE"}
      BY <2>4 DEF EventDisconnectSet, IInv, ConnTypes, TcpStates
    <3> QED BY <1>1, <2>4, <3>1 DEF EventDisconnectSet, TableOp
  <2>5. CASE TcpConnects(c) \/ TcpDisconnects(c) \/ EventDisconnectRead(c) \/ TcpCloses(c)
             \/ TcpCleanup(c) \/ EventDisconnectAbort(c)
    BY <1>1, <2>5 DEF TcpConnects, TcpDisconnects, EventDisconnectRead, TcpCloses, TcpCleanup,
                      EventDisconnectAbort, TableOp
  <2> QED BY <1>4, <2>1, <2>2, <2>3, <2>4, <2>5 DEF Tcp
<1>5. ASSUME NEW c \in Conns, UpdateConnInfo(c)
      PROVE  RestTypes'
  BY <1>5 DEF UpdateConnInfo, SetTcpConnLocal, RestTypes
<1>6. ASSUME NEW c \in Conns, OtFree(c)
      PROVE  RestTypes'
  BY <1>1, <1>6 DEF OtFree, TableOp
<1>7. CASE ConnThreadSweep
  BY <1>7, ConnAssumption DEF ConnThreadSweep, RestTypes
<1>8. CASE ConnThreadCheck
  BY <1>8 DEF ConnThreadCheck, RestTypes, table
<1>9. CASE Tick
  <2>1. /\ age' = [e \in Entries |-> IF e \in Closed THEN age[e] + 1 ELSE age[e]]
        /\ \A e \in Closed : age[e] < MaxAge
        /\ UNCHANGED <<thread, workItem>>
    BY <1>9 DEF Tick
  <2>2. \A e \in Closed : age[e] + 1 \in 0..MaxAge
    BY <2>1, ConnAssumption DEF RestTypes, Closed
  <2> QED BY <2>1, <2>2 DEF RestTypes
<1>10. CASE ConnStateFree
  BY <1>10 DEF ConnStateFree, RestTypes
<1>11. CASE UNCHANGED vars
  BY <1>11 DEF vars, table, RestTypes
<1> QED BY <1>3, <1>4, <1>5, <1>6, <1>7, <1>8, <1>9, <1>10, <1>11 DEF Next, ConnThread

\* Every variable has its type, and an entry's age stays below the bound.
THEOREM TypeCorrect ==
    ASSUME Reuse = FALSE
    PROVE  Spec => []TypeOK
<1>1. Init => RestTypes
  BY ConnAssumption DEF Init, RestTypes
<1>2. IInv /\ Chain /\ RestTypes /\ [Next]_vars => RestTypes'
  BY RestStep
<1>3. IInv /\ Chain /\ RestTypes => TypeOK
  BY DEF IInv, Table, TableTypes, ConnTypes, Chain, ChainTypes, RestTypes, TypeOK
<1> QED BY <1>1, <1>2, <1>3, InvariantHolds, ChainHolds, PTL DEF Spec
=============================================================================
