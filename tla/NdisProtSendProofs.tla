------------------------- MODULE NdisProtSendProofs -------------------------
(***************************************************************************)
(* Proofs about the send side of an open context, for any number of writes *)
(* and for both builds.                                                     *)
(***************************************************************************)
EXTENDS NdisProtSend, TLAPS, FiniteSetTheorems

\* The writes that PendedSendCount counts.
Pended == {w \in Writes : IsOutstanding(w) /\ scPc[w] # "deref"}

\* Where a write, its packet and its cancel routine are with each other.
Linked(w) ==
    /\ pc[w] = "idle" => irpStatus[w] = "unsent"
    /\ irpStatus[w] = "dispatched" <=> pc[w] = "wrLock"
    /\ irpStatus[w] = "pending" <=> IsOutstanding(w) /\ scPc[w] \notin {"count", "deref"}
    /\ pc[w] # "done" => ndis[w] = "none"
    /\ ndis[w] = "completed" <=> scPc[w] # "idle"
    /\ irpRoutine[w] => NDIS51 /\ pc[w] \in {"wrSend", "done"} /\ cancelPc[w] = "idle"
    /\ cancelPc[w] # "idle" => pc[w] \in {"wrSend", "done"}
    /\ w \in PendedWrites => IsOutstanding(w) /\ scPc[w] \in {"idle", "clear", "unlink"}
    /\ scPc[w] \in {"clear", "unlink"} => NDIS51
    /\ pktRefs[w] = (IF IsOutstanding(w) /\ scPc[w] \notin {"complete", "count", "deref"} THEN 1 ELSE 0)
                    + (IF cancelPc[w] \in {"cancel", "deref"} THEN 1 ELSE 0)
    /\ pktState[w] = "allocated" <=> pktRefs[w] > 0

\* The counts that Close and Unbind rely on.
Counted == RefCountIsExact /\ PendedSendCount = Cardinality(Pended)

\* How far Unbind and Close have come, and what is over by then.
Unwound ==
    /\ bindState = "ACTIVE" <=> pnpPc = "idle"
    /\ pnpPc \in {"close", "setIdle", "freePools", "deref", "done"} => Pended = {}
    /\ BindingHandle <=> pnpPc \in {"idle", "wait", "close"}
    /\ ~BindingHandle => \A w \in Writes : ~IsOutstanding(w)
    /\ ~SendPacketPool => pnpPc \in {"deref", "done"}
    /\ fileState = "closed" => \A w \in Writes : ~FileReferenced(w)
    /\ freed => Holders = {}

IInv == TypeOK /\ (\A w \in Writes : Linked(w)) /\ Counted /\ Unwound

\* A write neither begins nor ends to be outstanding, and so for the count.
Same == Holders' = Holders /\ Pended' = Pended

-----------------------------------------------------------------------------
(* The sets that are counted                                               *)

\* Holders is finite, as the writes are.
LEMMA HoldersFinite == IsFiniteSet(Holders) /\ IsFiniteSet(Pended)
<1> DEFINE tag == [w \in Writes |-> <<"write", w>>]
           T == {<<"write", w>> : w \in Writes}
           All == (T \cup {<<"open", "file">>}) \cup {<<"binding", "pnp">>}
<1>1. tag \in Surjection(Writes, T)
  BY DEF Surjection
<1>2. IsFiniteSet(T)
  BY <1>1, WritesAssumption, FS_Surjection
<1>3. IsFiniteSet(All)
  BY <1>2, FS_AddElement
<1>4. Holders \subseteq All
  BY DEF Holders
<1>5. Pended \subseteq Writes
  BY DEF Pended
<1>. QED BY <1>3, <1>4, <1>5, WritesAssumption, FS_Subset

\* What the members of Holders are.
LEMMA HoldersAre ==
    /\ \A w \in Writes : <<"write", w>> \in Holders <=> IsOutstanding(w)
    /\ <<"open", "file">> \in Holders <=> fileState # "closed"
    /\ <<"binding", "pnp">> \in Holders <=> pnpPc # "done"
  BY DEF Holders

\* Holders changes only with what it is made of.
LEMMA HoldersSame ==
    ASSUME fileState' = "closed" <=> fileState = "closed", pnpPc' = "done" <=> pnpPc = "done",
           \A w \in Writes : IsOutstanding(w)' <=> IsOutstanding(w)
    PROVE  Holders' = Holders
  BY DEF Holders

-----------------------------------------------------------------------------
(* Types and links                                                         *)

LEMMA InitCorrect == Init => IInv
<1> SUFFICES ASSUME Init PROVE IInv
  OBVIOUS
<1>1. TypeOK
  <2>1. cancelPc \in [Writes -> IF NDIS51 THEN {"idle", "lock", "cancel", "deref", "done"}
                               ELSE {"idle"}]
    BY DEF Init
  <2>2. PendedWrites \subseteq (IF NDIS51 THEN Writes ELSE {})
    BY DEF Init
  <2>3. irpRoutine \in [Writes -> BOOLEAN] /\ irpCancel \in [Writes -> BOOLEAN]
    BY DEF Init
  <2>4. /\ pktRefs \in [Writes -> Int] /\ RefCount \in Int /\ PendedSendCount \in Int
    BY DEF Init
  <2>5. NDIS51 \in BOOLEAN /\ BindingHandle \in BOOLEAN /\ SendPacketPool \in BOOLEAN /\ freed \in BOOLEAN
    BY DEF Init
  <2>. QED BY <2>1, <2>2, <2>3, <2>4, <2>5 DEF Init, TypeOK
<1>2. \A w \in Writes : Linked(w)
  BY DEF Init, Linked, IsOutstanding
<1>3. Pended = {} /\ Holders = {<<"open", "file">>} \cup {<<"binding", "pnp">>}
  BY DEF Init, Pended, Holders, IsOutstanding
<1>4. Cardinality({<<"open", "file">>} \cup {<<"binding", "pnp">>}) = 2
  <2> DEFINE F == {<<"open", "file">>}
             b == <<"binding", "pnp">>
  <2>1. IsFiniteSet(F) /\ Cardinality(F) = 1
    BY FS_Singleton
  <2>2. b \notin F
    OBVIOUS
  <2> HIDE DEF F, b
  <2>3. Cardinality(F \cup {b}) = 2
    BY <2>1, <2>2, FS_AddElement
  <2>. QED BY <2>3 DEF F, b
<1>5. Counted
  BY <1>3, <1>4, FS_EmptySet DEF Init, Counted, RefCountIsExact
<1>6. Unwound
  BY <1>3 DEF Init, Unwound, IsOutstanding
<1>. QED BY <1>1, <1>2, <1>5, <1>6 DEF IInv

\* Every step keeps the types.
LEMMA TypeStep == TypeOK /\ (\A w \in Writes : Linked(w)) /\ [Next]_vars => TypeOK'
<1> SUFFICES ASSUME TypeOK, \A w \in Writes : Linked(w), [Next]_vars PROVE TypeOK'
  OBVIOUS
<1> USE DEF TypeOK, Goto, GotoSc, GotoCancel, GotoPnp, Complete, RefOpen, DerefOpen, DerefPacket,
            bindVars, refVars, sendVars, irpVars, pktVars, pcVars
<1>1. ASSUME NEW w \in Writes, SubmitWrite(w) PROVE TypeOK'
  BY <1>1 DEF SubmitWrite
<1>2. ASSUME NEW w \in Writes, FailWrite(w) PROVE TypeOK'
  BY <1>2 DEF FailWrite
<1>3. ASSUME NEW w \in Writes, PendWrite(w) PROVE TypeOK'
  BY <1>3 DEF PendWrite
<1>4. ASSUME NEW w \in Writes, SendPacket(w) PROVE TypeOK'
  BY <1>4 DEF SendPacket
<1>5. ASSUME NEW w \in Writes, CancelIrp(w) PROVE TypeOK'
  <2>1. CASE irpRoutine[w]
    BY <1>5, <2>1 DEF CancelIrp, Linked
  <2>2. CASE ~irpRoutine[w]
    BY <1>5, <2>2 DEF CancelIrp
  <2>. QED BY <2>1, <2>2
<1>6. ASSUME NEW w \in Writes, CancelWriteLookup(w) PROVE TypeOK'
  BY <1>6 DEF CancelWriteLookup
<1>7. ASSUME NEW w \in Writes, CancelWriteNdis(w) PROVE TypeOK'
  BY <1>7 DEF CancelWriteNdis
<1>8. ASSUME NEW w \in Writes, CancelWriteDeref(w) PROVE TypeOK'
  BY <1>8 DEF CancelWriteDeref
<1>9. ASSUME NEW w \in Writes, MiniportCompletes(w) PROVE TypeOK'
  BY <1>9 DEF MiniportCompletes
<1>10. ASSUME NEW w \in Writes, SendCompleteClear(w) PROVE TypeOK'
  BY <1>10 DEF SendCompleteClear
<1>11. ASSUME NEW w \in Writes, SendCompleteUnlink(w) PROVE TypeOK'
  BY <1>11 DEF SendCompleteUnlink
<1>12. ASSUME NEW w \in Writes, SendCompleteDerefPacket(w) PROVE TypeOK'
  BY <1>12 DEF SendCompleteDerefPacket
<1>13. ASSUME NEW w \in Writes, SendCompleteIrp(w) PROVE TypeOK'
  BY <1>13 DEF SendCompleteIrp
<1>14. ASSUME NEW w \in Writes, SendCompleteCount(w) PROVE TypeOK'
  BY <1>14 DEF SendCompleteCount
<1>15. ASSUME NEW w \in Writes, SendCompleteDeref(w) PROVE TypeOK'
  BY <1>15 DEF SendCompleteDeref
<1>16. CASE Cleanup
  BY <1>16 DEF Cleanup
<1>17. CASE Close
  BY <1>17 DEF Close
<1>18. CASE Unbind
  BY <1>18 DEF Unbind
<1>19. CASE WaitForPendingSends
  BY <1>19 DEF WaitForPendingSends
<1>20. CASE CloseAdapter
  BY <1>20 DEF CloseAdapter
<1>21. CASE SetBindIdle
  BY <1>21 DEF SetBindIdle
<1>22. CASE FreeBindResources
  BY <1>22 DEF FreeBindResources
<1>23. CASE ShutdownReturn
  BY <1>23 DEF ShutdownReturn
<1>24. CASE UNCHANGED vars
  BY <1>24 DEF vars
<1>. QED
  BY <1>1, <1>2, <1>3, <1>4, <1>5, <1>6, <1>7, <1>8, <1>9, <1>10,
     <1>11, <1>12, <1>13, <1>14, <1>15, <1>16, <1>17, <1>18, <1>19, <1>20,
     <1>21, <1>22, <1>23, <1>24
  DEF Next, Environment, WriteThread, CancelWrite, SendComplete, ShutdownBinding

\* Every step keeps the places of IRP, packet and thread of a write together.
LEMMA LinkStep ==
    TypeOK /\ (\A w \in Writes : Linked(w)) /\ [Next]_vars => \A w \in Writes : Linked(w)'
<1> SUFFICES ASSUME TypeOK, \A w \in Writes : Linked(w), [Next]_vars, NEW v \in Writes
             PROVE  Linked(v)'
  OBVIOUS
<1>0. Linked(v)
  OBVIOUS
<1> USE DEF TypeOK, Linked, IsOutstanding, Goto, GotoSc, GotoCancel, GotoPnp, Complete, RefOpen,
            DerefOpen, DerefPacket, bindVars, refVars, sendVars, irpVars, pktVars, pcVars
<1>1. ASSUME NEW w \in Writes, SubmitWrite(w) PROVE Linked(v)'
  BY <1>0, <1>1 DEF SubmitWrite
<1>2. ASSUME NEW w \in Writes, FailWrite(w) PROVE Linked(v)'
  BY <1>0, <1>2 DEF FailWrite
<1>3. ASSUME NEW w \in Writes, PendWrite(w) PROVE Linked(v)'
  BY <1>0, <1>3 DEF PendWrite
<1>4. ASSUME NEW w \in Writes, SendPacket(w) PROVE Linked(v)'
  BY <1>0, <1>4 DEF SendPacket
<1>5. ASSUME NEW w \in Writes, CancelIrp(w) PROVE Linked(v)'
  <2>1. CASE irpRoutine[w]
    BY <1>0, <1>5, <2>1 DEF CancelIrp
  <2>2. CASE ~irpRoutine[w]
    BY <1>0, <1>5, <2>2 DEF CancelIrp
  <2>. QED BY <2>1, <2>2
<1>6. ASSUME NEW w \in Writes, CancelWriteLookup(w) PROVE Linked(v)'
  BY <1>0, <1>6 DEF CancelWriteLookup
<1>7. ASSUME NEW w \in Writes, CancelWriteNdis(w) PROVE Linked(v)'
  BY <1>0, <1>7 DEF CancelWriteNdis
<1>8. ASSUME NEW w \in Writes, CancelWriteDeref(w) PROVE Linked(v)'
  BY <1>0, <1>8 DEF CancelWriteDeref
<1>9. ASSUME NEW w \in Writes, MiniportCompletes(w) PROVE Linked(v)'
  BY <1>0, <1>9 DEF MiniportCompletes
<1>10. ASSUME NEW w \in Writes, SendCompleteClear(w) PROVE Linked(v)'
  BY <1>0, <1>10 DEF SendCompleteClear
<1>11. ASSUME NEW w \in Writes, SendCompleteUnlink(w) PROVE Linked(v)'
  BY <1>0, <1>11 DEF SendCompleteUnlink
<1>12. ASSUME NEW w \in Writes, SendCompleteDerefPacket(w) PROVE Linked(v)'
  BY <1>0, <1>12 DEF SendCompleteDerefPacket
<1>13. ASSUME NEW w \in Writes, SendCompleteIrp(w) PROVE Linked(v)'
  BY <1>0, <1>13 DEF SendCompleteIrp
<1>14. ASSUME NEW w \in Writes, SendCompleteCount(w) PROVE Linked(v)'
  BY <1>0, <1>14 DEF SendCompleteCount
<1>15. ASSUME NEW w \in Writes, SendCompleteDeref(w) PROVE Linked(v)'
  BY <1>0, <1>15 DEF SendCompleteDeref
<1>16. CASE Cleanup
  BY <1>0, <1>16 DEF Cleanup
<1>17. CASE Close
  BY <1>0, <1>17 DEF Close
<1>18. CASE Unbind
  BY <1>0, <1>18 DEF Unbind
<1>19. CASE WaitForPendingSends
  BY <1>0, <1>19 DEF WaitForPendingSends
<1>20. CASE CloseAdapter
  BY <1>0, <1>20 DEF CloseAdapter
<1>21. CASE SetBindIdle
  BY <1>0, <1>21 DEF SetBindIdle
<1>22. CASE FreeBindResources
  BY <1>0, <1>22 DEF FreeBindResources
<1>23. CASE ShutdownReturn
  BY <1>0, <1>23 DEF ShutdownReturn
<1>24. CASE UNCHANGED vars
  BY <1>0, <1>24 DEF vars
<1>. QED
  BY <1>1, <1>2, <1>3, <1>4, <1>5, <1>6, <1>7, <1>8, <1>9, <1>10,
     <1>11, <1>12, <1>13, <1>14, <1>15, <1>16, <1>17, <1>18, <1>19, <1>20,
     <1>21, <1>22, <1>23, <1>24
  DEF Next, Environment, WriteThread, CancelWrite, SendComplete, ShutdownBinding

-----------------------------------------------------------------------------
(* The counts                                                              *)

\* What a step does to the sets, and to what counts them.
Effect ==
    \/ Same /\ UNCHANGED <<refVars, PendedSendCount>>
    \/ \E w \in Writes :
          /\ bindState = "ACTIVE" /\ <<"write", w>> \notin Holders /\ w \notin Pended
          /\ Holders' = Holders \cup {<<"write", w>>} /\ Pended' = Pended \cup {w}
          /\ RefOpen /\ PendedSendCount' = PendedSendCount + 1
    \/ \E w \in Pended :
          /\ Holders' = Holders /\ Pended' = Pended \ {w}
          /\ UNCHANGED refVars /\ PendedSendCount' = PendedSendCount - 1
    \/ \E h \in Holders :
          /\ Holders' = Holders \ {h} /\ Pended' = Pended
          /\ DerefOpen /\ UNCHANGED PendedSendCount

\* Most steps change neither a count nor what is counted.
LEMMA Quiet ==
    ASSUME TypeOK, \A w \in Writes : Linked(w), Unwound,
           \/ UNCHANGED vars
           \/ \E w \in Writes :
                 \/ SubmitWrite(w) \/ FailWrite(w) \/ SendPacket(w) \/ CancelIrp(w)
                 \/ CancelWriteLookup(w) \/ CancelWriteNdis(w) \/ CancelWriteDeref(w)
                 \/ MiniportCompletes(w) \/ SendCompleteClear(w) \/ SendCompleteUnlink(w)
                 \/ SendCompleteDerefPacket(w) \/ SendCompleteIrp(w)
           \/ Cleanup \/ Unbind \/ WaitForPendingSends \/ CloseAdapter
           \/ SetBindIdle \/ FreeBindResources
    PROVE  /\ Same /\ UNCHANGED <<refVars, PendedSendCount>>
           /\ \A v \in Writes : IsOutstanding(v)' <=> IsOutstanding(v)
<1> DEFINE P == /\ \A v \in Writes : /\ IsOutstanding(v)' <=> IsOutstanding(v)
                                     /\ (scPc'[v] = "deref") <=> (scPc[v] = "deref")
                /\ UNCHANGED <<refVars, PendedSendCount>>
                /\ fileState' = "closed" <=> fileState = "closed"
                /\ pnpPc' = "done" <=> pnpPc = "done"
<1>a. P
  <2> USE DEF TypeOK, Linked, IsOutstanding, Goto, GotoSc, GotoCancel, GotoPnp, bindVars, refVars,
              sendVars, irpVars, pktVars, pcVars
  <2>1. ASSUME NEW w \in Writes, SubmitWrite(w) PROVE P
    BY <2>1 DEF SubmitWrite
  <2>2. ASSUME NEW w \in Writes, FailWrite(w) PROVE P
    BY <2>2 DEF FailWrite
  <2>3. ASSUME NEW w \in Writes, SendPacket(w) PROVE P
    BY <2>3 DEF SendPacket
  <2>4. ASSUME NEW w \in Writes, CancelIrp(w) PROVE P
    BY <2>4 DEF CancelIrp
  <2>5. ASSUME NEW w \in Writes, CancelWriteLookup(w) PROVE P
    BY <2>5 DEF CancelWriteLookup
  <2>6. ASSUME NEW w \in Writes, CancelWriteNdis(w) PROVE P
    BY <2>6 DEF CancelWriteNdis
  <2>7. ASSUME NEW w \in Writes, CancelWriteDeref(w) PROVE P
    BY <2>7 DEF CancelWriteDeref
  <2>8. ASSUME NEW w \in Writes, MiniportCompletes(w) PROVE P
    BY <2>8 DEF MiniportCompletes
  <2>9. ASSUME NEW w \in Writes, SendCompleteClear(w) PROVE P
    BY <2>9 DEF SendCompleteClear
  <2>10. ASSUME NEW w \in Writes, SendCompleteUnlink(w) PROVE P
    BY <2>10 DEF SendCompleteUnlink
  <2>11. ASSUME NEW w \in Writes, SendCompleteDerefPacket(w) PROVE P
    BY <2>11 DEF SendCompleteDerefPacket
  <2>12. ASSUME NEW w \in Writes, SendCompleteIrp(w) PROVE P
    BY <2>12 DEF SendCompleteIrp
  <2>13. CASE Cleanup
    BY <2>13 DEF Cleanup
  <2>14. CASE Unbind
    BY <2>14 DEF Unbind
  <2>15. CASE WaitForPendingSends
    BY <2>15 DEF WaitForPendingSends
  <2>16. CASE CloseAdapter
    BY <2>16 DEF CloseAdapter
  <2>17. CASE SetBindIdle
    BY <2>17 DEF SetBindIdle
  <2>18. CASE FreeBindResources
    BY <2>18 DEF FreeBindResources
  <2>19. CASE UNCHANGED vars
    BY <2>19 DEF vars
  <2> HIDE DEF P
  <2>. QED BY <2>1, <2>2, <2>3, <2>4, <2>5, <2>6, <2>7, <2>8, <2>9, <2>10,
            <2>11, <2>12, <2>13, <2>14, <2>15, <2>16, <2>17, <2>18, <2>19
<1>b. Holders' = Holders
  BY <1>a, HoldersSame
<1>c. Pended' = Pended
  BY <1>a DEF Pended
<1>. QED BY <1>a, <1>b, <1>c DEF Same

\* A write that is accepted is outstanding, and counted.
LEMMA Accepts ==
    ASSUME TypeOK, \A v \in Writes : Linked(v), NEW w \in Writes, PendWrite(w)
    PROVE  /\ bindState = "ACTIVE" /\ <<"write", w>> \notin Holders /\ w \notin Pended
           /\ Holders' = Holders \cup {<<"write", w>>} /\ Pended' = Pended \cup {w}
           /\ RefOpen /\ PendedSendCount' = PendedSendCount + 1
<1> USE DEF TypeOK, Linked, Goto, bindVars
<1>1. /\ ~IsOutstanding(w) /\ IsOutstanding(w)' /\ scPc'[w] # "deref"
      /\ \A v \in Writes \ {w} : IsOutstanding(v)' <=> IsOutstanding(v)
      /\ scPc' = scPc /\ fileState' = fileState /\ pnpPc' = pnpPc
  BY DEF PendWrite, IsOutstanding
<1>2. Holders' = Holders \cup {<<"write", w>>} /\ <<"write", w>> \notin Holders
  BY <1>1 DEF Holders
<1>3. Pended' = Pended \cup {w} /\ w \notin Pended
  BY <1>1 DEF Pended
<1>. QED BY <1>2, <1>3 DEF PendWrite, IsBound

\* Every step has one of the effects that the count depends on.
LEMMA Effects ==
    ASSUME TypeOK, \A w \in Writes : Linked(w), Unwound, [Next]_vars
    PROVE  Effect
<1> USE DEF TypeOK, Linked, Goto, GotoSc, GotoPnp, bindVars, refVars, sendVars, irpVars, pktVars
<1>1. ASSUME NEW w \in Writes, PendWrite(w) PROVE Effect
  BY <1>1, Accepts DEF Effect
<1>2. ASSUME NEW w \in Writes, SendCompleteCount(w) PROVE Effect
  <2>1. /\ IsOutstanding(w) /\ scPc[w] # "deref" /\ scPc'[w] = "deref"
        /\ \A v \in Writes : IsOutstanding(v)' <=> IsOutstanding(v)
        /\ \A v \in Writes \ {w} : scPc'[v] = scPc[v]
        /\ fileState' = fileState /\ pnpPc' = pnpPc
    BY <1>2 DEF SendCompleteCount, IsOutstanding
  <2>2. Holders' = Holders
    BY <2>1, HoldersSame
  <2>3. w \in Pended /\ Pended' = Pended \ {w}
    BY <2>1 DEF Pended
  <2>. QED BY <1>2, <2>2, <2>3 DEF SendCompleteCount, Effect
<1>3. ASSUME NEW w \in Writes, SendCompleteDeref(w) PROVE Effect
  <2>1. /\ IsOutstanding(w) /\ ~IsOutstanding(w)' /\ scPc[w] = "deref"
        /\ \A v \in Writes \ {w} : (IsOutstanding(v)' <=> IsOutstanding(v)) /\ scPc'[v] = scPc[v]
        /\ fileState' = fileState /\ pnpPc' = pnpPc
    BY <1>3 DEF SendCompleteDeref, IsOutstanding
  <2>2. <<"write", w>> \in Holders /\ Holders' = Holders \ {<<"write", w>>}
    BY <2>1 DEF Holders
  <2>3. Pended' = Pended
    BY <2>1 DEF Pended
  <2>. QED BY <1>3, <2>2, <2>3 DEF SendCompleteDeref, Effect
<1>4. CASE Close
  <2>1. /\ fileState # "closed" /\ fileState' = "closed" /\ pnpPc' = pnpPc
        /\ \A v \in Writes : IsOutstanding(v)' <=> IsOutstanding(v)
        /\ scPc' = scPc
    BY <1>4 DEF Close, IsOutstanding, pcVars
  <2>2. <<"open", "file">> \in Holders /\ Holders' = Holders \ {<<"open", "file">>}
    BY <2>1 DEF Holders
  <2>3. Pended' = Pended
    BY <2>1 DEF Pended
  <2>. QED BY <1>4, <2>2, <2>3 DEF Close, Effect
<1>5. CASE ShutdownReturn
  <2>1. /\ pnpPc # "done" /\ pnpPc' = "done" /\ fileState' = fileState
        /\ \A v \in Writes : IsOutstanding(v)' <=> IsOutstanding(v)
        /\ scPc' = scPc
    BY <1>5 DEF ShutdownReturn, IsOutstanding
  <2>2. <<"binding", "pnp">> \in Holders /\ Holders' = Holders \ {<<"binding", "pnp">>}
    BY <2>1 DEF Holders
  <2>3. Pended' = Pended
    BY <2>1 DEF Pended
  <2>. QED BY <1>5, <2>2, <2>3 DEF ShutdownReturn, Effect
<1>. QED
  BY <1>1, <1>2, <1>3, <1>4, <1>5, Quiet DEF Effect, Next, Environment, WriteThread, CancelWrite,
     SendComplete, ShutdownBinding

\* Each effect keeps the count equal to the number of holders.
LEMMA CountStep ==
    ASSUME TypeOK, Counted, Effect
    PROVE  Counted'
<1> USE HoldersFinite DEF TypeOK, Counted, RefCountIsExact, RefOpen, DerefOpen, refVars
<1>1. CASE Same /\ UNCHANGED <<refVars, PendedSendCount>>
  BY <1>1 DEF Same
<1>2. ASSUME NEW w \in Writes, <<"write", w>> \notin Holders, w \notin Pended,
             Holders' = Holders \cup {<<"write", w>>}, Pended' = Pended \cup {w},
             RefOpen, PendedSendCount' = PendedSendCount + 1
      PROVE  Counted'
  <2>1. Cardinality(Holders') = Cardinality(Holders) + 1
    BY <1>2, FS_AddElement
  <2>2. Cardinality(Pended') = Cardinality(Pended) + 1
    BY <1>2, FS_AddElement
  <2>. QED BY <1>2, <2>1, <2>2
<1>3. ASSUME NEW w \in Pended, Holders' = Holders, Pended' = Pended \ {w},
             UNCHANGED refVars, PendedSendCount' = PendedSendCount - 1
      PROVE  Counted'
  <2>1. Cardinality(Pended') = Cardinality(Pended) - 1
    BY <1>3, FS_RemoveElement
  <2>. QED BY <1>3, <2>1
<1>4. ASSUME NEW h \in Holders, Holders' = Holders \ {h}, Pended' = Pended,
             DerefOpen, UNCHANGED PendedSendCount
      PROVE  Counted'
  <2>1. Cardinality(Holders') = Cardinality(Holders) - 1
    BY <1>4, FS_RemoveElement
  <2>. QED BY <1>4, <2>1
<1>. QED BY <1>1, <1>2, <1>3, <1>4 DEF Effect

-----------------------------------------------------------------------------
(* Close and Unbind                                                        *)

\* Once nobody holds the context nobody will, and it is freed only then.
LEMMA FreedStep ==
    ASSUME TypeOK, Counted, Unwound, Effect
    PROVE  freed' => Holders' = {}
<1> USE DEF Unwound, refVars
<1>1. CASE Same /\ UNCHANGED <<refVars, PendedSendCount>>
  BY <1>1 DEF Same
<1>2. ASSUME bindState = "ACTIVE", RefOpen PROVE ~freed'
  BY <1>2, HoldersAre DEF RefOpen
<1>3. ASSUME Holders' = Holders, UNCHANGED refVars PROVE freed' => Holders' = {}
  BY <1>3
<1>4. ASSUME NEW h \in Holders, Holders' = Holders \ {h}, DerefOpen
      PROVE  freed' => Holders' = {}
  <2>1. ~freed
    BY <1>4
  <2>2. ASSUME RefCount = 1 PROVE Holders' = {}
    <3>1. Cardinality(Holders) = 1
      BY <2>2 DEF Counted, RefCountIsExact
    <3>2. PICK x : Holders = {x}
      BY <3>1, HoldersFinite, FS_Singleton
    <3>. QED BY <3>2, <1>4
  <2>. QED BY <1>4, <2>1, <2>2 DEF DerefOpen
<1>. QED BY <1>1, <1>2, <1>3, <1>4 DEF Effect

\* No write begins, and none is counted again, when Unbind has begun.
LEMMA EndedStep ==
    ASSUME TypeOK, \A w \in Writes : Linked(w), Unwound, Effect, [Next]_vars
    PROVE  /\ pnpPc # "idle" /\ Pended = {} => Pended' = {}
           /\ bindState # "ACTIVE" =>
                \A w \in Writes : ~IsOutstanding(w) => ~IsOutstanding(w)'
<1>1. pnpPc # "idle" /\ Pended = {} => Pended' = {}
  BY DEF Effect, Same, Unwound
<1>2. ASSUME bindState # "ACTIVE", NEW w \in Writes, ~IsOutstanding(w) PROVE ~IsOutstanding(w)'
  <2>1. <<"write", w>> \notin Holders
    BY <1>2, HoldersAre
  <2>2. <<"write", w>> \notin Holders'
    BY <1>2, <2>1 DEF Effect, Same
  <2>3. <<"write", w>> \in Holders' <=> IsOutstanding(w)'
    BY DEF Holders
  <2>. QED BY <2>2, <2>3
<1>. QED BY <1>1, <1>2

\* What the thread of Unbind works on is its own.
LEMMA Frame ==
    ASSUME [Next]_vars
    PROVE  \/ UNCHANGED <<bindState, BindingHandle, SendPacketPool, pnpPc>>
           \/ Unbind \/ WaitForPendingSends \/ CloseAdapter \/ SetBindIdle
           \/ FreeBindResources \/ ShutdownReturn
<1> DEFINE P == UNCHANGED <<bindState, BindingHandle, SendPacketPool, pnpPc>>
<1> USE DEF bindVars, pcVars, Goto, GotoSc, GotoCancel
<1>1. ASSUME NEW w \in Writes, SubmitWrite(w) PROVE P
  BY <1>1 DEF SubmitWrite
<1>2. ASSUME NEW w \in Writes, FailWrite(w) PROVE P
  BY <1>2 DEF FailWrite
<1>3. ASSUME NEW w \in Writes, PendWrite(w) PROVE P
  BY <1>3 DEF PendWrite
<1>4. ASSUME NEW w \in Writes, SendPacket(w) PROVE P
  BY <1>4 DEF SendPacket
<1>5. ASSUME NEW w \in Writes, CancelIrp(w) PROVE P
  BY <1>5 DEF CancelIrp
<1>6. ASSUME NEW w \in Writes, CancelWriteLookup(w) PROVE P
  BY <1>6 DEF CancelWriteLookup
<1>7. ASSUME NEW w \in Writes, CancelWriteNdis(w) PROVE P
  BY <1>7 DEF CancelWriteNdis
<1>8. ASSUME NEW w \in Writes, CancelWriteDeref(w) PROVE P
  BY <1>8 DEF CancelWriteDeref
<1>9. ASSUME NEW w \in Writes, MiniportCompletes(w) PROVE P
  BY <1>9 DEF MiniportCompletes
<1>10. ASSUME NEW w \in Writes, SendCompleteClear(w) PROVE P
  BY <1>10 DEF SendCompleteClear
<1>11. ASSUME NEW w \in Writes, SendCompleteUnlink(w) PROVE P
  BY <1>11 DEF SendCompleteUnlink
<1>12. ASSUME NEW w \in Writes, SendCompleteDerefPacket(w) PROVE P
  BY <1>12 DEF SendCompleteDerefPacket
<1>13. ASSUME NEW w \in Writes, SendCompleteIrp(w) PROVE P
  BY <1>13 DEF SendCompleteIrp
<1>14. ASSUME NEW w \in Writes, SendCompleteCount(w) PROVE P
  BY <1>14 DEF SendCompleteCount
<1>15. ASSUME NEW w \in Writes, SendCompleteDeref(w) PROVE P
  BY <1>15 DEF SendCompleteDeref
<1>16. CASE Cleanup
  BY <1>16 DEF Cleanup
<1>17. CASE Close
  BY <1>17 DEF Close
<1>18. CASE UNCHANGED vars
  BY <1>18 DEF vars
<1>. QED
  BY <1>1, <1>2, <1>3, <1>4, <1>5, <1>6, <1>7, <1>8, <1>9, <1>10,
     <1>11, <1>12, <1>13, <1>14, <1>15, <1>16, <1>17, <1>18
  DEF Next, Environment, WriteThread, CancelWrite, SendComplete, ShutdownBinding

\* A file that is closed stays closed, and is not referenced again.
LEMMA LeftStep ==
    ASSUME TypeOK, \A w \in Writes : Linked(w), [Next]_vars, fileState' = "closed",
           fileState = "closed" => \A w \in Writes : ~FileReferenced(w)
    PROVE  \A w \in Writes : ~FileReferenced(w)'
<1> SUFFICES ASSUME NEW v \in Writes PROVE ~FileReferenced(v)'
  OBVIOUS
<1>0. Linked(v)
  OBVIOUS
<1> USE DEF TypeOK, Linked, FileReferenced, Goto, GotoSc, GotoCancel, GotoPnp, Complete, bindVars,
            irpVars, pcVars
<1>1. ASSUME NEW w \in Writes, SubmitWrite(w) PROVE ~FileReferenced(v)'
  BY <1>0, <1>1 DEF SubmitWrite
<1>2. ASSUME NEW w \in Writes, FailWrite(w) PROVE ~FileReferenced(v)'
  BY <1>0, <1>2 DEF FailWrite
<1>3. ASSUME NEW w \in Writes, PendWrite(w) PROVE ~FileReferenced(v)'
  BY <1>0, <1>3 DEF PendWrite
<1>4. ASSUME NEW w \in Writes, SendPacket(w) PROVE ~FileReferenced(v)'
  BY <1>0, <1>4 DEF SendPacket
<1>5. ASSUME NEW w \in Writes, CancelIrp(w) PROVE ~FileReferenced(v)'
  BY <1>0, <1>5 DEF CancelIrp
<1>6. ASSUME NEW w \in Writes, CancelWriteLookup(w) PROVE ~FileReferenced(v)'
  BY <1>0, <1>6 DEF CancelWriteLookup
<1>7. ASSUME NEW w \in Writes, CancelWriteNdis(w) PROVE ~FileReferenced(v)'
  BY <1>0, <1>7 DEF CancelWriteNdis
<1>8. ASSUME NEW w \in Writes, CancelWriteDeref(w) PROVE ~FileReferenced(v)'
  BY <1>0, <1>8 DEF CancelWriteDeref
<1>9. ASSUME NEW w \in Writes, MiniportCompletes(w) PROVE ~FileReferenced(v)'
  BY <1>0, <1>9 DEF MiniportCompletes
<1>10. ASSUME NEW w \in Writes, SendCompleteClear(w) PROVE ~FileReferenced(v)'
  BY <1>0, <1>10 DEF SendCompleteClear
<1>11. ASSUME NEW w \in Writes, SendCompleteUnlink(w) PROVE ~FileReferenced(v)'
  BY <1>0, <1>11 DEF SendCompleteUnlink
<1>12. ASSUME NEW w \in Writes, SendCompleteDerefPacket(w) PROVE ~FileReferenced(v)'
  BY <1>0, <1>12 DEF SendCompleteDerefPacket
<1>13. ASSUME NEW w \in Writes, SendCompleteIrp(w) PROVE ~FileReferenced(v)'
  BY <1>0, <1>13 DEF SendCompleteIrp
<1>14. ASSUME NEW w \in Writes, SendCompleteCount(w) PROVE ~FileReferenced(v)'
  BY <1>0, <1>14 DEF SendCompleteCount
<1>15. ASSUME NEW w \in Writes, SendCompleteDeref(w) PROVE ~FileReferenced(v)'
  BY <1>0, <1>15 DEF SendCompleteDeref
<1>16. CASE Cleanup
  BY <1>0, <1>16 DEF Cleanup
<1>17. CASE Close
  BY <1>0, <1>17 DEF Close
<1>18. CASE Unbind
  BY <1>0, <1>18 DEF Unbind
<1>19. CASE WaitForPendingSends
  BY <1>0, <1>19 DEF WaitForPendingSends
<1>20. CASE CloseAdapter
  BY <1>0, <1>20 DEF CloseAdapter
<1>21. CASE SetBindIdle
  BY <1>0, <1>21 DEF SetBindIdle
<1>22. CASE FreeBindResources
  BY <1>0, <1>22 DEF FreeBindResources
<1>23. CASE ShutdownReturn
  BY <1>0, <1>23 DEF ShutdownReturn
<1>24. CASE UNCHANGED vars
  BY <1>0, <1>24 DEF vars
<1>. QED
  BY <1>1, <1>2, <1>3, <1>4, <1>5, <1>6, <1>7, <1>8, <1>9, <1>10,
     <1>11, <1>12, <1>13, <1>14, <1>15, <1>16, <1>17, <1>18, <1>19, <1>20,
     <1>21, <1>22, <1>23, <1>24
  DEF Next, Environment, WriteThread, CancelWrite, SendComplete, ShutdownBinding

\* The unbinding goes through its phases as the writes end.
LEMMA UnwindStep == IInv /\ [Next]_vars => Unwound'
<1> SUFFICES ASSUME IInv, [Next]_vars PROVE Unwound'
  OBVIOUS
<1>0. TypeOK /\ Counted /\ Unwound /\ \A w \in Writes : Linked(w)
  BY DEF IInv
<1>a. Effect
  BY <1>0, Effects
<1>b. /\ pnpPc # "idle" /\ Pended = {} => Pended' = {}
      /\ freed' => Holders' = {}
      /\ bindState # "ACTIVE" => \A w \in Writes : ~IsOutstanding(w) => ~IsOutstanding(w)'
  BY <1>0, <1>a, EndedStep, FreedStep
<1> DEFINE Stage == /\ bindState = "ACTIVE" <=> pnpPc = "idle"
                    /\ BindingHandle <=> pnpPc \in {"idle", "wait", "close"}
                    /\ ~SendPacketPool => pnpPc \in {"deref", "done"}
           Empty == pnpPc \in {"close", "setIdle", "freePools", "deref", "done"} => Pended = {}
           Over  == ~BindingHandle => \A w \in Writes : ~IsOutstanding(w)
           Left  == fileState = "closed" => \A w \in Writes : ~FileReferenced(w)
<1>1. Stage'
  <2>1. Stage /\ BindingHandle \in BOOLEAN /\ SendPacketPool \in BOOLEAN
    BY <1>0 DEF Unwound, TypeOK
  <2>2. CASE UNCHANGED <<bindState, BindingHandle, SendPacketPool, pnpPc>>
    BY <2>1, <2>2
  <2>3. CASE Unbind
    BY <2>1, <2>3 DEF Unbind, GotoPnp
  <2>4. CASE WaitForPendingSends \/ ShutdownReturn
    BY <2>1, <2>4 DEF WaitForPendingSends, ShutdownReturn, GotoPnp, bindVars
  <2>5. CASE CloseAdapter
    BY <2>1, <2>5 DEF CloseAdapter, GotoPnp
  <2>6. CASE SetBindIdle
    BY <2>1, <2>6 DEF SetBindIdle, GotoPnp
  <2>7. CASE FreeBindResources
    BY <2>1, <2>7 DEF FreeBindResources, GotoPnp
  <2>. QED BY <2>2, <2>3, <2>4, <2>5, <2>6, <2>7, Frame
<1>2. Empty'
  <2>1. CASE UNCHANGED pnpPc
    BY <1>0, <1>b, <2>1 DEF Unwound
  <2>2. CASE Unbind
    BY <2>2 DEF Unbind, GotoPnp
  <2>3. CASE WaitForPendingSends
    <3>1. Pended = {} /\ pnpPc = "wait"
      BY <1>0, <2>3, HoldersFinite, FS_EmptySet DEF WaitForPendingSends, Counted
    <3>. QED BY <1>b, <3>1
  <2>4. CASE CloseAdapter \/ SetBindIdle \/ FreeBindResources \/ ShutdownReturn
    <3>1. pnpPc \in {"close", "setIdle", "freePools", "deref"}
      BY <2>4 DEF CloseAdapter, SetBindIdle, FreeBindResources, ShutdownReturn
    <3>. QED BY <1>0, <1>b, <3>1 DEF Unwound
  <2>. QED BY <2>1, <2>2, <2>3, <2>4, Frame
<1>3. Over'
  <2>1. CASE UNCHANGED <<bindState, BindingHandle>> \/ SetBindIdle
    <3>1. ~BindingHandle => bindState # "ACTIVE"
      BY <1>0 DEF Unwound
    <3>. QED BY <1>0, <1>b, <2>1, <3>1 DEF Unwound, SetBindIdle
  <2>2. CASE CloseAdapter
    <3>1. \A w \in Writes : ~IsOutstanding(w)
      BY <1>0, <2>2 DEF CloseAdapter, Unwound, Pended, IsOutstanding
    <3>2. bindState # "ACTIVE"
      BY <1>0, <2>2 DEF CloseAdapter, Unwound
    <3>. QED BY <1>b, <3>1, <3>2
  <2>3. CASE Unbind
    BY <1>0, <2>3 DEF Unbind, Unwound
  <2>. QED
    BY <2>1, <2>2, <2>3, Frame DEF WaitForPendingSends, FreeBindResources, ShutdownReturn, bindVars
<1>4. Left'
  BY <1>0, LeftStep DEF Unwound
<1>. QED BY <1>b, <1>1, <1>2, <1>3, <1>4 DEF Unwound

-----------------------------------------------------------------------------
(* The theorems                                                            *)

\* The invariant above is inductive, for any number of writes (send.c).
THEOREM InvariantHolds == Spec => []IInv
<1>1. IInv /\ [Next]_vars => IInv'
  BY TypeStep, LinkStep, Effects, CountStep, UnwindStep DEF IInv
<1>. QED BY InitCorrect, <1>1, PTL DEF Spec

\* Every variable of the send path keeps its type in both builds (send.c).
THEOREM TypeCorrect == Spec => []TypeOK
<1>1. IInv => TypeOK
  BY DEF IInv
<1>. QED BY InvariantHolds, <1>1, PTL

\* RefCount is the number of the file, the binding and the outstanding writes
\* (send.c:225, 424), for any number of writes.
THEOREM RefCountCorrect == Spec => []RefCountIsExact
<1>1. IInv => RefCountIsExact
  BY DEF IInv, Counted
<1>. QED BY InvariantHolds, <1>1, PTL

\* The packet that the cancel routine works on, outside the lock, has not
\* been freed by the send completion (send.c:297-330, 396).
THEOREM CancelledHeld == Spec => []CancelledPacketIsHeld
<1>1. IInv => CancelledPacketIsHeld
  <2> SUFFICES ASSUME IInv, NEW w \in Writes, cancelPc[w] \in {"cancel", "deref"}
               PROVE  pktState[w] = "allocated"
    BY DEF CancelledPacketIsHeld
  <2>. QED BY DEF IInv, TypeOK, Linked
<1>. QED BY InvariantHolds, <1>1, PTL

\* The packet pool, the binding and the context outlive every write that uses
\* them (send.c:225, 421-424; ndisbind.c:960), for any number of writes.
THEOREM Outlived == Spec => []SendIsOutlived
<1>1. IInv => SendIsOutlived
  <2> SUFFICES ASSUME IInv PROVE SendIsOutlived
    OBVIOUS
  <2>0. TypeOK /\ Unwound /\ \A w \in Writes : Linked(w)
    BY DEF IInv
  <2>1. PoolOutlivesPackets
    <3> SUFFICES ASSUME ~SendPacketPool, NEW w \in Writes, pktState[w] = "allocated"
                 PROVE  cancelPc[w] \in {"cancel", "deref"}
      BY DEF PoolOutlivesPackets
    <3>1. ~IsOutstanding(w)
      BY <2>0 DEF Unwound
    <3>. QED BY <2>0, <3>1 DEF Linked
  <2>2. BindingOutlivesSends
    BY <2>0 DEF BindingOutlivesSends, Unwound, IsOutstanding, Linked
  <2>3. NoUseAfterFree
    <3> SUFFICES ASSUME freed PROVE NoUseAfterFree
      BY DEF NoUseAfterFree
    <3>1. fileState = "closed" /\ pnpPc = "done" /\ \A w \in Writes : ~IsOutstanding(w)
      BY <2>0, HoldersAre DEF Unwound
    <3>. QED
      BY <2>0, <3>1 DEF NoUseAfterFree, Unwound, Linked, IsOutstanding, FileReferenced, TypeOK
  <2>. QED BY <2>1, <2>2, <2>3 DEF SendIsOutlived
<1>. QED BY InvariantHolds, <1>1, PTL

=============================================================================
