------------------------- MODULE NdisProtRecvProofs -------------------------
(***************************************************************************)
(* Theorems about NdisProtRecv, for every number of reads and packets.      *)
(***************************************************************************)
EXTENDS NdisProtRecv, SequenceTheorems, FiniteSetTheorems, TLAPS

-----------------------------------------------------------------------------
(* Sequences.                                                               *)

\* RemoveAt, by which an IRP leaves the middle of PendedReads, closes the gap
\* and disturbs nothing else.
LEMMA RemoveAtProperties ==
    ASSUME NEW S, NEW s \in Seq(S), NEW i \in 1 .. Len(s)
    PROVE  /\ RemoveAt(s, i) \in Seq(S)
           /\ Len(RemoveAt(s, i)) = Len(s) - 1
           /\ \A j \in 1 .. Len(s) - 1 :
                  RemoveAt(s, i)[j] = IF j < i THEN s[j] ELSE s[j + 1]
<1> DEFINE left == SubSeq(s, 1, i - 1)
           right == SubSeq(s, i + 1, Len(s))
<1>1. Len(s) \in Nat
  BY LenProperties
<1>2. left \in Seq(S) /\ Len(left) = i - 1 /\ \A j \in 1 .. i - 1 : left[j] = s[j]
  BY <1>1, SubSeqProperties
<1>3. /\ right \in Seq(S) /\ Len(right) = Len(s) - i
      /\ \A j \in 1 .. Len(s) - i : right[j] = s[i + j]
  BY <1>1, SubSeqProperties
<1>4. RemoveAt(s, i) = left \o right
  BY DEF RemoveAt
<1> HIDE DEF left, right
<1>5. /\ left \o right \in Seq(S)
      /\ Len(left \o right) = Len(s) - 1
      /\ \A j \in 1 .. Len(s) - 1 :
            (left \o right)[j] = IF j < i THEN left[j] ELSE right[j - (i - 1)]
  <2>1. /\ left \o right \in Seq(S)
        /\ Len(left \o right) = Len(left) + Len(right)
        /\ \A j \in 1 .. Len(left) + Len(right) :
              (left \o right)[j] = IF j <= Len(left) THEN left[j] ELSE right[j - Len(left)]
    BY <1>2, <1>3, ConcatProperties
  <2>2. Len(left) + Len(right) = Len(s) - 1
    BY <1>1, <1>2, <1>3
  <2>3. \A j \in 1 .. Len(s) - 1 :
            (left \o right)[j] = IF j <= Len(left) THEN left[j] ELSE right[j - Len(left)]
    BY <2>1, <2>2
  <2>4. \A j \in 1 .. Len(s) - 1 : j <= Len(left) <=> j < i
    BY <1>1, <1>2
  <2>5. QED BY <1>2, <2>1, <2>2, <2>3, <2>4
<1>6. ASSUME NEW j \in 1 .. Len(s) - 1
      PROVE  RemoveAt(s, i)[j] = IF j < i THEN s[j] ELSE s[j + 1]
  <2>1. CASE j < i
    BY <1>1, <1>2, <1>4, <1>5, <2>1
  <2>2. CASE ~(j < i)
    <3>1. j - (i - 1) \in 1 .. Len(s) - i /\ i + (j - (i - 1)) = j + 1
      BY <1>1, <2>2
    <3>2. QED BY <1>1, <1>3, <1>4, <1>5, <2>2, <3>1
  <2>3. QED BY <2>1, <2>2
<1>7. QED BY <1>4, <1>5, <1>6

-----------------------------------------------------------------------------
(* Types.                                                                   *)

\* A thread that moves to a label of its own routine leaves every thread at
\* a label of its own routine.
LEMMA GotoLabels ==
    ASSUME LabelsOK, NEW t \in Agents, NEW label \in Labels(t), Goto(t, label)
    PROVE  LabelsOK'
<1>1. pc' \in [Agents -> UNION {Labels(u) : u \in Agents}]
  BY DEF LabelsOK, Goto
<1>2. \A u \in Agents : pc'[u] = IF u = t THEN label ELSE pc[u]
  BY DEF LabelsOK, Goto
<1>3. QED BY <1>1, <1>2 DEF LabelsOK, Labels

\* Only agents that call ndisprotServiceReads are ever in it, and so on.
LEMMA AgentLabels ==
    /\ \A t \in Reads \cup Packets : t \in Agents /\ ServiceLabels \subseteq Labels(t)
    /\ \A t \in {"cleanup", "pnp"} :
          t \in Agents /\ CancelPendingLabels \cup FlushLabels \subseteq Labels(t)
BY AgentsAssumption DEF Agents, Labels

\* One turn of the loop of ndisprotServiceReads, which takes a read and a packet
\* off their queues, keeps the types and sends the thread to a label of the loop.
LEMMA TypeServiceTurn ==
    ASSUME TypeOK, NEW t \in Reads \cup Packets, ServiceTurn(t),
           UNCHANGED <<bindVars, refVars, irpCancel, irpStatus, irpData, pktVars, cancelPc>>,
           PendedReadCount' \in Int
    PROVE  TypeOK'
<1>1. t \in Agents /\ ServiceLabels \subseteq Labels(t)
  BY AgentLabels
<1>2. CASE /\ RecvPktQueue # <<>>
           /\ \E i \in 1 .. Len(PendedReads) :
                 /\ IsFirstTakable(i)
                 /\ irpRoutine' = [irpRoutine EXCEPT ![PendedReads[i]] = FALSE]
                 /\ curIrp' = [curIrp EXCEPT ![t] = PendedReads[i]]
                 /\ PendedReads' = RemoveAt(PendedReads, i)
           /\ curPkt' = [curPkt EXCEPT ![t] = Head(RecvPktQueue)]
           /\ RecvPktQueue' = Tail(RecvPktQueue)
           /\ RecvPktCount' = RecvPktCount - 1
           /\ Goto(t, "svcDerefPkt")
  <2>1. PICK i \in 1 .. Len(PendedReads) :
            /\ irpRoutine' = [irpRoutine EXCEPT ![PendedReads[i]] = FALSE]
            /\ curIrp' = [curIrp EXCEPT ![t] = PendedReads[i]]
            /\ PendedReads' = RemoveAt(PendedReads, i)
    BY <1>2
  <2>2. PendedReads \in Seq(Reads) /\ RecvPktQueue \in Seq(Packets)
    BY DEF TypeOK, ContextTypeOK
  <2>3. PendedReads[i] \in Reads /\ PendedReads' \in Seq(Reads)
    BY <2>1, <2>2, RemoveAtProperties, ElementOfSeq
  <2>4. Head(RecvPktQueue) \in Packets /\ RecvPktQueue' \in Seq(Packets)
    BY <1>2, <2>2, HeadTailProperties
  <2>5. ContextTypeOK'
    BY <1>2, <2>3, <2>4 DEF TypeOK, ContextTypeOK, bindVars, refVars
  <2>6. DataTypeOK'
    BY <2>1 DEF TypeOK, DataTypeOK, pktVars
  <2>7. ThreadTypeOK'
    BY <1>1, <1>2, <2>1, <2>3, <2>4 DEF TypeOK, ThreadTypeOK
  <2>8. LabelsOK'
    BY <1>1, <1>2, GotoLabels DEF TypeOK, ServiceLabels
  <2>9. QED BY <2>5, <2>6, <2>7, <2>8 DEF TypeOK
<1>3. CASE /\ Goto(t, "svcDerefTemp")
           /\ UNCHANGED <<PendedReads, recvVars, irpRoutine, curVars>>
  <2>1. LabelsOK'
    BY <1>1, <1>3, GotoLabels DEF TypeOK, ServiceLabels
  <2>2. QED
    BY <1>3, <2>1 DEF TypeOK, ContextTypeOK, DataTypeOK, ThreadTypeOK, bindVars,
       refVars, recvVars, pktVars, curVars
<1>4. QED BY <1>2, <1>3 DEF ServiceTurn

\* The whole of ndisprotServiceReads keeps the types, whoever calls it.
LEMMA TypeServiceReads ==
    ASSUME TypeOK, NEW t \in Reads \cup Packets, ServiceReads(t)
    PROVE  TypeOK'
<1>1. t \in Agents /\ ServiceLabels \subseteq Labels(t)
  BY AgentLabels
<1> USE DEF TypeOK, ContextTypeOK, DataTypeOK, ThreadTypeOK, bindVars, readVars,
            recvVars, refVars, irpVars, pktVars, curVars
<1>2. CASE ServiceFirst(t)
  BY <1>2, TypeServiceTurn DEF ServiceFirst
<1>3. CASE ServiceAgain(t)
  BY <1>3, TypeServiceTurn DEF ServiceAgain
<1>4. ASSUME NEW label \in ServiceLabels, Goto(t, label) PROVE LabelsOK'
  BY <1>1, <1>4, GotoLabels DEF ServiceLabels
<1>5. CASE ServiceRef(t)
  BY <1>4, <1>5 DEF ServiceRef, RefOpen, ServiceLabels
<1>6. CASE ServiceDerefPacket(t)
  BY <1>4, <1>6 DEF ServiceDerefPacket, DerefOpen, ServiceLabels
<1>7. CASE ServiceComplete(t)
  BY <1>1, <1>4, <1>7 DEF ServiceComplete, Complete, ServiceLabels
<1>8. CASE ServiceFree(t)
  BY <1>1, <1>4, <1>8 DEF ServiceFree, FreeReceivePacket, ServiceLabels
<1>9. CASE ServiceDerefRead(t)
  BY <1>1, <1>4, <1>9 DEF ServiceDerefRead, DerefOpen, ServiceLabels
<1>10. CASE ServiceReturn(t)
  <2>1. "done" \in Labels(t)
    BY DEF Labels
  <2>2. LabelsOK'
    BY <1>1, <1>10, <2>1, GotoLabels DEF ServiceReturn
  <2>3. QED BY <1>10, <2>2 DEF ServiceReturn, DerefOpen
<1>11. QED
  BY <1>2, <1>3, <1>5, <1>6, <1>7, <1>8, <1>9, <1>10 DEF ServiceReads

\* A read that is submitted, pended, failed or cancelled keeps the types.
LEMMA TypeRead ==
    ASSUME TypeOK, NEW r \in Reads, PendRead(r) \/ FailRead(r) \/ SubmitRead(r) \/ CancelIrp(r)
    PROVE  TypeOK'
<1>1. r \in Agents /\ {"rdLock", "svcRef", "done"} \subseteq Labels(r)
  BY AgentLabels DEF Labels, ServiceLabels
<1> USE DEF TypeOK, ContextTypeOK, DataTypeOK, ThreadTypeOK, bindVars, readVars,
            recvVars, refVars, irpVars, pktVars, curVars
<1>2. CASE PendRead(r)
  <2>1. PendedReads' \in Seq(Reads)
    BY <1>2, AppendProperties DEF PendRead
  <2>2. LabelsOK'
    BY <1>1, <1>2, GotoLabels DEF PendRead
  <2>3. QED BY <1>2, <2>1, <2>2 DEF PendRead, RefOpen
<1>3. CASE FailRead(r)
  <2>1. LabelsOK'
    BY <1>1, <1>3, GotoLabels DEF FailRead
  <2>2. QED BY <1>3, <2>1 DEF FailRead, Complete
<1>4. CASE SubmitRead(r)
  <2>1. LabelsOK'
    BY <1>1, <1>4, GotoLabels DEF SubmitRead
  <2>2. QED BY <1>4, <2>1 DEF SubmitRead
<1>5. CASE CancelIrp(r)
  BY <1>5 DEF CancelIrp, LabelsOK
<1>6. QED BY <1>2, <1>3, <1>4, <1>5

\* The cancel routine, which unlinks its IRP from the middle of the queue, keeps
\* the types.
LEMMA TypeCancelRead ==
    ASSUME TypeOK, NEW r \in Reads, CancelRead(r)
    PROVE  TypeOK'
<1> USE DEF TypeOK, ContextTypeOK, DataTypeOK, ThreadTypeOK, LabelsOK, bindVars,
            readVars, recvVars, refVars, irpVars, pktVars, curVars
<1>1. CASE CancelReadUnlink(r)
  <2>1. PendedReads' \in Seq(Reads)
    BY <1>1, RemoveAtProperties DEF CancelReadUnlink
  <2>2. /\ PendedReadCount' \in {PendedReadCount - 1, PendedReadCount}
        /\ \E label \in {"complete", "done"} : cancelPc' = [cancelPc EXCEPT ![r] = label]
    BY <1>1, Zenon DEF CancelReadUnlink
  <2>3. QED BY <1>1, <2>1, <2>2 DEF CancelReadUnlink
<1>2. CASE CancelReadComplete(r)
  BY <1>2 DEF CancelReadComplete, Complete
<1>3. CASE CancelReadDeref(r)
  BY <1>3 DEF CancelReadDeref, DerefOpen
<1>4. QED BY <1>1, <1>2, <1>3 DEF CancelRead

\* An indicated packet keeps the types on every path through
\* ndisprotQueueReceivePacket: refused, queued, or queued at the cost of the oldest.
LEMMA TypeReceive ==
    ASSUME TypeOK, NEW p \in Packets,
           Receive(p) \/ IndicateMiniportPacket(p) \/ IndicateCopy(p)
    PROVE  TypeOK'
<1>1. p \in Agents /\ p \notin Reads
  BY AgentsAssumption DEF Agents
<1> USE DEF TypeOK, ContextTypeOK, DataTypeOK, ThreadTypeOK, bindVars, readVars,
            recvVars, refVars, irpVars, pktVars, curVars
<1>2. ASSUME NEW label, Goto(p, label),
             label \in {"transfer", "rcvRef", "rcvLock", "rcvDiscard", "rcvDrop",
                        "rcvDiscardDeref", "rcvDropDeref", "svcRef", "done"}
      PROVE  LabelsOK'
  <2>1. label \in Labels(p)
    BY <1>1, <1>2 DEF Labels, ServiceLabels
  <2>2. QED BY <1>1, <1>2, <2>1, GotoLabels
<1>3. CASE IndicateMiniportPacket(p)
  BY <1>2, <1>3 DEF IndicateMiniportPacket
<1>4. CASE IndicateCopy(p)
  BY <1>2, <1>4 DEF IndicateCopy
<1>5. CASE TransferDataComplete(p)
  BY <1>2, <1>5 DEF TransferDataComplete, FreeReceivePacket
<1>6. CASE QueueReceivePacketRef(p)
  BY <1>2, <1>6 DEF QueueReceivePacketRef, RefOpen
<1>7. CASE QueueReceivePacket(p)
  <2> DEFINE queue == Append(RecvPktQueue, p)
  <2>1. queue \in Seq(Packets) /\ queue # <<>>
    BY AppendProperties
  <2>2. Head(queue) \in Packets /\ Tail(queue) \in Seq(Packets)
    BY <2>1, HeadTailProperties
  <2>3. LabelsOK'
    BY <1>2, <1>7 DEF QueueReceivePacket
  <2>4. RecvPktQueue' \in {queue, Tail(queue)} /\ RecvPktCount' \in Int
    BY <1>7 DEF QueueReceivePacket
  <2>5. curPkt' \in {curPkt, [curPkt EXCEPT ![p] = Head(queue)]}
    BY <1>7 DEF QueueReceivePacket
  <2> HIDE DEF queue
  <2>6. QED BY <1>1, <1>7, <2>1, <2>2, <2>3, <2>4, <2>5 DEF QueueReceivePacket
<1>8. CASE RefuseReceivePacket(p)
  BY <1>1, <1>2, <1>8 DEF RefuseReceivePacket
<1>9. CASE DiscardFree(p)
  BY <1>2, <1>9 DEF DiscardFree, FreeReceivePacket
<1>10. CASE DiscardDeref(p)
  BY <1>1, <1>2, <1>10 DEF DiscardDeref, DerefOpen
<1>11. QED
  BY <1>3, <1>4, <1>5, <1>6, <1>7, <1>8, <1>9, <1>10 DEF Receive

\* One turn of the drain of the pended reads keeps the types.
LEMMA TypeCancelPendingTurn ==
    ASSUME TypeOK, NEW t \in {"cleanup", "pnp"}, CancelPendingTurn(t),
           UNCHANGED <<bindVars, recvVars, refVars, irpCancel, irpStatus, irpData,
                       pktVars, curPkt, cancelPc>>,
           PendedReadCount' \in Int
    PROVE  TypeOK'
<1>1. t \in Agents /\ CancelPendingLabels \subseteq Labels(t)
  BY AgentLabels
<1>2. PendedReads # <<>> => Head(PendedReads) \in Reads /\ Tail(PendedReads) \in Seq(Reads)
  BY HeadTailProperties DEF TypeOK, ContextTypeOK
<1>3. LabelsOK'
  BY <1>1, GotoLabels DEF TypeOK, CancelPendingTurn, CancelPendingLabels
<1>4. PendedReads' \in Seq(Reads)
  BY <1>2 DEF CancelPendingTurn, TypeOK, ContextTypeOK
<1>5. /\ irpRoutine' \in [Reads -> BOOLEAN]
      /\ curIrp' \in [Agents -> Reads \cup {None}]
  BY <1>1, <1>2 DEF CancelPendingTurn, TypeOK, DataTypeOK, ThreadTypeOK
<1>6. QED
  BY <1>3, <1>4, <1>5 DEF TypeOK, ContextTypeOK, DataTypeOK, ThreadTypeOK, bindVars,
     recvVars, refVars, pktVars

\* The whole of ndisprotCancelPendingReads keeps the types, for both its callers.
LEMMA TypeCancelPendingReads ==
    ASSUME TypeOK, NEW t \in {"cleanup", "pnp"}, CancelPendingReads(t)
    PROVE  TypeOK'
<1>1. t \in Agents /\ CancelPendingLabels \subseteq Labels(t)
  BY AgentLabels
<1> USE DEF TypeOK, ContextTypeOK, DataTypeOK, ThreadTypeOK, bindVars, readVars,
            recvVars, refVars, irpVars, pktVars, curVars
<1>2. ASSUME NEW label \in CancelPendingLabels, Goto(t, label) PROVE LabelsOK'
  BY <1>1, <1>2, GotoLabels DEF CancelPendingLabels
<1>3. CASE CancelPendingFirst(t)
  BY <1>3, TypeCancelPendingTurn DEF CancelPendingFirst
<1>4. CASE CancelPendingAgain(t)
  <2>1. CASE CancelPendingTurn(t)
    BY <1>4, <2>1, TypeCancelPendingTurn DEF CancelPendingAgain
  <2>2. CASE Goto(t, "cprLock") /\ UNCHANGED <<PendedReads, irpRoutine, curIrp>>
    BY <1>2, <1>4, <2>2 DEF CancelPendingAgain, CancelPendingLabels
  <2>3. QED BY <1>4, <2>1, <2>2 DEF CancelPendingAgain
<1>5. CASE CancelPendingRef(t)
  BY <1>2, <1>5 DEF CancelPendingRef, RefOpen, CancelPendingLabels
<1>6. CASE CancelPendingComplete(t)
  BY <1>2, <1>6 DEF CancelPendingComplete, Complete, CancelPendingLabels
<1>7. CASE CancelPendingDeref(t)
  BY <1>1, <1>2, <1>7 DEF CancelPendingDeref, DerefOpen, CancelPendingLabels
<1>8. CASE CancelPendingReturn(t)
  <2>1. (IF t = "cleanup" THEN "flRef" ELSE "waitReads") \in Labels(t)
    BY AgentsAssumption DEF Labels, FlushLabels
  <2>2. LabelsOK'
    BY <1>1, <1>8, <2>1, GotoLabels DEF CancelPendingReturn
  <2>3. QED BY <1>8, <2>2 DEF CancelPendingReturn, DerefOpen
<1>9. QED
  BY <1>3, <1>4, <1>5, <1>6, <1>7, <1>8 DEF CancelPendingReads

\* The whole of ndisprotFlushReceiveQueue keeps the types, for both its callers.
LEMMA TypeFlushReceiveQueue ==
    ASSUME TypeOK, NEW t \in {"cleanup", "pnp"}, FlushReceiveQueue(t)
    PROVE  TypeOK'
<1>1. t \in Agents /\ FlushLabels \subseteq Labels(t)
  BY AgentLabels
<1> USE DEF TypeOK, ContextTypeOK, DataTypeOK, ThreadTypeOK, bindVars, readVars,
            recvVars, refVars, irpVars, pktVars, curVars
<1>2. ASSUME NEW label \in FlushLabels, Goto(t, label) PROVE LabelsOK'
  BY <1>1, <1>2, GotoLabels DEF FlushLabels
<1>3. CASE FlushRef(t)
  BY <1>2, <1>3 DEF FlushRef, RefOpen, FlushLabels
<1>4. CASE FlushTurn(t)
  <2>1. RecvPktQueue # <<>> =>
            Head(RecvPktQueue) \in Packets /\ Tail(RecvPktQueue) \in Seq(Packets)
    BY HeadTailProperties
  <2>2. LabelsOK'
    BY <1>2, <1>4 DEF FlushTurn, FlushLabels
  <2>3. CASE RecvPktQueue # <<>>
    <3>1. /\ curPkt' = [curPkt EXCEPT ![t] = Head(RecvPktQueue)]
          /\ RecvPktQueue' = Tail(RecvPktQueue)
          /\ RecvPktCount' = RecvPktCount - 1
      BY <1>4, <2>3 DEF FlushTurn
    <3>2. QED BY <1>1, <1>4, <2>1, <2>2, <2>3, <3>1 DEF FlushTurn
  <2>4. CASE RecvPktQueue = <<>>
    BY <1>4, <2>2, <2>4 DEF FlushTurn
  <2>5. QED BY <2>3, <2>4
<1>5. CASE FlushFree(t)
  BY <1>2, <1>5 DEF FlushFree, FreeReceivePacket, FlushLabels
<1>6. CASE FlushDeref(t)
  BY <1>1, <1>2, <1>6 DEF FlushDeref, DerefOpen, FlushLabels
<1>7. CASE FlushReturn(t)
  <2> DEFINE label == IF t = "cleanup" THEN "closing"
                      ELSE IF bindState = "CLOSING" THEN "closeAdapter" ELSE "idle"
  <2>1. label \in Labels(t)
    BY AgentsAssumption DEF Labels
  <2>2. Goto(t, label)
    BY <1>7 DEF FlushReturn
  <2>3. LabelsOK'
    BY <1>1, <2>1, <2>2, GotoLabels
  <2>4. QED BY <1>7, <2>3 DEF FlushReturn, DerefOpen
<1>8. QED
  BY <1>3, <1>4, <1>5, <1>6, <1>7 DEF FlushReceiveQueue

\* What Cleanup, Close and ndisprotShutdownBinding do themselves keeps the types.
LEMMA TypeTeardown ==
    ASSUME TypeOK,
           Cleanup \/ Close \/ PowerDown \/ PowerUp \/ Unbind \/ ShutdownBinding
    PROVE  TypeOK'
<1>1. /\ "cleanup" \in Agents /\ {"cprRef", "done"} \subseteq Labels("cleanup")
      /\ "pnp" \in Agents
      /\ {"flRef", "cprRef", "waitReads", "setIdle", "freePools", "bindDeref", "done"}
            \subseteq Labels("pnp")
  BY AgentsAssumption DEF Agents, Labels, CancelPendingLabels, FlushLabels
<1> USE DEF TypeOK, ContextTypeOK, DataTypeOK, ThreadTypeOK, bindVars, readVars,
            recvVars, refVars, irpVars, pktVars, curVars
<1>2. CASE Cleanup
  <2>1. LabelsOK' BY <1>1, <1>2, GotoLabels DEF Cleanup
  <2>2. QED BY <1>2, <2>1 DEF Cleanup
<1>3. CASE Close
  <2>1. LabelsOK' BY <1>1, <1>3, GotoLabels DEF Close
  <2>2. QED BY <1>3, <2>1 DEF Close, DerefOpen
<1>4. CASE PowerDown
  <2>1. LabelsOK' BY <1>1, <1>4, GotoLabels DEF PowerDown
  <2>2. QED BY <1>4, <2>1 DEF PowerDown
<1>5. CASE PowerUp
  BY <1>5 DEF PowerUp, LabelsOK
<1>6. CASE Unbind
  <2>1. LabelsOK' BY <1>1, <1>6, GotoLabels DEF Unbind
  <2>2. QED BY <1>6, <2>1 DEF Unbind
<1>7. CASE ShutdownBinding
  <2>1. LabelsOK'
    BY <1>1, <1>7, GotoLabels DEF ShutdownBinding, WaitForPendingReads, CloseAdapter,
       SetBindIdle, FreeBindResources, ShutdownReturn
  <2>2. CASE WaitForPendingReads
    BY <2>1, <2>2 DEF WaitForPendingReads
  <2>3. CASE CloseAdapter
    BY <2>1, <2>3 DEF CloseAdapter
  <2>4. CASE SetBindIdle
    BY <2>1, <2>4 DEF SetBindIdle
  <2>5. CASE FreeBindResources
    BY <2>1, <2>5 DEF FreeBindResources
  <2>6. CASE ShutdownReturn
    BY <2>1, <2>6 DEF ShutdownReturn, DerefOpen
  <2>7. QED BY <1>7, <2>2, <2>3, <2>4, <2>5, <2>6 DEF ShutdownBinding
<1>8. QED BY <1>2, <1>3, <1>4, <1>5, <1>6, <1>7

\* Every step keeps the types: the induction step, by the thread that takes it.
LEMMA TypeStep == TypeOK /\ [Next]_vars => TypeOK'
<1> SUFFICES ASSUME TypeOK, [Next]_vars PROVE TypeOK'
  OBVIOUS
<1>1. CASE UNCHANGED vars
  BY <1>1 DEF vars, TypeOK, ContextTypeOK, DataTypeOK, ThreadTypeOK, LabelsOK,
     bindVars, readVars, recvVars, refVars, irpVars, pktVars, curVars
<1>2. CASE Environment
  BY <1>2, TypeRead, TypeReceive, TypeTeardown DEF Environment
<1>3. ASSUME NEW r \in Reads, ReadThread(r) \/ CancelRead(r) PROVE TypeOK'
  BY <1>3, TypeRead, TypeServiceReads, TypeCancelRead DEF ReadThread
<1>4. ASSUME NEW p \in Packets, PacketThread(p) PROVE TypeOK'
  BY <1>4, TypeReceive, TypeServiceReads DEF PacketThread
<1>5. CASE CleanupThread
  BY <1>5, TypeCancelPendingReads, TypeFlushReceiveQueue, TypeTeardown DEF CleanupThread
<1>6. CASE PnPThread
  BY <1>6, TypeCancelPendingReads, TypeFlushReceiveQueue, TypeTeardown DEF PnPThread
<1>7. QED BY <1>1, <1>2, <1>3, <1>4, <1>5, <1>6 DEF Next

\* The context that CreateBinding publishes has its types.
LEMMA TypeInit == Init => TypeOK
<1> SUFFICES ASSUME Init PROVE TypeOK
  OBVIOUS
<1>1. LabelsOK
  <2>1. \A t \in Agents : "idle" \in Labels(t)
    BY DEF Labels
  <2>2. QED BY <2>1 DEF Init, LabelsOK
<1>2. ContextTypeOK
  <2>1. <<>> \in Seq(Reads) /\ <<>> \in Seq(Packets)
    BY EmptySeq
  <2>2. /\ powerOn \in BOOLEAN /\ BindingHandle \in BOOLEAN /\ RecvPacketPool \in BOOLEAN
        /\ freed \in BOOLEAN
    BY DEF Init
  <2>3. /\ bindState = "ACTIVE" /\ fileState = "open" /\ RefCount = 2
        /\ PendedReads = <<>> /\ PendedReadCount = 0
        /\ RecvPktQueue = <<>> /\ RecvPktCount = 0
    BY DEF Init
  <2>4. QED BY <2>1, <2>2, <2>3 DEF ContextTypeOK
<1>3. DataTypeOK /\ ThreadTypeOK
  BY DEF Init, DataTypeOK, ThreadTypeOK
<1>4. QED BY <1>1, <1>2, <1>3 DEF TypeOK

\* Whatever the numbers of reads and packets, every variable keeps its type
\* and no thread strays into a routine it did not call.
THEOREM TypeCorrect == Spec => []TypeOK
<1>1. Init => TypeOK
  BY TypeInit
<1>2. TypeOK /\ [Next]_vars => TypeOK'
  BY TypeStep
<1>3. QED BY <1>1, <1>2, PTL DEF Spec

-----------------------------------------------------------------------------
(* The receive queue.                                                       *)

\* Taking the head off the queue and off its count, or leaving both alone.
LEMMA DequeueKeepsBound ==
    ASSUME TypeOK, RecvQueueIsBounded,
           \/ /\ RecvPktQueue # <<>>
              /\ RecvPktQueue' = Tail(RecvPktQueue)
              /\ RecvPktCount' = RecvPktCount - 1
           \/ UNCHANGED recvVars
    PROVE  RecvQueueIsBounded'
<1>1. CASE RecvPktQueue # <<>> /\ RecvPktQueue' = Tail(RecvPktQueue)
           /\ RecvPktCount' = RecvPktCount - 1
  <2>1. Len(Tail(RecvPktQueue)) = Len(RecvPktQueue) - 1
    BY <1>1, HeadTailProperties DEF TypeOK, ContextTypeOK
  <2>2. QED
    BY <1>1, <2>1, SizeAssumption DEF TypeOK, ContextTypeOK, RecvQueueIsBounded
<1>2. CASE UNCHANGED recvVars
  BY <1>2 DEF recvVars, RecvQueueIsBounded
<1>3. QED BY <1>1, <1>2

\* Appending a packet and, when the queue is then too long, dropping its head in
\* the same hold of the lock keeps the queue within the water mark.
LEMMA EnqueueKeepsBound ==
    ASSUME TypeOK, RecvQueueIsBounded, NEW p \in Packets, QueueReceivePacket(p)
    PROVE  RecvQueueIsBounded'
<1> DEFINE queue == Append(RecvPktQueue, p)
<1>1. /\ queue \in Seq(Packets) /\ queue # <<>>
      /\ Len(queue) = Len(RecvPktQueue) + 1
  BY AppendProperties DEF TypeOK, ContextTypeOK
<1>2. Len(Tail(queue)) = Len(queue) - 1
  BY <1>1, HeadTailProperties
<1>3. CASE IsTooLong(RecvPktCount + 1)
  <2>1. RecvPktQueue' = Tail(queue) /\ RecvPktCount' = RecvPktCount
    BY <1>3 DEF QueueReceivePacket
  <2> HIDE DEF queue
  <2>2. QED
    BY <1>1, <1>2, <2>1 DEF TypeOK, ContextTypeOK, RecvQueueIsBounded
<1>4. CASE ~IsTooLong(RecvPktCount + 1)
  <2>1. RecvPktQueue' = queue /\ RecvPktCount' = RecvPktCount + 1
    BY <1>4 DEF QueueReceivePacket
  <2> HIDE DEF queue
  <2>2. QED
    BY <1>1, <1>4, <2>1, SizeAssumption
    DEF TypeOK, ContextTypeOK, RecvQueueIsBounded, IsTooLong
<1>5. QED BY <1>3, <1>4

\* Every step keeps the bound; only three routines touch the queue at all.
LEMMA BoundStep == TypeOK /\ RecvQueueIsBounded /\ [Next]_vars => RecvQueueIsBounded'
<1> SUFFICES ASSUME TypeOK, RecvQueueIsBounded, [Next]_vars PROVE RecvQueueIsBounded'
  OBVIOUS
<1>1. CASE UNCHANGED recvVars
  BY <1>1, DequeueKeepsBound
<1>2. ASSUME NEW t \in Agents, ServiceReads(t) PROVE RecvQueueIsBounded'
  <2>1. ServiceTurn(t) \/ UNCHANGED recvVars
    BY <1>2 DEF ServiceReads, ServiceRef, ServiceFirst, ServiceDerefPacket,
       ServiceComplete, ServiceFree, ServiceDerefRead, ServiceAgain, ServiceReturn
  <2>2. QED BY <2>1, DequeueKeepsBound DEF ServiceTurn
<1>3. ASSUME NEW t \in Agents, FlushReceiveQueue(t) PROVE RecvQueueIsBounded'
  <2>1. FlushTurn(t) \/ UNCHANGED recvVars
    BY <1>3 DEF FlushReceiveQueue, FlushRef, FlushFree, FlushDeref, FlushReturn
  <2>2. QED BY <2>1, DequeueKeepsBound DEF FlushTurn
<1>4. ASSUME NEW t \in Agents, CancelPendingReads(t) PROVE UNCHANGED recvVars
  BY <1>4 DEF CancelPendingReads, CancelPendingRef, CancelPendingFirst,
     CancelPendingComplete, CancelPendingDeref, CancelPendingAgain, CancelPendingReturn
<1>5. ASSUME NEW p \in Packets, Receive(p) PROVE RecvQueueIsBounded'
  <2>1. QueueReceivePacket(p) \/ UNCHANGED recvVars
    BY <1>5 DEF Receive, TransferDataComplete, QueueReceivePacketRef,
       RefuseReceivePacket, DiscardFree, DiscardDeref
  <2>2. QED BY <1>1, <2>1, EnqueueKeepsBound
<1>6. ASSUME NEW r \in Reads, PendRead(r) \/ FailRead(r) \/ CancelRead(r)
      PROVE  UNCHANGED recvVars
  BY <1>6 DEF PendRead, FailRead, CancelRead, CancelReadUnlink, CancelReadComplete,
     CancelReadDeref
<1>7. CASE Environment
  <2>1. UNCHANGED recvVars
    BY <1>7 DEF Environment, SubmitRead, CancelIrp, IndicateMiniportPacket,
       IndicateCopy, Cleanup, PowerDown, PowerUp, Unbind
  <2>2. QED BY <1>1, <2>1
<1>8. CASE Close \/ ShutdownBinding
  <2>1. UNCHANGED recvVars
    BY <1>8 DEF Close, ShutdownBinding, WaitForPendingReads, CloseAdapter,
       SetBindIdle, FreeBindResources, ShutdownReturn
  <2>2. QED BY <1>1, <2>1
<1>9. CASE UNCHANGED vars
  BY <1>1, <1>9 DEF vars
<1>10. CASE \E r \in Reads : ReadThread(r) \/ CancelRead(r)
  BY <1>1, <1>2, <1>6, <1>10 DEF ReadThread, Agents
<1>11. CASE \E p \in Packets : PacketThread(p)
  BY <1>2, <1>5, <1>11 DEF PacketThread, Agents
<1>12. CASE CleanupThread
  BY <1>1, <1>3, <1>4, <1>8, <1>12 DEF CleanupThread, Agents
<1>13. CASE PnPThread
  BY <1>1, <1>3, <1>4, <1>8, <1>13 DEF PnPThread, Agents
<1>14. QED
  BY <1>7, <1>9, <1>10, <1>11, <1>12, <1>13 DEF Next

\* However many packets arrive, the receive queue never exceeds the water mark
\* in a state another thread can see, and the unlocked reader of RecvPktCount
\* sees its length.
THEOREM QueueBoundHolds == Spec => []RecvQueueIsBounded
<1>1. Init => RecvQueueIsBounded
  BY SizeAssumption DEF Init, RecvQueueIsBounded
<1>2. TypeOK /\ RecvQueueIsBounded /\ [Next]_vars => RecvQueueIsBounded'
  BY BoundStep
<1>3. QED BY <1>1, <1>2, TypeCorrect, PTL DEF Spec

-----------------------------------------------------------------------------
(* Every read that NdisProtRead marked pending is completed by exactly one of   *)
(* those who race for it.  The proof follows the cancel routine: while it is    *)
(* set, the queue owns the read; whoever takes it away under the lock takes the *)
(* read off the queue in the same critical section; and when the I/O manager    *)
(* takes it away, the read waits on the queue for NdisProtCancelRead.           *)

(* The inductive invariant.                                                 *)

\* No read is on PendedReads twice.
NoReadTwice ==
    \A i, j \in 1 .. Len(PendedReads) : PendedReads[i] = PendedReads[j] => i = j

\* A read is on PendedReads as long as its cancel routine is set, or called
\* and not yet under the lock.
QueuedReads ==
    \A r \in Reads :
        /\ Contains(PendedReads, r) <=> irpRoutine[r] \/ cancelPc[r] = "lock"
        /\ Contains(PendedReads, r) => irpStatus[r] = "pending"
        /\ irpRoutine[r] => cancelPc[r] = "idle"

\* A read that a thread took off the queue is that thread's alone.
TakenReads ==
    \A t \in Agents : OwnsIrp(t) =>
        /\ curIrp[t] \in Reads
        /\ ~Contains(PendedReads, curIrp[t])
        /\ irpStatus[curIrp[t]] = "pending" /\ cancelPc[curIrp[t]] = "idle"
        /\ \A u \in Agents : OwnsIrp(u) /\ curIrp[u] = curIrp[t] => u = t

\* A read that its cancel routine took off the queue is not completed yet.
CancelledReads ==
    \A r \in Reads : cancelPc[r] = "complete" =>
        irpStatus[r] = "pending" /\ ~Contains(PendedReads, r)

\* A pending read is in one of the three places.
PendingReads ==
    \A r \in Reads : irpStatus[r] = "pending" =>
        \/ Contains(PendedReads, r) \/ cancelPc[r] = "complete"
        \/ \E t \in Agents : OwnsIrp(t) /\ curIrp[t] = r

\* Before NdisProtRead has the lock nobody else has seen the IRP, and an IRP
\* is cancelled once.
NewReads ==
    \A r \in Reads :
        /\ irpStatus[r] = "unsent" => pc[r] = "idle"
        /\ pc[r] = "rdLock" => irpStatus[r] = "dispatched"
        /\ irpStatus[r] \in {"unsent", "dispatched"} => cancelPc[r] = "idle"
        /\ ~irpCancel[r] => cancelPc[r] = "idle"

\* The thread that will indicate a packet has not begun.
NewPackets == \A p \in Packets : pktState[p] = "absent" => pc[p] = "idle"

ReadInv ==
    /\ NoReadTwice /\ QueuedReads /\ TakenReads /\ CancelledReads
    /\ PendingReads /\ NewReads /\ NewPackets

-----------------------------------------------------------------------------
(* Sequences.                                                               *)

\* Taking one element out of a sequence without repetitions leaves the others,
\* and no repetition.
LEMMA RemoveOne ==
    ASSUME NEW S, NEW s \in Seq(S), NEW i \in 1 .. Len(s), NEW q,
           \A j, k \in 1 .. Len(s) : s[j] = s[k] => j = k,
           q = RemoveAt(s, i) \/ (i = 1 /\ q = Tail(s))
    PROVE  /\ \A j, k \in 1 .. Len(q) : q[j] = q[k] => j = k
           /\ \A x : Contains(q, x) <=> Contains(s, x) /\ x # s[i]
<1>1. Len(s) \in Nat
  BY LenProperties
<1>2. /\ Len(q) = Len(s) - 1
      /\ \A j \in 1 .. Len(s) - 1 : q[j] = IF j < i THEN s[j] ELSE s[j + 1]
  <2>1. CASE q = RemoveAt(s, i)
    BY <2>1, RemoveAtProperties
  <2>2. CASE i = 1 /\ q = Tail(s)
    <3>1. s # <<>>
      BY <1>1, EmptySeq
    <3>2. /\ Len(q) = Len(s) - 1
          /\ \A j \in 1 .. Len(q) : q[j] = s[j + 1]
      BY <2>2, <3>1, HeadTailProperties
    <3>3. QED BY <1>1, <2>2, <3>2
  <2>3. QED BY <2>1, <2>2
<1>3. \A j, k \in 1 .. Len(q) : q[j] = q[k] => j = k
  <2>1. SUFFICES ASSUME NEW j \in 1 .. Len(q), NEW k \in 1 .. Len(q), q[j] = q[k]
                 PROVE  j = k
    OBVIOUS
  <2> DEFINE f(n) == IF n < i THEN n ELSE n + 1
  <2>2. /\ f(j) \in 1 .. Len(s) /\ f(k) \in 1 .. Len(s)
        /\ q[j] = s[f(j)] /\ q[k] = s[f(k)]
    BY <1>1, <1>2
  <2>3. f(j) = f(k)
    BY <2>1, <2>2
  <2>4. QED BY <1>1, <1>2, <2>3
<1>4. ASSUME NEW x PROVE Contains(q, x) <=> Contains(s, x) /\ x # s[i]
  <2>1. ASSUME Contains(q, x) PROVE Contains(s, x) /\ x # s[i]
    <3>1. PICK j \in 1 .. Len(q) : q[j] = x
      BY <2>1 DEF Contains
    <3> DEFINE k == IF j < i THEN j ELSE j + 1
    <3>2. k \in 1 .. Len(s) /\ k # i /\ s[k] = x
      BY <1>1, <1>2, <3>1
    <3>3. QED BY <3>2 DEF Contains
  <2>2. ASSUME Contains(s, x), x # s[i] PROVE Contains(q, x)
    <3>1. PICK k \in 1 .. Len(s) : s[k] = x
      BY <2>2 DEF Contains
    <3> DEFINE j == IF k < i THEN k ELSE k - 1
    <3>2. k # i
      BY <2>2, <3>1
    <3>3. j \in 1 .. Len(q) /\ q[j] = x
      BY <1>1, <1>2, <3>1, <3>2
    <3>4. QED BY <3>3 DEF Contains
  <2>3. QED BY <2>1, <2>2
<1>5. QED BY <1>3, <1>4

\* Appending a new element to a sequence without repetitions.
LEMMA AppendOne ==
    ASSUME NEW S, NEW s \in Seq(S), NEW e \in S, ~Contains(s, e),
           \A j, k \in 1 .. Len(s) : s[j] = s[k] => j = k
    PROVE  LET q == Append(s, e) IN
           /\ \A j, k \in 1 .. Len(q) : q[j] = q[k] => j = k
           /\ \A x : Contains(q, x) <=> Contains(s, x) \/ x = e
<1> DEFINE q == Append(s, e)
<1>1. Len(s) \in Nat
  BY LenProperties
<1>2. /\ Len(q) = Len(s) + 1
      /\ \A j \in 1 .. Len(s) : q[j] = s[j]
      /\ q[Len(s) + 1] = e
  BY AppendProperties
<1> HIDE DEF q
<1>3. \A j \in 1 .. Len(q) : j \in 1 .. Len(s) \/ j = Len(s) + 1
  BY <1>1, <1>2
<1>4. \A j \in 1 .. Len(s) : s[j] # e
  BY DEF Contains
<1>5. \A j, k \in 1 .. Len(q) : q[j] = q[k] => j = k
  BY <1>2, <1>3, <1>4
<1>6. \A j \in 1 .. Len(s) : j \in 1 .. Len(q)
  BY <1>1, <1>2
<1>7. Len(s) + 1 \in 1 .. Len(q)
  BY <1>1, <1>2
<1>8. \A x : Contains(q, x) <=> Contains(s, x) \/ x = e
  BY <1>2, <1>3, <1>6, <1>7 DEF Contains
<1>9. QED BY <1>5, <1>8 DEF q
-----------------------------------------------------------------------------
(* Steps that concern no read's owner.                                      *)

OwnerLabels == {"svcDerefPkt", "svcComplete", "cprComplete"}

\* Nothing that ReadInv looks at changes, except that threads move on
\* between labels where they own no IRP, or between labels where they do.
Quiet ==
    /\ UNCHANGED <<PendedReads, irpRoutine, irpCancel, irpStatus, cancelPc>>
    /\ \A t \in Agents : /\ OwnsIrp(t)' <=> OwnsIrp(t)
                         /\ OwnsIrp(t) => curIrp'[t] = curIrp[t]
    /\ \A r \in Reads : /\ pc[r] = "idle" => pc'[r] = "idle"
                        /\ pc'[r] = "rdLock" => pc[r] = "rdLock"
    /\ \A p \in Packets : pktState'[p] = "absent" =>
          pktState[p] = "absent" /\ (pc[p] = "idle" => pc'[p] = "idle")

\* A quiet step keeps the invariant.
LEMMA QuietKeeps == ReadInv /\ Quiet => ReadInv'
<1> SUFFICES ASSUME ReadInv, Quiet PROVE ReadInv'
  OBVIOUS
<1>1. NoReadTwice' /\ QueuedReads' /\ CancelledReads'
  BY DEF ReadInv, NoReadTwice, QueuedReads, CancelledReads, Quiet
<1>2. TakenReads'
  BY DEF ReadInv, TakenReads, Quiet
<1>3. PendingReads'
  BY DEF ReadInv, PendingReads, Quiet
<1>4. NewReads' /\ NewPackets'
  BY DEF ReadInv, NewReads, NewPackets, Quiet
<1>5. QED BY <1>1, <1>2, <1>3, <1>4 DEF ReadInv

\* A thread inside the driver that goes on to a label of the same kind.
LEMMA QuietGoto ==
    ASSUME TypeOK, NEW t \in Agents, NEW label, Goto(t, label),
           t \in Reads \cup Packets => pc[t] # "idle", label # "rdLock",
           label \in OwnerLabels <=> OwnsIrp(t),
           UNCHANGED <<PendedReads, irpRoutine, irpCancel, irpStatus, cancelPc>>,
           \A u \in Agents : OwnsIrp(u) => curIrp'[u] = curIrp[u],
           \A p \in Packets : pktState'[p] = "absent" => pktState[p] = "absent"
    PROVE  Quiet
<1>1. \A u \in Agents : pc'[u] = IF u = t THEN label ELSE pc[u]
  BY DEF Goto, TypeOK, LabelsOK
<1>2. \A u \in Agents : OwnsIrp(u)' <=> OwnsIrp(u)
  BY <1>1 DEF OwnsIrp, OwnerLabels
<1>3. \A u \in Reads \cup Packets : u \in Agents /\ (pc[u] = "idle" => u # t)
  BY DEF Agents
<1>4. QED BY <1>1, <1>2, <1>3 DEF Quiet

\* In ndisprotServiceReads, all but taking a read and completing it.
LEMMA QuietServiceReads ==
    ASSUME TypeOK, NEW t \in Reads \cup Packets,
           \/ ServiceRef(t) \/ ServiceDerefPacket(t) \/ ServiceFree(t)
           \/ ServiceDerefRead(t) \/ ServiceReturn(t)
    PROVE  Quiet
<1>1. t \in Agents
  BY DEF Agents
<1> USE DEF TypeOK, ThreadTypeOK, OwnsIrp, OwnerLabels, readVars, irpVars, pktVars, curVars
<1>2. CASE ServiceRef(t)
  BY <1>1, <1>2, QuietGoto DEF ServiceRef
<1>3. CASE ServiceDerefPacket(t)
  BY <1>1, <1>3, QuietGoto DEF ServiceDerefPacket
<1>4. CASE ServiceFree(t)
  <2>1. \A p \in Packets : pktState'[p] = "absent" => pktState[p] = "absent"
    BY <1>4 DEF ServiceFree, FreeReceivePacket, DataTypeOK
  <2>2. QED BY <1>1, <1>4, <2>1, QuietGoto DEF ServiceFree
<1>5. CASE ServiceDerefRead(t)
  BY <1>1, <1>5, QuietGoto DEF ServiceDerefRead
<1>6. CASE ServiceReturn(t)
  BY <1>1, <1>6, QuietGoto DEF ServiceReturn
<1>7. QED BY <1>2, <1>3, <1>4, <1>5, <1>6

\* An indication, until it calls ndisprotServiceReads.
LEMMA QuietReceive ==
    ASSUME TypeOK, NewPackets, NEW p \in Packets,
           Receive(p) \/ IndicateMiniportPacket(p) \/ IndicateCopy(p)
    PROVE  Quiet
<1>1. p \in Agents
  BY DEF Agents
<1> USE DEF TypeOK, ThreadTypeOK, OwnsIrp, OwnerLabels, readVars, irpVars, pktVars, curVars
<1>2. CASE IndicateMiniportPacket(p) \/ IndicateCopy(p)
  <2>1. /\ pc[p] = "idle" /\ pktState'[p] # "absent"
        /\ \A q \in Packets : pktState'[q] = IF q = p THEN "ours" ELSE pktState[q]
    BY <1>2 DEF IndicateMiniportPacket, IndicateCopy, NewPackets, DataTypeOK
  <2>2. PICK label \in {"rcvRef", "transfer"} : Goto(p, label)
    BY <1>2 DEF IndicateMiniportPacket, IndicateCopy
  <2>3. \A u \in Agents : pc'[u] = IF u = p THEN label ELSE pc[u]
    BY <2>2 DEF Goto, LabelsOK
  <2>4. UNCHANGED <<PendedReads, irpRoutine, irpCancel, irpStatus, cancelPc, curIrp>>
    BY <1>2 DEF IndicateMiniportPacket, IndicateCopy
  <2>5. \A u \in Agents : OwnsIrp(u)' <=> OwnsIrp(u)
    BY <2>1, <2>3
  <2>6. \A u \in Reads \cup Packets : u \in Agents
    BY DEF Agents
  <2>7. p \notin Reads
    BY AgentsAssumption
  <2>8. QED BY <2>1, <2>3, <2>4, <2>5, <2>6, <2>7 DEF Quiet
<1>3. CASE TransferDataComplete(p)
  <2>1. \A q \in Packets : pktState'[q] = "absent" => pktState[q] = "absent"
    BY <1>3 DEF TransferDataComplete, FreeReceivePacket, DataTypeOK
  <2>2. QED BY <1>1, <1>3, <2>1, QuietGoto DEF TransferDataComplete
<1>4. CASE QueueReceivePacketRef(p)
  BY <1>1, <1>4, QuietGoto DEF QueueReceivePacketRef
<1>5. CASE QueueReceivePacket(p)
  BY <1>1, <1>5, QuietGoto DEF QueueReceivePacket
<1>6. CASE RefuseReceivePacket(p)
  BY <1>1, <1>6, QuietGoto DEF RefuseReceivePacket
<1>7. CASE DiscardFree(p)
  <2>1. \A q \in Packets : pktState'[q] = "absent" => pktState[q] = "absent"
    BY <1>7 DEF DiscardFree, FreeReceivePacket, DataTypeOK
  <2>2. QED BY <1>1, <1>7, <2>1, QuietGoto DEF DiscardFree
<1>8. CASE DiscardDeref(p)
  BY <1>1, <1>8, QuietGoto DEF DiscardDeref
<1>9. QED BY <1>2, <1>3, <1>4, <1>5, <1>6, <1>7, <1>8 DEF Receive

\* In ndisprotCancelPendingReads, all but taking a read and completing it.
LEMMA QuietCancelPendingReads ==
    ASSUME TypeOK, NEW t \in {"cleanup", "pnp"},
           CancelPendingRef(t) \/ CancelPendingDeref(t) \/ CancelPendingReturn(t)
    PROVE  Quiet
<1>1. t \in Agents /\ t \notin Reads \cup Packets
  BY AgentsAssumption DEF Agents
<1> USE DEF TypeOK, ThreadTypeOK, OwnsIrp, OwnerLabels, readVars, irpVars, pktVars, curVars
<1>2. CASE CancelPendingRef(t)
  BY <1>1, <1>2, QuietGoto DEF CancelPendingRef
<1>3. CASE CancelPendingDeref(t)
  BY <1>1, <1>3, QuietGoto DEF CancelPendingDeref
<1>4. CASE CancelPendingReturn(t)
  BY <1>1, <1>4, QuietGoto DEF CancelPendingReturn
<1>5. QED BY <1>2, <1>3, <1>4

\* ndisprotFlushReceiveQueue, which only handles packets.
LEMMA QuietFlushReceiveQueue ==
    ASSUME TypeOK, NEW t \in {"cleanup", "pnp"}, FlushReceiveQueue(t)
    PROVE  Quiet
<1>1. t \in Agents /\ t \notin Reads \cup Packets
  BY AgentsAssumption DEF Agents
<1> USE DEF TypeOK, ThreadTypeOK, OwnsIrp, OwnerLabels, readVars, irpVars, pktVars, curVars
<1>2. CASE FlushRef(t)
  BY <1>1, <1>2, QuietGoto DEF FlushRef
<1>3. CASE FlushTurn(t)
  BY <1>1, <1>3, QuietGoto DEF FlushTurn
<1>4. CASE FlushFree(t)
  <2>1. \A p \in Packets : pktState'[p] = "absent" => pktState[p] = "absent"
    BY <1>4 DEF FlushFree, FreeReceivePacket, DataTypeOK
  <2>2. QED BY <1>1, <1>4, <2>1, QuietGoto DEF FlushFree
<1>5. CASE FlushDeref(t)
  BY <1>1, <1>5, QuietGoto DEF FlushDeref
<1>6. CASE FlushReturn(t)
  <2> DEFINE label == IF t = "cleanup" THEN "closing"
                      ELSE IF bindState = "CLOSING" THEN "closeAdapter" ELSE "idle"
  <2>1. Goto(t, label) /\ label \notin OwnerLabels \cup {"rdLock"}
    BY <1>6 DEF FlushReturn
  <2> HIDE DEF label
  <2>2. QED BY <1>1, <1>6, <2>1, QuietGoto DEF FlushReturn
<1>7. QED BY <1>2, <1>3, <1>4, <1>5, <1>6 DEF FlushReceiveQueue

\* Cleanup, Close, power events and the shutdown of the binding themselves.
LEMMA QuietTeardown ==
    ASSUME TypeOK,
           Cleanup \/ Close \/ PowerDown \/ PowerUp \/ Unbind \/ ShutdownBinding
    PROVE  Quiet
<1>1. /\ "cleanup" \in Agents /\ "cleanup" \notin Reads \cup Packets
      /\ "pnp" \in Agents /\ "pnp" \notin Reads \cup Packets
  BY AgentsAssumption DEF Agents
<1> USE DEF TypeOK, ThreadTypeOK, OwnsIrp, OwnerLabels, readVars, irpVars, pktVars, curVars
<1>2. CASE Cleanup
  BY <1>1, <1>2, QuietGoto DEF Cleanup
<1>3. CASE Close
  BY <1>1, <1>3, QuietGoto DEF Close
<1>4. CASE PowerDown
  BY <1>1, <1>4, QuietGoto DEF PowerDown
<1>5. CASE PowerUp
  BY <1>5 DEF PowerUp, Quiet
<1>6. CASE Unbind
  BY <1>1, <1>6, QuietGoto DEF Unbind
<1>7. CASE WaitForPendingReads
  BY <1>1, <1>7, QuietGoto DEF WaitForPendingReads
<1>8. CASE CloseAdapter
  BY <1>1, <1>8, QuietGoto DEF CloseAdapter
<1>9. CASE SetBindIdle
  BY <1>1, <1>9, QuietGoto DEF SetBindIdle
<1>10. CASE FreeBindResources
  BY <1>1, <1>10, QuietGoto DEF FreeBindResources
<1>11. CASE ShutdownReturn
  BY <1>1, <1>11, QuietGoto DEF ShutdownReturn
<1>12. QED
  BY <1>2, <1>3, <1>4, <1>5, <1>6, <1>7, <1>8, <1>9, <1>10, <1>11 DEF ShutdownBinding

-----------------------------------------------------------------------------
(* Steps of a thread that takes a read off the queue and completes it.      *)

\* A thread that takes the cancel routine away and the read off the queue, in
\* one critical section, becomes its only owner.
LEMMA TakeKeeps ==
    ASSUME TypeOK, ReadInv, NEW t \in Agents, ~OwnsIrp(t), pc[t] # "idle",
           NEW label \in OwnerLabels, Goto(t, label),
           NEW i \in 1 .. Len(PendedReads), irpRoutine[PendedReads[i]],
           irpRoutine' = [irpRoutine EXCEPT ![PendedReads[i]] = FALSE],
           curIrp' = [curIrp EXCEPT ![t] = PendedReads[i]],
           \/ PendedReads' = RemoveAt(PendedReads, i)
           \/ i = 1 /\ PendedReads' = Tail(PendedReads),
           UNCHANGED <<irpCancel, irpStatus, cancelPc, pktState>>
    PROVE  ReadInv'
<1> DEFINE r == PendedReads[i]
<1>1. PendedReads \in Seq(Reads) /\ r \in Reads /\ Contains(PendedReads, r)
  BY ElementOfSeq DEF TypeOK, ContextTypeOK, Contains
<1>2. irpStatus[r] = "pending" /\ cancelPc[r] = "idle"
  BY <1>1 DEF ReadInv, QueuedReads
<1>3. \A u \in Agents : OwnsIrp(u) => curIrp[u] # r
  BY <1>1 DEF ReadInv, TakenReads
<1>4. /\ NoReadTwice'
      /\ \A x : Contains(PendedReads', x) <=> Contains(PendedReads, x) /\ x # r
  BY <1>1, RemoveOne DEF ReadInv, NoReadTwice
<1>5. \A u \in Agents : /\ pc'[u] = IF u = t THEN label ELSE pc[u]
                        /\ curIrp'[u] = IF u = t THEN r ELSE curIrp[u]
                        /\ OwnsIrp(u)' <=> u = t \/ OwnsIrp(u)
  BY DEF Goto, TypeOK, LabelsOK, ThreadTypeOK, OwnsIrp, OwnerLabels
<1>6. \A q \in Reads : irpRoutine'[q] <=> irpRoutine[q] /\ q # r
  BY DEF TypeOK, DataTypeOK
<1> HIDE DEF r
<1>7. QueuedReads'
  BY <1>2, <1>4, <1>6 DEF ReadInv, QueuedReads
<1>8. TakenReads'
  BY <1>1, <1>2, <1>3, <1>4, <1>5 DEF ReadInv, TakenReads
<1>9. CancelledReads'
  BY <1>4 DEF ReadInv, CancelledReads
<1>10. PendingReads'
  <2>1. OwnsIrp(t)' /\ curIrp'[t] = r
    BY <1>5
  <2>2. \A u \in Agents : OwnsIrp(u) => OwnsIrp(u)' /\ curIrp'[u] = curIrp[u]
    BY <1>5
  <2>3. QED BY <1>4, <2>1, <2>2 DEF ReadInv, PendingReads
<1>11. NewReads' /\ NewPackets'
  <2>1. \A u \in Reads \cup Packets : u \in Agents
    BY DEF Agents
  <2>2. label # "rdLock" /\ label # "idle"
    BY DEF OwnerLabels
  <2>3. QED BY <1>5, <2>1, <2>2 DEF ReadInv, NewReads, NewPackets
<1>12. QED BY <1>4, <1>7, <1>8, <1>9, <1>10, <1>11 DEF ReadInv

\* The thread that owns a read completes it, and owns it no more.
LEMMA CompleteKeeps ==
    ASSUME TypeOK, ReadInv, NEW t \in Agents, OwnsIrp(t),
           NEW label, label \notin OwnerLabels \cup {"idle", "rdLock"}, Goto(t, label),
           NEW status \in {"SUCCESS", "CANCELLED"}, Complete(curIrp[t], status),
           UNCHANGED <<PendedReads, irpRoutine, irpCancel, curIrp, cancelPc, pktState>>
    PROVE  ReadInv'
<1> DEFINE r == curIrp[t]
<1>1. /\ r \in Reads /\ ~Contains(PendedReads, r)
      /\ irpStatus[r] = "pending" /\ cancelPc[r] = "idle"
      /\ \A u \in Agents : OwnsIrp(u) /\ curIrp[u] = r => u = t
  BY DEF ReadInv, TakenReads
<1>2. \A u \in Agents : /\ pc'[u] = IF u = t THEN label ELSE pc[u]
                        /\ OwnsIrp(u)' <=> u # t /\ OwnsIrp(u)
  BY DEF Goto, TypeOK, LabelsOK, OwnsIrp, OwnerLabels
<1>3. \A q \in Reads : irpStatus'[q] = IF q = r THEN status ELSE irpStatus[q]
  BY DEF Complete, TypeOK, DataTypeOK
<1> HIDE DEF r
<1>4. NoReadTwice' /\ QueuedReads'
  BY <1>1, <1>3 DEF ReadInv, NoReadTwice, QueuedReads
<1>5. TakenReads'
  <2>1. ASSUME NEW u \in Agents, OwnsIrp(u)' PROVE OwnsIrp(u) /\ curIrp[u] # r
    BY <1>1, <1>2, <2>1 DEF r
  <2>2. QED BY <1>3, <2>1 DEF ReadInv, TakenReads
<1>6. CancelledReads'
  BY <1>1, <1>3 DEF ReadInv, CancelledReads
<1>7. PendingReads'
  <2>1. ASSUME NEW u \in Agents, OwnsIrp(u), curIrp[u] # r PROVE OwnsIrp(u)'
    BY <1>2, <2>1 DEF r
  <2>2. QED BY <1>3, <2>1 DEF ReadInv, PendingReads
<1>8. NewReads' /\ NewPackets'
  <2>1. \A u \in Reads \cup Packets : u \in Agents
    BY DEF Agents
  <2>2. t \in Reads \cup Packets => pc[t] \notin {"idle", "rdLock"}
    BY DEF OwnsIrp
  <2>3. QED BY <1>1, <1>2, <1>3, <2>1, <2>2 DEF ReadInv, NewReads, NewPackets
<1>9. QED BY <1>4, <1>5, <1>6, <1>7, <1>8 DEF ReadInv

\* All of ndisprotServiceReads.
LEMMA ServiceReadsKeeps ==
    ASSUME TypeOK, ReadInv, NEW t \in Reads \cup Packets, ServiceReads(t)
    PROVE  ReadInv'
<1>1. t \in Agents
  BY DEF Agents
<1>2. ASSUME ServiceTurn(t), pc[t] \in {"svcLock", "svcRelock"},
             UNCHANGED <<irpCancel, irpStatus, pktVars, cancelPc>>
      PROVE  ReadInv'
  <2>1. ASSUME NEW i \in 1 .. Len(PendedReads),
               IsFirstTakable(i), Goto(t, "svcDerefPkt"),
               irpRoutine' = [irpRoutine EXCEPT ![PendedReads[i]] = FALSE],
               curIrp' = [curIrp EXCEPT ![t] = PendedReads[i]],
               PendedReads' = RemoveAt(PendedReads, i)
        PROVE  ReadInv'
    <3>1. ~OwnsIrp(t) /\ pc[t] # "idle" /\ "svcDerefPkt" \in OwnerLabels
      BY <1>2 DEF OwnsIrp, OwnerLabels
    <3>2. irpRoutine[PendedReads[i]]
      BY <2>1 DEF IsFirstTakable
    <3>3. UNCHANGED <<irpCancel, irpStatus, cancelPc, pktState>>
      BY <1>2 DEF pktVars
    <3>4. QED BY <1>1, <2>1, <3>1, <3>2, <3>3, TakeKeeps
  <2>2. CASE /\ Goto(t, "svcDerefTemp")
             /\ UNCHANGED <<PendedReads, recvVars, irpRoutine, curVars>>
    BY <1>1, <1>2, <2>2, QuietGoto, QuietKeeps DEF OwnsIrp, OwnerLabels, pktVars, curVars
  <2>3. QED BY <1>2, <2>1, <2>2 DEF ServiceTurn
<1>3. CASE ServiceFirst(t) \/ ServiceAgain(t)
  BY <1>2, <1>3 DEF ServiceFirst, ServiceAgain
<1>4. CASE ServiceComplete(t)
  <2>1. /\ OwnsIrp(t) /\ Goto(t, "svcFree") /\ Complete(curIrp[t], "SUCCESS")
        /\ "svcFree" \notin OwnerLabels \cup {"idle", "rdLock"}
        /\ UNCHANGED <<PendedReads, irpRoutine, irpCancel, curIrp, cancelPc, pktState>>
    BY <1>4 DEF ServiceComplete, OwnsIrp, OwnerLabels, readVars, pktVars, curVars
  <2>2. QED BY <1>1, <2>1, CompleteKeeps
<1>5. QED
  BY <1>3, <1>4, QuietServiceReads, QuietKeeps DEF ServiceReads

\* All of ndisprotCancelPendingReads.
LEMMA CancelPendingReadsKeeps ==
    ASSUME TypeOK, ReadInv, NEW t \in {"cleanup", "pnp"}, CancelPendingReads(t)
    PROVE  ReadInv'
<1>1. t \in Agents /\ t \notin Reads \cup Packets
  BY AgentsAssumption DEF Agents
<1>2. ASSUME CancelPendingTurn(t), pc[t] \in {"cprLock", "cprRelock"},
             UNCHANGED <<irpCancel, irpStatus, pktVars, cancelPc>>
      PROVE  ReadInv'
  <2>1. CASE PendedReads # <<>> /\ irpRoutine[Head(PendedReads)]
    <3>1. /\ 1 \in 1 .. Len(PendedReads) /\ Head(PendedReads) = PendedReads[1]
      BY <2>1, EmptySeq, LenProperties, HeadTailProperties DEF TypeOK, ContextTypeOK
    <3>2. /\ irpRoutine' = [irpRoutine EXCEPT ![PendedReads[1]] = FALSE]
          /\ curIrp' = [curIrp EXCEPT ![t] = PendedReads[1]]
          /\ PendedReads' = Tail(PendedReads)
          /\ Goto(t, "cprComplete")
          /\ irpRoutine[PendedReads[1]]
      BY <1>2, <2>1, <3>1 DEF CancelPendingTurn
    <3>3. ~OwnsIrp(t) /\ pc[t] # "idle" /\ "cprComplete" \in OwnerLabels
      BY <1>2 DEF OwnsIrp, OwnerLabels
    <3>4. UNCHANGED <<irpCancel, irpStatus, cancelPc, pktState>>
      BY <1>2 DEF pktVars
    <3>5. QED BY <1>1, <3>1, <3>2, <3>3, <3>4, TakeKeeps
  <2>2. CASE /\ Goto(t, "cprDerefTemp")
             /\ UNCHANGED <<PendedReads, irpRoutine, curIrp>>
    BY <1>1, <1>2, <2>2, QuietGoto, QuietKeeps DEF OwnsIrp, OwnerLabels, pktVars
  <2>3. QED BY <1>2, <2>1, <2>2 DEF CancelPendingTurn
<1>3. CASE CancelPendingFirst(t)
  BY <1>2, <1>3 DEF CancelPendingFirst
<1>4. CASE CancelPendingAgain(t)
  <2>1. CASE Goto(t, "cprLock") /\ UNCHANGED <<PendedReads, irpRoutine, curIrp>>
    BY <1>1, <1>4, <2>1, QuietGoto, QuietKeeps
    DEF CancelPendingAgain, OwnsIrp, OwnerLabels, pktVars
  <2>2. QED BY <1>2, <1>4, <2>1 DEF CancelPendingAgain
<1>5. CASE CancelPendingComplete(t)
  <2>1. /\ OwnsIrp(t) /\ Goto(t, "cprDeref") /\ Complete(curIrp[t], "CANCELLED")
        /\ "cprDeref" \notin OwnerLabels \cup {"idle", "rdLock"}
        /\ UNCHANGED <<PendedReads, irpRoutine, irpCancel, curIrp, cancelPc, pktState>>
    BY <1>5 DEF CancelPendingComplete, OwnsIrp, OwnerLabels, readVars, pktVars, curVars
  <2>2. QED BY <1>1, <2>1, CompleteKeeps
<1>6. QED
  BY <1>3, <1>4, <1>5, QuietCancelPendingReads, QuietKeeps DEF CancelPendingReads

-----------------------------------------------------------------------------
(* NdisProtRead, IoCancelIrp and NdisProtCancelRead.                        *)

\* A read that is not pended is on no queue and with no thread.
LEMMA UnpendedRead ==
    ASSUME ReadInv, NEW r \in Reads, irpStatus[r] \in {"unsent", "dispatched"}
    PROVE  /\ ~Contains(PendedReads, r) /\ cancelPc[r] = "idle" /\ ~irpRoutine[r]
           /\ \A t \in Agents : OwnsIrp(t) => curIrp[t] # r
BY DEF ReadInv, QueuedReads, TakenReads, NewReads

\* A dispatch routine takes its IRP on, fails it, or puts it on the queue with
\* its cancel routine set.
LEMMA ReadKeeps ==
    ASSUME TypeOK, ReadInv, NEW r \in Reads, SubmitRead(r) \/ PendRead(r) \/ FailRead(r)
    PROVE  ReadInv'
<1>1. /\ irpStatus[r] \in {"unsent", "dispatched"} /\ ~OwnsIrp(r)
      /\ pc[r] \in {"idle", "rdLock"}
  BY DEF SubmitRead, PendRead, FailRead, ReadInv, NewReads, OwnsIrp
<1>2. /\ ~Contains(PendedReads, r) /\ cancelPc[r] = "idle" /\ ~irpRoutine[r]
      /\ \A t \in Agents : OwnsIrp(t) => curIrp[t] # r
  BY <1>1, UnpendedRead
<1>3. UNCHANGED <<curIrp, cancelPc, irpCancel, pktState>>
  BY DEF SubmitRead, PendRead, FailRead, curVars, pktVars
<1>4. PICK label \in {"rdLock", "svcRef", "done"}, status \in {"dispatched", "pending", "FAILED"} :
        /\ Goto(r, label) /\ irpStatus' = [irpStatus EXCEPT ![r] = status]
        /\ label = "rdLock" <=> status = "dispatched"
  BY Zenon DEF SubmitRead, PendRead, FailRead, Complete
<1>5. /\ \A t \in Agents : /\ pc'[t] = IF t = r THEN label ELSE pc[t]
                           /\ OwnsIrp(t)' <=> OwnsIrp(t)
      /\ \A q \in Reads : irpStatus'[q] = IF q = r THEN status ELSE irpStatus[q]
  BY <1>1, <1>4 DEF Goto, TypeOK, LabelsOK, DataTypeOK, OwnsIrp
<1>6. /\ NoReadTwice'
      /\ \A x : Contains(PendedReads', x) <=>
            Contains(PendedReads, x) \/ (x = r /\ status = "pending")
      /\ \A q \in Reads : irpRoutine'[q] <=> irpRoutine[q] \/ (q = r /\ status = "pending")
  <2>1. CASE PendRead(r)
    <3>1. status = "pending"
      BY <1>5, <2>1 DEF PendRead, TypeOK, DataTypeOK
    <3>2. PendedReads' = Append(PendedReads, r) /\ irpRoutine' = [irpRoutine EXCEPT ![r] = TRUE]
      BY <2>1 DEF PendRead
    <3>3. /\ NoReadTwice'
          /\ \A x : Contains(PendedReads', x) <=> Contains(PendedReads, x) \/ x = r
      BY <1>2, <3>2, AppendOne DEF TypeOK, ContextTypeOK, ReadInv, NoReadTwice
    <3>4. QED BY <3>1, <3>2, <3>3 DEF TypeOK, DataTypeOK
  <2>2. CASE SubmitRead(r) \/ FailRead(r)
    <3>1. status # "pending"
      BY <1>5, <2>2 DEF SubmitRead, FailRead, Complete, TypeOK, DataTypeOK
    <3>2. UNCHANGED <<PendedReads, irpRoutine>>
      BY <2>2 DEF SubmitRead, FailRead, readVars
    <3>3. QED BY <3>1, <3>2 DEF ReadInv, NoReadTwice
  <2>3. QED BY <2>1, <2>2
<1>7. QueuedReads' /\ TakenReads' /\ CancelledReads' /\ PendingReads'
  <2>1. QueuedReads'
    BY <1>2, <1>3, <1>5, <1>6 DEF ReadInv, QueuedReads
  <2>2. TakenReads'
    BY <1>2, <1>3, <1>5, <1>6 DEF ReadInv, TakenReads
  <2>3. CancelledReads'
    BY <1>2, <1>3, <1>5, <1>6 DEF ReadInv, CancelledReads
  <2>4. PendingReads'
    BY <1>2, <1>3, <1>5, <1>6 DEF ReadInv, PendingReads
  <2>5. QED BY <2>1, <2>2, <2>3, <2>4
<1>8. NewReads' /\ NewPackets'
  <2>1. \A u \in Reads \cup Packets : u \in Agents
    BY DEF Agents
  <2>2. r \notin Packets
    BY AgentsAssumption
  <2>3. NewReads'
    BY <1>2, <1>3, <1>4, <1>5, <2>1 DEF ReadInv, NewReads
  <2>4. NewPackets'
    BY <1>3, <1>5, <2>1, <2>2 DEF ReadInv, NewPackets
  <2>5. QED BY <2>3, <2>4
<1>9. QED BY <1>6, <1>7, <1>8 DEF ReadInv

\* Taking the cancel routine away leaves the read on the queue for it; a read
\* without one is not touched.
LEMMA CancelIrpKeeps ==
    ASSUME TypeOK, ReadInv, NEW r \in Reads, CancelIrp(r)
    PROVE  ReadInv'
<1>1. UNCHANGED <<PendedReads, irpStatus, pc, curIrp, pktState>>
  BY DEF CancelIrp, readVars, pktVars, curVars
<1>2. cancelPc[r] = "idle" /\ ~irpCancel[r] /\ irpStatus[r] # "unsent"
  BY DEF CancelIrp, ReadInv, NewReads
<1>3. \A q \in Reads :
        /\ irpRoutine'[q] <=> irpRoutine[q] /\ q # r
        /\ irpCancel'[q] <=> irpCancel[q] \/ q = r
        /\ cancelPc'[q] = IF q = r /\ irpRoutine[r] THEN "lock" ELSE cancelPc[q]
  BY <1>2 DEF CancelIrp, TypeOK, DataTypeOK, ThreadTypeOK
<1>4. irpRoutine[r] => Contains(PendedReads, r) /\ irpStatus[r] = "pending"
  BY DEF ReadInv, QueuedReads
<1>5. NoReadTwice' /\ CancelledReads' /\ PendingReads' /\ NewPackets'
  BY <1>1, <1>2, <1>3
  DEF ReadInv, NoReadTwice, CancelledReads, PendingReads, NewPackets, OwnsIrp
<1>6. QueuedReads'
  BY <1>1, <1>2, <1>3 DEF ReadInv, QueuedReads
<1>7. TakenReads'
  <2>1. \A t \in Agents : OwnsIrp(t) => cancelPc'[curIrp[t]] = "idle"
    BY <1>3, <1>4 DEF ReadInv, TakenReads
  <2>2. QED BY <1>1, <2>1 DEF ReadInv, TakenReads, OwnsIrp
<1>8. NewReads'
  BY <1>1, <1>3, <1>4 DEF ReadInv, NewReads
<1>9. QED BY <1>5, <1>6, <1>7, <1>8 DEF ReadInv

\* The cancel routine finds its read, takes it off the queue and completes it.
LEMMA CancelReadKeeps ==
    ASSUME TypeOK, ReadInv, NEW r \in Reads, CancelRead(r)
    PROVE  ReadInv'
<1>1. UNCHANGED <<irpRoutine, irpCancel, pc, curIrp, pktState>>
  BY DEF CancelRead, CancelReadUnlink, CancelReadComplete, CancelReadDeref, irpVars,
     pktVars, curVars
<1>2. cancelPc[r] # "idle" /\ irpCancel[r]
  BY DEF CancelRead, CancelReadUnlink, CancelReadComplete, CancelReadDeref, ReadInv, NewReads,
     TypeOK, DataTypeOK
<1>3. CASE CancelReadUnlink(r)
  <2>1. cancelPc[r] = "lock" /\ Contains(PendedReads, r) /\ ~irpRoutine[r] /\ irpStatus[r] = "pending"
    BY <1>3 DEF CancelReadUnlink, ReadInv, QueuedReads
  <2>2. PICK i \in 1 .. Len(PendedReads) :
          /\ PendedReads[i] = r
          /\ PendedReads' = RemoveAt(PendedReads, i)
          /\ cancelPc' = [cancelPc EXCEPT ![r] = "complete"]
    BY <1>3, <2>1 DEF CancelReadUnlink, Contains
  <2>3. irpStatus' = irpStatus
    BY <1>3 DEF CancelReadUnlink, irpVars
  <2>4. \A q \in Reads : cancelPc'[q] = IF q = r THEN "complete" ELSE cancelPc[q]
    BY <2>2 DEF TypeOK, ThreadTypeOK
  <2>5. /\ NoReadTwice'
        /\ \A x : Contains(PendedReads', x) <=> Contains(PendedReads, x) /\ x # r
    <3>1. /\ PendedReads \in Seq(Reads)
          /\ \A j, k \in 1 .. Len(PendedReads) : PendedReads[j] = PendedReads[k] => j = k
      BY DEF TypeOK, ContextTypeOK, ReadInv, NoReadTwice
    <3>2. \/ PendedReads' = RemoveAt(PendedReads, i)
          \/ i = 1 /\ PendedReads' = Tail(PendedReads)
      BY <2>2
    <3>3. /\ \A j, k \in 1 .. Len(PendedReads') : PendedReads'[j] = PendedReads'[k] => j = k
          /\ \A x : Contains(PendedReads', x) <=> Contains(PendedReads, x) /\ x # PendedReads[i]
      BY <3>1, <3>2, RemoveOne
    <3>4. QED BY <2>2, <3>3 DEF NoReadTwice
  <2>6. QueuedReads'
    BY <1>1, <2>1, <2>3, <2>4, <2>5 DEF ReadInv, QueuedReads
  <2>7. TakenReads'
    <3>1. \A t \in Agents : OwnsIrp(t) => curIrp[t] # r
      BY <2>1 DEF ReadInv, TakenReads
    <3>2. QED BY <1>1, <2>3, <2>4, <2>5, <3>1 DEF ReadInv, TakenReads, OwnsIrp
  <2>8. CancelledReads' /\ PendingReads'
    BY <1>1, <2>1, <2>3, <2>4, <2>5 DEF ReadInv, CancelledReads, PendingReads, OwnsIrp
  <2>9. NewReads' /\ NewPackets'
    BY <1>1, <1>2, <2>1, <2>3, <2>4 DEF ReadInv, NewReads, NewPackets
  <2>10. QED BY <2>5, <2>6, <2>7, <2>8, <2>9 DEF ReadInv
<1>4. CASE CancelReadComplete(r) \/ CancelReadDeref(r)
  <2>1. PICK label \in {"deref", "done"} : cancelPc' = [cancelPc EXCEPT ![r] = label]
    BY <1>4, Zenon DEF CancelReadComplete, CancelReadDeref
  <2>2. /\ \A q \in Reads : cancelPc'[q] = IF q = r THEN label ELSE cancelPc[q]
        /\ cancelPc[r] \in {"complete", "deref"}
        /\ UNCHANGED PendedReads
    BY <1>4, <2>1 DEF CancelReadComplete, CancelReadDeref, TypeOK, ThreadTypeOK, readVars
  <2>3. /\ \A q \in Reads : q # r => irpStatus'[q] = irpStatus[q]
        /\ cancelPc[r] = "complete" => irpStatus[r] = "pending" /\ irpStatus'[r] = "CANCELLED"
        /\ cancelPc[r] = "deref" => irpStatus'[r] = irpStatus[r]
    BY <1>4 DEF CancelReadComplete, CancelReadDeref, Complete, irpVars, TypeOK, DataTypeOK,
       ReadInv, CancelledReads
  <2>4. ~Contains(PendedReads, r) /\ ~irpRoutine[r]
    BY <2>2 DEF ReadInv, QueuedReads
  <2>5. \A t \in Agents : OwnsIrp(t) => curIrp[t] # r
    BY <2>2 DEF ReadInv, TakenReads
  <2>6. QueuedReads'
    BY <1>1, <2>2, <2>3, <2>4 DEF ReadInv, QueuedReads
  <2>7. TakenReads'
    BY <1>1, <2>2, <2>3, <2>5 DEF ReadInv, TakenReads, OwnsIrp
  <2>8. CancelledReads' /\ NoReadTwice'
    BY <2>2, <2>3 DEF ReadInv, CancelledReads, NoReadTwice
  <2>9. PendingReads'
    BY <1>1, <2>2, <2>3, <2>4, <2>5 DEF ReadInv, PendingReads, OwnsIrp
  <2>10. NewReads' /\ NewPackets'
    BY <1>1, <1>2, <2>2, <2>3 DEF ReadInv, NewReads, NewPackets
  <2>11. QED BY <2>6, <2>7, <2>8, <2>9, <2>10 DEF ReadInv
<1>5. QED BY <1>3, <1>4 DEF CancelRead

-----------------------------------------------------------------------------
(* The theorems.                                                            *)

\* Every step keeps the invariant.
LEMMA ReadInvStep == TypeOK /\ ReadInv /\ [Next]_vars => ReadInv'
<1> SUFFICES ASSUME TypeOK, ReadInv, [Next]_vars PROVE ReadInv'
  OBVIOUS
<1>1. NewPackets
  BY DEF ReadInv
<1>2. CASE UNCHANGED vars
  <2>1. Quiet
    BY <1>2 DEF vars, Quiet, OwnsIrp, readVars, irpVars, pktVars, curVars
  <2>2. QED BY <2>1, QuietKeeps
<1>3. CASE Environment
  BY <1>1, <1>3, ReadKeeps, CancelIrpKeeps, QuietReceive, QuietTeardown, QuietKeeps
  DEF Environment
<1>4. ASSUME NEW r \in Reads, ReadThread(r) \/ CancelRead(r) PROVE ReadInv'
  BY <1>4, ReadKeeps, ServiceReadsKeeps, CancelReadKeeps DEF ReadThread
<1>5. ASSUME NEW p \in Packets, PacketThread(p) PROVE ReadInv'
  BY <1>1, <1>5, QuietReceive, QuietKeeps, ServiceReadsKeeps DEF PacketThread
<1>6. CASE CleanupThread
  BY <1>6, CancelPendingReadsKeeps, QuietFlushReceiveQueue, QuietTeardown, QuietKeeps
  DEF CleanupThread
<1>7. CASE PnPThread
  BY <1>7, CancelPendingReadsKeeps, QuietFlushReceiveQueue, QuietTeardown, QuietKeeps
  DEF PnPThread
<1>8. QED BY <1>2, <1>3, <1>4, <1>5, <1>6, <1>7 DEF Next

\* It holds of a binding that nothing has happened on.
LEMMA ReadInvInit == Init => ReadInv
<1> SUFFICES ASSUME Init PROVE ReadInv
  OBVIOUS
<1>1. \A x : ~Contains(PendedReads, x)
  BY EmptySeq DEF Init, Contains
<1>2. \A t \in Agents : pc[t] = "idle" /\ ~OwnsIrp(t)
  BY DEF Init, OwnsIrp
<1>3. NoReadTwice
  BY EmptySeq DEF Init, NoReadTwice
<1>4. QueuedReads /\ CancelledReads /\ PendingReads
  BY <1>1 DEF Init, QueuedReads, CancelledReads, PendingReads
<1>5. TakenReads
  BY <1>2 DEF TakenReads
<1>6. NewReads /\ NewPackets
  BY <1>2 DEF Init, NewReads, NewPackets, Agents
<1>7. QED BY <1>3, <1>4, <1>5, <1>6 DEF ReadInv

\* The invariant holds in every state.
LEMMA ReadInvHolds == Spec => []ReadInv
<1>1. TypeOK /\ ReadInv /\ [Next]_vars => ReadInv'
  BY ReadInvStep
<1>2. QED BY <1>1, ReadInvInit, TypeCorrect, PTL DEF Spec

\* However many reads race, and whoever takes them, a cancel routine that the
\* I/O manager has called finds its IRP still linked on PendedReads.
THEOREM CancelRoutineFound == Spec => []CancelRoutineFindsRead
<1>1. ReadInv => CancelRoutineFindsRead
  BY DEF ReadInv, QueuedReads, CancelRoutineFindsRead, Contains
<1>2. QED BY <1>1, ReadInvHolds, PTL

\* The owners of a read are the three kinds of place that the invariant names,
\* and no two of them at once.
LEMMA OwnersOfRead ==
    ASSUME ReadInv, NEW r \in Reads
    PROVE  /\ irpStatus[r] # "pending" => ReadOwners(r) = {}
           /\ irpStatus[r] = "pending" => \E o : ReadOwners(r) = {o}
<1>1. ASSUME NEW o
      PROVE  o \in ReadOwners(r) <=>
                \/ \E i \in 1 .. Len(PendedReads) : PendedReads[i] = r /\ o = <<"queue", i>>
                \/ \E t \in Agents : OwnsIrp(t) /\ curIrp[t] = r /\ o = <<"thread", t>>
                \/ cancelPc[r] = "complete" /\ o = <<"cancel", r>>
  BY DEF ReadOwners
<1>2. CASE irpStatus[r] # "pending"
  <2>1. /\ ~Contains(PendedReads, r) /\ cancelPc[r] # "complete"
        /\ \A t \in Agents : ~(OwnsIrp(t) /\ curIrp[t] = r)
    BY <1>2 DEF ReadInv, QueuedReads, TakenReads, CancelledReads
  <2>2. QED BY <1>1, <1>2, <2>1 DEF Contains
<1>3. CASE irpStatus[r] = "pending" /\ Contains(PendedReads, r)
  <2>1. PICK i \in 1 .. Len(PendedReads) : PendedReads[i] = r
    BY <1>3 DEF Contains
  <2>2. \A j \in 1 .. Len(PendedReads) : PendedReads[j] = r => j = i
    BY <2>1 DEF ReadInv, NoReadTwice
  <2>3. /\ cancelPc[r] # "complete"
        /\ \A t \in Agents : ~(OwnsIrp(t) /\ curIrp[t] = r)
    BY <1>3 DEF ReadInv, TakenReads, CancelledReads
  <2>4. ReadOwners(r) = {<<"queue", i>>}
    BY <1>1, <2>1, <2>2, <2>3
  <2>5. QED BY <1>3, <2>4
<1>4. CASE irpStatus[r] = "pending" /\ cancelPc[r] = "complete"
  <2>1. /\ ~Contains(PendedReads, r)
        /\ \A t \in Agents : ~(OwnsIrp(t) /\ curIrp[t] = r)
    BY <1>4 DEF ReadInv, TakenReads, CancelledReads
  <2>2. ReadOwners(r) = {<<"cancel", r>>}
    BY <1>1, <1>4, <2>1 DEF Contains
  <2>3. QED BY <1>4, <2>2
<1>5. ASSUME irpStatus[r] = "pending", NEW t \in Agents, OwnsIrp(t), curIrp[t] = r
      PROVE  ReadOwners(r) = {<<"thread", t>>}
  <2>1. /\ ~Contains(PendedReads, r) /\ cancelPc[r] # "complete"
        /\ \A u \in Agents : OwnsIrp(u) /\ curIrp[u] = r => u = t
    BY <1>5 DEF ReadInv, TakenReads
  <2>2. QED BY <1>1, <1>5, <2>1 DEF Contains
<1>6. QED BY <1>2, <1>3, <1>4, <1>5 DEF ReadInv, PendingReads

\* For any number of reads, packets and steps: a read marked pending is with
\* exactly one of the queue, a thread that services or drains it and its cancel
\* routine, and one that was completed is with none, so that no IRP is
\* completed twice or forgotten.
THEOREM ReadsHaveOneOwner == Spec => []PendingReadHasOneOwner
<1>1. ReadInv => PendingReadHasOneOwner
  <2>1. SUFFICES ASSUME ReadInv, NEW r \in Reads
                 PROVE  Cardinality(ReadOwners(r)) =
                            IF irpStatus[r] = "pending" THEN 1 ELSE 0
    BY DEF PendingReadHasOneOwner
  <2>2. CASE irpStatus[r] = "pending"
    <3>1. PICK o : ReadOwners(r) = {o}
      BY <2>1, <2>2, OwnersOfRead
    <3>2. QED BY <2>2, <3>1, FS_Singleton
  <2>3. CASE irpStatus[r] # "pending"
    BY <2>1, <2>3, OwnersOfRead, FS_EmptySet
  <2>4. QED BY <2>2, <2>3
<1>2. QED BY <1>1, ReadInvHolds, PTL

-----------------------------------------------------------------------------
(* The same of packets.  A packet the driver took is with its indication until  *)
(* ndisprotQueueReceivePacket has the lock, then on the queue or with the one   *)
(* thread that took it off, or dropped it, under the lock.                      *)

ArrivalLabels == {"transfer", "rcvRef", "rcvLock"}
HandlerLabels == {"svcDerefPkt", "svcComplete", "svcFree", "rcvDiscard", "rcvDrop", "flFree"}

Arriving(p) == pc[p] \in ArrivalLabels

\* No packet is on RecvPktQueue twice.
NoPacketTwice ==
    \A i, j \in 1 .. Len(RecvPktQueue) : RecvPktQueue[i] = RecvPktQueue[j] => i = j

\* A packet on the queue is ours, and its indication is done with it.
QueuedPackets ==
    \A p \in Packets : Contains(RecvPktQueue, p) => pktState[p] = "ours" /\ ~Arriving(p)

\* A packet that a thread is to give back is that thread's alone.
HandledPackets ==
    \A t \in Agents : OwnsPacket(t) =>
        /\ curPkt[t] \in Packets
        /\ pktState[curPkt[t]] = "ours"
        /\ ~Contains(RecvPktQueue, curPkt[t]) /\ ~Arriving(curPkt[t])
        /\ \A u \in Agents : OwnsPacket(u) /\ curPkt[u] = curPkt[t] => u = t

\* A packet that is ours is in one of the three places.
OurPackets ==
    \A p \in Packets :
        /\ Arriving(p) => pktState[p] = "ours"
        /\ pktState[p] = "ours" =>
              \/ Contains(RecvPktQueue, p) \/ Arriving(p)
              \/ \E t \in Agents : OwnsPacket(t) /\ curPkt[t] = p

PacketInv == NoPacketTwice /\ QueuedPackets /\ HandledPackets /\ OurPackets /\ NewPackets

-----------------------------------------------------------------------------
(* Steps that concern no packet's owner.                                    *)

\* Threads move on between labels where they have the same part in a packet.
PacketQuiet ==
    /\ UNCHANGED <<RecvPktQueue, pktState>>
    /\ \A t \in Agents : /\ OwnsPacket(t)' <=> OwnsPacket(t)
                         /\ OwnsPacket(t) => curPkt'[t] = curPkt[t]
    /\ \A p \in Packets : /\ Arriving(p)' <=> Arriving(p)
                          /\ pc[p] = "idle" /\ pktState[p] = "absent" => pc'[p] = "idle"

\* A quiet step keeps the invariant.
LEMMA PacketQuietKeeps == PacketInv /\ PacketQuiet => PacketInv'
<1> SUFFICES ASSUME PacketInv, PacketQuiet PROVE PacketInv'
  OBVIOUS
<1>1. NoPacketTwice' /\ QueuedPackets' /\ NewPackets'
  BY DEF PacketInv, NoPacketTwice, QueuedPackets, NewPackets, PacketQuiet
<1>2. HandledPackets'
  BY DEF PacketInv, HandledPackets, PacketQuiet
<1>3. OurPackets'
  BY DEF PacketInv, OurPackets, PacketQuiet
<1>4. QED BY <1>1, <1>2, <1>3 DEF PacketInv

\* What a thread's move to another label changes.
LEMMA MoveOf ==
    ASSUME TypeOK, NEW t \in Agents, NEW label, Goto(t, label)
    PROVE  /\ \A u \in Agents : /\ pc'[u] = IF u = t THEN label ELSE pc[u]
                                /\ OwnsPacket(u)' <=> IF u = t THEN label \in HandlerLabels
                                                      ELSE OwnsPacket(u)
           /\ \A p \in Packets : /\ p \in Agents
                                 /\ Arriving(p)' <=> IF p = t THEN label \in ArrivalLabels
                                                     ELSE Arriving(p)
<1>1. \A u \in Agents : pc'[u] = IF u = t THEN label ELSE pc[u]
  BY DEF Goto, TypeOK, LabelsOK
<1>2. \A p \in Packets : p \in Agents
  BY DEF Agents
<1>3. QED BY <1>1, <1>2 DEF OwnsPacket, Arriving, HandlerLabels

\* A thread inside the driver that goes on to a label of the same kind.
LEMMA PacketQuietGoto ==
    ASSUME TypeOK, NEW t \in Agents, NEW label, Goto(t, label),
           t \in Packets => pc[t] # "idle" /\ (label \in ArrivalLabels <=> Arriving(t)),
           label \in HandlerLabels <=> OwnsPacket(t),
           UNCHANGED <<RecvPktQueue, pktState>>,
           \A u \in Agents : OwnsPacket(u) => curPkt'[u] = curPkt[u]
    PROVE  PacketQuiet
<1>1. \A u \in Agents : OwnsPacket(u)' <=> OwnsPacket(u)
  BY MoveOf
<1>2. \A p \in Packets : /\ Arriving(p)' <=> Arriving(p)
                         /\ pc[p] = "idle" => pc'[p] = "idle"
  BY MoveOf
<1>3. QED BY <1>1, <1>2 DEF PacketQuiet

\* No dispatch routine, cancel routine or power event touches a packet.
LEMMA PacketQuietReads ==
    ASSUME TypeOK, NewReads, NEW r \in Reads,
           SubmitRead(r) \/ PendRead(r) \/ FailRead(r) \/ CancelIrp(r) \/ CancelRead(r)
    PROVE  PacketQuiet
<1>1. r \in Agents /\ r \notin Packets
  BY AgentsAssumption DEF Agents
<1>2. UNCHANGED <<RecvPktQueue, pktState, curPkt>>
  BY DEF SubmitRead, PendRead, FailRead, CancelIrp, CancelRead, CancelReadUnlink,
     CancelReadComplete, CancelReadDeref, recvVars, pktVars, curVars
<1>3. CASE SubmitRead(r) \/ PendRead(r) \/ FailRead(r)
  <2>1. PICK label \in {"rdLock", "svcRef", "done"} : Goto(r, label)
    BY <1>3, Zenon DEF SubmitRead, PendRead, FailRead
  <2>2. ~OwnsPacket(r) /\ label \notin HandlerLabels
    BY <1>3 DEF SubmitRead, PendRead, FailRead, NewReads, OwnsPacket, HandlerLabels
  <2>3. QED BY <1>1, <1>2, <2>1, <2>2, PacketQuietGoto
<1>4. CASE CancelIrp(r) \/ CancelRead(r)
  <2>1. UNCHANGED pc
    BY <1>4 DEF CancelIrp, CancelRead, CancelReadUnlink, CancelReadComplete, CancelReadDeref
  <2>2. QED BY <1>2, <2>1 DEF PacketQuiet, OwnsPacket, Arriving
<1>5. QED BY <1>3, <1>4
\* ndisprotServiceReads, but for taking a packet and giving it back.
LEMMA PacketQuietServiceReads ==
    ASSUME TypeOK, NEW t \in Reads \cup Packets,
           \/ ServiceRef(t) \/ ServiceDerefPacket(t) \/ ServiceComplete(t)
           \/ ServiceDerefRead(t) \/ ServiceReturn(t)
    PROVE  PacketQuiet
<1>1. t \in Agents
  BY DEF Agents
<1> USE DEF OwnsPacket, Arriving, HandlerLabels, ArrivalLabels, recvVars, pktVars, curVars
<1>2. CASE ServiceRef(t)
  BY <1>1, <1>2, PacketQuietGoto DEF ServiceRef
<1>3. CASE ServiceDerefPacket(t)
  BY <1>1, <1>3, PacketQuietGoto DEF ServiceDerefPacket
<1>4. CASE ServiceComplete(t)
  BY <1>1, <1>4, PacketQuietGoto DEF ServiceComplete
<1>5. CASE ServiceDerefRead(t)
  BY <1>1, <1>5, PacketQuietGoto DEF ServiceDerefRead
<1>6. CASE ServiceReturn(t)
  BY <1>1, <1>6, PacketQuietGoto DEF ServiceReturn
<1>7. QED BY <1>2, <1>3, <1>4, <1>5, <1>6

\* ndisprotCancelPendingReads, Cleanup, Close, power and shutdown, and the
\* references that ndisprotFlushReceiveQueue takes and drops.
LEMMA PacketQuietTeardown ==
    ASSUME TypeOK, NEW t \in {"cleanup", "pnp"},
           \/ CancelPendingReads(t) \/ FlushRef(t) \/ FlushDeref(t) \/ FlushReturn(t)
           \/ Cleanup \/ Close \/ PowerDown \/ PowerUp \/ Unbind \/ ShutdownBinding
    PROVE  PacketQuiet
<1>1. /\ "cleanup" \in Agents \ Packets /\ "pnp" \in Agents \ Packets
      /\ t \in Agents \ Packets
  BY AgentsAssumption DEF Agents
<1> USE DEF OwnsPacket, HandlerLabels, recvVars, pktVars, curVars
<1>2. CASE CancelPendingReads(t)
  <2>1. UNCHANGED <<RecvPktQueue, pktState, curPkt>> /\ ~OwnsPacket(t)
    BY <1>2 DEF CancelPendingReads, CancelPendingRef, CancelPendingFirst, CancelPendingTurn,
       CancelPendingComplete, CancelPendingDeref, CancelPendingAgain, CancelPendingReturn
  <2>2. PICK label \in CancelPendingLabels \cup {"flRef", "waitReads"} : Goto(t, label)
    BY <1>2 DEF CancelPendingReads, CancelPendingRef, CancelPendingFirst, CancelPendingTurn,
       CancelPendingComplete, CancelPendingDeref, CancelPendingAgain, CancelPendingReturn,
       CancelPendingLabels
  <2>3. label \notin HandlerLabels
    BY DEF CancelPendingLabels
  <2>4. QED BY <1>1, <2>1, <2>2, <2>3, PacketQuietGoto
<1>3. CASE FlushRef(t)
  BY <1>1, <1>3, PacketQuietGoto DEF FlushRef
<1>4. CASE FlushDeref(t)
  <2>1. \A u \in Agents : OwnsPacket(u) => curPkt'[u] = curPkt[u]
    BY <1>4 DEF FlushDeref, TypeOK, ThreadTypeOK
  <2>2. QED BY <1>1, <1>4, <2>1, PacketQuietGoto DEF FlushDeref
<1>5. CASE FlushReturn(t)
  <2> DEFINE label == IF t = "cleanup" THEN "closing"
                      ELSE IF bindState = "CLOSING" THEN "closeAdapter" ELSE "idle"
  <2>1. Goto(t, label) /\ label \notin HandlerLabels
    BY <1>5 DEF FlushReturn
  <2> HIDE DEF label
  <2>2. QED BY <1>1, <1>5, <2>1, PacketQuietGoto DEF FlushReturn
<1>6. CASE PowerUp
  BY <1>6 DEF PowerUp, PacketQuiet, Arriving
<1>7. CASE Cleanup \/ Close
  <2>1. UNCHANGED <<RecvPktQueue, pktState, curPkt>> /\ ~OwnsPacket("cleanup")
    BY <1>7 DEF Cleanup, Close
  <2>2. PICK label \in {"cprRef", "done"} : Goto("cleanup", label)
    BY <1>7 DEF Cleanup, Close
  <2>3. QED BY <1>1, <2>1, <2>2, PacketQuietGoto
<1>8. CASE PowerDown \/ Unbind \/ ShutdownBinding
  <2>1. UNCHANGED <<RecvPktQueue, pktState, curPkt>> /\ ~OwnsPacket("pnp")
    BY <1>8 DEF PowerDown, Unbind, ShutdownBinding, WaitForPendingReads, CloseAdapter,
       SetBindIdle, FreeBindResources, ShutdownReturn
  <2>2. PICK label \in {"flRef", "waitReads", "cprRef", "setIdle", "freePools", "bindDeref",
                        "done"} : Goto("pnp", label)
    BY <1>8 DEF PowerDown, Unbind, ShutdownBinding, WaitForPendingReads, CloseAdapter,
       SetBindIdle, FreeBindResources, ShutdownReturn
  <2>3. QED BY <1>1, <2>1, <2>2, PacketQuietGoto
<1>9. QED BY <1>2, <1>3, <1>4, <1>5, <1>6, <1>7, <1>8

-----------------------------------------------------------------------------
(* Steps that hand a packet on.                                             *)

\* Taking the head off a sequence without repetitions.
LEMMA TailOne ==
    ASSUME NEW S, NEW s \in Seq(S), s # <<>>,
           \A j, k \in 1 .. Len(s) : s[j] = s[k] => j = k
    PROVE  /\ \A j, k \in 1 .. Len(Tail(s)) : Tail(s)[j] = Tail(s)[k] => j = k
           /\ \A x : Contains(Tail(s), x) <=> Contains(s, x) /\ x # Head(s)
<1> DEFINE q == Tail(s)
           i == 1
<1>1. i \in 1 .. Len(s) /\ Head(s) = s[i]
  BY EmptySeq, LenProperties, HeadTailProperties
<1>2. q = RemoveAt(s, i) \/ (i = 1 /\ q = Tail(s))
  OBVIOUS
<1> HIDE DEF q, i
<1>3. /\ \A j, k \in 1 .. Len(q) : q[j] = q[k] => j = k
      /\ \A x : Contains(q, x) <=> Contains(s, x) /\ x # s[i]
  BY <1>1, <1>2, RemoveOne
<1>4. QED BY <1>1, <1>3 DEF q

\* The thread that has a packet gives it back, and has it no more.
LEMMA GiveBackKeeps ==
    ASSUME TypeOK, PacketInv, NEW t \in Agents, OwnsPacket(t), NEW label, Goto(t, label),
           label \notin HandlerLabels \cup ArrivalLabels \cup {"idle"},
           FreeReceivePacket(curPkt[t]), UNCHANGED RecvPktQueue,
           \A u \in Agents : u # t /\ OwnsPacket(u) => curPkt'[u] = curPkt[u]
    PROVE  PacketInv'
<1> DEFINE p == curPkt[t]
<1>1. /\ p \in Packets /\ ~Contains(RecvPktQueue, p) /\ ~Arriving(p)
      /\ \A u \in Agents : OwnsPacket(u) /\ curPkt[u] = p => u = t
  BY DEF PacketInv, HandledPackets
<1>2. /\ pktState'[p] \in {"freed", "returned"}
      /\ \A q \in Packets : q # p => pktState'[q] = pktState[q]
  BY <1>1 DEF FreeReceivePacket, TypeOK, DataTypeOK
<1> HIDE DEF p
<1>3. ~Arriving(t)
  BY DEF Arriving, ArrivalLabels, OwnsPacket
<1>4. /\ \A u \in Agents : OwnsPacket(u)' <=> u # t /\ OwnsPacket(u)
      /\ \A q \in Packets : Arriving(q)' <=> Arriving(q)
      /\ \A q \in Packets : q # t => pc'[q] = pc[q]
  BY <1>3, MoveOf
<1>5. NoPacketTwice' /\ QueuedPackets'
  BY <1>1, <1>2, <1>4 DEF PacketInv, NoPacketTwice, QueuedPackets
<1>6. \A u \in Agents : OwnsPacket(u)' => OwnsPacket(u) /\ curPkt'[u] = curPkt[u] /\ curPkt[u] # p
  BY <1>1, <1>4
<1>7. HandledPackets'
  BY <1>2, <1>4, <1>6 DEF PacketInv, HandledPackets
<1>8. \A u \in Agents : OwnsPacket(u) /\ curPkt[u] # p => OwnsPacket(u)' /\ curPkt'[u] = curPkt[u]
  BY <1>4 DEF p
<1>9. OurPackets'
  BY <1>1, <1>2, <1>4, <1>8 DEF PacketInv, OurPackets
<1>10. NewPackets'
  <2>1. t \in Packets => pc[t] # "idle"
    BY DEF OwnsPacket
  <2>2. QED BY <1>2, <1>4, <2>1 DEF PacketInv, NewPackets
<1>11. QED BY <1>5, <1>7, <1>9, <1>10 DEF PacketInv

\* A thread takes the head of the queue, under the lock.
LEMMA DequeueKeeps ==
    ASSUME TypeOK, PacketInv, NEW t \in Agents, ~OwnsPacket(t),
           t \in Packets => ~Arriving(t) /\ pc[t] # "idle",
           NEW label \in HandlerLabels, Goto(t, label), RecvPktQueue # <<>>,
           curPkt' = [curPkt EXCEPT ![t] = Head(RecvPktQueue)],
           RecvPktQueue' = Tail(RecvPktQueue), UNCHANGED pktState
    PROVE  PacketInv'
<1> DEFINE p == Head(RecvPktQueue)
<1>1. /\ RecvPktQueue \in Seq(Packets) /\ 1 \in 1 .. Len(RecvPktQueue)
      /\ p = RecvPktQueue[1] /\ p \in Packets /\ Contains(RecvPktQueue, p)
  BY EmptySeq, LenProperties, HeadTailProperties DEF TypeOK, ContextTypeOK, Contains
<1>2. /\ \A j, k \in 1 .. Len(RecvPktQueue') : RecvPktQueue'[j] = RecvPktQueue'[k] => j = k
      /\ \A x : Contains(RecvPktQueue', x) <=> Contains(RecvPktQueue, x) /\ x # p
  <2>1. /\ \A j, k \in 1 .. Len(RecvPktQueue) : RecvPktQueue[j] = RecvPktQueue[k] => j = k
        /\ RecvPktQueue' = Tail(RecvPktQueue)
    BY DEF PacketInv, NoPacketTwice
  <2> HIDE DEF p
  <2>2. /\ \A j, k \in 1 .. Len(Tail(RecvPktQueue)) :
               Tail(RecvPktQueue)[j] = Tail(RecvPktQueue)[k] => j = k
        /\ \A x : Contains(Tail(RecvPktQueue), x) <=>
                 Contains(RecvPktQueue, x) /\ x # Head(RecvPktQueue)
    BY <1>1, <2>1, TailOne
  <2>3. QED BY <2>1, <2>2 DEF p
<1>3. \A u \in Agents : /\ curPkt'[u] = IF u = t THEN p ELSE curPkt[u]
                        /\ OwnsPacket(u)' <=> u = t \/ OwnsPacket(u)
  BY MoveOf DEF TypeOK, ThreadTypeOK
<1>4. /\ \A q \in Packets : Arriving(q)' <=> Arriving(q)
      /\ \A q \in Packets : q # t => pc'[q] = pc[q]
  <2>1. label \notin ArrivalLabels
    BY DEF HandlerLabels, ArrivalLabels
  <2>2. QED BY <2>1, MoveOf
<1>5. pktState[p] = "ours" /\ ~Arriving(p) /\ \A u \in Agents : OwnsPacket(u) => curPkt[u] # p
  BY <1>1 DEF PacketInv, QueuedPackets, HandledPackets
<1> HIDE DEF p
<1>6. NoPacketTwice' /\ QueuedPackets'
  BY <1>2, <1>4 DEF PacketInv, NoPacketTwice, QueuedPackets
<1>7. HandledPackets'
  BY <1>1, <1>2, <1>3, <1>4, <1>5 DEF PacketInv, HandledPackets
<1>8. \A u \in Agents : OwnsPacket(u) => OwnsPacket(u)' /\ curPkt'[u] = curPkt[u]
  BY <1>3
<1>9. OwnsPacket(t)' /\ curPkt'[t] = p
  BY <1>3
<1>10. OurPackets'
  BY <1>2, <1>4, <1>8, <1>9 DEF PacketInv, OurPackets
<1>11. NewPackets'
  BY <1>4 DEF PacketInv, NewPackets
<1>12. QED BY <1>6, <1>7, <1>10, <1>11 DEF PacketInv

\* An indication gives its packet a first owner.
LEMMA IndicateKeeps ==
    ASSUME TypeOK, PacketInv, NEW p \in Packets, IndicateMiniportPacket(p) \/ IndicateCopy(p)
    PROVE  PacketInv'
<1>1. /\ pktState[p] = "absent" /\ pc[p] = "idle"
      /\ \A q \in Packets : pktState'[q] = IF q = p THEN "ours" ELSE pktState[q]
      /\ UNCHANGED <<RecvPktQueue, curPkt>>
  BY DEF IndicateMiniportPacket, IndicateCopy, PacketInv, NewPackets, TypeOK, DataTypeOK,
     recvVars, curVars
<1>2. PICK label \in {"rcvRef", "transfer"} : Goto(p, label)
  BY DEF IndicateMiniportPacket, IndicateCopy
<1>3. /\ \A u \in Agents : OwnsPacket(u)' <=> OwnsPacket(u)
      /\ \A q \in Packets : Arriving(q)' <=> q = p \/ Arriving(q)
      /\ \A q \in Packets : q # p => pc'[q] = pc[q]
  <2>1. ~OwnsPacket(p) /\ label \notin HandlerLabels /\ label \in ArrivalLabels /\ p \in Agents
    BY <1>1 DEF OwnsPacket, HandlerLabels, ArrivalLabels, Agents
  <2>2. QED BY <1>2, <2>1, MoveOf
<1>4. ~Contains(RecvPktQueue, p) /\ \A u \in Agents : OwnsPacket(u) => curPkt[u] # p
  BY <1>1 DEF PacketInv, QueuedPackets, HandledPackets
<1>5. NoPacketTwice' /\ QueuedPackets' /\ NewPackets'
  BY <1>1, <1>3, <1>4 DEF PacketInv, NoPacketTwice, QueuedPackets, NewPackets
<1>6. HandledPackets'
  BY <1>1, <1>3, <1>4 DEF PacketInv, HandledPackets
<1>7. OurPackets'
  BY <1>1, <1>3 DEF PacketInv, OurPackets
<1>8. QED BY <1>5, <1>6, <1>7 DEF PacketInv

\* NdisTransferData completes: the indication goes on, or frees the copy.
LEMMA TransferKeeps ==
    ASSUME TypeOK, PacketInv, NEW p \in Packets, TransferDataComplete(p)
    PROVE  PacketInv'
<1>1. p \in Agents /\ Arriving(p) /\ pc[p] # "idle" /\ ~OwnsPacket(p)
  BY DEF TransferDataComplete, Arriving, ArrivalLabels, OwnsPacket, Agents
<1>2. UNCHANGED <<RecvPktQueue, curPkt>>
  BY DEF TransferDataComplete, recvVars, curVars
<1>3. CASE Goto(p, "rcvRef") /\ UNCHANGED pktVars
  <2>1. PacketQuiet
    BY <1>1, <1>2, <1>3, PacketQuietGoto DEF HandlerLabels, ArrivalLabels, pktVars
  <2>2. QED BY <2>1, PacketQuietKeeps
<1>4. CASE FreeReceivePacket(p) /\ Goto(p, "done")
  <2>1. /\ pktState'[p] \in {"freed", "returned"}
        /\ \A q \in Packets : q # p => pktState'[q] = pktState[q]
    BY <1>4 DEF FreeReceivePacket, TypeOK, DataTypeOK
  <2>2. /\ \A u \in Agents : OwnsPacket(u)' <=> OwnsPacket(u)
        /\ \A q \in Packets : Arriving(q)' <=> q # p /\ Arriving(q)
        /\ \A q \in Packets : q # p => pc'[q] = pc[q]
    BY <1>1, <1>4, MoveOf DEF HandlerLabels, ArrivalLabels
  <2>3. ~Contains(RecvPktQueue, p) /\ \A u \in Agents : OwnsPacket(u) => curPkt[u] # p
    BY <1>1 DEF PacketInv, QueuedPackets, HandledPackets
  <2>4. NoPacketTwice' /\ QueuedPackets' /\ NewPackets'
    BY <1>2, <2>1, <2>2, <2>3 DEF PacketInv, NoPacketTwice, QueuedPackets, NewPackets
  <2>5. HandledPackets'
    BY <1>2, <2>1, <2>2, <2>3 DEF PacketInv, HandledPackets
  <2>6. OurPackets'
    BY <1>2, <2>1, <2>2 DEF PacketInv, OurPackets
  <2>7. QED BY <2>4, <2>5, <2>6 DEF PacketInv
<1>5. QED BY <1>3, <1>4 DEF TransferDataComplete

\* A packet is dropped: the indication goes on to give it back.
LEMMA RefuseKeeps ==
    ASSUME TypeOK, PacketInv, NEW p \in Packets, RefuseReceivePacket(p)
    PROVE  PacketInv'
<1>1. /\ p \in Agents /\ Arriving(p) /\ pc[p] # "idle" /\ ~OwnsPacket(p)
      /\ UNCHANGED <<RecvPktQueue, pktState>>
  BY DEF RefuseReceivePacket, Arriving, ArrivalLabels, OwnsPacket, Agents, recvVars, pktVars
<1>2. \A u \in Agents : curPkt'[u] = IF u = p THEN p ELSE curPkt[u]
  BY DEF RefuseReceivePacket, TypeOK, ThreadTypeOK
<1>3. /\ \A u \in Agents : OwnsPacket(u)' <=> u = p \/ OwnsPacket(u)
      /\ \A q \in Packets : Arriving(q)' <=> q # p /\ Arriving(q)
      /\ \A q \in Packets : q # p => pc'[q] = pc[q]
  <2>1. Goto(p, "rcvDrop") /\ "rcvDrop" \in HandlerLabels /\ "rcvDrop" \notin ArrivalLabels
    BY DEF RefuseReceivePacket, HandlerLabels, ArrivalLabels
  <2>2. QED BY <1>1, <2>1, MoveOf
<1>4. /\ pktState[p] = "ours" /\ ~Contains(RecvPktQueue, p)
      /\ \A u \in Agents : OwnsPacket(u) => curPkt[u] # p
  BY <1>1 DEF PacketInv, QueuedPackets, HandledPackets, OurPackets
<1>5. NoPacketTwice' /\ QueuedPackets' /\ NewPackets'
  BY <1>1, <1>3, <1>4 DEF PacketInv, NoPacketTwice, QueuedPackets, NewPackets
<1>6. HandledPackets'
  BY <1>1, <1>2, <1>3, <1>4 DEF PacketInv, HandledPackets
<1>7. OurPackets'
  BY <1>1, <1>2, <1>3 DEF PacketInv, OurPackets
<1>8. QED BY <1>5, <1>6, <1>7 DEF PacketInv

\* The indication links its packet, and above the water mark takes the head,
\* which may be that packet, off in the same critical section.
LEMMA QueueKeeps ==
    ASSUME TypeOK, PacketInv, NEW p \in Packets, QueueReceivePacket(p)
    PROVE  PacketInv'
<1> DEFINE queue == Append(RecvPktQueue, p)
           discards == IsTooLong(RecvPktCount + 1)
           head == Head(queue)
<1>1. /\ p \in Agents /\ Arriving(p) /\ pc[p] # "idle" /\ ~OwnsPacket(p)
      /\ UNCHANGED pktState
  BY DEF QueueReceivePacket, Arriving, ArrivalLabels, OwnsPacket, Agents, pktVars
<1>2. /\ pktState[p] = "ours" /\ ~Contains(RecvPktQueue, p)
      /\ \A u \in Agents : OwnsPacket(u) => curPkt[u] # p
  BY <1>1 DEF PacketInv, QueuedPackets, HandledPackets, OurPackets
<1>3. RecvPktQueue \in Seq(Packets)
  BY DEF TypeOK, ContextTypeOK
<1>4. /\ queue \in Seq(Packets) /\ queue # <<>>
      /\ \A j, k \in 1 .. Len(queue) : queue[j] = queue[k] => j = k
      /\ \A x : Contains(queue, x) <=> Contains(RecvPktQueue, x) \/ x = p
  <2>1. \A j, k \in 1 .. Len(RecvPktQueue) : RecvPktQueue[j] = RecvPktQueue[k] => j = k
    BY DEF PacketInv, NoPacketTwice
  <2>2. queue \in Seq(Packets) /\ queue # <<>>
    BY <1>3, AppendProperties
  <2>3. QED BY <1>2, <1>3, <2>1, <2>2, AppendOne
<1> HIDE DEF queue
<1>5. 1 \in 1 .. Len(queue) /\ head = queue[1] /\ head \in Packets /\ Contains(queue, head)
  BY <1>4, EmptySeq, LenProperties, HeadTailProperties DEF Contains
<1>6. /\ \A j, k \in 1 .. Len(Tail(queue)) : Tail(queue)[j] = Tail(queue)[k] => j = k
      /\ \A x : Contains(Tail(queue), x) <=> Contains(queue, x) /\ x # head
  BY <1>4, TailOne DEF head
<1>7. head = p \/ Contains(RecvPktQueue, head)
  BY <1>4, <1>5
<1>8. /\ pktState[head] = "ours"
      /\ \A u \in Agents : OwnsPacket(u) => curPkt[u] # head
      /\ head # p => ~Arriving(head)
  BY <1>2, <1>5, <1>7 DEF PacketInv, QueuedPackets, HandledPackets
<1>9. /\ RecvPktQueue' = IF discards THEN Tail(queue) ELSE queue
      /\ Goto(p, IF discards THEN "rcvDiscard" ELSE "svcRef")
      /\ \A u \in Agents : curPkt'[u] = IF u = p /\ discards THEN head ELSE curPkt[u]
  BY DEF QueueReceivePacket, TypeOK, ThreadTypeOK, queue
<1> HIDE DEF discards, head
<1>10. /\ \A u \in Agents : OwnsPacket(u)' <=> (u = p /\ discards) \/ OwnsPacket(u)
       /\ \A q \in Packets : Arriving(q)' <=> q # p /\ Arriving(q)
       /\ \A q \in Packets : q # p => pc'[q] = pc[q]
  <2>1. /\ (IF discards THEN "rcvDiscard" ELSE "svcRef") \in HandlerLabels <=> discards
        /\ (IF discards THEN "rcvDiscard" ELSE "svcRef") \notin ArrivalLabels
    BY DEF HandlerLabels, ArrivalLabels
  <2>2. QED BY <1>1, <1>9, <2>1, MoveOf
<1>11. /\ NoPacketTwice'
       /\ \A x : Contains(RecvPktQueue', x) <=>
             (Contains(RecvPktQueue, x) \/ x = p) /\ ~(discards /\ x = head)
  BY <1>4, <1>6, <1>9 DEF NoPacketTwice
<1>12. QueuedPackets' /\ NewPackets'
  BY <1>1, <1>2, <1>10, <1>11 DEF PacketInv, QueuedPackets, NewPackets
<1>13. HandledPackets'
  <2>1. ASSUME NEW t \in Agents, OwnsPacket(t)'
        PROVE  /\ curPkt'[t] \in Packets /\ pktState[curPkt'[t]] = "ours"
               /\ ~Contains(RecvPktQueue', curPkt'[t]) /\ pc'[curPkt'[t]] \notin ArrivalLabels
    <3>1. CASE t = p /\ discards
      <4>1. curPkt'[t] = head
        BY <1>1, <1>9, <3>1
      <4>2. pc'[head] \notin ArrivalLabels
        BY <1>5, <1>8, <1>10 DEF Arriving
      <4>3. QED BY <1>5, <1>8, <1>11, <3>1, <4>1, <4>2 DEF Arriving
    <3>2. CASE ~(t = p /\ discards)
      <4>1. OwnsPacket(t) /\ curPkt'[t] = curPkt[t]
        BY <1>9, <1>10, <2>1, <3>2
      <4>2. curPkt[t] \in Packets /\ pktState[curPkt[t]] = "ours" /\ curPkt[t] # p
            /\ ~Contains(RecvPktQueue, curPkt[t]) /\ ~Arriving(curPkt[t])
        BY <1>2, <4>1 DEF PacketInv, HandledPackets
      <4>3. QED BY <1>10, <1>11, <4>1, <4>2 DEF Arriving
    <3>3. QED BY <3>1, <3>2
  <2>2. ASSUME NEW t \in Agents, NEW u \in Agents, OwnsPacket(t)', OwnsPacket(u)',
               curPkt'[u] = curPkt'[t]
        PROVE  u = t
    BY <1>1, <1>8, <1>9, <1>10, <2>2 DEF PacketInv, HandledPackets
  <2>3. QED BY <1>1, <2>1, <2>2 DEF HandledPackets, Arriving
<1>14. OurPackets'
  <2>1. \A u \in Agents : OwnsPacket(u) => OwnsPacket(u)' /\ curPkt'[u] = curPkt[u]
    BY <1>1, <1>9, <1>10
  <2>2. discards => OwnsPacket(p)' /\ curPkt'[p] = head
    BY <1>1, <1>9, <1>10
  <2>3. QED BY <1>1, <1>10, <1>11, <2>1, <2>2 DEF PacketInv, OurPackets
<1>15. QED BY <1>11, <1>12, <1>13, <1>14 DEF PacketInv

\* Taking a packet in the service routine or a flush.
LEMMA TakePacketKeeps ==
    ASSUME TypeOK, PacketInv, NEW t \in Agents,
           ServiceFirst(t) \/ ServiceAgain(t) \/ FlushTurn(t)
    PROVE  PacketInv'
<1>1. /\ ~OwnsPacket(t) /\ ~Arriving(t) /\ pc[t] # "idle"
      /\ UNCHANGED pktState
  BY DEF ServiceFirst, ServiceAgain, FlushTurn, OwnsPacket, Arriving, ArrivalLabels, pktVars
<1>2. ASSUME NEW label \in HandlerLabels, Goto(t, label), RecvPktQueue # <<>>,
             curPkt' = [curPkt EXCEPT ![t] = Head(RecvPktQueue)],
             RecvPktQueue' = Tail(RecvPktQueue)
      PROVE  PacketInv'
  BY <1>1, <1>2, DequeueKeeps
<1>3. ASSUME NEW label, label \notin HandlerLabels \cup ArrivalLabels, Goto(t, label),
             UNCHANGED <<RecvPktQueue, curPkt>>
      PROVE  PacketInv'
  <2>1. PacketQuiet
    BY <1>1, <1>3, PacketQuietGoto
  <2>2. QED BY <2>1, PacketQuietKeeps
<1>4. CASE ServiceFirst(t) \/ ServiceAgain(t)
  <2>1. "svcDerefPkt" \in HandlerLabels /\ "svcDerefTemp" \notin HandlerLabels \cup ArrivalLabels
    BY DEF HandlerLabels, ArrivalLabels
  <2>2. ServiceTurn(t)
    BY <1>4 DEF ServiceFirst, ServiceAgain
  <2>3. QED BY <1>2, <1>3, <2>1, <2>2 DEF ServiceTurn, recvVars, curVars
<1>5. CASE FlushTurn(t)
  <2>1. "flFree" \in HandlerLabels /\ "flDerefTemp" \notin HandlerLabels \cup ArrivalLabels
    BY DEF HandlerLabels, ArrivalLabels
  <2>2. QED BY <1>2, <1>3, <1>5, <2>1 DEF FlushTurn, recvVars
<1>6. QED BY <1>4, <1>5

\* Giving a packet back: ServiceFree, DiscardFree and FlushFree.
LEMMA FreeKeeps ==
    ASSUME TypeOK, PacketInv, NEW t \in Agents, ServiceFree(t) \/ DiscardFree(t) \/ FlushFree(t)
    PROVE  PacketInv'
<1>1. /\ OwnsPacket(t) /\ FreeReceivePacket(curPkt[t]) /\ UNCHANGED RecvPktQueue
      /\ \A u \in Agents : u # t => curPkt'[u] = curPkt[u]
  BY DEF ServiceFree, DiscardFree, FlushFree, OwnsPacket, recvVars, curVars, TypeOK, ThreadTypeOK
<1>2. PICK label \in {"svcDerefRead", "rcvDropDeref", "rcvDiscardDeref", "flDeref"} : Goto(t, label)
  BY DEF ServiceFree, DiscardFree, FlushFree
<1>3. label \notin HandlerLabels \cup ArrivalLabels \cup {"idle"}
  BY DEF HandlerLabels, ArrivalLabels
<1>4. QED BY <1>1, <1>2, <1>3, GiveBackKeeps

\* The steps of an indication that take or drop its reference.
LEMMA PacketQuietReceive ==
    ASSUME TypeOK, NEW p \in Packets, QueueReceivePacketRef(p) \/ DiscardDeref(p)
    PROVE  PacketQuiet
<1>1. p \in Agents
  BY DEF Agents
<1> USE DEF OwnsPacket, Arriving, HandlerLabels, ArrivalLabels, recvVars, pktVars, curVars
<1>2. CASE QueueReceivePacketRef(p)
  BY <1>1, <1>2, PacketQuietGoto DEF QueueReceivePacketRef
<1>3. CASE DiscardDeref(p)
  <2>1. ~OwnsPacket(p) /\ UNCHANGED <<RecvPktQueue, pktState>> /\ pc[p] # "idle" /\ ~Arriving(p)
    BY <1>3 DEF DiscardDeref
  <2>2. \A u \in Agents : u # p => curPkt'[u] = curPkt[u]
    BY <1>3 DEF DiscardDeref, TypeOK, ThreadTypeOK
  <2>3. PICK label \in {"done", "svcRef"} : Goto(p, label)
    BY <1>3 DEF DiscardDeref
  <2>4. label \notin HandlerLabels \cup ArrivalLabels
    OBVIOUS
  <2>5. \A u \in Agents : OwnsPacket(u) => curPkt'[u] = curPkt[u]
    BY <2>1, <2>2
  <2> HIDE DEF OwnsPacket, Arriving, HandlerLabels, ArrivalLabels
  <2>6. QED BY <1>1, <2>1, <2>3, <2>4, <2>5, PacketQuietGoto
<1>4. QED BY <1>2, <1>3

-----------------------------------------------------------------------------
(* The theorem about packets.                                               *)

\* Every step keeps the invariant.
LEMMA PacketInvStep == TypeOK /\ NewReads /\ PacketInv /\ [Next]_vars => PacketInv'
<1> SUFFICES ASSUME TypeOK, NewReads, PacketInv, [Next]_vars PROVE PacketInv'
  OBVIOUS
<1>1. CASE UNCHANGED vars
  <2>1. PacketQuiet
    BY <1>1 DEF vars, PacketQuiet, OwnsPacket, Arriving, recvVars, pktVars, curVars
  <2>2. QED BY <2>1, PacketQuietKeeps
<1>2. ASSUME NEW t \in Reads \cup Packets, ServiceReads(t) PROVE PacketInv'
  <2>1. t \in Agents
    BY DEF Agents
  <2>2. QED
    BY <1>2, <2>1, PacketQuietServiceReads, PacketQuietKeeps, TakePacketKeeps, FreeKeeps
    DEF ServiceReads
<1>3. ASSUME NEW p \in Packets,
             Receive(p) \/ IndicateMiniportPacket(p) \/ IndicateCopy(p)
      PROVE  PacketInv'
  <2>1. p \in Agents
    BY DEF Agents
  <2>2. QED
    BY <1>3, <2>1, IndicateKeeps, TransferKeeps, QueueKeeps, RefuseKeeps, FreeKeeps,
       PacketQuietReceive, PacketQuietKeeps DEF Receive
<1>4. ASSUME NEW t \in {"cleanup", "pnp"}, FlushReceiveQueue(t) PROVE PacketInv'
  <2>1. t \in Agents
    BY DEF Agents
  <2>2. QED
    BY <1>4, <2>1, TakePacketKeeps, FreeKeeps, PacketQuietTeardown, PacketQuietKeeps
    DEF FlushReceiveQueue
<1>5. CASE Environment
  BY <1>3, <1>5, PacketQuietReads, PacketQuietTeardown, PacketQuietKeeps DEF Environment
<1>6. ASSUME NEW r \in Reads, ReadThread(r) \/ CancelRead(r) PROVE PacketInv'
  BY <1>2, <1>6, PacketQuietReads, PacketQuietKeeps DEF ReadThread
<1>7. ASSUME NEW p \in Packets, PacketThread(p) PROVE PacketInv'
  BY <1>2, <1>3, <1>7 DEF PacketThread
<1>8. CASE CleanupThread
  BY <1>4, <1>8, PacketQuietTeardown, PacketQuietKeeps DEF CleanupThread
<1>9. CASE PnPThread
  BY <1>4, <1>9, PacketQuietTeardown, PacketQuietKeeps DEF PnPThread
<1>10. QED BY <1>1, <1>5, <1>6, <1>7, <1>8, <1>9 DEF Next

\* It holds of a binding that nothing has happened on.
LEMMA PacketInvInit == Init => PacketInv
<1> SUFFICES ASSUME Init PROVE PacketInv
  OBVIOUS
<1>1. \A x : ~Contains(RecvPktQueue, x)
  BY EmptySeq DEF Init, Contains
<1>2. /\ \A t \in Agents : pc[t] = "idle" /\ ~OwnsPacket(t)
      /\ \A p \in Packets : pc[p] = "idle" /\ ~Arriving(p) /\ pktState[p] = "absent"
  BY DEF Init, OwnsPacket, Arriving, ArrivalLabels, Agents
<1>3. NoPacketTwice
  BY EmptySeq DEF Init, NoPacketTwice
<1>4. QED BY <1>1, <1>2, <1>3
  DEF PacketInv, QueuedPackets, HandledPackets, OurPackets, NewPackets

\* The owners of a packet are the three kinds of place that the invariant
\* names, and no two of them at once.
LEMMA OwnersOfPacket ==
    ASSUME PacketInv, NEW p \in Packets
    PROVE  /\ pktState[p] # "ours" => PacketOwners(p) = {}
           /\ pktState[p] = "ours" => \E o : PacketOwners(p) = {o}
<1>1. ASSUME NEW o
      PROVE  o \in PacketOwners(p) <=>
                \/ \E i \in 1 .. Len(RecvPktQueue) : RecvPktQueue[i] = p /\ o = <<"queue", i>>
                \/ \E t \in Agents : OwnsPacket(t) /\ curPkt[t] = p /\ o = <<"thread", t>>
                \/ Arriving(p) /\ o = <<"arrival", p>>
  BY DEF PacketOwners, Arriving, ArrivalLabels
<1>2. CASE pktState[p] # "ours"
  <2>1. /\ ~Contains(RecvPktQueue, p) /\ ~Arriving(p)
        /\ \A t \in Agents : ~(OwnsPacket(t) /\ curPkt[t] = p)
    BY <1>2 DEF PacketInv, QueuedPackets, HandledPackets, OurPackets
  <2>2. QED BY <1>1, <1>2, <2>1 DEF Contains
<1>3. CASE pktState[p] = "ours" /\ Contains(RecvPktQueue, p)
  <2>1. PICK i \in 1 .. Len(RecvPktQueue) : RecvPktQueue[i] = p
    BY <1>3 DEF Contains
  <2>2. \A j \in 1 .. Len(RecvPktQueue) : RecvPktQueue[j] = p => j = i
    BY <2>1 DEF PacketInv, NoPacketTwice
  <2>3. ~Arriving(p) /\ \A t \in Agents : ~(OwnsPacket(t) /\ curPkt[t] = p)
    BY <1>3 DEF PacketInv, QueuedPackets, HandledPackets
  <2>4. PacketOwners(p) = {<<"queue", i>>}
    BY <1>1, <2>1, <2>2, <2>3
  <2>5. QED BY <1>3, <2>4
<1>4. CASE pktState[p] = "ours" /\ Arriving(p)
  <2>1. ~Contains(RecvPktQueue, p) /\ \A t \in Agents : ~(OwnsPacket(t) /\ curPkt[t] = p)
    BY <1>4 DEF PacketInv, QueuedPackets, HandledPackets
  <2>2. PacketOwners(p) = {<<"arrival", p>>}
    BY <1>1, <1>4, <2>1 DEF Contains
  <2>3. QED BY <1>4, <2>2
<1>5. ASSUME pktState[p] = "ours", NEW t \in Agents, OwnsPacket(t), curPkt[t] = p
      PROVE  PacketOwners(p) = {<<"thread", t>>}
  <2>1. /\ ~Contains(RecvPktQueue, p) /\ ~Arriving(p)
        /\ \A u \in Agents : OwnsPacket(u) /\ curPkt[u] = p => u = t
    BY <1>5 DEF PacketInv, HandledPackets
  <2>2. QED BY <1>1, <1>5, <2>1 DEF Contains
<1>6. QED BY <1>2, <1>3, <1>4, <1>5 DEF PacketInv, OurPackets

\* For any number of packets and whatever discards, flushes and services race:
\* a packet the driver took is with exactly one of its indication, the queue
\* and a thread, and one that was given back is with none, so that none is
\* freed twice, returned twice or leaked.
THEOREM PacketsHaveOneOwner == Spec => []PacketHasOneOwner
<1>1. PacketInv => PacketHasOneOwner
  <2>1. SUFFICES ASSUME PacketInv, NEW p \in Packets
                 PROVE  Cardinality(PacketOwners(p)) = IF pktState[p] = "ours" THEN 1 ELSE 0
    BY DEF PacketHasOneOwner
  <2>2. CASE pktState[p] = "ours"
    <3>1. PICK o : PacketOwners(p) = {o}
      BY <2>1, <2>2, OwnersOfPacket
    <3>2. QED BY <2>2, <3>1, FS_Singleton
  <2>3. CASE pktState[p] # "ours"
    BY <2>1, <2>3, OwnersOfPacket, FS_EmptySet
  <2>4. QED BY <2>2, <2>3
<1>2. TypeOK /\ ReadInv /\ PacketInv /\ [Next]_vars => PacketInv'
  BY PacketInvStep DEF ReadInv
<1>3. QED BY <1>1, <1>2, PacketInvInit, ReadInvHolds, TypeCorrect, PTL DEF Spec

-----------------------------------------------------------------------------
(* PendedReadCount, and what Unbind makes of it.                            *)

CountLabels == {"svcDerefPkt", "svcComplete", "svcFree", "svcDerefRead", "svcRelock",
                "cprComplete", "cprDeref", "cprRelock"}

\* There are finitely many threads.
LEMMA AgentsAreFinite == IsFiniteSet(Agents)
<1>1. IsFiniteSet({"cleanup", "pnp"})
  <2>1. IsFiniteSet({} \cup {"cleanup"})
    BY FS_EmptySet, FS_AddElement
  <2>2. IsFiniteSet(({} \cup {"cleanup"}) \cup {"pnp"})
    BY <2>1, FS_AddElement
  <2>3. ({} \cup {"cleanup"}) \cup {"pnp"} = {"cleanup", "pnp"}
    OBVIOUS
  <2>4. QED BY <2>2, <2>3
<1>2. IsFiniteSet((Reads \cup Packets) \cup {"cleanup", "pnp"})
  <2>1. IsFiniteSet(Reads \cup Packets)
    BY AgentsAssumption, FS_Union
  <2>2. QED BY <1>1, <2>1, FS_Union
<1>3. QED BY <1>2 DEF Agents

\* What one thread's move does to the number of the threads that a count counts.
LEMMA CountMove ==
    ASSUME NEW S \in SUBSET Agents, NEW T \in SUBSET Agents, NEW t \in Agents,
           \A u \in Agents : u # t => (u \in T <=> u \in S)
    PROVE  /\ Cardinality(S) \in Nat /\ Cardinality(T) \in Nat
           /\ Cardinality(T) = Cardinality(S) + (IF t \in T THEN 1 ELSE 0)
                                              - (IF t \in S THEN 1 ELSE 0)
<1>1. IsFiniteSet(S) /\ IsFiniteSet(T) /\ Cardinality(S) \in Nat /\ Cardinality(T) \in Nat
  BY AgentsAreFinite, FS_Subset, FS_CardinalityType
<1>2. CASE t \in S <=> t \in T
  <2>1. S = T
    BY <1>2
  <2>2. QED BY <1>1, <1>2, <2>1
<1>3. CASE t \in T /\ t \notin S
  <2>1. T = S \cup {t}
    BY <1>3
  <2>2. QED BY <1>1, <1>3, <2>1, FS_AddElement
<1>4. CASE t \notin T /\ t \in S
  <2>1. T = S \ {t}
    BY <1>4
  <2>2. QED BY <1>1, <1>4, <2>1, FS_RemoveElement
<1>5. QED BY <1>2, <1>3, <1>4

\* Sums of differences.
LEMMA Balance ==
    ASSUME NEW p \in Int, NEW q \in Int, NEW m \in Int, NEW n \in Int, NEW a \in Int, NEW b \in Int,
           NEW c \in Int, NEW d \in Int, p = n + c, d = c + a - b, q - m - a = p - n - b
    PROVE  q = m + d
OBVIOUS

\* A thread's move keeps the count exact if it changes the count, the queue
\* and its own part by the same amount.
LEMMA CountKept ==
    ASSUME TypeOK, PendedReadCountIsExact, NEW t \in Agents, NEW label, Goto(t, label),
           PendedReads' \in Seq(Reads), PendedReadCount' \in Int,
           PendedReadCount' - Len(PendedReads') - (IF label \in CountLabels THEN 1 ELSE 0)
             = PendedReadCount - Len(PendedReads) - (IF CountsARead(t) THEN 1 ELSE 0)
    PROVE  PendedReadCountIsExact'
<1> DEFINE S == {u \in Agents : CountsARead(u)}
           T == {u \in Agents : CountsARead(u)'}
<1>1. \A u \in Agents : pc'[u] = IF u = t THEN label ELSE pc[u]
  BY DEF Goto, TypeOK, LabelsOK
<1>2. \A u \in Agents : CountsARead(u)' <=> IF u = t THEN label \in CountLabels ELSE CountsARead(u)
  BY <1>1 DEF CountsARead, CountLabels
<1>3. /\ Cardinality(S) \in Nat /\ Cardinality(T) \in Nat
      /\ Cardinality(T) = Cardinality(S) + (IF t \in T THEN 1 ELSE 0)
                                         - (IF t \in S THEN 1 ELSE 0)
  <2>1. \A u \in Agents : u # t => (u \in T <=> u \in S)
    BY <1>2
  <2>2. S \in SUBSET Agents /\ T \in SUBSET Agents
    OBVIOUS
  <2> HIDE DEF S, T
  <2>3. QED BY <2>1, <2>2, CountMove
<1>4. (t \in T <=> label \in CountLabels) /\ (t \in S <=> CountsARead(t))
  BY <1>2
<1>5. Len(PendedReads) \in Nat /\ Len(PendedReads') \in Nat /\ PendedReadCount \in Int
  BY LenProperties DEF TypeOK, ContextTypeOK
<1>6. PendedReadCount = Len(PendedReads) + Cardinality(S)
  BY DEF PendedReadCountIsExact
<1> HIDE DEF S, T
<1>7. PendedReadCount' = Len(PendedReads') + Cardinality(T)
  <2> DEFINE a == IF label \in CountLabels THEN 1 ELSE 0
             b == IF CountsARead(t) THEN 1 ELSE 0
             n == Len(PendedReads)
             m == Len(PendedReads')
  <2>1. /\ a \in Int /\ b \in Int /\ n \in Int /\ m \in Int /\ PendedReadCount' \in Int
        /\ Cardinality(T) = Cardinality(S) + a - b
        /\ PendedReadCount' - m - a = PendedReadCount - n - b
        /\ PendedReadCount = n + Cardinality(S)
        /\ PendedReadCount \in Int /\ Cardinality(S) \in Int /\ Cardinality(T) \in Int
    BY <1>3, <1>4, <1>5, <1>6
  <2> HIDE DEF a, b, n, m
  <2>2. PendedReadCount' = m + Cardinality(T)
    BY ONLY <2>1, Balance
  <2>3. QED BY <2>2 DEF m
<1>8. QED BY <1>7 DEF PendedReadCountIsExact, T

\* A thread that goes on and has to do with no count.
LEMMA CountQuiet ==
    ASSUME TypeOK, PendedReadCountIsExact, NEW t \in Agents, NEW label, Goto(t, label),
           label \in CountLabels <=> CountsARead(t), UNCHANGED readVars
    PROVE  PendedReadCountIsExact'
<1>1. PendedReads' = PendedReads /\ PendedReadCount' = PendedReadCount
  BY DEF readVars
<1>2. PendedReads \in Seq(Reads) /\ PendedReadCount \in Int /\ Len(PendedReads) \in Nat
  BY LenProperties DEF TypeOK, ContextTypeOK
<1>3. QED BY <1>1, <1>2, CountKept

\* A step in which no thread moves.
LEMMA CountStill ==
    ASSUME TypeOK, PendedReadCountIsExact, UNCHANGED pc,
           PendedReads' \in Seq(Reads), PendedReadCount' \in Int,
           PendedReadCount' - Len(PendedReads') = PendedReadCount - Len(PendedReads)
    PROVE  PendedReadCountIsExact'
<1> DEFINE S == {u \in Agents : CountsARead(u)}
<1>1. S = {u \in Agents : CountsARead(u)'}
  BY DEF CountsARead
<1>2. Cardinality(S) \in Int
  <2>1. S \in SUBSET Agents
    OBVIOUS
  <2> HIDE DEF S
  <2>2. QED BY <2>1, AgentsAreFinite, FS_Subset, FS_CardinalityType
<1> DEFINE m == Len(PendedReads')
           n == Len(PendedReads)
<1>3. /\ n \in Int /\ m \in Int
      /\ PendedReadCount \in Int /\ PendedReadCount' \in Int
      /\ PendedReadCount = n + Cardinality(S)
      /\ PendedReadCount' - m = PendedReadCount - n
  BY <1>2, LenProperties DEF TypeOK, ContextTypeOK, PendedReadCountIsExact
<1> HIDE DEF S, m, n
<1>4. PendedReadCount' = m + Cardinality(S)
  BY ONLY <1>2, <1>3
<1>5. QED BY <1>1, <1>4 DEF PendedReadCountIsExact, m

\* Taking one read off the queue shortens it by one.
LEMMA OneShorter ==
    ASSUME TypeOK, NEW i \in 1 .. Len(PendedReads),
           \/ PendedReads' = RemoveAt(PendedReads, i)
           \/ PendedReads # <<>> /\ PendedReads' = Tail(PendedReads)
    PROVE  PendedReads' \in Seq(Reads) /\ Len(PendedReads') = Len(PendedReads) - 1
<1>1. PendedReads \in Seq(Reads)
  BY DEF TypeOK, ContextTypeOK
<1>2. CASE PendedReads' = RemoveAt(PendedReads, i)
  BY <1>1, <1>2, RemoveAtProperties
<1>3. CASE PendedReads # <<>> /\ PendedReads' = Tail(PendedReads)
  BY <1>1, <1>3, HeadTailProperties
<1>4. QED BY <1>2, <1>3

\* ndisprotServiceReads: a thread counts the read it took until it is back
\* under the lock.
LEMMA ServiceCounts ==
    ASSUME TypeOK, PendedReadCountIsExact, NEW t \in Agents, ServiceReads(t)
    PROVE  PendedReadCountIsExact'
<1>1. /\ PendedReads \in Seq(Reads) /\ PendedReadCount \in Int /\ Len(PendedReads) \in Nat
  BY LenProperties DEF TypeOK, ContextTypeOK
<1>2. CASE ServiceFirst(t) \/ ServiceAgain(t)
  <2>1. /\ ServiceTurn(t) /\ PendedReadCount' \in Int
        /\ PendedReadCount' = PendedReadCount - (IF CountsARead(t) THEN 1 ELSE 0)
    BY <1>1, <1>2 DEF ServiceFirst, ServiceAgain, CountsARead
  <2>2. ASSUME NEW i \in 1 .. Len(PendedReads), PendedReads' = RemoveAt(PendedReads, i),
               Goto(t, "svcDerefPkt")
        PROVE  PendedReadCountIsExact'
    <3>1. PendedReads' \in Seq(Reads) /\ Len(PendedReads') = Len(PendedReads) - 1
      BY <2>2, OneShorter
    <3>2. "svcDerefPkt" \in CountLabels
      BY DEF CountLabels
    <3>3. PendedReadCount' - Len(PendedReads') - (IF "svcDerefPkt" \in CountLabels THEN 1 ELSE 0)
             = PendedReadCount - Len(PendedReads) - (IF CountsARead(t) THEN 1 ELSE 0)
      BY <1>1, <2>1, <3>1, <3>2
    <3>4. QED BY <2>1, <2>2, <3>1, <3>3, CountKept
  <2>3. ASSUME UNCHANGED PendedReads, Goto(t, "svcDerefTemp") PROVE PendedReadCountIsExact'
    <3>1. "svcDerefTemp" \notin CountLabels
      BY DEF CountLabels
    <3>2. PendedReadCount' - Len(PendedReads') - (IF "svcDerefTemp" \in CountLabels THEN 1 ELSE 0)
             = PendedReadCount - Len(PendedReads) - (IF CountsARead(t) THEN 1 ELSE 0)
      BY <1>1, <2>1, <2>3, <3>1
    <3>3. QED BY <1>1, <2>1, <2>3, <3>2, CountKept
  <2>4. QED BY <2>1, <2>2, <2>3 DEF ServiceTurn
<1>3. CASE ServiceRef(t) \/ ServiceDerefPacket(t) \/ ServiceComplete(t) \/ ServiceFree(t)
           \/ ServiceDerefRead(t) \/ ServiceReturn(t)
  <2>1. UNCHANGED readVars
    BY <1>3 DEF ServiceRef, ServiceDerefPacket, ServiceComplete, ServiceFree, ServiceDerefRead,
       ServiceReturn
  <2>2. PICK label \in ServiceLabels \cup {"done"} :
          Goto(t, label) /\ (label \in CountLabels <=> CountsARead(t))
    BY <1>3 DEF ServiceRef, ServiceDerefPacket, ServiceComplete, ServiceFree, ServiceDerefRead,
       ServiceReturn, ServiceLabels, CountLabels, CountsARead
  <2>3. QED BY <2>1, <2>2, CountQuiet
<1>4. QED BY <1>2, <1>3 DEF ServiceReads

\* ndisprotCancelPendingReads does the same.
LEMMA CancelPendingCounts ==
    ASSUME TypeOK, PendedReadCountIsExact, NEW t \in Agents, CancelPendingReads(t)
    PROVE  PendedReadCountIsExact'
<1>1. /\ PendedReads \in Seq(Reads) /\ PendedReadCount \in Int /\ Len(PendedReads) \in Nat
  BY LenProperties DEF TypeOK, ContextTypeOK
<1>2. CASE CancelPendingFirst(t) \/ CancelPendingAgain(t)
  <2>1. /\ PendedReadCount' \in Int
        /\ PendedReadCount' = PendedReadCount - (IF CountsARead(t) THEN 1 ELSE 0)
    BY <1>1, <1>2 DEF CancelPendingFirst, CancelPendingAgain, CountsARead
  <2>2. ASSUME PendedReads # <<>>, PendedReads' = Tail(PendedReads), Goto(t, "cprComplete")
        PROVE  PendedReadCountIsExact'
    <3>1. PendedReads' \in Seq(Reads) /\ Len(PendedReads') = Len(PendedReads) - 1
      BY <1>1, <2>2, HeadTailProperties
    <3>2. "cprComplete" \in CountLabels
      BY DEF CountLabels
    <3>3. PendedReadCount' - Len(PendedReads') - (IF "cprComplete" \in CountLabels THEN 1 ELSE 0)
             = PendedReadCount - Len(PendedReads) - (IF CountsARead(t) THEN 1 ELSE 0)
      BY <1>1, <2>1, <3>1, <3>2
    <3>4. QED BY <2>1, <2>2, <3>1, <3>3, CountKept
  <2>3. ASSUME NEW label \in {"cprDerefTemp", "cprLock"}, UNCHANGED PendedReads, Goto(t, label)
        PROVE  PendedReadCountIsExact'
    <3>1. label \notin CountLabels
      BY DEF CountLabels
    <3>2. PendedReadCount' - Len(PendedReads') - (IF label \in CountLabels THEN 1 ELSE 0)
             = PendedReadCount - Len(PendedReads) - (IF CountsARead(t) THEN 1 ELSE 0)
      BY <1>1, <2>1, <2>3, <3>1
    <3>3. QED BY <1>1, <2>1, <2>3, <3>2, CountKept
  <2>4. QED
    BY <1>2, <2>2, <2>3 DEF CancelPendingFirst, CancelPendingAgain, CancelPendingTurn
<1>3. CASE CancelPendingRef(t) \/ CancelPendingComplete(t) \/ CancelPendingDeref(t)
           \/ CancelPendingReturn(t)
  <2>1. UNCHANGED readVars
    BY <1>3 DEF CancelPendingRef, CancelPendingComplete, CancelPendingDeref, CancelPendingReturn
  <2>2. PICK label \in CancelPendingLabels \cup {"flRef", "waitReads"} :
          Goto(t, label) /\ (label \in CountLabels <=> CountsARead(t))
    BY <1>3 DEF CancelPendingRef, CancelPendingComplete, CancelPendingDeref, CancelPendingReturn,
       CancelPendingLabels, CountLabels, CountsARead
  <2>3. QED BY <2>1, <2>2, CountQuiet
<1>4. QED BY <1>2, <1>3 DEF CancelPendingReads

\* Dispatch routines and cancel routines.
LEMMA ReadCounts ==
    ASSUME TypeOK, ReadInv, PendedReadCountIsExact, NEW r \in Reads,
           SubmitRead(r) \/ PendRead(r) \/ FailRead(r) \/ CancelIrp(r) \/ CancelRead(r)
    PROVE  PendedReadCountIsExact'
<1>1. /\ PendedReads \in Seq(Reads) /\ PendedReadCount \in Int /\ Len(PendedReads) \in Nat
      /\ r \in Agents
  BY LenProperties DEF TypeOK, ContextTypeOK, Agents
<1>2. CASE PendRead(r)
  <2>1. /\ PendedReads' = Append(PendedReads, r) /\ PendedReadCount' = PendedReadCount + 1
        /\ Goto(r, "svcRef") /\ "svcRef" \notin CountLabels /\ ~CountsARead(r)
    BY <1>2 DEF PendRead, CountLabels, CountsARead
  <2>2. PendedReads' \in Seq(Reads) /\ Len(PendedReads') = Len(PendedReads) + 1
    BY <1>1, <2>1, AppendProperties
  <2>3. /\ PendedReadCount' \in Int
        /\ PendedReadCount' - Len(PendedReads') - (IF "svcRef" \in CountLabels THEN 1 ELSE 0)
             = PendedReadCount - Len(PendedReads) - (IF CountsARead(r) THEN 1 ELSE 0)
    BY <1>1, <2>1, <2>2
  <2>4. QED BY <1>1, <2>1, <2>2, <2>3, CountKept
<1>3. CASE SubmitRead(r) \/ FailRead(r)
  <2>1. PICK label \in {"rdLock", "done"} : Goto(r, label)
    BY <1>3 DEF SubmitRead, FailRead
  <2>2. UNCHANGED readVars /\ label \notin CountLabels /\ ~CountsARead(r)
    BY <1>3 DEF SubmitRead, FailRead, ReadInv, NewReads, CountLabels, CountsARead
  <2>3. QED BY <1>1, <2>1, <2>2, CountQuiet
<1>4. CASE CancelIrp(r) \/ CancelReadComplete(r) \/ CancelReadDeref(r)
  <2>1. UNCHANGED <<pc, PendedReads, PendedReadCount>>
    BY <1>4 DEF CancelIrp, CancelReadComplete, CancelReadDeref, readVars
  <2>2. QED BY <1>1, <2>1, CountStill
<1>5. CASE CancelReadUnlink(r)
  <2>1. \E i \in 1 .. Len(PendedReads) : PendedReads[i] = r
    BY <1>5 DEF CancelReadUnlink, ReadInv, QueuedReads, Contains
  <2>2. PICK i \in 1 .. Len(PendedReads) :
          PendedReads' = RemoveAt(PendedReads, i) /\ PendedReadCount' = PendedReadCount - 1
    BY <1>5, <2>1 DEF CancelReadUnlink
  <2>3. PendedReads' \in Seq(Reads) /\ Len(PendedReads') = Len(PendedReads) - 1
    BY <2>2, OneShorter
  <2>4. /\ PendedReadCount' \in Int /\ UNCHANGED pc
        /\ PendedReadCount' - Len(PendedReads') = PendedReadCount - Len(PendedReads)
    BY <1>1, <1>5, <2>2, <2>3 DEF CancelReadUnlink
  <2>5. QED BY <2>3, <2>4, CountStill
<1>6. QED BY <1>2, <1>3, <1>4, <1>5 DEF CancelRead

\* Indications do not count reads, and neither does a flush.
LEMMA OtherCounts ==
    ASSUME TypeOK, ReadInv, PendedReadCountIsExact, NEW t \in Agents,
           \/ t \in Packets /\ (Receive(t) \/ IndicateMiniportPacket(t) \/ IndicateCopy(t))
           \/ t \in {"cleanup", "pnp"} /\ FlushReceiveQueue(t)
    PROVE  PendedReadCountIsExact'
<1>1. UNCHANGED readVars
  BY DEF Receive, TransferDataComplete, QueueReceivePacketRef, QueueReceivePacket,
     RefuseReceivePacket, DiscardFree, DiscardDeref, IndicateMiniportPacket, IndicateCopy,
     FlushReceiveQueue, FlushRef, FlushTurn, FlushFree, FlushDeref, FlushReturn
<1>2. CASE t \in Packets /\ (Receive(t) \/ IndicateMiniportPacket(t) \/ IndicateCopy(t))
  <2>1. PICK label \in {"transfer", "rcvRef", "rcvLock", "rcvDiscard", "rcvDrop",
                        "rcvDiscardDeref", "rcvDropDeref", "svcRef", "done"} : Goto(t, label)
    BY <1>2 DEF Receive, TransferDataComplete, QueueReceivePacketRef, QueueReceivePacket,
       RefuseReceivePacket, DiscardFree, DiscardDeref, IndicateMiniportPacket, IndicateCopy
  <2>2. label \notin CountLabels
    BY DEF CountLabels
  <2>3. ~CountsARead(t)
    BY <1>2 DEF Receive, TransferDataComplete, QueueReceivePacketRef, QueueReceivePacket,
       RefuseReceivePacket, DiscardFree, DiscardDeref, IndicateMiniportPacket, IndicateCopy,
       CountsARead, ReadInv, NewPackets
  <2>4. QED BY <1>1, <2>1, <2>2, <2>3, CountQuiet
<1>3. CASE t \in {"cleanup", "pnp"} /\ FlushReceiveQueue(t)
  <2>1. PICK label \in FlushLabels \cup {"closing", "closeAdapter", "idle"} : Goto(t, label)
    BY <1>3 DEF FlushReceiveQueue, FlushRef, FlushTurn, FlushFree, FlushDeref, FlushReturn,
       FlushLabels
  <2>2. label \notin CountLabels
    BY DEF CountLabels, FlushLabels
  <2>3. ~CountsARead(t)
    BY <1>3 DEF FlushReceiveQueue, FlushRef, FlushTurn, FlushFree, FlushDeref, FlushReturn,
       CountsARead
  <2>4. QED BY <1>1, <2>1, <2>2, <2>3, CountQuiet
<1>4. QED BY <1>2, <1>3

\* Nor do Cleanup, Close, power events and the shutdown itself.
LEMMA TeardownCounts ==
    ASSUME TypeOK, PendedReadCountIsExact,
           Cleanup \/ Close \/ PowerDown \/ PowerUp \/ Unbind \/ ShutdownBinding
    PROVE  PendedReadCountIsExact'
<1>1. UNCHANGED readVars /\ "cleanup" \in Agents /\ "pnp" \in Agents
  BY DEF Cleanup, Close, PowerDown, PowerUp, Unbind, ShutdownBinding, WaitForPendingReads,
     CloseAdapter, SetBindIdle, FreeBindResources, ShutdownReturn, Agents
<1>2. CASE PowerUp
  <2>1. UNCHANGED <<pc, PendedReads, PendedReadCount>>
    BY <1>2 DEF PowerUp, readVars
  <2>2. PendedReads \in Seq(Reads) /\ PendedReadCount \in Int
    BY DEF TypeOK, ContextTypeOK
  <2>3. QED BY <2>1, <2>2, CountStill
<1>3. CASE Cleanup \/ Close
  <2>1. PICK label \in {"cprRef", "done"} : Goto("cleanup", label)
    BY <1>3 DEF Cleanup, Close
  <2>2. label \notin CountLabels /\ ~CountsARead("cleanup")
    BY <1>3 DEF Cleanup, Close, CountLabels, CountsARead
  <2>3. QED BY <1>1, <2>1, <2>2, CountQuiet
<1>4. CASE PowerDown \/ Unbind \/ ShutdownBinding
  <2>1. PICK label \in {"flRef", "waitReads", "cprRef", "setIdle", "freePools", "bindDeref",
                        "done"} : Goto("pnp", label)
    BY <1>4 DEF PowerDown, Unbind, ShutdownBinding, WaitForPendingReads, CloseAdapter,
       SetBindIdle, FreeBindResources, ShutdownReturn
  <2>2. label \notin CountLabels /\ ~CountsARead("pnp")
    BY <1>4 DEF PowerDown, Unbind, ShutdownBinding, WaitForPendingReads, CloseAdapter,
       SetBindIdle, FreeBindResources, ShutdownReturn, CountLabels, CountsARead
  <2>3. QED BY <1>1, <2>1, <2>2, CountQuiet
<1>5. QED BY <1>2, <1>3, <1>4

\* Every step keeps the count exact.
LEMMA CountStep == TypeOK /\ ReadInv /\ PendedReadCountIsExact /\ [Next]_vars => PendedReadCountIsExact'
<1> SUFFICES ASSUME TypeOK, ReadInv, PendedReadCountIsExact, [Next]_vars
             PROVE  PendedReadCountIsExact'
  OBVIOUS
<1>1. /\ "cleanup" \in Agents /\ "pnp" \in Agents
      /\ \A t \in Reads \cup Packets : t \in Agents
  BY DEF Agents
<1>2. CASE UNCHANGED vars
  <2>1. UNCHANGED <<pc, PendedReads, PendedReadCount>>
    BY <1>2 DEF vars, readVars
  <2>2. PendedReads \in Seq(Reads) /\ PendedReadCount \in Int
    BY DEF TypeOK, ContextTypeOK
  <2>3. QED BY <2>1, <2>2, CountStill
<1>3. CASE Environment
  BY <1>1, <1>3, ReadCounts, OtherCounts, TeardownCounts DEF Environment
<1>4. ASSUME NEW r \in Reads, ReadThread(r) \/ CancelRead(r) PROVE PendedReadCountIsExact'
  BY <1>1, <1>4, ReadCounts, ServiceCounts DEF ReadThread
<1>5. ASSUME NEW p \in Packets, PacketThread(p) PROVE PendedReadCountIsExact'
  BY <1>1, <1>5, OtherCounts, ServiceCounts DEF PacketThread
<1>6. CASE CleanupThread
  BY <1>1, <1>6, CancelPendingCounts, OtherCounts, TeardownCounts DEF CleanupThread
<1>7. CASE PnPThread
  BY <1>1, <1>7, CancelPendingCounts, OtherCounts, TeardownCounts DEF PnPThread
<1>8. QED BY <1>2, <1>3, <1>4, <1>5, <1>6, <1>7 DEF Next

\* The count starts at zero with nothing pended.
LEMMA CountInit == Init => PendedReadCountIsExact
<1> SUFFICES ASSUME Init PROVE PendedReadCountIsExact
  OBVIOUS
<1>1. {t \in Agents : CountsARead(t)} = {}
  BY DEF Init, CountsARead
<1>2. PendedReads = <<>> /\ PendedReadCount = 0 /\ Len(PendedReads) = 0
  BY DEF Init
<1>3. QED BY <1>1, <1>2, FS_EmptySet DEF PendedReadCountIsExact

\* What Unbind polls is exact in every state.
LEMMA CountHolds == Spec => []PendedReadCountIsExact
<1>1. TypeOK /\ ReadInv /\ PendedReadCountIsExact /\ [Next]_vars => PendedReadCountIsExact'
  BY CountStep
<1>2. QED BY <1>1, CountInit, ReadInvHolds, TypeCorrect, PTL DEF Spec

-----------------------------------------------------------------------------
(* What Unbind has drained by the time it is where it is.                   *)

ReadsDrainedLater == {"waitReads"} \cup CancelPendingLabels
AfterFlush == {"closeAdapter", "setIdle", "freePools", "bindDeref", "done"}

DrainInv ==
    /\ pc["pnp"] \in ReadsDrainedLater => bindState = "CLOSING"
    /\ pc["pnp"] \in AfterFlush => bindState # "ACTIVE" /\ RecvPktQueue = <<>>
    /\ bindState # "ACTIVE" => /\ pc["pnp"] \in ReadsDrainedLater \/ PendedReads = <<>>
                               /\ pc["pnp"] = "flDerefTemp" => RecvPktQueue = <<>>
    /\ ~RecvPacketPool => pc["pnp"] \in {"bindDeref", "done"}

\* Once the binding is not active nothing is put on either queue.
Draining ==
    /\ bindState' = bindState /\ RecvPacketPool' = RecvPacketPool
    /\ bindState # "ACTIVE" => /\ PendedReads = <<>> => PendedReads' = <<>>
                               /\ RecvPktQueue = <<>> => RecvPktQueue' = <<>>

\* A step that only drains keeps what Unbind has reached.
LEMMA DrainingKeeps == DrainInv /\ Draining /\ pc'["pnp"] = pc["pnp"] => DrainInv'
BY DEF DrainInv, Draining

\* No routine queues a read or a packet on a binding that is not active.
LEMMA RoutinesDrain ==
    ASSUME TypeOK, NEW t,
           \/ ServiceReads(t) \/ CancelPendingReads(t) \/ FlushReceiveQueue(t)
           \/ t \in Packets /\ (Receive(t) \/ IndicateMiniportPacket(t) \/ IndicateCopy(t))
           \/ t \in Reads /\ (SubmitRead(t) \/ PendRead(t) \/ FailRead(t) \/ CancelIrp(t)
                              \/ CancelRead(t))
    PROVE  Draining
<1> USE DEF Draining, bindVars, readVars, recvVars
<1>1. \A i : i \in 1 .. Len(PendedReads) => PendedReads # <<>>
  BY EmptySeq
<1>2. CASE ServiceReads(t)
  BY <1>1, <1>2 DEF ServiceReads, ServiceRef, ServiceFirst, ServiceTurn, ServiceDerefPacket,
     ServiceComplete, ServiceFree, ServiceDerefRead, ServiceAgain, ServiceReturn
<1>3. CASE CancelPendingReads(t)
  BY <1>3 DEF CancelPendingReads, CancelPendingRef, CancelPendingFirst, CancelPendingTurn,
     CancelPendingComplete, CancelPendingDeref, CancelPendingAgain, CancelPendingReturn
<1>4. CASE FlushReceiveQueue(t)
  BY <1>4 DEF FlushReceiveQueue, FlushRef, FlushTurn, FlushFree, FlushDeref, FlushReturn
<1>5. CASE t \in Packets /\ (Receive(t) \/ IndicateMiniportPacket(t) \/ IndicateCopy(t))
  BY <1>5 DEF Receive, TransferDataComplete, QueueReceivePacketRef, QueueReceivePacket, IsBound,
     RefuseReceivePacket, DiscardFree, DiscardDeref, IndicateMiniportPacket, IndicateCopy
<1>6. CASE t \in Reads /\ (SubmitRead(t) \/ PendRead(t) \/ FailRead(t) \/ CancelIrp(t)
                           \/ CancelRead(t))
  BY <1>1, <1>6 DEF SubmitRead, PendRead, FailRead, CancelIrp, CancelRead, CancelReadUnlink,
     CancelReadComplete, CancelReadDeref, IsBound
<1>7. QED BY <1>2, <1>3, <1>4, <1>5, <1>6

\* Every step but those of the PnP thread leaves that thread where it is.
LEMMA OthersDrain ==
    ASSUME TypeOK, NEW t \in Agents \ {"pnp"},
           \/ ServiceReads(t) \/ CancelPendingReads(t) \/ FlushReceiveQueue(t)
           \/ t \in Packets /\ (Receive(t) \/ IndicateMiniportPacket(t) \/ IndicateCopy(t))
           \/ t \in Reads /\ (SubmitRead(t) \/ PendRead(t) \/ FailRead(t) \/ CancelIrp(t)
                              \/ CancelRead(t))
    PROVE  Draining /\ pc'["pnp"] = pc["pnp"]
<1>1. Draining
  BY RoutinesDrain
<1>2. UNCHANGED pc \/ \E label : Goto(t, label)
  <2>1. CASE ServiceReads(t)
    BY <2>1, Zenon DEF ServiceReads, ServiceRef, ServiceFirst, ServiceTurn, ServiceDerefPacket,
       ServiceComplete, ServiceFree, ServiceDerefRead, ServiceAgain, ServiceReturn
  <2>2. CASE CancelPendingReads(t)
    BY <2>2, Zenon DEF CancelPendingReads, CancelPendingRef, CancelPendingFirst,
       CancelPendingTurn, CancelPendingComplete, CancelPendingDeref, CancelPendingAgain,
       CancelPendingReturn
  <2>3. CASE FlushReceiveQueue(t)
    BY <2>3, Zenon DEF FlushReceiveQueue, FlushRef, FlushTurn, FlushFree, FlushDeref, FlushReturn
  <2>4. CASE t \in Packets /\ (Receive(t) \/ IndicateMiniportPacket(t) \/ IndicateCopy(t))
    BY <2>4 DEF Receive, TransferDataComplete, QueueReceivePacketRef, QueueReceivePacket,
       RefuseReceivePacket, DiscardFree, DiscardDeref, IndicateMiniportPacket, IndicateCopy
  <2>5. CASE t \in Reads /\ (SubmitRead(t) \/ PendRead(t) \/ FailRead(t) \/ CancelIrp(t)
                             \/ CancelRead(t))
    BY <2>5, Zenon DEF SubmitRead, PendRead, FailRead, CancelIrp, CancelRead, CancelReadUnlink,
       CancelReadComplete, CancelReadDeref
  <2>6. QED BY <2>1, <2>2, <2>3, <2>4, <2>5
<1>3. "pnp" \in Agents
  BY DEF Agents
<1>4. QED BY <1>1, <1>2, <1>3 DEF Goto, TypeOK, LabelsOK

\* The PnP thread: it leaves its poll when nothing is pended, and its flush
\* when nothing is queued.
LEMMA PnPDrains ==
    ASSUME TypeOK, PendedReadCountIsExact, DrainInv,
           PnPThread \/ PowerDown \/ PowerUp \/ Unbind
    PROVE  DrainInv'
<1>1. \A label : Goto("pnp", label) => pc'["pnp"] = label
  BY DEF Goto, TypeOK, LabelsOK, Agents
<1>2. /\ PendedReadCount = 0 => PendedReads = <<>>
      /\ \A i : i \in 1 .. Len(PendedReads) => PendedReads # <<>>
  <2>1. Cardinality({t \in Agents : CountsARead(t)}) \in Nat
    <3>1. {t \in Agents : CountsARead(t)} \in SUBSET Agents
      OBVIOUS
    <3>2. QED BY <3>1, AgentsAreFinite, FS_Subset, FS_CardinalityType
  <2>2. PendedReads \in Seq(Reads) /\ Len(PendedReads) \in Nat
    BY LenProperties DEF TypeOK, ContextTypeOK
  <2>3. PendedReadCount = 0 => Len(PendedReads) = 0
    BY <2>1, <2>2 DEF PendedReadCountIsExact
  <2>4. QED BY <2>2, <2>3, EmptySeq
<1> USE DEF ReadsDrainedLater, AfterFlush, CancelPendingLabels
<1>3. CASE CancelPendingReads("pnp")
  <2>1. Draining /\ pc["pnp"] \in CancelPendingLabels
    BY <1>3, RoutinesDrain DEF CancelPendingReads, CancelPendingRef, CancelPendingFirst,
       CancelPendingComplete, CancelPendingDeref, CancelPendingAgain, CancelPendingReturn
  <2>2. PICK label \in ReadsDrainedLater : Goto("pnp", label)
    BY <1>3 DEF CancelPendingReads, CancelPendingRef, CancelPendingFirst,
       CancelPendingTurn, CancelPendingComplete, CancelPendingDeref, CancelPendingAgain,
       CancelPendingReturn
  <2>3. QED BY <1>1, <2>1, <2>2 DEF Draining, DrainInv
<1>4. CASE FlushReceiveQueue("pnp")
  <2>1. Draining
    BY <1>4, RoutinesDrain
  <2>2. CASE FlushRef("pnp") \/ FlushFree("pnp") \/ FlushDeref("pnp")
    <3>1. PICK label \in {"flLock", "flDeref"} : Goto("pnp", label)
      BY <2>2 DEF FlushRef, FlushFree, FlushDeref
    <3>2. pc["pnp"] \in {"flRef", "flFree", "flDeref"}
      BY <2>2 DEF FlushRef, FlushFree, FlushDeref
    <3>3. QED BY <1>1, <2>1, <3>1, <3>2 DEF Draining, DrainInv
  <2>3. CASE FlushTurn("pnp")
    BY <1>1, <2>1, <2>3 DEF FlushTurn, Draining, DrainInv, recvVars
  <2>4. CASE FlushReturn("pnp")
    BY <1>1, <2>1, <2>4 DEF FlushReturn, Draining, DrainInv
  <2>5. QED BY <1>4, <2>2, <2>3, <2>4 DEF FlushReceiveQueue
<1>5. CASE PowerDown \/ PowerUp \/ Unbind
  BY <1>1, <1>5 DEF PowerDown, PowerUp, Unbind, DrainInv, readVars, recvVars
<1>6. CASE ShutdownBinding
  <2>1. CASE WaitForPendingReads
    BY <1>1, <1>2, <2>1 DEF WaitForPendingReads, DrainInv, bindVars, readVars, recvVars
  <2>2. CASE CloseAdapter \/ SetBindIdle \/ FreeBindResources \/ ShutdownReturn
    BY <1>1, <2>2 DEF CloseAdapter, SetBindIdle, FreeBindResources, ShutdownReturn, DrainInv,
       bindVars, readVars, recvVars
  <2>3. QED BY <1>6, <2>1, <2>2 DEF ShutdownBinding
<1>7. QED BY <1>3, <1>4, <1>5, <1>6 DEF PnPThread

\* Every step keeps it.
LEMMA DrainStep == TypeOK /\ PendedReadCountIsExact /\ DrainInv /\ [Next]_vars => DrainInv'
<1> SUFFICES ASSUME TypeOK, PendedReadCountIsExact, DrainInv, [Next]_vars PROVE DrainInv'
  OBVIOUS
<1>1. /\ "cleanup" \in Agents \ {"pnp"} /\ "pnp" \in Agents
      /\ \A t \in Reads \cup Packets : t \in Agents \ {"pnp"}
  BY AgentsAssumption DEF Agents
<1>2. CASE UNCHANGED vars
  BY <1>2 DEF vars, DrainInv, bindVars, readVars, recvVars
<1>3. ASSUME NEW r \in Reads,
             SubmitRead(r) \/ CancelIrp(r) \/ ReadThread(r) \/ CancelRead(r)
      PROVE  DrainInv'
  BY <1>1, <1>3, OthersDrain, DrainingKeeps DEF ReadThread
<1>4. ASSUME NEW p \in Packets, IndicateMiniportPacket(p) \/ IndicateCopy(p) \/ PacketThread(p)
      PROVE  DrainInv'
  BY <1>1, <1>4, OthersDrain, DrainingKeeps DEF PacketThread
<1>5. CASE Cleanup \/ Close
  <2>1. Draining
    BY <1>5 DEF Cleanup, Close, Draining, readVars, recvVars
  <2>2. pc'["pnp"] = pc["pnp"]
    BY <1>1, <1>5 DEF Cleanup, Close, Goto, TypeOK, LabelsOK
  <2>3. QED BY <2>1, <2>2, DrainingKeeps
<1>6. CASE CleanupThread
  BY <1>1, <1>5, <1>6, OthersDrain, DrainingKeeps DEF CleanupThread
<1>7. QED BY <1>2, <1>3, <1>4, <1>5, <1>6, PnPDrains DEF Next, Environment

\* It holds of a binding that nothing has happened on.
LEMMA DrainInit == Init => DrainInv
BY DEF Init, DrainInv, Agents, ReadsDrainedLater, AfterFlush, CancelPendingLabels

\* Unbind frees the pools with no read pended and no packet queued, and none
\* comes after it, however many reads and packets were on their way.
THEOREM UnbindDrains == Spec => []NothingQueuedAfterUnbind
<1>1. DrainInv => NothingQueuedAfterUnbind
  BY DEF DrainInv, NothingQueuedAfterUnbind, AfterFlush, ReadsDrainedLater, CancelPendingLabels
<1>2. TypeOK /\ PendedReadCountIsExact /\ DrainInv /\ [Next]_vars => DrainInv'
  BY DrainStep
<1>3. QED BY <1>1, <1>2, DrainInit, CountHolds, TypeCorrect, PTL DEF Spec

-----------------------------------------------------------------------------
(* RefCount.  Every step changes the set of holders by one at most.  That the   *)
(* holder it takes out was one, and is held by nobody else, follows from who    *)
(* has which read and which packet, past the moment they were disposed of.      *)

CarryLabels == {"svcDerefPkt", "svcComplete", "svcFree", "svcDerefRead", "cprComplete", "cprDeref"}
PacketRefLabels == {"svcDerefPkt", "rcvDiscard", "rcvDrop", "rcvDiscardDeref", "rcvDropDeref",
                    "flFree", "flDeref"}

Carries(t) == pc[t] \in CarryLabels

\* A thread has its read to itself until it has dropped the read's reference.
CarriedReads ==
    \A t \in Agents :
        /\ Carries(t) <=> curIrp[t] # None
        /\ Carries(t) =>
              /\ ~Contains(PendedReads, curIrp[t]) /\ cancelPc[curIrp[t]] = "idle"
              /\ irpStatus[curIrp[t]] \notin {"unsent", "dispatched"}
              /\ \A u \in Agents : curIrp[u] = curIrp[t] => u = t

\* So has the cancel routine.
UnlinkedReads == \A r \in Reads : cancelPc[r] = "deref" => ~Contains(PendedReads, r)

\* A thread has its packet to itself until it has dropped the packet's reference.
CarriedPackets ==
    \A t \in Agents : HoldsPacketRef(t) =>
        /\ curPkt[t] \in Packets /\ ~Contains(RecvPktQueue, curPkt[t])
        /\ ~Arriving(curPkt[t]) /\ pktState[curPkt[t]] # "absent"
        /\ \A u \in Agents : HoldsPacketRef(u) /\ curPkt[u] = curPkt[t] => u = t

HoldInv == CarriedReads /\ UnlinkedReads /\ CarriedPackets

-----------------------------------------------------------------------------
(* The set of holders, kind by kind.                                        *)

HeldRead(r) ==
    \/ Contains(PendedReads, r)
    \/ \E t \in Agents : curIrp[t] = r
    \/ cancelPc[r] \in {"complete", "deref"}

HeldPacket(p) ==
    \/ Contains(RecvPktQueue, p)
    \/ \E t \in Agents : curPkt[t] = p /\ HoldsPacketRef(t)
    \/ pc[p] = "rcvLock"

InRoutine(t) == pc[t] \in TempLabels
FileHeld == fileState # "closed"
BindingHeld == pc["pnp"] # "done"

IsHolder(o) ==
    \/ FileHeld /\ o = <<"open", "file">>
    \/ BindingHeld /\ o = <<"binding", "pnp">>
    \/ \E r \in Reads : HeldRead(r) /\ o = <<"read", r>>
    \/ \E p \in Packets : HeldPacket(p) /\ o = <<"packet", p>>
    \/ \E t \in Agents : InRoutine(t) /\ o = <<"temp", t>>

HoldersListed == \A o : o \in Holders <=> IsHolder(o)

\* Who is a holder.
LEMMA HoldersAre == HoldersListed
<1> SUFFICES ASSUME NEW o PROVE o \in Holders <=> IsHolder(o)
  BY DEF HoldersListed
<1>1. o \in {<<"open", f>> : f \in {g \in {"file"} : fileState # "closed"}}
        <=> FileHeld /\ o = <<"open", "file">>
  BY DEF FileHeld
<1>2. o \in {<<"binding", b>> : b \in {g \in {"pnp"} : pc[g] # "done"}}
        <=> BindingHeld /\ o = <<"binding", "pnp">>
  BY DEF BindingHeld
<1>3. o \in {<<"read", r>> : r \in
            {q \in Reads : \/ \E i \in 1 .. Len(PendedReads) : PendedReads[i] = q
                           \/ \E t \in Agents : curIrp[t] = q
                           \/ cancelPc[q] \in {"complete", "deref"}}}
        <=> \E r \in Reads : HeldRead(r) /\ o = <<"read", r>>
  BY DEF HeldRead, Contains
<1>4. o \in {<<"packet", p>> : p \in
            {q \in Packets : \/ \E i \in 1 .. Len(RecvPktQueue) : RecvPktQueue[i] = q
                             \/ \E t \in Agents : curPkt[t] = q /\ HoldsPacketRef(t)
                             \/ pc[q] = "rcvLock"}}
        <=> \E p \in Packets : HeldPacket(p) /\ o = <<"packet", p>>
  BY DEF HeldPacket, Contains
<1>5. o \in {<<"temp", t>> : t \in {u \in Agents : pc[u] \in TempLabels}}
        <=> \E t \in Agents : InRoutine(t) /\ o = <<"temp", t>>
  BY DEF InRoutine
<1>6. QED BY <1>1, <1>2, <1>3, <1>4, <1>5 DEF Holders, IsHolder

\* Before a step and after it.
LEMMA HoldersAreNext == HoldersListed'
BY HoldersAre, PTL

\* There are finitely many.
LEMMA HoldersAreFinite == IsFiniteSet(Holders) /\ Cardinality(Holders) \in Nat
<1> DEFINE Kinds == {"open", "binding", "read", "packet", "temp"}
           Who == Agents \cup {"file"}
<1>1. IsFiniteSet(Kinds)
  <2>1. IsFiniteSet({} \cup {"open"})
    BY FS_EmptySet, FS_AddElement
  <2>2. IsFiniteSet(({} \cup {"open"}) \cup {"binding"})
    BY <2>1, FS_AddElement
  <2>3. IsFiniteSet((({} \cup {"open"}) \cup {"binding"}) \cup {"read"})
    BY <2>2, FS_AddElement
  <2>4. IsFiniteSet(((({} \cup {"open"}) \cup {"binding"}) \cup {"read"}) \cup {"packet"})
    BY <2>3, FS_AddElement
  <2>5. IsFiniteSet((((({} \cup {"open"}) \cup {"binding"}) \cup {"read"}) \cup {"packet"})
                        \cup {"temp"})
    BY <2>4, FS_AddElement
  <2>6. (((({} \cup {"open"}) \cup {"binding"}) \cup {"read"}) \cup {"packet"}) \cup {"temp"}
          = Kinds
    OBVIOUS
  <2> HIDE DEF Kinds
  <2>7. QED BY <2>5, <2>6
<1>2. IsFiniteSet(Who)
  BY AgentsAreFinite, FS_AddElement
<1>3. IsFiniteSet(Kinds \X Who)
  <2> HIDE DEF Kinds, Who
  <2>1. QED BY <1>1, <1>2, FS_Product
<1>4. Holders \subseteq Kinds \X Who
  <2>1. SUFFICES ASSUME NEW o \in Holders PROVE o \in Kinds \X Who
    OBVIOUS
  <2>2. /\ \A r \in Reads : r \in Who
        /\ \A p \in Packets : p \in Who
        /\ "pnp" \in Who /\ "file" \in Who
    BY DEF Agents
  <2>3. QED BY <2>1, <2>2, HoldersAre DEF HoldersListed, IsHolder
<1>5. QED BY <1>3, <1>4, FS_Subset, FS_CardinalityType

\* No holder but x comes or goes.
SameBut(x) ==
    /\ <<"open", "file">> # x => (FileHeld' <=> FileHeld)
    /\ <<"binding", "pnp">> # x => (BindingHeld' <=> BindingHeld)
    /\ \A r \in Reads : <<"read", r>> # x => (HeldRead(r)' <=> HeldRead(r))
    /\ \A p \in Packets : <<"packet", p>> # x => (HeldPacket(p)' <=> HeldPacket(p))
    /\ \A t \in Agents : <<"temp", t>> # x => (InRoutine(t)' <=> InRoutine(t))

\* The same in terms of the set.
LEMMA OthersStay ==
    ASSUME NEW x, SameBut(x), NEW o, o # x
    PROVE  o \in Holders' <=> o \in Holders
<1>1. (o \in Holders <=> IsHolder(o)) /\ (o \in Holders' <=> IsHolder(o)')
  BY HoldersAre, HoldersAreNext DEF HoldersListed
<1>2. IsHolder(o)' <=> IsHolder(o)
  BY DEF IsHolder, SameBut
<1>3. QED BY <1>1, <1>2

\* What a step that changes one holder does to the count.
LEMMA OneHolder ==
    ASSUME RefCountIsExact, RefCount \in Int, NEW x, SameBut(x), RefCount' \in Int,
           RefCount' = RefCount + (IF IsHolder(x)' THEN 1 ELSE 0)
                                - (IF IsHolder(x) THEN 1 ELSE 0)
    PROVE  RefCountIsExact'
<1>1. (x \in Holders <=> IsHolder(x)) /\ (x \in Holders' <=> IsHolder(x)')
  BY HoldersAre, HoldersAreNext DEF HoldersListed
<1>2. \A o : o # x => (o \in Holders' <=> o \in Holders)
  BY OthersStay
<1>3. IsFiniteSet(Holders) /\ Cardinality(Holders) \in Nat /\ RefCount = Cardinality(Holders)
  BY HoldersAreFinite DEF RefCountIsExact
<1>4. CASE IsHolder(x)' <=> IsHolder(x)
  <2>1. Holders' = Holders
    BY <1>1, <1>2, <1>4
  <2>2. RefCount' = RefCount
    BY <1>4
  <2>3. QED BY <1>3, <2>1, <2>2 DEF RefCountIsExact
<1>5. CASE IsHolder(x)' /\ ~IsHolder(x)
  <2>1. Holders' = Holders \cup {x} /\ x \notin Holders
    BY <1>1, <1>2, <1>5
  <2>2. RefCount' = RefCount + 1
    BY <1>5
  <2>3. QED BY <1>3, <2>1, <2>2, FS_AddElement DEF RefCountIsExact
<1>6. CASE ~IsHolder(x)' /\ IsHolder(x)
  <2>1. Holders' = Holders \ {x} /\ x \in Holders
    BY <1>1, <1>2, <1>6
  <2>2. RefCount' = RefCount - 1
    BY <1>6
  <2>3. QED BY <1>3, <2>1, <2>2, FS_RemoveElement DEF RefCountIsExact
<1>7. QED BY <1>4, <1>5, <1>6

\* Holders of the five kinds.
LEMMA KindsOfHolder ==
    /\ IsHolder(<<"open", "file">>) <=> FileHeld
    /\ IsHolder(<<"binding", "pnp">>) <=> BindingHeld
    /\ \A r \in Reads : IsHolder(<<"read", r>>) <=> HeldRead(r)
    /\ \A p \in Packets : IsHolder(<<"packet", p>>) <=> HeldPacket(p)
    /\ \A t \in Agents : IsHolder(<<"temp", t>>) <=> InRoutine(t)
BY DEF IsHolder

\* Before a step and after it.
LEMMA KindsOfHolderNext ==
    /\ IsHolder(<<"open", "file">>)' <=> FileHeld'
    /\ IsHolder(<<"binding", "pnp">>)' <=> BindingHeld'
    /\ \A r \in Reads : IsHolder(<<"read", r>>)' <=> HeldRead(r)'
    /\ \A p \in Packets : IsHolder(<<"packet", p>>)' <=> HeldPacket(p)'
    /\ \A t \in Agents : IsHolder(<<"temp", t>>)' <=> InRoutine(t)'
BY DEF IsHolder

\* What a move to another label changes of who carries what.
LEMMA MoveOfHolder ==
    ASSUME TypeOK, NEW t \in Agents, NEW label, Goto(t, label)
    PROVE  /\ \A u \in Agents :
                 /\ pc'[u] = IF u = t THEN label ELSE pc[u]
                 /\ Carries(u)' <=> IF u = t THEN label \in CarryLabels ELSE Carries(u)
                 /\ HoldsPacketRef(u)' <=>
                       IF u = t THEN label \in PacketRefLabels ELSE HoldsPacketRef(u)
                 /\ InRoutine(u)' <=> IF u = t THEN label \in TempLabels ELSE InRoutine(u)
           /\ \A p \in Packets :
                 /\ pc'[p] = IF p = t THEN label ELSE pc[p]
                 /\ Arriving(p)' <=> IF p = t THEN label \in ArrivalLabels ELSE Arriving(p)
           /\ BindingHeld' <=> IF t = "pnp" THEN label # "done" ELSE BindingHeld
<1>1. \A u \in Agents : pc'[u] = IF u = t THEN label ELSE pc[u]
  BY DEF Goto, TypeOK, LabelsOK
<1>2. "pnp" \in Agents /\ \A p \in Packets : p \in Agents
  BY DEF Agents
<1>3. QED
  BY <1>1, <1>2 DEF Carries, HoldsPacketRef, PacketRefLabels, InRoutine, Arriving, BindingHeld

-----------------------------------------------------------------------------
(* What is over when the file is closed and when the binding is.            *)

AfterClose == {"setIdle", "freePools", "bindDeref", "done"}

FileGone ==
    /\ pc["cleanup"] = "idle" => fileState = "open"
    /\ pc["cleanup"] = "done" <=> fileState = "closed"
    /\ fileState = "closed" => \A r \in Reads :
          /\ irpStatus[r] \notin {"dispatched", "pending"}
          /\ DispatchPinsFile => pc[r] \in {"idle", "done"}

BindingGone ==
    /\ pc["pnp"] \in AfterClose => ~BindingHandle
    /\ ~BindingHandle => \A p \in Packets : pc[p] \in {"idle", "done"}

GoneInv == FileGone /\ BindingGone

\* A thread that is inside the driver moves on, or one comes in by the open
\* file or the binding.
LEMMA GoneMove ==
    ASSUME TypeOK, GoneInv, NEW t \in Agents, NEW label, Goto(t, label),
           UNCHANGED <<fileState, BindingHandle>>,
           \A r \in Reads : irpStatus'[r] \in {"dispatched", "pending"} =>
                irpStatus[r] \in {"dispatched", "pending"} \/ fileState = "open",
           t \in Reads => pc[t] \notin {"idle", "done"} \/ fileState = "open",
           t \in Packets => pc[t] \notin {"idle", "done"} \/ BindingHandle,
           t = "cleanup" => pc[t] # "done" /\ label \notin {"idle", "done"},
           t = "pnp" /\ label \in AfterClose => ~BindingHandle
    PROVE  GoneInv'
<1>1. \A u \in Agents : pc'[u] = IF u = t THEN label ELSE pc[u]
  BY MoveOfHolder
<1>2. /\ "cleanup" \in Agents /\ "pnp" \in Agents
      /\ \A u \in Reads \cup Packets : u \in Agents
  BY DEF Agents
<1>3. FileGone'
  BY <1>1, <1>2 DEF GoneInv, FileGone
<1>4. BindingGone'
  BY <1>1, <1>2 DEF GoneInv, BindingGone
<1>5. QED BY <1>3, <1>4 DEF GoneInv

\* A step that moves no thread.
LEMMA GoneStill ==
    ASSUME GoneInv, UNCHANGED <<pc, fileState, BindingHandle>>,
           \A r \in Reads : irpStatus'[r] \in {"dispatched", "pending"} =>
                irpStatus[r] \in {"dispatched", "pending"}
    PROVE  GoneInv'
BY DEF GoneInv, FileGone, BindingGone

\* The routines that drain the queues, and the service routine.
LEMMA GoneRoutines ==
    ASSUME TypeOK, GoneInv, NEW t \in Agents,
           \/ t \in Reads \cup Packets /\ ServiceReads(t)
           \/ t \in {"cleanup", "pnp"} /\ (CancelPendingReads(t) \/ FlushReceiveQueue(t))
    PROVE  GoneInv'
<1>1. \A r \in Reads : irpStatus'[r] \in {"dispatched", "pending"} =>
                          irpStatus[r] \in {"dispatched", "pending"}
  BY DEF ServiceReads, ServiceRef, ServiceFirst, ServiceTurn, ServiceDerefPacket, Complete,
     ServiceComplete, ServiceFree, ServiceDerefRead, ServiceAgain, ServiceReturn,
     CancelPendingReads, CancelPendingRef, CancelPendingFirst, CancelPendingComplete,
     CancelPendingDeref, CancelPendingAgain, CancelPendingReturn, FlushReceiveQueue, FlushRef,
     FlushTurn, FlushFree, FlushDeref, FlushReturn, irpVars, TypeOK, DataTypeOK
<1>2. UNCHANGED <<fileState, BindingHandle>>
  BY DEF ServiceReads, ServiceRef, ServiceFirst, ServiceDerefPacket,
     ServiceComplete, ServiceFree, ServiceDerefRead, ServiceAgain, ServiceReturn,
     CancelPendingReads, CancelPendingRef, CancelPendingFirst, CancelPendingComplete,
     CancelPendingDeref, CancelPendingAgain, CancelPendingReturn, FlushReceiveQueue, FlushRef,
     FlushTurn, FlushFree, FlushDeref, FlushReturn, bindVars
<1>3. CASE t \in Reads \cup Packets /\ ServiceReads(t)
  <2>1. PICK label \in ServiceLabels \cup {"done"} : Goto(t, label)
    BY <1>3 DEF ServiceReads, ServiceRef, ServiceFirst, ServiceTurn, ServiceDerefPacket,
       ServiceComplete, ServiceFree, ServiceDerefRead, ServiceAgain, ServiceReturn, ServiceLabels
  <2>2. pc[t] \notin {"idle", "done"} /\ t \notin {"cleanup", "pnp"}
    BY <1>3, AgentsAssumption DEF ServiceReads, ServiceRef, ServiceFirst, ServiceDerefPacket,
       ServiceComplete, ServiceFree, ServiceDerefRead, ServiceAgain, ServiceReturn
  <2>3. QED BY <1>1, <1>2, <2>1, <2>2, GoneMove
<1>4. CASE t \in {"cleanup", "pnp"} /\ (CancelPendingReads(t) \/ FlushReceiveQueue(t))
  <2>1. PICK label \in CancelPendingLabels \cup FlushLabels
                          \cup {"waitReads", "closing", "closeAdapter", "idle"} :
          Goto(t, label) /\ (label = "idle" => t # "cleanup")
    BY <1>4 DEF CancelPendingReads, CancelPendingRef, CancelPendingFirst, CancelPendingTurn,
       CancelPendingComplete, CancelPendingDeref, CancelPendingAgain, CancelPendingReturn,
       FlushReceiveQueue, FlushRef, FlushTurn, FlushFree, FlushDeref, FlushReturn,
       CancelPendingLabels, FlushLabels
  <2>2. label # "done" /\ label \notin AfterClose /\ (t = "cleanup" => label # "idle")
    BY <2>1 DEF CancelPendingLabels, FlushLabels, AfterClose
  <2>3. pc[t] # "done" /\ t \notin Reads \cup Packets
    BY <1>4, AgentsAssumption DEF CancelPendingReads, CancelPendingRef, CancelPendingFirst,
       CancelPendingComplete, CancelPendingDeref, CancelPendingAgain, CancelPendingReturn,
       FlushReceiveQueue, FlushRef, FlushTurn, FlushFree, FlushDeref, FlushReturn
  <2>4. QED BY <1>1, <1>2, <2>1, <2>2, <2>3, GoneMove
<1>5. QED BY <1>3, <1>4

\* Dispatch routines, cancellation and indications.
LEMMA GoneEntries ==
    ASSUME TypeOK, ReadInv, PacketInv, GoneInv, NEW t \in Reads \cup Packets,
           \/ t \in Reads /\ (SubmitRead(t) \/ PendRead(t) \/ FailRead(t) \/ CancelIrp(t)
                              \/ CancelRead(t))
           \/ t \in Packets /\ (Receive(t) \/ IndicateMiniportPacket(t) \/ IndicateCopy(t))
    PROVE  GoneInv'
<1>1. t \in Agents /\ t \notin {"cleanup", "pnp"}
  BY AgentsAssumption DEF Agents
<1>2. UNCHANGED <<fileState, BindingHandle>>
  BY DEF SubmitRead, PendRead, FailRead, CancelIrp, CancelRead, CancelReadUnlink,
     CancelReadComplete, CancelReadDeref, Receive, TransferDataComplete, QueueReceivePacketRef,
     QueueReceivePacket, RefuseReceivePacket, DiscardFree, DiscardDeref, IndicateMiniportPacket,
     IndicateCopy, bindVars
<1>3. CASE t \in Reads /\ (CancelIrp(t) \/ CancelRead(t))
  <2>1. /\ UNCHANGED pc
        /\ \A r \in Reads : irpStatus'[r] \in {"dispatched", "pending"} =>
                               irpStatus[r] \in {"dispatched", "pending"}
    BY <1>3 DEF CancelIrp, CancelRead, CancelReadUnlink, CancelReadComplete, CancelReadDeref,
       Complete, irpVars, TypeOK, DataTypeOK
  <2>2. QED BY <1>2, <2>1, GoneStill
<1>4. CASE t \in Reads /\ (SubmitRead(t) \/ PendRead(t) \/ FailRead(t))
  <2>1. PICK label \in {"rdLock", "svcRef", "done"} : Goto(t, label)
    BY <1>4, Zenon DEF SubmitRead, PendRead, FailRead
  <2>2. /\ pc[t] \notin {"idle", "done"} \/ fileState = "open"
        /\ \A r \in Reads : irpStatus'[r] \in {"dispatched", "pending"} =>
              irpStatus[r] \in {"dispatched", "pending"} \/ fileState = "open"
    BY <1>4 DEF SubmitRead, PendRead, FailRead, Complete, TypeOK, DataTypeOK, ReadInv, NewReads
  <2>3. t \notin Packets
    BY <1>4, AgentsAssumption
  <2>4. QED BY <1>1, <1>2, <2>1, <2>2, <2>3, GoneMove
<1>5. CASE t \in Packets /\ (Receive(t) \/ IndicateMiniportPacket(t) \/ IndicateCopy(t))
  <2>1. PICK label \in {"transfer", "rcvRef", "rcvLock", "rcvDiscard", "rcvDrop",
                        "rcvDiscardDeref", "rcvDropDeref", "svcRef", "done"} : Goto(t, label)
    BY <1>5 DEF Receive, TransferDataComplete, QueueReceivePacketRef, QueueReceivePacket,
       RefuseReceivePacket, DiscardFree, DiscardDeref, IndicateMiniportPacket, IndicateCopy
  <2>2. /\ pc[t] \notin {"idle", "done"} \/ BindingHandle
        /\ UNCHANGED irpStatus /\ t \notin Reads
    BY <1>5, AgentsAssumption DEF Receive, TransferDataComplete, QueueReceivePacketRef,
       QueueReceivePacket, RefuseReceivePacket, DiscardFree, DiscardDeref,
       IndicateMiniportPacket, IndicateCopy, irpVars
  <2>3. QED BY <1>1, <1>2, <2>1, <2>2, GoneMove
<1>6. QED BY <1>3, <1>4, <1>5

\* Close waits for the IRPs, and with DispatchPinsFile for the dispatch
\* routines; NdisCloseAdapter waits for the indications.
LEMMA GoneTeardown ==
    ASSUME TypeOK, GoneInv,
           Cleanup \/ Close \/ PowerDown \/ PowerUp \/ Unbind \/ ShutdownBinding
    PROVE  GoneInv'
<1>1. /\ "cleanup" \in Agents /\ "pnp" \in Agents
      /\ {"cleanup", "pnp"} \cap (Reads \cup Packets) = {}
      /\ \A u \in Reads \cup Packets : u \in Agents
  BY AgentsAssumption DEF Agents
<1>2. UNCHANGED irpStatus
  BY DEF Cleanup, Close, PowerDown, PowerUp, Unbind, ShutdownBinding, WaitForPendingReads,
     CloseAdapter, SetBindIdle, FreeBindResources, ShutdownReturn, irpVars
<1>3. CASE PowerUp
  BY <1>2, <1>3, GoneStill DEF PowerUp
<1>4. CASE Cleanup \/ Close
  <2>1. PICK label \in {"cprRef", "done"} :
          /\ Goto("cleanup", label) /\ (label = "done" <=> fileState' = "closed")
          /\ fileState' \in {"cleanup", "closed"}
    BY <1>4 DEF Cleanup, Close
  <2>2. \A u \in Agents : pc'[u] = IF u = "cleanup" THEN label ELSE pc[u]
    BY <1>1, <2>1, MoveOfHolder
  <2>3. UNCHANGED BindingHandle
    BY <1>4 DEF Cleanup, Close
  <2>4. label = "done" => \A r \in Reads : ~FileReferenced(r)
    BY <1>1, <1>4, <2>2 DEF Cleanup, Close, Goto, TypeOK, LabelsOK
  <2>5. FileGone'
    BY <1>1, <1>2, <2>1, <2>2, <2>4 DEF FileGone, FileReferenced
  <2>6. BindingGone'
    BY <1>1, <2>2, <2>3 DEF GoneInv, BindingGone
  <2>7. QED BY <2>5, <2>6 DEF GoneInv
<1>5. CASE PowerDown \/ Unbind \/ ShutdownBinding
  <2>1. PICK label \in {"flRef", "waitReads", "cprRef", "setIdle", "freePools", "bindDeref",
                        "done"} : Goto("pnp", label)
    BY <1>5 DEF PowerDown, Unbind, ShutdownBinding, WaitForPendingReads, CloseAdapter,
       SetBindIdle, FreeBindResources, ShutdownReturn
  <2>2. \A u \in Agents : pc'[u] = IF u = "pnp" THEN label ELSE pc[u]
    BY <1>1, <2>1, MoveOfHolder
  <2>3. UNCHANGED fileState
    BY <1>5 DEF PowerDown, Unbind, ShutdownBinding, WaitForPendingReads, CloseAdapter,
       SetBindIdle, FreeBindResources, ShutdownReturn, bindVars
  <2>4. FileGone'
    BY <1>1, <1>2, <2>2, <2>3 DEF GoneInv, FileGone
  <2>5. BindingGone'
    <3>1. CASE CloseAdapter
      BY <1>1, <2>2, <3>1 DEF CloseAdapter, BindingGone
    <3>2. CASE PowerDown \/ Unbind \/ WaitForPendingReads \/ SetBindIdle \/ FreeBindResources
               \/ ShutdownReturn
      <4>1. /\ UNCHANGED BindingHandle
            /\ pc'["pnp"] \in AfterClose => pc["pnp"] \in AfterClose
        BY <1>1, <3>2 DEF PowerDown, Unbind, WaitForPendingReads, SetBindIdle,
           FreeBindResources, ShutdownReturn, Goto, AfterClose, TypeOK, LabelsOK, bindVars
      <4>2. QED BY <1>1, <2>2, <4>1 DEF GoneInv, BindingGone
    <3>3. QED BY <1>5, <3>1, <3>2 DEF ShutdownBinding
  <2>6. QED BY <2>4, <2>5 DEF GoneInv
<1>6. QED BY <1>3, <1>4, <1>5

\* Every step keeps it.
LEMMA GoneStep == TypeOK /\ ReadInv /\ PacketInv /\ GoneInv /\ [Next]_vars => GoneInv'
<1> SUFFICES ASSUME TypeOK, ReadInv, PacketInv, GoneInv, [Next]_vars PROVE GoneInv'
  OBVIOUS
<1>1. /\ "cleanup" \in Agents /\ "pnp" \in Agents
      /\ \A t \in Reads \cup Packets : t \in Agents
  BY DEF Agents
<1>2. CASE UNCHANGED vars
  BY <1>2, GoneStill DEF vars, bindVars, irpVars
<1>3. CASE Environment
  BY <1>3, GoneEntries, GoneTeardown DEF Environment
<1>4. ASSUME NEW r \in Reads, ReadThread(r) \/ CancelRead(r) PROVE GoneInv'
  BY <1>1, <1>4, GoneEntries, GoneRoutines DEF ReadThread
<1>5. ASSUME NEW p \in Packets, PacketThread(p) PROVE GoneInv'
  BY <1>1, <1>5, GoneEntries, GoneRoutines DEF PacketThread
<1>6. CASE CleanupThread \/ PnPThread
  BY <1>1, <1>6, GoneRoutines, GoneTeardown DEF CleanupThread, PnPThread
<1>7. QED BY <1>2, <1>3, <1>4, <1>5, <1>6 DEF Next

-----------------------------------------------------------------------------
(* Steps that leave reads, or packets, with whom they are.                  *)

ReadsKept ==
    /\ CarriedReads' /\ UnlinkedReads'
    /\ \A r \in Reads : HeldRead(r)' <=> HeldRead(r)

PacketsKept ==
    /\ CarriedPackets'
    /\ \A p \in Packets : HeldPacket(p)' <=> HeldPacket(p)

\* A thread that has a read has a member of Reads.
LEMMA CarriedIsRead ==
    ASSUME TypeOK, HoldInv, NEW t \in Agents, Carries(t)
    PROVE  curIrp[t] \in Reads
BY DEF TypeOK, ThreadTypeOK, HoldInv, CarriedReads

\* No thread takes or drops a read, and none joins or leaves the queue.
LEMMA CalmReads ==
    ASSUME TypeOK, HoldInv, UNCHANGED <<PendedReads, curIrp>>,
           \A u \in Agents : Carries(u)' <=> Carries(u),
           \A r \in Reads :
              /\ irpStatus'[r] \in {"unsent", "dispatched"} =>
                    irpStatus[r] \in {"unsent", "dispatched"}
              /\ cancelPc'[r] \in {"complete", "deref"} <=> cancelPc[r] \in {"complete", "deref"}
              /\ cancelPc'[r] = "deref" => ~Contains(PendedReads, r)
              /\ cancelPc[r] = "idle" /\ ~Contains(PendedReads, r) => cancelPc'[r] = "idle"
    PROVE  ReadsKept
<1>1. CarriedReads'
  BY CarriedIsRead DEF HoldInv, CarriedReads
<1>2. UnlinkedReads'
  BY DEF UnlinkedReads
<1>3. \A r \in Reads : HeldRead(r)' <=> HeldRead(r)
  BY DEF HeldRead
<1>4. QED BY <1>1, <1>2, <1>3 DEF ReadsKept

\* No thread takes or drops a packet, and none joins or leaves the queue.
LEMMA CalmPackets ==
    ASSUME TypeOK, HoldInv, UNCHANGED RecvPktQueue,
           \A u \in Agents : /\ HoldsPacketRef(u)' <=> HoldsPacketRef(u)
                             /\ HoldsPacketRef(u) => curPkt'[u] = curPkt[u],
           \A p \in Packets : /\ pktState'[p] = "absent" => pktState[p] = "absent"
                              /\ Arriving(p)' => Arriving(p) \/ pktState[p] = "absent"
                              /\ pc'[p] = "rcvLock" <=> pc[p] = "rcvLock"
    PROVE  PacketsKept
<1>1. CarriedPackets'
  <2>1. \A u \in Agents : HoldsPacketRef(u)' =>
          /\ HoldsPacketRef(u) /\ curPkt'[u] = curPkt[u] /\ curPkt[u] \in Packets
          /\ ~Arriving(curPkt[u]) /\ pktState[curPkt[u]] # "absent"
    BY DEF HoldInv, CarriedPackets
  <2>2. \A u \in Agents : HoldsPacketRef(u)' => pc'[curPkt'[u]] \notin ArrivalLabels
    BY <2>1 DEF Arriving
  <2>3. QED BY <2>1, <2>2 DEF HoldInv, CarriedPackets, Arriving
<1>2. \A p \in Packets : HeldPacket(p)' <=> HeldPacket(p)
  BY DEF HeldPacket
<1>3. QED BY <1>1, <1>2 DEF PacketsKept

RefInv == HoldInv /\ RefCountIsExact

\* A thread may enter or leave a routine of the driver; all else stays.
LEMMA KeptTogether ==
    ASSUME TypeOK, RefCountIsExact, ReadsKept, PacketsKept, FileHeld' <=> FileHeld,
           NEW t \in Agents, NEW label, Goto(t, label),
           t = "pnp" => label # "done" /\ pc[t] # "done", RefCount' \in Int,
           RefCount' = RefCount + (IF label \in TempLabels THEN 1 ELSE 0)
                                - (IF pc[t] \in TempLabels THEN 1 ELSE 0)
    PROVE  RefInv'
<1> DEFINE x == <<"temp", t>>
<1>1. /\ \A u \in Agents : u # t => (InRoutine(u)' <=> InRoutine(u))
      /\ InRoutine(t)' <=> label \in TempLabels
      /\ BindingHeld' <=> BindingHeld
  BY MoveOfHolder DEF BindingHeld
<1>2. SameBut(x)
  BY <1>1 DEF SameBut, ReadsKept, PacketsKept
<1>3. (IsHolder(x)' <=> label \in TempLabels) /\ (IsHolder(x) <=> pc[t] \in TempLabels)
  BY <1>1, KindsOfHolder, KindsOfHolderNext DEF InRoutine
<1>4. RefCountIsExact'
  <2>1. RefCount \in Int
    BY DEF TypeOK, ContextTypeOK
  <2>2. RefCount' = RefCount + (IF IsHolder(x)' THEN 1 ELSE 0) - (IF IsHolder(x) THEN 1 ELSE 0)
    BY <1>3
  <2> HIDE DEF x
  <2>3. QED BY <1>2, <2>1, <2>2, OneHolder
<1>5. QED BY <1>4 DEF RefInv, HoldInv, ReadsKept, PacketsKept

\* A step of a thread that disposes of nothing and takes nothing.
LEMMA PlainStep ==
    ASSUME TypeOK, RefInv, FileHeld' <=> FileHeld,
           NEW t \in Agents, NEW label, Goto(t, label),
           label \in CarryLabels <=> Carries(t), label \in PacketRefLabels <=> HoldsPacketRef(t),
           label # "rcvLock", pc[t] # "rcvLock",
           t \in Packets /\ label \in ArrivalLabels => Arriving(t) \/ pktState[t] = "absent",
           t = "pnp" => label # "done" /\ pc[t] # "done",
           UNCHANGED <<PendedReads, RecvPktQueue, curIrp, cancelPc>>,
           \A u \in Agents : HoldsPacketRef(u) => curPkt'[u] = curPkt[u],
           \A r \in Reads : irpStatus'[r] \in {"unsent", "dispatched"} =>
                               irpStatus[r] \in {"unsent", "dispatched"},
           \A p \in Packets : pktState'[p] = "absent" => pktState[p] = "absent",
           RefCount' \in Int,
           RefCount' = RefCount + (IF label \in TempLabels THEN 1 ELSE 0)
                                - (IF pc[t] \in TempLabels THEN 1 ELSE 0)
    PROVE  RefInv'
<1>1. HoldInv /\ RefCountIsExact
  BY DEF RefInv
<1>2. ReadsKept
  <2>1. \A u \in Agents : Carries(u)' <=> Carries(u)
    BY MoveOfHolder
  <2>2. \A r \in Reads : cancelPc[r] = "deref" => ~Contains(PendedReads, r)
    BY <1>1 DEF HoldInv, UnlinkedReads
  <2>3. QED BY <1>1, <2>1, <2>2, CalmReads
<1>3. PacketsKept
  <2>1. \A u \in Agents : HoldsPacketRef(u)' <=> HoldsPacketRef(u)
    BY MoveOfHolder
  <2>2. \A p \in Packets : /\ Arriving(p)' => Arriving(p) \/ pktState[p] = "absent"
                           /\ pc'[p] = "rcvLock" <=> pc[p] = "rcvLock"
    BY MoveOfHolder
  <2>3. QED BY <1>1, <2>1, <2>2, CalmPackets
<1>4. QED BY <1>1, <1>2, <1>3, KeptTogether

\* The labels at which a thread holds its temporary reference.
LEMMA TempLabelsAre ==
    TempLabels = {"svcLock", "svcDerefPkt", "svcComplete", "svcFree", "svcDerefRead", "svcRelock",
                  "svcDerefTemp", "cprLock", "cprComplete", "cprDeref", "cprRelock",
                  "cprDerefTemp", "flLock", "flFree", "flDeref", "flDerefTemp"}
BY DEF TempLabels, ServiceLabels, CancelPendingLabels, FlushLabels

\* In ndisprotServiceReads.
LEMMA PlainServiceReads ==
    ASSUME TypeOK, RefInv, NEW t \in Reads \cup Packets,
           \/ ServiceRef(t) \/ ServiceComplete(t) \/ ServiceFree(t) \/ ServiceReturn(t)
    PROVE  RefInv'
<1>1. t \in Agents /\ t # "pnp" /\ RefCount \in Int
  BY AgentsAssumption DEF Agents, TypeOK, ContextTypeOK
<1> USE TempLabelsAre
    DEF Carries, HoldsPacketRef, CarryLabels, PacketRefLabels, ArrivalLabels, FileHeld,
        bindVars, readVars, recvVars, irpVars, pktVars, curVars
<1>2. CASE ServiceRef(t)
  <2>1. Goto(t, "svcLock") /\ pc[t] = "svcRef" /\ RefCount' = RefCount + 1
    BY <1>2 DEF ServiceRef, RefOpen
  <2>2. UNCHANGED <<fileState, PendedReads, RecvPktQueue, curIrp, curPkt, cancelPc, irpStatus, pktState>>
    BY <1>2 DEF ServiceRef
  <2>3. QED BY <1>1, <2>1, <2>2, PlainStep
<1>3. CASE ServiceComplete(t)
  <2>1. Goto(t, "svcFree") /\ pc[t] = "svcComplete" /\ RefCount' = RefCount
    BY <1>3 DEF ServiceComplete, refVars
  <2>2. UNCHANGED <<fileState, PendedReads, RecvPktQueue, curIrp, curPkt, cancelPc, pktState>>
    BY <1>3 DEF ServiceComplete
  <2>3. \A r \in Reads : irpStatus'[r] \in {"unsent", "dispatched"} =>
                            irpStatus[r] \in {"unsent", "dispatched"}
    BY <1>3 DEF ServiceComplete, Complete, TypeOK, DataTypeOK
  <2>4. QED BY <1>1, <2>1, <2>2, <2>3, PlainStep
<1>4. CASE ServiceFree(t)
  <2>1. Goto(t, "svcDerefRead") /\ pc[t] = "svcFree" /\ RefCount' = RefCount
    BY <1>4 DEF ServiceFree, refVars
  <2>2. UNCHANGED <<fileState, PendedReads, RecvPktQueue, curIrp, cancelPc, irpStatus>>
    BY <1>4 DEF ServiceFree
  <2>3. \A p \in Packets : pktState'[p] = "absent" => pktState[p] = "absent"
    BY <1>4 DEF ServiceFree, FreeReceivePacket, TypeOK, DataTypeOK
  <2>4. \A u \in Agents : HoldsPacketRef(u) => curPkt'[u] = curPkt[u]
    BY <1>4 DEF ServiceFree, TypeOK, ThreadTypeOK
  <2>5. QED BY <1>1, <2>1, <2>2, <2>3, <2>4, PlainStep
<1>5. CASE ServiceReturn(t)
  <2>1. Goto(t, "done") /\ pc[t] = "svcDerefTemp" /\ RefCount' = RefCount - 1
    BY <1>5 DEF ServiceReturn, DerefOpen
  <2>2. UNCHANGED <<fileState, PendedReads, RecvPktQueue, curIrp, curPkt, cancelPc, irpStatus, pktState>>
    BY <1>5 DEF ServiceReturn
  <2>3. QED BY <1>1, <2>1, <2>2, PlainStep
<1>6. QED BY <1>2, <1>3, <1>4, <1>5

\* In the dispatch routine.
LEMMA PlainRead ==
    ASSUME TypeOK, ReadInv, RefInv, NEW r \in Reads, SubmitRead(r) \/ FailRead(r)
    PROVE  RefInv'
<1>1. r \in Agents /\ r # "pnp" /\ RefCount \in Int
  BY AgentsAssumption DEF Agents, TypeOK, ContextTypeOK
<1>2. PICK label \in {"rdLock", "done"} : Goto(r, label)
  BY DEF SubmitRead, FailRead
<1>3. /\ pc[r] \in {"idle", "rdLock"} /\ RefCount' = RefCount
      /\ UNCHANGED <<fileState, PendedReads, RecvPktQueue, curIrp, curPkt, cancelPc, pktState>>
  BY DEF SubmitRead, FailRead, ReadInv, NewReads, bindVars, readVars, recvVars, refVars, curVars,
     pktVars
<1>4. \A q \in Reads : irpStatus'[q] \in {"unsent", "dispatched"} =>
                          irpStatus[q] \in {"unsent", "dispatched"}
  BY DEF SubmitRead, FailRead, Complete, TypeOK, DataTypeOK
<1>5. r \notin Packets
  BY AgentsAssumption
<1>6. QED
  BY <1>1, <1>2, <1>3, <1>4, <1>5, PlainStep, TempLabelsAre
  DEF Carries, HoldsPacketRef, CarryLabels, PacketRefLabels, FileHeld

\* In an indication.
LEMMA PlainReceive ==
    ASSUME TypeOK, PacketInv, RefInv, NEW p \in Packets,
           \/ IndicateMiniportPacket(p) \/ IndicateCopy(p) \/ TransferDataComplete(p)
           \/ DiscardFree(p)
    PROVE  RefInv'
<1>1. p \in Agents /\ p # "pnp" /\ RefCount \in Int
  BY AgentsAssumption DEF Agents, TypeOK, ContextTypeOK
<1>2. PICK label \in {"rcvRef", "transfer", "done", "rcvDropDeref", "rcvDiscardDeref"} : Goto(p, label)
  BY DEF IndicateMiniportPacket, IndicateCopy, TransferDataComplete, DiscardFree
<1>3. /\ RefCount' = RefCount
      /\ UNCHANGED <<fileState, PendedReads, RecvPktQueue, curIrp, curPkt, cancelPc, irpStatus>>
  BY DEF IndicateMiniportPacket, IndicateCopy, TransferDataComplete, DiscardFree, bindVars,
     readVars, recvVars, refVars, irpVars, curVars
<1>4. \A q \in Packets : pktState'[q] = "absent" => pktState[q] = "absent"
  BY DEF IndicateMiniportPacket, IndicateCopy, TransferDataComplete, DiscardFree,
     FreeReceivePacket, pktVars, TypeOK, DataTypeOK
<1>5. /\ pc[p] \in {"idle", "transfer", "rcvDiscard", "rcvDrop"}
      /\ label \in {"rcvDropDeref", "rcvDiscardDeref"} <=> pc[p] \in {"rcvDiscard", "rcvDrop"}
      /\ label \in ArrivalLabels => Arriving(p) \/ pktState[p] = "absent"
  <2>1. pc'[p] = label
    BY <1>1, <1>2, MoveOfHolder
  <2>2. CASE DiscardFree(p)
    BY <1>1, <2>1, <2>2 DEF DiscardFree, Goto, TypeOK, LabelsOK, ArrivalLabels
  <2>3. CASE TransferDataComplete(p)
    BY <1>1, <2>1, <2>3 DEF TransferDataComplete, Goto, TypeOK, LabelsOK, Arriving, ArrivalLabels
  <2>4. CASE IndicateMiniportPacket(p) \/ IndicateCopy(p)
    BY <1>1, <2>1, <2>4 DEF IndicateMiniportPacket, IndicateCopy, Goto, TypeOK, LabelsOK,
       PacketInv, NewPackets
  <2>5. QED BY <2>2, <2>3, <2>4
<1>6. QED
  BY <1>1, <1>2, <1>3, <1>4, <1>5, PlainStep, TempLabelsAre
  DEF Carries, HoldsPacketRef, CarryLabels, PacketRefLabels, FileHeld

\* In ndisprotCancelPendingReads and ndisprotFlushReceiveQueue.
LEMMA PlainDrains ==
    ASSUME TypeOK, RefInv, NEW t \in {"cleanup", "pnp"},
           \/ CancelPendingRef(t) \/ CancelPendingComplete(t) \/ CancelPendingReturn(t)
           \/ FlushRef(t) \/ FlushFree(t) \/ FlushReturn(t)
    PROVE  RefInv'
<1>1. t \in Agents /\ t \notin Packets /\ RefCount \in Int
  BY AgentsAssumption DEF Agents, TypeOK, ContextTypeOK
<1> USE TempLabelsAre
    DEF Carries, HoldsPacketRef, CarryLabels, PacketRefLabels, FileHeld,
        bindVars, readVars, recvVars, irpVars, pktVars, curVars
<1>2. CASE CancelPendingRef(t)
  <2>1. Goto(t, "cprLock") /\ pc[t] = "cprRef" /\ RefCount' = RefCount + 1
    BY <1>2 DEF CancelPendingRef, RefOpen
  <2>2. UNCHANGED <<fileState, PendedReads, RecvPktQueue, curIrp, curPkt, cancelPc, irpStatus, pktState>>
    BY <1>2 DEF CancelPendingRef
  <2>3. QED BY <1>1, <2>1, <2>2, PlainStep
<1>3. CASE CancelPendingComplete(t)
  <2>1. Goto(t, "cprDeref") /\ pc[t] = "cprComplete" /\ RefCount' = RefCount
    BY <1>3 DEF CancelPendingComplete, refVars
  <2>2. UNCHANGED <<fileState, PendedReads, RecvPktQueue, curIrp, curPkt, cancelPc, pktState>>
    BY <1>3 DEF CancelPendingComplete
  <2>3. \A r \in Reads : irpStatus'[r] \in {"unsent", "dispatched"} =>
                            irpStatus[r] \in {"unsent", "dispatched"}
    BY <1>3 DEF CancelPendingComplete, Complete, TypeOK, DataTypeOK
  <2>4. QED BY <1>1, <2>1, <2>2, <2>3, PlainStep
<1>4. CASE CancelPendingReturn(t) \/ FlushReturn(t)
  <2>1. PICK label \in {"flRef", "waitReads", "closing", "closeAdapter", "idle"} : Goto(t, label)
    BY <1>4 DEF CancelPendingReturn, FlushReturn
  <2>2. /\ pc[t] \in {"cprDerefTemp", "flDerefTemp"} /\ RefCount' = RefCount - 1
        /\ UNCHANGED <<fileState, PendedReads, RecvPktQueue, curIrp, curPkt, cancelPc, irpStatus, pktState>>
    BY <1>4 DEF CancelPendingReturn, FlushReturn, DerefOpen
  <2>3. QED BY <1>1, <2>1, <2>2, PlainStep
<1>5. CASE FlushRef(t)
  <2>1. Goto(t, "flLock") /\ pc[t] = "flRef" /\ RefCount' = RefCount + 1
    BY <1>5 DEF FlushRef, RefOpen
  <2>2. UNCHANGED <<fileState, PendedReads, RecvPktQueue, curIrp, curPkt, cancelPc, irpStatus, pktState>>
    BY <1>5 DEF FlushRef
  <2>3. QED BY <1>1, <2>1, <2>2, PlainStep
<1>6. CASE FlushFree(t)
  <2>1. Goto(t, "flDeref") /\ pc[t] = "flFree" /\ RefCount' = RefCount
    BY <1>6 DEF FlushFree, refVars
  <2>2. UNCHANGED <<fileState, PendedReads, RecvPktQueue, curIrp, curPkt, cancelPc, irpStatus>>
    BY <1>6 DEF FlushFree
  <2>3. \A p \in Packets : pktState'[p] = "absent" => pktState[p] = "absent"
    BY <1>6 DEF FlushFree, FreeReceivePacket, TypeOK, DataTypeOK
  <2>4. QED BY <1>1, <2>1, <2>2, <2>3, PlainStep
<1>7. QED BY <1>2, <1>3, <1>4, <1>5, <1>6

\* Cleanup, power events and the shutdown, but for its last step.
LEMMA PlainTeardown ==
    ASSUME TypeOK, GoneInv, RefInv,
           \/ Cleanup \/ PowerDown \/ PowerUp \/ Unbind
           \/ WaitForPendingReads \/ CloseAdapter \/ SetBindIdle \/ FreeBindResources
    PROVE  RefInv'
<1>1. /\ "cleanup" \in Agents \ Packets /\ "pnp" \in Agents \ Packets /\ RefCount \in Int
  BY AgentsAssumption DEF Agents, TypeOK, ContextTypeOK
<1>2. /\ RefCount' = RefCount
      /\ UNCHANGED <<PendedReads, RecvPktQueue, curIrp, curPkt, cancelPc, irpStatus, pktState>>
  BY DEF Cleanup, PowerDown, PowerUp, Unbind, WaitForPendingReads, CloseAdapter, SetBindIdle,
     FreeBindResources, readVars, recvVars, refVars, irpVars, pktVars, curVars
<1> USE TempLabelsAre DEF Carries, HoldsPacketRef, CarryLabels, PacketRefLabels, FileHeld
<1>3. CASE Cleanup
  <2>1. Goto("cleanup", "cprRef") /\ pc["cleanup"] = "idle"
    BY <1>3 DEF Cleanup
  <2>2. FileHeld' <=> FileHeld
    BY <1>3 DEF Cleanup, GoneInv, FileGone
  <2>3. QED BY <1>1, <1>2, <2>1, <2>2, PlainStep
<1>4. CASE PowerUp
  <2>1. UNCHANGED <<pc, fileState>>
    BY <1>4 DEF PowerUp
  <2>2. HoldInv' /\ SameBut(<<"nothing", "nobody">>)
    BY <1>2, <2>1 DEF SameBut, BindingHeld, InRoutine, HeldRead, HeldPacket, RefInv, HoldInv,
       CarriedReads, UnlinkedReads, CarriedPackets, Arriving
  <2>3. RefCountIsExact'
    <3>1. UNCHANGED Holders
      BY <1>2, <2>1 DEF Holders
    <3>2. QED BY <1>2, <3>1 DEF RefInv, RefCountIsExact
  <2>4. QED BY <2>2, <2>3 DEF RefInv
<1>5. CASE PowerDown \/ Unbind \/ WaitForPendingReads \/ CloseAdapter \/ SetBindIdle
           \/ FreeBindResources
  <2>1. PICK label \in {"flRef", "waitReads", "cprRef", "setIdle", "freePools", "bindDeref"} :
          Goto("pnp", label)
    BY <1>5 DEF PowerDown, Unbind, WaitForPendingReads, CloseAdapter, SetBindIdle,
       FreeBindResources
  <2>2. /\ pc["pnp"] \in {"idle", "waitReads", "closeAdapter", "setIdle", "freePools"}
        /\ UNCHANGED fileState
    BY <1>5 DEF PowerDown, Unbind, WaitForPendingReads, CloseAdapter, SetBindIdle,
       FreeBindResources, bindVars
  <2>3. QED BY <1>1, <1>2, <2>1, <2>2, PlainStep
<1>6. QED BY <1>3, <1>4, <1>5

-----------------------------------------------------------------------------
(* Steps that hand a read on, or drop its reference.                        *)

\* The reference goes with a read that a thread takes off the queue.
LEMMA TakenReadKept ==
    ASSUME TypeOK, ReadInv, HoldInv, NEW t \in Agents, ~Carries(t),
           NEW label \in CarryLabels, Goto(t, label),
           NEW i \in 1 .. Len(PendedReads), irpRoutine[PendedReads[i]],
           curIrp' = [curIrp EXCEPT ![t] = PendedReads[i]],
           \/ PendedReads' = RemoveAt(PendedReads, i)
           \/ i = 1 /\ PendedReads' = Tail(PendedReads),
           UNCHANGED <<irpStatus, cancelPc>>
    PROVE  ReadsKept
<1>0. PICK r \in Reads : PendedReads[i] = r
  BY ElementOfSeq DEF TypeOK, ContextTypeOK
<1>1. /\ PendedReads \in Seq(Reads) /\ Contains(PendedReads, r)
      /\ \A j, k \in 1 .. Len(PendedReads) : PendedReads[j] = PendedReads[k] => j = k
  BY <1>0 DEF TypeOK, ContextTypeOK, Contains, ReadInv, NoReadTwice
<1>2. /\ irpStatus[r] = "pending" /\ cancelPc[r] = "idle" /\ r # None
  BY <1>0, <1>1, AgentsAssumption DEF ReadInv, QueuedReads
<1>3. \A u \in Agents : curIrp[u] # r
  BY <1>1, <1>2 DEF HoldInv, CarriedReads
<1>4. \A x : Contains(PendedReads', x) <=> Contains(PendedReads, x) /\ x # r
  <2>1. \A x : Contains(PendedReads', x) <=> Contains(PendedReads, x) /\ x # PendedReads[i]
    BY <1>1, RemoveOne
  <2>2. QED BY <1>0, <2>1
<1>5. \A u \in Agents : /\ curIrp'[u] = IF u = t THEN r ELSE curIrp[u]
                        /\ Carries(u)' <=> u = t \/ Carries(u)
  BY <1>0, MoveOfHolder DEF TypeOK, ThreadTypeOK
<1>6. CarriedReads'
  <2>1. \A u \in Agents : Carries(u)' <=> curIrp'[u] # None
    BY <1>2, <1>5 DEF HoldInv, CarriedReads
  <2>2. ASSUME NEW u \in Agents, Carries(u)'
        PROVE  /\ ~Contains(PendedReads', curIrp'[u]) /\ cancelPc[curIrp'[u]] = "idle"
               /\ irpStatus[curIrp'[u]] \notin {"unsent", "dispatched"}
               /\ \A v \in Agents : curIrp'[v] = curIrp'[u] => v = u
    BY <1>2, <1>3, <1>4, <1>5, <2>2 DEF HoldInv, CarriedReads
  <2>3. QED BY <2>1, <2>2 DEF CarriedReads
<1>7. UnlinkedReads'
  BY <1>4 DEF HoldInv, UnlinkedReads
<1>8. \A q \in Reads : HeldRead(q)' <=> HeldRead(q)
  <2>1. HeldRead(r) /\ HeldRead(r)'
    BY <1>1, <1>5 DEF HeldRead
  <2>2. ASSUME NEW q \in Reads, q # r PROVE HeldRead(q)' <=> HeldRead(q)
    <3>1. Contains(PendedReads', q) <=> Contains(PendedReads, q)
      BY <1>4, <2>2
    <3>2. (\E u \in Agents : curIrp'[u] = q) <=> (\E u \in Agents : curIrp[u] = q)
      <4>1. curIrp[t] # q
        BY AgentsAssumption DEF HoldInv, CarriedReads
      <4>2. QED BY <1>5, <2>2, <4>1
    <3>3. QED BY <3>1, <3>2 DEF HeldRead
  <2>3. QED BY <2>1, <2>2
<1>9. QED BY <1>6, <1>7, <1>8 DEF ReadsKept

\* A thread drops the reference of the read it has completed.
LEMMA DropRead ==
    ASSUME TypeOK, RefInv, NEW t \in Agents, Carries(t), NEW label, Goto(t, label),
           label \notin CarryLabels \cup {"done"}, label \in TempLabels, pc[t] \in TempLabels,
           FileHeld' <=> FileHeld, PacketsKept,
           curIrp' = [curIrp EXCEPT ![t] = None],
           UNCHANGED <<PendedReads, irpStatus, cancelPc>>,
           RefCount' = RefCount - 1
    PROVE  RefInv'
<1>1. HoldInv /\ RefCountIsExact /\ RefCount \in Int
  BY DEF RefInv, TypeOK, ContextTypeOK
<1>2. PICK r \in Reads : curIrp[t] = r
  BY <1>1, CarriedIsRead
<1>3. /\ ~Contains(PendedReads, r) /\ cancelPc[r] = "idle" /\ r # None
      /\ \A u \in Agents : curIrp[u] = r => u = t
  BY <1>1, <1>2, AgentsAssumption DEF HoldInv, CarriedReads
<1>4. \A u \in Agents : /\ curIrp'[u] = IF u = t THEN None ELSE curIrp[u]
                        /\ Carries(u)' <=> u # t /\ Carries(u)
                        /\ InRoutine(u)' <=> InRoutine(u)
  BY MoveOfHolder DEF TypeOK, ThreadTypeOK, InRoutine
<1>5. BindingHeld' <=> BindingHeld
  <2>1. pc[t] # "done"
    BY DEF Carries, CarryLabels
  <2>2. QED BY <2>1, MoveOfHolder DEF BindingHeld
<1>6. CarriedReads' /\ UnlinkedReads'
  BY <1>1, <1>4 DEF HoldInv, CarriedReads, UnlinkedReads
<1>7. HeldRead(r) /\ ~HeldRead(r)' /\ \A q \in Reads : q # r => (HeldRead(q)' <=> HeldRead(q))
  <2>1. HeldRead(r)
    BY <1>2 DEF HeldRead
  <2>2. ~HeldRead(r)'
    BY <1>3, <1>4 DEF HeldRead
  <2>3. ASSUME NEW q \in Reads, q # r PROVE HeldRead(q)' <=> HeldRead(q)
    <3>1. q # None
      BY AgentsAssumption
    <3>2. (\E u \in Agents : curIrp'[u] = q) <=> (\E u \in Agents : curIrp[u] = q)
      BY <1>2, <1>4, <2>3, <3>1
    <3>3. QED BY <3>2 DEF HeldRead
  <2>4. QED BY <2>1, <2>2, <2>3
<1> DEFINE x == <<"read", r>>
<1>8. SameBut(x)
  BY <1>4, <1>5, <1>7 DEF SameBut, PacketsKept
<1>9. IsHolder(x) /\ ~IsHolder(x)'
  BY <1>7, KindsOfHolder, KindsOfHolderNext
<1> HIDE DEF x
<1>10. RefCountIsExact'
  BY <1>1, <1>8, <1>9, OneHolder
<1>11. QED BY <1>6, <1>10 DEF RefInv, HoldInv, PacketsKept

\* NdisProtRead takes a reference for the read it puts on the queue.
LEMMA PendReadRef ==
    ASSUME TypeOK, ReadInv, RefInv, NEW r \in Reads, PendRead(r)
    PROVE  RefInv'
<1>1. HoldInv /\ RefCountIsExact /\ RefCount \in Int /\ r \in Agents /\ r # "pnp" /\ r \notin Packets
  BY AgentsAssumption DEF RefInv, TypeOK, ContextTypeOK, Agents
<1>2. /\ Goto(r, "svcRef") /\ pc[r] = "rdLock" /\ RefCount' = RefCount + 1
      /\ PendedReads' = Append(PendedReads, r)
      /\ UNCHANGED <<fileState, RecvPktQueue, curIrp, curPkt, cancelPc, pktState>>
  BY DEF PendRead, RefOpen, bindVars, recvVars, curVars, pktVars
<1>3. irpStatus[r] = "dispatched"
  BY <1>2 DEF ReadInv, NewReads
<1>4. /\ ~Contains(PendedReads, r) /\ cancelPc[r] = "idle"
      /\ \A u \in Agents : curIrp[u] # r
  <2>1. ~Contains(PendedReads, r) /\ cancelPc[r] = "idle"
    BY <1>3, UnpendedRead
  <2>2. r # None
    BY AgentsAssumption
  <2>3. QED BY <1>1, <1>3, <2>1, <2>2 DEF HoldInv, CarriedReads
<1>5. \A x : Contains(PendedReads', x) <=> Contains(PendedReads, x) \/ x = r
  <2>1. /\ PendedReads \in Seq(Reads)
        /\ \A j, k \in 1 .. Len(PendedReads) : PendedReads[j] = PendedReads[k] => j = k
    BY DEF TypeOK, ContextTypeOK, ReadInv, NoReadTwice
  <2>2. QED BY <1>2, <1>4, <2>1, AppendOne
<1>6. \A u \in Agents : /\ Carries(u)' <=> Carries(u)
                        /\ HoldsPacketRef(u)' <=> HoldsPacketRef(u)
                        /\ InRoutine(u)' <=> InRoutine(u)
  <2>1. ~Carries(r) /\ ~HoldsPacketRef(r) /\ ~InRoutine(r)
    BY <1>2, TempLabelsAre DEF Carries, CarryLabels, HoldsPacketRef, InRoutine
  <2>2. "svcRef" \notin CarryLabels \cup PacketRefLabels \cup TempLabels
    BY TempLabelsAre DEF CarryLabels, PacketRefLabels
  <2>3. QED BY <1>1, <1>2, <2>1, <2>2, MoveOfHolder
<1>7. (BindingHeld' <=> BindingHeld) /\ (FileHeld' <=> FileHeld)
  BY <1>1, <1>2, MoveOfHolder DEF FileHeld
<1>8. PacketsKept
  <2>1. \A p \in Packets : (Arriving(p)' <=> Arriving(p)) /\ pc'[p] = pc[p]
    BY <1>1, <1>2, MoveOfHolder
  <2>2. QED BY <1>1, <1>2, <1>6, <2>1, CalmPackets
<1>9. \A q \in Reads : irpStatus'[q] \in {"unsent", "dispatched"} =>
                          irpStatus[q] \in {"unsent", "dispatched"}
  BY DEF PendRead, TypeOK, DataTypeOK
<1>10. CarriedReads' /\ UnlinkedReads'
  <2>1. CarriedReads'
    BY <1>1, <1>2, <1>4, <1>5, <1>6, <1>9, CarriedIsRead DEF HoldInv, CarriedReads
  <2>2. UnlinkedReads'
    BY <1>1, <1>2, <1>4, <1>5 DEF HoldInv, UnlinkedReads
  <2>3. QED BY <2>1, <2>2
<1>11. /\ HeldRead(r)' /\ ~HeldRead(r)
       /\ \A q \in Reads : q # r => (HeldRead(q)' <=> HeldRead(q))
  BY <1>2, <1>4, <1>5 DEF HeldRead
<1> DEFINE x == <<"read", r>>
<1>12. SameBut(x)
  BY <1>6, <1>7, <1>8, <1>11 DEF SameBut, PacketsKept
<1>13. ~IsHolder(x) /\ IsHolder(x)'
  BY <1>11, KindsOfHolder, KindsOfHolderNext
<1> HIDE DEF x
<1>14. RefCountIsExact'
  BY <1>1, <1>2, <1>12, <1>13, OneHolder
<1>15. QED BY <1>8, <1>10, <1>14 DEF RefInv, HoldInv, PacketsKept

\* Cancellation: the cancel routine has the reference of the read it takes off
\* the queue, and drops it when the read is completed.
LEMMA CancelRef ==
    ASSUME TypeOK, ReadInv, RefInv, NEW r \in Reads, CancelIrp(r) \/ CancelRead(r)
    PROVE  RefInv'
<1>1. /\ HoldInv /\ RefCountIsExact /\ RefCount \in Int
      /\ UNCHANGED <<pc, fileState, RecvPktQueue, curIrp, curPkt, pktState>>
  BY DEF RefInv, TypeOK, ContextTypeOK, CancelIrp, CancelRead, CancelReadUnlink,
     CancelReadComplete, CancelReadDeref, bindVars, recvVars, curVars, pktVars
<1>2. /\ \A u \in Agents : /\ Carries(u)' <=> Carries(u)
                           /\ HoldsPacketRef(u)' <=> HoldsPacketRef(u)
                           /\ InRoutine(u)' <=> InRoutine(u)
      /\ (BindingHeld' <=> BindingHeld) /\ (FileHeld' <=> FileHeld)
      /\ \A p \in Packets : Arriving(p)' <=> Arriving(p)
  BY <1>1 DEF Carries, HoldsPacketRef, InRoutine, BindingHeld, FileHeld, Arriving
<1>3. PacketsKept
  BY <1>1, <1>2, CalmPackets
<1>4. ASSUME ReadsKept, RefCount' = RefCount PROVE RefInv'
  <2> DEFINE x == <<"nothing", "nobody">>
  <2>1. SameBut(x)
    BY <1>2, <1>3, <1>4 DEF SameBut, ReadsKept, PacketsKept
  <2>2. IsHolder(x)' <=> IsHolder(x)
    BY DEF IsHolder
  <2> HIDE DEF x
  <2>3. RefCountIsExact'
    BY <1>1, <1>4, <2>1, <2>2, OneHolder
  <2>4. QED BY <1>3, <1>4, <2>3 DEF RefInv, HoldInv, ReadsKept, PacketsKept
<1>5. CASE CancelIrp(r)
  <2>1. /\ UNCHANGED <<PendedReads, irpStatus>> /\ RefCount' = RefCount
        /\ cancelPc[r] = "idle"
        /\ \A q \in Reads : cancelPc'[q] = IF q = r /\ irpRoutine[r] THEN "lock" ELSE cancelPc[q]
    BY <1>5 DEF CancelIrp, ReadInv, NewReads, TypeOK, ThreadTypeOK, readVars, refVars, DataTypeOK
  <2>2. irpRoutine[r] => Contains(PendedReads, r)
    BY DEF ReadInv, QueuedReads
  <2>3. \A q \in Reads : cancelPc[q] = "deref" => ~Contains(PendedReads, q)
    BY <1>1 DEF HoldInv, UnlinkedReads
  <2>4. ReadsKept
    BY <1>1, <1>2, <2>1, <2>2, <2>3, CalmReads
  <2>5. QED BY <1>4, <2>1, <2>4
<1>6. CASE CancelReadComplete(r)
  <2>1. /\ UNCHANGED PendedReads /\ RefCount' = RefCount /\ cancelPc[r] = "complete"
        /\ \A q \in Reads : cancelPc'[q] = IF q = r THEN "deref" ELSE cancelPc[q]
        /\ \A q \in Reads : irpStatus'[q] \in {"unsent", "dispatched"} =>
                               irpStatus[q] \in {"unsent", "dispatched"}
    BY <1>6 DEF CancelReadComplete, Complete, TypeOK, DataTypeOK, ThreadTypeOK, readVars, refVars
  <2>2. \A q \in Reads : cancelPc[q] \in {"complete", "deref"} => ~Contains(PendedReads, q)
    BY <1>1 DEF HoldInv, UnlinkedReads, ReadInv, CancelledReads
  <2>3. ReadsKept
    BY <1>1, <1>2, <2>1, <2>2, CalmReads
  <2>4. QED BY <1>4, <2>1, <2>3
<1>7. CASE CancelReadUnlink(r)
  <2>1. \E i \in 1 .. Len(PendedReads) : PendedReads[i] = r
    BY <1>7 DEF CancelReadUnlink, ReadInv, QueuedReads, Contains
  <2>2. PICK i \in 1 .. Len(PendedReads) :
          /\ PendedReads[i] = r /\ PendedReads' = RemoveAt(PendedReads, i)
          /\ cancelPc' = [cancelPc EXCEPT ![r] = "complete"]
    BY <1>7, <2>1 DEF CancelReadUnlink
  <2>3. /\ UNCHANGED irpStatus /\ RefCount' = RefCount /\ Contains(PendedReads, r)
        /\ cancelPc[r] = "lock"
        /\ \A q \in Reads : cancelPc'[q] = IF q = r THEN "complete" ELSE cancelPc[q]
    BY <1>7, <2>2 DEF CancelReadUnlink, irpVars, refVars, Contains, TypeOK, ThreadTypeOK
  <2>4. \A x : Contains(PendedReads', x) <=> Contains(PendedReads, x) /\ x # r
    <3>1. /\ PendedReads \in Seq(Reads)
          /\ \A j, k \in 1 .. Len(PendedReads) : PendedReads[j] = PendedReads[k] => j = k
      BY DEF TypeOK, ContextTypeOK, ReadInv, NoReadTwice
    <3>2. \/ PendedReads' = RemoveAt(PendedReads, i)
          \/ i = 1 /\ PendedReads' = Tail(PendedReads)
      BY <2>2
    <3>3. \A x : Contains(PendedReads', x) <=> Contains(PendedReads, x) /\ x # PendedReads[i]
      BY <3>1, <3>2, RemoveOne
    <3>4. QED BY <2>2, <3>3
  <2>5. \A u \in Agents : Carries(u) => curIrp[u] \in Reads /\ curIrp[u] # r
    BY <1>1, <2>3, CarriedIsRead DEF HoldInv, CarriedReads
  <2>6. CarriedReads'
    BY <1>1, <1>2, <2>3, <2>4, <2>5 DEF HoldInv, CarriedReads
  <2>7. UnlinkedReads' /\ \A q \in Reads : HeldRead(q)' <=> HeldRead(q)
    BY <1>1, <2>3, <2>4 DEF HoldInv, UnlinkedReads, HeldRead
  <2>8. ReadsKept
    BY <2>6, <2>7 DEF ReadsKept
  <2>9. QED BY <1>4, <2>3, <2>8
<1>8. CASE CancelReadDeref(r)
  <2>1. /\ UNCHANGED <<PendedReads, irpStatus>> /\ RefCount' = RefCount - 1 /\ cancelPc[r] = "deref"
        /\ \A q \in Reads : cancelPc'[q] = IF q = r THEN "done" ELSE cancelPc[q]
    BY <1>8 DEF CancelReadDeref, DerefOpen, TypeOK, ThreadTypeOK, readVars, irpVars
  <2>2. /\ ~Contains(PendedReads, r) /\ \A u \in Agents : curIrp[u] # r
    <3>1. ~Contains(PendedReads, r)
      BY <1>1, <2>1 DEF HoldInv, UnlinkedReads
    <3>2. r # None
      BY AgentsAssumption
    <3>3. QED BY <1>1, <2>1, <3>1, <3>2 DEF HoldInv, CarriedReads
  <2>3. CarriedReads' /\ UnlinkedReads'
    BY <1>1, <1>2, <2>1, <2>2, CarriedIsRead DEF HoldInv, CarriedReads, UnlinkedReads
  <2>4. HeldRead(r) /\ ~HeldRead(r)' /\ \A q \in Reads : q # r => (HeldRead(q)' <=> HeldRead(q))
    BY <1>1, <2>1, <2>2 DEF HeldRead
  <2> DEFINE x == <<"read", r>>
  <2>5. SameBut(x)
    BY <1>2, <1>3, <2>4 DEF SameBut, PacketsKept
  <2>6. IsHolder(x) /\ ~IsHolder(x)'
    BY <2>4, KindsOfHolder, KindsOfHolderNext
  <2> HIDE DEF x
  <2>7. RefCountIsExact'
    BY <1>1, <2>1, <2>5, <2>6, OneHolder
  <2>8. QED BY <1>3, <2>3, <2>7 DEF RefInv, HoldInv, PacketsKept
<1>9. QED BY <1>5, <1>6, <1>7, <1>8 DEF CancelRead

-----------------------------------------------------------------------------
(* Steps that hand a packet on, or drop its reference.                      *)

\* The reference goes with a packet that a thread takes off the queue.
LEMMA TakenPacketKept ==
    ASSUME TypeOK, PacketInv, HoldInv, NEW t \in Agents,
           ~HoldsPacketRef(t), pc[t] # "rcvLock",
           NEW label \in PacketRefLabels, Goto(t, label), RecvPktQueue # <<>>,
           curPkt' = [curPkt EXCEPT ![t] = Head(RecvPktQueue)],
           RecvPktQueue' = Tail(RecvPktQueue), UNCHANGED pktState
    PROVE  PacketsKept
<1>1. PICK p \in Packets : Head(RecvPktQueue) = p /\ Contains(RecvPktQueue, p)
  BY EmptySeq, LenProperties, HeadTailProperties DEF TypeOK, ContextTypeOK, Contains
<1>2. \A x : Contains(RecvPktQueue', x) <=> Contains(RecvPktQueue, x) /\ x # p
  <2>1. /\ \A j, k \in 1 .. Len(RecvPktQueue) : RecvPktQueue[j] = RecvPktQueue[k] => j = k
        /\ RecvPktQueue \in Seq(Packets)
    BY DEF PacketInv, NoPacketTwice, TypeOK, ContextTypeOK
  <2>2. QED BY <1>1, <2>1, TailOne
<1>3. \A u \in Agents : /\ curPkt'[u] = IF u = t THEN p ELSE curPkt[u]
                        /\ HoldsPacketRef(u)' <=> u = t \/ HoldsPacketRef(u)
  BY <1>1, MoveOfHolder DEF TypeOK, ThreadTypeOK
<1>4. \A q \in Packets : /\ Arriving(q)' => Arriving(q)
                         /\ pc'[q] = "rcvLock" <=> pc[q] = "rcvLock"
  <2>1. label \notin ArrivalLabels /\ label # "rcvLock"
    BY DEF PacketRefLabels, ArrivalLabels
  <2>2. QED BY <2>1, MoveOfHolder
<1>5. /\ pktState[p] = "ours" /\ ~Arriving(p)
      /\ \A u \in Agents : HoldsPacketRef(u) => curPkt[u] \in Packets /\ curPkt[u] # p
  BY <1>1 DEF PacketInv, QueuedPackets, HoldInv, CarriedPackets
<1>6. CarriedPackets'
  <2>1. ASSUME NEW u \in Agents, HoldsPacketRef(u)'
        PROVE  /\ curPkt'[u] \in Packets /\ ~Contains(RecvPktQueue', curPkt'[u])
               /\ pktState[curPkt'[u]] # "absent" /\ pc'[curPkt'[u]] \notin ArrivalLabels
               /\ \A v \in Agents : HoldsPacketRef(v)' /\ curPkt'[v] = curPkt'[u] => v = u
    <3>1. CASE u = t
      BY <1>2, <1>3, <1>4, <1>5, <3>1 DEF Arriving
    <3>2. CASE u # t
      <4>1. HoldsPacketRef(u) /\ curPkt'[u] = curPkt[u]
        BY <1>3, <2>1, <3>2
      <4>2. QED BY <1>2, <1>3, <1>4, <1>5, <3>2, <4>1 DEF HoldInv, CarriedPackets, Arriving
    <3>3. QED BY <3>1, <3>2
  <2>2. QED BY <2>1 DEF CarriedPackets, Arriving
<1>7. ASSUME NEW q \in Packets PROVE HeldPacket(q)' <=> HeldPacket(q)
  <2>1. CASE q = p
    <3>1. HeldPacket(q) /\ HeldPacket(q)'
      BY <1>1, <1>3, <2>1 DEF HeldPacket
    <3>2. QED BY <3>1
  <2>2. CASE q # p
    <3>1. (\E u \in Agents : curPkt'[u] = q /\ HoldsPacketRef(u)')
            <=> (\E u \in Agents : curPkt[u] = q /\ HoldsPacketRef(u))
      BY <1>3, <2>2
    <3>2. QED BY <1>2, <1>4, <2>2, <3>1 DEF HeldPacket
  <2>3. QED BY <2>1, <2>2
<1>8. QED BY <1>6, <1>7 DEF PacketsKept

\* A thread drops the reference of the packet it has, or has given back.
LEMMA DropPacket ==
    ASSUME TypeOK, RefInv, NEW t \in Agents, HoldsPacketRef(t), NEW label, Goto(t, label),
           label \notin PacketRefLabels \cup ArrivalLabels,
           t = "pnp" => label # "done",
           label \in TempLabels <=> pc[t] \in TempLabels,
           FileHeld' <=> FileHeld, ReadsKept,
           \A u \in Agents : u # t => curPkt'[u] = curPkt[u],
           UNCHANGED <<RecvPktQueue, pktState>>,
           RefCount' = RefCount - 1
    PROVE  RefInv'
<1>1. HoldInv /\ RefCountIsExact /\ RefCount \in Int
  BY DEF RefInv, TypeOK, ContextTypeOK
<1>2. PICK p \in Packets : curPkt[t] = p
  BY <1>1 DEF HoldInv, CarriedPackets
<1>3. /\ ~Contains(RecvPktQueue, p) /\ ~Arriving(p)
      /\ \A u \in Agents : HoldsPacketRef(u) /\ curPkt[u] = p => u = t
  BY <1>1, <1>2 DEF HoldInv, CarriedPackets
<1>4. /\ \A u \in Agents : /\ HoldsPacketRef(u)' <=> u # t /\ HoldsPacketRef(u)
                           /\ InRoutine(u)' <=> InRoutine(u)
      /\ \A q \in Packets : /\ Arriving(q)' => Arriving(q)
                            /\ pc'[q] = "rcvLock" <=> pc[q] = "rcvLock"
  <2>1. pc[t] # "rcvLock" /\ label # "rcvLock"
    BY DEF HoldsPacketRef, ArrivalLabels
  <2>2. QED BY <2>1, MoveOfHolder DEF InRoutine
<1>5. BindingHeld' <=> BindingHeld
  <2>1. pc[t] # "done"
    BY DEF HoldsPacketRef
  <2>2. QED BY <2>1, MoveOfHolder DEF BindingHeld
<1>6. CarriedPackets'
  <2>1. \A u \in Agents : HoldsPacketRef(u)' =>
          /\ HoldsPacketRef(u) /\ curPkt'[u] = curPkt[u] /\ curPkt[u] \in Packets
          /\ ~Arriving(curPkt[u]) /\ pktState[curPkt[u]] # "absent"
    BY <1>1, <1>4 DEF HoldInv, CarriedPackets
  <2>2. \A u \in Agents : HoldsPacketRef(u)' => pc'[curPkt'[u]] \notin ArrivalLabels
    BY <1>4, <2>1 DEF Arriving
  <2>3. QED BY <1>1, <2>1, <2>2 DEF HoldInv, CarriedPackets, Arriving
<1>7. /\ HeldPacket(p) /\ ~HeldPacket(p)'
      /\ \A q \in Packets : q # p => (HeldPacket(q)' <=> HeldPacket(q))
  <2>1. HeldPacket(p)
    BY <1>2 DEF HeldPacket
  <2>2. ~HeldPacket(p)'
    <3>1. pc[p] # "rcvLock"
      BY <1>3 DEF Arriving, ArrivalLabels
    <3>2. QED BY <1>3, <1>4, <3>1 DEF HeldPacket
  <2>3. ASSUME NEW q \in Packets, q # p PROVE HeldPacket(q)' <=> HeldPacket(q)
    <3>1. (\E u \in Agents : curPkt'[u] = q /\ HoldsPacketRef(u)')
            <=> (\E u \in Agents : curPkt[u] = q /\ HoldsPacketRef(u))
      BY <1>2, <1>4, <2>3
    <3>2. QED BY <1>4, <3>1 DEF HeldPacket
  <2>4. QED BY <2>1, <2>2, <2>3
<1> DEFINE x == <<"packet", p>>
<1>8. SameBut(x)
  BY <1>4, <1>5, <1>7 DEF SameBut, ReadsKept
<1>9. IsHolder(x) /\ ~IsHolder(x)'
  BY <1>7, KindsOfHolder, KindsOfHolderNext
<1> HIDE DEF x
<1>10. RefCountIsExact'
  BY <1>1, <1>8, <1>9, OneHolder
<1>11. QED BY <1>6, <1>10 DEF RefInv, HoldInv, ReadsKept

\* An indication takes a reference for its packet.
LEMMA ReferPacket ==
    ASSUME TypeOK, PacketInv, RefInv, NEW p \in Packets, QueueReceivePacketRef(p)
    PROVE  RefInv'
<1>1. HoldInv /\ RefCountIsExact /\ RefCount \in Int /\ p \in Agents /\ p # "pnp"
  BY AgentsAssumption DEF RefInv, TypeOK, ContextTypeOK, Agents
<1>2. /\ Goto(p, "rcvLock") /\ pc[p] = "rcvRef" /\ RefCount' = RefCount + 1
      /\ UNCHANGED <<fileState, PendedReads, RecvPktQueue, curIrp, curPkt, cancelPc, irpStatus,
                     pktState>>
  BY DEF QueueReceivePacketRef, RefOpen, bindVars, readVars, recvVars, irpVars, curVars, pktVars
<1>3. /\ \A u \in Agents : /\ Carries(u)' <=> Carries(u)
                           /\ HoldsPacketRef(u)' <=> HoldsPacketRef(u)
                           /\ InRoutine(u)' <=> InRoutine(u)
      /\ \A q \in Packets : /\ Arriving(q)' <=> Arriving(q)
                            /\ pc'[q] = IF q = p THEN "rcvLock" ELSE pc[q]
      /\ (BindingHeld' <=> BindingHeld) /\ (FileHeld' <=> FileHeld)
  <2>1. ~Carries(p) /\ ~HoldsPacketRef(p) /\ ~InRoutine(p) /\ Arriving(p)
    BY <1>2, TempLabelsAre DEF Carries, CarryLabels, HoldsPacketRef, InRoutine, Arriving,
       ArrivalLabels
  <2>2. /\ "rcvLock" \notin CarryLabels \cup PacketRefLabels \cup TempLabels
        /\ "rcvLock" \in ArrivalLabels
    BY TempLabelsAre DEF CarryLabels, PacketRefLabels, ArrivalLabels
  <2>3. QED BY <1>1, <1>2, <2>1, <2>2, MoveOfHolder DEF FileHeld
<1>4. ReadsKept
  <2>1. \A r \in Reads : cancelPc[r] = "deref" => ~Contains(PendedReads, r)
    BY <1>1 DEF HoldInv, UnlinkedReads
  <2>2. QED BY <1>1, <1>2, <1>3, <2>1, CalmReads
<1>5. CarriedPackets'
  BY <1>1, <1>2, <1>3 DEF HoldInv, CarriedPackets
<1>6. ~Contains(RecvPktQueue, p) /\ \A u \in Agents : HoldsPacketRef(u) => curPkt[u] # p
  BY <1>1, <1>2 DEF PacketInv, QueuedPackets, HoldInv, CarriedPackets, Arriving, ArrivalLabels
<1>7. /\ HeldPacket(p)' /\ ~HeldPacket(p)
      /\ \A q \in Packets : q # p => (HeldPacket(q)' <=> HeldPacket(q))
  BY <1>2, <1>3, <1>6 DEF HeldPacket
<1> DEFINE x == <<"packet", p>>
<1>8. SameBut(x)
  BY <1>3, <1>4, <1>7 DEF SameBut, ReadsKept
<1>9. ~IsHolder(x) /\ IsHolder(x)'
  BY <1>7, KindsOfHolder, KindsOfHolderNext
<1> HIDE DEF x
<1>10. RefCountIsExact'
  BY <1>1, <1>2, <1>8, <1>9, OneHolder
<1>11. QED BY <1>4, <1>5, <1>10 DEF RefInv, HoldInv, ReadsKept

\* The indication's reference goes with the packet it drops.
LEMMA RefusedPacketKept ==
    ASSUME TypeOK, PacketInv, HoldInv, NEW p \in Packets, RefuseReceivePacket(p)
    PROVE  PacketsKept
<1>1. /\ p \in Agents /\ pc[p] = "rcvLock" /\ Goto(p, "rcvDrop") /\ ~HoldsPacketRef(p)
      /\ UNCHANGED <<RecvPktQueue, pktState>>
      /\ \A u \in Agents : curPkt'[u] = IF u = p THEN p ELSE curPkt[u]
  BY DEF RefuseReceivePacket, Agents, HoldsPacketRef, recvVars, pktVars, TypeOK, ThreadTypeOK
<1>2. /\ \A u \in Agents : HoldsPacketRef(u)' <=> u = p \/ HoldsPacketRef(u)
      /\ \A q \in Packets : /\ Arriving(q)' <=> q # p /\ Arriving(q)
                            /\ pc'[q] = IF q = p THEN "rcvDrop" ELSE pc[q]
  <2>1. "rcvDrop" \in PacketRefLabels /\ "rcvDrop" \notin ArrivalLabels
    BY DEF PacketRefLabels, ArrivalLabels
  <2>2. QED BY <1>1, <2>1, MoveOfHolder
<1>3. /\ pktState[p] = "ours" /\ ~Contains(RecvPktQueue, p) /\ Arriving(p)
      /\ \A u \in Agents : HoldsPacketRef(u) => curPkt[u] # p
  BY <1>1 DEF PacketInv, QueuedPackets, OurPackets, HoldInv, CarriedPackets, Arriving,
     ArrivalLabels
<1>4. CarriedPackets'
  BY <1>1, <1>2, <1>3 DEF HoldInv, CarriedPackets
<1>5. \A q \in Packets : HeldPacket(q)' <=> HeldPacket(q)
  <2>1. HeldPacket(p) /\ HeldPacket(p)'
    BY <1>1, <1>2 DEF HeldPacket
  <2>2. ASSUME NEW q \in Packets, q # p PROVE HeldPacket(q)' <=> HeldPacket(q)
    <3>1. (\E u \in Agents : curPkt'[u] = q /\ HoldsPacketRef(u)')
            <=> (\E u \in Agents : curPkt[u] = q /\ HoldsPacketRef(u))
      BY <1>1, <1>2, <2>2
    <3>2. QED BY <1>1, <1>2, <2>2, <3>1 DEF HeldPacket
  <2>3. QED BY <2>1, <2>2
<1>6. QED BY <1>4, <1>5 DEF PacketsKept

\* The reference goes to the queue with the packet, and with the head that is
\* discarded to the thread that is to give it back.
LEMMA QueuedPacketKept ==
    ASSUME TypeOK, PacketInv, HoldInv, NEW p \in Packets, QueueReceivePacket(p)
    PROVE  PacketsKept
<1> DEFINE queue == Append(RecvPktQueue, p)
           discards == IsTooLong(RecvPktCount + 1)
<1>1. /\ p \in Agents /\ pc[p] = "rcvLock" /\ ~HoldsPacketRef(p) /\ Arriving(p)
      /\ UNCHANGED pktState
  BY DEF QueueReceivePacket, Agents, HoldsPacketRef, Arriving, ArrivalLabels, pktVars
<1>2. /\ pktState[p] = "ours" /\ ~Contains(RecvPktQueue, p)
      /\ \A u \in Agents : HoldsPacketRef(u) => curPkt[u] # p
  BY <1>1 DEF PacketInv, QueuedPackets, OurPackets, HoldInv, CarriedPackets
<1>3. /\ queue \in Seq(Packets) /\ queue # <<>>
      /\ \A j, k \in 1 .. Len(queue) : queue[j] = queue[k] => j = k
      /\ \A x : Contains(queue, x) <=> Contains(RecvPktQueue, x) \/ x = p
  <2>1. /\ RecvPktQueue \in Seq(Packets)
        /\ \A j, k \in 1 .. Len(RecvPktQueue) : RecvPktQueue[j] = RecvPktQueue[k] => j = k
    BY DEF TypeOK, ContextTypeOK, PacketInv, NoPacketTwice
  <2>2. queue \in Seq(Packets) /\ queue # <<>>
    BY <2>1, AppendProperties
  <2>3. QED BY <1>2, <2>1, <2>2, AppendOne
<1>4. /\ RecvPktQueue' = IF discards THEN Tail(queue) ELSE queue
      /\ Goto(p, IF discards THEN "rcvDiscard" ELSE "svcRef")
      /\ \A u \in Agents : curPkt'[u] = IF u = p /\ discards THEN Head(queue) ELSE curPkt[u]
  BY DEF QueueReceivePacket, TypeOK, ThreadTypeOK
<1> HIDE DEF queue, discards
<1>5. PICK h \in Packets : Head(queue) = h /\ Contains(queue, h)
  BY <1>3, EmptySeq, LenProperties, HeadTailProperties DEF Contains
<1>6. \A x : Contains(RecvPktQueue', x) <=>
                (Contains(RecvPktQueue, x) \/ x = p) /\ ~(discards /\ x = h)
  <2>1. \A x : Contains(Tail(queue), x) <=> Contains(queue, x) /\ x # h
    BY <1>3, <1>5, TailOne
  <2>2. QED BY <1>3, <1>4, <2>1
<1>7. /\ \A u \in Agents : HoldsPacketRef(u)' <=> (u = p /\ discards) \/ HoldsPacketRef(u)
      /\ \A q \in Packets : /\ Arriving(q)' <=> q # p /\ Arriving(q)
                            /\ pc'[q] = "rcvLock" <=> q # p /\ pc[q] = "rcvLock"
  <2>1. /\ (IF discards THEN "rcvDiscard" ELSE "svcRef") \in PacketRefLabels <=> discards
        /\ (IF discards THEN "rcvDiscard" ELSE "svcRef") \notin ArrivalLabels \cup {"rcvLock"}
    BY DEF PacketRefLabels, ArrivalLabels
  <2>2. QED BY <1>1, <1>4, <2>1, MoveOfHolder
<1>8. /\ pktState[h] = "ours" /\ (h # p => ~Arriving(h))
      /\ \A u \in Agents : HoldsPacketRef(u) => curPkt[u] # h
  BY <1>2, <1>3, <1>5 DEF PacketInv, QueuedPackets, HoldInv, CarriedPackets
<1>9. CarriedPackets'
  <2>1. ASSUME NEW u \in Agents, HoldsPacketRef(u)'
        PROVE  /\ curPkt'[u] \in Packets /\ ~Contains(RecvPktQueue', curPkt'[u])
               /\ pktState[curPkt'[u]] # "absent" /\ pc'[curPkt'[u]] \notin ArrivalLabels
               /\ \A v \in Agents : HoldsPacketRef(v)' /\ curPkt'[v] = curPkt'[u] => v = u
    <3>1. CASE u = p /\ discards
      <4>1. curPkt'[u] = h
        BY <1>4, <1>5, <3>1
      <4>2. pc'[h] \notin ArrivalLabels
        BY <1>7, <1>8 DEF Arriving
      <4>3. \A v \in Agents : HoldsPacketRef(v)' /\ curPkt'[v] = h => v = u
        BY <1>4, <1>7, <1>8, <3>1
      <4>4. QED BY <1>6, <1>8, <3>1, <4>1, <4>2, <4>3
    <3>2. CASE ~(u = p /\ discards)
      <4>1. HoldsPacketRef(u) /\ curPkt'[u] = curPkt[u] /\ curPkt[u] # p /\ curPkt[u] # h
        BY <1>2, <1>4, <1>7, <1>8, <2>1, <3>2
      <4>2. /\ curPkt[u] \in Packets /\ ~Contains(RecvPktQueue, curPkt[u])
            /\ pktState[curPkt[u]] # "absent" /\ ~Arriving(curPkt[u])
            /\ \A v \in Agents : HoldsPacketRef(v) /\ curPkt[v] = curPkt[u] => v = u
        BY <4>1 DEF HoldInv, CarriedPackets
      <4>3. pc'[curPkt[u]] \notin ArrivalLabels
        BY <1>7, <4>2 DEF Arriving
      <4>4. \A v \in Agents : HoldsPacketRef(v)' /\ curPkt'[v] = curPkt[u] => v = u
        BY <1>4, <1>5, <1>7, <4>1, <4>2
      <4>5. QED BY <1>6, <4>1, <4>2, <4>3, <4>4
    <3>3. QED BY <3>1, <3>2
  <2>2. QED BY <1>1, <2>1 DEF CarriedPackets, Arriving
<1>10. ASSUME NEW q \in Packets PROVE HeldPacket(q)' <=> HeldPacket(q)
  <2>1. CASE discards /\ q = h
    <3>1. HeldPacket(q)
      BY <1>1, <1>3, <1>5, <2>1 DEF HeldPacket
    <3>2. curPkt'[p] = q /\ HoldsPacketRef(p)'
      BY <1>1, <1>4, <1>5, <1>7, <2>1
    <3>3. HeldPacket(q)'
      BY <1>1, <3>2 DEF HeldPacket
    <3>4. QED BY <3>1, <3>3
  <2>2. CASE ~(discards /\ q = h)
    <3>1. (\E u \in Agents : curPkt'[u] = q /\ HoldsPacketRef(u)')
            <=> (\E u \in Agents : curPkt[u] = q /\ HoldsPacketRef(u))
      BY <1>1, <1>4, <1>5, <1>7, <2>2
    <3>2. Contains(RecvPktQueue', q) \/ pc'[q] = "rcvLock"
            <=> Contains(RecvPktQueue, q) \/ pc[q] = "rcvLock"
      BY <1>1, <1>6, <1>7, <2>2
    <3>3. QED BY <3>1, <3>2 DEF HeldPacket
  <2>3. QED BY <2>1, <2>2
<1>11. QED BY <1>9, <1>10 DEF PacketsKept

-----------------------------------------------------------------------------
(* The other steps.                                                         *)

\* A move that concerns no read.
LEMMA MoveKeepsReads ==
    ASSUME TypeOK, HoldInv, NEW t \in Agents, NEW label, Goto(t, label),
           label \in CarryLabels <=> Carries(t),
           UNCHANGED <<PendedReads, curIrp, cancelPc, irpStatus>>
    PROVE  ReadsKept
<1>1. \A u \in Agents : Carries(u)' <=> Carries(u)
  BY MoveOfHolder
<1>2. \A r \in Reads : cancelPc[r] = "deref" => ~Contains(PendedReads, r)
  BY DEF HoldInv, UnlinkedReads
<1>3. QED BY <1>1, <1>2, CalmReads

\* A move that concerns no packet.
LEMMA MoveKeepsPackets ==
    ASSUME TypeOK, HoldInv, NEW t \in Agents, NEW label, Goto(t, label),
           label \in PacketRefLabels <=> HoldsPacketRef(t),
           label \notin ArrivalLabels, pc[t] # "rcvLock",
           UNCHANGED <<RecvPktQueue, pktState>>,
           \A u \in Agents : HoldsPacketRef(u) => curPkt'[u] = curPkt[u]
    PROVE  PacketsKept
<1>1. label # "rcvLock"
  BY DEF ArrivalLabels
<1>2. \A u \in Agents : HoldsPacketRef(u)' <=> HoldsPacketRef(u)
  BY MoveOfHolder
<1>3. \A p \in Packets : /\ Arriving(p)' => Arriving(p)
                         /\ pc'[p] = "rcvLock" <=> pc[p] = "rcvLock"
  BY <1>1, MoveOfHolder
<1>4. QED BY <1>2, <1>3, CalmPackets

\* The service routine's turns, and its two releases.
LEMMA ServiceRefs ==
    ASSUME TypeOK, ReadInv, PacketInv, RefInv, NEW t \in Reads \cup Packets,
           ServiceFirst(t) \/ ServiceAgain(t) \/ ServiceDerefPacket(t) \/ ServiceDerefRead(t)
    PROVE  RefInv'
<1>1. t \in Agents /\ t # "pnp" /\ RefCount \in Int /\ HoldInv /\ RefCountIsExact
  BY AgentsAssumption DEF Agents, TypeOK, ContextTypeOK, RefInv
<1>2. CASE ServiceFirst(t) \/ ServiceAgain(t)
  <2>1. /\ pc[t] \in {"svcLock", "svcRelock"} /\ ServiceTurn(t)
        /\ UNCHANGED <<fileState, RefCount, irpStatus, pktState, cancelPc>>
    BY <1>2 DEF ServiceFirst, ServiceAgain, bindVars, refVars, pktVars
  <2>2. ~Carries(t) /\ ~HoldsPacketRef(t) /\ pc[t] # "rcvLock" /\ pc[t] \in TempLabels
    BY <2>1, TempLabelsAre DEF Carries, CarryLabels, HoldsPacketRef
  <2>3. FileHeld' <=> FileHeld
    BY <2>1 DEF FileHeld
  <2>4. /\ "svcDerefPkt" \in CarryLabels \cap PacketRefLabels \cap TempLabels
        /\ "svcDerefTemp" \notin CarryLabels \cup PacketRefLabels \cup ArrivalLabels
        /\ "svcDerefTemp" \in TempLabels
    BY TempLabelsAre DEF CarryLabels, PacketRefLabels, ArrivalLabels
  <2>5. CASE Goto(t, "svcDerefPkt") /\ RecvPktQueue # <<>>
             /\ curPkt' = [curPkt EXCEPT ![t] = Head(RecvPktQueue)]
             /\ RecvPktQueue' = Tail(RecvPktQueue)
             /\ \E i \in 1 .. Len(PendedReads) :
                   /\ irpRoutine[PendedReads[i]]
                   /\ curIrp' = [curIrp EXCEPT ![t] = PendedReads[i]]
                   /\ PendedReads' = RemoveAt(PendedReads, i)
    <3>1. ReadsKept
      BY <1>1, <2>1, <2>2, <2>4, <2>5, TakenReadKept
    <3>2. PacketsKept
      BY <1>1, <2>1, <2>2, <2>4, <2>5, TakenPacketKept
    <3>3. QED BY <1>1, <2>1, <2>2, <2>3, <2>4, <2>5, <3>1, <3>2, KeptTogether
  <2>6. CASE Goto(t, "svcDerefTemp") /\ UNCHANGED <<PendedReads, RecvPktQueue, curIrp, curPkt>>
    <3>1. ReadsKept
      BY <1>1, <2>1, <2>2, <2>4, <2>6, MoveKeepsReads
    <3>2. PacketsKept
      BY <1>1, <2>1, <2>2, <2>4, <2>6, MoveKeepsPackets
    <3>3. QED BY <1>1, <2>1, <2>2, <2>3, <2>4, <2>6, <3>1, <3>2, KeptTogether
  <2>7. QED BY <2>1, <2>5, <2>6 DEF ServiceTurn, IsFirstTakable, recvVars, curVars
<1>3. CASE ServiceDerefPacket(t)
  <2>1. /\ pc[t] = "svcDerefPkt" /\ Goto(t, "svcComplete") /\ RefCount' = RefCount - 1
        /\ UNCHANGED <<fileState, PendedReads, RecvPktQueue, curIrp, curPkt, cancelPc, irpStatus,
                       pktState>>
    BY <1>3 DEF ServiceDerefPacket, DerefOpen, bindVars, readVars, recvVars, irpVars, curVars,
       pktVars
  <2>2. /\ Carries(t) /\ HoldsPacketRef(t) /\ pc[t] \in TempLabels
        /\ "svcComplete" \in CarryLabels \cap TempLabels
        /\ "svcComplete" \notin PacketRefLabels \cup ArrivalLabels
    BY <2>1, TempLabelsAre DEF Carries, CarryLabels, HoldsPacketRef, PacketRefLabels, ArrivalLabels
  <2>3. ReadsKept
    BY <1>1, <2>1, <2>2, MoveKeepsReads
  <2>4. FileHeld' <=> FileHeld
    BY <2>1 DEF FileHeld
  <2>5. QED BY <1>1, <2>1, <2>2, <2>3, <2>4, DropPacket
<1>4. CASE ServiceDerefRead(t)
  <2>1. /\ pc[t] = "svcDerefRead" /\ Goto(t, "svcRelock") /\ RefCount' = RefCount - 1
        /\ curIrp' = [curIrp EXCEPT ![t] = None]
        /\ UNCHANGED <<fileState, PendedReads, RecvPktQueue, curPkt, cancelPc, irpStatus, pktState>>
    BY <1>4 DEF ServiceDerefRead, DerefOpen, bindVars, readVars, recvVars, irpVars, pktVars
  <2>2. /\ Carries(t) /\ ~HoldsPacketRef(t) /\ pc[t] \in TempLabels
        /\ "svcRelock" \notin CarryLabels \cup PacketRefLabels \cup ArrivalLabels \cup {"done"}
        /\ "svcRelock" \in TempLabels
    BY <2>1, TempLabelsAre DEF Carries, CarryLabels, HoldsPacketRef, PacketRefLabels, ArrivalLabels
  <2>3. PacketsKept
    BY <1>1, <2>1, <2>2, MoveKeepsPackets
  <2>4. FileHeld' <=> FileHeld
    BY <2>1 DEF FileHeld
  <2>5. QED BY <1>1, <2>1, <2>2, <2>3, <2>4, DropRead
<1>5. QED BY <1>2, <1>3, <1>4

\* The indication's critical section, and its release of the packet it gave
\* back.
LEMMA QueueRefs ==
    ASSUME TypeOK, PacketInv, RefInv, NEW p \in Packets,
           QueueReceivePacket(p) \/ RefuseReceivePacket(p) \/ DiscardDeref(p)
    PROVE  RefInv'
<1>1. p \in Agents /\ p # "pnp" /\ RefCount \in Int /\ HoldInv /\ RefCountIsExact
  BY AgentsAssumption DEF Agents, TypeOK, ContextTypeOK, RefInv
<1>2. PICK label \in {"rcvDiscard", "svcRef", "rcvDrop", "done"} :
        /\ Goto(p, label) /\ (label \in {"rcvDiscard", "rcvDrop"} => ~DiscardDeref(p))
  BY DEF QueueReceivePacket, RefuseReceivePacket, DiscardDeref
<1>3. /\ pc[p] \in {"rcvLock", "rcvDiscardDeref", "rcvDropDeref"}
      /\ UNCHANGED <<fileState, PendedReads, curIrp, cancelPc, irpStatus, pktState>>
  BY DEF QueueReceivePacket, RefuseReceivePacket, DiscardDeref, bindVars, readVars, irpVars,
     pktVars
<1>4. /\ ~Carries(p) /\ pc[p] \notin TempLabels /\ label \notin CarryLabels \cup TempLabels
      /\ FileHeld' <=> FileHeld
  BY <1>3, TempLabelsAre DEF Carries, CarryLabels, FileHeld
<1>5. ReadsKept
  BY <1>1, <1>2, <1>3, <1>4, MoveKeepsReads
<1>6. CASE QueueReceivePacket(p) \/ RefuseReceivePacket(p)
  <2>1. RefCount' = RefCount
    BY <1>6 DEF QueueReceivePacket, RefuseReceivePacket, refVars
  <2>2. PacketsKept
    BY <1>1, <1>6, QueuedPacketKept, RefusedPacketKept
  <2>3. QED BY <1>1, <1>2, <1>4, <1>5, <2>1, <2>2, KeptTogether
<1>7. CASE DiscardDeref(p)
  <2>1. HoldsPacketRef(p) /\ label \notin PacketRefLabels \cup ArrivalLabels
    BY <1>2, <1>7 DEF DiscardDeref, HoldsPacketRef, PacketRefLabels, ArrivalLabels
  <2>2. /\ RefCount' = RefCount - 1 /\ UNCHANGED RecvPktQueue
        /\ \A u \in Agents : u # p => curPkt'[u] = curPkt[u]
    BY <1>7 DEF DiscardDeref, DerefOpen, recvVars, TypeOK, ThreadTypeOK
  <2>3. QED BY <1>1, <1>2, <1>3, <1>4, <1>5, <2>1, <2>2, DropPacket
<1>8. QED BY <1>6, <1>7

\* ndisprotCancelPendingReads: its turns, and its release of the read.
LEMMA CancelPendingRefs ==
    ASSUME TypeOK, ReadInv, RefInv, NEW t \in {"cleanup", "pnp"},
           CancelPendingFirst(t) \/ CancelPendingAgain(t) \/ CancelPendingDeref(t)
    PROVE  RefInv'
<1>1. t \in Agents /\ RefCount \in Int /\ HoldInv /\ RefCountIsExact
  BY DEF Agents, TypeOK, ContextTypeOK, RefInv
<1>2. PICK label \in {"cprComplete", "cprDerefTemp", "cprLock", "cprRelock"} : Goto(t, label)
  BY DEF CancelPendingFirst, CancelPendingAgain, CancelPendingDeref, CancelPendingTurn
<1>3. /\ label \in TempLabels /\ label # "done" /\ (label \in CarryLabels <=> label = "cprComplete")
      /\ label \notin PacketRefLabels \cup ArrivalLabels
  BY TempLabelsAre DEF CarryLabels, PacketRefLabels, ArrivalLabels
<1>4. /\ pc[t] \in {"cprLock", "cprRelock", "cprDeref"}
      /\ UNCHANGED <<fileState, RecvPktQueue, curPkt, cancelPc, irpStatus, pktState>>
  BY DEF CancelPendingFirst, CancelPendingAgain, CancelPendingDeref, bindVars, recvVars, irpVars,
     pktVars
<1>5. /\ ~HoldsPacketRef(t) /\ pc[t] \in TempLabels /\ (Carries(t) <=> pc[t] = "cprDeref")
      /\ FileHeld' <=> FileHeld
  BY <1>4, TempLabelsAre DEF HoldsPacketRef, Carries, CarryLabels, FileHeld
<1>6. PacketsKept
  BY <1>1, <1>2, <1>3, <1>4, <1>5, MoveKeepsPackets
<1>7. CASE CancelPendingFirst(t) \/ CancelPendingAgain(t)
  <2>1. RefCount' = RefCount /\ ~Carries(t)
    BY <1>5, <1>7 DEF CancelPendingFirst, CancelPendingAgain, refVars
  <2>2. CASE UNCHANGED <<PendedReads, curIrp>> /\ label # "cprComplete"
    <3>1. ReadsKept
      BY <1>1, <1>2, <1>3, <1>4, <2>1, <2>2, MoveKeepsReads
    <3>2. QED BY <1>1, <1>2, <1>3, <1>4, <1>5, <1>6, <2>1, <3>1, KeptTogether
  <2>3. CASE /\ PendedReads # <<>> /\ irpRoutine[Head(PendedReads)]
             /\ curIrp' = [curIrp EXCEPT ![t] = Head(PendedReads)]
             /\ PendedReads' = Tail(PendedReads)
             /\ label = "cprComplete"
    <3>1. PICK i \in 1 .. Len(PendedReads) : i = 1 /\ Head(PendedReads) = PendedReads[i]
      BY <2>3, EmptySeq, LenProperties, HeadTailProperties DEF TypeOK, ContextTypeOK
    <3>2. /\ irpRoutine[PendedReads[i]] /\ curIrp' = [curIrp EXCEPT ![t] = PendedReads[i]]
          /\ label \in CarryLabels
      BY <1>3, <2>3, <3>1
    <3>3. ReadsKept
      BY <1>1, <1>2, <1>4, <2>1, <2>3, <3>1, <3>2, TakenReadKept
    <3>4. QED BY <1>1, <1>2, <1>3, <1>4, <1>5, <1>6, <2>1, <3>3, KeptTogether
  <2>4. pc'[t] = label
    BY <1>1, <1>2, MoveOfHolder
  <2>5. QED
    BY <1>1, <1>7, <2>2, <2>3, <2>4
    DEF CancelPendingFirst, CancelPendingAgain, CancelPendingTurn, Goto, TypeOK, LabelsOK
<1>8. CASE CancelPendingDeref(t)
  <2>1. /\ RefCount' = RefCount - 1 /\ Goto(t, "cprRelock") /\ Carries(t)
        /\ curIrp' = [curIrp EXCEPT ![t] = None] /\ UNCHANGED PendedReads
    BY <1>5, <1>8 DEF CancelPendingDeref, DerefOpen, readVars
  <2>2. "cprRelock" \in TempLabels /\ "cprRelock" \notin CarryLabels \cup {"done"}
    BY TempLabelsAre DEF CarryLabels
  <2>3. QED BY <1>1, <1>4, <1>5, <1>6, <2>1, <2>2, DropRead
<1>9. QED BY <1>7, <1>8

\* ndisprotFlushReceiveQueue: its turns, and its release of the packet.
LEMMA FlushRefs ==
    ASSUME TypeOK, PacketInv, RefInv, NEW t \in {"cleanup", "pnp"}, FlushTurn(t) \/ FlushDeref(t)
    PROVE  RefInv'
<1>1. t \in Agents /\ RefCount \in Int /\ HoldInv /\ RefCountIsExact
  BY DEF Agents, TypeOK, ContextTypeOK, RefInv
<1>2. PICK label \in {"flFree", "flDerefTemp", "flLock"} : Goto(t, label)
  BY DEF FlushTurn, FlushDeref
<1>3. /\ label \in TempLabels /\ label # "done" /\ label \notin CarryLabels \cup ArrivalLabels
      /\ label \in PacketRefLabels <=> label = "flFree"
  BY TempLabelsAre DEF CarryLabels, PacketRefLabels, ArrivalLabels
<1>4. /\ pc[t] \in {"flLock", "flDeref"} /\ ~Carries(t) /\ pc[t] \in TempLabels
      /\ HoldsPacketRef(t) <=> pc[t] = "flDeref"
      /\ UNCHANGED <<fileState, PendedReads, curIrp, cancelPc, irpStatus, pktState>>
      /\ FileHeld' <=> FileHeld
  BY TempLabelsAre DEF FlushTurn, FlushDeref, Carries, CarryLabels, HoldsPacketRef, FileHeld,
     bindVars, readVars, irpVars, pktVars
<1>5. ReadsKept
  BY <1>1, <1>2, <1>3, <1>4, MoveKeepsReads
<1>6. CASE FlushTurn(t)
  <2>1. RefCount' = RefCount /\ ~HoldsPacketRef(t) /\ pc[t] # "rcvLock"
    BY <1>4, <1>6 DEF FlushTurn, refVars
  <2>2. PacketsKept
    <3>1. CASE /\ RecvPktQueue # <<>> /\ Goto(t, "flFree")
               /\ curPkt' = [curPkt EXCEPT ![t] = Head(RecvPktQueue)]
               /\ RecvPktQueue' = Tail(RecvPktQueue)
      <4>1. "flFree" \in PacketRefLabels
        BY DEF PacketRefLabels
      <4>2. QED BY <1>1, <1>4, <2>1, <3>1, <4>1, TakenPacketKept
    <3>2. CASE Goto(t, "flDerefTemp") /\ UNCHANGED <<RecvPktQueue, curPkt>>
      <4>1. "flDerefTemp" \notin PacketRefLabels \cup ArrivalLabels
        BY DEF PacketRefLabels, ArrivalLabels
      <4>2. QED BY <1>1, <1>4, <2>1, <3>2, <4>1, MoveKeepsPackets
    <3>3. QED BY <1>6, <3>1, <3>2 DEF FlushTurn, recvVars
  <2>3. QED BY <1>1, <1>2, <1>3, <1>4, <1>5, <2>1, <2>2, KeptTogether
<1>7. CASE FlushDeref(t)
  <2>1. /\ RefCount' = RefCount - 1 /\ Goto(t, "flLock") /\ HoldsPacketRef(t)
        /\ UNCHANGED RecvPktQueue /\ \A u \in Agents : u # t => curPkt'[u] = curPkt[u]
    BY <1>4, <1>7 DEF FlushDeref, DerefOpen, recvVars, TypeOK, ThreadTypeOK
  <2>2. "flLock" \in TempLabels /\ "flLock" \notin PacketRefLabels \cup ArrivalLabels
    BY TempLabelsAre DEF PacketRefLabels, ArrivalLabels
  <2>3. QED BY <1>1, <1>4, <1>5, <2>1, <2>2, DropPacket
<1>8. QED BY <1>6, <1>7

\* The file's reference, and the binding's.
LEMMA LastRefs ==
    ASSUME TypeOK, GoneInv, RefInv, Close \/ ShutdownReturn
    PROVE  RefInv'
<1>1. RefCount \in Int /\ HoldInv /\ RefCountIsExact /\ RefCount' = RefCount - 1
  BY DEF TypeOK, ContextTypeOK, RefInv, Close, ShutdownReturn, DerefOpen
<1>2. PICK t \in {"cleanup", "pnp"} :
        /\ Goto(t, "done") /\ pc[t] \in {"closing", "bindDeref"}
        /\ t = "cleanup" => Close
        /\ t = "pnp" => ShutdownReturn
  BY DEF Close, ShutdownReturn
<1>3. t \in Agents /\ t \notin Packets
  BY AgentsAssumption DEF Agents
<1>4. UNCHANGED <<PendedReads, RecvPktQueue, curIrp, curPkt, cancelPc, irpStatus, pktState>>
  BY DEF Close, ShutdownReturn, readVars, recvVars, irpVars, pktVars, curVars
<1>5. /\ ~Carries(t) /\ ~HoldsPacketRef(t) /\ pc[t] \notin TempLabels
      /\ "done" \notin CarryLabels \cup PacketRefLabels \cup ArrivalLabels \cup TempLabels
  BY <1>2, TempLabelsAre DEF Carries, HoldsPacketRef, CarryLabels, PacketRefLabels, ArrivalLabels
<1>6. ReadsKept
  BY <1>1, <1>2, <1>3, <1>4, <1>5, MoveKeepsReads
<1>7. PacketsKept
  BY <1>1, <1>2, <1>3, <1>4, <1>5, MoveKeepsPackets
<1>8. \A u \in Agents : InRoutine(u)' <=> InRoutine(u)
  BY <1>2, <1>3, <1>5, MoveOfHolder DEF InRoutine
<1>9. RefCountIsExact'
  <2>1. CASE t = "cleanup"
    <3> DEFINE x == <<"open", "file">>
    <3>1. FileHeld /\ ~FileHeld'
      BY <1>2, <2>1 DEF Close, GoneInv, FileGone, FileHeld
    <3>2. BindingHeld' <=> BindingHeld
      BY <1>2, <1>3, <2>1, MoveOfHolder
    <3>3. SameBut(x)
      BY <1>6, <1>7, <1>8, <3>2 DEF SameBut, ReadsKept, PacketsKept
    <3>4. IsHolder(x) /\ ~IsHolder(x)'
      BY <3>1, KindsOfHolder, KindsOfHolderNext
    <3> HIDE DEF x
    <3>5. QED BY <1>1, <3>3, <3>4, OneHolder
  <2>2. CASE t = "pnp"
    <3> DEFINE x == <<"binding", "pnp">>
    <3>1. BindingHeld /\ ~BindingHeld'
      BY <1>2, <1>3, <2>2, MoveOfHolder DEF BindingHeld
    <3>2. FileHeld' <=> FileHeld
      BY <1>2, <2>2 DEF ShutdownReturn, FileHeld, bindVars
    <3>3. SameBut(x)
      BY <1>6, <1>7, <1>8, <3>2 DEF SameBut, ReadsKept, PacketsKept
    <3>4. IsHolder(x) /\ ~IsHolder(x)'
      BY <3>1, KindsOfHolder, KindsOfHolderNext
    <3> HIDE DEF x
    <3>5. QED BY <1>1, <3>3, <3>4, OneHolder
  <2>3. QED BY <2>1, <2>2
<1>10. QED BY <1>6, <1>7, <1>9 DEF RefInv, HoldInv, ReadsKept, PacketsKept

\* Every step keeps the count.
LEMMA RefStep ==
    TypeOK /\ ReadInv /\ PacketInv /\ GoneInv /\ RefInv /\ [Next]_vars => RefInv'
<1> SUFFICES ASSUME TypeOK, ReadInv, PacketInv, GoneInv, RefInv, [Next]_vars PROVE RefInv'
  OBVIOUS
<1>1. CASE UNCHANGED vars
  BY <1>1
  DEF vars, bindVars, readVars, recvVars, refVars, irpVars, pktVars, curVars, RefInv, HoldInv,
      CarriedReads, UnlinkedReads, CarriedPackets, Carries, HoldsPacketRef, Arriving,
      RefCountIsExact, Holders
<1>2. CASE Environment
  BY <1>2, PlainRead, CancelRef, PlainReceive, PlainTeardown DEF Environment
<1>3. ASSUME NEW t \in Reads \cup Packets, ServiceReads(t) PROVE RefInv'
  BY <1>3, PlainServiceReads, ServiceRefs DEF ServiceReads
<1>4. ASSUME NEW r \in Reads, ReadThread(r) \/ CancelRead(r) PROVE RefInv'
  BY <1>3, <1>4, PendReadRef, PlainRead, CancelRef DEF ReadThread
<1>5. ASSUME NEW p \in Packets, PacketThread(p) PROVE RefInv'
  BY <1>3, <1>5, PlainReceive, ReferPacket, QueueRefs DEF PacketThread, Receive
<1>6. ASSUME NEW t \in {"cleanup", "pnp"}, CancelPendingReads(t) \/ FlushReceiveQueue(t)
      PROVE  RefInv'
  BY <1>6, PlainDrains, CancelPendingRefs, FlushRefs DEF CancelPendingReads, FlushReceiveQueue
<1>7. CASE CleanupThread \/ PnPThread
  BY <1>6, <1>7, PlainTeardown, LastRefs DEF CleanupThread, PnPThread, ShutdownBinding
<1>8. QED BY <1>1, <1>2, <1>4, <1>5, <1>7 DEF Next

\* It holds of an open context with a binding and a file: two references.
LEMMA RefInit == Init => GoneInv /\ RefInv
<1> SUFFICES ASSUME Init PROVE GoneInv /\ RefInv
  OBVIOUS
<1>1. /\ \A t \in Agents : pc[t] = "idle" /\ curIrp[t] = None
      /\ {"cleanup", "pnp"} \cup Packets \subseteq Agents
      /\ \A r \in Reads : cancelPc[r] = "idle" /\ irpStatus[r] = "unsent"
      /\ fileState = "open" /\ BindingHandle /\ RefCount = 2
  BY DEF Init, Agents
<1>2. \A x : ~Contains(PendedReads, x) /\ ~Contains(RecvPktQueue, x)
  BY EmptySeq DEF Init, Contains
<1>3. \A t \in Agents : ~Carries(t) /\ ~HoldsPacketRef(t) /\ ~InRoutine(t)
  BY <1>1, TempLabelsAre DEF Carries, CarryLabels, HoldsPacketRef, InRoutine
<1>4. GoneInv
  BY <1>1 DEF GoneInv, FileGone, BindingGone, AfterClose
<1>5. HoldInv
  BY <1>1, <1>3 DEF HoldInv, CarriedReads, UnlinkedReads, CarriedPackets
<1>6. RefCountIsExact
  <2>1. \A r \in Reads : ~HeldRead(r)
    BY <1>1, <1>2, AgentsAssumption DEF HeldRead
  <2>2. \A p \in Packets : ~HeldPacket(p)
    BY <1>1, <1>2, <1>3 DEF HeldPacket
  <2>3. \A o : o \in Holders <=> o = <<"open", "file">> \/ o = <<"binding", "pnp">>
    BY <1>1, <1>3, <2>1, <2>2, HoldersAre
    DEF HoldersListed, IsHolder, FileHeld, BindingHeld
  <2> DEFINE file == <<"open", "file">>
             pnp == <<"binding", "pnp">>
  <2>4. Holders = {file} \cup {pnp} /\ pnp \notin {file}
    BY <2>3
  <2> HIDE DEF file, pnp
  <2>5. IsFiniteSet({file}) /\ Cardinality({file}) = 1
    BY FS_Singleton
  <2>6. Cardinality(Holders) = 2
    BY <2>4, <2>5, FS_AddElement
  <2>7. QED BY <1>1, <2>6 DEF RefCountIsExact
<1>7. QED BY <1>4, <1>5, <1>6 DEF RefInv

\* The three invariants that the counts rest on, and the count of references.
LEMMA RefInvHolds == Spec => [](PacketInv /\ GoneInv /\ RefInv)
<1>1. TypeOK /\ ReadInv /\ PacketInv /\ [Next]_vars => PacketInv'
  BY PacketInvStep DEF ReadInv
<1>2. TypeOK /\ ReadInv /\ PacketInv /\ GoneInv /\ [Next]_vars => GoneInv'
  BY GoneStep
<1>3. TypeOK /\ ReadInv /\ PacketInv /\ GoneInv /\ RefInv /\ [Next]_vars => RefInv'
  BY RefStep
<1>4. Init => PacketInv /\ GoneInv /\ RefInv
  BY PacketInvInit, RefInit
<1>5. QED BY <1>1, <1>2, <1>3, <1>4, ReadInvHolds, TypeCorrect, PTL DEF Spec

\* For any number of reads and packets, and wherever their threads are,
\* RefCount is the number of reasons to keep the context, and PendedReadCount,
\* which Unbind polls, the number of reads not yet finished with.
THEOREM CountsCorrect == Spec => []CountsAreExact
<1>1. RefInv /\ PendedReadCountIsExact => CountsAreExact
  BY DEF RefInv, CountsAreExact
<1>2. QED BY <1>1, RefInvHolds, CountHolds, PTL

-----------------------------------------------------------------------------
(* The memory.  At a count of zero nobody is left who could touch the          *)
(* context, and nobody can come in: the file is closed, the adapter too.       *)

NobodyInside ==
    /\ ~BindingHandle /\ fileState = "closed"
    /\ \A t \in Agents : pc[t] \in {"idle", "done"}
    /\ \A r \in Reads : cancelPc[r] \in {"idle", "done"}

\* The last reference goes only when that is so.
LEMMA NobodyAtZero ==
    ASSUME DispatchPinsFile, TypeOK, ReadInv, GoneInv, RefInv, RefCount = 0
    PROVE  NobodyInside /\ pc["pnp"] = "done" /\ pc["cleanup"] = "done"
<1>1. Holders = {}
  BY HoldersAreFinite, FS_EmptySet DEF RefInv, RefCountIsExact
<1>2. /\ ~FileHeld /\ ~BindingHeld
      /\ \A r \in Reads : ~HeldRead(r)
  BY <1>1, HoldersAre, KindsOfHolder DEF HoldersListed
<1>3. fileState = "closed" /\ pc["pnp"] = "done" /\ pc["cleanup"] = "done"
  BY <1>2 DEF FileHeld, BindingHeld, GoneInv, FileGone
<1>4. ~BindingHandle /\ \A p \in Packets : pc[p] \in {"idle", "done"}
  BY <1>3 DEF GoneInv, BindingGone, AfterClose
<1>5. \A r \in Reads : pc[r] \in {"idle", "done"}
  BY <1>3 DEF GoneInv, FileGone
<1>6. \A r \in Reads : cancelPc[r] \in {"idle", "done"}
  BY <1>2 DEF HeldRead, ReadInv, QueuedReads, TypeOK, ThreadTypeOK
<1>7. QED BY <1>3, <1>4, <1>5, <1>6 DEF NobodyInside, Agents

\* And then no step refers to the context.
LEMMA NobodyRefers ==
    ASSUME TypeOK, ReadInv, PacketInv, NobodyInside, pc["pnp"] = "done", pc["cleanup"] = "done",
           [Next]_vars
    PROVE  UNCHANGED refVars
<1>1. /\ \A t \in Reads \cup Packets : t \in Agents
  BY DEF Agents
<1> USE DEF NobodyInside
<1>2. CASE UNCHANGED vars
  BY <1>2 DEF vars
<1>3. CASE Environment
  BY <1>3 DEF Environment, SubmitRead, CancelIrp, IndicateMiniportPacket, IndicateCopy, Cleanup,
     PowerDown, PowerUp, Unbind
<1>4. ASSUME NEW t \in Reads \cup Packets, ServiceReads(t) PROVE FALSE
  BY <1>1, <1>4 DEF ServiceReads, ServiceRef, ServiceFirst, ServiceDerefPacket, ServiceComplete,
     ServiceFree, ServiceDerefRead, ServiceAgain, ServiceReturn
<1>5. ASSUME NEW r \in Reads, ReadThread(r) \/ CancelRead(r) PROVE FALSE
  BY <1>1, <1>4, <1>5 DEF ReadThread, PendRead, FailRead, CancelRead, CancelReadUnlink,
     CancelReadComplete, CancelReadDeref
<1>6. ASSUME NEW p \in Packets, PacketThread(p) PROVE FALSE
  BY <1>1, <1>4, <1>6 DEF PacketThread, Receive, TransferDataComplete, QueueReceivePacketRef,
     QueueReceivePacket, RefuseReceivePacket, DiscardFree, DiscardDeref
<1>7. ASSUME NEW t \in {"cleanup", "pnp"}, CancelPendingReads(t) \/ FlushReceiveQueue(t)
      PROVE  FALSE
  <2>1. pc[t] = "done"
    OBVIOUS
  <2>2. QED
    BY <1>7, <2>1 DEF CancelPendingReads, CancelPendingRef, CancelPendingFirst,
       CancelPendingComplete, CancelPendingDeref, CancelPendingAgain, CancelPendingReturn,
       FlushReceiveQueue, FlushRef, FlushTurn, FlushFree, FlushDeref, FlushReturn
<1>8. CASE CleanupThread \/ PnPThread
  BY <1>7, <1>8 DEF CleanupThread, Close, PnPThread, ShutdownBinding, WaitForPendingReads,
     CloseAdapter, SetBindIdle, FreeBindResources, ShutdownReturn
<1>9. QED BY <1>2, <1>3, <1>5, <1>6, <1>8 DEF Next

FreedAtZero == freed => RefCount = 0

\* Nothing but ndisprotDerefOpen frees it.
LEMMA DerefsFree == [Next]_vars => UNCHANGED freed \/ DerefOpen
<1> SUFFICES ASSUME [Next]_vars PROVE UNCHANGED freed \/ DerefOpen
  OBVIOUS
<1> USE DEF refVars
<1>1. CASE UNCHANGED vars
  BY <1>1 DEF vars
<1>2. CASE Environment
  BY <1>2 DEF Environment, SubmitRead, CancelIrp, IndicateMiniportPacket, IndicateCopy, Cleanup,
     PowerDown, PowerUp, Unbind
<1>3. ASSUME NEW t, ServiceReads(t) PROVE UNCHANGED freed \/ DerefOpen
  BY <1>3 DEF ServiceReads, ServiceRef, RefOpen, ServiceFirst, ServiceDerefPacket,
     ServiceComplete, ServiceFree, ServiceDerefRead, ServiceAgain, ServiceReturn
<1>4. ASSUME NEW r, ReadThread(r) \/ CancelRead(r) PROVE UNCHANGED freed \/ DerefOpen
  BY <1>3, <1>4 DEF ReadThread, PendRead, RefOpen, FailRead, CancelRead, CancelReadUnlink,
     CancelReadComplete, CancelReadDeref
<1>5. ASSUME NEW p, PacketThread(p) PROVE UNCHANGED freed \/ DerefOpen
  BY <1>3, <1>5 DEF PacketThread, Receive, TransferDataComplete, QueueReceivePacketRef, RefOpen,
     QueueReceivePacket, RefuseReceivePacket, DiscardFree, DiscardDeref
<1>6. ASSUME NEW t, CancelPendingReads(t) \/ FlushReceiveQueue(t)
      PROVE  UNCHANGED freed \/ DerefOpen
  BY <1>6 DEF CancelPendingReads, CancelPendingRef, RefOpen, CancelPendingFirst,
     CancelPendingComplete, CancelPendingDeref, CancelPendingAgain, CancelPendingReturn,
     FlushReceiveQueue, FlushRef, FlushTurn, FlushFree, FlushDeref, FlushReturn
<1>7. CASE CleanupThread \/ PnPThread
  BY <1>6, <1>7 DEF CleanupThread, Close, PnPThread, ShutdownBinding, WaitForPendingReads,
     CloseAdapter, SetBindIdle, FreeBindResources, ShutdownReturn
<1>8. QED BY <1>1, <1>2, <1>4, <1>5, <1>7 DEF Next

\* If the I/O manager holds IRP_MJ_CLOSE back until the dispatch routines have
\* returned, ndisprotDerefOpen frees the context when, and only when, no
\* routine on any thread is inside the driver with it, and none comes in later.
THEOREM FreedIsUnused ==
    ASSUME DispatchPinsFile
    PROVE  Spec => []NoUseAfterFree
<1>1. TypeOK /\ ReadInv /\ PacketInv /\ GoneInv /\ RefInv /\ FreedAtZero /\ [Next]_vars
        => FreedAtZero'
  <2> SUFFICES ASSUME TypeOK, ReadInv, PacketInv, GoneInv, RefInv, FreedAtZero, [Next]_vars
               PROVE  FreedAtZero'
    OBVIOUS
  <2>1. CASE freed
    <3>1. UNCHANGED refVars
      BY <2>1, NobodyAtZero, NobodyRefers DEF FreedAtZero
    <3>2. QED BY <2>1, <3>1 DEF refVars, FreedAtZero
  <2>2. CASE ~freed
    <3>1. UNCHANGED freed \/ DerefOpen
      BY DerefsFree
    <3>2. freed' => RefCount' = RefCount - 1 /\ RefCount = 1
      BY <2>2, <3>1, Zenon DEF DerefOpen
    <3>3. QED BY <3>2 DEF FreedAtZero
  <2>3. QED BY <2>1, <2>2
<1>2. Init => FreedAtZero
  BY DEF Init, FreedAtZero
<1>3. TypeOK /\ ReadInv /\ GoneInv /\ RefInv /\ FreedAtZero => NoUseAfterFree
  BY NobodyAtZero DEF FreedAtZero, NoUseAfterFree, NobodyInside
<1>4. QED BY <1>1, <1>2, <1>3, RefInvHolds, ReadInvHolds, TypeCorrect, PTL DEF Spec

-----------------------------------------------------------------------------
(* No lost wakeup.  Whoever makes a match possible is on the way through the   *)
(* service routine, and leaves it when there is none in the same critical      *)
(* section in which it found so.                                               *)

WorkLabels == (ServiceLabels \ {"svcDerefTemp"}) \cup {"rcvDiscard", "rcvDiscardDeref"}

Takable == \E r \in Reads : Contains(PendedReads, r) /\ irpRoutine[r]
Matchable == RecvPktQueue # <<>> /\ Takable
WorkDone == Matchable => \E t \in Agents : pc[t] \in WorkLabels

\* The property, by reads instead of places on the queue.
LEMMA StrandedIs == TypeOK => (NoStrandedWork <=> WorkDone)
<1> SUFFICES ASSUME TypeOK PROVE NoStrandedWork <=> WorkDone
  OBVIOUS
<1>1. (\E i \in 1 .. Len(PendedReads) : irpRoutine[PendedReads[i]]) <=> Takable
  BY ElementOfSeq DEF Takable, Contains, TypeOK, ContextTypeOK
<1>2. QED BY <1>1 DEF NoStrandedWork, WorkDone, Matchable, WorkLabels

\* A thread that moves is at work, or was not, or has found nothing to do.
LEMMA WorkGoto ==
    ASSUME TypeOK, WorkDone, NEW t \in Agents, NEW label, Goto(t, label),
           \/ label \in WorkLabels
           \/ pc[t] \notin WorkLabels /\ (Matchable' => Matchable)
           \/ ~Matchable'
    PROVE  WorkDone'
<1>1. \A u \in Agents : pc'[u] = IF u = t THEN label ELSE pc[u]
  BY MoveOfHolder
<1>2. QED BY <1>1 DEF WorkDone

\* Reads leave the queue, or lose their cancel routine, and packets leave.
LEMMA FewerMatches ==
    ASSUME RecvPktQueue' # <<>> => RecvPktQueue # <<>>,
           \A r \in Reads : Contains(PendedReads', r) /\ irpRoutine'[r]
                                => Contains(PendedReads, r) /\ irpRoutine[r]
    PROVE  Matchable' => Matchable
BY DEF Matchable, Takable

\* Those that leave it at one place of the queue.
LEMMA FewerReads ==
    ASSUME TypeOK, ReadInv, NEW i \in 1 .. Len(PendedReads),
           \/ PendedReads' = RemoveAt(PendedReads, i)
           \/ i = 1 /\ PendedReads' = Tail(PendedReads)
    PROVE  \A r \in Reads : Contains(PendedReads', r) => Contains(PendedReads, r)
<1>1. /\ PendedReads \in Seq(Reads)
      /\ \A j, k \in 1 .. Len(PendedReads) : PendedReads[j] = PendedReads[k] => j = k
  BY DEF TypeOK, ContextTypeOK, ReadInv, NoReadTwice
<1>2. QED BY <1>1, RemoveOne

\* The service routine leaves only when no match is possible.
LEMMA ServiceWork ==
    ASSUME TypeOK, WorkDone, NEW t \in Reads \cup Packets, ServiceReads(t)
    PROVE  WorkDone'
<1>1. t \in Agents
  BY DEF Agents
<1>2. WorkLabels = {"svcRef", "svcLock", "svcDerefPkt", "svcComplete", "svcFree", "svcDerefRead",
                    "svcRelock", "rcvDiscard", "rcvDiscardDeref"}
  BY DEF WorkLabels, ServiceLabels
<1>3. CASE ServiceRef(t) \/ ServiceDerefPacket(t) \/ ServiceComplete(t) \/ ServiceFree(t)
           \/ ServiceDerefRead(t)
  <2>1. PICK label \in WorkLabels : Goto(t, label)
    BY <1>2, <1>3 DEF ServiceRef, ServiceDerefPacket, ServiceComplete, ServiceFree,
       ServiceDerefRead
  <2>2. QED BY <1>1, <2>1, WorkGoto
<1>4. CASE ServiceReturn(t)
  <2>1. Goto(t, "done") /\ pc[t] \notin WorkLabels
    BY <1>2, <1>4 DEF ServiceReturn
  <2>2. UNCHANGED <<PendedReads, RecvPktQueue, irpRoutine>>
    BY <1>4 DEF ServiceReturn, readVars, recvVars, irpVars
  <2>3. QED BY <1>1, <2>1, <2>2, WorkGoto, FewerMatches
<1>5. CASE ServiceFirst(t) \/ ServiceAgain(t)
  <2>1. ServiceTurn(t)
    BY <1>5 DEF ServiceFirst, ServiceAgain
  <2>2. CASE Goto(t, "svcDerefPkt")
    BY <1>1, <1>2, <2>2, WorkGoto
  <2>3. CASE /\ Goto(t, "svcDerefTemp") /\ UNCHANGED <<PendedReads, RecvPktQueue, irpRoutine>>
             /\ \/ RecvPktQueue = <<>>
                \/ \A i \in 1 .. Len(PendedReads) : ~irpRoutine[PendedReads[i]]
    <3>1. ~Matchable'
      BY <2>3 DEF Matchable, Takable, Contains
    <3>2. QED BY <1>1, <2>3, <3>1, WorkGoto
  <2>4. QED BY <2>1, <2>2, <2>3 DEF ServiceTurn, recvVars
<1>6. QED BY <1>3, <1>4, <1>5 DEF ServiceReads

\* Reads and packets that arrive bring a thread that goes to the routine.
LEMMA ArrivalWork ==
    ASSUME TypeOK, ReadInv, PacketInv, WorkDone, NEW t \in Reads \cup Packets,
           \/ t \in Reads /\ (SubmitRead(t) \/ PendRead(t) \/ FailRead(t))
           \/ t \in Packets /\ (Receive(t) \/ IndicateMiniportPacket(t) \/ IndicateCopy(t))
    PROVE  WorkDone'
<1>1. t \in Agents
  BY DEF Agents
<1>2. WorkLabels = {"svcRef", "svcLock", "svcDerefPkt", "svcComplete", "svcFree", "svcDerefRead",
                    "svcRelock", "rcvDiscard", "rcvDiscardDeref"}
  BY DEF WorkLabels, ServiceLabels
<1>3. CASE t \in Reads /\ PendRead(t)
  <2>1. Goto(t, "svcRef")
    BY <1>3 DEF PendRead
  <2>2. QED BY <1>1, <1>2, <2>1, WorkGoto
<1>4. CASE t \in Packets /\ QueueReceivePacket(t)
  <2>1. Goto(t, "rcvDiscard") \/ Goto(t, "svcRef")
    BY <1>4 DEF QueueReceivePacket
  <2>2. QED BY <1>1, <1>2, <2>1, WorkGoto
<1>5. CASE t \in Packets /\ (DiscardFree(t) \/ DiscardDeref(t))
  <2>1. PICK label : /\ Goto(t, label)
                     /\ label \in WorkLabels \/ pc[t] \notin WorkLabels
    BY <1>2, <1>5 DEF DiscardFree, DiscardDeref
  <2>2. UNCHANGED <<PendedReads, RecvPktQueue, irpRoutine>>
    BY <1>5 DEF DiscardFree, DiscardDeref, readVars, recvVars, irpVars
  <2>3. QED BY <1>1, <2>1, <2>2, WorkGoto, FewerMatches
<1>6. CASE \/ t \in Reads /\ (SubmitRead(t) \/ FailRead(t))
           \/ t \in Packets /\ (TransferDataComplete(t) \/ QueueReceivePacketRef(t)
                                \/ RefuseReceivePacket(t) \/ IndicateMiniportPacket(t)
                                \/ IndicateCopy(t))
  <2>1. \E label : Goto(t, label)
    BY <1>6 DEF SubmitRead, FailRead, TransferDataComplete, QueueReceivePacketRef,
       RefuseReceivePacket, IndicateMiniportPacket, IndicateCopy
  <2>2. UNCHANGED <<PendedReads, RecvPktQueue, irpRoutine>>
    BY <1>6 DEF SubmitRead, FailRead, TransferDataComplete, QueueReceivePacketRef,
       RefuseReceivePacket, IndicateMiniportPacket, IndicateCopy, readVars, recvVars, irpVars
  <2>3. pc[t] \notin WorkLabels
    BY <1>2, <1>6 DEF SubmitRead, FailRead, TransferDataComplete, QueueReceivePacketRef,
       RefuseReceivePacket, IndicateMiniportPacket, IndicateCopy, ReadInv, NewReads, NewPackets
  <2>4. QED BY <1>1, <2>1, <2>2, <2>3, WorkGoto, FewerMatches
<1>7. QED BY <1>3, <1>4, <1>5, <1>6 DEF Receive

\* Cancellation takes reads away.
LEMMA CancelWork ==
    ASSUME TypeOK, ReadInv, WorkDone, NEW r \in Reads, CancelIrp(r) \/ CancelRead(r)
    PROVE  WorkDone'
<1>1. UNCHANGED <<pc, RecvPktQueue>>
  BY DEF CancelIrp, CancelRead, CancelReadUnlink, CancelReadComplete, CancelReadDeref, recvVars
<1>2. \A q \in Reads : irpRoutine'[q] => irpRoutine[q]
  BY DEF CancelIrp, CancelRead, CancelReadUnlink, CancelReadComplete, CancelReadDeref, irpVars,
     TypeOK, DataTypeOK
<1>3. \A q \in Reads : Contains(PendedReads', q) => Contains(PendedReads, q)
  BY FewerReads DEF CancelIrp, CancelRead, CancelReadUnlink, CancelReadComplete,
     CancelReadDeref, readVars
<1>4. Matchable' => Matchable
  BY <1>1, <1>2, <1>3, FewerMatches
<1>5. QED BY <1>1, <1>4 DEF WorkDone

\* So do the drains; and Close, power events and the shutdown leave them.
LEMMA DrainWork ==
    ASSUME TypeOK, ReadInv, WorkDone,
           \/ CleanupThread \/ PnPThread \/ Cleanup \/ PowerDown \/ PowerUp \/ Unbind
    PROVE  WorkDone'
<1> USE DEF readVars, recvVars, irpVars
<1>1. \A t \in {"cleanup", "pnp"} : t \in Agents /\ pc[t] \notin WorkLabels
  BY AgentsAssumption DEF TypeOK, LabelsOK, Labels, Agents, WorkLabels, ServiceLabels,
     CancelPendingLabels, FlushLabels
<1>2. ASSUME NEW t \in {"cleanup", "pnp"}, CancelPendingTurn(t)
      PROVE  /\ \A q \in Reads : Contains(PendedReads', q) => Contains(PendedReads, q)
             /\ \A q \in Reads : irpRoutine'[q] => irpRoutine[q]
  <2>1. CASE UNCHANGED <<PendedReads, irpRoutine>>
    BY <2>1
  <2>2. CASE /\ PendedReads # <<>> /\ PendedReads' = Tail(PendedReads)
             /\ irpRoutine' = [irpRoutine EXCEPT ![Head(PendedReads)] = FALSE]
    <3>1. PICK i \in 1 .. Len(PendedReads) : i = 1
      BY <2>2, EmptySeq, LenProperties DEF TypeOK, ContextTypeOK
    <3>2. QED BY <2>2, <3>1, FewerReads DEF TypeOK, DataTypeOK
  <2>3. QED BY <1>2, <2>1, <2>2 DEF CancelPendingTurn
<1>3. ASSUME NEW t \in {"cleanup", "pnp"}, CancelPendingReads(t) \/ FlushReceiveQueue(t)
      PROVE  WorkDone'
  <2>1. \E label : Goto(t, label)
    BY <1>3 DEF CancelPendingReads, CancelPendingRef, CancelPendingFirst, CancelPendingTurn,
       CancelPendingComplete, CancelPendingDeref, CancelPendingAgain, CancelPendingReturn,
       FlushReceiveQueue, FlushRef, FlushTurn, FlushFree, FlushDeref, FlushReturn
  <2>2. RecvPktQueue' # <<>> => RecvPktQueue # <<>>
    BY <1>3 DEF CancelPendingReads, CancelPendingRef, CancelPendingFirst,
       CancelPendingComplete, CancelPendingDeref, CancelPendingAgain, CancelPendingReturn,
       FlushReceiveQueue, FlushRef, FlushTurn, FlushFree, FlushDeref, FlushReturn
  <2>3. CASE UNCHANGED <<PendedReads, irpRoutine>> \/ CancelPendingTurn(t)
    BY <1>1, <1>2, <2>1, <2>2, <2>3, WorkGoto, FewerMatches
  <2>4. QED
    BY <1>3, <2>3 DEF CancelPendingReads, CancelPendingRef, CancelPendingFirst,
       CancelPendingComplete, CancelPendingDeref, CancelPendingAgain, CancelPendingReturn,
       FlushReceiveQueue, FlushRef, FlushTurn, FlushFree, FlushDeref, FlushReturn
<1>4. CASE Cleanup \/ Close \/ PowerDown \/ PowerUp \/ Unbind \/ ShutdownBinding
  <2>1. UNCHANGED pc \/ \E t \in {"cleanup", "pnp"} : \E label : Goto(t, label)
    BY <1>4 DEF Cleanup, Close, PowerDown, PowerUp, Unbind, ShutdownBinding,
       WaitForPendingReads, CloseAdapter, SetBindIdle, FreeBindResources, ShutdownReturn
  <2>2. UNCHANGED <<PendedReads, RecvPktQueue, irpRoutine>>
    BY <1>4 DEF Cleanup, Close, PowerDown, PowerUp, Unbind, ShutdownBinding,
       WaitForPendingReads, CloseAdapter, SetBindIdle, FreeBindResources, ShutdownReturn
  <2>3. Matchable' => Matchable
    BY <2>2, FewerMatches
  <2>4. QED BY <1>1, <2>1, <2>3, WorkGoto DEF WorkDone
<1>5. QED BY <1>3, <1>4 DEF CleanupThread, PnPThread

\* For any number of reads and packets no wakeup is lost: a packet is on the
\* queue beside a read that could take it only while some thread is on its way
\* through ndisprotServiceReads.
THEOREM NothingStranded == Spec => []NoStrandedWork
<1>1. Init => WorkDone
  BY DEF Init, WorkDone, Matchable
<1>2. ASSUME TypeOK, ReadInv, PacketInv, WorkDone, [Next]_vars PROVE WorkDone'
  <2>1. CASE UNCHANGED vars
    BY <1>2, <2>1 DEF vars, readVars, recvVars, irpVars, WorkDone, Matchable, Takable
  <2>2. CASE Environment
    BY <1>2, <2>2, ArrivalWork, CancelWork, DrainWork DEF Environment
  <2>3. ASSUME NEW r \in Reads, ReadThread(r) \/ CancelRead(r) PROVE WorkDone'
    BY <1>2, <2>3, ServiceWork, ArrivalWork, CancelWork DEF ReadThread
  <2>4. ASSUME NEW p \in Packets, PacketThread(p) PROVE WorkDone'
    BY <1>2, <2>4, ServiceWork, ArrivalWork DEF PacketThread
  <2>5. CASE CleanupThread \/ PnPThread
    BY <1>2, <2>5, DrainWork
  <2>6. QED BY <1>2, <2>1, <2>2, <2>3, <2>4, <2>5 DEF Next
<1>3. TypeOK /\ WorkDone => NoStrandedWork
  BY StrandedIs
<1>4. QED BY <1>1, <1>2, <1>3, RefInvHolds, ReadInvHolds, TypeCorrect, PTL DEF Spec

-----------------------------------------------------------------------------
(* What a reader of one open is promised (PacketDelivery): every step of the   *)
(* driver is a step of the bounded first-in first-out buffer, or changes       *)
(* nothing that the buffer shows.                                              *)

(* The order of the reads that wait.                                        *)

\* q stands before r on a queue.
Before(s, q, r) ==
    \E j \in 1 .. Len(s) : \E i \in 1 .. (j - 1) : s[i] = q /\ s[j] = r

Waits(r) == irpRoutine[r] /\ Contains(PendedReads, r)

\* An element that joins at the end stands behind all others.
LEMMA BeforeAppend ==
    ASSUME NEW S, NEW s \in Seq(S), NEW e \in S, ~Contains(s, e), NEW q, NEW r
    PROVE  Before(Append(s, e), q, r) <=> Before(s, q, r) \/ (Contains(s, q) /\ r = e)
<1>1. PICK n \in Nat : n = Len(s)
  BY LenProperties
<1>2. PICK a : a = Append(s, e)
  OBVIOUS
<1>3. /\ Len(a) = n + 1
      /\ \A j \in 1 .. n : a[j] = s[j]
      /\ a[n + 1] = e
  BY <1>1, <1>2, AppendProperties
<1>4. ASSUME Before(a, q, r) PROVE Before(s, q, r) \/ (Contains(s, q) /\ r = e)
  <2>1. PICK j \in 1 .. (n + 1) : \E i \in 1 .. (j - 1) : a[i] = q /\ a[j] = r
    BY <1>3, <1>4 DEF Before
  <2>2. PICK i \in 1 .. (j - 1) : a[i] = q /\ a[j] = r
    BY <2>1
  <2>3. i \in 1 .. n /\ s[i] = q
    BY <1>3, <2>2
  <2>4. CASE j = n + 1
    BY <1>1, <1>3, <2>2, <2>3, <2>4 DEF Contains
  <2>5. CASE j \in 1 .. n
    BY <1>1, <1>3, <2>2, <2>3, <2>5 DEF Before
  <2>6. QED BY <2>2, <2>4, <2>5
<1>5. ASSUME Before(s, q, r) PROVE Before(a, q, r)
  <2>1. PICK j \in 1 .. n : \E i \in 1 .. (j - 1) : s[i] = q /\ s[j] = r
    BY <1>1, <1>5 DEF Before
  <2>2. PICK i \in 1 .. (j - 1) : s[i] = q /\ s[j] = r
    BY <2>1
  <2>3. j \in 1 .. (n + 1) /\ a[i] = q /\ a[j] = r
    BY <1>3, <2>2
  <2>4. QED BY <1>3, <2>2, <2>3 DEF Before
<1>6. ASSUME Contains(s, q), r = e PROVE Before(a, q, r)
  <2>1. PICK i \in 1 .. n : s[i] = q
    BY <1>1, <1>6 DEF Contains
  <2>2. n + 1 \in 1 .. (n + 1) /\ i \in 1 .. ((n + 1) - 1) /\ a[i] = q /\ a[n + 1] = r
    BY <1>3, <1>6, <2>1
  <2>3. QED BY <1>3, <2>2 DEF Before
<1>7. QED BY <1>2, <1>4, <1>5, <1>6

\* Taking one element out leaves the order of the others.
LEMMA BeforeRemove ==
    ASSUME NEW S, NEW s \in Seq(S), NEW k \in 1 .. Len(s), NEW t,
           t = RemoveAt(s, k) \/ (k = 1 /\ t = Tail(s)),
           NEW q, NEW r, q # s[k], r # s[k]
    PROVE  Before(t, q, r) <=> Before(s, q, r)
<1>1. PICK n \in Nat : n = Len(s)
  BY LenProperties
<1>2. /\ Len(t) = n - 1
      /\ \A j \in 1 .. (n - 1) : t[j] = IF j < k THEN s[j] ELSE s[j + 1]
  <2>1. CASE t = RemoveAt(s, k)
    BY <1>1, <2>1, RemoveAtProperties
  <2>2. CASE k = 1 /\ t = Tail(s)
    <3>1. s # <<>>
      BY <1>1, EmptySeq
    <3>2. /\ Len(t) = Len(s) - 1
          /\ \A j \in 1 .. Len(t) : t[j] = s[j + 1]
      BY <2>2, <3>1, HeadTailProperties
    <3>3. QED BY <1>1, <2>2, <3>2
  <2>3. QED BY <2>1, <2>2
<1>3. ASSUME Before(t, q, r) PROVE Before(s, q, r)
  <2>1. PICK j \in 1 .. (n - 1) : \E i \in 1 .. (j - 1) : t[i] = q /\ t[j] = r
    BY <1>2, <1>3 DEF Before
  <2>2. PICK i \in 1 .. (j - 1) : t[i] = q /\ t[j] = r
    BY <2>1
  <2>3. PICK f : f = [m \in 1 .. n |-> IF m < k THEN m ELSE m + 1]
    OBVIOUS
  <2>4. \A m \in 1 .. (n - 1) : f[m] \in 1 .. n /\ s[f[m]] = t[m]
    BY <1>1, <1>2, <2>3
  <2>5. f[i] \in 1 .. (f[j] - 1)
    BY <1>1, <2>3
  <2>6. i \in 1 .. (n - 1)
    BY <1>1
  <2>7. s[f[i]] = q /\ s[f[j]] = r /\ f[j] \in 1 .. Len(s)
    BY <1>1, <2>2, <2>4, <2>6
  <2>8. QED BY <2>5, <2>7 DEF Before
<1>4. ASSUME Before(s, q, r) PROVE Before(t, q, r)
  <2>1. PICK j \in 1 .. n : \E i \in 1 .. (j - 1) : s[i] = q /\ s[j] = r
    BY <1>1, <1>4 DEF Before
  <2>2. PICK i \in 1 .. (j - 1) : s[i] = q /\ s[j] = r
    BY <2>1
  <2>3. i # k /\ j # k
    BY <2>2
  <2>4. PICK f : f = [m \in 1 .. n |-> IF m < k THEN m ELSE m - 1]
    OBVIOUS
  <2>5. \A m \in 1 .. n : m # k => f[m] \in 1 .. (n - 1) /\ t[f[m]] = s[m]
    BY <1>1, <1>2, <2>4
  <2>6. f[i] \in 1 .. (f[j] - 1)
    BY <1>1, <2>3, <2>4
  <2>7. i \in 1 .. n
    BY <1>1
  <2>8. t[f[i]] = q /\ t[f[j]] = r /\ f[j] \in 1 .. Len(t)
    BY <1>2, <2>2, <2>3, <2>5, <2>7
  <2>9. QED BY <2>6, <2>8 DEF Before
<1>5. QED BY <1>3, <1>4

\* What Waiting and Ahead hold, spelled out.
LineListed ==
    /\ \A r : r \in Waiting <=> r \in Reads /\ Waits(r)
    /\ \A d : d \in Ahead <=>
          \E q, r \in Reads : d = <<q, r>> /\ Waits(q) /\ Waits(r) /\ Before(PendedReads, q, r)

LEMMA LineIs == LineListed
<1>1. \A r : r \in Waiting <=> r \in Reads /\ Waits(r)
  BY DEF Waiting, Waits
<1>2. ASSUME NEW q \in Waiting, NEW r \in Waiting
      PROVE  <<q, r>> \in Ahead <=> Before(PendedReads, q, r)
  BY DEF Ahead, Before
<1>3. \A d \in Ahead : \E q, r \in Waiting : d = <<q, r>>
  BY DEF Ahead
<1>4. QED BY <1>1, <1>2, <1>3 DEF LineListed

\* The same after a step.
LEMMA LineIsNext ==
    /\ \A r : r \in Waiting' <=> r \in Reads /\ Waits(r)'
    /\ \A d : d \in Ahead' <=>
          \E q, r \in Reads : d = <<q, r>> /\ Waits(q)' /\ Waits(r)' /\ Before(PendedReads', q, r)
<1>1. LineListed'
  BY LineIs, PTL
<1>2. QED BY <1>1 DEF LineListed, Before

\* Reads leave the line, or the queue, without disturbing the others.
LEMMA LineLosesRead ==
    ASSUME NEW r \in Reads,
           \A q \in Reads : Waits(q)' <=> Waits(q) /\ q # r,
           \A q, u \in Reads : q # r /\ u # r =>
               (Before(PendedReads', q, u) <=> Before(PendedReads, q, u))
    PROVE  Delivery!Leave(r)
<1>1. Waiting' = Waiting \ {r}
  BY LineIs, LineIsNext DEF LineListed
<1>2. ASSUME NEW d PROVE d \in Ahead' <=> d \in Ahead /\ r \notin {d[1], d[2]}
  <2>1. ASSUME d \in Ahead' PROVE d \in Ahead /\ r \notin {d[1], d[2]}
    <3>1. PICK q, u \in Reads : d = <<q, u>> /\ Waits(q)' /\ Waits(u)' /\ Before(PendedReads', q, u)
      BY <2>1, LineIsNext
    <3>2. q # r /\ u # r /\ Waits(q) /\ Waits(u) /\ Before(PendedReads, q, u)
      BY <3>1
    <3>3. QED BY <3>1, <3>2, LineIs DEF LineListed
  <2>2. ASSUME d \in Ahead, r \notin {d[1], d[2]} PROVE d \in Ahead'
    <3>1. PICK q, u \in Reads : d = <<q, u>> /\ Waits(q) /\ Waits(u) /\ Before(PendedReads, q, u)
      BY <2>2, LineIs DEF LineListed
    <3>2. q # r /\ u # r
      BY <2>2, <3>1
    <3>3. Waits(q)' /\ Waits(u)' /\ Before(PendedReads', q, u)
      BY <3>1, <3>2
    <3>4. QED BY <3>1, <3>3, LineIsNext
  <2>3. QED BY <2>1, <2>2
<1>3. Ahead' = {d \in Ahead : r \notin {d[1], d[2]}}
  BY <1>2
<1>4. QED BY <1>1, <1>3 DEF Delivery!Leave

\* The line stays as it is.
LEMMA LineKept ==
    ASSUME \A q \in Reads : Waits(q)' <=> Waits(q),
           \A q, u \in Reads : Waits(q) /\ Waits(u) =>
               (Before(PendedReads', q, u) <=> Before(PendedReads, q, u))
    PROVE  Waiting' = Waiting /\ Ahead' = Ahead
<1>1. Waiting' = Waiting
  BY LineIs, LineIsNext DEF LineListed
<1>2. ASSUME NEW d PROVE d \in Ahead' <=> d \in Ahead
  <2>1. ASSUME NEW q \in Reads, NEW u \in Reads
        PROVE  Waits(q)' /\ Waits(u)' /\ Before(PendedReads', q, u)
                  <=> Waits(q) /\ Waits(u) /\ Before(PendedReads, q, u)
    OBVIOUS
  <2>2. QED BY <2>1, LineIs, LineIsNext DEF LineListed
<1>3. QED BY <1>1, <1>2

\* A read joins the line behind all others.
LEMMA LineGainsRead ==
    ASSUME NEW r \in Reads, ~Waits(r),
           \A q \in Reads : Waits(q)' <=> Waits(q) \/ q = r,
           \A q, u \in Reads : Before(PendedReads', q, u) <=>
               Before(PendedReads, q, u) \/ (Contains(PendedReads, q) /\ u = r),
           ~Contains(PendedReads, r)
    PROVE  /\ Waiting' = Waiting \cup {r}
           /\ Ahead' = Ahead \cup (Waiting \X {r})
<1>1. Waiting' = Waiting \cup {r}
  BY LineIs, LineIsNext DEF LineListed
<1>2. \A q \in Reads : Before(PendedReads, q, r) => Contains(PendedReads, r)
  BY DEF Before, Contains
<1>3. \A q \in Reads : Before(PendedReads, r, q) => Contains(PendedReads, r)
  BY DEF Before, Contains
<1>4. ASSUME NEW q \in Reads, NEW u \in Reads
      PROVE  Waits(q)' /\ Waits(u)' /\ Before(PendedReads', q, u)
                <=> \/ Waits(q) /\ Waits(u) /\ Before(PendedReads, q, u)
                    \/ Waits(q) /\ u = r
  BY <1>2, <1>3 DEF Waits
<1>5. ASSUME NEW d PROVE d \in Ahead' <=> d \in Ahead \/ d \in Waiting \X {r}
  <2>1. d \in Waiting \X {r} <=> \E q, u \in Reads : d = <<q, u>> /\ Waits(q) /\ u = r
    BY LineIs DEF LineListed
  <2>2. QED BY <1>4, <2>1, LineIs, LineIsNext DEF LineListed
<1>6. QED BY <1>1, <1>5

-----------------------------------------------------------------------------
(* What became of each read and each packet.                                *)

\* A packet whose indication has not begun is not ours yet.
IdlePackets == \A p \in Packets : pc[p] = "idle" => pktState[p] = "absent"

\* A packet that was, and is no more, on its way to a reader.
Settled(p) == ~Contains(RecvPktQueue, p) /\ ~IsNew(p)

\* What a completed read got never comes back to the queue.
GivenPackets ==
    \A r \in Reads : irpStatus[r] = "SUCCESS" => irpData[r] \in Packets /\ Settled(irpData[r])

\* Whether some read got the packet, or is about to.
Given(p) == \E r \in Reads : Outcome(r) = p

\* The cases of Outcome, where the thread that matches a read is the only one.
OutcomeRules ==
    TypeOK /\ ReadInv => \A r \in Reads :
        /\ irpStatus[r] \in {"unsent", "dispatched"} => Outcome(r) = "unsent"
        /\ irpStatus[r] = "FAILED" => Outcome(r) = "failed"
        /\ irpStatus[r] = "CANCELLED" => Outcome(r) = "cancelled"
        /\ irpStatus[r] = "SUCCESS" => Outcome(r) = irpData[r]
        /\ irpStatus[r] = "pending" /\ irpRoutine[r] => Outcome(r) = "waiting"
        /\ \A t \in Agents : Matches(t) /\ curIrp[t] = r =>
              /\ irpStatus[r] = "pending" /\ ~irpRoutine[r]
              /\ Outcome(r) = curPkt[t]
        /\ irpStatus[r] = "pending" /\ ~irpRoutine[r]
                /\ (\A t \in Agents : Matches(t) => curIrp[t] # r) => Outcome(r) = "cancelled"

LEMMA OutcomeIs == OutcomeRules
<1> SUFFICES ASSUME TypeOK, ReadInv, NEW r \in Reads
             PROVE
        /\ irpStatus[r] \in {"unsent", "dispatched"} => Outcome(r) = "unsent"
        /\ irpStatus[r] = "FAILED" => Outcome(r) = "failed"
        /\ irpStatus[r] = "CANCELLED" => Outcome(r) = "cancelled"
        /\ irpStatus[r] = "SUCCESS" => Outcome(r) = irpData[r]
        /\ irpStatus[r] = "pending" /\ irpRoutine[r] => Outcome(r) = "waiting"
        /\ \A t \in Agents : Matches(t) /\ curIrp[t] = r =>
              /\ irpStatus[r] = "pending" /\ ~irpRoutine[r]
              /\ Outcome(r) = curPkt[t]
        /\ irpStatus[r] = "pending" /\ ~irpRoutine[r]
                /\ (\A t \in Agents : Matches(t) => curIrp[t] # r) => Outcome(r) = "cancelled"
  BY DEF OutcomeRules
<1>1. /\ irpStatus[r] \in {"unsent", "dispatched"} => Outcome(r) = "unsent"
      /\ irpStatus[r] = "FAILED" => Outcome(r) = "failed"
      /\ irpStatus[r] = "CANCELLED" => Outcome(r) = "cancelled"
      /\ irpStatus[r] = "SUCCESS" => Outcome(r) = irpData[r]
      /\ irpStatus[r] = "pending" /\ irpRoutine[r] => Outcome(r) = "waiting"
  BY DEF Outcome
<1>2. ASSUME NEW t \in Agents, Matches(t), curIrp[t] = r
      PROVE  /\ irpStatus[r] = "pending" /\ ~irpRoutine[r]
             /\ Outcome(r) = curPkt[t]
  <2>1. OwnsIrp(t)
    BY <1>2 DEF Matches, OwnsIrp
  <2>2. /\ irpStatus[r] = "pending" /\ ~Contains(PendedReads, r)
        /\ \A u \in Agents : OwnsIrp(u) /\ curIrp[u] = r => u = t
    BY <1>2, <2>1 DEF ReadInv, TakenReads
  <2>3. ~irpRoutine[r]
    BY <2>2 DEF ReadInv, QueuedReads
  <2>4. \A u \in Agents : Matches(u) => OwnsIrp(u)
    BY DEF Matches, OwnsIrp
  <2>5. TakenBy(r) = {t}
    BY <1>2, <2>2, <2>4 DEF TakenBy
  <2>6. Outcome(r) = IF TakenBy(r) = {} THEN "cancelled"
                     ELSE curPkt[CHOOSE u \in TakenBy(r) : TRUE]
    BY <2>2, <2>3 DEF Outcome
  <2>7. (CHOOSE u \in TakenBy(r) : TRUE) \in TakenBy(r)
    BY <2>5
  <2>8. QED BY <2>2, <2>3, <2>5, <2>6, <2>7
<1>3. ASSUME irpStatus[r] = "pending", ~irpRoutine[r],
             \A t \in Agents : Matches(t) => curIrp[t] # r
      PROVE  Outcome(r) = "cancelled"
  <2>1. TakenBy(r) = {}
    BY <1>3 DEF TakenBy
  <2>2. QED BY <1>3, <2>1 DEF Outcome
<1>4. QED BY <1>1, <1>2, <1>3

\* The same after a step.
LEMMA OutcomeIsNext == OutcomeRules'
BY OutcomeIs, PTL

\* Every read is in one of those cases.
LEMMA OutcomeCases ==
    ASSUME TypeOK, NEW r \in Reads
    PROVE  \/ irpStatus[r] \in {"unsent", "dispatched", "FAILED", "CANCELLED", "SUCCESS"}
           \/ irpStatus[r] = "pending" /\ irpRoutine[r]
           \/ \E t \in Agents : Matches(t) /\ curIrp[t] = r
           \/ /\ irpStatus[r] = "pending" /\ ~irpRoutine[r]
              /\ \A t \in Agents : Matches(t) => curIrp[t] # r
BY DEF TypeOK, DataTypeOK

\* A packet that a read got, or is about to, is on no queue and never will be.
LEMMA GivenIsSettled ==
    ASSUME TypeOK, ReadInv, PacketInv, IdlePackets, GivenPackets,
           NEW p \in Packets, Given(p)
    PROVE  Settled(p)
<1>1. PICK r \in Reads : Outcome(r) = p
  BY DEF Given
<1>2. p \notin {"unsent", "waiting", "failed", "cancelled"}
  BY OutcomeAssumption
<1>3. irpStatus[r] = "SUCCESS" \/ \E t \in Agents : Matches(t) /\ curIrp[t] = r
  BY <1>1, <1>2, OutcomeIs, OutcomeCases DEF OutcomeRules
<1>4. CASE irpStatus[r] = "SUCCESS"
  BY <1>1, <1>4, OutcomeIs DEF OutcomeRules, GivenPackets
<1>5. CASE \E t \in Agents : Matches(t) /\ curIrp[t] = r
  <2>1. PICK t \in Agents : Matches(t) /\ curIrp[t] = r
    BY <1>5
  <2>2. curPkt[t] = p
    BY <1>1, <2>1, OutcomeIs DEF OutcomeRules
  <2>3. OwnsPacket(t)
    BY <2>1 DEF Matches, OwnsPacket
  <2>4. pktState[p] = "ours" /\ ~Contains(RecvPktQueue, p) /\ ~Arriving(p)
    BY <2>2, <2>3 DEF PacketInv, HandledPackets
  <2>5. pc[p] # "idle"
    BY <2>4 DEF IdlePackets
  <2>6. QED BY <2>4, <2>5 DEF Settled, IsNew, Arriving, ArrivalLabels
<1>6. QED BY <1>3, <1>4, <1>5

-----------------------------------------------------------------------------
(* Steps that a reader does not see.                                        *)

ReadsCalm ==
    /\ UNCHANGED <<PendedReads, irpRoutine, irpStatus, irpData>>
    /\ \A t \in Agents : /\ Matches(t)' <=> Matches(t)
                         /\ Matches(t) => curIrp'[t] = curIrp[t] /\ curPkt'[t] = curPkt[t]

PacketsCalm ==
    /\ RecvPktQueue' = RecvPktQueue
    /\ \A p \in Packets : IsNew(p)' <=> IsNew(p)

\* A read that nobody touches keeps its outcome.
LEMMA OutcomeKept ==
    ASSUME TypeOK, ReadInv, TypeOK', ReadInv', NEW r \in Reads,
           irpStatus'[r] = irpStatus[r], irpRoutine'[r] = irpRoutine[r],
           irpData'[r] = irpData[r],
           \A t \in Agents :
               /\ Matches(t)' /\ curIrp'[t] = r <=> Matches(t) /\ curIrp[t] = r
               /\ Matches(t) /\ curIrp[t] = r => curPkt'[t] = curPkt[t]
    PROVE  Outcome(r)' = Outcome(r)
<1>1. CASE irpStatus[r] \in {"unsent", "dispatched", "FAILED", "CANCELLED", "SUCCESS"}
  <2>1. CASE irpStatus[r] \in {"unsent", "dispatched"}
    <3>1. Outcome(r) = "unsent"
      BY <2>1, OutcomeIs DEF OutcomeRules
    <3>2. Outcome(r)' = "unsent"
      BY <2>1, OutcomeIsNext DEF OutcomeRules
    <3>3. QED BY <3>1, <3>2
  <2>2. CASE irpStatus[r] = "FAILED"
    <3>1. Outcome(r) = "failed"
      BY <2>2, OutcomeIs DEF OutcomeRules
    <3>2. Outcome(r)' = "failed"
      BY <2>2, OutcomeIsNext DEF OutcomeRules
    <3>3. QED BY <3>1, <3>2
  <2>3. CASE irpStatus[r] = "CANCELLED"
    <3>1. Outcome(r) = "cancelled"
      BY <2>3, OutcomeIs DEF OutcomeRules
    <3>2. Outcome(r)' = "cancelled"
      BY <2>3, OutcomeIsNext DEF OutcomeRules
    <3>3. QED BY <3>1, <3>2
  <2>4. CASE irpStatus[r] = "SUCCESS"
    <3>1. Outcome(r) = irpData[r]
      BY <2>4, OutcomeIs DEF OutcomeRules
    <3>2. Outcome(r)' = irpData'[r]
      BY <2>4, OutcomeIsNext DEF OutcomeRules
    <3>3. QED BY <3>1, <3>2
  <2>5. QED BY <1>1, <2>1, <2>2, <2>3, <2>4
<1>2. CASE irpStatus[r] = "pending" /\ irpRoutine[r]
  <2>1. Outcome(r) = "waiting"
    BY <1>2, OutcomeIs DEF OutcomeRules
  <2>2. Outcome(r)' = "waiting"
    BY <1>2, OutcomeIsNext DEF OutcomeRules
  <2>3. QED BY <2>1, <2>2
<1>3. CASE \E t \in Agents : Matches(t) /\ curIrp[t] = r
  <2>1. PICK t \in Agents : Matches(t) /\ curIrp[t] = r
    BY <1>3
  <2>2. Outcome(r) = curPkt[t]
    BY <2>1, OutcomeIs DEF OutcomeRules
  <2>3. Outcome(r)' = curPkt'[t]
    BY <2>1, OutcomeIsNext DEF OutcomeRules
  <2>4. QED BY <2>1, <2>2, <2>3
<1>4. CASE /\ irpStatus[r] = "pending" /\ ~irpRoutine[r]
           /\ \A t \in Agents : Matches(t) => curIrp[t] # r
  <2>1. \A t \in Agents : Matches(t)' => curIrp'[t] # r
    BY <1>4
  <2>2. QED BY <1>4, <2>1, OutcomeIs, OutcomeIsNext DEF OutcomeRules
<1>5. QED BY <1>1, <1>2, <1>3, <1>4, OutcomeCases

\* A step that leaves the reads alone leaves their line and their outcomes.
LEMMA ReadsCalmKeeps ==
    ASSUME TypeOK, ReadInv, TypeOK', ReadInv', ReadsCalm
    PROVE  /\ Waiting' = Waiting /\ Ahead' = Ahead
           /\ Outcomes' = Outcomes
           /\ \A p \in Packets : Given(p)' <=> Given(p)
<1>1. Waiting' = Waiting /\ Ahead' = Ahead
  BY DEF ReadsCalm, Waiting, Ahead
<1>2. \A r \in Reads : Outcome(r)' = Outcome(r)
  BY OutcomeKept DEF ReadsCalm
<1>3. Outcomes' = Outcomes
  BY <1>2 DEF Outcomes
<1>4. \A p \in Packets : Given(p)' <=> Given(p)
  BY <1>2 DEF Given
<1>5. QED BY <1>1, <1>3, <1>4

\* A step that leaves the packets alone, and gives none out, leaves their fates.
LEMMA PacketsCalmKeeps ==
    ASSUME PacketsCalm, \A p \in Packets : Given(p)' <=> Given(p)
    PROVE  Fates' = Fates
<1>1. \A p \in Packets : Fate(p)' = Fate(p)
  BY DEF PacketsCalm, Fate, Given
<1>2. QED BY <1>1 DEF Fates

\* No packet that was given out comes back.
LEMMA GivenKept ==
    ASSUME GivenPackets, \A p \in Packets : Settled(p) => Settled(p)',
           \A r \in Reads : irpStatus'[r] = "SUCCESS" =>
               irpStatus[r] = "SUCCESS" /\ irpData'[r] = irpData[r]
    PROVE  GivenPackets'
BY DEF GivenPackets, Settled, IsNew

\* What has to be shown of each step.
DeliveryStep == [Delivery!Next]_(Delivery!vars) /\ GivenPackets'

\* A step that leaves both alone is a stutter of the buffer.
LEMMA CalmStep ==
    ASSUME TypeOK, ReadInv, TypeOK', ReadInv', GivenPackets, ReadsCalm, PacketsCalm
    PROVE  DeliveryStep
<1>1. GivenPackets'
  BY GivenKept DEF ReadsCalm, PacketsCalm, Settled
<1>2. UNCHANGED Delivery!vars
  BY ReadsCalmKeeps, PacketsCalmKeeps DEF Delivery!vars, PacketsCalm
<1>3. QED BY <1>1, <1>2 DEF DeliveryStep

\* A step of one read that gives it no packet.
LEMMA OneOutcome ==
    ASSUME NEW r \in Reads, PacketsCalm,
           \A q \in Reads : q # r => Outcome(q)' = Outcome(q),
           Outcome(r) \in {"unsent", "waiting", "failed", "cancelled"},
           Outcome(r)' \in {"unsent", "waiting", "failed", "cancelled"}
    PROVE  /\ Outcomes' = [Outcomes EXCEPT ![r] = Outcome(r)']
           /\ Fates' = Fates
<1>1. Outcomes' = [Outcomes EXCEPT ![r] = Outcome(r)']
  BY DEF Outcomes
<1>2. \A p \in Packets : Outcome(r) # p /\ Outcome(r)' # p
  BY OutcomeAssumption
<1>3. \A p \in Packets : Given(p)' <=> Given(p)
  BY <1>2 DEF Given
<1>4. QED BY <1>1, <1>3, PacketsCalmKeeps

-----------------------------------------------------------------------------
(* No indication begins twice.                                              *)

\* A thread goes on inside its indication, and no packet but ours is touched.
LEMMA IdleGoto ==
    ASSUME TypeOK, IdlePackets,
           UNCHANGED pc \/ \E t \in Agents : \E label :
                              Goto(t, label) /\ (label = "idle" => t \notin Packets),
           \A p \in Packets : pktState'[p] = pktState[p] \/ pktState[p] = "ours"
    PROVE  IdlePackets'
<1>1. \A p \in Packets : pc'[p] = "idle" => pc[p] = "idle"
  BY DEF Goto, TypeOK, LabelsOK, Agents
<1>2. QED BY <1>1 DEF IdlePackets

\* Packets are given back by who has them.
LEMMA FreesOurs ==
    ASSUME TypeOK, PacketInv, NEW t \in Agents,
           \/ OwnsPacket(t) /\ FreeReceivePacket(curPkt[t])
           \/ t \in Packets /\ Arriving(t) /\ FreeReceivePacket(t)
    PROVE  \A p \in Packets : pktState'[p] = pktState[p] \/ pktState[p] = "ours"
<1>1. PICK q : FreeReceivePacket(q) /\ q \in Packets /\ pktState[q] = "ours"
  BY DEF PacketInv, HandledPackets, OurPackets
<1>2. QED BY <1>1 DEF FreeReceivePacket, TypeOK, DataTypeOK

\* In ndisprotServiceReads.
LEMMA IdleServiceReads ==
    ASSUME TypeOK, PacketInv, IdlePackets, NEW t \in Reads \cup Packets, ServiceReads(t)
    PROVE  IdlePackets'
<1>1. t \in Agents
  BY DEF Agents
<1>2. \E label : Goto(t, label) /\ label # "idle"
  BY DEF ServiceReads, ServiceRef, ServiceFirst, ServiceTurn, ServiceDerefPacket,
     ServiceComplete, ServiceFree, ServiceDerefRead, ServiceAgain, ServiceReturn
<1>3. CASE ServiceFree(t)
  <2>1. OwnsPacket(t) /\ FreeReceivePacket(curPkt[t])
    BY <1>3 DEF ServiceFree, OwnsPacket
  <2>2. QED BY <1>1, <1>2, <2>1, FreesOurs, IdleGoto
<1>4. CASE ~ServiceFree(t)
  <2>1. UNCHANGED pktState
    BY <1>4 DEF ServiceReads, ServiceRef, ServiceFirst, ServiceDerefPacket,
       ServiceComplete, ServiceDerefRead, ServiceAgain, ServiceReturn, pktVars
  <2>2. QED BY <1>1, <1>2, <2>1, IdleGoto
<1>5. QED BY <1>3, <1>4

\* In an indication.
LEMMA IdleReceive ==
    ASSUME TypeOK, PacketInv, IdlePackets, NEW p \in Packets,
           Receive(p) \/ IndicateMiniportPacket(p) \/ IndicateCopy(p)
    PROVE  IdlePackets'
<1>1. p \in Agents
  BY DEF Agents
<1>2. CASE TransferDataComplete(p)
  <2>1. \E label : Goto(p, label) /\ label # "idle"
    BY <1>2 DEF TransferDataComplete
  <2>2. Arriving(p)
    BY <1>2 DEF TransferDataComplete, Arriving, ArrivalLabels
  <2>3. UNCHANGED pktState \/ FreeReceivePacket(p)
    BY <1>2 DEF TransferDataComplete, pktVars
  <2>4. QED BY <1>1, <2>1, <2>2, <2>3, FreesOurs, IdleGoto
<1>3. CASE DiscardFree(p)
  <2>1. \E label : Goto(p, label) /\ label # "idle"
    BY <1>3 DEF DiscardFree
  <2>2. OwnsPacket(p) /\ FreeReceivePacket(curPkt[p])
    BY <1>3 DEF DiscardFree, OwnsPacket
  <2>3. QED BY <1>1, <2>1, <2>2, FreesOurs, IdleGoto
<1>4. CASE QueueReceivePacketRef(p) \/ QueueReceivePacket(p) \/ RefuseReceivePacket(p) \/ DiscardDeref(p)
  <2>1. \E label : Goto(p, label) /\ label # "idle"
    BY <1>4 DEF QueueReceivePacketRef, QueueReceivePacket, RefuseReceivePacket, DiscardDeref
  <2>2. UNCHANGED pktState
    BY <1>4 DEF QueueReceivePacketRef, QueueReceivePacket, RefuseReceivePacket, DiscardDeref, pktVars
  <2>3. QED BY <1>1, <2>1, <2>2, IdleGoto
<1>5. CASE IndicateMiniportPacket(p) \/ IndicateCopy(p)
  <2>1. \A q \in Packets : q # p => pktState'[q] = pktState[q] /\ pc'[q] = pc[q]
    BY <1>5 DEF IndicateMiniportPacket, IndicateCopy, Goto, TypeOK, DataTypeOK, LabelsOK, Agents
  <2>2. pc'[p] # "idle"
    BY <1>1, <1>5 DEF IndicateMiniportPacket, IndicateCopy, Goto, TypeOK, LabelsOK
  <2>3. QED BY <2>1, <2>2 DEF IdlePackets
<1>6. QED BY <1>2, <1>3, <1>4, <1>5 DEF Receive

\* In the drains, the events and the shutdown.
LEMMA IdleDrains ==
    ASSUME TypeOK, PacketInv, IdlePackets,
           \/ CleanupThread \/ PnPThread \/ Cleanup \/ PowerDown \/ PowerUp \/ Unbind
    PROVE  IdlePackets'
<1>1. \A t \in {"cleanup", "pnp"} : t \in Agents /\ t \notin Packets
  BY AgentsAssumption DEF Agents
<1>2. UNCHANGED pc \/ \E t \in {"cleanup", "pnp"} : \E label : Goto(t, label)
  BY DEF CleanupThread, PnPThread, CancelPendingReads, CancelPendingRef, CancelPendingFirst,
     CancelPendingTurn, CancelPendingComplete, CancelPendingDeref, CancelPendingAgain,
     CancelPendingReturn, FlushReceiveQueue, FlushRef, FlushTurn, FlushFree, FlushDeref,
     FlushReturn, Cleanup, Close, PowerDown, PowerUp, Unbind, ShutdownBinding,
     WaitForPendingReads, CloseAdapter, SetBindIdle, FreeBindResources, ShutdownReturn
<1>3. UNCHANGED pktState \/ \E t \in {"cleanup", "pnp"} : FlushFree(t)
  BY DEF CleanupThread, PnPThread, CancelPendingReads, CancelPendingRef, CancelPendingFirst,
     CancelPendingComplete, CancelPendingDeref, CancelPendingAgain,
     CancelPendingReturn, FlushReceiveQueue, FlushRef, FlushTurn, FlushDeref,
     FlushReturn, Cleanup, Close, PowerDown, PowerUp, Unbind, ShutdownBinding,
     WaitForPendingReads, CloseAdapter, SetBindIdle, FreeBindResources, ShutdownReturn, pktVars
<1>4. ASSUME NEW t \in {"cleanup", "pnp"}, FlushFree(t)
      PROVE  OwnsPacket(t) /\ FreeReceivePacket(curPkt[t])
  BY <1>4 DEF FlushFree, OwnsPacket
<1>5. \A p \in Packets : pktState'[p] = pktState[p] \/ pktState[p] = "ours"
  BY <1>1, <1>3, <1>4, FreesOurs
<1>6. QED BY <1>1, <1>2, <1>5, IdleGoto

\* Every step keeps it that no indication begins twice.
LEMMA IdleStep == TypeOK /\ PacketInv /\ IdlePackets /\ [Next]_vars => IdlePackets'
<1> SUFFICES ASSUME TypeOK, PacketInv, IdlePackets, [Next]_vars PROVE IdlePackets'
  OBVIOUS
<1>1. CASE UNCHANGED vars
  BY <1>1 DEF vars, pktVars, IdlePackets
<1>2. ASSUME NEW r \in Reads, \/ SubmitRead(r) \/ CancelIrp(r) \/ PendRead(r) \/ FailRead(r)
                              \/ CancelRead(r)
      PROVE  IdlePackets'
  <2>1. UNCHANGED pktState
    BY <1>2 DEF SubmitRead, CancelIrp, PendRead, FailRead, CancelRead, CancelReadUnlink,
       CancelReadComplete, CancelReadDeref, pktVars
  <2>2. UNCHANGED pc \/ \E label : Goto(r, label) /\ label # "idle"
    BY <1>2 DEF SubmitRead, CancelIrp, PendRead, FailRead, CancelRead, CancelReadUnlink,
       CancelReadComplete, CancelReadDeref
  <2>3. r \in Agents
    BY DEF Agents
  <2>4. QED BY <2>1, <2>2, <2>3, IdleGoto
<1>3. CASE Environment
  BY <1>2, <1>3, IdleReceive, IdleDrains DEF Environment
<1>4. ASSUME NEW r \in Reads, ReadThread(r) \/ CancelRead(r) PROVE IdlePackets'
  BY <1>2, <1>4, IdleServiceReads DEF ReadThread
<1>5. ASSUME NEW p \in Packets, PacketThread(p) PROVE IdlePackets'
  BY <1>5, IdleReceive, IdleServiceReads DEF PacketThread
<1>6. CASE CleanupThread \/ PnPThread
  BY <1>6, IdleDrains
<1>7. QED BY <1>1, <1>3, <1>4, <1>5, <1>6 DEF Next

-----------------------------------------------------------------------------
(* Steps of reads, as a reader sees them.                                   *)

Sound == TypeOK /\ ReadInv /\ PacketInv /\ IdlePackets /\ GivenPackets

\* A thread inside the driver that goes on where the buffer is not concerned.
LEMMA CalmGoto ==
    ASSUME Sound, TypeOK', ReadInv', NEW t \in Agents, NEW label, Goto(t, label),
           label \in {"svcDerefPkt", "svcComplete"} <=> Matches(t),
           t \in Packets => (label \in {"idle", "transfer", "rcvRef", "rcvLock"} <=> IsNew(t)),
           UNCHANGED <<PendedReads, RecvPktQueue, irpRoutine, irpStatus, irpData>>,
           \A u \in Agents : Matches(u) => curIrp'[u] = curIrp[u] /\ curPkt'[u] = curPkt[u]
    PROVE  DeliveryStep
<1>1. \A u \in Agents : pc'[u] = IF u = t THEN label ELSE pc[u]
  BY DEF Goto, Sound, TypeOK, LabelsOK
<1>2. \A u \in Agents : Matches(u)' <=> Matches(u)
  BY <1>1 DEF Matches
<1>3. \A p \in Packets : IsNew(p)' <=> IsNew(p)
  BY <1>1 DEF IsNew, Agents
<1>4. ReadsCalm /\ PacketsCalm
  BY <1>2, <1>3 DEF ReadsCalm, PacketsCalm
<1>5. QED BY <1>4, CalmStep DEF Sound

\* A step after which the reads wait, and have got, what they had before.
LEMMA SameOutcomes ==
    ASSUME PacketsCalm, Waiting' = Waiting, Ahead' = Ahead,
           \A r \in Reads : Outcome(r)' = Outcome(r)
    PROVE  UNCHANGED Delivery!vars
<1>1. Outcomes' = Outcomes
  BY DEF Outcomes
<1>2. \A p \in Packets : Given(p)' <=> Given(p)
  BY DEF Given
<1>3. QED BY <1>1, <1>2, PacketsCalmKeeps DEF Delivery!vars, PacketsCalm

\* The cancel routine is taken away to cancel the read, by IoCancelIrp or by
\* ndisprotCancelPendingReads.
LEMMA CancelTakes ==
    ASSUME Sound, TypeOK', ReadInv', PacketsCalm, NEW r \in Reads, irpRoutine[r],
           irpRoutine' = [irpRoutine EXCEPT ![r] = FALSE],
           UNCHANGED <<irpStatus, irpData>>,
           \/ PendedReads' = PendedReads
           \/ PendedReads # <<>> /\ r = Head(PendedReads) /\ PendedReads' = Tail(PendedReads),
           \A u \in Agents : /\ Matches(u)' <=> Matches(u)
                             /\ Matches(u) => curIrp'[u] = curIrp[u] /\ curPkt'[u] = curPkt[u]
    PROVE  DeliveryStep
<1> USE DEF Sound
<1>1. /\ PendedReads \in Seq(Reads)
      /\ \A q \in Reads : irpRoutine'[q] <=> irpRoutine[q] /\ q # r
  BY DEF TypeOK, ContextTypeOK, DataTypeOK
<1>2. Contains(PendedReads, r) /\ irpStatus[r] = "pending"
  BY DEF ReadInv, QueuedReads
<1>3. ASSUME PendedReads # <<>>, r = Head(PendedReads), PendedReads' = Tail(PendedReads)
      PROVE  \E i \in 1 .. Len(PendedReads) : i = 1 /\ PendedReads[i] = r
  BY <1>1, <1>3, EmptySeq, LenProperties, HeadTailProperties
<1>4. \A q : q # r => (Contains(PendedReads', q) <=> Contains(PendedReads, q))
  BY <1>1, <1>3, RemoveOne DEF ReadInv, NoReadTwice
<1>5. \A q, u \in Reads : q # r /\ u # r =>
          (Before(PendedReads', q, u) <=> Before(PendedReads, q, u))
  BY <1>1, <1>3, BeforeRemove
<1>6. Delivery!Leave(r)
  BY <1>1, <1>4, <1>5, LineLosesRead DEF Waits
<1>7. \A u \in Agents : Matches(u) => curIrp[u] # r
  BY <1>2 DEF ReadInv, TakenReads, Matches, OwnsIrp
<1>8. Outcome(r) = "waiting"
  BY <1>2, OutcomeIs DEF OutcomeRules
<1>9. Outcome(r)' = "cancelled"
  <2>1. irpStatus'[r] = "pending" /\ ~irpRoutine'[r]
    BY <1>1, <1>2
  <2>2. \A u \in Agents : Matches(u)' => curIrp'[u] # r
    BY <1>7
  <2>3. QED BY <2>1, <2>2, OutcomeIsNext DEF OutcomeRules
<1>10. \A q \in Reads : q # r => Outcome(q)' = Outcome(q)
  <2>1. \A q \in Reads : q # r => irpRoutine'[q] = irpRoutine[q]
    BY DEF TypeOK, DataTypeOK
  <2>2. QED BY <2>1, OutcomeKept
<1>11. /\ Outcomes' = [Outcomes EXCEPT ![r] = "cancelled"]
       /\ Fates' = Fates
  BY <1>8, <1>9, <1>10, OneOutcome
<1>12. Outcomes[r] = "waiting"
  BY <1>8 DEF Outcomes
<1>13. Delivery!Cancel(r)
  BY <1>6, <1>11, <1>12 DEF Delivery!Cancel, PacketsCalm
<1>14. GivenPackets'
  BY GivenKept DEF PacketsCalm, Settled
<1>15. QED BY <1>13, <1>14 DEF DeliveryStep, Delivery!Next

\* NdisProtRead accepts the read, behind all others.
LEMMA PendReadStep ==
    ASSUME Sound, TypeOK', ReadInv', NEW r \in Reads, PendRead(r)
    PROVE  DeliveryStep
<1> USE DEF Sound
<1>1. r \in Agents /\ r \notin Packets
  BY AgentsAssumption DEF Agents
<1>2. irpStatus[r] = "dispatched"
  BY DEF PendRead, ReadInv, NewReads
<1>3. ~Contains(PendedReads, r) /\ ~Waits(r)
  BY <1>2 DEF ReadInv, QueuedReads, Waits
<1>4. /\ PendedReads \in Seq(Reads) /\ PendedReads' = Append(PendedReads, r)
      /\ \A q \in Reads : /\ irpRoutine'[q] <=> irpRoutine[q] \/ q = r
                          /\ irpStatus'[q] = IF q = r THEN "pending" ELSE irpStatus[q]
                          /\ irpData'[q] = irpData[q]
  BY DEF PendRead, TypeOK, ContextTypeOK, DataTypeOK
<1>5. \A u \in Agents : pc'[u] = IF u = r THEN "svcRef" ELSE pc[u]
  BY DEF PendRead, Goto, TypeOK, LabelsOK
<1>6. pc[r] = "rdLock" /\ UNCHANGED <<RecvPktQueue, curIrp, curPkt>>
  BY DEF PendRead, recvVars, curVars
<1>7. /\ \A u \in Agents : Matches(u)' <=> Matches(u)
      /\ \A p \in Packets : IsNew(p)' <=> IsNew(p)
  BY <1>1, <1>5, <1>6 DEF Matches, IsNew, Agents
<1>8. PacketsCalm
  BY <1>6, <1>7 DEF PacketsCalm
<1>9. \A q : Contains(PendedReads', q) <=> Contains(PendedReads, q) \/ q = r
  BY <1>3, <1>4, AppendOne DEF ReadInv, NoReadTwice
<1>10. \A q, u \in Reads : Before(PendedReads', q, u) <=>
           Before(PendedReads, q, u) \/ (Contains(PendedReads, q) /\ u = r)
  BY <1>3, <1>4, BeforeAppend
<1>11. \A q \in Reads : Waits(q)' <=> Waits(q) \/ q = r
  BY <1>4, <1>9 DEF Waits
<1>12. Waiting' = Waiting \cup {r} /\ Ahead' = Ahead \cup (Waiting \X {r})
  BY <1>3, <1>10, <1>11, LineGainsRead
<1>13. Outcome(r) = "unsent"
  BY <1>2, OutcomeIs DEF OutcomeRules
<1>14. Outcome(r)' = "waiting"
  BY <1>4, OutcomeIsNext DEF OutcomeRules
<1>15. \A q \in Reads : q # r => Outcome(q)' = Outcome(q)
  <2>1. \A q \in Reads : q # r => irpRoutine'[q] = irpRoutine[q]
    BY DEF PendRead, TypeOK, DataTypeOK
  <2>2. QED BY <1>4, <1>6, <1>7, <2>1, OutcomeKept
<1>16. /\ Outcomes' = [Outcomes EXCEPT ![r] = "waiting"]
       /\ Fates' = Fates
  BY <1>8, <1>13, <1>14, <1>15, OneOutcome
<1>17. Outcomes[r] = "unsent"
  BY <1>13 DEF Outcomes
<1>18. Delivery!Submit(r)
  BY <1>6, <1>12, <1>16, <1>17 DEF Delivery!Submit
<1>19. GivenPackets'
  BY <1>4, <1>8, GivenKept DEF PacketsCalm, Settled
<1>20. QED BY <1>18, <1>19 DEF DeliveryStep, Delivery!Next

\* NdisProtRead fails the read.
LEMMA FailReadStep ==
    ASSUME Sound, TypeOK', ReadInv', NEW r \in Reads, FailRead(r)
    PROVE  DeliveryStep
<1> USE DEF Sound
<1>1. r \in Agents /\ r \notin Packets
  BY AgentsAssumption DEF Agents
<1>2. irpStatus[r] = "dispatched"
  BY DEF FailRead, ReadInv, NewReads
<1>3. \A q \in Reads : irpStatus'[q] = IF q = r THEN "FAILED" ELSE irpStatus[q]
  BY DEF FailRead, Complete, TypeOK, DataTypeOK
<1>4. \A u \in Agents : pc'[u] = IF u = r THEN "done" ELSE pc[u]
  BY DEF FailRead, Goto, TypeOK, LabelsOK
<1>5. /\ pc[r] = "rdLock"
      /\ UNCHANGED <<PendedReads, RecvPktQueue, irpRoutine, irpData, curIrp, curPkt>>
  BY DEF FailRead, readVars, recvVars, curVars
<1>6. /\ \A u \in Agents : Matches(u)' <=> Matches(u)
      /\ \A p \in Packets : IsNew(p)' <=> IsNew(p)
  BY <1>1, <1>4, <1>5 DEF Matches, IsNew, Agents
<1>7. PacketsCalm
  BY <1>5, <1>6 DEF PacketsCalm
<1>8. Waiting' = Waiting /\ Ahead' = Ahead
  BY <1>5 DEF Waiting, Ahead
<1>9. Outcome(r) = "unsent"
  BY <1>2, OutcomeIs DEF OutcomeRules
<1>10. Outcome(r)' = "failed"
  BY <1>3, OutcomeIsNext DEF OutcomeRules
<1>11. \A q \in Reads : q # r => Outcome(q)' = Outcome(q)
  BY <1>3, <1>5, <1>6, OutcomeKept
<1>12. /\ Outcomes' = [Outcomes EXCEPT ![r] = "failed"]
       /\ Fates' = Fates
  BY <1>7, <1>9, <1>10, <1>11, OneOutcome
<1>13. Outcomes[r] = "unsent"
  BY <1>9 DEF Outcomes
<1>14. Delivery!Submit(r)
  BY <1>5, <1>8, <1>12, <1>13 DEF Delivery!Submit
<1>15. GivenPackets'
  BY <1>3, <1>5, <1>7, GivenKept DEF PacketsCalm, Settled
<1>16. QED BY <1>14, <1>15 DEF DeliveryStep, Delivery!Next

\* The client's call, and IoCancelIrp.
LEMMA ClientStep ==
    ASSUME Sound, TypeOK', ReadInv', NEW r \in Reads, SubmitRead(r) \/ CancelIrp(r)
    PROVE  DeliveryStep
<1> USE DEF Sound
<1>1. r \in Agents /\ r \notin Packets
  BY AgentsAssumption DEF Agents
<1>2. CASE SubmitRead(r)
  <2>1. \A q \in Reads : irpStatus'[q] = IF q = r THEN "dispatched" ELSE irpStatus[q]
    BY <1>2 DEF SubmitRead, TypeOK, DataTypeOK
  <2>2. \A u \in Agents : pc'[u] = IF u = r THEN "rdLock" ELSE pc[u]
    BY <1>2 DEF SubmitRead, Goto, TypeOK, LabelsOK
  <2>3. /\ irpStatus[r] = "unsent" /\ pc[r] = "idle"
        /\ UNCHANGED <<PendedReads, RecvPktQueue, irpRoutine, irpData, curIrp, curPkt>>
    BY <1>2 DEF SubmitRead, readVars, recvVars, curVars, ReadInv, NewReads
  <2>4. /\ \A u \in Agents : Matches(u)' <=> Matches(u)
        /\ \A p \in Packets : IsNew(p)' <=> IsNew(p)
    BY <1>1, <2>2, <2>3 DEF Matches, IsNew, Agents
  <2>5. PacketsCalm
    BY <2>3, <2>4 DEF PacketsCalm
  <2>6. Waiting' = Waiting /\ Ahead' = Ahead
    BY <2>3 DEF Waiting, Ahead
  <2>7. Outcome(r) = "unsent" /\ Outcome(r)' = "unsent"
    BY <2>1, <2>3, OutcomeIs, OutcomeIsNext DEF OutcomeRules
  <2>8. \A q \in Reads : q # r => Outcome(q)' = Outcome(q)
    BY <2>1, <2>3, <2>4, OutcomeKept
  <2>9. UNCHANGED Delivery!vars
    BY <2>5, <2>6, <2>7, <2>8, SameOutcomes
  <2>10. GivenPackets'
    BY <2>1, <2>3, <2>5, GivenKept DEF PacketsCalm, Settled
  <2>11. QED BY <2>9, <2>10 DEF DeliveryStep
<1>3. CASE CancelIrp(r)
  <2>1. /\ irpRoutine' = [irpRoutine EXCEPT ![r] = FALSE]
        /\ UNCHANGED <<pc, PendedReads, RecvPktQueue, irpStatus, irpData, curIrp, curPkt>>
    BY <1>3 DEF CancelIrp, readVars, recvVars, curVars
  <2>2. PacketsCalm
    BY <2>1 DEF PacketsCalm, IsNew
  <2>3. \A u \in Agents : Matches(u)' <=> Matches(u)
    BY <2>1 DEF Matches
  <2>4. CASE irpRoutine[r]
    BY <2>1, <2>2, <2>3, <2>4, CancelTakes
  <2>5. CASE ~irpRoutine[r]
    <3>1. irpRoutine' = irpRoutine
      BY <2>1, <2>5 DEF TypeOK, DataTypeOK
    <3>2. ReadsCalm
      BY <2>1, <2>3, <3>1 DEF ReadsCalm
    <3>3. QED BY <2>2, <3>2, CalmStep
  <2>6. QED BY <2>4, <2>5
<1>4. QED BY <1>2, <1>3

\* The critical section of NdisProtCancelRead takes a read away that does not
\* wait any more; the completion shows what has been decided.
LEMMA CancelReadStep ==
    ASSUME Sound, TypeOK', ReadInv', NEW r \in Reads, CancelRead(r)
    PROVE  DeliveryStep
<1> USE DEF Sound
<1>1. UNCHANGED <<pc, curIrp, curPkt, RecvPktQueue, irpRoutine, irpData>>
  BY DEF CancelRead, CancelReadUnlink, CancelReadComplete, CancelReadDeref, recvVars, irpVars,
     curVars
<1>2. PacketsCalm /\ \A u \in Agents : Matches(u)' <=> Matches(u)
  BY <1>1 DEF PacketsCalm, IsNew, Matches
<1>3. CASE UNCHANGED <<PendedReads, irpStatus>>
  <2>1. ReadsCalm
    BY <1>1, <1>2, <1>3 DEF ReadsCalm
  <2>2. QED BY <1>2, <2>1, CalmStep
<1>4. ASSUME NEW i \in 1 .. Len(PendedReads), cancelPc[r] = "lock", PendedReads[i] = r,
             PendedReads' = RemoveAt(PendedReads, i), UNCHANGED irpStatus
      PROVE  DeliveryStep
  <2>1. PendedReads \in Seq(Reads) /\ ~irpRoutine[r] /\ ~Waits(r)
    BY <1>4 DEF TypeOK, ContextTypeOK, ReadInv, QueuedReads, Waits
  <2>2. \A q : q # r => (Contains(PendedReads', q) <=> Contains(PendedReads, q))
    BY <1>4, <2>1, RemoveOne DEF ReadInv, NoReadTwice
  <2>3. \A q, u \in Reads : q # r /\ u # r =>
            (Before(PendedReads', q, u) <=> Before(PendedReads, q, u))
    BY <1>4, <2>1, BeforeRemove
  <2>4. \A q \in Reads : Waits(q)' <=> Waits(q)
    BY <1>1, <2>1, <2>2 DEF Waits
  <2>5. Waiting' = Waiting /\ Ahead' = Ahead
    BY <2>1, <2>3, <2>4, LineKept
  <2>6. \A q \in Reads : Outcome(q)' = Outcome(q)
    BY <1>1, <1>2, <1>4, OutcomeKept
  <2>7. UNCHANGED Delivery!vars
    BY <1>2, <2>5, <2>6, SameOutcomes
  <2>8. GivenPackets'
    BY <1>1, <1>2, <1>4, GivenKept DEF PacketsCalm, Settled
  <2>9. QED BY <2>7, <2>8 DEF DeliveryStep
<1>5. CASE CancelReadComplete(r)
  <2>1. cancelPc[r] = "complete" /\ irpStatus' = [irpStatus EXCEPT ![r] = "CANCELLED"]
        /\ PendedReads' = PendedReads
    BY <1>5 DEF CancelReadComplete, Complete, readVars
  <2>2. irpStatus[r] = "pending" /\ ~irpRoutine[r]
    BY <2>1 DEF ReadInv, CancelledReads, QueuedReads
  <2>3. \A u \in Agents : Matches(u) => curIrp[u] # r
    BY <2>1 DEF ReadInv, TakenReads, Matches, OwnsIrp
  <2>4. \A q \in Reads : irpStatus'[q] = IF q = r THEN "CANCELLED" ELSE irpStatus[q]
    BY <2>1 DEF TypeOK, DataTypeOK
  <2>5. Outcome(r) = "cancelled"
    BY <2>2, <2>3, OutcomeIs DEF OutcomeRules
  <2>6. Outcome(r)' = "cancelled"
    BY <2>4, OutcomeIsNext DEF OutcomeRules
  <2>7. \A q \in Reads : q # r => Outcome(q)' = Outcome(q)
    BY <1>1, <1>2, <2>4, OutcomeKept
  <2>8. Waiting' = Waiting /\ Ahead' = Ahead
    BY <1>1, <2>1 DEF Waiting, Ahead
  <2>9. UNCHANGED Delivery!vars
    BY <1>2, <2>5, <2>6, <2>7, <2>8, SameOutcomes
  <2>10. GivenPackets'
    BY <1>1, <1>2, <2>4, GivenKept DEF PacketsCalm, Settled
  <2>11. QED BY <2>9, <2>10 DEF DeliveryStep
<1>6. CASE CancelReadUnlink(r)
  BY <1>3, <1>4, <1>6 DEF CancelReadUnlink, readVars, irpVars
<1>7. CASE CancelReadDeref(r)
  BY <1>3, <1>7 DEF CancelReadDeref, readVars, irpVars
<1>8. QED BY <1>5, <1>6, <1>7 DEF CancelRead

\* A thread completes the read it took off PendedReads: with the packet it has
\* beside it, or as cancelled.
LEMMA CompleteStep ==
    ASSUME Sound, TypeOK', ReadInv', NEW t \in Agents, NEW label,
           label \notin {"svcDerefPkt", "svcComplete", "idle", "transfer", "rcvRef", "rcvLock"},
           Goto(t, label),
           UNCHANGED <<PendedReads, RecvPktQueue, irpRoutine, curIrp, curPkt>>,
           \/ /\ pc[t] = "svcComplete" /\ Complete(curIrp[t], "SUCCESS")
              /\ irpData' = [irpData EXCEPT ![curIrp[t]] = curPkt[t]]
           \/ /\ pc[t] = "cprComplete" /\ Complete(curIrp[t], "CANCELLED")
              /\ UNCHANGED irpData
    PROVE  DeliveryStep
<1> USE DEF Sound
<1>1. PICK r : r = curIrp[t]
  OBVIOUS
<1>2. OwnsIrp(t)
  BY DEF OwnsIrp
<1>3. /\ r \in Reads /\ ~Contains(PendedReads, r) /\ irpStatus[r] = "pending"
      /\ \A u \in Agents : OwnsIrp(u) /\ curIrp[u] = r => u = t
  BY <1>1, <1>2 DEF ReadInv, TakenReads
<1>4. ~irpRoutine[r]
  BY <1>3 DEF ReadInv, QueuedReads
<1>5. \A u \in Agents : pc'[u] = IF u = t THEN label ELSE pc[u]
  BY DEF Goto, TypeOK, LabelsOK
<1>6. PacketsCalm
  BY <1>5 DEF PacketsCalm, IsNew, Agents
<1>7. \A u \in Agents : Matches(u)' <=> Matches(u) /\ u # t
  BY <1>5 DEF Matches
<1>8. \A u \in Agents : Matches(u) /\ curIrp[u] = r => u = t
  BY <1>3 DEF Matches, OwnsIrp
<1>9. Waiting' = Waiting /\ Ahead' = Ahead
  BY DEF Waiting, Ahead
<1>10. ASSUME NEW q \in Reads, q # r, irpStatus'[q] = irpStatus[q], irpData'[q] = irpData[q]
       PROVE  Outcome(q)' = Outcome(q)
  BY <1>1, <1>7, <1>10, OutcomeKept
<1>11. CASE pc[t] = "svcComplete"
  <2>1. /\ \A q \in Reads : irpStatus'[q] = IF q = r THEN "SUCCESS" ELSE irpStatus[q]
        /\ \A q \in Reads : irpData'[q] = IF q = r THEN curPkt[t] ELSE irpData[q]
    BY <1>1, <1>3, <1>11 DEF Complete, TypeOK, DataTypeOK
  <2>2. Outcome(r) = curPkt[t]
    BY <1>1, <1>3, <1>11, OutcomeIs DEF OutcomeRules, Matches
  <2>3. Outcome(r)' = curPkt[t]
    BY <1>3, <2>1, OutcomeIsNext DEF OutcomeRules
  <2>4. \A q \in Reads : Outcome(q)' = Outcome(q)
    BY <1>10, <2>1, <2>2, <2>3
  <2>5. UNCHANGED Delivery!vars
    BY <1>6, <1>9, <2>4, SameOutcomes
  <2>6. curPkt[t] \in Packets
    BY <1>11 DEF PacketInv, HandledPackets, OwnsPacket
  <2>7. Settled(curPkt[t])
    BY <1>3, <2>2, <2>6, GivenIsSettled DEF Given
  <2>8. \A p \in Packets : Settled(p)' <=> Settled(p)
    BY <1>6 DEF PacketsCalm, Settled
  <2>9. ASSUME NEW q \in Reads, irpStatus'[q] = "SUCCESS"
        PROVE  /\ irpData'[q] \in Packets /\ ~Contains(RecvPktQueue', irpData'[q])
               /\ pc'[irpData'[q]] \notin {"idle", "transfer", "rcvRef", "rcvLock"}
    <3>1. PICK x : x = irpData'[q]
      OBVIOUS
    <3>2. x \in Packets /\ Settled(x)
      <4>1. CASE q = r
        BY <2>1, <2>6, <2>7, <3>1, <4>1
      <4>2. CASE q # r
        BY <2>1, <2>9, <3>1, <4>2 DEF GivenPackets
      <4>3. QED BY <4>1, <4>2
    <3>3. Settled(x)'
      BY <2>8, <3>2
    <3>4. QED BY <3>1, <3>2, <3>3 DEF Settled, IsNew
  <2>10. GivenPackets'
    BY <2>9 DEF GivenPackets, Settled, IsNew
  <2>11. QED BY <2>5, <2>10 DEF DeliveryStep
<1>12. CASE pc[t] = "cprComplete"
  <2>1. /\ \A q \in Reads : irpStatus'[q] = IF q = r THEN "CANCELLED" ELSE irpStatus[q]
        /\ UNCHANGED irpData
    BY <1>1, <1>3, <1>12 DEF Complete, TypeOK, DataTypeOK
  <2>2. \A u \in Agents : Matches(u) => curIrp[u] # r
    BY <1>8, <1>12 DEF Matches
  <2>3. Outcome(r) = "cancelled"
    BY <1>3, <1>4, <2>2, OutcomeIs DEF OutcomeRules
  <2>4. Outcome(r)' = "cancelled"
    BY <1>3, <2>1, OutcomeIsNext DEF OutcomeRules
  <2>5. \A q \in Reads : Outcome(q)' = Outcome(q)
    BY <1>10, <2>1, <2>3, <2>4
  <2>6. UNCHANGED Delivery!vars
    BY <1>6, <1>9, <2>5, SameOutcomes
  <2>7. GivenPackets'
    BY <1>6, <2>1, GivenKept DEF PacketsCalm, Settled
  <2>8. QED BY <2>6, <2>7 DEF DeliveryStep
<1>13. QED BY <1>11, <1>12

-----------------------------------------------------------------------------
(* Steps of packets, as a reader sees them.                                 *)

\* What a step shows that takes the oldest packet off the queue: it is not
\* buffered any more, and nothing else changes but who got it.
LEMMA DequeueShows ==
    ASSUME Sound, RecvPktQueue # <<>>, RecvPktQueue' = Tail(RecvPktQueue),
           \A p \in Packets : IsNew(p)' <=> IsNew(p)
    PROVE  /\ Head(RecvPktQueue) \in Packets
           /\ Contains(RecvPktQueue, Head(RecvPktQueue))
           /\ \A x : Contains(RecvPktQueue', x) <=>
                 Contains(RecvPktQueue, x) /\ x # Head(RecvPktQueue)
           /\ ~Given(Head(RecvPktQueue)) /\ ~IsNew(Head(RecvPktQueue))
           /\ \A p \in Packets : Settled(p) => Settled(p)'
<1> USE DEF Sound
<1>1. RecvPktQueue \in Seq(Packets)
  BY DEF TypeOK, ContextTypeOK
<1>2. PICK h : h = Head(RecvPktQueue)
  OBVIOUS
<1>3. h \in Packets /\ Contains(RecvPktQueue, h)
  BY <1>1, <1>2, EmptySeq, LenProperties, HeadTailProperties DEF Contains
<1>4. \A x : Contains(RecvPktQueue', x) <=> Contains(RecvPktQueue, x) /\ x # h
  BY <1>1, <1>2, TailOne DEF PacketInv, NoPacketTwice
<1>5. ~Given(h)
  BY <1>3, GivenIsSettled DEF Settled
<1>6. ~IsNew(h)
  BY <1>3 DEF PacketInv, QueuedPackets, IdlePackets, IsNew, Arriving, ArrivalLabels
<1>7. \A p \in Packets : Settled(p) => Settled(p)'
  BY <1>4 DEF Settled
<1>8. QED BY <1>2, <1>3, <1>4, <1>5, <1>6, <1>7

\* A turn of the service loop: the oldest packet goes to the first of the reads
\* that wait.
LEMMA MatchStep ==
    ASSUME Sound, TypeOK', ReadInv', NEW t \in Agents, pc[t] \in {"svcLock", "svcRelock"},
           RecvPktQueue # <<>>, NEW i \in 1 .. Len(PendedReads), IsFirstTakable(i),
           irpRoutine' = [irpRoutine EXCEPT ![PendedReads[i]] = FALSE],
           curIrp' = [curIrp EXCEPT ![t] = PendedReads[i]],
           PendedReads' = RemoveAt(PendedReads, i),
           curPkt' = [curPkt EXCEPT ![t] = Head(RecvPktQueue)],
           RecvPktQueue' = Tail(RecvPktQueue),
           Goto(t, "svcDerefPkt"), UNCHANGED <<irpStatus, irpData>>
    PROVE  DeliveryStep
<1> USE DEF Sound
<1>1. PICK r : r = PendedReads[i]
  OBVIOUS
<1>2. PendedReads \in Seq(Reads) /\ r \in Reads /\ Contains(PendedReads, r) /\ irpRoutine[r]
  BY <1>1, ElementOfSeq DEF TypeOK, ContextTypeOK, Contains, IsFirstTakable
<1>3. irpStatus[r] = "pending"
  BY <1>2 DEF ReadInv, QueuedReads
<1>4. \A q \in Reads : /\ irpRoutine'[q] <=> irpRoutine[q] /\ q # r
                       /\ q # r => irpRoutine'[q] = irpRoutine[q]
  BY <1>1 DEF TypeOK, DataTypeOK
<1>5. \A u \in Agents : pc'[u] = IF u = t THEN "svcDerefPkt" ELSE pc[u]
  BY DEF Goto, TypeOK, LabelsOK
<1>6. \A u \in Agents : /\ curIrp'[u] = IF u = t THEN r ELSE curIrp[u]
                        /\ curPkt'[u] = IF u = t THEN Head(RecvPktQueue) ELSE curPkt[u]
  BY <1>1 DEF TypeOK, ThreadTypeOK
<1>7. /\ \A u \in Agents : Matches(u)' <=> Matches(u) \/ u = t
      /\ ~Matches(t)
      /\ \A p \in Packets : IsNew(p)' <=> IsNew(p)
  BY <1>5 DEF Matches, IsNew, Agents
<1>8. \A q : Contains(PendedReads', q) <=> Contains(PendedReads, q) /\ q # r
  BY <1>1, <1>2, RemoveOne DEF ReadInv, NoReadTwice
<1>9. \A q, u \in Reads : q # r /\ u # r =>
          (Before(PendedReads', q, u) <=> Before(PendedReads, q, u))
  BY <1>1, <1>2, BeforeRemove
<1>10. Delivery!Leave(r)
  BY <1>2, <1>4, <1>8, <1>9, LineLosesRead DEF Waits
<1>11. r \in Waiting
  BY <1>2 DEF Waiting
<1>12. \A q \in Waiting : <<q, r>> \notin Ahead
  <2>1. ASSUME NEW q \in Reads, Waits(q), Before(PendedReads, q, r) PROVE FALSE
    <3>1. PICK j \in 1 .. Len(PendedReads) : \E k \in 1 .. (j - 1) :
              PendedReads[k] = q /\ PendedReads[j] = r
      BY <2>1 DEF Before
    <3>2. j = i
      BY <1>1, <3>1 DEF ReadInv, NoReadTwice
    <3>3. PICK k \in 1 .. (i - 1) : PendedReads[k] = q
      BY <3>1, <3>2
    <3>4. ~irpRoutine[q]
      BY <3>3 DEF IsFirstTakable
    <3>5. QED BY <2>1, <3>4 DEF Waits
  <2>2. QED BY <2>1, LineIs DEF LineListed
<1>13. PICK p : p = Head(RecvPktQueue)
  OBVIOUS
<1>14. /\ p \in Packets /\ Contains(RecvPktQueue, p)
       /\ \A x : Contains(RecvPktQueue', x) <=> Contains(RecvPktQueue, x) /\ x # p
       /\ \A x \in Packets : Settled(x) => Settled(x)'
  BY <1>7, <1>13, DequeueShows
<1>15. Outcome(r) = "waiting"
  BY <1>2, <1>3, OutcomeIs DEF OutcomeRules
<1>16. Outcome(r)' = p
  <2>1. Matches(t)' /\ curIrp'[t] = r /\ curPkt'[t] = p
    BY <1>6, <1>7, <1>13
  <2>2. QED BY <1>2, <2>1, OutcomeIsNext DEF OutcomeRules
<1>17. ASSUME NEW q \in Reads, q # r PROVE Outcome(q)' = Outcome(q)
  <2>1. \A u \in Agents :
            /\ Matches(u)' /\ curIrp'[u] = q <=> Matches(u) /\ curIrp[u] = q
            /\ Matches(u) /\ curIrp[u] = q => curPkt'[u] = curPkt[u]
    BY <1>6, <1>7, <1>17
  <2>2. QED BY <1>4, <1>17, <2>1, OutcomeKept
<1>18. Outcomes' = [Outcomes EXCEPT ![r] = p]
  BY <1>16, <1>17 DEF Outcomes
<1>19. Fates' = [Fates EXCEPT ![p] = "delivered"]
  <2>1. Fate(p)' = "delivered"
    BY <1>2, <1>14, <1>16 DEF Fate
  <2>2. ASSUME NEW x \in Packets, x # p PROVE Fate(x)' = Fate(x)
    <3>1. Outcome(r) # x /\ Outcome(r)' # x
      BY <1>15, <1>16, <2>2, OutcomeAssumption
    <3>2. (\E q \in Reads : Outcome(q) = x)' <=> \E q \in Reads : Outcome(q) = x
      BY <1>17, <3>1
    <3>3. QED BY <1>7, <1>14, <2>2, <3>2 DEF Fate
  <2>3. QED BY <2>1, <2>2 DEF Fates
<1>20. Delivery!Match
  BY <1>10, <1>11, <1>12, <1>13, <1>18, <1>19 DEF Delivery!Match
<1>21. GivenPackets'
  BY <1>14, GivenKept
<1>22. QED BY <1>20, <1>21 DEF DeliveryStep, Delivery!Next

\* A packet that is dropped before the queue.
LEMMA RefuseStep ==
    ASSUME Sound, TypeOK', ReadInv', ReadsCalm, NEW p \in Packets,
           pc[p] \in {"transfer", "rcvLock"}, RecvPktQueue' = RecvPktQueue,
           NEW label, label \notin {"idle", "transfer", "rcvRef", "rcvLock"}, Goto(p, label)
    PROVE  DeliveryStep
<1> USE DEF Sound
<1>1. \A u \in Agents : pc'[u] = IF u = p THEN label ELSE pc[u]
  BY DEF Goto, TypeOK, LabelsOK
<1>2. \A q \in Packets : IsNew(q)' <=> IsNew(q) /\ q # p
  BY <1>1 DEF IsNew, Agents
<1>3. IsNew(p) /\ Arriving(p)
  BY DEF IsNew, Arriving, ArrivalLabels
<1>4. ~Contains(RecvPktQueue, p)
  BY <1>3 DEF PacketInv, QueuedPackets
<1>5. ~Given(p)
  BY <1>3, GivenIsSettled DEF Settled
<1>6. /\ Waiting' = Waiting /\ Ahead' = Ahead /\ Outcomes' = Outcomes
      /\ \A q \in Packets : Given(q)' <=> Given(q)
  BY ReadsCalmKeeps
<1>7. Fate(p) = "new" /\ Fate(p)' = "lost"
  BY <1>2, <1>3, <1>4, <1>5, <1>6 DEF Fate, Given
<1>8. \A q \in Packets : q # p => Fate(q)' = Fate(q)
  BY <1>2, <1>6 DEF Fate, Given
<1>9. Fates[p] = "new" /\ Fates' = [Fates EXCEPT ![p] = "lost"]
  BY <1>7, <1>8 DEF Fates
<1>10. Delivery!Refuse(p)
  BY <1>6, <1>9 DEF Delivery!Refuse
<1>11. GivenPackets'
  <2>1. \A q \in Packets : Settled(q) => Settled(q)'
    BY <1>2 DEF Settled
  <2>2. QED BY <2>1, GivenKept DEF ReadsCalm
<1>12. QED BY <1>10, <1>11 DEF DeliveryStep, Delivery!Next

\* A turn of a flush.
LEMMA DiscardStep ==
    ASSUME Sound, TypeOK', ReadInv', ReadsCalm,
           RecvPktQueue # <<>>, RecvPktQueue' = Tail(RecvPktQueue),
           \A q \in Packets : IsNew(q)' <=> IsNew(q)
    PROVE  DeliveryStep
<1>1. PICK p : p = Head(RecvPktQueue)
  OBVIOUS
<1>2. /\ p \in Packets /\ Contains(RecvPktQueue, p)
      /\ \A x : Contains(RecvPktQueue', x) <=> Contains(RecvPktQueue, x) /\ x # p
      /\ ~Given(p) /\ ~IsNew(p)
      /\ \A x \in Packets : Settled(x) => Settled(x)'
  BY <1>1, DequeueShows
<1>3. /\ Waiting' = Waiting /\ Ahead' = Ahead /\ Outcomes' = Outcomes
      /\ \A q \in Packets : Given(q)' <=> Given(q)
  BY ReadsCalmKeeps DEF Sound
<1>4. Fate(p)' = "lost"
  BY <1>2, <1>3 DEF Fate, Given
<1>5. \A q \in Packets : q # p => Fate(q)' = Fate(q)
  BY <1>2, <1>3 DEF Fate, Given
<1>6. Fates' = [Fates EXCEPT ![p] = "lost"]
  BY <1>4, <1>5 DEF Fates
<1>7. Delivery!Discard
  BY <1>1, <1>3, <1>6 DEF Delivery!Discard
<1>8. GivenPackets'
  BY <1>2, GivenKept DEF ReadsCalm, Sound
<1>9. QED BY <1>7, <1>8 DEF DeliveryStep, Delivery!Next

\* ndisprotQueueReceivePacket buffers the packet, and above the water mark
\* drops the oldest, which may be that packet.
LEMMA ArriveStep ==
    ASSUME Sound, RecvQueueIsBounded, TypeOK', ReadInv', NEW p \in Packets, QueueReceivePacket(p)
    PROVE  DeliveryStep
<1> USE DEF Sound
<1>1. /\ RecvPktQueue \in Seq(Packets) /\ RecvPktCount = Len(RecvPktQueue)
      /\ p \in Agents /\ pc[p] = "rcvLock"
      /\ UNCHANGED <<PendedReads, irpRoutine, irpStatus, irpData, curIrp>>
  BY DEF TypeOK, ContextTypeOK, RecvQueueIsBounded, QueueReceivePacket, readVars, irpVars, Agents
<1>2. PICK queue : queue = Append(RecvPktQueue, p)
  OBVIOUS
<1>3. PICK head : head = Head(queue)
  OBVIOUS
<1>4. PICK full \in BOOLEAN : full <=> ~(Len(RecvPktQueue) < MaxRecvQueueSize)
  OBVIOUS
<1>5. IsTooLong(RecvPktCount + 1) <=> full
  BY <1>1, <1>4, SizeAssumption, LenProperties DEF IsTooLong
<1>6. /\ RecvPktQueue' = IF full THEN Tail(queue) ELSE queue
      /\ Goto(p, IF full THEN "rcvDiscard" ELSE "svcRef")
      /\ \A u \in Agents : u # p => curPkt'[u] = curPkt[u]
  BY <1>2, <1>5 DEF QueueReceivePacket, TypeOK, ThreadTypeOK
<1>7. \A u \in Agents : pc'[u] = IF u = p THEN (IF full THEN "rcvDiscard" ELSE "svcRef") ELSE pc[u]
  BY <1>6 DEF Goto, TypeOK, LabelsOK
<1>8. /\ \A u \in Agents : /\ Matches(u)' <=> Matches(u)
                           /\ Matches(u) => u # p
      /\ \A q \in Packets : IsNew(q)' <=> IsNew(q) /\ q # p
      /\ IsNew(p) /\ Arriving(p)
  BY <1>1, <1>7 DEF Matches, IsNew, Agents, Arriving, ArrivalLabels
<1>9. ReadsCalm
  BY <1>1, <1>6, <1>8 DEF ReadsCalm
<1>10. /\ Waiting' = Waiting /\ Ahead' = Ahead /\ Outcomes' = Outcomes
       /\ \A q \in Packets : Given(q)' <=> Given(q)
  BY <1>9, ReadsCalmKeeps
<1>11. ~Contains(RecvPktQueue, p)
  BY <1>8 DEF PacketInv, QueuedPackets
<1>12. ~Given(p)
  BY <1>8, GivenIsSettled DEF Settled
<1>13. /\ queue \in Seq(Packets) /\ queue # <<>>
       /\ \A j, k \in 1 .. Len(queue) : queue[j] = queue[k] => j = k
       /\ \A x : Contains(queue, x) <=> Contains(RecvPktQueue, x) \/ x = p
  <2>1. \A j, k \in 1 .. Len(RecvPktQueue) : RecvPktQueue[j] = RecvPktQueue[k] => j = k
    BY DEF PacketInv, NoPacketTwice
  <2>2. queue \in Seq(Packets) /\ queue # <<>>
    BY <1>1, <1>2, AppendProperties
  <2>3. QED BY <1>1, <1>2, <1>11, <2>1, <2>2, AppendOne
<1>14. head \in Packets /\ Contains(queue, head)
  BY <1>3, <1>13, EmptySeq, LenProperties, HeadTailProperties DEF Contains
<1>15. \A x : Contains(Tail(queue), x) <=> Contains(queue, x) /\ x # head
  BY <1>3, <1>13, TailOne
<1>16. \A x : Contains(RecvPktQueue', x) <=>
           (Contains(RecvPktQueue, x) \/ x = p) /\ ~(full /\ x = head)
  BY <1>6, <1>13, <1>15
<1>17. ~Given(head)
  <2>1. CASE head = p
    BY <1>12, <2>1
  <2>2. CASE Contains(RecvPktQueue, head)
    BY <1>14, <2>2, GivenIsSettled DEF Settled
  <2>3. QED BY <1>13, <1>14, <2>1, <2>2
<1>18. Fate(p) = "new"
  BY <1>8, <1>11, <1>12 DEF Fate, Given
<1>19. \A q \in Packets : q # p /\ ~(full /\ q = head) => Fate(q)' = Fate(q)
  BY <1>8, <1>10, <1>16 DEF Fate, Given
<1>20. ~(full /\ head = p) => Fate(p)' = "buffered"
  BY <1>16 DEF Fate
<1>21. full => Fate(head)' = "lost"
  <2>1. ASSUME full PROVE Fate(head)' = "lost"
    <3>1. ~Contains(RecvPktQueue', head)
      BY <1>16, <2>1
    <3>2. ~IsNew(head)
        \/ head = p
      BY <1>13, <1>14 DEF PacketInv, QueuedPackets, IdlePackets, IsNew, Arriving, ArrivalLabels
    <3>3. ~IsNew(head)'
      BY <1>8, <1>14, <3>2
    <3>4. ~Given(head)'
      BY <1>10, <1>14, <1>17
    <3>5. QED BY <3>1, <3>3, <3>4 DEF Fate, Given
  <2>2. QED BY <2>1
<1>22. Fates[p] = "new"
  BY <1>18 DEF Fates
<1>23. Fates' = IF full THEN [Fates EXCEPT ![p] = "buffered", ![head] = "lost"]
                ELSE [Fates EXCEPT ![p] = "buffered"]
  <2>1. CASE full
    <3>1. \A q \in Packets : Fate(q)' = IF q = head THEN "lost" ELSE
                                 IF q = p THEN "buffered" ELSE Fate(q)
      BY <1>19, <1>20, <1>21, <2>1
    <3>2. QED BY <1>14, <2>1, <3>1 DEF Fates
  <2>2. CASE ~full
    <3>1. \A q \in Packets : Fate(q)' = IF q = p THEN "buffered" ELSE Fate(q)
      BY <1>19, <1>20, <2>2
    <3>2. QED BY <2>2, <3>1 DEF Fates
  <2>3. QED BY <2>1, <2>2
<1>24. Delivery!Arrive(p)
  BY <1>2, <1>3, <1>4, <1>6, <1>10, <1>22, <1>23 DEF Delivery!Arrive
<1>25. GivenPackets'
  <2>1. \A q \in Packets : Settled(q) => Settled(q)'
    BY <1>8, <1>16 DEF Settled
  <2>2. QED BY <1>9, <2>1, GivenKept DEF ReadsCalm
<1>26. QED BY <1>24, <1>25 DEF DeliveryStep, Delivery!Next

-----------------------------------------------------------------------------
(* The routines, step by step.                                              *)

\* A turn of the service loop gives a packet to a read or leaves.
LEMMA TurnStep ==
    ASSUME Sound, TypeOK', ReadInv', NEW t \in Agents, pc[t] \in {"svcLock", "svcRelock"},
           ServiceTurn(t), UNCHANGED <<irpStatus, irpData>>
    PROVE  DeliveryStep
<1>1. CASE /\ RecvPktQueue # <<>>
           /\ \E i \in 1 .. Len(PendedReads) :
                 /\ IsFirstTakable(i)
                 /\ irpRoutine' = [irpRoutine EXCEPT ![PendedReads[i]] = FALSE]
                 /\ curIrp' = [curIrp EXCEPT ![t] = PendedReads[i]]
                 /\ PendedReads' = RemoveAt(PendedReads, i)
           /\ curPkt' = [curPkt EXCEPT ![t] = Head(RecvPktQueue)]
           /\ RecvPktQueue' = Tail(RecvPktQueue)
           /\ Goto(t, "svcDerefPkt")
  BY <1>1, MatchStep
<1>2. CASE /\ Goto(t, "svcDerefTemp")
           /\ UNCHANGED <<PendedReads, recvVars, irpRoutine, curVars>>
  BY <1>2, CalmGoto DEF Matches, IsNew, recvVars, curVars
<1>3. QED BY <1>1, <1>2 DEF ServiceTurn

\* ndisprotServiceReads.
LEMMA ServiceStep ==
    ASSUME Sound, TypeOK', ReadInv', NEW t \in Reads \cup Packets, ServiceReads(t)
    PROVE  DeliveryStep
<1>1. t \in Agents
  BY DEF Agents
<1> USE DEF Matches, IsNew, readVars, recvVars, irpVars, curVars
<1>2. CASE ServiceFirst(t)
  BY <1>1, <1>2, TurnStep DEF ServiceFirst
<1>3. CASE ServiceAgain(t)
  BY <1>1, <1>3, TurnStep DEF ServiceAgain
<1>4. CASE ServiceComplete(t)
  BY <1>1, <1>4, CompleteStep DEF ServiceComplete
<1>5. CASE ServiceRef(t)
  BY <1>1, <1>5, CalmGoto DEF ServiceRef
<1>6. CASE ServiceDerefPacket(t)
  BY <1>1, <1>6, CalmGoto DEF ServiceDerefPacket
<1>7. CASE ServiceFree(t)
  <2>1. \A u \in Agents : Matches(u) => curPkt'[u] = curPkt[u]
    BY <1>1, <1>7 DEF ServiceFree, Sound, TypeOK, ThreadTypeOK
  <2>2. QED BY <1>1, <1>7, <2>1, CalmGoto DEF ServiceFree
<1>8. CASE ServiceDerefRead(t)
  <2>1. \A u \in Agents : Matches(u) => curIrp'[u] = curIrp[u]
    BY <1>1, <1>8 DEF ServiceDerefRead, Sound, TypeOK, ThreadTypeOK
  <2>2. QED BY <1>1, <1>8, <2>1, CalmGoto DEF ServiceDerefRead
<1>9. CASE ServiceReturn(t)
  BY <1>1, <1>9, CalmGoto DEF ServiceReturn
<1>10. QED
  BY <1>2, <1>3, <1>4, <1>5, <1>6, <1>7, <1>8, <1>9 DEF ServiceReads

\* An indication.
LEMMA IndicationStep ==
    ASSUME Sound, RecvQueueIsBounded, TypeOK', ReadInv', NEW p \in Packets,
           Receive(p) \/ IndicateMiniportPacket(p) \/ IndicateCopy(p)
    PROVE  DeliveryStep
<1>1. p \in Agents
  BY DEF Agents
<1> USE DEF readVars, recvVars, irpVars, curVars
<1>2. CASE IndicateMiniportPacket(p) \/ IndicateCopy(p)
  <2>1. pc[p] = "idle"
    BY <1>2 DEF IndicateMiniportPacket, IndicateCopy, Sound, ReadInv, NewPackets
  <2>2. PICK label \in {"rcvRef", "transfer"} : Goto(p, label)
    BY <1>2 DEF IndicateMiniportPacket, IndicateCopy
  <2>3. UNCHANGED <<readVars, recvVars, irpVars, curVars>>
    BY <1>2 DEF IndicateMiniportPacket, IndicateCopy
  <2>4. QED BY <1>1, <2>1, <2>2, <2>3, CalmGoto DEF Matches, IsNew
<1>3. CASE TransferDataComplete(p)
  <2>1. pc[p] = "transfer" /\ UNCHANGED <<readVars, recvVars, irpVars, curVars>>
    BY <1>3 DEF TransferDataComplete
  <2>2. CASE Goto(p, "rcvRef")
    BY <1>1, <2>1, <2>2, CalmGoto DEF Matches, IsNew
  <2>3. CASE Goto(p, "done")
    <3>1. ReadsCalm
      BY <1>1, <2>1, <2>3 DEF ReadsCalm, Goto, Matches, Sound, TypeOK, LabelsOK
    <3>2. QED BY <2>1, <2>3, <3>1, RefuseStep
  <2>4. QED BY <1>3, <2>2, <2>3 DEF TransferDataComplete
<1>4. CASE QueueReceivePacketRef(p)
  BY <1>1, <1>4, CalmGoto DEF QueueReceivePacketRef, Matches, IsNew
<1>5. CASE QueueReceivePacket(p)
  BY <1>5, ArriveStep
<1>6. CASE RefuseReceivePacket(p)
  <2>1. /\ pc[p] = "rcvLock" /\ UNCHANGED <<readVars, recvVars, irpVars, curIrp>>
        /\ Goto(p, "rcvDrop") /\ curPkt' = [curPkt EXCEPT ![p] = p]
    BY <1>6 DEF RefuseReceivePacket
  <2>2. \A u \in Agents : /\ Matches(u)' <=> Matches(u)
                          /\ Matches(u) => curPkt'[u] = curPkt[u]
    BY <1>1, <2>1 DEF Goto, Matches, Sound, TypeOK, LabelsOK, ThreadTypeOK
  <2>3. ReadsCalm
    BY <2>1, <2>2 DEF ReadsCalm
  <2>4. QED BY <2>1, <2>3, RefuseStep
<1>7. CASE DiscardFree(p)
  <2>1. PICK label \in {"rcvDropDeref", "rcvDiscardDeref"} : Goto(p, label)
    BY <1>7 DEF DiscardFree
  <2>2. QED BY <1>1, <1>7, <2>1, CalmGoto DEF DiscardFree, Matches, IsNew
<1>8. CASE DiscardDeref(p)
  <2>1. PICK label \in {"done", "svcRef"} : Goto(p, label)
    BY <1>8 DEF DiscardDeref
  <2>2. \A u \in Agents : Matches(u) => curPkt'[u] = curPkt[u]
    BY <1>1, <1>8 DEF DiscardDeref, Matches, Sound, TypeOK, ThreadTypeOK
  <2>3. QED BY <1>1, <1>8, <2>1, <2>2, CalmGoto DEF DiscardDeref, Matches, IsNew
<1>9. QED
  BY <1>2, <1>3, <1>4, <1>5, <1>6, <1>7, <1>8 DEF Receive

\* One turn of ndisprotCancelPendingReads.
LEMMA CancelTurnStep ==
    ASSUME Sound, TypeOK', ReadInv', NEW t \in {"cleanup", "pnp"},
           pc[t] \in {"cprLock", "cprRelock"},
           CancelPendingTurn(t), UNCHANGED <<RecvPktQueue, irpStatus, irpData, curPkt>>
    PROVE  DeliveryStep
<1>1. t \in Agents /\ t \notin Packets
  BY AgentsAssumption DEF Agents
<1>2. CASE /\ PendedReads # <<>> /\ irpRoutine[Head(PendedReads)]
           /\ irpRoutine' = [irpRoutine EXCEPT ![Head(PendedReads)] = FALSE]
           /\ curIrp' = [curIrp EXCEPT ![t] = Head(PendedReads)]
           /\ PendedReads' = Tail(PendedReads)
           /\ Goto(t, "cprComplete")
  <2>1. PICK r \in Reads : r = Head(PendedReads)
    BY <1>2, HeadTailProperties DEF Sound, TypeOK, ContextTypeOK
  <2>2. \A u \in Agents : pc'[u] = IF u = t THEN "cprComplete" ELSE pc[u]
    BY <1>2 DEF Goto, Sound, TypeOK, LabelsOK
  <2>3. \A u \in Agents : u # t => curIrp'[u] = curIrp[u]
    BY <1>2 DEF Sound, TypeOK, ThreadTypeOK
  <2>4. \A u \in Agents : /\ Matches(u)' <=> Matches(u)
                          /\ Matches(u) => curIrp'[u] = curIrp[u]
    BY <2>2, <2>3 DEF Matches
  <2>5. PacketsCalm
    BY <1>1, <2>2 DEF PacketsCalm, IsNew, Agents
  <2>6. QED BY <1>2, <2>1, <2>4, <2>5, CancelTakes
<1>3. CASE Goto(t, "cprDerefTemp") /\ UNCHANGED <<PendedReads, irpRoutine, curIrp>>
  BY <1>1, <1>3, CalmGoto DEF Matches
<1>4. QED BY <1>2, <1>3 DEF CancelPendingTurn

\* ndisprotCancelPendingReads.
LEMMA CancelPendingStep ==
    ASSUME Sound, TypeOK', ReadInv', NEW t \in {"cleanup", "pnp"}, CancelPendingReads(t)
    PROVE  DeliveryStep
<1>1. t \in Agents /\ t \notin Packets
  BY AgentsAssumption DEF Agents
<1> USE DEF Matches, readVars, recvVars, irpVars, curVars
<1>2. CASE CancelPendingFirst(t)
  BY <1>2, CancelTurnStep DEF CancelPendingFirst
<1>3. CASE CancelPendingAgain(t)
  <2>1. /\ pc[t] = "cprRelock"
        /\ UNCHANGED <<recvVars, irpStatus, irpData, curPkt>>
    BY <1>3 DEF CancelPendingAgain
  <2>2. CASE CancelPendingTurn(t)
    BY <2>1, <2>2, CancelTurnStep
  <2>3. CASE Goto(t, "cprLock") /\ UNCHANGED <<PendedReads, irpRoutine, curIrp>>
    BY <1>1, <2>1, <2>3, CalmGoto
  <2>4. QED BY <1>3, <2>2, <2>3 DEF CancelPendingAgain
<1>4. CASE CancelPendingComplete(t)
  BY <1>1, <1>4, CompleteStep DEF CancelPendingComplete
<1>5. CASE CancelPendingRef(t)
  BY <1>1, <1>5, CalmGoto DEF CancelPendingRef
<1>6. CASE CancelPendingDeref(t)
  <2>1. \A u \in Agents : Matches(u) => curIrp'[u] = curIrp[u]
    BY <1>1, <1>6 DEF CancelPendingDeref, Sound, TypeOK, ThreadTypeOK
  <2>2. QED BY <1>1, <1>6, <2>1, CalmGoto DEF CancelPendingDeref
<1>7. CASE CancelPendingReturn(t)
  <2>1. PICK label \in {"flRef", "waitReads"} : Goto(t, label)
    BY <1>7 DEF CancelPendingReturn
  <2>2. QED BY <1>1, <1>7, <2>1, CalmGoto DEF CancelPendingReturn
<1>8. QED BY <1>2, <1>3, <1>4, <1>5, <1>6, <1>7 DEF CancelPendingReads

\* ndisprotFlushReceiveQueue, which drops the oldest packet turn by turn.
LEMMA FlushStep ==
    ASSUME Sound, TypeOK', ReadInv', NEW t \in {"cleanup", "pnp"}, FlushReceiveQueue(t)
    PROVE  DeliveryStep
<1>1. t \in Agents /\ t \notin Packets
  BY AgentsAssumption DEF Agents
<1> USE DEF Matches, readVars, recvVars, irpVars, curVars
<1>2. CASE FlushTurn(t)
  <2>1. /\ pc[t] = "flLock"
        /\ UNCHANGED <<readVars, irpVars, curIrp>>
    BY <1>2 DEF FlushTurn
  <2>2. CASE /\ RecvPktQueue # <<>>
             /\ curPkt' = [curPkt EXCEPT ![t] = Head(RecvPktQueue)]
             /\ RecvPktQueue' = Tail(RecvPktQueue)
             /\ Goto(t, "flFree")
    <3>1. \A u \in Agents : /\ pc'[u] = IF u = t THEN "flFree" ELSE pc[u]
                            /\ u # t => curPkt'[u] = curPkt[u]
      BY <2>2 DEF Goto, Sound, TypeOK, LabelsOK, ThreadTypeOK
    <3>2. ReadsCalm
      BY <2>1, <3>1 DEF ReadsCalm
    <3>3. \A q \in Packets : IsNew(q)' <=> IsNew(q)
      BY <1>1, <3>1 DEF IsNew, Agents
    <3>4. QED BY <2>2, <3>2, <3>3, DiscardStep
  <2>3. CASE Goto(t, "flDerefTemp") /\ UNCHANGED <<recvVars, curPkt>>
    BY <1>1, <2>1, <2>3, CalmGoto
  <2>4. QED BY <1>2, <2>2, <2>3 DEF FlushTurn
<1>3. CASE FlushRef(t)
  BY <1>1, <1>3, CalmGoto DEF FlushRef
<1>4. CASE FlushFree(t)
  BY <1>1, <1>4, CalmGoto DEF FlushFree
<1>5. CASE FlushDeref(t)
  <2>1. \A u \in Agents : Matches(u) => curPkt'[u] = curPkt[u]
    BY <1>1, <1>5 DEF FlushDeref, Sound, TypeOK, ThreadTypeOK
  <2>2. QED BY <1>1, <1>5, <2>1, CalmGoto DEF FlushDeref
<1>6. CASE FlushReturn(t)
  <2>1. PICK label \in {"closing", "closeAdapter", "idle"} : Goto(t, label)
    BY <1>6 DEF FlushReturn
  <2>2. QED BY <1>1, <1>6, <2>1, CalmGoto DEF FlushReturn
<1>7. QED BY <1>2, <1>3, <1>4, <1>5, <1>6 DEF FlushReceiveQueue

\* Cleanup, Close, power events and the shutdown, apart from the drains.
LEMMA TeardownStep ==
    ASSUME Sound, TypeOK', ReadInv',
           Cleanup \/ Close \/ PowerDown \/ PowerUp \/ Unbind \/ ShutdownBinding
    PROVE  DeliveryStep
<1>1. \A t \in {"cleanup", "pnp"} : t \in Agents /\ t \notin Packets
  BY AgentsAssumption DEF Agents
<1>2. UNCHANGED <<PendedReads, RecvPktQueue, irpRoutine, irpStatus, irpData, curIrp, curPkt>>
  BY DEF Cleanup, Close, PowerDown, PowerUp, Unbind, ShutdownBinding, WaitForPendingReads,
     CloseAdapter, SetBindIdle, FreeBindResources, ShutdownReturn, readVars, recvVars,
     irpVars, curVars
<1>3. CASE UNCHANGED pc
  <2>1. ReadsCalm /\ PacketsCalm
    BY <1>2, <1>3 DEF ReadsCalm, PacketsCalm, Matches, IsNew
  <2>2. QED BY <2>1, CalmStep DEF Sound
<1>4. ASSUME NEW t \in {"cleanup", "pnp"}, NEW label, Goto(t, label),
             label \notin {"svcDerefPkt", "svcComplete"}, ~Matches(t)
      PROVE  DeliveryStep
  BY <1>1, <1>2, <1>4, CalmGoto
<1>5. UNCHANGED pc \/ \E t \in {"cleanup", "pnp"} : \E label :
          Goto(t, label) /\ label \notin {"svcDerefPkt", "svcComplete"} /\ ~Matches(t)
  BY DEF Cleanup, Close, PowerDown, PowerUp, Unbind, ShutdownBinding, WaitForPendingReads,
     CloseAdapter, SetBindIdle, FreeBindResources, ShutdownReturn, Matches
<1>6. QED BY <1>3, <1>4, <1>5

\* Every step of the driver is a step of the buffer or changes nothing that it
\* shows.
LEMMA DeliveryStepTaken ==
    ASSUME Sound, RecvQueueIsBounded, TypeOK', ReadInv', [Next]_vars
    PROVE  DeliveryStep
<1>1. CASE UNCHANGED vars
  <2>1. ReadsCalm /\ PacketsCalm
    BY <1>1 DEF vars, ReadsCalm, PacketsCalm, Matches, IsNew, readVars, recvVars, irpVars, curVars
  <2>2. QED BY <2>1, CalmStep DEF Sound
<1>2. CASE Environment
  BY <1>2, ClientStep, IndicationStep, TeardownStep DEF Environment
<1>3. ASSUME NEW r \in Reads, ReadThread(r) \/ CancelRead(r) PROVE DeliveryStep
  BY <1>3, PendReadStep, FailReadStep, ServiceStep, CancelReadStep DEF ReadThread
<1>4. ASSUME NEW p \in Packets, PacketThread(p) PROVE DeliveryStep
  BY <1>4, IndicationStep, ServiceStep DEF PacketThread
<1>5. CASE CleanupThread
  BY <1>5, CancelPendingStep, FlushStep, TeardownStep DEF CleanupThread
<1>6. CASE PnPThread
  BY <1>6, CancelPendingStep, FlushStep, TeardownStep DEF PnPThread
<1>7. QED BY <1>1, <1>2, <1>3, <1>4, <1>5, <1>6 DEF Next

\* A binding that nothing has happened on is an empty buffer.
LEMMA DeliveryInit == Init => Delivery!Init /\ IdlePackets /\ GivenPackets
<1> SUFFICES ASSUME Init PROVE Delivery!Init /\ IdlePackets /\ GivenPackets
  OBVIOUS
<1>1. /\ PendedReads = <<>> /\ RecvPktQueue = <<>>
      /\ \A x : ~Contains(RecvPktQueue, x)
  BY EmptySeq DEF Init, Contains
<1>2. \A r \in Reads : Outcome(r) = "unsent"
  BY DEF Init, Outcome
<1>3. \A p \in Packets : Fate(p) = "new"
  <2>1. \A p \in Packets : IsNew(p)
    BY DEF Init, IsNew, Agents
  <2>2. \A p \in Packets : \A r \in Reads : Outcome(r) # p
    BY <1>2, OutcomeAssumption
  <2>3. QED BY <1>1, <2>1, <2>2 DEF Fate
<1>4. Waiting = {} /\ Ahead = {}
  BY DEF Init, Waiting, Ahead
<1>5. Delivery!Init
  BY <1>1, <1>2, <1>3, <1>4 DEF Delivery!Init, Outcomes, Fates
<1>6. IdlePackets /\ GivenPackets
  BY DEF Init, IdlePackets, GivenPackets
<1>7. QED BY <1>5, <1>6

\* For any number of reads and packets and any size of the queue, whatever the
\* interleaving of reads, cancellations, indications, drains and unbind, a
\* reader sees the bounded first-in first-out buffer of PacketDelivery.
THEOREM DeliversInOrder == Spec => ImplementsDeliverySafely
<1>1. Init => Delivery!Init /\ IdlePackets /\ GivenPackets
  BY DeliveryInit
<1>2. ASSUME TypeOK, ReadInv, PacketInv, RecvQueueIsBounded, IdlePackets, GivenPackets,
             TypeOK', ReadInv', [Next]_vars
      PROVE  IdlePackets' /\ GivenPackets' /\ [Delivery!Next]_(Delivery!vars)
  BY <1>2, IdleStep, DeliveryStepTaken DEF Sound, DeliveryStep
<1>3. QED
  BY <1>1, <1>2, TypeCorrect, ReadInvHolds, RefInvHolds, QueueBoundHolds, PTL
  DEF Spec, ImplementsDeliverySafely, Delivery!SafeSpec
=============================================================================
