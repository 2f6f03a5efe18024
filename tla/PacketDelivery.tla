--------------------------- MODULE PacketDelivery ---------------------------
(***************************************************************************)
(* What NDISPROT promises a reader of one open: reads wait in the order     *)
(* they were issued, packets are buffered in the order they arrived, up to  *)
(* Capacity of them with the oldest lost first, and whenever a read waits   *)
(* beside a buffered packet the oldest of the ones goes to the oldest of    *)
(* the others.  A waiting read may be cancelled; nothing else ends a read   *)
(* that was accepted, and no packet is delivered twice.                     *)
(***************************************************************************)
EXTENDS Naturals, Sequences

CONSTANTS Reads, Packets, Capacity

VARIABLES
    waiting,    \* the reads that wait
    ahead,      \* the pairs <<q, r>> of them of which q was accepted first
    buffer,     \* the packets that wait, oldest first
    outcome,    \* of each read: what became of it, or the packet it got
    fate        \* of each packet

vars == <<waiting, ahead, buffer, outcome, fate>>

Init ==
    /\ waiting = {} /\ ahead = {} /\ buffer = <<>>
    /\ outcome = [r \in Reads |-> "unsent"]
    /\ fate = [p \in Packets |-> "new"]

\* Reads leave from any place in the line, and the others keep theirs.
Leave(r) ==
    /\ waiting' = waiting \ {r}
    /\ ahead' = {d \in ahead : r \notin {d[1], d[2]}}

\* Accept the read, behind those that wait, or fail it at once.
Submit(r) ==
    /\ outcome[r] = "unsent"
    /\ \/ /\ waiting' = waiting \cup {r}
          /\ ahead' = ahead \cup (waiting \X {r})
          /\ outcome' = [outcome EXCEPT ![r] = "waiting"]
       \/ /\ outcome' = [outcome EXCEPT ![r] = "failed"]
          /\ UNCHANGED <<waiting, ahead>>
    /\ UNCHANGED <<buffer, fate>>

\* Buffer the packet, at the expense of the oldest when there is no room.
Arrive(p) ==
    /\ fate[p] = "new"
    /\ IF Len(buffer) < Capacity
         THEN /\ buffer' = Append(buffer, p)
              /\ fate' = [fate EXCEPT ![p] = "buffered"]
         ELSE LET all == Append(buffer, p)
              IN  /\ buffer' = Tail(all)
                  /\ fate' = [fate EXCEPT ![p] = "buffered", ![Head(all)] = "lost"]
    /\ UNCHANGED <<waiting, ahead, outcome>>

Refuse(p) ==
    /\ fate[p] = "new"
    /\ fate' = [fate EXCEPT ![p] = "lost"]
    /\ UNCHANGED <<waiting, ahead, buffer, outcome>>

\* The oldest packet goes to the oldest read.
Match ==
    /\ buffer # <<>>
    /\ \E r \in waiting :
          /\ \A q \in waiting : <<q, r>> \notin ahead
          /\ outcome' = [outcome EXCEPT ![r] = Head(buffer)]
          /\ Leave(r)
    /\ fate' = [fate EXCEPT ![Head(buffer)] = "delivered"]
    /\ buffer' = Tail(buffer)

Cancel(r) ==
    /\ outcome[r] = "waiting"
    /\ outcome' = [outcome EXCEPT ![r] = "cancelled"]
    /\ Leave(r)
    /\ UNCHANGED <<buffer, fate>>

Discard ==
    /\ buffer # <<>>
    /\ fate' = [fate EXCEPT ![Head(buffer)] = "lost"]
    /\ buffer' = Tail(buffer)
    /\ UNCHANGED <<waiting, ahead, outcome>>

Next ==
    \/ \E r \in Reads : Submit(r) \/ Cancel(r)
    \/ \E p \in Packets : Arrive(p) \/ Refuse(p)
    \/ Match \/ Discard

\* The bounded first-in first-out buffer.
SafeSpec == Init /\ [][Next]_vars

\* A read and a packet do not wait beside each other for ever.
Spec == SafeSpec /\ WF_vars(Match)
=============================================================================
