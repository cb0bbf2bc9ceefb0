-------------------------- MODULE PacketLifecycle --------------------------
(***************************************************************************)
(* What a relayed channel promises its users: the life of every packet,    *)
(* without relayers, headers or proofs.  A packet that is sent is either   *)
(* delivered and then perhaps acknowledged, or refunded, never both.  One  *)
(* transaction may move several packets of both directions at once.        *)
(***************************************************************************)
EXTENDS Naturals

CONSTANTS Ends, Peer(_), Packets, InSequence

VARIABLE fate   \* fate[c][n]: what became of packet n sent by end c

Fates == {"unsent", "sent", "delivered", "acked", "refunded"}

Init == fate = [c \in Ends |-> [n \in Packets |-> "unsent"]]

Send(c, n) ==
    /\ fate[c][n] = "unsent"
    /\ fate' = [fate EXCEPT ![c][n] = "sent"]

\* Packets of c that are in one of the fates F.
In(c, F) == {n \in Packets : fate[c][n] \in F}

(***************************************************************************)
(* A transaction on end c delivers the packets D of its peer, and ends     *)
(* the life of packets of its own: A are acknowledged, R refunded.         *)
(***************************************************************************)
Execute(c, D, A, R) ==
    /\ D \subseteq In(Peer(c), {"sent"})
    /\ A \subseteq In(c, {"delivered"})
    /\ R \subseteq In(c, {"sent"})
    /\ InSequence => \A n \in D, m \in Packets :
                        m < n => m \in D \cup In(Peer(c), {"delivered", "acked"})
    /\ fate' = [fate EXCEPT
                  ![Peer(c)] = [n \in Packets |-> IF n \in D THEN "delivered" ELSE @[n]],
                  ![c] = [n \in Packets |-> IF n \in A THEN "acked"
                                            ELSE IF n \in R THEN "refunded" ELSE @[n]]]

Next ==
    \/ \E c \in Ends, n \in Packets : Send(c, n)
    \/ \E c \in Ends : \E D, A, R \in SUBSET Packets : Execute(c, D, A, R)

Spec == Init /\ [][Next]_fate
=============================================================================
