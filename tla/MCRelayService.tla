--------------------------- MODULE MCRelayService ---------------------------
(***************************************************************************)
(* Values for the constants of RelayService.                               *)
(***************************************************************************)
EXTENDS RelayService

BothAcks == [c \in Chains |-> FALSE]

AtOnce == [c \in Chains |-> 0]
Batches2 == [c \in Chains |-> 2]

Numeric == [n \in Seqs |-> n]

OneEachWay == [c \in Chains |-> 1]
FromSrc1 == [c \in Chains |-> IF c = "src" THEN 1 ELSE 0]
FromSrc2 == [c \in Chains |-> IF c = "src" THEN 2 ELSE 0]

AllMortal == [c \in Chains |-> Seqs]
NoneMortal == [c \in Chains |-> {}]
=============================================================================
