--------------------------- MODULE MCFabricRelay ---------------------------
(***************************************************************************)
(* Small instances of FabricRelay, one for each budget: relaying both ways *)
(* with a fault and a rival, a packet that times out, with and without a   *)
(* rival, governance without and with traffic, and picked packets.         *)
(***************************************************************************)
EXTENDS FabricRelay

AnyStorePos == [n \in Seqs |-> n]

Budget(src, dst, expiries, rivals, gov, faults, picks) ==
    [packets |-> [c \in Chains |-> IF c = "src" THEN src ELSE dst],
     expiries |-> expiries, rivals |-> rivals, gov |-> gov, faults |-> faults, picks |-> picks]

Governance == Budget(0, 0, 0, 0, 2, 0, 0)

SmallBudgets ==
    {Governance, Budget(1, 0, 0, 0, 1, 0, 0), Budget(1, 1, 0, 1, 0, 1, 0),
     Budget(1, 1, 1, 0, 0, 0, 0), Budget(0, 1, 1, 1, 0, 0, 0), Budget(2, 0, 0, 1, 0, 0, 0),
     Budget(2, 0, 0, 0, 0, 0, 1), Budget(1, 0, 0, 1, 0, 0, 1)}

GovernanceOnly == {Governance}
=============================================================================
