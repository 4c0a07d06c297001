---------------------------- MODULE MCChallengeDesk ----------------------------
(***************************************************************************)
(* A receipt above its cap, two filings, and an agent that the two take    *)
(* below its tier.                                                         *)
(***************************************************************************)
EXTENDS ChallengeDesk
MCPaid == <<12>>
MCRefs == {R(r) : r \in Receipts} \cup {C(n) : n \in Ids}
MCDecided == [r \in Refs |-> "UPHELD"]
================================================================================
