------------------------------- MODULE StakeEscrow -------------------------------
(***************************************************************************)
(* What the contracts promise an owner who lets an agent pay, without the  *)
(* contracts: agents put stake in escrow, payments are recorded for good,  *)
(* and an overspent one is a claim on the agent's escrow.  A claim is      *)
(* settled once, for as much of the payment as the escrow holds, and       *)
(* nothing else takes from the escrow.                                     *)
(***************************************************************************)
EXTENDS Integers

CONSTANTS Agents, Claims

VARIABLES
  paid,    \* the payments on record: [agent, amount, over] by receipt id
  escrow,  \* by agent
  settled  \* the claims settled: [claim, receipt, amount]

vars == <<paid, escrow, settled>>

Init ==
  /\ paid = [id \in {} |-> {}]
  /\ escrow = [a \in Agents |-> 0]
  /\ settled = {}

Pay ==
  /\ \A id \in DOMAIN paid : id \in DOMAIN paid' /\ paid'[id] = paid[id]
  /\ UNCHANGED <<escrow, settled>>

Fund(a) ==
  /\ escrow'[a] > escrow[a]
  /\ escrow' = [escrow EXCEPT ![a] = escrow'[a]]
  /\ UNCHANGED <<paid, settled>>

Covered(id) ==
  LET p == paid[id] IN
  IF p.amount < escrow[p.agent] THEN p.amount ELSE escrow[p.agent]

Settle(claim, id) ==
  /\ paid[id].over
  /\ \A s \in settled : s.claim # claim
  /\ Covered(id) > 0
  /\ escrow' = [escrow EXCEPT ![paid[id].agent] = @ - Covered(id)]
  /\ settled' = settled \cup {[claim |-> claim, receipt |-> id, amount |-> Covered(id)]}
  /\ UNCHANGED paid

Next ==
  \/ Pay
  \/ \E a \in Agents : Fund(a)
  \/ \E c \in Claims, id \in DOMAIN paid : Settle(c, id)

Spec == Init /\ [][Next]_vars
=============================================================================
