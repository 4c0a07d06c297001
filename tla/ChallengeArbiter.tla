---------------------------- MODULE ChallengeArbiter ----------------------------
(***************************************************************************)
(* ChallengeArbiter.sol: fileAmountViolation files, slashes and pays in    *)
(* one transaction; resolveByReviewer settles a challenge on a signed      *)
(* verdict.                                                                *)
(***************************************************************************)
EXTENDS GuardedExecutor, AgentRegistry, Sequences

VARIABLES
  reviewerSigner,  \* reviewerSigner, NoSigner while unset
  nextId,          \* _nextId
  challenges,      \* _challenges, total: an unused id holds the zero struct
  events           \* the arbiter's ChallengeFiled and ChallengeResolved logs

arbiterVars == <<reviewerSigner, nextId, challenges, events>>

ChallengeIds == 1 .. MaxChallenges
ZeroReceiptId == <<>>

Challenge ==
  [receiptId : ReceiptIds \cup {ZeroReceiptId},
   challenger : Challengers \cup {ZeroAddress},
   resolved : BOOLEAN]

ZeroChallenge ==
  [receiptId |-> ZeroReceiptId, challenger |-> ZeroAddress, resolved |-> FALSE]

ArbiterEvent ==
  [event : {"ChallengeFiled"}, id : ChallengeIds, receiptId : ReceiptIds,
   challenger : Challengers]
  \cup
  [event : {"ChallengeResolved"}, id : ChallengeIds, uphold : BOOLEAN,
   payout : Nat]

ArbiterTypeOK ==
  /\ reviewerSigner \in Signers \cup {NoSigner}
  /\ nextId \in 0 .. MaxChallenges
  /\ challenges \in [ChallengeIds -> Challenge]
  /\ events \in Seq(ArbiterEvent)

ArbiterInit ==
  /\ reviewerSigner \in Signers \cup {NoSigner}
  /\ nextId = 0
  /\ challenges = [i \in ChallengeIds |-> ZeroChallenge]
  /\ events = <<>>

FiledEvent(id, receiptId, challenger) ==
  [event |-> "ChallengeFiled", id |-> id, receiptId |-> receiptId,
   challenger |-> challenger]

ResolvedEvent(id, uphold, payout) ==
  [event |-> "ChallengeResolved", id |-> id, uphold |-> uphold,
   payout |-> payout]

\* getReceipt: an id never written reads as the zero struct.
GetReceipt(id) ==
  IF id \in DOMAIN receipts THEN receipts[id]
  ELSE [owner |-> ZeroAddress, agentId |-> ZeroAgent]

\* ChallengeWindowClosed is not raised: the window of the agent's stake now.
WindowOpen(r) == now <= r.timestamp + ChallengeWindow(r.agentId)

OverspendsAtCap(r) == r.amount >= intentConfig[r.intentHash].maxSpendPerTx
Overspends(r) == r.amount > intentConfig[r.intentHash].maxSpendPerTx

BondKept(bal, challenger) == bal
BondRefund(bal, challenger) ==
  Transfer(bal, ArbiterAddr, challenger, CHALLENGE_BOND)

FileAmountViolation(challenger, receiptId) ==
  LET r       == GetReceipt(receiptId)
      id      == nextId + 1
      bonded  == Transfer(balance, challenger, ArbiterAddr, CHALLENGE_BOND)
      slashed == SlashPays(bonded, r.agentId, r.owner, r.amount)
  IN /\ nextId < MaxChallenges
     /\ receiptId \in DOMAIN receipts
     /\ WindowOpen(r)
     /\ Overspends(r)
     /\ CanTransfer(balance, challenger, ArbiterAddr, CHALLENGE_BOND)
     /\ nextId' = id
     /\ challenges' = [challenges EXCEPT ![id] =
          [receiptId |-> receiptId, challenger |-> challenger,
           resolved |-> TRUE]]
     /\ Slash(bonded, r.agentId, r.owner, r.amount)
     /\ CanTransfer(slashed, ArbiterAddr, challenger, CHALLENGE_BOND)
     /\ balance' = BondRefund(slashed, challenger)
     /\ events' = Append(Append(events, FiledEvent(id, receiptId, challenger)),
                    ResolvedEvent(id, TRUE, SlashActual(r.agentId, r.amount)))
     /\ UNCHANGED reviewerSigner

\* The verdict <<id, uphold, slashAmount>> is signed by signer. Every filed
\* challenge is stored resolved, so only an id without a challenge passes the
\* first guard; its receipt is the zero struct.
ResolveByReviewer(id, uphold, slashAmount, signer) ==
  LET r == GetReceipt(challenges[id].receiptId)
  IN /\ ~challenges[id].resolved
     /\ reviewerSigner # NoSigner
     /\ signer = reviewerSigner
     /\ challenges' = [challenges EXCEPT ![id].resolved = TRUE]
     /\ IF uphold
        THEN /\ Slash(balance, r.agentId, r.owner, slashAmount)
             /\ balance' = SlashPays(balance, r.agentId, r.owner, slashAmount)
        ELSE UNCHANGED <<stake, balance>>
     /\ events' = Append(events, ResolvedEvent(id, uphold,
                    IF uphold THEN SlashActual(r.agentId, slashAmount) ELSE 0))
     /\ UNCHANGED <<reviewerSigner, nextId>>

\* onlyOwner of the contract; the new signer is never zero.
SetReviewerSigner(signer) ==
  /\ reviewerSigner' = signer
  /\ UNCHANGED <<nextId, challenges, events>>
=============================================================================
