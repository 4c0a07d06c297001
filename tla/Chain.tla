-------------------------------- MODULE Chain --------------------------------
(***************************************************************************)
(* What the contracts share with the chain: the block timestamp and the    *)
(* USDC ledger (an OpenZeppelin ERC-20, external).  A transfer needs       *)
(* balance and a nonzero receiver.  Allowances are left out: a call that   *)
(* reverts for want of one is a call that never took place.                *)
(***************************************************************************)
EXTENDS GuardTypes

CONSTANT InitialBalance \* USDC each account starts with

ASSUME BalanceAssumption == InitialBalance \in [Accounts -> Nat]

VARIABLES
  now,      \* block.timestamp
  balance   \* USDC.balanceOf

chainVars == <<now, balance>>

ChainTypeOK ==
  /\ now \in 1 .. MaxTime
  /\ balance \in [Accounts -> Nat]

ChainInit ==
  /\ now = 1
  /\ balance = InitialBalance

CanTransfer(bal, from, to, amount) ==
  /\ to # ZeroAddress
  /\ bal[from] >= amount

Transfer(bal, from, to, amount) ==
  [bal EXCEPT ![from] = @ - amount, ![to] = @ + amount]

\* A block with a later timestamp. Any number of transactions share a block.
Tick ==
  /\ now < MaxTime
  /\ now' = now + 1
  /\ UNCHANGED balance
=============================================================================
