---------------------------- MODULE IntentRegistry ----------------------------
(***************************************************************************)
(* IntentRegistry.sol: one active intent per owner, every config ever      *)
(* committed kept for later disputes.                                      *)
(***************************************************************************)
EXTENDS Chain

CONSTANT NoConfig

VARIABLES
  activeIntentHash,  \* _activeIntentHash
  lastNonce,         \* _lastNonce
  intentConfig       \* _intentConfig; NoConfig where _intentExists is false

registryVars == <<activeIntentHash, lastNonce, intentConfig>>

ASSUME NoConfigAssumption == NoConfig \notin IntentConfig

RegistryTypeOK ==
  /\ activeIntentHash \in [Owners -> IntentHashes]
  /\ lastNonce \in [Owners -> Nat]
  /\ intentConfig \in [IntentHashes -> IntentConfig \cup {NoConfig}]

RegistryInit ==
  /\ activeIntentHash = [o \in Owners |-> ZeroHash]
  /\ lastNonce = [o \in Owners |-> 0]
  /\ intentConfig = [h \in IntentHashes |-> NoConfig]

\* !_intentExists[h]
HashReused(h) == TRUE
HashUnused(h) == intentConfig[h] = NoConfig

AnyNonce(sender, cfg) == TRUE
FreshNonce(sender, cfg) == cfg.nonce > lastNonce[sender]

CommitIntent(sender, h, cfg) ==
  /\ cfg.owner = sender
  /\ cfg.token = USDC
  /\ Cardinality(cfg.allowedCounterparties) <= MAX_COUNTERPARTIES
  /\ cfg.expiry > now
  /\ FreshNonce(sender, cfg)
  /\ HashUnused(h)
  /\ intentConfig' = [intentConfig EXCEPT ![h] = cfg]
  /\ activeIntentHash' = [activeIntentHash EXCEPT ![sender] = h]
  /\ lastNonce' = [lastNonce EXCEPT ![sender] = cfg.nonce]

RevokeIntent(sender) ==
  /\ activeIntentHash[sender] # ZeroHash
  /\ activeIntentHash' = [activeIntentHash EXCEPT ![sender] = ZeroHash]
  /\ UNCHANGED <<lastNonce, intentConfig>>
=============================================================================
