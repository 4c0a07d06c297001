------------------------------- MODULE MCEscrow -------------------------------
(***************************************************************************)
(* The recourse instance of the contracts, against the abstract escrow.    *)
(***************************************************************************)
EXTENDS MCVaultProtocol, VaultRefinement
===============================================================================
