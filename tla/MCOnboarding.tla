----------------------------- MODULE MCOnboarding -----------------------------
(***************************************************************************)
(* One owner with two accounts and one partner: sign-ins and the way       *)
(* through onboarding together, within one budget of events.               *)
(***************************************************************************)
EXTENDS Onboarding
CONSTANTS a, b, k1
===============================================================================
