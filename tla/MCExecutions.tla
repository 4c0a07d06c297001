----------------------------- MODULE MCExecutions -----------------------------
(***************************************************************************)
(* Requests of one intent or none, within and beyond its cap, to a listed  *)
(* and another target, around the second the intent expires.               *)
(***************************************************************************)
EXTENDS Executions, TLC
CONSTANTS o1, o2, c1, h1, shop, other
MCManifest == h1 :> [cap |-> 1, allowed |-> {shop}, expiry |-> 0]
Ask(o, i, amount, target) == [owner |-> o, intent |-> i, amount |-> amount, target |-> target]
MCInputs == {Ask(o1, h1, 1, shop), Ask(o1, h1, 2, other), Ask(o1, h1, Malformed, shop),
             Ask(o2, None, 1, shop)}
===============================================================================
