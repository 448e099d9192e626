-------------------------- MODULE MCGuardPolicies --------------------------
EXTENDS GuardPolicies, TLC

CONSTANTS c1, c2

(* A valid pair and one whose threshold is not below its target. *)
Pairs == {<<3, 1>>, <<2, 2>>}

(* One contract long enough to be rolled back, one to be cloned. *)
Versions == (c1 :> 3) @@ (c2 :> 1)
=============================================================================
