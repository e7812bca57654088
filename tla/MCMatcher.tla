----------------------------- MODULE MCMatcher -----------------------------
(* Matcher with one resting order and two takers that want more than it has.  *)
EXTENDS Matcher

CONSTANTS m, t1, t2

Sizes == (m :> 2) @@ (t1 :> 1) @@ (t2 :> 2)
=============================================================================
