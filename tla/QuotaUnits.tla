----------------------------- MODULE QuotaUnits -----------------------------
(***************************************************************************)
(* Sums of quota units.  The sum of the costs of a set of requests is the  *)
(* number of units in it, each unit being a request and an index: a form   *)
(* that needs no recursion and that the theorems on cardinality apply to.  *)
(***************************************************************************)
EXTENDS Naturals, FiniteSets

CONSTANTS
    Requests,   \* the calls that want quota, each with a reservation of its own
    Cost        \* units each of them asks for

ASSUME UnitsAssumption ==
    /\ IsFiniteSet(Requests)
    /\ Cost \in [Requests -> Nat]

UnitsOf(S) == UNION {{r} \X (1 .. Cost[r]) : r \in S}

Weight(S) == Cardinality(UnitsOf(S))
=============================================================================
