------------------------- MODULE YouTubeConsumption -------------------------
(***************************************************************************)
(* The client together with the account YouTube keeps: every attempt that  *)
(* YouTube answers costs the project its units, whatever the client books. *)
(* Attempts whose answer was lost on the way are left out of the account,  *)
(* so that it is never more than YouTube's.                                *)
(***************************************************************************)
EXTENDS YouTubeClient

VARIABLE answered   \* history: the attempts of a request YouTube answered

AnswerOf(r) == pc[r] = "http" /\ pc'[r] = "answered" /\ result'[r] \in {"ok", "api"}

CountAnswers ==
    answered' = [r \in Requests |-> answered[r] + IF AnswerOf(r) THEN 1 ELSE 0]

ConsumptionInit == Init /\ answered = [r \in Requests |-> 0]
ConsumptionNext == Next /\ CountAnswers

ConsumptionSpec == ConsumptionInit /\ [][ConsumptionNext]_<<vars, answered>>

(* The README promises a "Hard 4,000 units/day cap on YouTube Data API     *)
(* consumption" (README.md:17): on one day the answered attempts of all    *)
(* requests cost at most the limit.                                        *)
ConsumptionCapped ==
    Cardinality(UNION {{r} \X (1 .. answered[r] * Cost[r]) : r \in Requests}) <= Limit

(* What remains of it: a request costs YouTube's account no more than one  *)
(* charge for every attempt it is allowed, whatever fails in between, and  *)
(* one that succeeded, and was charged, not less than that charge.         *)
OverrunIsBounded ==
    \A r \in Requests :
        /\ answered[r] <= MaxAttempts
        /\ pc[r] = "done" => answered[r] * Cost[r] >= billed[r]
=============================================================================
