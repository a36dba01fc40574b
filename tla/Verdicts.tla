------------------------------ MODULE Verdicts ------------------------------
(***************************************************************************)
(* The policy in use: one message after the other is put to it, each with  *)
(* the confidence that the model of OpenRouter has and the strictness that *)
(* the creator has chosen.                                                 *)
(***************************************************************************)
EXTENDS ModerationPolicy

CONSTANT Trusts     \* the scores of trust that viewers have

ASSUME VerdictsAssumption == Trusts \subseteq Nat

VARIABLE judged     \* the message that was judged last, if any

PolicyInit == judged = {}

(* evaluate_2d_policy is asked of a message.                               *)
Evaluate(confidence, strictness) ==
    judged' = {[confidence |-> confidence, strictness |-> strictness]}

PolicyNext == \E confidence \in Percent, strictness \in Strictness : Evaluate(confidence, strictness)

PolicySpec == PolicyInit /\ [][PolicyNext]_judged

-----------------------------------------------------------------------------
(* No message comes off worse than one that is graver, surer, or judged    *)
(* more strictly: the thresholds and the ladder of the policy leave no gap *)
(* and cross nowhere; nor does a viewer who is trusted more come off worse.*)
PolicyIsMonotone ==
    \A j \in judged : \A severity \in Percent :
        /\ MilderThanNext(j.confidence, severity, j.strictness)
        /\ \A k \in Trusts : MilderThanNextTrusted(j.confidence, severity, j.strictness, k)
=============================================================================
