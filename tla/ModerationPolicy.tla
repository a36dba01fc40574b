-------------------------- MODULE ModerationPolicy --------------------------
(***************************************************************************)
(* What is done about a message that the model of OpenRouter has judged:   *)
(* ModerationPolicyEngine (app/moderation/policy.py), which knows how sure *)
(* the judgement is and how grave the offence, and TrustService            *)
(* (app/moderation/trust.py), which knows the viewer; nothing calls the    *)
(* second one.                                                             *)
(*                                                                         *)
(* Pure functions of percentages, each with the rank of its answer, so     *)
(* that milder and harsher can be compared.                                *)
(***************************************************************************)
EXTENDS Naturals

Strictness == {"RELAXED", "BALANCED", "STRICT"}

Tier(strictness) == CASE strictness = "RELAXED" -> 0 [] strictness = "STRICT" -> 2 [] OTHER -> 1

(* From where on a message is doubtful, and from where on it is punished.  *)
ReviewFrom(tier) == IF tier = 0 THEN 50 ELSE IF tier = 2 THEN 30 ELSE 40
PunishFrom(tier) == IF tier = 0 THEN 95 ELSE IF tier = 2 THEN 85 ELSE 90

(* Fault: a gap in the ladder, grave offences fall through to the first    *)
(* rung.                                                                   *)
LayerWithGap(severity) ==
    IF severity <= 25 THEN 1
    ELSE IF severity <= 50 THEN 2
    ELSE IF severity <= 75 THEN 3
    ELSE IF severity > 76 /\ severity <= 88 THEN 4
    ELSE IF severity > 88 THEN 5
    ELSE 1

Layer(severity) ==
    IF severity <= 25 THEN 1
    ELSE IF severity <= 50 THEN 2
    ELSE IF severity <= 75 THEN 3
    ELSE IF severity <= 88 THEN 4
    ELSE 5

ActionOf(layer) ==
    CASE layer = 1 -> "WARN" [] layer = 2 -> "DELETE" [] layer \in {3, 4} -> "TIMEOUT" [] OTHER -> "BAN"

(* evaluate_2d_policy, for a message that is not of a harmless category.   *)
Judgement(confidence, severity, strictness) ==
    LET tier == Tier(strictness) IN
    IF confidence < ReviewFrom(tier) THEN "ALLOW"
    ELSE IF confidence < PunishFrom(tier) THEN "FLAG"
    ELSE ActionOf(Layer(severity))

(* apply_trust_modifier, of a confidence in percent.                       *)
Trusted(action, confidence, trust) ==
    IF trust >= 75 /\ action = "TIMEOUT" /\ confidence < 95 THEN "DELETE"
    ELSE IF trust <= 30 /\ action = "WARN" /\ confidence >= 80 THEN "TIMEOUT"
    ELSE action

-----------------------------------------------------------------------------
Harshness(action) ==
    CASE action = "ALLOW" -> 0 [] action = "FLAG" -> 1 [] action = "WARN" -> 2
      [] action = "DELETE" -> 3 [] action = "TIMEOUT" -> 4 [] OTHER -> 5

Percent == 0..100
Milder(a, b) == Harshness(a) <= Harshness(b)

(* A step towards a graver, surer or more strictly judged case.            *)
Stricter(t) == IF t = "RELAXED" THEN "BALANCED" ELSE "STRICT"

MilderThanNext(c, s, t) ==
    /\ Milder(Judgement(c, s, t), Judgement(c, s + 1, t))
    /\ Milder(Judgement(c, s, t), Judgement(c + 1, s, t))
    /\ Milder(Judgement(c, s, t), Judgement(c, s, Stricter(t)))

(* The same of what is made of it for a viewer.  Who is trusted less does  *)
(* not come off better; and trust keeps the order of the measures, but for *)
(* viewers of low trust, who are silenced for a warning and not for a      *)
(* deletion.                                                               *)
Measure(c, s, t, k) == Trusted(Judgement(c, s, t), c, k)

MilderThanNextTrusted(c, s, t, k) ==
    /\ Milder(Measure(c, s, t, k + 1), Measure(c, s, t, k))
    /\ k > 30 => /\ Milder(Measure(c, s, t, k), Measure(c, s + 1, t, k))
                 /\ Milder(Measure(c, s, t, k), Measure(c, s, Stricter(t), k))
=============================================================================
