--------------------------- MODULE MCYouTubeClient ---------------------------
(* One subject at a time, which share no variable:                         *)
(*   requests  a read of one unit and a write of two compete for a budget  *)
(*             of two, over a midnight; two keys, three attempts as in the *)
(*             code, and a breaker that opens at a failure and closes at a *)
(*             success                                                     *)
(*   answers   callers for two keys of the coalescer, three of them for    *)
(*             the same                                                    *)
EXTENDS YouTubeClient, SingleFlight

CONSTANTS a, w, k1, k2, first, twin, late, spam

VARIABLE subject

MCReaders == {a}
MCWriters == {w}
MCKeys == {k1, k2}
MCCost == [r \in {a, w} |-> IF r = w THEN 2 ELSE 1]

MCWaiters == {first, twin, late, spam}
MCKey == [c \in MCWaiters |-> IF c = spam THEN 2 ELSE 1]

(* Init, but that no request is made where the callers are the subject.    *)
MCInit ==
    /\ Q!QuotaInit /\ K!PoolInit /\ B!BreakerInit /\ SingleFlightInit
    /\ subject \in {"requests", "answers"}
    /\ pc = [r \in Requests |-> IF subject = "requests" THEN "start" ELSE "cancelled"]
    /\ result = [r \in Requests |-> "none"]

MCNext ==
    /\ UNCHANGED subject
    /\ \/ subject = "requests" /\ Next /\ UNCHANGED flightVars
       \/ subject = "answers" /\ SingleFlightNext /\ UNCHANGED vars

(* Fairness and SingleFlightFairness, where they are the subject.          *)
MCFairness ==
    /\ \A r \in Requests : WF_vars(subject = "requests" /\ Step(r))
    /\ WF_flightVars(/\ subject = "answers"
                     /\ \E c \in MCWaiters : Alight(c) \/ \E outcome \in Outcomes : Land(c, outcome))

MCSpec == MCInit /\ [][MCNext]_<<vars, flightVars, subject>> /\ MCFairness
=============================================================================
