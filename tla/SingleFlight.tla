---------------------------- MODULE SingleFlight ----------------------------
(***************************************************************************)
(* SingleFlightCoalescer (app/youtube/coalescer.py) and AIRequestCoalescer *)
(* (app/ai/coalescer.py), which have the same protocol: who asks first for *)
(* a key does the work, whoever asks until it is done waits for his        *)
(* future.  Nothing is awaited while the lock is held, so that an action   *)
(* here is what runs between two awaits.                                   *)
(*                                                                         *)
(* A task that is cancelled while it awaits a future cancels the future,   *)
(* which is everybody's.                                                   *)
(***************************************************************************)
EXTENDS Naturals, FiniteSets

CONSTANTS
    Waiters,
    Key,        \* make_key, or the video: what is asked for
    Nobody

ASSUME SingleFlightAssumption ==
    /\ Waiters = DOMAIN Key
    /\ Nobody \notin Waiters /\ IsFiniteSet(Waiters)

VARIABLES
    flight,     \* _in_flight: who does the work for a key
    future,     \* of the work of a caller
    phase,      \* of a caller
    answer,     \* what execute returned or raised
    rides       \* whose future a caller awaits

flightVars == <<flight, future, phase, answer, rides>>

Texts == {Key[c] : c \in Waiters}
Outcomes == {"value", "error", "cancelled"}

SingleFlightTypeOK ==
    /\ flight \in [Texts -> Waiters \cup {Nobody}]
    /\ future \in [Waiters -> Outcomes \cup {"pending"}]
    /\ phase \in [Waiters -> {"new", "leads", "follows", "over"}]
    /\ answer \in [Waiters -> Outcomes \cup {"none"}]
    /\ rides \in [Waiters -> Waiters \cup {Nobody}]

SingleFlightInit ==
    /\ flight = [k \in Texts |-> Nobody]
    /\ future = [c \in Waiters |-> "pending"]
    /\ phase = [c \in Waiters |-> "new"]
    /\ answer = [c \in Waiters |-> "none"]
    /\ rides = [c \in Waiters |-> Nobody]

Execute(c) ==
    /\ phase[c] = "new"
    /\ IF flight[Key[c]] = Nobody
       THEN /\ flight' = [flight EXCEPT ![Key[c]] = c]
            /\ phase' = [phase EXCEPT ![c] = "leads"]
            /\ UNCHANGED rides
       ELSE /\ rides' = [rides EXCEPT ![c] = flight[Key[c]]]
            /\ phase' = [phase EXCEPT ![c] = "follows"]
            /\ UNCHANGED flight
    /\ UNCHANGED <<future, answer>>

Answer(c, outcome) ==
    /\ answer' = [answer EXCEPT ![c] = outcome]
    /\ phase' = [phase EXCEPT ![c] = "over"]

Settle(c, outcome) ==
    future' = IF future[c] = "pending" THEN [future EXCEPT ![c] = outcome] ELSE future

(* Fault: only a result is passed on, and a failure leaves the key behind. *)
LandHappily(c, outcome) ==
    /\ phase[c] = "leads"
    /\ Answer(c, outcome)
    /\ IF outcome = "value" THEN Settle(c, outcome) ELSE UNCHANGED future
    /\ flight' = [flight EXCEPT ![Key[c]] = Nobody]
    /\ UNCHANGED rides

(* The work has a result or raises, being cancelled included.              *)
Land(c, outcome) ==
    /\ phase[c] = "leads"
    /\ Answer(c, outcome)
    /\ Settle(c, outcome)
    /\ flight' = [flight EXCEPT ![Key[c]] = Nobody]
    /\ UNCHANGED rides

Alight(c) ==
    /\ phase[c] = "follows" /\ future[rides[c]] # "pending"
    /\ Answer(c, future[rides[c]])
    /\ UNCHANGED <<flight, future, rides>>

CancelWaiter(c) ==
    /\ phase[c] = "follows"
    /\ Answer(c, "cancelled")
    /\ Settle(rides[c], "cancelled")
    /\ UNCHANGED <<flight, rides>>

SingleFlightNext ==
    \E c \in Waiters :
        \/ Execute(c) \/ Alight(c) \/ CancelWaiter(c)
        \/ \E outcome \in Outcomes : Land(c, outcome)

SingleFlightSpec == SingleFlightInit /\ [][SingleFlightNext]_flightVars

(* The work ends: requests have a time-out.  The loop runs who can go on;  *)
(* each does so once, so that it need not be fair to each.                 *)
SingleFlightFairness ==
    WF_flightVars(\E c \in Waiters : Alight(c) \/ \E outcome \in Outcomes : Land(c, outcome))

-----------------------------------------------------------------------------
(* For a key at most one caller does the work at a time, though who waited *)
(* goes on long after the next one may have begun.                         *)
OneFlightPerKey ==
    \A c, d \in Waiters : phase[c] = "leads" /\ phase[d] = "leads" /\ Key[c] = Key[d] => c = d

(* Who waits, waits for the work he asked for, which is still being done   *)
(* or has been settled; a result or an error that he gets is the one of    *)
(* who did it, whoever was cancelled meanwhile.                            *)
FollowersShareTheEnd ==
    \A c \in Waiters : rides[c] # Nobody =>
        /\ Key[rides[c]] = Key[c]
        /\ phase[c] = "follows" => future[rides[c]] # "pending" \/ phase[rides[c]] = "leads"
        /\ answer[c] \in {"value", "error"} => answer[rides[c]] = answer[c]

(* Whoever asks is answered, however the work ends, and whoever of those   *)
(* that wait for it, or does it, is cancelled.                             *)
EveryCallerIsAnswered == \A c \in Waiters : phase[c] # "new" ~> phase[c] = "over"

=============================================================================
