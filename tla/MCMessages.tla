----------------------------- MODULE MCMessages -----------------------------
(* The way of a chat message and what comes of it, one subject at a time,  *)
(* which share no variable:                                                *)
(*   chat      a worker process with two readers of the chat, as when a    *)
(*             stream is restarted, and an API process                     *)
(*   feed      the events to a client of the API process                   *)
(*   commands  requests about a custom command, and its use                *)
(*   handlers  two handlers of messages with the budget of the model, for  *)
(*             a viewer, a limit of one call, and two models to be tried   *)
(*   games     a command for a game and two right answers of one viewer    *)
(*             (who chats, when there is no game), beside a right answer   *)
(*             of another, a second game, or a look at the level           *)
EXTENDS Chat, LiveUpdates, Commands, Intelligence, Engagement, TLC

CONSTANTS worker, api, r1, r2, ann, bob,
          add, readd, edit, reedit, perms, delete, use, call, hi, dc, discord,
          t1, t2, trivia, word, answer, again, more, level

VARIABLE subject

MCProcs == {worker, api}
MCReaders == {r1, r2}
MCHome == [r \in MCReaders |-> worker]

MCRequests == {add, readd, edit, reedit, perms, delete, use, call}
MCOp == [r \in MCRequests |->
    CASE r \in {add, readd} -> "add"
      [] r \in {edit, reedit} -> "edit"
      [] r = perms -> "perms"
      [] r = delete -> "delete"
      [] OTHER -> "use"]
MCName == [r \in MCRequests |-> IF r = call THEN dc ELSE hi]
MCText == [r \in MCRequests |-> CASE r = edit -> 2 [] r = reedit -> 3 [] OTHER -> 1]
MCMinRole == [r \in MCRequests |-> IF r = perms THEN 2 ELSE 1]
MCSender == [r \in MCRequests |-> IF r \in {use, call, reedit} THEN ann ELSE bob]
MCRank == [s \in {ann, bob} |-> IF s = ann THEN 1 ELSE 3]
MCCanonical == [n \in {hi, dc} |-> IF n = dc THEN discord ELSE n]

(* One answer that punishes, and one that does not.                        *)
MCResults == {[confidence |-> 95, severity |-> 90], [confidence |-> 60, severity |-> 50]}
MCLimit == [k \in Counters |-> 1]

MCJobs == {trivia, word, answer, again, more, level}
MCViewers == {ann, bob}
MCKind == [j \in MCJobs |->
    CASE j \in {trivia, word} -> "trivia"
      [] j = level -> "show"
      [] OTHER -> "right"]
MCAuthor == [j \in MCJobs |-> IF j \in {trivia, word, more} THEN bob ELSE ann]

MCInit ==
    /\ ChatInit /\ LiveUpdatesInit /\ CommandsInit /\ IntelligenceInit /\ EngagementInit
    /\ subject \in {"chat", "feed", "commands", "handlers", "games"}
    /\ subject # "chat" => ~shared
    /\ stage = [r \in Requests |-> IF subject = "commands" THEN "new" ELSE "over"]
    /\ \E sent \in {MCJobs \ {level, word}, MCJobs \ {level, more}, MCJobs \ {more, word}, {}} :
          /\ at = [j \in Jobs |-> IF j \in sent THEN "new" ELSE "over"]
          /\ (sent = {}) = (subject # "games")

MCNext ==
    /\ UNCHANGED subject
    /\ \/ subject = "chat" /\ ChatNext /\ UNCHANGED <<feedVars, commandVars, aiVars, gameVars>>
       \/ subject = "feed" /\ LiveUpdatesNext /\ UNCHANGED <<vars, commandVars, aiVars, gameVars>>
       \/ subject = "commands" /\ CommandNext /\ UNCHANGED <<vars, feedVars, aiVars, gameVars>>
       \/ subject = "handlers" /\ IntelligenceNext /\ UNCHANGED <<vars, feedVars, commandVars, gameVars>>
       \/ subject = "games" /\ Next /\ UNCHANGED <<vars, feedVars, commandVars, aiVars>>

(* Like messages of games.                                                 *)
Alike == Permutations({answer, again}) \cup Permutations({trivia, word})

MCSpec == MCInit /\ [][MCNext]_<<vars, feedVars, commandVars, aiVars, gameVars, subject>>
=============================================================================
