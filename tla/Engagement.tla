----------------------------- MODULE Engagement -----------------------------
(***************************************************************************)
(* What a chat message does to games and experience points: the section of *)
(* the intelligence worker that runs in a database session, with           *)
(* MiniGameEngine (app/games/engine.py) and XPManager (app/engagement/     *)
(* xp.py).  One process, one stream; every message is a task of its own.   *)
(*                                                                         *)
(* A message has one transaction (READ COMMITTED).  Reads take no lock; an *)
(* UPDATE or an INSERT that is flushed holds its row, or its unique key,   *)
(* until the end.  Cooldowns are in the memory of the process and are not  *)
(* rolled back.                                                            *)
(*                                                                         *)
(* Left out: the text of questions and answers, totals and levels.         *)
(***************************************************************************)
EXTENDS Naturals, FiniteSets

CONSTANTS
    Jobs,           \* messages; a game has the name of the command that began it
    Kind,           \* "trivia", "right" (a right answer), "talk", "noise", "show"
    Viewers,
    Author,
    Duration,       \* how long a game is open, and the pause between two games
    Cooldown,       \* between two awards to a viewer
    BurstWindow,
    BurstMax,       \* awards in a window
    DayLength,
    DailyMax,       \* awards in a day: the cap over the reward of a message
    MaxTime,
    NoJob

ASSUME EngagementAssumption ==
    /\ Kind \in [Jobs -> {"trivia", "right", "talk", "noise", "show"}]
    /\ Author \in [Jobs -> Viewers]
    /\ {Duration, Cooldown, BurstWindow, BurstMax, DayLength, DailyMax} \subseteq Nat \ {0}
    /\ MaxTime \in Nat /\ Duration <= MaxTime /\ Cooldown <= MaxTime
    /\ Jobs \cap Viewers = {} /\ NoJob \notin Jobs \cup Viewers

VARIABLES
    now,
    games,      \* the committed rows
    profiles,   \* viewers with a committed row
    minted,     \* ledger transactions "gamewin:<game>:<viewer>" that paid
    holder,     \* who holds a row or a key that is not committed
    lastStart,  \* MiniGameEngine: when the last game began
    awards,     \* AntiFarmingGuard: who was given points, and when
    daily,      \* AntiFarmingGuard: the day and its awards
    at,         \* the await a message is at
    asked,      \* the time its handler took first; for a new game, when it ends
    seen        \* the games its query returned

memory == <<lastStart, awards, daily>>
database == <<games, profiles, minted>>
gameVars == <<now, database, memory, holder, at, asked, seen>>

Places == {"new", "asked", "insert", "profile", "open", "count", "award", "reward", "commit", "over"}

EngagementTypeOK ==
    /\ now \in 0..MaxTime
    /\ games \in [Jobs -> [state : {"ABSENT", "ACTIVE", "COMPLETED"},
                           winner : Viewers \cup {NoJob}, began : Nat, until : Nat]]
    /\ profiles \in SUBSET Viewers
    /\ minted \in [Jobs \X Viewers -> Nat]
    /\ holder \in [Jobs \cup Viewers -> Jobs \cup {NoJob}]
    /\ lastStart \in 0..MaxTime
    /\ awards \in [Viewers -> SUBSET (Jobs \X (0..MaxTime))]
    /\ daily \in [Viewers -> [day : Nat, total : Nat]]
    /\ at \in [Jobs -> Places]
    /\ asked \in [Jobs -> 0..MaxTime]
    /\ seen \in [Jobs -> SUBSET Jobs]

(* The clock starts when a game and an award at time 0 are long past.      *)
Long == IF Duration > Cooldown THEN Duration ELSE Cooldown

EngagementInit ==
    /\ now = Long
    /\ games = [g \in Jobs |-> [state |-> "ABSENT", winner |-> NoJob, began |-> 0, until |-> 0]]
    /\ profiles = {}
    /\ minted = [k \in Jobs \X Viewers |-> 0]
    /\ holder = [r \in Jobs \cup Viewers |-> NoJob]
    /\ lastStart = 0
    /\ awards = [v \in Viewers |-> {}]
    /\ daily = [v \in Viewers |-> [day |-> 0, total |-> 0]]
    /\ asked = [j \in Jobs |-> 0]
    /\ seen = [j \in Jobs |-> {}]

Init == EngagementInit /\ at = [j \in Jobs |-> "new"]

Go(j, there) == at' = [at EXCEPT ![j] = there]
Free(j, row) == holder[row] \in {NoJob, j}
Hold(j, row) == holder' = [holder EXCEPT ![row] = j]
Game(j) == CHOOSE g \in seen[j] : TRUE
Wins(j) == Kind[j] = "right" /\ seen[j] # {}

Release(j) == holder' = [r \in DOMAIN holder |-> IF holder[r] = j THEN NoJob ELSE holder[r]]

(* The session is closed: what is not committed is undone.                 *)
Close(j) ==
    /\ Release(j)
    /\ at' = [at EXCEPT ![j] = "over"]
    /\ asked' = [asked EXCEPT ![j] = 0] /\ seen' = [seen EXCEPT ![j] = {}]

-----------------------------------------------------------------------------
(* The query for the active game of the stream; level and xp have none.    *)
Running == {g \in Jobs : games[g].state = "ACTIVE" /\ games[g].until > now}

Ask(j) ==
    /\ at[j] = "new" /\ Kind[j] # "show"
    /\ asked' = [asked EXCEPT ![j] = now]
    /\ seen' = [seen EXCEPT ![j] = Running]
    /\ Go(j, "asked")
    /\ UNCHANGED <<now, database, memory, holder>>

Show(j) ==
    /\ at[j] = "new" /\ Kind[j] = "show"
    /\ Go(j, "profile")
    /\ UNCHANGED <<now, database, memory, holder, asked, seen>>

(* scalar_one_or_none raises when two games are active.                    *)
Ambiguous(j) ==
    /\ at[j] = "asked" /\ Cardinality(seen[j]) > 1
    /\ Close(j)
    /\ UNCHANGED <<now, database, memory>>

-----------------------------------------------------------------------------
(* start_game.  The pause is looked up before the INSERT, and recorded     *)
(* after it.                                                               *)
Cooling(j) == asked[j] < lastStart + Duration

StartGame(j) ==
    /\ Kind[j] = "trivia" /\ at[j] = "asked"
    /\ seen[j] = {} /\ ~Cooling(j)
    /\ asked' = [asked EXCEPT ![j] = now]
    /\ Go(j, "insert")
    /\ UNCHANGED <<now, database, memory, holder, seen>>

TurnDown(j) ==
    /\ Kind[j] = "trivia" /\ at[j] = "asked"
    /\ Cardinality(seen[j]) = 1 \/ (seen[j] = {} /\ Cooling(j))
    /\ Close(j)
    /\ UNCHANGED <<now, database, memory>>

InsertGame(j) ==
    /\ at[j] = "insert"
    /\ holder[j] = NoJob
    /\ Hold(j, j)
    /\ lastStart' = asked[j]
    /\ Go(j, "commit")
    /\ UNCHANGED <<now, database, awards, daily, asked, seen>>

-----------------------------------------------------------------------------
(* evaluate_chat_guess: a right answer completes the game it was compared  *)
(* with, whatever its state by then: the session keeps the row it has read.*)
CompleteGame(j) ==
    /\ at[j] = "asked" /\ Wins(j) /\ Cardinality(seen[j]) = 1
    /\ Free(j, Game(j))
    /\ Hold(j, Game(j))
    /\ Go(j, "profile")
    /\ UNCHANGED <<now, database, memory, asked, seen>>

-----------------------------------------------------------------------------
(* get_or_create, then what the message is for.                            *)
AfterProfile(j) ==
    CASE Kind[j] = "show" -> "commit"
      [] Wins(j) -> "reward"
      [] OTHER -> "count"

ReadProfile(j) ==
    /\ \/ at[j] = "profile"
       \/ at[j] = "asked" /\ Kind[j] # "trivia" /\ ~Wins(j) /\ Cardinality(seen[j]) <= 1
    /\ Go(j, IF Author[j] \in profiles THEN AfterProfile(j) ELSE "open")
    /\ UNCHANGED <<now, database, memory, holder, asked, seen>>

(* The INSERT waits for whoever has inserted the same key, and fails if    *)
(* that is committed.                                                      *)
OpenProfile(j) ==
    /\ at[j] = "open" /\ Free(j, Author[j])
    /\ IF Author[j] \in profiles
       THEN Close(j)
       ELSE Go(j, AfterProfile(j)) /\ Hold(j, Author[j]) /\ UNCHANGED <<asked, seen>>
    /\ UNCHANGED <<now, database, memory>>

-----------------------------------------------------------------------------
(* process_chat_message.                                                   *)

Day == now \div DayLength
Today(v) == IF daily[v].day = Day THEN daily[v] ELSE [day |-> Day, total |-> 0]
CanAward(v) ==
    /\ \A a \in awards[v] : a[2] + Cooldown <= now
    /\ Cardinality({a \in awards[v] : now < a[2] + BurstWindow}) < BurstMax
    /\ Today(v).total < DailyMax

(* A message that is not is_message_meaningful ends here.                  *)
Judge(j) ==
    LET asks == Kind[j] # "noise"
    IN  /\ Go(j, IF asks /\ CanAward(Author[j]) THEN "award" ELSE "commit")
        /\ daily' = IF asks THEN [daily EXCEPT ![Author[j]] = Today(Author[j])] ELSE daily

(* Fault: the counter is changed in the session and flushed with the rest. *)
CountUnflushed(j) ==
    /\ at[j] = "count"
    /\ Judge(j)
    /\ UNCHANGED <<now, database, lastStart, awards, holder, asked, seen>>

(* The counter is flushed; then the memory is asked.                       *)
Count(j) ==
    /\ at[j] = "count" /\ Free(j, Author[j])
    /\ Hold(j, Author[j])
    /\ Judge(j)
    /\ UNCHANGED <<now, database, lastStart, awards, asked, seen>>

(* award_xp and record_award, which dates the running total of the day     *)
(* without looking at the day it is from.                                  *)
Award(j) ==
    LET v == Author[j] IN
    /\ at[j] = "award" /\ Free(j, v)
    /\ Hold(j, v)
    /\ awards' = [awards EXCEPT ![v] = @ \cup {<<j, now>>}]
    /\ daily' = [daily EXCEPT ![v] = [day |-> Day, total |-> @.total + 1]]
    /\ Go(j, "commit")
    /\ UNCHANGED <<now, database, lastStart, asked, seen>>

-----------------------------------------------------------------------------
(* The reward of the winner: points without a gate, then coins, under a    *)
(* key of game and viewer.  What EconomyService.earn finds under the key   *)
(* stands until the commit: whoever would pay it holds the game.           *)
Reward(j) ==
    /\ at[j] = "reward" /\ Free(j, Author[j])
    /\ Hold(j, Author[j])
    /\ Go(j, "commit")
    /\ UNCHANGED <<now, database, memory, asked, seen>>

(* Fault: the key is new with every message.                               *)
PayableAlways(j) == minted[<<Game(j), Author[j]>>] >= 0

Payable(j) == minted[<<Game(j), Author[j]>>] = 0

-----------------------------------------------------------------------------
Commit(j) ==
    /\ at[j] = "commit"
    /\ games' = IF holder[j] = j
                THEN [games EXCEPT ![j] = [state |-> "ACTIVE", winner |-> NoJob,
                                           began |-> asked[j], until |-> asked[j] + Duration]]
                ELSE IF Wins(j)
                THEN [games EXCEPT ![Game(j)] = [state |-> "COMPLETED", winner |-> Author[j],
                                                 began |-> @.began, until |-> @.until]]
                ELSE games
    /\ profiles' = IF holder[Author[j]] = j THEN profiles \cup {Author[j]} ELSE profiles
    /\ minted' = IF Wins(j) /\ Payable(j)
                 THEN [minted EXCEPT ![<<Game(j), Author[j]>>] = @ + 1] ELSE minted
    /\ Close(j)
    /\ UNCHANGED <<now, memory>>

(* The database fails at an await, or the commit does.                     *)
Fail(j) ==
    /\ at[j] \notin {"new", "over"}
    /\ Close(j)
    /\ UNCHANGED <<now, database, memory>>

TimePasses ==
    /\ now < MaxTime
    /\ now' = now + 1
    /\ UNCHANGED <<database, memory, holder, at, asked, seen>>

-----------------------------------------------------------------------------
Step(j) ==
    \/ Ask(j) \/ Ambiguous(j) \/ StartGame(j) \/ TurnDown(j) \/ InsertGame(j)
    \/ CompleteGame(j) \/ ReadProfile(j) \/ OpenProfile(j) \/ Show(j)
    \/ Count(j) \/ Award(j) \/ Reward(j) \/ Commit(j)

Next ==
    \/ \E j \in Jobs : Step(j) \/ Fail(j)
    \/ TimePasses

Spec == Init /\ [][Next]_gameVars

-----------------------------------------------------------------------------
(* Cooldown, burst limit and daily cap hold of the awards for chatting as  *)
(* they were made, though a message is checked before an await and         *)
(* recorded after it: the counter that was flushed first keeps the         *)
(* viewer's other messages waiting, and the key of a new row does for a    *)
(* first message.  The points a winner gets pass by the guard: they are    *)
(* not counted here, as they are not counted in the code.                  *)
PacedAwards ==
    \A v \in Viewers :
        /\ \A a, b \in awards[v] : a # b => a[2] + Cooldown <= b[2] \/ b[2] + Cooldown <= a[2]
        /\ \A t \in 0..MaxTime :
            Cardinality({a \in awards[v] : a[2] \in t..(t + BurstWindow - 1)}) <= BurstMax
        /\ \A d \in 0..MaxTime :
            Cardinality({a \in awards[v] : a[2] \div DayLength = d}) <= DailyMax

(* A viewer is paid once for a game, however many messages with the right  *)
(* answer are on their way, and for a game that is over; whoever a game is *)
(* won by has been paid for it.  Another viewer may have been, too.        *)
MintedOnce ==
    /\ \A k \in DOMAIN minted : minted[k] <= 1 /\ (minted[k] = 1 => games[k[1]].state = "COMPLETED")
    /\ \A g \in Jobs : games[g].state = "COMPLETED" => minted[<<g, games[g].winner>>] = 1

(* "First correct answer wins!", says the bot, and the document of the     *)
(* games that the first viewer to give it does: one viewer is paid.        *)
FirstAnswerWins ==
    \A g \in Jobs : \A v, w \in Viewers : minted[<<g, v>>] > 0 /\ minted[<<g, w>>] > 0 => v = w

=============================================================================
