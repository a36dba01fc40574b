------------------------------ MODULE Commands ------------------------------
(***************************************************************************)
(* ProductionCommandEngine (app/commands/engine.py), the !uk commands of   *)
(* the staff (app/commands/admin.py) and the routes that do the same over  *)
(* HTTP (app/api/routes/commands.py), on the custom commands of a creator. *)
(*                                                                         *)
(* A request has a session of its own: it loads the row, and what it then  *)
(* flushes is an UPDATE of the columns it has changed, an INSERT or a      *)
(* DELETE by the id it has loaded.  The answer is sent after the commit.   *)
(* Moderation tickets, coins and the store, which !uk also reaches, are in *)
(* the modules Review, Ledger and Store, games in Engagement.              *)
(***************************************************************************)
EXTENDS Naturals, FiniteSets

CONSTANTS
    Requests,
    Op,         \* "add", "edit", "perms", "delete" or "use"
    Name,       \* the command that it is about, as it is written
    Text,       \* the response that it sets
    MinRole,    \* the role that it sets
    Sender,
    Rank,       \* role of a sender: 1 viewer, 2 moderator, 3 creator, 4 developer
    Builtins,   \* built-in names
    Canonical,  \* aliases of built-in commands resolved
    Nobody

Names == {Name[r] : r \in Requests}
Senders == {Sender[r] : r \in Requests}
Ids == {r \in Requests : Op[r] = "add"}

ASSUME CommandsAssumption ==
    /\ Op \in [Requests -> {"add", "edit", "perms", "delete", "use"}]
    /\ MinRole \in [Requests -> 1..4]
    /\ Rank \in [Senders -> 1..4]
    /\ Canonical \in [Names -> Names \cup Builtins]
    /\ Nobody \notin Requests

VARIABLES
    rows,       \* committed: the commands by id, an id is named for the request that added it
    writer,     \* who holds a row, or the unique key of a name
    cooling,    \* _local_cooldowns: sender and command
    stage,      \* the await a request is at
    loaded,     \* the id of the row it is about
    copy,       \* the row as it was loaded
    replied     \* requests that were answered with success

commandVars == <<rows, writer, cooling, stage, loaded, copy, replied>>

Row == [name : Names, text : {Text[r] : r \in Requests}, role : 1..4]

CommandsTypeOK ==
    /\ rows \in [Ids -> Row \cup {Nobody}]
    /\ writer \in [Ids \cup Names -> Requests \cup {Nobody}]
    /\ cooling \in SUBSET (Senders \X (Names \cup Builtins))
    /\ stage \in [Requests -> {"new", "flush", "commit", "over"}]
    /\ loaded \in [Requests -> Ids \cup {Nobody}]
    /\ copy \in [Requests -> Row \cup {Nobody}]
    /\ replied \in SUBSET Requests

CommandsInit ==
    /\ rows = [i \in Ids |-> Nobody]
    /\ writer = [k \in Ids \cup Names |-> Nobody]
    /\ cooling = {}
    /\ loaded = [r \in Requests |-> Nobody]
    /\ copy = [r \in Requests |-> Nobody]
    /\ replied = {}

Found(n) == {i \in Ids : rows[i] # Nobody /\ rows[i].name = n}

(* The session is closed: what is not committed is undone.                 *)
End(r) ==
    /\ stage' = [stage EXCEPT ![r] = "over"]
    /\ writer' = [k \in DOMAIN writer |-> IF writer[k] = r THEN Nobody ELSE writer[k]]
    /\ copy' = [copy EXCEPT ![r] = Nobody]

-----------------------------------------------------------------------------
(* !uk is for the staff; a request that finds what it must not, or does    *)
(* not find what it must, is turned down.                                  *)
MayChange(r) ==
    /\ Rank[Sender[r]] >= 2
    /\ Op[r] = "add" <=> Found(Name[r]) = {}

LookUp(r) ==
    /\ stage[r] = "new" /\ Op[r] # "use"
    /\ MayChange(r)
    /\ LET i == IF Op[r] = "add" THEN r ELSE CHOOSE i \in Found(Name[r]) : TRUE
       IN  /\ loaded' = [loaded EXCEPT ![r] = i]
           /\ copy' = [copy EXCEPT ![r] = rows[i]]
    /\ stage' = [stage EXCEPT ![r] = "flush"]
    /\ UNCHANGED <<rows, writer, cooling, replied>>

TurnAway(r) ==
    /\ stage[r] = "new" /\ Op[r] # "use"
    /\ ~MayChange(r)
    /\ End(r)
    /\ UNCHANGED <<rows, loaded, cooling, replied>>

(* The flush: what it is about must be free.  An INSERT fails when the     *)
(* name is taken by then, an UPDATE when the row is gone; a DELETE of a row*)
(* that is gone is as good as done, and what changes nothing is no         *)
(* statement at all.                                                       *)
Wanted(r) == IF Op[r] = "add" THEN Name[r] ELSE loaded[r]

Changes(r) ==
    \/ Op[r] \in {"add", "delete"}
    \/ Op[r] = "edit" /\ copy[r].text # Text[r]
    \/ Op[r] = "perms" /\ copy[r].role # MinRole[r]

Fruitless(r) ==
    \/ Op[r] = "add" /\ Found(Name[r]) # {}
    \/ Op[r] \in {"edit", "perms"} /\ rows[loaded[r]] = Nobody

FlushNothing(r) ==
    /\ stage[r] = "flush" /\ ~Changes(r)
    /\ stage' = [stage EXCEPT ![r] = "commit"]
    /\ UNCHANGED <<rows, writer, cooling, loaded, copy, replied>>

Flush(r) ==
    /\ stage[r] = "flush" /\ Changes(r)
    /\ writer[Wanted(r)] = Nobody
    /\ IF Fruitless(r)
       THEN End(r)
       ELSE /\ writer' = [writer EXCEPT ![Wanted(r)] = r]
            /\ stage' = [stage EXCEPT ![r] = "commit"]
            /\ UNCHANGED copy
    /\ UNCHANGED <<rows, loaded, cooling, replied>>

-----------------------------------------------------------------------------
(* What the statement of r makes of the row, and its commit.               *)

(* Fault: all columns are written, as they were loaded.                    *)
ChangedWhole(r, row) ==
    CASE Op[r] = "add"   -> [name |-> Name[r], text |-> Text[r], role |-> MinRole[r]]
      [] Op[r] = "edit"  -> [copy[r] EXCEPT !.text = Text[r]]
      [] Op[r] = "perms" -> [copy[r] EXCEPT !.role = MinRole[r]]
      [] OTHER           -> Nobody

Changed(r, row) ==
    CASE Op[r] = "add"   -> [name |-> Name[r], text |-> Text[r], role |-> MinRole[r]]
      [] Op[r] = "edit"  -> [row EXCEPT !.text = Text[r]]
      [] Op[r] = "perms" -> [row EXCEPT !.role = MinRole[r]]
      [] OTHER           -> Nobody

Accept(r) ==
    /\ stage[r] = "commit"
    /\ rows' = IF Changes(r) THEN [rows EXCEPT ![loaded[r]] = Changed(r, @)] ELSE rows
    /\ replied' = replied \cup {r}
    /\ End(r)
    /\ UNCHANGED <<loaded, cooling>>

Break(r) ==
    /\ stage[r] \in {"flush", "commit"}
    /\ End(r)
    /\ UNCHANGED <<rows, loaded, cooling, replied>>

-----------------------------------------------------------------------------
(* A command is used: a built-in one, by its name or an alias, hides a     *)
(* custom one.  Permission first, then the cooldown, which starts at once. *)
Target(r) == Canonical[Name[r]]
BuiltIn(r) == Target(r) \in Builtins
Permitted(r) == BuiltIn(r) \/ \E i \in Found(Name[r]) : Rank[Sender[r]] >= rows[i].role
Cool(r) == <<Sender[r], Target(r)>> \notin cooling

Use(r) ==
    /\ stage[r] = "new" /\ Op[r] = "use"
    /\ IF Permitted(r) /\ Cool(r)
       THEN cooling' = cooling \cup {<<Sender[r], Target(r)>>} /\ replied' = replied \cup {r}
       ELSE UNCHANGED <<cooling, replied>>
    /\ End(r)
    /\ UNCHANGED <<rows, loaded>>

CooldownEnds ==
    /\ \E c \in cooling : cooling' = cooling \ {c}
    /\ UNCHANGED <<rows, writer, stage, loaded, copy, replied>>

-----------------------------------------------------------------------------
CommandNext ==
    \/ \E r \in Requests : LookUp(r) \/ TurnAway(r) \/ FlushNothing(r) \/ Flush(r) \/ Accept(r)
                             \/ Break(r) \/ Use(r)
    \/ CooldownEnds

CommandsSpec ==
    CommandsInit /\ stage = [r \in Requests |-> "new"] /\ [][CommandNext]_commandVars

-----------------------------------------------------------------------------
(* What was answered stands until it is changed by another answer: a       *)
(* change of the text and one of the role that overlap both survive, and   *)
(* no name has two commands.                                               *)
Answered(op, i) == {r \in replied : Op[r] = op /\ loaded[r] = i}

NoChangeIsLost ==
    \A i \in Ids : rows[i] # Nobody =>
        /\ Answered("delete", i) = {}
        /\ Answered("edit", i) # {} => \E r \in Answered("edit", i) : rows[i].text = Text[r]
        /\ Answered("perms", i) # {} => \E r \in Answered("perms", i) : rows[i].role = MinRole[r]
        /\ Found(rows[i].name) = {i}
=============================================================================
