----------------------------- MODULE Migrations -----------------------------
(* The upgrade of the database schema when a process starts.               *)
(*                                                                         *)
(* A container runs `alembic upgrade head` and, if that succeeds, the      *)
(* application, which upgrades again (init_db_engine); a developer runs    *)
(* the application alone, which goes on when the upgrade fails.  Both then *)
(* create what tables are still missing, and come up whether they succeed  *)
(* or not.  On PostgreSQL the whole upgrade is one transaction; on SQLite  *)
(* each statement is final at once and the version is written when a       *)
(* revision is done, so that a crash leaves half a revision behind, to be  *)
(* run again.                                                              *)
(*                                                                         *)
(* A part of the schema is a pair: a table and "table" for the table       *)
(* itself, "unique" for its unique index, or a column it got later.  Other *)
(* indexes are left out, and processes that upgrade at the same time.  A   *)
(* revision is run statement by statement; it looks once, when it begins,  *)
(* at which tables there are.                                              *)
EXTENDS Naturals, Sequences, FiniteSets

CONSTANTS
    VersionWidth,   \* of the column in which alembic keeps a revision's name
    MaxRestarts,    \* bound: times a process crashes, is started again, or has
                    \* its database fail
    MaxLosses       \* bound: parts not made by a failure that spares the others

ASSUME MigrationsAssumption == VersionWidth \in Nat /\ MaxRestarts \in Nat /\ MaxLosses \in Nat

VARIABLES
    deployment,   \* "sqlite" or "postgresql" of a developer, or "container"
    stored,       \* what is committed: [parts, heads]
    draft,        \* what the upgrade sees: also what it has not committed
    stage,        \* where the process is
    revision,     \* the revision it runs, or Nowhere
    pending,         \* the statements left of that revision
    found,        \* the parts there were when that revision began
    upgraded,     \* whether the upgrade of this start went through
    restarts

migrationVars == <<deployment, stored, draft, stage, revision, pending, found, upgraded, restarts>>

Transactional == deployment # "sqlite"

-----------------------------------------------------------------------------
(* The revisions.  A statement makes a part, either in the branch that is  *)
(* taken when the table was not found, or wherever the part is missing.    *)

Nowhere == "none"

Create(names) == [i \in DOMAIN names |-> [part |-> <<names[i], "table">>, branch |-> TRUE]]
CreateUnique(name) == Create(<<name>>) \o <<[part |-> <<name, "unique">>, branch |-> TRUE]>>
Ensure(name, what) == <<[part |-> <<name, what>>, branch |-> FALSE]>>

InitialSchema == CreateUnique("creators") \o Create(<<"stream_sessions", "audit_events", "system_events">>)

WebSubTables ==
    Create(<<"youtube_websub_subscriptions", "youtube_discovery_events">>) \o CreateUnique("youtube_checkpoints")

ReviewTables == Create(<<"moderation_reviews", "moderation_feedback">>)

ProfileTables == Create(<<"viewer_trust_profiles", "ai_usage_records">>) \o CreateUnique("creator_ai_settings")

EngagementTables == Create(<<"custom_commands", "command_aliases", "viewer_engagements">>)

EconomyTables ==
    Create(<<"economy_accounts", "economy_transactions", "economy_ledger_entries",
             "store_items", "viewer_inventories", "mini_game_sessions">>)

OperationsTables ==
    CreateUnique("incidents") \o Create(<<"creator_discord_configs", "feature_flags", "system_metric_snapshots">>)

ReconciledReviews == ReviewTables

ReconciledOperations ==
    Create(<<"incidents">>) \o Ensure("incidents", "unique")
    \o Create(<<"creator_discord_configs", "feature_flags", "system_metric_snapshots">>)

MonitoredChannels == Create(<<"monitored_channels">>) \o Ensure("monitored_channels", "last_connected_session_id")

MissingCore == InitialSchema
MissingYouTube == WebSubTables
MissingProfiles == ProfileTables
MissingEngagement == EngagementTables
MissingEconomy == EconomyTables

FlagsOfStreams == Ensure("feature_flags", "stream_session_id")

JoinMessage == Ensure("stream_sessions", "join_message_sent")

Script ==
    [r \in {"0001_initial_schema", "0002_phase2_youtube_websub", "0003_phase3_ai_moderation_persona",
            "0004_phase4_engagement_economy", "0005_phase5_operations_incidents",
            "0006_reconcile_production_schema", "0007_create_monitored_channels",
            "0008_reconcile_missing_core_tables", "0009_reconcile_legacy_history",
            "002_add_join_message_sent"} |->
        CASE r = "0001_initial_schema" -> InitialSchema
          [] r = "0002_phase2_youtube_websub" -> WebSubTables
          [] r = "0003_phase3_ai_moderation_persona" -> ReviewTables \o ProfileTables
          [] r = "0004_phase4_engagement_economy" -> EngagementTables \o EconomyTables
          [] r = "0005_phase5_operations_incidents" -> OperationsTables
          [] r = "0006_reconcile_production_schema" -> ReconciledReviews \o ReconciledOperations
          [] r = "0007_create_monitored_channels" -> MonitoredChannels
          [] r = "0008_reconcile_missing_core_tables" ->
                MissingCore \o MissingYouTube \o MissingProfiles \o MissingEngagement \o MissingEconomy
          [] r = "0009_reconcile_legacy_history" -> FlagsOfStreams
          [] r = "002_add_join_message_sent" -> JoinMessage]

Revisions == DOMAIN Script
Latest == "0009_reconcile_legacy_history"
Legacy == "002_add_join_message_sent"

(* down_revision: a chain, and the legacy revision beside it.              *)
Chain == <<"0001_initial_schema", "0002_phase2_youtube_websub", "0003_phase3_ai_moderation_persona",
           "0004_phase4_engagement_economy", "0005_phase5_operations_incidents",
           "0006_reconcile_production_schema", "0007_create_monitored_channels",
           "0008_reconcile_missing_core_tables", Latest>>

Revises == [r \in Revisions |->
    {Chain[i] : i \in {i \in 1..Len(Chain) - 1 : Chain[i + 1] = r}} \cup IF r = Latest THEN {Legacy} ELSE {}]

(* What the revisions in the version table stand for.                      *)
Applied(heads) ==
    {Chain[i] : i \in {i \in 1..Len(Chain) : \E j \in i..Len(Chain) : Chain[j] \in heads}}
    \cup IF heads \cap {Legacy, Latest} = {} THEN {} ELSE {Legacy}

(* What the models declare, as create_all makes it.                        *)
ModelTables == {st.part[1] : st \in UNION {{Script[r][i] : i \in DOMAIN Script[r]} : r \in Revisions}}

ModelParts ==
    (ModelTables \X {"table"})
    \cup ({"creators", "youtube_checkpoints", "creator_ai_settings", "incidents"} \X {"unique"})
    \cup {<<"feature_flags", "stream_session_id">>}

-----------------------------------------------------------------------------
(* A clean database, or one that knows nothing but the legacy revision.    *)
MigrationsInit ==
    /\ deployment \in {"sqlite", "postgresql", "container"}
    /\ stored \in {[parts |-> {}, heads |-> {}],
                   [parts |-> {<<"creators", "table">>, <<"creators", "unique">>, <<"creators", "row">>,
                               <<"stream_sessions", "table">>, <<"stream_sessions", "join_message_sent">>},
                    heads |-> {Legacy}]}
    /\ draft = stored /\ stage = "down"
    /\ revision = Nowhere /\ pending = <<>> /\ found = {}
    /\ upgraded = FALSE /\ restarts = 0

StartProcess ==
    /\ stage = "down"
    /\ stage' = IF deployment = "container" THEN "cli" ELSE "app"
    /\ draft' = stored /\ upgraded' = FALSE
    /\ UNCHANGED <<deployment, stored, revision, pending, found, restarts>>

(* SQLite keeps what is done; PostgreSQL when all of it is.                *)
Change(new) ==
    /\ draft' = new
    /\ stored' = IF Transactional THEN stored ELSE new

BeginRevision(r) ==
    /\ stage \in {"cli", "app"} /\ revision = Nowhere
    /\ r \notin Applied(draft.heads) /\ Revises[r] \subseteq Applied(draft.heads)
    /\ revision' = r /\ pending' = Script[r] /\ found' = draft.parts
    /\ UNCHANGED <<deployment, stored, draft, stage, upgraded, restarts>>

(* Faulty: a column is added to a table only in the branch that makes it.  *)
DueInBranch(st) == <<st.part[1], "table">> \notin found

(* Whether a statement is executed.                                        *)
Due(st) ==
    IF st.branch THEN <<st.part[1], "table">> \notin found
    ELSE <<st.part[1], "table">> \in draft.parts /\ st.part \notin draft.parts

NextStatement ==
    /\ revision # Nowhere /\ pending # <<>>
    /\ IF Due(Head(pending))
         THEN Change([draft EXCEPT !.parts = @ \cup {Head(pending).part}])
         ELSE UNCHANGED <<stored, draft>>
    /\ pending' = Tail(pending)
    /\ UNCHANGED <<deployment, stage, revision, found, upgraded, restarts>>

(* Only PostgreSQL minds the width of the column.                          *)
VersionFits(r) == Transactional => Len(r) <= VersionWidth

WriteVersion ==
    /\ revision # Nowhere /\ pending = <<>> /\ VersionFits(revision)
    /\ Change([draft EXCEPT !.heads = (@ \ Revises[revision]) \cup {revision}])
    /\ revision' = Nowhere
    /\ UNCHANGED <<deployment, stage, pending, found, upgraded, restarts>>

(* Everything is at the latest revision: the transaction is committed.     *)
FinishUpgrade ==
    /\ stage \in {"cli", "app"} /\ revision = Nowhere /\ Latest \in draft.heads
    /\ stored' = draft
    /\ stage' = IF stage = "cli" THEN "app" ELSE "create"
    /\ upgraded' = (stage = "app")
    /\ UNCHANGED <<deployment, draft, revision, pending, found, restarts>>

(* A failed upgrade ends the container; the application logs it and goes   *)
(* on, but not in production, where it comes up as it is.                  *)
GiveUpUpgrade ==
    /\ draft' = stored
    /\ revision' = Nowhere /\ pending' = <<>>
    /\ stage' = IF stage = "cli" THEN "exited" ELSE IF deployment = "container" THEN "up" ELSE "create"
    /\ UNCHANGED <<deployment, stored, found, upgraded>>

VersionRefused ==
    /\ revision # Nowhere /\ pending = <<>> /\ ~VersionFits(revision)
    /\ GiveUpUpgrade
    /\ UNCHANGED restarts

(* The connection breaks, or a lock is not to be had.                      *)
UpgradeFails ==
    /\ stage \in {"cli", "app"} /\ restarts < MaxRestarts
    /\ GiveUpUpgrade
    /\ restarts' = restarts + 1

(* create_all, and each table by itself; a creator if there is none.       *)
Missing == {p \in ModelParts : <<p[1], "table">> \notin stored.parts}

ComeUp(made) ==
    /\ stage = "create" /\ stage' = "up"
    /\ stored' = [stored EXCEPT !.parts = @ \cup made] /\ draft' = stored'
    /\ UNCHANGED <<deployment, revision, pending, found, upgraded>>

CreateMissing ==
    /\ ComeUp(Missing \cup {<<"creators", "row">>})
    /\ UNCHANGED restarts

(* A failure costs all that is missing, or some tables with what belongs   *)
(* to them, or, where each statement is final, the unique index alone: the *)
(* second attempt finds the table and passes over it.                      *)
Losses ==
    LET breaks == {p \in Missing : p[2] = "table" \/ (p[2] = "unique" /\ ~Transactional)} IN
    {{}, breaks} \cup {{which[i] : i \in 1..MaxLosses} : which \in [1..MaxLosses -> breaks]}

(* Each of these failures is caught, and the application comes up.  There  *)
(* is no creator where the table of creators is not.                       *)
CreateFails ==
    /\ restarts < MaxRestarts
    /\ \E lost \in Losses, seeded \in SUBSET {<<"creators", "row">>} :
          LET made == {p \in Missing : lost \cap {p, <<p[1], "table">>} = {}} IN
          /\ seeded # {} => <<"creators", "table">> \in stored.parts \cup made
          /\ ComeUp(made \cup seeded)
    /\ restarts' = restarts + 1

(* The process dies, or is started anew.                                   *)
Reboot ==
    /\ stage # "down" /\ restarts < MaxRestarts
    /\ stage' = "down" /\ draft' = stored /\ restarts' = restarts + 1
    /\ revision' = Nowhere /\ pending' = <<>>
    /\ UNCHANGED <<deployment, stored, found, upgraded>>

MigrationsNext ==
    \/ StartProcess \/ NextStatement \/ WriteVersion \/ FinishUpgrade
    \/ VersionRefused \/ UpgradeFails \/ CreateMissing \/ CreateFails \/ Reboot
    \/ \E r \in Revisions : BeginRevision(r)

MigrationsSpec == MigrationsInit /\ [][MigrationsNext]_migrationVars

-----------------------------------------------------------------------------
(* Whatever came before, crashes and failures half-way included, and       *)
(* though the tables may fail to be created: an application that is up     *)
(* and whose own upgrade went through finds every table and column of its  *)
(* models, and no other revision than the latest.  The guards of the       *)
(* revisions are what does it.  And where nothing failed at all, upgraded  *)
(* or not, there are the unique indexes and the creator too.               *)
UpIsCurrent ==
    stage = "up" =>
        /\ upgraded => /\ stored.heads = {Latest}
                       /\ \A p \in ModelParts : p[2] # "unique" => p \in stored.parts
        /\ restarts = 0 => ModelParts \cup {<<"creators", "row">>} \subseteq stored.parts

(* "Schema guarantee: Ensure all Base.metadata tables exist across all     *)
(* environments", says init_db_engine, and of the tables one by one        *)
(* "ensure each table exists independently".                               *)
SchemaIsGuaranteed == stage = "up" => ModelTables \X {"table"} \subseteq stored.parts

(* `alembic upgrade head` exits 0 on clean databases and on databases at   *)
(* the legacy revision, as the audit of the migrations says; the tests run *)
(* it on SQLite.                                                           *)
UpgradeExitsZero == restarts = 0 => stage # "exited"
=============================================================================
