---------------------------- MODULE MCBackground ----------------------------
(* What the system does beside the chat, one subject at a time, which      *)
(* share no variable:                                                      *)
(*   units     two processes on one Redis; three requests compete inside   *)
(*             the worker, of which any two fit into the budget, and one   *)
(*             runs in the other; cheap reads and dear writes              *)
(*   keys      two keys, two callers; the backoff doubles from 1 (2 for a  *)
(*             429) to its cap of 3 in three errors, as 15 s (30 s) does   *)
(*             to 300 s in six                                             *)
(*   channels  a coordinator and an administrator, and two channels of one *)
(*             creator                                                     *)
(*   hub       deliveries of three notifications, two of them of a channel *)
(*             that is known                                               *)
(*   schema    the start of a process, with its crashes                    *)
EXTENDS Quota, ApiKeyPool, Discovery, WebSub, Migrations

CONSTANTS r1, r2, r3, r4, api, worker1, k1, k2,
          loop, admin, process, main, second, creator, n1, n2, n3, known, stranger

VARIABLE subject

MCRequests == {r1, r2, r3, r4}
MCProcs == {api, worker1}
MCProcOf == [r \in MCRequests |-> IF r = r4 THEN api ELSE worker1]
MCCost == [r \in MCRequests |-> IF r \in {r1, r2} THEN 1 ELSE 2]

MCCallers == {r1, r2}
MCKeys == {k1, k2}

MCHome == [p \in {loop, admin} |-> process]
MCCreator == [c \in {main, second} |-> creator]
MCTells == [d \in {n1, n2, n3} |-> IF d = n3 THEN stranger ELSE known]

MCInit ==
    /\ QuotaInit /\ PoolInit /\ DiscoveryInit /\ WebSubInit /\ MigrationsInit
    /\ subject \in {"units", "keys", "channels", "hub", "schema"}
    /\ \A c \in Channels : row[c].enabled <=> subject = "channels"
    /\ subject # "schema" => deployment = "sqlite" /\ stored.heads = {}

MCNext ==
    /\ UNCHANGED subject
    /\ \/ /\ subject = "units" /\ QuotaNext
          /\ UNCHANGED <<keyPoolVars, discoveryVars, webSubVars, migrationVars>>
       \/ /\ subject = "keys" /\ PoolNext
          /\ UNCHANGED <<quotaVars, discoveryVars, webSubVars, migrationVars>>
       \/ /\ subject = "channels" /\ DiscoveryNext
          /\ UNCHANGED <<quotaVars, keyPoolVars, webSubVars, migrationVars>>
       \/ /\ subject = "hub" /\ WebSubNext
          /\ UNCHANGED <<quotaVars, keyPoolVars, discoveryVars, migrationVars>>
       \/ /\ subject = "schema" /\ MigrationsNext
          /\ UNCHANGED <<quotaVars, keyPoolVars, discoveryVars, webSubVars>>

(* The fairness of each module, where it is the subject.                   *)
MCFairness ==
    /\ WF_keyPoolVars(subject = "keys" /\ TimePasses)
    /\ \A r \in MCCallers :
          /\ WF_keyPoolVars(subject = "keys" /\ Take(r))
          /\ WF_keyPoolVars(subject = "keys" /\ (Succeed(r) \/ \E code \in ErrorCodes : Fail(r, code)))
    /\ \A p \in Checkers : WF_discoveryVars(subject = "channels" /\ (Begin(p) \/ Check(p)))
    /\ \A c \in Channels :
          WF_discoveryVars(subject = "channels" /\ Expire(c) /\ \A p \in Checkers : ~Inside(p, c))

MCSpec ==
    /\ MCInit
    /\ [][MCNext]_<<subject, quotaVars, keyPoolVars, discoveryVars, webSubVars, migrationVars>>
    /\ MCFairness
=============================================================================
