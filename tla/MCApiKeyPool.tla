---------------------------- MODULE MCApiKeyPool ----------------------------
(* Two keys, two callers.  The backoff doubles from 1 (2 for a 429) to its *)
(* cap of 3 in three errors, as 15 s (30 s) does to 300 s in six.          *)
EXTENDS ApiKeyPool

CONSTANTS k1, k2, r1, r2

MCKeys == {k1, k2}
MCCallers == {r1, r2}
=============================================================================
