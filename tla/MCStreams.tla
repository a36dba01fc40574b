------------------------------ MODULE MCStreams ------------------------------
(* Two or three calls at a time on the streams of one broadcast.           *)
EXTENDS Streams

CONSTANTS c1, c2, c3

Trio(k1, k2, k3) ==
    [c \in Calls |-> CASE c = c1 -> k1 [] c = c2 -> k2 [] OTHER -> k3]

(* A disconnect and a restart of the dashboard; two bootstraps, of which   *)
(* one is automatic; a shutdown in the middle of a restart; the end of a   *)
(* stream while its row is reconciled; two restarts.                       *)
MCScenarios ==
    { Trio("bootstrap", "control restart", "control disconnect"),
      Trio("auto", "bootstrap", "none"),
      Trio("connect", "control restart", "shutdown"),
      Trio("auto", "control reconcile", "disconnect"),
      Trio("bootstrap", "restart", "restart") }

(* The dashboard alone.                                                    *)
MCDashboard ==
    { Trio("bootstrap", "control restart", "control disconnect") }
=============================================================================
