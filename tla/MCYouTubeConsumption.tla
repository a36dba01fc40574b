------------------------ MODULE MCYouTubeConsumption ------------------------
(* One day, one read of one unit, a budget of one unit.                    *)
EXTENDS YouTubeConsumption

CONSTANTS a, k1

MCReaders == {a}
MCWriters == {}
MCKeys == {k1}
MCCost == [r \in {a} |-> 1]
=============================================================================
