------------------------------ MODULE MCSweep ------------------------------
EXTENDS Sweep

CONSTANTS r1, r2

MCClasses == <<"direct", "idp_cache_orphan">>
MCWindow == [c \in SweptClass |-> IF c = "direct" THEN 0 ELSE 1]
\* Each row takes one tick off the clock.
MCMaxRowTime == [n \in 0..Cardinality(Row) |-> MaxTime - n]
=============================================================================
