----------------------------- MODULE MCTargets -----------------------------
(* Small instances of Targets: two plain names and one inside the other,   *)
(* a short and a long configuration.                                       *)
EXTENDS Targets

MCNames == {"a", "b", "a/b"}
MCPlain == {"a", "b"}
MCUnder == [n \in MCNames |-> IF n = "a" THEN {"a", "a/b"} ELSE {n}]
MCConfigs == {"short", "long"}
MCSize == [c \in MCConfigs |-> IF c = "short" THEN 1 ELSE 2]
TwoRuns == {1, 2}
=============================================================================
