----------------------------- MODULE MCMigrate -----------------------------
(* Small instances of Migrate for TLC.                                     *)
EXTENDS Migrate

CONSTANTS r1, r2, r3

OneRun    == {r1}
TwoRuns   == {r1, r2}
ThreeRuns == {r1, r2, r3}

NoFaults  == {}
FailOnly  == {"fail"}
AllFaults == {"fail", "lost"}

Rejects   == {"error"}
AnyAnswer == {"error", "ok"}
=============================================================================
