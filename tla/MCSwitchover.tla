---------------------------- MODULE MCSwitchover ---------------------------
(* Small instances of Switchover: one pair of foundations, two plans.      *)
EXTENDS Switchover

OneRun  == {1}
TwoRuns == {1, 2}
FourRuns == 1 .. 4

MCCommand(name, f) == [name |-> name, primary |-> f]
Any == [r \in TwoRuns |-> Command]
SetupThenUse == <<{MCCommand("setup", A)}, {MCCommand("switch", A)},
                  {MCCommand("switch", B)}, {MCCommand("switch", B)}>>
SwitchOnly   == <<{MCCommand("switch", A)}>>

MCPlans     == {"small", "small-ha"}
AtFirst     == [f \in Sites |-> IF f = A THEN "small" ELSE "small-ha"]
OfferBoth   == [f \in Sites |-> MCPlans]
\* B does not offer "small", whose name is part of that of "small-ha".
OfferUneven == [f \in Sites |-> IF f = A THEN MCPlans ELSE {"small-ha"}]

Exact       == {}
SmallInHA   == {<<"small", "small-ha">>}
=============================================================================
