--------------------------- MODULE MCFindBindings ---------------------------
(* A small instance of FindBindings: the first instance has a binding and a *)
(* key, the second a binding.                                               *)
EXTENDS FindBindings

MCPlans == {"small", "large"}
MCInstances == {"db1", "db2"}
MCApps == {"app1", "app2"}
MCKeys == {"key1"}
MCOf == [b \in MCApps \union MCKeys |-> IF b = "app2" THEN "db2" ELSE "db1"]
MCServices == {0, 1, 2}
=============================================================================
