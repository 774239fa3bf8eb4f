--------------------------- MODULE MCMigrateTask ---------------------------
(* A donor with two tables and a view of the user's, and a system table.   *)
EXTENDS MigrateTask

MCTables == {"t1", "t2", "user"}
MCViews  == {"v1", "v2"}
MCSchemaOf ==
    [o \in MCTables \union MCViews |->
        CASE o = "user"        -> "mysql"
          [] o \in {"t1","v1"} -> "app"
          [] OTHER             -> "shop"]
MCSystem == {"mysql"}
=============================================================================
