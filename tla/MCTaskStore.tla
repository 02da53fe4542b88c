------------------------------ MODULE MCTaskStore ------------------------------
(* A preview that needs an API and a database, and a job that needs, by        *)
(* mistake, itself.                                                            *)
EXTENDS TaskStore

StoreNeeds == [k \in Key |->
  CASE k = "web" -> <<"api", "db">>
    [] k = "api" -> <<"db">>
    [] k = "job" -> <<"job">>
    [] OTHER -> <<>>]
StoreSessions == [c \in Call |-> IF c = "c1" THEN {"s1"} ELSE {"s1", "s2"}]
StoreKey == [c \in Call |-> IF c = "c1" THEN "web" ELSE "job"]
=============================================================================
