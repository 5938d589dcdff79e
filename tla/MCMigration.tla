----------------------------- MODULE MCMigration -----------------------------
(* An instance of Migration for TLC.                                       *)
EXTENDS Migration

\* In the configuration OPENAI_API_KEY is "openai: {api_key: ...}".
MCKeys == {"API_KEY", "OPENAI_API_KEY"}
MCLeaf == [k \in MCKeys |-> "API_KEY"]

\* In .env.local API_KEY is indented.
MCOdd == {<<"API_KEY", ".env.local">>}

\* The nested name only in the configuration and in .env.
MCInit ==
  /\ MigrationInit
  /\ shell["OPENAI_API_KEY"] = Absent
  /\ \A f \in {"~/.env", ".env.local"} : files[f]["OPENAI_API_KEY"] = Absent

MCSpec == MCInit /\ [][MigrationNext]_vars
=============================================================================
