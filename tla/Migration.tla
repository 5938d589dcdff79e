------------------------------ MODULE Migration ------------------------------
(***************************************************************************)
(* The move of plaintext secrets into the vault, migrate_secrets() of      *)
(* src/hermes_katana/vault/migrate.py: it discovers secrets in the         *)
(* environment, a configuration file and a .env file, sets those the vault *)
(* has not, and overwrites the originals with zeros, a file at a time.     *)
(* The vault is the atomic store that SecretStore promises.                *)
(*                                                                         *)
(* A value is known by the source it was in at first, so two sources never *)
(* have equal values.  Zeroed stands for any string of zeros.              *)
(***************************************************************************)
EXTENDS Naturals, Sequences

CONSTANTS
  Keys,        \* names of secrets
  Leaf,        \* the key on the line of a configuration entry: nested entries
               \* have a shorter one than their name
  Odd,         \* entries that the scan reads but no pattern matches: indented or
               \* quoted keys, and keys spelt with a dash or a dot
  MaxRuns,     \* bound: calls of migrate_secrets()
  MaxFailures, \* bound: processes that die, and failed writes
  MaxOthers,   \* bound: changes to the vault by others
  Absent

ASSUME LeafAssumption == Leaf \in [Keys -> Keys]

Zeroed == "zeroed"
Other  == "other"

DotFiles    == {".env", "~/.env", ".env.local"}   \* .env.production is like ~/.env
SecretFiles == DotFiles \union {"config"}
Sources     == SecretFiles \union {"env"}
Value       == Sources \union {Zeroed, Other}

ASSUME AbsentAssumption == Absent \notin Value
ASSUME OddAssumption    == Odd \subseteq Keys \X SecretFiles

Args == [dotenv : DotFiles \union {Absent}, config : BOOLEAN, delete : BOOLEAN]

VARIABLES
  shell,    \* the secrets in the environment that processes are started with
  env,      \* os.environ of the process
  files,    \* the secrets in each file
  exists,   \* the files there are
  vault,    \* the secrets in the vault
  pc,       \* where the process is in migrate_secrets(); "down": not running
  args,     \* what it was called with
  found,    \* what discover_secrets() returned: value and source of each key
  todo,     \* the keys still to be migrated
  key,      \* the one it is at
  targets,  \* the files its original may still be erased from
  buf       \* what is to be written back

\* History: the original secrets, what was stored in the vault so far, the
\* mishaps, and the numbers of runs, faults and other changes.
VARIABLES originals, stored, causes, runs, faults, others

local == <<args, found, todo, key, targets, buf>>
outer == <<shell, env, files, exists, vault>>
count == <<runs, faults, others>>
vars  == <<outer, pc, local, originals, stored, causes, count>>

Mishap ==
  { "truncated",  \* the rewriting of an emptied file failed or was cut short
    "neighbour",  \* zeros went over another entry of the configuration
    "elsewhere",  \* zeros went to a .env file that was not the one scanned
    "removed",    \* a secret was removed from the vault
    "kept",       \* originals were to be kept
    "nested",     \* the line of a nested entry does not match its name
    "pathless",   \* the file scanned by default is not one that is erased from
    "unmatched",  \* the entry is written in a way that the patterns do not match
    "cut_short" } \* an erasure failed or its process died before it

Nothing == [k \in Keys |-> Absent]
NoArgs  == [dotenv |-> Absent, config |-> FALSE, delete |-> FALSE]

\* The entries of one source, each either there or not.
Entries(s) == [Keys -> {Absent, s}]

MigrationInit ==
  /\ shell \in Entries("env")
  /\ \E c \in Entries("config"), d \in Entries(".env"), h \in Entries("~/.env"), l \in Entries(".env.local") :
       files = [f \in SecretFiles |-> CASE f = "config" -> c [] f = ".env" -> d [] f = "~/.env" -> h [] OTHER -> l]
  /\ exists \in {e \in SUBSET SecretFiles : "config" \in e /\ \A f \in SecretFiles \ e : files[f] = Nothing}
  /\ env = Nothing /\ vault = Nothing
  /\ pc = "down" /\ args = NoArgs /\ found = Nothing /\ todo = {} /\ key = Absent
  /\ targets = <<>> /\ buf = Nothing
  /\ originals = {o \in Keys \X SecretFiles : files[o[2]][o[1]] # Absent}
  /\ stored = {} /\ causes = {} /\ runs = 0 /\ faults = 0 /\ others = 0

-----------------------------------------------------------------------------
(* Discovery.                                                              *)

Order == <<".env", "~/.env", ".env.local">>

\* _scan_dotenv: the file given, else the first that exists.
Scanned(a) ==
  IF a.dotenv # Absent THEN a.dotenv
  ELSE IF \E i \in 1..3 : Order[i] \in exists
       THEN Order[CHOOSE i \in 1..3 : Order[i] \in exists /\ \A j \in 1..(i - 1) : Order[j] \notin exists]
       ELSE Absent

\* A string of zeros is a number in YAML, and only strings count as secrets.
InConfig(k) == files["config"][k] \notin {Absent, Zeroed}

\* The environment goes before the configuration, and that before .env.
Discovered(a) ==
  [k \in Keys |->
     IF env[k] # Absent THEN [val |-> env[k], from |-> "env"]
     ELSE IF InConfig(k) THEN [val |-> files["config"][k], from |-> "config"]
     ELSE IF Scanned(a) # Absent /\ files[Scanned(a)][k] # Absent
          THEN [val |-> files[Scanned(a)][k], from |-> "dotenv"]
     ELSE Absent]

StartProcess ==
  /\ pc = "down" /\ runs < MaxRuns
  /\ pc' = "idle" /\ env' = shell
  /\ UNCHANGED <<shell, files, exists, vault, local, originals, stored, causes, count>>

Discover(a) ==
  /\ pc = "idle" /\ runs < MaxRuns
  /\ runs' = runs + 1
  /\ args' = a /\ found' = Discovered(a) /\ todo' = {k \in Keys : Discovered(a)[k] # Absent}
  /\ pc' = "next"
  /\ UNCHANGED <<outer, key, targets, buf, originals, stored, causes, faults, others>>

-----------------------------------------------------------------------------
(* One key after the other.                                                *)

NextKey ==
  /\ pc' = "next" /\ todo' = todo \ {key} /\ key' = Absent /\ targets' = <<>> /\ buf' = Nothing
  /\ UNCHANGED <<args, found>>

LookUp_Always(k) ==   \* mutant: what the vault has is replaced
  /\ pc = "next" /\ k \in todo
  /\ key' = k /\ pc' = "put"
  /\ UNCHANGED <<outer, args, found, todo, targets, buf, originals, stored, causes, count>>

\* vault.list_keys(): a secret that the vault has is skipped.
LookUp(k) ==
  /\ pc = "next" /\ k \in todo
  /\ IF vault[k] # Absent
     THEN todo' = todo \ {k} /\ UNCHANGED <<pc, key>>
     ELSE key' = k /\ pc' = "put" /\ UNCHANGED todo
  /\ UNCHANGED <<outer, args, found, targets, buf, originals, stored, causes, count>>

EraseFrom_ScannedOnly ==   \* mutant: the path of the .env file is not passed on
  CASE found[key].from = "config" /\ args.config        -> <<"config">>
    [] found[key].from = "dotenv" /\ args.dotenv = Absent -> <<".env", ".env.local">>
    [] OTHER                                            -> <<>>

\* Where the original will be looked for.
EraseFrom ==
  CASE found[key].from = "config" /\ args.config        -> <<"config">>
    [] found[key].from = "dotenv" /\ args.dotenv # Absent -> <<args.dotenv>>
    [] found[key].from = "dotenv" /\ args.dotenv = Absent -> <<".env", ".env.local">>
    [] OTHER                                            -> <<>>

\* The file it was found in.
FoundIn == IF found[key].from = "dotenv" THEN Scanned(args) ELSE found[key].from

\* Why an original stays although everything works.
StaysBecause ==
  (IF ~args.delete THEN {"kept"} ELSE {})
    \union (IF found[key].from = "config" /\ ~args.config THEN {"pathless"} ELSE {})
    \union (IF found[key].from = "config" /\ Leaf[key] # key THEN {"nested"} ELSE {})
    \union (IF found[key].from = "dotenv" /\ args.dotenv = Absent /\ Scanned(args) = "~/.env" THEN {"pathless"} ELSE {})
    \union (IF <<key, FoundIn>> \in Odd THEN {"unmatched"} ELSE {})

\* vault.set(), after which an environment variable is removed at once.
Put ==
  /\ pc = "put"
  /\ vault' = [vault EXCEPT ![key] = found[key].val]
  /\ stored' = stored \union {<<key, found[key].val>>}
  /\ causes' = causes \union StaysBecause
  /\ env' = IF args.delete /\ found[key].from = "env" THEN [env EXCEPT ![key] = Absent] ELSE env
  /\ IF args.delete THEN targets' = EraseFrom /\ pc' = "erase" /\ UNCHANGED <<args, found, todo, key, buf>>
     ELSE NextKey
  /\ UNCHANGED <<shell, files, exists, originals, count>>

PutFails_Erases ==   \* mutant: the original is erased even so
  /\ pc = "put" /\ faults < MaxFailures
  /\ faults' = faults + 1
  /\ pc' = "erase" /\ targets' = EraseFrom
  /\ UNCHANGED <<outer, args, found, todo, key, buf, originals, stored, causes, runs, others>>

\* The vault refuses: the error is noted, and the next key's turn comes.
PutFails ==
  /\ pc = "put" /\ faults < MaxFailures
  /\ faults' = faults + 1
  /\ NextKey
  /\ UNCHANGED <<outer, originals, stored, causes, runs, others>>

\* The entries of f that the patterns for k match: in the configuration, those
\* whose line has k for its key, whatever they are nested in.  The scan strips
\* a line and parses YAML; the patterns want the bare key at the line's start,
\* or at the start of a word with the colon right behind it.
Matched(f, k) ==
  {n \in Keys : /\ files[f][n] # Absent /\ <<n, f>> \notin Odd
                /\ IF f = "config" THEN Leaf[n] = k ELSE n = k}

Erased(f, k) == [n \in Keys |-> IF n \in Matched(f, k) THEN Zeroed ELSE files[f][n]]

\* Zeros over an original that is in nobody's hands yet.
Loses(f, k) ==
  (IF \E n \in Matched(f, k) \ {k} : files[f][n] = f THEN {"neighbour"} ELSE {})
    \union (IF k \in Matched(f, k) /\ files[f][k] = f /\ found[k].val # f THEN {"elsewhere"} ELSE {})

\* _secure_delete_from_file: nothing matches, so the next file is tried.
NoMatch ==
  /\ pc = "erase" /\ targets # <<>>
  /\ Matched(Head(targets), key) = {} \/ Head(targets) \notin exists
  /\ targets' = Tail(targets)
  /\ UNCHANGED <<outer, pc, args, found, todo, key, buf, originals, stored, causes, count>>

\* The file cannot be read or opened, which counts as no match.
EraseFails ==
  /\ pc = "erase" /\ targets # <<>> /\ faults < MaxFailures
  /\ faults' = faults + 1
  /\ causes' = causes \union {"cut_short"}
  /\ targets' = Tail(targets)
  /\ UNCHANGED <<outer, pc, args, found, todo, key, buf, originals, stored, runs, others>>

\* It opens the file with O_TRUNC...
Truncate ==
  /\ pc = "erase" /\ targets # <<>>
  /\ LET f == Head(targets)
     IN /\ f \in exists /\ Matched(f, key) # {}
        /\ buf' = Erased(f, key)
        /\ files' = [files EXCEPT ![f] = Nothing]
        /\ causes' = causes \union Loses(f, key)
  /\ pc' = "rewrite"
  /\ UNCHANGED <<shell, env, exists, vault, args, found, todo, key, targets, originals, stored, count>>

\* ... and writes its new content.
Rewrite ==
  /\ pc = "rewrite"
  /\ files' = [files EXCEPT ![Head(targets)] = buf]
  /\ NextKey
  /\ UNCHANGED <<shell, env, exists, vault, originals, stored, causes, count>>

\* A write that raises counts as a file without a match.
RewriteFails ==
  /\ pc = "rewrite" /\ faults < MaxFailures
  /\ faults' = faults + 1
  /\ causes' = causes \union {"truncated", "cut_short"}
  /\ pc' = "erase" /\ targets' = Tail(targets) /\ buf' = Nothing
  /\ UNCHANGED <<outer, args, found, todo, key, originals, stored, runs, others>>

ErasedAll ==
  /\ pc = "erase" /\ targets = <<>>
  /\ NextKey
  /\ UNCHANGED <<outer, originals, stored, causes, count>>

Return ==
  /\ pc = "next" /\ todo = {}
  /\ pc' = "idle" /\ args' = NoArgs /\ found' = Nothing
  /\ UNCHANGED <<outer, todo, key, targets, buf, originals, stored, causes, count>>

-----------------------------------------------------------------------------
(* The process ends, and others use the vault.                             *)

Gone ==
  /\ pc' = "down" /\ env' = Nothing
  /\ args' = NoArgs /\ found' = Nothing /\ todo' = {} /\ key' = Absent /\ targets' = <<>> /\ buf' = Nothing
  /\ UNCHANGED <<shell, files, exists, vault, originals, stored>>

Exit == pc = "idle" /\ Gone /\ UNCHANGED <<causes, count>>

Crash ==
  /\ pc \notin {"down", "idle"} /\ faults < MaxFailures
  /\ faults' = faults + 1
  /\ causes' = causes \union (IF pc = "rewrite" THEN {"truncated"} ELSE {})
                      \union (IF pc \in {"erase", "rewrite"} THEN {"cut_short"} ELSE {})
  /\ Gone
  /\ UNCHANGED <<runs, others>>

OthersSet(k) ==
  /\ others < MaxOthers
  /\ others' = others + 1
  /\ vault' = [vault EXCEPT ![k] = Other]
  /\ UNCHANGED <<shell, env, files, exists, pc, local, originals, stored, causes, runs, faults>>

OthersRemove(k) ==
  /\ others < MaxOthers /\ vault[k] # Absent
  /\ others' = others + 1
  /\ vault' = [vault EXCEPT ![k] = Absent]
  /\ causes' = causes \union {"removed"}
  /\ UNCHANGED <<shell, env, files, exists, pc, local, originals, stored, runs, faults>>

MigrationNext ==
  \/ StartProcess \/ (\E a \in Args : Discover(a)) \/ (\E k \in Keys : LookUp(k))
  \/ Put \/ PutFails \/ NoMatch \/ EraseFails \/ Truncate \/ Rewrite \/ RewriteFails \/ ErasedAll
  \/ Return \/ Exit \/ Crash
  \/ \E k \in Keys : OthersSet(k) \/ OthersRemove(k)

MigrationSpec == MigrationInit /\ [][MigrationNext]_vars

-----------------------------------------------------------------------------
(* Properties *)

InFile(k, f) == files[f][k] = f \/ (pc = "rewrite" /\ Head(targets) = f /\ buf[k] = f)

\* The migration never destroys a secret: every original is still in its file
\* or has been stored in the vault, also after crashes, refusals of the vault
\* and repeated runs, unless one of three mishaps occurred.
NothingLost ==
  causes \intersect {"truncated", "neighbour", "elsewhere"} = {} =>
    \A o \in originals : InFile(o[1], o[2]) \/ o \in stored

\* The zeros that replace an original never become a secret of the vault, in
\* however many runs, unless a secret was removed from the vault in between.
ZerosNotImported ==
  causes \intersect {"removed"} = {} => \A k \in Keys : <<k, Zeroed>> \notin stored

\* Between runs no file holds in plaintext what was migrated from it, unless
\* one of the reasons for which an original stays applied.
NoPlaintextLeft ==
  pc = "idle" /\ causes \intersect {"kept", "nested", "pathless", "unmatched", "cut_short"} = {} =>
    \A o \in stored : o[2] \in SecretFiles => files[o[2]][o[1]] # o[2]

=============================================================================
