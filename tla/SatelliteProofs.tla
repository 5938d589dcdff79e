--------------------------- MODULE SatelliteProofs ---------------------------
(***************************************************************************)
(* Proofs about the three files next to the vault and about the migration  *)
(* into it, for any processes, names, sizes of the log and numbers of      *)
(* calls and faults: what a call promised is kept, and no secret is lost,  *)
(* as long as none of the recorded mishaps has occurred.                   *)
(***************************************************************************)
EXTENDS VaultSatellites, Migration, SequenceTheorems, TLAPS

-----------------------------------------------------------------------------
(* Expiry times.                                                           *)

Expiries == [Names -> Nat]

\* What a process is about to write back is the change of what it read.
EditSound(e) ==
  /\ e.change \in Changes /\ e.base \in Expiries
  /\ e.new = Changed(e.base, e.change)

ExpirySound ==
  /\ expiries \in Expiries /\ expiries = promised
  /\ vaulted \subseteq Names
  /\ DOMAIN editing = Procs /\ DOMAIN listed = Procs
  /\ \A p \in Procs : /\ editing[p] # None => EditSound(editing[p])
                      /\ listed[p] # None => listed[p] \subseteq Names

ExpiryInv == expiryCauses = {} => ExpirySound

\* A change maps expiry times to expiry times.
LEMMA ChangedTyped ==
  ASSUME NEW m \in Expiries, NEW c \in Changes
  PROVE  Changed(m, c) \in Expiries
BY DEF Changed, Changes, Expiries

\* As long as a sync does not touch a secret of the vault, a change does what it should do.
LEMMA IntendedIsChanged ==
  ASSUME NEW m \in Expiries, NEW c \in Changes, vaulted \subseteq Names,
         c.kind = "sync" => \A n \in vaulted \ c.names : m[n] = 0
  PROVE  Intended(m, c) = Changed(m, c)
<1>1. CASE c.kind # "sync"
  BY <1>1 DEF Intended
<1>2. CASE c.kind = "sync"
  <2>1. c.names \in SUBSET Names /\ c = [kind |-> "sync", names |-> c.names]
    BY <1>2 DEF Changes
  <2>2. [c EXCEPT !.names = @ \union vaulted] = [kind |-> "sync", names |-> c.names \union vaulted]
    BY <2>1
  <2>3. Intended(m, c) = [n \in Names |-> IF n \in c.names \union vaulted THEN m[n] ELSE 0]
    BY <1>2, <2>2 DEF Intended, Changed
  <2>4. Changed(m, c) = [n \in Names |-> IF n \in c.names THEN m[n] ELSE 0]
    BY <1>2 DEF Changed
  <2>. QED  BY <1>2, <2>3, <2>4
<1>. QED  BY <1>1, <1>2

\* A change that changes nothing should not do so either.
LEMMA NothingIntended ==
  ASSUME NEW m \in Expiries, NEW c \in Changes, vaulted \subseteq Names, Changed(m, c) = m
  PROVE  Intended(m, c) = m
<1>1. c.kind = "sync" => \A n \in vaulted \ c.names : m[n] = 0
  <2>. SUFFICES ASSUME c.kind = "sync", NEW n \in vaulted \ c.names PROVE m[n] = 0
    OBVIOUS
  <2>1. Changed(m, c) = [k \in Names |-> IF k \in c.names THEN m[k] ELSE 0]
    BY DEF Changed
  <2>. QED  BY <2>1
<1>. QED  BY <1>1, IntendedIsChanged

\* The first half of a call, when the file can be read.
LEMMA ReadStep ==
  ASSUME ExpirySound, NEW p \in Procs, NEW c \in Changes, ReadMap(p, c, expiries),
         UNCHANGED <<expiries, vaulted>>,
         DOMAIN listed' = Procs, \A q \in Procs : listed'[q] # None => listed'[q] \subseteq Names
  PROVE  ExpirySound'
<1>1. CASE c.kind # "set" /\ Changed(expiries, c) = expiries
  <2>1. editing' = [editing EXCEPT ![p] = None] /\ promised' = Intended(promised, c)
    BY <1>1 DEF ReadMap, ReturnUnwritten
  <2>2. promised' = expiries
    BY <1>1, <2>1, NothingIntended DEF ExpirySound
  <2>. QED  BY <2>1, <2>2 DEF ExpirySound
<1>2. CASE ~(c.kind # "set" /\ Changed(expiries, c) = expiries)
  <2>. DEFINE e == [base |-> expiries, new |-> Changed(expiries, c), change |-> c]
  <2>1. editing' = [editing EXCEPT ![p] = e] /\ UNCHANGED promised
    BY <1>2 DEF ReadMap
  <2>2. EditSound(e)
    BY DEF EditSound, ExpirySound
  <2>. HIDE DEF e
  <2>3. \A q \in Procs : editing'[q] = (IF q = p THEN e ELSE editing[q])
    BY <2>1 DEF ExpirySound
  <2>4. \A q \in Procs : editing'[q] # None => EditSound(editing'[q])
    BY <2>2, <2>3 DEF ExpirySound
  <2>. QED  BY <2>1, <2>4 DEF ExpirySound
<1>. QED  BY <1>1, <1>2

LEMMA WriteStep ==
  ASSUME ExpirySound, NEW p \in Procs, WriteExpiries(p), expiryCauses' = {}
  PROVE  ExpirySound'
<1>. DEFINE e == editing[p]
<1>1. EditSound(e)
  BY DEF WriteExpiries, ExpirySound
<1>2. /\ e.base = expiries /\ expiries' = e.new /\ promised' = Intended(promised, e.change)
      /\ e.change.kind = "sync" => \A n \in vaulted \ e.change.names : promised[n] = 0
      /\ editing' = [editing EXCEPT ![p] = None] /\ UNCHANGED <<listed, vaulted>>
  BY DEF WriteExpiries, Written
<1>. HIDE DEF e
<1>3. promised' = Changed(expiries, e.change) /\ expiries' = Changed(expiries, e.change)
  BY <1>1, <1>2, IntendedIsChanged DEF EditSound, ExpirySound
<1>4. expiries' \in Expiries
  BY <1>1, <1>3, ChangedTyped DEF EditSound, ExpirySound
<1>. QED  BY <1>2, <1>3, <1>4 DEF ExpirySound

LEMMA ExpiryStep ==
  ASSUME ExpiryInv, ExpiryNext
  PROVE  ExpiryInv'
<1>. SUFFICES ASSUME expiryCauses' = {} PROVE ExpirySound'
  BY DEF ExpiryInv
<1>1. expiryCauses = {}
  BY DEF ExpiryNext, ChangeExpiry, ReadFor, ListVault, SyncWithVault, WriteExpiries, WriteExpiriesFails,
         DieEditing, ClearExpiries, VaultChanges
<1>2. ExpirySound
  BY <1>1 DEF ExpiryInv
<1>3. ASSUME NEW p \in Procs, NEW c \in Changes, ChangeExpiry(p, c) PROVE ExpirySound'
  <2>1. ReadMap(p, c, expiries)
    BY <1>3 DEF ChangeExpiry, ReadFor
  <2>. QED  BY <1>2, <1>3, <2>1, ReadStep DEF ChangeExpiry, ExpirySound
<1>4. ASSUME NEW p \in Procs, SyncWithVault(p) PROVE ExpirySound'
  <2>. DEFINE c == [kind |-> "sync", names |-> listed[p]]
  <2>1. c \in Changes
    BY <1>2, <1>4 DEF SyncWithVault, ExpirySound, Changes
  <2>2. ReadMap(p, c, expiries)
    BY <1>4 DEF SyncWithVault, ReadFor
  <2>3. /\ UNCHANGED <<expiries, vaulted>> /\ DOMAIN listed' = Procs
        /\ \A q \in Procs : listed'[q] # None => listed'[q] \subseteq Names
    BY <1>2, <1>4 DEF SyncWithVault, ExpirySound
  <2>. HIDE DEF c
  <2>. QED  BY <1>2, <2>1, <2>2, <2>3, ReadStep
<1>5. ASSUME NEW p \in Procs, WriteExpiries(p) PROVE ExpirySound'
  BY <1>2, <1>5, WriteStep
<1>6. ASSUME NEW p \in Procs, ListVault(p) \/ DieEditing(p) \/ ClearExpiries(p) PROVE ExpirySound'
  <2>1. NoExpiry \in Expiries
    BY DEF NoExpiry, Expiries
  <2>. QED  BY <1>2, <1>6, <2>1 DEF ListVault, DieEditing, ClearExpiries, ExpirySound
<1>7. ASSUME NEW p \in Procs, WriteExpiriesFails(p) PROVE FALSE
  BY <1>7 DEF WriteExpiriesFails
<1>8. CASE VaultChanges
  BY <1>2, <1>8 DEF VaultChanges, ExpirySound
<1>. QED  BY <1>3, <1>4, <1>5, <1>6, <1>7, <1>8 DEF ExpiryNext

-----------------------------------------------------------------------------
(* Honey tokens.                                                           *)

HoneyInv == honeyCauses = {} => registry = meant

LEMMA HoneyStep == HoneyInv /\ HoneyNext => HoneyInv'
<1>. SUFFICES ASSUME HoneyInv, HoneyNext, honeyCauses' = {} PROVE registry' = meant'
  BY DEF HoneyInv
<1>1. ASSUME NEW p \in Procs, NEW t \in Decoys, NEW token, Update(p, t, token)
      PROVE  registry' = meant'
  BY <1>1 DEF Update, Saved, HoneyInv
<1>2. ASSUME NEW p \in Procs, OpenRegistry(p) \/ OpenRegistryFails(p) \/ DropRegistry(p)
      PROVE  registry' = meant'
  BY <1>2 DEF OpenRegistry, OpenRegistryFails, DropRegistry, HoneyInv
<1>. QED  BY <1>1, <1>2 DEF HoneyNext, CreateToken, TouchToken, RemoveToken, PlantToken, UnplantEnv

-----------------------------------------------------------------------------
(* The access log.                                                         *)

\* Lines s are the entries up to number k, one after the other.
UpTo(s, k) == s \in Seq(Nat) /\ Len(s) <= k /\ \A i \in 1..Len(s) : s[i] = k - Len(s) + i

\* They are all entries up to k, or enough for a log that is too long.
Enough(s, k) == Len(s) = k \/ Len(s) > MaxLines

ActiveLines == IF active = NoFile THEN <<>> ELSE lines[active]

\* The log ends with the newest entry; if it is not enough itself, the rotated log is, and
\* goes on where the log begins.
LogSound ==
  /\ newest \in Nat
  /\ active \in Files \union {NoFile} /\ rotated \in Files \union {NoFile}
  /\ active # NoFile => active # rotated
  /\ lines \in [Files -> Seq(Nat)]
  /\ DOMAIN handle = Procs /\ DOMAIN logPc = Procs
  /\ \A p \in Procs : logPc[p] = "write" => handle[p] \in Files
  /\ UpTo(ActiveLines, newest)
  /\ \/ Enough(ActiveLines, newest)
     \/ /\ rotated # NoFile
        /\ UpTo(lines[rotated], newest - Len(ActiveLines))
        /\ Enough(lines[rotated], newest - Len(ActiveLines))

LogInv == logCauses = {} => LogSound

\* A file has a positive number.
LEMMA FilesNotNone == NoFile \notin Files
BY LogAssumption DEF NoFile, Files

LEMMA WriteLineStep ==
  ASSUME LogSound, NEW p \in Procs, WriteLine(p), logCauses' = {}
  PROVE  LogSound'
<1>1. /\ handle[p] = active /\ active \in Files /\ active # NoFile
      /\ newest' = newest + 1 /\ UNCHANGED <<active, rotated>>
      /\ lines' = [lines EXCEPT ![active] = Append(@, newest + 1)]
      /\ logPc' = [logPc EXCEPT ![p] = "idle"] /\ handle' = [handle EXCEPT ![p] = NoFile]
  BY FilesNotNone DEF WriteLine, CloseLog, LogGoto, LogSound
<1>. DEFINE s == lines[active]
            s2 == Append(s, newest + 1)
<1>2. /\ ActiveLines = s /\ ActiveLines' = s2
      /\ rotated # NoFile => lines'[rotated] = lines[rotated]
      /\ lines' \in [Files -> Seq(Nat)]
  BY <1>1 DEF ActiveLines, LogSound
<1>3. /\ s2 \in Seq(Nat) /\ Len(s2) = Len(s) + 1 /\ s2[Len(s) + 1] = newest + 1
      /\ \A i \in 1..Len(s) : s2[i] = s[i]
      /\ s \in Seq(Nat) /\ Len(s) \in Nat /\ newest \in Nat
  BY <1>1 DEF LogSound
<1>4. UpTo(s, newest)
  BY <1>2 DEF LogSound
<1>. HIDE DEF s, s2
<1>5. UpTo(s2, newest + 1)
  BY <1>3, <1>4 DEF UpTo
<1>6. Enough(s, newest) => Enough(s2, newest + 1)
  BY <1>3, LogAssumption DEF Enough
<1>7. (newest + 1) - Len(s2) = newest - Len(s)
  BY <1>3
<1>. QED  BY <1>1, <1>2, <1>3, <1>5, <1>6, <1>7 DEF LogSound

LEMMA UnlinkStep ==
  ASSUME LogSound, NEW p \in Procs, UnlinkRotated(p), logCauses' = {}
  PROVE  LogSound'
<1>1. /\ rotated' = NoFile /\ UNCHANGED <<active, lines, newest, handle>>
      /\ logPc' = [logPc EXCEPT ![p] = "rename"]
      /\ rotated # NoFile => TooLong
  BY DEF UnlinkRotated, LogGoto, Crossed
<1>2. ActiveLines' = ActiveLines
  BY <1>1 DEF ActiveLines
<1>3. Enough(ActiveLines, newest)
  BY <1>1 DEF LogSound, TooLong, Enough, ActiveLines
<1>. QED  BY <1>1, <1>2, <1>3 DEF LogSound

LEMMA RenameStep ==
  ASSUME LogSound, NEW p \in Procs, RenameActive(p), logCauses' = {}
  PROVE  LogSound'
<1>1. UNCHANGED <<lines, newest, handle>> /\ logPc' = [logPc EXCEPT ![p] = "open"]
  BY DEF RenameActive, LogGoto
<1>2. CASE active = NoFile
  <2>1. UNCHANGED <<active, rotated>>
    BY <1>2 DEF RenameActive
  <2>. QED  BY <1>1, <2>1 DEF LogSound, ActiveLines
<1>3. CASE active # NoFile
  <2>1. rotated' = active /\ active' = NoFile /\ (rotated # NoFile => TooLong)
    BY <1>3 DEF RenameActive, Crossed
  <2>2. ActiveLines = lines[active] /\ ActiveLines' = <<>>
    BY <1>3, <2>1 DEF ActiveLines
  <2>3. UpTo(lines[active], newest) /\ Enough(lines[active], newest)
    BY <2>1, <2>2 DEF LogSound, TooLong, Enough
  <2>4. UpTo(<<>>, newest) /\ newest - Len(<<>>) = newest
    BY DEF UpTo, LogSound
  <2>. QED  BY <1>1, <1>3, <2>1, <2>2, <2>3, <2>4 DEF LogSound
<1>. QED  BY <1>2, <1>3

LEMMA OpenStep ==
  ASSUME LogSound, NEW p \in Procs, OpenLog(p)
  PROVE  LogSound'
<1>1. /\ UNCHANGED <<rotated, lines, newest>>
      /\ handle' = [handle EXCEPT ![p] = active'] /\ logPc' = [logPc EXCEPT ![p] = "write"]
  BY DEF OpenLog, LogGoto
<1>2. CASE active = NoFile
  <2>1. active' \in NewFiles
    BY <1>2 DEF OpenLog
  <2>2. active' \in Files /\ active' # rotated /\ lines[active'] = <<>>
    BY <2>1 DEF NewFiles
  <2>3. ActiveLines = <<>> /\ ActiveLines' = <<>>
    BY <1>1, <1>2, <2>2, FilesNotNone DEF ActiveLines
  <2>. QED  BY <1>1, <2>2, <2>3 DEF LogSound
<1>3. CASE active # NoFile
  <2>1. active' = active
    BY <1>3 DEF OpenLog
  <2>2. ActiveLines' = ActiveLines
    BY <1>1, <2>1 DEF ActiveLines
  <2>. QED  BY <1>1, <1>3, <2>1, <2>2 DEF LogSound
<1>. QED  BY <1>2, <1>3

LEMMA LogStep ==
  ASSUME LogInv, LogNext
  PROVE  LogInv'
<1>. SUFFICES ASSUME logCauses' = {} PROVE LogSound'
  BY DEF LogInv
<1>1. logCauses = {}
  BY DEF LogNext, BeginAccess, UnlinkRotated, RenameActive, RotationFails, OpenLog, WriteLine,
         WriteLineFails, DieLogging, ClearLog
<1>2. LogSound
  BY <1>1 DEF LogInv
<1>3. PICK p \in Procs :
        \/ BeginAccess(p) \/ UnlinkRotated(p) \/ RenameActive(p) \/ RotationFails(p)
        \/ OpenLog(p) \/ WriteLine(p) \/ WriteLineFails(p) \/ DieLogging(p) \/ ClearLog(p)
  BY DEF LogNext
<1>4. CASE BeginAccess(p) \/ RotationFails(p) \/ DieLogging(p)
  <2>1. /\ UNCHANGED <<active, rotated, lines, newest>>
        /\ DOMAIN handle' = Procs /\ DOMAIN logPc' = Procs
        /\ \A q \in Procs : logPc'[q] = "write" => logPc[q] = "write" /\ handle'[q] = handle[q]
    BY <1>2, <1>4 DEF BeginAccess, RotationFails, DieLogging, CloseLog, LogGoto, LogSound
  <2>. QED  BY <1>2, <2>1 DEF LogSound, ActiveLines
<1>5. CASE WriteLineFails(p) \/ ClearLog(p)
  BY <1>5 DEF WriteLineFails, ClearLog
<1>. QED  BY <1>2, <1>3, <1>4, <1>5, UnlinkStep, RenameStep, OpenStep, WriteLineStep

\* What LogSound says of the newest entries.
LEMMA RecentFound == LogInv => RecentKept
<1>. SUFFICES ASSUME LogInv, logCauses = {}, NEW e \in 1..newest, e >= newest - MaxLines
              PROVE  e \in EntriesOf(active) \union EntriesOf(rotated)
  BY DEF RecentKept
<1>1. LogSound
  BY DEF LogInv
<1>2. ASSUME NEW s, NEW k \in Nat, UpTo(s, k), e <= k, e > k - Len(s)
      PROVE  e \in {s[i] : i \in 1..Len(s)}
  <2>1. Len(s) \in Nat /\ e \in Nat
    BY <1>1, <1>2 DEF UpTo, LogSound
  <2>2. e - (k - Len(s)) \in 1..Len(s)
    BY <1>2, <2>1
  <2>3. s[e - (k - Len(s))] = e
    BY <1>2, <2>1, <2>2 DEF UpTo
  <2>. QED  BY <2>2, <2>3
<1>. DEFINE n == Len(ActiveLines)
<1>3. n \in Nat /\ n <= newest /\ newest \in Nat
  BY <1>1 DEF LogSound, UpTo
<1>4. CASE e > newest - n
  <2>1. e \in {ActiveLines[i] : i \in 1..Len(ActiveLines)}
    BY <1>1, <1>2, <1>3, <1>4 DEF LogSound
  <2>2. active # NoFile
    BY <1>3, <1>4 DEF ActiveLines
  <2>. QED  BY <2>1, <2>2 DEF EntriesOf, ActiveLines
<1>5. CASE e <= newest - n
  <2>1. ~Enough(ActiveLines, newest)
    BY <1>3, <1>5, LogAssumption DEF Enough
  <2>2. /\ rotated # NoFile
        /\ UpTo(lines[rotated], newest - n) /\ Enough(lines[rotated], newest - n)
    BY <1>1, <2>1 DEF LogSound
  <2>3. newest - n \in Nat /\ Len(lines[rotated]) \in Nat
    BY <1>3, <2>2 DEF UpTo
  <2>4. e > (newest - n) - Len(lines[rotated])
    <3>1. ASSUME NEW l \in Nat, NEW k \in Nat, k <= newest, l > MaxLines \/ l = k
          PROVE  e > k - l
      BY <1>3, <3>1, LogAssumption
    <3>2. Len(lines[rotated]) > MaxLines \/ Len(lines[rotated]) = newest - n
      BY <2>2 DEF Enough
    <3>3. newest - n <= newest
      BY <1>3
    <3>. HIDE DEF n
    <3>. QED  BY <2>3, <3>1, <3>2, <3>3
  <2>5. e \in {lines[rotated][i] : i \in 1..Len(lines[rotated])}
    BY <1>2, <1>5, <2>2, <2>3, <2>4
  <2>. QED  BY <2>2, <2>5 DEF EntriesOf
<1>. QED  BY <1>3, <1>4, <1>5

-----------------------------------------------------------------------------
(* The three together.                                                     *)

SatelliteInv == ExpiryInv /\ HoneyInv /\ LogInv

LEMMA SatelliteInit == Init => SatelliteInv
<1>. SUFFICES ASSUME Init PROVE SatelliteInv
  OBVIOUS
<1>1. ExpirySound
  BY DEF Init, ExpiryInit, ExpirySound, NoExpiry, Expiries
<1>2. HoneyInv
  BY DEF Init, HoneyInit, HoneyInv
<1>3. LogSound
  <2>1. ActiveLines = <<>> /\ newest = 0
    BY DEF Init, LogInit, ActiveLines
  <2>2. UpTo(<<>>, 0) /\ Enough(<<>>, 0)
    BY DEF UpTo, Enough
  <2>. QED  BY <2>1, <2>2 DEF Init, LogInit, LogSound
<1>. QED  BY <1>1, <1>2, <1>3 DEF SatelliteInv, ExpiryInv, LogInv

LEMMA SatelliteStep == SatelliteInv /\ [Next]_satelliteVars => SatelliteInv'
<1>. SUFFICES ASSUME SatelliteInv, [Next]_satelliteVars PROVE SatelliteInv'
  OBVIOUS
<1>1. UNCHANGED expiryVars => ExpiryInv'
  BY DEF SatelliteInv, ExpiryInv, ExpirySound, expiryVars
<1>2. UNCHANGED honeyVars => HoneyInv'
  BY DEF SatelliteInv, HoneyInv, honeyVars
<1>3. UNCHANGED logVars => LogInv'
  BY DEF SatelliteInv, LogInv, LogSound, ActiveLines, logVars
<1>. QED  BY <1>1, <1>2, <1>3, ExpiryStep, HoneyStep, LogStep DEF SatelliteInv, Next, satelliteVars

LEMMA SatellitesSound == Spec => []SatelliteInv
BY SatelliteInit, SatelliteStep, PTL DEF Spec

\* A secret given a time to live keeps it until a call says otherwise, unless
\* calls overlap, fail, or use an old list (expiry.py).
THEOREM ExpiryAlwaysKept == Spec => []ExpiryKept
<1>1. SatelliteInv => ExpiryKept
  BY DEF SatelliteInv, ExpiryInv, ExpirySound, ExpiryKept
<1>. QED  BY SatellitesSound, <1>1, PTL

\* No save of a registry undoes what another object did, unless an object is
\* out of date or a load or save fails (honey_tokens.py).
THEOREM TokensAlwaysKept == Spec => []TokensKept
<1>1. SatelliteInv => TokensKept
  BY DEF SatelliteInv, HoneyInv, TokensKept
<1>. QED  BY SatellitesSound, <1>1, PTL

\* The newest accesses are in the log or the rotated log, however appends and
\* rotations interleave, unless a rotation crosses another (access_log.py).
THEOREM RecentAlwaysKept == Spec => []RecentKept
<1>1. SatelliteInv => RecentKept
  BY RecentFound DEF SatelliteInv
<1>. QED  BY SatellitesSound, <1>1, PTL

-----------------------------------------------------------------------------
(* The migration.                                                          *)

\* What discover_secrets() says of a key that is still to be migrated.  Zeros
\* are not found in the environment and not in the configuration.
FoundSound(entry) ==
  \/ entry.from = "env" /\ entry.val = "env"
  \/ entry.from = "config" /\ entry.val = "config"
  \/ /\ entry.from = "dotenv" /\ Scanned(args) # Absent
     /\ entry.val \in {Scanned(args), Zeroed}

\* A file has secrets of its own or zeros, and none if it does not exist.
FilesTyped ==
  /\ files \in [SecretFiles -> [Keys -> Value \union {Absent}]]
  /\ \A f \in SecretFiles, k \in Keys :
       /\ files[f][k] \in {Absent, f, Zeroed}
       /\ f \notin exists => files[f][k] = Absent

\* The key at hand is one of those found, and is in the vault before its
\* original is looked for; only an emptied file is rewritten.
AtKey ==
  /\ pc \in {"down", "idle", "next", "put", "erase", "rewrite"}
  /\ todo \subseteq Keys /\ \A k \in todo : FoundSound(found[k])
  /\ pc \in {"put", "erase", "rewrite"} => key \in todo
  /\ pc \in {"erase", "rewrite"} => <<key, found[key].val>> \in stored
  /\ pc = "rewrite" => /\ targets # <<>> /\ files[Head(targets)] = Nothing
                       /\ Head(targets) \in exists
                       /\ \A k \in Keys : buf[k] \in {Absent, Head(targets), Zeroed}

MigrationTyped ==
  /\ shell \in Entries("env") /\ env \in [Keys -> {Absent, "env"}]
  /\ vault \in [Keys -> Value \union {Absent}]
  /\ args \in Args /\ targets \in Seq(SecretFiles) /\ buf \in [Keys -> Value \union {Absent}]
  /\ originals \subseteq Keys \X SecretFiles /\ stored \subseteq Keys \X Value
  /\ FilesTyped /\ AtKey

\* Zeros are only where the vault has the secret, so they are never stored.
ZerosKnown ==
  /\ \A k \in Keys : <<k, Zeroed>> \notin stored
  /\ \A f \in DotFiles, k \in Keys : files[f][k] = Zeroed => vault[k] # Absent
  /\ pc = "rewrite" /\ Head(targets) \in DotFiles =>
       \A k \in Keys : buf[k] = Zeroed => vault[k] # Absent
  /\ \A k \in todo : found[k].val = Zeroed => vault[k] # Absent
  /\ pc = "put" => found[key].val # Zeroed
  /\ pc \in {"erase", "rewrite"} => vault[key] # Absent

ZerosInv == "removed" \notin causes => ZerosKnown

\* The original at hand will be erased from the file that comes first among
\* those left that exist.
Pending ==
  LET f == found[key].val
  IN /\ pc = "erase" /\ targets # <<>>
     /\ Head(targets) = f \/ (targets = <<".env", ".env.local">> /\ f = ".env.local" /\ ".env" \notin exists)
     /\ f = "config" => Leaf[key] = key
     /\ <<key, f>> \notin Odd

\* What is stored is in plaintext only where its erasure is still to come.
PlaintextKnown ==
  /\ \A o \in stored : o[2] \in SecretFiles /\ files[o[2]][o[1]] = o[2] =>
       o = <<key, found[key].val>> /\ Pending
  /\ pc = "rewrite" => \A o \in stored : o[2] = Head(targets) => buf[o[1]] # o[2]

PlaintextInv ==
  causes \intersect {"kept", "nested", "pathless", "unmatched", "cut_short"} = {} => PlaintextKnown

MigrationInv == MigrationTyped /\ NothingLost /\ ZerosInv /\ PlaintextInv

-----------------------------------------------------------------------------

\* The file scanned by default is the first that exists.
LEMMA ScannedWhere ==
  ASSUME NEW a \in Args
  PROVE  /\ Scanned(a) \in DotFiles \union {Absent}
         /\ a.dotenv # Absent => Scanned(a) = a.dotenv
         /\ a.dotenv = Absent /\ Scanned(a) = ".env.local" => ".env" \notin exists
<1>1. CASE a.dotenv # Absent
  BY <1>1 DEF Args, Scanned
<1>2. CASE a.dotenv = Absent /\ \A i \in 1..3 : Order[i] \notin exists
  BY <1>2, AbsentAssumption DEF Scanned, Value, Sources, SecretFiles, DotFiles
<1>3. CASE a.dotenv = Absent /\ \E i \in 1..3 : Order[i] \in exists
  <2> DEFINE First(i) == Order[i] \in exists /\ \A j \in 1..(i - 1) : Order[j] \notin exists
             least == CHOOSE i \in 1..3 : First(i)
  <2>1. \E i \in 1..3 : First(i)
    <3>1. CASE Order[1] \in exists
      BY <3>1
    <3>2. CASE Order[1] \notin exists /\ Order[2] \in exists
      <4>1. \A j \in 1..(2 - 1) : j = 1
        OBVIOUS
      <4> QED BY <3>2, <4>1
    <3>3. CASE Order[1] \notin exists /\ Order[2] \notin exists
      <4>1. \A j \in 1..(3 - 1) : j = 1 \/ j = 2
        OBVIOUS
      <4>2. \A i \in 1..3 : i = 1 \/ i = 2 \/ i = 3
        OBVIOUS
      <4>3. Order[3] \in exists
        BY <1>3, <3>3, <4>2
      <4> QED BY <3>3, <4>1, <4>3
    <3> QED BY <3>1, <3>2, <3>3
  <2>2. least \in 1..3 /\ First(least)
    BY <2>1
  <2>3. Scanned(a) = Order[least]
    BY <1>3 DEF Scanned
  <2>4. least = 1 \/ least = 2 \/ least = 3
    BY <2>2
  <2>5. \A j \in 1..(least - 1) : Order[j] \notin exists
    BY <2>2
  <2> HIDE DEF least
  <2>6. least = 3 => 1 \in 1..(least - 1)
    OBVIOUS
  <2>7. least = 3 => ".env" \notin exists
    BY <2>5, <2>6 DEF Order
  <2> QED BY <1>3, <2>3, <2>4, <2>7 DEF Order, DotFiles
<1> QED BY <1>1, <1>2, <1>3

\* The files an original is looked for in.
LEMMA EraseFromTyped ==
  ASSUME args \in Args
  PROVE  EraseFrom \in Seq(SecretFiles)
<1>1. args.dotenv # Absent => args.dotenv \in SecretFiles
  BY DEF Args, SecretFiles
<1>2. /\ <<>> \in Seq(SecretFiles) /\ <<"config">> \in Seq(SecretFiles)
      /\ <<".env", ".env.local">> \in Seq(SecretFiles)
      /\ args.dotenv # Absent => <<args.dotenv>> \in Seq(SecretFiles)
  BY <1>1 DEF SecretFiles, DotFiles
<1> QED BY <1>2 DEF EraseFrom

\* Discovery finds secrets of the environment, the configuration and the
\* scanned file.
LEMMA DiscoveredSound ==
  ASSUME MigrationTyped, NEW a \in Args, NEW k \in Keys, Discovered(a)[k] # Absent
  PROVE  \/ Discovered(a)[k].from = "env" /\ Discovered(a)[k].val = "env"
         \/ Discovered(a)[k].from = "config" /\ Discovered(a)[k].val = "config"
         \/ /\ Discovered(a)[k].from = "dotenv" /\ Scanned(a) # Absent
            /\ Discovered(a)[k].val \in {Scanned(a), Zeroed}
            /\ Scanned(a) \in DotFiles /\ Discovered(a)[k].val = files[Scanned(a)][k]
<1>1. CASE env[k] # Absent
  BY <1>1 DEF Discovered, MigrationTyped
<1>2. CASE env[k] = Absent /\ InConfig(k)
  BY <1>2 DEF Discovered, MigrationTyped, FilesTyped, InConfig, SecretFiles
<1>3. CASE env[k] = Absent /\ ~InConfig(k)
  BY <1>3, ScannedWhere DEF Discovered, MigrationTyped, FilesTyped, SecretFiles
<1> QED BY <1>1, <1>2, <1>3

\* What found says stays true while nobody scans again.
LEMMA FoundKept ==
  ASSUME UNCHANGED <<exists, args, found>>, NEW k, FoundSound(found[k])
  PROVE  FoundSound(found[k])'
BY DEF FoundSound, Scanned

\* The values found are values.
LEMMA FoundValue ==
  ASSUME args \in Args, NEW entry, FoundSound(entry)
  PROVE  entry.val \in Value /\ entry.val # Absent
<1>1. entry.val \in Value
  BY ScannedWhere DEF FoundSound, Value, Sources, SecretFiles
<1> QED BY <1>1, AbsentAssumption

\* Between two keys, and after the end of the process, nothing is held.
LEMMA NextKeyTyped ==
  ASSUME MigrationTyped, NextKey, UNCHANGED exists
  PROVE  /\ args' \in Args /\ targets' \in Seq(SecretFiles)
         /\ buf' \in [Keys -> Value \union {Absent}] /\ pc' = "next"
         /\ todo' \subseteq Keys /\ \A k \in todo' : FoundSound(found[k])'
<1>1. /\ args' \in Args /\ targets' \in Seq(SecretFiles)
      /\ buf' \in [Keys -> Value \union {Absent}] /\ pc' = "next"
  BY DEF NextKey, MigrationTyped, Nothing
<1>2. todo' \subseteq Keys /\ \A k \in todo' : FoundSound(found[k])'
  BY FoundKept DEF NextKey, MigrationTyped, AtKey
<1> QED BY <1>1, <1>2

LEMMA MigrationTypedInit == MigrationInit => MigrationTyped
<1> SUFFICES ASSUME MigrationInit PROVE MigrationTyped
  OBVIOUS
<1>1. shell \in Entries("env") /\ env \in [Keys -> {Absent, "env"}] /\ vault \in [Keys -> Value \union {Absent}]
  BY DEF MigrationInit, Nothing
<1>2. args \in Args /\ targets \in Seq(SecretFiles) /\ buf \in [Keys -> Value \union {Absent}]
  BY DEF MigrationInit, Nothing, NoArgs, Args
<1>3. originals \subseteq Keys \X SecretFiles /\ stored \subseteq Keys \X Value
  BY DEF MigrationInit
<1>4. FilesTyped
  <2>1. PICK c \in Entries("config"), d \in Entries(".env"), h \in Entries("~/.env"), l \in Entries(".env.local") :
          files = [f \in SecretFiles |-> CASE f = "config" -> c [] f = ".env" -> d [] f = "~/.env" -> h [] OTHER -> l]
    BY DEF MigrationInit
  <2>2. files["config"] = c /\ files[".env"] = d /\ files["~/.env"] = h /\ files[".env.local"] = l
    BY <2>1 DEF SecretFiles, DotFiles
  <2>3. \A f \in SecretFiles : files[f] \in [Keys -> {Absent, f}]
    BY <2>2 DEF SecretFiles, DotFiles, Entries
  <2>4. files \in [SecretFiles -> [Keys -> Value \union {Absent}]]
    <3>1. \A f \in SecretFiles : files[f] \in [Keys -> Value \union {Absent}]
      BY <2>3 DEF Value, Sources
    <3> QED BY <2>1, <3>1
  <2>5. \A f \in SecretFiles, k \in Keys : f \notin exists => files[f][k] = Absent
    BY DEF MigrationInit, Nothing
  <2> QED BY <2>3, <2>4, <2>5 DEF FilesTyped
<1>5. AtKey
  BY DEF MigrationInit, AtKey
<1> QED BY <1>1, <1>2, <1>3, <1>4, <1>5 DEF MigrationTyped

\* In the steps that leave the files and the vault's history alone only the
\* place in the function has to be looked at.
LEMMA FilesKept ==
  ASSUME FilesTyped, UNCHANGED <<files, exists>>
  PROVE  FilesTyped'
BY DEF FilesTyped

LEMMA MigrationTypedStep == MigrationTyped /\ [MigrationNext]_vars => MigrationTyped'
<1> SUFFICES ASSUME MigrationTyped, [MigrationNext]_vars PROVE MigrationTyped'
  OBVIOUS
<1> USE DEF outer, local, count
<1>1. CASE StartProcess
  <2>1. AtKey'
    BY <1>1, FoundKept DEF StartProcess, MigrationTyped, AtKey
  <2> QED BY <1>1, <2>1, FilesKept DEF StartProcess, MigrationTyped, Entries
<1>2. ASSUME NEW a \in Args, Discover(a) PROVE MigrationTyped'
  <2>1. ASSUME NEW k \in todo' PROVE FoundSound(found[k])'
    <3>1. k \in Keys /\ Discovered(a)[k] # Absent /\ found'[k] = Discovered(a)[k]
      BY <1>2, <2>1 DEF Discover
    <3>2. Scanned(args)' = Scanned(a)
      BY <1>2 DEF Discover, Scanned
    <3> QED BY <3>1, <3>2, DiscoveredSound DEF FoundSound
  <2>2. AtKey'
    BY <1>2, <2>1 DEF Discover, AtKey
  <2> QED BY <1>2, <2>2, FilesKept DEF Discover, MigrationTyped
<1>3. ASSUME NEW k \in Keys, LookUp(k) PROVE MigrationTyped'
  <2>1. AtKey'
    BY <1>3, FoundKept DEF LookUp, MigrationTyped, AtKey
  <2> QED BY <1>3, <2>1, FilesKept DEF LookUp, MigrationTyped
<1>4. CASE Put
  <2>1. key \in todo /\ key \in Keys /\ FoundSound(found[key])
    BY <1>4 DEF Put, MigrationTyped, AtKey
  <2>2. found[key].val \in Value
    BY <2>1, FoundValue DEF MigrationTyped
  <2>3. vault' \in [Keys -> Value \union {Absent}] /\ stored' \subseteq Keys \X Value /\ <<key, found[key].val>> \in stored'
    BY <1>4, <2>1, <2>2 DEF Put, MigrationTyped
  <2>4. env' \in [Keys -> {Absent, "env"}]
    BY <1>4, <2>1 DEF Put, MigrationTyped
  <2>5. CASE args.delete
    <3>1. targets' \in Seq(SecretFiles)
      BY <1>4, <2>5, EraseFromTyped DEF Put, MigrationTyped
    <3>2. AtKey'
      BY <1>4, <2>1, <2>3, <2>5, FoundKept DEF Put, MigrationTyped, AtKey
    <3> QED BY <1>4, <2>3, <2>4, <2>5, <3>1, <3>2, FilesKept DEF Put, MigrationTyped
  <2>6. CASE ~args.delete
    <3>1. AtKey'
      BY <1>4, <2>6, NextKeyTyped DEF Put, AtKey
    <3> QED BY <1>4, <2>3, <2>4, <2>6, <3>1, NextKeyTyped, FilesKept DEF Put, MigrationTyped
  <2> QED BY <2>5, <2>6
<1>5. CASE PutFails \/ ErasedAll
  <2>1. AtKey'
    BY <1>5, NextKeyTyped DEF PutFails, ErasedAll, AtKey
  <2> QED BY <1>5, <2>1, NextKeyTyped, FilesKept DEF PutFails, ErasedAll, MigrationTyped
<1>6. CASE NoMatch \/ EraseFails \/ RewriteFails
  <2>1. targets' \in Seq(SecretFiles)
    <3>1. targets \in Seq(SecretFiles) /\ targets # <<>> /\ targets' = Tail(targets)
      BY <1>6 DEF NoMatch, EraseFails, RewriteFails, MigrationTyped, AtKey
    <3> QED BY <3>1
  <2>2. buf' \in [Keys -> Value \union {Absent}]
    BY <1>6 DEF NoMatch, EraseFails, RewriteFails, MigrationTyped, Nothing
  <2>3. AtKey'
    BY <1>6, FoundKept DEF NoMatch, EraseFails, RewriteFails, MigrationTyped, AtKey
  <2> QED BY <1>6, <2>1, <2>2, <2>3, FilesKept DEF NoMatch, EraseFails, RewriteFails, MigrationTyped
<1>7. CASE Truncate
  <2>1. Head(targets) \in SecretFiles /\ Head(targets) \in exists
    BY <1>7 DEF Truncate, MigrationTyped
  <2>2. /\ buf' = Erased(Head(targets), key)
        /\ files' = [files EXCEPT ![Head(targets)] = Nothing]
    BY <1>7 DEF Truncate
  <2>3. buf' \in [Keys -> Value \union {Absent}] /\ \A k \in Keys : buf'[k] \in {Absent, Head(targets), Zeroed}
    BY <2>1, <2>2 DEF Erased, MigrationTyped, FilesTyped, Value
  <2>4. FilesTyped' /\ files'[Head(targets)] = Nothing
    BY <1>7, <2>1, <2>2 DEF Truncate, MigrationTyped, FilesTyped, Nothing
  <2>5. AtKey'
    BY <1>7, <2>1, <2>3, <2>4, FoundKept DEF Truncate, MigrationTyped, AtKey
  <2> QED BY <1>7, <2>3, <2>4, <2>5 DEF Truncate, MigrationTyped
<1>8. CASE Rewrite
  <2>1. /\ Head(targets) \in SecretFiles /\ Head(targets) \in exists
        /\ \A k \in Keys : buf[k] \in {Absent, Head(targets), Zeroed}
    BY <1>8 DEF Rewrite, MigrationTyped, AtKey
  <2>2. FilesTyped'
    BY <1>8, <2>1 DEF Rewrite, MigrationTyped, FilesTyped
  <2>3. AtKey'
    BY <1>8, NextKeyTyped DEF Rewrite, AtKey
  <2> QED BY <1>8, <2>2, <2>3, NextKeyTyped DEF Rewrite, MigrationTyped
<1>9. CASE Return
  <2>1. AtKey'
    BY <1>9 DEF Return, MigrationTyped, AtKey
  <2> QED BY <1>9, <2>1, FilesKept DEF Return, MigrationTyped, NoArgs, Args
<1>10. CASE Exit \/ Crash
  <2>1. Gone
    BY <1>10 DEF Exit, Crash
  <2>2. AtKey'
    BY <2>1 DEF Gone, AtKey
  <2> QED BY <2>1, <2>2, FilesKept DEF Gone, MigrationTyped, NoArgs, Nothing, Args
<1>11. ASSUME NEW k \in Keys, OthersSet(k) \/ OthersRemove(k) PROVE MigrationTyped'
  <2>1. AtKey'
    BY <1>11, FoundKept DEF OthersSet, OthersRemove, MigrationTyped, AtKey
  <2>2. vault' \in [Keys -> Value \union {Absent}]
    BY <1>11 DEF OthersSet, OthersRemove, MigrationTyped, Value
  <2> QED BY <1>11, <2>1, <2>2, FilesKept DEF OthersSet, OthersRemove, MigrationTyped
<1>12. CASE UNCHANGED vars
  <2>1. AtKey'
    BY <1>12, FoundKept DEF vars, MigrationTyped, AtKey
  <2> QED BY <1>12, <2>1, FilesKept DEF vars, MigrationTyped
<1> QED BY <1>1, <1>2, <1>3, <1>4, <1>5, <1>6, <1>7, <1>8, <1>9, <1>10, <1>11, <1>12 DEF MigrationNext

-----------------------------------------------------------------------------

LEMMA MigrationNothingLost == MigrationInit => NothingLost
<1> SUFFICES ASSUME MigrationInit, NEW o \in originals PROVE files[o[2]][o[1]] = o[2]
  BY DEF NothingLost, InFile
<1>1. PICK c \in Entries("config"), d \in Entries(".env"), h \in Entries("~/.env"), l \in Entries(".env.local") :
        files = [f \in SecretFiles |-> CASE f = "config" -> c [] f = ".env" -> d [] f = "~/.env" -> h [] OTHER -> l]
  BY DEF MigrationInit
<1>2. files["config"] = c /\ files[".env"] = d /\ files["~/.env"] = h /\ files[".env.local"] = l
  BY <1>1 DEF SecretFiles, DotFiles
<1>3. o[1] \in Keys /\ o[2] \in SecretFiles /\ files[o[2]][o[1]] # Absent
  BY DEF MigrationInit
<1>4. \A f \in SecretFiles : files[f] \in [Keys -> {Absent, f}]
  BY <1>2 DEF SecretFiles, DotFiles, Entries
<1> QED BY <1>3, <1>4

\* Zeros go over an original only if it is stored, or over that of another key
\* or of another file, which are mishaps; and an emptied file is written back.
LEMMA NothingLostStep ==
  ASSUME MigrationTyped, NothingLost, [MigrationNext]_vars
  PROVE  NothingLost'
<1> USE DEF outer, local, count
<1> SUFFICES ASSUME causes' \intersect {"truncated", "neighbour", "elsewhere"} = {},
                    NEW o \in originals'
             PROVE  InFile(o[1], o[2])' \/ o \in stored'
  BY DEF NothingLost
<1>1. UNCHANGED originals /\ causes \subseteq causes' /\ stored \subseteq stored'
  BY DEF MigrationNext, vars, StartProcess, Discover, LookUp, Put, PutFails, NoMatch, EraseFails, Truncate, Rewrite,
         RewriteFails, ErasedAll, Return, Exit, Crash, Gone, OthersSet, OthersRemove
<1>2. InFile(o[1], o[2]) \/ o \in stored
  BY <1>1 DEF NothingLost
<1>3. o[1] \in Keys /\ o[2] \in SecretFiles
  BY <1>1 DEF MigrationTyped
<1>4. CASE o \in stored
  BY <1>1, <1>4
<1> SUFFICES ASSUME InFile(o[1], o[2]) PROVE InFile(o[1], o[2])' \/ o \in stored'
  BY <1>2, <1>4
<1>5. CASE UNCHANGED files /\ pc # "rewrite"
  BY <1>5 DEF InFile
<1>6. CASE Truncate
  <2>1. files[o[2]][o[1]] = o[2]
    BY <1>6 DEF Truncate, InFile
  <2>2. /\ Head(targets) \in SecretFiles /\ UNCHANGED targets /\ pc' = "rewrite" /\ key \in Keys
        /\ buf' = Erased(Head(targets), key)
        /\ files' = [files EXCEPT ![Head(targets)] = Nothing]
        /\ Loses(Head(targets), key) \subseteq causes' /\ <<key, found[key].val>> \in stored /\ stored \subseteq stored'
    BY <1>1, <1>6 DEF Truncate, MigrationTyped, AtKey
  <2>3. CASE o[2] # Head(targets)
    BY <1>3, <2>1, <2>2, <2>3 DEF InFile, MigrationTyped, FilesTyped
  <2>4. CASE o[2] = Head(targets) /\ o[1] \notin Matched(Head(targets), key)
    BY <1>3, <2>1, <2>2, <2>4 DEF InFile, Erased
  <2>5. CASE o[2] = Head(targets) /\ o[1] \in Matched(Head(targets), key)
    <3>1. "neighbour" \notin Loses(Head(targets), key) /\ "elsewhere" \notin Loses(Head(targets), key)
      BY <2>2
    <3>2. o[1] = key
      BY <2>1, <2>5, <3>1 DEF Loses
    <3>3. found[key].val = o[2]
      BY <2>1, <2>5, <3>1, <3>2 DEF Loses
    <3>4. o = <<o[1], o[2]>>
      BY <1>1 DEF MigrationTyped
    <3> QED BY <2>2, <3>2, <3>3, <3>4
  <2> QED BY <2>3, <2>4, <2>5
<1>7. CASE Rewrite
  <2>1. /\ Head(targets) \in SecretFiles /\ files[Head(targets)] = Nothing
        /\ files' = [files EXCEPT ![Head(targets)] = buf] /\ pc = "rewrite"
    BY <1>7 DEF Rewrite, MigrationTyped, AtKey
  <2>2. CASE o[2] # Head(targets)
    BY <1>3, <2>1, <2>2 DEF InFile, MigrationTyped, FilesTyped
  <2>3. CASE o[2] = Head(targets)
    <3>1. files[o[2]][o[1]] # o[2]
      BY <1>3, <2>1, <2>3, AbsentAssumption DEF Nothing, Value, Sources
    <3> QED BY <1>3, <2>1, <2>3, <3>1 DEF InFile, MigrationTyped, FilesTyped
  <2> QED BY <2>2, <2>3
<1>8. CASE RewriteFails \/ (Crash /\ pc = "rewrite")
  BY <1>8 DEF RewriteFails, Crash
<1>9. CASE UNCHANGED <<files, pc, targets, buf>>
  BY <1>9 DEF InFile
<1> QED BY <1>5, <1>6, <1>7, <1>8, <1>9 DEF MigrationNext, vars, StartProcess, Discover, LookUp, Put, PutFails,
       NoMatch, EraseFails, ErasedAll, Return, Exit, Crash, Gone, OthersSet, OthersRemove

-----------------------------------------------------------------------------

LEMMA ZerosInit == MigrationInit => ZerosInv
<1> SUFFICES ASSUME MigrationInit PROVE ZerosKnown
  BY DEF ZerosInv
<1>1. PICK c \in Entries("config"), d \in Entries(".env"), h \in Entries("~/.env"), l \in Entries(".env.local") :
        files = [f \in SecretFiles |-> CASE f = "config" -> c [] f = ".env" -> d [] f = "~/.env" -> h [] OTHER -> l]
  BY DEF MigrationInit
<1>2. files[".env"] = d /\ files["~/.env"] = h /\ files[".env.local"] = l
  BY <1>1 DEF SecretFiles, DotFiles
<1>3. \A f \in DotFiles : files[f] \in [Keys -> {Absent, f}]
  BY <1>2 DEF DotFiles, Entries
<1>4. \A f \in DotFiles, k \in Keys : files[f][k] # Zeroed
  BY <1>3, AbsentAssumption DEF DotFiles, Zeroed, Value
<1> QED BY <1>4 DEF MigrationInit, ZerosKnown

\* Only a key that the vault lacks is set, and no zeros were found for it.
LEMMA ZerosStep ==
  ASSUME MigrationTyped, ZerosInv, [MigrationNext]_vars
  PROVE  ZerosInv'
<1> USE DEF outer, local, count
<1> SUFFICES ASSUME "removed" \notin causes' PROVE ZerosKnown'
  BY DEF ZerosInv
<1>a. causes \subseteq causes'
  BY DEF MigrationNext, vars, StartProcess, Discover, LookUp, Put, PutFails, NoMatch, EraseFails, Truncate, Rewrite,
         RewriteFails, ErasedAll, Return, Exit, Crash, Gone, OthersSet, OthersRemove
<1>b. ZerosKnown
  BY <1>a DEF ZerosInv
<1>1. CASE StartProcess \/ NoMatch \/ EraseFails \/ RewriteFails \/ Return \/ UNCHANGED vars
  BY <1>b, <1>1 DEF ZerosKnown, StartProcess, NoMatch, EraseFails, RewriteFails, Return, vars, MigrationTyped, AtKey
<1>2. ASSUME NEW a \in Args, Discover(a) PROVE ZerosKnown'
  <2>1. ASSUME NEW k \in todo', found'[k].val = Zeroed PROVE vault[k] # Absent
    <3>1. k \in Keys /\ Discovered(a)[k] # Absent /\ found'[k] = Discovered(a)[k]
      BY <1>2, <2>1 DEF Discover
    <3>2. Scanned(a) \in DotFiles /\ files[Scanned(a)][k] = Zeroed
      BY <2>1, <3>1, DiscoveredSound DEF Zeroed
    <3> QED BY <1>b, <3>1, <3>2 DEF ZerosKnown
  <2> QED BY <1>b, <1>2, <2>1 DEF Discover, ZerosKnown
<1>3. ASSUME NEW k \in Keys, LookUp(k) PROVE ZerosKnown'
  BY <1>b, <1>3 DEF LookUp, ZerosKnown
<1>4. CASE Put
  <2>1. key \in todo /\ key \in Keys /\ FoundSound(found[key])
    BY <1>4 DEF Put, MigrationTyped, AtKey
  <2>2. found[key].val # Zeroed /\ found[key].val # Absent
    BY <1>b, <1>4, <2>1, FoundValue DEF Put, MigrationTyped, ZerosKnown
  <2>3. /\ vault' = [vault EXCEPT ![key] = found[key].val] /\ vault \in [Keys -> Value \union {Absent}]
        /\ stored' = stored \union {<<key, found[key].val>>} /\ UNCHANGED <<files, found>>
        /\ pc' \in {"erase", "next"} /\ todo' \subseteq todo /\ todo \subseteq Keys
        /\ pc' = "erase" => key' = key
    BY <1>4 DEF Put, NextKey, MigrationTyped, AtKey
  <2>4. /\ vault'[key] # Absent
        /\ \A k \in Keys : vault[k] # Absent => vault'[k] # Absent
    BY <2>1, <2>2, <2>3
  <2> QED BY <1>b, <2>1, <2>2, <2>3, <2>4 DEF ZerosKnown
<1>5. CASE PutFails \/ ErasedAll
  BY <1>b, <1>5 DEF PutFails, ErasedAll, NextKey, ZerosKnown
<1>6. CASE Truncate
  <2>1. /\ Head(targets) \in SecretFiles /\ UNCHANGED <<targets, vault, stored, todo, found, key>> /\ pc' = "rewrite"
        /\ pc = "erase" /\ buf' = Erased(Head(targets), key) /\ key \in Keys
        /\ files' = [files EXCEPT ![Head(targets)] = Nothing]
    BY <1>6 DEF Truncate, MigrationTyped, AtKey
  <2>2. \A f \in DotFiles, k \in Keys : files'[f][k] = Zeroed => vault[k] # Absent
    BY <1>b, <2>1, AbsentAssumption DEF ZerosKnown, MigrationTyped, FilesTyped, Nothing, SecretFiles, Value
  <2>3. ASSUME Head(targets) \in DotFiles, NEW k \in Keys, buf'[k] = Zeroed PROVE vault[k] # Absent
    <3>1. Head(targets) # "config"
      BY <2>3 DEF DotFiles
    <3>2. k = key \/ files[Head(targets)][k] = Zeroed
      BY <2>1, <2>3, <3>1 DEF Erased, Matched
    <3> QED BY <1>b, <2>1, <2>3, <3>2 DEF ZerosKnown
  <2> QED BY <1>b, <2>1, <2>2, <2>3 DEF ZerosKnown
<1>7. CASE Rewrite
  <2>1. /\ Head(targets) \in SecretFiles /\ UNCHANGED <<vault, stored, found>> /\ pc = "rewrite"
        /\ files' = [files EXCEPT ![Head(targets)] = buf] /\ pc' = "next" /\ todo' \subseteq todo
    BY <1>7 DEF Rewrite, NextKey, MigrationTyped, AtKey
  <2>2. \A f \in DotFiles, k \in Keys : files'[f][k] = Zeroed => vault[k] # Absent
    BY <1>b, <2>1 DEF ZerosKnown, MigrationTyped, FilesTyped
  <2> QED BY <1>b, <2>1, <2>2 DEF ZerosKnown
<1>8. CASE Exit \/ Crash
  BY <1>b, <1>8 DEF Exit, Crash, Gone, ZerosKnown
<1>9. ASSUME NEW k \in Keys, OthersSet(k) PROVE ZerosKnown'
  <2>1. /\ vault' = [vault EXCEPT ![k] = Other] /\ vault \in [Keys -> Value \union {Absent}]
        /\ UNCHANGED <<files, pc, todo, found, key, targets, buf, stored>>
    BY <1>9 DEF OthersSet, MigrationTyped
  <2>2. \A n \in Keys : vault[n] # Absent => vault'[n] # Absent
    BY <2>1, AbsentAssumption DEF Value
  <2>3. todo \subseteq Keys /\ (pc \in {"erase", "rewrite"} => key \in Keys)
    BY DEF MigrationTyped, AtKey
  <2> QED BY <1>b, <2>1, <2>2, <2>3 DEF ZerosKnown
<1>10. ASSUME NEW k \in Keys, OthersRemove(k) PROVE ZerosKnown'
  BY <1>10 DEF OthersRemove
<1> QED BY <1>1, <1>2, <1>3, <1>4, <1>5, <1>6, <1>7, <1>8, <1>9, <1>10 DEF MigrationNext

-----------------------------------------------------------------------------

LEMMA PlaintextInit == MigrationInit => PlaintextInv
BY DEF MigrationInit, PlaintextInv, PlaintextKnown

\* The original that was just stored is in the first of the files to be looked
\* at that exist, and a pattern for its key matches it there.
LEMMA PutPending ==
  ASSUME MigrationTyped, Put, StaysBecause \intersect {"kept", "nested", "pathless", "unmatched"} = {},
         found[key].val \in SecretFiles
  PROVE  pc' = "erase" /\ Pending'
<1> DEFINE f == found[key].val
<1>1. key \in Keys /\ FoundSound(found[key]) /\ args \in Args
  BY DEF Put, MigrationTyped, AtKey
<1>2. args.delete
  BY DEF StaysBecause
<1>3. pc' = "erase" /\ targets' = EraseFrom /\ UNCHANGED <<key, found, args, exists>>
  BY <1>2 DEF Put, outer
<1>4. CASE found[key].from = "config" /\ f = "config"
  <2>1. args.config /\ Leaf[key] = key /\ <<key, f>> \notin Odd
    BY <1>4 DEF StaysBecause, FoundIn
  <2> QED BY <1>3, <1>4, <2>1 DEF EraseFrom, Pending
<1>5. CASE found[key].from = "dotenv" /\ f = Scanned(args) /\ args.dotenv # Absent
  <2>2. <<key, f>> \notin Odd
    BY <1>5 DEF StaysBecause, FoundIn
  <2>1. f = args.dotenv /\ EraseFrom = <<args.dotenv>> /\ f # "config" /\ <<key, f>> \notin Odd
    BY <1>1, <1>5, <2>2, ScannedWhere DEF EraseFrom, Args, DotFiles
  <2> QED BY <1>3, <2>1 DEF Pending
<1>6. CASE found[key].from = "dotenv" /\ f = Scanned(args) /\ args.dotenv = Absent
  <2>1. f # "~/.env" /\ EraseFrom = <<".env", ".env.local">>
    BY <1>6 DEF EraseFrom, StaysBecause
  <2>2. f \in {".env", ".env.local"} /\ (f = ".env.local" => ".env" \notin exists)
    BY <1>1, <1>6, <2>1, ScannedWhere, AbsentAssumption DEF DotFiles, Value, Sources
  <2>3. <<key, f>> \notin Odd
    BY <1>6 DEF StaysBecause, FoundIn
  <2> QED BY <1>3, <2>1, <2>2, <2>3 DEF Pending
<1> QED BY <1>1, <1>4, <1>5, <1>6 DEF FoundSound, SecretFiles, DotFiles, Zeroed

LEMMA PlaintextStep ==
  ASSUME MigrationTyped, PlaintextInv, [MigrationNext]_vars
  PROVE  PlaintextInv'
<1> USE DEF outer, local, count
<1> SUFFICES ASSUME causes' \intersect {"kept", "nested", "pathless", "unmatched", "cut_short"} = {} PROVE PlaintextKnown'
  BY DEF PlaintextInv
<1>a. causes \subseteq causes'
  BY DEF MigrationNext, vars, StartProcess, Discover, LookUp, Put, PutFails, NoMatch, EraseFails, Truncate, Rewrite,
         RewriteFails, ErasedAll, Return, Exit, Crash, Gone, OthersSet, OthersRemove
<1>b. PlaintextKnown
  BY <1>a DEF PlaintextInv
<1>c. \A o \in stored : o = <<o[1], o[2]>> /\ o[1] \in Keys /\ o[2] \in Value
  BY DEF MigrationTyped
<1>1. CASE StartProcess \/ Return \/ PutFails
  BY <1>b, <1>1 DEF PlaintextKnown, Pending, StartProcess, Return, PutFails, NextKey
<1>2. ASSUME NEW a \in Args, Discover(a) PROVE PlaintextKnown'
  BY <1>b, <1>2 DEF PlaintextKnown, Pending, Discover
<1>3. ASSUME NEW k \in Keys, LookUp(k) PROVE PlaintextKnown'
  BY <1>b, <1>3 DEF PlaintextKnown, Pending, LookUp
<1>4. CASE Put
  <2>1. /\ stored' = stored \union {<<key, found[key].val>>} /\ UNCHANGED files /\ pc = "put"
        /\ StaysBecause \subseteq causes' /\ pc' # "rewrite"
    BY <1>4 DEF Put, NextKey
  <2>2. ASSUME NEW o \in stored', o[2] \in SecretFiles, files[o[2]][o[1]] = o[2]
        PROVE  o = <<key, found[key].val>>' /\ Pending'
    <3>1. o = <<key, found[key].val>>
      BY <1>b, <2>1, <2>2 DEF PlaintextKnown, Pending
    <3>2. pc' = "erase" /\ Pending'
      BY <1>4, <2>1, <2>2, <3>1, PutPending
    <3>3. UNCHANGED <<key, found>>
      BY <1>4, <3>2 DEF Put, NextKey
    <3> QED BY <3>1, <3>2, <3>3
  <2> QED BY <2>1, <2>2 DEF PlaintextKnown
<1>5. CASE ErasedAll
  BY <1>b, <1>5 DEF PlaintextKnown, Pending, ErasedAll, NextKey
<1>6. CASE NoMatch
  <2>1. /\ targets \in Seq(SecretFiles) /\ targets # <<>> /\ targets' = Tail(targets) /\ pc = "erase"
        /\ UNCHANGED <<stored, files, key, found, exists, pc>> /\ key \in Keys
        /\ Matched(Head(targets), key) = {} \/ Head(targets) \notin exists
    BY <1>6 DEF NoMatch, MigrationTyped, AtKey
  <2>2. ASSUME NEW o \in stored, o[2] \in SecretFiles, files[o[2]][o[1]] = o[2]
        PROVE  o = <<key, found[key].val>> /\ Pending'
    <3>1. o = <<key, found[key].val>> /\ Pending
      BY <1>b, <2>2 DEF PlaintextKnown
    <3>2. o[1] = key /\ o[2] = found[key].val
      BY <3>1
    <3>3. files[o[2]][key] # Absent /\ o[2] \in exists
      BY <2>1, <2>2, <3>2, AbsentAssumption DEF MigrationTyped, FilesTyped, Value, Sources
    <3>4. Head(targets) # o[2]
      BY <2>1, <3>1, <3>2, <3>3 DEF Matched, Pending
    <3>5. targets = <<".env", ".env.local">> /\ o[2] = ".env.local"
      BY <3>1, <3>2, <3>4 DEF Pending
    <3>6. targets' = <<".env.local">>
      BY <2>1, <3>5
    <3> QED BY <2>1, <3>1, <3>2, <3>5, <3>6 DEF Pending
  <2> QED BY <2>1, <2>2 DEF PlaintextKnown
<1>7. CASE EraseFails \/ RewriteFails
  BY <1>7 DEF EraseFails, RewriteFails
<1>8. CASE Truncate
  <2>1. /\ Head(targets) \in SecretFiles /\ Head(targets) \in exists
        /\ UNCHANGED <<targets, stored, found, key>> /\ pc' = "rewrite"
        /\ pc = "erase" /\ buf' = Erased(Head(targets), key) /\ key \in Keys
        /\ files' = [files EXCEPT ![Head(targets)] = Nothing]
    BY <1>8 DEF Truncate, MigrationTyped, AtKey
  <2>2. ASSUME NEW o \in stored, o[2] \in SecretFiles PROVE files'[o[2]][o[1]] # o[2]
    <3>1. CASE o[2] = Head(targets)
      BY <1>c, <2>1, <2>2, <3>1, AbsentAssumption DEF Nothing, Value, Sources, MigrationTyped, FilesTyped
    <3>2. CASE o[2] # Head(targets)
      <4>1. ~(files[o[2]][o[1]] = o[2])
        <5> SUFFICES ASSUME files[o[2]][o[1]] = o[2] PROVE FALSE
          OBVIOUS
        <5>1. o = <<key, found[key].val>> /\ Pending
          BY <1>b, <2>2 DEF PlaintextKnown
        <5>2. o[2] = found[key].val
          BY <5>1
        <5> QED BY <2>1, <3>2, <5>1, <5>2 DEF Pending
      <4> QED BY <2>1, <2>2, <3>2, <4>1 DEF MigrationTyped, FilesTyped
    <3> QED BY <3>1, <3>2
  <2>3. ASSUME NEW o \in stored, o[2] = Head(targets) PROVE buf'[o[1]] # o[2]
    <3>1. o[1] \in Keys /\ o[2] \in SecretFiles /\ o[2] # Zeroed
      BY <1>c, <2>1, <2>3 DEF SecretFiles, DotFiles, Zeroed
    <3>2. CASE files[o[2]][o[1]] # o[2]
      BY <2>1, <2>3, <3>1, <3>2 DEF Erased
    <3>3. CASE files[o[2]][o[1]] = o[2]
      <4>1. o = <<key, found[key].val>> /\ Pending
        BY <1>b, <3>1, <3>3 DEF PlaintextKnown
      <4>2. o[1] = key /\ (o[2] = "config" => Leaf[key] = key) /\ <<o[1], o[2]>> \notin Odd
        BY <4>1 DEF Pending
      <4>3. o[1] \in Matched(Head(targets), key)
        BY <2>3, <3>1, <3>3, <4>2, AbsentAssumption DEF Matched, Value, Sources
      <4> QED BY <2>1, <3>1, <4>3 DEF Erased
    <3> QED BY <3>2, <3>3
  <2> QED BY <2>1, <2>2, <2>3 DEF PlaintextKnown
<1>9. CASE Rewrite
  <2>1. /\ Head(targets) \in SecretFiles /\ pc = "rewrite" /\ UNCHANGED stored /\ pc' = "next"
        /\ files' = [files EXCEPT ![Head(targets)] = buf]
    BY <1>9 DEF Rewrite, NextKey, MigrationTyped, AtKey
  <2>2. ASSUME NEW o \in stored, o[2] \in SecretFiles PROVE files'[o[2]][o[1]] # o[2]
    BY <1>b, <2>1, <2>2 DEF PlaintextKnown, Pending, MigrationTyped, FilesTyped
  <2> QED BY <2>1, <2>2 DEF PlaintextKnown
<1>10. CASE Exit \/ Crash
  BY <1>b, <1>10 DEF Exit, Crash, Gone, PlaintextKnown, Pending, MigrationTyped, AtKey
<1>11. ASSUME NEW k \in Keys, OthersSet(k) \/ OthersRemove(k) PROVE PlaintextKnown'
  BY <1>b, <1>11 DEF OthersSet, OthersRemove, PlaintextKnown, Pending
<1>12. CASE UNCHANGED vars
  BY <1>b, <1>12 DEF vars, PlaintextKnown, Pending
<1> QED BY <1>1, <1>2, <1>3, <1>4, <1>5, <1>6, <1>7, <1>8, <1>9, <1>10, <1>11, <1>12 DEF MigrationNext

-----------------------------------------------------------------------------

LEMMA MigrationSound == MigrationSpec => []MigrationInv
<1>1. MigrationInit => MigrationInv
  BY MigrationTypedInit, MigrationNothingLost, ZerosInit, PlaintextInit DEF MigrationInv
<1>2. MigrationInv /\ [MigrationNext]_vars => MigrationInv'
  BY MigrationTypedStep, NothingLostStep, ZerosStep, PlaintextStep DEF MigrationInv
<1> QED BY <1>1, <1>2, PTL DEF MigrationSpec

\* The migration never destroys a secret, migrate_secrets(): each original is
\* still in its file or was stored in the vault, for any keys, nestings, numbers
\* of runs, deaths, failing writes and changes by others, unless one of three
\* mishaps occurred.
THEOREM MigrationLosesNothing == MigrationSpec => []NothingLost
<1>1. MigrationInv => NothingLost
  BY DEF MigrationInv
<1> QED BY <1>1, MigrationSound, PTL

\* The zeros that replace an original never become a secret of the vault unless
\* one was removed from it: a key that the vault has is skipped.
THEOREM ZerosStayOutside == MigrationSpec => []ZerosNotImported
<1>1. MigrationInv => ZerosNotImported
  BY DEF MigrationInv, ZerosInv, ZerosKnown, ZerosNotImported
<1> QED BY <1>1, MigrationSound, PTL

\* Between runs no file holds in plaintext what was migrated from it unless one
\* of the four reasons applied for which _secure_delete_from_file() leaves it.
THEOREM PlaintextErased == MigrationSpec => []NoPlaintextLeft
<1>1. MigrationInv => NoPlaintextLeft
  BY DEF MigrationInv, PlaintextInv, PlaintextKnown, Pending, NoPlaintextLeft
<1> QED BY <1>1, MigrationSound, PTL

=============================================================================
