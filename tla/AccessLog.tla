------------------------------ MODULE AccessLog ------------------------------
(***************************************************************************)
(* The access log of the vault, src/hermes_katana/vault/access_log.py:     *)
(* several processes append lines to one file and rotate it, each under a  *)
(* thread lock of its own only.  A file that is open stays the same file   *)
(* when it is renamed or unlinked, so files are numbered; 0 is no file.    *)
(***************************************************************************)
EXTENDS SharedFiles, Sequences

CONSTANTS
  MaxLines,   \* the size limit, in lines
  MaxCalls    \* bound: calls of log_access()

ASSUME LogAssumption == MaxLines \in Nat /\ MaxCalls \in Nat

NoFile == 0
Files  == 1..MaxCalls

VARIABLES
  active,    \* the file at the log's path
  rotated,   \* the file at the path of the rotated log
  lines,     \* the entries in each file, numbered in the order of their writes
  logPc,     \* where each process is in log_access()
  handle,    \* the file it has open
  newest     \* the number of the newest entry

\* History: the calls begun, the mishaps and the faults so far.
VARIABLES calls, logCauses, logFaults

logVars == <<active, rotated, lines, logPc, handle, newest, calls, logCauses, logFaults>>

LogMishap ==
  { "crossed",     \* a process rotated a log that another had rotated already
    "late",        \* a line went to a log that was rotated after it was opened
    "unrotated",   \* the rotated log was removed and the rename failed
    "unlogged",    \* log_access() returned although writing had failed
    "cleared" }    \* clear() was called

LogInit ==
  /\ active = NoFile /\ rotated = NoFile /\ lines = [f \in Files |-> <<>>]
  /\ logPc = [p \in Procs |-> "idle"] /\ handle = [p \in Procs |-> NoFile]
  /\ newest = 0 /\ calls = 0 /\ logCauses = {} /\ logFaults = 0

LogGoto(p, label) == logPc' = [logPc EXCEPT ![p] = label]

-----------------------------------------------------------------------------

TooLong_Always == active # NoFile   \* mutant: the size is not looked at

TooLong == active # NoFile /\ Len(lines[active]) > MaxLines

\* What a rotation costs when the log is not too long any more.
Crossed == IF TooLong THEN {} ELSE {"crossed"}

\* log_access(): _maybe_rotate looks at the size.
BeginAccess(p) ==
  /\ logPc[p] = "idle" /\ calls < MaxCalls
  /\ calls' = calls + 1
  /\ LogGoto(p, IF TooLong THEN "unlink" ELSE "open")
  /\ UNCHANGED <<active, rotated, lines, handle, newest, logCauses, logFaults>>

UnlinkRotated(p) ==
  /\ logPc[p] = "unlink"
  /\ rotated' = NoFile
  /\ logCauses' = logCauses \union (IF rotated = NoFile THEN {} ELSE Crossed)
  /\ LogGoto(p, "rename")
  /\ UNCHANGED <<active, lines, handle, newest, calls, logFaults>>

\* A rename without a file at the path raises and is ignored.
RenameActive(p) ==
  /\ logPc[p] = "rename"
  /\ IF active = NoFile
     THEN UNCHANGED <<active, rotated, logCauses>>
     ELSE /\ rotated' = active /\ active' = NoFile
          /\ logCauses' = logCauses \union (IF rotated = NoFile THEN {} ELSE Crossed)
  /\ LogGoto(p, "open")
  /\ UNCHANGED <<lines, handle, newest, calls, logFaults>>

\* An error while rotating is ignored: the rest of the rotation is left out.
RotationFails(p) ==
  /\ logPc[p] \in {"unlink", "rename"} /\ logFaults < MaxFaults
  /\ logFaults' = logFaults + 1
  /\ logCauses' = logCauses \union (IF logPc[p] = "rename" THEN {"unrotated"} ELSE {})
  /\ LogGoto(p, "open")
  /\ UNCHANGED <<active, rotated, lines, handle, newest, calls>>

\* The numbers left for new files, never none within MaxCalls calls.
NewFiles ==
  {f \in Files \ {active, rotated} : lines[f] = <<>> /\ \A q \in Procs : handle[q] # f}

OpenLog(p) ==
  /\ logPc[p] = "open" /\ NewFiles # {}
  /\ active' = IF active = NoFile THEN CHOOSE f \in NewFiles : TRUE ELSE active
  /\ handle' = [handle EXCEPT ![p] = active']
  /\ LogGoto(p, "write")
  /\ UNCHANGED <<rotated, lines, newest, calls, logCauses, logFaults>>

CloseLog(p) == LogGoto(p, "idle") /\ handle' = [handle EXCEPT ![p] = NoFile]

WriteLine(p) ==
  /\ logPc[p] = "write"
  /\ newest' = newest + 1
  /\ lines' = [lines EXCEPT ![handle[p]] = Append(@, newest')]
  /\ logCauses' = logCauses \union (IF handle[p] = active THEN {} ELSE {"late"})
  /\ CloseLog(p)
  /\ UNCHANGED <<active, rotated, calls, logFaults>>

\* Any exception is logged at debug level, and the call returns.
WriteLineFails(p) ==
  /\ logPc[p] \in {"open", "write"} /\ logFaults < MaxFaults
  /\ logFaults' = logFaults + 1
  /\ newest' = newest + 1
  /\ logCauses' = logCauses \union {"unlogged"}
  /\ CloseLog(p)
  /\ UNCHANGED <<active, rotated, lines, calls>>

DieLogging(p) ==
  /\ logPc[p] # "idle"
  /\ CloseLog(p)
  /\ UNCHANGED <<active, rotated, lines, newest, calls, logCauses, logFaults>>

ClearLog(p) ==
  /\ logPc[p] = "idle" /\ active # NoFile
  /\ active' = NoFile
  /\ logCauses' = logCauses \union {"cleared"}
  /\ UNCHANGED <<rotated, lines, logPc, handle, newest, calls, logFaults>>

LogNext ==
  \E p \in Procs :
    \/ BeginAccess(p) \/ UnlinkRotated(p) \/ RenameActive(p) \/ RotationFails(p)
    \/ OpenLog(p) \/ WriteLine(p) \/ WriteLineFails(p) \/ DieLogging(p) \/ ClearLog(p)

-----------------------------------------------------------------------------
(* Properties *)

EntriesOf(f) == IF f = NoFile THEN {} ELSE {lines[f][i] : i \in 1..Len(lines[f])}

\* Whatever the interleaving of appends and rotations, the newest entries, as
\* many as make a log too long, are in the log or in the rotated log.
RecentKept ==
  logCauses = {} =>
    \A e \in 1..newest : e >= newest - MaxLines => e \in EntriesOf(active) \union EntriesOf(rotated)

=============================================================================
