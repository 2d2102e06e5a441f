------------------------------ MODULE ToolCache ------------------------------
(***************************************************************************)
(* GetBinary::get_binary: worker-build keeps the command line tools it     *)
(* runs under a cache directory that all builds of a user share.  A build  *)
(* that finds the file of its version runs it; one that does not removes   *)
(* every cached version of that tool, downloads the archive, with retries, *)
(* and extracts it in place.  There is no lock: users interleave.          *)
(* The module follows one tool on one target.  The executable is the file  *)
(* that is looked for; it is truncated first and then copied.              *)
(***************************************************************************)
EXTENDS Naturals

CONSTANTS
  User,        \* the processes that ask for the tool
  Version,     \* its versions
  MaxAttempts  \* MAX_DOWNLOAD_ATTEMPTS

ASSUME AttemptsAssumption == MaxAttempts \in Nat \ {0}
ASSUME VersionAssumption == Version # {}

VARIABLES
  bin,   \* bin[v]: what is found at the path of the executable of version v
  get,   \* get[u]: the progress of u's call of get_binary
  cut    \* history: versions whose extraction was cut short for good

cacheVars == <<bin, get, cut>>

Calls ==
  [ at      : {"idle", "lookup", "clear", "fetch", "copy", "rest", "check", "found", "failed"},
    version : Version,
    attempt : 1..MaxAttempts,
    owns    : BOOLEAN ]  \* no other user has truncated or unlinked the file being copied

CacheTypeOK ==
  /\ bin \in [Version -> {"absent", "partial", "whole"}]
  /\ get \in [User -> Calls]
  /\ cut \subseteq Version

NoCall == [at |-> "idle", version |-> CHOOSE v \in Version : TRUE, attempt |-> 1, owns |-> FALSE]

CacheInit ==
  /\ bin = [v \in Version |-> "absent"]
  /\ get = [u \in User |-> NoCall]
  /\ cut = {}

At(u, p) == get[u].at = p

Goto(u, p) == get' = [get EXCEPT ![u].at = p]

-----------------------------------------------------------------------------
(* {NAME}_BIN may name an executable of the user's own.                     *)
CallGetBinary(u, v) ==
  /\ At(u, "idle")
  /\ get' = [get EXCEPT ![u] = [at |-> "lookup", version |-> v, attempt |-> 1, owns |-> FALSE]]
  /\ UNCHANGED <<bin, cut>>

\* Mutant of Lookup: any cached version will do.
LookupAny(u) ==
  /\ At(u, "lookup")
  /\ Goto(u, IF \A v \in Version : bin[v] = "absent" THEN "clear" ELSE "found")
  /\ UNCHANGED <<bin, cut>>

(* A file at the path of the executable is taken for the tool.              *)
Lookup(u) ==
  /\ At(u, "lookup")
  /\ Goto(u, IF bin[get[u].version] = "absent" THEN "clear" ELSE "found")
  /\ UNCHANGED <<bin, cut>>

(* remove_all_versions: its errors are ignored, so any part of the versions *)
(* may go; a user that is copying one of them goes on writing to a file     *)
(* that has no name any more.                                               *)
Clear(u) ==
  /\ At(u, "clear")
  /\ \E gone \in SUBSET Version :
       /\ bin' = [v \in Version |-> IF v \in gone THEN "absent" ELSE bin[v]]
       /\ cut' = cut \ gone
       /\ get' = [w \in User |-> IF w = u THEN [get[w] EXCEPT !.at = "fetch"]
                                 ELSE [get[w] EXCEPT !.owns = @ /\ get[w].version \notin gone]]

(* download: the response has come and the executable's entry is opened     *)
(* with truncate.                                                           *)
Open(u) ==
  /\ At(u, "fetch")
  /\ LET v == get[u].version IN
       /\ bin' = [bin EXCEPT ![v] = "partial"]
       /\ get' = [w \in User |-> IF w = u THEN [get[w] EXCEPT !.at = "copy", !.owns = TRUE]
                                 ELSE [get[w] EXCEPT !.owns = @ /\ get[w].version # v]]
  /\ UNCHANGED cut

(* io::copy is through; other entries of the archive follow.                *)
Copy(u) ==
  /\ At(u, "copy")
  /\ LET v == get[u].version IN
       IF get[u].owns
         THEN bin' = [bin EXCEPT ![v] = "whole"] /\ cut' = cut \ {v}
         ELSE UNCHANGED <<bin, cut>>
  /\ get' = [get EXCEPT ![u].at = "rest", ![u].owns = FALSE]

\* Mutant of Downloaded: the executable is not looked for after the download.
DownloadedUnchecked(u) ==
  /\ At(u, "rest") /\ Goto(u, "found")
  /\ UNCHANGED <<bin, cut>>

Downloaded(u) ==
  /\ At(u, "rest")
  /\ Goto(u, IF bin[get[u].version] = "absent" THEN "failed" ELSE "found")
  /\ UNCHANGED <<bin, cut>>

Left(v) == IF bin[v] = "partial" THEN cut \cup {v} ELSE cut

\* Mutant of AttemptFails: one more attempt is made than there may be.
AttemptFailsOften(u) ==
  /\ At(u, "fetch") \/ At(u, "copy") \/ At(u, "rest")
  /\ IF get[u].attempt > MaxAttempts
       THEN /\ get' = [get EXCEPT ![u].at = "failed", ![u].owns = FALSE]
            /\ cut' = Left(get[u].version)
       ELSE /\ get' = [get EXCEPT ![u].at = "fetch", ![u].owns = FALSE, ![u].attempt = @ + 1]
            /\ UNCHANGED cut
  /\ UNCHANGED bin

(* download_with_retries: what has been extracted stays where it is while   *)
(* the next attempt is waited for, and when there is none.                  *)
AttemptFails(u) ==
  /\ At(u, "fetch") \/ At(u, "copy") \/ At(u, "rest")
  /\ IF get[u].attempt >= MaxAttempts
       THEN /\ get' = [get EXCEPT ![u].at = "failed", ![u].owns = FALSE]
            /\ cut' = Left(get[u].version)
       ELSE /\ get' = [get EXCEPT ![u].at = "fetch", ![u].owns = FALSE, ![u].attempt = @ + 1]
            /\ UNCHANGED cut
  /\ UNCHANGED bin

(* The caller runs the tool, or reports the error, and is done with it.     *)
Return(u) ==
  /\ At(u, "found") \/ At(u, "failed")
  /\ get' = [get EXCEPT ![u] = NoCall]
  /\ UNCHANGED <<bin, cut>>

(* The process is killed; only while it extracts does that matter.         *)
Killed(u) ==
  /\ ~At(u, "idle")
  /\ get' = [get EXCEPT ![u] = NoCall]
  /\ cut' = IF At(u, "fetch") \/ At(u, "copy") \/ At(u, "rest") THEN Left(get[u].version) ELSE cut
  /\ UNCHANGED bin

(* One step of a call that is under way.                                    *)
GetBinaryStep(u) ==
  Lookup(u) \/ Clear(u) \/ Open(u) \/ Copy(u) \/ Downloaded(u) \/ AttemptFails(u)

CacheNext ==
  \E u \in User :
    \/ \E v \in Version : CallGetBinary(u, v)
    \/ GetBinaryStep(u) \/ Return(u) \/ Killed(u)

CacheSpec == CacheInit /\ [][CacheNext]_cacheVars

-----------------------------------------------------------------------------
Downloading(u, v) == get[u].version = v /\ get[u].at \in {"fetch", "copy", "rest"}

(* A tool is handed out whole, unless its last extraction was cut short by  *)
(* a kill or by giving up, or another build is extracting it right now:     *)
(* these two, and no other interleaving of lookups, clearings, retries and  *)
(* extractions, make get_binary return a truncated executable.              *)
ReturnedIsWhole ==
  [][\A u \in User :
       LET v == get[u].version IN
       ~At(u, "found") /\ At(u, "found")' =>
         bin[v] = "whole" \/ v \in cut \/ \E w \in User \ {u} : Downloading(w, v)]_cacheVars
=============================================================================
