------------------------------ MODULE BuildLock ------------------------------
(***************************************************************************)
(* The build lock of worker-build: several worker-build processes, each    *)
(* with a heartbeat thread, share one output directory `build/`.  A build  *)
(* writes into the staging directory `build/.tmp`, whose modification time *)
(* doubles as the lease of the lock, and on success moves the staged       *)
(* entries one by one into `build/`.                                       *)
(*                                                                         *)
(* Every file system call is a step of its own, because no call excludes   *)
(* another process: directories are reached by path, and whoever holds the *)
(* path sees whichever directory is there now.  Times are kept as ages     *)
(* that Tick advances and that saturate at the threshold they are compared *)
(* with; one tick is HEARTBEAT_INTERVAL.                                   *)
(***************************************************************************)
EXTENDS Naturals

CONSTANTS
  Proc,      \* worker-build processes sharing one output directory
  Name,      \* top-level entries that builds of any mode produce
  Entries,   \* those of each process's build, whose arguments fix its mode
  NoFile,    \* no entry of that name
  Old,       \* the author of what earlier builds left on disk
  Stale,     \* STALE_THRESHOLD, in ticks
  MaxWait,   \* MAX_WAIT, in ticks
  IoErrors   \* may file system calls fail for no reason of the protocol?

ASSUME NoFileAssumption == NoFile \notin Proc \cup Name \cup {Old}
ASSUME OldAssumption == Old \notin Proc
ASSUME EntriesAssumption == Entries \in [Proc -> SUBSET Name]
ASSUME TimeAssumption == /\ Stale \in Nat /\ Stale > 1
                         /\ MaxWait \in Nat /\ MaxWait >= Stale
ASSUME IoErrorsAssumption == IoErrors \in BOOLEAN

VARIABLES
  tmp,        \* does build/.tmp exist?
  tmpAge,     \* time since its mtime, saturating at Stale
  staged,     \* the author of each entry of build/.tmp
  oldtmp,     \* does build/.oldtmp exist?
  published,  \* the author of each entry of build/
  pc,         \* control point of each process
  waited,     \* time each process has spent in wait_for_stale
  seen,       \* age of the mtime that each process last read from .tmp
  todo,       \* entries a process still has to write, or to move
  cur,        \* the entry that finish is moving
  hb,         \* state of each heartbeat thread
  hazards     \* history: which timing hazards have happened so far

disk == <<tmp, tmpAge, staged, oldtmp, published>>
local == <<waited, seen, todo, cur>>
vars == <<disk, pc, local, hb, hazards>>

-----------------------------------------------------------------------------
(* Control points.  A process in Takeover has passed wait_for_stale and has *)
(* not yet made its own .tmp; one in Holding is building into .tmp or       *)
(* publishing from it.                                                      *)
Waiting  == {"stat", "judge", "deadline"}
Takeover == {"clean", "rmOld", "rename", "rmTmp", "rmOldAgain", "create"}
Building == {"compile", "build"}
Finishing == {"stopping", "readdir", "publish", "move"}
Holding  == Building \cup Finishing
Over     == {"done", "failed", "crashed"}
Control  == {"idle", "dropping"} \cup Waiting \cup Takeover \cup Holding \cup Over

TypeOK ==
  /\ tmp \in BOOLEAN
  /\ tmpAge \in 0..Stale
  /\ staged \in [Name -> Proc \cup {NoFile, Old}]
  /\ oldtmp \in BOOLEAN
  /\ published \in [Name -> Proc \cup {NoFile, Old}]
  /\ pc \in [Proc -> Control]
  /\ waited \in [Proc -> 0..MaxWait]
  /\ seen \in [Proc -> 0..Stale]
  /\ todo \in [Proc -> SUBSET Name]
  /\ cur \in [Proc -> Name \cup {NoFile}]
  /\ hb \in [Proc -> {"off", "awake", "asleep"}]
  /\ hazards \subseteq {"overlap", "staleRead", "lateBeat", "slowFinish"}

(* What an earlier worker-build may have left: nothing at all, a published  *)
(* build, or one that died and left .tmp (and perhaps .oldtmp) behind, each *)
(* with the entries of whatever mode it was in.                             *)
Init ==
  /\ tmp \in BOOLEAN
  /\ tmpAge \in 0..Stale
  /\ staged \in [Name -> IF tmp THEN {NoFile, Old} ELSE {NoFile}]
  /\ oldtmp \in BOOLEAN
  /\ published \in [Name -> {NoFile, Old}]
  /\ pc = [p \in Proc |-> "idle"]
  /\ waited = [p \in Proc |-> 0]
  /\ seen = [p \in Proc |-> 0]
  /\ todo = [p \in Proc |-> {}]
  /\ cur = [p \in Proc |-> NoFile]
  /\ hb = [p \in Proc |-> "off"]
  /\ hazards = {}

Goto(p, from, to) == pc[p] = from /\ pc' = [pc EXCEPT ![p] = to]

\* Mutant of Older: the age is not capped.
OlderUncapped(age, limit) == age + 1

Older(age, limit) == IF age < limit THEN age + 1 ELSE limit

-----------------------------------------------------------------------------
(* acquire: create build/ and start the deadline of wait_for_stale.         *)
Start(p) ==
  /\ \/ Goto(p, "idle", "stat")
     \/ IoErrors /\ Goto(p, "idle", "failed")
  /\ UNCHANGED <<disk, local, hb, hazards>>

(* The two ways past wait_for_stale.  History: two processes in Takeover at *)
(* once overlap; an mtime that .tmp no longer has is a stale read.          *)
PassWait(p, from) ==
  /\ Goto(p, from, "clean")
  /\ waited' = [waited EXCEPT ![p] = 0]
  /\ seen' = [seen EXCEPT ![p] = 0]
  /\ hazards' = hazards
       \cup (IF \E q \in Proc \ {p} : pc[q] \in Takeover THEN {"overlap"} ELSE {})
       \cup (IF tmp /\ tmpAge < seen[p] THEN {"staleRead"} ELSE {})
  /\ UNCHANGED <<disk, todo, cur, hb>>

(* exists() and metadata(): gone means free, else the mtime is remembered.  *)
Stat(p) ==
  \/ ~tmp /\ PassWait(p, "stat")
  \/ /\ tmp
     /\ Goto(p, "stat", "judge")
     /\ seen' = [seen EXCEPT ![p] = tmpAge]
     /\ UNCHANGED <<disk, waited, todo, cur, hb, hazards>>

\* Mutant of Judge: the deadline is checked before the age.
JudgeDeadlineFirst(p) ==
  \/ waited[p] < MaxWait /\ seen[p] >= Stale /\ PassWait(p, "judge")
  \/ /\ \/ waited[p] >= MaxWait /\ Goto(p, "judge", "failed")
        \/ waited[p] < MaxWait /\ seen[p] < Stale /\ Goto(p, "judge", "deadline")
     /\ UNCHANGED <<disk, local, hb, hazards>>

(* The remembered mtime against the clock; the deadline only after that.    *)
Judge(p) ==
  \/ seen[p] >= Stale /\ PassWait(p, "judge")
  \/ /\ seen[p] < Stale
     /\ Goto(p, "judge", "deadline")
     /\ UNCHANGED <<disk, local, hb, hazards>>

\* Mutant of CheckDeadline: the poll loop has no deadline.
CheckNoDeadline(p) ==
  /\ Goto(p, "deadline", "stat")
  /\ UNCHANGED <<disk, local, hb, hazards>>

(* The clock is read once more for the deadline: give up, or sleep and poll *)
(* again.                                                                   *)
CheckDeadline(p) ==
  /\ \/ waited[p] >= MaxWait /\ Goto(p, "deadline", "failed")
     \/ waited[p] < MaxWait /\ Goto(p, "deadline", "stat")
  /\ UNCHANGED <<disk, local, hb, hazards>>

(* tmp_dir.exists() after the wait.                                         *)
CheckTmp(p) ==
  /\ \/ tmp /\ Goto(p, "clean", "rmOld")
     \/ ~tmp /\ Goto(p, "clean", "create")
  /\ UNCHANGED <<disk, local, hb, hazards>>

(* remove_dir_all(.oldtmp): a failure is only logged.                       *)
RemoveOldTmp(p, from, to) ==
  /\ Goto(p, from, to)
  /\ oldtmp' \in (IF IoErrors THEN {FALSE, oldtmp} ELSE {FALSE})
  /\ UNCHANGED <<tmp, tmpAge, staged, published, local, hb, hazards>>

EmptyTmp == [n \in Name |-> NoFile]

(* rename(.tmp, .oldtmp): fails when .tmp is gone or .oldtmp is not empty.  *)
RenameTmp(p) ==
  \/ /\ tmp
     /\ Goto(p, "rename", "rmOldAgain")
     /\ tmp' = FALSE /\ staged' = EmptyTmp /\ oldtmp' = TRUE
     /\ UNCHANGED <<tmpAge, published, local, hb, hazards>>
  \/ /\ ~tmp \/ oldtmp \/ IoErrors
     /\ Goto(p, "rename", "rmTmp")
     /\ UNCHANGED <<disk, local, hb, hazards>>

\* Mutant of RemoveTmp: its failure is only logged.
RemoveTmpLogged(p) ==
  \/ /\ tmp
     /\ Goto(p, "rmTmp", "rmOldAgain")
     /\ tmp' = FALSE /\ staged' = EmptyTmp
     /\ UNCHANGED <<tmpAge, oldtmp, published, local, hb, hazards>>
  \/ /\ ~tmp \/ IoErrors
     /\ Goto(p, "rmTmp", "rmOldAgain")
     /\ UNCHANGED <<disk, local, hb, hazards>>

(* or_else remove_dir_all(.tmp): its failure fails the build.               *)
RemoveTmp(p) ==
  \/ /\ tmp
     /\ Goto(p, "rmTmp", "rmOldAgain")
     /\ tmp' = FALSE /\ staged' = EmptyTmp
     /\ UNCHANGED <<tmpAge, oldtmp, published, local, hb, hazards>>
  \/ /\ ~tmp \/ IoErrors
     /\ Goto(p, "rmTmp", "failed")
     /\ UNCHANGED <<disk, local, hb, hazards>>

(* create_dir_all(.tmp), content with a directory that is already there.    *)
MakeTmp ==
  /\ tmp' = TRUE
  /\ tmpAge' = IF tmp THEN tmpAge ELSE 0
  /\ staged' = IF tmp THEN staged ELSE EmptyTmp
  /\ UNCHANGED <<oldtmp, published>>

\* Mutant of CreateTmp: .tmp is left to create_pkg_dir to create.
CreateTmpLater(p) ==
  /\ Goto(p, "create", "compile")
  /\ hb' = [hb EXCEPT ![p] = "awake"]
  /\ UNCHANGED <<disk, local, hazards>>

(* Create .tmp and spawn the heartbeat thread: the lock is held.            *)
CreateTmp(p) ==
  \/ /\ Goto(p, "create", "compile")
     /\ MakeTmp
     /\ hb' = [hb EXCEPT ![p] = "awake"]
     /\ UNCHANGED <<local, hazards>>
  \/ /\ IoErrors
     /\ Goto(p, "create", "failed")
     /\ UNCHANGED <<disk, local, hb, hazards>>

-----------------------------------------------------------------------------
\* Mutant of Heartbeat: the thread touches .tmp once and ends.
HeartbeatOnce(p) ==
  /\ hb[p] = "awake"
  /\ hb' = [hb EXCEPT ![p] = "off"]
  /\ tmpAge' = IF tmp /\ pc[p] \notin {"stopping", "dropping"} THEN 0 ELSE tmpAge
  /\ UNCHANGED <<tmp, staged, oldtmp, published, pc, local, hazards>>

(* The heartbeat thread: unless told to stop, touch .tmp (a failure is only *)
(* logged) and sleep; it notices the stop flag when it wakes up.            *)
Heartbeat(p) ==
  /\ hb[p] = "awake"
  /\ IF pc[p] \in {"stopping", "dropping"}
       THEN hb' = [hb EXCEPT ![p] = "off"] /\ UNCHANGED tmpAge
       ELSE /\ hb' = [hb EXCEPT ![p] = "asleep"]
            /\ tmpAge' \in (IF ~tmp THEN {tmpAge}
                            ELSE IF IoErrors THEN {0, tmpAge} ELSE {0})
  /\ UNCHANGED <<tmp, staged, oldtmp, published, pc, local, hazards>>

(* Time passes; sleeping heartbeat threads become runnable.  History: the   *)
(* lease expires under a build (its heartbeat came late) or under a finish, *)
(* which runs without a heartbeat (it was slow).                            *)
Tick ==
  /\ tmpAge' = Older(tmpAge, Stale)
  /\ waited' = [p \in Proc |-> IF pc[p] \in Waiting THEN Older(waited[p], MaxWait)
                                                    ELSE waited[p]]
  /\ seen' = [p \in Proc |-> IF pc[p] = "judge" THEN Older(seen[p], Stale) ELSE seen[p]]
  /\ hb' = [p \in Proc |-> IF hb[p] = "asleep" THEN "awake" ELSE hb[p]]
  /\ hazards' = hazards
       \cup (IF tmpAge' = Stale /\ \E p \in Proc : pc[p] \in Building
             THEN {"lateBeat"} ELSE {})
       \cup (IF tmpAge' = Stale /\ \E p \in Proc : pc[p] \in Finishing
             THEN {"slowFinish"} ELSE {})
  /\ UNCHANGED <<tmp, staged, oldtmp, published, pc, todo, cur>>

-----------------------------------------------------------------------------
(* The build proper: cargo first, then create_pkg_dir, then the entries of  *)
(* the build's mode, the .gitignore of create_pkg_dir being one, a new entry *)
(* of a directory refreshing its mtime.                                     *)
CreatePkgDir(p) ==
  /\ Goto(p, "compile", "build")
  /\ MakeTmp
  /\ todo' = [todo EXCEPT ![p] = Entries[p]]
  /\ UNCHANGED <<waited, seen, cur, hb, hazards>>

WriteEntry(p, n) ==
  /\ pc[p] = "build" /\ n \in todo[p] /\ tmp
  /\ staged' = [staged EXCEPT ![n] = p]
  /\ tmpAge' = IF staged[n] = NoFile THEN 0 ELSE tmpAge
  /\ todo' = [todo EXCEPT ![p] = @ \ {n}]
  /\ UNCHANGED <<tmp, oldtmp, published, pc, waited, seen, cur, hb, hazards>>

(* Any step of the build returns early: the lock is dropped, .tmp stays.    *)
BuildFails(p) ==
  /\ pc[p] \in Building
  /\ pc' = [pc EXCEPT ![p] = "dropping"]
  /\ todo' = [todo EXCEPT ![p] = {}]
  /\ UNCHANGED <<disk, waited, seen, cur, hb, hazards>>

-----------------------------------------------------------------------------
(* finish: set the stop flag, then join the heartbeat thread.               *)
BeginFinish(p) ==
  /\ todo[p] = {} /\ Goto(p, "build", "stopping")
  /\ UNCHANGED <<disk, local, hb, hazards>>

JoinHeartbeat(p) ==
  /\ hb[p] = "off"
  /\ Goto(p, "stopping", "readdir") \/ Goto(p, "dropping", "failed")
  /\ UNCHANGED <<disk, local, hb, hazards>>

\* Mutant of ReadDir: a directory that cannot be read counts as published.
ReadDirSwallowed(p) ==
  \/ /\ tmp
     /\ Goto(p, "readdir", "publish")
     /\ todo' = [todo EXCEPT ![p] = {n \in Name : staged[n] # NoFile}]
     /\ UNCHANGED <<disk, waited, seen, cur, hb, hazards>>
  \/ /\ ~tmp \/ IoErrors
     /\ Goto(p, "readdir", "done")
     /\ UNCHANGED <<disk, local, hb, hazards>>

(* read_dir(.tmp) lists what is there now.                                  *)
ReadDir(p) ==
  \/ /\ tmp
     /\ Goto(p, "readdir", "publish")
     /\ todo' = [todo EXCEPT ![p] = {n \in Name : staged[n] # NoFile}]
     /\ UNCHANGED <<disk, waited, seen, cur, hb, hazards>>
  \/ /\ ~tmp \/ IoErrors
     /\ Goto(p, "readdir", "failed")
     /\ UNCHANGED <<disk, local, hb, hazards>>

(* Take the next entry and clear its destination (a failure is only logged). *)
ClearDest(p, n) ==
  /\ n \in todo[p]
  /\ Goto(p, "publish", "move")
  /\ cur' = [cur EXCEPT ![p] = n]
  /\ published' \in
       {[published EXCEPT ![n] = f] : f \in IF IoErrors THEN {NoFile, published[n]} ELSE {NoFile}}
  /\ UNCHANGED <<tmp, tmpAge, staged, oldtmp, waited, seen, todo, hb, hazards>>

\* Mutant of MoveEntry: a rename that fails is only logged.
MoveEntryLogged(p) ==
  LET n == cur[p] IN
  /\ Goto(p, "move", "publish")
  /\ cur' = [cur EXCEPT ![p] = NoFile]
  /\ todo' = [todo EXCEPT ![p] = @ \ {n}]
  /\ \/ /\ tmp /\ staged[n] # NoFile
        /\ published' = [published EXCEPT ![n] = staged[n]]
        /\ staged' = [staged EXCEPT ![n] = NoFile]
        /\ tmpAge' = 0
        /\ UNCHANGED <<tmp, oldtmp>>
     \/ /\ ~tmp \/ staged[n] = NoFile \/ published[n] # NoFile \/ IoErrors
        /\ UNCHANGED disk
  /\ UNCHANGED <<waited, seen, hb, hazards>>

(* rename(.tmp/n, n): fails when the entry is gone or the destination is    *)
(* back; moving an entry out refreshes the mtime of .tmp.                   *)
MoveEntry(p) ==
  LET n == cur[p] IN
  /\ pc[p] = "move"
  /\ cur' = [cur EXCEPT ![p] = NoFile]
  /\ \/ /\ tmp /\ staged[n] # NoFile
        /\ Goto(p, "move", "publish")
        /\ published' = [published EXCEPT ![n] = staged[n]]
        /\ staged' = [staged EXCEPT ![n] = NoFile]
        /\ tmpAge' = 0
        /\ todo' = [todo EXCEPT ![p] = @ \ {n}]
        /\ UNCHANGED <<tmp, oldtmp>>
     \/ /\ ~tmp \/ staged[n] = NoFile \/ published[n] # NoFile \/ IoErrors
        /\ Goto(p, "move", "failed")
        /\ todo' = [todo EXCEPT ![p] = {}]
        /\ UNCHANGED disk
  /\ UNCHANGED <<waited, seen, hb, hazards>>

(* remove_dir(.tmp): only an empty directory goes; a failure is only logged. *)
RemoveTmpDir(p) ==
  /\ todo[p] = {} /\ Goto(p, "publish", "done")
  /\ tmp' \in (IF staged = EmptyTmp THEN IF IoErrors THEN {FALSE, tmp} ELSE {FALSE}
                                    ELSE {tmp})
  /\ UNCHANGED <<tmpAge, staged, oldtmp, published, local, hb, hazards>>

-----------------------------------------------------------------------------
(* The process is killed, and its heartbeat thread with it.                 *)
Crash(p) ==
  /\ pc[p] \notin Over \cup {"idle"}
  /\ pc' = [pc EXCEPT ![p] = "crashed"]
  /\ hb' = [hb EXCEPT ![p] = "off"]
  /\ waited' = [waited EXCEPT ![p] = 0]
  /\ seen' = [seen EXCEPT ![p] = 0]
  /\ todo' = [todo EXCEPT ![p] = {}]
  /\ cur' = [cur EXCEPT ![p] = NoFile]
  /\ UNCHANGED <<disk, hazards>>

Acquire(p) ==
  \/ Start(p) \/ Stat(p) \/ Judge(p) \/ CheckDeadline(p) \/ CheckTmp(p)
  \/ RemoveOldTmp(p, "rmOld", "rename") \/ RenameTmp(p) \/ RemoveTmp(p)
  \/ RemoveOldTmp(p, "rmOldAgain", "create") \/ CreateTmp(p)

RunBuild(p) ==
  CreatePkgDir(p) \/ (\E n \in Name : WriteEntry(p, n)) \/ BuildFails(p)

Finish(p) ==
  \/ BeginFinish(p) \/ JoinHeartbeat(p) \/ ReadDir(p)
  \/ (\E n \in Name : ClearDest(p, n)) \/ MoveEntry(p) \/ RemoveTmpDir(p)

Next ==
  \/ \E p \in Proc : Acquire(p) \/ Heartbeat(p) \/ RunBuild(p) \/ Finish(p) \/ Crash(p)
  \/ Tick

Spec == Init /\ [][Next]_vars

(* The behaviours in which none of the timing hazards happens.              *)
PromptSpec == Init /\ [][Next /\ hazards' = {}]_vars

(* The behaviours in which every heartbeat thread runs once per interval.   *)
TimelySpec == Init /\ [][Next /\ (Tick => \A p \in Proc : hb[p] # "awake")]_vars

(* Processes and their heartbeat threads are scheduled and time passes; the *)
(* compiler may hang, and nobody has to start or to crash a build.          *)
LiveSpec ==
  /\ Spec
  /\ WF_vars(Tick)
  /\ \A p \in Proc : /\ WF_vars(Acquire(p) /\ pc[p] # "idle")
                      /\ WF_vars(Heartbeat(p))
                      /\ WF_vars(Finish(p))

-----------------------------------------------------------------------------
(* While no timing hazard has happened, one process at a time is between    *)
(* wait_for_stale and the end of finish: the lock excludes, through a crash *)
(* of the holder, a failing file system call, and leftovers of both.        *)
Exclusive ==
  hazards = {} =>
    \A p, q \in Proc :
      pc[p] \in Takeover \cup Holding /\ pc[q] \in Takeover \cup Holding => p = q

(* While no timing hazard has happened, a build finds .tmp in place with a  *)
(* live lease and nothing in it that another build wrote: what a crashed    *)
(* build left behind is never built on, nor published.                      *)
OwnStaging ==
  hazards = {} =>
    \A p \in Proc : pc[p] \in Holding =>
      tmp /\ tmpAge < Stale /\ \A n \in Name : staged[n] \in {NoFile, p}

(* A finish that reports success, no timing hazard having happened, leaves  *)
(* in build/ every entry of its own build, whatever crashed or failed       *)
(* publishers had left there under those names, and nothing else is its.    *)
(* (Entries that its mode does not produce are not its business: those of   *)
(* an earlier build in another mode stay in build/.)                        *)
WholeBuild ==
  [][\A p \in Proc : pc[p] = "publish" /\ pc'[p] = "done" /\ hazards = {}
       => {n \in Name : published'[n] = p} = Entries[p]]_vars

(* With heartbeats that come every interval, a lease is never the first     *)
(* thing to go wrong under a build: only overlapping takeovers, a stale     *)
(* read or a slow finish can be.  (The file system accepts the touches.)    *)
HeartbeatKeepsLease == [][hazards = {} => "lateBeat" \notin hazards']_vars

(* A process never waits forever in wait_for_stale, even behind a build     *)
(* that hangs with its heartbeat running.                                   *)
WaitEnds == \A p \in Proc : pc[p] \in Waiting ~> pc[p] \notin Waiting

(* When everybody else is gone, a waiter with time enough for the lease to  *)
(* run out gets the lock: an abandoned .tmp does not make it give up.  One  *)
(* suspension can: the age and the deadline are two reads of the clock, and *)
(* a waiter that found the lease alive, and was then kept from its second   *)
(* read until both the lease and the deadline were over, gives up.          *)
CaughtBetweenReads(p) ==
  pc[p] = "deadline" /\ waited[p] >= MaxWait /\ tmpAge >= Stale

AbandonedIsReclaimed ==
  \A p \in Proc :
    /\ pc[p] = "stat" /\ waited[p] + Stale <= MaxWait
    /\ \A q \in Proc \ {p} : pc[q] \in Over
    ~> pc[p] \in Holding \cup {"crashed"} \/ CaughtBetweenReads(p)

(* Refinement: with no timing hazard, the processes, directories and leases *)
(* implement one owner at a time publishing the entries of its mode.        *)
Owner ==
  IF \E p \in Proc : pc[p] \in Holding
    THEN CHOOSE p \in Proc : pc[p] \in Holding
    ELSE NoFile

Publish == INSTANCE StagedPublish
  WITH owner <- Owner, succeeded <- {p \in Proc : pc[p] = "done"}

PublishSpec == Publish!Spec

(* The module documentation of the lock: a process that finds a .tmp with a *)
(* recent mtime waits for it to go stale, so nobody moves away a .tmp whose *)
(* lease is still live.                                                     *)
WaitsForStale ==
  [][\A p \in Proc : pc[p] = "rename" /\ pc'[p] = "rmOldAgain" => tmpAge >= Stale]_vars
=============================================================================
