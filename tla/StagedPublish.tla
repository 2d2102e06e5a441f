---------------------------- MODULE StagedPublish ----------------------------
(***************************************************************************)
(* What the build lock promises its users, with neither directories nor    *)
(* clocks: one build at a time owns the output directory, only the owner   *)
(* changes it and only to clear an entry that its mode produces or to put  *)
(* its own there, and a build that succeeds leaves all of its entries.     *)
(* What its mode does not produce stays as it was, and a build that gives  *)
(* up may leave its own entries half replaced.                             *)
(***************************************************************************)
CONSTANTS Proc, Name, NoFile, Old, Entries

VARIABLES
  owner,      \* the build that owns the output directory, NoFile for none
  published,  \* the author of each entry of the output directory
  succeeded   \* the builds that have succeeded

vars == <<owner, published, succeeded>>

Init ==
  /\ owner = NoFile
  /\ published \in [Name -> {NoFile, Old}]
  /\ succeeded = {}

Take(p) == owner = NoFile /\ owner' = p /\ UNCHANGED <<published, succeeded>>

Put(p, n, f) ==
  /\ owner = p /\ f \in {NoFile, p}
  /\ published' = [published EXCEPT ![n] = f]
  /\ UNCHANGED <<owner, succeeded>>

Succeed(p) ==
  /\ owner = p /\ {n \in Name : published[n] = p} = Entries[p]
  /\ owner' = NoFile /\ succeeded' = succeeded \cup {p}
  /\ UNCHANGED published

GiveUp(p) == owner = p /\ owner' = NoFile /\ UNCHANGED <<published, succeeded>>

Next ==
  \E p \in Proc :
    \/ Take(p) \/ Succeed(p) \/ GiveUp(p)
    \/ \E n \in Entries[p], f \in {NoFile, p} : Put(p, n, f)

Spec == Init /\ [][Next]_vars
=============================================================================
