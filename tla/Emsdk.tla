-------------------------------- MODULE Emsdk --------------------------------
(***************************************************************************)
(* emscripten::provision: the Emscripten SDK that an --emscripten build    *)
(* links with.  EMSDK and EMSCRIPTEN in the environment name a backend and *)
(* a frontend of the user's own; what they leave open comes from a pinned  *)
(* release in the cache directory, whose frontend is patched.  A stamp is  *)
(* written last.  One process at a time; it may be killed at any point.    *)
(***************************************************************************)
EXTENDS Naturals, FiniteSets

CONSTANTS Patch  \* PATCHES

VARIABLES
  sdk,   \* the SDK under the cache directory
  prov   \* the progress of provision

sdkVars == <<sdk, prov>>

SdkTypeOK ==
  /\ sdk \in [clang : BOOLEAN, emcc : BOOLEAN, \* upstream/bin/clang, upstream/emscripten/emcc
              whole : BOOLEAN,                 \* is all of the release there?
              patches : SUBSET Patch, stamp : BOOLEAN]  \* is the stamp the expected one?
  /\ prov \in [at : {"idle", "look", "remove", "download", "install", "patch", "stamp",
                     "config", "ready", "failed"},
               own : SUBSET {"EMSDK", "EMSCRIPTEN"},     \* the variables that are set
               todo : SUBSET Patch,                      \* patches still to be applied
               frontend : {"none", "own", "backend", "pinned"}]

NoSdk == [clang |-> FALSE, emcc |-> FALSE, whole |-> FALSE, patches |-> {}, stamp |-> FALSE]

NotProvisioning == [at |-> "idle", own |-> {}, todo |-> {}, frontend |-> "none"]

(* Nothing, or what a worker-build with fewer patches has left.             *)
SdkInit ==
  /\ sdk \in {NoSdk} \cup [clang : {TRUE}, emcc : {TRUE}, whole : {TRUE},
                           patches : SUBSET Patch \ {Patch}, stamp : {FALSE}]
  /\ prov = NotProvisioning

PatchFrontend == "EMSCRIPTEN" \notin prov.own

ProvAt(p) == prov.at = p
ProvGoto(p) == prov' = [prov EXCEPT !.at = p]
Give(p) == ProvGoto(p) \/ ProvGoto("failed")

-----------------------------------------------------------------------------
(* An EMSDK without a clang fails.                                          *)
CallProvision(own) ==
  /\ ProvAt("idle")
  /\ \E at \in IF "EMSDK" \in own THEN {"config", "failed"} ELSE {"look"} :
       prov' = [at |-> at, own |-> own, todo |-> Patch, frontend |-> "none"]
  /\ UNCHANGED sdk

\* Mutant of LookAtSdk: an installed SDK is taken whatever its stamp.
LookAtSdkUnstamped ==
  /\ ProvAt("look")
  /\ Give(IF sdk.clang /\ sdk.emcc THEN "config" ELSE "remove")
  /\ UNCHANGED sdk

(* An SDK is replaced only where there is a python to install one.          *)
LookAtSdk ==
  /\ ProvAt("look")
  /\ IF sdk.clang /\ sdk.emcc /\ (sdk.stamp \/ ~PatchFrontend)
       THEN ProvGoto("config")
       ELSE Give("remove")
  /\ UNCHANGED sdk

(* remove_dir_all takes one thing after the other and may fail.             *)
RemoveSdk ==
  /\ ProvAt("remove")
  /\ \/ sdk' = NoSdk /\ ProvGoto("download")
     \/ /\ \E c \in {FALSE, sdk.clang}, e \in {FALSE, sdk.emcc}, s \in {FALSE, sdk.stamp} :
             sdk' = [sdk EXCEPT !.clang = c, !.emcc = e, !.stamp = s, !.whole = FALSE]
        /\ Give("remove")

(* One attempt: the archive has the installer only.                         *)
DownloadSdk ==
  /\ ProvAt("download")
  /\ Give("install")
  /\ UNCHANGED sdk

(* emsdk.py install unpacks clang and emcc with everything else.            *)
InstallSdk ==
  /\ ProvAt("install")
  /\ \/ /\ sdk' = [sdk EXCEPT !.clang = TRUE, !.emcc = TRUE, !.whole = TRUE]
        /\ ProvGoto(IF PatchFrontend THEN "patch" ELSE "config")
     \/ /\ \E c \in {TRUE, sdk.clang}, e \in {TRUE, sdk.emcc} :
             sdk' = [sdk EXCEPT !.clang = c, !.emcc = e]
        /\ Give("install")

\* Mutant of ApplyPatch: a patch that does not apply is skipped.
ApplyPatchLoosely ==
  /\ ProvAt("patch")
  /\ \E p \in prov.todo :
       /\ prov' = [prov EXCEPT !.todo = @ \ {p}, !.at = IF prov.todo = {p} THEN "stamp" ELSE "patch"]
       /\ sdk' = [sdk EXCEPT !.patches = @ \cup {p}] \/ UNCHANGED sdk

(* Every hunk of a patch must apply, else the build fails.                  *)
ApplyPatch ==
  /\ ProvAt("patch")
  /\ \E p \in prov.todo :
       \/ /\ sdk' = [sdk EXCEPT !.patches = @ \cup {p}]
          /\ prov' = [prov EXCEPT !.todo = @ \ {p},
                                  !.at = IF prov.todo = {p} THEN "stamp" ELSE "patch"]
       \/ ProvGoto("failed") /\ UNCHANGED sdk

WriteStamp ==
  /\ ProvAt("stamp")
  /\ \/ sdk' = [sdk EXCEPT !.stamp = TRUE] /\ ProvGoto("config")
     \/ ProvGoto("failed") /\ UNCHANGED sdk

(* A frontend of the user's own needs an emcc; else it is that of the SDK   *)
(* the backend comes from.  The config file needs a node.                   *)
WriteConfig ==
  /\ ProvAt("config")
  /\ \/ prov' = [prov EXCEPT !.at = "ready",
                             !.frontend = IF "EMSCRIPTEN" \in prov.own THEN "own"
                                          ELSE IF "EMSDK" \in prov.own THEN "backend"
                                          ELSE "pinned"]
     \/ ProvGoto("failed")
  /\ UNCHANGED sdk

ProvisionStep ==
  LookAtSdk \/ RemoveSdk \/ DownloadSdk \/ InstallSdk \/ ApplyPatch \/ WriteStamp \/ WriteConfig

(* The build goes on, has failed, or is killed.                             *)
LeaveProvision ==
  /\ ~ProvAt("idle")
  /\ prov' = NotProvisioning
  /\ UNCHANGED sdk

SdkNext == ProvisionStep \/ LeaveProvision \/ \E own \in SUBSET {"EMSDK", "EMSCRIPTEN"} : CallProvision(own)

SdkSpec == SdkInit /\ [][SdkNext]_sdkVars

-----------------------------------------------------------------------------
(* A build that links with the pinned frontend gets it whole and with every *)
(* patch, whatever an earlier provision, killed or for another frontend,    *)
(* has left in the cache.                                                   *)
PinnedIsPatched ==
  prov.at = "ready" /\ prov.frontend = "pinned" => sdk.whole /\ sdk.patches = Patch
=============================================================================
