------------------------- MODULE BuildPipelineProofs -------------------------
(***************************************************************************)
(* Proofs about BuildPipeline, and about the tools it keeps in a cache     *)
(* directory.  ToolCache: a truncated executable is handed out only while  *)
(* someone extracts it, or after an extraction was cut short for good.     *)
(* Emsdk: the pinned frontend that a build links with is whole and         *)
(* patched, whatever earlier provisions have left.  The build uses both as *)
(* their specifications say, so what is proved of them holds here; and     *)
(* from the order of the steps follows what the staging directory holds at *)
(* each of them, up to the moment it is published.                         *)
(***************************************************************************)
EXTENDS BuildPipeline, SequenceTheorems, TLAPS

(* u is at work on the file of version v, and will complete it, start it    *)
(* anew or be recorded in cut.                                              *)
Answers(u, v) ==
  get[u].version = v /\ (At(u, "fetch") \/ (At(u, "copy") /\ get[u].owns))

(* A file is partial only if someone still answers for it or is known to    *)
(* have given up.  ReturnedIsWhole follows at a lookup and at the check     *)
(* after a download, where the caller itself does not answer for the file.  *)
Accounted ==
  \A v \in Version : bin[v] = "partial" => v \in cut \/ \E u \in User : Answers(u, v)

CacheInv == CacheTypeOK /\ Accounted

LEMMA NoCallIsCall == NoCall \in Calls
<1>1. (CHOOSE v \in Version : TRUE) \in Version
  BY VersionAssumption
<1> QED
  BY <1>1, AttemptsAssumption DEF NoCall, Calls

LEMMA CacheInitially == CacheInit => CacheInv
BY NoCallIsCall DEF CacheInit, CacheInv, CacheTypeOK, Accounted

-----------------------------------------------------------------------------
(* Each step keeps the types.                                               *)
LEMMA CacheTypeStep == CacheTypeOK /\ [CacheNext]_cacheVars => CacheTypeOK'
<1> SUFFICES ASSUME CacheTypeOK, [CacheNext]_cacheVars PROVE CacheTypeOK'
  OBVIOUS
<1> USE AttemptsAssumption, NoCallIsCall DEF CacheTypeOK
<1>1. ASSUME NEW u \in User, NEW v \in Version, CallGetBinary(u, v) PROVE CacheTypeOK'
  BY <1>1 DEF CallGetBinary, Calls
<1>2. ASSUME NEW u \in User, Lookup(u) PROVE CacheTypeOK'
  BY <1>2 DEF Lookup, Goto, Calls
<1>3. ASSUME NEW u \in User, Clear(u) PROVE CacheTypeOK'
  <2> PICK gone \in SUBSET Version :
        /\ bin' = [x \in Version |-> IF x \in gone THEN "absent" ELSE bin[x]]
        /\ cut' = cut \ gone
        /\ get' = [w \in User |-> IF w = u THEN [get[w] EXCEPT !.at = "fetch"]
                                  ELSE [get[w] EXCEPT !.owns = @ /\ get[w].version \notin gone]]
    BY <1>3 DEF Clear
  <2>1. ASSUME NEW w \in User PROVE [get[w] EXCEPT !.at = "fetch"] \in Calls
    BY DEF Calls
  <2>2. ASSUME NEW w \in User, NEW b \in BOOLEAN PROVE [get[w] EXCEPT !.owns = b] \in Calls
    BY DEF Calls
  <2>3. ASSUME NEW w \in User
        PROVE  [get[w] EXCEPT !.owns = @ /\ get[w].version \notin gone] \in Calls
    <3>1. (get[w].owns /\ get[w].version \notin gone) \in BOOLEAN
      OBVIOUS
    <3> QED
      BY <2>2, <3>1
  <2> QED
    BY <2>1, <2>3
<1>4. ASSUME NEW u \in User, Open(u) PROVE CacheTypeOK'
  BY <1>4 DEF Open, Calls
<1>5. ASSUME NEW u \in User, Copy(u) PROVE CacheTypeOK'
  BY <1>5 DEF Copy, Calls
<1>6. ASSUME NEW u \in User, Downloaded(u) PROVE CacheTypeOK'
  BY <1>6 DEF Downloaded, Goto, Calls
<1>7. ASSUME NEW u \in User, AttemptFails(u) PROVE CacheTypeOK'
  BY <1>7 DEF AttemptFails, Left, Calls
<1>8. ASSUME NEW u \in User, Return(u) PROVE CacheTypeOK'
  BY <1>8 DEF Return
<1>9. ASSUME NEW u \in User, Killed(u) PROVE CacheTypeOK'
  BY <1>9 DEF Killed, Left, Calls
<1>10. CASE UNCHANGED cacheVars
  BY <1>10 DEF cacheVars
<1> QED
  BY <1>1, <1>2, <1>3, <1>4, <1>5, <1>6, <1>7, <1>8, <1>9, <1>10 DEF CacheNext, GetBinaryStep

(* Each step leaves every partial file accounted for.                       *)
LEMMA AccountedStep == CacheInv /\ [CacheNext]_cacheVars => Accounted'
<1> SUFFICES ASSUME CacheInv, [CacheNext]_cacheVars, NEW v \in Version, bin'[v] = "partial"
             PROVE  v \in cut' \/ \E u \in User : Answers(u, v)'
  BY DEF Accounted
<1> USE DEF CacheInv, CacheTypeOK, Answers, At
<1>0. bin[v] = "partial" => v \in cut \/ \E w \in User : Answers(w, v)
  BY DEF Accounted
<1>1. ASSUME NEW u \in User, NEW x \in Version, CallGetBinary(u, x)
      PROVE  v \in cut' \/ \E w \in User : Answers(w, v)'
  BY <1>0, <1>1 DEF CallGetBinary
<1>2. ASSUME NEW u \in User, Lookup(u) PROVE v \in cut' \/ \E w \in User : Answers(w, v)'
  BY <1>0, <1>2 DEF Lookup, Goto
<1>3. ASSUME NEW u \in User, Clear(u) PROVE v \in cut' \/ \E w \in User : Answers(w, v)'
  <2> PICK gone \in SUBSET Version :
        /\ bin' = [x \in Version |-> IF x \in gone THEN "absent" ELSE bin[x]]
        /\ cut' = cut \ gone
        /\ get' = [w \in User |-> IF w = u THEN [get[w] EXCEPT !.at = "fetch"]
                                  ELSE [get[w] EXCEPT !.owns = @ /\ get[w].version \notin gone]]
    BY <1>3 DEF Clear
  <2>1. v \notin gone /\ bin[v] = "partial"
    OBVIOUS
  <2>2. ASSUME NEW w \in User, Answers(w, v) PROVE Answers(w, v)'
    <3>1. w # u
      BY <1>3, <2>2 DEF Clear
    <3>2. get'[w] = [get[w] EXCEPT !.owns = @ /\ get[w].version \notin gone]
      BY <3>1
    <3> QED
      BY <2>1, <2>2, <3>2 DEF Calls
  <2> QED
    BY <1>0, <2>1, <2>2
<1>4. ASSUME NEW u \in User, Open(u) PROVE v \in cut' \/ \E w \in User : Answers(w, v)'
  <2>1. CASE v = get[u].version
    BY <1>4, <2>1 DEF Open, Calls
  <2>2. CASE v # get[u].version
    <3>1. ASSUME NEW w \in User, Answers(w, v) PROVE Answers(w, v)'
      BY <1>4, <2>2, <3>1 DEF Open, Calls
    <3>2. bin[v] = "partial" /\ cut' = cut
      BY <1>4, <2>2 DEF Open
    <3> QED
      BY <1>0, <3>1, <3>2
  <2> QED
    BY <2>1, <2>2
<1>5. ASSUME NEW u \in User, Copy(u) PROVE v \in cut' \/ \E w \in User : Answers(w, v)'
  BY <1>0, <1>5 DEF Copy, Calls
<1>6. ASSUME NEW u \in User, Downloaded(u) PROVE v \in cut' \/ \E w \in User : Answers(w, v)'
  BY <1>0, <1>6 DEF Downloaded, Goto
<1>7. ASSUME NEW u \in User, AttemptFails(u) PROVE v \in cut' \/ \E w \in User : Answers(w, v)'
  BY <1>0, <1>7 DEF AttemptFails, Left, Calls
<1>8. ASSUME NEW u \in User, Return(u) PROVE v \in cut' \/ \E w \in User : Answers(w, v)'
  BY <1>0, <1>8 DEF Return
<1>9. ASSUME NEW u \in User, Killed(u) PROVE v \in cut' \/ \E w \in User : Answers(w, v)'
  BY <1>0, <1>9 DEF Killed, Left
<1>10. CASE UNCHANGED cacheVars
  BY <1>0, <1>10 DEF cacheVars
<1> QED
  BY <1>1, <1>2, <1>3, <1>4, <1>5, <1>6, <1>7, <1>8, <1>9, <1>10 DEF CacheNext, GetBinaryStep

LEMMA CacheInductive == CacheSpec => []CacheInv
<1>1. CacheInv /\ [CacheNext]_cacheVars => CacheInv'
  BY CacheTypeStep, AccountedStep DEF CacheInv
<1> QED
  BY CacheInitially, <1>1, PTL DEF CacheSpec

-----------------------------------------------------------------------------
(* The cache's state keeps its type, for any number of users, versions and  *)
(* attempts: no call makes more attempts than download_with_retries may.    *)
THEOREM CacheTypeCorrect == CacheSpec => []CacheTypeOK
BY CacheInductive, PTL DEF CacheInv

(* get_binary hands out a truncated executable only if its last extraction  *)
(* was cut short for good or another build is at it, for any number of      *)
(* users, versions and attempts.                                            *)
THEOREM ToolsAreWhole == CacheSpec => ReturnedIsWhole
<1> DEFINE
      Whole(u) == LET v == get[u].version IN
                    ~At(u, "found") /\ At(u, "found")' =>
                      bin[v] = "whole" \/ v \in cut \/ \E w \in User \ {u} : Downloading(w, v)
<1>1. ASSUME CacheInv, [CacheNext]_cacheVars, NEW u \in User, ~At(u, "found"), At(u, "found")'
      PROVE  bin[get[u].version] = "whole" \/ get[u].version \in cut
               \/ \E w \in User \ {u} : Downloading(w, get[u].version)
  <2> DEFINE v == get[u].version
  <2>1. v \in Version /\ bin[v] \in {"absent", "partial", "whole"}
    BY <1>1 DEF CacheInv, CacheTypeOK, Calls
  <2>2. Lookup(u) \/ Downloaded(u)
    <3>1. ASSUME NEW w \in User, NEW x \in Version, CallGetBinary(w, x) PROVE FALSE
      BY <1>1, <3>1 DEF CallGetBinary, At, CacheInv, CacheTypeOK
    <3>2. ASSUME NEW w \in User, Lookup(w) \/ Downloaded(w), w # u PROVE FALSE
      BY <1>1, <3>2 DEF Lookup, Downloaded, Goto, At, CacheInv, CacheTypeOK
    <3>3. ASSUME NEW w \in User, Clear(w) PROVE FALSE
      BY <1>1, <3>3 DEF Clear, At, CacheInv, CacheTypeOK, Calls
    <3>4. ASSUME NEW w \in User, Open(w) PROVE FALSE
      BY <1>1, <3>4 DEF Open, At, CacheInv, CacheTypeOK, Calls
    <3>5. ASSUME NEW w \in User, Copy(w) PROVE FALSE
      BY <1>1, <3>5 DEF Copy, At, CacheInv, CacheTypeOK, Calls
    <3>6. ASSUME NEW w \in User, AttemptFails(w) PROVE FALSE
      BY <1>1, <3>6 DEF AttemptFails, At, CacheInv, CacheTypeOK, Calls
    <3>7. ASSUME NEW w \in User, Return(w) \/ Killed(w) PROVE FALSE
      BY <1>1, <3>7 DEF Return, Killed, NoCall, At, CacheInv, CacheTypeOK
    <3>8. CASE UNCHANGED cacheVars
      BY <1>1, <3>8 DEF cacheVars, At
    <3> QED
      BY <1>1, <3>1, <3>2, <3>3, <3>4, <3>5, <3>6, <3>7, <3>8 DEF CacheNext, GetBinaryStep
  <2>3. bin[v] # "absent"
    <3>1. CASE Lookup(u)
      BY <1>1, <3>1 DEF Lookup, Goto, At, CacheInv, CacheTypeOK, Calls
    <3>2. CASE Downloaded(u)
      BY <1>1, <3>2 DEF Downloaded, Goto, At, CacheInv, CacheTypeOK, Calls
    <3> QED
      BY <2>2, <3>1, <3>2
  <2>4. ~Answers(u, v)
    BY <2>2 DEF Lookup, Downloaded, At, Answers
  <2>5. bin[v] = "partial" => v \in cut \/ \E w \in User \ {u} : Answers(w, v)
    BY <1>1, <2>1, <2>4 DEF CacheInv, Accounted
  <2>6. ASSUME NEW w \in User, Answers(w, v) PROVE Downloading(w, v)
    BY <2>6 DEF Answers, Downloading, At
  <2> QED
    BY <2>1, <2>3, <2>5, <2>6
<1>2. CacheInv /\ [CacheNext]_cacheVars => [\A u \in User : Whole(u)]_cacheVars
  BY <1>1
<1>3. CacheSpec => [][\A u \in User : Whole(u)]_cacheVars
  BY CacheInductive, <1>2, PTL DEF CacheSpec
<1> QED
  BY <1>3 DEF ReturnedIsWhole
-----------------------------------------------------------------------------
Complete == sdk.whole /\ sdk.patches = Patch

(* A stamp beside both tools vouches for the SDK.  It may outlive a tool in *)
(* a removal that was cut short, so it says nothing by itself.              *)
StampVouches == sdk.stamp /\ sdk.clang /\ sdk.emcc => Complete

(* What each control point of provision knows of the SDK.                   *)
Known ==
  /\ prov.at \in {"look", "remove", "download", "install"} => prov.todo = Patch
  /\ ProvAt("remove") => ~(sdk.stamp /\ sdk.clang /\ sdk.emcc)
  /\ prov.at \in {"download", "install", "patch", "stamp"} => ~sdk.stamp
  /\ prov.at \in {"patch", "stamp"} => sdk.whole /\ Patch \ prov.todo \subseteq sdk.patches
  /\ ProvAt("stamp") => prov.todo = {}
  /\ ProvAt("config") /\ prov.own = {} => Complete
  /\ ProvAt("ready") /\ prov.frontend = "pinned" => Complete

SdkInv == SdkTypeOK /\ StampVouches /\ Known

LEMMA SdkInitially == SdkInit => SdkInv
<1> SUFFICES ASSUME SdkInit PROVE SdkInv
  OBVIOUS
<1>1. NoSdk \in [clang : BOOLEAN, emcc : BOOLEAN, whole : BOOLEAN, patches : SUBSET Patch, stamp : BOOLEAN]
  BY DEF NoSdk
<1>2. SdkTypeOK /\ ~sdk.stamp
  BY <1>1 DEF SdkInit, SdkTypeOK, NotProvisioning, NoSdk
<1> QED
  BY <1>2 DEF SdkInit, NotProvisioning, SdkInv, StampVouches, Known, ProvAt

LEMMA SdkStep == SdkInv /\ [SdkNext]_sdkVars => SdkInv'
<1> SUFFICES ASSUME SdkInv, [SdkNext]_sdkVars PROVE SdkInv'
  OBVIOUS
<1> USE DEF SdkInv, SdkTypeOK, StampVouches, Known, Complete, ProvAt, ProvGoto, Give
<1>1. ASSUME NEW own \in SUBSET {"EMSDK", "EMSCRIPTEN"}, CallProvision(own) PROVE SdkInv'
  <2>1. sdk' = sdk /\ prov'.own = own /\ prov'.todo = Patch /\ prov'.frontend = "none"
    BY <1>1 DEF CallProvision
  <2>2. prov'.at \in {"look", "failed"} \/ (prov'.at = "config" /\ own # {})
    BY <1>1 DEF CallProvision
  <2>3. SdkTypeOK'
    BY <1>1 DEF CallProvision
  <2> QED
    BY <2>1, <2>2, <2>3
<1>2. CASE LookAtSdk
  BY <1>2 DEF LookAtSdk, PatchFrontend
<1>3. CASE RemoveSdk
  <2>1. CASE sdk' = NoSdk /\ ProvGoto("download")
    BY <1>3, <2>1 DEF RemoveSdk, NoSdk
  <2>2. CASE ~(sdk' = NoSdk /\ ProvGoto("download"))
    <3> PICK c \in {FALSE, sdk.clang}, e \in {FALSE, sdk.emcc}, s \in {FALSE, sdk.stamp} :
          sdk' = [sdk EXCEPT !.clang = c, !.emcc = e, !.stamp = s, !.whole = FALSE]
      BY <1>3, <2>2 DEF RemoveSdk
    <3>1. prov' \in {[prov EXCEPT !.at = "remove"], [prov EXCEPT !.at = "failed"]}
      BY <1>3, <2>2 DEF RemoveSdk
    <3>2. c \in BOOLEAN /\ e \in BOOLEAN /\ s \in BOOLEAN
      OBVIOUS
    <3>3. ~(s /\ c /\ e)
      BY <1>3 DEF RemoveSdk
    <3>4. SdkTypeOK'
      BY <3>1, <3>2
    <3>5. ~(sdk'.stamp /\ sdk'.clang /\ sdk'.emcc)
      BY <3>2, <3>3
    <3> QED
      BY <1>3, <3>1, <3>4, <3>5 DEF RemoveSdk
  <2> QED
    BY <2>1, <2>2
<1>4. CASE DownloadSdk
  BY <1>4 DEF DownloadSdk
<1>5. CASE InstallSdk
  <2>1. CASE /\ sdk' = [sdk EXCEPT !.clang = TRUE, !.emcc = TRUE, !.whole = TRUE]
             /\ ProvGoto(IF PatchFrontend THEN "patch" ELSE "config")
    BY <1>5, <2>1 DEF InstallSdk, PatchFrontend
  <2>2. ASSUME NEW c \in {TRUE, sdk.clang}, NEW e \in {TRUE, sdk.emcc},
               sdk' = [sdk EXCEPT !.clang = c, !.emcc = e], Give("install")
        PROVE  SdkInv'
    <3>1. c \in BOOLEAN /\ e \in BOOLEAN
      OBVIOUS
    <3>2. SdkTypeOK' /\ ~sdk'.stamp
      BY <1>5, <2>2, <3>1 DEF InstallSdk
    <3> QED
      BY <1>5, <2>2, <3>2 DEF InstallSdk
  <2> QED
    BY <1>5, <2>1, <2>2 DEF InstallSdk
<1>6. CASE ApplyPatch
  <2> PICK p \in prov.todo :
        \/ /\ sdk' = [sdk EXCEPT !.patches = @ \cup {p}]
           /\ prov' = [prov EXCEPT !.todo = @ \ {p}, !.at = IF prov.todo = {p} THEN "stamp" ELSE "patch"]
        \/ ProvGoto("failed") /\ UNCHANGED sdk
    BY <1>6 DEF ApplyPatch
  <2>1. CASE ProvGoto("failed") /\ UNCHANGED sdk
    BY <1>6, <2>1 DEF ApplyPatch
  <2>2. CASE /\ sdk' = [sdk EXCEPT !.patches = @ \cup {p}]
             /\ prov' = [prov EXCEPT !.todo = @ \ {p}, !.at = IF prov.todo = {p} THEN "stamp" ELSE "patch"]
    <3>1. SdkTypeOK'
      BY <2>2
    <3>2. sdk'.stamp = sdk.stamp /\ sdk'.whole = sdk.whole /\ sdk'.patches = sdk.patches \cup {p}
      BY <2>2
    <3>3. prov'.todo = prov.todo \ {p} /\ prov'.at \in {"stamp", "patch"}
            /\ (prov'.at = "stamp" => prov'.todo = {})
      BY <2>2
    <3>4. ~sdk.stamp /\ sdk.whole /\ Patch \ prov.todo \subseteq sdk.patches
      BY <1>6 DEF ApplyPatch
    <3>5. Patch \ prov'.todo \subseteq sdk'.patches
      BY <3>2, <3>3, <3>4
    <3> QED
      BY <3>1, <3>2, <3>3, <3>4, <3>5
  <2> QED
    BY <2>1, <2>2
<1>7. CASE WriteStamp
  <2>1. sdk.whole /\ sdk.patches = Patch
    BY <1>7 DEF WriteStamp
  <2>2. CASE sdk' = [sdk EXCEPT !.stamp = TRUE] /\ ProvGoto("config")
    <3>1. SdkTypeOK'
      BY <2>2
    <3>2. sdk'.whole /\ sdk'.patches = Patch /\ prov'.at = "config"
      BY <2>1, <2>2
    <3> QED
      BY <3>1, <3>2
  <2>3. CASE ProvGoto("failed") /\ UNCHANGED sdk
    BY <1>7, <2>3 DEF WriteStamp
  <2> QED
    BY <1>7, <2>2, <2>3 DEF WriteStamp
<1>8. CASE WriteConfig
  <2>1. CASE ProvGoto("failed")
    BY <1>8, <2>1 DEF WriteConfig
  <2>2. CASE ~ProvGoto("failed")
    <3> DEFINE frontend == IF "EMSCRIPTEN" \in prov.own THEN "own"
                       ELSE IF "EMSDK" \in prov.own THEN "backend"
                       ELSE "pinned"
    <3>1. prov' = [prov EXCEPT !.at = "ready", !.frontend = frontend] /\ sdk' = sdk
      BY <1>8, <2>2 DEF WriteConfig
    <3>2. frontend \in {"own", "backend", "pinned"} /\ (frontend = "pinned" => prov.own = {})
      OBVIOUS
    <3> HIDE DEF frontend
    <3>3. SdkTypeOK'
      BY <3>1, <3>2
    <3>4. prov'.at = "ready" /\ prov'.frontend = frontend /\ sdk' = sdk
      BY <3>1
    <3> QED
      BY <1>8, <3>2, <3>3, <3>4 DEF WriteConfig
  <2> QED
    BY <2>1, <2>2
<1>9. CASE LeaveProvision
  BY <1>9 DEF LeaveProvision, NotProvisioning
<1>10. CASE UNCHANGED sdkVars
  BY <1>10 DEF sdkVars
<1> QED
  BY <1>1, <1>2, <1>3, <1>4, <1>5, <1>6, <1>7, <1>8, <1>9, <1>10 DEF SdkNext, ProvisionStep

LEMMA SdkInductive == SdkSpec => []SdkInv
BY SdkInitially, SdkStep, PTL DEF SdkSpec

-----------------------------------------------------------------------------
(* The SDK and the progress of provision keep their types, whatever the     *)
(* patches are.                                                             *)
THEOREM SdkTypeCorrect == SdkSpec => []SdkTypeOK
BY SdkInductive, PTL DEF SdkInv

(* A build that links with the pinned frontend has all of it and all of its *)
(* patches, for any set of patches and any sequence of provisions that are  *)
(* killed or fail wherever.                                                 *)
THEOREM FrontendIsPatched == SdkSpec => []PinnedIsPatched
<1>1. SdkInv => PinnedIsPatched
  BY DEF SdkInv, Known, Complete, PinnedIsPatched, ProvAt
<1> QED
  BY SdkInductive, <1>1, PTL

-----------------------------------------------------------------------------
OptOf(i) == Arranged(Options(i.args), "CUSTOM_SHIM" \in i.env)

-----------------------------------------------------------------------------
Step ==
  {"rustc", "config", "target", "nightly", "libs", "wasm-bindgen", "emsdk", "cargo", "mkdir", "collect",
   "bindings", "opt", "json", "coredump", "producers", "shim", "wrappers", "package", "esbuild", "bundle",
   "fix", "tidy", "alias", "legacy move", "legacy shim", "legacy bundle", "legacy tidy", "legacy alias", "finish"}

(* The step after step s, for the options o and the environment e.          *)
After(o, e, s) ==
  CASE s = "rustc"         -> "config"
    [] s = "config"        -> "target"
    [] s = "target"        -> "nightly"
    [] s = "nightly"       -> "libs"
    [] s = "libs"          -> "wasm-bindgen"
    [] s = "wasm-bindgen"  -> IF o.emscripten THEN "emsdk" ELSE "cargo"
    [] s = "emsdk"         -> "cargo"
    [] s = "cargo"         -> "mkdir"
    [] s = "mkdir"         -> IF o.emscripten THEN "collect" ELSE "bindings"
    [] s = "collect"       -> "json"
    [] s = "bindings"      -> IF o.no_opt THEN "json" ELSE "opt"
    [] s = "opt"           -> "json"
    [] s = "json"          -> IF "COREDUMP" \in e THEN "coredump" ELSE "producers"
    [] s = "coredump"      -> "producers"
    [] s = "producers"     -> IF Shimmed(o) THEN "shim" ELSE "esbuild"
    [] s = "shim"          -> "wrappers"
    [] s = "wrappers"      -> "package"
    [] s = "package"       -> "esbuild"
    [] s = "esbuild"       -> IF Shimmed(o) THEN "bundle" ELSE "legacy move"
    [] s = "bundle"        -> "fix"
    [] s = "fix"           -> "tidy"
    [] s = "tidy"          -> "alias"
    [] s = "legacy move"   -> "legacy shim"
    [] s = "legacy shim"   -> "legacy bundle"
    [] s = "legacy bundle" -> "legacy tidy"
    [] s = "legacy tidy"   -> "legacy alias"
    [] OTHER               -> "finish"

(* The steps q lead from step a to step z.                                  *)
Leads(o, e, q, a, z) ==
  /\ q \in Seq(Step) /\ q # <<>>
  /\ q[1] = a /\ q[Len(q)] = z
  /\ \A k \in 1..(Len(q) - 1) : q[k + 1] = After(o, e, q[k])

LEMMA LeadsOn ==
  ASSUME NEW o, NEW e, NEW p, NEW q, NEW a, NEW y, NEW z,
         Leads(o, e, p, a, y), Leads(o, e, q, After(o, e, y), z)
  PROVE  Leads(o, e, p \o q, a, z)
<1> DEFINE s == p \o q
<1>1. p \in Seq(Step) /\ q \in Seq(Step) /\ Len(p) \in Nat \ {0} /\ Len(q) \in Nat \ {0}
  BY DEF Leads
<1>2. s \in Seq(Step) /\ Len(s) = Len(p) + Len(q)
  BY <1>1
<1>3. \A k \in 1..Len(s) : s[k] = IF k <= Len(p) THEN p[k] ELSE q[k - Len(p)]
  BY <1>1, ConcatProperties
<1>4. s # <<>> /\ s[1] = a /\ s[Len(s)] = z
  BY <1>1, <1>2, <1>3 DEF Leads
<1>5. ASSUME NEW k \in 1..(Len(s) - 1) PROVE s[k + 1] = After(o, e, s[k])
  <2>1. k \in 1..Len(s) /\ k + 1 \in 1..Len(s) /\ k \in Nat
    BY <1>1, <1>2
  <2>2. CASE k < Len(p)
    <3>1. s[k] = p[k] /\ s[k + 1] = p[k + 1] /\ k \in 1..(Len(p) - 1)
      BY <1>1, <1>3, <2>1, <2>2
    <3> QED
      BY <3>1 DEF Leads
  <2>3. CASE k = Len(p)
    <3>1. s[k] = p[Len(p)] /\ s[k + 1] = q[1]
      BY <1>1, <1>3, <2>1, <2>3
    <3> QED
      BY <3>1 DEF Leads
  <2>4. CASE k > Len(p)
    <3> DEFINE j == k - Len(p)
    <3>1. s[k] = q[j] /\ s[k + 1] = q[j + 1] /\ j \in 1..(Len(q) - 1)
      BY <1>1, <1>2, <1>3, <2>1, <2>4
    <3> QED
      BY <3>1 DEF Leads
  <2> QED
    BY <1>1, <2>1, <2>2, <2>3, <2>4
<1> HIDE DEF s
<1> QED
  BY <1>2, <1>4, <1>5 DEF Leads, s

LEMMA LeadsFrom ==
  ASSUME NEW o, NEW e, NEW q, NEW a, NEW z, Leads(o, e, q, a, z)
  PROVE  Head(q) = a /\ (a # z => Leads(o, e, Tail(q), After(o, e, a), z))
<1>1. q \in Seq(Step) /\ Len(q) \in Nat \ {0} /\ Head(q) = a
  BY DEF Leads
<1> SUFFICES ASSUME a # z PROVE Leads(o, e, Tail(q), After(o, e, a), z)
  BY <1>1
<1>2. Len(q) > 1
  BY <1>1 DEF Leads
<1>3. Tail(q) \in Seq(Step) /\ Len(Tail(q)) = Len(q) - 1 /\ Tail(q) # <<>>
  <2>1. Tail(q) \in Seq(Step)
    BY <1>1, <1>2
  <2>2. Len(Tail(q)) = Len(q) - 1
    BY <1>1, <1>2
  <2>3. Tail(q) # <<>>
    <3>1. Len(Tail(q)) # 0
      BY <1>1, <1>2, <2>2
    <3> QED
      BY <2>1, <3>1, EmptySeq
  <2> QED
    BY <2>1, <2>2, <2>3
<1>4. \A k \in 1..Len(Tail(q)) : Tail(q)[k] = q[k + 1]
  BY <1>1, <1>2, HeadTailProperties
<1>5. Tail(q)[1] = After(o, e, a) /\ Tail(q)[Len(Tail(q))] = z
  BY <1>1, <1>2, <1>3, <1>4 DEF Leads
<1>6. ASSUME NEW k \in 1..(Len(Tail(q)) - 1)
      PROVE  Tail(q)[k + 1] = After(o, e, Tail(q)[k])
  <2>1. Tail(q)[k] = q[k + 1] /\ Tail(q)[k + 1] = q[(k + 1) + 1] /\ k + 1 \in 1..(Len(q) - 1)
    BY <1>1, <1>2, <1>3, <1>4
  <2> QED
    BY <2>1 DEF Leads
<1> QED
  BY <1>3, <1>5, <1>6 DEF Leads

(* Steps that are written out lead where After leads from one to the next.  *)
LEMMA LeadsAlone ==
  ASSUME NEW o, NEW e, NEW a, <<a>> \in Seq(Step)
  PROVE  Leads(o, e, <<a>>, a, a)
<1>1. Len(<<a>>) = 1 /\ <<a>>[1] = a /\ <<a>> # <<>>
  OBVIOUS
<1> QED
  BY <1>1 DEF Leads

LEMMA LeadsThree ==
  ASSUME NEW o, NEW e, NEW a, NEW b, NEW c, <<a, b, c>> \in Seq(Step),
         b = After(o, e, a), c = After(o, e, b)
  PROVE  Leads(o, e, <<a, b, c>>, a, c)
<1> DEFINE q == <<a, b, c>>
<1>1. Len(q) = 3 /\ q[1] = a /\ q[3] = c /\ q # <<>>
  OBVIOUS
<1>2. \A k \in {1, 2} : q[k + 1] = After(o, e, q[k])
  OBVIOUS
<1>3. \A k \in 1..(Len(q) - 1) : k \in {1, 2}
  BY <1>1
<1> QED
  BY <1>1, <1>2, <1>3 DEF Leads

LEMMA LeadsSix ==
  ASSUME NEW o, NEW e, NEW a, NEW b, NEW c, NEW d, NEW f, NEW g, <<a, b, c, d, f, g>> \in Seq(Step),
         b = After(o, e, a), c = After(o, e, b), d = After(o, e, c), f = After(o, e, d), g = After(o, e, f)
  PROVE  Leads(o, e, <<a, b, c, d, f, g>>, a, g)
<1> DEFINE q == <<a, b, c, d, f, g>>
<1>1. Len(q) = 6 /\ q[1] = a /\ q[6] = g /\ q # <<>>
  OBVIOUS
<1>2. \A k \in {1, 2, 3, 4, 5} : q[k + 1] = After(o, e, q[k])
  OBVIOUS
<1>3. \A k \in 1..(Len(q) - 1) : k \in {1, 2, 3, 4, 5}
  BY <1>1
<1> QED
  BY <1>1, <1>2, <1>3 DEF Leads

LEMMA LeadsEight ==
  ASSUME NEW o, NEW e, NEW a, NEW b, NEW c, NEW d, NEW f, NEW g, NEW h, NEW j, <<a, b, c, d, f, g, h, j>> \in Seq(Step),
         b = After(o, e, a), c = After(o, e, b), d = After(o, e, c), f = After(o, e, d), g = After(o, e, f), h = After(o, e, g), j = After(o, e, h)
  PROVE  Leads(o, e, <<a, b, c, d, f, g, h, j>>, a, j)
<1> DEFINE q == <<a, b, c, d, f, g, h, j>>
<1>1. Len(q) = 8 /\ q[1] = a /\ q[8] = j /\ q # <<>>
  OBVIOUS
<1>2. \A k \in {1, 2, 3, 4, 5, 6, 7} : q[k + 1] = After(o, e, q[k])
  OBVIOUS
<1>3. \A k \in 1..(Len(q) - 1) : k \in {1, 2, 3, 4, 5, 6, 7}
  BY <1>1
<1> QED
  BY <1>1, <1>2, <1>3 DEF Leads

(* The build's steps, in each of its modes, are in the order of After.      *)
LEMMA MainStepsLead ==
  ASSUME NEW o, NEW e PROVE Leads(o, e, MainSteps(o, e), "rustc", "finish")
<1> DEFINE
      pre  == PreprocessSteps(o)
      proc == ProcessSteps(o)
      dump == IF "COREDUMP" \in e THEN <<"coredump">> ELSE <<>>
      main == IF Shimmed(o)
                THEN <<"shim", "wrappers", "package", "esbuild", "bundle", "fix", "tidy", "alias">>
                ELSE <<"esbuild", "legacy move", "legacy shim", "legacy bundle", "legacy tidy", "legacy alias">>
      last == IF o.emscripten THEN "emsdk" ELSE "wasm-bindgen"
      done == IF Shimmed(o) THEN "alias" ELSE "legacy alias"
<1>0. \A s \in {"emsdk", "json", "opt", "coredump", "producers", "finish"} : Leads(o, e, <<s>>, s, s)
  <2>1. /\ <<"emsdk">> \in Seq(Step) /\ <<"json">> \in Seq(Step) /\ <<"opt">> \in Seq(Step)
        /\ <<"coredump">> \in Seq(Step) /\ <<"producers">> \in Seq(Step) /\ <<"finish">> \in Seq(Step)
    BY DEF Step
  <2> QED
    BY <2>1, LeadsAlone
<1>1. Leads(o, e, pre, "rustc", last) /\ After(o, e, last) = "cargo"
  <2>1. Leads(o, e, <<"rustc", "config", "target", "nightly", "libs", "wasm-bindgen">>, "rustc", "wasm-bindgen")
    <3>1. <<"rustc", "config", "target", "nightly", "libs", "wasm-bindgen">> \in Seq(Step)
      BY DEF Step
    <3>2. /\ After(o, e, "rustc") = "config"
          /\ After(o, e, "config") = "target"
          /\ After(o, e, "target") = "nightly"
          /\ After(o, e, "nightly") = "libs"
          /\ After(o, e, "libs") = "wasm-bindgen"
      BY DEF After
    <3> QED
      BY <3>1, <3>2, LeadsSix
  <2>2. CASE o.emscripten
    <3>1. After(o, e, "wasm-bindgen") = "emsdk" /\ After(o, e, "emsdk") = "cargo"
      BY <2>2 DEF After
    <3> QED
      BY <1>0, <2>1, <2>2, <3>1, LeadsOn DEF PreprocessSteps
  <2>3. CASE ~o.emscripten
    <3>1. After(o, e, "wasm-bindgen") = "cargo"
      BY <2>3 DEF After
    <3>2. pre = <<"rustc", "config", "target", "nightly", "libs", "wasm-bindgen">>
      BY <2>3 DEF PreprocessSteps
    <3> QED
      BY <2>1, <2>3, <3>1, <3>2
  <2> QED
    BY <2>2, <2>3
<1>2. Leads(o, e, proc, "cargo", "json")
  <2>1. CASE o.emscripten
    <3>1. After(o, e, "mkdir") = "collect" /\ After(o, e, "collect") = "json"
      BY <2>1 DEF After
    <3>2. Leads(o, e, <<"cargo", "mkdir", "collect">>, "cargo", "collect")
      <4>1. <<"cargo", "mkdir", "collect">> \in Seq(Step)
        BY DEF Step
      <4>2. /\ After(o, e, "cargo") = "mkdir"
            /\ After(o, e, "mkdir") = "collect"
        BY <3>1 DEF After
      <4> QED
        BY <4>1, <4>2, LeadsThree
    <3> QED
      BY <1>0, <2>1, <3>1, <3>2, LeadsOn DEF ProcessSteps
  <2>2. CASE ~o.emscripten
    <3>1. After(o, e, "mkdir") = "bindings"
      BY <2>2 DEF After
    <3>2. Leads(o, e, <<"cargo", "mkdir", "bindings">>, "cargo", "bindings")
      <4>1. <<"cargo", "mkdir", "bindings">> \in Seq(Step)
        BY DEF Step
      <4>2. /\ After(o, e, "cargo") = "mkdir"
            /\ After(o, e, "mkdir") = "bindings"
        BY <3>1 DEF After
      <4> QED
        BY <4>1, <4>2, LeadsThree
    <3>3. CASE o.no_opt
      <4>1. After(o, e, "bindings") = "json"
        BY <3>3 DEF After
      <4>2. proc = <<"cargo", "mkdir", "bindings">> \o <<"json">>
        BY <2>2, <3>3 DEF ProcessSteps
      <4> QED
        BY <1>0, <3>2, <4>1, <4>2, LeadsOn
    <3>4. CASE ~o.no_opt
      <4>1. After(o, e, "bindings") = "opt" /\ After(o, e, "opt") = "json"
        BY <3>4 DEF After
      <4>2. Leads(o, e, <<"cargo", "mkdir", "bindings">> \o <<"opt">>, "cargo", "opt")
        BY <1>0, <3>2, <4>1, LeadsOn
      <4>3. proc = (<<"cargo", "mkdir", "bindings">> \o <<"opt">>) \o <<"json">>
        BY <2>2, <3>4 DEF ProcessSteps
      <4> QED
        BY <1>0, <4>1, <4>2, <4>3, LeadsOn
    <3> QED
      BY <3>3, <3>4
  <2> QED
    BY <2>1, <2>2
<1>3. Leads(o, e, main, After(o, e, "producers"), done) /\ After(o, e, done) = "finish"
  <2>1. CASE Shimmed(o)
    <3>1. After(o, e, "producers") = "shim" /\ After(o, e, "esbuild") = "bundle"
      BY <2>1 DEF After
    <3>2. Leads(o, e, <<"shim", "wrappers", "package", "esbuild", "bundle", "fix", "tidy", "alias">>, "shim", "alias")
      <4>1. <<"shim", "wrappers", "package", "esbuild", "bundle", "fix", "tidy", "alias">> \in Seq(Step)
        BY DEF Step
      <4>2. /\ After(o, e, "shim") = "wrappers"
            /\ After(o, e, "wrappers") = "package"
            /\ After(o, e, "package") = "esbuild"
            /\ After(o, e, "esbuild") = "bundle"
            /\ After(o, e, "bundle") = "fix"
            /\ After(o, e, "fix") = "tidy"
            /\ After(o, e, "tidy") = "alias"
        BY <3>1 DEF After
      <4> QED
        BY <4>1, <4>2, LeadsEight
    <3>3. After(o, e, "alias") = "finish"
      BY DEF After
    <3> QED
      BY <2>1, <3>1, <3>2, <3>3
  <2>2. CASE ~Shimmed(o)
    <3>1. After(o, e, "producers") = "esbuild" /\ After(o, e, "esbuild") = "legacy move"
      BY <2>2 DEF After
    <3>2. Leads(o, e, <<"esbuild", "legacy move", "legacy shim", "legacy bundle", "legacy tidy", "legacy alias">>, "esbuild", "legacy alias")
      <4>1. <<"esbuild", "legacy move", "legacy shim", "legacy bundle", "legacy tidy", "legacy alias">> \in Seq(Step)
        BY DEF Step
      <4>2. /\ After(o, e, "esbuild") = "legacy move"
            /\ After(o, e, "legacy move") = "legacy shim"
            /\ After(o, e, "legacy shim") = "legacy bundle"
            /\ After(o, e, "legacy bundle") = "legacy tidy"
            /\ After(o, e, "legacy tidy") = "legacy alias"
        BY <3>1 DEF After
      <4> QED
        BY <4>1, <4>2, LeadsSix
    <3>3. After(o, e, "legacy alias") = "finish"
      BY DEF After
    <3> QED
      BY <2>2, <3>1, <3>2, <3>3
  <2> QED
    BY <2>1, <2>2
<1> HIDE DEF pre, proc, main, last, done
<1>4. Leads(o, e, pre \o proc, "rustc", "json")
  BY <1>1, <1>2, LeadsOn
<1>5. \E s : Leads(o, e, pre \o proc \o dump, "rustc", s) /\ After(o, e, s) = "producers"
  <2>1. CASE "COREDUMP" \in e
    <3>1. After(o, e, "json") = "coredump" /\ After(o, e, "coredump") = "producers"
      BY <2>1 DEF After
    <3> QED
      BY <1>0, <1>4, <2>1, <3>1, LeadsOn
  <2>2. CASE "COREDUMP" \notin e
    <3>1. After(o, e, "json") = "producers"
      BY <2>2 DEF After
    <3>2. pre \o proc \in Seq(Step)
      BY <1>4 DEF Leads
    <3>3. pre \o proc \o dump = pre \o proc
      BY <2>2, <3>2
    <3> QED
      BY <1>4, <3>1, <3>3
  <2> QED
    BY <2>1, <2>2
<1> HIDE DEF dump
<1>6. Leads(o, e, pre \o proc \o dump \o <<"producers">>, "rustc", "producers")
  BY <1>0, <1>5, LeadsOn
<1>7. Leads(o, e, pre \o proc \o dump \o <<"producers">> \o main, "rustc", done)
  BY <1>3, <1>6, LeadsOn
<1>8. Leads(o, e, pre \o proc \o dump \o <<"producers">> \o main \o <<"finish">>, "rustc", "finish")
  BY <1>0, <1>3, <1>7, LeadsOn
<1> QED
  BY <1>8 DEF MainSteps, pre, proc, dump, main

-----------------------------------------------------------------------------
(* The build is at a step of its mode, with the steps after it to come.     *)
InMode(o, s) ==
  /\ ~(o.emscripten /\ o.panic_unwind)
  /\ s \in {"emsdk", "collect"} => o.emscripten
  /\ s \in {"bindings", "opt"} => ~o.emscripten
  /\ s \in {"shim", "wrappers", "package", "bundle", "fix", "tidy", "alias"} => Shimmed(o)
  /\ s \in {"legacy move", "legacy shim", "legacy bundle", "legacy tidy", "legacy alias"} => ~Shimmed(o)

Ordered ==
  Building => /\ Leads(OptOf(input), input.env, todo, Head(todo), "finish")
              /\ InMode(OptOf(input), Head(todo))

LEMMA ModeKept == ASSUME NEW o, NEW e, NEW s, InMode(o, s) PROVE InMode(o, After(o, e, s))
<1> DEFINE t == After(o, e, s)
<1>1. t \in {"emsdk", "collect"} => o.emscripten
  BY DEF After
<1>2. t \in {"bindings", "opt"} => ~o.emscripten
  BY DEF After, InMode
<1>3. t \in {"shim", "wrappers", "package", "bundle", "fix", "tidy", "alias"} => Shimmed(o)
  BY DEF After, InMode
<1>4. t \in {"legacy move", "legacy shim", "legacy bundle", "legacy tidy", "legacy alias"} => ~Shimmed(o)
  BY DEF After, InMode
<1> HIDE DEF t
<1> QED
  BY <1>1, <1>2, <1>3, <1>4 DEF InMode, t

(* What a step may do to the steps that are left: a build begins, ends or   *)
(* goes on to the next step.                                                *)
Begins == \E i \in Inputs : Start(i)
Ends == Over /\ UNCHANGED input
GoesOn == Building /\ Head(todo) # "finish" /\ Advance /\ UNCHANGED input
Stays == UNCHANGED <<todo, dir, input, rust>>

LEMMA StepKinds == [Next]_vars => Begins \/ Ends \/ GoesOn \/ Stays
<1> SUFFICES ASSUME [Next]_vars PROVE Begins \/ Ends \/ GoesOn \/ Stays
  OBVIOUS
<1> USE DEF Begins, Ends, GoesOn, Stays, Current
<1>1. CASE RunStep
  BY <1>1 DEF RunStep
<1>2. CASE FailStep
  BY <1>2 DEF FailStep
<1>3. CASE PrepareRust
  BY <1>3 DEF PrepareRust
<1>4. CASE InstallWasmBindgen
  BY <1>4 DEF InstallWasmBindgen
<1>5. CASE ProvisionEmscripten
  BY <1>5 DEF ProvisionEmscripten
<1>6. CASE Finish
  BY <1>6 DEF Finish
<1>7. CASE Crash
  BY <1>7 DEF Crash
<1>8. CASE OtherBuild
  BY <1>8 DEF OtherBuild
<1>9. CASE UNCHANGED vars
  BY <1>9 DEF vars
<1> QED
  BY <1>1, <1>2, <1>3, <1>4, <1>5, <1>6, <1>7, <1>8, <1>9 DEF Next

LEMMA OrderedStep == Ordered /\ [Next]_vars => Ordered'
<1> SUFFICES ASSUME Ordered, [Next]_vars, todo' # <<>>
             PROVE  /\ Leads(OptOf(input'), input'.env, todo', Head(todo'), "finish")
                    /\ InMode(OptOf(input'), Head(todo'))
  BY DEF Ordered, Building, OptOf
<1>1. ASSUME NEW i \in Inputs, Start(i)
      PROVE  /\ Leads(OptOf(input'), input'.env, todo', Head(todo'), "finish")
             /\ InMode(OptOf(input'), Head(todo'))
  <2>1. input' = i /\ todo' = MainSteps(OptOf(i), i.env) /\ ~(OptOf(i).emscripten /\ OptOf(i).panic_unwind)
    BY <1>1 DEF Start, OptOf
  <2>2. Leads(OptOf(i), i.env, todo', "rustc", "finish") /\ Head(todo') = "rustc"
    <3>1. Leads(OptOf(i), i.env, MainSteps(OptOf(i), i.env), "rustc", "finish")
      BY MainStepsLead
    <3>2. Leads(OptOf(i), i.env, todo', "rustc", "finish")
      BY <2>1, <3>1
    <3> QED
      BY <3>2, LeadsFrom
  <2> QED
    BY <2>1, <2>2 DEF InMode
<1>2. CASE GoesOn
  <2> DEFINE o == OptOf(input)
             s == Head(todo)
  <2>1. Leads(o, input.env, todo, s, "finish") /\ InMode(o, s)
    BY <1>2 DEF Ordered, GoesOn
  <2>2. Leads(o, input.env, Tail(todo), After(o, input.env, s), "finish")
    BY <1>2, <2>1, LeadsFrom DEF GoesOn
  <2>3. Head(Tail(todo)) = After(o, input.env, s)
    BY <2>2, LeadsFrom
  <2>4. input' = input /\ todo' = Tail(todo)
    BY <1>2 DEF GoesOn, Advance
  <2> QED
    BY <2>1, <2>2, <2>3, <2>4, ModeKept
<1>3. CASE Stays
  BY <1>3 DEF Ordered, Building, Stays
<1> QED
  BY <1>1, <1>2, <1>3, StepKinds DEF Ends, Over, Begins

LEMMA OptIs == opt = OptOf(input)
BY DEF opt, OptOf, environ

Elsewhere == {"wasm-bindgen", "emsdk", "target", "nightly"}

(* A build that goes on is at the next step with what the step before it    *)
(* has made of the directory, and has met the step's conditions.            *)
LEMMA Progress ==
  ASSUME Ordered, GoesOn, [Next]_vars
  PROVE  /\ Building' /\ Head(todo') = After(OptOf(input), input.env, Head(todo))
         /\ dir' = Effect(Head(todo), dir)
         /\ Head(todo) \in Elsewhere \/ Passes(Head(todo))
         /\ input' = input /\ (Head(todo) \in {"target", "nightly"} \/ rust' = rust)
<1>1. Leads(OptOf(input), input.env, todo, Head(todo), "finish") /\ todo' = Tail(todo) /\ input' = input
  BY DEF Ordered, GoesOn, Advance
<1>2. Leads(OptOf(input), input.env, Tail(todo), After(OptOf(input), input.env, Head(todo)), "finish")
  BY <1>1, LeadsFrom DEF GoesOn
<1>3. Building' /\ Head(todo') = After(OptOf(input), input.env, Head(todo))
  <2>1. Head(Tail(todo)) = After(OptOf(input), input.env, Head(todo)) /\ Tail(todo) # <<>>
    BY <1>2, LeadsFrom DEF Leads
  <2> QED
    BY <1>1, <2>1 DEF Building
<1>4. todo' # todo
  <2>1. todo \in Seq(Step) /\ todo # <<>>
    BY <1>1 DEF Leads
  <2> QED
    BY <1>1, <2>1
<1>5. todo' # <<>>
  BY <1>3 DEF Building
<1>6. Head(todo) \in Elsewhere => Effect(Head(todo), dir) = dir
  BY DEF Elsewhere, Effect
<1>7. RunStep \/ PrepareRust \/ InstallWasmBindgen \/ ProvisionEmscripten
  <2>1. ~Begins /\ ~FailStep /\ ~Finish /\ ~Crash /\ ~OtherBuild /\ ~UNCHANGED vars
    BY <1>4, <1>5 DEF Begins, Start, GoesOn, FailStep, Finish, Crash, OtherBuild, Over, vars
  <2> QED
    BY <2>1 DEF Next, Begins
<1>8. dir' = Effect(Head(todo), dir) /\ (Head(todo) \in Elsewhere \/ Passes(Head(todo)))
  <2>1. CASE RunStep
    BY <2>1 DEF RunStep
  <2>2. CASE PrepareRust
    BY <1>5, <1>6, <2>2 DEF PrepareRust, Current, Over, Elsewhere
  <2>3. CASE InstallWasmBindgen
    BY <1>5, <1>6, <2>3 DEF InstallWasmBindgen, Current, Over, Elsewhere
  <2>4. CASE ProvisionEmscripten
    BY <1>5, <1>6, <2>4 DEF ProvisionEmscripten, Current, Over, Elsewhere
  <2> QED
    BY <1>7, <2>1, <2>2, <2>3, <2>4
<1>9. Head(todo) \in {"target", "nightly"} \/ rust' = rust
  BY <1>7 DEF RunStep, PrepareRust, InstallWasmBindgen, ProvisionEmscripten, Current
<1> QED
  BY <1>1, <1>3, <1>8, <1>9

-----------------------------------------------------------------------------
(* The tool cache is asked for a version that it knows: the lockfile has    *)
(* been checked.                                                            *)
LibsChecked == Current({"wasm-bindgen"}) => BindgenVersion(crate.lock) \in Version

LEMMA LibsCheckedStep == Ordered /\ LibsChecked /\ [Next]_vars => LibsChecked'
<1> SUFFICES ASSUME Ordered, LibsChecked, [Next]_vars, Building', Head(todo') = "wasm-bindgen"
             PROVE  BindgenVersion(input'.crate.lock) \in Version
  BY DEF LibsChecked, Current, crate
<1>1. ASSUME NEW i \in Inputs, Start(i) PROVE FALSE
  <2>1. todo' = MainSteps(OptOf(i), i.env)
    BY <1>1 DEF Start, OptOf, Building
  <2>2. Leads(OptOf(i), i.env, MainSteps(OptOf(i), i.env), "rustc", "finish")
    BY MainStepsLead
  <2>3. Head(todo') = "rustc"
    BY <2>1, <2>2, LeadsFrom
  <2> QED
    BY <2>3
<1>2. CASE GoesOn
  <2>1. Head(todo) = "libs"
    BY <1>2, Progress DEF After
  <2>2. Passes("libs") /\ input' = input
    BY <1>2, <2>1, Progress DEF Elsewhere
  <2> QED
    BY <2>2 DEF Passes, CheckLibVersions, RequireLib, BindgenVersion, crate
<1>3. CASE Stays
  BY <1>3 DEF Stays, LibsChecked, Current, Building, crate
<1> QED
  BY <1>1, <1>2, <1>3, StepKinds DEF Ends, Over, Begins, Building

LEMMA OrderInductive == Spec => [](Ordered /\ LibsChecked)
<1>1. Init => Ordered /\ LibsChecked
  BY DEF Init, Ordered, LibsChecked, Current, Building
<1>2. (Ordered /\ LibsChecked) /\ [Next]_vars => (Ordered /\ LibsChecked)'
  BY OrderedStep, LibsCheckedStep
<1> QED
  BY <1>1, <1>2, PTL DEF Spec

(* To the tool cache a build and the others are users like any others, and  *)
(* to the SDK this build is the process that provisions it.                 *)
LEMMA CacheStep == LibsChecked /\ [Next]_vars => [CacheNext]_cacheVars
<1> SUFFICES ASSUME LibsChecked, Next PROVE [CacheNext]_cacheVars
  BY DEF vars, cacheVars
<1>1. CASE InstallWasmBindgen
  <2>1. BindgenVersion(crate.lock) \in Version
    BY <1>1 DEF InstallWasmBindgen, LibsChecked
  <2>2. CallGetBinary(Self, BindgenVersion(crate.lock)) \/ GetBinaryStep(Self) \/ Return(Self)
    BY <1>1 DEF InstallWasmBindgen
  <2> QED
    BY <2>1, <2>2, SelfAssumption DEF CacheNext
<1>2. CASE Crash
  BY <1>2, SelfAssumption DEF Crash, CacheNext
<1>3. CASE OtherBuild
  BY <1>3 DEF OtherBuild, CacheNext
<1>4. CASE UNCHANGED cacheVars
  BY <1>4
<1> QED
  BY <1>1, <1>2, <1>3, <1>4
  DEF Next, Start, RunStep, FailStep, PrepareRust, ProvisionEmscripten, Finish

LEMMA SdkStepOfBuild == [Next]_vars => [SdkNext]_sdkVars
<1> SUFFICES ASSUME Next PROVE [SdkNext]_sdkVars
  BY DEF vars, sdkVars
<1>1. CASE ProvisionEmscripten
  <2>1. environ \cap {"EMSDK", "EMSCRIPTEN"} \in SUBSET {"EMSDK", "EMSCRIPTEN"}
    OBVIOUS
  <2>2. CallProvision(environ \cap {"EMSDK", "EMSCRIPTEN"}) \/ ProvisionStep \/ LeaveProvision
    BY <1>1 DEF ProvisionEmscripten
  <2> QED
    BY <2>1, <2>2 DEF SdkNext
<1>2. CASE Crash
  BY <1>2 DEF Crash, SdkNext
<1>3. CASE UNCHANGED sdkVars
  BY <1>3
<1> QED
  BY <1>1, <1>2, <1>3
  DEF Next, Start, RunStep, FailStep, PrepareRust, InstallWasmBindgen, Finish, OtherBuild

(* A build and the other users of the tool cache use it as its              *)
(* specification says, whatever the lockfile asks for: a version that the   *)
(* cache does not know never gets as far.                                   *)
THEOREM UsesToolCache == Spec => CacheSpec
<1>1. Init => CacheInit
  BY DEF Init
<1> QED
  BY OrderInductive, CacheStep, <1>1, PTL DEF Spec, CacheSpec

(* A build provisions the SDK as the specification of provision says.       *)
THEOREM ProvisionsSdk == Spec => SdkSpec
<1>1. Init => SdkInit
  BY DEF Init
<1> QED
  BY SdkStepOfBuild, <1>1, PTL DEF Spec, SdkSpec

(* So wasm-bindgen is run whole, or while another build extracts it or      *)
(* after an extraction was cut short, for any builds.                       *)
THEOREM BuildGetsWholeTools == Spec => ReturnedIsWhole
BY UsesToolCache, ToolsAreWhole

(* And an emscripten build links with a frontend that has every patch.      *)
THEOREM BuildGetsPatchedSdk == Spec => []PinnedIsPatched
BY ProvisionsSdk, FrontendIsPatched

-----------------------------------------------------------------------------
(* The machine's Rust.  Whatever results is a Rust again, with what has been*)
(* asked for where the commands have succeeded.                             *)
Parts == {"toolchain", "rust-src", Unknown}
RustState == [minor : Nat, rustup : BOOLEAN, targets : SUBSET {Unknown, Emscripten}, nightly : SUBSET Parts]

(* Results keep the targets, and a success has the parts.                   *)
Gives(results, targets, parts) ==
  \A r \in results : /\ r.rust \in RustState /\ r.rust.targets = targets
                     /\ r.ok \in BOOLEAN /\ (r.ok => parts \subseteq r.rust.nightly)

LEMMA PartInstalled ==
  ASSUME NEW results, NEW targets, NEW parts \in SUBSET Parts, NEW part \in Parts, Gives(results, targets, parts)
  PROVE  Gives(InstallNightlyPart(results, part), targets, parts \cup {part})
<1> SUFFICES ASSUME NEW x \in InstallNightlyPart(results, part)
             PROVE  /\ x.rust \in RustState /\ x.rust.targets = targets
                    /\ x.ok \in BOOLEAN /\ (x.ok => parts \cup {part} \subseteq x.rust.nightly)
  BY DEF Gives
<1>1. PICK r \in results :
        x \in IF ~r.ok \/ part \in r.rust.nightly
               THEN {r} ELSE {Failed(r.rust), Done([r.rust EXCEPT !.nightly = @ \cup {part}])}
  BY DEF InstallNightlyPart
<1>2. /\ r.rust \in RustState /\ r.rust.targets = targets
      /\ r.ok \in BOOLEAN /\ (r.ok => parts \subseteq r.rust.nightly)
  BY DEF Gives
<1>3. CASE x = r /\ (~r.ok \/ part \in r.rust.nightly)
  BY <1>2, <1>3
<1>4. CASE x = Failed(r.rust)
  BY <1>2, <1>4 DEF Failed
<1>5. CASE r.ok /\ x = Done([r.rust EXCEPT !.nightly = @ \cup {part}])
  <2> DEFINE n == [r.rust EXCEPT !.nightly = @ \cup {part}]
  <2>1. n \in RustState /\ n.targets = targets /\ n.nightly = r.rust.nightly \cup {part}
    BY <1>2 DEF RustState
  <2> QED
    BY <1>2, <1>5, <2>1 DEF Done
<1> QED
  BY <1>1, <1>2, <1>3, <1>4, <1>5

LEMMA NightlyInstalled ==
  ASSUME NEW r0 \in RustState
  PROVE  Gives(CheckNightlyPrerequisites(r0), r0.targets, Parts)
<1>1. Gives(NightlySysroot(r0), r0.targets, {})
  <2>1. Done(r0).rust = r0 /\ Failed(r0).rust = r0 /\ Done(r0).ok = TRUE /\ Failed(r0).ok = FALSE
    BY DEF Done, Failed
  <2> DEFINE n == [r0 EXCEPT !.nightly = @ \cup {"toolchain"}]
  <2>2. n \in RustState /\ n.targets = r0.targets
    BY DEF RustState, Parts
  <2>3. Done(n).rust = n /\ Done(n).ok = TRUE
    BY DEF Done
  <2>4. NightlySysroot(r0) \subseteq {Done(r0), Failed(r0), Done(n)}
    BY DEF NightlySysroot
  <2> HIDE DEF n
  <2> QED
    BY <2>1, <2>2, <2>3, <2>4 DEF Gives
<1>2. Gives(InstallNightlyPart(NightlySysroot(r0), "toolchain"), r0.targets, {} \cup {"toolchain"})
  BY <1>1, PartInstalled DEF Parts
<1>3. Gives(InstallNightlyPart(InstallNightlyPart(NightlySysroot(r0), "toolchain"), "rust-src"),
            r0.targets, ({} \cup {"toolchain"}) \cup {"rust-src"})
  BY <1>2, PartInstalled DEF Parts
<1>4. Gives(CheckNightlyPrerequisites(r0), r0.targets, (({} \cup {"toolchain"}) \cup {"rust-src"}) \cup {Unknown})
  BY <1>3, PartInstalled DEF Parts, CheckNightlyPrerequisites
<1> QED
  BY <1>4 DEF Gives, Parts

LEMMA TargetInstalled ==
  ASSUME NEW r0 \in RustState, NEW target \in {Unknown, Emscripten},
         NEW r \in CheckForWasm32Target(r0, target)
  PROVE  r.rust \in RustState /\ (r.ok => target \in r.rust.targets)
<1> DEFINE n == [r0 EXCEPT !.targets = @ \cup {target}]
<1>1. n \in RustState /\ n.targets = r0.targets \cup {target}
  BY DEF RustState
<1>2. (r = Done(r0) /\ target \in r0.targets) \/ r = Failed(r0) \/ r = Done(n)
  BY DEF CheckForWasm32Target
<1> HIDE DEF n
<1> QED
  BY <1>1, <1>2 DEF Done, Failed

CargoTarget(o) == IF o.emscripten THEN Emscripten ELSE Unknown

RustIsPrepared ==
  /\ rust \in RustState
  /\ Current({"nightly", "libs", "wasm-bindgen", "emsdk", "cargo"}) => CargoTarget(opt) \in rust.targets
  /\ Current({"libs", "wasm-bindgen", "emsdk", "cargo"}) /\ opt.panic_unwind => rust.nightly = Parts

LEMMA RustStep == Ordered /\ RustIsPrepared /\ [Next]_vars => RustIsPrepared'
<1> SUFFICES ASSUME Ordered, RustIsPrepared, [Next]_vars PROVE RustIsPrepared'
  OBVIOUS
<1> DEFINE
      target == CargoTarget(OptOf(input))
      Prepares(r) ==
        /\ rust' = r.rust /\ r.rust \in RustState
        /\ todo' # <<>> => r.ok
        /\ (Head(todo) = "target" /\ r.ok) => target \in r.rust.targets
        /\ Head(todo) = "nightly" => r.rust.targets = rust.targets
        /\ (Head(todo) = "nightly" /\ r.ok /\ opt.panic_unwind) => r.rust.nightly = Parts
<1>1. rust \in RustState /\ target \in {Unknown, Emscripten}
  BY DEF RustIsPrepared, CargoTarget
<1>2. ASSUME PrepareRust PROVE \E r : Prepares(r)
  <2> PICK r \in IF Head(todo) = "target"
                   THEN CheckForWasm32Target(rust, IF opt.emscripten THEN Emscripten ELSE Unknown)
                  ELSE IF opt.panic_unwind THEN CheckNightlyPrerequisites(rust)
                  ELSE {Done(rust)} :
         rust' = r.rust /\ (todo' # <<>> => r.ok)
    BY <1>2 DEF PrepareRust, Over
  <2>1. CASE Head(todo) = "target"
    BY <1>1, <2>1, OptIs, TargetInstalled DEF CargoTarget
  <2>2. CASE Head(todo) # "target" /\ opt.panic_unwind
    <3>1. Gives(CheckNightlyPrerequisites(rust), rust.targets, Parts) /\ r \in CheckNightlyPrerequisites(rust)
      BY <1>1, <2>2, NightlyInstalled
    <3>2. r.rust \in RustState /\ r.rust.targets = rust.targets /\ (r.ok => Parts \subseteq r.rust.nightly)
      BY <3>1 DEF Gives
    <3>3. r.ok => r.rust.nightly = Parts
      BY <3>2 DEF RustState
    <3> QED
      BY <2>2, <3>2, <3>3
  <2>3. CASE Head(todo) # "target" /\ ~opt.panic_unwind
    BY <1>1, <2>3 DEF Done
  <2> QED
    BY <2>1, <2>2, <2>3
<1>3. rust' \in RustState
  <2>1. ASSUME NEW i \in Inputs, Start(i) PROVE rust' \in RustState
    BY <2>1, MachinesAssumption DEF Start, RustState, Parts
  <2>2. CASE PrepareRust
    BY <1>2, <2>2
  <2>3. CASE rust' = rust
    BY <1>1, <2>3
  <2> QED
    BY <2>1, <2>2, <2>3
    DEF Next, vars, RunStep, FailStep, InstallWasmBindgen, ProvisionEmscripten, Finish, Crash, OtherBuild
<1>4. ASSUME Building'
      PROVE  /\ Head(todo') \in {"nightly", "libs", "wasm-bindgen", "emsdk", "cargo"}
                  => CargoTarget(OptOf(input')) \in rust'.targets
             /\ Head(todo') \in {"libs", "wasm-bindgen", "emsdk", "cargo"} /\ OptOf(input').panic_unwind
                  => rust'.nightly = Parts
  <2>1. ASSUME NEW i \in Inputs, Start(i) PROVE Head(todo') = "rustc"
    <3>1. todo' = MainSteps(OptOf(i), i.env)
      BY <1>4, <2>1 DEF Start, OptOf, Building
    <3>2. Leads(OptOf(i), i.env, MainSteps(OptOf(i), i.env), "rustc", "finish")
      BY MainStepsLead
    <3> QED
      BY <3>1, <3>2, LeadsFrom
  <2>2. CASE GoesOn
    <3>1. /\ Head(todo') = After(OptOf(input), input.env, Head(todo)) /\ input' = input
          /\ Head(todo) \in {"target", "nightly"} \/ rust' = rust
      BY <2>2, Progress
    <3>2. CASE Head(todo) \in {"target", "nightly"}
      <4>1. PrepareRust
        <5>1. todo' # todo /\ todo' # <<>> /\ Building
          <6>1. todo \in Seq(Step) /\ todo # <<>> /\ todo' = Tail(todo)
            BY <2>2 DEF Ordered, Leads, GoesOn, Advance
          <6> QED
            BY <1>4, <6>1 DEF Building
        <5> QED
          BY <3>2, <5>1 DEF Next, Start, RunStep, FailStep, InstallWasmBindgen, ProvisionEmscripten, Finish, Crash,
                            OtherBuild, Current, Over, vars
      <4> PICK r : Prepares(r)
        BY <1>2, <4>1
      <4>2. r.ok
        BY <1>4 DEF Building
      <4>3. CASE Head(todo) = "target"
        BY <3>1, <4>2, <4>3 DEF After
      <4>4. CASE Head(todo) = "nightly"
        <5>1. target \in rust.targets
          BY <2>2, <4>4, OptIs DEF RustIsPrepared, Current, GoesOn
        <5> QED
          BY <3>1, <4>2, <4>4, <5>1, OptIs DEF After
      <4> QED
        BY <3>2, <4>3, <4>4
    <3>3. CASE Head(todo) \notin {"target", "nightly"}
      <4>1. Head(todo') \in {"nightly", "libs", "wasm-bindgen", "emsdk", "cargo"}
               => Head(todo) \in {"libs", "wasm-bindgen", "emsdk"}
        BY <3>1, <3>3 DEF After
      <4> QED
        BY <2>2, <3>1, <3>3, <4>1, OptIs DEF RustIsPrepared, Current, GoesOn
    <3> QED
      BY <3>2, <3>3
  <2>3. CASE Stays
    <3>1. todo' = todo /\ input' = input /\ Building
      BY <1>4, <2>3 DEF Stays, Building
    <3> QED
      BY <2>3, <3>1, OptIs DEF RustIsPrepared, Current, Stays
  <2> QED
    BY <1>4, <2>1, <2>2, <2>3, StepKinds DEF Ends, Over, Begins, Building
<1> QED
  BY <1>3, <1>4 DEF RustIsPrepared, Current, opt, OptOf, environ

-----------------------------------------------------------------------------
(* The staging directory at step s of a build with options o, environment e *)
(* and crate c.  Which files there are:                                     *)
GlueNames(o, c) ==
  {".gitignore", "index_bg.wasm", "index.js"} \cup (IF Shimmed(o) THEN {} ELSE {"index_bg.js"})
    \cup (IF c.snippets THEN {"snippets"} ELSE {})

Names(o, c, s) ==
  IF s \in {"bindings", "collect"} THEN {".gitignore"}
  ELSE IF s \in {"opt", "json"} THEN GlueNames(o, c)
  ELSE IF s \in {"coredump", "producers", "shim", "legacy move"} \/ (s = "esbuild" /\ ~Shimmed(o))
    THEN GlueNames(o, c) \cup {"package.json"}
  ELSE IF s \in {"wrappers", "package", "esbuild", "bundle", "fix", "tidy"}
    THEN GlueNames(o, c) \cup {"package.json", "shim.js"}
  ELSE IF s = "alias" THEN {".gitignore", "package.json", "index.js", "index_bg.wasm"}
  ELSE IF s = "legacy shim"
    THEN {".gitignore", "package.json", "index.js", "worker/index_bg.js", "worker/index.wasm"}
           \cup (IF c.snippets THEN {"worker/snippets"} ELSE {})
  ELSE IF s = "legacy bundle"
    THEN {".gitignore", "package.json", "index.js", "worker/index_bg.js", "worker/index.wasm", "worker/shim.js"}
           \cup (IF c.snippets THEN {"worker/snippets"} ELSE {})
  ELSE IF s = "legacy tidy"
    THEN {".gitignore", "package.json", "index.js", "worker/index_bg.js", "worker/index.wasm", "worker/shim.js", "worker/shim.mjs"}
           \cup (IF c.snippets THEN {"worker/snippets"} ELSE {})
  ELSE IF s = "legacy alias" THEN {".gitignore", "package.json", "worker/index.wasm", "worker/shim.mjs"}
  ELSE IF s = "finish" /\ Shimmed(o) THEN {".gitignore", "package.json", "index.js", "index_bg.wasm", "worker/shim.mjs"}
  ELSE IF s = "finish" THEN {".gitignore", "package.json", "index.js", "worker/index.wasm", "worker/shim.mjs"}
  ELSE {}

(* What each of them is: a wasm file carries the marks of its build, the    *)
(* source import is in index.js until it is fixed, and a shim is of the     *)
(* build's kind.                                                            *)
Finished == {"shim", "wrappers", "package", "esbuild", "bundle", "fix", "tidy", "alias", "legacy move",
             "legacy shim", "legacy bundle", "legacy tidy", "legacy alias", "finish"}

IsFile(f) == DOMAIN f = {"imports", "marks", "wires"}

IsWasm(o, s, f) ==
  /\ f.imports = {}
  /\ o.module_target /\ ~o.emscripten => "reset-state" \in f.marks
  /\ o.panic_unwind => "unwind" \in f.marks
  /\ s \in Finished => "sdk" \in f.marks

Fits(o, s, p, f) ==
  /\ IsFile(f) /\ f.imports \subseteq Path
  /\ p \in Wasm => IsWasm(o, s, f)
  /\ "source import" \in f.marks => p = "index.js" /\ s \notin {"tidy", "alias", "finish"}
  /\ "resetting shim" \in f.marks => o.module_target /\ ~o.emscripten
  /\ "unwind shim" \in f.marks => o.panic_unwind

(* And what the shim wires, from where it is written to the entry point.    *)
WiresAll(o, e, x, wires) ==
  /\ \A w \in Exported(x.workflows) :
       w \in DOMAIN wires /\ wires[w] \in {"workflow subclass", "proxied workflow subclass"}
  /\ Shimmed(o) => Methods(x.workflows) \cap DOMAIN wires = {}
  /\ "CUSTOM_SHIM" \notin e =>
       /\ Exported(x.classes) \cup Methods(x.functions) \subseteq DOMAIN wires
       /\ \A f \in x.functions \cap Events :
            wires[<<"method", f>>] # "as it is" \/ (~Shimmed(o) /\ f \in {"email", "connect"})

IsWired(o, e, x, s, d) ==
  /\ s = "wrappers" => d["shim.js"].wires = Joined(GenerateHandlers(x, "RUN_TO_COMPLETION" \in e), NoWires)
  /\ s \in {"package", "esbuild", "bundle"} /\ Shimmed(o) => WiresAll(o, e, x, d["shim.js"].wires)
  /\ s \in {"fix", "tidy", "alias", "finish"} /\ Shimmed(o) =>
       d["index.js"].imports = {"index_bg.wasm"} /\ WiresAll(o, e, x, d["index.js"].wires)
  /\ s = "finish" /\ Shimmed(o) => d["worker/shim.mjs"] = File({"index.js"}, {})
  /\ s = "legacy bundle" => WiresAll(o, e, x, d["worker/shim.js"].wires)
  /\ s \in {"legacy tidy", "legacy alias", "finish"} /\ ~Shimmed(o) =>
       d["worker/shim.mjs"].imports = {"worker/index.wasm"} /\ WiresAll(o, e, x, d["worker/shim.mjs"].wires)
  /\ s = "finish" /\ ~Shimmed(o) => d["index.js"] = File({"worker/shim.mjs"}, {})

Staged(o, e, c, s, d) ==
  /\ DOMAIN d = Names(o, c, s)
  /\ \A p \in DOMAIN d : Fits(o, s, p, d[p])
  /\ IsWired(o, e, DiscoverWasmExports(c.decls), s, d)

DirIsStaged ==
  IF Building THEN Staged(OptOf(input), input.env, input.crate, Head(todo), dir) ELSE dir = NoFiles

-----------------------------------------------------------------------------
(* What an update of one field of a file leaves of it.                      *)
LEMMA FileIs ==
  \A i, m :
    /\ IsFile(File(i, m))
    /\ File(i, m).imports = i /\ File(i, m).marks = m /\ File(i, m).wires = NoWires
BY DEF IsFile, File

LEMMA FileMarked ==
  ASSUME NEW f, IsFile(f), NEW m
  PROVE  LET g == [f EXCEPT !.marks = m] IN
         IsFile(g) /\ g.imports = f.imports /\ g.marks = m /\ g.wires = f.wires
BY DEF IsFile

LEMMA FileWired ==
  ASSUME NEW f, IsFile(f), NEW w
  PROVE  LET g == [f EXCEPT !.wires = w] IN
         IsFile(g) /\ g.imports = f.imports /\ g.marks = f.marks /\ g.wires = w
BY DEF IsFile

LEMMA FileImporting ==
  ASSUME NEW f, IsFile(f), NEW i
  PROVE  LET g == [f EXCEPT !.imports = i] IN
         IsFile(g) /\ g.imports = i /\ g.marks = f.marks /\ g.wires = f.wires
BY DEF IsFile

LEMMA Deleted ==
  \A d, ps :
    /\ DOMAIN Delete(d, ps) = DOMAIN d \ ps
    /\ \A q \in DOMAIN d \ ps : Delete(d, ps)[q] = d[q]
BY DEF Delete, Restrict

Late == {"tidy", "alias", "finish"}

LEMMA FitsStill ==
  ASSUME NEW o, NEW s, NEW t, NEW p, NEW f, Fits(o, s, p, f),
         t \in Finished => s \in Finished, t \in Late => s \in Late
  PROVE  Fits(o, t, p, f)
BY DEF Fits, IsWasm, Late

LEMMA PlainFileFits ==
  ASSUME NEW o, NEW s, NEW p, NEW i, NEW m, p \notin Wasm, i \subseteq Path,
         m \cap {"source import", "resetting shim", "unwind shim"} = {}
  PROVE  Fits(o, s, p, File(i, m))
BY DEF Fits, File, IsFile

(* The steps before anything is staged, the last of which makes the package *)
(* directory.                                                               *)
Early == {"rustc", "config", "target", "nightly", "libs", "wasm-bindgen", "emsdk", "cargo", "mkdir"}

LEMMA NothingStaged ==
  ASSUME NEW o, NEW e, NEW c, NEW s \in Early, NEW d, DOMAIN d = {}
  PROVE  Staged(o, e, c, s, d)
<1>1. Names(o, c, s) = {}
  BY DEF Names, Early
<1>2. IsWired(o, e, DiscoverWasmExports(c.decls), s, d)
  BY DEF IsWired, Early
<1> QED
  BY <1>1, <1>2 DEF Staged

(* Step s takes what is staged for it to what is staged for the next.       *)
StagesAs(s) ==
  Staged(opt, environ, crate, s, dir) => Staged(opt, environ, crate, After(opt, environ, s), Effect(s, dir))

LEMMA StageEarly == ASSUME NEW s \in Early \ {"mkdir"} PROVE StagesAs(s)
<1> SUFFICES ASSUME Staged(opt, environ, crate, s, dir)
             PROVE  Staged(opt, environ, crate, After(opt, environ, s), Effect(s, dir))
  BY DEF StagesAs
<1>1. DOMAIN dir = {}
  BY DEF Staged, Names, Early
<1>2. Effect(s, dir) = dir
  BY DEF Effect, Early
<1>3. After(opt, environ, s) \in Early
  BY DEF After, Early
<1> QED
  BY <1>1, <1>2, <1>3, NothingStaged

LEMMA StageMkdir == StagesAs("mkdir")
<1> DEFINE next == After(opt, environ, "mkdir")
           made == Effect("mkdir", dir)
<1> SUFFICES ASSUME Staged(opt, environ, crate, "mkdir", dir) PROVE Staged(opt, environ, crate, next, made)
  BY DEF StagesAs
<1>1. next \in {"bindings", "collect"}
  BY DEF After
<1>2. made = Write(Delete(dir, {"package.json"}), ".gitignore", File({}, {}))
  BY DEF Effect
<1>3. DOMAIN Delete(dir, {"package.json"}) = {}
  BY Deleted DEF Staged, Names
<1>4. DOMAIN made = {".gitignore"} /\ made[".gitignore"] = File({}, {})
  BY <1>2, <1>3 DEF Write
<1>5. Fits(opt, next, ".gitignore", File({}, {}))
  <2>1. ".gitignore" \notin Wasm
    BY DEF Wasm
  <2> HIDE DEF next
  <2> QED
    BY <2>1, PlainFileFits
<1>6. IsWired(opt, environ, DiscoverWasmExports(crate.decls), next, made)
  BY <1>1 DEF IsWired
<1>7. Names(opt, crate, next) = {".gitignore"}
  BY <1>1 DEF Names
<1> HIDE DEF next, made
<1> QED
  BY <1>4, <1>5, <1>6, <1>7 DEF Staged

LEMMA BindgenArgsAre ==
  ASSUME ~opt.emscripten
  PROVE  LET args == BindgenArgs(opt, ConfiguredProfile(crate, opt.profile)) IN
         /\ "--target module" \in args <=> Shimmed(opt)
         /\ opt.module_target => "reset-state" \in args
<1> DEFINE given == Options(input.args)
           custom == "CUSTOM_SHIM" \in environ
<1>1. opt = Arranged(given, custom)
  BY DEF opt
<1>2. given.target = "module" /\ given.extra_args = {} /\ given.emscripten \in BOOLEAN
  BY DEF Options
<1>3. opt.module_target \in BOOLEAN /\ opt.target = (IF opt.module_target THEN "module" ELSE "bundler")
        /\ opt.extra_args = (IF opt.module_target THEN {"reset-state", "abort-handler"} ELSE {})
  BY <1>1, <1>2 DEF Arranged, Options
<1>4. Shimmed(opt) <=> opt.module_target
  BY DEF Shimmed
<1>5. "--target module" \notin opt.extra_args
  BY <1>3
<1>6. TargetArg[opt.target] = "--target module" <=> opt.module_target
  <2>1. TargetArg["module"] = "--target module" /\ TargetArg["bundler"] = "--target bundler"
    BY DEF TargetArg
  <2> QED
    BY <1>3, <2>1
<1>7. ASSUME NEW cfg
      PROVE  /\ "--target module" \in BindgenArgs(opt, cfg) <=> TargetArg[opt.target] = "--target module"
             /\ opt.extra_args \subseteq BindgenArgs(opt, cfg)
  BY <1>5 DEF BindgenArgs
<1> QED
  BY <1>3, <1>4, <1>6, <1>7

LEMMA StageBindings == InMode(opt, "bindings") => StagesAs("bindings")
<1> DEFINE args == BindgenArgs(opt, ConfiguredProfile(crate, opt.profile))
           marks == (args \cap {"reset-state"}) \cup (IF opt.panic_unwind THEN {"unwind"} ELSE {})
           wasm == File({}, marks)
           glue == {"index_bg.wasm"} \cup SnippetsOf("snippets")
           both == Snippets(Write(dir, "index_bg.wasm", wasm), "snippets")
           t    == After(opt, environ, "bindings")
           next == Effect("bindings", dir)
<1> SUFFICES ASSUME InMode(opt, "bindings"), Staged(opt, environ, crate, "bindings", dir)
             PROVE  Staged(opt, environ, crate, t, next)
  BY DEF StagesAs
<1>1. DOMAIN dir = {".gitignore"} /\ Fits(opt, "bindings", ".gitignore", dir[".gitignore"])
        /\ ~opt.emscripten
  BY DEF Staged, Names, InMode
<1>2. t \in {"json", "opt"}
  BY DEF After
<1>3. ("--target module" \in args <=> Shimmed(opt)) /\ (opt.module_target => "reset-state" \in args)
  BY <1>1, BindgenArgsAre
<1>4. next = IF "--target module" \in args
               THEN Write(both, "index.js", File(glue, {"source import"}))
               ELSE Write(Write(both, "index_bg.js", File(SnippetsOf("snippets"), {})),
                          "index.js", File({"index_bg.wasm", "index_bg.js"}, {}))
  BY DEF Effect, RunWasmBindgen
<1>5. marks \subseteq {"reset-state", "unwind"} /\ (opt.panic_unwind => "unwind" \in marks)
        /\ (opt.module_target => "reset-state" \in marks)
  BY <1>3
<1> HIDE DEF args, marks, next, t
<1>6. \A p : Fits(opt, t, p, wasm)
  <2>1. IsFile(wasm) /\ wasm.imports = {} /\ wasm.marks = marks
    BY FileIs
  <2> HIDE DEF wasm
  <2> QED
    BY <1>2, <1>5, <2>1 DEF Fits, IsWasm, Finished
<1> HIDE DEF wasm
<1>7. /\ DOMAIN both = {".gitignore", "index_bg.wasm"} \cup SnippetsOf("snippets")
      /\ both["index_bg.wasm"] = wasm /\ both[".gitignore"] = dir[".gitignore"]
      /\ \A p \in SnippetsOf("snippets") : p = "snippets" /\ both[p] = File({}, {})
  <2> DEFINE one == Write(dir, "index_bg.wasm", wasm)
  <2>1. DOMAIN one = {".gitignore", "index_bg.wasm"} /\ one["index_bg.wasm"] = wasm
          /\ one[".gitignore"] = dir[".gitignore"]
    BY <1>1 DEF Write
  <2> HIDE DEF one
  <2>2. SnippetsOf("snippets") \subseteq {"snippets"}
    BY DEF SnippetsOf
  <2> QED
    BY <2>1, <2>2 DEF one, Snippets, SnippetsOf, Write
<1>8. \A p \in DOMAIN both : Fits(opt, t, p, both[p])
  <2>1. Fits(opt, t, "snippets", File({}, {}))
    BY PlainFileFits DEF Wasm
  <2>2. Fits(opt, t, ".gitignore", dir[".gitignore"])
    BY <1>1, <1>2 DEF Fits, Wasm
  <2> QED
    BY <1>6, <1>7, <2>1, <2>2
<1> HIDE DEF both
<1>9. glue \subseteq Path /\ SnippetsOf("snippets") \subseteq Path
  BY DEF SnippetsOf, Path
<1>10. IsWired(opt, environ, DiscoverWasmExports(crate.decls), t, next)
  BY <1>2 DEF IsWired
<1>11. CASE Shimmed(opt)
  <2> DEFINE js == File(glue, {"source import"})
  <2>1. next = Write(both, "index.js", js)
    BY <1>3, <1>4, <1>11
  <2>2. Fits(opt, t, "index.js", js)
    BY <1>2, <1>9 DEF Fits, Wasm, File, IsFile, Late
  <2> HIDE DEF js, glue
  <2>3. DOMAIN next = DOMAIN both \cup {"index.js"} /\ next["index.js"] = js
          /\ \A q \in DOMAIN both \ {"index.js"} : next[q] = both[q]
    BY <2>1 DEF Write
  <2>4. DOMAIN next = Names(opt, crate, t)
    BY <1>2, <1>7, <1>11, <2>3 DEF Names, GlueNames, SnippetsOf
  <2>5. \A p \in DOMAIN next : Fits(opt, t, p, next[p])
    BY <1>8, <2>2, <2>3
  <2> QED
    BY <1>10, <2>4, <2>5 DEF Staged
<1>12. CASE ~Shimmed(opt)
  <2> DEFINE bg == File(SnippetsOf("snippets"), {})
             js == File({"index_bg.wasm", "index_bg.js"}, {})
             more == Write(both, "index_bg.js", bg)
  <2>1. next = Write(more, "index.js", js)
    BY <1>3, <1>4, <1>12
  <2>2. Fits(opt, t, "index.js", js) /\ Fits(opt, t, "index_bg.js", bg)
    <3>1. {"index_bg.wasm", "index_bg.js"} \subseteq Path
      BY DEF Path
    <3> QED
      BY <1>9, <3>1, PlainFileFits DEF Wasm
  <2> HIDE DEF js, bg
  <2>3. DOMAIN more = DOMAIN both \cup {"index_bg.js"} /\ more["index_bg.js"] = bg
          /\ \A q \in DOMAIN both \ {"index_bg.js"} : more[q] = both[q]
    BY DEF Write
  <2> HIDE DEF more
  <2>4. DOMAIN next = DOMAIN more \cup {"index.js"} /\ next["index.js"] = js
          /\ \A q \in DOMAIN more \ {"index.js"} : next[q] = more[q]
    BY <2>1 DEF Write
  <2>5. DOMAIN next = Names(opt, crate, t)
    BY <1>2, <1>7, <1>12, <2>3, <2>4 DEF Names, GlueNames, SnippetsOf
  <2>6. \A p \in DOMAIN next : Fits(opt, t, p, next[p])
    BY <1>8, <2>2, <2>3, <2>4
  <2> QED
    BY <1>10, <2>5, <2>6 DEF Staged
<1> QED
  BY <1>11, <1>12

LEMMA StageCollect == InMode(opt, "collect") => StagesAs("collect")
<1> DEFINE wasm == File({}, {})
           js   == File({"index_bg.wasm"} \cup SnippetsOf("snippets"), {"source import"})
           both == Snippets(Write(dir, "index_bg.wasm", wasm), "snippets")
           next == Effect("collect", dir)
<1> SUFFICES ASSUME InMode(opt, "collect"), Staged(opt, environ, crate, "collect", dir)
             PROVE  Staged(opt, environ, crate, "json", next)
  BY DEF StagesAs, After
<1>1. DOMAIN dir = {".gitignore"} /\ Fits(opt, "collect", ".gitignore", dir[".gitignore"])
        /\ opt.emscripten /\ ~opt.panic_unwind /\ Shimmed(opt)
  BY DEF Staged, Names, InMode, Shimmed
<1>2. next = Write(both, "index.js", js)
  BY DEF Effect, CollectEmscriptenOutput
<1> HIDE DEF next
<1>3. Fits(opt, "json", "index_bg.wasm", wasm)
  BY <1>1 DEF Fits, IsWasm, IsFile, File, Finished
<1>4. Fits(opt, "json", "index.js", js)
  BY DEF Fits, IsFile, File, Wasm, Path, SnippetsOf
<1>5. Fits(opt, "json", "snippets", File({}, {}))
  BY PlainFileFits DEF Wasm
<1> HIDE DEF wasm, js
<1>6. /\ DOMAIN both = {".gitignore", "index_bg.wasm"} \cup SnippetsOf("snippets")
      /\ both["index_bg.wasm"] = wasm /\ both[".gitignore"] = dir[".gitignore"]
      /\ \A p \in SnippetsOf("snippets") : p = "snippets" /\ both[p] = File({}, {})
  BY <1>1 DEF Snippets, SnippetsOf, Write
<1> HIDE DEF both
<1>7. DOMAIN next = DOMAIN both \cup {"index.js"} /\ next["index.js"] = js
        /\ \A q \in DOMAIN both \ {"index.js"} : next[q] = both[q]
  BY <1>2 DEF Write
<1>8. DOMAIN next = Names(opt, crate, "json")
  BY <1>1, <1>6, <1>7 DEF Names, GlueNames, SnippetsOf
<1>11. Fits(opt, "json", ".gitignore", dir[".gitignore"])
  BY <1>1 DEF Fits, Wasm
<1>9. \A p \in DOMAIN next : Fits(opt, "json", p, next[p])
  BY <1>3, <1>4, <1>5, <1>6, <1>7, <1>11
<1>10. IsWired(opt, environ, DiscoverWasmExports(crate.decls), "json", next)
  BY DEF IsWired
<1> QED
  BY <1>8, <1>9, <1>10 DEF Staged

LEMMA EachWasmFits ==
  ASSUME NEW o, NEW s, NEW t, NEW d, NEW mark \in {"optimized", "sdk"},
         \A p \in DOMAIN d : Fits(o, s, p, d[p]),
         t \in Finished => s \in Finished \/ mark = "sdk", t \in Late => s \in Late
  PROVE  /\ DOMAIN EachWasm(d, mark) = DOMAIN d
         /\ \A p \in DOMAIN d : Fits(o, t, p, EachWasm(d, mark)[p])
<1>1. DOMAIN EachWasm(d, mark) = DOMAIN d
  BY DEF EachWasm
<1>2. ASSUME NEW p \in DOMAIN d PROVE Fits(o, t, p, EachWasm(d, mark)[p])
  <2> DEFINE f == d[p]
             g == [f EXCEPT !.marks = f.marks \cup {mark}]
  <2>1. EachWasm(d, mark)[p] = IF p \in Wasm THEN g ELSE f
    BY DEF EachWasm
  <2>2. Fits(o, s, p, f)
    OBVIOUS
  <2>3. CASE p \in Wasm
    <3>1. IsFile(g) /\ g.imports = f.imports /\ g.marks = f.marks \cup {mark}
      BY <2>2, FileMarked DEF Fits
    <3> HIDE DEF f, g
    <3>2. IsWasm(o, s, f)
      BY <2>2, <2>3 DEF Fits
    <3>3. IsWasm(o, t, g)
      BY <3>1, <3>2 DEF IsWasm
    <3>4. \A m \in {"source import", "resetting shim", "unwind shim"} : m \in g.marks => m \in f.marks
      BY <3>1
    <3>5. Fits(o, t, p, g)
      BY <2>2, <3>1, <3>3, <3>4 DEF Fits, Late
    <3> QED
      BY <2>1, <2>3, <3>5
  <2>4. CASE p \notin Wasm
    <3> HIDE DEF f, g
    <3> QED
      BY <2>1, <2>2, <2>4 DEF Fits, Late
  <2> QED
    BY <2>3, <2>4
<1> QED
  BY <1>1, <1>2

LEMMA StageOpt == StagesAs("opt")
<1> SUFFICES ASSUME Staged(opt, environ, crate, "opt", dir)
             PROVE  Staged(opt, environ, crate, "json", Effect("opt", dir))
  BY DEF StagesAs, After
<1>1. Effect("opt", dir) = dir \/ Effect("opt", dir) = EachWasm(dir, "optimized")
  BY DEF Effect, RunWasmOpt
<1>2. \A p \in DOMAIN dir : Fits(opt, "opt", p, dir[p])
  BY DEF Staged
<1>3. \A p \in DOMAIN dir : Fits(opt, "json", p, dir[p])
  BY <1>2, FitsStill DEF Finished, Late
<1>4. /\ DOMAIN EachWasm(dir, "optimized") = DOMAIN dir
      /\ \A p \in DOMAIN dir : Fits(opt, "json", p, EachWasm(dir, "optimized")[p])
  BY <1>2, EachWasmFits DEF Finished, Late
<1>5. Names(opt, crate, "json") = DOMAIN dir
  BY DEF Staged, Names
<1>6. \A d : IsWired(opt, environ, DiscoverWasmExports(crate.decls), "json", d)
  BY DEF IsWired
<1> QED
  BY <1>1, <1>3, <1>4, <1>5, <1>6 DEF Staged

(* A step that writes a plain file beside the others.                       *)
LEMMA WriteFits ==
  ASSUME NEW o, NEW s, NEW t, NEW d, NEW p, NEW i, NEW m,
         \A q \in DOMAIN d : Fits(o, s, q, d[q]),
         t \in Finished => s \in Finished, t \in Late => s \in Late,
         p \notin Wasm, i \subseteq Path, m \cap {"source import", "resetting shim", "unwind shim"} = {}
  PROVE  /\ DOMAIN Write(d, p, File(i, m)) = DOMAIN d \cup {p}
         /\ \A q \in DOMAIN d \cup {p} : Fits(o, t, q, Write(d, p, File(i, m))[q])
<1>1. Fits(o, t, p, File(i, m))
  BY PlainFileFits
<1>2. \A q \in DOMAIN d : Fits(o, t, q, d[q])
  BY FitsStill
<1>3. \A q \in DOMAIN d \cup {p} : Write(d, p, File(i, m))[q] = IF q = p THEN File(i, m) ELSE d[q]
  BY DEF Write
<1> QED
  BY <1>1, <1>2, <1>3 DEF Write

LEMMA StageJson == StagesAs("json")
<1> DEFINE t == After(opt, environ, "json")
<1> SUFFICES ASSUME Staged(opt, environ, crate, "json", dir)
             PROVE  Staged(opt, environ, crate, t, Effect("json", dir))
  BY DEF StagesAs
<1>1. t \in {"coredump", "producers"}
  BY DEF After
<1> HIDE DEF t
<1>2. Effect("json", dir) = Write(dir, "package.json", File({"index_bg.wasm", "index.js", "index_bg.js"}, {}))
  BY DEF Effect
<1>3. /\ DOMAIN Effect("json", dir) = DOMAIN dir \cup {"package.json"}
      /\ \A p \in DOMAIN dir \cup {"package.json"} : Fits(opt, t, p, Effect("json", dir)[p])
  <2>1. \A p \in DOMAIN dir : Fits(opt, "json", p, dir[p])
    BY DEF Staged
  <2>2. "package.json" \notin Wasm /\ {"index_bg.wasm", "index.js", "index_bg.js"} \subseteq Path
    BY DEF Wasm, Path
  <2>3. t \notin Finished /\ t \notin Late
    BY <1>1 DEF Finished, Late
  <2>4. {} \cap {"source import", "resetting shim", "unwind shim"} = {}
    OBVIOUS
  <2> DEFINE next == Write(dir, "package.json", File({"index_bg.wasm", "index.js", "index_bg.js"}, {}))
  <2>5. /\ DOMAIN next = DOMAIN dir \cup {"package.json"}
        /\ \A p \in DOMAIN dir \cup {"package.json"} : Fits(opt, t, p, next[p])
    BY <2>1, <2>2, <2>3, <2>4, WriteFits
  <2> HIDE DEF next
  <2> QED
    BY <1>2, <2>5 DEF next
<1>4. Names(opt, crate, t) = DOMAIN dir \cup {"package.json"}
  BY <1>1 DEF Staged, Names
<1>5. IsWired(opt, environ, DiscoverWasmExports(crate.decls), t, Effect("json", dir))
  BY <1>1 DEF IsWired
<1> QED
  BY <1>3, <1>4, <1>5 DEF Staged

(* The coredump rewriter writes nothing here, nor does the first esbuild    *)
(* step, which finds the program.                                           *)
LEMMA StageIdle == ASSUME NEW s \in {"coredump", "esbuild"} PROVE StagesAs(s)
<1> DEFINE t == After(opt, environ, s)
<1> SUFFICES ASSUME Staged(opt, environ, crate, s, dir)
             PROVE  Staged(opt, environ, crate, t, Effect(s, dir))
  BY DEF StagesAs
<1>1. Effect(s, dir) = dir
  BY DEF Effect
<1>2. \/ s = "coredump" /\ t = "producers"
      \/ s = "esbuild" /\ t = "bundle" /\ Shimmed(opt)
      \/ s = "esbuild" /\ t = "legacy move" /\ ~Shimmed(opt)
  BY DEF After
<1> HIDE DEF t
<1>3. Names(opt, crate, t) = Names(opt, crate, s)
  BY <1>2 DEF Names
<1>4. \A p \in DOMAIN dir : Fits(opt, t, p, dir[p])
  <2>1. \A p \in DOMAIN dir : Fits(opt, s, p, dir[p])
    BY DEF Staged
  <2>2. (t \in Finished => s \in Finished) /\ (t \in Late => s \in Late)
    BY <1>2 DEF Finished, Late
  <2> QED
    BY <2>1, <2>2, FitsStill
<1>5. IsWired(opt, environ, DiscoverWasmExports(crate.decls), t, dir)
  BY <1>2 DEF Staged, IsWired
<1> QED
  BY <1>1, <1>3, <1>4, <1>5 DEF Staged

LEMMA StageProducers == StagesAs("producers")
<1> DEFINE t == After(opt, environ, "producers")
<1> SUFFICES ASSUME Staged(opt, environ, crate, "producers", dir)
             PROVE  Staged(opt, environ, crate, t, Effect("producers", dir))
  BY DEF StagesAs
<1>1. Effect("producers", dir) = EachWasm(dir, "sdk")
  BY DEF Effect
<1>2. t = "shim" \/ (t = "esbuild" /\ ~Shimmed(opt))
  BY DEF After
<1> HIDE DEF t
<1>3. /\ DOMAIN EachWasm(dir, "sdk") = DOMAIN dir
      /\ \A p \in DOMAIN dir : Fits(opt, t, p, EachWasm(dir, "sdk")[p])
  <2>1. \A p \in DOMAIN dir : Fits(opt, "producers", p, dir[p])
    BY DEF Staged
  <2>2. t \notin Late
    BY <1>2 DEF Late
  <2> QED
    BY <2>1, <2>2, EachWasmFits
<1>4. Names(opt, crate, t) = DOMAIN dir
  BY <1>2 DEF Staged, Names
<1>5. IsWired(opt, environ, DiscoverWasmExports(crate.decls), t, EachWasm(dir, "sdk"))
  BY <1>2 DEF IsWired
<1> QED
  BY <1>1, <1>3, <1>4, <1>5 DEF Staged

(* The shim is written and wired; the names it exports are then joined.     *)
LEMMA WiredIs ==
  ASSUME NEW d, NEW p \in DOMAIN d, NEW w, IsFile(d[p])
  PROVE  LET f == Wired(d, p, w)[p] IN
         /\ DOMAIN Wired(d, p, w) = DOMAIN d
         /\ IsFile(f) /\ f.imports = d[p].imports /\ f.marks = d[p].marks /\ f.wires = Joined(w, d[p].wires)
         /\ \A q \in DOMAIN d \ {p} : Wired(d, p, w)[q] = d[q]
<1> DEFINE f == d[p]
           g == [f EXCEPT !.wires = Joined(w, f.wires)]
<1>1. IsFile(g) /\ g.imports = f.imports /\ g.marks = f.marks /\ g.wires = Joined(w, f.wires)
  BY FileWired
<1>2. DOMAIN Wired(d, p, w) = DOMAIN d /\ Wired(d, p, w)[p] = g
        /\ \A q \in DOMAIN d \ {p} : Wired(d, p, w)[q] = d[q]
  BY DEF Wired
<1> HIDE DEF g
<1> QED
  BY <1>1, <1>2

LEMMA WiredFits ==
  ASSUME NEW o, NEW s, NEW t, NEW d, NEW p \in DOMAIN d, NEW w,
         \A q \in DOMAIN d : Fits(o, s, q, d[q]), s \in Finished, t \notin Late
  PROVE  \A q \in DOMAIN d : Fits(o, t, q, Wired(d, p, w)[q])
<1>1. IsFile(d[p])
  BY DEF Fits
<1>2. \A q \in DOMAIN d : Fits(o, t, q, d[q])
  BY FitsStill
<1> DEFINE g == Wired(d, p, w)[p]
<1>3. IsFile(g) /\ g.imports = d[p].imports /\ g.marks = d[p].marks
        /\ \A q \in DOMAIN d \ {p} : Wired(d, p, w)[q] = d[q]
  BY <1>1, WiredIs
<1>4. Fits(o, t, p, g)
  <2>1. Fits(o, t, p, d[p])
    BY <1>2
  <2> HIDE DEF g
  <2> QED
    BY <1>3, <2>1 DEF Fits, IsWasm
<1> QED
  BY <1>2, <1>3, <1>4

LEMMA StageShim == InMode(opt, "shim") => StagesAs("shim")
<1> DEFINE kind == IF opt.emscripten THEN {"emscripten shim"}
                   ELSE IF opt.panic_unwind THEN {"unwind shim"}
                   ELSE {"resetting shim"}
           shim == File({"index.js"}, kind)
           one  == Write(dir, "shim.js", shim)
           handlers == GenerateHandlers(Exports, "RUN_TO_COMPLETION" \in environ)
           next == Effect("shim", dir)
<1> SUFFICES ASSUME InMode(opt, "shim"), Staged(opt, environ, crate, "shim", dir)
             PROVE  Staged(opt, environ, crate, "wrappers", next)
  BY DEF StagesAs, After
<1>1. next = Wired(one, "shim.js", handlers)
  BY DEF Effect, WriteShim
<1> HIDE DEF next
<1>2. Fits(opt, "shim", "shim.js", shim)
  <2>1. "resetting shim" \in kind => opt.module_target /\ ~opt.emscripten
    BY DEF InMode, Shimmed
  <2>2. "unwind shim" \in kind => opt.panic_unwind
    OBVIOUS
  <2>3. "source import" \notin kind
    OBVIOUS
  <2> HIDE DEF kind
  <2> QED
    BY <2>1, <2>2, <2>3 DEF Fits, IsFile, File, Wasm, Path
<1>3. shim.wires = NoWires
  BY DEF File
<1> HIDE DEF shim, handlers
<1>4. /\ DOMAIN one = DOMAIN dir \cup {"shim.js"} /\ one["shim.js"] = shim
      /\ \A q \in DOMAIN one : Fits(opt, "shim", q, one[q])
  BY <1>2 DEF Write, Staged
<1> HIDE DEF one
<1>5. /\ DOMAIN next = DOMAIN one /\ next["shim.js"].wires = Joined(handlers, NoWires)
      /\ \A q \in DOMAIN next : Fits(opt, "wrappers", q, next[q])
  <2>1. "wrappers" \notin Late /\ "shim" \in Finished
    BY DEF Late, Finished
  <2> QED
    <3> DEFINE new == Wired(one, "shim.js", handlers)
    <3>1. /\ DOMAIN new = DOMAIN one /\ new["shim.js"].wires = Joined(handlers, one["shim.js"].wires)
          /\ \A q \in DOMAIN one : Fits(opt, "wrappers", q, new[q])
      <4>1. "shim.js" \in DOMAIN one /\ IsFile(one["shim.js"])
        BY <1>4 DEF Fits
      <4>2. DOMAIN new = DOMAIN one /\ new["shim.js"].wires = Joined(handlers, one["shim.js"].wires)
        BY <4>1, WiredIs
      <4>3. \A q \in DOMAIN one : Fits(opt, "wrappers", q, new[q])
        BY <1>4, <2>1, <4>1, WiredFits
      <4> QED
        BY <4>2, <4>3
    <3> HIDE DEF new
    <3> QED
      BY <1>1, <1>3, <1>4, <3>1 DEF new
<1>6. DOMAIN next = Names(opt, crate, "wrappers")
  BY <1>4, <1>5 DEF Staged, Names
<1>7. IsWired(opt, environ, DiscoverWasmExports(crate.decls), "wrappers", next)
  BY <1>5 DEF IsWired, handlers, Exports
<1> QED
  BY <1>5, <1>6, <1>7 DEF Staged

(* wasm-bindgen exports no name twice, so a marker's class is no method.    *)
LEMMA WorkflowsAreNoMethods ==
  ASSUME input \in Inputs, ValidWorkflows(Exports)
  PROVE  Exports.workflows \subseteq Exports.classes /\ Exports.workflows \cap Exports.functions = {}
<1>1. Exports.workflows \subseteq Exports.classes
  BY DEF ValidWorkflows
<1>2. Exports.classes \cap Exports.functions = {}
  <2> SUFFICES ASSUME NEW n \in Exports.classes, n \in Exports.functions PROVE FALSE
    OBVIOUS
  <2>1. PICK e \in ToSet(crate.decls) : IsClass(e) /\ e.name = n
    BY DEF Exports, DiscoverWasmExports
  <2>2. PICK d \in ToSet(crate.decls) : IsFunction(d) /\ ~d.marker /\ d.name = n
    BY DEF Exports, DiscoverWasmExports
  <2> QED
    BY <2>1, <2>2, InputsAssumption DEF crate
<1> QED
  BY <1>1, <1>2

LEMMA ShimWiresAll ==
  ASSUME InMode(opt, "wrappers"), input \in Inputs, ValidWorkflows(Exports)
  PROVE  WiresAll(opt, environ, Exports,
           Joined(ExportWrappers(Exports, opt.emscripten),
                  Joined(GenerateHandlers(Exports, "RUN_TO_COMPLETION" \in environ), NoWires)))
<1> DEFINE x == Exports
           wrappers == ExportWrappers(x, opt.emscripten)
           handlers == GenerateHandlers(x, "RUN_TO_COMPLETION" \in environ)
           inner == Joined(handlers, NoWires)
           wires == Joined(wrappers, inner)
<1>1. x.workflows \subseteq x.classes /\ x.workflows \cap x.functions = {} /\ Shimmed(opt)
  BY WorkflowsAreNoMethods DEF InMode
<1>2. DOMAIN wrappers = Exported(x.classes) /\ DOMAIN handlers = Methods(x.functions)
  BY DEF ExportWrappers, GenerateHandlers
<1>3. \A w \in Exported(x.workflows) :
        w \in Exported(x.classes) /\ wrappers[w] \in {"workflow subclass", "proxied workflow subclass"}
  BY <1>1 DEF ExportWrappers, Exported
<1>4. \A f \in x.functions \cap Events : handlers[<<"method", f>>] # "as it is"
  BY DEF GenerateHandlers, Methods
<1>5. \A n : <<"method", n>> \notin Exported(x.classes)
  BY DEF Exported
<1> HIDE DEF wrappers, handlers
<1>6. DOMAIN inner = Methods(x.functions) /\ \A m \in Methods(x.functions) : inner[m] = handlers[m]
  BY <1>2 DEF Joined, NoWires
<1> HIDE DEF inner
<1>7. /\ DOMAIN wires = Exported(x.classes) \cup Methods(x.functions)
      /\ \A w \in Exported(x.classes) : wires[w] = wrappers[w]
      /\ \A m \in Methods(x.functions) \ Exported(x.classes) : wires[m] = handlers[m]
  BY <1>2, <1>6 DEF Joined
<1> HIDE DEF wires, x
<1>8. Methods(x.workflows) \cap DOMAIN wires = {}
  BY <1>1, <1>7 DEF Methods, Exported
<1>9. \A f \in x.functions \cap Events : wires[<<"method", f>>] # "as it is"
  BY <1>4, <1>5, <1>7 DEF Methods
<1>10. WiresAll(opt, environ, x, wires)
  BY <1>1, <1>3, <1>7, <1>8, <1>9 DEF WiresAll
<1> QED
  BY <1>10 DEF x, wires, inner, wrappers, handlers

LEMMA StageWrappers ==
  InMode(opt, "wrappers") /\ input \in Inputs /\ Passes("wrappers") => StagesAs("wrappers")
<1> DEFINE wrappers == ExportWrappers(Exports, opt.emscripten)
           handlers == GenerateHandlers(Exports, "RUN_TO_COMPLETION" \in environ)
           next == Effect("wrappers", dir)
<1> SUFFICES ASSUME InMode(opt, "wrappers"), input \in Inputs, Passes("wrappers"),
                    Staged(opt, environ, crate, "wrappers", dir)
             PROVE  Staged(opt, environ, crate, "package", next)
  BY DEF StagesAs, After
<1>1. ValidWorkflows(Exports)
  BY DEF Passes
<1>2. next = Wired(dir, "shim.js", wrappers)
  BY DEF Effect, AddExportWrappers
<1>3. DOMAIN dir = Names(opt, crate, "wrappers") /\ "shim.js" \in DOMAIN dir
        /\ \A q \in DOMAIN dir : Fits(opt, "wrappers", q, dir[q])
  BY DEF Staged, Names
<1>4. dir["shim.js"].wires = Joined(handlers, NoWires)
  BY DEF Staged, IsWired, Exports
<1> HIDE DEF next, wrappers, handlers
<1>5. /\ DOMAIN next = DOMAIN dir /\ next["shim.js"].wires = Joined(wrappers, Joined(handlers, NoWires))
      /\ \A q \in DOMAIN dir : Fits(opt, "package", q, next[q])
  <2>1. "package" \notin Late /\ "wrappers" \in Finished
    BY DEF Late, Finished
  <2> QED
    <3> DEFINE new == Wired(dir, "shim.js", wrappers)
    <3>1. /\ DOMAIN new = DOMAIN dir /\ new["shim.js"].wires = Joined(wrappers, dir["shim.js"].wires)
          /\ \A q \in DOMAIN dir : Fits(opt, "package", q, new[q])
      <4>1. IsFile(dir["shim.js"])
        BY <1>3 DEF Fits
      <4>2. DOMAIN new = DOMAIN dir /\ new["shim.js"].wires = Joined(wrappers, dir["shim.js"].wires)
        BY <1>3, <4>1, WiredIs
      <4>3. \A q \in DOMAIN dir : Fits(opt, "package", q, new[q])
        BY <1>3, <2>1, WiredFits
      <4> QED
        BY <4>2, <4>3
    <3> HIDE DEF new
    <3> QED
      BY <1>2, <1>4, <3>1 DEF new
<1>6. Names(opt, crate, "package") = Names(opt, crate, "wrappers")
  BY DEF Names
<1>7. WiresAll(opt, environ, Exports, next["shim.js"].wires)
  BY <1>1, <1>5, ShimWiresAll DEF wrappers, handlers
<1>8. IsWired(opt, environ, DiscoverWasmExports(crate.decls), "package", next)
  BY <1>7 DEF IsWired, Exports
<1> QED
  BY <1>3, <1>5, <1>6, <1>8 DEF Staged

LEMMA StagePackage == InMode(opt, "package") => StagesAs("package")
<1> DEFINE next == Effect("package", dir)
<1> SUFFICES ASSUME InMode(opt, "package"), Staged(opt, environ, crate, "package", dir)
             PROVE  Staged(opt, environ, crate, "esbuild", next)
  BY DEF StagesAs, After
<1>1. next = Write(dir, "package.json", File({"index_bg.wasm", "index.js"}, {}))
  BY DEF Effect
<1>2. DOMAIN dir = Names(opt, crate, "package") /\ Shimmed(opt) /\ {"package.json", "shim.js"} \subseteq DOMAIN dir
        /\ \A q \in DOMAIN dir : Fits(opt, "package", q, dir[q])
  BY DEF Staged, Names, InMode
<1>3. /\ DOMAIN next = DOMAIN dir \cup {"package.json"}
      /\ \A p \in DOMAIN dir \cup {"package.json"} : Fits(opt, "esbuild", p, next[p])
  <2>1. "package.json" \notin Wasm /\ {"index_bg.wasm", "index.js"} \subseteq Path
    BY DEF Wasm, Path
  <2>2. "package" \in Finished /\ "esbuild" \notin Late
    BY DEF Finished, Late
  <2>3. {} \cap {"source import", "resetting shim", "unwind shim"} = {}
    OBVIOUS
  <2> DEFINE new == Write(dir, "package.json", File({"index_bg.wasm", "index.js"}, {}))
  <2>4. /\ DOMAIN new = DOMAIN dir \cup {"package.json"}
        /\ \A p \in DOMAIN dir \cup {"package.json"} : Fits(opt, "esbuild", p, new[p])
    BY <1>2, <2>1, <2>2, <2>3, WriteFits
  <2> HIDE DEF new, next
  <2> QED
    BY <1>1, <2>4 DEF new
<1>4. next["shim.js"] = dir["shim.js"]
  BY <1>1, <1>2 DEF Write
<1> HIDE DEF next
<1>5. DOMAIN next = Names(opt, crate, "esbuild")
  BY <1>2, <1>3 DEF Names
<1>6. IsWired(opt, environ, DiscoverWasmExports(crate.decls), "esbuild", next)
  BY <1>2, <1>4 DEF Staged, IsWired
<1> QED
  BY <1>2, <1>3, <1>5, <1>6 DEF Staged

LEMMA StageBundle == InMode(opt, "bundle") => StagesAs("bundle")
<1> DEFINE f == dir["shim.js"]
           m == f.marks \cup dir["index.js"].marks
           g == [f EXCEPT !.imports = {"index_bg.wasm"}, !.marks = m]
           next == Effect("bundle", dir)
<1> SUFFICES ASSUME InMode(opt, "bundle"), Staged(opt, environ, crate, "bundle", dir)
             PROVE  Staged(opt, environ, crate, "fix", next)
  BY DEF StagesAs, After
<1>1. next = Write(dir, "index.js", g)
  BY DEF Effect, Bundle
<1>2. DOMAIN dir = Names(opt, crate, "bundle") /\ Shimmed(opt) /\ {"index.js", "shim.js"} \subseteq DOMAIN dir
        /\ \A q \in DOMAIN dir : Fits(opt, "bundle", q, dir[q])
  BY DEF Staged, Names, GlueNames, InMode
<1>3. IsFile(g) /\ g.imports = {"index_bg.wasm"} /\ g.marks = m /\ g.wires = f.wires
  <2>1. IsFile(f)
    BY <1>2 DEF Fits
  <2> QED
    BY <2>1 DEF IsFile
<1>4. WiresAll(opt, environ, DiscoverWasmExports(crate.decls), f.wires)
  BY <1>2 DEF Staged, IsWired
<1>5. Fits(opt, "bundle", "index.js", dir["index.js"]) /\ Fits(opt, "bundle", "shim.js", f)
  BY <1>2
<1>6. Fits(opt, "fix", "index.js", g)
  <2> HIDE DEF f, g
  <2> QED
    BY <1>3, <1>5 DEF Fits, Wasm, Path, Late
<1> HIDE DEF f, g, next
<1>7. \A q \in DOMAIN dir : Fits(opt, "fix", q, dir[q])
  BY <1>2, FitsStill DEF Finished, Late
<1>8. DOMAIN next = DOMAIN dir \cup {"index.js"} /\ next["index.js"] = g
        /\ \A q \in DOMAIN dir \ {"index.js"} : next[q] = dir[q]
  BY <1>1 DEF Write
<1>9. DOMAIN next = Names(opt, crate, "fix")
  BY <1>2, <1>8 DEF Names
<1>10. \A q \in DOMAIN next : Fits(opt, "fix", q, next[q])
  BY <1>6, <1>7, <1>8
<1>11. IsWired(opt, environ, DiscoverWasmExports(crate.decls), "fix", next)
  BY <1>3, <1>4, <1>8 DEF IsWired
<1> QED
  BY <1>9, <1>10, <1>11 DEF Staged

LEMMA StageFix == InMode(opt, "fix") => StagesAs("fix")
<1> DEFINE f == dir["index.js"]
           g == [f EXCEPT !.marks = f.marks \ {"source import"}]
           next == Effect("fix", dir)
<1> SUFFICES ASSUME InMode(opt, "fix"), Staged(opt, environ, crate, "fix", dir)
             PROVE  Staged(opt, environ, crate, "tidy", next)
  BY DEF StagesAs, After
<1>1. next = FixWasmImport(dir)
  BY DEF Effect
<1>2. DOMAIN dir = Names(opt, crate, "fix") /\ Shimmed(opt) /\ "index.js" \in DOMAIN dir
        /\ \A q \in DOMAIN dir : Fits(opt, "fix", q, dir[q])
  BY DEF Staged, Names, GlueNames, InMode
<1>3. IsFile(g) /\ g.imports = f.imports /\ g.marks = f.marks \ {"source import"} /\ g.wires = f.wires
  <2>1. IsFile(f)
    BY <1>2 DEF Fits
  <2> QED
    BY <2>1, FileMarked
<1>4. DOMAIN next = DOMAIN dir /\ next["index.js"] = g
        /\ \A q \in DOMAIN dir \ {"index.js"} : next[q] = dir[q]
  BY <1>1, <1>2 DEF FixWasmImport
<1>5. f.imports = {"index_bg.wasm"} /\ WiresAll(opt, environ, DiscoverWasmExports(crate.decls), f.wires)
  BY <1>2 DEF Staged, IsWired
<1> HIDE DEF next
<1>6. Fits(opt, "tidy", "index.js", g)
  <2>1. Fits(opt, "fix", "index.js", f)
    BY <1>2
  <2> HIDE DEF f, g
  <2> QED
    BY <1>3, <2>1 DEF Fits, Wasm
<1>7. ASSUME NEW q \in DOMAIN dir, q # "index.js" PROVE Fits(opt, "tidy", q, dir[q])
  <2>1. Fits(opt, "fix", q, dir[q])
    BY <1>2
  <2> QED
    BY <1>7, <2>1 DEF Fits, IsWasm, Finished
<1> HIDE DEF f, g
<1>8. \A q \in DOMAIN next : Fits(opt, "tidy", q, next[q])
  BY <1>4, <1>6, <1>7
<1>9. Names(opt, crate, "tidy") = Names(opt, crate, "fix")
  BY DEF Names
<1>10. IsWired(opt, environ, DiscoverWasmExports(crate.decls), "tidy", next)
  BY <1>3, <1>4, <1>5 DEF IsWired
<1> QED
  BY <1>2, <1>4, <1>8, <1>9, <1>10 DEF Staged

LEMMA StageTidy == InMode(opt, "tidy") => StagesAs("tidy")
<1> DEFINE next == Effect("tidy", dir)
<1> SUFFICES ASSUME InMode(opt, "tidy"), Staged(opt, environ, crate, "tidy", dir)
             PROVE  Staged(opt, environ, crate, "alias", next)
  BY DEF StagesAs, After
<1>1. next = Delete(dir, {"shim.js", "snippets"})
  BY DEF Effect, RemoveUnusedFiles
<1>2. DOMAIN dir = Names(opt, crate, "tidy") /\ Shimmed(opt)
        /\ \A q \in DOMAIN dir : Fits(opt, "tidy", q, dir[q])
  BY DEF Staged, InMode
<1>3. DOMAIN next = DOMAIN dir \ {"shim.js", "snippets"} /\ \A q \in DOMAIN next : next[q] = dir[q]
  BY <1>1 DEF Delete, Restrict
<1> HIDE DEF next
<1>4. DOMAIN next = Names(opt, crate, "alias")
  BY <1>2, <1>3 DEF Names, GlueNames
<1>5. \A q \in DOMAIN dir : Fits(opt, "alias", q, dir[q])
  BY <1>2, FitsStill DEF Finished, Late
<1>6. "index.js" \in DOMAIN next
  BY <1>4 DEF Names
<1>7. IsWired(opt, environ, DiscoverWasmExports(crate.decls), "alias", next)
  BY <1>2, <1>3, <1>6 DEF Staged, IsWired
<1> QED
  BY <1>3, <1>4, <1>5, <1>7 DEF Staged

LEMMA StageAlias == InMode(opt, "alias") => StagesAs("alias")
<1> DEFINE next == Effect("alias", dir)
           new  == Write(dir, "worker/shim.mjs", File({"index.js"}, {}))
<1> SUFFICES ASSUME InMode(opt, "alias"), Staged(opt, environ, crate, "alias", dir)
             PROVE  Staged(opt, environ, crate, "finish", next)
  BY DEF StagesAs, After
<1>1. next = new
  BY DEF Effect, CreateWrapperAlias
<1>2. DOMAIN dir = Names(opt, crate, "alias") /\ Shimmed(opt)
        /\ \A q \in DOMAIN dir : Fits(opt, "alias", q, dir[q])
  BY DEF Staged, InMode
<1>3. \A q \in DOMAIN dir \cup {"worker/shim.mjs"} : Fits(opt, "finish", q, new[q])
  <2>1. "worker/shim.mjs" \notin Wasm /\ {"index.js"} \subseteq Path
    BY DEF Wasm, Path
  <2>2. "alias" \in Finished /\ "alias" \in Late
    BY DEF Finished, Late
  <2>3. {} \cap {"source import", "resetting shim", "unwind shim"} = {}
    OBVIOUS
  <2> QED
    BY <1>2, <2>1, <2>2, <2>3, WriteFits
<1>4. DOMAIN new = DOMAIN dir \cup {"worker/shim.mjs"} /\ new["worker/shim.mjs"] = File({"index.js"}, {})
        /\ \A q \in DOMAIN dir \ {"worker/shim.mjs"} : new[q] = dir[q]
  BY DEF Write
<1> HIDE DEF next, new
<1>5. DOMAIN new = Names(opt, crate, "finish") /\ "index.js" \in DOMAIN dir
  BY <1>2, <1>4 DEF Names
<1>6. IsWired(opt, environ, DiscoverWasmExports(crate.decls), "finish", new)
  BY <1>2, <1>4, <1>5 DEF Staged, IsWired
<1> QED
  BY <1>1, <1>3, <1>4, <1>5, <1>6 DEF Staged

LEMMA StageLegacyMove == InMode(opt, "legacy move") => StagesAs("legacy move")
<1> DEFINE d0 == Delete(dir, {p \in Path : p \in {"worker/shim.js", "worker/shim.mjs"}})
           d1 == Rename(d0, "index_bg.js", "worker/index_bg.js")
           d2 == Rename(d1, "index_bg.wasm", "worker/index.wasm")
           d3 == Rename(d2, "snippets", "worker/snippets")
           next == Effect("legacy move", dir)
           old == {"index_bg.js", "index_bg.wasm", "snippets"}
<1> SUFFICES ASSUME InMode(opt, "legacy move"), Staged(opt, environ, crate, "legacy move", dir)
             PROVE  Staged(opt, environ, crate, "legacy shim", next)
  BY DEF StagesAs, After
<1>1. next = d3
  BY DEF Effect, LegacyMove
<1>2. DOMAIN dir = Names(opt, crate, "legacy move") /\ ~Shimmed(opt)
        /\ \A q \in DOMAIN dir : Fits(opt, "legacy move", q, dir[q])
  BY DEF Staged, InMode
<1>3. DOMAIN dir = {".gitignore", "index_bg.wasm", "index.js", "index_bg.js", "package.json"}
                     \cup (IF crate.snippets THEN {"snippets"} ELSE {})
  BY <1>2 DEF Names, GlueNames
<1>4. DOMAIN d0 = DOMAIN dir /\ \A q \in DOMAIN dir : d0[q] = dir[q]
  BY <1>3 DEF Delete, Restrict
<1> HIDE DEF d0, next
<1>5. /\ DOMAIN d1 = (DOMAIN d0 \ {"index_bg.js"}) \cup {"worker/index_bg.js"}
      /\ d1["worker/index_bg.js"] = dir["index_bg.js"]
      /\ \A q \in DOMAIN dir \ {"index_bg.js", "worker/index_bg.js"} : d1[q] = dir[q]
  BY <1>3, <1>4 DEF Rename, Write, Delete, Restrict
<1> HIDE DEF d1
<1>6. /\ DOMAIN d2 = (DOMAIN d1 \ {"index_bg.wasm"}) \cup {"worker/index.wasm"}
      /\ d2["worker/index.wasm"] = dir["index_bg.wasm"]
      /\ \A q \in DOMAIN d1 \ {"index_bg.wasm", "worker/index.wasm"} : d2[q] = d1[q]
  BY <1>3, <1>4, <1>5 DEF Rename, Write, Delete, Restrict
<1> HIDE DEF d2
<1>7. /\ DOMAIN d2 = {".gitignore", "worker/index.wasm", "index.js", "worker/index_bg.js", "package.json"}
                       \cup (IF crate.snippets THEN {"snippets"} ELSE {})
      /\ \A q \in {".gitignore", "index.js", "package.json"} : d2[q] = dir[q]
      /\ d2["worker/index_bg.js"] = dir["index_bg.js"]
      /\ crate.snippets => d2["snippets"] = dir["snippets"]
  BY <1>3, <1>4, <1>5, <1>6
<1>8. /\ DOMAIN d3 = {".gitignore", "worker/index.wasm", "index.js", "worker/index_bg.js", "package.json"}
                       \cup (IF crate.snippets THEN {"worker/snippets"} ELSE {})
      /\ \A q \in {".gitignore", "index.js", "package.json"} : d3[q] = dir[q]
      /\ d3["worker/index_bg.js"] = dir["index_bg.js"] /\ d3["worker/index.wasm"] = dir["index_bg.wasm"]
      /\ crate.snippets => d3["worker/snippets"] = dir["snippets"]
  <2>1. CASE crate.snippets
    BY <1>6, <1>7, <2>1 DEF Rename, Write, Delete, Restrict
  <2>2. CASE ~crate.snippets
    <3>1. d3 = d2
      BY <1>7, <2>2 DEF Rename
    <3> QED
      BY <1>6, <1>7, <2>2, <3>1
  <2> QED
    BY <2>1, <2>2
<1> HIDE DEF d3
<1>9. DOMAIN d3 = Names(opt, crate, "legacy shim")
  BY <1>8 DEF Names
<1>10. \A q \in DOMAIN dir : Fits(opt, "legacy shim", q, dir[q])
  BY <1>2, FitsStill DEF Finished, Late
<1>11. ASSUME NEW q \in DOMAIN dir, NEW r, q \in Wasm <=> r \in Wasm, q # "index.js"
       PROVE  Fits(opt, "legacy shim", r, dir[q])
  <2>1. Fits(opt, "legacy shim", q, dir[q])
    BY <1>10
  <2> QED
    BY <1>11, <2>1 DEF Fits
<1>12. \A q \in DOMAIN d3 : Fits(opt, "legacy shim", q, d3[q])
  <2>1. Fits(opt, "legacy shim", "worker/index.wasm", dir["index_bg.wasm"])
    BY <1>3, <1>11 DEF Wasm
  <2>2. Fits(opt, "legacy shim", "worker/index_bg.js", dir["index_bg.js"])
    BY <1>3, <1>11 DEF Wasm
  <2>3. crate.snippets => Fits(opt, "legacy shim", "worker/snippets", dir["snippets"])
    BY <1>3, <1>11 DEF Wasm
  <2> QED
    BY <1>3, <1>8, <1>10, <2>1, <2>2, <2>3
<1>13. IsWired(opt, environ, DiscoverWasmExports(crate.decls), "legacy shim", d3)
  BY DEF IsWired
<1> QED
  BY <1>1, <1>9, <1>12, <1>13 DEF Staged

LEMMA LegacyWiresAll ==
  ASSUME InMode(opt, "legacy shim"), input \in Inputs, ValidWorkflows(Exports)
  PROVE  WiresAll(opt, environ, Exports,
           Joined(Joined(LegacyWorkflowExports(Exports),
                         IF "CUSTOM_SHIM" \in environ THEN NoWires ELSE LegacyHandlers(Exports)), NoWires))
<1> DEFINE x == Exports
           all == x.functions \cup x.classes
           workflows == LegacyWorkflowExports(x)
           handlers == LegacyHandlers(x)
           rest == IF "CUSTOM_SHIM" \in environ THEN NoWires ELSE handlers
           both == Joined(workflows, rest)
           wires == Joined(both, NoWires)
<1>1. ~Shimmed(opt)
  BY DEF InMode
<1>2. DOMAIN workflows = Exported(x.workflows)
        /\ \A w \in Exported(x.workflows) : workflows[w] = "workflow subclass"
  BY DEF LegacyWorkflowExports
<1>3. DOMAIN handlers = Methods({"fetch", "queue", "scheduled"} \cup all) \cup Exported(all)
  BY DEF LegacyHandlers
<1>4. \A f \in (x.functions \cap Events) \ {"email", "connect"} : handlers[<<"method", f>>] = "with env and ctx"
  BY DEF LegacyHandlers, Methods, Events
<1>5. \A n : <<"method", n>> \notin Exported(x.workflows)
  BY DEF Exported
<1> HIDE DEF workflows, handlers
<1>6. /\ DOMAIN wires = DOMAIN both /\ \A w \in DOMAIN both : wires[w] = both[w]
      /\ DOMAIN both = DOMAIN workflows \cup DOMAIN rest
      /\ \A w \in DOMAIN workflows : both[w] = workflows[w]
      /\ \A w \in DOMAIN rest \ DOMAIN workflows : both[w] = rest[w]
  BY DEF Joined, NoWires
<1> HIDE DEF both, wires
<1>7. \A w \in Exported(x.workflows) :
        w \in DOMAIN wires /\ wires[w] \in {"workflow subclass", "proxied workflow subclass"}
  BY <1>2, <1>6
<1>8. ASSUME "CUSTOM_SHIM" \notin environ
      PROVE  /\ Exported(x.classes) \cup Methods(x.functions) \subseteq DOMAIN wires
             /\ \A f \in x.functions \cap Events :
                  wires[<<"method", f>>] # "as it is" \/ (~Shimmed(opt) /\ f \in {"email", "connect"})
  <2>1. rest = handlers
    BY <1>8
  <2> HIDE DEF rest
  <2>2. Exported(x.classes) \cup Methods(x.functions) \subseteq DOMAIN handlers
    BY <1>3 DEF Exported, Methods
  <2>3. ASSUME NEW f \in x.functions \cap Events, f \notin {"email", "connect"}
        PROVE  wires[<<"method", f>>] # "as it is"
    <3>1. <<"method", f>> \in DOMAIN handlers
      BY <2>2 DEF Methods
    <3>2. wires[<<"method", f>>] = handlers[<<"method", f>>]
      BY <1>2, <1>5, <1>6, <2>1, <3>1
    <3> QED
      BY <1>4, <2>3, <3>2
  <2> QED
    BY <1>1, <1>6, <2>1, <2>2, <2>3
<1> HIDE DEF x
<1>9. WiresAll(opt, environ, x, wires)
  BY <1>1, <1>7, <1>8 DEF WiresAll
<1> QED
  BY <1>9 DEF x, wires, both, rest, handlers, workflows

LEMMA StageLegacyShim ==
  InMode(opt, "legacy shim") /\ input \in Inputs /\ Passes("legacy shim") => StagesAs("legacy shim")
<1> DEFINE wires == Joined(LegacyWorkflowExports(Exports),
                           IF "CUSTOM_SHIM" \in environ THEN NoWires ELSE LegacyHandlers(Exports))
           shim == File({"worker/index_bg.js", "worker/index.wasm"} \cup SnippetsOf("worker/snippets"), {"legacy shim"})
           one  == Write(dir, "worker/shim.js", shim)
           new  == Wired(one, "worker/shim.js", wires)
           next == Effect("legacy shim", dir)
<1> SUFFICES ASSUME InMode(opt, "legacy shim"), input \in Inputs, Passes("legacy shim"),
                    Staged(opt, environ, crate, "legacy shim", dir)
             PROVE  Staged(opt, environ, crate, "legacy bundle", next)
  BY DEF StagesAs, After
<1>1. ValidWorkflows(Exports)
  BY DEF Passes
<1>2. next = new
  BY DEF Effect, LegacyShim
<1>3. DOMAIN dir = Names(opt, crate, "legacy shim")
        /\ \A q \in DOMAIN dir : Fits(opt, "legacy shim", q, dir[q])
  BY DEF Staged
<1>4. Fits(opt, "legacy shim", "worker/shim.js", shim) /\ IsFile(shim) /\ shim.wires = NoWires
  BY DEF Fits, IsFile, File, Wasm, Path, SnippetsOf
<1>5. WiresAll(opt, environ, Exports, Joined(wires, NoWires))
  BY <1>1, LegacyWiresAll
<1> HIDE DEF shim, wires
<1>6. /\ DOMAIN one = DOMAIN dir \cup {"worker/shim.js"} /\ one["worker/shim.js"] = shim
      /\ \A q \in DOMAIN one : Fits(opt, "legacy shim", q, one[q])
  BY <1>3, <1>4 DEF Write
<1> HIDE DEF one
<1>7. DOMAIN new = DOMAIN one /\ new["worker/shim.js"].wires = Joined(wires, NoWires)
  <2>1. "worker/shim.js" \in DOMAIN one /\ IsFile(one["worker/shim.js"])
    BY <1>4, <1>6
  <2> QED
    BY <1>4, <1>6, <2>1, WiredIs
<1>8. \A q \in DOMAIN one : Fits(opt, "legacy bundle", q, new[q])
  <2>1. "legacy bundle" \notin Late /\ "legacy shim" \in Finished
    BY DEF Late, Finished
  <2> QED
    BY <1>6, <2>1, WiredFits
<1> HIDE DEF new, next
<1>9. DOMAIN new = Names(opt, crate, "legacy bundle")
  BY <1>3, <1>6, <1>7 DEF Names
<1>10. IsWired(opt, environ, DiscoverWasmExports(crate.decls), "legacy bundle", new)
  BY <1>5, <1>7 DEF IsWired, Exports
<1> QED
  BY <1>2, <1>7, <1>8, <1>9, <1>10 DEF Staged

LEMMA StageLegacyBundle == InMode(opt, "legacy bundle") => StagesAs("legacy bundle")
<1> DEFINE f == dir["worker/shim.js"]
           g == [f EXCEPT !.imports = {"worker/index.wasm"}]
           next == Effect("legacy bundle", dir)
<1> SUFFICES ASSUME InMode(opt, "legacy bundle"), Staged(opt, environ, crate, "legacy bundle", dir)
             PROVE  Staged(opt, environ, crate, "legacy tidy", next)
  BY DEF StagesAs, After
<1>1. next = Write(dir, "worker/shim.mjs", g)
  BY DEF Effect, LegacyBundle
<1>2. DOMAIN dir = Names(opt, crate, "legacy bundle") /\ ~Shimmed(opt) /\ "worker/shim.js" \in DOMAIN dir
        /\ \A q \in DOMAIN dir : Fits(opt, "legacy bundle", q, dir[q])
  BY DEF Staged, Names, InMode
<1>3. IsFile(g) /\ g.imports = {"worker/index.wasm"} /\ g.marks = f.marks /\ g.wires = f.wires
  <2>1. IsFile(f)
    BY <1>2 DEF Fits
  <2> QED
    BY <2>1, FileImporting
<1>4. WiresAll(opt, environ, DiscoverWasmExports(crate.decls), f.wires)
  BY DEF Staged, IsWired
<1>5. Fits(opt, "legacy bundle", "worker/shim.js", f)
  BY <1>2
<1> HIDE DEF f, g, next
<1>6. Fits(opt, "legacy tidy", "worker/shim.mjs", g)
  BY <1>3, <1>5 DEF Fits, Wasm, Path
<1>7. \A q \in DOMAIN dir : Fits(opt, "legacy tidy", q, dir[q])
  BY <1>2, FitsStill DEF Finished, Late
<1>8. DOMAIN next = DOMAIN dir \cup {"worker/shim.mjs"} /\ next["worker/shim.mjs"] = g
        /\ \A q \in DOMAIN dir \ {"worker/shim.mjs"} : next[q] = dir[q]
  BY <1>1 DEF Write
<1>9. DOMAIN next = Names(opt, crate, "legacy tidy")
  BY <1>2, <1>8 DEF Names
<1>10. \A q \in DOMAIN next : Fits(opt, "legacy tidy", q, next[q])
  BY <1>6, <1>7, <1>8
<1>11. IsWired(opt, environ, DiscoverWasmExports(crate.decls), "legacy tidy", next)
  BY <1>3, <1>4, <1>8 DEF IsWired
<1> QED
  BY <1>9, <1>10, <1>11 DEF Staged

LEMMA StageLegacyTidy == InMode(opt, "legacy tidy") => StagesAs("legacy tidy")
<1> DEFINE next == Effect("legacy tidy", dir)
           gone == {"worker/snippets", "worker/index_bg.js", "worker/shim.js", "index.js"}
<1> SUFFICES ASSUME InMode(opt, "legacy tidy"), Staged(opt, environ, crate, "legacy tidy", dir)
             PROVE  Staged(opt, environ, crate, "legacy alias", next)
  BY DEF StagesAs, After
<1>1. next = Delete(dir, gone)
  BY DEF Effect, LegacyTidy
<1>2. DOMAIN dir = Names(opt, crate, "legacy tidy") /\ ~Shimmed(opt)
        /\ \A q \in DOMAIN dir : Fits(opt, "legacy tidy", q, dir[q])
  BY DEF Staged, InMode
<1>3. DOMAIN next = DOMAIN dir \ gone /\ \A q \in DOMAIN next : next[q] = dir[q]
  BY <1>1 DEF Delete, Restrict
<1> HIDE DEF next
<1>4. DOMAIN next = Names(opt, crate, "legacy alias") /\ "worker/shim.mjs" \in DOMAIN next
  BY <1>2, <1>3 DEF Names
<1>5. \A q \in DOMAIN dir : Fits(opt, "legacy alias", q, dir[q])
  BY <1>2, FitsStill DEF Finished, Late
<1>6. IsWired(opt, environ, DiscoverWasmExports(crate.decls), "legacy alias", next)
  BY <1>2, <1>3, <1>4 DEF Staged, IsWired
<1> QED
  BY <1>3, <1>4, <1>5, <1>6 DEF Staged

LEMMA StageLegacyAlias == InMode(opt, "legacy alias") => StagesAs("legacy alias")
<1> DEFINE next == Effect("legacy alias", dir)
           js   == File({"worker/shim.mjs"}, {})
<1> SUFFICES ASSUME InMode(opt, "legacy alias"), Staged(opt, environ, crate, "legacy alias", dir)
             PROVE  Staged(opt, environ, crate, "finish", next)
  BY DEF StagesAs, After
<1>1. next = Write(dir, "index.js", js)
  BY DEF Effect, CreateWrapperAlias
<1>2. DOMAIN dir = Names(opt, crate, "legacy alias") /\ ~Shimmed(opt)
        /\ \A q \in DOMAIN dir : Fits(opt, "legacy alias", q, dir[q])
  BY DEF Staged, InMode
<1>3. DOMAIN dir = {".gitignore", "package.json", "worker/index.wasm", "worker/shim.mjs"}
  BY <1>2 DEF Names
<1>4. \A q \in DOMAIN dir : Fits(opt, "finish", q, dir[q])
  <2>1. ASSUME NEW q \in DOMAIN dir PROVE Fits(opt, "finish", q, dir[q])
    <3>1. Fits(opt, "legacy alias", q, dir[q]) /\ q # "index.js"
      BY <1>2, <1>3
    <3> QED
      BY <3>1 DEF Fits, IsWasm, Finished
  <2> QED
    BY <2>1
<1>5. Fits(opt, "finish", "index.js", js)
  <2>1. "index.js" \notin Wasm /\ {"worker/shim.mjs"} \subseteq Path
    BY DEF Wasm, Path
  <2> QED
    BY <2>1, PlainFileFits
<1> HIDE DEF next, js
<1>6. DOMAIN next = DOMAIN dir \cup {"index.js"} /\ next["index.js"] = js
        /\ \A q \in DOMAIN dir \ {"index.js"} : next[q] = dir[q]
  BY <1>1 DEF Write
<1>7. DOMAIN next = Names(opt, crate, "finish")
  BY <1>2, <1>3, <1>6 DEF Names
<1>8. \A q \in DOMAIN next : Fits(opt, "finish", q, next[q])
  BY <1>4, <1>5, <1>6
<1>9. IsWired(opt, environ, DiscoverWasmExports(crate.decls), "finish", next)
  BY <1>2, <1>3, <1>6 DEF Staged, IsWired, js
<1> QED
  BY <1>7, <1>8, <1>9 DEF Staged

(* Each step of a build leaves the directory as the next one is to find it. *)
LEMMA StageStep ==
  ASSUME NEW s \in Step \ {"finish"}, InMode(opt, s), input \in Inputs, s \in Elsewhere \/ Passes(s)
  PROVE  StagesAs(s)
<1>1. CASE s \in Early
  BY <1>1, StageEarly, StageMkdir
<1>2. CASE s \in {"bindings", "collect"}
  BY <1>2, StageBindings, StageCollect
<1>3. CASE s \in {"opt", "json", "coredump", "producers", "esbuild"}
  BY <1>3, StageOpt, StageJson, StageIdle, StageProducers
<1>4. CASE s \in {"shim", "package", "bundle", "fix", "tidy", "alias"}
  BY <1>4, StageShim, StagePackage, StageBundle, StageFix, StageTidy, StageAlias
<1>5. CASE s \in {"wrappers", "legacy shim"}
  <2>1. Passes(s)
    BY <1>5 DEF Elsewhere
  <2> QED
    BY <1>5, <2>1, StageWrappers, StageLegacyShim
<1>6. CASE s \in {"legacy move", "legacy bundle", "legacy tidy", "legacy alias"}
  BY <1>6, StageLegacyMove, StageLegacyBundle, StageLegacyTidy, StageLegacyAlias
<1> QED
  BY <1>1, <1>2, <1>3, <1>4, <1>5, <1>6 DEF Step, Early

InputIsKnown == input \in Inputs

LEMMA InputStep == InputIsKnown /\ [Next]_vars => InputIsKnown'
<1> SUFFICES ASSUME InputIsKnown, [Next]_vars PROVE input' \in Inputs
  BY DEF InputIsKnown
<1>1. Begins \/ input' = input
  BY StepKinds DEF Ends, GoesOn, Stays
<1> QED
  BY <1>1 DEF Begins, Start, InputIsKnown

LEMMA DirStep == Ordered /\ InputIsKnown /\ DirIsStaged /\ [Next]_vars => DirIsStaged'
<1> SUFFICES ASSUME Ordered, InputIsKnown, DirIsStaged, [Next]_vars
             PROVE  IF todo' # <<>>
                      THEN Staged(OptOf(input'), input'.env, input'.crate, Head(todo'), dir')
                      ELSE dir' = NoFiles
  BY DEF DirIsStaged, Building, OptOf
<1>1. ASSUME NEW i \in Inputs, Start(i)
      PROVE  IF todo' # <<>>
               THEN Staged(OptOf(input'), input'.env, input'.crate, Head(todo'), dir')
               ELSE dir' = NoFiles
  <2>1. dir' = NoFiles
    BY <1>1 DEF Start, DirIsStaged
  <2>2. todo' = MainSteps(OptOf(i), i.env) \/ todo' = <<>>
    BY <1>1 DEF Start, OptOf
  <2>3. ASSUME todo' # <<>> PROVE Head(todo') = "rustc"
    <3>1. Leads(OptOf(i), i.env, MainSteps(OptOf(i), i.env), "rustc", "finish")
      BY MainStepsLead
    <3> QED
      BY <2>2, <2>3, <3>1, LeadsFrom
  <2>4. DOMAIN NoFiles = {}
    BY DEF NoFiles
  <2> QED
    BY <2>1, <2>3, <2>4, NothingStaged DEF Early
<1>2. CASE Ends
  BY <1>2 DEF Ends, Over
<1>3. CASE GoesOn
  <2> DEFINE s == Head(todo)
  <2>1. /\ todo' # <<>> /\ Head(todo') = After(OptOf(input), input.env, s)
        /\ dir' = Effect(s, dir) /\ input' = input
        /\ s \in Elsewhere \/ Passes(s)
    BY <1>3, Progress DEF Building
  <2>2. s \in Step \ {"finish"} /\ InMode(opt, s) /\ Staged(opt, environ, crate, s, dir)
    <3>1. todo \in Seq(Step) /\ todo # <<>> /\ s # "finish" /\ InMode(OptOf(input), s)
      BY <1>3 DEF Ordered, GoesOn, Leads
    <3>2. s \in Step
      BY <3>1
    <3> QED
      BY <1>3, <3>1, <3>2, OptIs DEF GoesOn, DirIsStaged, environ, crate
  <2>3. Staged(opt, environ, crate, After(opt, environ, s), Effect(s, dir))
    BY <2>1, <2>2, StageStep DEF StagesAs, InputIsKnown
  <2> QED
    BY <2>1, <2>3, OptIs DEF environ, crate
<1>4. CASE Stays
  BY <1>4 DEF Stays, DirIsStaged, Building
<1> QED
  BY <1>1, <1>2, <1>3, <1>4, StepKinds DEF Begins

IInv == Ordered /\ RustIsPrepared /\ InputIsKnown /\ DirIsStaged

LEMMA BuildInductive == Spec => []IInv
<1>1. Init => IInv
  <2>1. Init => Ordered /\ RustIsPrepared
    BY MachinesAssumption DEF Init, Ordered, RustIsPrepared, Current, Building, RustState, Parts
  <2>2. Init => InputIsKnown /\ DirIsStaged
    BY DEF Init, InputIsKnown, DirIsStaged, Building
  <2> QED
    BY <2>1, <2>2 DEF IInv
<1>2. IInv /\ [Next]_vars => IInv'
  BY OrderedStep, RustStep, InputStep, DirStep DEF IInv
<1> QED
  BY <1>1, <1>2, PTL DEF Spec

(* At a step, with what the invariant says of the directory.                *)
LEMMA AtStep ==
  ASSUME IInv, Building
  PROVE  InMode(opt, Head(todo)) /\ Staged(opt, environ, crate, Head(todo), dir)
BY OptIs DEF IInv, Ordered, DirIsStaged, environ, crate

LEMMA NamesArePaths == \A o, c, s : Names(o, c, s) \subseteq Path
BY DEF Names, GlueNames, Path

-----------------------------------------------------------------------------
(* The state keeps its type: no step gives the staging directory a file or  *)
(* an import, or the machine a target, that the model does not know.        *)
THEOREM TypeCorrect == Spec => []TypeOK
<1>1. IInv /\ CacheTypeOK /\ SdkTypeOK => TypeOK
  <2> SUFFICES ASSUME IInv, CacheTypeOK, SdkTypeOK PROVE TypeOK
    OBVIOUS
  <2>1. DOMAIN dir \subseteq Path /\ \A p \in DOMAIN dir : dir[p].imports \subseteq Path
    <3>1. CASE Building
      BY <3>1, AtStep, NamesArePaths DEF Staged, Fits
    <3>2. CASE ~Building
      BY <3>2 DEF IInv, DirIsStaged, NoFiles
    <3> QED
      BY <3>1, <3>2
  <2>2. rust.targets \subseteq {Unknown, Emscripten} /\ rust.nightly \subseteq {"toolchain", "rust-src", Unknown}
    BY DEF IInv, RustIsPrepared, RustState, Parts
  <2> QED
    BY <2>1, <2>2 DEF TypeOK, IInv, InputIsKnown
<1> QED
  BY BuildInductive, UsesToolCache, ProvisionsSdk, CacheTypeCorrect, SdkTypeCorrect, <1>1, PTL

(* cargo is run only with its target installed, and with panic=unwind also  *)
(* with nightly, its sources and its wasm32-unknown-unknown, on any machine *)
(* and whatever rustup answers.                                             *)
THEOREM CargoIsReady == Spec => []CompilerIsReady
<1>1. IInv => CompilerIsReady
  <2> SUFFICES ASSUME IInv, Current({"cargo"})
               PROVE  IF opt.panic_unwind
                        THEN rust.nightly = {"toolchain", "rust-src", Unknown}
                        ELSE CargoBuild(opt, opt.bin, WorkerTokioFeature(crate)).target \in rust.targets
    BY DEF CompilerIsReady
  <2>1. CargoBuild(opt, opt.bin, WorkerTokioFeature(crate)).target = CargoTarget(opt)
    BY DEF CargoBuild, CargoTarget
  <2> QED
    BY <2>1 DEF IInv, RustIsPrepared, Current, Parts
<1> QED
  BY BuildInductive, <1>1, PTL

(* Every step finds the files it needs, for any arguments, environment and  *)
(* crate; the coredump rewriter alone does not.                             *)
THEOREM InputsAreFound == Spec => []InputsAreThere
<1>1. IInv => InputsAreThere
  <2> SUFFICES ASSUME IInv, Building, Head(todo) # "coredump" PROVE Needs(Head(todo)) \subseteq DOMAIN dir
    BY DEF InputsAreThere, Current
  <2>1. InMode(opt, Head(todo)) /\ DOMAIN dir = Names(opt, crate, Head(todo))
    BY AtStep DEF Staged
  <2> QED
    BY <2>1 DEF Needs, Names, GlueNames, InMode
<1> QED
  BY BuildInductive, <1>1, PTL

(* What is published is closed and clean, for any arguments, environment    *)
(* and crate.                                                               *)
THEOREM WholeIsPublished == Spec => []PublishedIsWhole
<1>1. IInv => PublishedIsWhole
  <2> SUFFICES ASSUME IInv, Publishing
               PROVE  /\ Reachable \cup {"package.json", ".gitignore"} = DOMAIN dir
                      /\ \A p \in DOMAIN dir : "source import" \notin dir[p].marks
                      /\ \A p \in DOMAIN dir \cap Wasm : "sdk" \in dir[p].marks
    BY DEF PublishedIsWhole
  <2>1. Staged(opt, environ, crate, "finish", dir)
    BY AtStep DEF Publishing, Current
  <2>2. \A p \in DOMAIN dir : Fits(opt, "finish", p, dir[p])
    BY <2>1 DEF Staged
  <2>3. \A p \in DOMAIN dir : "source import" \notin dir[p].marks
    BY <2>2 DEF Fits
  <2>4. \A p \in DOMAIN dir \cap Wasm : "sdk" \in dir[p].marks /\ dir[p].imports = {}
    BY <2>2 DEF Fits, IsWasm, Finished
  <2> DEFINE step(ps) == ps \cup UNION {dir[p].imports : p \in ps \cap DOMAIN dir}
  <2>5. Reachable = step(step(step({"index.js", "worker/shim.mjs"})))
    BY DEF Reachable
  <2>6. CASE Shimmed(opt)
    <3>1. DOMAIN dir = {".gitignore", "package.json", "index.js", "index_bg.wasm", "worker/shim.mjs"}
      BY <2>1, <2>6 DEF Staged, Names
    <3>2. /\ dir["index.js"].imports = {"index_bg.wasm"} /\ dir["worker/shim.mjs"].imports = {"index.js"}
          /\ dir["index_bg.wasm"].imports = {}
      BY <2>1, <2>4, <2>6, <3>1 DEF Staged, IsWired, File, Wasm
    <3>3. step({"index.js", "worker/shim.mjs"}) = {"index.js", "worker/shim.mjs", "index_bg.wasm"}
      BY <3>1, <3>2
    <3>4. step({"index.js", "worker/shim.mjs", "index_bg.wasm"}) = {"index.js", "worker/shim.mjs", "index_bg.wasm"}
      BY <3>1, <3>2
    <3> QED
      BY <2>3, <2>4, <2>5, <3>1, <3>3, <3>4
  <2>7. CASE ~Shimmed(opt)
    <3>1. DOMAIN dir = {".gitignore", "package.json", "index.js", "worker/index.wasm", "worker/shim.mjs"}
      BY <2>1, <2>7 DEF Staged, Names
    <3>2. /\ dir["index.js"].imports = {"worker/shim.mjs"} /\ dir["worker/shim.mjs"].imports = {"worker/index.wasm"}
          /\ dir["worker/index.wasm"].imports = {}
      BY <2>1, <2>4, <2>7, <3>1 DEF Staged, IsWired, File, Wasm
    <3>3. step({"index.js", "worker/shim.mjs"}) = {"index.js", "worker/shim.mjs", "worker/index.wasm"}
      BY <3>1, <3>2
    <3>4. step({"index.js", "worker/shim.mjs", "worker/index.wasm"}) = {"index.js", "worker/shim.mjs", "worker/index.wasm"}
      BY <3>1, <3>2
    <3> QED
      BY <2>3, <2>4, <2>5, <3>1, <3>3, <3>4
  <2> QED
    BY <2>6, <2>7
<1> QED
  BY BuildInductive, <1>1, PTL

(* A published shim asks its wasm for nothing it was not built with.        *)
THEOREM ShimsFit == Spec => []ShimFitsWasm
<1>1. IInv => ShimFitsWasm
  <2> SUFFICES ASSUME IInv, Publishing, NEW p \in DOMAIN dir, NEW w \in DOMAIN dir \cap Wasm
               PROVE  /\ "resetting shim" \in dir[p].marks => "reset-state" \in dir[w].marks
                      /\ "unwind shim" \in dir[p].marks => "unwind" \in dir[w].marks
    BY DEF ShimFitsWasm
  <2>1. Staged(opt, environ, crate, "finish", dir)
    BY AtStep DEF Publishing, Current
  <2>2. Fits(opt, "finish", p, dir[p]) /\ Fits(opt, "finish", w, dir[w])
    BY <2>1 DEF Staged
  <2> QED
    BY <2>2 DEF Fits, IsWasm
<1> QED
  BY BuildInductive, <1>1, PTL

(* The published module wires every export, workflow and event of the crate.*)
THEOREM EntrypointsWired == Spec => []EntrypointsAreWired
<1>1. IInv => EntrypointsAreWired
  <2> SUFFICES ASSUME IInv, Publishing
               PROVE  WiresAll(opt, environ, Exports, Joined(dir["worker/shim.mjs"].wires, dir["index.js"].wires))
    BY DEF EntrypointsAreWired, WiresAll
  <2>1. Staged(opt, environ, crate, "finish", dir)
    BY AtStep DEF Publishing, Current
  <2>2. IsWired(opt, environ, Exports, "finish", dir)
    BY <2>1 DEF Staged, Exports
  <2> DEFINE main == dir["worker/shim.mjs"].wires
             index == dir["index.js"].wires
  <2>3. CASE Shimmed(opt)
    <3>1. main = NoWires /\ WiresAll(opt, environ, Exports, index)
      BY <2>2, <2>3 DEF IsWired, File
    <3> HIDE DEF main, index
    <3>2. DOMAIN Joined(main, index) = DOMAIN index /\ \A x \in DOMAIN index : Joined(main, index)[x] = index[x]
      BY <3>1 DEF Joined, NoWires
    <3>3. WiresAll(opt, environ, Exports, Joined(main, index))
      BY <3>1, <3>2 DEF WiresAll, Methods
    <3> QED
      BY <3>3 DEF main, index
  <2>4. CASE ~Shimmed(opt)
    <3>1. index = NoWires /\ WiresAll(opt, environ, Exports, main)
      BY <2>2, <2>4 DEF IsWired, File
    <3> HIDE DEF main, index
    <3>2. DOMAIN Joined(main, index) = DOMAIN main /\ \A x \in DOMAIN main : Joined(main, index)[x] = main[x]
      BY <3>1 DEF Joined, NoWires
    <3>3. WiresAll(opt, environ, Exports, Joined(main, index))
      BY <3>1, <3>2 DEF WiresAll, Methods
    <3> QED
      BY <3>3 DEF main, index
  <2> QED
    BY <2>3, <2>4
<1> QED
  BY BuildInductive, <1>1, PTL
=============================================================================
