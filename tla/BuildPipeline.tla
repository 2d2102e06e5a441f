---------------------------- MODULE BuildPipeline ----------------------------
(***************************************************************************)
(* worker-build's main between taking the build lock and publishing: the   *)
(* steps of Build::init and Build::run and what main does after them, over *)
(* the staging directory, the machine's Rust toolchain, the tool cache and *)
(* the Emscripten SDK.  The build may be killed and begun again with other *)
(* options; another build uses the tool cache at the same time.            *)
(*                                                                         *)
(* A file is the set of files it imports, a set of marks (what has been    *)
(* done to it) and what it wires the names it exports to.                  *)
(* cargo, wasm-bindgen, emcc, wasm-opt and esbuild are        *)
(* external: they are modelled by the files they read and write.           *)
(***************************************************************************)
EXTENDS CrateConfig, WasmExports, ToolCache, Emsdk, Functions

CONSTANTS
  Self,     \* the build that is followed, one of the users of the tool cache
  WorkerVersions,  \* the versions of the worker crate that this worker-build accepts
  Inputs,   \* the builds that are tried: the arguments, the variables that are set
            \* (COREDUMP, CUSTOM_SHIM, RUN_TO_COMPLETION, EMSDK, EMSCRIPTEN), the crate
  Machines  \* the Rust toolchains to begin with

ASSUME SelfAssumption == Self \in User

(* wasm-bindgen exports no name twice: a module that did would not parse.   *)
ASSUME InputsAssumption ==
  \A i \in Inputs : \A d, e \in ToSet(i.crate.decls) :
    IsFunction(d) /\ ~d.marker /\ IsClass(e) => d.name # e.name

ASSUME MachinesAssumption ==
  Machines \subseteq [minor : Nat, rustup : BOOLEAN, targets : SUBSET {Unknown, Emscripten},
                     nightly : SUBSET {"toolchain", "rust-src", Unknown}]

VARIABLES
  todo,   \* the steps of the build that are left
  input,  \* its arguments, environment and crate
  rust,   \* the machine's Rust toolchain
  dir     \* the staging directory: a function from its files

vars == <<cacheVars, sdkVars, todo, input, rust, dir>>

crate == input.crate
environ == input.env
opt == Arranged(Options(input.args), "CUSTOM_SHIM" \in environ)

Path == {"index.js", "index_bg.js", "index_bg.wasm", "index.wasm", "package.json", ".gitignore", "snippets", "shim.js",
         "worker/shim.js", "worker/shim.mjs", "worker/index_bg.js", "worker/index.wasm", "worker/snippets"}
Wasm == {"index_bg.wasm", "worker/index.wasm"}

Joined(f, g) == [x \in DOMAIN f \cup DOMAIN g |-> IF x \in DOMAIN f THEN f[x] ELSE g[x]]

NoWires == [w \in {} |-> Unset]
File(imports, marks) == [imports |-> imports, marks |-> marks, wires |-> NoWires]
NoFiles == [p \in {} |-> File({}, {})]
Write(d, p, f) == [q \in DOMAIN d \cup {p} |-> IF q = p THEN f ELSE d[q]]
Delete(d, ps) == Restrict(d, DOMAIN d \ ps)
Rename(d, p, q) == IF p \in DOMAIN d THEN Write(Delete(d, {p}), q, d[p]) ELSE d

TypeOK ==
  /\ CacheTypeOK /\ SdkTypeOK
  /\ input \in Inputs
  /\ DOMAIN dir \subseteq Path
  /\ \A p \in DOMAIN dir : dir[p].imports \subseteq Path
  /\ rust.targets \subseteq {Unknown, Emscripten}
  /\ rust.nightly \subseteq {"toolchain", "rust-src", Unknown}

-----------------------------------------------------------------------------
(* The steps, in the order of the code.                                     *)
PreprocessSteps(o) ==
  <<"rustc", "config", "target", "nightly", "libs", "wasm-bindgen">>
    \o (IF o.emscripten THEN <<"emsdk">> ELSE <<>>)

\* Mutant of ProcessSteps: the package directory is made after the bindings.
ProcessStepsDirLast(o) ==
  (IF o.emscripten THEN <<"cargo", "collect">>
   ELSE <<"cargo", "bindings">> \o (IF o.no_opt THEN <<>> ELSE <<"opt">>))
    \o <<"json", "mkdir">>

ProcessSteps(o) ==
  (IF o.emscripten THEN <<"cargo", "mkdir", "collect">>
   ELSE <<"cargo", "mkdir", "bindings">> \o (IF o.no_opt THEN <<>> ELSE <<"opt">>))
    \o <<"json">>

Shimmed(o) == o.emscripten \/ o.module_target

MainSteps(o, e) ==
  PreprocessSteps(o) \o ProcessSteps(o)
    \o (IF "COREDUMP" \in e THEN <<"coredump">> ELSE <<>>)
    \o <<"producers">>
    \o (IF Shimmed(o)
          THEN <<"shim", "wrappers", "package", "esbuild", "bundle", "fix", "tidy", "alias">>
          ELSE <<"esbuild", "legacy move", "legacy shim", "legacy bundle", "legacy tidy", "legacy alias">>)
    \o <<"finish">>

-----------------------------------------------------------------------------
(* The files of the steps, and what each does to them.                      *)
Needs(step) ==
  CASE step = "coredump"      -> {"index.wasm"}
    [] step = "shim"          -> {"index.js"}
    [] step = "wrappers"      -> {"index.js", "shim.js"}
    [] step = "package"       -> {"package.json"}
    [] step = "bundle"        -> {"shim.js", "index.js"}
    [] step = "fix"           -> {"index.js"}
    [] step = "tidy"          -> {"shim.js"}
    [] step = "legacy shim"   -> {"worker/index_bg.js"}
    [] step = "legacy bundle" -> {"worker/shim.js", "worker/index_bg.js", "worker/index.wasm"}
    [] step = "legacy tidy"   -> {"worker/index_bg.js", "worker/shim.js", "index.js"}
    [] OTHER                  -> {}

Exports == DiscoverWasmExports(crate.decls)

Snippets(d, p) == IF crate.snippets THEN Write(d, p, File({}, {})) ELSE d
SnippetsOf(p) == IF crate.snippets THEN {p} ELSE {}

(* wasm-bindgen: a module target has one JavaScript file with a source      *)
(* phase import, a bundler target also index_bg.js.                         *)
RunWasmBindgen(d) ==
  LET args == BindgenArgs(opt, ConfiguredProfile(crate, opt.profile))
      wasm == File({}, (args \cap {"reset-state"}) \cup (IF opt.panic_unwind THEN {"unwind"} ELSE {}))
      glue == {"index_bg.wasm"} \cup SnippetsOf("snippets")
      both == Snippets(Write(d, "index_bg.wasm", wasm), "snippets")
  IN  IF "--target module" \in args
        THEN Write(both, "index.js", File(glue, {"source import"}))
        ELSE Write(Write(both, "index_bg.js", File(SnippetsOf("snippets"), {})),
                   "index.js", File({"index_bg.wasm", "index_bg.js"}, {}))

(* emcc has run wasm-bindgen; its files are copied under the index names.   *)
CollectEmscriptenOutput(d) ==
  Write(Snippets(Write(d, "index_bg.wasm", File({}, {})), "snippets"),
        "index.js", File({"index_bg.wasm"} \cup SnippetsOf("snippets"), {"source import"}))

EachWasm(d, mark) ==
  [p \in DOMAIN d |-> IF p \in Wasm THEN [d[p] EXCEPT !.marks = @ \cup {mark}] ELSE d[p]]

(* Through a temporary file that is renamed over each wasm file.            *)
RunWasmOpt(d) ==
  IF WasmOptArgs(ConfiguredProfile(crate, opt.profile)) = {} THEN d ELSE EachWasm(d, "optimized")

Wired(d, p, wires) == [d EXCEPT ![p].wires = Joined(wires, @)]

\* Mutant of WriteShim: the unwinding shim is for every build with recovery.
WriteShimUnwind(d) ==
  LET kind == IF opt.emscripten THEN {"emscripten shim"} ELSE {"unwind shim"}
  IN  Wired(Write(d, "shim.js", File({"index.js"}, kind)), "shim.js",
            GenerateHandlers(Exports, "RUN_TO_COMPLETION" \in environ))

WriteShim(d) ==
  LET kind == IF opt.emscripten THEN {"emscripten shim"}
              ELSE IF opt.panic_unwind THEN {"unwind shim"}
              ELSE {"resetting shim"}
  IN  Wired(Write(d, "shim.js", File({"index.js"}, kind)), "shim.js",
            GenerateHandlers(Exports, "RUN_TO_COMPLETION" \in environ))

AddExportWrappers(d) == Wired(d, "shim.js", ExportWrappers(Exports, opt.emscripten))

(* esbuild replaces index.js by the bundle of shim.js; the wasm file stays  *)
(* external.                                                                *)
Bundle(d) ==
  Write(d, "index.js", [d["shim.js"] EXCEPT !.imports = {"index_bg.wasm"},
                                           !.marks = @ \cup d["index.js"].marks])

FixWasmImport(d) == [d EXCEPT !["index.js"].marks = @ \ {"source import"}]

\* Mutant of RemoveUnusedFiles: the snippets stay.
RemoveShimOnly(d) == Delete(d, {"shim.js"})

RemoveUnusedFiles(d) == Delete(d, {"shim.js", "snippets"})

CreateWrapperAlias(d, legacy) ==
  IF legacy THEN Write(d, "index.js", File({"worker/shim.mjs"}, {}))
            ELSE Write(d, "worker/shim.mjs", File({"index.js"}, {}))

(* A fresh worker directory takes the glue, the wasm and the snippets.      *)
LegacyMove(d) ==
  Rename(Rename(Rename(Delete(d, {p \in Path : p \in {"worker/shim.js", "worker/shim.mjs"}}),
                       "index_bg.js", "worker/index_bg.js"),
                "index_bg.wasm", "worker/index.wasm"),
         "snippets", "worker/snippets")

(* A custom shim wires what its author has wired, and here the workflows.   *)
LegacyShim(d) ==
  Wired(Write(d, "worker/shim.js", File({"worker/index_bg.js", "worker/index.wasm"}
                                          \cup SnippetsOf("worker/snippets"), {"legacy shim"})),
        "worker/shim.js",
        Joined(LegacyWorkflowExports(Exports),
               IF "CUSTOM_SHIM" \in environ THEN NoWires ELSE LegacyHandlers(Exports)))

LegacyBundle(d) == Write(d, "worker/shim.mjs", [d["worker/shim.js"] EXCEPT !.imports = {"worker/index.wasm"}])

LegacyTidy(d) == Delete(d, {"worker/snippets", "worker/index_bg.js", "worker/shim.js", "index.js"})

Effect(step, d) ==
  CASE step = "mkdir"         -> Write(Delete(d, {"package.json"}), ".gitignore", File({}, {}))
    [] step = "bindings"      -> RunWasmBindgen(d)
    [] step = "collect"       -> CollectEmscriptenOutput(d)
    [] step = "opt"           -> RunWasmOpt(d)
    [] step = "json"          -> Write(d, "package.json", File({"index_bg.wasm", "index.js", "index_bg.js"}, {}))
    [] step = "producers"     -> EachWasm(d, "sdk")
    [] step = "shim"          -> WriteShim(d)
    [] step = "wrappers"      -> AddExportWrappers(d)
    [] step = "package"       -> Write(d, "package.json", File({"index_bg.wasm", "index.js"}, {}))
    [] step = "bundle"        -> Bundle(d)
    [] step = "fix"           -> FixWasmImport(d)
    [] step = "tidy"          -> RemoveUnusedFiles(d)
    [] step = "alias"         -> CreateWrapperAlias(d, FALSE)
    [] step = "legacy move"   -> LegacyMove(d)
    [] step = "legacy shim"   -> LegacyShim(d)
    [] step = "legacy bundle" -> LegacyBundle(d)
    [] step = "legacy tidy"   -> LegacyTidy(d)
    [] step = "legacy alias"  -> CreateWrapperAlias(d, TRUE)
    [] OTHER                  -> d

(* A supported worker, and some supported wasm-bindgen: here every Version. *)
CheckLibVersions(lock) ==
  RequireLib(lock, "worker", WorkerVersions) /\ RequireLib(lock, "wasm-bindgen", Version)
BindgenVersion(lock) == PackageVersion(lock, "wasm-bindgen")

(* The conditions under which a step that meets no external error succeeds. *)
Passes(step) ==
  /\ Needs(step) \subseteq DOMAIN dir
  /\ CASE step = "rustc"       -> CheckRustcVersion(rust)
       [] step = "config"      -> IF opt.emscripten THEN ResolveBinTarget(crate, opt.bin) # Unset
                                                    ELSE CheckCrateType(crate)
       [] step = "libs"        -> CheckLibVersions(crate.lock)
       [] step = "bindings"    -> bin[BindgenVersion(crate.lock)] = "whole"
       [] step = "shim"        -> Exports.ok
       [] step = "wrappers"    -> ValidWorkflows(Exports)
       [] step = "legacy shim" -> /\ Exports.ok /\ ValidWorkflows(Exports)
                                  /\ LegacyShimAccepts(Exports, "CUSTOM_SHIM" \in environ, crate.placeholders)
       [] OTHER                -> TRUE

-----------------------------------------------------------------------------
Init ==
  /\ CacheInit /\ SdkInit
  /\ todo = <<>> /\ input \in Inputs /\ rust \in Machines /\ dir = NoFiles

Building == todo # <<>>
Current(steps) == Building /\ Head(todo) \in steps
Advance == todo' = Tail(todo)
Over == todo' = <<>> /\ dir' = NoFiles

(* A build begins, on a machine whose Rust may have been changed since the  *)
(* last one: main refuses --panic-unwind with --emscripten.                 *)
Start(i) ==
  /\ ~Building /\ input' = i
  /\ LET o == Arranged(Options(i.args), "CUSTOM_SHIM" \in i.env) IN
       todo' = IF o.emscripten /\ o.panic_unwind THEN <<>> ELSE MainSteps(o, i.env)
  /\ rust' \in Machines
  /\ UNCHANGED <<cacheVars, sdkVars, dir>>

(* A step on the staging directory.                                         *)
RunStep ==
  /\ Building /\ ~Current({"wasm-bindgen", "emsdk", "target", "nightly", "finish"})
  /\ Passes(Head(todo))
  /\ dir' = Effect(Head(todo), dir) /\ Advance
  /\ UNCHANGED <<cacheVars, sdkVars, input, rust>>

(* Any step may meet an I/O error or an exit status.                        *)
FailStep ==
  /\ Building /\ ~Current({"wasm-bindgen", "emsdk"})
  /\ Over
  /\ UNCHANGED <<cacheVars, sdkVars, input, rust>>

(* The steps that install what the machine's Rust lacks.                    *)
PrepareRust ==
  /\ Current({"target", "nightly"})
  /\ \E r \in IF Head(todo) = "target"
                  THEN CheckForWasm32Target(rust, IF opt.emscripten THEN Emscripten ELSE Unknown)
                ELSE IF opt.panic_unwind THEN CheckNightlyPrerequisites(rust)
                ELSE {Done(rust)} :
       /\ rust' = r.rust
       /\ IF r.ok THEN Advance /\ UNCHANGED dir ELSE Over
  /\ UNCHANGED <<cacheVars, sdkVars, input>>

(* step_install_wasm_bindgen waits for the tool cache.  An emscripten build *)
(* with debug information needs a recent enough version.                    *)
InstallWasmBindgen ==
  /\ Current({"wasm-bindgen"})
  /\ \/ CallGetBinary(Self, BindgenVersion(crate.lock)) /\ UNCHANGED <<todo, dir>>
     \/ GetBinaryStep(Self) /\ UNCHANGED <<todo, dir>>
     \/ /\ Return(Self)
        /\ IF At(Self, "found") /\ (opt.emscripten /\ opt.profile # "release" => crate.keepDebug)
             THEN Advance /\ UNCHANGED dir ELSE Over
  /\ UNCHANGED <<sdkVars, input, rust>>

ProvisionEmscripten ==
  /\ Current({"emsdk"})
  /\ \/ CallProvision(environ \cap {"EMSDK", "EMSCRIPTEN"}) /\ UNCHANGED <<todo, dir>>
     \/ ProvisionStep /\ UNCHANGED <<todo, dir>>
     \/ /\ prov.at \in {"ready", "failed"} /\ LeaveProvision
        /\ IF ProvAt("ready") THEN Advance /\ UNCHANGED dir ELSE Over
  /\ UNCHANGED <<cacheVars, input, rust>>

(* BuildLock::finish publishes dir; the staging directory is gone.          *)
Finish ==
  /\ Current({"finish"})
  /\ Over
  /\ UNCHANGED <<cacheVars, sdkVars, input, rust>>

Crash ==
  /\ Building /\ Over
  /\ IF At(Self, "idle") THEN UNCHANGED cacheVars ELSE Killed(Self)
  /\ IF ProvAt("idle") THEN UNCHANGED sdkVars ELSE LeaveProvision
  /\ UNCHANGED <<input, rust>>

(* Another build uses the tool cache.                                       *)
OtherBuild ==
  /\ \E u \in User \ {Self} :
       \/ \E v \in Version : CallGetBinary(u, v)
       \/ GetBinaryStep(u) \/ Return(u) \/ Killed(u)
  /\ UNCHANGED <<sdkVars, todo, input, rust, dir>>

Next ==
  \/ \E i \in Inputs : Start(i)
  \/ RunStep \/ FailStep \/ PrepareRust \/ InstallWasmBindgen \/ ProvisionEmscripten
  \/ Finish \/ Crash \/ OtherBuild

Spec == Init /\ [][Next]_vars

-----------------------------------------------------------------------------
(* Whatever the options, a step finds the files that the steps before it    *)
(* should have left; the exception is the coredump rewriter, whose          *)
(* index.wasm no step writes.                                               *)
InputsAreThere == Building /\ ~Current({"coredump"}) => Needs(Head(todo)) \subseteq DOMAIN dir

Publishing == Current({"finish"})

Reachable == LET step(ps) == ps \cup UNION {dir[p].imports : p \in ps \cap DOMAIN dir}
             IN  step(step(step({"index.js", "worker/shim.mjs"})))

(* What is published is closed and clean: from both entry points every      *)
(* import leads to a published file, nothing else is published but the      *)
(* package's description and its .gitignore, no import is left that the     *)
(* runtime cannot load, and every wasm file carries the producers' mark.    *)
PublishedIsWhole ==
  Publishing =>
    /\ Reachable \cup {"package.json", ".gitignore"} = DOMAIN dir
    /\ \A p \in DOMAIN dir : "source import" \notin dir[p].marks
    /\ \A p \in DOMAIN dir \cap Wasm : "sdk" \in dir[p].marks

(* A published shim never asks the wasm for what it was not built with: the *)
(* default shim resets the state, the unwinding one expects panics caught.  *)
ShimFitsWasm ==
  Publishing =>
    \A p \in DOMAIN dir, w \in DOMAIN dir \cap Wasm :
      /\ "resetting shim" \in dir[p].marks => "reset-state" \in dir[w].marks
      /\ "unwind shim" \in dir[p].marks => "unwind" \in dir[w].marks

(* The published module wires every export of the crate: a workflow's class *)
(* through a subclass and its marker to no method, the events with their    *)
(* env and ctx, those that the legacy shim knows where it is used.  A custom*)
(* shim is asked for the workflows only.                                    *)
EntrypointsAreWired ==
  Publishing =>
    LET wires == Joined(dir["worker/shim.mjs"].wires, dir["index.js"].wires) IN
    /\ \A w \in Exported(Exports.workflows) :
         w \in DOMAIN wires /\ wires[w] \in {"workflow subclass", "proxied workflow subclass"}
    /\ Shimmed(opt) => Methods(Exports.workflows) \cap DOMAIN wires = {}
    /\ "CUSTOM_SHIM" \notin environ =>
         /\ Exported(Exports.classes) \cup Methods(Exports.functions) \subseteq DOMAIN wires
         /\ \A f \in Exports.functions \cap Events :
              wires[<<"method", f>>] # "as it is" \/ (~Shimmed(opt) /\ f \in {"email", "connect"})

(* cargo is run only where the toolchain it will use has the target, and    *)
(* with panic=unwind what -Zbuild-std needs, whatever the machine had.      *)
CompilerIsReady ==
  Current({"cargo"}) =>
    IF opt.panic_unwind
      THEN rust.nightly = {"toolchain", "rust-src", Unknown}
      ELSE CargoBuild(opt, opt.bin, WorkerTokioFeature(crate)).target \in rust.targets

(* worker-build/src/lockfile.rs:86 of several matching packages, where      *)
(* there is a root package: "returns the package matching the root package  *)
(* name only": of two versions of worker the one the crate itself depends   *)
(* on, which Cargo.lock then names, is checked.                             *)
RootVersionIsChecked ==
  Current({"libs"}) =>
    \A d \in crate.lock.dependencies :
      d.name = "worker" /\ d.version # Unset => PackageVersion(crate.lock, "worker") = d.version
=============================================================================
