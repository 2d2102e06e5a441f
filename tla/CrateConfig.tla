----------------------------- MODULE CrateConfig -----------------------------
(***************************************************************************)
(* What worker-build decides from its command line, from the crate it      *)
(* builds and from the Rust toolchain of the machine, before and while it  *)
(* runs cargo and wasm-bindgen.  Names and paths are abstract; versions    *)
(* are numbers.  An operator that runs rustup returns the set of possible  *)
(* results: a command may succeed or fail.                                 *)
(***************************************************************************)
EXTENDS Naturals, FiniteSets, Sequences, TLC

Unset == "unset"

Unknown == "wasm32-unknown-unknown"
Emscripten == "wasm32-unknown-emscripten"

MinRustcMinor == 77

-----------------------------------------------------------------------------
(* The command line: BuildOptions after parse_wasm_pack_opts.               *)

(* The profile flags exclude each other; release is the default.            *)
Profile(flags) ==
  IF "dev" \in flags THEN "dev"
  ELSE IF "profiling" \in flags THEN "profiling"
  ELSE IF "custom" \in flags THEN "custom"
  ELSE "release"

ProfileDir(profile) ==
  CASE profile \in {"release", "profiling"} -> "release"
    [] profile = "dev"                      -> "debug"
    [] OTHER                                -> profile

(* args: the arguments after the program name, flags with their values.  A  *)
(* first positional argument that looks like a flag goes to cargo.          *)
Options(args) ==
  [ emscripten    |-> "--emscripten" \in args,
    panic_unwind  |-> "--panic-unwind" \in args,
    no_opt        |-> "--no-opt" \in args,
    recovery      |-> "--no-panic-recovery" \notin args,
    profile       |-> Profile(args \cap {"dev", "profiling", "custom"}),
    disable_dts   |-> TRUE,
    target        |-> "module",
    out_name      |-> "index",
    bin           |-> IF "--bin" \in args THEN "main" ELSE Unset,
    extra_options |-> args \cap {"--features"},
    extra_args    |-> {},
    module_target |-> FALSE ]

(* What main changes in the builder before it runs it.                      *)
Arranged(o, customShim) ==
  LET module_target == o.recovery /\ ~customShim
      arranged == [o EXCEPT !.module_target = module_target]
  IN  IF o.emscripten THEN arranged
      ELSE IF module_target THEN [arranged EXCEPT !.extra_args = {"reset-state", "abort-handler"}]
      ELSE [arranged EXCEPT !.target = "bundler"]

-----------------------------------------------------------------------------
(* [package.metadata.wasm-pack.profile.*]: an option is <<>> where it is    *)
(* not set; wasm-opt is enabled or not, or a list of arguments.             *)
Settings == {"debug_js_glue", "demangle", "dwarf", "omit_default_module_path", "split_linked_modules"}

ProfileDefaults(profile) ==
  [ bindgen  |-> [s \in Settings |-> \/ s = "debug_js_glue" /\ profile = "dev"
                                     \/ s = "demangle"],
    wasm_opt |-> IF profile = "dev" THEN <<>> ELSE <<"enabled", TRUE>> ]

UpdateWithDefaults(given, defaults) ==
  [ bindgen  |-> [s \in Settings |-> IF given.bindgen[s] = <<>> THEN defaults.bindgen[s]
                                                                ELSE given.bindgen[s][1]],
    wasm_opt |-> IF given.wasm_opt = <<>> THEN defaults.wasm_opt ELSE given.wasm_opt ]

ConfiguredProfile(crate, profile) ==
  UpdateWithDefaults(crate.metadata, ProfileDefaults(profile))

(* None, or the arguments of wasm-opt.                                      *)
WasmOptArgs(configured) ==
  CASE configured.wasm_opt = <<>>                 -> {}
    [] configured.wasm_opt = <<"enabled", FALSE>> -> {}
    [] configured.wasm_opt = <<"enabled", TRUE>>  -> {"-O"}
    [] OTHER                                      -> {"explicit"}

TargetArg == [module |-> "--target module", bundler |-> "--target bundler"]

BindgenArgs(o, configured) ==
  LET flag(s, name) == IF configured.bindgen[s] THEN {name} ELSE {}
  IN  {"--out-dir", TargetArg[o.target], "--out-name"}
      \cup (IF o.disable_dts THEN {"--no-typescript"} ELSE {"--typescript"})
      \cup flag("debug_js_glue", "--debug")
      \cup ({"--no-demangle"} \ flag("demangle", "--no-demangle"))
      \cup flag("dwarf", "--keep-debug")
      \cup flag("omit_default_module_path", "--omit-default-module-path")
      \cup flag("split_linked_modules", "--split-linked-modules")
      \cup o.extra_args

-----------------------------------------------------------------------------
(* The crate: the crate types of its library and its bin targets.           *)
CheckCrateType(crate) == "cdylib" \in crate.lib

(* The bin target that an emscripten build links, or Unset for an error.    *)
ResolveBinTarget(crate, bin) ==
  IF "cdylib" \in crate.lib THEN Unset
  ELSE IF bin # Unset /\ bin \in crate.bins THEN bin
  ELSE IF bin # Unset THEN Unset
  ELSE IF Cardinality(crate.bins) = 1 THEN CHOOSE b \in crate.bins : TRUE
  ELSE Unset

WorkerTokioFeature(crate) == "experimental_tokio" \in crate.features

-----------------------------------------------------------------------------
(* Cargo.lock: packages in the order of the file, and the dependencies of   *)
(* the root package, which carry a version where the lockfile has several.  *)
(* A version is a number of its own for each minor release.                 *)
Versions(lock, package) == SelectSeq(lock.packages, LAMBDA p : p.name = package)

(* get_package_version compares a dependency with the name asked for and    *)
(* the character after the next with a space: it takes a dependency whose   *)
(* name is longer by one, and finds a space in front of its version.        *)
LongerByOne(package) == package \o "s"

PackageVersion(lock, package) ==
  IF \E d \in lock.dependencies : d.name = LongerByOne(package) /\ d.version # Unset THEN "error"
  ELSE IF Versions(lock, package) = <<>> THEN Unset
  ELSE Head(Versions(lock, package)).version

(* require_lib: at least min within the same major release.                 *)
RequireLib(lock, package, compatible) == PackageVersion(lock, package) \in compatible

-----------------------------------------------------------------------------
(* The machine's Rust: minor version (0: no rustc), whether rustup manages  *)
(* it, the targets of the default toolchain, and the parts of nightly.      *)
CheckRustcVersion(rust) == rust.minor >= MinRustcMinor

Failed(rust) == [ok |-> FALSE, rust |-> rust]
Done(rust) == [ok |-> TRUE, rust |-> rust]

\* Mutant of CheckForWasm32Target: it is always the same target.
CheckForWasm32UnknownTarget(rust, target) ==
  IF Unknown \in rust.targets THEN {Done(rust)}
  ELSE IF rust.rustup THEN {Failed(rust), Done([rust EXCEPT !.targets = @ \cup {Unknown}])}
  ELSE {Failed(rust)}

CheckForWasm32Target(rust, target) ==
  IF target \in rust.targets THEN {Done(rust)}
  ELSE IF rust.rustup THEN {Failed(rust), Done([rust EXCEPT !.targets = @ \cup {target}])}
  ELSE {Failed(rust)}

(* Each part that is missing is installed; the first failure ends it.       *)
InstallNightlyPart(results, part) ==
  UNION { IF ~r.ok \/ part \in r.rust.nightly
            THEN {r}
            ELSE {Failed(r.rust), Done([r.rust EXCEPT !.nightly = @ \cup {part}])}
          : r \in results }

(* rustc +nightly answers only where rustup has the toolchain, or installs  *)
(* it to answer.                                                            *)
NightlySysroot(rust) ==
  IF "toolchain" \in rust.nightly THEN {Done(rust)}
  ELSE {Failed(rust)} \cup (IF rust.rustup
                              THEN {Done([rust EXCEPT !.nightly = @ \cup {"toolchain"}])}
                              ELSE {})

CheckNightlyPrerequisites(rust) ==
  InstallNightlyPart(
    InstallNightlyPart(
      InstallNightlyPart(NightlySysroot(rust), "toolchain"), "rust-src"), Unknown)

-----------------------------------------------------------------------------
(* The cargo command of cargo_build_wasm.                                   *)
CargoBuild(o, bin, tokio) ==
  [ toolchain |-> IF o.panic_unwind THEN "nightly" ELSE "default",
    links     |-> IF o.emscripten THEN bin ELSE "lib",
    profile   |-> IF o.profile = "profiling" THEN "release" ELSE o.profile,
    target    |-> IF o.emscripten THEN Emscripten ELSE Unknown,
    env       |-> {"WASM_BINDGEN_USE_JS_SYS"}
                    \cup (IF o.emscripten THEN {"LINKER", "EM_CONFIG", "EMCC_CFLAGS", "PATH"} ELSE {}),
    rustflags |-> (IF o.panic_unwind THEN {"-Cpanic=unwind"} ELSE {})
                    \cup (IF o.emscripten THEN {"static", "exnref", "-Clink-arg"} ELSE {})
                    \cup (IF o.emscripten /\ tokio THEN {"tokio_unstable"} ELSE {}),
    options   |-> o.extra_options
                    \cup (IF o.panic_unwind THEN {"-Zbuild-std"} ELSE {}) ]
=============================================================================
