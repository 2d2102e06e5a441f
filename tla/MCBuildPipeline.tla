--------------------------- MODULE MCBuildPipeline ---------------------------
(* One build after another, in every mode of the command line, on a machine *)
(* where another one uses the tool cache, or on one without another where   *)
(* the Emscripten SDK is provisioned; or, instead, one wasm file's producers *)
(* section, byte by byte.                                                   *)
EXTENDS BuildPipeline, Producers

Decl(form, name, marker) == [form |-> form, name |-> name, marker |-> marker]

NoMetadata == [bindgen |-> [s \in Settings |-> <<>>], wasm_opt |-> <<>>]

Package(name, version) == [name |-> name, version |-> version]

Lock(workers, dependencies) ==
  [ packages     |-> [i \in DOMAIN workers |-> Package("worker", workers[i])]
                       \o <<Package("wasm-bindgen", CHOOSE v \in Version : TRUE)>>,
    dependencies |-> dependencies \cup {Package("wasm-bindgen", Unset)} ]

MCWorkerVersions == {"0.9"}
MCReleases == {<<57>>, <<58>>}

Worker ==
  [ lib |-> {"cdylib", "rlib"}, bins |-> {}, features |-> {}, lock |-> Lock(<<"0.9">>, {}), keepDebug |-> TRUE, snippets |-> TRUE, placeholders |-> FALSE,
    metadata |-> NoMetadata,
    decls |-> <<Decl("async function", "fetch", FALSE), Decl("alias", "email", FALSE),
                Decl("function", "__wbg_reset_state", FALSE), Decl("function", "rpc", FALSE),
                Decl("class", "Counter", FALSE)>> ]

Workflows ==
  [Worker EXCEPT !.snippets = FALSE, !.placeholders = TRUE,
                 !.metadata.wasm_opt = <<"enabled", FALSE>>,
                 !.decls = @ \o <<Decl("var class", "Order", FALSE), Decl("function", "Order", TRUE)>>]

Binary == [Workflows EXCEPT !.lib = {"rlib"}, !.bins = {"main"}, !.features = {"experimental_tokio"}]

Broken == [Worker EXCEPT !.decls = @ \o <<Decl("alias", "not-an-identifier", TRUE)>>]

\* The crate depends on the newer one of two workers, or on a crate "workers".
TwoWorkers == [Worker EXCEPT !.lock = Lock(<<"0.5", "0.9">>, {Package("worker", "0.9")})]
OtherName == [Worker EXCEPT !.lock = Lock(<<"0.9">>, {Package("workers", "1.0")})]

Build(args, env, c) == [args |-> args, env |-> env, crate |-> c]

MCInputs ==
  { Build({}, {}, Worker), Build({}, {"RUN_TO_COMPLETION"}, Workflows), Build({}, {"COREDUMP"}, Worker),
    Build({}, {}, Broken), Build({}, {}, TwoWorkers), Build({}, {}, OtherName), Build({"--no-opt", "dev"}, {"CUSTOM_SHIM"}, Workflows),
    Build({"--panic-unwind"}, {}, Worker), Build({"--no-panic-recovery", "custom"}, {}, Workflows),
    Build({"--no-panic-recovery", "profiling"}, {}, Worker),
    Build({"--emscripten"}, {}, Binary), Build({"--emscripten", "dev", "--bin"}, {"EMSCRIPTEN"}, Binary),
    Build({"--emscripten"}, {"EMSDK"}, Binary), Build({"--emscripten"}, {}, Worker), Build({"--emscripten", "--panic-unwind"}, {}, Binary) }

MCMachines ==
  { [minor |-> 80, rustup |-> TRUE, targets |-> {}, nightly |-> {"toolchain"}],
    [minor |-> 76, rustup |-> FALSE, targets |-> {}, nightly |-> {}] }

(* The two kinds of machine; no step leads from one to the other.           *)
Alone == \A u \in User \ {Self} : At(u, "idle")
Shared(i) == "--emscripten" \notin i.args

BuildInit == Init /\ (Shared(input) => sdk = NoSdk) /\ wasm = NoFile /\ sections = 0
BuildNext ==
  /\ wasm = NoFile /\ UNCHANGED producersVars
  /\ Next
  /\ Shared(input)' = Shared(input)
  /\ ~Shared(input) => Alone'

(* While a file is looked at, no build runs.                                *)
FileInit ==
  /\ Init /\ sdk = NoSdk
  /\ input = (CHOOSE i \in Inputs : TRUE) /\ rust = (CHOOSE m \in Machines : TRUE)
  /\ ProducersInit
FileNext == wasm # NoFile /\ ProducersNext /\ UNCHANGED vars

MCInit == BuildInit \/ FileInit
MCNext == BuildNext \/ FileNext
MCSpec == MCInit /\ [][MCNext]_<<vars, producersVars>>
=============================================================================
