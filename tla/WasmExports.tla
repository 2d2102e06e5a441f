----------------------------- MODULE WasmExports -----------------------------
(***************************************************************************)
(* What worker-build reads off the JavaScript that wasm-bindgen generates, *)
(* and what it writes into the shim for it.  The text is abstracted to its *)
(* export declarations, records of the form of the declaration, the name   *)
(* and whether that has the prefix of a Workflow entrypoint marker (the    *)
(* name is then the class behind it).  Generated text is abstracted to how *)
(* each exported name is wired.                                            *)
(***************************************************************************)
EXTENDS Naturals, FiniteSets, Sequences, SequencesExt

SystemFns == {"__wbg_reset_state", "__worker_init_state"}

Events == {"fetch", "queue", "scheduled", "email", "connect"}

(* is_valid_javascript_identifier: a marker's class may be no identifier.   *)
ValidIdentifier(name) == name # "not-an-identifier"

(* The declarations of these forms are functions: export function, export   *)
(* async function, export { local as name }.                                *)
IsFunction(d) == d.form \in {"function", "async function", "alias"}
IsClass(d) == d.form \in {"class", "var class"}

\* Mutant of DiscoverWasmExports: a marker is taken for a handler, too.
DiscoverMarkersAsHandlers(decls) ==
  LET all     == ToSet(decls)
      markers == SelectSeq(decls, LAMBDA d : IsFunction(d) /\ d.marker)
  IN  [ ok        |-> TRUE,
        functions |-> {d.name : d \in {e \in all : IsFunction(e)}} \ SystemFns,
        classes   |-> {d.name : d \in {e \in all : IsClass(e)}},
        workflows |-> {d.name : d \in ToSet(markers)} ]

(* A marker with an invalid or repeated class is an error.                  *)
DiscoverWasmExports(decls) ==
  LET all     == ToSet(decls)
      markers == SelectSeq(decls, LAMBDA d : IsFunction(d) /\ d.marker)
  IN  [ ok        |-> /\ \A d \in ToSet(markers) : ValidIdentifier(d.name)
                      /\ Cardinality({d.name : d \in ToSet(markers)}) = Len(markers),
        functions |-> {d.name : d \in {e \in all : IsFunction(e) /\ ~e.marker}} \ SystemFns,
        classes   |-> {d.name : d \in {e \in all : IsClass(e)}},
        workflows |-> {d.name : d \in ToSet(markers)} ]

(* Every Workflow marker needs its class.                                   *)
ValidWorkflows(exports) == exports.workflows \subseteq exports.classes

(* How the shim wires the methods of its Entrypoint and what it exports.    *)
Methods(names) == {"method"} \X names
Exported(names) == {"export"} \X names

(* generate_handlers: the runtime's events are called with the entrypoint's *)
(* env and ctx, everything else is an RPC method and passed on as it is.    *)
GenerateHandlers(exports, runToCompletion) ==
  [m \in Methods(exports.functions) |->
     IF m[2] = "fetch" /\ runToCompletion THEN "with env and ctx, kept alive"
     ELSE IF m[2] \in Events THEN "with env and ctx"
     ELSE "as it is"]

(* render_export_wrappers: plain without abort recovery (emscripten).       *)
ExportWrappers(exports, plain) ==
  [c \in Exported(exports.classes) |->
     IF c[2] \in exports.workflows /\ plain THEN "workflow subclass"
     ELSE IF c[2] \in exports.workflows THEN "proxied workflow subclass"
     ELSE IF plain THEN "rebased on DurableObject"
     ELSE "proxied"]

(* The legacy shim: three events are wired, whether exported or not; every  *)
(* other export that is not listed or private becomes a method as it is,    *)
(* and all are exported again.                                              *)
LegacyHandlers(exports) ==
  LET all == exports.functions \cup exports.classes IN
  [w \in Methods({"fetch", "queue", "scheduled"} \cup all) \cup Exported(all) |->
     IF w \in Methods({"fetch", "queue", "scheduled"}) THEN "with env and ctx" ELSE "as it is"]

LegacyWorkflowExports(exports) == [c \in Exported(exports.workflows) |-> "workflow subclass"]

(* main_legacy::process: a custom shim must take the workflows' text.       *)
LegacyShimAccepts(exports, customShim, placeholders) ==
  exports.workflows = {} \/ ~customShim \/ placeholders
=============================================================================
