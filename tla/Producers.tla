------------------------------ MODULE Producers ------------------------------
(***************************************************************************)
(* A wasm file on its way through the tools of a build: each of them may   *)
(* add a custom section, its own producers section too, and worker-build,  *)
(* of one version or another, enters itself into the first that it finds.  *)
(***************************************************************************)
EXTENDS WasmSection

CONSTANTS
  MaxSections,  \* bound: sections that other tools add
  Releases,     \* the versions of worker-build
  Sizes         \* the lengths that are tried

ASSUME ReleasesAssumption == Releases \subseteq Name
ASSUME SizesAssumption == Sizes \subseteq Nat

VARIABLES
  wasm,     \* the bytes of the file
  sections  \* that other tools have added

producersVars == <<wasm, sections>>

Group(field, names) ==
  [field |-> <<field>>, values |-> [i \in DOMAIN names |-> [name |-> <<names[i]>>, version |-> <<49>>]]]
Producers(groups) == EncodeProducersSection(groups)
Many(n) == Producers(<<Group(108, [i \in 1..n |-> 10 + i])>>)

(* Sections with and without producers, with worker-build among them, with  *)
(* lengths of one byte and of two, and one that is cut short.               *)
Long == <<0, 130, 1>> \o EncodeName(<<65>>) \o [i \in 1..128 |-> 7]
Code == <<1, 2, 0, 0>>
CutShort == <<0, 9, 1>>
Sections ==
  {Long, Code, CutShort, Producers(<<Group(108, <<82>>)>>), Producers(<<Group(115, <<97>>), Group(108, <<82>>)>>),
   Producers(<<Group(115, <<119>>)>>), Producers(<<Group(108, <<82>>), Group(115, <<119>>)>>), Many(27), Many(28), Many(30)}

NoFile == <<>>
ProducersInit == wasm \in {Header, <<0, 97>>} /\ sections = 0

AddSection(section) ==
  /\ sections < MaxSections /\ sections' = sections + 1
  /\ wasm' = wasm \o section

(* inject_workers_rs_sdk_metadata: a file that cannot be parsed fails the   *)
(* build, which gives up what it has staged.                                *)
Inject(version) ==
  LET merged == MergeProducersSection(wasm, Sdk(version)) IN
  IF merged.ok THEN wasm' = merged.val /\ UNCHANGED sections
  ELSE wasm' = NoFile /\ sections' = 0

ProducersNext ==
  \/ \E s \in Sections : AddSection(s)
  \/ \E v \in Releases : Inject(v)

ProducersSpec == ProducersInit /\ [][ProducersNext]_producersVars

-----------------------------------------------------------------------------
(* Wherever the sections are, worker-build leaves all other bytes as they   *)
(* were and is found in a section that can be read back; so is every length *)
(* that is written.                                                         *)
FileStaysWhole ==
  wasm # NoFile =>
    /\ \A v \in Releases : MergeIsClean(wasm, Sdk(v))
    /\ \A n \in Sizes \cup {Len(wasm)} : IsU32(n) => U32RoundTrips(n)
=============================================================================
