------------------------------ MODULE Databases ------------------------------
(***************************************************************************)
(* sql.rs and d1/mod.rs: the cursor over the rows of a Durable Object's    *)
(* query, one position behind every handle and iterator made of it; D1's   *)
(* prepared statements, bound one by one or for a batch; the values that   *)
(* both send.  What SQLite and D1 do with a statement is external.         *)
(***************************************************************************)
EXTENDS Integers, Sequences, SequencesExt, FiniteSetsExt

CONSTANTS
  MaxRows,     \* rows of a query's result
  MaxPrepared, \* statements a worker prepares, bound ones included
  MaxSafe      \* stands for Number.MAX_SAFE_INTEGER, 2^53 - 1

ASSUME DatabasesAssumption == MaxRows \in Nat /\ MaxPrepared \in Nat /\ MaxSafe \in Nat \ {0}

VARIABLES
  cursor,   \* the rows of the last exec and how many were taken
  taken,    \* history: what each row that was taken, or the end, was answered with
  prepared, \* D1: the statements a worker holds; what each was bound to, and meant to be
  answers   \* D1: what the last batch answered, and what for

dbVars == <<cursor, taken, prepared, answers>>

RowKinds == {"plain", "untyped", "odd"}   \* as T expects; not so; a value SQL has no type for
NoCursor == [open |-> FALSE, rows |-> <<>>, at |-> 0]
DbInit == cursor = NoCursor /\ taken = <<>> /\ prepared = <<>> /\ answers = [of |-> <<>>, got |-> <<>>]

-----------------------------------------------------------------------------
(* exec: a cursor, or the error that SQLite threw.                          *)
Exec(rows, ok) ==
  /\ ~cursor.open /\ taken = <<>>
  /\ cursor' = IF ok THEN [open |-> TRUE, rows |-> rows, at |-> 0] ELSE cursor
  /\ UNCHANGED <<taken, prepared, answers>>

Rest == [i \in 1..Len(cursor.rows) - cursor.at |-> cursor.at + i]

(* The rows are taken with what the call answers for them.                  *)
Take(rows, answer) ==
  /\ cursor' = [cursor EXCEPT !.at = @ + Len(rows)]
  /\ taken' = taken \o [i \in 1..Len(rows) |-> <<answer, rows[i]>>]
  /\ UNCHANGED <<prepared, answers>>

AtEnd == taken # <<>> /\ Last(taken)[1] = "none"
End == ~AtEnd /\ taken' = Append(taken, <<"none", 0>>) /\ UNCHANGED <<cursor, prepared, answers>>

\* Mutant of NextRow: a row that does not convert is None.
NextRowOk(unfit) ==
  /\ cursor.open
  /\ IF Rest = <<>> THEN End
     ELSE Take(<<Head(Rest)>>, IF cursor.rows[Head(Rest)] \in unfit THEN "none" ELSE "row")

(* next of the typed, the raw and the cursor's own iterator: Some(Err) for  *)
(* a row that does not convert to what the iterator yields.                 *)
NextRow(unfit) ==
  /\ cursor.open
  /\ IF Rest = <<>> THEN End
     ELSE Take(<<Head(Rest)>>, IF cursor.rows[Head(Rest)] \in unfit THEN "error" ELSE "row")

(* JavaScript's next may throw, when SQLite fails on the way; whether more  *)
(* rows come after that is SQLite's.  The raw iterator answers Some(Err),   *)
(* the others do not catch it: the handler ends there.                      *)
NextThrows(raw) ==
  /\ cursor.open /\ Rest # <<>>
  /\ IF raw THEN cursor' \in {cursor, [cursor EXCEPT !.rows = SubSeq(@, 1, cursor.at)]} /\ UNCHANGED taken
            ELSE cursor' = NoCursor /\ taken' = <<>>
  /\ UNCHANGED <<prepared, answers>>

(* to_array takes every row that is left, whichever of them fails it.       *)
ToArray ==
  /\ cursor.open /\ Rest # <<>>
  /\ Take(Rest, IF \E i \in ToSet(Rest) : cursor.rows[i] = "untyped" THEN "error" ELSE "row")

(* one: of more or fewer rows JavaScript throws, and nobody here catches.   *)
One ==
  /\ cursor.open /\ taken = <<>>
  /\ IF Len(Rest) = 1
       THEN Take(Rest, IF cursor.rows[Head(Rest)] = "untyped" THEN "error" ELSE "row")
       ELSE cursor' = NoCursor /\ UNCHANGED <<taken, prepared, answers>>

DropCursor ==
  /\ cursor.open /\ cursor' = NoCursor /\ taken' = <<>> /\ UNCHANGED <<prepared, answers>>

-----------------------------------------------------------------------------
(* JavaScript's view of a value: i64 as f64 rounds above MaxSafe; the blobs *)
(* of SQL are a Uint8Array of their own, those of D1 an Array of numbers.   *)
RoundTo(n, m) ==
  LET low == (n \div m) * m over == n - low
      up == 2 * over > m \/ (2 * over = m /\ (n \div m) % 2 = 1)
  IN  IF up THEN low + m ELSE low
AsF64(i) ==
  LET n == IF i < 0 THEN -i ELSE i
      r == IF n <= MaxSafe + 1 THEN n ELSE IF n <= 2 * (MaxSafe + 1) THEN RoundTo(n, 2) ELSE RoundTo(n, 4)
  IN  IF i < 0 THEN -r ELSE r

SqlToJs(v) ==
  CASE v[1] = "Null"    -> <<"null", 0>>      [] v[1] = "Boolean" -> <<"boolean", v[2]>>
    [] v[1] = "Integer" -> <<"number", AsF64(v[2])>>
    [] v[1] = "Float"   -> <<"number", v[2]>> [] v[1] = "String"  -> <<"string", v[2]>>
    [] v[1] = "Blob"    -> <<"Uint8Array", v[2]>>

SqlFromJs(js) ==
  CASE js[1] \in {"null", "undefined"} -> <<"Null", 0>>
    [] js[1] = "boolean" -> <<"Boolean", js[2]>> [] js[1] = "string" -> <<"String", js[2]>>
    [] js[1] = "number"  -> IF js[2] \in -MaxSafe..MaxSafe THEN <<"Integer", js[2]>> ELSE <<"Float", js[2]>>
    [] js[1] \in {"Uint8Array", "ArrayBuffer"} -> <<"Blob", js[2]>>
    [] OTHER -> <<"error", 0>>

TryFromI64(i) == IF i \in -MaxSafe..MaxSafe THEN <<"Integer", i>> ELSE <<"error", 0>>

D1ToJs(type) ==
  CASE type = "Null" -> "null" [] type \in {"Real", "Integer"} -> "number" [] type = "Text" -> "string"
    [] type = "Boolean" -> "boolean" [] type = "Blob" -> "Array"

(* query!: what serializes as missing is null, for D1 refuses undefined.    *)
MacroToJs(value) == IF value = "missing" THEN "null" ELSE value

(* cast_to_d1_error: the errors whose message starts with D1; all() does    *)
(* not go through it.                                                       *)
CastToD1Error(error) == IF error = "D1" THEN "D1Error" ELSE "JsError"
StatementError(method, error) == IF method = "all" THEN "JsError" ELSE CastToD1Error(error)

-----------------------------------------------------------------------------
Held == {i \in 1..Len(prepared) : ~prepared[i].gone}
Statement(args) == [args |-> args, meant |-> args, gone |-> FALSE]

(* prepare, of the database or of a session.                                *)
Prepare ==
  /\ Len(prepared) < MaxPrepared
  /\ prepared' = Append(prepared, Statement(<<>>))
  /\ UNCHANGED <<cursor, taken, answers>>

Bindable(args) == "undefined" \notin ToSet(args)

(* bind consumes the statement, whether or not D1 binds the values.         *)
Bind(i, args) ==
  /\ i \in Held /\ Len(prepared) < MaxPrepared
  /\ LET rest == [prepared EXCEPT ![i].gone = TRUE] IN
       prepared' = IF Bindable(args) THEN Append(rest, Statement(args)) ELSE rest
  /\ UNCHANGED <<cursor, taken, answers>>

\* Mutant of BindRefs: the old statement is bound too.
BindRefsInPlace(i, batch) ==
  /\ i \in Held /\ Len(prepared) + Len(batch) <= MaxPrepared
  /\ IF \A k \in 1..Len(batch) : Bindable(batch[k])
       THEN prepared' = [prepared EXCEPT ![i].args = Last(batch)] \o [k \in 1..Len(batch) |-> Statement(batch[k])]
       ELSE UNCHANGED prepared
  /\ UNCHANGED <<cursor, taken, answers>>

(* bind_refs and batch_bind: a statement more for each set of values, none  *)
(* if D1 refuses one; the old statement stays as it was.                    *)
BindRefs(i, batch) ==
  /\ i \in Held /\ Len(prepared) + Len(batch) <= MaxPrepared
  /\ IF \A k \in 1..Len(batch) : Bindable(batch[k])
       THEN prepared' = prepared \o [k \in 1..Len(batch) |-> Statement(batch[k])]
       ELSE UNCHANGED prepared
  /\ UNCHANGED <<cursor, taken, answers>>

(* D1 runs the statements in a transaction and answers them in their order. *)
Ran(statements) == [k \in 1..Len(statements) |-> prepared[statements[k]].args]

(* batch consumes its statements; run, first, all and raw keep theirs.      *)
RunBatch(statements, ok) ==
  /\ ToSet(statements) \subseteq Held /\ statements # <<>>
  /\ answers' = [of |-> [k \in 1..Len(statements) |-> prepared[statements[k]].meant],
                 got |-> IF ok THEN Ran(statements) ELSE <<<<StatementError("batch", "D1")>>>>]
  /\ prepared' = [i \in 1..Len(prepared) |-> [prepared[i] EXCEPT !.gone = @ \/ i \in ToSet(statements)]]
  /\ UNCHANGED <<cursor, taken>>

Run_(i, method, error) ==
  /\ i \in Held
  /\ answers' = [of |-> <<prepared[i].meant>>,
                 got |-> IF error = "none" THEN Ran(<<i>>) ELSE <<<<StatementError(method, error)>>>>]
  /\ UNCHANGED <<cursor, taken, prepared>>

Arguments == {<<D1ToJs("Integer")>>, <<D1ToJs("Text")>>, <<MacroToJs("missing")>>, <<"undefined">>}

SqlNext ==
  \/ \E n \in 0..MaxRows : \E rows \in [1..n -> RowKinds], ok \in BOOLEAN : Exec(rows, ok)
  \/ NextRow({"untyped"}) \/ NextRow({"odd"}) \/ NextRow({})
  \/ \E raw \in BOOLEAN : NextThrows(raw)
  \/ ToArray \/ One \/ DropCursor

D1Next ==
  \/ Prepare
  \/ \E i \in 1..MaxPrepared :
       \/ \E a \in Arguments : Bind(i, a) \/ BindRefs(i, <<a>>) \/ \E b \in Arguments : BindRefs(i, <<a, b>>)
       \/ \E m \in {"run", "all", "first", "raw"}, e \in {"none", "D1", "other"} : Run_(i, m, e)
       \/ \E j \in 1..MaxPrepared, ok \in BOOLEAN : RunBatch(IF i = j THEN <<i>> ELSE <<i, j>>, ok)

DbNext == SqlNext \/ D1Next
DbSpec == DbInit /\ [][DbNext]_dbVars

DbTypeOK ==
  /\ cursor.at \in 0..Len(cursor.rows) /\ Len(cursor.rows) <= MaxRows
  /\ Len(prepared) <= MaxPrepared

-----------------------------------------------------------------------------
(* Whatever handles and iterators a worker takes the rows of a query with,  *)
(* each row is answered once and in order, as itself or as an error, and    *)
(* None is said only when no row is left that SQLite has not failed before. *)
RowsInOrder ==
  cursor.open =>
    LET rows == IF AtEnd THEN Front(taken) ELSE taken IN
      /\ Len(rows) = cursor.at
      /\ \A k \in 1..Len(rows) : rows[k] \in {<<"row", k>>, <<"error", k>>}
      /\ AtEnd => cursor.at = Len(cursor.rows)

(* A statement is run with what it was bound to, whatever was bound from it *)
(* since, and a batch is answered statement by statement, or by an error.   *)
StatementsStayApart == answers.got = answers.of \/ answers.got \in {<<<<"D1Error">>>>, <<<<"JsError">>>>}

(* An integer that try_from_i64 takes comes back the same; an integer that  *)
(* comes back is exactly what was sent, unless a Float was.                 *)
IntegersAreExact(i) ==
  /\ TryFromI64(i)[1] = "Integer" => SqlFromJs(SqlToJs(TryFromI64(i))) = <<"Integer", i>>
  /\ SqlFromJs(SqlToJs(<<"Integer", i>>)) \in {<<"Integer", i>>, <<"Float", AsF64(i)>>}

DatabasesKeepFaith == RowsInOrder /\ StatementsStayApart
=============================================================================
