------------------------------ MODULE Inference ------------------------------
(***************************************************************************)
(* analyzeProgram of compiler/ptjs_native.js: the types of the parameters  *)
(* and results of the functions of a program, found by walking the bodies  *)
(* until no result type changes.  The body of the program is not walked.   *)
(*                                                                         *)
(* A program is the parser's tree, as records whose k is the node kind;    *)
(* expr is the condition or the collection of a compound statement.  A     *)
(* name is a sequence of words: f_para is <<"f", "para">>.  A type is a    *)
(* string; "" stands for null, a type not known yet.                       *)
(***************************************************************************)
EXTENDS Naturals, Sequences, TLC

Unknown == ""
Default == "i64"   \* default_param_type and default_return_type of snippets/ir/types.json
Or(type, other) == IF type = Unknown THEN other ELSE type

ItemTypes == {"i64", "bool", "null", "str"}
ArrayOf == [i64 |-> "array<i64>", bool |-> "array<bool>", null |-> "array<null>", str |-> "array<str>"]
ArrayTypes == {ArrayOf[t] : t \in ItemTypes}
ArrayItem(type) ==
  IF type \in ArrayTypes THEN CHOOSE t \in ItemTypes : ArrayOf[t] = type ELSE Unknown

ArithmeticOps == {"+", "-"}
Comparisons == {"==", "<"}
Logical == {"&&", "||"}

Conflict == "__conflict__"
MergeType(current, next) ==
  CASE current = Unknown -> next
    [] next = Unknown -> current
    [] current = next -> current
    [] OTHER -> Conflict

(***************************************************************************)
(* A literal: its type, or Conflict for an array of mixed items.           *)
(***************************************************************************)
ScalarType == [Number |-> "i64", Bool |-> "bool", Null |-> "null", String |-> "str"]
LiteralType(e) ==
  IF e.k # "Array" THEN ScalarType[e.k]
  ELSE IF e.items = <<>> THEN ArrayOf["null"]
  ELSE IF \A i \in DOMAIN e.items : e.items[i].k = e.items[1].k
  THEN ArrayOf[ScalarType[e.items[1].k]] ELSE Conflict

Literals == {"Number", "Bool", "Null", "String", "Array"}

(***************************************************************************)
(* inferExpressionType.  The call cases write the callee's parameter       *)
(* types, so the table ft is threaded through; ok turns FALSE where the    *)
(* code stops with a compile error.  The operand of a unary operator other *)
(* than observar is not looked at.                                         *)
(***************************************************************************)
UnaryType(op) == CASE op \in {"-", "tamanho de"} -> "i64"
                   [] op = "!" -> "bool"
                   [] op \in {"tipo de", "identificar"} -> "str"

RECURSIVE InferExpr(_, _, _), InferArgs(_, _, _, _, _)
InferExpr(e, env, ft) ==
  CASE e.k \in Literals -> [type |-> LiteralType(e), ft |-> ft, ok |-> LiteralType(e) # Conflict]
    [] e.k = "Identifier" ->
         [type |-> IF e.name \in DOMAIN env THEN env[e.name] ELSE Unknown, ft |-> ft, ok |-> TRUE]
    [] e.k = "Unary" /\ e.op # "observar" -> [type |-> UnaryType(e.op), ft |-> ft, ok |-> TRUE]
    [] e.k = "Unary" /\ e.op = "observar" ->
         LET in == InferExpr(e.expr, env, ft) IN [in EXCEPT !.type = Or(@, "i64")]
    [] e.k = "Binary" ->
         LET l == InferExpr(e.left, env, ft)
             r == InferExpr(e.right, env, l.ft)
         IN [type |-> IF e.op \in ArithmeticOps THEN "i64" ELSE "bool",
             ft   |-> r.ft,
             ok   |-> l.ok /\ r.ok /\ (e.op \in ArithmeticOps => "str" \notin {l.type, r.type})]
    [] e.k = "Call" ->
         IF e.callee \notin DOMAIN ft \/ Len(e.args) # Len(ft[e.callee].params)
         THEN [type |-> Unknown, ft |-> ft, ok |-> FALSE]
         ELSE LET r == InferArgs(e, 1, env, ft, TRUE)
              IN [r EXCEPT !.type = Or(r.ft[e.callee].returns, Default)]

InferArgs(e, i, env, ft, ok) ==
  IF i > Len(e.args) \/ ~ok THEN [type |-> Unknown, ft |-> ft, ok |-> ok]
  ELSE LET arg    == InferExpr(e.args[i], env, ft)
           merged == MergeType(arg.ft[e.callee].params[i], Or(arg.type, Default))
       IN InferArgs(e, i + 1, env, [arg.ft EXCEPT ![e.callee].params[i] = merged],
                    arg.ok /\ merged # Conflict)

(***************************************************************************)
(* inferStatements on the body of function f: the table, whether the type  *)
(* of a result changed, whether no error was met, and the environment.  A  *)
(* block works on a copy of it, so what it defines ends with it.           *)
(***************************************************************************)
Bind(env, name, type) == (name :> type) @@ env
Infers(ft, changed, ok, env) == [ft |-> ft, changed |-> changed, ok |-> ok, env |-> env]

(* e is the type of the statement's expression, in the three below. *)
InferAssign(s, e, env) ==
  LET known == s.name \in DOMAIN env
      type == Or(e.type, IF known THEN env[s.name] ELSE Default)
  IN Infers(e.ft, FALSE, e.ok /\ (known => env[s.name] = type),
            IF known THEN env ELSE Bind(env, s.name, type))

InferReturn(e, env, f) ==
  LET merged == MergeType(e.ft[f].returns, Or(e.type, Default))
  IN Infers([e.ft EXCEPT ![f].returns = merged], merged # e.ft[f].returns,
            e.ok /\ merged # Conflict, env)

Iterable(e) == e.type = "str" \/ e.type \in ArrayTypes
ItemOf(type) == IF type = "str" THEN "str" ELSE ArrayItem(type)

(* The result of a block, back in env; both blocks of If; and what follows. *)
Leave(block, env, ok) == [block EXCEPT !.env = env, !.ok = @ /\ ok]
Noting(changed, r) == [r EXCEPT !.changed = @ \/ changed]

RECURSIVE InferStatements(_, _, _, _), InferElse(_, _, _, _), InferStatement(_, _, _, _), InferRest(_, _, _)
InferElse(s, then, env, f) == Noting(then.changed, Leave(InferStatements(s.else, env, f, then.ft), env, then.ok))
InferStatement(s, e, env, f) ==
  CASE s.k = "Define" -> Infers(e.ft, FALSE, e.ok, Bind(env, s.name, Or(e.type, Default)))
    [] s.k = "Assign" -> InferAssign(s, e, env)
    [] s.k \in {"Show", "ExprStmt"} -> Infers(e.ft, FALSE, e.ok, env)
    [] s.k = "Return" -> InferReturn(e, env, f)
    [] s.k = "If" -> InferElse(s, Leave(InferStatements(s.then, env, f, e.ft), env, e.ok), env, f)
    [] s.k = "While" -> Leave(InferStatements(s.body, env, f, e.ft), env, e.ok)
    [] s.k = "ForEach" ->
         LET inner == Bind(env, s.binding, ItemOf(e.type))
         IN Leave(InferStatements(s.body, inner, f, e.ft), inner, e.ok /\ Iterable(e))
InferRest(rest, here, f) ==
  IF here.ok THEN Noting(here.changed, InferStatements(rest, here.env, f, here.ft)) ELSE here
InferStatements(body, env, f, ft) ==
  IF body = <<>> THEN Infers(ft, FALSE, TRUE, env)
  ELSE InferRest(Tail(body),
         InferStatement(Head(body),
           IF Head(body).k = "Return" /\ Head(body).void
           THEN [type |-> ft[f].returns, ft |-> ft, ok |-> TRUE]
           ELSE InferExpr(Head(body).expr, env, ft), env, f), f)

-----------------------------------------------------------------------------
(* analyzeProgram.                                                         *)

MaxPasses == 6

EmptyTable(functions) ==
  [f \in {functions[i].name : i \in DOMAIN functions} |->
     LET fn == CHOOSE g \in {functions[i] : i \in DOMAIN functions} : g.name = f
     IN [params |-> [i \in DOMAIN fn.params |-> Unknown], returns |-> Unknown]]

(* One function of one pass: its body under the parameter types known so far. *)
InferFunction(fn, ft) ==
  LET Param(x) == CHOOSE i \in DOMAIN fn.params : fn.params[i] = x
      env == [x \in {fn.params[i] : i \in DOMAIN fn.params} |->
                Or(ft[fn.name].params[Param(x)], Default)]
  IN InferStatements(fn.body, env, fn.name, ft)

(* A pass over the functions from number i on. *)
RECURSIVE InferPass(_, _, _)
InferPass(functions, i, ft) ==
  IF i > Len(functions) THEN Infers(ft, FALSE, TRUE, <<>>)
  ELSE LET here == InferFunction(functions[i], ft)
       IN IF here.ok THEN Noting(here.changed, InferPass(functions, i + 1, here.ft)) ELSE here

(* Passes until no result type changes, at most MaxPasses of them. *)
RECURSIVE InferPasses(_, _, _)
InferPasses(functions, pass, ft) ==
  LET r == InferPass(functions, 1, ft)
  IN IF r.ok /\ r.changed /\ pass < MaxPasses THEN InferPasses(functions, pass + 1, r.ft) ELSE r

(* What is still unknown after the last pass takes the default type. *)
WithDefaults(ft) ==
  [f \in DOMAIN ft |-> [params |-> [i \in DOMAIN ft[f].params |-> Or(ft[f].params[i], Default)],
                        returns |-> Or(ft[f].returns, Default)]]

(* A name defined twice is an error too. *)
AnalyzeProgram(functions) ==
  LET r == InferPasses(functions, 1, EmptyTable(functions))
      distinct == \A i, j \in DOMAIN functions : functions[i].name = functions[j].name => i = j
  IN [ok |-> distinct /\ r.ok, ft |-> WithDefaults(r.ft)]
=============================================================================
