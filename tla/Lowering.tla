------------------------------ MODULE Lowering -------------------------------
(***************************************************************************)
(* LoweringContext of compiler/ptjs_native.js: the IR of a function, from  *)
(* its tree and the types Inference found.                                 *)
(*                                                                         *)
(* A context c holds what the JavaScript object holds: the instructions so *)
(* far, the locals, and the counters of temporaries and labels; ok turns   *)
(* FALSE where the code stops with a compile error.  Lowering an           *)
(* expression gives the context after it, its temporary and its type.      *)
(***************************************************************************)
EXTENDS Inference

NewContext(name, returns, params, ptypes) ==
  [name |-> name, returns |-> returns, code |-> <<>>, ntemp |-> 0, nlabel |-> 0, ok |-> TRUE,
   locals |-> [x \in {params[i] : i \in DOMAIN params} |->
                 LET i == CHOOSE j \in DOMAIN params : params[j] = x
                 IN [slot |-> i - 1, type |-> ptypes[i]]],
   nlocal |-> Len(params)]

-----------------------------------------------------------------------------
(* The helpers of LoweringContext.                                         *)

Emitted(c, inst) == [c EXCEPT !.code = Append(@, inst)]
EmitAll(c, insts, temps) == [c EXCEPT !.code = @ \o insts, !.ntemp = @ + temps]
Require(c, cond) == [c EXCEPT !.ok = @ /\ cond]

(* newTemp and emit of an instruction that writes the new temporary. *)
EmitTemp(c, type, inst) ==
  [c |-> EmitAll(c, <<inst @@ [dest |-> c.ntemp]>>, 1), temp |-> c.ntemp, type |-> type]

AddLocal(c, name, type) ==
  [c EXCEPT !.locals = Bind(@, name, [slot |-> c.nlocal, type |-> type]), !.nlocal = @ + 1]

EnsureLocal(c, name, type) ==
  IF name \in DOMAIN c.locals THEN Require(c, c.locals[name].type = type)
                              ELSE AddLocal(c, name, type)

(***************************************************************************)
(* newLabel, for the label n places on: the symbol of the function, the    *)
(* prefix and the counter joined by underscores.  A slip: the counter      *)
(* stands still.                                                           *)
(***************************************************************************)
LabelNotCounted(c, prefix, n) == c.name \o prefix \o <<n>>
Label(c, prefix, n) == c.name \o prefix \o <<c.nlabel + n>>
Counted(c, n) == [c EXCEPT !.nlabel = @ + n]

LabelInst(l) == [op |-> "label", name |-> l]
Jmp(l) == [op |-> "jmp", label |-> l]
Br(cond, t, e) == [op |-> "br", cond |-> cond, then |-> t, else |-> e]
LoadLocal(c, name) ==
  EmitTemp(c, c.locals[name].type, [op |-> "load_local", slot |-> c.locals[name].slot])
StoredLocal(c, name, temp) ==
  Emitted(c, [op |-> "store_local", slot |-> c.locals[name].slot, value |-> temp])
CallRuntime(c, type, fn, args) ==
  EmitTemp(c, type, [op |-> "call_runtime", symbol |-> fn, args |-> args])

(* emitConstValue and defaultValue. *)
ConstValue(c, e) == EmitTemp(c, LiteralType(e), [op |-> "const", value |-> e])
DefaultLiteral(type) == CASE type = "str" -> [k |-> "String", value |-> <<>>]
                          [] type = "bool" -> [k |-> "Bool", value |-> 0]
                          [] type = "i64" -> [k |-> "Number", value |-> 0]
                          [] OTHER -> [k |-> "Null", value |-> 0]
DefaultValue(c, type) == [ConstValue(c, DefaultLiteral(type)) EXCEPT !.type = type]

IntLike == {"i64", "bool", "null"}
Sized(type) == type = "str" \/ type \in ArrayTypes
LenSymbolOfList(type) == "array_len"   \* a slip
LenSymbol(type) == IF type = "str" THEN "strlen" ELSE "array_len"
ItemSymbol(type) == IF type = "str" THEN "char_at" ELSE "array_get"

-----------------------------------------------------------------------------
(* lowerExpr.                                                              *)

(* A Unary, whose operand has been lowered to v. *)
LowerUnary(op, v) ==
  CASE op = "-" -> EmitTemp(Require(v.c, v.type = "i64"), "i64", [op |-> "neg", value |-> v.temp])
    [] op = "!" -> EmitTemp(Require(v.c, v.type \in IntLike), "bool", [op |-> "not", value |-> v.temp])
    [] op = "tamanho de" ->
         CallRuntime(Require(v.c, Sized(v.type)), "i64", LenSymbol(v.type), <<v.temp>>)
    [] op = "tipo de" -> ConstValue(v.c, [k |-> "String", value |-> <<v.type>>])
    [] op = "identificar" -> CallRuntime(v.c, "str", "identify", <<v.temp>>)
    [] op = "observar" -> CallRuntime(v.c, v.type, "observe", <<v.temp>>)

(* A Binary, whose operands have been lowered to l and then r. *)
NotZero(dest, temp) == [op |-> "nonzero", dest |-> dest, value |-> temp]
BinInst(op, l, r) == [op |-> "bin", bin |-> op, left |-> l, right |-> r]
LowerLogical(op, l, r) ==
  LET c == Require(r.c, {l.type, r.type} \subseteq IntLike)
      t == r.c.ntemp
  IN EmitTemp(EmitAll(c, <<NotZero(t, l.temp), NotZero(t + 1, r.temp)>>, 2), "bool", BinInst(op, t, t + 1))
LowerBinary(op, l, r) ==
  LET numbers == l.type = "i64" /\ r.type = "i64"
      same == op = "==" /\ l.type = r.type /\ l.type \in IntLike
  IN IF op \in Logical THEN LowerLogical(op, l, r)
     ELSE EmitTemp(Require(r.c, numbers \/ same), IF op \in ArithmeticOps THEN "i64" ELSE "bool",
                   BinInst(op, l.temp, r.temp))

RECURSIVE LowerExpr(_, _, _), LowerRight(_, _, _), LowerArgs(_, _, _, _, _)
LowerExpr(e, c, ft) ==
  CASE e.k \in Literals -> ConstValue(Require(c, LiteralType(e) # Conflict), e)
    [] e.k = "Identifier" ->
         IF e.name \in DOMAIN c.locals THEN LoadLocal(c, e.name)
         ELSE [c |-> Require(c, FALSE), temp |-> 0, type |-> Unknown]
    [] e.k = "Unary" -> LowerUnary(e.op, LowerExpr(e.expr, c, ft))
    [] e.k = "Binary" -> LowerRight(e, LowerExpr(e.left, c, ft), ft)
    [] e.k = "Call" ->
         IF e.callee \notin DOMAIN ft \/ Len(e.args) # Len(ft[e.callee].params)
         THEN [c |-> Require(c, FALSE), temp |-> 0, type |-> Unknown]
         ELSE LowerArgs(e, 1, c, ft, <<>>)

LowerRight(e, l, ft) == LowerBinary(e.op, l, LowerExpr(e.right, l.c, ft))

(* The arguments from number i on, then the call. *)
PassArg(e, i, v, ft) == Require(v.c, v.type = ft[e.callee].params[i])
LowerArgs(e, i, c, ft, temps) ==
  IF i > Len(e.args)
  THEN EmitTemp(c, ft[e.callee].returns, [op |-> "call", callee |-> e.callee, args |-> temps])
  ELSE LET v == LowerExpr(e.args[i], c, ft)
       IN LowerArgs(e, i + 1, PassArg(e, i, v, ft), ft, Append(temps, v.temp))

-----------------------------------------------------------------------------
(* lowerStatement, one operator per compound statement; v is its condition *)
(* or collection, lowered.                                                 *)

RECURSIVE LowerStatements(_, _, _)
LowerIf(s, v, ft) ==
  LET then == Label(v.c, <<"then">>, 0)
      else == Label(v.c, <<"else">>, 1)
      end  == Label(v.c, <<"ifend">>, 2)
      c1 == EmitAll(Require(Counted(v.c, 3), v.type \in IntLike),
                    <<Br(v.temp, then, else), LabelInst(then)>>, 0)
      c2 == EmitAll(LowerStatements(s.then, c1, ft), <<Jmp(end), LabelInst(else)>>, 0)
  IN Emitted(LowerStatements(s.else, c2, ft), LabelInst(end))

(* Where a false condition goes; the slip tests it again. *)
WhileExitAgain(c) == Label(c, <<"loop">>, 0)
WhileExit(c) == Label(c, <<"loopend">>, 2)

(* c is the context before the loop, v the condition lowered after its label. *)
WhileHead(c) == Emitted(Counted(c, 3), LabelInst(Label(c, <<"loop">>, 0)))
LowerWhile(s, c, v, ft) ==
  LET body == Label(c, <<"body">>, 1)
      c1 == EmitAll(Require(v.c, v.type \in IntLike), <<Br(v.temp, body, WhileExit(c)), LabelInst(body)>>, 0)
  IN EmitAll(LowerStatements(s.body, c1, ft),
             <<Jmp(Label(c, <<"loop">>, 0)), LabelInst(Label(c, <<"loopend">>, 2))>>, 0)

(***************************************************************************)
(* The collection and the index live in locals of their own, both reloaded *)
(* at the head of each iteration; the type of the collection is not        *)
(* checked here.                                                           *)
(***************************************************************************)
Each(c) == <<"__each", c.nlabel>>
Iter(c) == <<"__iter", c.nlabel>>
ForEachLocals(v) == AddLocal(AddLocal(v.c, Each(v.c), v.type), Iter(v.c), "i64")
FirstIndexOne == [k |-> "Number", value |-> 1]   \* a slip
FirstIndex == [k |-> "Number", value |-> 0]
ForEachStart(c, v) ==
  EmitAll(c, <<[op |-> "store_local", slot |-> c.nlocal - 2, value |-> v.temp],
               [op |-> "const", dest |-> c.ntemp, value |-> FirstIndex],
               [op |-> "store_local", slot |-> c.nlocal - 1, value |-> c.ntemp]>>, 1)

(* The temporary the collection is read from in the loop: t holds it, reloaded; *)
(* the slip goes on with the one from before the loop.                          *)
CollectionStale(v, t) == v.temp
Collection(v, t) == t

(* c has just been through ForEachStart: its last two locals are the loop's. *)
ForEachHead(v, c) ==
  LET t == c.ntemp IN
  EmitAll(Counted(c, 3),
    <<LabelInst(Label(c, <<"foreach">>, 0)),
      [op |-> "load_local", dest |-> t, slot |-> c.nlocal - 1],
      [op |-> "load_local", dest |-> t + 1, slot |-> c.nlocal - 2],
      [op |-> "call_runtime", dest |-> t + 2, symbol |-> LenSymbol(v.type), args |-> <<Collection(v, t + 1)>>],
      BinInst("<", t, t + 2) @@ [dest |-> t + 3],
      Br(t + 3, Label(c, <<"foreach", "body">>, 1), Label(c, <<"foreach", "end">>, 2)),
      LabelInst(Label(c, <<"foreach", "body">>, 1))>>, 4)

(* The item of index temporary t is stored in the local of the binding. *)
ForEachItem(s, v, c, t) ==
  EmitAll(c, <<[op |-> "call_runtime", dest |-> c.ntemp, symbol |-> ItemSymbol(v.type),
                args |-> <<Collection(v, t + 1), t>>],
               [op |-> "store_local", slot |-> c.locals[s.binding].slot, value |-> c.ntemp]>>, 1)

(* The next index. *)
ForEachAdvance(c, t, slot) ==
  EmitAll(c, <<[op |-> "const", dest |-> c.ntemp, value |-> [k |-> "Number", value |-> 1]],
               BinInst("+", t, c.ntemp) @@ [dest |-> c.ntemp + 1],
               [op |-> "store_local", slot |-> slot, value |-> c.ntemp + 1]>>, 2)

LowerForEach(s, v, c, ft) ==
  LET body == EnsureLocal(ForEachHead(v, c), s.binding, ItemOf(v.type))
      c1 == LowerStatements(s.body, ForEachItem(s, v, body, c.ntemp), ft)
  IN EmitAll(ForEachAdvance(c1, c.ntemp, c.nlocal - 1),
             <<Jmp(Label(c, <<"foreach">>, 0)), LabelInst(Label(c, <<"foreach", "end">>, 2))>>, 0)

(* The statements that end with the value of their expression, lowered to v. *)
LowerSimple(s, v) ==
  CASE s.k = "Define" -> StoredLocal(EnsureLocal(v.c, s.name, v.type), s.name, v.temp)
    [] s.k = "Assign" ->
         IF s.name \notin DOMAIN v.c.locals THEN Require(v.c, FALSE)
         ELSE StoredLocal(Require(v.c, v.c.locals[s.name].type = v.type), s.name, v.temp)
    [] s.k = "Show" -> Emitted(v.c, [op |-> "print", value |-> v.temp])
    [] s.k = "ExprStmt" -> v.c
    [] s.k = "Return" ->
         Emitted(Require(v.c, v.type = v.c.returns), [op |-> "ret", value |-> v.temp])

StartForEach(v) == ForEachStart(ForEachLocals(v), v)
LowerStatement(s, c, ft) ==
  CASE s.k = "If" -> LowerIf(s, LowerExpr(s.expr, c, ft), ft)
    [] s.k = "While" -> LowerWhile(s, c, LowerExpr(s.expr, WhileHead(c), ft), ft)
    [] s.k = "ForEach" ->
         LET v == LowerExpr(s.expr, c, ft) IN LowerForEach(s, v, StartForEach(v), ft)
    [] s.k = "Return" /\ s.void -> LowerSimple(s, DefaultValue(c, c.returns))
    [] OTHER -> LowerSimple(s, LowerExpr(s.expr, c, ft))

LowerStatements(body, c, ft) ==
  IF body = <<>> THEN c ELSE LowerStatements(Tail(body), LowerStatement(Head(body), c, ft), ft)

(* finish: control never runs off the end of the code; the slip forgets it. *)
FinishOpen(c) == c
Finish(c) ==
  IF c.code # <<>> /\ c.code[Len(c.code)].op = "ret" THEN c
  ELSE LET v == DefaultValue(c, c.returns) IN Emitted(v.c, [op |-> "ret", value |-> v.temp])

(* lowerProgram: the functions and main, by name. *)
MaxParams == 6
Main == <<"main">>
LowerFunction(fn, ft) ==
  LET c == NewContext(fn.name, ft[fn.name].returns, fn.params, ft[fn.name].params)
  IN Require(Finish(LowerStatements(fn.body, c, ft)), Len(fn.params) <= MaxParams)
LowerMain(body, ft) == Finish(LowerStatements(body, NewContext(Main, "i64", <<>>, <<>>), ft))
LowerProgram(p, ft) ==
  LET contexts == {LowerFunction(p.functions[i], ft) : i \in DOMAIN p.functions} \cup {LowerMain(p.body, ft)}
  IN [ok |-> \A c \in contexts : c.ok,
      unit |-> [f \in {c.name : c \in contexts} |-> CHOOSE c \in contexts : c.name = f]]

(* A program through both: ok is FALSE after a compile error. *)
CompileProgram(p) ==
  LET a == AnalyzeProgram(p.functions)
      l == LowerProgram(p, a.ft)
  IN IF a.ok THEN [prog |-> p, ok |-> l.ok, unit |-> l.unit] ELSE [prog |-> p, ok |-> FALSE, unit |-> <<>>]

-----------------------------------------------------------------------------
(* tempUses and tempDefs, and the interval allocateTemps gives a temporary. *)

TempUses(inst) ==
  CASE inst.op \in {"neg", "not", "nonzero", "store_local", "print", "ret"} -> {inst.value}
    [] inst.op = "bin" -> {inst.left, inst.right}
    [] inst.op \in {"call", "call_runtime"} -> {inst.args[i] : i \in DOMAIN inst.args}
    [] inst.op = "br" -> {inst.cond}
    [] OTHER -> {}
TempDefs(inst) == IF "dest" \in DOMAIN inst THEN {inst.dest} ELSE {}

Mentions(code, t) == {i \in DOMAIN code : t \in TempUses(code[i]) \cup TempDefs(code[i])}
InInterval(code, t, pc) == (\E i \in Mentions(code, t) : i <= pc) /\ (\E i \in Mentions(code, t) : pc <= i)
=============================================================================
