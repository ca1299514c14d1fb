------------------------------- MODULE Compile -------------------------------
(***************************************************************************)
(* A program compiled by analyzeProgram and lowerProgram, and its IR run,  *)
(* one instruction at a time, on a stack of activations.                   *)
(*                                                                         *)
(* The machine gives a temporary a place only for the interval that        *)
(* allocateTemps computed for it: its value is gone as soon as control is  *)
(* outside the interval, as another temporary may then have its register.  *)
(***************************************************************************)
EXTENDS Lowering, Integers

CONSTANTS
  Compiled,  \* a set of programs, each with what CompileProgram makes of it
  Fuel       \* bound of the source semantics: iterations of a loop, nested calls

VARIABLES
  prog,     \* the program
  unit,     \* what lowerProgram made of it: function name -> its context
  phase,    \* "run", "done"; "error" if the compiler rejected it, "refused" if the
            \* assembler did; "idle" before it is compiled
  stack,    \* activations of the running program, innermost last
  output    \* what mostrar and observar printed

compileVars == <<prog, unit, phase, stack, output>>

(* Values: numbers, booleans and null are words, null is also the null pointer. *)
Num(n) == [t |-> "int", n |-> n, text |-> <<>>, items |-> <<>>]
Text(s) == [t |-> "str", n |-> 0, text |-> s, items |-> <<>>]
List(s) == [t |-> "arr", n |-> 0, text |-> <<>>, items |-> s]
Junk == [t |-> "junk", n |-> 0, text |-> <<>>, items |-> <<>>]
Truth(b) == IF b THEN Num(1) ELSE Num(0)

ValueOf(e) == CASE e.k = "String" -> Text(e.value)
                [] e.k = "Array" -> List([i \in DOMAIN e.items |-> Num(e.items[i].value)])
                [] OTHER -> Num(e.value)
ApplyBinary(op, a, b) == CASE op = "+" -> Num(a.n + b.n)
                           [] op = "-" -> Num(a.n - b.n)
                           [] op = "<" -> Truth(a.n < b.n)
                           [] op = "==" -> Truth(a.n = b.n)
                           [] op = "&&" -> Truth(a.n # 0 /\ b.n # 0)
                           [] op = "||" -> Truth(a.n # 0 \/ b.n # 0)

(* The runtime's ptjs_strlen, ptjs_array_len, ptjs_string_char_at, ptjs_array_get_*. *)
Identity(v) == Text(<<"id", v.t>>)
ApplyRuntime(symbol, args) ==
  CASE symbol = "strlen" -> Num(Len(args[1].text))
    [] symbol = "array_len" -> Num(Len(args[1].items))
    [] symbol = "char_at" ->
         IF args[2].n \in 0 .. Len(args[1].text) - 1 THEN Text(<<args[1].text[args[2].n + 1]>>) ELSE Text(<<>>)
    [] symbol = "array_get" ->
         IF args[2].n \in 0 .. Len(args[1].items) - 1 THEN args[1].items[args[2].n + 1] ELSE Num(0)
    [] symbol = "identify" -> Identity(args[1])
    [] symbol = "observe" -> args[1]

-----------------------------------------------------------------------------
Activation(f, args) ==
  [fn |-> f, pc |-> 1, tmp |-> <<>>,
   loc |-> [i \in 1 .. unit[f].nlocal |-> IF i <= Len(args) THEN args[i] ELSE Junk]]

(* External: the assembler refuses a file that defines a label twice; the
   labels of all functions are in one name space. *)
LabelsOf(u) == UNION {{<<f, i>> : i \in {j \in DOMAIN u[f].code : u[f].code[j].op = "label"}} : f \in DOMAIN u}
LabelName(u, l) == u[l[1]].code[l[2]].name
Assembles(u) == \A k, l \in LabelsOf(u) : LabelName(u, k) = LabelName(u, l) => k = l

CompileInit ==
  /\ \E r \in Compiled :
       /\ prog = r.prog
       /\ unit = r.unit
       /\ phase = IF ~r.ok THEN "error" ELSE IF Assembles(r.unit) THEN "run" ELSE "refused"
  /\ stack = IF phase = "run" THEN <<Activation(Main, <<>>)>> ELSE <<>>
  /\ output = <<>>

(* No program has been compiled. *)
CompileIdle ==
  /\ phase = "idle" /\ stack = <<>> /\ output = <<>>
  /\ prog = <<>> /\ unit = <<>>

-----------------------------------------------------------------------------
(* The machine: Running is the innermost activation, inst its instruction.     *)

Running == stack[Len(stack)]
CodeOf(f) == unit[f].code
Inst == CodeOf(Running.fn)[Running.pc]
Temp(t) == Running.tmp[t]
Args == [i \in DOMAIN Inst.args |-> Temp(Inst.args[i])]
Runnable == phase = "run" /\ TempUses(Inst) \subseteq DOMAIN Running.tmp

(* Activation a at pc, with the temporaries whose interval covers it. *)
At(a, pc, tmp) ==
  [a EXCEPT !.pc = pc,
            !.tmp = [t \in {u \in DOMAIN tmp : InInterval(CodeOf(a.fn), u, pc)} |-> tmp[t]]]
Replace(a) == stack' = [stack EXCEPT ![Len(stack)] = a]
LabelAt(l) == CHOOSE i \in DOMAIN CodeOf(Running.fn) :
             CodeOf(Running.fn)[i].op = "label" /\ CodeOf(Running.fn)[i].name = l
Set(a, t, v) == At(a, a.pc + 1, (t :> v) @@ a.tmp)

RunOperation ==
  /\ Runnable
  /\ Inst.op \in {"const", "load_local", "neg", "not", "nonzero", "bin", "call_runtime"}
  /\ Replace(Set(Running, Inst.dest,
               CASE Inst.op = "const" -> ValueOf(Inst.value)
                 [] Inst.op = "load_local" -> Running.loc[Inst.slot + 1]
                 [] Inst.op = "neg" -> Num(-Temp(Inst.value).n)
                 [] Inst.op = "not" -> Truth(Temp(Inst.value).n = 0)
                 [] Inst.op = "nonzero" -> Truth(Temp(Inst.value).n # 0)
                 [] Inst.op = "bin" -> ApplyBinary(Inst.bin, Temp(Inst.left), Temp(Inst.right))
                 [] Inst.op = "call_runtime" -> ApplyRuntime(Inst.symbol, Args)))
  /\ output' = IF Inst.op = "call_runtime" /\ Inst.symbol = "observe"
               THEN Append(output, Args[1]) ELSE output
  /\ UNCHANGED <<prog, unit, phase>>

RunStore ==
  /\ Runnable
  /\ Inst.op = "store_local"
  /\ Replace(At([Running EXCEPT !.loc[Inst.slot + 1] = Temp(Inst.value)], Running.pc + 1, Running.tmp))
  /\ UNCHANGED <<prog, unit, phase, output>>

RunPrint ==
  /\ Runnable
  /\ Inst.op = "print"
  /\ output' = Append(output, Temp(Inst.value))
  /\ Replace(At(Running, Running.pc + 1, Running.tmp))
  /\ UNCHANGED <<prog, unit, phase>>

RunJump ==
  /\ Runnable
  /\ Inst.op \in {"label", "jmp", "br"}
  /\ Replace(At(Running, CASE Inst.op = "label" -> Running.pc + 1
                       [] Inst.op = "jmp" -> LabelAt(Inst.label)
                       [] Inst.op = "br" -> LabelAt(IF Temp(Inst.cond).n # 0 THEN Inst.then ELSE Inst.else),
                Running.tmp))
  /\ UNCHANGED <<prog, unit, phase, output>>

RunCall ==
  /\ Runnable
  /\ Inst.op = "call"
  /\ stack' = Append(stack, Activation(Inst.callee, Args))
  /\ UNCHANGED <<prog, unit, phase, output>>

(* ret of a callee resumes the caller after its call; ret of main ends the program. *)
RunReturn ==
  /\ Runnable
  /\ Inst.op = "ret"
  /\ IF Len(stack) = 1 THEN phase' = "done" /\ UNCHANGED stack
     ELSE LET caller == stack[Len(stack) - 1]
              call == CodeOf(caller.fn)[caller.pc]
          IN /\ stack' = Append(SubSeq(stack, 1, Len(stack) - 2),
                                Set(caller, call.dest, Temp(Inst.value)))
             /\ UNCHANGED phase
  /\ UNCHANGED <<prog, unit, output>>

Stop == phase \in {"done", "error", "refused"} /\ UNCHANGED compileVars

CompileNext == RunOperation \/ RunStore \/ RunPrint \/ RunJump
          \/ RunCall \/ RunReturn \/ Stop

CompileSpec == CompileInit /\ [][CompileNext]_compileVars /\ WF_compileVars(CompileNext)

-----------------------------------------------------------------------------
(* What the source says, without types: eager operators, a variable lives  *)
(* in its function, a function that runs off its end returns zero.  ok is  *)
(* FALSE for a variable that has no value and when the fuel is spent.      *)

FunctionNamed(f) == CHOOSE g \in {prog.functions[i] : i \in DOMAIN prog.functions} : g.name = f

RECURSIVE Eval(_, _, _), EvalArgs(_, _, _), Exec(_, _, _), Loop(_, _, _, _), EachOf(_, _, _, _)
Eval(e, env, d) ==
  CASE e.k \in Literals -> [v |-> ValueOf(e), out |-> <<>>, ok |-> TRUE]
    [] e.k = "Identifier" -> [v |-> IF e.name \in DOMAIN env THEN env[e.name] ELSE Junk,
                              out |-> <<>>, ok |-> e.name \in DOMAIN env]
    [] e.k = "Unary" ->
         LET r == Eval(e.expr, env, d) IN
         (CASE e.op = "-" -> [r EXCEPT !.v = Num(-@.n)]
           [] e.op = "!" -> [r EXCEPT !.v = Truth(@.n = 0)]
           [] e.op = "tamanho de" -> [r EXCEPT !.v = Num(Len(@.text) + Len(@.items))]
           [] e.op = "identificar" -> [r EXCEPT !.v = Identity(@)]
           [] e.op = "observar" -> [r EXCEPT !.out = Append(@, r.v)])
    [] e.k = "Binary" ->
         LET l == Eval(e.left, env, d)
             r == Eval(e.right, env, d)
         IN [v |-> ApplyBinary(e.op, l.v, r.v), out |-> l.out \o r.out, ok |-> l.ok /\ r.ok]
    [] e.k = "Call" ->
         LET a == EvalArgs(e.args, env, d)
             fn == FunctionNamed(e.callee)
             Arg(x) == a.vs[CHOOSE i \in DOMAIN fn.params : fn.params[i] = x]
         IN IF d = 0 THEN [v |-> Junk, out |-> <<>>, ok |-> FALSE]
            ELSE LET r == Exec(fn.body, [x \in {fn.params[i] : i \in DOMAIN fn.params} |-> Arg(x)], d - 1)
                 IN [v |-> r.v, out |-> a.out \o r.out, ok |-> a.ok /\ r.ok]

EvalArgs(args, env, d) ==
  IF args = <<>> THEN [vs |-> <<>>, out |-> <<>>, ok |-> TRUE]
  ELSE LET h == Eval(Head(args), env, d)
           t == EvalArgs(Tail(args), env, d)
       IN [vs |-> <<h.v>> \o t.vs, out |-> h.out \o t.out, ok |-> h.ok /\ t.ok]

(* A body: the variables after it, its output, and the value it returned, if it did. *)
Then(r, next) == [next EXCEPT !.out = r.out \o @, !.ok = r.ok /\ @]
Exec(body, env, d) ==
  IF body = <<>> THEN [env |-> env, out |-> <<>>, ok |-> TRUE, returned |-> FALSE, v |-> Num(0)]
  ELSE
    LET s == Head(body)
        e == IF s.k = "Return" /\ s.void THEN [v |-> Num(0), out |-> <<>>, ok |-> TRUE]
             ELSE Eval(s.expr, env, d)
        Plain(env2, out) == [env |-> env2, out |-> out, ok |-> e.ok, returned |-> FALSE, v |-> Num(0)]
        r == CASE s.k \in {"Define", "Assign"} -> Plain(Bind(env, s.name, e.v), e.out)
               [] s.k = "Show" -> Plain(env, Append(e.out, e.v))
               [] s.k = "ExprStmt" -> Plain(env, e.out)
               [] s.k = "Return" -> [Plain(env, e.out) EXCEPT !.returned = TRUE, !.v = e.v]
               [] s.k = "If" -> Then(e, Exec(IF e.v.n # 0 THEN s.then ELSE s.else, env, d))
               [] s.k = "While" -> Loop(s, env, d, Fuel)
               [] s.k = "ForEach" -> Then(e, EachOf(s, e.v, env, <<1, d>>))
    IN IF r.returned \/ ~r.ok THEN r ELSE Then(r, Exec(Tail(body), r.env, d))

Loop(s, env, d, n) ==
  LET e == Eval(s.expr, env, d)
      b == Exec(s.body, env, d)
  IN IF n = 0 \/ ~e.ok \/ e.v.n = 0
     THEN [env |-> env, out |-> e.out, ok |-> e.ok /\ n > 0, returned |-> FALSE, v |-> Num(0)]
     ELSE Then(e, IF b.returned \/ ~b.ok THEN b ELSE Then(b, Loop(s, b.env, d, n - 1)))

EachOf(s, coll, env, at) ==
  LET i == at[1]
      n == Len(coll.text) + Len(coll.items)
      item == IF coll.t = "str" THEN Text(<<coll.text[i]>>) ELSE coll.items[i]
      b == Exec(s.body, Bind(env, s.binding, item), at[2])
  IN IF i > n THEN [env |-> env, out |-> <<>>, ok |-> TRUE, returned |-> FALSE, v |-> Num(0)]
     ELSE IF b.returned \/ ~b.ok THEN b ELSE Then(b, EachOf(s, coll, b.env, <<i + 1, at[2]>>))

Source == Exec(prog.body, <<>>, Fuel)

-----------------------------------------------------------------------------
(* Control stays inside the code of every function on the stack. *)
CompileTypeOK ==
  /\ phase \in {"run", "done", "error", "refused", "idle"}
  /\ \A i \in DOMAIN stack : stack[i].pc \in DOMAIN CodeOf(stack[i].fn)

(***************************************************************************)
(* A compiled program prints what its source says, in the same order.      *)
(***************************************************************************)
PrintsAsSource == phase = "done" /\ Source.ok => output = Source.out

(***************************************************************************)
(* An instruction reads a temporary only while control has stayed inside   *)
(* the interval allocateTemps gave it, through every jump back of a loop:  *)
(* the intervals are positions in the text, not paths.                     *)
(***************************************************************************)
TempsLiveAcrossLoops == phase = "run" => TempUses(Inst) \subseteq DOMAIN Running.tmp

(***************************************************************************)
(* What passes analyzeProgram and lowerProgram hands every operation and   *)
(* runtime function a value of the kind it was compiled for.               *)
(***************************************************************************)
Is(t, kinds) == t \in DOMAIN Running.tmp => Temp(t).t \in kinds \cup {"junk"}
KindsAgree ==
  phase = "run" =>
    CASE Inst.op = "bin" -> Is(Inst.left, {"int"}) /\ Is(Inst.right, {"int"})
      [] Inst.op \in {"neg", "not", "nonzero"} -> Is(Inst.value, {"int"})
      [] Inst.op = "br" -> Is(Inst.cond, {"int"})
      [] Inst.op = "call_runtime" /\ Inst.symbol \in {"strlen", "char_at"} -> Is(Inst.args[1], {"str"})
      [] Inst.op = "call_runtime" /\ Inst.symbol \in {"array_len", "array_get"} ->
           Is(Inst.args[1], {"arr"}) \/ Temp(Inst.args[1]) = Num(0)
      [] OTHER -> TRUE

(***************************************************************************)
(* What lowerProgram accepts the assembler accepts: the labels of newLabel *)
(* are distinct within a function, because they are counted, and between   *)
(* functions, unless one function has the name of another followed by      *)
(* _foreach.  newLabel joins names with underscores, so that the body of a *)
(* para cada of f and that of an enquanto of f_foreach may have one label. *)
(***************************************************************************)
NamesMeet == \E f, g \in DOMAIN unit \ {Main} : g = f \o <<"foreach">>
AssemblesUnlessNamesMeet == phase = "refused" => NamesMeet

(***************************************************************************)
(* A program that ends, as those of Compiled do, ends when compiled: every *)
(* path of the IR leads to a ret.                                          *)
(***************************************************************************)
Ends == phase = "run" ~> phase = "done"

(***************************************************************************)
(* A program is rejected for what it says: whether it compiles does not    *)
(* depend on which of its functions comes first in the file.               *)
(***************************************************************************)
Reversed(fs) == [i \in DOMAIN fs |-> fs[Len(fs) + 1 - i]]
OrderOfFunctionsIrrelevant ==
  phase = "error" =>
    \A r \in Compiled : r.prog = [prog EXCEPT !.functions = Reversed(@)] => ~r.ok

(***************************************************************************)
(* The lowered code is sound to run: whatever path it takes, also around   *)
(* loops, every temporary an instruction reads has been written and holds  *)
(* a value of the kind the instruction was chosen for; and it assembles,   *)
(* each jump having one target, unless two functions are called f and      *)
(* f_foreach.                                                              *)
(***************************************************************************)
RunsSound ==
  /\ CompileTypeOK
  /\ TempsLiveAcrossLoops
  /\ KindsAgree
  /\ AssemblesUnlessNamesMeet
=============================================================================
