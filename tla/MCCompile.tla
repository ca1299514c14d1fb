------------------------------ MODULE MCCompile ------------------------------
(***************************************************************************)
(* Small programs: two functions, a variable x, and a body with one        *)
(* compound statement, or one inside another, around each simple one.      *)
(***************************************************************************)
EXTENDS Compile, FiniteSets

Lit(n) == [k |-> "Number", value |-> n]
Id(x) == [k |-> "Identifier", name |-> <<x>>]
Un(op, e) == [k |-> "Unary", op |-> op, expr |-> e]
Bin(op, l, r) == [k |-> "Binary", op |-> op, left |-> l, right |-> r]
Ask(f, e) == [k |-> "Call", callee |-> f, args |-> <<e>>]
ListOf(a, b) == [k |-> "Array", items |-> <<Lit(a), Lit(b)>>]
TextOf(a, b) == [k |-> "String", value |-> <<a, b>>]

Def(x, e) == [k |-> "Define", name |-> <<x>>, expr |-> e]
Put(x, e) == [k |-> "Assign", name |-> <<x>>, expr |-> e]
Show(e) == [k |-> "Show", expr |-> e]
Do(e) == [k |-> "ExprStmt", expr |-> e]
Ret(e) == [k |-> "Return", void |-> FALSE, expr |-> e]
RetVoid == [k |-> "Return", void |-> TRUE]
If(e, t, u) == [k |-> "If", expr |-> e, then |-> t, else |-> u]
While(e, b) == [k |-> "While", expr |-> e, body |-> b]
For(x, e, b) == [k |-> "ForEach", binding |-> <<x>>, expr |-> e, body |-> b]
Fn(name, body) == [name |-> name, params |-> <<<<"p">>>>, body |-> body]

F == <<"f">>
G == <<"g">>

Less(x, n) == Bin("<", Id(x), Lit(n))
Count(x) == Put(x, Bin("+", Id(x), Lit(1)))

(* Statements that use x only; the loops below make them run several times. *)
Simple == {Show(Id("x")), Count("x"), Show(Ask(F, Id("x"))), Show(Ask(G, Un("-", Id("x")))),
           Do(Bin("+", Un("observar", Id("x")), Un("observar", Lit(5)))),
           Def("y", Un("tamanho de", TextOf("a", "b"))),
           Show(Un("identificar", Bin("&&", Un("!", Id("x")), Bin("==", Id("x"), Lit(0)))))}
Compound(b) ==
  {If(Less("x", 1), b, <<Count("x")>>),
   If(Un("!", Id("x")), <<Count("x")>>, b),
   While(Less("x", 2), b \o <<Count("x")>>),
   For("i", ListOf(3, 4), b \o <<Show(Id("i"))>>),
   For("c", TextOf("a", "b"), <<Show(Id("c"))>> \o b)}
Blocks == {<<s>> : s \in Simple} \cup {<<s, Count("x")>> : s \in Simple}
Bodies == UNION {Compound(b) : b \in Blocks}
          \cup UNION {Compound(<<s>>) : s \in UNION {Compound(<<b>>) : b \in Simple}}

(* Results by every way out: an explicit one, an empty one, the end of the body, a loop. *)
FunctionsF == {Fn(F, <<Ret(Bin("+", Id("p"), Lit(1)))>>),
               Fn(F, <<If(Less("p", 1), <<Ret(Lit(7))>>, <<>>)>>),
               Fn(F, <<For("i", ListOf(0, 1), <<If(Bin("==", Id("i"), Id("p")), <<Ret(Id("i"))>>, <<>>)>>), RetVoid>>)}
FunctionsG == {Fn(G, <<Show(Id("p")), Ret(Ask(F, Id("p")))>>),
               Fn(G, <<If(Less("p", 2), <<Ret(Ask(G, Bin("+", Id("p"), Lit(1))))>>, <<Ret(Id("p"))>>)>>)}

Program(f, g, s) == [functions |-> <<f, g>>, body |-> <<Def("x", Lit(0)), s, Show(Id("x"))>>]
Calls == <<Show(Ask(F, Id("x"))), Show(Ask(G, Id("x")))>>

(* Functions whose labels begin with the same words: f has a para cada, the
   other one, f_foreach or f_loop, an enquanto. *)
Iterates == Fn(F, <<For("i", ListOf(0, 1), <<Show(Id("i"))>>), RetVoid>>)
Repeats(name) == Fn(name, <<Def("y", Lit(0)), While(Less("y", 2), <<Count("y")>>), Ret(Id("y"))>>)
Related == {Program(Iterates, Repeats(name), Show(Bin("+", Ask(F, Id("x")), Ask(name, Id("x"))))) :
              name \in {<<"f", "foreach">>, <<"f", "loop">>}}

MCPrograms ==
  {Program(CHOOSE f \in FunctionsF : TRUE, CHOOSE g \in FunctionsG : TRUE, s) : s \in Bodies}
  \cup {Program(f, g, s) : f \in FunctionsF, g \in FunctionsG, s \in Compound(Calls)}
  \cup Related

(* A collection that is a number, at the top level and in a function. *)
MCLoose == {Program(CHOOSE f \in FunctionsF : TRUE, Fn(G, <<RetVoid>>), For("i", Lit(5), <<>>)),
            Program(CHOOSE f \in FunctionsF : TRUE, Fn(G, <<For("i", Id("p"), <<>>)>>), Count("x"))}

(* A function that returns what one defined after it returns, a boolean; and before. *)
ForwardG == Fn(G, <<Ret(Ask(F, Id("p")))>>)
ForwardF == Fn(F, <<Ret(Less("p", 1))>>)
MCForward == {Program(ForwardG, ForwardF, Do(Ask(G, Id("x")))), Program(ForwardF, ForwardG, Do(Ask(G, Id("x"))))}

Compile(programs) == {CompileProgram(p) : p \in programs}
MCCompiled == Compile(MCPrograms)
MCCompiledLoose == Compile(MCLoose)
MCCompiledForward == Compile(MCForward)
=============================================================================
