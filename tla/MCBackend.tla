------------------------------ MODULE MCBackend ------------------------------
(***************************************************************************)
(* The two compilers side by side: the parts of the native backend and its *)
(* runtime, and the engine's compiler of patterns.  Each works on its own  *)
(* input, so a behaviour follows one of them: a program from its source to *)
(* the run of its intermediate code, the allocation of registers for one   *)
(* function, the emission of one instruction, the stack of one program,    *)
(* the strings of its runtime, or the match of a compiled pattern.         *)
(***************************************************************************)
EXTENDS LinearScan, RuntimeRings, MCCompile, MCEmission, MCNativeFrame, MCRegExp

(***************************************************************************)
(* Functions to allocate for: every function of at most MaxLen instructions  *)
(* that writes the temporaries 1, 2, ..., N in this order (newTemp numbers *)
(* them in the order their definitions are emitted), whose other           *)
(* instructions read one temporary, and whose definitions read at most two *)
(* earlier ones, as the operands of a binary operator.                     *)
(***************************************************************************)
CONSTANTS N, MaxLen

MCTemps == 1 .. N
MCAllocatable == <<"rbx", "r12">>

Defined(c) == Cardinality(UNION {c[i].def : i \in DOMAIN c})

Define(c) ==
  LET d == Defined(c)
  IN IF d = N THEN {}
     ELSE {Append(c, [def |-> {d + 1}, use |-> S]) :
             S \in {T \in SUBSET (1 .. d) : Cardinality(T) <= 2}}

Consume(c) == {Append(c, [def |-> {}, use |-> {t}]) : t \in 1 .. Defined(c)}

CodesOfLength[len \in Nat] ==
  IF len = 0 THEN {<<>>}
  ELSE UNION {Define(c) \cup Consume(c) :
                c \in {b \in CodesOfLength[len - 1] : N - Defined(b) <= MaxLen - len + 1}}

MCCodes == {c \in UNION {CodesOfLength[len] : len \in N .. MaxLen} : Defined(c) = N}

(* Rings of three and two buffers *)
MCRingFunctions == {"char_at", "identificar"}
MCRingSize == [f \in MCRingFunctions |-> IF f = "char_at" THEN 3 ELSE 2]

-----------------------------------------------------------------------------
VARIABLE part

backendVars == <<part, compileVars, allocVars, emissionVars, frameVars, ringsVars, regexpVars>>

OthersRest(p) ==
  /\ UNCHANGED part
  /\ p # "compileToUnit" => UNCHANGED compileVars
  /\ p # "allocateTemps" => UNCHANGED allocVars
  /\ p # "emitInstruction" => UNCHANGED emissionVars
  /\ p # "frameFor" => UNCHANGED frameVars
  /\ p # "runtime" => UNCHANGED ringsVars
  /\ p # "lre_exec" => UNCHANGED regexpVars
Alone(p, Works) == part = p /\ Works /\ OthersRest(p)

(* What the parts that a behaviour does not follow are given. *)
SomeCode == CHOOSE c \in Codes : TRUE
SomeInst == CHOOSE i \in [op : TwoOperands \cap Ops, dest : Places, left : Places, right : Places] :
              Cardinality({i.dest, i.left, i.right}) = 3
SomeCells == [c \in Cells |-> IF c \in {SomeInst.left, SomeInst.right} THEN 0 ELSE Modulus - 2]

BackendInit ==
  /\ part \in {"compileToUnit", "allocateTemps", "emitInstruction", "frameFor", "runtime", "lre_exec"}
  /\ part # "allocateTemps" => code = SomeCode
  /\ part # "emitInstruction" => inst = SomeInst /\ cell = SomeCells
  /\ AllocInit /\ EmissionInit /\ FrameInit /\ RingsInit
  /\ IF part = "compileToUnit" THEN CompileInit ELSE CompileIdle
  /\ IF part = "lre_exec" THEN RegExpInit ELSE RegExpIdle

(* lre_exec has returned. *)
MatchEnded == outcome # "running" /\ UNCHANGED regexpVars

BackendNext ==
  \/ Alone("compileToUnit", CompileNext)
  \/ Alone("allocateTemps", AllocNext)
  \/ Alone("emitInstruction", EmissionNext)
  \/ Alone("frameFor", FrameNext)
  \/ Alone("runtime", RingsNext)
  \/ Alone("lre_exec", RegExpNext \/ MatchEnded)

(* A compiled program and a match run on: the processor does not stop. *)
BackendSpec ==
  /\ BackendInit /\ [][BackendNext]_backendVars
  /\ WF_compileVars(part = "compileToUnit" /\ CompileNext)
  /\ WF_regexpVars(part = "lre_exec" /\ ExecInstruction)
=============================================================================
