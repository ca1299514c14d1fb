-------------------------------- MODULE Incluir --------------------------------
(***************************************************************************)
(* incluir(caminho) and the base directory of relative paths (qjs.c,       *)
(* quickjs-libc.c).  The global __pt_base_dir names the directory of the   *)
(* script that runs; incluir changes it for the script it evaluates and    *)
(* puts it back, whether that script ends or throws.  The functions on     *)
(* files resolve their paths against it too (js_pt_resolve_path).          *)
(*                                                                         *)
(* A path is a model value; Join gives the directory that joining it to a  *)
(* directory and cutting the last name off leads to.  Directories are      *)
(* absolute and scripts do not change the current one: a relative base     *)
(* would then name another directory.                                      *)
(***************************************************************************)
EXTENDS Naturals, Sequences

CONSTANTS
  Dirs, Paths,
  Join,           \* Join[dir][path], a member of Dirs
  Missing,        \* directories in which the file is not there
  WorkingDir,     \* getcwd
  NoBase,         \* __pt_base_dir when it is undefined
  MaxNesting      \* bound: scripts that include each other

ASSUME IncluirAssumption ==
  /\ Join \in [Dirs -> [Paths -> Dirs]] /\ Missing \subseteq Dirs
  /\ WorkingDir \in Dirs /\ NoBase \notin Dirs /\ MaxNesting \in Nat

VARIABLES
  base,           \* __pt_base_dir
  running,        \* the scripts being evaluated: directory, and base_val of the call
  throwing,       \* an exception is on its way through incluir
  resolvedTo      \* history: where the last path led, and where it should

incluirVars == <<base, running, throwing, resolvedTo>>

NothingResolved == <<>>

(* eval_file sets the base to the script's directory; -e sets it to the
   current one; an embedder may leave it undefined. *)
IncluirInit ==
  /\ \/ \E d \in Dirs : base = d /\ running = <<[dir |-> d, saved |-> NoBase]>>
     \/ base = NoBase /\ running = <<[dir |-> WorkingDir, saved |-> NoBase]>>
  /\ throwing = FALSE
  /\ resolvedTo = NothingResolved

Top == running[Len(running)]
DirOf(b) == IF b = NoBase THEN WorkingDir ELSE b
Resolution(p) == <<[got |-> Join[DirOf(base)][p], want |-> Join[Top.dir][p]]>>

(* lerarquivo and the other functions on files. *)
ResolvePath(p) ==
  /\ running # <<>> /\ ~throwing
  /\ resolvedTo' = Resolution(p)
  /\ UNCHANGED <<base, running, throwing>>

(* The path is joined, the file read, the base changed, the script begins.
   A file that is not there throws before the base is changed. *)
IncludeBegins(p) ==
  LET d == Join[DirOf(base)][p] IN
  /\ running # <<>> /\ ~throwing /\ Len(running) < MaxNesting
  /\ resolvedTo' = Resolution(p)
  /\ IF d \in Missing
     THEN throwing' = TRUE /\ UNCHANGED <<base, running>>
     ELSE /\ base' = d
          /\ running' = Append(running, [dir |-> d, saved |-> base])
          /\ UNCHANGED throwing

Throws ==
  /\ running # <<>> /\ ~throwing
  /\ throwing' = TRUE /\ UNCHANGED <<base, running, resolvedTo>>
(* try ... catch in the script that runs. *)
Catches ==
  /\ throwing /\ running # <<>>
  /\ throwing' = FALSE /\ UNCHANGED <<base, running, resolvedTo>>

(* JS_Eval returns, with an exception or without: the base is put back.  The
   slip does so only without one. *)
RestoredUnlessThrowing == IF throwing THEN base ELSE Top.saved
Restored == Top.saved
IncludeReturns ==
  /\ Len(running) > 1
  /\ base' = Restored
  /\ running' = SubSeq(running, 1, Len(running) - 1)
  /\ UNCHANGED <<throwing, resolvedTo>>

IncluirNext ==
  \/ \E p \in Paths : ResolvePath(p) \/ IncludeBegins(p)
  \/ Throws \/ Catches \/ IncludeReturns

IncluirSpec == IncluirInit /\ [][IncluirNext]_incluirVars

-----------------------------------------------------------------------------
(***************************************************************************)
(* "caminhos relativos em incluir e em I/O de arquivo sao relativos ao     *)
(* script atual": a path in the code of a script is resolved against the   *)
(* directory of that script, after includes below it ended, threw, or      *)
(* could not be read, and caught there or further up.                      *)
(***************************************************************************)
ResolvedFromScript ==
  resolvedTo # NothingResolved => resolvedTo[1].got = resolvedTo[1].want

(***************************************************************************)
(* While a script runs the base is its directory, and each call of incluir *)
(* on the stack keeps the base of the script that made it.                 *)
(***************************************************************************)
BaseIsScriptDir ==
  /\ DirOf(base) = Top.dir
  /\ \A i \in 2 .. Len(running) : DirOf(running[i].saved) = running[i - 1].dir

(***************************************************************************)
(* Through nested inclusions, also those a failing script leaves by an     *)
(* exception that is caught further out, paths are resolved from the       *)
(* directory of the script that runs.                                      *)
(***************************************************************************)
IncluirSound ==
  /\ ResolvedFromScript
  /\ BaseIsScriptDir
=============================================================================
