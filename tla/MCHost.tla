-------------------------------- MODULE MCHost --------------------------------
(***************************************************************************)
(* What scripts call, side by side: the parts of the script host, the      *)
(* structures of the standard library, and the integers of any size.  They *)
(* share no state, so a behaviour follows one of them; what links them are *)
(* js_std_loop, which both EventLoop and Workers have a share of, and      *)
(* sair, which restores the terminal and closes the window.                *)
(***************************************************************************)
EXTENDS Workers, EventLoop, Terminal, Incluir, MCVideo, FilaCircular, Fila, Pool, Service, BigInt

(* /a and /b with one path to the other, one to the same, and one to a third
   directory where the file is missing. *)
MCJoin == [d \in Dirs |-> [p \in Paths |->
  CASE p = "here.ptjs" -> d
    [] p = "../b/other.ptjs" -> IF d = "/a" THEN "/b" ELSE "/a"
    [] p = "/c/missing.ptjs" -> "/c"]]

(* A fila made with two items; its threshold is lowered so that compactar
   runs with live items left as well as with none. *)
CONSTANTS item1, item2
MCValues == {item1, item2}
MCInitial == <<item1, item2>>

(* All integers of up to three limbs of two bits *)
MCOperands == -32 .. 31

-----------------------------------------------------------------------------
VARIABLE follows

hostVars == <<follows, workerVars, loopVars, terminalVars, videoVars, incluirVars,
              ringVars, filaVars, poolVars, serviceVars, bigVars>>

Rest(p) ==
  /\ UNCHANGED follows
  /\ p # "workers" => UNCHANGED workerVars
  /\ p # "loop" => UNCHANGED loopVars
  /\ p # "terminal" => UNCHANGED terminalVars
  /\ p # "video" => UNCHANGED videoVars
  /\ p # "incluir" => UNCHANGED incluirVars
  /\ p # "fila_circular" => UNCHANGED ringVars
  /\ p # "fila" => UNCHANGED filaVars
  /\ p # "pool" => UNCHANGED poolVars
  /\ p # "servico" => UNCHANGED serviceVars
  /\ p # "BigInt" => UNCHANGED bigVars

SomeProgram == CHOOSE u \in Programs : TRUE

HostInit ==
  /\ follows \in {"workers", "loop", "terminal", "video", "incluir",
                "fila_circular", "fila", "pool", "servico", "BigInt"}
  /\ follows # "loop" => uses = SomeProgram /\ mode = "loop"
  /\ follows # "terminal" => tty = [termios |-> "canonical", flags |-> "blocking"]
  /\ follows # "incluir" => base = WorkingDir
  /\ WorkersInit /\ LoopInit /\ TerminalInit /\ VideoInit /\ IncluirInit
  /\ RingInit /\ FilaInit /\ PoolInit /\ ServiceInit /\ BigIntInit

Follow(p, Step) == follows = p /\ Step /\ Rest(p)

HostNext ==
  \/ Follow("workers", WorkersNext)
  \/ Follow("loop", LoopNext)
  \/ Follow("terminal", TerminalNext)
  \/ Follow("video", VideoNext)
  \/ Follow("incluir", IncluirNext)
  \/ Follow("fila_circular", RingNext)
  \/ Follow("fila", FilaNext)
  \/ Follow("pool", PoolNext)
  \/ Follow("servico", ServiceNext)
  \/ Follow("BigInt", BigIntNext)

(* The fairness of WorkersSpec and LoopSpec. *)
HostSpec ==
  /\ HostInit /\ [][HostNext]_hostVars
  /\ \A t \in Threads : WF_hostVars(Follow("workers", ThreadNext(t)))
  /\ WF_hostVars(Follow("loop", LoopStep)) /\ SF_hostVars(Follow("loop", Tick))
=============================================================================
