-------------------------------- MODULE Service --------------------------------
(***************************************************************************)
(* servico of stdlib/ptstdlib.js (createService) and the processes it      *)
(* starts.  The script is one thread: each method is one action, except    *)
(* aguardar, which blocks the whole script in waitpid until the child has  *)
(* exited.  Children exit, and other programs take and leave process       *)
(* numbers, at any moment between.                                         *)
(*                                                                         *)
(* A process number is free, running or exited (a zombie that only this    *)
(* script can reap) if the script started it, or stranger.  Free numbers   *)
(* are given out again, to any process: a service keeps the number of a    *)
(* child it has reaped, and waitpid knows no services, only the script, so *)
(* status and aguardar of a service whose number now belongs to another    *)
(* child of the script take that child for their own.                      *)
(***************************************************************************)
EXTENDS Integers

CONSTANTS
  Services, Pids, Codes,
  null

ASSUME ServiceAssumption == null \notin Pids \cup Services \cup Codes

VARIABLES
  pid, ativo, ultimo_status,   \* the fields of each service
  blocked,                     \* the service whose aguardar blocks the script, or null
  process,                     \* the system's table of process numbers
  exitCode,                    \* how the child with this number exited
  starter,                     \* history: the service that last started this number, or null
  shared                       \* history: the services whose number, while they have kept it,
                               \*          was also that of a child started by somebody else

service == <<pid, ativo, ultimo_status>>
system == <<process, exitCode, starter, shared>>
serviceVars == <<service, system, blocked>>

ServiceInit ==
  /\ pid = [s \in Services |-> null]
  /\ ativo = [s \in Services |-> FALSE]
  /\ ultimo_status = [s \in Services |-> null]
  /\ blocked = null
  /\ process = [p \in Pids |-> "free"]
  /\ exitCode = [p \in Pids |-> null]
  /\ starter = [p \in Pids |-> null]
  /\ shared = {}

Keepers(p) == {s \in Services : pid[s] = p}

-----------------------------------------------------------------------------
(* execHost starts the command as process p, any number that is free, and
   iniciar records it. *)
Spawn(s, p) ==
  /\ process[p] = "free"
  /\ process' = [process EXCEPT ![p] = "running"]
  /\ starter' = [starter EXCEPT ![p] = s]
  /\ shared' = IF Keepers(p) \subseteq {s} THEN shared \ {s} ELSE shared \cup Keepers(p) \cup {s}
  /\ pid' = [pid EXCEPT ![s] = p]
  /\ ativo' = [ativo EXCEPT ![s] = TRUE]
  /\ ultimo_status' = [ultimo_status EXCEPT ![s] = null]
  /\ UNCHANGED <<exitCode, blocked>>

(* iniciar when no child is believed to run.  A spawn that fails changes
   nothing, and neither does iniciar of an active service.  The slip starts
   a child whatever the service believes. *)
IniciarAlways(s, p) == blocked = null /\ Spawn(s, p)
Iniciar(s, p) ==
  /\ blocked = null
  /\ ~(ativo[s] /\ pid[s] # null)
  /\ Spawn(s, p)

(* waitpid took the exited child p on behalf of s. *)
Reaped(s, p) ==
  /\ process' = [process EXCEPT ![p] = "free"]
  /\ ativo' = [ativo EXCEPT ![s] = FALSE]
  /\ ultimo_status' = [ultimo_status EXCEPT ![s] = exitCode[p]]
  /\ UNCHANGED <<pid, exitCode, starter, shared>>

(* status of a service that has a process number: waitpid with WNOHANG. *)
StatusConcluido(s) ==
  /\ blocked = null /\ pid[s] # null
  /\ process[pid[s]] = "exited"
  /\ Reaped(s, pid[s])
  /\ UNCHANGED blocked
StatusAtivo(s) ==
  /\ blocked = null /\ pid[s] # null
  /\ process[pid[s]] = "running"
  /\ ativo' = [ativo EXCEPT ![s] = TRUE]
  /\ UNCHANGED <<pid, ultimo_status, system, blocked>>

(* aguardar: waitpid blocks while the child runs, and answers an error that
   changes nothing when the number is not one of a child. *)
Aguardar(s) ==
  /\ blocked = null /\ pid[s] # null
  /\ process[pid[s]] \in {"running", "exited"}
  /\ blocked' = s
  /\ UNCHANGED <<service, system>>
AguardarRetorna(s) ==
  /\ blocked = s
  /\ process[pid[s]] = "exited"
  /\ Reaped(s, pid[s])
  /\ blocked' = null

(***************************************************************************)
(* parar signals whatever process has the number, by default SIGTERM.  It  *)
(* keeps the number when the child is gone, so the process may be another  *)
(* program's.  A process that handles the signal, a zombie and a free      *)
(* number are not changed by it.                                           *)
(***************************************************************************)
Parar(s, c) ==
  /\ blocked = null /\ pid[s] # null
  /\ \/ /\ process[pid[s]] = "running"
        /\ process' = [process EXCEPT ![pid[s]] = "exited"]
        /\ exitCode' = [exitCode EXCEPT ![pid[s]] = c]
     \/ /\ process[pid[s]] = "stranger"
        /\ process' = [process EXCEPT ![pid[s]] = "free"]
        /\ UNCHANGED exitCode
  /\ UNCHANGED <<service, starter, shared, blocked>>

(* The script starts a child without a service, with exec of os or of a
   sandbox, and reaps such a child itself. *)
ExecOther(p) ==
  /\ blocked = null
  /\ process[p] = "free"
  /\ process' = [process EXCEPT ![p] = "running"]
  /\ starter' = [starter EXCEPT ![p] = null]
  /\ shared' = shared \cup Keepers(p)
  /\ UNCHANGED <<service, exitCode, blocked>>
ReapOther(p) ==
  /\ blocked = null
  /\ process[p] = "exited" /\ starter[p] = null
  /\ process' = [process EXCEPT ![p] = "free"]
  /\ UNCHANGED <<service, exitCode, starter, shared, blocked>>

-----------------------------------------------------------------------------
(* The environment. *)
ChildExits(p, c) ==
  /\ process[p] = "running"
  /\ process' = [process EXCEPT ![p] = "exited"]
  /\ exitCode' = [exitCode EXCEPT ![p] = c]
  /\ UNCHANGED <<service, starter, shared, blocked>>

StrangerStarts(p) ==
  /\ process[p] = "free"
  /\ process' = [process EXCEPT ![p] = "stranger"]
  /\ UNCHANGED <<service, exitCode, starter, shared, blocked>>

StrangerEnds(p) ==
  /\ process[p] = "stranger"
  /\ process' = [process EXCEPT ![p] = "free"]
  /\ UNCHANGED <<service, exitCode, starter, shared, blocked>>

ServiceNext ==
  \/ \E s \in Services, p \in Pids : Iniciar(s, p)
  \/ \E s \in Services : StatusConcluido(s)
  \/ \E s \in Services : StatusAtivo(s)
  \/ \E s \in Services : Aguardar(s)
  \/ \E s \in Services : AguardarRetorna(s)
  \/ \E s \in Services, c \in Codes : Parar(s, c)
  \/ \E p \in Pids : ExecOther(p)
  \/ \E p \in Pids : ReapOther(p)
  \/ \E p \in Pids, c \in Codes : ChildExits(p, c)
  \/ \E p \in Pids : StrangerStarts(p)
  \/ \E p \in Pids : StrangerEnds(p)

ServiceSpec == ServiceInit /\ [][ServiceNext]_serviceVars

-----------------------------------------------------------------------------
(* The fields hold process numbers and exit codes, or null. *)
ServiceTypeOK ==
  /\ pid \in [Services -> Pids \cup {null}]
  /\ ativo \in [Services -> BOOLEAN]
  /\ ultimo_status \in [Services -> Codes \cup {null}]
  /\ blocked \in Services \cup {null}
  /\ process \in [Pids -> {"free", "running", "exited", "stranger"}]
  /\ exitCode \in [Pids -> Codes \cup {null}]
  /\ starter \in [Pids -> Services \cup {null}]
  /\ shared \subseteq Services

Child(s, p) == process[p] \in {"running", "exited"} /\ starter[p] = s

(***************************************************************************)
(* No child is left behind, whoever else has or had its number: every      *)
(* process a service started and that nobody has reaped is the one whose   *)
(* number it holds, and the service is active.  A service thus has at most *)
(* one child, and no zombie is forgotten.                                  *)
(***************************************************************************)
ChildrenHeld ==
  \A s \in Services : \A p \in Pids : Child(s, p) => pid[s] = p /\ ativo[s]

(***************************************************************************)
(* A service that calls itself active has a child of its own that has not  *)
(* been reaped: iniciar may then decline to start another, and a parar     *)
(* signals that child and nobody else's.  Only a service whose number was  *)
(* given to a second child of the script while it kept it can be active    *)
(* without one: it took that child for its own, or its own child was       *)
(* reaped for another service.                                             *)
(***************************************************************************)
ActiveHasChild ==
  \A s \in Services : ativo[s] => pid[s] # null /\ (Child(s, pid[s]) \/ s \in shared)

(***************************************************************************)
(* Once its child is gone, a service has a status to report.  It is how    *)
(* that child exited, and stays so whatever strangers get the number next; *)
(* another child of the script that gets the number may replace it.        *)
(***************************************************************************)
ReportsExit ==
  \A s \in Services :
    pid[s] # null /\ ~ativo[s] =>
      ultimo_status[s] # null /\ (ultimo_status[s] = exitCode[pid[s]] \/ s \in shared)

(***************************************************************************)
(* No child is left without a service that holds it.  Unless its number    *)
(* was given to another child of the script while it kept it, a service    *)
(* that says it is active has a child of its own, and one that does not    *)
(* reports the status its child ended with.                                *)
(***************************************************************************)
ServiceSound ==
  /\ ServiceTypeOK
  /\ ChildrenHeld
  /\ ActiveHasChild
  /\ ReportsExit
=============================================================================
