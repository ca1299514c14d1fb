---------------------------- MODULE ServiceProofs ----------------------------
(***************************************************************************)
(* servico for every set of services, process numbers and exit codes.      *)
(***************************************************************************)
EXTENDS Service, TLAPS

(* A number that is not shared is kept by one service only, and if it is
   that of a child of the script, it is that of its own. *)
NumbersDistinct ==
  \A s, t \in Services : s \notin shared /\ pid[s] # null /\ pid[s] = pid[t] => s = t
OwnChild ==
  \A s \in Services :
    s \notin shared /\ pid[s] # null /\ process[pid[s]] \in {"running", "exited"} => starter[pid[s]] = s

(* The script waits only for a child that has not been reaped. *)
WaitsForChild ==
  blocked # null => pid[blocked] # null /\ process[pid[blocked]] \in {"running", "exited"}
ExitsCoded == \A p \in Pids : process[p] = "exited" => exitCode[p] # null

IInv ==
  /\ ServiceTypeOK /\ ChildrenHeld /\ ActiveHasChild /\ ReportsExit
  /\ NumbersDistinct /\ OwnChild /\ WaitsForChild /\ ExitsCoded

(* At first there is no process and no service is active. *)
LEMMA InitIInv == ServiceInit => IInv
BY ServiceAssumption DEF ServiceInit, IInv, ServiceTypeOK, ActiveHasChild, ChildrenHeld, ReportsExit,
   NumbersDistinct, OwnChild, WaitsForChild, ExitsCoded, Child

(* Every step of a service or of its environment keeps the invariant. *)
LEMMA StepIInv == IInv /\ [ServiceNext]_serviceVars => IInv'
<1> SUFFICES ASSUME IInv, [ServiceNext]_serviceVars PROVE IInv'
  OBVIOUS
<1> USE ServiceAssumption
<1> USE DEF IInv, ServiceTypeOK, Child, service, system
<1>1. ASSUME NEW s \in Services, NEW p \in Pids, Iniciar(s, p) PROVE IInv'
  <2> USE <1>1 DEF Iniciar, Spawn
  <2>1. ServiceTypeOK'
    BY DEF Keepers
  <2>2. ~ativo[s]
    BY DEF ActiveHasChild
  <2>3. \A t \in Services \ {s} : t \notin shared' => t \notin shared /\ pid[t] # p
    BY DEF Keepers
  <2>4. s \notin shared' => \A t \in Services \ {s} : pid[t] # p
    BY DEF Keepers
  <2>5. ActiveHasChild'
    BY <2>3 DEF ActiveHasChild
  <2>6. ChildrenHeld'
    BY <2>2 DEF ChildrenHeld
  <2>7. ReportsExit'
    BY <2>3 DEF ReportsExit
  <2>8. NumbersDistinct'
    BY <2>3, <2>4 DEF NumbersDistinct
  <2>9. OwnChild'
    BY <2>3 DEF OwnChild
  <2>10. WaitsForChild' /\ ExitsCoded'
    BY DEF WaitsForChild, ExitsCoded
  <2>11. QED
    BY <2>1, <2>5, <2>6, <2>7, <2>8, <2>9, <2>10
<1>2. ASSUME NEW s \in Services, pid[s] # null, process[pid[s]] = "exited",
             Reaped(s, pid[s]), blocked' = null
      PROVE  IInv'
  <2> USE <1>2 DEF Reaped
  <2>1. ServiceTypeOK'
    OBVIOUS
  <2>2. \A t \in Services \ {s} : t \notin shared => pid[t] # pid[s]
    BY DEF NumbersDistinct
  <2>3. ActiveHasChild'
    BY <2>2 DEF ActiveHasChild
  <2>4. ChildrenHeld'
    BY DEF ChildrenHeld
  <2>5. ReportsExit'
    BY <2>2 DEF ReportsExit, ExitsCoded
  <2>6. NumbersDistinct' /\ OwnChild'
    BY DEF NumbersDistinct, OwnChild
  <2>7. WaitsForChild' /\ ExitsCoded'
    BY DEF WaitsForChild, ExitsCoded
  <2>8. QED
    BY <2>1, <2>3, <2>4, <2>5, <2>6, <2>7
<1>3. ASSUME NEW s \in Services, StatusConcluido(s) PROVE IInv'
  BY <1>2, <1>3 DEF StatusConcluido
<1>4. ASSUME NEW s \in Services, StatusAtivo(s) PROVE IInv'
  <2> USE <1>4 DEF StatusAtivo
  <2>1. s \in shared \/ Child(s, pid[s])
    BY DEF OwnChild
  <2>2. ServiceTypeOK' /\ ActiveHasChild' /\ ChildrenHeld' /\ ReportsExit'
    BY <2>1 DEF ActiveHasChild, ChildrenHeld, ReportsExit
  <2>3. QED
    BY <2>2 DEF NumbersDistinct, OwnChild, WaitsForChild, ExitsCoded
<1>5. ASSUME NEW s \in Services, Aguardar(s) PROVE IInv'
  BY <1>5 DEF Aguardar, ActiveHasChild, ChildrenHeld, ReportsExit,
     NumbersDistinct, OwnChild, WaitsForChild, ExitsCoded
<1>6. ASSUME NEW s \in Services, AguardarRetorna(s) PROVE IInv'
  <2>1. pid[s] # null
    BY <1>6 DEF AguardarRetorna, WaitsForChild
  <2>2. QED
    BY <1>2, <1>6, <2>1 DEF AguardarRetorna
<1>7. ASSUME NEW p \in Pids, NEW c \in Codes, process[p] = "running",
             process' = [process EXCEPT ![p] = "exited"],
             exitCode' = [exitCode EXCEPT ![p] = c],
             UNCHANGED <<service, starter, shared, blocked>>
      PROVE  IInv'
  <2> USE <1>7
  <2>1. ServiceTypeOK' /\ ActiveHasChild' /\ ChildrenHeld'
    BY DEF ActiveHasChild, ChildrenHeld
  <2>2. \A t \in Services : t \notin shared /\ pid[t] = p => ativo[t]
    BY DEF OwnChild, ChildrenHeld
  <2>3. ReportsExit'
    BY <2>2 DEF ReportsExit
  <2>4. NumbersDistinct' /\ OwnChild' /\ WaitsForChild' /\ ExitsCoded'
    BY DEF NumbersDistinct, OwnChild, WaitsForChild, ExitsCoded
  <2>5. QED
    BY <2>1, <2>3, <2>4
<1>8. ASSUME NEW p \in Pids, process[p] = "stranger",
             process' = [process EXCEPT ![p] = "free"],
             UNCHANGED <<service, exitCode, starter, shared, blocked>>
      PROVE  IInv'
  BY <1>8 DEF ActiveHasChild, ChildrenHeld, ReportsExit,
     NumbersDistinct, OwnChild, WaitsForChild, ExitsCoded
<1>9. ASSUME NEW s \in Services, NEW c \in Codes, Parar(s, c) PROVE IInv'
  <2>1. pid[s] \in Pids
    BY <1>9 DEF Parar
  <2>2. QED
    BY <1>7, <1>8, <1>9, <2>1 DEF Parar
<1>10. ASSUME NEW p \in Pids, NEW c \in Codes, ChildExits(p, c) PROVE IInv'
  BY <1>7, <1>10 DEF ChildExits
<1>11. ASSUME NEW p \in Pids, StrangerStarts(p) PROVE IInv'
  BY <1>11 DEF StrangerStarts, ActiveHasChild, ChildrenHeld, ReportsExit,
     NumbersDistinct, OwnChild, WaitsForChild, ExitsCoded
<1>12. ASSUME NEW p \in Pids, StrangerEnds(p) PROVE IInv'
  BY <1>8, <1>12 DEF StrangerEnds
<1>13. ASSUME NEW p \in Pids, ExecOther(p) PROVE IInv'
  <2> USE <1>13 DEF ExecOther
  <2>1. shared' \subseteq Services
    BY DEF Keepers
  <2>2. \A t \in Services : t \notin shared' => t \notin shared /\ pid[t] # p
    BY DEF Keepers
  <2>3. ServiceTypeOK' /\ ChildrenHeld' /\ WaitsForChild' /\ ExitsCoded'
    BY <2>1 DEF ChildrenHeld, WaitsForChild, ExitsCoded
  <2>4. ActiveHasChild' /\ ReportsExit'
    BY <2>2 DEF ActiveHasChild, ReportsExit
  <2>5. NumbersDistinct' /\ OwnChild'
    BY <2>2 DEF NumbersDistinct, OwnChild
  <2>6. QED
    BY <2>3, <2>4, <2>5
<1>14. ASSUME NEW p \in Pids, ReapOther(p) PROVE IInv'
  <2> USE <1>14 DEF ReapOther
  <2>1. \A t \in Services : t \notin shared => pid[t] # p
    BY DEF OwnChild
  <2>2. ActiveHasChild' /\ ReportsExit'
    BY <2>1 DEF ActiveHasChild, ReportsExit
  <2>3. QED
    BY <2>2 DEF ChildrenHeld, NumbersDistinct, OwnChild, WaitsForChild, ExitsCoded
<1>15. CASE UNCHANGED serviceVars
  BY <1>15 DEF serviceVars, ActiveHasChild, ChildrenHeld, ReportsExit,
     NumbersDistinct, OwnChild, WaitsForChild, ExitsCoded
<1>16. QED
  BY <1>1, <1>3, <1>4, <1>5, <1>6, <1>9, <1>10, <1>11, <1>12, <1>13, <1>14, <1>15 DEF ServiceNext

(***************************************************************************)
(* For every set of services and process numbers, the fields are well      *)
(* typed.                                                                  *)
(***************************************************************************)
THEOREM TypeCorrect == ServiceSpec => []ServiceTypeOK
<1>1. ServiceInit => IInv
  BY InitIInv
<1>2. IInv /\ [ServiceNext]_serviceVars => IInv'
  BY StepIInv
<1>3. IInv => ServiceTypeOK
  BY DEF IInv
<1>4. QED
  BY <1>1, <1>2, <1>3, PTL DEF ServiceSpec

(***************************************************************************)
(* For every set of services and process numbers, and whichever free       *)
(* number the system gives out next: no child is left behind, and services *)
(* and processes agree on who is active and how a child ended, except for  *)
(* services whose kept number was given to another child of the script.    *)
(***************************************************************************)
THEOREM ServiceCorrect == ServiceSpec => []ServiceSound
<1>1. ServiceInit => IInv
  BY InitIInv
<1>2. IInv /\ [ServiceNext]_serviceVars => IInv'
  BY StepIInv
<1>3. IInv => ServiceSound
  BY DEF IInv, ServiceSound
<1>4. QED
  BY <1>1, <1>2, <1>3, PTL DEF ServiceSpec
=============================================================================
