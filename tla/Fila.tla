--------------------------------- MODULE Fila ---------------------------------
(***************************************************************************)
(* fila of stdlib/ptstdlib.js: an array and the index of its front.        *)
(* Taking an item leaves a dead slot before the front; compactar drops the *)
(* dead slots once there are more than Threshold of them and they are at   *)
(* least half of the array.  stream is the same structure, with escrever   *)
(* and ler for empurrar and tirar.                                         *)
(***************************************************************************)
EXTENDS Integers, Sequences, ScriptValues

CONSTANTS
  Initial,     \* the items the queue is made with
  Threshold,   \* 64 in the code
  MaxItems     \* bound: scripts keep at most this many items in a queue

ASSUME FilaAssumption ==
  Initial \in Seq(Values) /\ Threshold \in Nat /\ MaxItems \in Nat

VARIABLES
  itens, cabeca,
  filaOut    \* what the last call answered

filaVars == <<itens, cabeca, filaOut>>

FilaAnswer(op, ok, number, item) ==
  [op |-> op, ok |-> ok, number |-> number, item |-> item]

FilaInit ==
  /\ itens = Initial /\ cabeca = 0
  /\ filaOut = FilaAnswer("new", TRUE, 0, <<>>)

Tamanho == Len(itens) - cabeca

FilaEmpurrar(v) ==
  /\ Tamanho < MaxItems
  /\ itens' = Append(itens, v)
  /\ filaOut' = FilaAnswer("push", TRUE, Tamanho + 1, <<>>)
  /\ UNCHANGED cabeca

(* When compactar drops the dead slots; the slip compares with the whole array. *)
ShouldCompactWhole(front) == front > Threshold /\ front >= Len(itens)
ShouldCompact(front) == front > Threshold /\ front * 2 >= Len(itens)

(* The array without its first front slots; the slip drops one slot more. *)
SurvivingOneLess(s, front) == SubSeq(s, front + 2, Len(s))
Surviving(s, front) == SubSeq(s, front + 1, Len(s))

Emptied(i) == [itens EXCEPT ![i] = undefined]

(* tirar and the compactar it ends with. *)
FilaTirar ==
  /\ cabeca < Len(itens)
  /\ filaOut' = FilaAnswer("pop", TRUE, 0, <<itens[cabeca + 1]>>)
  /\ \/ /\ ShouldCompact(cabeca + 1)
        /\ itens' = Surviving(Emptied(cabeca + 1), cabeca + 1)
        /\ cabeca' = 0
     \/ /\ ~ShouldCompact(cabeca + 1)
        /\ itens' = Emptied(cabeca + 1)
        /\ cabeca' = cabeca + 1

FilaTirarVazia ==
  /\ cabeca >= Len(itens)
  /\ filaOut' = FilaAnswer("pop", TRUE, 0, <<>>)
  /\ UNCHANGED <<itens, cabeca>>

FilaNext == (\E v \in Values : FilaEmpurrar(v)) \/ FilaTirar \/ FilaTirarVazia

FilaSpec == FilaInit /\ [][FilaNext]_filaVars

(* The getter itens: the live items, front first. *)
Itens == SubSeq(itens, cabeca + 1, Len(itens))

-----------------------------------------------------------------------------
(* Dead slots hold nothing, live slots hold values, and the front is in range. *)
FilaTypeOK ==
  /\ itens \in Seq(Values \cup {undefined})
  /\ cabeca \in 0 .. Len(itens)
  /\ \A i \in 1 .. Len(itens) : (itens[i] = undefined) <=> (i <= cabeca)

(***************************************************************************)
(* Between calls the dead slots are at most Threshold, or fewer than the   *)
(* live ones: a queue that is filled and drained for ever does not grow.   *)
(***************************************************************************)
DeadSlotsBounded == cabeca <= Threshold \/ cabeca < Tamanho

(***************************************************************************)
(* fila behaves as a first-in first-out queue, across every compaction.    *)
(***************************************************************************)
FilaQueue == INSTANCE BoundedQueue WITH items <- Itens, out <- filaOut, Capacity <- MaxItems
FilaImplements == FilaQueue!Spec

(***************************************************************************)
(* After any sequence of operations cabeca stays inside itens and the      *)
(* slots before it, which hold nothing, are bounded: a queue that is       *)
(* filled and emptied for ever does not grow.                              *)
(***************************************************************************)
FilaSound ==
  /\ FilaTypeOK
  /\ DeadSlotsBounded
=============================================================================
