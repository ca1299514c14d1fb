----------------------------- MODULE FilaCircular -----------------------------
(***************************************************************************)
(* fila_circular of stdlib/ptstdlib.js: a queue kept in a ring of cap      *)
(* slots.  An empty slot holds undefined, as in the code.  Scripts run to  *)
(* completion, so each method is one action.                               *)
(***************************************************************************)
EXTENDS Integers, Sequences, ScriptValues

CONSTANT ringCap   \* capacidade

ASSUME CapAssumption == ringCap \in Nat /\ ringCap > 0

VARIABLES
  ringSlots, head, tail, count,
  ringOut    \* what the last call answered

ringVars == <<ringSlots, head, tail, count, ringOut>>

RingIndices == 0 .. ringCap - 1

RingAnswer(op, ok, number, item) ==
  [op |-> op, ok |-> ok, number |-> number, item |-> item]

RingInit ==
  /\ ringSlots = [i \in RingIndices |-> undefined]
  /\ head = 0 /\ tail = 0 /\ count = 0
  /\ ringOut = RingAnswer("new", TRUE, 0, <<>>)

(* The slot after slot i; the slip wraps one slot too late. *)
AfterWrapLate(i) == IF i = ringCap THEN 0 ELSE i + 1
After(i) == (i + 1) % ringCap

Cheia == count >= ringCap

RingEmpurrar(v) ==
  /\ ~Cheia
  /\ ringSlots' = [ringSlots EXCEPT ![tail] = v]
  /\ tail' = After(tail)
  /\ count' = count + 1
  /\ ringOut' = RingAnswer("push", TRUE, count', <<>>)
  /\ UNCHANGED head

(***************************************************************************)
(* empurrar on a full queue answers the error fila_cheia and the capacity; *)
(* the slip overwrites the oldest item, as rings often do.                 *)
(***************************************************************************)
RingEmpurrarOverwrites ==
  /\ Cheia
  /\ \E v \in Values : ringSlots' = [ringSlots EXCEPT ![tail] = v]
  /\ head' = After(head) /\ tail' = After(tail)
  /\ ringOut' = RingAnswer("push", FALSE, ringCap, <<>>)
  /\ UNCHANGED count
RingEmpurrarCheia ==
  /\ Cheia
  /\ ringOut' = RingAnswer("push", FALSE, ringCap, <<>>)
  /\ UNCHANGED <<ringSlots, head, tail, count>>

RingTirar ==
  /\ count # 0
  /\ ringSlots' = [ringSlots EXCEPT ![head] = undefined]
  /\ head' = After(head)
  /\ count' = count - 1
  /\ ringOut' = RingAnswer("pop", TRUE, 0, <<ringSlots[head]>>)
  /\ UNCHANGED tail

RingTirarVazia ==
  /\ count = 0
  /\ ringOut' = RingAnswer("pop", TRUE, 0, <<>>)
  /\ UNCHANGED <<ringSlots, head, tail, count>>

(* limpar; the slip keeps head where it was. *)
RingLimparKeepsHead ==
  /\ ringSlots' = [i \in RingIndices |-> undefined]
  /\ tail' = 0 /\ count' = 0 /\ UNCHANGED head
  /\ ringOut' = RingAnswer("clear", TRUE, 0, <<>>)
RingLimpar ==
  /\ ringSlots' = [i \in RingIndices |-> undefined]
  /\ head' = 0 /\ tail' = 0 /\ count' = 0
  /\ ringOut' = RingAnswer("clear", TRUE, 0, <<>>)

RingNext ==
  \/ \E v \in Values : RingEmpurrar(v)
  \/ RingEmpurrarCheia
  \/ RingTirar
  \/ RingTirarVazia
  \/ RingLimpar

RingSpec == RingInit /\ [][RingNext]_ringVars

(* The slot i places after slot h. *)
SlotFrom(h, i) == (h + i) % ringCap

(* listar: the items from the front to the back. *)
RingListar == [i \in 1 .. count |-> ringSlots[SlotFrom(head, i - 1)]]

-----------------------------------------------------------------------------
(* The indices stay inside the ring and the count within its capacity. *)
RingTypeOK ==
  /\ ringSlots \in [RingIndices -> Values \cup {undefined}]
  /\ head \in RingIndices /\ tail \in RingIndices
  /\ count \in 0 .. ringCap
  /\ ringOut \in [op : {"new", "push", "pop", "clear"}, ok : BOOLEAN,
              number : 0 .. ringCap, item : {<<>>} \cup {<<v>> : v \in Values}]

(***************************************************************************)
(* tail is count slots after head around the ring, and exactly the slots   *)
(* between them are occupied: tirar and limpar leave no item behind in a   *)
(* slot they emptied, and empurrar overwrites none.                        *)
(***************************************************************************)
Distance(i) == IF i >= head THEN i - head ELSE i - head + ringCap
RingConsistent ==
  /\ tail = SlotFrom(head, count)
  /\ \A i \in RingIndices : (ringSlots[i] # undefined) <=> (Distance(i) < count)

(***************************************************************************)
(* The ring behaves as a bounded first-in first-out queue, every answer    *)
(* included: nothing is lost, repeated or reordered where it wraps.        *)
(***************************************************************************)
RingQueue == INSTANCE BoundedQueue WITH items <- RingListar, out <- ringOut, Initial <- <<>>, Capacity <- ringCap
RingImplements == RingQueue!Spec

(***************************************************************************)
(* After any sequence of operations head, tail and count agree, and        *)
(* exactly the count slots from head on hold a value, across the wrap at   *)
(* the capacity.                                                           *)
(***************************************************************************)
RingSound ==
  /\ RingTypeOK
  /\ RingConsistent
=============================================================================
