------------------------------ MODULE QueueProofs ------------------------------
(***************************************************************************)
(* The two queues of the standard library, fila_circular for every         *)
(* capacity and fila for every threshold and initial array: the ring stays *)
(* consistent, the dead slots stay bounded, and both implement             *)
(* BoundedQueue, for every set of values.                                  *)
(***************************************************************************)
EXTENDS FilaCircular, Fila, SequenceTheorems, TLAPS

-----------------------------------------------------------------------------
(* fila_circular.                                                          *)

(* The remainder that wraps an index round the ring subtracts cap once. *)
LEMMA ModWraps ==
  \A a \in Nat : a < 2 * ringCap => a % ringCap = IF a < ringCap THEN a ELSE a - ringCap
<1> SUFFICES ASSUME NEW a \in Nat, a < 2 * ringCap
             PROVE  a % ringCap = IF a < ringCap THEN a ELSE a - ringCap
  OBVIOUS
<1>1. CASE a < ringCap
  BY <1>1, CapAssumption
<1>2. CASE a >= ringCap
  <2>1. a - ringCap \in Nat /\ a - ringCap < ringCap
    BY <1>2, CapAssumption
  <2>2. a = ringCap * 1 + (a - ringCap)
    BY CapAssumption
  <2>3. QED
    BY <1>2, <2>1, <2>2, CapAssumption
<1>3. QED
  BY <1>1, <1>2, CapAssumption

(* The slot after slot i, by cases. *)
LEMMA AfterWraps ==
  ASSUME NEW i \in RingIndices
  PROVE  /\ After(i) \in RingIndices
         /\ After(i) = IF i = ringCap - 1 THEN 0 ELSE i + 1
<1>1. PICK a \in Nat : a = i + 1 /\ a < 2 * ringCap
  BY CapAssumption DEF RingIndices
<1>2. a % ringCap = IF a < ringCap THEN a ELSE a - ringCap
  BY <1>1, ModWraps
<1>3. QED
  BY <1>1, <1>2, CapAssumption DEF After, RingIndices

(* The slot i places after slot h, by cases. *)
LEMMA SlotWraps ==
  ASSUME NEW h \in RingIndices, NEW i \in 0 .. ringCap
  PROVE  /\ SlotFrom(h, i) \in RingIndices
         /\ SlotFrom(h, i) = IF h + i < ringCap THEN h + i ELSE h + i - ringCap
<1>1. PICK a \in Nat : a = h + i /\ a < 2 * ringCap
  BY CapAssumption DEF RingIndices
<1>2. a % ringCap = IF a < ringCap THEN a ELSE a - ringCap
  BY <1>1, ModWraps
<1>3. QED
  BY <1>1, <1>2, CapAssumption DEF SlotFrom, RingIndices

(* The inductive invariant: types and the shape of the ring. *)
RingInv == RingTypeOK /\ RingConsistent

(* A new ring is empty and consistent. *)
LEMMA RingInitInv == RingInit => RingInv
<1> SUFFICES ASSUME RingInit PROVE RingInv
  OBVIOUS
<1>1. RingTypeOK
  BY CapAssumption DEF RingInit, RingTypeOK, RingIndices, RingAnswer
<1>2. SlotFrom(0, 0) = 0
  BY SlotWraps, CapAssumption DEF RingIndices
<1>3. RingConsistent
  BY <1>2, CapAssumption DEF RingInit, RingConsistent, Distance, RingIndices
<1>4. QED
  BY <1>1, <1>3 DEF RingInv

(* Every method keeps the ring consistent. *)
LEMMA RingStepInv == RingInv /\ [RingNext]_ringVars => RingInv'
<1> SUFFICES ASSUME RingInv, [RingNext]_ringVars PROVE RingInv'
  OBVIOUS
<1> USE CapAssumption, UndefinedAssumption DEF RingInv
<1>a. /\ SlotFrom(head, count) \in RingIndices
      /\ SlotFrom(head, count) = IF head + count < ringCap THEN head + count ELSE head + count - ringCap
  BY SlotWraps DEF RingTypeOK
<1>1. ASSUME NEW v \in Values, RingEmpurrar(v) PROVE RingInv'
  <2>1. /\ After(tail) \in RingIndices
        /\ After(tail) = IF tail = ringCap - 1 THEN 0 ELSE tail + 1
    BY AfterWraps DEF RingTypeOK
  <2>2. RingTypeOK'
    BY <1>1, <2>1 DEF RingTypeOK, RingEmpurrar, Cheia, RingAnswer, RingIndices
  <2>3. SlotFrom(head', count') = IF head' + count' < ringCap THEN head' + count' ELSE head' + count' - ringCap
    BY <2>2, SlotWraps DEF RingTypeOK
  <2>4. (tail = SlotFrom(head, count))'
    <3>1. /\ tail' = After(tail) /\ head' = head /\ count' = count + 1 /\ count < ringCap
          /\ tail = SlotFrom(head, count)
          /\ head \in 0 .. ringCap - 1 /\ count \in Nat /\ tail \in 0 .. ringCap - 1
      BY <1>1 DEF RingTypeOK, RingConsistent, RingEmpurrar, Cheia, RingIndices
    <3>2. tail' = SlotFrom(head', count')
      BY <1>a, <2>1, <2>3, <3>1
    <3>3. QED
      BY <3>2
  <2>5. ASSUME NEW i \in RingIndices
        PROVE  ((ringSlots[i] # undefined) <=> (Distance(i) < count))'
    <3>1. CASE i = tail
      BY <1>a, <1>1, <3>1 DEF RingTypeOK, RingConsistent, RingEmpurrar, Cheia, RingIndices, Distance
    <3>2. CASE i # tail
      BY <1>a, <1>1, <3>2 DEF RingTypeOK, RingConsistent, RingEmpurrar, Cheia, RingIndices, Distance
    <3>3. QED
      BY <3>1, <3>2
  <2>6. QED
    BY <2>2, <2>4, <2>5 DEF RingConsistent
<1>2. CASE RingEmpurrarCheia
  BY <1>2 DEF RingTypeOK, RingConsistent, RingEmpurrarCheia, Distance, RingAnswer
<1>3. CASE RingTirar
  <2>1. /\ After(head) \in RingIndices
        /\ After(head) = IF head = ringCap - 1 THEN 0 ELSE head + 1
    BY AfterWraps DEF RingTypeOK
  <2>2. ringSlots[head] \in Values
    BY <1>3 DEF RingTypeOK, RingConsistent, RingTirar, Distance, RingIndices
  <2>3. RingTypeOK'
    BY <1>3, <2>1, <2>2 DEF RingTypeOK, RingTirar, RingAnswer, RingIndices
  <2>4. SlotFrom(head', count') = IF head' + count' < ringCap THEN head' + count' ELSE head' + count' - ringCap
    BY <2>3, SlotWraps DEF RingTypeOK
  <2>5. (tail = SlotFrom(head, count))'
    BY <1>a, <1>3, <2>1, <2>4 DEF RingTypeOK, RingConsistent, RingTirar, RingIndices
  <2>6. ASSUME NEW i \in RingIndices
        PROVE  ((ringSlots[i] # undefined) <=> (Distance(i) < count))'
    <3>1. CASE i = head
      BY <1>3, <2>1, <3>1 DEF RingTypeOK, RingConsistent, RingTirar, RingIndices, Distance
    <3>2. CASE i # head
      BY <1>3, <2>1, <3>2 DEF RingTypeOK, RingConsistent, RingTirar, RingIndices, Distance
    <3>3. QED
      BY <3>1, <3>2
  <2>7. QED
    BY <2>3, <2>5, <2>6 DEF RingConsistent
<1>4. CASE RingTirarVazia
  BY <1>4 DEF RingTypeOK, RingConsistent, RingTirarVazia, Distance, RingAnswer
<1>5. CASE RingLimpar
  <2>1. SlotFrom(0, 0) = 0
    BY SlotWraps DEF RingIndices
  <2>2. QED
    BY <1>5, <2>1 DEF RingTypeOK, RingConsistent, RingLimpar, Distance, RingAnswer, RingIndices
<1>6. CASE UNCHANGED ringVars
  BY <1>6 DEF RingTypeOK, RingConsistent, Distance, ringVars
<1>7. QED
  BY <1>1, <1>2, <1>3, <1>4, <1>5, <1>6 DEF RingNext

(***************************************************************************)
(* For every capacity, the indices of fila_circular stay inside the ring.  *)
(***************************************************************************)
THEOREM RingTypeCorrect == RingSpec => []RingTypeOK
<1>1. RingInit => RingInv
  BY RingInitInv
<1>2. RingInv /\ [RingNext]_ringVars => RingInv'
  BY RingStepInv
<1>3. RingInv => RingTypeOK
  BY DEF RingInv
<1>4. QED
  BY <1>1, <1>2, <1>3, PTL DEF RingSpec

(***************************************************************************)
(* For every capacity, exactly the count slots from head on are occupied.  *)
(***************************************************************************)
THEOREM RingAlwaysConsistent == RingSpec => []RingConsistent
<1>1. RingInit => RingInv
  BY RingInitInv
<1>2. RingInv /\ [RingNext]_ringVars => RingInv'
  BY RingStepInv
<1>3. RingInv => RingConsistent
  BY DEF RingInv
<1>4. QED
  BY <1>1, <1>2, <1>3, PTL DEF RingSpec

ListarSeq ==
  /\ RingListar \in Seq(Values)
  /\ Len(RingListar) = count
  /\ \A i \in 1 .. count : RingListar[i] = ringSlots[SlotFrom(head, i - 1)]

(* listar returns a sequence of count values. *)
LEMMA ListarReturnsSeq == RingInv => ListarSeq
<1> SUFFICES ASSUME RingInv PROVE ListarSeq
  OBVIOUS
<1> USE CapAssumption DEF RingInv
<1>1. ASSUME NEW i \in 1 .. count PROVE ringSlots[SlotFrom(head, i - 1)] \in Values
  <2>1. /\ SlotFrom(head, i - 1) \in RingIndices
        /\ SlotFrom(head, i - 1) = IF head + (i - 1) < ringCap THEN head + (i - 1) ELSE head + (i - 1) - ringCap
    BY SlotWraps DEF RingTypeOK
  <2>2. Distance(SlotFrom(head, i - 1)) < count
    BY <2>1 DEF RingTypeOK, Distance, RingIndices
  <2>3. QED
    BY <2>1, <2>2 DEF RingTypeOK, RingConsistent
<1>2. RingListar \in [1 .. count -> Values] /\ count \in Nat
  BY <1>1 DEF RingTypeOK, RingListar
<1>3. QED
  BY <1>2 DEF RingListar, ListarSeq

(* A slot that a step has not changed is i + 1 places from the old head
   when it is i places from the new one. *)
LEMMA SlotShift ==
  ASSUME NEW h \in RingIndices, NEW i \in 0 .. ringCap - 1
  PROVE  SlotFrom(After(h), i) = SlotFrom(h, i + 1)
<1> USE CapAssumption
<1>1. /\ After(h) \in RingIndices
      /\ After(h) = IF h = ringCap - 1 THEN 0 ELSE h + 1
  BY AfterWraps
<1>2. SlotFrom(After(h), i) = IF After(h) + i < ringCap THEN After(h) + i ELSE After(h) + i - ringCap
  BY <1>1, SlotWraps
<1>3. SlotFrom(h, i + 1) = IF h + (i + 1) < ringCap THEN h + (i + 1) ELSE h + (i + 1) - ringCap
  BY SlotWraps
<1>4. QED
  BY <1>1, <1>2, <1>3 DEF RingIndices

(* Different places are different slots. *)
LEMMA SlotInjective ==
  ASSUME NEW h \in RingIndices, NEW i \in 0 .. ringCap - 1, NEW j \in 0 .. ringCap - 1, i # j
  PROVE  SlotFrom(h, i) # SlotFrom(h, j)
<1> USE CapAssumption
<1>1. SlotFrom(h, i) = IF h + i < ringCap THEN h + i ELSE h + i - ringCap
  BY SlotWraps
<1>2. SlotFrom(h, j) = IF h + j < ringCap THEN h + j ELSE h + j - ringCap
  BY SlotWraps
<1>3. QED
  BY <1>1, <1>2 DEF RingIndices

(* Every step of the ring is a step of the queue, or leaves it alone. *)
LEMMA RingStepImplements ==
  ASSUME RingInv, ListarSeq, ListarSeq', [RingNext]_ringVars
  PROVE  [RingQueue!Next]_<<RingListar, ringOut>>
<1> USE CapAssumption, UndefinedAssumption
<1>a. /\ RingListar \in Seq(Values)
      /\ Len(RingListar) = count
      /\ \A i \in 1 .. count : RingListar[i] = ringSlots[SlotFrom(head, i - 1)]
  BY DEF ListarSeq
<1>b. /\ RingListar' \in Seq(Values)
       /\ Len(RingListar') = count'
       /\ \A i \in 1 .. count' : RingListar'[i] = ringSlots'[SlotFrom(head', i - 1)]
  BY DEF ListarSeq
<1>c. count \in Nat /\ count <= ringCap
  BY DEF RingInv, RingTypeOK
<1>1. ASSUME NEW v \in Values, RingEmpurrar(v) PROVE RingQueue!Next
  <2>1. Append(RingListar, v) = RingListar'
    <3>1. Append(RingListar, v) \in Seq(Values) /\ Len(Append(RingListar, v)) = count + 1
      BY <1>a
    <3>2. RingListar' \in Seq(Values) /\ Len(RingListar') = count + 1
      BY <1>b, <1>1 DEF RingEmpurrar
    <3>3. ASSUME NEW i \in 1 .. count + 1 PROVE Append(RingListar, v)[i] = RingListar'[i]
      <4>1. RingListar'[i] = ringSlots'[SlotFrom(head, i - 1)]
        BY <1>b, <1>1 DEF RingEmpurrar
      <4>2. CASE i = count + 1
        <5>1. Append(RingListar, v)[i] = v
          BY <1>a, <4>2
        <5>2. SlotFrom(head, i - 1) = tail
          BY <4>2 DEF RingInv, RingTypeOK, RingConsistent
        <5>3. QED
          BY <4>1, <5>1, <5>2, <1>1 DEF RingEmpurrar, RingInv, RingTypeOK
      <4>3. CASE i \in 1 .. count
        <5>1. Append(RingListar, v)[i] = ringSlots[SlotFrom(head, i - 1)]
          BY <1>a, <4>3
        <5>2. SlotFrom(head, i - 1) # tail
          BY <4>3, <1>1, SlotInjective DEF RingInv, RingTypeOK, RingConsistent, RingEmpurrar, Cheia
        <5>3. SlotFrom(head, i - 1) \in RingIndices
          BY <4>3, SlotWraps DEF RingInv, RingTypeOK
        <5>4. QED
          BY <4>1, <5>1, <5>2, <5>3, <1>1 DEF RingEmpurrar, RingInv, RingTypeOK
      <4>4. i = count + 1 \/ i \in 1 .. count
        BY <1>c
      <4>5. QED
        BY <4>2, <4>3, <4>4, Zenon
    <3>4. QED
      BY <3>1, <3>2, <3>3, SeqEqual
  <2>2. RingQueue!Push(v)
    BY <1>a, <1>1, <2>1 DEF RingQueue!Push, RingQueue!Answer, RingEmpurrar, Cheia, RingAnswer, RingInv, RingTypeOK
  <2>3. QED
    BY <2>2 DEF RingQueue!Next
<1>2. CASE RingEmpurrarCheia
  <2>1. RingListar' = RingListar
    BY <1>2 DEF RingEmpurrarCheia, RingListar
  <2>2. RingQueue!Refuse
    BY <1>a, <1>2, <2>1 DEF RingQueue!Refuse, RingQueue!Answer, RingEmpurrarCheia, Cheia, RingAnswer, RingInv, RingTypeOK
  <2>3. QED
    BY <2>2 DEF RingQueue!Next
<1>3. CASE RingTirar
  <2>1. RingListar # << >> /\ Head(RingListar) = ringSlots[head]
    <3>1. SlotFrom(head, 0) = head
      BY SlotWraps DEF RingInv, RingTypeOK, RingIndices
    <3>2. Head(RingListar) = RingListar[1]
      OBVIOUS
    <3>3. QED
      BY <1>a, <1>3, <3>1, <3>2 DEF RingTirar, RingInv, RingTypeOK
  <2>2. Tail(RingListar) = RingListar'
    <3>1. Tail(RingListar) \in Seq(Values) /\ Len(Tail(RingListar)) = count - 1
      BY <1>a, <2>1
    <3>2. RingListar' \in Seq(Values) /\ Len(RingListar') = count - 1
      BY <1>b, <1>3 DEF RingTirar
    <3>3. ASSUME NEW i \in 1 .. count - 1 PROVE Tail(RingListar)[i] = RingListar'[i]
      <4>1. Tail(RingListar)[i] = ringSlots[SlotFrom(head, i)]
        <5>1. Tail(RingListar)[i] = RingListar[i + 1]
          BY <1>a, <2>1
        <5>2. i + 1 \in 1 .. count /\ (i + 1) - 1 = i
          BY DEF RingInv, RingTypeOK
        <5>3. QED
          BY <1>a, <5>1, <5>2
      <4>2. RingListar'[i] = ringSlots'[SlotFrom(After(head), i - 1)]
        BY <1>b, <1>3 DEF RingTirar
      <4>3. SlotFrom(After(head), i - 1) = SlotFrom(head, i)
        <5>1. i - 1 \in 0 .. ringCap - 1 /\ (i - 1) + 1 = i
          BY DEF RingInv, RingTypeOK
        <5>2. QED
          BY <5>1, SlotShift DEF RingInv, RingTypeOK
      <4>4. SlotFrom(head, i) # head /\ SlotFrom(head, i) \in RingIndices
        <5>1. SlotFrom(head, i) \in RingIndices /\ SlotFrom(head, i) = IF head + i < ringCap THEN head + i ELSE head + i - ringCap
          BY SlotWraps DEF RingInv, RingTypeOK
        <5>2. QED
          BY <5>1 DEF RingInv, RingTypeOK, RingIndices
      <4>5. QED
        BY <4>1, <4>2, <4>3, <4>4, <1>3 DEF RingTirar, RingInv, RingTypeOK
    <3>4. QED
      BY <3>1, <3>2, <3>3, SeqEqual
  <2>3. RingQueue!Pop
    BY <1>3, <2>1, <2>2 DEF RingQueue!Pop, RingQueue!Answer, RingTirar, RingAnswer
  <2>4. QED
    BY <2>3 DEF RingQueue!Next
<1>4. CASE RingTirarVazia
  <2>1. RingListar' = RingListar /\ RingListar = << >>
    BY <1>a, <1>4 DEF RingTirarVazia, RingListar
  <2>2. RingQueue!PopEmpty
    BY <1>4, <2>1 DEF RingQueue!PopEmpty, RingQueue!Answer, RingTirarVazia, RingAnswer
  <2>3. QED
    BY <2>2 DEF RingQueue!Next
<1>5. CASE RingLimpar
  <2>1. RingListar' = << >>
    BY <1>b, <1>5 DEF RingLimpar
  <2>2. RingQueue!Clear
    BY <1>5, <2>1 DEF RingQueue!Clear, RingQueue!Answer, RingLimpar, RingAnswer
  <2>3. QED
    BY <2>2 DEF RingQueue!Next
<1>6. CASE UNCHANGED ringVars
  BY <1>6 DEF ringVars, RingListar
<1>7. QED
  BY <1>1, <1>2, <1>3, <1>4, <1>5, <1>6 DEF RingNext

(***************************************************************************)
(* For every capacity and every set of values, fila_circular is a bounded  *)
(* first-in first-out queue.                                               *)
(***************************************************************************)
THEOREM RingImplementsQueue == RingSpec => RingImplements
<1>1. RingInit => RingInv
  BY RingInitInv
<1>2. RingInv /\ [RingNext]_ringVars => RingInv'
  BY RingStepInv
<1>3. RingInit => RingQueue!Init
  BY DEF RingInit, RingQueue!Init, RingListar, RingAnswer, RingQueue!Answer
<1>4. RingInv => ListarSeq
  BY ListarReturnsSeq
<1>5. RingInv /\ ListarSeq /\ ListarSeq' /\ [RingNext]_ringVars => [RingQueue!Next]_<<RingListar, ringOut>>
  BY RingStepImplements
<1>6. QED
  BY <1>1, <1>2, <1>3, <1>4, <1>5, PTL DEF RingSpec, RingImplements, RingQueue!Spec

(***************************************************************************)
(* For every capacity, any sequence of calls leaves the ring well typed and *)
(* its indices, count and slots in agreement.                              *)
(***************************************************************************)
THEOREM RingCorrect == RingSpec => []RingSound
<1>1. RingInit => RingInv
  BY RingInitInv
<1>2. RingInv /\ [RingNext]_ringVars => RingInv'
  BY RingStepInv
<1>3. RingInv => RingSound
  BY DEF RingInv, RingSound
<1>4. QED
  BY <1>1, <1>2, <1>3, PTL DEF RingSpec

-----------------------------------------------------------------------------
(* fila.                                                                   *)

(* The inductive invariant. *)
FilaInv == FilaTypeOK /\ DeadSlotsBounded

(* A new queue has no dead slot. *)
LEMMA FilaInitInv == FilaInit => FilaInv
<1> SUFFICES ASSUME FilaInit PROVE FilaInv
  OBVIOUS
<1>1. FilaTypeOK
  <2>1. Initial \in Seq(Values \cup {undefined}) /\ Len(Initial) \in Nat
    BY FilaAssumption, UndefinedAssumption
  <2>2. \A i \in 1 .. Len(Initial) : Initial[i] # undefined
    BY FilaAssumption, UndefinedAssumption
  <2>3. QED
    BY <2>1, <2>2 DEF FilaInit, FilaTypeOK
<1>2. DeadSlotsBounded
  BY FilaAssumption, UndefinedAssumption DEF FilaInit, DeadSlotsBounded
<1>3. QED
  BY <1>1, <1>2 DEF FilaInv

(* What compactar returns: the slots after the front, in their order. *)
LEMMA SurvivingSlots ==
  ASSUME NEW S, NEW s \in Seq(S), NEW n \in 0 .. Len(s)
  PROVE  /\ Surviving(s, n) \in Seq(S)
         /\ Len(Surviving(s, n)) = Len(s) - n
         /\ \A i \in 1 .. Len(s) - n : Surviving(s, n)[i] = s[n + i]
<1>1. Len(s) \in Nat
  OBVIOUS
<1>2. /\ SubSeq(s, n + 1, Len(s)) \in Seq(S)
      /\ Len(SubSeq(s, n + 1, Len(s))) = IF n + 1 <= Len(s) THEN Len(s) - (n + 1) + 1 ELSE 0
      /\ \A i \in 1 .. Len(s) - (n + 1) + 1 : SubSeq(s, n + 1, Len(s))[i] = s[n + 1 + i - 1]
  BY <1>1, SubSeqProperties
<1>3. QED
  BY <1>1, <1>2 DEF Surviving

(* What tirar leaves in the array when it does not compact. *)
LEMMA EmptiedSlots ==
  ASSUME NEW S, itens \in Seq(S), undefined \in S, NEW n \in 1 .. Len(itens)
  PROVE  /\ Emptied(n) \in Seq(S)
         /\ Len(Emptied(n)) = Len(itens)
         /\ \A i \in 1 .. Len(itens) : Emptied(n)[i] = IF i = n THEN undefined ELSE itens[i]
BY ExceptSeq DEF Emptied

(* Facts about the array that both branches of tirar need. *)
LEMMA AfterTirar ==
  ASSUME FilaInv, cabeca < Len(itens)
  PROVE  /\ cabeca + 1 \in 1 .. Len(itens)
         /\ Emptied(cabeca + 1) \in Seq(Values \cup {undefined})
         /\ Len(Emptied(cabeca + 1)) = Len(itens)
         /\ \A i \in 1 .. Len(itens) :
               Emptied(cabeca + 1)[i] = IF i = cabeca + 1 THEN undefined ELSE itens[i]
         /\ Surviving(Emptied(cabeca + 1), cabeca + 1) \in Seq(Values \cup {undefined})
         /\ Len(Surviving(Emptied(cabeca + 1), cabeca + 1)) = Len(itens) - (cabeca + 1)
         /\ \A i \in 1 .. Len(itens) - (cabeca + 1) :
               Surviving(Emptied(cabeca + 1), cabeca + 1)[i] = itens[cabeca + 1 + i]
<1>1. cabeca + 1 \in 1 .. Len(itens) /\ itens \in Seq(Values \cup {undefined}) /\ Len(itens) \in Nat
  BY DEF FilaInv, FilaTypeOK
<1>2. /\ Emptied(cabeca + 1) \in Seq(Values \cup {undefined})
      /\ Len(Emptied(cabeca + 1)) = Len(itens)
      /\ \A i \in 1 .. Len(itens) :
            Emptied(cabeca + 1)[i] = IF i = cabeca + 1 THEN undefined ELSE itens[i]
  BY <1>1, EmptiedSlots
<1>3. cabeca + 1 \in 0 .. Len(Emptied(cabeca + 1))
  BY <1>1, <1>2
<1>4. /\ Surviving(Emptied(cabeca + 1), cabeca + 1) \in Seq(Values \cup {undefined})
      /\ Len(Surviving(Emptied(cabeca + 1), cabeca + 1)) = Len(itens) - (cabeca + 1)
      /\ \A i \in 1 .. Len(itens) - (cabeca + 1) :
            Surviving(Emptied(cabeca + 1), cabeca + 1)[i] = Emptied(cabeca + 1)[cabeca + 1 + i]
  <2>1. /\ Surviving(Emptied(cabeca + 1), cabeca + 1) \in Seq(Values \cup {undefined})
        /\ Len(Surviving(Emptied(cabeca + 1), cabeca + 1)) = Len(Emptied(cabeca + 1)) - (cabeca + 1)
        /\ \A i \in 1 .. Len(Emptied(cabeca + 1)) - (cabeca + 1) :
              Surviving(Emptied(cabeca + 1), cabeca + 1)[i] = Emptied(cabeca + 1)[cabeca + 1 + i]
    BY <1>2, <1>3, SurvivingSlots, Zenon
  <2>2. QED
    BY <1>2, <2>1, Zenon
<1>5. ASSUME NEW i \in 1 .. Len(itens) - (cabeca + 1)
      PROVE  Surviving(Emptied(cabeca + 1), cabeca + 1)[i] = itens[cabeca + 1 + i]
  <2>1. cabeca + 1 + i \in 1 .. Len(itens) /\ cabeca + 1 + i # cabeca + 1
    BY <1>1 DEF FilaInv, FilaTypeOK
  <2>2. Emptied(cabeca + 1)[cabeca + 1 + i] = itens[cabeca + 1 + i]
    BY <1>2, <2>1
  <2>3. QED
    BY <1>4, <2>2
<1>6. QED
  BY <1>1, <1>2, <1>4, <1>5

(* Every method keeps the dead slots empty and bounded. *)
LEMMA FilaStepInv == FilaInv /\ [FilaNext]_filaVars => FilaInv'
<1> SUFFICES ASSUME FilaInv, [FilaNext]_filaVars PROVE FilaInv'
  OBVIOUS
<1> USE FilaAssumption, UndefinedAssumption
<1>a. itens \in Seq(Values \cup {undefined}) /\ Len(itens) \in Nat /\ cabeca \in 0 .. Len(itens)
  BY DEF FilaInv, FilaTypeOK
<1>1. ASSUME NEW v \in Values, FilaEmpurrar(v) PROVE FilaInv'
  <2>1. /\ itens' \in Seq(Values \cup {undefined}) /\ Len(itens') = Len(itens) + 1
        /\ \A i \in 1 .. Len(itens) : itens'[i] = itens[i]
        /\ itens'[Len(itens) + 1] = v
    BY <1>1, <1>a, AppendProperties DEF FilaEmpurrar
  <2>2. FilaTypeOK'
    <3>1. ASSUME NEW i \in 1 .. Len(itens'), i # Len(itens) + 1
          PROVE  (itens'[i] = undefined) <=> (i <= cabeca')
      <4>1. i \in 1 .. Len(itens)
        BY <1>a, <2>1, <3>1
      <4>2. QED
        BY <1>1, <2>1, <4>1 DEF FilaEmpurrar, FilaInv, FilaTypeOK
    <3>2. (itens'[Len(itens) + 1] = undefined) <=> (Len(itens) + 1 <= cabeca')
      BY <1>1, <1>a, <2>1 DEF FilaEmpurrar
    <3>3. cabeca' \in 0 .. Len(itens')
      BY <1>1, <1>a, <2>1 DEF FilaEmpurrar
    <3>4. QED
      BY <2>1, <3>1, <3>2, <3>3 DEF FilaTypeOK
  <2>3. DeadSlotsBounded'
    BY <1>1, <1>a, <2>1 DEF FilaEmpurrar, FilaInv, DeadSlotsBounded, Tamanho
  <2>4. QED
    BY <2>2, <2>3 DEF FilaInv
<1>2. CASE FilaTirar
  <2>a. cabeca < Len(itens)
    BY <1>2 DEF FilaTirar
  <2>1. CASE ShouldCompact(cabeca + 1)
    <3>1. itens' = Surviving(Emptied(cabeca + 1), cabeca + 1) /\ cabeca' = 0
      BY <1>2, <2>1 DEF FilaTirar
    <3>2. itens' \in Seq(Values \cup {undefined}) /\ Len(itens') = Len(itens) - (cabeca + 1)
      BY <2>a, <3>1, AfterTirar
    <3>3. ASSUME NEW i \in 1 .. Len(itens') PROVE itens'[i] # undefined
      <4>1. cabeca + 1 + i \in 1 .. Len(itens) /\ cabeca + 1 + i > cabeca
        BY <1>a, <3>2
      <4>2. itens'[i] = itens[cabeca + 1 + i]
        BY <2>a, <3>1, <3>2, AfterTirar
      <4>3. QED
        BY <1>a, <4>1, <4>2 DEF FilaInv, FilaTypeOK
    <3>4. FilaTypeOK'
      BY <1>a, <3>1, <3>2, <3>3 DEF FilaTypeOK
    <3>5. DeadSlotsBounded'
      BY <3>1 DEF DeadSlotsBounded
    <3>6. QED
      BY <3>4, <3>5 DEF FilaInv
  <2>2. CASE ~ShouldCompact(cabeca + 1)
    <3>1. itens' = Emptied(cabeca + 1) /\ cabeca' = cabeca + 1
      BY <1>2, <2>2 DEF FilaTirar
    <3>2. /\ itens' \in Seq(Values \cup {undefined}) /\ Len(itens') = Len(itens)
          /\ \A i \in 1 .. Len(itens) : itens'[i] = IF i = cabeca + 1 THEN undefined ELSE itens[i]
      BY <2>a, <3>1, AfterTirar
    <3>3. FilaTypeOK'
      BY <1>a, <2>a, <3>1, <3>2 DEF FilaInv, FilaTypeOK
    <3>4. DeadSlotsBounded'
      BY <1>a, <2>2, <3>1, <3>2 DEF ShouldCompact, DeadSlotsBounded, Tamanho
    <3>5. QED
      BY <3>3, <3>4 DEF FilaInv
  <2>3. QED
    BY <2>1, <2>2
<1>3. CASE FilaTirarVazia
  BY <1>3 DEF FilaTirarVazia, FilaInv, FilaTypeOK, DeadSlotsBounded, Tamanho
<1>4. CASE UNCHANGED filaVars
  BY <1>4 DEF filaVars, FilaInv, FilaTypeOK, DeadSlotsBounded, Tamanho
<1>5. QED
  BY <1>1, <1>2, <1>3, <1>4 DEF FilaNext

ItensSeq ==
  /\ Itens \in Seq(Values)
  /\ Len(Itens) = Tamanho
  /\ \A i \in 1 .. Tamanho : Itens[i] = itens[cabeca + i]

(* The getter itens returns the live values. *)
LEMMA ItensReturnsSeq == FilaInv => ItensSeq
<1> SUFFICES ASSUME FilaInv PROVE ItensSeq
  OBVIOUS
<1>1. cabeca + 1 \in Int /\ Len(itens) \in Nat /\ cabeca \in 0 .. Len(itens)
  BY DEF FilaInv, FilaTypeOK
<1>2. \A i \in cabeca + 1 .. Len(itens) : itens[i] \in Values
  <2> SUFFICES ASSUME NEW i \in cabeca + 1 .. Len(itens) PROVE itens[i] \in Values
    OBVIOUS
  <2>1. i \in 1 .. Len(itens) /\ ~(i <= cabeca)
    BY <1>1
  <2>2. itens[i] \in Values \cup {undefined}
    BY <2>1 DEF FilaInv, FilaTypeOK
  <2>3. QED
    BY <2>1, <2>2 DEF FilaInv, FilaTypeOK
<1>3. /\ Itens \in Seq(Values)
      /\ Len(Itens) = IF cabeca + 1 <= Len(itens) THEN Len(itens) - (cabeca + 1) + 1 ELSE 0
      /\ \A i \in 1 .. Len(itens) - (cabeca + 1) + 1 : Itens[i] = itens[cabeca + 1 + i - 1]
  BY <1>1, <1>2, SubSeqProperties DEF Itens
<1>4. QED
  BY <1>1, <1>3 DEF ItensSeq, Tamanho

(* Every step of the array is a step of the queue, or leaves it alone. *)
LEMMA FilaStepImplements ==
  ASSUME FilaInv, FilaInv', ItensSeq, ItensSeq', [FilaNext]_filaVars
  PROVE  [FilaQueue!Next]_<<Itens, filaOut>>
<1> USE FilaAssumption, UndefinedAssumption
<1>a. itens \in Seq(Values \cup {undefined}) /\ Len(itens) \in Nat /\ cabeca \in 0 .. Len(itens)
  BY DEF FilaInv, FilaTypeOK
<1>b. /\ Itens \in Seq(Values) /\ Len(Itens) = Len(itens) - cabeca
      /\ \A i \in 1 .. Len(itens) - cabeca : Itens[i] = itens[cabeca + i]
  BY DEF ItensSeq, Tamanho
<1>c. /\ Itens' \in Seq(Values) /\ Len(Itens') = Len(itens') - cabeca'
      /\ \A i \in 1 .. Len(itens') - cabeca' : Itens'[i] = itens'[cabeca' + i]
  BY DEF ItensSeq, Tamanho
<1>1. ASSUME NEW v \in Values, FilaEmpurrar(v) PROVE FilaQueue!Next
  <2>1. /\ Len(itens') = Len(itens) + 1 /\ cabeca' = cabeca
        /\ \A i \in 1 .. Len(itens) : itens'[i] = itens[i]
        /\ itens'[Len(itens) + 1] = v
    BY <1>1, <1>a, AppendProperties DEF FilaEmpurrar
  <2>2. Append(Itens, v) = Itens'
    <3>1. /\ Append(Itens, v) \in Seq(Values) /\ Len(Append(Itens, v)) = Len(itens) - cabeca + 1
          /\ \A i \in 1 .. Len(itens) - cabeca : Append(Itens, v)[i] = Itens[i]
          /\ Append(Itens, v)[Len(itens) - cabeca + 1] = v
      BY <1>b, AppendProperties
    <3>2. Len(Itens') = Len(itens) - cabeca + 1
      BY <1>a, <1>c, <2>1
    <3>3. ASSUME NEW i \in 1 .. Len(itens) - cabeca PROVE Append(Itens, v)[i] = Itens'[i]
      <4>1. Itens'[i] = itens'[cabeca + i]
        BY <1>a, <1>c, <2>1
      <4>2. cabeca + i \in 1 .. Len(itens)
        BY <1>a
      <4>3. QED
        BY <1>b, <2>1, <3>1, <4>1, <4>2, Zenon
    <3>4. Itens'[Len(itens) - cabeca + 1] = v
      <4>1. Itens'[Len(itens) - cabeca + 1] = itens'[cabeca + (Len(itens) - cabeca + 1)]
        BY <1>a, <1>c, <2>1
      <4>2. cabeca + (Len(itens) - cabeca + 1) = Len(itens) + 1
        BY <1>a
      <4>3. QED
        BY <2>1, <4>1, <4>2, Zenon
    <3>5. ASSUME NEW i \in 1 .. Len(itens) - cabeca + 1 PROVE Append(Itens, v)[i] = Itens'[i]
      <4>1. i \in 1 .. Len(itens) - cabeca \/ i = Len(itens) - cabeca + 1
        BY <1>a
      <4>2. QED
        BY <3>1, <3>3, <3>4, <4>1, Zenon
    <3>6. QED
      BY <1>c, <3>1, <3>2, <3>5, SeqEqual
  <2>3. FilaQueue!Push(v)
    BY <1>1, <1>a, <1>b, <2>2 DEF FilaQueue!Push, FilaQueue!Answer, FilaEmpurrar, FilaAnswer, Tamanho
  <2>4. QED
    BY <2>3 DEF FilaQueue!Next
<1>2. CASE FilaTirar
  <2>a. cabeca < Len(itens)
    BY <1>2 DEF FilaTirar
  <2>1. Itens # << >> /\ Itens[1] = itens[cabeca + 1]
    BY <1>a, <1>b, <2>a
  <2>2. /\ Len(itens') - cabeca' = Len(itens) - cabeca - 1
        /\ \A i \in 1 .. Len(itens) - cabeca - 1 : itens'[cabeca' + i] = itens[cabeca + 1 + i]
    <3>1. CASE ShouldCompact(cabeca + 1)
      <4>1. itens' = Surviving(Emptied(cabeca + 1), cabeca + 1) /\ cabeca' = 0
        BY <1>2, <3>1 DEF FilaTirar
      <4>2. QED
        BY <1>a, <2>a, <4>1, AfterTirar
    <3>2. CASE ~ShouldCompact(cabeca + 1)
      <4>1. itens' = Emptied(cabeca + 1) /\ cabeca' = cabeca + 1
        BY <1>2, <3>2 DEF FilaTirar
      <4>2. QED
        BY <1>a, <2>a, <4>1, AfterTirar
    <3>3. QED
      BY <3>1, <3>2
  <2>3. Tail(Itens) = Itens'
    <3>1. /\ Tail(Itens) \in Seq(Values) /\ Len(Tail(Itens)) = Len(itens) - cabeca - 1
          /\ \A i \in 1 .. Len(itens) - cabeca - 1 : Tail(Itens)[i] = Itens[i + 1]
      BY <1>a, <1>b, <2>1, HeadTailProperties
    <3>2. ASSUME NEW i \in 1 .. Len(itens) - cabeca - 1 PROVE Tail(Itens)[i] = Itens'[i]
      <4>1. Itens'[i] = itens[cabeca + 1 + i]
        BY <1>a, <1>c, <2>2
      <4>2. i + 1 \in 1 .. Len(itens) - cabeca /\ cabeca + (i + 1) = cabeca + 1 + i
        BY <1>a
      <4>3. QED
        BY <1>b, <3>1, <4>1, <4>2, Zenon
    <3>3. QED
      BY <1>c, <2>2, <3>1, <3>2, SeqEqual
  <2>4. FilaQueue!Pop
    <3>1. Head(Itens) = Itens[1]
      OBVIOUS
    <3>2. QED
      BY <1>2, <2>1, <2>3, <3>1 DEF FilaQueue!Pop, FilaQueue!Answer, FilaTirar, FilaAnswer
  <2>5. QED
    BY <2>4 DEF FilaQueue!Next
<1>3. CASE FilaTirarVazia
  <2>1. Itens = << >> /\ Itens' = Itens
    BY <1>a, <1>b, <1>3 DEF FilaTirarVazia, Itens
  <2>2. FilaQueue!PopEmpty
    BY <1>3, <2>1 DEF FilaQueue!PopEmpty, FilaQueue!Answer, FilaTirarVazia, FilaAnswer
  <2>3. QED
    BY <2>2 DEF FilaQueue!Next
<1>4. CASE UNCHANGED filaVars
  BY <1>4 DEF filaVars, Itens
<1>5. QED
  BY <1>1, <1>2, <1>3, <1>4 DEF FilaNext

(***************************************************************************)
(* For every threshold, a queue keeps at most Threshold dead slots, or     *)
(* fewer than it has live items.                                           *)
(***************************************************************************)
THEOREM DeadSlotsStayBounded == FilaSpec => []DeadSlotsBounded
<1>1. FilaInit => FilaInv
  BY FilaInitInv
<1>2. FilaInv /\ [FilaNext]_filaVars => FilaInv'
  BY FilaStepInv
<1>3. FilaInv => DeadSlotsBounded
  BY DEF FilaInv
<1>4. QED
  BY <1>1, <1>2, <1>3, PTL DEF FilaSpec

(***************************************************************************)
(* For every threshold and initial array, fila is a first-in first-out     *)
(* queue: no compaction loses, repeats or reorders an item.                *)
(***************************************************************************)
THEOREM FilaImplementsQueue == FilaSpec => FilaImplements
<1>1. FilaInit => FilaInv
  BY FilaInitInv
<1>2. FilaInv /\ [FilaNext]_filaVars => FilaInv'
  BY FilaStepInv
<1>3. FilaInit => FilaQueue!Init
  <2> SUFFICES ASSUME FilaInit PROVE FilaQueue!Init
    OBVIOUS
  <2>1. SubSeq(Initial, 0 + 1, Len(Initial)) = Initial
    BY FilaAssumption, UndefinedAssumption
  <2>2. QED
    BY <2>1 DEF FilaInit, FilaQueue!Init, Itens, FilaAnswer, FilaQueue!Answer
<1>4. FilaInv => ItensSeq
  BY ItensReturnsSeq
<1>5. FilaInv /\ FilaInv' /\ ItensSeq /\ ItensSeq' /\ [FilaNext]_filaVars => [FilaQueue!Next]_<<Itens, filaOut>>
  BY FilaStepImplements
<1>6. QED
  BY <1>1, <1>2, <1>3, <1>4, <1>5, PTL DEF FilaSpec, FilaImplements, FilaQueue!Spec

(***************************************************************************)
(* For every threshold and initial content, any sequence of calls leaves   *)
(* the queue well typed and its dead slots bounded.                        *)
(***************************************************************************)
THEOREM FilaCorrect == FilaSpec => []FilaSound
<1>1. FilaInit => FilaInv
  BY FilaInitInv
<1>2. FilaInv /\ [FilaNext]_filaVars => FilaInv'
  BY FilaStepInv
<1>3. FilaInv => FilaSound
  BY DEF FilaInv, FilaSound
<1>4. QED
  BY <1>1, <1>2, <1>3, PTL DEF FilaSpec
=============================================================================
