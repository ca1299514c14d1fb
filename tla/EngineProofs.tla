------------------------------ MODULE EngineProofs ------------------------------
(***************************************************************************)
(* Proofs about parts of the QuickJS engine: asynchronous generators       *)
(* (AsyncGenerator), Atomics.wait and Atomics.notify (AtomicsWait), and    *)
(* promises (Promises): that each is settled once, and that reactions run  *)
(* once, in order, and carry a promise to those that follow it.            *)
(***************************************************************************)
EXTENDS AsyncGenerator, AtomicsWait, Promises, ListLemmas, TLAPS

-----------------------------------------------------------------------------
(* Asynchronous generators.                                                *)

RequestKinds == {"next", "return", "throw"}
Requests == [id : Nat, kind : RequestKinds]
AnswersGiven == [how : {"value", "done", "rejected"}, id : Nat, kind : RequestKinds]

GeneratorTypeOK ==
  /\ genState \in {"start", "executing", "yield", "yield_star", "completed", "awaiting_return"}
  /\ frame \in BOOLEAN /\ genAsserts \in BOOLEAN
  /\ queue \in Seq(Requests) /\ answered \in Seq(AnswersGiven)
  /\ control \in {"script", "loop", "body"}
  /\ awaits \in SUBSET {"body", "return"}
  /\ asked \in Nat

(* Requests have consecutive numbers: the answered ones, then the queue. *)
Numbering ==
  /\ asked = Len(answered) + Len(queue)
  /\ \A i \in DOMAIN queue : queue[i].id = Len(answered) + i

(***************************************************************************)
(* Where the thread is, what is awaited and what the state says agree: the *)
(* body runs, or is entered, or its await is waited for, exactly in the    *)
(* state "executing", and each of these has its request in the queue; a    *)
(* return is awaited exactly in the state "awaiting_return"; otherwise a   *)
(* generator with code left rests only with an empty queue.                *)
(***************************************************************************)
StateAgrees ==
  /\ frame = (genState \notin {"completed", "awaiting_return"})
  /\ ("return" \in awaits) = (genState = "awaiting_return")
  /\ control = "body" => genState = "executing"
  /\ "body" \in awaits => genState = "executing" /\ control = "script"
  /\ genState = "executing" /\ control = "script" => "body" \in awaits
  /\ genState \in {"executing", "awaiting_return"} => queue # <<>>
  /\ genState \in {"start", "yield", "yield_star"} /\ control = "script" => queue = <<>>

ValuesFirst ==
  genState \notin {"completed", "awaiting_return"} =>
    \A i \in DOMAIN answered : answered[i].how = "value"

GeneratorInv ==
  /\ GeneratorTypeOK /\ genAsserts = TRUE
  /\ Numbering /\ AnswersInOrder
  /\ StateAgrees /\ ValuesFirst

(* An answer takes the first request and keeps the numbers in line. *)
LEMMA AnswerKeepsNumbers ==
  ASSUME GeneratorTypeOK, Numbering, AnswersInOrder, queue # <<>>, UNCHANGED asked,
         NEW how \in {"value", "done", "rejected"}, Answers(how)
  PROVE  /\ queue' \in Seq(Requests) /\ answered' \in Seq(AnswersGiven)
         /\ Numbering' /\ AnswersInOrder'
         /\ DOMAIN answered' = 1 .. Len(answered) + 1
         /\ answered'[Len(answered) + 1].how = how
         /\ \A i \in DOMAIN answered : answered'[i] = answered[i]
<1>0. queue \in Seq(Requests) /\ answered \in Seq(AnswersGiven)
  BY DEF GeneratorTypeOK
<1>1. PICK n \in Nat, k \in Nat \ {0} : n = Len(answered) /\ k = Len(queue)
  <2>1. Len(queue) \in Nat /\ Len(answered) \in Nat /\ Len(queue) # 0
    BY <1>0, EmptySeq
  <2>2. QED
    BY <2>1
<1>2. /\ queue \in Seq(Requests) /\ answered \in Seq(AnswersGiven) /\ asked = n + k
      /\ DOMAIN queue = 1 .. k /\ DOMAIN answered = 1 .. n
      /\ \A i \in 1 .. k : queue[i].id = n + i
      /\ \A i \in 1 .. n : answered[i].id = i
  <2>1. DOMAIN queue = 1 .. k /\ DOMAIN answered = 1 .. n
    BY <1>0, <1>1
  <2>2. asked = n + k /\ \A i \in DOMAIN queue : queue[i].id = n + i
    BY <1>1 DEF Numbering
  <2>3. QED
    BY <1>0, <2>1, <2>2 DEF AnswersInOrder
<1>3. queue[1] \in Requests /\ queue[1].id = n + 1 /\ queue[1].kind \in RequestKinds
  <2>1. 1 \in 1 .. k
    OBVIOUS
  <2>2. queue[1] \in Requests /\ queue[1].id = n + 1
    BY <1>0, <1>2, <2>1
  <2>3. QED
    BY <2>2 DEF Requests
<1> DEFINE ans == [how |-> how, id |-> queue[1].id, kind |-> queue[1].kind]
<1>4. ans \in AnswersGiven /\ ans.id = n + 1 /\ ans.how = how
  BY <1>3 DEF AnswersGiven
<1>5. answered' = Append(answered, ans) /\ queue' = Tail(queue)
  BY DEF Answers
<1> HIDE DEF ans
<1>6. /\ answered' \in Seq(AnswersGiven) /\ Len(answered') = n + 1 /\ DOMAIN answered' = 1 .. n + 1
      /\ answered'[n + 1] = ans /\ \A i \in 1 .. n : answered'[i] = answered[i]
  BY <1>1, <1>2, <1>4, <1>5
<1>7. /\ queue' \in Seq(Requests) /\ Len(queue') = k - 1 /\ DOMAIN queue' = 1 .. k - 1
      /\ \A i \in 1 .. k - 1 : queue'[i] = queue[i + 1]
  BY <1>1, <1>2, <1>5
<1>8. Numbering'
  <2>1. asked' = Len(answered') + Len(queue')
    <3>1. asked' = n + k
      BY <1>2
    <3>2. (n + 1) + (k - 1) = n + k
      OBVIOUS
    <3>3. QED
      BY <1>6, <1>7, <3>1, <3>2
  <2>2. ASSUME NEW i \in 1 .. k - 1 PROVE queue'[i].id = (n + 1) + i
    <3>1. i + 1 \in 1 .. k /\ n + (i + 1) = (n + 1) + i
      OBVIOUS
    <3>2. queue'[i] = queue[i + 1] /\ queue[i + 1].id = n + (i + 1)
      BY <1>2, <1>7, <3>1
    <3>3. QED
      BY <3>1, <3>2
  <2>3. QED
    BY <1>6, <1>7, <2>1, <2>2 DEF Numbering
<1>9. AnswersInOrder'
  <2>1. ASSUME NEW i \in 1 .. n + 1 PROVE answered'[i].id = i
    <3>1. CASE i = n + 1
      BY <1>4, <1>6, <3>1
    <3>2. CASE i \in 1 .. n
      BY <1>2, <1>6, <3>2
    <3>3. QED
      BY <3>1, <3>2
  <2>2. QED
    BY <1>6, <2>1 DEF AnswersInOrder
<1>10. QED
  BY <1>1, <1>2, <1>4, <1>6, <1>7, <1>8, <1>9

LEMMA GeneratorInitInv == AsyncGeneratorInit => GeneratorInv
<1> SUFFICES ASSUME AsyncGeneratorInit PROVE GeneratorInv
  OBVIOUS
<1>1. /\ queue = <<>> /\ answered = <<>> /\ asked = 0
      /\ queue \in Seq(Requests) /\ answered \in Seq(AnswersGiven)
  BY DEF AsyncGeneratorInit
<1>2. Len(queue) = 0 /\ Len(answered) = 0 /\ DOMAIN queue = {} /\ DOMAIN answered = {}
  BY <1>1
<1>3. GeneratorTypeOK
  BY <1>1 DEF AsyncGeneratorInit, GeneratorTypeOK
<1>4. Numbering /\ AnswersInOrder /\ ValuesFirst
  BY <1>1, <1>2 DEF Numbering, AnswersInOrder, ValuesFirst
<1>5. StateAgrees
  <2>1. genState = "start" /\ control = "script" /\ awaits = {} /\ queue = <<>> /\ frame = TRUE
    BY DEF AsyncGeneratorInit
  <2>2. (genState \notin {"completed", "awaiting_return"}) = TRUE
    BY <2>1
  <2>3. frame = (genState \notin {"completed", "awaiting_return"})
    BY <2>1, <2>2
  <2>4. QED
    BY <2>1, <2>3 DEF StateAgrees
<1>6. QED
  BY <1>3, <1>4, <1>5 DEF AsyncGeneratorInit, GeneratorInv

(* A step that neither asks nor answers keeps the numbers. *)
LEMMA NumbersKept ==
  ASSUME Numbering, AnswersInOrder, UNCHANGED <<queue, asked, answered>>
  PROVE  Numbering' /\ AnswersInOrder'
BY DEF Numbering, AnswersInOrder

(* js_async_generator_next. *)
LEMMA RequestInv ==
  ASSUME GeneratorInv, NEW kind \in RequestKinds, GeneratorRequest(kind)
  PROVE  GeneratorInv'
<1>1. PICK n \in Nat, k \in Nat : n = Len(answered) /\ k = Len(queue)
  BY DEF GeneratorInv, GeneratorTypeOK
<1>2. /\ queue \in Seq(Requests) /\ asked = n + k /\ DOMAIN queue = 1 .. k
      /\ \A i \in 1 .. k : queue[i].id = n + i
  <2>1. queue \in Seq(Requests)
    BY DEF GeneratorInv, GeneratorTypeOK
  <2>2. DOMAIN queue = 1 .. k
    BY <1>1, <2>1
  <2>3. asked = n + k /\ \A i \in DOMAIN queue : queue[i].id = n + i
    BY <1>1 DEF GeneratorInv, Numbering
  <2>4. QED
    BY <2>1, <2>2, <2>3
<1> DEFINE r == [id |-> asked + 1, kind |-> kind]
<1>3. r \in Requests /\ r.id = n + (k + 1)
  BY <1>2 DEF Requests
<1>4. queue' = Append(queue, r) /\ asked' = asked + 1 /\ UNCHANGED answered
  BY DEF GeneratorRequest, EnqueuedLast
<1> HIDE DEF r
<1>5. /\ queue' \in Seq(Requests) /\ Len(queue') = k + 1 /\ DOMAIN queue' = 1 .. k + 1
      /\ queue'[k + 1] = r /\ \A i \in 1 .. k : queue'[i] = queue[i]
  BY <1>1, <1>2, <1>3, <1>4
<1>6. Numbering'
  BY <1>1, <1>2, <1>3, <1>4, <1>5, SMTT(20) DEF Numbering
<1>7. GeneratorTypeOK' /\ queue' # <<>>
  <2>1. asked' \in Nat
    BY <1>2, <1>4
  <2>2. queue' # <<>>
    BY <1>5
  <2>3. UNCHANGED <<genState, frame, awaits, answered, genAsserts>>
    BY DEF GeneratorRequest, NeverAsserted
  <2>4. control' \in {"script", "loop", "body"}
    BY DEF GeneratorInv, GeneratorTypeOK, GeneratorRequest
  <2>5. QED
    BY <1>5, <2>1, <2>2, <2>3, <2>4 DEF GeneratorInv, GeneratorTypeOK
<1>8. StateAgrees'
  BY <1>7 DEF GeneratorInv, GeneratorTypeOK, StateAgrees, GeneratorRequest, Serves
<1>9. AnswersInOrder' /\ ValuesFirst'
  BY DEF GeneratorInv, AnswersInOrder, ValuesFirst, GeneratorRequest
<1>10. QED
  BY <1>6, <1>7, <1>8, <1>9 DEF GeneratorInv, GeneratorRequest, NeverAsserted

(* Steps that leave the queue and the answers alone. *)
LEMMA QuietStepInv ==
  ASSUME GeneratorInv,
         \/ LoopEnds \/ LoopResumes \/ LoopCompletesStart \/ LoopAwaitsReturn
         \/ BodyAwaits \/ AwaitSettles
  PROVE  GeneratorInv'
<1>1. UNCHANGED <<queue, asked, answered>>
  BY DEF LoopEnds, LoopResumes, LoopCompletesStart, LoopAwaitsReturn, BodyAwaits, AwaitSettles
<1>2. Numbering' /\ AnswersInOrder'
  BY <1>1, NumbersKept DEF GeneratorInv
<1>3. CASE LoopEnds
  BY <1>1, <1>2, <1>3 DEF LoopEnds, GeneratorInv, GeneratorTypeOK, StateAgrees, ValuesFirst,
                         NeverAsserted
<1>4. CASE LoopResumes
  BY <1>1, <1>2, <1>4 DEF LoopResumes, First, GeneratorInv, GeneratorTypeOK, StateAgrees, ValuesFirst
<1>5. CASE LoopCompletesStart
  BY <1>1, <1>2, <1>5 DEF LoopCompletesStart, GeneratorInv, GeneratorTypeOK, StateAgrees, ValuesFirst,
                         NeverAsserted
<1>6. CASE LoopAwaitsReturn
  BY <1>1, <1>2, <1>6 DEF LoopAwaitsReturn, First, GeneratorInv, GeneratorTypeOK, StateAgrees, ValuesFirst
<1>7. CASE BodyAwaits
  <2>1. /\ control = "body" /\ control' = "script" /\ genState = "executing"
        /\ awaits' = awaits \cup {"body"} /\ UNCHANGED <<genState, frame>>
    BY <1>7 DEF BodyAwaits, GeneratorInv, StateAgrees
  <2>2. genAsserts' = TRUE
    BY <1>7 DEF BodyAwaits, GeneratorInv, StateAgrees
  <2>3. "body" \in awaits' /\ ("return" \in awaits') = ("return" \in awaits)
        /\ awaits' \in SUBSET {"body", "return"}
    BY <2>1 DEF GeneratorInv, GeneratorTypeOK
  <2>4. GeneratorTypeOK'
    BY <1>1, <2>1, <2>2, <2>3 DEF GeneratorInv, GeneratorTypeOK
  <2>5. StateAgrees' /\ ValuesFirst'
    BY <1>1, <2>1, <2>3 DEF GeneratorInv, StateAgrees, ValuesFirst
  <2>6. QED
    BY <1>2, <2>2, <2>4, <2>5 DEF GeneratorInv
<1>8. CASE AwaitSettles
  <2>1. /\ control = "script" /\ control' = "loop" /\ genState = "executing"
        /\ awaits' = awaits \ {"body"} /\ UNCHANGED <<genState, frame>>
    BY <1>8 DEF AwaitSettles, GeneratorInv, StateAgrees
  <2>2. genAsserts' = TRUE
    BY <1>8, <2>1 DEF AwaitSettles, GeneratorInv
  <2>3. "body" \notin awaits' /\ ("return" \in awaits') = ("return" \in awaits)
        /\ awaits' \in SUBSET {"body", "return"}
    BY <2>1 DEF GeneratorInv, GeneratorTypeOK
  <2>4. GeneratorTypeOK'
    BY <1>1, <2>1, <2>2, <2>3 DEF GeneratorInv, GeneratorTypeOK
  <2>5. StateAgrees' /\ ValuesFirst'
    BY <1>1, <2>1, <2>3 DEF GeneratorInv, StateAgrees, ValuesFirst
  <2>6. QED
    BY <1>2, <2>2, <2>4, <2>5 DEF GeneratorInv
<1>9. QED
  BY <1>3, <1>4, <1>5, <1>6, <1>7, <1>8

(* Steps that answer a request. *)
LEMMA AnswerStepInv ==
  ASSUME GeneratorInv,
         \/ LoopAnswersCompleted
         \/ \E kind \in {"yield", "yield_star"} : BodyYields(kind)
         \/ \E how \in {"done", "rejected"} : BodyEnds(how) \/ ReturnSettles(how)
  PROVE  GeneratorInv'
<1>1. GeneratorTypeOK /\ Numbering /\ AnswersInOrder /\ UNCHANGED asked
  BY DEF GeneratorInv, LoopAnswersCompleted, BodyYields, BodyEnds, ReturnSettles
<1>2. CASE LoopAnswersCompleted
  <2>1. PICK how \in {"value", "done", "rejected"} : Answers(how)
    BY <1>2 DEF LoopAnswersCompleted
  <2>2. queue # <<>>
    BY <1>2 DEF LoopAnswersCompleted, First
  <2>3. /\ queue' \in Seq(Requests) /\ answered' \in Seq(AnswersGiven)
        /\ Numbering' /\ AnswersInOrder'
    BY <1>1, <2>1, <2>2, AnswerKeepsNumbers
  <2>4. QED
    BY <1>1, <1>2, <2>3 DEF LoopAnswersCompleted, GeneratorInv, GeneratorTypeOK, StateAgrees,
                           ValuesFirst, NeverAsserted
<1>3. ASSUME NEW kind \in {"yield", "yield_star"}, BodyYields(kind) PROVE GeneratorInv'
  <2>1. Answers("value") /\ queue # <<>>
    BY <1>3 DEF BodyYields, GeneratorInv, StateAgrees
  <2>2. /\ queue' \in Seq(Requests) /\ answered' \in Seq(AnswersGiven)
        /\ Numbering' /\ AnswersInOrder'
        /\ DOMAIN answered' = 1 .. Len(answered) + 1
        /\ answered'[Len(answered) + 1].how = "value"
        /\ \A i \in DOMAIN answered : answered'[i] = answered[i]
    BY <1>1, <2>1, AnswerKeepsNumbers
  <2>3. ValuesFirst'
    <3>1. \A i \in DOMAIN answered : answered[i].how = "value"
      BY <1>3 DEF BodyYields, GeneratorInv, StateAgrees, ValuesFirst
    <3>2. DOMAIN answered = 1 .. Len(answered) /\ Len(answered) \in Nat
      BY DEF GeneratorInv, GeneratorTypeOK
    <3>3. \A i \in 1 .. Len(answered) + 1 : i \in 1 .. Len(answered) \/ i = Len(answered) + 1
      BY <3>2
    <3>4. QED
      BY <2>2, <3>1, <3>2, <3>3 DEF ValuesFirst
  <2>4. QED
    BY <1>1, <1>3, <2>1, <2>2, <2>3 DEF BodyYields, AfterYield, GeneratorInv, GeneratorTypeOK, StateAgrees
<1>4. ASSUME NEW how \in {"done", "rejected"}, BodyEnds(how) PROVE GeneratorInv'
  <2>1. Answers(how) /\ queue # <<>>
    BY <1>4 DEF BodyEnds, GeneratorInv, StateAgrees
  <2>2. /\ queue' \in Seq(Requests) /\ answered' \in Seq(AnswersGiven)
        /\ Numbering' /\ AnswersInOrder'
    BY <1>1, <2>1, AnswerKeepsNumbers
  <2>3. QED
    BY <1>1, <1>4, <2>2 DEF BodyEnds, GeneratorInv, GeneratorTypeOK, StateAgrees, ValuesFirst,
                           NeverAsserted
<1>5. ASSUME NEW how \in {"done", "rejected"}, ReturnSettles(how) PROVE GeneratorInv'
  <2>1. Answers(how) /\ queue # <<>>
    BY <1>5 DEF ReturnSettles, GeneratorInv, StateAgrees
  <2>2. /\ queue' \in Seq(Requests) /\ answered' \in Seq(AnswersGiven)
        /\ Numbering' /\ AnswersInOrder'
    BY <1>1, <2>1, AnswerKeepsNumbers
  <2>3. /\ control = "script" /\ control' = "script" /\ genState = "awaiting_return"
        /\ genState' = "completed" /\ awaits' = awaits \ {"return"} /\ UNCHANGED frame
    BY <1>5 DEF ReturnSettles, GeneratorInv, StateAgrees
  <2>4. genAsserts' = TRUE
    BY <1>5, <2>1, <2>3 DEF ReturnSettles, GeneratorInv
  <2>5. "return" \notin awaits' /\ "body" \notin awaits' /\ awaits' \in SUBSET {"body", "return"}
    BY <2>3 DEF GeneratorInv, GeneratorTypeOK, StateAgrees
  <2>6. GeneratorTypeOK'
    BY <1>1, <2>2, <2>3, <2>4, <2>5 DEF GeneratorInv, GeneratorTypeOK
  <2>7. StateAgrees' /\ ValuesFirst'
    BY <2>3, <2>5 DEF GeneratorInv, StateAgrees, ValuesFirst
  <2>8. QED
    BY <2>2, <2>4, <2>6, <2>7 DEF GeneratorInv
<1>6. QED
  BY <1>2, <1>3, <1>4, <1>5

LEMMA GeneratorStepInv == GeneratorInv /\ [AsyncGeneratorNext]_genVars => GeneratorInv'
<1> SUFFICES ASSUME GeneratorInv, [AsyncGeneratorNext]_genVars PROVE GeneratorInv'
  OBVIOUS
<1>1. CASE \E kind \in {"next", "return", "throw"} : GeneratorRequest(kind)
  BY <1>1, RequestInv DEF RequestKinds
<1>2. CASE \/ LoopEnds \/ LoopResumes \/ LoopCompletesStart \/ LoopAwaitsReturn
           \/ BodyAwaits \/ AwaitSettles
  BY <1>2, QuietStepInv
<1>3. CASE \/ LoopAnswersCompleted
           \/ \E kind \in {"yield", "yield_star"} : BodyYields(kind)
           \/ \E how \in {"done", "rejected"} : BodyEnds(how) \/ ReturnSettles(how)
  BY <1>3, AnswerStepInv
<1>4. CASE UNCHANGED genVars
  BY <1>4 DEF genVars, GeneratorInv, GeneratorTypeOK, Numbering, AnswersInOrder, StateAgrees, ValuesFirst
<1>5. QED
  BY <1>1, <1>2, <1>3, <1>4 DEF AsyncGeneratorNext

(***************************************************************************)
(* js_async_generator_resume_next and its callers, whatever the body does  *)
(* and whatever requests arrive while it runs, awaits or rests: no         *)
(* assertion on the state fails, the body is entered only with its frame   *)
(* and a request to answer, requests are answered in the order they were   *)
(* made, and until the generator has completed none waits while it rests.  *)
(***************************************************************************)
THEOREM GeneratorAlwaysSound == AsyncGeneratorSpec => []GeneratorSound
<1>1. GeneratorInv => GeneratorSound
  BY DEF GeneratorInv, GeneratorTypeOK, StateAgrees, ValuesFirst, GeneratorSound, GeneratorAsserts,
         AnsweredUntilCompleted, Idle
<1>2. QED
  BY <1>1, GeneratorInitInv, GeneratorStepInv, PTL DEF AsyncGeneratorSpec
-----------------------------------------------------------------------------
(* Atomics.wait and Atomics.notify.                                        *)

(***************************************************************************)
(* The invariant: who is between taking and giving back the mutex holds    *)
(* it; the list has each linked waiter once and no other; linked waiters   *)
(* and those about to be signalled are of agents inside their wait; and    *)
(* there is something to signal only while a notify holds the mutex, so    *)
(* that none of these agents can leave before it was signalled.            *)
(***************************************************************************)
MutexHeld == \A g \in Agents : step[g] \in {"link", "take", "signal"} <=> holder = g
ListExact ==
  /\ waiterList \in Seq(Agents) /\ OnceEach(waiterList)
  /\ \A g \in Agents : linked[g] <=> Listed(g, waiterList)
LinkedWait == \A g \in Agents : linked[g] => step[g] \in {"blocked", "woken"}
TakenWait ==
  /\ toSignal \in Seq(Agents)
  /\ \A g \in Agents : Listed(g, toSignal) => step[g] \in {"blocked", "woken"} /\ ~linked[g]
SignalsUnderMutex == toSignal # <<>> => holder \in Agents /\ step[holder] \in {"take", "signal"}

WaitersInv ==
  /\ AtomicsTypeOK /\ MutexHeld /\ ListExact /\ LinkedWait /\ TakenWait /\ SignalsUnderMutex

LEMMA WaitersInvSound == WaitersInv => WaitersSound
<1> SUFFICES ASSUME WaitersInv PROVE WaitersSound
  OBVIOUS
<1>1. Len(waiterList) = Cardinality(ToSet(waiterList))
  BY OnceEachCounts DEF WaitersInv, ListExact
<1>2. \A g \in ToSet(waiterList) : g \in Agents /\ Listed(g, waiterList)
  BY DEF WaitersInv, ListExact, ToSet, Listed
<1>3. \A g : Listed(g, waiterList) => g \in ToSet(waiterList)
  BY DEF ToSet, Listed
<1>4. ToSet(waiterList) = {g \in Agents : linked[g]}
  BY <1>2, <1>3 DEF WaitersInv, ListExact
<1>5. \A g \in ToSet(waiterList) : step[g] \in {"blocked", "woken"}
  BY <1>2 DEF WaitersInv, ListExact, LinkedWait
<1>6. \A g \in ToSet(toSignal) : g \in Agents /\ Listed(g, toSignal)
  BY DEF WaitersInv, TakenWait, ToSet, Listed
<1>7. SignalsLiveWaiter
  BY <1>6 DEF WaitersInv, TakenWait, SignalsLiveWaiter
<1>8. QED
  BY <1>1, <1>4, <1>5, <1>7 DEF WaitersInv, WaitersSound, WaitersAlive

LEMMA WaitersInitInv == AtomicsInit => WaitersInv
<1> SUFFICES ASSUME AtomicsInit PROVE WaitersInv
  OBVIOUS
<1>1. /\ waiterList = <<>> /\ toSignal = <<>> /\ holder = NoAgent /\ signalled = {}
      /\ step = [g \in Agents |-> "script"] /\ linked = [g \in Agents |-> FALSE]
      /\ cell = [a \in Cells |-> 0]
  BY DEF AtomicsInit
<1>2. /\ waiterList \in Seq(Agents) /\ toSignal \in Seq(Agents)
      /\ \A x : ~Listed(x, waiterList) /\ ~Listed(x, toSignal)
  BY <1>1 DEF Listed
<1>3. 0 \in Words
  BY AtomicsAssumption DEF Words
<1>4. AtomicsTypeOK
  BY <1>1, <1>3 DEF AtomicsTypeOK
<1>5. MutexHeld
  BY <1>1, AtomicsAssumption DEF MutexHeld
<1>6. ListExact
  BY <1>1, <1>2 DEF ListExact, OnceEach
<1>7. LinkedWait /\ TakenWait /\ SignalsUnderMutex
  BY <1>1, <1>2 DEF LinkedWait, TakenWait, SignalsUnderMutex
<1>8. QED
  BY <1>4, <1>5, <1>6, <1>7 DEF WaitersInv

(* js_atomics_op: the result is a word of the cell. *)
LEMMA OpResultWord ==
  ASSUME NEW op \in {"add", "sub", "exchange", "compareExchange"},
         NEW old \in Words, NEW v \in Words, NEW rep \in Words
  PROVE  OpResult(op, old, v, rep) \in Words
<1>1. PICK n \in Nat \ {0} : n = 2 ^ Width
  BY AtomicsAssumption
<1>2. Words = 0 .. n - 1
  BY <1>1 DEF Words
<1>3. PICK x \in Int, y \in Int : x = old /\ y = v
  BY <1>2
<1>4. (x + y) % n \in 0 .. n - 1 /\ (x - y) % n \in 0 .. n - 1
  OBVIOUS
<1>5. CASE op = "add"
  BY <1>1, <1>2, <1>3, <1>4, <1>5 DEF OpResult
<1>6. CASE op = "sub"
  BY <1>1, <1>2, <1>3, <1>4, <1>6 DEF OpResult
<1>7. CASE op = "exchange"
  BY <1>7 DEF OpResult
<1>8. CASE op = "compareExchange"
  BY <1>8 DEF OpResult
<1>9. QED
  BY <1>5, <1>6, <1>7, <1>8

(* A step of one agent outside of the mutex, from and to places where it has
   neither the mutex nor a waiter, or from one end of its wait to the other. *)
LEMMA OutsideStepInv ==
  ASSUME WaitersInv, NEW g \in Agents, NEW there,
         step' = [step EXCEPT ![g] = there],
         \/ step[g] \in {"script", "wait"} /\ there \in {"script", "wait", "notify"}
         \/ step[g] = "blocked" /\ there = "woken",
         cell' \in [Cells -> Words],
         UNCHANGED <<holder, waiterList, linked, signalled, toSignal>>
  PROVE  WaitersInv'
<1>1. \A x \in Agents : step'[x] = IF x = g THEN there ELSE step[x]
  BY DEF WaitersInv, AtomicsTypeOK
<1>2. AtomicsTypeOK'
  BY DEF WaitersInv, AtomicsTypeOK
<1>3. MutexHeld'
  BY <1>1 DEF WaitersInv, MutexHeld
<1>4. ListExact'
  BY DEF WaitersInv, ListExact
<1>5. LinkedWait' /\ TakenWait'
  BY <1>1 DEF WaitersInv, LinkedWait, TakenWait
<1>6. SignalsUnderMutex'
  BY <1>1 DEF WaitersInv, SignalsUnderMutex
<1>7. QED
  BY <1>2, <1>3, <1>4, <1>5, <1>6 DEF WaitersInv

(* While nobody holds the mutex no waiter is about to be signalled. *)
LEMMA FreeMutex ==
  ASSUME WaitersInv, holder = NoAgent
  PROVE  toSignal = <<>> /\ \A x \in Agents : step[x] \notin {"link", "take", "signal"}
BY AtomicsAssumption DEF WaitersInv, SignalsUnderMutex, MutexHeld

LEMMA WaitChecksInv ==
  ASSUME WaitersInv, NEW g \in Agents, WaitChecks(g)
  PROVE  WaitersInv'
<1>1. CASE cell[call[g][1]] # call[g][2]
  <2>1. /\ step[g] = "wait" /\ step' = [step EXCEPT ![g] = "script"] /\ cell' \in [Cells -> Words]
        /\ UNCHANGED <<holder, waiterList, linked, signalled, toSignal>>
    BY <1>1 DEF WaitChecks, At, Goto, WaitersInv, AtomicsTypeOK
  <2>2. QED
    BY <2>1, OutsideStepInv
<1>2. CASE cell[call[g][1]] = call[g][2]
  <2>1. /\ step[g] = "wait" /\ step' = [step EXCEPT ![g] = "link"] /\ holder = NoAgent /\ holder' = g
        /\ UNCHANGED <<cell, waiterList, linked, signalled, toSignal>>
    BY <1>2 DEF WaitChecks, At, Goto
  <2>2. \A x \in Agents : step'[x] = IF x = g THEN "link" ELSE step[x]
    BY <2>1 DEF WaitersInv, AtomicsTypeOK
  <2>3. toSignal = <<>> /\ \A x \in Agents : step[x] \notin {"link", "take", "signal"}
    BY <2>1, FreeMutex
  <2>4. AtomicsTypeOK' /\ ListExact'
    BY <2>1 DEF WaitersInv, AtomicsTypeOK, ListExact
  <2>5. MutexHeld'
    BY <2>1, <2>2, <2>3 DEF MutexHeld
  <2>6. LinkedWait' /\ TakenWait'
    BY <2>1, <2>2 DEF WaitersInv, LinkedWait, TakenWait
  <2>7. SignalsUnderMutex'
    BY <2>1, <2>3 DEF SignalsUnderMutex
  <2>8. QED
    BY <2>4, <2>5, <2>6, <2>7 DEF WaitersInv
<1>3. QED
  BY <1>1, <1>2

LEMMA WaitLinksInv ==
  ASSUME WaitersInv, NEW g \in Agents, WaitLinks(g)
  PROVE  WaitersInv'
<1>1. /\ step[g] = "link" /\ step' = [step EXCEPT ![g] = "blocked"]
      /\ waiterList' = Append(waiterList, g) /\ linked' = [linked EXCEPT ![g] = TRUE]
      /\ holder' = NoAgent /\ UNCHANGED <<cell, signalled, toSignal>>
  BY DEF WaitLinks, At, Goto
<1>2. holder = g
  BY <1>1 DEF WaitersInv, MutexHeld
<1>3. \A x \in Agents : step'[x] = IF x = g THEN "blocked" ELSE step[x]
  BY <1>1 DEF WaitersInv, AtomicsTypeOK
<1>4. toSignal = <<>>
  BY <1>1, <1>2 DEF WaitersInv, SignalsUnderMutex
<1>5. ~linked[g] /\ ~Listed(g, waiterList)
  BY <1>1 DEF WaitersInv, LinkedWait, ListExact
<1>6. /\ waiterList' \in Seq(Agents) /\ OnceEach(waiterList')
      /\ \A x : Listed(x, waiterList') <=> Listed(x, waiterList) \/ x = g
  BY <1>1, <1>5, AppendOnce DEF WaitersInv, ListExact
<1>7. \A x \in Agents : linked'[x] <=> linked[x] \/ x = g
  BY <1>1 DEF WaitersInv, AtomicsTypeOK
<1>8. AtomicsTypeOK'
  BY <1>1 DEF WaitersInv, AtomicsTypeOK
<1>9. MutexHeld'
  BY <1>1, <1>2, <1>3, AtomicsAssumption DEF WaitersInv, MutexHeld
<1>10. ListExact'
  BY <1>6, <1>7 DEF WaitersInv, ListExact
<1>11. LinkedWait'
  BY <1>3, <1>7 DEF WaitersInv, LinkedWait
<1>12. TakenWait' /\ SignalsUnderMutex'
  BY <1>1, <1>4 DEF WaitersInv, TakenWait, SignalsUnderMutex, Listed
<1>13. QED
  BY <1>8, <1>9, <1>10, <1>11, <1>12 DEF WaitersInv

LEMMA WaitReturnsInv ==
  ASSUME WaitersInv, NEW g \in Agents, WaitReturns(g)
  PROVE  WaitersInv'
<1>1. /\ step[g] = "woken" /\ step' = [step EXCEPT ![g] = "script"] /\ holder = NoAgent
      /\ linked' = [linked EXCEPT ![g] = FALSE] /\ signalled' = signalled \ {g}
      /\ waiterList' = IF linked[g] THEN RemoveAt(waiterList, PlaceInList(g)) ELSE waiterList
      /\ UNCHANGED <<cell, holder, toSignal>>
  BY DEF WaitReturns, At, Goto
<1>2. \A x \in Agents : step'[x] = IF x = g THEN "script" ELSE step[x]
  BY <1>1 DEF WaitersInv, AtomicsTypeOK
<1>3. \A x \in Agents : linked'[x] <=> linked[x] /\ x # g
  BY <1>1 DEF WaitersInv, AtomicsTypeOK
<1>4. toSignal = <<>>
  BY <1>1, FreeMutex
<1>5. /\ waiterList' \in Seq(Agents) /\ OnceEach(waiterList')
      /\ \A x : Listed(x, waiterList') <=> Listed(x, waiterList) /\ x # g
  <2>1. CASE linked[g]
    <3>1. Listed(g, waiterList)
      BY <2>1 DEF WaitersInv, ListExact
    <3>2. PlaceInList(g) \in DOMAIN waiterList /\ waiterList[PlaceInList(g)] = g
      BY <3>1 DEF Listed, PlaceInList
    <3>3. QED
      BY <1>1, <2>1, <3>2, RemoveAtOnce DEF WaitersInv, ListExact
  <2>2. CASE ~linked[g]
    <3>1. ~Listed(g, waiterList)
      BY <2>2 DEF WaitersInv, ListExact
    <3>2. QED
      BY <1>1, <2>2, <3>1 DEF WaitersInv, ListExact
  <2>3. QED
    BY <2>1, <2>2
<1>6. AtomicsTypeOK'
  BY <1>1 DEF WaitersInv, AtomicsTypeOK
<1>7. MutexHeld' /\ LinkedWait'
  BY <1>1, <1>2, <1>3 DEF WaitersInv, MutexHeld, LinkedWait
<1>8. ListExact'
  BY <1>3, <1>5 DEF WaitersInv, ListExact
<1>9. TakenWait' /\ SignalsUnderMutex'
  BY <1>1, <1>4 DEF WaitersInv, TakenWait, SignalsUnderMutex, Listed
<1>10. QED
  BY <1>6, <1>7, <1>8, <1>9 DEF WaitersInv

(* A notify that walks the list has the mutex, or takes it. *)
LEMMA WalkerAlone ==
  ASSUME WaitersInv, NEW g \in Agents, Walks(g)
  PROVE  /\ step[g] \in {"take", "notify"} /\ holder \in {g, NoAgent}
         /\ \A x \in Agents : x # g => step[x] \notin {"link", "take", "signal"}
         /\ step[g] = "notify" => toSignal = <<>>
<1>1. CASE step[g] = "take"
  BY <1>1, AtomicsAssumption DEF WaitersInv, MutexHeld
<1>2. CASE step[g] = "notify" /\ holder = NoAgent
  BY <1>2, FreeMutex
<1>3. QED
  BY <1>1, <1>2 DEF Walks, At

(* The waiter that the walk reaches first is one of its address, and each
   other of the address comes behind it. *)
LEMMA FirstWaiterFirst ==
  ASSUME WaitersInv, NEW a, PlacesAt(a) # {}
  PROVE  /\ FirstWaiter(a) \in DOMAIN waiterList /\ call[waiterList[FirstWaiter(a)]][1] = a
         /\ \A j \in PlacesAt(a) : FirstWaiter(a) <= j
<1>1. PlacesAt(a) \subseteq Nat
  BY DEF PlacesAt, WaitersInv, ListExact
<1>2. \E i \in PlacesAt(a) : \A j \in PlacesAt(a) : i <= j
  BY <1>1, LeastOf
<1>3. FirstWaiter(a) \in PlacesAt(a) /\ \A j \in PlacesAt(a) : FirstWaiter(a) <= j
  BY <1>2 DEF FirstWaiter
<1>4. QED
  BY <1>3 DEF PlacesAt

LEMMA NotifyTakesInv ==
  ASSUME WaitersInv, NEW g \in Agents, NotifyTakes(g)
  PROVE  WaitersInv'
<1> DEFINE i == FirstWaiter(call[g][1])
           x == waiterList[i]
<1>1. /\ Walks(g) /\ step' = [step EXCEPT ![g] = "take"] /\ holder' = g
      /\ waiterList' = RemoveAt(waiterList, i) /\ linked' = [linked EXCEPT ![x] = FALSE]
      /\ toSignal' = Append(toSignal, x) /\ UNCHANGED <<cell, signalled>>
  BY DEF NotifyTakes, Goto
<1>2. i \in DOMAIN waiterList /\ PlacesAt(call[g][1]) # {}
  BY FirstWaiterFirst DEF NotifyTakes, TakesMore
<1> HIDE DEF i
<1>3. x \in Agents /\ Listed(x, waiterList)
  BY <1>2 DEF WaitersInv, ListExact, Listed
<1>4. /\ waiterList' \in Seq(Agents) /\ OnceEach(waiterList')
      /\ \A y : Listed(y, waiterList') <=> Listed(y, waiterList) /\ y # x
  BY <1>1, <1>2, RemoveAtOnce DEF WaitersInv, ListExact
<1> HIDE DEF x
<1>5. /\ step[g] \in {"take", "notify"} /\ holder \in {g, NoAgent}
      /\ \A y \in Agents : y # g => step[y] \notin {"link", "take", "signal"}
  BY <1>1, WalkerAlone
<1>6. \A y \in Agents : step'[y] = IF y = g THEN "take" ELSE step[y]
  BY <1>1 DEF WaitersInv, AtomicsTypeOK
<1>7. \A y \in Agents : linked'[y] <=> linked[y] /\ y # x
  BY <1>1, <1>3 DEF WaitersInv, AtomicsTypeOK
<1>8. linked[x] /\ step[x] \in {"blocked", "woken"} /\ x # g
  BY <1>3, <1>5 DEF WaitersInv, ListExact, LinkedWait
<1>9. AtomicsTypeOK'
  BY <1>1 DEF WaitersInv, AtomicsTypeOK
<1>10. MutexHeld'
  BY <1>1, <1>5, <1>6 DEF MutexHeld
<1>11. ListExact'
  BY <1>4, <1>7 DEF WaitersInv, ListExact
<1>12. LinkedWait'
  <2>1. ~linked[g]
    BY <1>5 DEF WaitersInv, LinkedWait
  <2>2. QED
    BY <1>6, <1>7, <2>1 DEF WaitersInv, LinkedWait
<1>13. TakenWait'
  <2>1. toSignal' \in Seq(Agents) /\ \A y : Listed(y, toSignal') => Listed(y, toSignal) \/ y = x
    <3>1. PICK n \in Nat : n = Len(toSignal) /\ DOMAIN toSignal = 1 .. n /\ toSignal \in Seq(Agents)
      BY DEF WaitersInv, TakenWait
    <3>2. /\ toSignal' \in Seq(Agents) /\ DOMAIN toSignal' = 1 .. n + 1 /\ toSignal'[n + 1] = x
          /\ \A j \in 1 .. n : toSignal'[j] = toSignal[j]
      BY <1>1, <1>3, <3>1
    <3>3. \A j \in 1 .. n + 1 : j \in 1 .. n \/ j = n + 1
      OBVIOUS
    <3>4. QED
      BY <3>1, <3>2, <3>3 DEF Listed
  <2>2. \A y \in Agents : Listed(y, toSignal) => y # g
    BY <1>5 DEF WaitersInv, TakenWait
  <2>3. QED
    BY <1>6, <1>7, <1>8, <2>1, <2>2 DEF WaitersInv, TakenWait
<1>14. SignalsUnderMutex'
  BY <1>1, <1>6 DEF SignalsUnderMutex
<1>15. QED
  BY <1>9, <1>10, <1>11, <1>12, <1>13, <1>14 DEF WaitersInv

(* Who is behind the walk has the mutex, or takes it and finds nobody. *)
LEMMA TookAlone ==
  ASSUME WaitersInv, NEW g \in Agents, Took(g)
  PROVE  /\ step[g] \in {"take", "notify", "signal"} /\ holder \in {g, NoAgent}
         /\ \A x \in Agents : x # g => step[x] \notin {"link", "take", "signal"}
<1>1. CASE step[g] = "signal"
  BY <1>1, AtomicsAssumption DEF WaitersInv, MutexHeld
<1>2. CASE Walks(g)
  BY <1>2, WalkerAlone
<1>3. QED
  BY <1>1, <1>2 DEF Took, At

LEMMA NotifySignalsInv ==
  ASSUME WaitersInv, NEW g \in Agents, NotifySignals(g)
  PROVE  WaitersInv'
<1>1. /\ Took(g) /\ toSignal # <<>> /\ step' = [step EXCEPT ![g] = "signal"] /\ holder' = g
      /\ signalled' = signalled \cup {Head(toSignal)} /\ toSignal' = Tail(toSignal)
      /\ UNCHANGED <<cell, waiterList, linked>>
  BY DEF NotifySignals, Goto, MutexWhileSignals
<1>2. /\ step[g] \in {"take", "notify", "signal"}
      /\ \A x \in Agents : x # g => step[x] \notin {"link", "take", "signal"}
  BY <1>1, TookAlone
<1>3. \A y \in Agents : step'[y] = IF y = g THEN "signal" ELSE step[y]
  BY <1>1 DEF WaitersInv, AtomicsTypeOK
<1>4. /\ toSignal' \in Seq(Agents) /\ Head(toSignal) \in Agents
      /\ \A y : Listed(y, toSignal') => Listed(y, toSignal)
  <2>1. PICK n \in Nat : n = Len(toSignal) /\ DOMAIN toSignal = 1 .. n /\ toSignal \in Seq(Agents)
    BY DEF WaitersInv, TakenWait
  <2>2. n # 0
    BY <1>1, <2>1
  <2>3. /\ toSignal' \in Seq(Agents) /\ DOMAIN toSignal' = 1 .. n - 1 /\ Head(toSignal) \in Agents
        /\ \A j \in 1 .. n - 1 : toSignal'[j] = toSignal[j + 1]
    BY <1>1, <2>1, <2>2
  <2>4. \A j \in 1 .. n - 1 : j + 1 \in 1 .. n
    OBVIOUS
  <2>5. QED
    BY <2>1, <2>3, <2>4 DEF Listed
<1>5. AtomicsTypeOK'
  BY <1>1, <1>4 DEF WaitersInv, AtomicsTypeOK
<1>6. MutexHeld'
  BY <1>1, <1>2, <1>3 DEF MutexHeld
<1>7. ListExact'
  BY <1>1 DEF WaitersInv, ListExact
<1>8. LinkedWait' /\ TakenWait'
  BY <1>1, <1>2, <1>3, <1>4 DEF WaitersInv, LinkedWait, TakenWait
<1>9. SignalsUnderMutex'
  BY <1>1, <1>3 DEF SignalsUnderMutex
<1>10. QED
  BY <1>5, <1>6, <1>7, <1>8, <1>9 DEF WaitersInv

LEMMA NotifyReturnsInv ==
  ASSUME WaitersInv, NEW g \in Agents, NotifyReturns(g)
  PROVE  WaitersInv'
<1>1. /\ Took(g) /\ toSignal = <<>> /\ step' = [step EXCEPT ![g] = "script"] /\ holder' = NoAgent
      /\ UNCHANGED <<cell, waiterList, linked, signalled, toSignal>>
  BY DEF NotifyReturns, Goto
<1>2. /\ step[g] \in {"take", "notify", "signal"}
      /\ \A x \in Agents : x # g => step[x] \notin {"link", "take", "signal"}
  BY <1>1, TookAlone
<1>3. \A y \in Agents : step'[y] = IF y = g THEN "script" ELSE step[y]
  BY <1>1 DEF WaitersInv, AtomicsTypeOK
<1>4. AtomicsTypeOK' /\ ListExact'
  BY <1>1 DEF WaitersInv, AtomicsTypeOK, ListExact
<1>5. MutexHeld'
  BY <1>1, <1>2, <1>3, AtomicsAssumption DEF MutexHeld
<1>6. LinkedWait' /\ TakenWait'
  BY <1>1, <1>2, <1>3 DEF WaitersInv, LinkedWait, TakenWait
<1>7. SignalsUnderMutex'
  BY <1>1 DEF SignalsUnderMutex
<1>8. QED
  BY <1>4, <1>5, <1>6, <1>7 DEF WaitersInv

LEMMA WaitersStepInv == WaitersInv /\ [AtomicsNext]_atomicsVars => WaitersInv'
<1> SUFFICES ASSUME WaitersInv, [AtomicsNext]_atomicsVars PROVE WaitersInv'
  OBVIOUS
<1>1. ASSUME NEW g \in Agents, InCall(g) PROVE WaitersInv'
  BY <1>1, WaitChecksInv, WaitLinksInv, WaitReturnsInv, NotifyTakesInv, NotifySignalsInv,
     NotifyReturnsInv DEF InCall
<1>2. ASSUME NEW g \in Agents, NEW a \in Cells,
             NEW op \in {"add", "sub", "exchange", "compareExchange"},
             NEW v \in Words, NEW rep \in Words, AtomicsOp(g, a, op, v, rep)
      PROVE  WaitersInv'
  <2>1. OpResult(op, cell[a], v, rep) \in Words
    BY OpResultWord DEF WaitersInv, AtomicsTypeOK
  <2>2. cell' \in [Cells -> Words]
    BY <1>2, <2>1 DEF AtomicsOp, WaitersInv, AtomicsTypeOK
  <2>3. /\ step[g] = "script" /\ step' = [step EXCEPT ![g] = "notify"]
        /\ UNCHANGED <<holder, waiterList, linked, signalled, toSignal>>
    BY <1>2 DEF AtomicsOp, At, Goto
  <2>4. QED
    BY <2>2, <2>3, OutsideStepInv
<1>3. ASSUME NEW g \in Agents, NEW a \in Cells, NEW v, WaitCalled(g, a, v) PROVE WaitersInv'
  <2>1. /\ step[g] = "script" /\ step' = [step EXCEPT ![g] = "wait"] /\ cell' \in [Cells -> Words]
        /\ UNCHANGED <<holder, waiterList, linked, signalled, toSignal>>
    BY <1>3 DEF WaitCalled, At, Goto, WaitersInv, AtomicsTypeOK
  <2>2. QED
    BY <2>1, OutsideStepInv
<1>4. ASSUME NEW g \in Agents, NEW a \in Cells, NEW count, NotifyCalled(g, a, count) PROVE WaitersInv'
  <2>1. /\ step[g] = "script" /\ step' = [step EXCEPT ![g] = "notify"] /\ cell' \in [Cells -> Words]
        /\ UNCHANGED <<holder, waiterList, linked, signalled, toSignal>>
    BY <1>4 DEF NotifyCalled, At, Goto, WaitersInv, AtomicsTypeOK
  <2>2. QED
    BY <2>1, OutsideStepInv
<1>5. ASSUME NEW g \in Agents, Wakes(g) PROVE WaitersInv'
  <2>1. /\ step[g] = "blocked" /\ step' = [step EXCEPT ![g] = "woken"] /\ cell' \in [Cells -> Words]
        /\ UNCHANGED <<holder, waiterList, linked, signalled, toSignal>>
    BY <1>5 DEF Wakes, At, Goto, WaitersInv, AtomicsTypeOK
  <2>2. QED
    BY <2>1, OutsideStepInv
<1>6. CASE UNCHANGED atomicsVars
  BY <1>6 DEF atomicsVars, WaitersInv, AtomicsTypeOK, MutexHeld, ListExact, LinkedWait, TakenWait,
              SignalsUnderMutex
<1>7. QED
  BY <1>1, <1>2, <1>3, <1>4, <1>5, <1>6 DEF AtomicsNext

(***************************************************************************)
(* js_atomics_wait keeps its waiter on the stack of its thread.  For any   *)
(* number of agents and cells, whenever waits time out, wake for no reason *)
(* or are notified: the list of waiters and the notify that is signalling  *)
(* name only waiters whose call has not returned, each linked one once.    *)
(***************************************************************************)
THEOREM WaitersAlwaysSound == AtomicsSpec => []WaitersSound
<1>1. AtomicsInit /\ [][AtomicsNext]_atomicsVars => []WaitersInv
  BY WaitersInitInv, WaitersStepInv, PTL
<1>2. QED
  BY <1>1, WaitersInvSound, PTL DEF AtomicsSpec

(* The step of NotifyPicksOldest. *)
LEMMA TakesOldest ==
  ASSUME WaitersInv, [AtomicsNext]_atomicsVars, NEW g \in Agents, Walks(g), holder' = g,
         NEW x \in ToSet(toSignal') \ ToSet(toSignal)
  PROVE  /\ call[x][1] = call[g][1]
         /\ \A y \in ToSet(waiterList') : call[y][1] = call[g][1] =>
              \E i, j \in DOMAIN waiterList : i < j /\ waiterList[i] = x /\ waiterList[j] = y
<1>1. toSignal' # toSignal
  OBVIOUS
<1>2. \A y : y \in ToSet(Tail(toSignal)) /\ toSignal # <<>> => y \in ToSet(toSignal)
  <2>1. PICK n \in Nat : n = Len(toSignal) /\ DOMAIN toSignal = 1 .. n /\ toSignal \in Seq(Agents)
    BY DEF WaitersInv, TakenWait
  <2>2. ASSUME toSignal # <<>>
        PROVE  /\ DOMAIN Tail(toSignal) = 1 .. n - 1
               /\ \A j \in 1 .. n - 1 : Tail(toSignal)[j] = toSignal[j + 1] /\ j + 1 \in 1 .. n
    BY <2>1, <2>2
  <2>3. QED
    BY <2>1, <2>2 DEF ToSet
<1>3. PICK h \in Agents : NotifyTakes(h)
  <2>1. PICK h \in Agents : NotifyTakes(h) \/ NotifySignals(h)
    BY <1>1 DEF AtomicsNext, atomicsVars, InCall, AtomicsOp, WaitCalled, NotifyCalled, Wakes,
                WaitChecks, WaitLinks, WaitReturns, NotifyReturns
  <2>2. ~NotifySignals(h)
    BY <1>2 DEF NotifySignals
  <2>3. QED
    BY <2>1, <2>2
<1>4. h = g
  BY <1>3 DEF NotifyTakes
<1> DEFINE a == call[g][1]
           i == FirstWaiter(a)
<1>5. /\ PlacesAt(a) # {} /\ waiterList' = RemoveAt(waiterList, i)
      /\ toSignal' = Append(toSignal, waiterList[i])
  BY <1>3, <1>4 DEF NotifyTakes, TakesMore
<1>6. /\ i \in DOMAIN waiterList /\ call[waiterList[i]][1] = a
      /\ \A j \in PlacesAt(a) : i <= j
  BY <1>5, FirstWaiterFirst
<1> HIDE DEF i
<1>7. x = waiterList[i]
  <2>1. PICK n \in Nat : n = Len(toSignal) /\ DOMAIN toSignal = 1 .. n /\ toSignal \in Seq(Agents)
    BY DEF WaitersInv, TakenWait
  <2>2. waiterList[i] \in Agents
    BY <1>6 DEF WaitersInv, ListExact
  <2>3. /\ DOMAIN toSignal' = 1 .. n + 1 /\ toSignal'[n + 1] = waiterList[i]
        /\ \A j \in 1 .. n : toSignal'[j] = toSignal[j]
    BY <1>5, <2>1, <2>2
  <2>4. \A j \in 1 .. n + 1 : j \in 1 .. n \/ j = n + 1
    OBVIOUS
  <2>5. QED
    BY <2>1, <2>3, <2>4 DEF ToSet
<1>8. ASSUME NEW y \in ToSet(waiterList'), call[y][1] = a
      PROVE  \E k, j \in DOMAIN waiterList : k < j /\ waiterList[k] = x /\ waiterList[j] = y
  <2>1. Listed(y, waiterList) /\ y # waiterList[i]
    <3>1. Listed(y, waiterList')
      BY DEF ToSet, Listed
    <3>2. QED
      BY <1>5, <1>6, <3>1, RemoveAtOnce DEF WaitersInv, ListExact
  <2>2. PICK j \in DOMAIN waiterList : waiterList[j] = y
    BY <2>1 DEF Listed
  <2>3. j \in PlacesAt(a)
    BY <1>8, <2>2 DEF PlacesAt
  <2>4. i <= j /\ i # j
    BY <1>6, <2>1, <2>2, <2>3
  <2>5. i \in Nat /\ j \in Nat
    BY <1>6, <2>2 DEF WaitersInv, ListExact
  <2>6. i < j
    BY <2>4, <2>5
  <2>7. QED
    BY <1>6, <1>7, <2>2, <2>6
<1>9. QED
  BY <1>6, <1>7, <1>8

(***************************************************************************)
(* js_atomics_notify takes the waiters of its address in the order they    *)
(* began to wait: one that is left at the address is behind each taken.    *)
(***************************************************************************)
THEOREM NotifiesOldest == AtomicsSpec => NotifyPicksOldest
<1> DEFINE Step == \A g \in Agents : Walks(g) /\ holder' = g =>
                     \A x \in ToSet(toSignal') \ ToSet(toSignal) :
                       /\ call[x][1] = call[g][1]
                       /\ \A y \in ToSet(waiterList') : call[y][1] = call[g][1] =>
                            \E i, j \in DOMAIN waiterList : i < j /\ waiterList[i] = x /\ waiterList[j] = y
<1>1. WaitersInv /\ [AtomicsNext]_atomicsVars => Step
  BY TakesOldest
<1>2. AtomicsInit /\ [][AtomicsNext]_atomicsVars => []WaitersInv
  BY WaitersInitInv, WaitersStepInv, PTL
<1> HIDE DEF Step
<1>3. AtomicsSpec => [][Step]_atomicsVars
  BY <1>1, <1>2, PTL DEF AtomicsSpec
<1>4. QED
  BY <1>3 DEF NotifyPicksOldest, Step

-----------------------------------------------------------------------------
(* Promises.                                                               *)

(* What n promises and m pairs of resolving functions can be made of. *)
ValuesOf(n) == Values \cup {TypeErr} \cup 1 .. n
HandlersOf(m) == {NoHandler, ScriptHandler} \cup [kind : {"resolve", "reject"}, r : 1 .. m]
ReactionsOf(m) == [onF : HandlersOf(m), onR : HandlersOf(m), cap : 0 .. m, id : Nat]
States == {"pending", "fulfilled", "rejected"}
PromisesOf(n, m) ==
  [state : States, result : ValuesOf(n), handled : BOOLEAN, list : Seq(ReactionsOf(m)), adopts : Nat]
PairsOf(n) == [promise : 1 .. n, done : BOOLEAN]
JobsOf(n, m) ==
  [kind : {"reaction"}, handler : HandlersOf(m), reject : BOOLEAN, arg : ValuesOf(n), cap : 0 .. m,
   promise : {0}, id : Nat]
  \cup [kind : {"thenable"}, handler : {NoHandler}, reject : {FALSE}, arg : ValuesOf(n), cap : {0},
        promise : 1 .. n, id : {0}]
HistoryOf(n) == [promise : 1 .. n, ran : Nat]
HeapsOf(n, m) ==
  [promises : Seq(PromisesOf(n, m)), resolvers : Seq(PairsOf(n)), jobs : Seq(JobsOf(n, m)),
   unhandled : SUBSET (1 .. n), reactions : Seq(HistoryOf(n)), surprised : {FALSE}]
Shaped(s, n, m) == s \in HeapsOf(n, m) /\ Len(s.promises) = n /\ Len(s.resolvers) = m

(***************************************************************************)
(* The right to settle a promise: a pair of functions that was not used,   *)
(* or a queued job that will make such a pair.  Only pending promises have *)
(* one, and none has two.                                                  *)
(***************************************************************************)
Unused(s, r) == r \in DOMAIN s.resolvers /\ s.resolvers[r].done = FALSE
Adopting(s, k) == k \in DOMAIN s.jobs /\ s.jobs[k].kind = "thenable"
NobodySettles(s, p) ==
  /\ \A r : Unused(s, r) => s.resolvers[r].promise # p
  /\ \A k : Adopting(s, k) => s.jobs[k].promise # p
OneSettles(s) ==
  /\ \A r : Unused(s, r) => s.promises[s.resolvers[r].promise].state = "pending"
  /\ \A k : Adopting(s, k) => s.promises[s.jobs[k].promise].state = "pending"
  /\ \A r, q : Unused(s, r) /\ Unused(s, q) /\ s.resolvers[r].promise = s.resolvers[q].promise => r = q
  /\ \A k, l : Adopting(s, k) /\ Adopting(s, l) /\ s.jobs[k].promise = s.jobs[l].promise => k = l
  /\ \A r, k : Unused(s, r) /\ Adopting(s, k) => s.resolvers[r].promise # s.jobs[k].promise

(* is_handled says whether a reaction was ever added; the host's list. *)
Reacted(s, p) == \E i \in DOMAIN s.reactions : s.reactions[i].promise = p
HandledExact(s, n) == \A p \in 1 .. n : s.promises[p].handled = TRUE <=> Reacted(s, p)
ReportedExact(s, n) ==
  \A p \in 1 .. n : p \in s.unhandled <=> s.promises[p].state = "rejected" /\ ~Reacted(s, p)

GoodHeap(s, n, m) ==
  Shaped(s, n, m) /\ OneSettles(s) /\ HandledExact(s, n) /\ ReportedExact(s, n)

(* The fields of a heap. *)
LEMMA HeapFields ==
  ASSUME NEW n \in Nat, NEW m \in Nat, NEW s, Shaped(s, n, m)
  PROVE  /\ s.promises \in Seq(PromisesOf(n, m)) /\ s.resolvers \in Seq(PairsOf(n))
         /\ s.jobs \in Seq(JobsOf(n, m)) /\ s.unhandled \subseteq 1 .. n
         /\ s.reactions \in Seq(HistoryOf(n)) /\ s.surprised = FALSE
         /\ DOMAIN s.promises = 1 .. n /\ DOMAIN s.resolvers = 1 .. m
         /\ \A p \in 1 .. n : s.promises[p] \in PromisesOf(n, m)
         /\ \A r \in 1 .. m : s.resolvers[r] \in PairsOf(n)
         /\ \A k \in DOMAIN s.jobs : s.jobs[k] \in JobsOf(n, m)
         /\ \A i \in DOMAIN s.reactions : s.reactions[i].promise \in 1 .. n
<1>1. s \in HeapsOf(n, m) /\ Len(s.promises) = n /\ Len(s.resolvers) = m
  BY DEF Shaped
<1>2. /\ s.promises \in Seq(PromisesOf(n, m)) /\ s.resolvers \in Seq(PairsOf(n))
      /\ s.jobs \in Seq(JobsOf(n, m)) /\ s.unhandled \subseteq 1 .. n
      /\ s.reactions \in Seq(HistoryOf(n)) /\ s.surprised = FALSE
  BY <1>1 DEF HeapsOf
<1>3. \A i \in DOMAIN s.reactions : s.reactions[i] \in HistoryOf(n)
  BY <1>2
<1>4. \A i \in DOMAIN s.reactions : s.reactions[i].promise \in 1 .. n
  BY <1>3 DEF HistoryOf
<1>5. QED
  BY <1>1, <1>2, <1>4

(* A sequence over a set is one over a larger set. *)
LEMMA SeqWidens ==
  ASSUME NEW A, NEW B, A \subseteq B, NEW s \in Seq(A)
  PROVE  s \in Seq(B)
OBVIOUS

(* With more promises and functions there is more to make things of. *)
LEMMA MoreToUse ==
  ASSUME NEW n \in Nat, NEW m \in Nat, NEW n2 \in Nat, NEW m2 \in Nat, n <= n2, m <= m2
  PROVE  /\ ValuesOf(n) \subseteq ValuesOf(n2) /\ HandlersOf(m) \subseteq HandlersOf(m2)
         /\ PromisesOf(n, m) \subseteq PromisesOf(n2, m2) /\ PairsOf(n) \subseteq PairsOf(n2)
         /\ JobsOf(n, m) \subseteq JobsOf(n2, m2)
         /\ HistoryOf(n) \subseteq HistoryOf(n2)
<1>1. 1 .. n \subseteq 1 .. n2 /\ 1 .. m \subseteq 1 .. m2 /\ 0 .. m \subseteq 0 .. m2
  OBVIOUS
<1>2. ValuesOf(n) \subseteq ValuesOf(n2)
  BY <1>1 DEF ValuesOf
<1>3. HandlersOf(m) \subseteq HandlersOf(m2)
  BY <1>1 DEF HandlersOf
<1>4. ReactionsOf(m) \subseteq ReactionsOf(m2)
  BY <1>1, <1>3 DEF ReactionsOf
<1>5. \A l \in Seq(ReactionsOf(m)) : l \in Seq(ReactionsOf(m2))
  BY <1>4, SeqWidens
<1>6. PromisesOf(n, m) \subseteq PromisesOf(n2, m2)
  BY <1>2, <1>5 DEF PromisesOf
<1>7. PairsOf(n) \subseteq PairsOf(n2) /\ HistoryOf(n) \subseteq HistoryOf(n2)
  BY <1>1 DEF PairsOf, HistoryOf
<1>8. JobsOf(n, m) \subseteq JobsOf(n2, m2)
  BY <1>1, <1>2, <1>3 DEF JobsOf
<1>9. QED
  BY <1>2, <1>3, <1>6, <1>7, <1>8

(***************************************************************************)
(* A heap in which the promises, the functions or the jobs were changed    *)
(* without giving anybody a right to settle, and each promise that has one *)
(* is still pending.                                                       *)
(***************************************************************************)
NoNewRights(s, t) ==
  /\ \A r : Unused(t, r) => Unused(s, r) /\ t.resolvers[r].promise = s.resolvers[r].promise
  /\ \A k : Adopting(t, k) => Adopting(s, k) /\ t.jobs[k].promise = s.jobs[k].promise

LEMMA RightsKept ==
  ASSUME NEW s, NEW t, OneSettles(s), NoNewRights(s, t),
         \A r : Unused(t, r) /\ s.promises[s.resolvers[r].promise].state = "pending"
                => t.promises[t.resolvers[r].promise].state = "pending",
         \A k : Adopting(t, k) /\ s.promises[s.jobs[k].promise].state = "pending"
                => t.promises[t.jobs[k].promise].state = "pending"
  PROVE  OneSettles(t)
<1>1. \A r : Unused(t, r) => t.promises[t.resolvers[r].promise].state = "pending"
  BY DEF OneSettles, NoNewRights
<1>2. \A k : Adopting(t, k) => t.promises[t.jobs[k].promise].state = "pending"
  BY DEF OneSettles, NoNewRights
<1>3. ASSUME NEW r, NEW q, Unused(t, r), Unused(t, q), t.resolvers[r].promise = t.resolvers[q].promise
      PROVE  r = q
  BY <1>3 DEF OneSettles, NoNewRights
<1>4. ASSUME NEW k, NEW l, Adopting(t, k), Adopting(t, l), t.jobs[k].promise = t.jobs[l].promise
      PROVE  k = l
  BY <1>4 DEF OneSettles, NoNewRights
<1>5. ASSUME NEW r, NEW k, Unused(t, r), Adopting(t, k)
      PROVE  t.resolvers[r].promise # t.jobs[k].promise
  BY <1>5 DEF OneSettles, NoNewRights
<1>6. QED
  BY <1>1, <1>2, <1>3, <1>4, <1>5 DEF OneSettles

(* Jobs of reactions behind the queue: nobody adopts anything new. *)
LEMMA MoreReactionJobs ==
  ASSUME NEW n \in Nat, NEW m \in Nat, NEW jobs \in Seq(JobsOf(n, m)), NEW new \in Seq(JobsOf(n, m)),
         \A i \in DOMAIN new : new[i].kind = "reaction"
  PROVE  /\ Queued(jobs, new) \in Seq(JobsOf(n, m))
         /\ \A k \in DOMAIN Queued(jobs, new) : Queued(jobs, new)[k].kind = "thenable" =>
              k \in DOMAIN jobs /\ jobs[k] = Queued(jobs, new)[k]
<1>1. PICK a \in Nat, b \in Nat :
        a = Len(jobs) /\ b = Len(new) /\ DOMAIN jobs = 1 .. a /\ DOMAIN new = 1 .. b
  OBVIOUS
<1> DEFINE both == jobs \o new
<1>2. /\ both \in Seq(JobsOf(n, m)) /\ DOMAIN both = 1 .. a + b
      /\ \A k \in 1 .. a + b : both[k] = IF k <= a THEN jobs[k] ELSE new[k - a]
  BY <1>1
<1>3. ASSUME NEW k \in DOMAIN both, both[k].kind = "thenable" PROVE k \in DOMAIN jobs /\ jobs[k] = both[k]
  <2>1. CASE k <= a
    BY <1>1, <1>2, <2>1
  <2>2. CASE ~(k <= a)
    <3>1. k - a \in 1 .. b /\ both[k] = new[k - a]
      BY <1>1, <1>2, <2>2
    <3>2. new[k - a].kind = "reaction"
      BY <1>1, <3>1
    <3>3. QED
      BY <1>3, <3>1, <3>2
  <2>3. QED
    BY <2>1, <2>2
<1>4. QED
  BY <1>2, <1>3 DEF Queued

LEMMA ReactionJobShape ==
  ASSUME NEW n \in Nat, NEW m \in Nat, NEW x \in ReactionsOf(m), NEW reject \in BOOLEAN,
         NEW v \in ValuesOf(n)
  PROVE  ReactionJob(x, reject, v) \in JobsOf(n, m) /\ ReactionJob(x, reject, v).kind = "reaction"
BY DEF ReactionJob, JobsOf, ReactionsOf

(* fulfill_or_reject_promise, for a pending promise that nobody else settles. *)
LEMMA SettledKeeps ==
  ASSUME NEW n \in Nat, NEW m \in Nat, NEW s, GoodHeap(s, n, m), NEW p \in 1 .. n,
         s.promises[p].state = "pending", NobodySettles(s, p),
         NEW v \in ValuesOf(n), NEW reject \in BOOLEAN
  PROVE  GoodHeap(Settled(s, p, v, reject), n, m)
<1> DEFINE t == Settled(s, p, v, reject)
           after == IF reject THEN "rejected" ELSE "fulfilled"
           q == [s.promises[p] EXCEPT !.state = after, !.result = v, !.list = <<>>]
           new == [i \in DOMAIN s.promises[p].list |-> ReactionJob(s.promises[p].list[i], reject, v)]
           reported == IF reject /\ Reports(s, p) THEN s.unhandled \cup {p} ELSE s.unhandled
<1>1. Shaped(s, n, m) /\ OneSettles(s) /\ HandledExact(s, n) /\ ReportedExact(s, n)
  BY DEF GoodHeap
<1>2. /\ s.promises \in Seq(PromisesOf(n, m)) /\ s.resolvers \in Seq(PairsOf(n))
      /\ s.jobs \in Seq(JobsOf(n, m)) /\ s.unhandled \subseteq 1 .. n
      /\ DOMAIN s.promises = 1 .. n /\ s.promises[p] \in PromisesOf(n, m)
  BY <1>1, HeapFields
<1>3. t = [s EXCEPT !.promises[p] = q, !.unhandled = reported, !.jobs = Queued(s.jobs, new)]
  BY DEF Settled
<1>4. q \in PromisesOf(n, m) /\ q.state = after /\ q.handled = s.promises[p].handled
  <2>1. <<>> \in Seq(ReactionsOf(m)) /\ after \in States
    BY DEF States
  <2>2. QED
    BY <1>2, <2>1 DEF PromisesOf
<1>5. new \in Seq(JobsOf(n, m)) /\ \A i \in DOMAIN new : new[i].kind = "reaction"
  <2>1. PICK l \in Seq(ReactionsOf(m)) : l = s.promises[p].list
    BY <1>2 DEF PromisesOf
  <2>2. PICK c \in Nat : c = Len(l) /\ DOMAIN l = 1 .. c
    BY <2>1
  <2>3. new = [i \in 1 .. c |-> ReactionJob(l[i], reject, v)]
    BY <2>1, <2>2
  <2>4. \A i \in 1 .. c : ReactionJob(l[i], reject, v) \in JobsOf(n, m)
                          /\ ReactionJob(l[i], reject, v).kind = "reaction"
    BY <2>1, <2>2, ReactionJobShape
  <2>5. QED
    BY <2>3, <2>4, SMTT(20)
<1>6. /\ Queued(s.jobs, new) \in Seq(JobsOf(n, m))
      /\ \A k \in DOMAIN Queued(s.jobs, new) : Queued(s.jobs, new)[k].kind = "thenable" =>
           k \in DOMAIN s.jobs /\ s.jobs[k] = Queued(s.jobs, new)[k]
  BY <1>2, <1>5, MoreReactionJobs
<1>7. reported \subseteq 1 .. n
  BY <1>2
<1> HIDE DEF q, new, reported
<1>8. /\ t.promises = [s.promises EXCEPT ![p] = q] /\ t.resolvers = s.resolvers
      /\ t.jobs = Queued(s.jobs, new) /\ t.unhandled = reported /\ t.reactions = s.reactions
      /\ t.surprised = s.surprised
  BY <1>1, <1>3 DEF Shaped, HeapsOf
<1>9. \A x \in 1 .. n : t.promises[x] = IF x = p THEN q ELSE s.promises[x]
  BY <1>2, <1>8
<1>10. Shaped(t, n, m)
  <2>1. t.promises \in Seq(PromisesOf(n, m)) /\ Len(t.promises) = n
    <3>1. Len(s.promises) = n
      BY <1>1 DEF Shaped
    <3>2. QED
      BY <1>2, <1>4, <1>8, <3>1
  <2>2. t \in HeapsOf(n, m)
    BY <1>1, <1>3, <1>6, <1>7, <1>8, <2>1 DEF Shaped, HeapsOf
  <2>3. QED
    BY <1>1, <1>8, <2>1, <2>2 DEF Shaped
<1> HIDE DEF t
<1>11. OneSettles(t)
  <2>1. \A r : Unused(t, r) <=> Unused(s, r)
    BY <1>8 DEF Unused
  <2>2. \A k : Adopting(t, k) => Adopting(s, k) /\ t.jobs[k] = s.jobs[k]
    BY <1>6, <1>8 DEF Adopting
  <2>3. NoNewRights(s, t)
    BY <1>8, <2>1, <2>2 DEF NoNewRights
  <2>4. \A r : Unused(t, r) => s.resolvers[r].promise \in 1 .. n /\ s.resolvers[r].promise # p
    <3>1. \A r \in 1 .. m : s.resolvers[r] \in PairsOf(n)
      BY <1>1, HeapFields
    <3>2. DOMAIN s.resolvers = 1 .. m
      BY <1>1, HeapFields
    <3>3. QED
      BY <2>1, <3>1, <3>2 DEF Unused, PairsOf, NobodySettles
  <2>5. \A k : Adopting(t, k) => s.jobs[k].promise \in 1 .. n /\ s.jobs[k].promise # p
    <3>1. \A k : Adopting(s, k) => s.jobs[k] \in JobsOf(n, m) /\ s.jobs[k].kind = "thenable"
      BY <1>1, HeapFields DEF Adopting
    <3>2. QED
      BY <2>2, <3>1 DEF NobodySettles, JobsOf
  <2>6. \A r : Unused(t, r) =>
          t.promises[t.resolvers[r].promise] = s.promises[s.resolvers[r].promise]
    BY <1>8, <1>9, <2>4
  <2>7. \A k : Adopting(t, k) => t.promises[t.jobs[k].promise] = s.promises[s.jobs[k].promise]
    BY <1>9, <2>2, <2>5
  <2>8. QED
    BY <1>1, <2>3, <2>6, <2>7, RightsKept
<1>12. \A x : Reacted(t, x) <=> Reacted(s, x)
  BY <1>8 DEF Reacted
<1>13. HandledExact(t, n)
  BY <1>1, <1>4, <1>9, <1>12 DEF HandledExact
<1>14. ReportedExact(t, n)
  <2>1. p \notin s.unhandled
    BY <1>1 DEF ReportedExact
  <2>2. Reports(s, p) <=> ~Reacted(s, p)
    BY <1>1, <1>2 DEF HandledExact, Reports, PromisesOf
  <2>3. p \in t.unhandled <=> t.promises[p].state = "rejected" /\ ~Reacted(t, p)
    BY <1>4, <1>8, <1>9, <1>12, <2>1, <2>2 DEF reported
  <2>4. ASSUME NEW x \in 1 .. n, x # p
        PROVE  x \in t.unhandled <=> t.promises[x].state = "rejected" /\ ~Reacted(t, x)
    BY <1>1, <1>8, <1>9, <1>12, <2>4 DEF ReportedExact, reported
  <2>5. QED
    BY <2>3, <2>4 DEF ReportedExact
<1>15. QED
  BY <1>10, <1>11, <1>13, <1>14 DEF GoodHeap, t

(* The functions r are used up: nobody may settle their promise for now. *)
Spent(s, r) == [s EXCEPT !.resolvers[r].done = TRUE]
PromiseOf(s, r) == s.resolvers[r].promise
LEMMA UsedUp ==
  ASSUME NEW n \in Nat, NEW m \in Nat, NEW s, GoodHeap(s, n, m), NEW r \in 1 .. m, Unused(s, r)
  PROVE  /\ GoodHeap(Spent(s, r), n, m) /\ PromiseOf(s, r) \in 1 .. n
         /\ Spent(s, r).promises[PromiseOf(s, r)].state = "pending"
         /\ NobodySettles(Spent(s, r), PromiseOf(s, r))
<1> DEFINE t == Spent(s, r)
           p == PromiseOf(s, r)
<1>1. Shaped(s, n, m) /\ OneSettles(s) /\ HandledExact(s, n) /\ ReportedExact(s, n)
  BY DEF GoodHeap
<1>2. /\ s.resolvers \in Seq(PairsOf(n)) /\ DOMAIN s.resolvers = 1 .. m
      /\ s.resolvers[r] \in PairsOf(n) /\ Len(s.resolvers) = m
  BY <1>1, HeapFields DEF Shaped
<1> DEFINE x == [s.resolvers[r] EXCEPT !.done = TRUE]
<1>3. x \in PairsOf(n) /\ x.promise = p /\ x.done = TRUE
  BY <1>2 DEF PairsOf, PromiseOf
<1>4. t = [s EXCEPT !.resolvers[r] = x]
  BY DEF Spent
<1> HIDE DEF x, t, p
<1>5. /\ t.resolvers = [s.resolvers EXCEPT ![r] = x] /\ t.promises = s.promises /\ t.jobs = s.jobs
      /\ t.unhandled = s.unhandled /\ t.reactions = s.reactions /\ t.surprised = s.surprised
  BY <1>1, <1>4 DEF Shaped, HeapsOf
<1>6. \A q \in 1 .. m : t.resolvers[q] = IF q = r THEN x ELSE s.resolvers[q]
  BY <1>2, <1>5
<1>7. t.resolvers \in Seq(PairsOf(n)) /\ Len(t.resolvers) = m /\ DOMAIN t.resolvers = 1 .. m
  BY <1>2, <1>3, <1>5
<1>8. Shaped(t, n, m)
  BY <1>1, <1>4, <1>5, <1>7 DEF Shaped, HeapsOf
<1>9. \A q : Unused(t, q) => q # r /\ Unused(s, q) /\ t.resolvers[q] = s.resolvers[q]
  BY <1>2, <1>3, <1>6, <1>7 DEF Unused
<1>10. \A k : Adopting(t, k) <=> Adopting(s, k)
  BY <1>5 DEF Adopting
<1>11. NoNewRights(s, t)
  BY <1>5, <1>9, <1>10 DEF NoNewRights
<1>12. OneSettles(t)
  <2>1. \A q : Unused(t, q) => t.promises[t.resolvers[q].promise] = s.promises[s.resolvers[q].promise]
    BY <1>5, <1>9
  <2>2. \A k : Adopting(t, k) => t.promises[t.jobs[k].promise] = s.promises[s.jobs[k].promise]
    BY <1>5
  <2>3. QED
    BY <1>1, <1>11, <2>1, <2>2, RightsKept
<1>13. NobodySettles(t, p)
  <2>1. ASSUME NEW q, Unused(t, q) PROVE t.resolvers[q].promise # p
    BY <1>1, <1>9, <2>1 DEF OneSettles, p, PromiseOf
  <2>2. ASSUME NEW k, Adopting(t, k) PROVE t.jobs[k].promise # p
    BY <1>1, <1>5, <1>10, <2>2 DEF OneSettles, p, PromiseOf
  <2>3. QED
    BY <2>1, <2>2 DEF NobodySettles
<1>14. HandledExact(t, n) /\ ReportedExact(t, n)
  BY <1>1, <1>5 DEF HandledExact, ReportedExact, Reacted
<1>15. p \in 1 .. n /\ t.promises[p].state = "pending"
  BY <1>1, <1>2, <1>5 DEF PairsOf, OneSettles, p, PromiseOf
<1>16. QED
  BY <1>8, <1>12, <1>13, <1>14, <1>15 DEF GoodHeap, t, p

(* A promise is resolved with a thenable: the job takes over the right. *)
Adopted(s, p, v, a) ==
  [s EXCEPT !.jobs = Queued(@, <<ThenableJob(p, v)>>), !.promises[p].adopts = a]
LEMMA AdoptingKeeps ==
  ASSUME NEW n \in Nat, NEW m \in Nat, NEW s, GoodHeap(s, n, m), NEW p \in 1 .. n,
         s.promises[p].state = "pending", NobodySettles(s, p),
         NEW v \in ValuesOf(n), NEW a \in Nat
  PROVE  GoodHeap(Adopted(s, p, v, a), n, m)
<1> DEFINE t == Adopted(s, p, v, a)
<1>1. Shaped(s, n, m) /\ OneSettles(s) /\ HandledExact(s, n) /\ ReportedExact(s, n)
  BY DEF GoodHeap
<1>2. /\ s.promises \in Seq(PromisesOf(n, m)) /\ s.jobs \in Seq(JobsOf(n, m))
      /\ DOMAIN s.promises = 1 .. n /\ s.promises[p] \in PromisesOf(n, m) /\ Len(s.promises) = n
  BY <1>1, HeapFields DEF Shaped
<1> DEFINE j == ThenableJob(p, v)
<1>3. j \in JobsOf(n, m) /\ j.kind = "thenable" /\ j.promise = p
  BY DEF ThenableJob, JobsOf
<1> HIDE DEF j
<1>4. PICK c \in Nat : c = Len(s.jobs) /\ DOMAIN s.jobs = 1 .. c
  BY <1>2
<1>5. PICK jobs \in Seq(JobsOf(n, m)) :
        /\ jobs = Queued(s.jobs, <<ThenableJob(p, v)>>) /\ DOMAIN jobs = 1 .. c + 1
        /\ jobs[c + 1] = j /\ \A k \in 1 .. c : jobs[k] = s.jobs[k]
  <2>1. <<j>> \in Seq(JobsOf(n, m)) /\ Len(<<j>>) = 1 /\ <<j>>[1] = j
    BY <1>3
  <2> DEFINE both == s.jobs \o <<j>>
  <2>2. both \in Seq(JobsOf(n, m)) /\ DOMAIN both = 1 .. c + 1
        /\ both[c + 1] = j /\ \A k \in 1 .. c : both[k] = s.jobs[k]
    BY <1>2, <1>4, <2>1
  <2>3. QED
    BY <1>3, <2>2 DEF Queued, j
<1> DEFINE q == [s.promises[p] EXCEPT !.adopts = a]
<1>6. /\ q \in PromisesOf(n, m)
      /\ q.state = s.promises[p].state /\ q.handled = s.promises[p].handled
  BY <1>2 DEF PromisesOf
<1>7. t = [s EXCEPT !.jobs = jobs, !.promises[p] = q]
  BY <1>5 DEF Adopted
<1> HIDE DEF q, t
<1>8. /\ t.promises = [s.promises EXCEPT ![p] = q] /\ t.resolvers = s.resolvers /\ t.jobs = jobs
      /\ t.unhandled = s.unhandled /\ t.reactions = s.reactions /\ t.surprised = s.surprised
  BY <1>1, <1>7 DEF Shaped, HeapsOf
<1>9. \A x \in 1 .. n : t.promises[x].state = s.promises[x].state
                        /\ t.promises[x].handled = s.promises[x].handled
  BY <1>2, <1>6, <1>8
<1>10. t.promises \in Seq(PromisesOf(n, m)) /\ Len(t.promises) = n
  BY <1>2, <1>6, <1>8
<1>11. Shaped(t, n, m)
  BY <1>1, <1>7, <1>8, <1>10 DEF Shaped, HeapsOf
<1>12. \A r : Unused(t, r) <=> Unused(s, r)
  BY <1>8 DEF Unused
<1>13. \A k : Adopting(t, k) => \/ k = c + 1 /\ t.jobs[k].promise = p
                                \/ Adopting(s, k) /\ t.jobs[k] = s.jobs[k]
  <2>1. \A k \in 1 .. c + 1 : k = c + 1 \/ k \in 1 .. c
    OBVIOUS
  <2>2. QED
    BY <1>3, <1>4, <1>5, <1>8, <2>1, SMTT(20) DEF Adopting
<1>14. OneSettles(t)
  <2>1. ASSUME NEW r, Unused(t, r) PROVE t.promises[t.resolvers[r].promise].state = "pending"
    <3>1. Unused(s, r) /\ s.resolvers[r].promise \in 1 .. n
      <4>1. Unused(s, r) /\ DOMAIN s.resolvers = 1 .. m /\ \A q2 \in 1 .. m : s.resolvers[q2] \in PairsOf(n)
        BY <1>1, <1>12, <2>1, HeapFields
      <4>2. QED
        BY <4>1 DEF Unused, PairsOf
    <3>2. QED
      BY <1>1, <1>8, <1>9, <3>1 DEF OneSettles
  <2>2. ASSUME NEW k, Adopting(t, k) PROVE t.promises[t.jobs[k].promise].state = "pending"
    <3>1. CASE t.jobs[k].promise = p
      BY <1>9, <3>1
    <3>2. CASE Adopting(s, k) /\ t.jobs[k] = s.jobs[k]
      <4>1. s.jobs[k] \in JobsOf(n, m) /\ s.jobs[k].kind = "thenable"
        BY <1>1, <3>2, HeapFields DEF Adopting
      <4>2. s.jobs[k].promise \in 1 .. n
        BY <4>1 DEF JobsOf
      <4>3. QED
        BY <1>1, <1>9, <3>2, <4>2 DEF OneSettles
    <3>3. QED
      BY <1>13, <2>2, <3>1, <3>2
  <2>3. ASSUME NEW r, NEW q2, Unused(t, r), Unused(t, q2), t.resolvers[r].promise = t.resolvers[q2].promise
        PROVE  r = q2
    BY <1>1, <1>8, <1>12, <2>3 DEF OneSettles
  <2>4. ASSUME NEW k, NEW l, Adopting(t, k), Adopting(t, l), t.jobs[k].promise = t.jobs[l].promise
        PROVE  k = l
    BY <1>1, <1>13, <2>4 DEF OneSettles, NobodySettles
  <2>5. ASSUME NEW r, NEW k, Unused(t, r), Adopting(t, k)
        PROVE  t.resolvers[r].promise # t.jobs[k].promise
    BY <1>1, <1>8, <1>12, <1>13, <2>5 DEF OneSettles, NobodySettles
  <2>6. QED
    BY <2>1, <2>2, <2>3, <2>4, <2>5 DEF OneSettles
<1>15. HandledExact(t, n) /\ ReportedExact(t, n)
  BY <1>1, <1>8, <1>9 DEF HandledExact, ReportedExact, Reacted
<1>16. QED
  BY <1>11, <1>14, <1>15 DEF GoodHeap, t

(* js_promise_resolve_function_call. *)
LEMMA ResolvedKeeps ==
  ASSUME NEW n \in Nat, NEW m \in Nat, NEW s, GoodHeap(s, n, m), NEW r \in 1 .. m,
         NEW v \in ValuesOf(n), NEW reject \in BOOLEAN
  PROVE  GoodHeap(Resolved(s, r, v, reject), n, m)
<1> DEFINE p == PromiseOf(s, r)
           t == Spent(s, r)
<1>1. CASE Ignored(s, r)
  BY <1>1 DEF Resolved
<1>2. CASE ~Ignored(s, r)
  <2>1. Unused(s, r)
    <3>1. DOMAIN s.resolvers = 1 .. m /\ s.resolvers[r] \in PairsOf(n)
      BY HeapFields DEF GoodHeap
    <3>2. s.resolvers[r].done \in BOOLEAN /\ ~s.resolvers[r].done
      BY <1>2, <3>1 DEF Ignored, PairsOf
    <3>3. QED
      BY <3>1, <3>2 DEF Unused
  <2>2. GoodHeap(t, n, m) /\ p \in 1 .. n /\ t.promises[p].state = "pending" /\ NobodySettles(t, p)
    BY <2>1, UsedUp
  <2>3. Resolved(s, r, v, reject) =
          IF reject \/ v \in {Plain, TypeErr} THEN Settled(t, p, v, reject)
          ELSE IF v \in {p, BadThenable} THEN Settled(t, p, TypeErr, TRUE)
          ELSE Adopted(t, p, v, IF IsPromise(v) THEN v ELSE 0)
    <3>1. CASE reject = TRUE
      BY <1>2, <3>1 DEF Resolved, PromiseOf, Spent
    <3>2. CASE reject = FALSE /\ v \in {Plain, TypeErr}
      <4>1. v \notin {p, BadThenable}
        BY <2>2, <3>2 DEF Plain, TypeErr, BadThenable
      <4>2. QED
        BY <1>2, <3>2, <4>1 DEF Resolved, PromiseOf, Spent
    <3>3. CASE reject = FALSE /\ v \notin {Plain, TypeErr} /\ v \in {p, BadThenable}
      BY <1>2, <3>3 DEF Resolved, PromiseOf, Spent
    <3>4. CASE reject = FALSE /\ v \notin {Plain, TypeErr} /\ v \notin {p, BadThenable}
      BY <1>2, <3>4 DEF Resolved, PromiseOf, Spent, Adopted
    <3>5. QED
      BY <3>1, <3>2, <3>3, <3>4
  <2> HIDE DEF p, t
  <2>4. CASE reject \/ v \in {Plain, TypeErr}
    BY <2>2, <2>3, <2>4, SettledKeeps
  <2>5. CASE ~(reject \/ v \in {Plain, TypeErr}) /\ v \in {p, BadThenable}
    <3>1. TypeErr \in ValuesOf(n)
      BY DEF ValuesOf
    <3>2. Resolved(s, r, v, reject) = Settled(t, p, TypeErr, TRUE)
      BY <2>3, <2>5
    <3>3. GoodHeap(Settled(t, p, TypeErr, TRUE), n, m)
      BY <2>2, <3>1, SettledKeeps
    <3>4. QED
      BY <3>2, <3>3
  <2>6. CASE ~(reject \/ v \in {Plain, TypeErr}) /\ v \notin {p, BadThenable}
    <3>1. PICK a \in Nat : a = IF IsPromise(v) THEN v ELSE 0
      BY DEF IsPromise, ValuesOf, Values, Plain, Thenable, BadThenable, TypeErr
    <3>2. Resolved(s, r, v, reject) = Adopted(t, p, v, a)
      BY <2>3, <2>6, <3>1
    <3>3. QED
      BY <2>2, <3>2, AdoptingKeeps
  <2>7. QED
    BY <2>4, <2>5, <2>6
<1>3. QED
  BY <1>1, <1>2

(* js_create_resolving_functions, for a promise that nobody may settle. *)
LEMMA NewPairKeeps ==
  ASSUME NEW n \in Nat, NEW m \in Nat, NEW s, GoodHeap(s, n, m), NEW p \in 1 .. n,
         s.promises[p].state = "pending", NobodySettles(s, p)
  PROVE  /\ GoodHeap(WithResolver(s, p), n, m + 1) /\ LastPair(WithResolver(s, p)) = m + 1
         /\ WithResolver(s, p).promises = s.promises
<1> DEFINE t == WithResolver(s, p)
           x == [promise |-> p, done |-> FALSE]
<1>1. Shaped(s, n, m) /\ OneSettles(s) /\ HandledExact(s, n) /\ ReportedExact(s, n)
  BY DEF GoodHeap
<1>2. /\ s.promises \in Seq(PromisesOf(n, m)) /\ s.resolvers \in Seq(PairsOf(n))
      /\ s.jobs \in Seq(JobsOf(n, m)) /\ Len(s.resolvers) = m /\ Len(s.promises) = n
      /\ DOMAIN s.resolvers = 1 .. m
  BY <1>1, HeapFields DEF Shaped
<1>3. x \in PairsOf(n) /\ x.promise = p /\ x.done = FALSE
  BY DEF PairsOf
<1>4. t = [s EXCEPT !.resolvers = Append(s.resolvers, x)]
  BY DEF WithResolver
<1> HIDE DEF t, x
<1>5. /\ t.resolvers = Append(s.resolvers, x) /\ t.promises = s.promises /\ t.jobs = s.jobs
      /\ t.unhandled = s.unhandled /\ t.reactions = s.reactions /\ t.surprised = s.surprised
  BY <1>1, <1>4 DEF Shaped, HeapsOf
<1>6. /\ t.resolvers \in Seq(PairsOf(n)) /\ Len(t.resolvers) = m + 1 /\ DOMAIN t.resolvers = 1 .. m + 1
      /\ t.resolvers[m + 1] = x /\ \A r \in 1 .. m : t.resolvers[r] = s.resolvers[r]
  <2>1. Longer(PairsOf(n), s.resolvers, m, x, Append(s.resolvers, x))
    BY <1>2, <1>3, AppendElements
  <2>2. QED
    BY <1>5, <2>1 DEF Longer
<1>7. Shaped(t, n, m + 1)
  <2>1. PromisesOf(n, m) \subseteq PromisesOf(n, m + 1) /\ JobsOf(n, m) \subseteq JobsOf(n, m + 1)
    BY MoreToUse
  <2>2. s.promises \in Seq(PromisesOf(n, m + 1)) /\ s.jobs \in Seq(JobsOf(n, m + 1))
    BY <1>2, <2>1, SeqWidens
  <2>3. QED
    BY <1>1, <1>2, <1>4, <1>5, <1>6, <2>2 DEF Shaped, HeapsOf
<1>8. \A r : Unused(t, r) =>
        \/ r = m + 1 /\ t.resolvers[r].promise = p
        \/ Unused(s, r) /\ t.resolvers[r] = s.resolvers[r]
  <2>1. \A r \in 1 .. m + 1 : r = m + 1 \/ r \in 1 .. m
    OBVIOUS
  <2>2. DOMAIN s.resolvers = 1 .. m
    BY <1>2
  <2>3. QED
    BY <1>3, <1>6, <2>1, <2>2 DEF Unused
<1>9. \A k : Adopting(t, k) <=> Adopting(s, k)
  BY <1>5 DEF Adopting
<1>10. OneSettles(t)
  <2>1. ASSUME NEW r, Unused(t, r) PROVE t.promises[t.resolvers[r].promise].state = "pending"
    BY <1>1, <1>5, <1>8, <2>1 DEF OneSettles
  <2>2. ASSUME NEW k, Adopting(t, k) PROVE t.promises[t.jobs[k].promise].state = "pending"
    BY <1>1, <1>5, <1>9, <2>2 DEF OneSettles
  <2>3. ASSUME NEW r, NEW q, Unused(t, r), Unused(t, q), t.resolvers[r].promise = t.resolvers[q].promise
        PROVE  r = q
    BY <1>1, <1>8, <2>3 DEF OneSettles, NobodySettles
  <2>4. ASSUME NEW k, NEW l, Adopting(t, k), Adopting(t, l), t.jobs[k].promise = t.jobs[l].promise
        PROVE  k = l
    BY <1>1, <1>5, <1>9, <2>4 DEF OneSettles
  <2>5. ASSUME NEW r, NEW k, Unused(t, r), Adopting(t, k)
        PROVE  t.resolvers[r].promise # t.jobs[k].promise
    <3>1. Adopting(s, k) /\ t.jobs[k] = s.jobs[k] /\ s.jobs[k].promise # p
      BY <1>5, <1>9, <2>5 DEF NobodySettles
    <3>2. QED
      BY <1>1, <1>8, <2>5, <3>1 DEF OneSettles
  <2>6. QED
    BY <2>1, <2>2, <2>3, <2>4, <2>5 DEF OneSettles
<1>11. HandledExact(t, n) /\ ReportedExact(t, n)
  BY <1>1, <1>5 DEF HandledExact, ReportedExact, Reacted
<1>12. QED
  BY <1>5, <1>6, <1>7, <1>10, <1>11 DEF GoodHeap, LastPair, t

(* js_promise_constructor: a promise, then its functions. *)
PromiseAdded(s, t, n) ==
  /\ t.resolvers = s.resolvers /\ t.jobs = s.jobs /\ t.reactions = s.reactions
  /\ DOMAIN s.promises = 1 .. n /\ DOMAIN t.promises = 1 .. n + 1
  /\ t.promises[n + 1] = NewPromise /\ \A p \in 1 .. n : t.promises[p] = s.promises[p]
(* js_promise_constructor makes a pending promise that nobody settles, then
   a pair of functions for it. *)
LEMMA NewPromiseAdded ==
  ASSUME NEW n \in Nat, NEW m \in Nat, NEW s, GoodHeap(s, n, m)
  PROVE  \E t : /\ GoodHeap(t, n + 1, m) /\ NobodySettles(t, n + 1)
                /\ PromiseAdded(s, t, n) /\ WithPromise(s) = WithResolver(t, n + 1)
<1> DEFINE t == [s EXCEPT !.promises = Append(@, NewPromise)]
<1>1. Shaped(s, n, m) /\ OneSettles(s) /\ HandledExact(s, n) /\ ReportedExact(s, n)
  BY DEF GoodHeap
<1>2. /\ s.promises \in Seq(PromisesOf(n, m)) /\ s.resolvers \in Seq(PairsOf(n))
      /\ s.jobs \in Seq(JobsOf(n, m)) /\ Len(s.resolvers) = m /\ Len(s.promises) = n
      /\ DOMAIN s.resolvers = 1 .. m /\ s.unhandled \subseteq 1 .. n
      /\ s.reactions \in Seq(HistoryOf(n))
      /\ \A r \in 1 .. m : s.resolvers[r] \in PairsOf(n)
      /\ \A k \in DOMAIN s.jobs : s.jobs[k] \in JobsOf(n, m)
  BY <1>1, HeapFields DEF Shaped
<1>3. /\ NewPromise \in PromisesOf(n + 1, m) /\ NewPromise.state = "pending"
      /\ NewPromise.handled = FALSE
  <2>1. <<>> \in Seq(ReactionsOf(m)) /\ "pending" \in States /\ Plain \in ValuesOf(n + 1)
    BY DEF States, ValuesOf, Values
  <2>2. QED
    BY <2>1 DEF NewPromise, PromisesOf
<1>4. t = [s EXCEPT !.promises = Append(s.promises, NewPromise)]
  OBVIOUS
<1> HIDE DEF t
<1>5. /\ t.promises = Append(s.promises, NewPromise) /\ t.resolvers = s.resolvers /\ t.jobs = s.jobs
      /\ t.unhandled = s.unhandled /\ t.reactions = s.reactions /\ t.surprised = s.surprised
  BY <1>1, <1>4 DEF Shaped, HeapsOf
<1>6. /\ PromisesOf(n, m) \subseteq PromisesOf(n + 1, m) /\ PairsOf(n) \subseteq PairsOf(n + 1)
      /\ JobsOf(n, m) \subseteq JobsOf(n + 1, m) /\ 1 .. n \subseteq 1 .. n + 1
      /\ HistoryOf(n) \subseteq HistoryOf(n + 1)
  BY MoreToUse
<1>7. /\ s.promises \in Seq(PromisesOf(n + 1, m)) /\ s.resolvers \in Seq(PairsOf(n + 1))
      /\ s.jobs \in Seq(JobsOf(n + 1, m))
      /\ s.reactions \in Seq(HistoryOf(n + 1))
  <2>1. s.promises \in Seq(PromisesOf(n + 1, m)) /\ s.resolvers \in Seq(PairsOf(n + 1))
    BY <1>2, <1>6, SeqWidens
  <2>2. s.jobs \in Seq(JobsOf(n + 1, m)) /\ s.reactions \in Seq(HistoryOf(n + 1))
    BY <1>2, <1>6, SeqWidens
  <2>3. QED
    BY <2>1, <2>2
<1>8. /\ t.promises \in Seq(PromisesOf(n + 1, m)) /\ Len(t.promises) = n + 1
      /\ t.promises[n + 1] = NewPromise /\ \A p \in 1 .. n : t.promises[p] = s.promises[p]
  BY <1>2, <1>3, <1>5, <1>7
<1>9. Shaped(t, n + 1, m)
  BY <1>1, <1>2, <1>4, <1>5, <1>6, <1>7, <1>8 DEF Shaped, HeapsOf
<1>10. \A r : Unused(t, r) => Unused(s, r) /\ t.resolvers[r] = s.resolvers[r]
                              /\ s.resolvers[r].promise \in 1 .. n
  BY <1>2, <1>5 DEF Unused, PairsOf
<1>11. \A k : Adopting(t, k) => Adopting(s, k) /\ t.jobs[k] = s.jobs[k] /\ s.jobs[k].promise \in 1 .. n
  <2>1. ASSUME NEW k, Adopting(t, k) PROVE s.jobs[k].promise \in 1 .. n
    <3>1. s.jobs[k] \in JobsOf(n, m) /\ s.jobs[k].kind = "thenable"
      BY <1>2, <1>5, <2>1 DEF Adopting
    <3>2. QED
      BY <3>1 DEF JobsOf
  <2>2. QED
    BY <1>5, <2>1 DEF Adopting
<1>12. NoNewRights(s, t)
  BY <1>10, <1>11 DEF NoNewRights
<1>13. OneSettles(t)
  <2>1. \A r : Unused(t, r) => t.promises[t.resolvers[r].promise] = s.promises[s.resolvers[r].promise]
    BY <1>8, <1>10
  <2>2. \A k : Adopting(t, k) => t.promises[t.jobs[k].promise] = s.promises[s.jobs[k].promise]
    BY <1>8, <1>11
  <2>3. QED
    BY <1>1, <1>12, <2>1, <2>2, RightsKept
<1>14. n + 1 \notin 1 .. n /\ n + 1 \in 1 .. n + 1
  OBVIOUS
<1>15. NobodySettles(t, n + 1)
  BY <1>10, <1>11, <1>14 DEF NobodySettles
<1>16. \A p : Reacted(t, p) <=> Reacted(s, p)
  BY <1>5 DEF Reacted
<1>17. ~Reacted(s, n + 1)
  <2>1. \A i \in DOMAIN s.reactions : s.reactions[i].promise \in 1 .. n
    BY <1>1, HeapFields
  <2>2. QED
    BY <1>14, <2>1 DEF Reacted
<1>18. \A p \in 1 .. n + 1 : p \in 1 .. n \/ p = n + 1
  OBVIOUS
<1>19. HandledExact(t, n + 1)
  BY <1>1, <1>3, <1>8, <1>16, <1>17, <1>18 DEF HandledExact
<1>20. ReportedExact(t, n + 1)
  <2>1. n + 1 \notin t.unhandled /\ t.promises[n + 1].state # "rejected"
    BY <1>2, <1>3, <1>5, <1>8, <1>14
  <2>2. \A p \in 1 .. n : p \in t.unhandled <=> t.promises[p].state = "rejected" /\ ~Reacted(t, p)
    BY <1>1, <1>5, <1>8, <1>16 DEF ReportedExact
  <2>3. QED
    BY <1>18, <2>1, <2>2 DEF ReportedExact
<1>21. GoodHeap(t, n + 1, m) /\ n + 1 \in Nat
  BY <1>9, <1>13, <1>19, <1>20 DEF GoodHeap
<1>22. WithPromise(s) = WithResolver(t, n + 1)
  BY <1>4, <1>8 DEF WithPromise
<1>23. PromiseAdded(s, t, n)
  BY <1>1, <1>5, <1>8, HeapFields DEF PromiseAdded
<1>24. QED
  BY <1>15, <1>21, <1>22, <1>23

LEMMA NewPromiseKeeps ==
  ASSUME NEW n \in Nat, NEW m \in Nat, NEW s, GoodHeap(s, n, m)
  PROVE  /\ GoodHeap(WithPromise(s), n + 1, m + 1) /\ LastPair(WithPromise(s)) = m + 1
<1>1. \E t : /\ GoodHeap(t, n + 1, m) /\ NobodySettles(t, n + 1)
             /\ PromiseAdded(s, t, n) /\ WithPromise(s) = WithResolver(t, n + 1)
  BY NewPromiseAdded
<1>2. PICK t : /\ GoodHeap(t, n + 1, m) /\ NobodySettles(t, n + 1)
               /\ PromiseAdded(s, t, n) /\ WithPromise(s) = WithResolver(t, n + 1)
  BY <1>1
<1>3. t.promises[n + 1].state = "pending" /\ n + 1 \in Nat /\ n + 1 \in 1 .. n + 1
  BY <1>2 DEF PromiseAdded, NewPromise
<1>4. QED
  BY <1>2, <1>3, NewPairKeeps

(* A reaction of p is added; its promise, if it was reported, is no longer. *)
ReactionAdded(s, t, n, p) ==
  /\ t.resolvers = s.resolvers
  /\ \A k : Adopting(t, k) => Adopting(s, k) /\ t.jobs[k] = s.jobs[k]
  /\ \A x \in 1 .. n : t.promises[x].state = s.promises[x].state
  /\ \A x \in 1 .. n : t.promises[x].handled = IF x = p THEN TRUE ELSE s.promises[x].handled
  /\ \A x : Reacted(t, x) <=> Reacted(s, x) \/ x = p
  /\ \A x : x \in t.unhandled <=> x \in s.unhandled /\ x # p

LEMMA ReactionAddedKeeps ==
  ASSUME NEW n \in Nat, NEW m \in Nat, NEW s, GoodHeap(s, n, m), NEW p \in 1 .. n,
         NEW t, Shaped(t, n, m), ReactionAdded(s, t, n, p)
  PROVE  GoodHeap(t, n, m)
<1>1. Shaped(s, n, m) /\ OneSettles(s) /\ HandledExact(s, n) /\ ReportedExact(s, n)
  BY DEF GoodHeap
<1>2. \A r : Unused(t, r) <=> Unused(s, r)
  BY DEF ReactionAdded, Unused
<1>3. \A r : Unused(t, r) => s.resolvers[r].promise \in 1 .. n
  <2>1. DOMAIN s.resolvers = 1 .. m /\ \A r \in 1 .. m : s.resolvers[r] \in PairsOf(n)
    BY <1>1, HeapFields
  <2>2. QED
    BY <1>2, <2>1 DEF Unused, PairsOf
<1>4. \A k : Adopting(t, k) => s.jobs[k].promise \in 1 .. n
  <2>1. \A k : Adopting(s, k) => s.jobs[k] \in JobsOf(n, m) /\ s.jobs[k].kind = "thenable"
    BY <1>1, HeapFields DEF Adopting
  <2>2. QED
    BY <2>1 DEF JobsOf, ReactionAdded
<1>5. NoNewRights(s, t)
  BY <1>2 DEF NoNewRights, ReactionAdded
<1>6. OneSettles(t)
  <2>1. \A r : Unused(t, r) =>
          t.promises[t.resolvers[r].promise].state = s.promises[s.resolvers[r].promise].state
    BY <1>3 DEF ReactionAdded
  <2>2. \A k : Adopting(t, k) =>
          t.promises[t.jobs[k].promise].state = s.promises[s.jobs[k].promise].state
    BY <1>4 DEF ReactionAdded
  <2>3. QED
    BY <1>1, <1>5, <2>1, <2>2, RightsKept
<1>7. HandledExact(t, n)
  BY <1>1 DEF HandledExact, ReactionAdded
<1>8. ReportedExact(t, n)
  BY <1>1 DEF ReportedExact, ReactionAdded
<1>9. QED
  BY <1>6, <1>7, <1>8 DEF GoodHeap

(* What perform_promise_then makes of the heap. *)
ReactionMade(s, p, x, y, q, t) ==
  /\ q.state = "pending" =>
       t = [s EXCEPT !.reactions = Append(s.reactions, y),
                     !.promises[p] = [q EXCEPT !.handled = TRUE, !.list = Append(q.list, x)]]
  /\ q.state # "pending" =>
       t = [s EXCEPT !.reactions = Append(s.reactions, y),
                     !.promises[p] = [q EXCEPT !.handled = TRUE],
                     !.unhandled = IF q.state = "rejected" /\ ~q.handled THEN s.unhandled \ {p}
                                   ELSE s.unhandled,
                     !.jobs = Queued(s.jobs, JobsNow(x, q))]
(* perform_promise_then gives the reaction to a pending promise, or queues
   its job. *)
LEMMA WithReactionForms ==
  ASSUME NEW n \in Nat, NEW m \in Nat, NEW s, Shaped(s, n, m), NEW p \in 1 .. n,
         NEW onF, NEW onR, NEW cap, NEW t, t = WithReaction(s, p, onF, onR, cap),
         NEW x, x = [onF |-> onF, onR |-> onR, cap |-> cap, id |-> Len(s.reactions) + 1],
         NEW y, y = [promise |-> p, ran |-> 0], NEW q, q = s.promises[p]
  PROVE  ReactionMade(s, p, x, y, q, t)
<1>1. s.promises \in Seq(PromisesOf(n, m)) /\ Len(s.promises) = n /\ q \in PromisesOf(n, m)
  BY HeapFields DEF Shaped
<1>2. CASE q.state = "pending"
  <2> DEFINE w == [q EXCEPT !.handled = TRUE, !.list = Append(q.list, x)]
             h == [q EXCEPT !.handled = TRUE]
             u == [s EXCEPT !.reactions = Append(s.reactions, y), !.promises[p] = h]
  <2>1. t = [u EXCEPT !.promises[p].list = Append(@, x)]
    BY <1>2 DEF WithReaction
  <2>2. u.promises = [s.promises EXCEPT ![p] = h] /\ u.promises[p] = h
    <3>1. DOMAIN s.promises = 1 .. n
      BY <1>1
    <3> HIDE DEF h
    <3>2. u.promises = [s.promises EXCEPT ![p] = h]
      BY DEF Shaped, HeapsOf
    <3> QED  BY <3>1, <3>2
  <2>3. h.list = q.list /\ [h EXCEPT !.list = Append(q.list, x)] = w
    BY <1>1 DEF PromisesOf
  <2> HIDE DEF h, u, w
  <2>4. t = [u EXCEPT !.promises = [u.promises EXCEPT ![p] = [u.promises[p] EXCEPT !.list = Append(u.promises[p].list, x)]]]
    BY <2>1
  <2>5. t = [u EXCEPT !.promises = [u.promises EXCEPT ![p] = w]]
    BY <2>2, <2>3, <2>4
  <2>6. [u.promises EXCEPT ![p] = w] = [s.promises EXCEPT ![p] = w]
    BY <1>1, <2>2
  <2>7. t = [u EXCEPT !.promises = [s.promises EXCEPT ![p] = w]]
    BY <2>5, <2>6
  <2>8. t = [s EXCEPT !.reactions = Append(s.reactions, y), !.promises[p] = w]
    BY <2>7 DEF u, Shaped, HeapsOf
  <2> QED  BY <1>2, <2>8 DEF w, ReactionMade
<1>3. CASE q.state # "pending"
  BY <1>1, <1>3 DEF WithReaction, ReactionMade, Shaped, HeapsOf
<1> QED  BY <1>2, <1>3

LEMMA WithReactionKeeps ==
  ASSUME NEW n \in Nat, NEW m \in Nat, NEW s, GoodHeap(s, n, m), NEW p \in 1 .. n,
         NEW onF \in HandlersOf(m), NEW onR \in HandlersOf(m), NEW cap \in 0 .. m
  PROVE  GoodHeap(WithReaction(s, p, onF, onR, cap), n, m)
<1> DEFINE t == WithReaction(s, p, onF, onR, cap)
           x == [onF |-> onF, onR |-> onR, cap |-> cap, id |-> Len(s.reactions) + 1]
           y == [promise |-> p, ran |-> 0]
           q == s.promises[p]
<1>1. Shaped(s, n, m) /\ OneSettles(s) /\ HandledExact(s, n) /\ ReportedExact(s, n)
  BY DEF GoodHeap
<1>0. ReactionMade(s, p, x, y, q, t)
  BY <1>1, WithReactionForms
<1>2. /\ s.promises \in Seq(PromisesOf(n, m)) /\ s.jobs \in Seq(JobsOf(n, m))
      /\ s.reactions \in Seq(HistoryOf(n)) /\ Len(s.promises) = n
      /\ s.unhandled \subseteq 1 .. n /\ q \in PromisesOf(n, m)
  BY <1>1, HeapFields DEF Shaped
<1>3. PICK c \in Nat : c = Len(s.reactions) /\ DOMAIN s.reactions = 1 .. c
  BY <1>2
<1>4. x \in ReactionsOf(m) /\ y \in HistoryOf(n) /\ y.promise = p
  BY <1>3 DEF ReactionsOf, HistoryOf
<1>5. Longer(HistoryOf(n), s.reactions, c, y, Append(s.reactions, y))
  BY <1>2, <1>3, <1>4, AppendElements
<1> HIDE DEF x, y
<1>6. ASSUME t.reactions = Append(s.reactions, y) PROVE \A z : Reacted(t, z) <=> Reacted(s, z) \/ z = p
  <2>1. /\ DOMAIN t.reactions = 1 .. c + 1 /\ t.reactions[c + 1].promise = p
        /\ \A i \in 1 .. c : t.reactions[i] = s.reactions[i]
    BY <1>4, <1>5, <1>6 DEF Longer
  <2>2. \A i \in 1 .. c + 1 : i = c + 1 \/ i \in 1 .. c
    OBVIOUS
  <2>3. 1 .. c \subseteq 1 .. c + 1 /\ c + 1 \in 1 .. c + 1
    OBVIOUS
  <2> HIDE DEF t
  <2>4. ASSUME NEW z PROVE Reacted(t, z) => Reacted(s, z) \/ z = p
    BY <1>3, <2>1, <2>2 DEF Reacted
  <2>5. ASSUME NEW z PROVE Reacted(s, z) \/ z = p => Reacted(t, z)
    BY <1>3, <2>1, <2>3 DEF Reacted
  <2>6. QED
    BY <2>4, <2>5
<1>7. CASE q.state = "pending"
  <2> DEFINE w == [q EXCEPT !.handled = TRUE, !.list = Append(q.list, x)]
  <2>1. w \in PromisesOf(n, m) /\ w.state = q.state /\ w.handled = TRUE
    <3>1. q.list \in Seq(ReactionsOf(m))
      BY <1>2 DEF PromisesOf
    <3>2. Append(q.list, x) \in Seq(ReactionsOf(m))
      BY <1>4, <3>1
    <3>3. QED
      BY <1>2, <3>2 DEF PromisesOf
  <2>2. t = [s EXCEPT !.reactions = Append(s.reactions, y), !.promises[p] = w]
    BY <1>0, <1>7 DEF ReactionMade
  <2> HIDE DEF w, t, q
  <2>3. /\ t.promises = [s.promises EXCEPT ![p] = w] /\ t.resolvers = s.resolvers /\ t.jobs = s.jobs
        /\ t.unhandled = s.unhandled /\ t.reactions = Append(s.reactions, y) /\ t.surprised = s.surprised
    BY <1>1, <2>2 DEF Shaped, HeapsOf
  <2>4. OneChanged(PromisesOf(n, m), s.promises, n, p, w, [s.promises EXCEPT ![p] = w])
    BY <1>2, <2>1, ExceptElements
  <2>5. /\ t.promises \in Seq(PromisesOf(n, m)) /\ Len(t.promises) = n
        /\ \A z \in 1 .. n : t.promises[z] = IF z = p THEN w ELSE s.promises[z]
    BY <2>3, <2>4 DEF OneChanged
  <2>6. Append(s.reactions, y) \in Seq(HistoryOf(n))
    BY <1>5 DEF Longer
  <2>7. Shaped(t, n, m)
    BY <1>1, <2>2, <2>3, <2>5, <2>6 DEF Shaped, HeapsOf
  <2>8. p \notin s.unhandled
    BY <1>1, <1>7 DEF ReportedExact, q
  <2>9. ReactionAdded(s, t, n, p)
    <3>1. \A k : Adopting(t, k) => Adopting(s, k) /\ t.jobs[k] = s.jobs[k]
      BY <2>3 DEF Adopting
    <3>2. \A z \in 1 .. n : t.promises[z].state = s.promises[z].state
      BY <2>1, <2>5 DEF q
    <3>3. \A z \in 1 .. n : t.promises[z].handled = IF z = p THEN TRUE ELSE s.promises[z].handled
      BY <2>1, <2>5
    <3>4. \A z : Reacted(t, z) <=> Reacted(s, z) \/ z = p
      BY <1>6, <2>3
    <3>5. \A z : z \in t.unhandled <=> z \in s.unhandled /\ z # p
      BY <2>3, <2>8
    <3>6. QED
      BY <2>3, <3>1, <3>2, <3>3, <3>4, <3>5 DEF ReactionAdded
  <2>10. QED
    BY <2>7, <2>9, ReactionAddedKeeps DEF t
<1>8. CASE q.state # "pending"
  <2> DEFINE w == [q EXCEPT !.handled = TRUE]
             late == JobsNow(x, q)
             rest == IF q.state = "rejected" /\ ~q.handled THEN s.unhandled \ {p} ELSE s.unhandled
  <2>1. w \in PromisesOf(n, m) /\ w.state = q.state /\ w.handled = TRUE
    BY <1>2 DEF PromisesOf
  <2>2. t = [s EXCEPT !.reactions = Append(s.reactions, y), !.promises[p] = w, !.unhandled = rest,
                      !.jobs = Queued(s.jobs, late)]
    BY <1>0, <1>8 DEF ReactionMade
  <2>3. late \in Seq(JobsOf(n, m)) /\ \A i \in DOMAIN late : late[i].kind = "reaction"
    <3>1. PICK rj \in BOOLEAN : rj = (q.state = "rejected")
      OBVIOUS
    <3>2. q.result \in ValuesOf(n)
      BY <1>2 DEF PromisesOf
    <3>3. PICK j : j = ReactionJob(x, rj, q.result)
      OBVIOUS
    <3>4. j \in JobsOf(n, m) /\ j.kind = "reaction"
      BY <1>4, <3>2, <3>3, ReactionJobShape
    <3>5. late = <<j>>
      BY <3>1, <3>3 DEF JobsNow
    <3>6. QED
      BY <3>4, <3>5
  <2>4. /\ Queued(s.jobs, late) \in Seq(JobsOf(n, m))
        /\ \A k \in DOMAIN Queued(s.jobs, late) : Queued(s.jobs, late)[k].kind = "thenable" =>
             k \in DOMAIN s.jobs /\ s.jobs[k] = Queued(s.jobs, late)[k]
    BY <1>2, <2>3, MoreReactionJobs
  <2>5. rest \subseteq 1 .. n /\ \A z : z \in rest <=> z \in s.unhandled /\ z # p
    <3>1. q.handled \in BOOLEAN
      BY <1>2 DEF PromisesOf
    <3>2. p \in s.unhandled => q.state = "rejected" /\ ~q.handled
      BY <1>1, <3>1 DEF ReportedExact, HandledExact
    <3>3. QED
      BY <1>2, <3>2
  <2> HIDE DEF w, t, q, late, rest
  <2>6. /\ t.promises = [s.promises EXCEPT ![p] = w] /\ t.resolvers = s.resolvers
        /\ t.jobs = Queued(s.jobs, late) /\ t.unhandled = rest
        /\ t.reactions = Append(s.reactions, y) /\ t.surprised = s.surprised
    BY <1>1, <2>2 DEF Shaped, HeapsOf
  <2>7. OneChanged(PromisesOf(n, m), s.promises, n, p, w, [s.promises EXCEPT ![p] = w])
    BY <1>2, <2>1, ExceptElements
  <2>8. /\ t.promises \in Seq(PromisesOf(n, m)) /\ Len(t.promises) = n
        /\ \A z \in 1 .. n : t.promises[z] = IF z = p THEN w ELSE s.promises[z]
    BY <2>6, <2>7 DEF OneChanged
  <2>9. Append(s.reactions, y) \in Seq(HistoryOf(n))
    BY <1>5 DEF Longer
  <2>10. Shaped(t, n, m)
    BY <1>1, <2>2, <2>4, <2>5, <2>6, <2>8, <2>9 DEF Shaped, HeapsOf
  <2>11. ReactionAdded(s, t, n, p)
    <3>1. \A k : Adopting(t, k) => Adopting(s, k) /\ t.jobs[k] = s.jobs[k]
      BY <2>4, <2>6 DEF Adopting
    <3>2. \A z \in 1 .. n : t.promises[z].state = s.promises[z].state
      BY <2>1, <2>8 DEF q
    <3>3. \A z \in 1 .. n : t.promises[z].handled = IF z = p THEN TRUE ELSE s.promises[z].handled
      BY <2>1, <2>8
    <3>4. \A z : Reacted(t, z) <=> Reacted(s, z) \/ z = p
      BY <1>6, <2>6
    <3>5. \A z : z \in t.unhandled <=> z \in s.unhandled /\ z # p
      BY <2>5, <2>6
    <3>6. QED
      BY <2>6, <3>1, <3>2, <3>3, <3>4, <3>5 DEF ReactionAdded
  <2>12. QED
    BY <2>10, <2>11, ReactionAddedKeeps DEF t
<1>9. QED
  BY <1>7, <1>8

(* js_promise_then. *)
LEMMA ThenKeeps ==
  ASSUME NEW n \in Nat, NEW m \in Nat, NEW s, GoodHeap(s, n, m), NEW p \in 1 .. n,
         NEW onF \in HandlersOf(m), NEW onR \in HandlersOf(m)
  PROVE  GoodHeap(Then(s, p, onF, onR), n + 1, m + 1)
<1>1. GoodHeap(WithPromise(s), n + 1, m + 1) /\ LastPair(WithPromise(s)) = m + 1
  BY NewPromiseKeeps
<1>2. n + 1 \in Nat /\ m + 1 \in Nat /\ p \in 1 .. n + 1 /\ m + 1 \in 0 .. m + 1
  OBVIOUS
<1>3. onF \in HandlersOf(m + 1) /\ onR \in HandlersOf(m + 1)
  BY MoreToUse
<1>4. GoodHeap(WithReaction(WithPromise(s), p, onF, onR, m + 1), n + 1, m + 1)
  BY <1>1, <1>2, <1>3, WithReactionKeeps
<1>5. QED
  BY <1>1, <1>4 DEF Then

(***************************************************************************)
(* JS_ExecutePendingJob takes the first job off the queue.  If it adopts a *)
(* thenable, nobody else may settle its promise while it runs.             *)
(***************************************************************************)
TakenOf(s) == [s EXCEPT !.jobs = Tail(@)]
LEMMA TakenKeeps ==
  ASSUME NEW n \in Nat, NEW m \in Nat, NEW s, GoodHeap(s, n, m), s.jobs # <<>>
  PROVE  /\ GoodHeap(TakenOf(s), n, m) /\ TakenOf(s).promises = s.promises
         /\ Head(s.jobs) \in JobsOf(n, m)
         /\ Head(s.jobs).kind = "thenable" =>
              /\ s.promises[Head(s.jobs).promise].state = "pending"
              /\ NobodySettles(TakenOf(s), Head(s.jobs).promise)
<1> DEFINE t == TakenOf(s)
           j == Head(s.jobs)
<1>1. Shaped(s, n, m) /\ OneSettles(s) /\ HandledExact(s, n) /\ ReportedExact(s, n)
  BY DEF GoodHeap
<1>2. s.jobs \in Seq(JobsOf(n, m))
  BY <1>1, HeapFields
<1>3. PICK c \in Nat : c + 1 = Len(s.jobs) /\ DOMAIN s.jobs = 1 .. c + 1
  <2>1. PICK d \in Nat : d = Len(s.jobs) /\ DOMAIN s.jobs = 1 .. d /\ d > 0
    BY <1>2
  <2>2. d - 1 \in Nat /\ (d - 1) + 1 = d
    BY <2>1
  <2>3. QED
    BY <2>1, <2>2
<1>4. PICK rest \in Seq(JobsOf(n, m)) :
        /\ rest = Tail(s.jobs) /\ DOMAIN rest = 1 .. c
        /\ \A k \in 1 .. c : rest[k] = s.jobs[k + 1]
  <2>1. /\ Tail(s.jobs) \in Seq(JobsOf(n, m)) /\ Len(Tail(s.jobs)) = Len(s.jobs) - 1
        /\ \A k \in 1 .. Len(s.jobs) - 1 : Tail(s.jobs)[k] = s.jobs[k + 1]
    BY <1>2, HeadTailProperties
  <2>2. Len(s.jobs) - 1 = c
    BY <1>3
  <2>3. DOMAIN Tail(s.jobs) = 1 .. c
    BY <2>1, <2>2
  <2>4. QED
    BY <2>1, <2>2, <2>3, Zenon
<1>5. j = s.jobs[1] /\ j \in JobsOf(n, m) /\ 1 \in DOMAIN s.jobs
  BY <1>2, <1>3
<1>6. t = [s EXCEPT !.jobs = rest]
  BY <1>4 DEF TakenOf
<1> HIDE DEF t, j
<1>7. /\ t.promises = s.promises /\ t.resolvers = s.resolvers /\ t.jobs = rest
      /\ t.unhandled = s.unhandled /\ t.reactions = s.reactions /\ t.surprised = s.surprised
  BY <1>1, <1>6 DEF Shaped, HeapsOf
<1>8. Shaped(t, n, m)
  BY <1>1, <1>6, <1>7 DEF Shaped, HeapsOf
<1>9. \A r : Unused(t, r) <=> Unused(s, r)
  BY <1>7 DEF Unused
<1>10. \A k : Adopting(t, k) => k \in 1 .. c /\ Adopting(s, k + 1) /\ t.jobs[k] = s.jobs[k + 1]
  <2>1. \A k \in 1 .. c : k + 1 \in 1 .. c + 1
    OBVIOUS
  <2>2. QED
    BY <1>3, <1>4, <1>7, <2>1 DEF Adopting
<1>11. OneSettles(t)
  <2>1. \A r : Unused(t, r) => t.promises[t.resolvers[r].promise].state = "pending"
    BY <1>1, <1>7, <1>9 DEF OneSettles
  <2>2. \A k : Adopting(t, k) => t.promises[t.jobs[k].promise].state = "pending"
    BY <1>1, <1>7, <1>10 DEF OneSettles
  <2>3. \A r, q : Unused(t, r) /\ Unused(t, q) /\ t.resolvers[r].promise = t.resolvers[q].promise => r = q
    BY <1>1, <1>7, <1>9 DEF OneSettles
  <2>4. ASSUME NEW k, NEW l, Adopting(t, k), Adopting(t, l), t.jobs[k].promise = t.jobs[l].promise
        PROVE  k = l
    <3>1. k \in 1 .. c /\ l \in 1 .. c
      BY <1>10, <2>4
    <3>2. k + 1 = l + 1
      BY <1>1, <1>10, <2>4 DEF OneSettles
    <3>3. QED
      BY <3>1, <3>2
  <2>5. \A r, k : Unused(t, r) /\ Adopting(t, k) => t.resolvers[r].promise # t.jobs[k].promise
    BY <1>1, <1>7, <1>9, <1>10 DEF OneSettles
  <2>6. QED
    BY <2>1, <2>2, <2>3, <2>4, <2>5 DEF OneSettles
<1>12. HandledExact(t, n) /\ ReportedExact(t, n)
  BY <1>1, <1>7 DEF HandledExact, ReportedExact, Reacted
<1>13. ASSUME j.kind = "thenable"
       PROVE  s.promises[j.promise].state = "pending" /\ NobodySettles(t, j.promise)
  <2>1. Adopting(s, 1) /\ s.jobs[1] = j
    BY <1>5, <1>13 DEF Adopting
  <2>2. s.promises[j.promise].state = "pending"
    BY <1>1, <2>1 DEF OneSettles
  <2>3. ASSUME NEW r, Unused(t, r) PROVE t.resolvers[r].promise # j.promise
    BY <1>1, <1>7, <1>9, <2>1, <2>3 DEF OneSettles
  <2>4. ASSUME NEW k, Adopting(t, k) PROVE t.jobs[k].promise # j.promise
    <3>1. k \in 1 .. c /\ Adopting(s, k + 1) /\ t.jobs[k] = s.jobs[k + 1]
      BY <1>10, <2>4
    <3>2. k + 1 # 1
      BY <3>1
    <3>3. QED
      BY <1>1, <2>1, <3>1, <3>2 DEF OneSettles
  <2>5. QED
    BY <2>2, <2>3, <2>4 DEF NobodySettles
<1>14. QED
  BY <1>5, <1>7, <1>8, <1>11, <1>12, <1>13 DEF GoodHeap, t, j

(* The history of reaction i. *)
LEMMA RanKeeps ==
  ASSUME NEW n \in Nat, NEW m \in Nat, NEW s, GoodHeap(s, n, m), NEW i
  PROVE  GoodHeap(Ran(s, i), n, m)
<1> DEFINE t == Ran(s, i)
           x == [s.reactions[i] EXCEPT !.ran = @ + 1]
           all == [s.reactions EXCEPT ![i] = x]
<1>1. Shaped(s, n, m) /\ OneSettles(s) /\ HandledExact(s, n) /\ ReportedExact(s, n)
  BY DEF GoodHeap
<1>2. s.reactions \in Seq(HistoryOf(n))
  BY <1>1, HeapFields
<1>3. PICK c \in Nat : c = Len(s.reactions) /\ DOMAIN s.reactions = 1 .. c
  BY <1>2
<1>4. /\ \A k \in 1 .. c : s.reactions[k] \in HistoryOf(n)
      /\ i \in 1 .. c => x \in HistoryOf(n) /\ x.promise = s.reactions[i].promise
  <2>1. \A k \in 1 .. c : s.reactions[k] \in HistoryOf(n)
    BY <1>2, <1>3
  <2>2. ASSUME i \in 1 .. c PROVE x \in HistoryOf(n) /\ x.promise = s.reactions[i].promise
    <3>1. s.reactions[i] \in HistoryOf(n)
      BY <2>1, <2>2
    <3>2. QED
      BY <3>1 DEF HistoryOf
  <2>3. QED
    BY <2>1, <2>2
<1>5. t = [s EXCEPT !.reactions = all]
  BY DEF Ran
<1> HIDE DEF x
<1>6. /\ all \in Seq(HistoryOf(n)) /\ DOMAIN all = 1 .. c
      /\ \A k \in 1 .. c : all[k].promise = s.reactions[k].promise
  <2>1. DOMAIN all = 1 .. c /\ \A k \in 1 .. c : all[k] = IF k = i THEN x ELSE s.reactions[k]
    BY <1>3
  <2> HIDE DEF all
  <2>2. \A k \in 1 .. c : all[k] \in HistoryOf(n) /\ all[k].promise = s.reactions[k].promise
    BY <1>4, <2>1
  <2>3. all = [k \in 1 .. c |-> all[k]]
    BY <1>3, <2>1 DEF all
  <2>4. QED
    BY <2>1, <2>2, <2>3
<1> HIDE DEF t, all
<1>7. /\ t.promises = s.promises /\ t.resolvers = s.resolvers /\ t.jobs = s.jobs
      /\ t.unhandled = s.unhandled /\ t.reactions = all /\ t.surprised = s.surprised
  BY <1>1, <1>5 DEF Shaped, HeapsOf
<1>8. Shaped(t, n, m)
  BY <1>1, <1>5, <1>6, <1>7 DEF Shaped, HeapsOf
<1>9. OneSettles(t)
  BY <1>1, <1>7 DEF OneSettles, Unused, Adopting
<1>10. \A p : Reacted(t, p) <=> Reacted(s, p)
  BY <1>3, <1>6, <1>7 DEF Reacted
<1>11. HandledExact(t, n) /\ ReportedExact(t, n)
  BY <1>1, <1>7, <1>10 DEF HandledExact, ReportedExact
<1>12. QED
  BY <1>8, <1>9, <1>11 DEF GoodHeap, t

LEMMA AnsweredKeeps ==
  ASSUME NEW n \in Nat, NEW m \in Nat, NEW s, GoodHeap(s, n, m), NEW cap \in 0 .. m,
         NEW v \in ValuesOf(n), NEW reject \in BOOLEAN
  PROVE  GoodHeap(Answered(s, cap, v, reject), n, m)
<1>1. CASE cap = 0
  BY <1>1 DEF Answered
<1>2. CASE cap # 0
  <2>1. cap \in 1 .. m
    BY <1>2
  <2>2. QED
    BY <1>2, <2>1, ResolvedKeeps DEF Answered
<1>3. QED
  BY <1>1, <1>2

-----------------------------------------------------------------------------
(***************************************************************************)
(* The inductive invariant: the heap is good, and the functions that the   *)
(* scripts and the running job have exist.                                 *)
(***************************************************************************)
RunningFits(run, m) ==
  run = <<>> \/ \E j : /\ run = <<j>> /\ j.cap \in 0 .. m
                       /\ j.kind # "reaction" => j.cap # 0
PromisesHold(s, h, run, n, m) == GoodHeap(s, n, m) /\ h \subseteq 1 .. m /\ RunningFits(run, m)
PromisesInv == \E n, m \in Nat : PromisesHold(heap, held, running, n, m)

LEMMA PromisesInvSettles == PromisesInv => SettledOnce
<1> SUFFICES ASSUME PromisesInv PROVE SettledOnce
  OBVIOUS
<1>1. PICK n \in Nat, m \in Nat : PromisesHold(heap, held, running, n, m)
  BY DEF PromisesInv
<1>2. /\ Shaped(heap, n, m) /\ ReportedExact(heap, n) /\ held \subseteq 1 .. m
  BY <1>1 DEF PromisesHold, GoodHeap
<1>3. /\ DOMAIN heap.resolvers = 1 .. m /\ heap.unhandled \subseteq 1 .. n /\ heap.surprised = FALSE
      /\ \A p \in 1 .. n : heap.promises[p] \in PromisesOf(n, m)
  BY <1>2, HeapFields
<1>4. Known = 1 .. n
  BY <1>2 DEF Known, Shaped
<1>5. PromisesTypeOK
  BY <1>2, <1>3, <1>4 DEF PromisesTypeOK, PromisesOf, States
<1>6. SettlesOnlyPending
  BY <1>3 DEF SettlesOnlyPending
<1>7. UnhandledTracked
  <2>1. \A p \in 1 .. n : p \in heap.unhandled <=>
          heap.promises[p].state = "rejected"
          /\ ~\E i \in DOMAIN heap.reactions : heap.reactions[i].promise = p
    BY <1>2 DEF ReportedExact, Reacted
  <2>2. QED
    BY <1>3, <1>4, <2>1 DEF UnhandledTracked
<1>8. QED
  BY <1>5, <1>6, <1>7 DEF SettledOnce

LEMMA PromisesInitInv == PromisesInit => PromisesInv
<1> SUFFICES ASSUME PromisesInit PROVE PromisesInv
  OBVIOUS
<1>1. /\ heap = [promises |-> <<>>, resolvers |-> <<>>, jobs |-> <<>>, unhandled |-> {},
                 reactions |-> <<>>, surprised |-> FALSE]
      /\ running = <<>> /\ held = {}
  BY DEF PromisesInit
<1>2. /\ heap.promises = <<>> /\ heap.resolvers = <<>> /\ heap.jobs = <<>> /\ heap.unhandled = {}
      /\ heap.reactions = <<>> /\ heap.surprised = FALSE
  BY <1>1
<1>3. Shaped(heap, 0, 0)
  <2>1. <<>> \in Seq(PromisesOf(0, 0)) /\ <<>> \in Seq(PairsOf(0)) /\ <<>> \in Seq(JobsOf(0, 0))
        /\ <<>> \in Seq(HistoryOf(0)) /\ Len(<<>>) = 0
    OBVIOUS
  <2>2. heap \in HeapsOf(0, 0)
    BY <1>1, <2>1 DEF HeapsOf
  <2>3. QED
    BY <1>2, <2>1, <2>2 DEF Shaped
<1>4. OneSettles(heap)
  BY <1>2 DEF OneSettles, Unused, Adopting
<1>5. HandledExact(heap, 0) /\ ReportedExact(heap, 0)
  BY DEF HandledExact, ReportedExact
<1>6. PromisesHold(heap, held, running, 0, 0)
  BY <1>1, <1>3, <1>4, <1>5 DEF PromisesHold, GoodHeap, RunningFits
<1>7. QED
  BY <1>6 DEF PromisesInv

(* More functions than before. *)
LEMMA MoreFunctions ==
  ASSUME NEW m \in Nat, NEW h, h \subseteq 1 .. m, NEW run, RunningFits(run, m)
  PROVE  h \subseteq 1 .. m + 1 /\ RunningFits(run, m + 1) /\ m + 1 \in 1 .. m + 1
<1>1. 1 .. m \subseteq 1 .. m + 1 /\ 0 .. m \subseteq 0 .. m + 1 /\ m + 1 \in 1 .. m + 1
  OBVIOUS
<1>2. QED
  BY <1>1 DEF RunningFits

(* A step that leaves a good heap with one promise and one pair more. *)
LEMMA OneMorePromise ==
  ASSUME NEW n \in Nat, NEW m \in Nat, PromisesHold(heap, held, running, n, m),
         GoodHeap(heap', n + 1, m + 1), held' \subseteq held \cup {m + 1}, running' = running
  PROVE  PromisesInv'
<1>1. held \subseteq 1 .. m /\ RunningFits(running, m)
  BY DEF PromisesHold
<1>2. held \subseteq 1 .. m + 1 /\ RunningFits(running', m + 1) /\ m + 1 \in 1 .. m + 1
  BY <1>1, MoreFunctions
<1>3. PromisesHold(heap', held', running', n + 1, m + 1)
  BY <1>2 DEF PromisesHold
<1>4. n + 1 \in Nat /\ m + 1 \in Nat
  OBVIOUS
<1>5. QED
  BY <1>3, <1>4 DEF PromisesInv

(* A step that leaves a good heap with as many of each. *)
LEMMA SameNumbers ==
  ASSUME NEW n \in Nat, NEW m \in Nat, PromisesHold(heap, held, running, n, m),
         GoodHeap(heap', n, m), held' = held, RunningFits(running', m)
  PROVE  PromisesInv'
<1>1. PromisesHold(heap', held', running', n, m)
  BY DEF PromisesHold
<1>2. QED
  BY <1>1 DEF PromisesInv

LEMMA KnownValues ==
  ASSUME NEW n \in Nat, NEW m \in Nat, PromisesHold(heap, held, running, n, m)
  PROVE  Known = 1 .. n /\ Values \cup Known \subseteq ValuesOf(n)
<1>1. Len(heap.promises) = n
  BY DEF PromisesHold, GoodHeap, Shaped
<1>2. QED
  BY <1>1 DEF Known, ValuesOf

LEMMA ScriptPromiseInv ==
  ASSUME NEW n \in Nat, NEW m \in Nat, PromisesHold(heap, held, running, n, m), ScriptPromise
  PROVE  PromisesInv'
<1>1. heap' = WithPromise(heap) /\ held' = held \cup {LastPair(heap')} /\ running' = running
  BY DEF ScriptPromise
<1>2. GoodHeap(heap, n, m)
  BY DEF PromisesHold
<1>3. GoodHeap(WithPromise(heap), n + 1, m + 1) /\ LastPair(WithPromise(heap)) = m + 1
  BY <1>2, NewPromiseKeeps
<1>4. GoodHeap(heap', n + 1, m + 1) /\ held' \subseteq held \cup {m + 1}
  BY <1>1, <1>3
<1>5. QED
  BY <1>1, <1>4, OneMorePromise

LEMMA ScriptThenInv ==
  ASSUME NEW n \in Nat, NEW m \in Nat, PromisesHold(heap, held, running, n, m), NEW p \in Known,
         NEW onF \in {NoHandler, ScriptHandler}, NEW onR \in {NoHandler, ScriptHandler},
         ScriptThen(p, onF, onR)
  PROVE  PromisesInv'
<1>1. heap' = Then(heap, p, onF, onR) /\ held' = held /\ running' = running
  BY DEF ScriptThen
<1>2. GoodHeap(heap, n, m) /\ p \in 1 .. n
  BY KnownValues DEF PromisesHold
<1>3. onF \in HandlersOf(m) /\ onR \in HandlersOf(m)
  BY DEF HandlersOf
<1>4. GoodHeap(heap', n + 1, m + 1)
  BY <1>1, <1>2, <1>3, ThenKeeps
<1>5. QED
  BY <1>1, <1>4, OneMorePromise

LEMMA ScriptAwaitInv ==
  ASSUME NEW n \in Nat, NEW m \in Nat, PromisesHold(heap, held, running, n, m), NEW p \in Known,
         ScriptAwait(p)
  PROVE  PromisesInv'
<1>1. /\ heap' = WithReaction(heap, p, ScriptHandler, ScriptHandler, 0)
      /\ held' = held /\ running' = running
  BY DEF ScriptAwait
<1>2. GoodHeap(heap, n, m) /\ p \in 1 .. n /\ RunningFits(running, m)
  BY KnownValues DEF PromisesHold
<1>3. ScriptHandler \in HandlersOf(m) /\ 0 \in 0 .. m
  BY DEF HandlersOf
<1>4. GoodHeap(heap', n, m)
  BY <1>1, <1>2, <1>3, WithReactionKeeps
<1>5. QED
  BY <1>1, <1>2, <1>4, SameNumbers

LEMMA ScriptResolveInv ==
  ASSUME NEW n \in Nat, NEW m \in Nat, PromisesHold(heap, held, running, n, m), NEW r \in held,
         NEW v \in Values \cup Known, NEW reject \in BOOLEAN, ScriptResolve(r, v, reject)
  PROVE  PromisesInv'
<1>1. heap' = Resolved(heap, r, v, reject) /\ held' = held /\ running' = running
  BY DEF ScriptResolve
<1>2. GoodHeap(heap, n, m) /\ r \in 1 .. m /\ RunningFits(running, m)
  BY DEF PromisesHold
<1>3. v \in ValuesOf(n)
  BY KnownValues
<1>4. GoodHeap(heap', n, m)
  BY <1>1, <1>2, <1>3, ResolvedKeeps
<1>5. QED
  BY <1>1, <1>2, <1>4, SameNumbers

LEMMA HandlerEndsInv ==
  ASSUME NEW n \in Nat, NEW m \in Nat, PromisesHold(heap, held, running, n, m),
         NEW v \in Values \cup Known, NEW throws \in BOOLEAN, HandlerEnds(v, throws)
  PROVE  PromisesInv'
<1>1. GoodHeap(heap, n, m) /\ RunningFits(running, m) /\ running # <<>>
  BY DEF PromisesHold, HandlerEnds
<1>2. PICK j : running = <<j>> /\ j.cap \in 0 .. m /\ (j.kind # "reaction" => j.cap # 0)
  BY <1>1 DEF RunningFits
<1>3. running[1] = j
  BY <1>2
<1>4. /\ heap' = IF j.kind = "reaction" THEN Answered(heap, j.cap, v, throws)
                 ELSE IF throws THEN Resolved(heap, j.cap, v, TRUE) ELSE heap
      /\ running' = <<>> /\ held' = held
  BY <1>3 DEF HandlerEnds
<1>5. v \in ValuesOf(n)
  BY KnownValues
<1>6. GoodHeap(Answered(heap, j.cap, v, throws), n, m)
  BY <1>1, <1>2, <1>5, AnsweredKeeps
<1>7. ASSUME j.kind # "reaction" PROVE GoodHeap(Resolved(heap, j.cap, v, TRUE), n, m)
  <2>1. j.cap \in 1 .. m
    BY <1>2, <1>7
  <2>2. QED
    BY <1>1, <1>5, <2>1, ResolvedKeeps
<1>8. GoodHeap(heap', n, m)
  BY <1>1, <1>4, <1>6, <1>7
<1>9. QED
  BY <1>4, <1>8, SameNumbers DEF RunningFits

LEMMA ReactionJobRunsInv ==
  ASSUME NEW n \in Nat, NEW m \in Nat, PromisesHold(heap, held, running, n, m), ReactionJobRuns
  PROVE  PromisesInv'
<1> DEFINE j == Head(heap.jobs)
           s == Ran(Taken, j.id)
<1>1. /\ GoodHeap(heap, n, m) /\ RunningFits(running, m) /\ heap.jobs # <<>>
      /\ j.kind = "reaction" /\ held' = held
  BY DEF PromisesHold, ReactionJobRuns
<1>2. GoodHeap(Taken, n, m) /\ j \in JobsOf(n, m)
  BY <1>1, TakenKeeps DEF Taken, TakenOf
<1>3. GoodHeap(s, n, m)
  BY <1>2, RanKeeps
<1>4. /\ j.handler \in HandlersOf(m) /\ j.reject \in BOOLEAN /\ j.arg \in ValuesOf(n)
      /\ j.cap \in 0 .. m
  BY <1>1, <1>2 DEF JobsOf
<1>5. Plain \in ValuesOf(n)
  BY DEF ValuesOf, Values
<1>6. /\ \/ j.handler.kind = "none"
         \/ j.handler.kind = "script"
         \/ j.handler.kind \in {"resolve", "reject"} /\ j.handler.r \in 1 .. m
  BY <1>4 DEF HandlersOf, NoHandler, ScriptHandler
<1>7. CASE j.handler.kind = "none"
  <2>1. heap' = Answered(s, j.cap, j.arg, j.reject) /\ running' = running
    BY <1>7 DEF ReactionJobRuns
  <2>2. GoodHeap(heap', n, m)
    BY <1>3, <1>4, <2>1, AnsweredKeeps
  <2>3. QED
    BY <1>1, <2>1, <2>2, SameNumbers
<1>8. CASE j.handler.kind = "script"
  <2>1. heap' = s /\ running' = <<j>>
    BY <1>8 DEF ReactionJobRuns
  <2>2. RunningFits(running', m)
    BY <1>1, <1>4, <2>1 DEF RunningFits
  <2>3. QED
    BY <1>1, <1>3, <2>1, <2>2, SameNumbers
<1>9. CASE j.handler.kind \in {"resolve", "reject"} /\ j.handler.r \in 1 .. m
  <2> DEFINE rj == (j.handler.kind = "reject")
             u == Resolved(s, j.handler.r, j.arg, rj)
  <2>1. heap' = Answered(u, j.cap, Plain, FALSE) /\ running' = running
    BY <1>9 DEF ReactionJobRuns
  <2>2. GoodHeap(u, n, m)
    <3>1. rj \in BOOLEAN
      OBVIOUS
    <3> HIDE DEF rj, s
    <3>2. QED
      BY <1>3, <1>4, <1>9, <3>1, ResolvedKeeps
  <2> HIDE DEF u
  <2>3. GoodHeap(heap', n, m)
    BY <1>4, <1>5, <2>1, <2>2, AnsweredKeeps
  <2>4. QED
    BY <1>1, <2>1, <2>3, SameNumbers
<1>10. QED
  BY <1>6, <1>7, <1>8, <1>9

LEMMA ThenableJobRunsInv ==
  ASSUME NEW n \in Nat, NEW m \in Nat, PromisesHold(heap, held, running, n, m), ThenableJobRuns
  PROVE  PromisesInv'
<1> DEFINE j == Head(heap.jobs)
           s == WithResolver(Taken, j.promise)
<1>1. /\ GoodHeap(heap, n, m) /\ held \subseteq 1 .. m /\ RunningFits(running, m)
      /\ heap.jobs # <<>> /\ j.kind = "thenable"
  BY DEF PromisesHold, ThenableJobRuns
<1>2. /\ GoodHeap(Taken, n, m) /\ Taken.promises = heap.promises /\ j \in JobsOf(n, m)
      /\ heap.promises[j.promise].state = "pending" /\ NobodySettles(Taken, j.promise)
  BY <1>1, TakenKeeps DEF Taken, TakenOf
<1>3. j.promise \in 1 .. n /\ j.arg \in ValuesOf(n)
  BY <1>1, <1>2 DEF JobsOf
<1>4. GoodHeap(s, n, m + 1) /\ LastPair(s) = m + 1
  BY <1>2, <1>3, NewPairKeeps
<1> HIDE DEF s
<1>5. m + 1 \in Nat /\ m + 1 \in 1 .. m + 1
  OBVIOUS
<1>6. held \subseteq 1 .. m + 1
  BY <1>1, <1>5, MoreFunctions
<1>7. CASE IsPromise(j.arg)
  <2>1. heap' = Then(s, j.arg, Resolving("resolve", m + 1), Resolving("reject", m + 1))
        /\ running' = running /\ held' = held
    <3>1. /\ heap' = Then(s, j.arg, FunctionsFor(LastPair(s))[1], FunctionsFor(LastPair(s))[2])
          /\ running' = running /\ held' = held
      BY <1>7 DEF ThenableJobRuns, s
    <3>2. FunctionsFor(m + 1)[1] = Resolving("resolve", m + 1)
          /\ FunctionsFor(m + 1)[2] = Resolving("reject", m + 1)
      BY DEF FunctionsFor
    <3>3. QED
      BY <1>4, <3>1, <3>2
  <2>2. j.arg \in 1 .. n
    BY <1>3, <1>7 DEF IsPromise, ValuesOf, Values, Plain, Thenable, BadThenable, TypeErr
  <2>3. Resolving("resolve", m + 1) \in HandlersOf(m + 1) /\ Resolving("reject", m + 1) \in HandlersOf(m + 1)
    BY <1>5 DEF HandlersOf, Resolving
  <2>4. GoodHeap(heap', n + 1, (m + 1) + 1)
    BY <1>4, <1>5, <2>1, <2>2, <2>3, ThenKeeps
  <2>5. held' \subseteq 1 .. (m + 1) + 1 /\ RunningFits(running', (m + 1) + 1)
    BY <1>1, <1>5, <2>1, MoreFunctions
  <2>6. n + 1 \in Nat /\ (m + 1) + 1 \in Nat
    OBVIOUS
  <2>7. PromisesHold(heap', held', running', n + 1, (m + 1) + 1)
    BY <2>4, <2>5 DEF PromisesHold
  <2>8. QED
    BY <2>6, <2>7 DEF PromisesInv
<1>8. CASE ~IsPromise(j.arg)
  <2>1. heap' = s /\ running' = <<[j EXCEPT !.cap = m + 1]>> /\ held' = held \cup {m + 1}
    BY <1>4, <1>8 DEF ThenableJobRuns, s
  <2>2. [j EXCEPT !.cap = m + 1].cap = m + 1
    BY <1>2 DEF JobsOf
  <2>3. m + 1 \in 0 .. m + 1 /\ m + 1 # 0
    OBVIOUS
  <2>4. RunningFits(running', m + 1)
    BY <2>1, <2>2, <2>3 DEF RunningFits
  <2>5. PromisesHold(heap', held', running', n, m + 1)
    BY <1>4, <1>5, <1>6, <2>1, <2>4 DEF PromisesHold
  <2>6. QED
    BY <1>5, <2>5 DEF PromisesInv
<1>9. QED
  BY <1>7, <1>8

LEMMA PromisesStepInv == PromisesInv /\ [PromisesNext]_promiseVars => PromisesInv'
<1> SUFFICES ASSUME PromisesInv, [PromisesNext]_promiseVars PROVE PromisesInv'
  OBVIOUS
<1>1. PICK n \in Nat, m \in Nat : PromisesHold(heap, held, running, n, m)
  BY DEF PromisesInv
<1>2. CASE ScriptPromise
  BY <1>1, <1>2, ScriptPromiseInv
<1>3. ASSUME NEW p \in Known, NEW onF \in {NoHandler, ScriptHandler},
             NEW onR \in {NoHandler, ScriptHandler}, ScriptThen(p, onF, onR)
      PROVE  PromisesInv'
  BY <1>1, <1>3, ScriptThenInv
<1>4. ASSUME NEW p \in Known, ScriptAwait(p) PROVE PromisesInv'
  BY <1>1, <1>4, ScriptAwaitInv
<1>5. ASSUME NEW r \in held, NEW v \in Values \cup Known, NEW reject \in BOOLEAN,
             ScriptResolve(r, v, reject)
      PROVE  PromisesInv'
  BY <1>1, <1>5, ScriptResolveInv
<1>6. CASE ReactionJobRuns
  BY <1>1, <1>6, ReactionJobRunsInv
<1>7. CASE ThenableJobRuns
  BY <1>1, <1>7, ThenableJobRunsInv
<1>8. ASSUME NEW v \in Values \cup Known, NEW throws \in BOOLEAN, HandlerEnds(v, throws)
      PROVE  PromisesInv'
  BY <1>1, <1>8, HandlerEndsInv
<1>9. CASE UNCHANGED promiseVars
  BY <1>1, <1>9 DEF promiseVars, PromisesInv
<1>10. QED
  BY <1>2, <1>3, <1>4, <1>5, <1>6, <1>7, <1>8, <1>9 DEF PromisesNext

(***************************************************************************)
(* However many promises, reactions and jobs there are, and whichever      *)
(* resolving functions scripts and jobs call in whichever order, no        *)
(* promise is settled twice (fulfill_or_reject_promise never meets one     *)
(* that is not pending), and the host's list of unhandled rejections holds *)
(* exactly the rejected promises without a reaction.                       *)
(***************************************************************************)
THEOREM PromisesSettleOnce == PromisesSpec => []SettledOnce
<1>1. PromisesInv => SettledOnce
  BY PromisesInvSettles
<1>2. QED
  BY <1>1, PromisesInitInv, PromisesStepInv, PTL DEF PromisesSpec

-----------------------------------------------------------------------------
(* The reactions.                                                          *)

Reacting(s, k) == k \in DOMAIN s.jobs /\ s.jobs[k].kind = "reaction"
OwnerOf(s, i) == s.reactions[i].promise
ListOf(s, p) == s.promises[p].list

(***************************************************************************)
(* Each reaction is in one place: in the list of its promise while that is *)
(* pending, then in the queue, then it has run.  The lists and the queue   *)
(* hold the reactions of a promise in the order then added them.           *)
(***************************************************************************)
ListsRight(s) ==
  \A p \in DOMAIN s.promises : \A k \in DOMAIN ListOf(s, p) :
    /\ s.promises[p].state = "pending"
    /\ ListOf(s, p)[k].id \in DOMAIN s.reactions
    /\ OwnerOf(s, ListOf(s, p)[k].id) = p /\ s.reactions[ListOf(s, p)[k].id].ran = 0
    /\ \A l \in DOMAIN ListOf(s, p) : k < l => ListOf(s, p)[k].id < ListOf(s, p)[l].id
JobsRight(s) ==
  \A k \in DOMAIN s.jobs : Reacting(s, k) =>
    /\ s.jobs[k].id \in DOMAIN s.reactions /\ s.reactions[s.jobs[k].id].ran = 0
    /\ s.promises[OwnerOf(s, s.jobs[k].id)].state # "pending"
    /\ \A l \in DOMAIN s.jobs :
         Reacting(s, l) /\ k < l /\ OwnerOf(s, s.jobs[k].id) = OwnerOf(s, s.jobs[l].id)
           => s.jobs[k].id < s.jobs[l].id
PlaceOf(s, i) ==
  /\ s.promises[OwnerOf(s, i)].state = "pending" =>
       /\ s.reactions[i].ran = 0
       /\ \E k \in DOMAIN ListOf(s, OwnerOf(s, i)) : ListOf(s, OwnerOf(s, i))[k].id = i
  /\ s.promises[OwnerOf(s, i)].state # "pending" =>
       \/ s.reactions[i].ran = 1
       \/ \E k \in DOMAIN s.jobs : Reacting(s, k) /\ s.jobs[k].id = i
Placed(s) == \A i \in DOMAIN s.reactions : PlaceOf(s, i)
RanRight(s) ==
  \A i, j \in DOMAIN s.reactions :
    i < j /\ OwnerOf(s, i) = OwnerOf(s, j) /\ s.reactions[j].ran > 0 => s.reactions[i].ran > 0
Ordered(s) == ListsRight(s) /\ JobsRight(s) /\ Placed(s) /\ RanRight(s)

(***************************************************************************)
(* How a promise p follows the promise q it was resolved with: a job that  *)
(* will call the then of q, or a reaction of q with unused functions of p, *)
(* waiting or queued; or p has the state and the result of q.  `hole` is   *)
(* the promise whose job was taken off the queue and has not ended.        *)
(***************************************************************************)
AdoptsOf(s, r) == s.promises[s.resolvers[r].promise].adopts
Settling == {"resolve", "reject"}
Follows(s, p, q) ==
  \/ \E k \in DOMAIN s.jobs : Adopting(s, k) /\ s.jobs[k].promise = p
  \/ \E r \in DOMAIN s.resolvers : Unused(s, r) /\ s.resolvers[r].promise = p /\
       \/ \E k \in DOMAIN ListOf(s, q) : ListOf(s, q)[k].onF = Resolving("resolve", r)
       \/ \E k \in DOMAIN s.jobs : Reacting(s, k) /\ s.jobs[k].handler.kind \in Settling
                                   /\ s.jobs[k].handler.r = r
  \/ /\ s.promises[q].state # "pending"
     /\ s.promises[p].state = s.promises[q].state /\ s.promises[p].result = s.promises[q].result
AllFollow(s, hole) ==
  \A p \in DOMAIN s.promises :
    p # hole /\ s.promises[p].adopts # 0 =>
      s.promises[p].adopts \in DOMAIN s.promises /\ Follows(s, p, s.promises[p].adopts)

(***************************************************************************)
(* The functions that a job made for such a promise are with its reaction  *)
(* only: those that scripts have (pub), or that are to settle what then    *)
(* made, belong to promises that follow no other.                          *)
(***************************************************************************)
ResultsRight(s) ==
  \A p \in DOMAIN s.promises :
    /\ s.promises[p].state = "pending" => s.promises[p].result = Plain
    /\ s.promises[p].state = "fulfilled" => s.promises[p].result \in {Plain, TypeErr}
AdoptJobs(s) ==
  \A k \in DOMAIN s.jobs : Adopting(s, k) =>
    s.promises[s.jobs[k].promise].adopts = IF IsPromise(s.jobs[k].arg) THEN s.jobs[k].arg ELSE 0
Paired(x) ==
  \/ x.onF.kind \notin Settling /\ x.onR.kind \notin Settling
  \/ x.onF = Resolving("resolve", x.onF.r) /\ x.onR = Resolving("reject", x.onF.r)
ListAdopts(s) ==
  \A p \in DOMAIN s.promises : \A k \in DOMAIN ListOf(s, p) :
    /\ Paired(ListOf(s, p)[k])
    /\ ListOf(s, p)[k].onF.kind \in Settling /\ Unused(s, ListOf(s, p)[k].onF.r)
         => AdoptsOf(s, ListOf(s, p)[k].onF.r) = p
JobFits(s, k) ==
  /\ AdoptsOf(s, s.jobs[k].handler.r) = OwnerOf(s, s.jobs[k].id)
  /\ s.jobs[k].arg = s.promises[OwnerOf(s, s.jobs[k].id)].result
  /\ s.jobs[k].handler.kind = "reject" <=>
       s.promises[OwnerOf(s, s.jobs[k].id)].state = "rejected"
JobAdopts(s) ==
  \A k \in DOMAIN s.jobs :
    Reacting(s, k) /\ s.jobs[k].handler.kind \in Settling /\ Unused(s, s.jobs[k].handler.r)
      => JobFits(s, k)
Public(s, pub) ==
  /\ \A r \in pub : Unused(s, r) => AdoptsOf(s, r) = 0
  /\ \A p \in DOMAIN s.promises : \A k \in DOMAIN ListOf(s, p) :
       Unused(s, ListOf(s, p)[k].cap) => AdoptsOf(s, ListOf(s, p)[k].cap) = 0
  /\ \A k \in DOMAIN s.jobs :
       Reacting(s, k) /\ Unused(s, s.jobs[k].cap) => AdoptsOf(s, s.jobs[k].cap) = 0
Following(s, pub, hole) ==
  /\ ResultsRight(s) /\ AdoptJobs(s) /\ ListAdopts(s) /\ JobAdopts(s)
  /\ Public(s, pub) /\ AllFollow(s, hole)

(* The numbers that a good heap holds. *)
LEMMA HeapRanges ==
  ASSUME NEW n \in Nat, NEW m \in Nat, NEW s, GoodHeap(s, n, m)
  PROVE  /\ DOMAIN s.promises = 1 .. n /\ DOMAIN s.resolvers = 1 .. m
         /\ \A r \in 1 .. m : s.resolvers[r].promise \in 1 .. n
         /\ \A i \in DOMAIN s.reactions : s.reactions[i].promise \in 1 .. n
         /\ \A k : Adopting(s, k) => s.jobs[k].promise \in 1 .. n /\ s.jobs[k].arg \in ValuesOf(n)
         /\ \A k : Reacting(s, k) => s.jobs[k].handler \in HandlersOf(m) /\ s.jobs[k].cap \in 0 .. m
                                     /\ s.jobs[k].id \in Nat
         /\ \A p \in 1 .. n : ListOf(s, p) \in Seq(ReactionsOf(m))
         /\ \A p \in 1 .. n : s.promises[p].state \in States /\ s.promises[p].adopts \in Nat
         /\ \E a \in Nat : DOMAIN s.jobs = 1 .. a
         /\ \E c \in Nat : DOMAIN s.reactions = 1 .. c /\ c = Len(s.reactions)
         /\ \A k \in DOMAIN s.jobs : s.jobs[k].kind = "reaction" \/ s.jobs[k].kind = "thenable"
<1>1. Shaped(s, n, m)
  BY DEF GoodHeap
<1>2. /\ s.jobs \in Seq(JobsOf(n, m)) /\ s.reactions \in Seq(HistoryOf(n))
      /\ DOMAIN s.promises = 1 .. n /\ DOMAIN s.resolvers = 1 .. m
      /\ \A p \in 1 .. n : s.promises[p] \in PromisesOf(n, m)
      /\ \A r \in 1 .. m : s.resolvers[r] \in PairsOf(n)
      /\ \A k \in DOMAIN s.jobs : s.jobs[k] \in JobsOf(n, m)
      /\ \A i \in DOMAIN s.reactions : s.reactions[i].promise \in 1 .. n
  BY <1>1, HeapFields, Zenon
<1>3. \A r \in 1 .. m : s.resolvers[r].promise \in 1 .. n
  BY <1>2 DEF PairsOf
<1>4. \A j \in JobsOf(n, m) :
        /\ j.kind = "thenable" => j.promise \in 1 .. n /\ j.arg \in ValuesOf(n)
        /\ j.kind = "reaction" => j.handler \in HandlersOf(m) /\ j.cap \in 0 .. m /\ j.id \in Nat
        /\ j.kind = "reaction" \/ j.kind = "thenable"
  BY DEF JobsOf
<1>5. /\ \A k : Adopting(s, k) => s.jobs[k].promise \in 1 .. n /\ s.jobs[k].arg \in ValuesOf(n)
      /\ \A k : Reacting(s, k) => s.jobs[k].handler \in HandlersOf(m) /\ s.jobs[k].cap \in 0 .. m
                                  /\ s.jobs[k].id \in Nat
      /\ \A k \in DOMAIN s.jobs : s.jobs[k].kind = "reaction" \/ s.jobs[k].kind = "thenable"
  BY <1>2, <1>4, Zenon DEF Adopting, Reacting
<1>6. \A p \in 1 .. n : ListOf(s, p) \in Seq(ReactionsOf(m)) /\ s.promises[p].state \in States
                        /\ s.promises[p].adopts \in Nat
  BY <1>2 DEF PromisesOf, ListOf
<1>7. \E a \in Nat : DOMAIN s.jobs = 1 .. a
  BY <1>2
<1>8. \E c \in Nat : DOMAIN s.reactions = 1 .. c /\ c = Len(s.reactions)
  BY <1>2
<1> QED  BY <1>2, <1>3, <1>5, <1>6, <1>7, <1>8, Zenon

(* What its functions, reactions and jobs are of. *)
Owned(s, n, m) ==
  /\ DOMAIN s.promises = 1 .. n /\ DOMAIN s.resolvers = 1 .. m
  /\ \A r \in 1 .. m : s.resolvers[r].promise \in 1 .. n
  /\ \A i \in DOMAIN s.reactions : s.reactions[i].promise \in 1 .. n
  /\ \A k : Adopting(s, k) => s.jobs[k].promise \in 1 .. n
LEMMA HeapOwned ==
  ASSUME NEW n \in Nat, NEW m \in Nat, NEW s, GoodHeap(s, n, m)
  PROVE  Owned(s, n, m)
BY HeapRanges DEF Owned

-----------------------------------------------------------------------------
(* A promise is settled.                                                   *)

JobsGrow(s, t, a, b) ==
  /\ DOMAIN s.jobs = 1 .. a /\ DOMAIN t.jobs = 1 .. a + b
  /\ \A k \in 1 .. a : t.jobs[k] = s.jobs[k]
FunctionsUsed(s, t, r) ==
  /\ DOMAIN t.resolvers = DOMAIN s.resolvers
  /\ \A x \in DOMAIN s.resolvers : t.resolvers[x].promise = s.resolvers[x].promise
  /\ \A x : Unused(t, x) <=> Unused(s, x) /\ x # r

(* The functions r settle p: its reactions move behind the queue. *)
JobOf(j, x, st, v) ==
  /\ j.kind = "reaction" /\ j.id = x.id /\ j.cap = x.cap /\ j.arg = v
  /\ st = "rejected" => j.handler = x.onR
  /\ st = "fulfilled" => j.handler = x.onF
SettleEffect(s, t, r, p, st, v, a, b) ==
  /\ t.reactions = s.reactions /\ FunctionsUsed(s, t, r)
  /\ DOMAIN t.promises = DOMAIN s.promises
  /\ \A z \in DOMAIN s.promises : z # p => t.promises[z] = s.promises[z]
  /\ t.promises[p].state = st /\ t.promises[p].result = v /\ t.promises[p].list = <<>>
  /\ t.promises[p].adopts = s.promises[p].adopts
  /\ JobsGrow(s, t, a, b) /\ DOMAIN ListOf(s, p) = 1 .. b
  /\ \A i \in 1 .. b : JobOf(t.jobs[a + i], ListOf(s, p)[i], st, v)

(* The jobs behind the queue. *)
LEMMA GrownJob ==
  ASSUME NEW a \in Nat, NEW b \in Nat, NEW k \in 1 .. a + b
  PROVE  k \in 1 .. a \/ \E i \in 1 .. b : k = a + i
<1>1. CASE k <= a
  BY <1>1
<1>2. CASE ~(k <= a)
  <2>1. k - a \in 1 .. b /\ k = a + (k - a)
    BY <1>2
  <2> QED  BY <2>1
<1> QED  BY <1>1, <1>2

(* fulfill_or_reject_promise queues the list of the promise as it is, so the
   reactions stay in order and each in one place. *)
LEMMA SettleOrdered ==
  ASSUME NEW n \in Nat, NEW m \in Nat, NEW s, NEW t, GoodHeap(s, n, m), Ordered(s),
         NEW r, NEW p \in 1 .. n, s.promises[p].state = "pending",
         NEW st \in {"fulfilled", "rejected"}, NEW v, NEW a \in Nat, NEW b \in Nat,
         SettleEffect(s, t, r, p, st, v, a, b)
  PROVE  Ordered(t)
<1>1. /\ DOMAIN s.promises = 1 .. n /\ DOMAIN t.promises = 1 .. n
      /\ \A i \in DOMAIN s.reactions : OwnerOf(s, i) \in 1 .. n
  BY HeapRanges DEF SettleEffect, OwnerOf
<1>2. /\ t.reactions = s.reactions /\ \A i : OwnerOf(t, i) = OwnerOf(s, i)
      /\ \A z \in 1 .. n : z # p => t.promises[z] = s.promises[z] /\ ListOf(t, z) = ListOf(s, z)
      /\ t.promises[p].state # "pending" /\ ListOf(t, p) = <<>>
  BY <1>1 DEF SettleEffect, ListOf, OwnerOf
<1>3. /\ DOMAIN s.jobs = 1 .. a /\ DOMAIN t.jobs = 1 .. a + b /\ DOMAIN ListOf(s, p) = 1 .. b
      /\ \A k \in 1 .. a : k \in 1 .. a + b /\ t.jobs[k] = s.jobs[k]
      /\ \A i \in 1 .. b : a + i \in 1 .. a + b /\ t.jobs[a + i].kind = "reaction"
                           /\ t.jobs[a + i].id = ListOf(s, p)[i].id
  BY DEF SettleEffect, JobsGrow, JobOf
<1>4. /\ ListsRight(s) /\ JobsRight(s) /\ Placed(s) /\ RanRight(s)
  BY DEF Ordered
<1>5. \A i \in 1 .. b :
        /\ ListOf(s, p)[i].id \in DOMAIN s.reactions /\ OwnerOf(s, ListOf(s, p)[i].id) = p
        /\ s.reactions[ListOf(s, p)[i].id].ran = 0
        /\ \A l \in 1 .. b : i < l => ListOf(s, p)[i].id < ListOf(s, p)[l].id
  BY <1>1, <1>3, <1>4 DEF ListsRight
<1>6. \A k \in 1 .. a : Reacting(s, k) =>
        /\ s.jobs[k].id \in DOMAIN s.reactions /\ s.reactions[s.jobs[k].id].ran = 0
        /\ OwnerOf(s, s.jobs[k].id) # p
        /\ s.promises[OwnerOf(s, s.jobs[k].id)].state # "pending"
  BY <1>3, <1>4 DEF JobsRight
<1>7. \A k \in 1 .. a : Reacting(t, k) <=> Reacting(s, k)
  BY <1>3, Zenon DEF Reacting
<1>8. ListsRight(t)
  <2>1. ASSUME NEW z \in 1 .. n, NEW k \in DOMAIN ListOf(t, z)
        PROVE  z # p
    BY <1>2, <2>1
  <2> QED  BY <1>1, <1>2, <1>4, <2>1 DEF ListsRight
<1>9. JobsRight(t)
  <2>1. ASSUME NEW k \in 1 .. a, Reacting(t, k)
        PROVE  /\ t.jobs[k].id \in DOMAIN t.reactions /\ t.reactions[t.jobs[k].id].ran = 0
               /\ t.promises[OwnerOf(t, t.jobs[k].id)].state # "pending"
    <3>1. Reacting(s, k) /\ t.jobs[k] = s.jobs[k]
      BY <1>3, <1>7, <2>1, Zenon
    <3>2. /\ s.jobs[k].id \in DOMAIN s.reactions /\ s.reactions[s.jobs[k].id].ran = 0
          /\ OwnerOf(s, s.jobs[k].id) # p
          /\ s.promises[OwnerOf(s, s.jobs[k].id)].state # "pending"
      BY <1>6, <3>1, Zenon
    <3>3. OwnerOf(s, s.jobs[k].id) \in 1 .. n
      BY <1>1, <3>2, Zenon
    <3> QED  BY <1>2, <3>1, <3>2, <3>3
  <2>2. ASSUME NEW k \in 1 .. a, Reacting(t, k), NEW l \in 1 .. a + b, Reacting(t, l), k < l,
               OwnerOf(t, t.jobs[k].id) = OwnerOf(t, t.jobs[l].id)
        PROVE  t.jobs[k].id < t.jobs[l].id
    <3>1. CASE l \in 1 .. a
      <4>1. Reacting(s, k) /\ Reacting(s, l) /\ t.jobs[k] = s.jobs[k] /\ t.jobs[l] = s.jobs[l]
        BY <1>3, <1>7, <2>2, <3>1
      <4>2. OwnerOf(s, s.jobs[k].id) = OwnerOf(s, s.jobs[l].id)
        BY <1>2, <2>2, <4>1
      <4> QED  BY <1>3, <1>4, <2>2, <3>1, <4>1, <4>2 DEF JobsRight
    <3>2. ASSUME NEW i \in 1 .. b, l = a + i  PROVE FALSE
      <4>1. OwnerOf(s, t.jobs[l].id) = p
        BY <1>3, <1>5, <3>2
      <4>2. OwnerOf(s, t.jobs[k].id) # p
        BY <1>3, <1>6, <1>7, <2>2
      <4> QED  BY <1>2, <2>2, <4>1, <4>2
    <3>3. l \in 1 .. a \/ \E i \in 1 .. b : l = a + i
      BY GrownJob
    <3> QED  BY <3>1, <3>2, <3>3
  <2>3. ASSUME NEW i \in 1 .. b
        PROVE  /\ t.jobs[a + i].id \in DOMAIN t.reactions /\ t.reactions[t.jobs[a + i].id].ran = 0
               /\ t.promises[OwnerOf(t, t.jobs[a + i].id)].state # "pending"
    BY <1>2, <1>3, <1>5
  <2>4. ASSUME NEW i \in 1 .. b, NEW l \in 1 .. a + b, a + i < l
        PROVE  t.jobs[a + i].id < t.jobs[l].id
    <3>1. PICK i2 \in 1 .. b : l = a + i2
      <4>1. l \notin 1 .. a
        BY <2>4
      <4> QED  BY <4>1, GrownJob
    <3>2. i < i2
      BY <2>4, <3>1
    <3> QED  BY <1>3, <1>5, <3>1, <3>2
  <2>5. ASSUME NEW k \in DOMAIN t.jobs  PROVE k \in 1 .. a \/ \E i \in 1 .. b : k = a + i
    <3>1. k \in 1 .. a + b
      BY <1>3
    <3> QED  BY <3>1, GrownJob, Zenon
  <2>6. ASSUME NEW k \in DOMAIN t.jobs, Reacting(t, k)
        PROVE  /\ t.jobs[k].id \in DOMAIN t.reactions /\ t.reactions[t.jobs[k].id].ran = 0
               /\ t.promises[OwnerOf(t, t.jobs[k].id)].state # "pending"
    <3>1. CASE k \in 1 .. a
      BY <2>1, <2>6, <3>1
    <3>2. ASSUME NEW i \in 1 .. b, k = a + i
          PROVE  /\ t.jobs[k].id \in DOMAIN t.reactions /\ t.reactions[t.jobs[k].id].ran = 0
                 /\ t.promises[OwnerOf(t, t.jobs[k].id)].state # "pending"
      BY <2>3, <3>2
    <3> QED  BY <2>5, <3>1, <3>2
  <2>7. ASSUME NEW k \in DOMAIN t.jobs, NEW l \in DOMAIN t.jobs, Reacting(t, k), Reacting(t, l), k < l,
               OwnerOf(t, t.jobs[k].id) = OwnerOf(t, t.jobs[l].id)
        PROVE  t.jobs[k].id < t.jobs[l].id
    <3>1. CASE k \in 1 .. a
      BY <1>3, <2>2, <2>7, <3>1
    <3>2. ASSUME NEW i \in 1 .. b, k = a + i  PROVE t.jobs[k].id < t.jobs[l].id
      BY <1>3, <2>4, <2>7, <3>2
    <3> QED  BY <2>5, <3>1, <3>2
  <2> QED  BY <2>6, <2>7, Zenon DEF JobsRight
<1>10. ASSUME NEW i \in DOMAIN t.reactions  PROVE PlaceOf(t, i)
  <2>1. PlaceOf(s, i) /\ OwnerOf(t, i) = OwnerOf(s, i) /\ OwnerOf(s, i) \in 1 .. n
        /\ t.reactions[i] = s.reactions[i]
    BY <1>1, <1>2, <1>4, <1>10 DEF Placed
  <2>2. CASE OwnerOf(s, i) = p
    <3>1. PICK k \in 1 .. b : ListOf(s, p)[k].id = i
      BY <1>3, <2>1, <2>2 DEF PlaceOf
    <3>2. a + k \in DOMAIN t.jobs /\ Reacting(t, a + k) /\ t.jobs[a + k].id = i
      BY <1>3, <3>1 DEF Reacting
    <3> QED  BY <1>2, <2>1, <2>2, <3>2, Zenon DEF PlaceOf
  <2>3. CASE OwnerOf(s, i) # p
    <3>1. /\ t.promises[OwnerOf(s, i)] = s.promises[OwnerOf(s, i)]
          /\ ListOf(t, OwnerOf(s, i)) = ListOf(s, OwnerOf(s, i))
      BY <1>2, <2>1, <2>3, Zenon
    <3>2. \A k \in DOMAIN s.jobs : Reacting(s, k) /\ s.jobs[k].id = i =>
            k \in DOMAIN t.jobs /\ Reacting(t, k) /\ t.jobs[k].id = i
      BY <1>3, <1>7, Zenon
    <3> QED  BY <2>1, <3>1, <3>2, Zenon DEF PlaceOf
  <2> QED  BY <2>2, <2>3
<1>11. RanRight(t)
  BY <1>2, <1>4, Zenon DEF RanRight
<1> QED  BY <1>8, <1>9, <1>10, <1>11 DEF Ordered, Placed

(***************************************************************************)
(* A promise that followed another one is settled as that one was.         *)
(***************************************************************************)
SettledLike(s, p, st, v) ==
  s.promises[p].adopts # 0 =>
    /\ s.promises[p].adopts \in DOMAIN s.promises
    /\ s.promises[s.promises[p].adopts].state = st
    /\ s.promises[s.promises[p].adopts].result = v
SettlesFor(s, r, p, hole, st, v) ==
  /\ s.promises[p].state = "pending" /\ s.resolvers[r].promise = p /\ (hole = 0 \/ hole = p)
  /\ st = "fulfilled" => v \in {Plain, TypeErr}
  /\ SettledLike(s, p, st, v)

(* A promise that others follow takes them along: their reactions were in
   its list and are now in the queue, with its state and its result. *)
LEMMA SettleFollows ==
  ASSUME NEW n \in Nat, NEW m \in Nat, NEW s, NEW t, GoodHeap(s, n, m), Ordered(s),
         NEW pub, NEW hole, Following(s, pub, hole), NEW r, NEW p \in 1 .. n,
         NEW st \in {"fulfilled", "rejected"}, NEW v, SettlesFor(s, r, p, hole, st, v),
         NEW a \in Nat, NEW b \in Nat, SettleEffect(s, t, r, p, st, v, a, b)
  PROVE  Following(t, pub, 0)
<1> s.promises[p].state = "pending"
  BY DEF SettlesFor
<1> s.resolvers[r].promise = p
  BY DEF SettlesFor
<1> hole = 0 \/ hole = p
  BY DEF SettlesFor
<1> st = "fulfilled" => v \in {Plain, TypeErr}
  BY DEF SettlesFor
<1> SettledLike(s, p, st, v)
  BY DEF SettlesFor
<1>1. /\ DOMAIN s.promises = 1 .. n /\ DOMAIN t.promises = 1 .. n
      /\ \A i \in DOMAIN s.reactions : OwnerOf(s, i) \in 1 .. n
      /\ \A x \in DOMAIN s.resolvers : s.resolvers[x].promise \in 1 .. n
      /\ \A k : Adopting(s, k) => s.jobs[k].promise \in 1 .. n
  <2>1. Owned(s, n, m)
    BY HeapOwned
  <2>2. DOMAIN t.promises = DOMAIN s.promises
    BY DEF SettleEffect
  <2> QED  BY <2>1, <2>2, Zenon DEF Owned, OwnerOf
<1>2. /\ t.reactions = s.reactions /\ \A i : OwnerOf(t, i) = OwnerOf(s, i)
      /\ \A z \in 1 .. n : z # p => t.promises[z] = s.promises[z] /\ ListOf(t, z) = ListOf(s, z)
      /\ t.promises[p].state = st /\ ListOf(t, p) = <<>> /\ t.promises[p].result = v
      /\ \A z \in 1 .. n : t.promises[z].adopts = s.promises[z].adopts
  BY <1>1 DEF SettleEffect, ListOf, OwnerOf
<1>3. /\ DOMAIN s.jobs = 1 .. a /\ DOMAIN t.jobs = 1 .. a + b /\ DOMAIN ListOf(s, p) = 1 .. b
      /\ \A k \in 1 .. a : k \in 1 .. a + b /\ t.jobs[k] = s.jobs[k]
      /\ \A i \in 1 .. b : a + i \in 1 .. a + b /\ JobOf(t.jobs[a + i], ListOf(s, p)[i], st, v)
  BY DEF SettleEffect, JobsGrow
<1>4. /\ DOMAIN t.resolvers = DOMAIN s.resolvers
      /\ \A x \in DOMAIN s.resolvers : t.resolvers[x].promise = s.resolvers[x].promise
      /\ \A x : Unused(t, x) <=> Unused(s, x) /\ x # r
      /\ \A x : Unused(s, x) => x \in DOMAIN s.resolvers
  BY DEF SettleEffect, FunctionsUsed, Unused
<1>5. \A x : Unused(t, x) => Unused(s, x) /\ AdoptsOf(t, x) = AdoptsOf(s, x)
  BY <1>1, <1>2, <1>4 DEF AdoptsOf
<1>6. /\ ListsRight(s) /\ JobsRight(s)
      /\ ResultsRight(s) /\ AdoptJobs(s) /\ ListAdopts(s) /\ JobAdopts(s)
      /\ Public(s, pub) /\ AllFollow(s, hole)
  BY DEF Ordered, Following
<1>7. ASSUME NEW k \in DOMAIN t.jobs  PROVE k \in 1 .. a \/ \E i \in 1 .. b : k = a + i
  <2>1. k \in 1 .. a + b
    BY <1>3
  <2> QED  BY <2>1, GrownJob, Zenon
<1>8. \A k \in 1 .. a : (Reacting(t, k) <=> Reacting(s, k)) /\ (Adopting(t, k) <=> Adopting(s, k))
  BY <1>3, Zenon DEF Reacting, Adopting
<1>9. \A i \in 1 .. b : Reacting(t, a + i) /\ ~Adopting(t, a + i)
  BY <1>3 DEF Reacting, Adopting, JobOf
<1>10. ResultsRight(t)
  BY <1>1, <1>2, <1>6 DEF ResultsRight
<1>11. AdoptJobs(t)
  <2>1. ASSUME NEW k \in DOMAIN t.jobs, Adopting(t, k)
        PROVE  Adopting(s, k) /\ t.jobs[k] = s.jobs[k] /\ k \in DOMAIN s.jobs
    <3>1. ASSUME NEW i \in 1 .. b, k = a + i  PROVE FALSE
      BY <1>9, <2>1, <3>1
    <3>2. k \in 1 .. a
      BY <1>7, <3>1, Zenon
    <3>3. t.jobs[k] = s.jobs[k] /\ k \in DOMAIN s.jobs
      BY <1>3, <3>2, Zenon
    <3>4. Adopting(s, k)
      BY <1>8, <2>1, <3>2, Zenon
    <3> QED  BY <3>3, <3>4
  <2>2. ASSUME NEW k \in DOMAIN t.jobs, Adopting(t, k)
        PROVE  t.promises[t.jobs[k].promise].adopts = IF IsPromise(t.jobs[k].arg) THEN t.jobs[k].arg ELSE 0
    <3>1. Adopting(s, k) /\ t.jobs[k] = s.jobs[k] /\ k \in DOMAIN s.jobs
      BY <2>1, <2>2
    <3>2. s.promises[s.jobs[k].promise].adopts = IF IsPromise(s.jobs[k].arg) THEN s.jobs[k].arg ELSE 0
      BY <1>6, <3>1, Zenon DEF AdoptJobs
    <3>3. t.promises[s.jobs[k].promise].adopts = s.promises[s.jobs[k].promise].adopts
      BY <1>1, <1>2, <3>1, Zenon
    <3> QED  BY <3>1, <3>2, <3>3, Zenon
  <2> QED  BY <2>2, Zenon DEF AdoptJobs
<1>12. ListAdopts(t)
  <2>1. ASSUME NEW z \in 1 .. n, NEW k \in DOMAIN ListOf(t, z)
        PROVE  z # p /\ ListOf(t, z) = ListOf(s, z)
    BY <1>2, <2>1
  <2> QED  BY <1>1, <1>5, <1>6, <2>1 DEF ListAdopts
<1>13. \A k \in 1 .. a : Reacting(s, k) =>
         /\ OwnerOf(s, s.jobs[k].id) # p /\ OwnerOf(s, s.jobs[k].id) \in 1 .. n
  BY <1>1, <1>3, <1>6 DEF JobsRight
<1>14. \A i \in 1 .. b : OwnerOf(s, ListOf(s, p)[i].id) = p
  BY <1>1, <1>3, <1>6 DEF ListsRight
<1>15. ASSUME NEW i \in 1 .. b, t.jobs[a + i].handler.kind \in Settling
       PROVE  LET x == ListOf(s, p)[i] IN
              /\ x.onF.kind \in Settling /\ t.jobs[a + i].handler.r = x.onF.r
              /\ t.jobs[a + i].handler.kind = "reject" <=> st = "rejected"
  <2> DEFINE x == ListOf(s, p)[i]
  <2>1. Paired(x)
    BY <1>1, <1>3, <1>6 DEF ListAdopts
  <2>2. JobOf(t.jobs[a + i], x, st, v)
    BY <1>3
  <2> HIDE DEF x
  <2>3. x.onF = Resolving("resolve", x.onF.r) /\ x.onR = Resolving("reject", x.onF.r)
    BY <1>15, <2>1, <2>2 DEF Paired, JobOf
  <2>4. /\ x.onF.kind = "resolve" /\ x.onR.kind = "reject" /\ x.onR.r = x.onF.r
    BY <2>3 DEF Resolving
  <2> QED  BY <2>2, <2>4 DEF JobOf, Settling, x
<1>16. JobAdopts(t)
  <2>1. ASSUME NEW k \in 1 .. a, Reacting(t, k), t.jobs[k].handler.kind \in Settling,
               Unused(t, t.jobs[k].handler.r)
        PROVE  JobFits(t, k)
    <3>1. t.jobs[k] = s.jobs[k] /\ Reacting(s, k)
      BY <1>3, <1>8, <2>1
    <3>2. JobFits(s, k) /\ AdoptsOf(t, s.jobs[k].handler.r) = AdoptsOf(s, s.jobs[k].handler.r)
      BY <1>3, <1>5, <1>6, <2>1, <3>1 DEF JobAdopts
    <3>3. t.promises[OwnerOf(s, s.jobs[k].id)] = s.promises[OwnerOf(s, s.jobs[k].id)]
      BY <1>2, <1>13, <3>1
    <3> QED  BY <1>2, <3>1, <3>2, <3>3, Zenon DEF JobFits
  <2>2. ASSUME NEW i \in 1 .. b, t.jobs[a + i].handler.kind \in Settling,
               Unused(t, t.jobs[a + i].handler.r)
        PROVE  JobFits(t, a + i)
    <3>1. PICK x : x = ListOf(s, p)[i]
      OBVIOUS
    <3>2. JobOf(t.jobs[a + i], x, st, v) /\ OwnerOf(s, x.id) = p
      BY <1>3, <1>14, <3>1
    <3>3. /\ x.onF.kind \in Settling /\ t.jobs[a + i].handler.r = x.onF.r
          /\ t.jobs[a + i].handler.kind = "reject" <=> st = "rejected"
      BY <1>15, <2>2, <3>1
    <3>4. AdoptsOf(s, x.onF.r) = p
      BY <1>1, <1>3, <1>5, <1>6, <2>2, <3>1, <3>3 DEF ListAdopts
    <3>5. OwnerOf(t, t.jobs[a + i].id) = p /\ t.jobs[a + i].arg = v
      BY <1>2, <3>2 DEF JobOf
    <3>6. AdoptsOf(t, t.jobs[a + i].handler.r) = p
      BY <1>5, <2>2, <3>3, <3>4
    <3> QED  BY <1>2, <3>3, <3>5, <3>6, Zenon DEF JobFits
  <2>3. ASSUME NEW k \in DOMAIN t.jobs, Reacting(t, k), t.jobs[k].handler.kind \in Settling,
               Unused(t, t.jobs[k].handler.r)
        PROVE  JobFits(t, k)
    <3>1. CASE k \in 1 .. a
      BY <2>1, <2>3, <3>1
    <3>2. ASSUME NEW i \in 1 .. b, k = a + i  PROVE JobFits(t, k)
      BY <2>2, <2>3, <3>2
    <3> QED  BY <1>7, <3>1, <3>2
  <2> QED  BY <2>3, Zenon DEF JobAdopts
<1>17. Public(t, pub)
  <2>1. \A x \in pub : Unused(t, x) => AdoptsOf(t, x) = 0
    BY <1>5, <1>6 DEF Public
  <2>2. ASSUME NEW z \in DOMAIN t.promises, NEW k \in DOMAIN ListOf(t, z), Unused(t, ListOf(t, z)[k].cap)
        PROVE  AdoptsOf(t, ListOf(t, z)[k].cap) = 0
    <3>1. z \in 1 .. n /\ z # p
      BY <1>1, <1>2, <2>2
    <3>2. ListOf(t, z) = ListOf(s, z)
      BY <1>2, <3>1
    <3> QED  BY <1>1, <1>5, <1>6, <2>2, <3>1, <3>2 DEF Public
  <2>3. ASSUME NEW k \in DOMAIN t.jobs, Reacting(t, k), Unused(t, t.jobs[k].cap)
        PROVE  AdoptsOf(t, t.jobs[k].cap) = 0
    <3>1. CASE k \in 1 .. a
      BY <1>3, <1>5, <1>6, <1>8, <2>3, <3>1 DEF Public
    <3>2. ASSUME NEW i \in 1 .. b, k = a + i  PROVE AdoptsOf(t, t.jobs[k].cap) = 0
      <4>1. t.jobs[k].cap = ListOf(s, p)[i].cap
        BY <1>3, <3>2 DEF JobOf
      <4>2. Unused(s, ListOf(s, p)[i].cap)
        BY <1>5, <2>3, <4>1, Zenon
      <4>3. p \in DOMAIN s.promises /\ i \in DOMAIN ListOf(s, p)
        BY <1>1, <1>3, <3>2
      <4>4. AdoptsOf(s, ListOf(s, p)[i].cap) = 0
        BY <1>6, <4>2, <4>3, Zenon DEF Public
      <4> QED  BY <1>5, <2>3, <4>1, <4>4, Zenon
    <3> QED  BY <1>7, <3>1, <3>2
  <2> QED  BY <2>1, <2>2, <2>3, Zenon DEF Public
<1>18. ASSUME NEW z \in 1 .. n, NEW q, q = s.promises[z].adopts, q # 0
       PROVE  q \in 1 .. n /\ Follows(t, z, q)
  <2>1. CASE z = p
    <3>1. q \in 1 .. n /\ s.promises[q].state = st /\ s.promises[q].result = v
      BY <1>1, <1>18, <2>1 DEF SettledLike
    <3>2. q # p /\ st # "pending"
      BY <3>1
    <3>3. t.promises[q] = s.promises[q]
      BY <1>2, <3>1, <3>2
    <3> QED  BY <1>2, <2>1, <3>1, <3>2, <3>3, Zenon DEF Follows
  <2>2. CASE z # p
    <3>1. z # hole
      BY <2>2
    <3>2. q \in 1 .. n /\ Follows(s, z, q)
      BY <1>1, <1>6, <1>18, <3>1 DEF AllFollow
    <3>3. ASSUME NEW k \in 1 .. a, Adopting(s, k), s.jobs[k].promise = z  PROVE Follows(t, z, q)
      <4>1. k \in DOMAIN t.jobs /\ Adopting(t, k) /\ t.jobs[k].promise = z
        BY <1>3, <1>8, <3>3
      <4> QED  BY <4>1, Zenon DEF Follows
    <3>4. ASSUME NEW x \in DOMAIN s.resolvers, Unused(s, x), s.resolvers[x].promise = z
          PROVE  x \in DOMAIN t.resolvers /\ Unused(t, x) /\ t.resolvers[x].promise = z
      <4>1. x # r
        BY <2>2, <3>4
      <4> QED  BY <1>4, <3>4, <4>1
    <3>5. ASSUME NEW x \in DOMAIN s.resolvers, Unused(s, x), s.resolvers[x].promise = z,
                 NEW k \in DOMAIN ListOf(s, q), ListOf(s, q)[k].onF = Resolving("resolve", x)
          PROVE  Follows(t, z, q)
      <4>1. CASE q # p
        <5>1. ListOf(t, q) = ListOf(s, q)
          BY <1>2, <3>2, <4>1
        <5> QED  BY <3>4, <3>5, <5>1, Zenon DEF Follows
      <4>2. CASE q = p
        <5>1. k \in 1 .. b /\ Paired(ListOf(s, p)[k]) /\ JobOf(t.jobs[a + k], ListOf(s, p)[k], st, v)
          BY <1>1, <1>3, <1>6, <3>5, <4>2 DEF ListAdopts
        <5>2. PICK y : y = ListOf(s, p)[k]
          OBVIOUS
        <5>3. y.onF.kind = "resolve" /\ y.onF.r = x
          BY <3>5, <4>2, <5>2 DEF Resolving
        <5>4. y.onR.kind = "reject" /\ y.onR.r = x
          BY <5>1, <5>2, <5>3 DEF Paired, Resolving, Settling
        <5>5. t.jobs[a + k].handler.kind \in Settling /\ t.jobs[a + k].handler.r = x
          BY <5>1, <5>2, <5>3, <5>4 DEF JobOf, Settling
        <5>6. a + k \in DOMAIN t.jobs /\ Reacting(t, a + k)
          BY <1>3, <1>9, <5>1
        <5> QED  BY <3>4, <3>5, <5>5, <5>6, Zenon DEF Follows
      <4> QED  BY <4>1, <4>2
    <3>6. ASSUME NEW x \in DOMAIN s.resolvers, Unused(s, x), s.resolvers[x].promise = z,
                 NEW k \in 1 .. a, Reacting(s, k), s.jobs[k].handler.kind \in Settling,
                 s.jobs[k].handler.r = x
          PROVE  Follows(t, z, q)
      <4>1. k \in DOMAIN t.jobs /\ Reacting(t, k) /\ t.jobs[k] = s.jobs[k]
        BY <1>3, <1>8, <3>6
      <4> QED  BY <3>4, <3>6, <4>1, Zenon DEF Follows
    <3>7. ASSUME s.promises[q].state # "pending", s.promises[z].state = s.promises[q].state,
                 s.promises[z].result = s.promises[q].result
          PROVE  Follows(t, z, q)
      <4>1. q # p
        BY <3>7
      <4>2. t.promises[q] = s.promises[q] /\ t.promises[z] = s.promises[z]
        BY <1>2, <2>2, <3>2, <4>1
      <4> QED  BY <3>7, <4>2, Zenon DEF Follows
    <3> QED  BY <1>3, <3>2, <3>3, <3>5, <3>6, <3>7, Zenon DEF Follows
  <2> QED  BY <2>1, <2>2
<1>19. AllFollow(t, 0)
  BY <1>1, <1>2, <1>18, Zenon DEF AllFollow
<1> QED  BY <1>10, <1>11, <1>12, <1>16, <1>17, <1>19, Zenon DEF Following

-----------------------------------------------------------------------------
(* A promise is resolved with a thenable.                                  *)

AdoptEffect(s, t, r, p, v, a) ==
  /\ t.reactions = s.reactions /\ FunctionsUsed(s, t, r)
  /\ DOMAIN t.promises = DOMAIN s.promises
  /\ \A z \in DOMAIN s.promises : z # p => t.promises[z] = s.promises[z]
  /\ t.promises[p].state = s.promises[p].state /\ t.promises[p].result = s.promises[p].result
  /\ t.promises[p].list = s.promises[p].list
  /\ t.promises[p].adopts = IF IsPromise(v) THEN v ELSE 0
  /\ JobsGrow(s, t, a, 1)
  /\ t.jobs[a + 1].kind = "thenable" /\ t.jobs[a + 1].promise = p /\ t.jobs[a + 1].arg = v

(* js_promise_resolve_function_create queues a thenable job: the promise
   follows through that job, and its used functions are of no account. *)
LEMMA AdoptRight ==
  ASSUME NEW n \in Nat, NEW m \in Nat, NEW s, NEW t, GoodHeap(s, n, m), Ordered(s),
         NEW pub, Following(s, pub, 0),
         NEW r, Unused(s, r), NEW p, s.resolvers[r].promise = p, NEW v \in ValuesOf(n),
         NEW a \in Nat, AdoptEffect(s, t, r, p, v, a)
  PROVE  Ordered(t) /\ Following(t, pub, 0)
<1>1. /\ DOMAIN s.promises = 1 .. n /\ DOMAIN t.promises = 1 .. n
      /\ \A i \in DOMAIN s.reactions : OwnerOf(s, i) \in 1 .. n
      /\ \A x \in DOMAIN s.resolvers : s.resolvers[x].promise \in 1 .. n
      /\ \A k : Adopting(s, k) => s.jobs[k].promise \in 1 .. n
  <2>1. Owned(s, n, m)
    BY HeapOwned
  <2>2. DOMAIN t.promises = DOMAIN s.promises
    BY DEF AdoptEffect
  <2> QED  BY <2>1, <2>2, Zenon DEF Owned, OwnerOf
<1>2. p \in 1 .. n
  BY <1>1 DEF Unused
<1>3. /\ t.reactions = s.reactions /\ \A i : OwnerOf(t, i) = OwnerOf(s, i)
      /\ \A z \in 1 .. n : /\ t.promises[z].state = s.promises[z].state
                           /\ t.promises[z].result = s.promises[z].result
                           /\ ListOf(t, z) = ListOf(s, z)
      /\ \A z \in 1 .. n : z # p => t.promises[z].adopts = s.promises[z].adopts
  BY <1>1, <1>2 DEF AdoptEffect, ListOf, OwnerOf
<1>4. /\ DOMAIN s.jobs = 1 .. a /\ DOMAIN t.jobs = 1 .. a + 1
      /\ \A k \in 1 .. a : t.jobs[k] = s.jobs[k]
      /\ t.jobs[a + 1].kind = "thenable" /\ t.jobs[a + 1].promise = p /\ t.jobs[a + 1].arg = v
      /\ t.promises[p].adopts = IF IsPromise(v) THEN v ELSE 0
  BY DEF AdoptEffect, JobsGrow
<1>5. /\ DOMAIN t.resolvers = DOMAIN s.resolvers
      /\ \A x \in DOMAIN s.resolvers : t.resolvers[x].promise = s.resolvers[x].promise
      /\ \A x : Unused(t, x) <=> Unused(s, x) /\ x # r
      /\ \A x : Unused(s, x) => x \in DOMAIN s.resolvers
  BY DEF AdoptEffect, FunctionsUsed, Unused
<1>6. OneSettles(s)
  BY DEF GoodHeap
<1>7. \A x : Unused(t, x) => Unused(s, x) /\ AdoptsOf(t, x) = AdoptsOf(s, x)
  <2>1. ASSUME NEW x, Unused(t, x)  PROVE Unused(s, x) /\ s.resolvers[x].promise # p
    BY <1>5, <1>6, <2>1 DEF OneSettles
  <2> QED  BY <1>1, <1>3, <1>5, <2>1 DEF AdoptsOf
<1>8. \A k \in 1 .. a + 1 : k \in 1 .. a \/ k = a + 1
  OBVIOUS
<1>9. /\ 1 .. a \subseteq 1 .. a + 1 /\ a + 1 \in 1 .. a + 1
  OBVIOUS
<1>10. /\ \A k : Reacting(t, k) <=> Reacting(s, k)
       /\ \A k : Reacting(s, k) => t.jobs[k] = s.jobs[k]
       /\ \A k : Adopting(s, k) => Adopting(t, k) /\ t.jobs[k] = s.jobs[k]
       /\ \A k : Adopting(t, k) => Adopting(s, k) \/ k = a + 1
       /\ Adopting(t, a + 1)
  BY <1>4, <1>8, <1>9 DEF Reacting, Adopting
<1>11. \A k : Reacting(t, k) => k \in DOMAIN s.jobs /\ k \in DOMAIN t.jobs
  BY <1>10 DEF Reacting
<1>12. /\ ListsRight(s) /\ JobsRight(s) /\ Placed(s) /\ RanRight(s)
       /\ ResultsRight(s) /\ AdoptJobs(s) /\ ListAdopts(s) /\ JobAdopts(s)
       /\ Public(s, pub) /\ AllFollow(s, 0)
  BY DEF Ordered, Following
<1>13. ListsRight(t)
  BY <1>1, <1>3, <1>12 DEF ListsRight
<1>14. \A k : Reacting(s, k) => OwnerOf(s, s.jobs[k].id) \in 1 .. n
  BY <1>1, <1>12 DEF JobsRight, Reacting
<1>15. JobsRight(t)
  <2>1. ASSUME NEW k \in DOMAIN t.jobs, Reacting(t, k)
        PROVE  /\ t.jobs[k].id \in DOMAIN t.reactions /\ t.reactions[t.jobs[k].id].ran = 0
               /\ t.promises[OwnerOf(t, t.jobs[k].id)].state # "pending"
    <3>1. k \in DOMAIN s.jobs /\ Reacting(s, k) /\ t.jobs[k] = s.jobs[k]
      BY <1>10, <1>11, <2>1
    <3> QED  BY <1>3, <1>12, <1>14, <3>1 DEF JobsRight
  <2>2. ASSUME NEW k \in DOMAIN t.jobs, Reacting(t, k), NEW l \in DOMAIN t.jobs, Reacting(t, l), k < l,
               OwnerOf(t, t.jobs[k].id) = OwnerOf(t, t.jobs[l].id)
        PROVE  t.jobs[k].id < t.jobs[l].id
    <3>1. /\ k \in DOMAIN s.jobs /\ Reacting(s, k) /\ t.jobs[k] = s.jobs[k]
          /\ l \in DOMAIN s.jobs /\ Reacting(s, l) /\ t.jobs[l] = s.jobs[l]
      BY <1>10, <1>11, <2>2
    <3> QED  BY <1>3, <1>12, <2>2, <3>1 DEF JobsRight
  <2> QED  BY <2>1, <2>2, Zenon DEF JobsRight
<1>16. ASSUME NEW i \in DOMAIN t.reactions  PROVE PlaceOf(t, i)
  <2>1. /\ PlaceOf(s, i) /\ OwnerOf(t, i) = OwnerOf(s, i) /\ OwnerOf(s, i) \in 1 .. n
        /\ t.reactions[i] = s.reactions[i]
    BY <1>1, <1>3, <1>12, <1>16 DEF Placed
  <2>2. /\ t.promises[OwnerOf(s, i)].state = s.promises[OwnerOf(s, i)].state
        /\ ListOf(t, OwnerOf(s, i)) = ListOf(s, OwnerOf(s, i))
    BY <1>3, <2>1
  <2>3. \A k \in DOMAIN s.jobs : Reacting(s, k) /\ s.jobs[k].id = i =>
          k \in DOMAIN t.jobs /\ Reacting(t, k) /\ t.jobs[k].id = i
    BY <1>10, <1>11, Zenon
  <2> QED  BY <2>1, <2>2, <2>3, Zenon DEF PlaceOf
<1>17. RanRight(t)
  BY <1>3, <1>12, Zenon DEF RanRight
<1>18. Ordered(t)
  BY <1>13, <1>15, <1>16, <1>17 DEF Ordered, Placed
<1>19. ResultsRight(t)
  BY <1>1, <1>3, <1>12 DEF ResultsRight
<1>20. AdoptJobs(t)
  <2>1. ASSUME NEW k \in DOMAIN t.jobs, Adopting(t, k)
        PROVE  t.promises[t.jobs[k].promise].adopts = IF IsPromise(t.jobs[k].arg) THEN t.jobs[k].arg ELSE 0
    <3>1. CASE k = a + 1
      BY <1>4, <3>1, Zenon
    <3>2. CASE Adopting(s, k)
      <4>1. s.jobs[k].promise # p /\ s.jobs[k].promise \in 1 .. n /\ t.jobs[k] = s.jobs[k]
        BY <1>1, <1>6, <1>10, <3>2 DEF OneSettles
      <4>2. k \in DOMAIN s.jobs
        BY <3>2 DEF Adopting
      <4>3. s.promises[s.jobs[k].promise].adopts = IF IsPromise(s.jobs[k].arg) THEN s.jobs[k].arg ELSE 0
        BY <1>12, <3>2, <4>2, Zenon DEF AdoptJobs
      <4>4. t.promises[s.jobs[k].promise].adopts = s.promises[s.jobs[k].promise].adopts
        BY <1>3, <4>1, Zenon
      <4> QED  BY <4>1, <4>3, <4>4, Zenon
    <3> QED  BY <1>10, <2>1, <3>1, <3>2, Zenon
  <2> QED  BY <2>1, Zenon DEF AdoptJobs
<1>21. ListAdopts(t)
  BY <1>1, <1>3, <1>7, <1>12 DEF ListAdopts
<1>22. JobAdopts(t)
  <2>1. ASSUME NEW k \in DOMAIN t.jobs, Reacting(t, k), t.jobs[k].handler.kind \in Settling,
               Unused(t, t.jobs[k].handler.r)
        PROVE  JobFits(t, k)
    <3>1. k \in DOMAIN s.jobs /\ Reacting(s, k) /\ t.jobs[k] = s.jobs[k]
      BY <1>10, <1>11, <2>1
    <3>2. JobFits(s, k) /\ AdoptsOf(t, s.jobs[k].handler.r) = AdoptsOf(s, s.jobs[k].handler.r)
      BY <1>7, <1>12, <2>1, <3>1 DEF JobAdopts
    <3>3. /\ t.promises[OwnerOf(s, s.jobs[k].id)].state = s.promises[OwnerOf(s, s.jobs[k].id)].state
          /\ t.promises[OwnerOf(s, s.jobs[k].id)].result = s.promises[OwnerOf(s, s.jobs[k].id)].result
      BY <1>3, <1>14, <3>1
    <3> QED  BY <1>3, <3>1, <3>2, <3>3, Zenon DEF JobFits
  <2> QED  BY <2>1, Zenon DEF JobAdopts
<1>23. Public(t, pub)
  <2>1. \A x \in pub : Unused(t, x) => AdoptsOf(t, x) = 0
    BY <1>7, <1>12 DEF Public
  <2>2. \A z \in DOMAIN t.promises : \A k \in DOMAIN ListOf(t, z) :
          Unused(t, ListOf(t, z)[k].cap) => AdoptsOf(t, ListOf(t, z)[k].cap) = 0
    BY <1>1, <1>3, <1>7, <1>12 DEF Public
  <2>3. \A k \in DOMAIN t.jobs : Reacting(t, k) /\ Unused(t, t.jobs[k].cap) => AdoptsOf(t, t.jobs[k].cap) = 0
    BY <1>7, <1>10, <1>11, <1>12 DEF Public
  <2> QED  BY <2>1, <2>2, <2>3, Zenon DEF Public
<1>24. ASSUME NEW z \in 1 .. n, z # p, NEW q, q = s.promises[z].adopts, q # 0
       PROVE  q \in 1 .. n /\ Follows(t, z, q)
  <2>1. z # 0
    OBVIOUS
  <2>2. q \in 1 .. n /\ Follows(s, z, q)
    BY <1>1, <1>12, <1>24, <2>1 DEF AllFollow
  <2>3. ASSUME NEW k \in DOMAIN s.jobs, Adopting(s, k), s.jobs[k].promise = z  PROVE Follows(t, z, q)
    <3>1. k \in DOMAIN t.jobs /\ Adopting(t, k) /\ t.jobs[k].promise = z
      BY <1>10, <2>3 DEF Adopting
    <3> QED  BY <3>1, Zenon DEF Follows
  <2>4. ASSUME NEW x \in DOMAIN s.resolvers, Unused(s, x), s.resolvers[x].promise = z
        PROVE  x \in DOMAIN t.resolvers /\ Unused(t, x) /\ t.resolvers[x].promise = z
    BY <1>5, <1>24, <2>4
  <2>5. ASSUME NEW x \in DOMAIN s.resolvers, Unused(s, x), s.resolvers[x].promise = z,
               NEW k \in DOMAIN ListOf(s, q), ListOf(s, q)[k].onF = Resolving("resolve", x)
        PROVE  Follows(t, z, q)
    <3>1. ListOf(t, q) = ListOf(s, q)
      BY <1>3, <2>2
    <3> QED  BY <2>4, <2>5, <3>1, Zenon DEF Follows
  <2>6. ASSUME NEW x \in DOMAIN s.resolvers, Unused(s, x), s.resolvers[x].promise = z,
               NEW k \in DOMAIN s.jobs, Reacting(s, k), s.jobs[k].handler.kind \in Settling,
               s.jobs[k].handler.r = x
        PROVE  Follows(t, z, q)
    <3>1. k \in DOMAIN t.jobs /\ Reacting(t, k) /\ t.jobs[k] = s.jobs[k]
      BY <1>10, <1>11, <2>6
    <3> QED  BY <2>4, <2>6, <3>1, Zenon DEF Follows
  <2>7. ASSUME s.promises[q].state # "pending", s.promises[z].state = s.promises[q].state,
               s.promises[z].result = s.promises[q].result
        PROVE  Follows(t, z, q)
    BY <1>3, <2>2, <2>7, Zenon DEF Follows
  <2> QED  BY <2>2, <2>3, <2>5, <2>6, <2>7, Zenon DEF Follows
<1>25. AllFollow(t, 0)
  <2>1. ASSUME NEW z \in 1 .. n, t.promises[z].adopts # 0
        PROVE  t.promises[z].adopts \in 1 .. n /\ Follows(t, z, t.promises[z].adopts)
    <3>1. CASE z = p
      <4>1. t.promises[p].adopts = v /\ IsPromise(v)
        BY <1>4, <2>1, <3>1
      <4>2. v \in 1 .. n
        BY <4>1 DEF IsPromise, ValuesOf, Values, Plain, Thenable, BadThenable, TypeErr
      <4>3. a + 1 \in DOMAIN t.jobs /\ Adopting(t, a + 1) /\ t.jobs[a + 1].promise = z
        BY <1>4, <1>9, <1>10, <3>1
      <4> QED  BY <3>1, <4>1, <4>2, <4>3, Zenon DEF Follows
    <3>2. CASE z # p
      BY <1>3, <1>24, <2>1, <3>2, Zenon
    <3> QED  BY <3>1, <3>2
  <2> QED  BY <1>1, <2>1, Zenon DEF AllFollow
<1> QED  BY <1>18, <1>19, <1>20, <1>21, <1>22, <1>23, <1>25, Zenon DEF Following

-----------------------------------------------------------------------------
(* js_promise_resolve_function_call does one or the other.                 *)

(* What Queued makes of the queue. *)
JoinedAs(u, w, z, a, b) ==
  /\ a = Len(u) /\ b = Len(w) /\ DOMAIN u = 1 .. a /\ DOMAIN w = 1 .. b
  /\ DOMAIN z = 1 .. a + b
  /\ \A k \in 1 .. a : z[k] = u[k]
  /\ \A i \in 1 .. b : z[a + i] = w[i]
(* What is in the queue after jobs were added to it. *)
LEMMA QueuedElements ==
  ASSUME NEW S, NEW u \in Seq(S), NEW w \in Seq(S)
  PROVE  \E a, b \in Nat : JoinedAs(u, w, Queued(u, w), a, b)
<1>1. PICK a \in Nat, b \in Nat :
        a = Len(u) /\ b = Len(w) /\ DOMAIN u = 1 .. a /\ DOMAIN w = 1 .. b
  OBVIOUS
<1> DEFINE both == u \o w
<1>2. /\ DOMAIN both = 1 .. a + b
      /\ \A k \in 1 .. a : both[k] = u[k]
      /\ \A i \in 1 .. b : both[a + i] = w[i]
  BY <1>1
<1> QED  BY <1>1, <1>2 DEF Queued, JoinedAs

(* Using a pair of functions changes that pair only. *)
LEMMA SpentEffect ==
  ASSUME NEW n \in Nat, NEW m \in Nat, NEW s, GoodHeap(s, n, m), NEW r \in 1 .. m
  PROVE  /\ FunctionsUsed(s, Spent(s, r), r)
         /\ Spent(s, r).promises = s.promises /\ Spent(s, r).jobs = s.jobs
         /\ Spent(s, r).reactions = s.reactions
<1> DEFINE t == Spent(s, r)
           x == [s.resolvers[r] EXCEPT !.done = TRUE]
<1>1. Shaped(s, n, m)
  BY DEF GoodHeap
<1>2. DOMAIN s.resolvers = 1 .. m /\ s.resolvers[r] \in PairsOf(n)
  BY <1>1, HeapFields
<1>3. x.promise = s.resolvers[r].promise /\ x.done = TRUE
  BY <1>2 DEF PairsOf
<1>4. t = [s EXCEPT !.resolvers[r] = x]
  BY DEF Spent
<1> HIDE DEF x, t
<1>5. /\ t.resolvers = [s.resolvers EXCEPT ![r] = x] /\ t.promises = s.promises /\ t.jobs = s.jobs
      /\ t.reactions = s.reactions
  BY <1>1, <1>4 DEF Shaped, HeapsOf
<1>6. /\ DOMAIN t.resolvers = 1 .. m
      /\ \A q \in 1 .. m : t.resolvers[q] = IF q = r THEN x ELSE s.resolvers[q]
  BY <1>2, <1>5
<1>7. \A q \in DOMAIN s.resolvers : t.resolvers[q].promise = s.resolvers[q].promise
  BY <1>2, <1>3, <1>6
<1>8. \A q : Unused(t, q) <=> Unused(s, q) /\ q # r
  BY <1>2, <1>3, <1>6 DEF Unused
<1> QED  BY <1>2, <1>5, <1>6, <1>7, <1>8 DEF FunctionsUsed, t

AfterState(reject) == IF reject THEN "rejected" ELSE "fulfilled"
(* The job of a reaction has its number, its functions and the result. *)
LEMMA ReactionJobIs ==
  ASSUME NEW x, NEW reject \in BOOLEAN, NEW v
  PROVE  JobOf(ReactionJob(x, reject, v), x, AfterState(reject), v)
<1>1. CASE reject = TRUE
  BY <1>1 DEF JobOf, ReactionJob, AfterState
<1>2. CASE reject = FALSE
  BY <1>2 DEF JobOf, ReactionJob, AfterState
<1> QED  BY <1>1, <1>2

(* What Settled does to the heap. *)
SettledTo(s, t, p, st, v) ==
  /\ t.reactions = s.reactions /\ t.resolvers = s.resolvers
  /\ DOMAIN t.promises = DOMAIN s.promises
  /\ \A z \in DOMAIN s.promises : z # p => t.promises[z] = s.promises[z]
  /\ t.promises[p].state = st /\ t.promises[p].result = v
  /\ t.promises[p].list = <<>> /\ t.promises[p].adopts = s.promises[p].adopts
  /\ \E a, b \in Nat :
       /\ JobsGrow(s, t, a, b) /\ DOMAIN ListOf(s, p) = 1 .. b
       /\ \A i \in 1 .. b : JobOf(t.jobs[a + i], ListOf(s, p)[i], st, v)
(* What fulfill_or_reject_promise leaves: the promise with its state and
   an empty list, and one job more for each reaction of that list. *)
LEMMA SettledEffect ==
  ASSUME NEW n \in Nat, NEW m \in Nat, NEW s, GoodHeap(s, n, m), NEW p \in 1 .. n,
         s.promises[p].state = "pending", NEW v \in ValuesOf(n), NEW reject \in BOOLEAN,
         NEW t, t = Settled(s, p, v, reject)
  PROVE  SettledTo(s, t, p, AfterState(reject), v)
<1> DEFINE q == [s.promises[p] EXCEPT !.state = AfterState(reject), !.result = v, !.list = <<>>]
           new == [i \in DOMAIN ListOf(s, p) |-> ReactionJob(ListOf(s, p)[i], reject, v)]
           reported == IF reject /\ Reports(s, p) THEN s.unhandled \cup {p} ELSE s.unhandled
<1>1. Shaped(s, n, m)
  BY DEF GoodHeap
<1>2. /\ s.jobs \in Seq(JobsOf(n, m)) /\ DOMAIN s.promises = 1 .. n
      /\ s.promises[p] \in PromisesOf(n, m)
  BY <1>1, HeapFields
<1>3. t = [s EXCEPT !.promises[p] = q, !.unhandled = reported, !.jobs = Queued(s.jobs, new)]
  BY DEF Settled, ListOf, AfterState
<1>4. /\ q.state = AfterState(reject) /\ q.result = v /\ q.list = <<>>
      /\ q.adopts = s.promises[p].adopts
  BY <1>2 DEF PromisesOf
<1>5. PICK b \in Nat : DOMAIN ListOf(s, p) = 1 .. b
  <2>1. ListOf(s, p) \in Seq(ReactionsOf(m))
    BY <1>2 DEF PromisesOf, ListOf
  <2> QED  BY <2>1
<1>6. new \in Seq(JobsOf(n, m)) /\ DOMAIN new = 1 .. b
  <2>1. PICK l \in Seq(ReactionsOf(m)) : l = ListOf(s, p)
    BY <1>2 DEF PromisesOf, ListOf
  <2>2. new = [i \in 1 .. b |-> ReactionJob(l[i], reject, v)]
    BY <1>5, <2>1
  <2>3. \A i \in 1 .. b : l[i] \in ReactionsOf(m)
    BY <1>5, <2>1
  <2>4. \A i \in 1 .. b : ReactionJob(l[i], reject, v) \in JobsOf(n, m)
    BY <2>3, ReactionJobShape
  <2> QED  BY <2>2, <2>4, SMTT(20)
<1>7. \A i \in 1 .. b : JobOf(new[i], ListOf(s, p)[i], AfterState(reject), v)
  BY <1>5, ReactionJobIs
<1> HIDE DEF q, new, reported
<1>8. /\ t.promises = [s.promises EXCEPT ![p] = q] /\ t.resolvers = s.resolvers
      /\ t.jobs = Queued(s.jobs, new) /\ t.reactions = s.reactions
  BY <1>1, <1>3 DEF Shaped, HeapsOf
<1>9. /\ DOMAIN t.promises = 1 .. n
      /\ \A z \in 1 .. n : t.promises[z] = IF z = p THEN q ELSE s.promises[z]
  BY <1>2, <1>8
<1>10. PICK a \in Nat, c \in Nat : JoinedAs(s.jobs, new, t.jobs, a, c)
  <2>1. \E a, c \in Nat : JoinedAs(s.jobs, new, Queued(s.jobs, new), a, c)
    BY <1>2, <1>6, <1>8, QueuedElements
  <2>2. t.jobs = Queued(s.jobs, new)
    BY <1>6, <1>8
  <2> QED  BY <2>1, <2>2
<1>11. c = b
  BY <1>6, <1>10 DEF JoinedAs
<1>12. JobsGrow(s, t, a, b) /\ \A i \in 1 .. b : t.jobs[a + i] = new[i]
  BY <1>10, <1>11, Zenon DEF JobsGrow, JoinedAs
<1>13. \A i \in 1 .. b : JobOf(t.jobs[a + i], ListOf(s, p)[i], AfterState(reject), v)
  BY <1>7, <1>12, Zenon
<1>14. /\ t.promises[p].state = AfterState(reject) /\ t.promises[p].result = v
       /\ t.promises[p].list = <<>> /\ t.promises[p].adopts = s.promises[p].adopts
  BY <1>4, <1>9
<1> QED  BY <1>2, <1>5, <1>8, <1>9, <1>12, <1>13, <1>14, Zenon DEF SettledTo

(* What Adopted does to it. *)
AdoptedTo(s, t, p, v, e) ==
  /\ t.reactions = s.reactions /\ t.resolvers = s.resolvers
  /\ DOMAIN t.promises = DOMAIN s.promises
  /\ \A z \in DOMAIN s.promises : z # p => t.promises[z] = s.promises[z]
  /\ t.promises[p].state = s.promises[p].state /\ t.promises[p].result = s.promises[p].result
  /\ t.promises[p].list = s.promises[p].list /\ t.promises[p].adopts = e
  /\ \E a \in Nat :
       /\ JobsGrow(s, t, a, 1)
       /\ t.jobs[a + 1].kind = "thenable" /\ t.jobs[a + 1].promise = p /\ t.jobs[a + 1].arg = v
(* What resolving with a thenable leaves: one job more, of that promise. *)
LEMMA AdoptedEffect ==
  ASSUME NEW n \in Nat, NEW m \in Nat, NEW s, GoodHeap(s, n, m), NEW p \in 1 .. n,
         NEW v \in ValuesOf(n), NEW e \in Nat, NEW t, t = Adopted(s, p, v, e)
  PROVE  AdoptedTo(s, t, p, v, e)
<1> DEFINE q == [s.promises[p] EXCEPT !.adopts = e]
           j == ThenableJob(p, v)
<1>1. Shaped(s, n, m)
  BY DEF GoodHeap
<1>2. /\ s.jobs \in Seq(JobsOf(n, m)) /\ DOMAIN s.promises = 1 .. n
      /\ s.promises[p] \in PromisesOf(n, m)
  BY <1>1, HeapFields
<1>3. j \in JobsOf(n, m) /\ j.kind = "thenable" /\ j.promise = p /\ j.arg = v
  BY DEF ThenableJob, JobsOf
<1>4. t = [s EXCEPT !.jobs = Queued(s.jobs, <<j>>), !.promises[p] = q]
  BY DEF Adopted
<1>5. /\ q.state = s.promises[p].state /\ q.result = s.promises[p].result
      /\ q.list = s.promises[p].list /\ q.adopts = e
  BY <1>2 DEF PromisesOf
<1> HIDE DEF q, j
<1>6. /\ t.promises = [s.promises EXCEPT ![p] = q] /\ t.resolvers = s.resolvers
      /\ t.jobs = Queued(s.jobs, <<j>>) /\ t.reactions = s.reactions
  BY <1>1, <1>4 DEF Shaped, HeapsOf
<1>7. /\ DOMAIN t.promises = 1 .. n
      /\ \A z \in 1 .. n : t.promises[z] = IF z = p THEN q ELSE s.promises[z]
  BY <1>2, <1>6
<1>8. <<j>> \in Seq(JobsOf(n, m)) /\ Len(<<j>>) = 1 /\ <<j>>[1] = j
  BY <1>3
<1>9. PICK a \in Nat, c \in Nat : JoinedAs(s.jobs, <<j>>, t.jobs, a, c)
  <2>1. \E a, c \in Nat : JoinedAs(s.jobs, <<j>>, Queued(s.jobs, <<j>>), a, c)
    BY <1>2, <1>6, <1>8, QueuedElements
  <2>2. t.jobs = Queued(s.jobs, <<j>>)
    BY <1>6, <1>8
  <2> QED  BY <2>1, <2>2
<1>10. c = 1 /\ 1 \in 1 .. c
  BY <1>8, <1>9 DEF JoinedAs
<1>11. JobsGrow(s, t, a, 1) /\ t.jobs[a + 1] = j
  BY <1>8, <1>9, <1>10, Zenon DEF JobsGrow, JoinedAs
<1> QED  BY <1>2, <1>3, <1>5, <1>6, <1>7, <1>11 DEF AdoptedTo

(* The three things that unused functions do. *)
ResolvedAs(s, r, v, reject, t) ==
  \/ (reject \/ v \in {Plain, TypeErr}) /\ t = Settled(Spent(s, r), PromiseOf(s, r), v, reject)
  \/ ~reject /\ v \notin {Plain, TypeErr}
     /\ t = Settled(Spent(s, r), PromiseOf(s, r), TypeErr, TRUE)
  \/ ~reject /\ v \notin {Plain, TypeErr}
     /\ t = Adopted(Spent(s, r), PromiseOf(s, r), v, IF IsPromise(v) THEN v ELSE 0)
(* js_promise_resolve_func: nothing for used functions; otherwise the
   promise is settled, or gets a thenable job. *)
LEMMA ResolvedCases ==
  ASSUME NEW n \in Nat, NEW m \in Nat, NEW s, GoodHeap(s, n, m), NEW r \in 1 .. m,
         NEW v \in ValuesOf(n), NEW reject \in BOOLEAN, Unused(s, r), NEW t, t = Resolved(s, r, v, reject)
  PROVE  ResolvedAs(s, r, v, reject, t)
<1>1. ~Ignored(s, r)
  BY DEF Ignored, Unused
<1>2. PromiseOf(s, r) \in 1 .. n
  BY UsedUp
<1>3. CASE reject = TRUE
  BY <1>1, <1>3 DEF ResolvedAs, Resolved, PromiseOf, Spent
<1>4. CASE reject = FALSE /\ v \in {Plain, TypeErr}
  <2>1. v \notin {PromiseOf(s, r), BadThenable}
    BY <1>2, <1>4 DEF Plain, TypeErr, BadThenable
  <2> QED  BY <1>1, <1>4, <2>1 DEF ResolvedAs, Resolved, PromiseOf, Spent
<1>5. CASE reject = FALSE /\ v \notin {Plain, TypeErr} /\ v \in {PromiseOf(s, r), BadThenable}
  BY <1>1, <1>5 DEF ResolvedAs, Resolved, PromiseOf, Spent
<1>6. CASE reject = FALSE /\ v \notin {Plain, TypeErr} /\ v \notin {PromiseOf(s, r), BadThenable}
  BY <1>1, <1>6 DEF ResolvedAs, Resolved, PromiseOf, Spent, Adopted
<1> QED  BY <1>3, <1>4, <1>5, <1>6

(* Functions of a promise that follows no other, or that are called with
   what the other one has. *)
MaySettle(s, r, v, reject, hole) ==
  /\ Unused(s, r) =>
       \/ AdoptsOf(s, r) = 0 /\ hole = 0
       \/ /\ reject \/ v \in {Plain, TypeErr}
          /\ hole = 0 \/ hole = PromiseOf(s, r)
          /\ SettledLike(s, PromiseOf(s, r), AfterState(reject), v)
  /\ ~Unused(s, r) => hole = 0

(* Settling keeps the reactions and the following in order. *)
LEMMA SettleRight ==
  ASSUME NEW n \in Nat, NEW m \in Nat, NEW s, GoodHeap(s, n, m), Ordered(s),
         NEW pub, NEW hole, Following(s, pub, hole), NEW r \in 1 .. m, Unused(s, r),
         NEW v \in ValuesOf(n), NEW reject \in BOOLEAN, reject \/ v \in {Plain, TypeErr},
         hole = 0 \/ hole = PromiseOf(s, r),
         SettledLike(s, PromiseOf(s, r), AfterState(reject), v),
         NEW t, t = Settled(Spent(s, r), PromiseOf(s, r), v, reject)
  PROVE  Ordered(t) /\ Following(t, pub, 0)
<1>1. PICK p : p = PromiseOf(s, r)
  OBVIOUS
<1>2. PICK u : u = Spent(s, r)
  OBVIOUS
<1>3. PICK st : st = AfterState(reject)
  OBVIOUS
<1>4. /\ GoodHeap(u, n, m) /\ p \in 1 .. n /\ u.promises[p].state = "pending"
  BY <1>1, <1>2, UsedUp
<1>5. /\ FunctionsUsed(s, u, r) /\ u.promises = s.promises /\ u.jobs = s.jobs
      /\ u.reactions = s.reactions
  BY <1>2, SpentEffect
<1>6. /\ st \in {"fulfilled", "rejected"} /\ (st = "fulfilled" => v \in {Plain, TypeErr})
  <2>1. CASE reject = TRUE
    BY <1>3, <2>1 DEF AfterState
  <2>2. CASE reject = FALSE
    BY <1>3, <2>2 DEF AfterState
  <2> QED  BY <2>1, <2>2
<1>7. t = Settled(u, p, v, reject)
  BY <1>1, <1>2
<1>8. SettledTo(u, t, p, st, v)
  BY <1>3, <1>4, <1>7, SettledEffect
<1>9. PICK a \in Nat, b \in Nat :
        /\ JobsGrow(u, t, a, b) /\ DOMAIN ListOf(u, p) = 1 .. b
        /\ \A i \in 1 .. b : JobOf(t.jobs[a + i], ListOf(u, p)[i], st, v)
  BY <1>8, Zenon DEF SettledTo
<1>10. /\ JobsGrow(s, t, a, b) /\ DOMAIN ListOf(s, p) = 1 .. b
       /\ \A i \in 1 .. b : JobOf(t.jobs[a + i], ListOf(s, p)[i], st, v)
  BY <1>5, <1>9, Zenon DEF JobsGrow, ListOf
<1>11. FunctionsUsed(s, t, r)
  BY <1>5, <1>8, Zenon DEF SettledTo, FunctionsUsed, Unused
<1>12. SettleEffect(s, t, r, p, st, v, a, b)
  BY <1>5, <1>8, <1>10, <1>11, Zenon DEF SettledTo, SettleEffect
<1>13. s.promises[p].state = "pending" /\ s.resolvers[r].promise = p
  BY <1>1, <1>4, <1>5 DEF PromiseOf
<1>14. Ordered(t)
  BY <1>4, <1>6, <1>12, <1>13, SettleOrdered
<1>15. SettledLike(s, p, st, v) /\ (hole = 0 \/ hole = p)
  BY <1>1, <1>3
<1>16. Following(t, pub, 0)
  <2>1. SettlesFor(s, r, p, hole, st, v)
    BY <1>6, <1>13, <1>15 DEF SettlesFor
  <2> QED  BY <1>4, <1>6, <1>9, <1>12, <2>1, SettleFollows
<1> QED  BY <1>14, <1>16

(* So does every call of a resolving function that may be made. *)
LEMMA ResolvedRight ==
  ASSUME NEW n \in Nat, NEW m \in Nat, NEW s, GoodHeap(s, n, m), Ordered(s),
         NEW pub, NEW hole, Following(s, pub, hole), NEW r \in 1 .. m,
         NEW v \in ValuesOf(n), NEW reject \in BOOLEAN, MaySettle(s, r, v, reject, hole),
         NEW t, t = Resolved(s, r, v, reject)
  PROVE  Ordered(t) /\ Following(t, pub, 0)
<1>1. CASE ~Unused(s, r)
  <2>1. s.resolvers[r].done \in BOOLEAN /\ DOMAIN s.resolvers = 1 .. m
    <3>1. s.resolvers[r] \in PairsOf(n) /\ DOMAIN s.resolvers = 1 .. m
      BY HeapFields DEF GoodHeap
    <3> QED  BY <3>1 DEF PairsOf
  <2>2. Ignored(s, r)
    BY <1>1, <2>1 DEF Unused, Ignored
  <2>3. t = s
    BY <2>2 DEF Resolved
  <2> QED  BY <1>1, <2>3, Zenon DEF MaySettle
<1>2. CASE Unused(s, r)
  <2>1. CASE (reject \/ v \in {Plain, TypeErr}) /\ t = Settled(Spent(s, r), PromiseOf(s, r), v, reject)
    <3>1. /\ SettledLike(s, PromiseOf(s, r), AfterState(reject), v)
          /\ hole = 0 \/ hole = PromiseOf(s, r)
      BY <1>2, Zenon DEF MaySettle, SettledLike, AdoptsOf, PromiseOf
    <3> QED  BY <1>2, <2>1, <3>1, SettleRight
  <2>2. CASE ~reject /\ v \notin {Plain, TypeErr}
             /\ t = Settled(Spent(s, r), PromiseOf(s, r), TypeErr, TRUE)
    <3>1. AdoptsOf(s, r) = 0 /\ hole = 0
      BY <1>2, <2>2, Zenon DEF MaySettle
    <3>2. SettledLike(s, PromiseOf(s, r), AfterState(TRUE), TypeErr)
      BY <3>1, Zenon DEF SettledLike, AdoptsOf, PromiseOf
    <3>3. TypeErr \in ValuesOf(n)
      BY DEF ValuesOf
    <3> QED  BY <1>2, <2>2, <3>1, <3>2, <3>3, SettleRight
  <2>3. CASE ~reject /\ v \notin {Plain, TypeErr}
             /\ t = Adopted(Spent(s, r), PromiseOf(s, r), v, IF IsPromise(v) THEN v ELSE 0)
    <3>1. hole = 0
      BY <1>2, <2>3, Zenon DEF MaySettle
    <3>2. PICK p : p = PromiseOf(s, r)
      OBVIOUS
    <3>3. PICK u : u = Spent(s, r)
      OBVIOUS
    <3>4. GoodHeap(u, n, m) /\ p \in 1 .. n
      BY <1>2, <3>2, <3>3, UsedUp
    <3>5. /\ FunctionsUsed(s, u, r) /\ u.promises = s.promises /\ u.jobs = s.jobs
          /\ u.reactions = s.reactions
      BY <3>3, SpentEffect
    <3>6. PICK e \in Nat : e = IF IsPromise(v) THEN v ELSE 0
      BY DEF IsPromise, ValuesOf, Values, Plain, Thenable, BadThenable, TypeErr
    <3>7. t = Adopted(u, p, v, e)
      BY <2>3, <3>2, <3>3, <3>6
    <3>8. AdoptedTo(u, t, p, v, e)
      BY <3>4, <3>7, AdoptedEffect
    <3>9. PICK a \in Nat :
            /\ JobsGrow(u, t, a, 1)
            /\ t.jobs[a + 1].kind = "thenable" /\ t.jobs[a + 1].promise = p /\ t.jobs[a + 1].arg = v
      BY <3>8, Zenon DEF AdoptedTo
    <3>10. JobsGrow(s, t, a, 1) /\ FunctionsUsed(s, t, r)
      <4>1. JobsGrow(s, t, a, 1)
        BY <3>5, <3>9, Zenon DEF JobsGrow
      <4>2. t.resolvers = u.resolvers
        BY <3>8 DEF AdoptedTo
      <4>3. FunctionsUsed(s, t, r)
        BY <3>5, <4>2, Zenon DEF FunctionsUsed, Unused
      <4> QED  BY <4>1, <4>3
    <3>11. AdoptEffect(s, t, r, p, v, a)
      BY <3>5, <3>6, <3>8, <3>9, <3>10, Zenon DEF AdoptedTo, AdoptEffect
    <3>12. s.resolvers[r].promise = p
      BY <3>2 DEF PromiseOf
    <3>13. Following(s, pub, 0)
      BY <3>1, Zenon
    <3> QED  BY <1>2, <3>9, <3>11, <3>12, <3>13, AdoptRight, Zenon
  <2>4. ResolvedAs(s, r, v, reject, t)
    BY <1>2, ResolvedCases
  <2> QED  BY <2>1, <2>2, <2>3, <2>4, Zenon DEF ResolvedAs
<1> QED  BY <1>1, <1>2

(* The end of a reaction job, or of the handler that it called. *)
LEMMA AnsweredRight ==
  ASSUME NEW n \in Nat, NEW m \in Nat, NEW s, GoodHeap(s, n, m), Ordered(s),
         NEW pub, Following(s, pub, 0), NEW cap \in 0 .. m, cap \in pub,
         NEW v \in ValuesOf(n), NEW reject \in BOOLEAN, NEW t, t = Answered(s, cap, v, reject)
  PROVE  Ordered(t) /\ Following(t, pub, 0)
<1>1. CASE cap = 0
  BY <1>1 DEF Answered
<1>2. CASE cap # 0
  <2>1. cap \in 1 .. m /\ t = Resolved(s, cap, v, reject)
    BY <1>2 DEF Answered
  <2>2. MaySettle(s, cap, v, reject, 0)
    BY Zenon DEF MaySettle, Following, Public
  <2> QED  BY <2>1, <2>2, ResolvedRight
<1> QED  BY <1>1, <1>2
-----------------------------------------------------------------------------
(* More promises and functions.                                            *)

(* The functions that reactions have. *)
LEMMA ReactionFunctions ==
  ASSUME NEW n \in Nat, NEW m \in Nat, NEW s, GoodHeap(s, n, m)
  PROVE  /\ \A p \in 1 .. n : \A k \in DOMAIN ListOf(s, p) :
              /\ ListOf(s, p)[k].cap \in 0 .. m
              /\ ListOf(s, p)[k].onF.kind \in Settling => ListOf(s, p)[k].onF.r \in 0 .. m
         /\ \A k : Reacting(s, k) =>
              /\ s.jobs[k].cap \in 0 .. m
              /\ s.jobs[k].handler.kind \in Settling => s.jobs[k].handler.r \in 0 .. m
<1>1. \A h \in HandlersOf(m) : h.kind \in Settling => h.r \in 0 .. m
  BY DEF HandlersOf, Settling, NoHandler, ScriptHandler
<1>2. \A p \in 1 .. n : ListOf(s, p) \in Seq(ReactionsOf(m))
  BY HeapRanges
<1>3. \A p \in 1 .. n : \A k \in DOMAIN ListOf(s, p) : ListOf(s, p)[k] \in ReactionsOf(m)
  BY <1>2
<1>4. \A x \in ReactionsOf(m) : x.cap \in 0 .. m /\ x.onF \in HandlersOf(m)
  BY DEF ReactionsOf
<1>5. \A p \in 1 .. n : \A k \in DOMAIN ListOf(s, p) :
        /\ ListOf(s, p)[k].cap \in 0 .. m
        /\ ListOf(s, p)[k].onF.kind \in Settling => ListOf(s, p)[k].onF.r \in 0 .. m
  BY <1>1, <1>3, <1>4, Zenon
<1>6. \A k : Reacting(s, k) => s.jobs[k].handler \in HandlersOf(m) /\ s.jobs[k].cap \in 0 .. m
  BY HeapRanges
<1> QED  BY <1>1, <1>5, <1>6, Zenon

PairAdded(s, t, p, m) ==
  /\ t.promises = s.promises /\ t.jobs = s.jobs /\ t.reactions = s.reactions
  /\ DOMAIN s.resolvers = 1 .. m /\ DOMAIN t.resolvers = 1 .. m + 1
  /\ t.resolvers[m + 1].promise = p /\ \A r \in 1 .. m : t.resolvers[r] = s.resolvers[r]
(* js_create_resolving_functions: new functions disturb nobody, and scripts
   may have them when their promise follows no other. *)
LEMMA PairAddedRight ==
  ASSUME NEW n \in Nat, NEW m \in Nat, NEW s, GoodHeap(s, n, m), Ordered(s),
         NEW pub, pub \subseteq 0 .. m, NEW hole, Following(s, pub, hole),
         NEW p \in 1 .. n, NEW t, PairAdded(s, t, p, m)
  PROVE  /\ Ordered(t) /\ Following(t, pub, hole)
         /\ s.promises[p].adopts = 0 => Following(t, pub \cup {m + 1}, hole)
<1>1. /\ t.promises = s.promises /\ t.jobs = s.jobs /\ t.reactions = s.reactions
      /\ DOMAIN s.promises = 1 .. n
  BY HeapRanges DEF PairAdded
<1>2. /\ \A k : (Adopting(t, k) <=> Adopting(s, k)) /\ (Reacting(t, k) <=> Reacting(s, k))
      /\ \A i : OwnerOf(t, i) = OwnerOf(s, i)
      /\ \A z : ListOf(t, z) = ListOf(s, z)
  BY <1>1, Zenon DEF Adopting, Reacting, OwnerOf, ListOf
<1>3. \A r \in 0 .. m : (Unused(t, r) <=> Unused(s, r)) /\ (Unused(s, r) => AdoptsOf(t, r) = AdoptsOf(s, r))
  <2>1. ASSUME NEW r \in 1 .. m
        PROVE  (Unused(t, r) <=> Unused(s, r)) /\ AdoptsOf(t, r) = AdoptsOf(s, r)
    <3>1. r \in 1 .. m + 1 /\ t.resolvers[r] = s.resolvers[r]
      BY <2>1 DEF PairAdded
    <3> QED  BY <1>1, <2>1, <3>1, Zenon DEF PairAdded, Unused, AdoptsOf
  <2>2. ~Unused(t, 0) /\ ~Unused(s, 0)
    BY DEF Unused, PairAdded
  <2>3. \A r \in 0 .. m : r = 0 \/ r \in 1 .. m
    OBVIOUS
  <2> QED  BY <2>1, <2>2, <2>3, Zenon
<1>4. \A r : Unused(s, r) => r \in 1 .. m /\ Unused(t, r) /\ t.resolvers[r] = s.resolvers[r]
  <2>1. \A r : Unused(s, r) => r \in 1 .. m /\ r \in 0 .. m
    BY DEF Unused, PairAdded
  <2> QED  BY <1>3, <2>1, Zenon DEF PairAdded
<1>5. Ordered(t)
  <2>1. ListsRight(t)
    BY <1>1, <1>2, Zenon DEF Ordered, ListsRight
  <2>2. JobsRight(t)
    BY <1>1, <1>2, Zenon DEF Ordered, JobsRight
  <2>3. Placed(t)
    <3>1. ASSUME NEW i \in DOMAIN t.reactions PROVE PlaceOf(t, i)
      <4>1. PlaceOf(s, i)
        BY <1>1, <3>1, Zenon DEF Ordered, Placed
      <4> QED  BY <1>1, <1>2, <4>1, Zenon DEF PlaceOf
    <3> QED  BY <3>1, Zenon DEF Placed
  <2>4. RanRight(t)
    BY <1>1, <1>2, Zenon DEF Ordered, RanRight
  <2> QED  BY <2>1, <2>2, <2>3, <2>4 DEF Ordered
<1>6. ResultsRight(t) /\ AdoptJobs(t)
  BY <1>1, <1>2, Zenon DEF Following, ResultsRight, AdoptJobs
<1>7. /\ \A z \in 1 .. n : \A k \in DOMAIN ListOf(s, z) :
           /\ ListOf(s, z)[k].cap \in 0 .. m
           /\ ListOf(s, z)[k].onF.kind \in Settling => ListOf(s, z)[k].onF.r \in 0 .. m
      /\ \A k : Reacting(s, k) =>
           /\ s.jobs[k].cap \in 0 .. m
           /\ s.jobs[k].handler.kind \in Settling => s.jobs[k].handler.r \in 0 .. m
  BY ReactionFunctions
<1>8. ListAdopts(t)
  BY <1>1, <1>2, <1>3, <1>7, Zenon DEF Following, ListAdopts
<1>9. JobAdopts(t)
  <2>1. ASSUME NEW k \in DOMAIN t.jobs, Reacting(t, k), t.jobs[k].handler.kind \in Settling,
               Unused(t, t.jobs[k].handler.r)
        PROVE  JobFits(t, k)
    <3>1. /\ Reacting(s, k) /\ s.jobs[k].handler.kind \in Settling /\ s.jobs[k].handler.r \in 0 .. m
          /\ Unused(s, s.jobs[k].handler.r)
      BY <1>1, <1>2, <1>3, <1>7, <2>1, Zenon
    <3>2. JobFits(s, k)
      BY <1>1, <3>1, Zenon DEF Following, JobAdopts, Reacting
    <3>3. AdoptsOf(t, s.jobs[k].handler.r) = AdoptsOf(s, s.jobs[k].handler.r)
      BY <1>3, <3>1, Zenon
    <3> QED  BY <1>1, <1>2, <3>2, <3>3, Zenon DEF JobFits
  <2> QED  BY <2>1, Zenon DEF JobAdopts
<1>10. AllFollow(t, hole)
  <2>1. ASSUME NEW z \in DOMAIN t.promises, z # hole, t.promises[z].adopts # 0
        PROVE  t.promises[z].adopts \in DOMAIN t.promises /\ Follows(t, z, t.promises[z].adopts)
    <3>1. PICK q : q = s.promises[z].adopts
      OBVIOUS
    <3>2. q \in DOMAIN s.promises /\ Follows(s, z, q) /\ t.promises[z].adopts = q
      BY <1>1, <2>1, <3>1, Zenon DEF Following, AllFollow
    <3>3. Follows(t, z, q)
      <4>1. CASE \E k \in DOMAIN s.jobs : Adopting(s, k) /\ s.jobs[k].promise = z
        BY <1>1, <1>2, <4>1, Zenon DEF Follows
      <4>2. ASSUME NEW r \in DOMAIN s.resolvers, Unused(s, r), s.resolvers[r].promise = z,
                   \/ \E k \in DOMAIN ListOf(s, q) : ListOf(s, q)[k].onF = Resolving("resolve", r)
                   \/ \E k \in DOMAIN s.jobs : Reacting(s, k) /\ s.jobs[k].handler.kind \in Settling
                                               /\ s.jobs[k].handler.r = r
            PROVE  Follows(t, z, q)
        <5>1. Unused(t, r) /\ t.resolvers[r].promise = z
          BY <1>4, <4>2, Zenon
        <5>2. r \in DOMAIN t.resolvers
          BY <5>1 DEF Unused
        <5>3. CASE \E k \in DOMAIN ListOf(s, q) : ListOf(s, q)[k].onF = Resolving("resolve", r)
          <6>1. \E k \in DOMAIN ListOf(t, q) : ListOf(t, q)[k].onF = Resolving("resolve", r)
            <7>1. ListOf(t, q) = ListOf(s, q)
              BY <1>2, Zenon
            <7> QED  BY <5>3, <7>1
          <6> QED  BY <5>1, <5>2, <6>1, Zenon DEF Follows
        <5>4. CASE \E k \in DOMAIN s.jobs : Reacting(s, k) /\ s.jobs[k].handler.kind \in Settling
                                            /\ s.jobs[k].handler.r = r
          <6>1. \E k \in DOMAIN t.jobs : Reacting(t, k) /\ t.jobs[k].handler.kind \in Settling
                                          /\ t.jobs[k].handler.r = r
            BY <1>1, <1>2, <5>4, Zenon
          <6> QED  BY <5>1, <5>2, <6>1, Zenon DEF Follows
        <5> QED  BY <4>2, <5>3, <5>4, Zenon
      <4>3. CASE /\ s.promises[q].state # "pending"
                 /\ s.promises[z].state = s.promises[q].state /\ s.promises[z].result = s.promises[q].result
        BY <1>1, <4>3, Zenon DEF Follows
      <4> QED  BY <3>2, <4>1, <4>2, <4>3, Zenon DEF Follows
    <3> QED  BY <1>1, <3>2, <3>3
  <2> QED  BY <2>1, Zenon DEF AllFollow
<1>11. Public(t, pub)
  BY <1>1, <1>2, <1>3, <1>7, Zenon DEF Following, Public
<1>12. s.promises[p].adopts = 0 => Public(t, pub \cup {m + 1})
  <2>1. AdoptsOf(t, m + 1) = s.promises[p].adopts
    BY <1>1 DEF AdoptsOf, PairAdded
  <2> QED  BY <1>11, <2>1, Zenon DEF Public
<1> QED  BY <1>5, <1>6, <1>8, <1>9, <1>10, <1>11, <1>12, Zenon DEF Following

(* A new promise has no reactions and follows no other. *)
LEMMA PromiseAddedRight ==
  ASSUME NEW n \in Nat, NEW m \in Nat, NEW s, GoodHeap(s, n, m), Ordered(s),
         NEW pub, pub \subseteq 0 .. m, NEW hole, Following(s, pub, hole), NEW t, PromiseAdded(s, t, n)
  PROVE  Ordered(t) /\ Following(t, pub, hole)
<1>1. /\ t.resolvers = s.resolvers /\ t.jobs = s.jobs /\ t.reactions = s.reactions
      /\ DOMAIN s.promises = 1 .. n /\ DOMAIN t.promises = 1 .. n + 1
      /\ \A z \in 1 .. n : z \in 1 .. n + 1 /\ t.promises[z] = s.promises[z] /\ ListOf(t, z) = ListOf(s, z)
  BY HeapRanges DEF PromiseAdded, ListOf
<1>2. /\ t.promises[n + 1].state = "pending" /\ t.promises[n + 1].result = Plain
      /\ t.promises[n + 1].adopts = 0 /\ ListOf(t, n + 1) = <<>>
  BY DEF PromiseAdded, NewPromise, ListOf
<1>3. /\ \A k : (Adopting(t, k) <=> Adopting(s, k)) /\ (Reacting(t, k) <=> Reacting(s, k))
      /\ \A i : OwnerOf(t, i) = OwnerOf(s, i)
      /\ \A r : Unused(t, r) <=> Unused(s, r)
  BY <1>1, Zenon DEF Adopting, Reacting, OwnerOf, Unused
<1>4. \A z \in DOMAIN t.promises : z = n + 1 \/ z \in 1 .. n
  BY <1>1
<1>5. \A z \in DOMAIN t.promises : \A k \in DOMAIN ListOf(t, z) : z \in 1 .. n
  <2>1. \A k : k \notin DOMAIN ListOf(t, n + 1)
    BY <1>2
  <2> QED  BY <1>4, <2>1, Zenon
<1>6. /\ \A i \in DOMAIN s.reactions : OwnerOf(s, i) \in 1 .. n
      /\ \A r : Unused(s, r) => s.resolvers[r].promise \in 1 .. n
      /\ \A k : Adopting(s, k) => s.jobs[k].promise \in 1 .. n
  BY HeapRanges DEF OwnerOf, Unused
<1>7. \A r : Unused(s, r) => AdoptsOf(t, r) = AdoptsOf(s, r)
  BY <1>1, <1>6, Zenon DEF AdoptsOf
<1>8. Ordered(t)
  <2>1. ListsRight(t)
    <3>1. ASSUME NEW z \in DOMAIN t.promises, NEW k \in DOMAIN ListOf(t, z)
          PROVE  /\ t.promises[z].state = "pending"
                 /\ ListOf(t, z)[k].id \in DOMAIN t.reactions
                 /\ OwnerOf(t, ListOf(t, z)[k].id) = z /\ t.reactions[ListOf(t, z)[k].id].ran = 0
                 /\ \A l \in DOMAIN ListOf(t, z) : k < l => ListOf(t, z)[k].id < ListOf(t, z)[l].id
      <4>1. z \in 1 .. n
        BY <1>5, <3>1, Zenon
      <4>2. t.promises[z] = s.promises[z] /\ ListOf(t, z) = ListOf(s, z)
        BY <1>1, <4>1, Zenon
      <4>3. /\ s.promises[z].state = "pending" /\ ListOf(s, z)[k].id \in DOMAIN s.reactions
            /\ OwnerOf(s, ListOf(s, z)[k].id) = z /\ s.reactions[ListOf(s, z)[k].id].ran = 0
            /\ \A l \in DOMAIN ListOf(s, z) : k < l => ListOf(s, z)[k].id < ListOf(s, z)[l].id
        BY <1>1, <3>1, <4>1, <4>2 DEF Ordered, ListsRight
      <4> QED  BY <1>1, <1>3, <4>2, <4>3
    <3> QED  BY <3>1, Zenon DEF ListsRight
  <2>2. JobsRight(t)
    <3>1. JobsRight(s)
      BY DEF Ordered
    <3>2. \A i \in DOMAIN s.reactions : t.promises[OwnerOf(t, i)] = s.promises[OwnerOf(s, i)]
      BY <1>1, <1>3, <1>6, Zenon
    <3>3. ASSUME NEW k \in DOMAIN s.jobs, Reacting(s, k)
          PROVE  /\ s.jobs[k].id \in DOMAIN s.reactions /\ s.reactions[s.jobs[k].id].ran = 0
                 /\ t.promises[OwnerOf(s, s.jobs[k].id)].state # "pending"
      BY <1>3, <3>1, <3>2, <3>3 DEF JobsRight
    <3>4. ASSUME NEW k \in DOMAIN s.jobs, Reacting(s, k), NEW l \in DOMAIN s.jobs, Reacting(s, l),
                 k < l, OwnerOf(s, s.jobs[k].id) = OwnerOf(s, s.jobs[l].id)
          PROVE  s.jobs[k].id < s.jobs[l].id
      BY <3>1, <3>4, Zenon DEF JobsRight
    <3> QED  BY <1>1, <1>3, <3>3, <3>4 DEF JobsRight
  <2>3. Placed(t)
    <3>1. ASSUME NEW i \in DOMAIN t.reactions PROVE PlaceOf(t, i)
      <4>1. PlaceOf(s, i) /\ i \in DOMAIN s.reactions
        BY <1>1, <3>1, Zenon DEF Ordered, Placed
      <4>2. /\ t.promises[OwnerOf(t, i)] = s.promises[OwnerOf(s, i)]
            /\ ListOf(t, OwnerOf(t, i)) = ListOf(s, OwnerOf(s, i))
        BY <1>1, <1>3, <1>6, <4>1, Zenon
      <4> QED  BY <1>1, <1>3, <4>1, <4>2, Zenon DEF PlaceOf
    <3> QED  BY <3>1, Zenon DEF Placed
  <2>4. RanRight(t)
    BY <1>1, <1>3, Zenon DEF Ordered, RanRight
  <2> QED  BY <2>1, <2>2, <2>3, <2>4 DEF Ordered
<1>9. ResultsRight(t)
  <2>1. ResultsRight(s)
    BY DEF Following
  <2>2. ASSUME NEW z \in DOMAIN t.promises
        PROVE  /\ t.promises[z].state = "pending" => t.promises[z].result = Plain
               /\ t.promises[z].state = "fulfilled" => t.promises[z].result \in {Plain, TypeErr}
    <3>1. CASE z = n + 1
      BY <1>2, <3>1
    <3>2. CASE z \in 1 .. n
      BY <1>1, <2>1, <3>2, Zenon DEF ResultsRight
    <3> QED  BY <1>4, <2>2, <3>1, <3>2, Zenon
  <2> QED  BY <2>2, Zenon DEF ResultsRight
<1>10. AdoptJobs(t)
  <2>1. AdoptJobs(s)
    BY DEF Following
  <2>2. \A k : Adopting(s, k) => t.promises[t.jobs[k].promise] = s.promises[s.jobs[k].promise]
    BY <1>1, <1>6, Zenon
  <2> QED  BY <1>1, <1>3, <2>1, <2>2, Zenon DEF AdoptJobs
<1>11. ListAdopts(t)
  <2>1. ListAdopts(s)
    BY DEF Following
  <2>2. ASSUME NEW z \in DOMAIN t.promises, NEW k \in DOMAIN ListOf(t, z)
        PROVE  /\ Paired(ListOf(t, z)[k])
               /\ ListOf(t, z)[k].onF.kind \in Settling /\ Unused(t, ListOf(t, z)[k].onF.r)
                    => AdoptsOf(t, ListOf(t, z)[k].onF.r) = z
    <3>1. z \in 1 .. n
      BY <1>5, <2>2, Zenon
    <3>2. ListOf(t, z) = ListOf(s, z)
      BY <1>1, <3>1, Zenon
    <3>3. /\ Paired(ListOf(s, z)[k])
          /\ ListOf(s, z)[k].onF.kind \in Settling /\ Unused(s, ListOf(s, z)[k].onF.r)
               => AdoptsOf(s, ListOf(s, z)[k].onF.r) = z
      BY <1>1, <2>1, <2>2, <3>1, <3>2, Zenon DEF ListAdopts
    <3> QED  BY <1>3, <1>7, <3>2, <3>3, Zenon
  <2> QED  BY <2>2, Zenon DEF ListAdopts
<1>12. JobAdopts(t)
  <2>1. ASSUME NEW k \in DOMAIN t.jobs, Reacting(t, k), t.jobs[k].handler.kind \in Settling,
               Unused(t, t.jobs[k].handler.r)
        PROVE  JobFits(t, k)
    <3>1. Reacting(s, k) /\ s.jobs[k].handler.kind \in Settling /\ Unused(s, s.jobs[k].handler.r)
      BY <1>1, <1>3, <2>1, Zenon
    <3>2. JobFits(s, k) /\ s.jobs[k].id \in DOMAIN s.reactions
      BY <1>1, <3>1, Zenon DEF Following, JobAdopts, Reacting, Ordered, JobsRight
    <3>3. AdoptsOf(t, s.jobs[k].handler.r) = AdoptsOf(s, s.jobs[k].handler.r)
      BY <1>7, <3>1, Zenon
    <3>4. t.promises[OwnerOf(t, s.jobs[k].id)] = s.promises[OwnerOf(s, s.jobs[k].id)]
      <4>1. OwnerOf(s, s.jobs[k].id) \in 1 .. n
        BY <1>6, <3>2, Zenon
      <4>2. OwnerOf(t, s.jobs[k].id) = OwnerOf(s, s.jobs[k].id)
        BY <1>3, Zenon
      <4>3. t.promises[OwnerOf(s, s.jobs[k].id)] = s.promises[OwnerOf(s, s.jobs[k].id)]
        BY <1>1, <4>1, Zenon
      <4> QED  BY <4>2, <4>3
    <3> QED  BY <1>1, <1>3, <3>2, <3>3, <3>4, Zenon DEF JobFits
  <2> QED  BY <2>1, Zenon DEF JobAdopts
<1>13. AllFollow(t, hole)
  <2>1. ASSUME NEW z \in DOMAIN t.promises, z # hole, t.promises[z].adopts # 0
        PROVE  t.promises[z].adopts \in DOMAIN t.promises /\ Follows(t, z, t.promises[z].adopts)
    <3>1. PICK q : q = s.promises[z].adopts
      OBVIOUS
    <3>2. z \in 1 .. n
      BY <1>2, <1>4, <2>1
    <3>3. q \in 1 .. n /\ Follows(s, z, q) /\ t.promises[z].adopts = q
      BY <1>1, <2>1, <3>1, <3>2, Zenon DEF Following, AllFollow
    <3>4. t.promises[z] = s.promises[z] /\ t.promises[q] = s.promises[q] /\ ListOf(t, q) = ListOf(s, q)
      BY <1>1, <3>2, <3>3, Zenon
    <3>5. Follows(t, z, q)
      <4>1. CASE \E k \in DOMAIN s.jobs : Adopting(s, k) /\ s.jobs[k].promise = z
        BY <1>1, <1>3, <4>1, Zenon DEF Follows
      <4>2. ASSUME NEW r \in DOMAIN s.resolvers, Unused(s, r), s.resolvers[r].promise = z,
                   \E k \in DOMAIN ListOf(s, q) : ListOf(s, q)[k].onF = Resolving("resolve", r)
            PROVE  Follows(t, z, q)
        BY <1>1, <1>3, <3>4, <4>2, Zenon DEF Follows
      <4>3. ASSUME NEW r \in DOMAIN s.resolvers, Unused(s, r), s.resolvers[r].promise = z,
                   \E k \in DOMAIN s.jobs : Reacting(s, k) /\ s.jobs[k].handler.kind \in Settling
                                            /\ s.jobs[k].handler.r = r
            PROVE  Follows(t, z, q)
        BY <1>1, <1>3, <4>3, Zenon DEF Follows
      <4>4. CASE /\ s.promises[q].state # "pending"
                 /\ s.promises[z].state = s.promises[q].state /\ s.promises[z].result = s.promises[q].result
        BY <3>4, <4>4, Zenon DEF Follows
      <4> QED  BY <3>3, <4>1, <4>2, <4>3, <4>4, Zenon DEF Follows
    <3> QED  BY <1>1, <3>3, <3>5
  <2> QED  BY <2>1, Zenon DEF AllFollow
<1>14. Public(t, pub)
  <2>1. Public(s, pub)
    BY DEF Following
  <2>2. ASSUME NEW z \in DOMAIN t.promises, NEW k \in DOMAIN ListOf(t, z), Unused(t, ListOf(t, z)[k].cap)
        PROVE  AdoptsOf(t, ListOf(t, z)[k].cap) = 0
    <3>1. z \in 1 .. n
      BY <1>5, <2>2, Zenon
    <3>2. ListOf(t, z) = ListOf(s, z)
      BY <1>1, <3>1, Zenon
    <3>3. Unused(s, ListOf(s, z)[k].cap) => AdoptsOf(s, ListOf(s, z)[k].cap) = 0
      BY <1>1, <2>1, <2>2, <3>1, <3>2 DEF Public
    <3> QED  BY <1>3, <1>7, <2>2, <3>2, <3>3
  <2>3. ASSUME NEW k \in DOMAIN t.jobs, Reacting(t, k), Unused(t, t.jobs[k].cap)
        PROVE  AdoptsOf(t, t.jobs[k].cap) = 0
    BY <1>1, <1>3, <1>7, <2>1, <2>3, Zenon DEF Public
  <2>4. ASSUME NEW r \in pub, Unused(t, r) PROVE AdoptsOf(t, r) = 0
    BY <1>3, <1>7, <2>1, <2>4, Zenon DEF Public
  <2> QED  BY <2>2, <2>3, <2>4, Zenon DEF Public
<1> QED  BY <1>8, <1>9, <1>10, <1>11, <1>12, <1>13, <1>14, Zenon DEF Following

-----------------------------------------------------------------------------
(* perform_promise_then.                                                   *)

(* Reaction x becomes number c + 1, of p. *)
OneReactionMore(s, t, p, x, c) ==
  /\ t.resolvers = s.resolvers /\ x.id = c + 1
  /\ DOMAIN s.reactions = 1 .. c /\ DOMAIN t.reactions = 1 .. c + 1
  /\ \A i \in 1 .. c : t.reactions[i] = s.reactions[i]
  /\ t.reactions[c + 1].promise = p /\ t.reactions[c + 1].ran = 0
  /\ DOMAIN t.promises = DOMAIN s.promises
  /\ \A z \in DOMAIN s.promises : z # p => t.promises[z] = s.promises[z]
  /\ t.promises[p].state = s.promises[p].state /\ t.promises[p].result = s.promises[p].result
  /\ t.promises[p].adopts = s.promises[p].adopts
WaitsAs(s, t, p, x, c, b) ==
  /\ OneReactionMore(s, t, p, x, c) /\ t.jobs = s.jobs /\ s.promises[p].state = "pending"
  /\ DOMAIN ListOf(s, p) = 1 .. b /\ DOMAIN ListOf(t, p) = 1 .. b + 1
  /\ \A k \in 1 .. b : ListOf(t, p)[k] = ListOf(s, p)[k]
  /\ ListOf(t, p)[b + 1] = x
QueuedAs(s, t, p, x, c, a) ==
  /\ OneReactionMore(s, t, p, x, c) /\ s.promises[p].state # "pending"
  /\ ListOf(t, p) = ListOf(s, p) /\ JobsGrow(s, t, a, 1)
  /\ JobOf(t.jobs[a + 1], x, s.promises[p].state, s.promises[p].result)

(* What the functions of a new reaction may be, and that it is the one that
   the promise `hole` waits for. *)
FitsPromise(s, x, p, hole) ==
  /\ Paired(x)
  /\ x.onF.kind \in Settling /\ Unused(s, x.onF.r) => AdoptsOf(s, x.onF.r) = p
  /\ Unused(s, x.cap) => AdoptsOf(s, x.cap) = 0
  /\ hole # 0 => \E r : /\ x.onF = Resolving("resolve", r) /\ Unused(s, r)
                        /\ s.resolvers[r].promise = hole /\ s.promises[hole].adopts = p

(* What both have in common. *)
LEMMA OneMoreFacts ==
  ASSUME NEW n \in Nat, NEW m \in Nat, NEW s, GoodHeap(s, n, m), NEW p \in 1 .. n,
         NEW t, NEW x, NEW c \in Nat, OneReactionMore(s, t, p, x, c)
  PROVE  /\ DOMAIN s.promises = 1 .. n /\ DOMAIN t.promises = 1 .. n
         /\ \A i \in DOMAIN t.reactions : i = c + 1 \/ i \in DOMAIN s.reactions
         /\ \A i \in DOMAIN s.reactions :
              i \in DOMAIN t.reactions /\ i # c + 1 /\ i < c + 1 /\ t.reactions[i] = s.reactions[i]
              /\ OwnerOf(t, i) = OwnerOf(s, i) /\ OwnerOf(s, i) \in 1 .. n
         /\ c + 1 \in DOMAIN t.reactions /\ OwnerOf(t, c + 1) = p /\ t.reactions[c + 1].ran = 0
         /\ \A z \in 1 .. n : z # p => ListOf(t, z) = ListOf(s, z)
         /\ \A z \in 1 .. n : /\ t.promises[z].state = s.promises[z].state
                              /\ t.promises[z].result = s.promises[z].result
                              /\ t.promises[z].adopts = s.promises[z].adopts
         /\ \A r : Unused(t, r) <=> Unused(s, r)
         /\ \A r : Unused(s, r) => AdoptsOf(t, r) = AdoptsOf(s, r)
<1>1. /\ DOMAIN s.promises = 1 .. n /\ DOMAIN t.promises = 1 .. n
      /\ \A i \in DOMAIN s.reactions : OwnerOf(s, i) \in 1 .. n
      /\ \A r \in DOMAIN s.resolvers : s.resolvers[r].promise \in 1 .. n
  <2>1. /\ DOMAIN s.promises = 1 .. n /\ DOMAIN s.resolvers = 1 .. m
        /\ \A r \in 1 .. m : s.resolvers[r].promise \in 1 .. n
        /\ \A i \in DOMAIN s.reactions : s.reactions[i].promise \in 1 .. n
    BY HeapRanges
  <2>2. DOMAIN t.promises = DOMAIN s.promises
    BY DEF OneReactionMore
  <2> QED  BY <2>1, <2>2, Zenon DEF OwnerOf
<1>2. \A i \in DOMAIN t.reactions : i = c + 1 \/ i \in DOMAIN s.reactions
  BY DEF OneReactionMore
<1>3. \A i \in DOMAIN s.reactions :
        i \in DOMAIN t.reactions /\ i # c + 1 /\ i < c + 1 /\ t.reactions[i] = s.reactions[i]
        /\ OwnerOf(t, i) = OwnerOf(s, i) /\ OwnerOf(s, i) \in 1 .. n
  BY <1>1 DEF OneReactionMore, OwnerOf
<1>4. c + 1 \in DOMAIN t.reactions /\ OwnerOf(t, c + 1) = p /\ t.reactions[c + 1].ran = 0
  BY DEF OneReactionMore, OwnerOf
<1>5. \A z \in 1 .. n : z # p => ListOf(t, z) = ListOf(s, z)
  BY <1>1, Zenon DEF OneReactionMore, ListOf
<1>6. \A z \in 1 .. n : /\ t.promises[z].state = s.promises[z].state
                        /\ t.promises[z].result = s.promises[z].result
                        /\ t.promises[z].adopts = s.promises[z].adopts
  BY <1>1, Zenon DEF OneReactionMore
<1>7. \A r : Unused(t, r) <=> Unused(s, r)
  BY Zenon DEF OneReactionMore, Unused
<1>8. \A r : Unused(s, r) => AdoptsOf(t, r) = AdoptsOf(s, r)
  BY <1>1, <1>6, Zenon DEF OneReactionMore, Unused, AdoptsOf
<1> QED  BY <1>1, <1>2, <1>3, <1>4, <1>5, <1>6, <1>7, <1>8, Zenon

(* A reaction added to the list of a pending promise has the highest number. *)
LEMMA WaitsOrdered ==
  ASSUME NEW n \in Nat, NEW m \in Nat, NEW s, GoodHeap(s, n, m), Ordered(s), NEW p \in 1 .. n,
         NEW t, NEW x, NEW c \in Nat, NEW b \in Nat, WaitsAs(s, t, p, x, c, b)
  PROVE  Ordered(t)
<1>0. OneReactionMore(s, t, p, x, c)
  BY DEF WaitsAs
<1>1. /\ DOMAIN s.promises = 1 .. n /\ DOMAIN t.promises = 1 .. n
      /\ \A i \in DOMAIN t.reactions : i = c + 1 \/ i \in DOMAIN s.reactions
      /\ \A i \in DOMAIN s.reactions :
           i \in DOMAIN t.reactions /\ i # c + 1 /\ i < c + 1 /\ t.reactions[i] = s.reactions[i]
           /\ OwnerOf(t, i) = OwnerOf(s, i) /\ OwnerOf(s, i) \in 1 .. n
      /\ c + 1 \in DOMAIN t.reactions /\ OwnerOf(t, c + 1) = p /\ t.reactions[c + 1].ran = 0
      /\ \A z \in 1 .. n : z # p => ListOf(t, z) = ListOf(s, z)
      /\ \A z \in 1 .. n : t.promises[z].state = s.promises[z].state
  BY <1>0, OneMoreFacts
<1>2. /\ t.jobs = s.jobs /\ s.promises[p].state = "pending" /\ x.id = c + 1
      /\ DOMAIN ListOf(s, p) = 1 .. b /\ DOMAIN ListOf(t, p) = 1 .. b + 1
      /\ \A k \in 1 .. b : ListOf(t, p)[k] = ListOf(s, p)[k]
      /\ ListOf(t, p)[b + 1] = x
  BY <1>0 DEF WaitsAs, OneReactionMore
<1>3. \A k : Reacting(t, k) <=> Reacting(s, k)
  BY <1>2, Zenon DEF Reacting
<1>4. \A k \in 1 .. b + 1 : k = b + 1 \/ k \in 1 .. b
  OBVIOUS
<1>5. \A k \in 1 .. b : k \in 1 .. b + 1 /\ k < b + 1
  OBVIOUS
<1>6. \A z \in 1 .. n : \A k \in DOMAIN ListOf(s, z) :
        /\ s.promises[z].state = "pending" /\ ListOf(s, z)[k].id \in DOMAIN s.reactions
        /\ OwnerOf(s, ListOf(s, z)[k].id) = z /\ s.reactions[ListOf(s, z)[k].id].ran = 0
        /\ \A l \in DOMAIN ListOf(s, z) : k < l => ListOf(s, z)[k].id < ListOf(s, z)[l].id
  BY <1>1 DEF Ordered, ListsRight
<1>7. ListsRight(t)
  <2>1. ASSUME NEW z \in DOMAIN t.promises, NEW k \in DOMAIN ListOf(t, z)
        PROVE  /\ t.promises[z].state = "pending"
               /\ ListOf(t, z)[k].id \in DOMAIN t.reactions
               /\ OwnerOf(t, ListOf(t, z)[k].id) = z /\ t.reactions[ListOf(t, z)[k].id].ran = 0
               /\ \A l \in DOMAIN ListOf(t, z) : k < l => ListOf(t, z)[k].id < ListOf(t, z)[l].id
    <3>1. CASE z # p
      <4>1. z \in 1 .. n /\ ListOf(t, z) = ListOf(s, z)
        BY <1>1, <2>1, <3>1
      <4>2. /\ s.promises[z].state = "pending" /\ ListOf(s, z)[k].id \in DOMAIN s.reactions
            /\ OwnerOf(s, ListOf(s, z)[k].id) = z /\ s.reactions[ListOf(s, z)[k].id].ran = 0
            /\ \A l \in DOMAIN ListOf(s, z) : k < l => ListOf(s, z)[k].id < ListOf(s, z)[l].id
        BY <1>6, <2>1, <4>1
      <4> QED  BY <1>1, <4>1, <4>2
    <3>2. CASE z = p /\ k \in 1 .. b
      <4>1. /\ ListOf(s, p)[k].id \in DOMAIN s.reactions
            /\ OwnerOf(s, ListOf(s, p)[k].id) = p /\ s.reactions[ListOf(s, p)[k].id].ran = 0
            /\ \A l \in 1 .. b : k < l => ListOf(s, p)[k].id < ListOf(s, p)[l].id
        BY <1>2, <1>6, <3>2
      <4>2. PICK d : d = ListOf(s, p)[k].id
        OBVIOUS
      <4>3. d \in DOMAIN s.reactions /\ OwnerOf(t, d) = p /\ t.reactions[d].ran = 0
            /\ d \in DOMAIN t.reactions /\ d < c + 1 /\ ListOf(t, z)[k].id = d
        BY <1>1, <1>2, <3>2, <4>1, <4>2
      <4>4. \A l \in DOMAIN ListOf(t, z) : k < l => d < ListOf(t, z)[l].id
        <5>1. \A l \in 1 .. b : k < l => d < ListOf(t, z)[l].id
          BY <1>2, <3>2, <4>1, <4>2
        <5>2. d < ListOf(t, z)[b + 1].id
          BY <1>2, <3>2, <4>3
        <5> QED  BY <1>2, <1>4, <3>2, <5>1, <5>2
      <4> QED  BY <1>1, <1>2, <3>2, <4>3, <4>4
    <3>3. CASE z = p /\ k = b + 1
      <4>1. \A l \in DOMAIN ListOf(t, z) : ~(k < l)
        BY <1>2, <3>3
      <4>2. ListOf(t, z)[k].id = c + 1
        BY <1>2, <3>3
      <4> QED  BY <1>1, <1>2, <3>3, <4>1, <4>2
    <3> QED  BY <1>2, <1>4, <2>1, <3>1, <3>2, <3>3, Zenon
  <2> QED  BY <2>1, Zenon DEF ListsRight
<1>8. JobsRight(t)
  <2>1. \A k : Reacting(s, k) =>
          /\ s.jobs[k].id \in DOMAIN s.reactions /\ s.reactions[s.jobs[k].id].ran = 0
          /\ s.promises[OwnerOf(s, s.jobs[k].id)].state # "pending"
          /\ \A l \in DOMAIN s.jobs :
               Reacting(s, l) /\ k < l /\ OwnerOf(s, s.jobs[k].id) = OwnerOf(s, s.jobs[l].id)
                 => s.jobs[k].id < s.jobs[l].id
    BY Zenon DEF Ordered, JobsRight, Reacting
  <2>2. \A i \in DOMAIN s.reactions : t.promises[OwnerOf(t, i)].state = s.promises[OwnerOf(s, i)].state
    BY <1>1, Zenon
  <2>3. ASSUME NEW k \in DOMAIN t.jobs, Reacting(t, k)
        PROVE  /\ t.jobs[k].id \in DOMAIN t.reactions /\ t.reactions[t.jobs[k].id].ran = 0
               /\ t.promises[OwnerOf(t, t.jobs[k].id)].state # "pending"
               /\ \A l \in DOMAIN t.jobs :
                    Reacting(t, l) /\ k < l /\ OwnerOf(t, t.jobs[k].id) = OwnerOf(t, t.jobs[l].id)
                      => t.jobs[k].id < t.jobs[l].id
    <3>1. Reacting(s, k) /\ s.jobs[k].id \in DOMAIN s.reactions
      BY <1>3, <2>1, <2>3
    <3>2. /\ t.jobs[k].id \in DOMAIN t.reactions /\ t.reactions[t.jobs[k].id].ran = 0
          /\ t.promises[OwnerOf(t, t.jobs[k].id)].state # "pending"
      BY <1>1, <1>2, <2>1, <2>2, <3>1
    <3>3. ASSUME NEW l \in DOMAIN t.jobs, Reacting(t, l), k < l,
                 OwnerOf(t, t.jobs[k].id) = OwnerOf(t, t.jobs[l].id)
          PROVE  t.jobs[k].id < t.jobs[l].id
      <4>1. Reacting(s, l) /\ s.jobs[l].id \in DOMAIN s.reactions
        BY <1>3, <2>1, <3>3
      <4>2. OwnerOf(s, s.jobs[k].id) = OwnerOf(s, s.jobs[l].id)
        BY <1>1, <1>2, <3>1, <3>3, <4>1
      <4> QED  BY <1>2, <2>1, <3>1, <3>3, <4>1, <4>2
    <3> QED  BY <3>2, <3>3, Zenon
  <2> QED  BY <2>3, Zenon DEF JobsRight
<1>9. Placed(t)
  <2>1. PlaceOf(t, c + 1)
    <3>1. b + 1 \in DOMAIN ListOf(t, p) /\ ListOf(t, p)[b + 1].id = c + 1
      BY <1>2
    <3> QED  BY <1>1, <1>2, <3>1, Zenon DEF PlaceOf
  <2>2. ASSUME NEW i \in DOMAIN s.reactions PROVE PlaceOf(t, i)
    <3>1. PlaceOf(s, i)
      BY <2>2, Zenon DEF Ordered, Placed
    <3>2. PICK z \in 1 .. n : z = OwnerOf(s, i) /\ z = OwnerOf(t, i) /\ t.reactions[i] = s.reactions[i]
      BY <1>1, <2>2
    <3>3. CASE s.promises[z].state = "pending"
      <4>1. PICK k \in DOMAIN ListOf(s, z) : ListOf(s, z)[k].id = i
        BY <3>1, <3>2, <3>3 DEF PlaceOf
      <4>2. s.reactions[i].ran = 0
        BY <3>1, <3>2, <3>3 DEF PlaceOf
      <4>3. k \in DOMAIN ListOf(t, z) /\ ListOf(t, z)[k].id = i
        <5>1. CASE z # p
          BY <1>1, <4>1, <5>1
        <5>2. CASE z = p
          BY <1>2, <1>5, <4>1, <5>2
        <5> QED  BY <5>1, <5>2
      <4>4. t.promises[OwnerOf(t, i)].state = "pending" /\ t.reactions[i].ran = 0
        BY <1>1, <3>2, <3>3, <4>2
      <4> QED  BY <3>2, <4>3, <4>4, Zenon DEF PlaceOf
    <3>4. CASE s.promises[z].state # "pending"
      <4>1. t.promises[OwnerOf(t, i)].state # "pending"
        BY <1>1, <3>2, <3>4
      <4>2. s.reactions[i].ran = 1 \/ \E k \in DOMAIN s.jobs : Reacting(s, k) /\ s.jobs[k].id = i
        BY <3>1, <3>2, <3>4, Zenon DEF PlaceOf
      <4> QED  BY <1>2, <1>3, <3>2, <4>1, <4>2, Zenon DEF PlaceOf
    <3> QED  BY <3>3, <3>4
  <2> QED  BY <1>1, <2>1, <2>2, Zenon DEF Placed
<1>10. RanRight(t)
  <2>1. ASSUME NEW i \in DOMAIN t.reactions, NEW j \in DOMAIN t.reactions, i < j,
               OwnerOf(t, i) = OwnerOf(t, j), t.reactions[j].ran > 0
        PROVE  t.reactions[i].ran > 0
    <3>1. j \in DOMAIN s.reactions
      BY <1>1, <2>1
    <3>2. i # c + 1
      <4>1. DOMAIN s.reactions = 1 .. c /\ DOMAIN t.reactions = 1 .. c + 1
        BY <1>0 DEF OneReactionMore
      <4> QED  BY <2>1, <3>1, <4>1
    <3>3. i \in DOMAIN s.reactions
      BY <1>1, <2>1, <3>2
    <3>4. t.reactions[i] = s.reactions[i] /\ t.reactions[j] = s.reactions[j]
          /\ OwnerOf(s, i) = OwnerOf(s, j)
      BY <1>1, <2>1, <3>1, <3>3
    <3> QED  BY <2>1, <3>1, <3>3, <3>4 DEF Ordered, RanRight
  <2> QED  BY <2>1, Zenon DEF RanRight
<1> QED  BY <1>7, <1>8, <1>9, <1>10 DEF Ordered

(* A reaction queued at once comes after the earlier ones of its promise,
   which are queued before it or have run. *)
LEMMA QueuedOrdered ==
  ASSUME NEW n \in Nat, NEW m \in Nat, NEW s, GoodHeap(s, n, m), Ordered(s), NEW p \in 1 .. n,
         NEW t, NEW x, NEW c \in Nat, NEW a \in Nat, QueuedAs(s, t, p, x, c, a)
  PROVE  Ordered(t)
<1>0. OneReactionMore(s, t, p, x, c)
  BY DEF QueuedAs
<1>1. /\ DOMAIN s.promises = 1 .. n /\ DOMAIN t.promises = 1 .. n
      /\ \A i \in DOMAIN t.reactions : i = c + 1 \/ i \in DOMAIN s.reactions
      /\ \A i \in DOMAIN s.reactions :
           i \in DOMAIN t.reactions /\ i # c + 1 /\ i < c + 1 /\ t.reactions[i] = s.reactions[i]
           /\ OwnerOf(t, i) = OwnerOf(s, i) /\ OwnerOf(s, i) \in 1 .. n
      /\ c + 1 \in DOMAIN t.reactions /\ OwnerOf(t, c + 1) = p /\ t.reactions[c + 1].ran = 0
      /\ \A z \in 1 .. n : z # p => ListOf(t, z) = ListOf(s, z)
      /\ \A z \in 1 .. n : t.promises[z].state = s.promises[z].state
  BY <1>0, OneMoreFacts
<1>2. /\ s.promises[p].state # "pending" /\ x.id = c + 1
      /\ \A z \in 1 .. n : ListOf(t, z) = ListOf(s, z)
      /\ DOMAIN s.jobs = 1 .. a /\ DOMAIN t.jobs = 1 .. a + 1
      /\ \A k \in 1 .. a : t.jobs[k] = s.jobs[k]
      /\ t.jobs[a + 1].kind = "reaction" /\ t.jobs[a + 1].id = c + 1
  BY <1>0, <1>1, Zenon DEF QueuedAs, OneReactionMore, JobsGrow, JobOf
<1>3. \A k \in 1 .. a + 1 : k = a + 1 \/ k \in 1 .. a
  OBVIOUS
<1>4. \A k \in 1 .. a : k \in 1 .. a + 1 /\ k < a + 1
  OBVIOUS
<1>5. /\ \A k \in 1 .. a : Reacting(t, k) <=> Reacting(s, k)
      /\ Reacting(t, a + 1) /\ \A k : Reacting(s, k) => k \in 1 .. a
  <2>1. a + 1 \in 1 .. a + 1
    OBVIOUS
  <2> QED  BY <1>2, <1>4, <2>1, Zenon DEF Reacting
<1>6. ListsRight(t)
  <2>1. ASSUME NEW z \in DOMAIN t.promises, NEW k \in DOMAIN ListOf(t, z)
        PROVE  /\ t.promises[z].state = "pending"
               /\ ListOf(t, z)[k].id \in DOMAIN t.reactions
               /\ OwnerOf(t, ListOf(t, z)[k].id) = z /\ t.reactions[ListOf(t, z)[k].id].ran = 0
               /\ \A l \in DOMAIN ListOf(t, z) : k < l => ListOf(t, z)[k].id < ListOf(t, z)[l].id
    <3>1. z \in 1 .. n /\ ListOf(t, z) = ListOf(s, z)
      BY <1>1, <1>2, <2>1
    <3>2. /\ s.promises[z].state = "pending" /\ ListOf(s, z)[k].id \in DOMAIN s.reactions
          /\ OwnerOf(s, ListOf(s, z)[k].id) = z /\ s.reactions[ListOf(s, z)[k].id].ran = 0
          /\ \A l \in DOMAIN ListOf(s, z) : k < l => ListOf(s, z)[k].id < ListOf(s, z)[l].id
      BY <1>1, <2>1, <3>1 DEF Ordered, ListsRight
    <3> QED  BY <1>1, <3>1, <3>2
  <2> QED  BY <2>1, Zenon DEF ListsRight
<1>7. JobsRight(t)
  <2>1. \A k : Reacting(s, k) =>
          /\ s.jobs[k].id \in DOMAIN s.reactions /\ s.reactions[s.jobs[k].id].ran = 0
          /\ s.promises[OwnerOf(s, s.jobs[k].id)].state # "pending"
          /\ \A l \in DOMAIN s.jobs :
               Reacting(s, l) /\ k < l /\ OwnerOf(s, s.jobs[k].id) = OwnerOf(s, s.jobs[l].id)
                 => s.jobs[k].id < s.jobs[l].id
    BY Zenon DEF Ordered, JobsRight, Reacting
  <2>2. \A i \in DOMAIN s.reactions : t.promises[OwnerOf(t, i)].state = s.promises[OwnerOf(s, i)].state
    BY <1>1, Zenon
  <2>3. ASSUME NEW k \in DOMAIN t.jobs, Reacting(t, k)
        PROVE  /\ t.jobs[k].id \in DOMAIN t.reactions /\ t.reactions[t.jobs[k].id].ran = 0
               /\ t.promises[OwnerOf(t, t.jobs[k].id)].state # "pending"
               /\ \A l \in DOMAIN t.jobs :
                    Reacting(t, l) /\ k < l /\ OwnerOf(t, t.jobs[k].id) = OwnerOf(t, t.jobs[l].id)
                      => t.jobs[k].id < t.jobs[l].id
    <3>1. CASE k = a + 1
      <4>1. \A l \in DOMAIN t.jobs : ~(k < l)
        BY <1>2, <3>1
      <4> QED  BY <1>1, <1>2, <3>1, <4>1
    <3>2. CASE k \in 1 .. a
      <4>1. Reacting(s, k) /\ s.jobs[k].id \in DOMAIN s.reactions /\ t.jobs[k] = s.jobs[k]
        BY <1>2, <1>5, <2>1, <2>3, <3>2
      <4>2. /\ t.jobs[k].id \in DOMAIN t.reactions /\ t.reactions[t.jobs[k].id].ran = 0
            /\ t.promises[OwnerOf(t, t.jobs[k].id)].state # "pending"
        BY <1>1, <2>1, <2>2, <4>1
      <4>3. ASSUME NEW l \in DOMAIN t.jobs, Reacting(t, l), k < l,
                   OwnerOf(t, t.jobs[k].id) = OwnerOf(t, t.jobs[l].id)
            PROVE  t.jobs[k].id < t.jobs[l].id
        <5>1. CASE l = a + 1
          BY <1>1, <1>2, <4>1, <5>1
        <5>2. CASE l \in 1 .. a
          <6>1. Reacting(s, l) /\ s.jobs[l].id \in DOMAIN s.reactions /\ t.jobs[l] = s.jobs[l]
            BY <1>2, <1>5, <2>1, <4>3, <5>2
          <6>2. OwnerOf(s, s.jobs[k].id) = OwnerOf(s, s.jobs[l].id)
            BY <1>1, <4>1, <4>3, <6>1
          <6> QED  BY <1>2, <2>1, <4>1, <4>3, <5>2, <6>1, <6>2
        <5> QED  BY <1>2, <1>3, <4>3, <5>1, <5>2, Zenon
      <4> QED  BY <4>2, <4>3, Zenon
    <3> QED  BY <1>2, <1>3, <2>3, <3>1, <3>2, Zenon
  <2> QED  BY <2>3, Zenon DEF JobsRight
<1>8. Placed(t)
  <2>1. PlaceOf(t, c + 1)
    <3>1. a + 1 \in DOMAIN t.jobs /\ t.jobs[a + 1].id = c + 1
      BY <1>2
    <3> QED  BY <1>1, <1>2, <1>5, <3>1, Zenon DEF PlaceOf
  <2>2. ASSUME NEW i \in DOMAIN s.reactions PROVE PlaceOf(t, i)
    <3>1. PlaceOf(s, i)
      BY <2>2, Zenon DEF Ordered, Placed
    <3>2. PICK z \in 1 .. n : z = OwnerOf(s, i) /\ z = OwnerOf(t, i) /\ t.reactions[i] = s.reactions[i]
      BY <1>1, <2>2
    <3>3. t.promises[z].state = s.promises[z].state /\ ListOf(t, z) = ListOf(s, z)
      BY <1>1, <1>2, <3>2
    <3>4. ASSUME NEW k \in DOMAIN s.jobs, Reacting(s, k), s.jobs[k].id = i
          PROVE  k \in DOMAIN t.jobs /\ Reacting(t, k) /\ t.jobs[k].id = i
      BY <1>2, <1>4, <1>5, <3>4
    <3> QED  BY <3>1, <3>2, <3>3, <3>4, Zenon DEF PlaceOf
  <2> QED  BY <1>1, <2>1, <2>2, Zenon DEF Placed
<1>9. RanRight(t)
  <2>1. ASSUME NEW i \in DOMAIN t.reactions, NEW j \in DOMAIN t.reactions, i < j,
               OwnerOf(t, i) = OwnerOf(t, j), t.reactions[j].ran > 0
        PROVE  t.reactions[i].ran > 0
    <3>1. j \in DOMAIN s.reactions
      BY <1>1, <2>1
    <3>2. i # c + 1
      <4>1. DOMAIN s.reactions = 1 .. c /\ DOMAIN t.reactions = 1 .. c + 1
        BY <1>0 DEF OneReactionMore
      <4> QED  BY <2>1, <3>1, <4>1
    <3>3. i \in DOMAIN s.reactions
      BY <1>1, <2>1, <3>2
    <3>4. t.reactions[i] = s.reactions[i] /\ t.reactions[j] = s.reactions[j]
          /\ OwnerOf(s, i) = OwnerOf(s, j)
      BY <1>1, <2>1, <3>1, <3>3
    <3> QED  BY <2>1, <3>1, <3>3, <3>4 DEF Ordered, RanRight
  <2> QED  BY <2>1, Zenon DEF RanRight
<1> QED  BY <1>6, <1>7, <1>8, <1>9 DEF Ordered

(* A reaction that waits. *)
LEMMA WaitsFollows ==
  ASSUME NEW n \in Nat, NEW m \in Nat, NEW s, GoodHeap(s, n, m), Ordered(s), NEW p \in 1 .. n,
         NEW pub, NEW hole, Following(s, pub, hole), NEW x, FitsPromise(s, x, p, hole),
         NEW t, NEW c \in Nat, NEW b \in Nat, WaitsAs(s, t, p, x, c, b)
  PROVE  Following(t, pub, 0)
<1>0. OneReactionMore(s, t, p, x, c)
  BY DEF WaitsAs
<1>1. /\ DOMAIN s.promises = 1 .. n /\ DOMAIN t.promises = 1 .. n
      /\ \A i \in DOMAIN s.reactions : OwnerOf(t, i) = OwnerOf(s, i) /\ OwnerOf(s, i) \in 1 .. n
      /\ \A z \in 1 .. n : z # p => ListOf(t, z) = ListOf(s, z)
      /\ \A z \in 1 .. n : /\ t.promises[z].state = s.promises[z].state
                           /\ t.promises[z].result = s.promises[z].result
                           /\ t.promises[z].adopts = s.promises[z].adopts
      /\ \A r : Unused(t, r) <=> Unused(s, r)
      /\ \A r : Unused(s, r) => AdoptsOf(t, r) = AdoptsOf(s, r)
  <2>1. /\ DOMAIN s.promises = 1 .. n /\ DOMAIN t.promises = 1 .. n
        /\ \A i \in DOMAIN s.reactions :
              i \in DOMAIN t.reactions /\ i # c + 1 /\ i < c + 1 /\ t.reactions[i] = s.reactions[i]
              /\ OwnerOf(t, i) = OwnerOf(s, i) /\ OwnerOf(s, i) \in 1 .. n
        /\ \A z \in 1 .. n : z # p => ListOf(t, z) = ListOf(s, z)
        /\ \A z \in 1 .. n : /\ t.promises[z].state = s.promises[z].state
                             /\ t.promises[z].result = s.promises[z].result
                             /\ t.promises[z].adopts = s.promises[z].adopts
        /\ \A r : Unused(t, r) <=> Unused(s, r)
        /\ \A r : Unused(s, r) => AdoptsOf(t, r) = AdoptsOf(s, r)
    BY <1>0, OneMoreFacts
  <2> QED  BY <2>1, Zenon
<1>2. /\ t.jobs = s.jobs /\ t.resolvers = s.resolvers
      /\ DOMAIN ListOf(s, p) = 1 .. b /\ DOMAIN ListOf(t, p) = 1 .. b + 1
      /\ \A k \in 1 .. b : ListOf(t, p)[k] = ListOf(s, p)[k]
      /\ ListOf(t, p)[b + 1] = x
  BY <1>0 DEF WaitsAs, OneReactionMore
<1>3. \A k : (Reacting(t, k) <=> Reacting(s, k)) /\ (Adopting(t, k) <=> Adopting(s, k))
  BY <1>2, Zenon DEF Reacting, Adopting
<1>4. \A z \in 1 .. n : \A k \in DOMAIN ListOf(t, z) :
        \/ z = p /\ ListOf(t, z)[k] = x
        \/ k \in DOMAIN ListOf(s, z) /\ ListOf(t, z)[k] = ListOf(s, z)[k]
  <2>1. \A k \in 1 .. b + 1 : k = b + 1 \/ k \in 1 .. b
    OBVIOUS
  <2> QED  BY <1>1, <1>2, <2>1
<1>5. \A z \in 1 .. n : \A k \in DOMAIN ListOf(s, z) :
        k \in DOMAIN ListOf(t, z) /\ ListOf(t, z)[k] = ListOf(s, z)[k]
  <2>1. \A k \in 1 .. b : k \in 1 .. b + 1
    OBVIOUS
  <2> QED  BY <1>1, <1>2, <2>1
<1>6. ResultsRight(t)
  BY <1>1, Zenon DEF Following, ResultsRight
<1>7. AdoptJobs(t)
  <2>1. \A k : Adopting(s, k) => s.jobs[k].promise \in 1 .. n
    BY HeapRanges
  <2>2. ASSUME NEW k \in DOMAIN t.jobs, Adopting(t, k)
        PROVE  t.promises[t.jobs[k].promise].adopts = IF IsPromise(t.jobs[k].arg) THEN t.jobs[k].arg ELSE 0
    <3>1. Adopting(s, k) /\ t.jobs[k] = s.jobs[k]
      BY <1>2, <1>3, <2>2, Zenon
    <3>2. s.promises[s.jobs[k].promise].adopts = IF IsPromise(s.jobs[k].arg) THEN s.jobs[k].arg ELSE 0
      BY <1>2, <2>2, <3>1, Zenon DEF Following, AdoptJobs
    <3>3. t.promises[s.jobs[k].promise].adopts = s.promises[s.jobs[k].promise].adopts
      BY <1>1, <2>1, <3>1, Zenon
    <3> QED  BY <3>1, <3>2, <3>3, Zenon
  <2> QED  BY <2>2, Zenon DEF AdoptJobs
<1>8. ListAdopts(t)
  <2>1. ASSUME NEW z \in DOMAIN t.promises, NEW k \in DOMAIN ListOf(t, z)
        PROVE  /\ Paired(ListOf(t, z)[k])
               /\ ListOf(t, z)[k].onF.kind \in Settling /\ Unused(t, ListOf(t, z)[k].onF.r)
                    => AdoptsOf(t, ListOf(t, z)[k].onF.r) = z
    <3>1. CASE z = p /\ ListOf(t, z)[k] = x
      BY <1>1, <3>1, Zenon DEF FitsPromise
    <3>2. CASE k \in DOMAIN ListOf(s, z) /\ ListOf(t, z)[k] = ListOf(s, z)[k]
      <4>1. /\ Paired(ListOf(s, z)[k])
            /\ ListOf(s, z)[k].onF.kind \in Settling /\ Unused(s, ListOf(s, z)[k].onF.r)
                 => AdoptsOf(s, ListOf(s, z)[k].onF.r) = z
        BY <1>1, <2>1, <3>2, Zenon DEF Following, ListAdopts
      <4> QED  BY <1>1, <3>2, <4>1
    <3> QED  BY <1>1, <1>4, <2>1, <3>1, <3>2, Zenon
  <2> QED  BY <2>1, Zenon DEF ListAdopts
<1>9. JobAdopts(t)
  <2>1. ASSUME NEW k \in DOMAIN t.jobs, Reacting(t, k), t.jobs[k].handler.kind \in Settling,
               Unused(t, t.jobs[k].handler.r)
        PROVE  JobFits(t, k)
    <3>1. Reacting(s, k) /\ s.jobs[k].handler.kind \in Settling /\ Unused(s, s.jobs[k].handler.r)
      BY <1>1, <1>2, <1>3, <2>1, Zenon
    <3>2. JobFits(s, k) /\ s.jobs[k].id \in DOMAIN s.reactions
      BY <1>2, <2>1, <3>1, Zenon DEF Following, JobAdopts, Reacting, Ordered, JobsRight
    <3>3. AdoptsOf(t, s.jobs[k].handler.r) = AdoptsOf(s, s.jobs[k].handler.r)
      BY <1>1, <3>1, Zenon
    <3>4. PICK z \in 1 .. n : z = OwnerOf(s, s.jobs[k].id) /\ z = OwnerOf(t, t.jobs[k].id)
      BY <1>1, <1>2, <3>2
    <3> QED  BY <1>1, <1>2, <3>2, <3>3, <3>4 DEF JobFits
  <2> QED  BY <2>1, Zenon DEF JobAdopts
<1>10. AllFollow(t, 0)
  <2>1. ASSUME NEW z \in DOMAIN t.promises, t.promises[z].adopts # 0
        PROVE  t.promises[z].adopts \in DOMAIN t.promises /\ Follows(t, z, t.promises[z].adopts)
    <3>1. PICK q : q = s.promises[z].adopts
      OBVIOUS
    <3>2. z \in 1 .. n /\ t.promises[z].adopts = q
      BY <1>1, <2>1, <3>1, Zenon
    <3>3. CASE z = hole
      <4>1. z # 0
        BY <3>2
      <4>2. PICK r : /\ x.onF = Resolving("resolve", r) /\ Unused(s, r)
                     /\ s.resolvers[r].promise = hole /\ s.promises[hole].adopts = p
        BY <3>3, <4>1, Zenon DEF FitsPromise
      <4>3. q = p /\ r \in DOMAIN t.resolvers /\ Unused(t, r) /\ t.resolvers[r].promise = z
        BY <1>1, <1>2, <3>1, <3>3, <4>2 DEF Unused
      <4>4. b + 1 \in DOMAIN ListOf(t, q) /\ ListOf(t, q)[b + 1].onF = Resolving("resolve", r)
        BY <1>2, <4>2, <4>3
      <4>5. Follows(t, z, q)
        BY <4>3, <4>4, Zenon DEF Follows
      <4> QED  BY <1>1, <3>2, <4>3, <4>5, Zenon
    <3>4. CASE z # hole
      <4>1. q \in 1 .. n /\ Follows(s, z, q)
        BY <1>1, <2>1, <3>1, <3>2, <3>4, Zenon DEF Following, AllFollow
      <4>2. Follows(t, z, q)
        <5>1. CASE \E k \in DOMAIN s.jobs : Adopting(s, k) /\ s.jobs[k].promise = z
          BY <1>2, <1>3, <5>1, Zenon DEF Follows
        <5>2. ASSUME NEW r \in DOMAIN s.resolvers, Unused(s, r), s.resolvers[r].promise = z,
                     \E k \in DOMAIN ListOf(s, q) : ListOf(s, q)[k].onF = Resolving("resolve", r)
              PROVE  Follows(t, z, q)
          <6>1. \E k \in DOMAIN ListOf(t, q) : ListOf(t, q)[k].onF = Resolving("resolve", r)
            BY <1>5, <4>1, <5>2, Zenon
          <6>2. r \in DOMAIN t.resolvers /\ Unused(t, r) /\ t.resolvers[r].promise = z
            BY <1>1, <1>2, <5>2, Zenon
          <6> QED  BY <6>1, <6>2, Zenon DEF Follows
        <5>3. ASSUME NEW r \in DOMAIN s.resolvers, Unused(s, r), s.resolvers[r].promise = z,
                     \E k \in DOMAIN s.jobs : Reacting(s, k) /\ s.jobs[k].handler.kind \in Settling
                                              /\ s.jobs[k].handler.r = r
              PROVE  Follows(t, z, q)
          <6>1. \E k \in DOMAIN t.jobs : Reacting(t, k) /\ t.jobs[k].handler.kind \in Settling
                                         /\ t.jobs[k].handler.r = r
            BY <1>2, <1>3, <5>3, Zenon
          <6>2. r \in DOMAIN t.resolvers /\ Unused(t, r) /\ t.resolvers[r].promise = z
            BY <1>1, <1>2, <5>3, Zenon
          <6> QED  BY <6>1, <6>2, Zenon DEF Follows
        <5>4. CASE /\ s.promises[q].state # "pending" /\ s.promises[z].state = s.promises[q].state
                   /\ s.promises[z].result = s.promises[q].result
          BY <1>1, <3>2, <4>1, <5>4, Zenon DEF Follows
        <5> QED  BY <4>1, <5>1, <5>2, <5>3, <5>4, Zenon DEF Follows
      <4> QED  BY <1>1, <3>2, <4>1, <4>2, Zenon
    <3> QED  BY <3>3, <3>4
  <2> QED  BY <2>1, Zenon DEF AllFollow
<1>11. Public(t, pub)
  <2>1. Public(s, pub)
    BY DEF Following
  <2>2. ASSUME NEW z \in DOMAIN t.promises, NEW k \in DOMAIN ListOf(t, z), Unused(t, ListOf(t, z)[k].cap)
        PROVE  AdoptsOf(t, ListOf(t, z)[k].cap) = 0
    <3>1. CASE ListOf(t, z)[k] = x
      BY <1>1, <2>2, <3>1, Zenon DEF FitsPromise
    <3>2. CASE k \in DOMAIN ListOf(s, z) /\ ListOf(t, z)[k] = ListOf(s, z)[k]
      <4>1. Unused(s, ListOf(s, z)[k].cap) => AdoptsOf(s, ListOf(s, z)[k].cap) = 0
        BY <1>1, <2>1, <2>2, <3>2 DEF Public
      <4> QED  BY <1>1, <2>2, <3>2, <4>1
    <3> QED  BY <1>1, <1>4, <2>2, <3>1, <3>2, Zenon
  <2>3. ASSUME NEW k \in DOMAIN t.jobs, Reacting(t, k), Unused(t, t.jobs[k].cap)
        PROVE  AdoptsOf(t, t.jobs[k].cap) = 0
    BY <1>1, <1>2, <1>3, <2>1, <2>3, Zenon DEF Public
  <2>4. ASSUME NEW r \in pub, Unused(t, r) PROVE AdoptsOf(t, r) = 0
    BY <1>1, <2>1, <2>4, Zenon DEF Public
  <2> QED  BY <2>2, <2>3, <2>4, Zenon DEF Public
<1> QED  BY <1>6, <1>7, <1>8, <1>9, <1>10, <1>11, Zenon DEF Following

(* A reaction whose job is queued at once. *)
LEMMA QueuedFollows ==
  ASSUME NEW n \in Nat, NEW m \in Nat, NEW s, GoodHeap(s, n, m), Ordered(s), NEW p \in 1 .. n,
         NEW pub, NEW hole, Following(s, pub, hole), NEW x, FitsPromise(s, x, p, hole),
         NEW t, NEW c \in Nat, NEW a \in Nat, QueuedAs(s, t, p, x, c, a)
  PROVE  Following(t, pub, 0)
<1>0. OneReactionMore(s, t, p, x, c)
  BY DEF QueuedAs
<1>1. /\ DOMAIN s.promises = 1 .. n /\ DOMAIN t.promises = 1 .. n
      /\ \A i \in DOMAIN s.reactions : OwnerOf(t, i) = OwnerOf(s, i) /\ OwnerOf(s, i) \in 1 .. n
      /\ OwnerOf(t, c + 1) = p
      /\ \A z \in 1 .. n : z # p => ListOf(t, z) = ListOf(s, z)
      /\ \A z \in 1 .. n : /\ t.promises[z].state = s.promises[z].state
                           /\ t.promises[z].result = s.promises[z].result
                           /\ t.promises[z].adopts = s.promises[z].adopts
      /\ \A r : Unused(t, r) <=> Unused(s, r)
      /\ \A r : Unused(s, r) => AdoptsOf(t, r) = AdoptsOf(s, r)
  BY <1>0, OneMoreFacts
<1>2. /\ t.resolvers = s.resolvers /\ x.id = c + 1 /\ s.promises[p].state # "pending"
      /\ \A z \in 1 .. n : ListOf(t, z) = ListOf(s, z)
      /\ DOMAIN s.jobs = 1 .. a /\ DOMAIN t.jobs = 1 .. a + 1
      /\ \A k \in 1 .. a : t.jobs[k] = s.jobs[k]
      /\ JobOf(t.jobs[a + 1], x, s.promises[p].state, s.promises[p].result)
  BY <1>0, <1>1, Zenon DEF QueuedAs, OneReactionMore, JobsGrow
<1>3. s.promises[p].state \in {"fulfilled", "rejected"}
  <2>1. s.promises[p].state \in States
    BY HeapRanges
  <2> QED  BY <1>2, <2>1 DEF States
<1>4. /\ \A k \in 1 .. a + 1 : k = a + 1 \/ k \in 1 .. a
      /\ \A k \in 1 .. a : k \in 1 .. a + 1
      /\ a + 1 \in 1 .. a + 1
  OBVIOUS
<1>5. /\ t.jobs[a + 1].kind = "reaction" /\ t.jobs[a + 1].kind # "thenable"
      /\ t.jobs[a + 1].id = c + 1 /\ t.jobs[a + 1].cap = x.cap
      /\ t.jobs[a + 1].arg = s.promises[p].result
  BY <1>2 DEF JobOf
<1>6. /\ \A k \in 1 .. a : (Reacting(t, k) <=> Reacting(s, k)) /\ (Adopting(t, k) <=> Adopting(s, k))
      /\ Reacting(t, a + 1) /\ ~Adopting(t, a + 1)
      /\ \A k : Reacting(s, k) \/ Adopting(s, k) => k \in 1 .. a
  BY <1>2, <1>4, <1>5, Zenon DEF Reacting, Adopting
<1>7. \/ x.onF.kind \notin Settling /\ t.jobs[a + 1].handler.kind \notin Settling
      \/ /\ x.onF = Resolving("resolve", x.onF.r) /\ t.jobs[a + 1].handler.r = x.onF.r
         /\ x.onF.kind \in Settling /\ t.jobs[a + 1].handler.kind \in Settling
         /\ t.jobs[a + 1].handler.kind = "reject" <=> s.promises[p].state = "rejected"
  <2>1. Paired(x)
    BY DEF FitsPromise
  <2>2. CASE s.promises[p].state = "fulfilled"
    <3>1. t.jobs[a + 1].handler = x.onF
      BY <1>2, <2>2 DEF JobOf
    <3>2. x.onF.kind \notin Settling \/ x.onF = Resolving("resolve", x.onF.r)
      BY <2>1, Zenon DEF Paired
    <3> QED  BY <2>2, <3>1, <3>2 DEF Resolving, Settling
  <2>3. CASE s.promises[p].state = "rejected"
    <3>1. t.jobs[a + 1].handler = x.onR
      BY <1>2, <2>3 DEF JobOf
    <3>2. \/ x.onF.kind \notin Settling /\ x.onR.kind \notin Settling
          \/ x.onF = Resolving("resolve", x.onF.r) /\ x.onR = Resolving("reject", x.onF.r)
      BY <2>1, Zenon DEF Paired
    <3>3. CASE x.onF = Resolving("resolve", x.onF.r) /\ x.onR = Resolving("reject", x.onF.r)
      BY <2>3, <3>1, <3>3 DEF Resolving, Settling
    <3> QED  BY <3>1, <3>2, <3>3
  <2> QED  BY <1>3, <2>2, <2>3
<1>8. ResultsRight(t)
  BY <1>1, Zenon DEF Following, ResultsRight
<1>9. AdoptJobs(t)
  <2>1. \A k : Adopting(s, k) => s.jobs[k].promise \in 1 .. n
    BY HeapRanges
  <2>2. ASSUME NEW k \in DOMAIN t.jobs, Adopting(t, k)
        PROVE  t.promises[t.jobs[k].promise].adopts = IF IsPromise(t.jobs[k].arg) THEN t.jobs[k].arg ELSE 0
    <3>1. k \in 1 .. a
      BY <1>2, <1>4, <1>6, <2>2, Zenon
    <3>2. Adopting(s, k) /\ t.jobs[k] = s.jobs[k]
      BY <1>2, <1>6, <2>2, <3>1, Zenon
    <3>3. s.promises[s.jobs[k].promise].adopts = IF IsPromise(s.jobs[k].arg) THEN s.jobs[k].arg ELSE 0
      BY <1>2, <3>1, <3>2, Zenon DEF Following, AdoptJobs
    <3>4. t.promises[s.jobs[k].promise].adopts = s.promises[s.jobs[k].promise].adopts
      BY <1>1, <2>1, <3>2, Zenon
    <3> QED  BY <3>2, <3>3, <3>4, Zenon
  <2> QED  BY <2>2, Zenon DEF AdoptJobs
<1>10. ListAdopts(t)
  <2>1. ASSUME NEW z \in DOMAIN t.promises, NEW k \in DOMAIN ListOf(t, z)
        PROVE  /\ Paired(ListOf(t, z)[k])
               /\ ListOf(t, z)[k].onF.kind \in Settling /\ Unused(t, ListOf(t, z)[k].onF.r)
                    => AdoptsOf(t, ListOf(t, z)[k].onF.r) = z
    <3>1. ListOf(t, z) = ListOf(s, z)
      BY <1>1, <1>2, <2>1, Zenon
    <3>2. /\ Paired(ListOf(s, z)[k])
          /\ ListOf(s, z)[k].onF.kind \in Settling /\ Unused(s, ListOf(s, z)[k].onF.r)
               => AdoptsOf(s, ListOf(s, z)[k].onF.r) = z
      BY <1>1, <2>1, <3>1 DEF Following, ListAdopts
    <3> QED  BY <1>1, <3>1, <3>2
  <2> QED  BY <2>1, Zenon DEF ListAdopts
<1>11. JobAdopts(t)
  <2>1. ASSUME NEW k \in DOMAIN t.jobs, Reacting(t, k), t.jobs[k].handler.kind \in Settling,
               Unused(t, t.jobs[k].handler.r)
        PROVE  JobFits(t, k)
    <3>1. CASE k = a + 1
      <4>1. /\ x.onF.kind \in Settling /\ t.jobs[k].handler.r = x.onF.r
            /\ t.jobs[k].handler.kind = "reject" <=> s.promises[p].state = "rejected"
        BY <1>7, <2>1, <3>1
      <4>2. AdoptsOf(t, x.onF.r) = p
        BY <1>1, <2>1, <4>1 DEF FitsPromise
      <4>3. OwnerOf(t, t.jobs[k].id) = p /\ t.promises[p].result = s.promises[p].result
            /\ t.promises[p].state = s.promises[p].state
        BY <1>1, <1>5, <3>1
      <4> QED  BY <1>5, <3>1, <4>1, <4>2, <4>3 DEF JobFits
    <3>2. CASE k \in 1 .. a
      <4>1. /\ Reacting(s, k) /\ s.jobs[k].handler.kind \in Settling /\ t.jobs[k] = s.jobs[k]
            /\ Unused(s, s.jobs[k].handler.r)
        BY <1>1, <1>2, <1>6, <2>1, <3>2, Zenon
      <4>2. JobFits(s, k) /\ s.jobs[k].id \in DOMAIN s.reactions
        BY <1>2, <3>2, <4>1, Zenon DEF Following, JobAdopts, Reacting, Ordered, JobsRight
      <4>3. AdoptsOf(t, s.jobs[k].handler.r) = AdoptsOf(s, s.jobs[k].handler.r)
        BY <1>1, <4>1, Zenon
      <4>4. PICK z \in 1 .. n : z = OwnerOf(s, s.jobs[k].id) /\ z = OwnerOf(t, t.jobs[k].id)
        BY <1>1, <4>1, <4>2
      <4> QED  BY <1>1, <4>1, <4>2, <4>3, <4>4 DEF JobFits
    <3> QED  BY <1>2, <1>4, <2>1, <3>1, <3>2, Zenon
  <2> QED  BY <2>1, Zenon DEF JobAdopts
<1>12. AllFollow(t, 0)
  <2>1. ASSUME NEW z \in DOMAIN t.promises, t.promises[z].adopts # 0
        PROVE  t.promises[z].adopts \in DOMAIN t.promises /\ Follows(t, z, t.promises[z].adopts)
    <3>1. PICK q : q = s.promises[z].adopts
      OBVIOUS
    <3>2. z \in 1 .. n /\ t.promises[z].adopts = q
      BY <1>1, <2>1, <3>1, Zenon
    <3>3. CASE z = hole
      <4>1. z # 0
        BY <3>2
      <4>2. PICK r : /\ x.onF = Resolving("resolve", r) /\ Unused(s, r)
                     /\ s.resolvers[r].promise = hole /\ s.promises[hole].adopts = p
        BY <3>3, <4>1, Zenon DEF FitsPromise
      <4>3. q = p /\ r \in DOMAIN t.resolvers /\ Unused(t, r) /\ t.resolvers[r].promise = z
        BY <1>1, <1>2, <3>1, <3>3, <4>2 DEF Unused
      <4>4. x.onF.kind \in Settling /\ x.onF.r = r
        BY <4>2 DEF Resolving, Settling
      <4>5. /\ a + 1 \in DOMAIN t.jobs /\ Reacting(t, a + 1) /\ t.jobs[a + 1].handler.kind \in Settling
            /\ t.jobs[a + 1].handler.r = r
        BY <1>2, <1>4, <1>6, <1>7, <4>4
      <4>6. Follows(t, z, q)
        BY <4>3, <4>5, Zenon DEF Follows
      <4> QED  BY <1>1, <3>2, <4>3, <4>6, Zenon
    <3>4. CASE z # hole
      <4>1. q \in 1 .. n /\ Follows(s, z, q)
        BY <1>1, <2>1, <3>1, <3>2, <3>4, Zenon DEF Following, AllFollow
      <4>2. Follows(t, z, q)
        <5>1. ASSUME NEW k \in DOMAIN s.jobs, Adopting(s, k), s.jobs[k].promise = z
              PROVE  Follows(t, z, q)
          <6>1. k \in DOMAIN t.jobs /\ Adopting(t, k) /\ t.jobs[k].promise = z
            BY <1>2, <1>4, <1>6, <5>1
          <6> QED  BY <6>1, Zenon DEF Follows
        <5>2. ASSUME NEW r \in DOMAIN s.resolvers, Unused(s, r), s.resolvers[r].promise = z,
                     \E k \in DOMAIN ListOf(s, q) : ListOf(s, q)[k].onF = Resolving("resolve", r)
              PROVE  Follows(t, z, q)
          <6>1. \E k \in DOMAIN ListOf(t, q) : ListOf(t, q)[k].onF = Resolving("resolve", r)
            BY <1>2, <4>1, <5>2
          <6>2. r \in DOMAIN t.resolvers /\ Unused(t, r) /\ t.resolvers[r].promise = z
            BY <1>1, <1>2, <5>2, Zenon
          <6> QED  BY <6>1, <6>2, Zenon DEF Follows
        <5>3. ASSUME NEW r \in DOMAIN s.resolvers, Unused(s, r), s.resolvers[r].promise = z,
                     NEW k \in DOMAIN s.jobs, Reacting(s, k), s.jobs[k].handler.kind \in Settling,
                     s.jobs[k].handler.r = r
              PROVE  Follows(t, z, q)
          <6>1. k \in DOMAIN t.jobs /\ Reacting(t, k) /\ t.jobs[k].handler.kind \in Settling
                /\ t.jobs[k].handler.r = r
            BY <1>2, <1>4, <1>6, <5>3
          <6>2. r \in DOMAIN t.resolvers /\ Unused(t, r) /\ t.resolvers[r].promise = z
            BY <1>1, <1>2, <5>3, Zenon
          <6> QED  BY <6>1, <6>2, Zenon DEF Follows
        <5>4. CASE /\ s.promises[q].state # "pending" /\ s.promises[z].state = s.promises[q].state
                   /\ s.promises[z].result = s.promises[q].result
          BY <1>1, <3>2, <4>1, <5>4, Zenon DEF Follows
        <5> QED  BY <4>1, <5>1, <5>2, <5>3, <5>4, Zenon DEF Follows
      <4> QED  BY <1>1, <3>2, <4>1, <4>2, Zenon
    <3> QED  BY <3>3, <3>4
  <2> QED  BY <2>1, Zenon DEF AllFollow
<1>13. Public(t, pub)
  <2>1. Public(s, pub)
    BY DEF Following
  <2>2. ASSUME NEW z \in DOMAIN t.promises, NEW k \in DOMAIN ListOf(t, z), Unused(t, ListOf(t, z)[k].cap)
        PROVE  AdoptsOf(t, ListOf(t, z)[k].cap) = 0
    <3>1. ListOf(t, z) = ListOf(s, z)
      BY <1>1, <1>2, <2>2, Zenon
    <3>2. Unused(s, ListOf(s, z)[k].cap) => AdoptsOf(s, ListOf(s, z)[k].cap) = 0
      BY <1>1, <2>1, <2>2, <3>1 DEF Public
    <3> QED  BY <1>1, <2>2, <3>1, <3>2
  <2>3. ASSUME NEW k \in DOMAIN t.jobs, Reacting(t, k), Unused(t, t.jobs[k].cap)
        PROVE  AdoptsOf(t, t.jobs[k].cap) = 0
    <3>1. CASE k = a + 1
      BY <1>1, <1>5, <2>3, <3>1 DEF FitsPromise
    <3>2. CASE k \in 1 .. a
      BY <1>1, <1>2, <1>6, <2>1, <2>3, <3>2 DEF Public
    <3> QED  BY <1>2, <1>4, <2>3, <3>1, <3>2, Zenon
  <2>4. ASSUME NEW r \in pub, Unused(t, r) PROVE AdoptsOf(t, r) = 0
    BY <1>1, <2>1, <2>4, Zenon DEF Public
  <2> QED  BY <2>2, <2>3, <2>4, Zenon DEF Public
<1> QED  BY <1>8, <1>9, <1>10, <1>11, <1>12, <1>13, Zenon DEF Following

(* perform_promise_then does one of these two. *)
LEMMA WithReactionEffect ==
  ASSUME NEW n \in Nat, NEW m \in Nat, NEW s, GoodHeap(s, n, m), NEW p \in 1 .. n,
         NEW onF \in HandlersOf(m), NEW onR \in HandlersOf(m), NEW cap \in 0 .. m,
         NEW t, t = WithReaction(s, p, onF, onR, cap),
         NEW x, x = [onF |-> onF, onR |-> onR, cap |-> cap, id |-> Len(s.reactions) + 1]
  PROVE  \E c \in Nat : \/ \E b \in Nat : WaitsAs(s, t, p, x, c, b)
                        \/ \E a \in Nat : QueuedAs(s, t, p, x, c, a)
<1>1. PICK y : y = [promise |-> p, ran |-> 0]
  OBVIOUS
<1>2. PICK q : q = s.promises[p]
  OBVIOUS
<1>3. Shaped(s, n, m)
  BY DEF GoodHeap
<1>4. /\ s.promises \in Seq(PromisesOf(n, m)) /\ s.jobs \in Seq(JobsOf(n, m))
      /\ s.reactions \in Seq(HistoryOf(n)) /\ DOMAIN s.promises = 1 .. n /\ q \in PromisesOf(n, m)
  BY <1>2, <1>3, HeapFields
<1>5. PICK c \in Nat : c = Len(s.reactions) /\ DOMAIN s.reactions = 1 .. c
  BY <1>4
<1>6. /\ x \in ReactionsOf(m) /\ y \in HistoryOf(n) /\ y.promise = p /\ y.ran = 0 /\ x.id = c + 1
  BY <1>1, <1>5 DEF ReactionsOf, HistoryOf
<1>7. Longer(HistoryOf(n), s.reactions, c, y, Append(s.reactions, y))
  BY <1>4, <1>5, <1>6, AppendElements
<1>8. q.list \in Seq(ReactionsOf(m)) /\ q.result \in ValuesOf(n)
  BY <1>4 DEF PromisesOf
<1>9. ASSUME NEW w, t.promises = [s.promises EXCEPT ![p] = w], w.state = q.state, w.result = q.result,
             w.adopts = q.adopts, t.resolvers = s.resolvers, t.reactions = Append(s.reactions, y)
      PROVE  OneReactionMore(s, t, p, x, c)
  <2>1. /\ DOMAIN t.promises = 1 .. n
        /\ \A z \in 1 .. n : t.promises[z] = IF z = p THEN w ELSE s.promises[z]
    BY <1>4, <1>9
  <2>2. /\ DOMAIN t.reactions = 1 .. c + 1 /\ t.reactions[c + 1] = y
        /\ \A i \in 1 .. c : t.reactions[i] = s.reactions[i]
    BY <1>7, <1>9 DEF Longer
  <2>3. \A z \in 1 .. n : z # p => t.promises[z] = s.promises[z]
    BY <2>1
  <2>4. t.promises[p] = w
    BY <2>1
  <2> QED  BY <1>2, <1>4, <1>5, <1>6, <1>9, <2>1, <2>2, <2>3, <2>4, Zenon DEF OneReactionMore
<1>0. ReactionMade(s, p, x, y, q, t)
  BY <1>1, <1>2, <1>3, WithReactionForms
<1>10. CASE q.state = "pending"
  <2>1. PICK l : l = Append(q.list, x)
    OBVIOUS
  <2>2. PICK w : w = [q EXCEPT !.handled = TRUE, !.list = l]
    OBVIOUS
  <2>3. /\ w.state = q.state /\ w.result = q.result /\ w.adopts = q.adopts /\ w.list = l
    BY <1>4, <2>2 DEF PromisesOf
  <2>4. t = [s EXCEPT !.reactions = Append(s.reactions, y), !.promises[p] = w]
    BY <1>0, <1>10, <2>1, <2>2 DEF ReactionMade
  <2>5. /\ t.promises = [s.promises EXCEPT ![p] = w] /\ t.resolvers = s.resolvers
        /\ t.jobs = s.jobs /\ t.reactions = Append(s.reactions, y)
    BY <1>3, <2>4 DEF Shaped, HeapsOf
  <2>6. OneReactionMore(s, t, p, x, c)
    BY <1>9, <2>3, <2>5, Zenon
  <2>7. t.promises[p] = w
    BY <1>4, <2>5
  <2>8. PICK b \in Nat : b = Len(q.list) /\ DOMAIN q.list = 1 .. b
    BY <1>8
  <2>9. Longer(ReactionsOf(m), q.list, b, x, l)
    BY <1>6, <1>8, <2>1, <2>8, AppendElements
  <2>10. /\ DOMAIN l = 1 .. b + 1 /\ l[b + 1] = x /\ \A k \in 1 .. b : l[k] = q.list[k]
    BY <2>9 DEF Longer
  <2>11. ListOf(s, p) = q.list /\ ListOf(t, p) = l
    BY <1>2, <2>3, <2>7 DEF ListOf
  <2>12. WaitsAs(s, t, p, x, c, b)
    BY <1>2, <1>10, <2>5, <2>6, <2>8, <2>10, <2>11 DEF WaitsAs
  <2> QED  BY <1>5, <2>8, <2>12
<1>11. CASE q.state # "pending"
  <2>1. PICK j : j = ReactionJob(x, q.state = "rejected", q.result)
    OBVIOUS
  <2>2. PICK w : w = [q EXCEPT !.handled = TRUE]
    OBVIOUS
  <2>3. /\ w.state = q.state /\ w.result = q.result /\ w.adopts = q.adopts /\ w.list = q.list
    BY <1>4, <2>2 DEF PromisesOf
  <2>4. PICK rest : rest = IF q.state = "rejected" /\ ~q.handled THEN s.unhandled \ {p} ELSE s.unhandled
    OBVIOUS
  <2>5. JobsNow(x, q) = <<j>>
    BY <2>1 DEF JobsNow
  <2>6. t = [s EXCEPT !.reactions = Append(s.reactions, y), !.promises[p] = w, !.unhandled = rest,
                      !.jobs = Queued(s.jobs, <<j>>)]
    <3>1. t = [s EXCEPT !.reactions = Append(s.reactions, y),
                        !.promises[p] = [q EXCEPT !.handled = TRUE],
                        !.unhandled = IF q.state = "rejected" /\ ~q.handled THEN s.unhandled \ {p}
                                      ELSE s.unhandled,
                        !.jobs = Queued(s.jobs, JobsNow(x, q))]
      BY <1>0, <1>11 DEF ReactionMade
    <3> QED  BY <2>2, <2>4, <2>5, <3>1
  <2>7. /\ t.promises = [s.promises EXCEPT ![p] = w] /\ t.resolvers = s.resolvers
        /\ t.jobs = Queued(s.jobs, <<j>>) /\ t.reactions = Append(s.reactions, y)
    BY <1>3, <2>6 DEF Shaped, HeapsOf
  <2>8. OneReactionMore(s, t, p, x, c)
    BY <1>9, <2>3, <2>7, Zenon
  <2>9. t.promises[p] = w
    BY <1>4, <2>7
  <2>10. ListOf(t, p) = ListOf(s, p)
    BY <1>2, <2>3, <2>9 DEF ListOf
  <2>11. j \in JobsOf(n, m) /\ JobOf(j, x, q.state, q.result)
    <3>1. PICK rj \in BOOLEAN : rj = (q.state = "rejected")
      OBVIOUS
    <3>2. j = ReactionJob(x, rj, q.result)
      BY <2>1, <3>1
    <3>3. q.state = AfterState(rj)
      <4>1. q.state \in States
        BY <1>4 DEF PromisesOf
      <4> QED  BY <1>11, <3>1, <4>1 DEF AfterState, States
    <3>4. JobOf(j, x, AfterState(rj), q.result)
      BY <3>1, <3>2, ReactionJobIs
    <3>5. j \in JobsOf(n, m)
      BY <1>6, <1>8, <3>1, <3>2, ReactionJobShape
    <3> QED  BY <3>3, <3>4, <3>5
  <2>12. <<j>> \in Seq(JobsOf(n, m)) /\ Len(<<j>>) = 1 /\ <<j>>[1] = j
    BY <2>11
  <2>13. PICK a \in Nat, e \in Nat : JoinedAs(s.jobs, <<j>>, t.jobs, a, e)
    <3>1. \E a, e \in Nat : JoinedAs(s.jobs, <<j>>, Queued(s.jobs, <<j>>), a, e)
      BY <1>4, <2>12, QueuedElements
    <3> QED  BY <2>7, <3>1
  <2>14. e = 1 /\ 1 \in 1 .. e
    BY <2>12, <2>13 DEF JoinedAs
  <2>15. JobsGrow(s, t, a, 1) /\ t.jobs[a + 1] = j
    BY <2>12, <2>13, <2>14, Zenon DEF JobsGrow, JoinedAs
  <2>16. QueuedAs(s, t, p, x, c, a)
    BY <1>2, <1>11, <2>8, <2>10, <2>11, <2>15 DEF QueuedAs
  <2> QED  BY <1>5, <2>13, <2>16
<1> QED  BY <1>10, <1>11

(* perform_promise_then keeps the reactions and the following in order. *)
LEMMA WithReactionRight ==
  ASSUME NEW n \in Nat, NEW m \in Nat, NEW s, GoodHeap(s, n, m), Ordered(s), NEW p \in 1 .. n,
         NEW onF \in HandlersOf(m), NEW onR \in HandlersOf(m), NEW cap \in 0 .. m,
         NEW pub, NEW hole, Following(s, pub, hole),
         NEW x, x = [onF |-> onF, onR |-> onR, cap |-> cap, id |-> Len(s.reactions) + 1],
         FitsPromise(s, x, p, hole), NEW t, t = WithReaction(s, p, onF, onR, cap)
  PROVE  Ordered(t) /\ Following(t, pub, 0)
<1>1. \E c \in Nat : \/ \E b \in Nat : WaitsAs(s, t, p, x, c, b)
                     \/ \E a \in Nat : QueuedAs(s, t, p, x, c, a)
  BY WithReactionEffect
<1>2. PICK c \in Nat : \/ \E b \in Nat : WaitsAs(s, t, p, x, c, b)
                       \/ \E a \in Nat : QueuedAs(s, t, p, x, c, a)
  BY <1>1, Zenon
<1>3. ASSUME NEW b \in Nat, WaitsAs(s, t, p, x, c, b) PROVE Ordered(t) /\ Following(t, pub, 0)
  BY <1>3, WaitsOrdered, WaitsFollows
<1>4. ASSUME NEW a \in Nat, QueuedAs(s, t, p, x, c, a) PROVE Ordered(t) /\ Following(t, pub, 0)
  BY <1>4, QueuedOrdered, QueuedFollows
<1> QED  BY <1>2, <1>3, <1>4, Zenon

-----------------------------------------------------------------------------
(* JS_ExecutePendingJob.                                                   *)

(* The first job is taken off the queue, and its reaction, if it is one of
   a promise, has run. *)
JobShift(s, t, c) ==
  /\ t.promises = s.promises /\ t.resolvers = s.resolvers
  /\ DOMAIN s.jobs = 1 .. c + 1 /\ DOMAIN t.jobs = 1 .. c
  /\ \A k \in 1 .. c : t.jobs[k] = s.jobs[k + 1]
  /\ DOMAIN t.reactions = DOMAIN s.reactions
  /\ \A i \in DOMAIN s.reactions : OwnerOf(t, i) = OwnerOf(s, i)
RanNow(s, t) ==
  \A i \in DOMAIN s.reactions :
    t.reactions[i].ran = IF Reacting(s, 1) /\ s.jobs[1].id = i THEN s.reactions[i].ran + 1
                         ELSE s.reactions[i].ran

Shifted(s, t, n, c) ==
  /\ DOMAIN s.promises = 1 .. n /\ DOMAIN t.promises = 1 .. n
  /\ \A k \in 1 .. c : /\ k + 1 \in DOMAIN s.jobs /\ 1 < k + 1 /\ k + 1 # 1
                       /\ (Reacting(t, k) <=> Reacting(s, k + 1))
                       /\ (Adopting(t, k) <=> Adopting(s, k + 1)) /\ t.jobs[k] = s.jobs[k + 1]
  /\ \A k \in DOMAIN s.jobs : k = 1 \/ \E l \in 1 .. c : k = l + 1
  /\ \A z : ListOf(t, z) = ListOf(s, z)
  /\ \A i \in DOMAIN s.reactions :
       i \in DOMAIN t.reactions /\ OwnerOf(t, i) = OwnerOf(s, i) /\ OwnerOf(s, i) \in 1 .. n
  /\ \A r : (Unused(t, r) <=> Unused(s, r)) /\ AdoptsOf(t, r) = AdoptsOf(s, r)
(* Taking a job off the queue moves the others up and changes no promise. *)
LEMMA ShiftFacts ==
  ASSUME NEW n \in Nat, NEW m \in Nat, NEW s, GoodHeap(s, n, m), NEW t, NEW c \in Nat, JobShift(s, t, c)
  PROVE  Shifted(s, t, n, c)
<1>1. /\ DOMAIN s.promises = 1 .. n /\ \A i \in DOMAIN s.reactions : s.reactions[i].promise \in 1 .. n
  BY HeapRanges
<1>2. \A k \in 1 .. c : k + 1 \in DOMAIN s.jobs /\ 1 < k + 1 /\ k + 1 # 1
  BY DEF JobShift
<1>3. \A k \in DOMAIN s.jobs : k = 1 \/ \E l \in 1 .. c : k = l + 1
  <2>1. ASSUME NEW k \in DOMAIN s.jobs, k # 1 PROVE k - 1 \in 1 .. c /\ k = (k - 1) + 1
    BY <2>1 DEF JobShift
  <2> QED  BY <2>1
<1>4. \A k \in 1 .. c : /\ (Reacting(t, k) <=> Reacting(s, k + 1))
                        /\ (Adopting(t, k) <=> Adopting(s, k + 1)) /\ t.jobs[k] = s.jobs[k + 1]
  BY <1>2, Zenon DEF JobShift, Reacting, Adopting
<1>5. \A z : ListOf(t, z) = ListOf(s, z)
  BY Zenon DEF JobShift, ListOf
<1>6. \A r : (Unused(t, r) <=> Unused(s, r)) /\ AdoptsOf(t, r) = AdoptsOf(s, r)
  BY Zenon DEF JobShift, Unused, AdoptsOf
<1>7. \A i \in DOMAIN s.reactions :
        i \in DOMAIN t.reactions /\ OwnerOf(t, i) = OwnerOf(s, i) /\ OwnerOf(s, i) \in 1 .. n
  BY <1>1, Zenon DEF JobShift, OwnerOf
<1>8. DOMAIN t.promises = 1 .. n
  BY <1>1 DEF JobShift
<1> QED  BY <1>1, <1>2, <1>3, <1>4, <1>5, <1>6, <1>7, <1>8, Zenon DEF Shifted

(* The first job of the queue has the first reaction of its promise that
   has not run: JS_ExecutePendingJob runs them in order. *)
LEMMA ShiftOrdered ==
  ASSUME NEW n \in Nat, NEW m \in Nat, NEW s, GoodHeap(s, n, m), Ordered(s),
         NEW t, NEW c \in Nat, JobShift(s, t, c), RanNow(s, t)
  PROVE  Ordered(t)
<1>1. /\ DOMAIN s.promises = 1 .. n /\ DOMAIN t.promises = 1 .. n
      /\ \A k \in 1 .. c : /\ k + 1 \in DOMAIN s.jobs /\ 1 < k + 1 /\ k + 1 # 1
                           /\ (Reacting(t, k) <=> Reacting(s, k + 1)) /\ t.jobs[k] = s.jobs[k + 1]
      /\ \A k \in DOMAIN s.jobs : k = 1 \/ \E l \in 1 .. c : k = l + 1
      /\ \A z : ListOf(t, z) = ListOf(s, z)
      /\ \A i \in DOMAIN s.reactions :
           i \in DOMAIN t.reactions /\ OwnerOf(t, i) = OwnerOf(s, i) /\ OwnerOf(s, i) \in 1 .. n
  <2>1. Shifted(s, t, n, c)
    BY ShiftFacts
  <2> QED  BY <2>1, Zenon DEF Shifted
<1>2. /\ t.promises = s.promises /\ DOMAIN t.jobs = 1 .. c /\ DOMAIN t.reactions = DOMAIN s.reactions
  BY DEF JobShift
<1>3. \A i \in DOMAIN s.reactions :
        \/ Reacting(s, 1) /\ s.jobs[1].id = i /\ t.reactions[i].ran = s.reactions[i].ran + 1
        \/ ~(Reacting(s, 1) /\ s.jobs[1].id = i) /\ t.reactions[i].ran = s.reactions[i].ran
  BY DEF RanNow
<1>4. \A k : Reacting(s, k) =>
        /\ s.jobs[k].id \in DOMAIN s.reactions /\ s.reactions[s.jobs[k].id].ran = 0
        /\ s.promises[OwnerOf(s, s.jobs[k].id)].state # "pending"
        /\ \A l \in DOMAIN s.jobs :
             Reacting(s, l) /\ k < l /\ OwnerOf(s, s.jobs[k].id) = OwnerOf(s, s.jobs[l].id)
               => s.jobs[k].id < s.jobs[l].id
  BY Zenon DEF Ordered, JobsRight, Reacting
<1>5. DOMAIN s.reactions \subseteq Nat
  BY HeapRanges
<1>6. \A k \in 1 .. c : Reacting(s, 1) /\ Reacting(s, k + 1) => s.jobs[1].id # s.jobs[k + 1].id
  <2>1. ASSUME NEW k \in 1 .. c, Reacting(s, 1), Reacting(s, k + 1), s.jobs[1].id = s.jobs[k + 1].id
        PROVE  FALSE
    <3>1. s.jobs[1].id < s.jobs[k + 1].id /\ s.jobs[1].id \in Nat
      BY <1>1, <1>4, <1>5, <2>1
    <3> QED  BY <2>1, <3>1
  <2> QED  BY <2>1, Zenon
<1>7. ListsRight(t)
  <2>1. ASSUME NEW z \in DOMAIN t.promises, NEW k \in DOMAIN ListOf(t, z)
        PROVE  /\ t.promises[z].state = "pending"
               /\ ListOf(t, z)[k].id \in DOMAIN t.reactions
               /\ OwnerOf(t, ListOf(t, z)[k].id) = z /\ t.reactions[ListOf(t, z)[k].id].ran = 0
               /\ \A l \in DOMAIN ListOf(t, z) : k < l => ListOf(t, z)[k].id < ListOf(t, z)[l].id
    <3>1. z \in 1 .. n /\ ListOf(t, z) = ListOf(s, z)
      BY <1>1, <2>1
    <3>2. /\ s.promises[z].state = "pending" /\ ListOf(s, z)[k].id \in DOMAIN s.reactions
          /\ OwnerOf(s, ListOf(s, z)[k].id) = z /\ s.reactions[ListOf(s, z)[k].id].ran = 0
          /\ \A l \in DOMAIN ListOf(s, z) : k < l => ListOf(s, z)[k].id < ListOf(s, z)[l].id
      BY <1>1, <2>1, <3>1 DEF Ordered, ListsRight
    <3>3. PICK d : d = ListOf(s, z)[k].id
      OBVIOUS
    <3>4. ~(Reacting(s, 1) /\ s.jobs[1].id = d)
      BY <1>4, <3>2, <3>3
    <3>5. t.reactions[d].ran = 0
      BY <1>3, <3>2, <3>3, <3>4
    <3> QED  BY <1>1, <1>2, <3>1, <3>2, <3>3, <3>5
  <2> QED  BY <2>1, Zenon DEF ListsRight
<1>8. JobsRight(t)
  <2>1. ASSUME NEW k \in DOMAIN t.jobs, Reacting(t, k)
        PROVE  /\ t.jobs[k].id \in DOMAIN t.reactions /\ t.reactions[t.jobs[k].id].ran = 0
               /\ t.promises[OwnerOf(t, t.jobs[k].id)].state # "pending"
               /\ \A l \in DOMAIN t.jobs :
                    Reacting(t, l) /\ k < l /\ OwnerOf(t, t.jobs[k].id) = OwnerOf(t, t.jobs[l].id)
                      => t.jobs[k].id < t.jobs[l].id
    <3>1. k \in 1 .. c /\ Reacting(s, k + 1) /\ t.jobs[k] = s.jobs[k + 1]
      BY <1>1, <1>2, <2>1
    <3>2. PICK d : d = s.jobs[k + 1].id
      OBVIOUS
    <3>3. d \in DOMAIN s.reactions /\ s.reactions[d].ran = 0 /\ s.promises[OwnerOf(s, d)].state # "pending"
      BY <1>4, <3>1, <3>2
    <3>4. t.reactions[d].ran = 0
      BY <1>3, <1>6, <3>1, <3>2, <3>3
    <3>5. ASSUME NEW l \in DOMAIN t.jobs, Reacting(t, l), k < l, OwnerOf(t, d) = OwnerOf(t, t.jobs[l].id)
          PROVE  d < t.jobs[l].id
      <4>1. l \in 1 .. c /\ Reacting(s, l + 1) /\ t.jobs[l] = s.jobs[l + 1] /\ l + 1 \in DOMAIN s.jobs
        BY <1>1, <1>2, <3>5
      <4>2. k + 1 < l + 1
        BY <3>1, <3>5, <4>1
      <4>3. s.jobs[l + 1].id \in DOMAIN s.reactions
        BY <1>4, <4>1
      <4>4. OwnerOf(s, d) = OwnerOf(s, s.jobs[l + 1].id)
        BY <1>1, <3>3, <3>5, <4>1, <4>3
      <4> QED  BY <1>4, <3>1, <3>2, <4>1, <4>2, <4>4
    <3>6. d \in DOMAIN t.reactions /\ t.promises[OwnerOf(t, d)].state # "pending"
      BY <1>1, <1>2, <3>3
    <3> QED  BY <3>1, <3>2, <3>4, <3>5, <3>6
  <2> QED  BY <2>1, Zenon DEF JobsRight
<1>9. Placed(t)
  <2>1. ASSUME NEW i \in DOMAIN s.reactions PROVE PlaceOf(t, i)
    <3>1. PlaceOf(s, i)
      BY <2>1, Zenon DEF Ordered, Placed
    <3>2. PICK z \in 1 .. n : z = OwnerOf(s, i) /\ z = OwnerOf(t, i)
      BY <1>1, <2>1
    <3>3. CASE s.promises[z].state = "pending"
      <4>1. s.reactions[i].ran = 0 /\ \E k \in DOMAIN ListOf(s, z) : ListOf(s, z)[k].id = i
        BY <3>1, <3>2, <3>3 DEF PlaceOf
      <4>2. ~(Reacting(s, 1) /\ s.jobs[1].id = i)
        BY <1>4, <3>2, <3>3
      <4>3. t.reactions[i].ran = 0 /\ t.promises[z].state = "pending"
        BY <1>2, <1>3, <2>1, <3>3, <4>1, <4>2
      <4>4. \E k \in DOMAIN ListOf(t, z) : ListOf(t, z)[k].id = i
        BY <1>1, <4>1
      <4> QED  BY <3>2, <4>3, <4>4, Zenon DEF PlaceOf
    <3>4. CASE s.promises[z].state # "pending"
      <4>1. t.promises[OwnerOf(t, i)].state # "pending"
        BY <1>2, <3>2, <3>4
      <4>2. s.reactions[i].ran = 1 \/ \E k \in DOMAIN s.jobs : Reacting(s, k) /\ s.jobs[k].id = i
        BY <3>1, <3>2, <3>4, Zenon DEF PlaceOf
      <4>3. CASE Reacting(s, 1) /\ s.jobs[1].id = i
        <5>1. s.reactions[i].ran = 0
          BY <1>4, <4>3
        <5>2. t.reactions[i].ran = 1
          BY <1>3, <2>1, <4>3, <5>1
        <5> QED  BY <4>1, <5>2, Zenon DEF PlaceOf
      <4>4. CASE ~(Reacting(s, 1) /\ s.jobs[1].id = i) /\ s.reactions[i].ran = 1
        <5>1. t.reactions[i].ran = 1
          BY <1>3, <2>1, <4>4
        <5> QED  BY <4>1, <5>1, Zenon DEF PlaceOf
      <4>5. ASSUME ~(Reacting(s, 1) /\ s.jobs[1].id = i), NEW k \in DOMAIN s.jobs, Reacting(s, k),
                   s.jobs[k].id = i
            PROVE  PlaceOf(t, i)
        <5>1. PICK l \in 1 .. c : k = l + 1
          BY <1>1, <4>5
        <5>2. l \in DOMAIN t.jobs /\ Reacting(t, l) /\ t.jobs[l].id = i
          BY <1>1, <1>2, <4>5, <5>1
        <5> QED  BY <4>1, <5>2, Zenon DEF PlaceOf
      <4> QED  BY <4>2, <4>3, <4>4, <4>5, Zenon
    <3> QED  BY <3>3, <3>4
  <2> QED  BY <1>2, <2>1, Zenon DEF Placed
<1>10. RanRight(t)
  <2>1. ASSUME NEW i \in DOMAIN s.reactions, NEW j \in DOMAIN s.reactions, i < j,
               OwnerOf(s, i) = OwnerOf(s, j), t.reactions[j].ran > 0
        PROVE  t.reactions[i].ran > 0
    <3>1. CASE Reacting(s, 1) /\ s.jobs[1].id = j
      <4>1. ~(Reacting(s, 1) /\ s.jobs[1].id = i)
        BY <1>5, <2>1, <3>1
      <4>2. s.reactions[i].ran = 1
        <5>1. PlaceOf(s, i)
          BY <2>1, Zenon DEF Ordered, Placed
        <5>2. s.promises[OwnerOf(s, i)].state # "pending"
          BY <1>4, <2>1, <3>1
        <5>3. s.reactions[i].ran = 1 \/ \E k \in DOMAIN s.jobs : Reacting(s, k) /\ s.jobs[k].id = i
          BY <5>1, <5>2, Zenon DEF PlaceOf
        <5>4. ASSUME NEW k \in DOMAIN s.jobs, Reacting(s, k), s.jobs[k].id = i PROVE FALSE
          <6>1. k # 1
            BY <4>1, <5>4
          <6>2. PICK l \in 1 .. c : k = l + 1
            BY <1>1, <5>4, <6>1
          <6>3. 1 < k
            BY <1>1, <6>2
          <6>4. s.jobs[1].id < s.jobs[k].id
            BY <1>4, <2>1, <3>1, <5>4, <6>3
          <6> QED  BY <1>5, <2>1, <3>1, <5>4, <6>4
        <5> QED  BY <5>3, <5>4, Zenon
      <4> QED  BY <1>3, <2>1, <4>1, <4>2
    <3>2. CASE ~(Reacting(s, 1) /\ s.jobs[1].id = j)
      <4>1. s.reactions[j].ran > 0
        BY <1>3, <2>1, <3>2
      <4>2. s.reactions[i].ran > 0
        BY <2>1, <4>1 DEF Ordered, RanRight
      <4>3. ~(Reacting(s, 1) /\ s.jobs[1].id = i)
        BY <1>4, <4>2
      <4> QED  BY <1>3, <2>1, <4>2, <4>3
    <3> QED  BY <3>1, <3>2
  <2> QED  BY <1>1, <1>2, <2>1 DEF RanRight
<1> QED  BY <1>7, <1>8, <1>9, <1>10 DEF Ordered

(* The promise whose job was taken is left without it; the functions that
   the job answers to are with whoever runs it. *)
HoleLeft(s, hole) ==
  /\ Adopting(s, 1) => hole = s.jobs[1].promise
  /\ Reacting(s, 1) /\ s.jobs[1].handler.kind \in Settling /\ Unused(s, s.jobs[1].handler.r)
       => hole = s.resolvers[s.jobs[1].handler.r].promise
Gets(s, pub, more) == \A r \in more : r \in pub \/ (Reacting(s, 1) /\ r = s.jobs[1].cap)
(* Every promise still follows, but for the one whose job was taken. *)
LEMMA ShiftFollows ==
  ASSUME NEW n \in Nat, NEW m \in Nat, NEW s, GoodHeap(s, n, m), Ordered(s),
         NEW pub, Following(s, pub, 0), NEW t, NEW c \in Nat, JobShift(s, t, c),
         NEW hole, HoleLeft(s, hole), NEW more, Gets(s, pub, more)
  PROVE  Following(t, more, hole)
<1>0. Shifted(s, t, n, c)
  BY ShiftFacts
<1>1. /\ DOMAIN s.promises = 1 .. n /\ DOMAIN t.promises = 1 .. n
      /\ \A k \in 1 .. c : /\ k + 1 \in DOMAIN s.jobs
                           /\ (Reacting(t, k) <=> Reacting(s, k + 1))
                           /\ (Adopting(t, k) <=> Adopting(s, k + 1)) /\ t.jobs[k] = s.jobs[k + 1]
      /\ \A k \in DOMAIN s.jobs : k = 1 \/ \E l \in 1 .. c : k = l + 1
      /\ \A z : ListOf(t, z) = ListOf(s, z)
      /\ \A i \in DOMAIN s.reactions : OwnerOf(t, i) = OwnerOf(s, i) /\ OwnerOf(s, i) \in 1 .. n
      /\ \A r : (Unused(t, r) <=> Unused(s, r)) /\ AdoptsOf(t, r) = AdoptsOf(s, r)
  BY <1>0, Zenon DEF Shifted
<1>2. t.promises = s.promises /\ t.resolvers = s.resolvers /\ DOMAIN t.jobs = 1 .. c
  BY DEF JobShift
<1>3. ResultsRight(t)
  BY <1>2, Zenon DEF Following, ResultsRight
<1>4. AdoptJobs(t)
  <2>1. ASSUME NEW k \in DOMAIN t.jobs, Adopting(t, k)
        PROVE  t.promises[t.jobs[k].promise].adopts = IF IsPromise(t.jobs[k].arg) THEN t.jobs[k].arg ELSE 0
    <3>1. k + 1 \in DOMAIN s.jobs /\ Adopting(s, k + 1) /\ t.jobs[k] = s.jobs[k + 1]
      BY <1>1, <1>2, <2>1, Zenon
    <3>2. s.promises[s.jobs[k + 1].promise].adopts
            = IF IsPromise(s.jobs[k + 1].arg) THEN s.jobs[k + 1].arg ELSE 0
      BY <3>1, Zenon DEF Following, AdoptJobs
    <3> QED  BY <1>2, <3>1, <3>2, Zenon
  <2> QED  BY <2>1, Zenon DEF AdoptJobs
<1>5. ListAdopts(t)
  <2>1. ASSUME NEW z \in DOMAIN t.promises, NEW k \in DOMAIN ListOf(t, z)
        PROVE  /\ Paired(ListOf(t, z)[k])
               /\ ListOf(t, z)[k].onF.kind \in Settling /\ Unused(t, ListOf(t, z)[k].onF.r)
                    => AdoptsOf(t, ListOf(t, z)[k].onF.r) = z
    <3>1. ListOf(t, z) = ListOf(s, z)
      BY <1>1, Zenon
    <3>2. /\ Paired(ListOf(s, z)[k])
          /\ ListOf(s, z)[k].onF.kind \in Settling /\ Unused(s, ListOf(s, z)[k].onF.r)
               => AdoptsOf(s, ListOf(s, z)[k].onF.r) = z
      BY <1>1, <2>1, <3>1 DEF Following, ListAdopts
    <3> QED  BY <1>1, <3>1, <3>2
  <2> QED  BY <2>1, Zenon DEF ListAdopts
<1>6. JobAdopts(t)
  <2>1. ASSUME NEW k \in DOMAIN t.jobs, Reacting(t, k), t.jobs[k].handler.kind \in Settling,
               Unused(t, t.jobs[k].handler.r)
        PROVE  JobFits(t, k)
    <3>1. PICK j : j = k + 1
      OBVIOUS
    <3>2. /\ j \in DOMAIN s.jobs /\ Reacting(s, j) /\ t.jobs[k] = s.jobs[j]
          /\ s.jobs[j].handler.kind \in Settling /\ Unused(s, s.jobs[j].handler.r)
      BY <1>1, <1>2, <2>1, <3>1
    <3>3. JobFits(s, j) /\ s.jobs[j].id \in DOMAIN s.reactions
      BY <3>2, Zenon DEF Following, JobAdopts, Ordered, JobsRight
    <3>4. /\ AdoptsOf(t, s.jobs[j].handler.r) = AdoptsOf(s, s.jobs[j].handler.r)
          /\ OwnerOf(t, s.jobs[j].id) = OwnerOf(s, s.jobs[j].id)
      BY <1>1, <3>3, Zenon
    <3> QED  BY <1>2, <3>2, <3>3, <3>4 DEF JobFits
  <2> QED  BY <2>1, Zenon DEF JobAdopts
<1>7. AllFollow(t, hole)
  <2>1. ASSUME NEW z \in DOMAIN t.promises, z # hole, t.promises[z].adopts # 0
        PROVE  t.promises[z].adopts \in DOMAIN t.promises /\ Follows(t, z, t.promises[z].adopts)
    <3>1. PICK q : q = s.promises[z].adopts
      OBVIOUS
    <3>2. z \in 1 .. n /\ t.promises[z].adopts = q /\ q # 0 /\ z # 0
      BY <1>1, <1>2, <2>1, <3>1
    <3>3. q \in 1 .. n /\ Follows(s, z, q)
      BY <1>1, <3>1, <3>2, Zenon DEF Following, AllFollow
    <3>4. Follows(t, z, q)
      <4>1. ASSUME NEW k \in DOMAIN s.jobs, Adopting(s, k), s.jobs[k].promise = z
            PROVE  Follows(t, z, q)
        <5>1. k # 1
          BY <2>1, <4>1 DEF HoleLeft
        <5>2. PICK l \in 1 .. c : k = l + 1
          BY <1>1, <4>1, <5>1
        <5>3. l \in DOMAIN t.jobs /\ Adopting(t, l) /\ t.jobs[l].promise = z
          BY <1>1, <1>2, <4>1, <5>2
        <5> QED  BY <5>3, Zenon DEF Follows
      <4>2. ASSUME NEW r \in DOMAIN s.resolvers, Unused(s, r), s.resolvers[r].promise = z,
                   \E k \in DOMAIN ListOf(s, q) : ListOf(s, q)[k].onF = Resolving("resolve", r)
            PROVE  Follows(t, z, q)
        <5>1. \E k \in DOMAIN ListOf(t, q) : ListOf(t, q)[k].onF = Resolving("resolve", r)
          BY <1>1, <4>2
        <5>2. r \in DOMAIN t.resolvers /\ Unused(t, r) /\ t.resolvers[r].promise = z
          BY <1>1, <1>2, <4>2, Zenon
        <5> QED  BY <5>1, <5>2, Zenon DEF Follows
      <4>3. ASSUME NEW r \in DOMAIN s.resolvers, Unused(s, r), s.resolvers[r].promise = z,
                   NEW k \in DOMAIN s.jobs, Reacting(s, k), s.jobs[k].handler.kind \in Settling,
                   s.jobs[k].handler.r = r
            PROVE  Follows(t, z, q)
        <5>1. k # 1
          BY <2>1, <4>3 DEF HoleLeft
        <5>2. PICK l \in 1 .. c : k = l + 1
          BY <1>1, <4>3, <5>1
        <5>3. l \in DOMAIN t.jobs /\ Reacting(t, l) /\ t.jobs[l].handler.kind \in Settling
              /\ t.jobs[l].handler.r = r
          BY <1>1, <1>2, <4>3, <5>2
        <5>4. r \in DOMAIN t.resolvers /\ Unused(t, r) /\ t.resolvers[r].promise = z
          BY <1>1, <1>2, <4>3, Zenon
        <5> QED  BY <5>3, <5>4, Zenon DEF Follows
      <4>4. CASE /\ s.promises[q].state # "pending" /\ s.promises[z].state = s.promises[q].state
                 /\ s.promises[z].result = s.promises[q].result
        BY <1>2, <4>4, Zenon DEF Follows
      <4> QED  BY <3>3, <4>1, <4>2, <4>3, <4>4, Zenon DEF Follows
    <3> QED  BY <1>1, <3>2, <3>3, <3>4, Zenon
  <2> QED  BY <2>1, Zenon DEF AllFollow
<1>8. Public(t, more)
  <2>1. Public(s, pub)
    BY DEF Following
  <2>2. ASSUME NEW z \in DOMAIN t.promises, NEW k \in DOMAIN ListOf(t, z), Unused(t, ListOf(t, z)[k].cap)
        PROVE  AdoptsOf(t, ListOf(t, z)[k].cap) = 0
    <3>1. ListOf(t, z) = ListOf(s, z)
      BY <1>1, Zenon
    <3>2. Unused(s, ListOf(s, z)[k].cap) => AdoptsOf(s, ListOf(s, z)[k].cap) = 0
      BY <1>1, <2>1, <2>2, <3>1 DEF Public
    <3> QED  BY <1>1, <2>2, <3>1, <3>2
  <2>3. ASSUME NEW k \in DOMAIN t.jobs, Reacting(t, k), Unused(t, t.jobs[k].cap)
        PROVE  AdoptsOf(t, t.jobs[k].cap) = 0
    BY <1>1, <1>2, <2>1, <2>3 DEF Public
  <2>4. ASSUME NEW r \in more, Unused(t, r) PROVE AdoptsOf(t, r) = 0
    <3>1. CASE r \in pub
      BY <1>1, <2>1, <2>4, <3>1, Zenon DEF Public
    <3>2. CASE Reacting(s, 1) /\ r = s.jobs[1].cap
      <4>1. 1 \in DOMAIN s.jobs
        BY <3>2 DEF Reacting
      <4> QED  BY <1>1, <2>1, <2>4, <3>2, <4>1, Zenon DEF Public
    <3> QED  BY <2>4, <3>1, <3>2, Zenon DEF Gets
  <2> QED  BY <2>2, <2>3, <2>4, Zenon DEF Public
<1> QED  BY <1>3, <1>4, <1>5, <1>6, <1>7, <1>8, Zenon DEF Following

(* Nothing is left open when the promise follows no other. *)
LEMMA HoleClosed ==
  ASSUME NEW s, NEW pub, NEW hole, Following(s, pub, hole), s.promises[hole].adopts = 0
  PROVE  Following(s, pub, 0)
<1>1. AllFollow(s, 0)
  BY Zenon DEF Following, AllFollow
<1> QED  BY <1>1, Zenon DEF Following

(* Who has fewer functions can do less. *)
LEMMA FewerFunctions ==
  ASSUME NEW s, NEW pub, NEW less, less \subseteq pub, NEW hole, Following(s, pub, hole)
  PROVE  Following(s, less, hole)
<1>1. Public(s, less)
  BY DEF Following, Public
<1> QED  BY <1>1, Zenon DEF Following

(* What js_create_resolving_functions adds. *)
LEMMA PairAddedIs ==
  ASSUME NEW n \in Nat, NEW m \in Nat, NEW s, GoodHeap(s, n, m), NEW p \in 1 .. n,
         NEW t, t = WithResolver(s, p)
  PROVE  PairAdded(s, t, p, m) /\ Unused(t, m + 1)
<1>1. PICK x : x = [promise |-> p, done |-> FALSE]
  OBVIOUS
<1>2. Shaped(s, n, m)
  BY DEF GoodHeap
<1>3. s.resolvers \in Seq(PairsOf(n)) /\ DOMAIN s.resolvers = 1 .. m /\ Len(s.resolvers) = m
  BY <1>2, HeapFields DEF Shaped
<1>4. x \in PairsOf(n) /\ x.promise = p /\ x.done = FALSE
  BY <1>1 DEF PairsOf
<1>5. t = [s EXCEPT !.resolvers = Append(s.resolvers, x)]
  BY <1>1 DEF WithResolver
<1>6. /\ t.resolvers = Append(s.resolvers, x) /\ t.promises = s.promises /\ t.jobs = s.jobs
      /\ t.reactions = s.reactions
  BY <1>2, <1>5 DEF Shaped, HeapsOf
<1>7. Longer(PairsOf(n), s.resolvers, m, x, Append(s.resolvers, x))
  BY <1>3, <1>4, AppendElements
<1>8. /\ DOMAIN t.resolvers = 1 .. m + 1 /\ t.resolvers[m + 1] = x
      /\ \A r \in 1 .. m : t.resolvers[r] = s.resolvers[r]
  BY <1>6, <1>7 DEF Longer
<1>9. m + 1 \in 1 .. m + 1
  OBVIOUS
<1> QED  BY <1>3, <1>4, <1>6, <1>8, <1>9 DEF PairAdded, Unused

(* js_promise_constructor. *)
OthersKept(s, t, n, m) ==
  /\ \A p \in 1 .. n : t.promises[p] = s.promises[p]
  /\ \A r \in 1 .. m : r \in DOMAIN t.resolvers /\ t.resolvers[r] = s.resolvers[r]
(* A new promise and its functions. *)
LEMMA NewPromiseRight ==
  ASSUME NEW n \in Nat, NEW m \in Nat, NEW s, GoodHeap(s, n, m), Ordered(s),
         NEW pub, pub \subseteq 0 .. m, NEW hole, Following(s, pub, hole), NEW t, t = WithPromise(s)
  PROVE  Ordered(t) /\ Following(t, pub \cup {m + 1}, hole) /\ OthersKept(s, t, n, m)
<1>1. \E u : /\ GoodHeap(u, n + 1, m) /\ NobodySettles(u, n + 1)
             /\ PromiseAdded(s, u, n) /\ WithPromise(s) = WithResolver(u, n + 1)
  BY NewPromiseAdded
<1>2. PICK u : /\ GoodHeap(u, n + 1, m) /\ PromiseAdded(s, u, n) /\ t = WithResolver(u, n + 1)
  BY <1>1
<1>3. n + 1 \in Nat /\ n + 1 \in 1 .. n + 1
  OBVIOUS
<1>4. Ordered(u) /\ Following(u, pub, hole)
  BY <1>2, PromiseAddedRight
<1>5. PairAdded(u, t, n + 1, m)
  BY <1>2, <1>3, PairAddedIs
<1>6. u.promises[n + 1].adopts = 0
  BY <1>2 DEF PromiseAdded, NewPromise
<1>7. Ordered(t) /\ (u.promises[n + 1].adopts = 0 => Following(t, pub \cup {m + 1}, hole))
  BY <1>2, <1>3, <1>4, <1>5, PairAddedRight
<1>8. \A p \in 1 .. n : t.promises[p] = s.promises[p]
  BY <1>2, <1>5 DEF PairAdded, PromiseAdded
<1>9. \A r \in 1 .. m : r \in DOMAIN t.resolvers /\ t.resolvers[r] = s.resolvers[r]
  BY <1>2, <1>5 DEF PairAdded, PromiseAdded
<1> QED  BY <1>6, <1>7, <1>8, <1>9 DEF OthersKept

(* js_promise_then, called by a script, or by a job with functions for the
   promise that is to follow p. *)
FitsThen(s, onF, onR, p, hole, m) ==
  \/ hole = 0 /\ onF.kind \notin Settling /\ onR.kind \notin Settling
  \/ \E r \in 1 .. m : /\ onF = Resolving("resolve", r) /\ onR = Resolving("reject", r)
                       /\ Unused(s, r) /\ s.resolvers[r].promise = hole
                       /\ hole \in DOMAIN s.promises /\ s.promises[hole].adopts = p
(* js_promise_then makes a promise and adds a reaction. *)
LEMMA ThenRight ==
  ASSUME NEW n \in Nat, NEW m \in Nat, NEW s, GoodHeap(s, n, m), Ordered(s),
         NEW pub, pub \subseteq 0 .. m, NEW hole, Following(s, pub, hole), NEW p \in 1 .. n,
         NEW onF \in HandlersOf(m), NEW onR \in HandlersOf(m), FitsThen(s, onF, onR, p, hole, m),
         NEW t, t = Then(s, p, onF, onR)
  PROVE  Ordered(t) /\ Following(t, pub, 0)
<1>1. PICK u : u = WithPromise(s)
  OBVIOUS
<1>2. GoodHeap(u, n + 1, m + 1) /\ LastPair(u) = m + 1
  BY <1>1, NewPromiseKeeps
<1>3. /\ Ordered(u) /\ Following(u, pub \cup {m + 1}, hole)
      /\ \A z \in 1 .. n : u.promises[z] = s.promises[z]
      /\ \A r \in 1 .. m : r \in DOMAIN u.resolvers /\ u.resolvers[r] = s.resolvers[r]
  <2>1. Ordered(u) /\ Following(u, pub \cup {m + 1}, hole) /\ OthersKept(s, u, n, m)
    BY <1>1, NewPromiseRight
  <2> QED  BY <2>1 DEF OthersKept
<1>4. t = WithReaction(u, p, onF, onR, m + 1)
  BY <1>1, <1>2 DEF Then
<1>5. PICK x : x = [onF |-> onF, onR |-> onR, cap |-> m + 1, id |-> Len(u.reactions) + 1]
  OBVIOUS
<1>6. x.onF = onF /\ x.onR = onR /\ x.cap = m + 1
  BY <1>5
<1>7. Unused(u, m + 1) => AdoptsOf(u, m + 1) = 0
  BY <1>3 DEF Following, Public
<1>8. FitsPromise(u, x, p, hole)
  <2>1. CASE hole = 0 /\ onF.kind \notin Settling /\ onR.kind \notin Settling
    BY <1>6, <1>7, <2>1, Zenon DEF FitsPromise, Paired
  <2>2. ASSUME NEW r \in 1 .. m, onF = Resolving("resolve", r), onR = Resolving("reject", r),
               Unused(s, r), s.resolvers[r].promise = hole, hole \in DOMAIN s.promises,
               s.promises[hole].adopts = p
        PROVE  FitsPromise(u, x, p, hole)
    <3>1. hole \in 1 .. n /\ u.promises[hole] = s.promises[hole]
      <4>1. DOMAIN s.promises = 1 .. n
        BY HeapRanges
      <4> QED  BY <1>3, <2>2, <4>1, Zenon
    <3>2. Unused(u, r) /\ u.resolvers[r].promise = hole /\ u.promises[hole].adopts = p
      BY <1>3, <2>2, <3>1 DEF Unused
    <3>3. onF.r = r
      BY <2>2 DEF Resolving
    <3>4. Paired(x)
      BY <1>6, <2>2, <3>3, Zenon DEF Paired
    <3>5. AdoptsOf(u, r) = p
      BY <3>2 DEF AdoptsOf
    <3>6. /\ x.onF = Resolving("resolve", r) /\ x.onF.r = r
      BY <1>6, <2>2, <3>3
    <3> QED  BY <1>6, <1>7, <3>2, <3>4, <3>5, <3>6, Zenon DEF FitsPromise
  <2> QED  BY <2>1, <2>2, Zenon DEF FitsThen
<1>9. /\ n + 1 \in Nat /\ m + 1 \in Nat /\ p \in 1 .. n + 1 /\ m + 1 \in 0 .. m + 1
      /\ onF \in HandlersOf(m + 1) /\ onR \in HandlersOf(m + 1)
  <2>1. HandlersOf(m) \subseteq HandlersOf(m + 1)
    BY MoreToUse
  <2> QED  BY <2>1
<1>10. Ordered(t) /\ Following(t, pub \cup {m + 1}, 0)
  BY <1>2, <1>3, <1>4, <1>5, <1>8, <1>9, WithReactionRight
<1> QED  BY <1>10, FewerFunctions

(* The first job is taken. *)
LEMMA TakenIs ==
  ASSUME NEW n \in Nat, NEW m \in Nat, NEW s, GoodHeap(s, n, m), s.jobs # <<>>,
         NEW t, t = TakenOf(s)
  PROVE  \E c \in Nat : /\ JobShift(s, t, c) /\ t.reactions = s.reactions
                        /\ Head(s.jobs) = s.jobs[1] /\ 1 \in DOMAIN s.jobs
<1>1. Shaped(s, n, m)
  BY DEF GoodHeap
<1>2. s.jobs \in Seq(JobsOf(n, m))
  BY <1>1, HeapFields
<1>3. PICK c \in Nat : c + 1 = Len(s.jobs) /\ DOMAIN s.jobs = 1 .. c + 1
  <2>1. PICK d \in Nat : d = Len(s.jobs) /\ DOMAIN s.jobs = 1 .. d /\ d > 0
    BY <1>2
  <2>2. d - 1 \in Nat /\ (d - 1) + 1 = d
    BY <2>1
  <2> QED  BY <2>1, <2>2
<1>4. PICK rest : rest = Tail(s.jobs)
  OBVIOUS
<1>5. DOMAIN rest = 1 .. c /\ \A k \in 1 .. c : rest[k] = s.jobs[k + 1]
  <2>1. /\ rest \in Seq(JobsOf(n, m)) /\ Len(rest) = Len(s.jobs) - 1
        /\ \A k \in 1 .. Len(s.jobs) - 1 : rest[k] = s.jobs[k + 1]
    BY <1>2, <1>4, HeadTailProperties
  <2>2. Len(s.jobs) - 1 = c
    BY <1>3
  <2> QED  BY <2>1, <2>2
<1>6. t = [s EXCEPT !.jobs = rest]
  BY <1>4 DEF TakenOf
<1>7. /\ t.promises = s.promises /\ t.resolvers = s.resolvers /\ t.jobs = rest
      /\ t.reactions = s.reactions
  BY <1>1, <1>6 DEF Shaped, HeapsOf
<1>8. Head(s.jobs) = s.jobs[1] /\ 1 \in DOMAIN s.jobs
  BY <1>2, <1>3
<1>9. JobShift(s, t, c)
  BY <1>3, <1>5, <1>7, Zenon DEF JobShift, OwnerOf
<1> QED  BY <1>3, <1>7, <1>8, <1>9

(* The history of the reaction that runs. *)
LEMMA RanIs ==
  ASSUME NEW n \in Nat, NEW m \in Nat, NEW s, GoodHeap(s, n, m), NEW i \in DOMAIN s.reactions,
         NEW t, t = Ran(s, i)
  PROVE  /\ t.promises = s.promises /\ t.resolvers = s.resolvers /\ t.jobs = s.jobs
         /\ DOMAIN t.reactions = DOMAIN s.reactions
         /\ \A k \in DOMAIN s.reactions :
              /\ OwnerOf(t, k) = OwnerOf(s, k)
              /\ t.reactions[k].ran = IF k = i THEN s.reactions[k].ran + 1 ELSE s.reactions[k].ran
<1>1. Shaped(s, n, m)
  BY DEF GoodHeap
<1>2. s.reactions \in Seq(HistoryOf(n))
  BY <1>1, HeapFields
<1>3. PICK x : x = [s.reactions[i] EXCEPT !.ran = s.reactions[i].ran + 1]
  OBVIOUS
<1>4. s.reactions[i] \in HistoryOf(n)
  BY <1>2
<1>5. x.promise = s.reactions[i].promise /\ x.ran = s.reactions[i].ran + 1
  BY <1>3, <1>4 DEF HistoryOf
<1>6. t = [s EXCEPT !.reactions = [s.reactions EXCEPT ![i] = x]]
  BY <1>3 DEF Ran
<1>7. /\ t.promises = s.promises /\ t.resolvers = s.resolvers /\ t.jobs = s.jobs
      /\ t.reactions = [s.reactions EXCEPT ![i] = x]
  BY <1>1, <1>6 DEF Shaped, HeapsOf
<1>8. /\ DOMAIN t.reactions = DOMAIN s.reactions
      /\ \A k \in DOMAIN s.reactions : t.reactions[k] = IF k = i THEN x ELSE s.reactions[k]
  BY <1>7
<1>9. \A k \in DOMAIN s.reactions :
        /\ OwnerOf(t, k) = OwnerOf(s, k)
        /\ t.reactions[k].ran = IF k = i THEN s.reactions[k].ran + 1 ELSE s.reactions[k].ran
  BY <1>5, <1>8 DEF OwnerOf
<1> QED  BY <1>7, <1>8, <1>9

-----------------------------------------------------------------------------
(***************************************************************************)
(* The inductive invariant: the reactions are in order, and the promises   *)
(* that were resolved with others follow them, whatever the functions do   *)
(* that scripts hold and that the running job answers to.                  *)
(***************************************************************************)
PubOf(h, run) == h \cup {run[i].cap : i \in DOMAIN run}
ReactionsHold(s, h, run) == Ordered(s) /\ Following(s, PubOf(h, run), 0)
ReactionsInv == PromisesInv /\ ReactionsHold(heap, held, running)

(* The functions that scripts have, and the one the running job answers to. *)
LEMMA PubIs ==
  ASSUME NEW m \in Nat, NEW h, h \subseteq 1 .. m, NEW run, RunningFits(run, m)
  PROVE  /\ PubOf(h, run) \subseteq 0 .. m /\ h \subseteq PubOf(h, run)
         /\ PubOf(h, <<>>) = h /\ \A j : PubOf(h, <<j>>) = h \cup {j.cap}
<1>1. PubOf(h, <<>>) = h
  BY DEF PubOf
<1>2. ASSUME NEW j PROVE PubOf(h, <<j>>) = h \cup {j.cap}
  BY DEF PubOf
<1>3. run = <<>> \/ \E j : run = <<j>> /\ j.cap \in 0 .. m
  BY DEF RunningFits
<1>4. h \subseteq 0 .. m
  OBVIOUS
<1>5. PubOf(h, run) \subseteq 0 .. m
  <2>1. CASE run = <<>>
    BY <1>1, <1>4, <2>1
  <2>2. ASSUME NEW j, run = <<j>>, j.cap \in 0 .. m PROVE PubOf(h, run) \subseteq 0 .. m
    <3>1. PubOf(h, run) = h \cup {j.cap}
      BY <1>2, <2>2
    <3> QED  BY <1>4, <2>2, <3>1
  <2> QED  BY <1>3, <2>1, <2>2, Zenon
<1>6. h \subseteq PubOf(h, run)
  BY DEF PubOf
<1> QED  BY <1>1, <1>2, <1>5, <1>6

(* Each step of the program keeps the invariant: new Promise. *)
LEMMA ScriptPromiseReactions ==
  ASSUME NEW n \in Nat, NEW m \in Nat, PromisesHold(heap, held, running, n, m),
         ReactionsHold(heap, held, running), ScriptPromise
  PROVE  ReactionsHold(heap', held', running')
<1>1. heap' = WithPromise(heap) /\ held' = held \cup {LastPair(heap')} /\ running' = running
  BY DEF ScriptPromise
<1>2. GoodHeap(heap, n, m) /\ held \subseteq 1 .. m /\ RunningFits(running, m)
  BY DEF PromisesHold
<1>3. PICK pub : pub = PubOf(held, running)
  OBVIOUS
<1>4. Ordered(heap) /\ Following(heap, pub, 0) /\ pub \subseteq 0 .. m
  BY <1>2, <1>3, PubIs DEF ReactionsHold
<1>5. Ordered(heap') /\ Following(heap', pub \cup {m + 1}, 0)
  BY <1>1, <1>2, <1>4, NewPromiseRight
<1>6. LastPair(heap') = m + 1
  BY <1>1, <1>2, NewPromiseKeeps
<1>7. PubOf(held', running') \subseteq pub \cup {m + 1}
  BY <1>1, <1>3, <1>6 DEF PubOf
<1>8. Following(heap', PubOf(held', running'), 0)
  BY <1>5, <1>7, FewerFunctions
<1> QED  BY <1>5, <1>8 DEF ReactionsHold

(* A script calls then. *)
LEMMA ScriptThenReactions ==
  ASSUME NEW n \in Nat, NEW m \in Nat, PromisesHold(heap, held, running, n, m),
         ReactionsHold(heap, held, running), NEW p \in Known,
         NEW onF \in {NoHandler, ScriptHandler}, NEW onR \in {NoHandler, ScriptHandler},
         ScriptThen(p, onF, onR)
  PROVE  ReactionsHold(heap', held', running')
<1>1. heap' = Then(heap, p, onF, onR) /\ held' = held /\ running' = running
  BY DEF ScriptThen
<1>2. GoodHeap(heap, n, m) /\ held \subseteq 1 .. m /\ RunningFits(running, m) /\ p \in 1 .. n
  BY KnownValues DEF PromisesHold
<1>3. PICK pub : pub = PubOf(held, running)
  OBVIOUS
<1>4. Ordered(heap) /\ Following(heap, pub, 0) /\ pub \subseteq 0 .. m
  BY <1>2, <1>3, PubIs DEF ReactionsHold
<1>5. /\ onF \in HandlersOf(m) /\ onR \in HandlersOf(m)
  BY DEF HandlersOf
<1>6. FitsThen(heap, onF, onR, p, 0, m)
  <2>1. onF.kind \notin Settling /\ onR.kind \notin Settling
    BY DEF NoHandler, ScriptHandler, Settling
  <2> QED  BY <2>1 DEF FitsThen
<1>7. Ordered(heap') /\ Following(heap', pub, 0)
  BY <1>1, <1>2, <1>4, <1>5, <1>6, ThenRight
<1> QED  BY <1>1, <1>3, <1>7 DEF ReactionsHold

(* A script awaits a promise. *)
LEMMA ScriptAwaitReactions ==
  ASSUME NEW n \in Nat, NEW m \in Nat, PromisesHold(heap, held, running, n, m),
         ReactionsHold(heap, held, running), NEW p \in Known, ScriptAwait(p)
  PROVE  ReactionsHold(heap', held', running')
<1>1. /\ heap' = WithReaction(heap, p, ScriptHandler, ScriptHandler, 0)
      /\ held' = held /\ running' = running
  BY DEF ScriptAwait
<1>2. GoodHeap(heap, n, m) /\ p \in 1 .. n
  BY KnownValues DEF PromisesHold
<1>3. PICK pub : pub = PubOf(held, running)
  OBVIOUS
<1>4. Ordered(heap) /\ Following(heap, pub, 0)
  BY <1>3 DEF ReactionsHold
<1>5. ScriptHandler \in HandlersOf(m) /\ 0 \in 0 .. m
  BY DEF HandlersOf
<1>6. PICK x : x = [onF |-> ScriptHandler, onR |-> ScriptHandler, cap |-> 0,
                    id |-> Len(heap.reactions) + 1]
  OBVIOUS
<1>7. FitsPromise(heap, x, p, 0)
  <2>1. x.onF.kind \notin Settling /\ x.onR.kind \notin Settling /\ x.cap = 0
    BY <1>6 DEF ScriptHandler, Settling
  <2>2. ~Unused(heap, 0)
    <3>1. DOMAIN heap.resolvers = 1 .. m
      BY <1>2, HeapRanges
    <3> QED  BY <3>1 DEF Unused
  <2> QED  BY <2>1, <2>2, Zenon DEF FitsPromise, Paired
<1>8. Ordered(heap') /\ Following(heap', pub, 0)
  BY <1>1, <1>2, <1>4, <1>5, <1>6, <1>7, WithReactionRight
<1> QED  BY <1>1, <1>3, <1>8 DEF ReactionsHold

(* A script calls a resolving function that it has. *)
LEMMA ScriptResolveReactions ==
  ASSUME NEW n \in Nat, NEW m \in Nat, PromisesHold(heap, held, running, n, m),
         ReactionsHold(heap, held, running), NEW r \in held, NEW v \in Values \cup Known,
         NEW reject \in BOOLEAN, ScriptResolve(r, v, reject)
  PROVE  ReactionsHold(heap', held', running')
<1>1. heap' = Resolved(heap, r, v, reject) /\ held' = held /\ running' = running
  BY DEF ScriptResolve
<1>2. GoodHeap(heap, n, m) /\ held \subseteq 1 .. m /\ r \in 1 .. m /\ RunningFits(running, m)
  BY DEF PromisesHold
<1>3. PICK pub : pub = PubOf(held, running)
  OBVIOUS
<1>4. Ordered(heap) /\ Following(heap, pub, 0) /\ r \in pub
  BY <1>2, <1>3, PubIs DEF ReactionsHold
<1>5. v \in ValuesOf(n)
  BY KnownValues
<1>6. MaySettle(heap, r, v, reject, 0)
  BY <1>4, Zenon DEF MaySettle, Following, Public
<1>7. Ordered(heap') /\ Following(heap', pub, 0)
  BY <1>1, <1>2, <1>4, <1>5, <1>6, ResolvedRight
<1> QED  BY <1>1, <1>3, <1>7 DEF ReactionsHold

(* A handler ends: the promise that then made is resolved or rejected. *)
LEMMA HandlerEndsReactions ==
  ASSUME NEW n \in Nat, NEW m \in Nat, PromisesHold(heap, held, running, n, m),
         ReactionsHold(heap, held, running), NEW v \in Values \cup Known, NEW throws \in BOOLEAN,
         HandlerEnds(v, throws)
  PROVE  ReactionsHold(heap', held', running')
<1>1. /\ GoodHeap(heap, n, m) /\ held \subseteq 1 .. m /\ RunningFits(running, m) /\ running # <<>>
  BY DEF PromisesHold, HandlerEnds
<1>2. PICK j : running = <<j>> /\ j.cap \in 0 .. m /\ (j.kind # "reaction" => j.cap # 0)
  BY <1>1 DEF RunningFits
<1>3. running[1] = j
  BY <1>2
<1>4. /\ heap' = IF j.kind = "reaction" THEN Answered(heap, j.cap, v, throws)
                 ELSE IF throws THEN Resolved(heap, j.cap, v, TRUE) ELSE heap
      /\ running' = <<>> /\ held' = held
  BY <1>3 DEF HandlerEnds
<1>5. v \in ValuesOf(n)
  BY KnownValues
<1>6. PICK pub : pub = held \cup {j.cap}
  OBVIOUS
<1>7. PubOf(held, running) = pub
  BY <1>1, <1>2, <1>6, PubIs
<1>8. Ordered(heap) /\ Following(heap, pub, 0) /\ j.cap \in pub
  BY <1>6, <1>7 DEF ReactionsHold
<1>9. Ordered(heap') /\ Following(heap', pub, 0)
  <2>1. CASE j.kind = "reaction"
    <3>1. heap' = Answered(heap, j.cap, v, throws)
      BY <1>4, <2>1
    <3> QED  BY <1>1, <1>2, <1>5, <1>8, <3>1, AnsweredRight
  <2>2. CASE j.kind # "reaction" /\ throws = TRUE
    <3>1. heap' = Resolved(heap, j.cap, v, TRUE) /\ j.cap \in 1 .. m
      BY <1>2, <1>4, <2>2
    <3>2. MaySettle(heap, j.cap, v, TRUE, 0)
      BY <1>8, Zenon DEF MaySettle, Following, Public
    <3> QED  BY <1>1, <1>5, <1>8, <3>1, <3>2, ResolvedRight
  <2>3. CASE j.kind # "reaction" /\ throws = FALSE
    <3>1. heap' = heap
      BY <1>4, <2>3
    <3> QED  BY <1>8, <3>1
  <2> QED  BY <2>1, <2>2, <2>3
<1>10. PubOf(held', running') = held
  BY <1>1, <1>4, PubIs
<1>11. Following(heap', held, 0)
  BY <1>6, <1>9, FewerFunctions
<1> QED  BY <1>9, <1>10, <1>11 DEF ReactionsHold

(* promise_reaction_job, once its job is taken: it calls resolving functions
   only with what the promise they follow has. *)
LEMMA JobMaySettle ==
  ASSUME NEW n \in Nat, NEW m \in Nat, NEW s, GoodHeap(s, n, m), Ordered(s),
         NEW pub, Following(s, pub, 0), Reacting(s, 1), s.jobs[1].handler.kind \in Settling,
         NEW t, t.promises = s.promises, t.resolvers = s.resolvers,
         NEW r, r = s.jobs[1].handler.r, NEW reject \in BOOLEAN,
         reject <=> s.jobs[1].handler.kind = "reject",
         NEW hole, hole = IF Unused(s, r) THEN s.resolvers[r].promise ELSE 0
  PROVE  HoleLeft(s, hole) /\ MaySettle(t, r, s.jobs[1].arg, reject, hole)
<1>1. ~Adopting(s, 1)
  BY DEF Reacting, Adopting
<1>2. HoleLeft(s, hole)
  BY <1>1 DEF HoleLeft
<1>3. Unused(t, r) <=> Unused(s, r)
  BY Zenon DEF Unused
<1>4. ASSUME Unused(s, r)
      PROVE  /\ reject \/ s.jobs[1].arg \in {Plain, TypeErr}
             /\ hole = PromiseOf(t, r)
             /\ SettledLike(t, PromiseOf(t, r), AfterState(reject), s.jobs[1].arg)
  <2>1. 1 \in DOMAIN s.jobs
    BY DEF Reacting
  <2>2. JobFits(s, 1)
    BY <1>4, <2>1, Zenon DEF Following, JobAdopts
  <2>3. PICK i : i = s.jobs[1].id
    OBVIOUS
  <2>4. i \in DOMAIN s.reactions /\ s.promises[OwnerOf(s, i)].state # "pending"
    BY <2>1, <2>3, Zenon DEF Ordered, JobsRight
  <2>5. PICK q : q = OwnerOf(s, i)
    OBVIOUS
  <2>6. q \in 1 .. n /\ DOMAIN s.promises = 1 .. n /\ s.promises[q].state \in States
    <3>1. /\ \A k \in DOMAIN s.reactions : s.reactions[k].promise \in 1 .. n
          /\ DOMAIN s.promises = 1 .. n /\ \A k \in 1 .. n : s.promises[k].state \in States
      BY HeapRanges
    <3> QED  BY <2>4, <2>5, <3>1, Zenon DEF OwnerOf
  <2>7. /\ AdoptsOf(s, r) = q /\ s.jobs[1].arg = s.promises[q].result
        /\ s.jobs[1].handler.kind = "reject" <=> s.promises[q].state = "rejected"
    BY <2>2, <2>3, <2>5 DEF JobFits
  <2>8. s.promises[q].state = AfterState(reject)
    <3>1. CASE reject = TRUE
      BY <2>7, <3>1 DEF AfterState
    <3>2. CASE reject = FALSE
      BY <2>4, <2>5, <2>6, <2>7, <3>2 DEF AfterState, States
    <3> QED  BY <3>1, <3>2
  <2>9. reject \/ s.jobs[1].arg \in {Plain, TypeErr}
    <3>1. CASE reject = TRUE
      BY <3>1
    <3>2. CASE reject = FALSE
      <4>1. s.promises[q].state = "fulfilled"
        BY <2>8, <3>2 DEF AfterState
      <4> QED  BY <2>6, <2>7, <4>1 DEF Following, ResultsRight
    <3> QED  BY <3>1, <3>2
  <2>10. hole = PromiseOf(t, r)
    BY <1>4 DEF PromiseOf
  <2>11. SettledLike(t, PromiseOf(t, r), AfterState(reject), s.jobs[1].arg)
    <3>1. s.promises[PromiseOf(t, r)].adopts = q
      BY <2>7 DEF AdoptsOf, PromiseOf
    <3> QED  BY <2>6, <2>7, <2>8, <3>1, Zenon DEF SettledLike
  <2> QED  BY <2>9, <2>10, <2>11, Zenon
<1>5. ~Unused(s, r) => hole = 0
  BY Zenon
<1>6. MaySettle(t, r, s.jobs[1].arg, reject, hole)
  BY <1>3, <1>4, <1>5, Zenon DEF MaySettle
<1> QED  BY <1>2, <1>6

(* promise_reaction_job. *)
LEMMA ReactionJobRunsReactions ==
  ASSUME NEW n \in Nat, NEW m \in Nat, PromisesHold(heap, held, running, n, m),
         ReactionsHold(heap, held, running), ReactionJobRuns
  PROVE  ReactionsHold(heap', held', running')
<1>1. /\ GoodHeap(heap, n, m) /\ held \subseteq 1 .. m /\ RunningFits(running, m)
      /\ heap.jobs # <<>> /\ running = <<>> /\ Head(heap.jobs).kind = "reaction" /\ held' = held
  BY DEF PromisesHold, ReactionJobRuns
<1>2. Ordered(heap) /\ Following(heap, held, 0)
  BY <1>1, PubIs DEF ReactionsHold
<1>3. PICK j : j = Head(heap.jobs)
  OBVIOUS
<1>4. PICK u : u = Taken
  OBVIOUS
<1>5. u = TakenOf(heap)
  BY <1>4 DEF Taken, TakenOf
<1>6. \E c \in Nat : /\ JobShift(heap, u, c) /\ u.reactions = heap.reactions
                     /\ Head(heap.jobs) = heap.jobs[1] /\ 1 \in DOMAIN heap.jobs
  BY <1>1, <1>5, TakenIs
<1>7. PICK c \in Nat : /\ JobShift(heap, u, c) /\ u.reactions = heap.reactions
                       /\ j = heap.jobs[1] /\ 1 \in DOMAIN heap.jobs
  BY <1>3, <1>6, Zenon
<1>8. Reacting(heap, 1) /\ j.id \in DOMAIN heap.reactions
  <2>1. Reacting(heap, 1)
    BY <1>1, <1>3, <1>7 DEF Reacting
  <2> QED  BY <1>2, <1>7, <2>1 DEF Ordered, JobsRight
<1>9. GoodHeap(u, n, m) /\ j \in JobsOf(n, m)
  BY <1>1, <1>3, <1>5, TakenKeeps
<1>10. /\ j.handler \in HandlersOf(m) /\ j.reject \in BOOLEAN /\ j.arg \in ValuesOf(n)
       /\ j.cap \in 0 .. m
  BY <1>1, <1>3, <1>9 DEF JobsOf
<1>11. PICK s : s = Ran(u, j.id)
  OBVIOUS
<1>12. GoodHeap(s, n, m)
  BY <1>9, <1>11, RanKeeps
<1>13. /\ s.promises = u.promises /\ s.resolvers = u.resolvers /\ s.jobs = u.jobs
       /\ DOMAIN s.reactions = DOMAIN u.reactions
       /\ \A k \in DOMAIN u.reactions :
            /\ OwnerOf(s, k) = OwnerOf(u, k)
            /\ s.reactions[k].ran = IF k = j.id THEN u.reactions[k].ran + 1 ELSE u.reactions[k].ran
  BY <1>7, <1>8, <1>9, <1>11, RanIs
<1>14. JobShift(heap, s, c)
  BY <1>7, <1>13, Zenon DEF JobShift
<1>15. RanNow(heap, s)
  BY <1>7, <1>8, <1>13 DEF RanNow
<1>16. Ordered(s)
  BY <1>1, <1>2, <1>7, <1>14, <1>15, ShiftOrdered
<1>17. PICK more : more = held \cup {j.cap}
  OBVIOUS
<1>18. j.cap \in more /\ held \subseteq more /\ Gets(heap, held, more)
  <2>1. ASSUME NEW r \in more PROVE r \in held \/ (Reacting(heap, 1) /\ r = heap.jobs[1].cap)
    <3>1. r \in held \/ r = j.cap
      BY <1>17, <2>1
    <3>2. Reacting(heap, 1) /\ j = heap.jobs[1]
      BY <1>7, <1>8, Zenon
    <3> QED  BY <3>1, <3>2, Zenon
  <2>2. Gets(heap, held, more)
    BY <2>1, Zenon DEF Gets
  <2>3. j.cap \in more /\ held \subseteq more
    BY <1>17
  <2> QED  BY <2>2, <2>3
<1>19. ASSUME NEW hole, HoleLeft(heap, hole) PROVE Following(s, more, hole)
  BY <1>1, <1>2, <1>7, <1>14, <1>18, <1>19, ShiftFollows
<1>20. ASSUME j.handler.kind \notin Settling PROVE Following(s, more, 0)
  <2>1. ~Adopting(heap, 1)
    BY <1>8 DEF Reacting, Adopting
  <2>2. HoleLeft(heap, 0)
    BY <1>7, <1>20, <2>1 DEF HoleLeft
  <2> QED  BY <1>19, <2>2
<1>21. ASSUME Ordered(heap'), Following(heap', more, 0), running' = <<>>
       PROVE  ReactionsHold(heap', held', running')
  <2>1. PubOf(held', running') = held
    BY <1>1, <1>21, PubIs
  <2>2. Following(heap', held, 0)
    BY <1>18, <1>21, FewerFunctions
  <2> QED  BY <1>21, <2>1, <2>2 DEF ReactionsHold
<1>22. /\ \/ j.handler.kind = "none"
          \/ j.handler.kind = "script"
          \/ j.handler.kind \in {"resolve", "reject"} /\ j.handler.r \in 1 .. m
  BY <1>10 DEF HandlersOf, NoHandler, ScriptHandler
<1>23. CASE j.handler.kind = "none"
  <2>1. heap' = Answered(s, j.cap, j.arg, j.reject) /\ running' = <<>>
    BY <1>1, <1>3, <1>4, <1>11, <1>23 DEF ReactionJobRuns
  <2>2. Following(s, more, 0)
    BY <1>20, <1>23 DEF Settling
  <2>3. Ordered(heap') /\ Following(heap', more, 0)
    BY <1>10, <1>12, <1>16, <1>18, <2>1, <2>2, AnsweredRight
  <2> QED  BY <1>21, <2>1, <2>3
<1>24. CASE j.handler.kind = "script"
  <2>1. heap' = s /\ running' = <<j>>
    BY <1>3, <1>4, <1>11, <1>24 DEF ReactionJobRuns
  <2>2. Following(s, more, 0)
    BY <1>20, <1>24 DEF Settling
  <2>3. PubOf(held', running') = more
    BY <1>1, <1>17, <2>1, PubIs
  <2> QED  BY <1>16, <2>1, <2>2, <2>3 DEF ReactionsHold
<1>25. CASE j.handler.kind \in {"resolve", "reject"} /\ j.handler.r \in 1 .. m
  <2>1. PICK r \in 1 .. m : r = j.handler.r
    BY <1>25
  <2>2. PICK reject \in BOOLEAN : reject = (j.handler.kind = "reject")
    OBVIOUS
  <2>3. PICK hole : hole = IF Unused(heap, r) THEN heap.resolvers[r].promise ELSE 0
    OBVIOUS
  <2>4. PICK w : w = Resolved(s, r, j.arg, reject)
    OBVIOUS
  <2>5. heap' = Answered(w, j.cap, Plain, FALSE) /\ running' = <<>>
    BY <1>1, <1>3, <1>4, <1>11, <1>25, <2>1, <2>2, <2>4 DEF ReactionJobRuns
  <2>6. s.promises = heap.promises /\ s.resolvers = heap.resolvers
    BY <1>14 DEF JobShift
  <2>7. j.handler.kind \in Settling /\ (reject <=> j.handler.kind = "reject")
    BY <1>25, <2>2 DEF Settling
  <2>8. HoleLeft(heap, hole) /\ MaySettle(s, r, j.arg, reject, hole)
    BY <1>1, <1>2, <1>7, <1>8, <2>1, <2>2, <2>3, <2>6, <2>7, JobMaySettle
  <2>9. Following(s, more, hole)
    BY <1>19, <2>8
  <2>10. Ordered(w) /\ Following(w, more, 0)
    BY <1>10, <1>12, <1>16, <2>1, <2>2, <2>4, <2>8, <2>9, ResolvedRight
  <2>11. GoodHeap(w, n, m)
    BY <1>10, <1>12, <2>1, <2>2, <2>4, ResolvedKeeps
  <2>12. Plain \in ValuesOf(n)
    BY DEF ValuesOf, Values
  <2>13. Ordered(heap') /\ Following(heap', more, 0)
    BY <1>10, <1>18, <2>5, <2>10, <2>11, <2>12, AnsweredRight
  <2> QED  BY <1>21, <2>5, <2>13
<1> QED  BY <1>22, <1>23, <1>24, <1>25

(* js_promise_resolve_thenable_job: the promise gets a second pair of
   functions, which go to the then of the promise it follows, or to the
   script's then when that is no promise. *)
LEMMA ThenableJobRunsReactions ==
  ASSUME NEW n \in Nat, NEW m \in Nat, PromisesHold(heap, held, running, n, m),
         ReactionsHold(heap, held, running), ThenableJobRuns
  PROVE  ReactionsHold(heap', held', running')
<1>1. /\ GoodHeap(heap, n, m) /\ held \subseteq 1 .. m /\ RunningFits(running, m)
      /\ heap.jobs # <<>> /\ running = <<>> /\ Head(heap.jobs).kind = "thenable"
  BY DEF PromisesHold, ThenableJobRuns
<1>2. Ordered(heap) /\ Following(heap, held, 0)
  BY <1>1, PubIs DEF ReactionsHold
<1>3. PICK j : j = Head(heap.jobs)
  OBVIOUS
<1>4. PICK u : u = Taken
  OBVIOUS
<1>5. u = TakenOf(heap)
  BY <1>4 DEF Taken, TakenOf
<1>6. \E c \in Nat : /\ JobShift(heap, u, c) /\ u.reactions = heap.reactions
                     /\ Head(heap.jobs) = heap.jobs[1] /\ 1 \in DOMAIN heap.jobs
  BY <1>1, <1>5, TakenIs
<1>7. PICK c \in Nat : /\ JobShift(heap, u, c) /\ u.reactions = heap.reactions
                       /\ j = heap.jobs[1] /\ 1 \in DOMAIN heap.jobs
  BY <1>3, <1>6, Zenon
<1>8. Adopting(heap, 1) /\ ~Reacting(heap, 1)
  BY <1>1, <1>3, <1>7 DEF Reacting, Adopting
<1>9. /\ GoodHeap(u, n, m) /\ u.promises = heap.promises /\ j \in JobsOf(n, m)
      /\ heap.promises[j.promise].state = "pending" /\ NobodySettles(u, j.promise)
  BY <1>1, <1>3, <1>5, TakenKeeps
<1>10. PICK hole \in 1 .. n : hole = j.promise
  BY <1>1, <1>3, <1>9 DEF JobsOf
<1>11. j.arg \in ValuesOf(n)
  BY <1>1, <1>3, <1>9 DEF JobsOf
<1>12. RanNow(heap, u)
  BY <1>7, <1>8, Zenon DEF RanNow
<1>13. Ordered(u)
  BY <1>1, <1>2, <1>7, <1>12, ShiftOrdered
<1>14. Following(u, held, hole)
  <2>1. HoleLeft(heap, hole)
    BY <1>7, <1>8, <1>10 DEF HoleLeft
  <2>2. Gets(heap, held, held)
    BY DEF Gets
  <2> QED  BY <1>1, <1>2, <1>7, <2>1, <2>2, ShiftFollows
<1>15. u.promises[hole].adopts = IF IsPromise(j.arg) THEN j.arg ELSE 0
  BY <1>2, <1>7, <1>8, <1>9, <1>10, Zenon DEF Following, AdoptJobs
<1>16. PICK s : s = WithResolver(u, hole)
  OBVIOUS
<1>17. GoodHeap(s, n, m + 1) /\ LastPair(s) = m + 1
  BY <1>9, <1>10, <1>16, NewPairKeeps
<1>18. PairAdded(u, s, hole, m) /\ Unused(s, m + 1)
  BY <1>9, <1>10, <1>16, PairAddedIs
<1>19. held \subseteq 0 .. m
  BY <1>1
<1>20. CASE IsPromise(j.arg)
  <2>1. Ordered(s) /\ Following(s, held, hole)
    BY <1>9, <1>10, <1>13, <1>14, <1>18, <1>19, PairAddedRight
  <2>2. heap' = Then(s, j.arg, Resolving("resolve", m + 1), Resolving("reject", m + 1))
        /\ running' = running /\ held' = held
    <3>1. /\ heap' = Then(s, j.arg, FunctionsFor(LastPair(s))[1], FunctionsFor(LastPair(s))[2])
          /\ running' = running /\ held' = held
      BY <1>3, <1>4, <1>10, <1>16, <1>20 DEF ThenableJobRuns
    <3>2. FunctionsFor(m + 1)[1] = Resolving("resolve", m + 1)
          /\ FunctionsFor(m + 1)[2] = Resolving("reject", m + 1)
      BY DEF FunctionsFor
    <3> QED  BY <1>17, <3>1, <3>2
  <2>3. j.arg \in 1 .. n
    BY <1>11, <1>20 DEF IsPromise, ValuesOf, Values, Plain, Thenable, BadThenable, TypeErr
  <2>4. m + 1 \in Nat /\ m + 1 \in 1 .. m + 1 /\ held \subseteq 0 .. m + 1
    BY <1>19
  <2>5. Resolving("resolve", m + 1) \in HandlersOf(m + 1) /\ Resolving("reject", m + 1) \in HandlersOf(m + 1)
    BY <2>4 DEF HandlersOf, Resolving
  <2>6. FitsThen(s, Resolving("resolve", m + 1), Resolving("reject", m + 1), j.arg, hole, m + 1)
    <3>1. s.promises = u.promises /\ s.resolvers[m + 1].promise = hole
      BY <1>18 DEF PairAdded
    <3>2. hole \in DOMAIN s.promises
      BY <1>10, <1>17, <2>4, HeapRanges
    <3>3. s.promises[hole].adopts = j.arg
      BY <1>15, <1>20, <3>1
    <3> QED  BY <1>18, <2>4, <3>1, <3>2, <3>3, Zenon DEF FitsThen
  <2>7. Ordered(heap') /\ Following(heap', held, 0)
    BY <1>17, <2>1, <2>2, <2>3, <2>4, <2>5, <2>6, ThenRight
  <2>8. PubOf(held', running') = held
    BY <1>1, <2>2, PubIs
  <2> QED  BY <2>7, <2>8 DEF ReactionsHold
<1>21. CASE ~IsPromise(j.arg)
  <2>1. u.promises[hole].adopts = 0 /\ s.promises = u.promises
    BY <1>15, <1>18, <1>21 DEF PairAdded
  <2>2. Ordered(s) /\ (u.promises[hole].adopts = 0 => Following(s, held \cup {m + 1}, hole))
    BY <1>9, <1>10, <1>13, <1>14, <1>18, <1>19, PairAddedRight
  <2>3. heap' = s /\ running' = <<[j EXCEPT !.cap = m + 1]>> /\ held' = held \cup {m + 1}
    BY <1>3, <1>4, <1>10, <1>16, <1>17, <1>21 DEF ThenableJobRuns
  <2>4. PICK j2 : j2 = [j EXCEPT !.cap = m + 1]
    OBVIOUS
  <2>5. j2.cap = m + 1
    BY <1>1, <1>3, <1>9, <2>4 DEF JobsOf
  <2>6. PICK h2 : h2 = held \cup {m + 1}
    OBVIOUS
  <2>7. PubOf(h2, <<j2>>) = h2 \cup {j2.cap}
    BY DEF PubOf
  <2>8. PubOf(held', running') = h2
    BY <2>3, <2>4, <2>5, <2>6, <2>7
  <2>9. Following(s, h2, 0)
    BY <2>1, <2>2, <2>6, HoleClosed
  <2> QED  BY <2>2, <2>3, <2>8, <2>9 DEF ReactionsHold
<1> QED  BY <1>20, <1>21

(* Every step keeps the invariant. *)
LEMMA ReactionsStepInv == ReactionsInv /\ [PromisesNext]_promiseVars => ReactionsInv'
<1> SUFFICES ASSUME ReactionsInv, [PromisesNext]_promiseVars PROVE ReactionsInv'
  OBVIOUS
<1>0. PromisesInv' /\ ReactionsHold(heap, held, running)
  BY PromisesStepInv DEF ReactionsInv
<1>1. PICK n \in Nat, m \in Nat : PromisesHold(heap, held, running, n, m)
  BY DEF ReactionsInv, PromisesInv
<1>2. CASE ScriptPromise
  BY <1>0, <1>1, <1>2, ScriptPromiseReactions DEF ReactionsInv
<1>3. ASSUME NEW p \in Known, NEW onF \in {NoHandler, ScriptHandler},
             NEW onR \in {NoHandler, ScriptHandler}, ScriptThen(p, onF, onR)
      PROVE  ReactionsInv'
  BY <1>0, <1>1, <1>3, ScriptThenReactions DEF ReactionsInv
<1>4. ASSUME NEW p \in Known, ScriptAwait(p) PROVE ReactionsInv'
  BY <1>0, <1>1, <1>4, ScriptAwaitReactions DEF ReactionsInv
<1>5. ASSUME NEW r \in held, NEW v \in Values \cup Known, NEW reject \in BOOLEAN,
             ScriptResolve(r, v, reject)
      PROVE  ReactionsInv'
  BY <1>0, <1>1, <1>5, ScriptResolveReactions DEF ReactionsInv
<1>6. CASE ReactionJobRuns
  BY <1>0, <1>1, <1>6, ReactionJobRunsReactions DEF ReactionsInv
<1>7. CASE ThenableJobRuns
  BY <1>0, <1>1, <1>7, ThenableJobRunsReactions DEF ReactionsInv
<1>8. ASSUME NEW v \in Values \cup Known, NEW throws \in BOOLEAN, HandlerEnds(v, throws)
      PROVE  ReactionsInv'
  BY <1>0, <1>1, <1>8, HandlerEndsReactions DEF ReactionsInv
<1>9. CASE UNCHANGED promiseVars
  BY <1>0, <1>9 DEF promiseVars, ReactionsInv
<1> QED  BY <1>2, <1>3, <1>4, <1>5, <1>6, <1>7, <1>8, <1>9 DEF PromisesNext

(* It holds at the start. *)
LEMMA ReactionsInitInv == PromisesInit => ReactionsInv
<1> SUFFICES ASSUME PromisesInit PROVE ReactionsInv
  OBVIOUS
<1>1. PromisesInv
  BY PromisesInitInv
<1>2. /\ heap.promises = <<>> /\ heap.resolvers = <<>> /\ heap.jobs = <<>> /\ heap.reactions = <<>>
      /\ running = <<>> /\ held = {}
  BY DEF PromisesInit
<1>3. Ordered(heap)
  BY <1>2 DEF Ordered, ListsRight, JobsRight, Placed, RanRight
<1>4. PubOf(held, running) = {}
  BY <1>2 DEF PubOf
<1>5. Following(heap, {}, 0)
  BY <1>2 DEF Following, ResultsRight, AdoptJobs, ListAdopts, JobAdopts, Public, AllFollow
<1> QED  BY <1>1, <1>3, <1>4, <1>5 DEF ReactionsInv, ReactionsHold

(* It implies the property: with no job left a reaction has run or its
   promise is pending, and a promise follows by state and result, or waits
   like the one it follows. *)
LEMMA ReactionsInvRight == ReactionsInv => ReactionsRight
<1> SUFFICES ASSUME ReactionsInv PROVE ReactionsRight
  OBVIOUS
<1>1. PICK n \in Nat, m \in Nat : GoodHeap(heap, n, m)
  BY DEF ReactionsInv, PromisesInv, PromisesHold
<1>2. Ordered(heap) /\ ResultsRight(heap) /\ AllFollow(heap, 0)
  BY DEF ReactionsInv, ReactionsHold, Following
<1>3. RanInOrder
  BY <1>2 DEF Ordered, RanRight, OwnerOf, RanInOrder
<1>4. EachReactionOnce
  <2>1. ASSUME Quiet, NEW i \in DOMAIN heap.reactions
        PROVE  heap.reactions[i].ran = IF heap.promises[heap.reactions[i].promise].state = "pending"
                                       THEN 0 ELSE 1
    <3>1. PlaceOf(heap, i) /\ heap.jobs = <<>>
      BY <1>2, <2>1 DEF Ordered, Placed, Quiet
    <3>2. ~\E k \in DOMAIN heap.jobs : Reacting(heap, k) /\ heap.jobs[k].id = i
      BY <3>1
    <3> QED  BY <3>1, <3>2 DEF PlaceOf, OwnerOf
  <2> QED  BY <2>1, Zenon DEF EachReactionOnce
<1>5. AdoptsState
  <2>1. ASSUME Quiet, NEW p \in Known, NEW q, q = heap.promises[p].adopts, q # 0
        PROVE  /\ heap.promises[p].state = heap.promises[q].state
               /\ heap.promises[p].result = heap.promises[q].result
    <3>1. DOMAIN heap.promises = 1 .. n /\ Known = 1 .. n
      BY <1>1, HeapRanges DEF Known, GoodHeap, Shaped
    <3>2. p \in 1 .. n /\ p # 0
      BY <2>1, <3>1
    <3>3. q \in 1 .. n /\ Follows(heap, p, q)
      BY <1>2, <2>1, <3>1, <3>2, Zenon DEF AllFollow
    <3>4. \A k : k \notin DOMAIN heap.jobs
      BY <2>1 DEF Quiet
    <3>5. ASSUME NEW r \in DOMAIN heap.resolvers, Unused(heap, r), heap.resolvers[r].promise = p,
                 NEW k \in DOMAIN ListOf(heap, q)
          PROVE  /\ heap.promises[p].state = heap.promises[q].state
                 /\ heap.promises[p].result = heap.promises[q].result
      <4>1. heap.promises[p].state = "pending"
        BY <1>1, <3>5 DEF GoodHeap, OneSettles
      <4>2. heap.promises[q].state = "pending"
        BY <1>2, <3>1, <3>3, <3>5 DEF Ordered, ListsRight
      <4>3. heap.promises[p].result = Plain /\ heap.promises[q].result = Plain
        BY <1>2, <3>1, <3>2, <3>3, <4>1, <4>2 DEF ResultsRight
      <4> QED  BY <4>1, <4>2, <4>3
    <3> QED  BY <3>3, <3>4, <3>5, Zenon DEF Follows
  <2> QED  BY <2>1 DEF AdoptsState
<1> QED  BY <1>3, <1>4, <1>5 DEF ReactionsRight

(***************************************************************************)
(* However many promises, reactions and jobs there are: the reactions of a *)
(* promise run in the order then added them; when no job is left each      *)
(* reaction of a settled promise has run once and no other has run; and a  *)
(* promise that was resolved with another has then its state and its       *)
(* result (perform_promise_then, fulfill_or_reject_promise, and            *)
(* js_promise_resolve_thenable_job, which gives the promise a second pair  *)
(* of functions).                                                          *)
(***************************************************************************)
THEOREM ReactionsAlwaysRight == PromisesSpec => []ReactionsRight
<1>1. ReactionsInv => ReactionsRight
  BY ReactionsInvRight
<1>2. QED
  BY <1>1, ReactionsInitInv, ReactionsStepInv, PTL DEF PromisesSpec

=============================================================================
