----------------------------- MODULE AsyncGenerator -----------------------------
(***************************************************************************)
(* One asynchronous generator of quickjs.c: the queue of its requests      *)
(* (next, return and throw), its states, and the loop that serves them,    *)
(* js_async_generator_resume_next.  The body is arbitrary: it yields,      *)
(* awaits, returns or throws, and may itself make requests.                *)
(***************************************************************************)
EXTENDS Integers, Sequences, FiniteSets

CONSTANT MaxRequests   \* bound: requests that are ever made

ASSUME AsyncGeneratorAssumption == MaxRequests \in Nat

VARIABLES
  genState,    \* state
  frame,       \* func_state is there
  queue,       \* requests: number and kind
  control,     \* "script", "loop" in resume_next, "body" in the generator's code
  awaits,      \* promises waited for: reactions that call resolve_function
  asked,       \* history: number of requests
  answered,    \* history: requests in the order they were answered, and how
  genAsserts   \* history: assertions held, and what was used was there

genVars == <<genState, frame, queue, control, awaits, asked, answered, genAsserts>>

AsyncGeneratorInit ==
  /\ genState = "start" /\ frame = TRUE /\ queue = <<>>
  /\ control = "script" /\ awaits = {}
  /\ asked = 0 /\ answered = <<>> /\ genAsserts = TRUE

(* js_async_generator_resolve_or_reject: the first request is answered. *)
Answers(how) ==
  /\ answered' = Append(answered, [how |-> how, id |-> queue[1].id, kind |-> queue[1].kind])
  /\ queue' = Tail(queue)
NeverAsserted == UNCHANGED genAsserts

-----------------------------------------------------------------------------
(* js_async_generator_next.  While the body runs or awaits, the request is
   only queued.  The slip serves it at once. *)
ServesAtOnce(state) == TRUE
Serves(state) == state # "executing"
(* The slip queues the newest first. *)
EnqueuedFront(q, r) == <<r>> \o q
EnqueuedLast(q, r) == Append(q, r)
GeneratorRequest(kind) ==
  /\ control \in {"script", "body"} /\ asked < MaxRequests
  /\ asked' = asked + 1
  /\ queue' = EnqueuedLast(queue, [id |-> asked + 1, kind |-> kind])
  /\ control' = IF Serves(genState) THEN "loop" ELSE control
  /\ UNCHANGED <<genState, frame, awaits, answered>> /\ NeverAsserted

-----------------------------------------------------------------------------
(* js_async_generator_resume_next, one round for each state *)
First(kinds) == queue # <<>> /\ queue[1].kind \in kinds
LoopEnds ==
  /\ control = "loop"
  /\ queue = <<>> \/ genState = "awaiting_return"
  /\ control' = "script"
  /\ UNCHANGED <<genState, frame, queue, awaits, asked, answered>> /\ NeverAsserted
LoopResumes ==
  /\ control = "loop"
  /\ \/ queue # <<>> /\ genState \in {"executing", "yield", "yield_star"}
     \/ First({"next"}) /\ genState = "start"
  /\ genState' = "executing" /\ control' = "body"
  /\ genAsserts' = (genAsserts /\ frame)
  /\ UNCHANGED <<frame, queue, awaits, asked, answered>>
LoopCompletesStart ==
  /\ control = "loop" /\ genState = "start" /\ First({"return", "throw"})
  /\ genState' = "completed" /\ frame' = FALSE
  /\ UNCHANGED <<queue, control, awaits, asked, answered>> /\ NeverAsserted

(* A completed generator: one request is answered and the loop is left. *)
LoopAnswersCompleted ==
  /\ control = "loop" /\ genState = "completed" /\ First({"next", "throw"})
  /\ Answers(IF queue[1].kind = "next" THEN "done" ELSE "rejected")
  /\ control' = "script"
  /\ UNCHANGED <<genState, frame, awaits, asked>> /\ NeverAsserted
LoopAwaitsReturn ==
  /\ control = "loop" /\ genState = "completed" /\ First({"return"})
  /\ genState' = "awaiting_return" /\ awaits' = awaits \cup {"return"}
  /\ genAsserts' = (genAsserts /\ "return" \notin awaits)
  /\ control' = "script"
  /\ UNCHANGED <<frame, queue, asked, answered>>

(* The body.  After a yield the loop goes on; the slip leaves it. *)
AfterYieldLeaves == "script"
AfterYield == "loop"
BodyYields(kind) ==
  /\ control = "body"
  /\ genState' = kind /\ Answers("value")
  /\ genAsserts' = (genAsserts /\ queue # <<>>)
  /\ control' = AfterYield
  /\ UNCHANGED <<frame, awaits, asked>>
BodyAwaits ==
  /\ control = "body"
  /\ awaits' = awaits \cup {"body"}
  /\ genAsserts' = (genAsserts /\ "body" \notin awaits)
  /\ control' = "script"
  /\ UNCHANGED <<genState, frame, queue, asked, answered>>
BodyEnds(how) ==
  /\ control = "body"
  /\ genState' = "completed" /\ frame' = FALSE /\ Answers(how)
  /\ control' = "loop"
  /\ UNCHANGED <<awaits, asked>> /\ NeverAsserted

-----------------------------------------------------------------------------
(* js_async_generator_resolve_function *)
AwaitSettles ==
  /\ control = "script" /\ "body" \in awaits
  /\ awaits' = awaits \ {"body"} /\ control' = "loop"
  /\ genAsserts' = (genAsserts /\ genState = "executing")
  /\ UNCHANGED <<genState, frame, queue, asked, answered>>
ReturnSettles(how) ==
  /\ control = "script" /\ "return" \in awaits
  /\ awaits' = awaits \ {"return"}
  /\ genAsserts' = (genAsserts /\ genState \in {"awaiting_return", "completed"} /\ queue # <<>>)
  /\ genState' = "completed" /\ Answers(how)
  /\ UNCHANGED <<frame, control, asked>>

AsyncGeneratorNext ==
  \/ \E kind \in {"next", "return", "throw"} : GeneratorRequest(kind)
  \/ LoopEnds \/ LoopResumes \/ LoopCompletesStart \/ LoopAnswersCompleted \/ LoopAwaitsReturn
  \/ \E kind \in {"yield", "yield_star"} : BodyYields(kind)
  \/ BodyAwaits \/ AwaitSettles
  \/ \E how \in {"done", "rejected"} : BodyEnds(how) \/ ReturnSettles(how)
AsyncGeneratorSpec == AsyncGeneratorInit /\ [][AsyncGeneratorNext]_genVars

-----------------------------------------------------------------------------
(***************************************************************************)
(* The assertions on the state hold in every reaction, the frame is there  *)
(* whenever the body is entered, and a request is there for every answer.  *)
(***************************************************************************)
GeneratorAsserts == genAsserts /\ (control = "body" => frame /\ queue # <<>>)

(***************************************************************************)
(* Requests are answered in the order they were made, each once.           *)
(***************************************************************************)
AnswersInOrder == \A i \in DOMAIN answered : answered[i].id = i

(***************************************************************************)
(* Nothing waits while nothing runs: the reader of a generator is answered *)
(* when no promise is waited for any more.                                 *)
(***************************************************************************)
Idle == control = "script" /\ awaits = {}
EveryRequestAnswered == Idle => queue = <<>>

(***************************************************************************)
(* Until the generator is completed no request is left unanswered while    *)
(* nothing runs, and each that was answered earlier had a value.           *)
(***************************************************************************)
AnsweredUntilCompleted ==
  /\ Idle /\ genState # "completed" => queue = <<>>
  /\ genState \notin {"completed", "awaiting_return"} =>
       \A i \in DOMAIN answered : answered[i].how = "value"

(***************************************************************************)
(* The assertions on the state of an asynchronous generator hold, its      *)
(* requests are answered in the order they were made, and until it has     *)
(* completed none is left in the queue when it rests.                      *)
(***************************************************************************)
GeneratorSound ==
  /\ GeneratorAsserts
  /\ AnswersInOrder
  /\ AnsweredUntilCompleted
=============================================================================
