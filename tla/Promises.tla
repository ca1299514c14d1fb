-------------------------------- MODULE Promises --------------------------------
(***************************************************************************)
(* Promises of quickjs.c: the resolving functions, then, the two kinds of  *)
(* jobs and the list of unhandled rejections that the host keeps.  Scripts *)
(* are arbitrary: between jobs, and inside the handlers that a job calls,  *)
(* they make promises, settle those whose functions they hold, and add     *)
(* reactions.                                                              *)
(*                                                                         *)
(* A value is one of the numbers below or the number of a promise.  The    *)
(* state of the engine is one record, changed by the functions of the code.*)
(***************************************************************************)
EXTENDS Integers, Sequences, FiniteSets

CONSTANT MaxCalls   \* bound: promises and reactions that scripts make, and
                    \* thenables that they resolve with

ASSUME PromisesAssumption == MaxCalls \in Nat

Plain == 0          \* not an object, or an object whose then is no function
Thenable == -1      \* an object of the script with a then method
BadThenable == -2   \* one whose then property throws when it is read
TypeErr == -3       \* an error the engine throws
Values == {Plain, Thenable, BadThenable}
IsPromise(v) == v > 0

(* Handlers of reactions: of the script, or the resolving functions r. *)
NoHandler == [kind |-> "none", r |-> 0]
ScriptHandler == [kind |-> "script", r |-> 0]
Resolving(k, r) == [kind |-> k, r |-> r]

VARIABLES
  heap,       \* promises, resolvers, jobs, unhandled, reactions, surprised
  running,    \* the job whose script code runs, <<>> outside of jobs
  held,       \* the resolving functions that scripts hold
  calls       \* how many of those there were

promiseVars == <<heap, running, held, calls>>

(* A reaction is kept once for both lists of its promise: onF and onR are
   the handlers, cap the resolving functions of the promise that then made,
   0 for an await.  reactions[i] is history: whose reaction i is and how
   often it ran.  surprised is history: fulfill_or_reject_promise was called
   for a promise that was not pending. *)
NewPromise == [state |-> "pending", result |-> Plain, handled |-> FALSE, list |-> <<>>, adopts |-> 0]

PromisesInit ==
  /\ heap = [promises |-> <<>>, resolvers |-> <<>>, jobs |-> <<>>, unhandled |-> {},
             reactions |-> <<>>, surprised |-> FALSE]
  /\ running = <<>> /\ held = {} /\ calls = 0

-----------------------------------------------------------------------------
(* JS_EnqueueJob; the slip puts the newest first. *)
QueuedFirst(jobs, new) == new \o jobs
Queued(jobs, new) == jobs \o new

ReactionJob(x, reject, v) ==
  [kind |-> "reaction", handler |-> IF reject THEN x.onR ELSE x.onF, reject |-> reject,
   arg |-> v, cap |-> x.cap, promise |-> 0, id |-> x.id]
ThenableJob(p, v) ==
  [kind |-> "thenable", handler |-> NoHandler, reject |-> FALSE, arg |-> v, cap |-> 0,
   promise |-> p, id |-> 0]

(* fulfill_or_reject_promise, and the host's tracker.  The slip reports a
   rejection whether or not it is handled. *)
ReportsAlways(s, p) == TRUE
Reports(s, p) == ~s.promises[p].handled
Settled(s, p, v, reject) ==
  IF s.promises[p].state # "pending" THEN [s EXCEPT !.surprised = TRUE]
  ELSE [s EXCEPT
         !.promises[p] = [@ EXCEPT !.state = IF reject THEN "rejected" ELSE "fulfilled",
                                   !.result = v, !.list = <<>>],
         !.unhandled = IF reject /\ Reports(s, p) THEN @ \cup {p} ELSE @,
         !.jobs = Queued(@, [i \in DOMAIN s.promises[p].list |->
                               ReactionJob(s.promises[p].list[i], reject, v)])]

(* js_promise_resolve_function_call.  The slip forgets already_resolved. *)
IgnoredNever(s, r) == FALSE
Ignored(s, r) == s.resolvers[r].done
Resolved(s, r, v, reject) ==
  LET p == s.resolvers[r].promise
      t == [s EXCEPT !.resolvers[r].done = TRUE]
  IN
  CASE Ignored(s, r) -> s
    [] ~Ignored(s, r) /\ (reject \/ v \in {Plain, TypeErr}) -> Settled(t, p, v, reject)
    [] ~Ignored(s, r) /\ ~reject /\ v \in {p, BadThenable} -> Settled(t, p, TypeErr, TRUE)
    [] OTHER -> [t EXCEPT !.jobs = Queued(@, <<ThenableJob(p, v)>>),
                          !.promises[p].adopts = IF IsPromise(v) THEN v ELSE 0]

(* js_create_resolving_functions: a pair with a flag of its own. *)
WithResolver(s, p) ==
  [s EXCEPT !.resolvers = Append(@, [promise |-> p, done |-> FALSE])]
(* js_promise_constructor, up to the call of the executor. *)
WithPromise(s) ==
  LET t == [s EXCEPT !.promises = Append(@, NewPromise)] IN WithResolver(t, Len(t.promises))
(* The pair made last; the slip looks behind it. *)
LastPairNext(s) == Len(s.resolvers) + 1
LastPair(s) == Len(s.resolvers)

(***************************************************************************)
(* perform_promise_then: the reaction waits, or its job is queued at once; *)
(* a rejection that was reported is taken back.  The slip queues no job    *)
(* for a promise that was rejected before.                                 *)
(***************************************************************************)
JobsNowIfFulfilled(x, q) ==
  IF q.state = "rejected" THEN <<>> ELSE <<ReactionJob(x, FALSE, q.result)>>
JobsNow(x, q) == <<ReactionJob(x, q.state = "rejected", q.result)>>
WithReaction(s, p, onF, onR, cap) ==
  LET x == [onF |-> onF, onR |-> onR, cap |-> cap, id |-> Len(s.reactions) + 1]
      q == s.promises[p]
      t == [s EXCEPT !.reactions = Append(@, [promise |-> p, ran |-> 0]),
                     !.promises[p].handled = TRUE]
  IN
  IF q.state = "pending" THEN [t EXCEPT !.promises[p].list = Append(@, x)]
  ELSE [t EXCEPT
         !.unhandled = IF q.state = "rejected" /\ ~q.handled THEN @ \ {p} ELSE @,
         !.jobs = Queued(@, JobsNow(x, q))]

(* js_promise_then: a promise with its functions first. *)
Then(s, p, onF, onR) ==
  LET t == WithPromise(s) IN WithReaction(t, p, onF, onR, LastPair(t))

-----------------------------------------------------------------------------
(* Scripts. *)

Known == 1 .. Len(heap.promises)
ScriptPromise ==
  /\ calls < MaxCalls /\ calls' = calls + 1
  /\ heap' = WithPromise(heap)
  /\ held' = held \cup {LastPair(heap')}
  /\ UNCHANGED running
ScriptThen(p, onF, onR) ==
  /\ calls < MaxCalls /\ calls' = calls + 1
  /\ heap' = Then(heap, p, onF, onR)
  /\ UNCHANGED <<running, held>>
(* await: the functions of the async function, and no promise. *)
ScriptAwait(p) ==
  /\ calls < MaxCalls /\ calls' = calls + 1
  /\ heap' = WithReaction(heap, p, ScriptHandler, ScriptHandler, 0)
  /\ UNCHANGED <<running, held>>
(* What a script gives away: a value, counted if it is a thenable, or the
   reason of a rejection. *)
Gives(v, reject) ==
  /\ reject => v = Plain
  /\ IF v = Thenable \/ IsPromise(v) THEN calls < MaxCalls /\ calls' = calls + 1
     ELSE UNCHANGED calls
ScriptResolve(r, v, reject) ==
  /\ r \in held /\ ~Ignored(heap, r) /\ Gives(v, reject)
  /\ heap' = Resolved(heap, r, v, reject)
  /\ UNCHANGED <<running, held>>

-----------------------------------------------------------------------------
(* Jobs: JS_ExecutePendingJob takes the first. *)

Taken == [heap EXCEPT !.jobs = Tail(@)]
Ran(s, i) == [s EXCEPT !.reactions[i].ran = @ + 1]
(* The end of promise_reaction_job: the answer settles what then made. *)
Answered(s, cap, v, reject) == IF cap = 0 THEN s ELSE Resolved(s, cap, v, reject)

(* No handler passes the value or the error on; a resolving function returns
   undefined; a handler of the script runs until it returns. *)
ReactionJobRuns ==
  /\ running = <<>> /\ heap.jobs # <<>> /\ Head(heap.jobs).kind = "reaction"
  /\ LET j == Head(heap.jobs)
         s == Ran(Taken, j.id)
     IN CASE j.handler.kind = "none" ->
               heap' = Answered(s, j.cap, j.arg, j.reject) /\ UNCHANGED running
          [] j.handler.kind \in {"resolve", "reject"} ->
               /\ heap' = Answered(Resolved(s, j.handler.r, j.arg, j.handler.kind = "reject"),
                                   j.cap, Plain, FALSE)
               /\ UNCHANGED running
          [] j.handler.kind = "script" -> heap' = s /\ running' = <<j>>
  /\ UNCHANGED <<held, calls>>

(* js_promise_resolve_thenable_job: functions of its own for the promise,
   given to then: of a promise, or of the script.  The slip gives a promise
   the two in the wrong order. *)
FunctionsSwapped(r) == <<Resolving("reject", r), Resolving("resolve", r)>>
FunctionsFor(r) == <<Resolving("resolve", r), Resolving("reject", r)>>
ThenableJobRuns ==
  /\ running = <<>> /\ heap.jobs # <<>> /\ Head(heap.jobs).kind = "thenable"
  /\ LET j == Head(heap.jobs)
         s == WithResolver(Taken, j.promise)
         r == LastPair(s)
     IN IF IsPromise(j.arg)
        THEN /\ heap' = Then(s, j.arg, FunctionsFor(r)[1], FunctionsFor(r)[2])
             /\ UNCHANGED <<running, held>>
        ELSE heap' = s /\ running' = <<[j EXCEPT !.cap = r]>> /\ held' = held \cup {r}
  /\ UNCHANGED calls

(* The script's handler or then method returns a value or throws. *)
HandlerEnds(v, throws) ==
  /\ running # <<>> /\ Gives(v, throws)
  /\ LET j == running[1] IN
     heap' = IF j.kind = "reaction" THEN Answered(heap, j.cap, v, throws)
             ELSE IF throws THEN Resolved(heap, j.cap, v, TRUE) ELSE heap
  /\ running' = <<>>
  /\ UNCHANGED held

PromisesNext ==
  \/ ScriptPromise
  \/ \E p \in Known :
       \/ \E onF, onR \in {NoHandler, ScriptHandler} : ScriptThen(p, onF, onR)
       \/ ScriptAwait(p)
  \/ \E r \in held, v \in Values \cup Known, reject \in BOOLEAN : ScriptResolve(r, v, reject)
  \/ ReactionJobRuns \/ ThenableJobRuns
  \/ \E v \in Values \cup Known, throws \in BOOLEAN : HandlerEnds(v, throws)

PromisesSpec == PromisesInit /\ [][PromisesNext]_promiseVars

-----------------------------------------------------------------------------
PromisesTypeOK ==
  /\ \A p \in Known : heap.promises[p].state \in {"pending", "fulfilled", "rejected"}
  /\ held \subseteq DOMAIN heap.resolvers
  /\ heap.unhandled \subseteq Known

(***************************************************************************)
(* "should never happen": fulfill_or_reject_promise is only called for a   *)
(* promise that is pending.  After a promise was resolved with a thenable  *)
(* two pairs of functions name it, and only the newer one may settle it.   *)
(***************************************************************************)
SettlesOnlyPending == ~heap.surprised

(***************************************************************************)
(* The host's list holds exactly the promises that are rejected and have   *)
(* no reaction yet, whatever the order of rejecting and of then.           *)
(***************************************************************************)
UnhandledTracked ==
  heap.unhandled = {p \in Known : heap.promises[p].state = "rejected"
                       /\ ~\E i \in DOMAIN heap.reactions : heap.reactions[i].promise = p}

(***************************************************************************)
(* The reactions of a promise run in the order then added them, before and *)
(* after it settled.                                                       *)
(***************************************************************************)
RanInOrder ==
  \A i, j \in DOMAIN heap.reactions :
    i < j /\ heap.reactions[i].promise = heap.reactions[j].promise /\ heap.reactions[j].ran > 0
      => heap.reactions[i].ran > 0

(***************************************************************************)
(* When no job is left, every reaction of a settled promise has run once   *)
(* and no other has run.                                                   *)
(***************************************************************************)
Quiet == heap.jobs = <<>> /\ running = <<>>
EachReactionOnce ==
  Quiet => \A i \in DOMAIN heap.reactions :
    heap.reactions[i].ran = IF heap.promises[heap.reactions[i].promise].state = "pending" THEN 0 ELSE 1

(***************************************************************************)
(* When no job is left, a promise that was resolved with another one has   *)
(* its state and its result.                                               *)
(***************************************************************************)
AdoptsState ==
  Quiet => \A p \in Known :
    LET q == heap.promises[p].adopts IN
    q # 0 => /\ heap.promises[p].state = heap.promises[q].state
             /\ heap.promises[p].result = heap.promises[q].result

(***************************************************************************)
(* A promise is settled at most once, whichever of its resolving functions *)
(* is called how often and from where, and the tracker knows of exactly    *)
(* the rejections that nobody handles.                                     *)
(***************************************************************************)
SettledOnce ==
  /\ PromisesTypeOK
  /\ SettlesOnlyPending
  /\ UnhandledTracked

(***************************************************************************)
(* Jobs run in the order they were queued, every reaction of a settled     *)
(* promise has run exactly once when the queue is empty, and a promise     *)
(* resolved with another one has ended in the state of that one.           *)
(***************************************************************************)
ReactionsRight ==
  /\ RanInOrder
  /\ EachReactionOnce
  /\ AdoptsState
=============================================================================
