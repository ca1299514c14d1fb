------------------------------- MODULE EventLoop -------------------------------
(***************************************************************************)
(* The main thread of the script engine (quickjs-libc.c): js_std_await for *)
(* the main module, then js_std_loop, with js_os_poll for signals, timers  *)
(* and descriptors.  A script is arbitrary code: between its call and its  *)
(* return it makes any of the calls below.  Message ports are in Workers,  *)
(* promises in Promises: here a job is one that fails or does not.         *)
(***************************************************************************)
EXTENDS Integers, Sequences, FiniteSets, SequencesExt

CONSTANTS
  Programs,       \* bound: the kinds of calls a script makes
  MaxTimers,      \* bound: timers alive at once
  MaxTimerId,     \* INT32_MAX, where timer ids wrap
  MaxDelay,       \* bound: longest delay
  MaxSleep,       \* longest select with a timer armed, 10000 ms
  Fds, Signals,
  Rejected,       \* promises that may be rejected
  MaxJobs,        \* bound: jobs that are enqueued
  MaxSignals      \* bound: signals that arrive

ASSUME EventLoopAssumption ==
  /\ MaxTimers \in Nat /\ MaxTimerId \in Nat \ {0} /\ MaxDelay \in Nat /\ MaxSleep \in Nat \ {0}
  /\ MaxJobs \in Nat /\ MaxSignals \in Nat

Forever == -1
Timers == 1 .. MaxTimers    \* addresses of timers

VARIABLES
  uses,           \* the calls this script makes
  mode,           \* "await" in js_std_await, "loop" in js_std_loop
  at,             \* where the thread is
  settled,        \* the promise of the main module is not pending
  jobs, enqueued, \* job_list, and how many were put there
  broke,          \* a job failed in this turn of js_std_loop
  unhandled,      \* rejected_promise_list
  timers,         \* os_timers: address, id, time left, timers made since
  nextTimerId,
  handlers,       \* os_rw_handlers: descriptor, read and write function set
  found,          \* what select found ready, <<descriptor, 0 or 1>>
  sigHandlers,    \* os_signal_handlers
  pending,        \* os_pending_signals
  arrived,        \* how many signals arrived
  sleep           \* what is left of select's timeout

scriptState == <<settled, jobs, enqueued, unhandled, timers, nextTimerId, handlers, sigHandlers>>
systemState == <<arrived, pending>>
loopVars == <<uses, mode, at, broke, found, sleep, scriptState, systemState>>

LoopInit ==
  /\ uses \in Programs /\ mode \in {"await", "loop"}
  /\ at = "script" /\ settled = FALSE /\ broke = FALSE
  /\ jobs = <<>> /\ enqueued = 0 /\ unhandled = {}
  /\ timers = <<>> /\ nextTimerId = 1
  /\ handlers = <<>> /\ found = {}
  /\ sigHandlers = <<>> /\ pending = {} /\ arrived = 0
  /\ sleep = Forever

-----------------------------------------------------------------------------
(* Calls a script makes. *)

Scripting == at \in {"script", "job"}
LoopUnchanged == UNCHANGED <<uses, mode, at, broke, found, sleep, systemState>>

Live == {timers[i].th : i \in DOMAIN timers}
(* js_mallocz finds a free address. *)
Fresh(th) == th \notin Live /\ \A u \in 1 .. th - 1 : u \in Live
(* timer_id of the next timer; the slips wrap one too early, and never. *)
NextIdUnwrapped(id) == id + 1
NextIdEarly(id) == IF id >= MaxTimerId - 1 THEN 1 ELSE id + 1
NextId(id) == IF id = MaxTimerId THEN 1 ELSE id + 1
Older(ts) == [i \in DOMAIN ts |->
  [ts[i] EXCEPT !.age = IF @ < MaxTimerId THEN @ + 1 ELSE @]]

SetTimeout(th, delay) ==
  /\ Scripting /\ Fresh(th)
  /\ timers' = Append(Older(timers), [th |-> th, id |-> nextTimerId, left |-> delay, age |-> 0])
  /\ nextTimerId' = NextId(nextTimerId)
  /\ LoopUnchanged /\ UNCHANGED <<settled, jobs, enqueued, unhandled, handlers, sigHandlers>>

(* sleepAsync makes a timer that clearTimeout cannot name. *)
SleepAsync(th, delay) ==
  /\ Scripting /\ Fresh(th)
  /\ timers' = Append(timers, [th |-> th, id |-> -1, left |-> delay, age |-> 0])
  /\ LoopUnchanged
  /\ UNCHANGED <<settled, jobs, enqueued, unhandled, nextTimerId, handlers, sigHandlers>>

(* find_timer_by_id finds the first one with the id. *)
ClearTimeout(id) ==
  /\ Scripting /\ id > 0
  /\ \E i \in DOMAIN timers :
       /\ timers[i].id = id /\ \A j \in 1 .. i - 1 : timers[j].id # id
       /\ timers' = RemoveAt(timers, i)
  /\ LoopUnchanged
  /\ UNCHANGED <<settled, jobs, enqueued, unhandled, nextTimerId, handlers, sigHandlers>>

(* setReadHandler (io = 0) and setWriteHandler (io = 1): an entry per
   descriptor, dropped when both of its functions are null. *)
EntryOf(fd) == {i \in DOMAIN handlers : handlers[i].fd = fd}
SetHandler(fd, io) ==
  /\ Scripting
  /\ \/ /\ EntryOf(fd) = {}
        /\ handlers' = Append(handlers, [fd |-> fd, func |-> {io}])
     \/ \E i \in EntryOf(fd) : handlers' = [handlers EXCEPT ![i].func = @ \cup {io}]
  /\ LoopUnchanged
  /\ UNCHANGED <<settled, jobs, enqueued, unhandled, timers, nextTimerId, sigHandlers>>
ClearHandler(fd, io) ==
  /\ Scripting
  /\ \E i \in EntryOf(fd) :
       handlers' = IF handlers[i].func \subseteq {io} THEN RemoveAt(handlers, i)
                   ELSE [handlers EXCEPT ![i].func = @ \ {io}]
  /\ LoopUnchanged
  /\ UNCHANGED <<settled, jobs, enqueued, unhandled, timers, nextTimerId, sigHandlers>>

(* os.signal with a function, or with null or undefined. *)
OsSignal(sig, on) ==
  /\ Scripting
  /\ sigHandlers' = IF on THEN IF Contains(sigHandlers, sig) THEN sigHandlers
                               ELSE Append(sigHandlers, sig)
                    ELSE Remove(sigHandlers, sig)
  /\ LoopUnchanged
  /\ UNCHANGED <<settled, jobs, enqueued, unhandled, timers, nextTimerId, handlers>>

EnqueueJob(fails) ==
  /\ Scripting /\ enqueued < MaxJobs
  /\ jobs' = Append(jobs, fails) /\ enqueued' = enqueued + 1
  /\ LoopUnchanged /\ UNCHANGED <<settled, unhandled, timers, nextTimerId, handlers, sigHandlers>>

(* js_std_promise_rejection_tracker, and the main module's promise. *)
Reject(p, handled) ==
  /\ Scripting
  /\ unhandled' = IF handled THEN unhandled \ {p} ELSE unhandled \cup {p}
  /\ LoopUnchanged
  /\ UNCHANGED <<settled, jobs, enqueued, timers, nextTimerId, handlers, sigHandlers>>
SettleMain ==
  /\ Scripting /\ settled' = TRUE
  /\ LoopUnchanged
  /\ UNCHANGED <<jobs, enqueued, unhandled, timers, nextTimerId, handlers, sigHandlers>>

ScriptCall ==
  \/ /\ "timer" \in uses
     /\ \E th \in Timers, d \in 0 .. MaxDelay : SetTimeout(th, d) \/ SleepAsync(th, d)
  \/ "timer" \in uses /\ \E id \in 1 .. MaxTimerId : ClearTimeout(id)
  \/ "fd" \in uses /\ \E fd \in Fds, io \in {0, 1} : SetHandler(fd, io) \/ ClearHandler(fd, io)
  \/ "signal" \in uses /\ \E sig \in Signals, on \in BOOLEAN : OsSignal(sig, on)
  \/ "job" \in uses /\ \E fails \in BOOLEAN : EnqueueJob(fails)
  \/ "reject" \in uses /\ \E p \in Rejected, handled \in BOOLEAN : Reject(p, handled)
  \/ SettleMain

-----------------------------------------------------------------------------
(* js_std_loop and js_std_await *)

Goes(there) == at' = there /\ UNCHANGED <<uses, mode, broke, found, sleep, scriptState, systemState>>

ScriptReturns == at = "script" /\ Goes("turn")

(* js_std_await ends when the promise is settled. *)
AwaitEnds ==
  /\ at = "turn" /\ mode = "await" /\ settled
  /\ mode' = "loop"
  /\ UNCHANGED <<uses, at, broke, found, sleep, scriptState, systemState>>

(* JS_ExecutePendingJob; a job that fails ends the inner loop of
   js_std_loop, not the one of js_std_await. *)
Awaiting == mode = "await" /\ settled
RunJob ==
  /\ at = "turn" /\ ~Awaiting /\ jobs # <<>>
  /\ at' = "job" /\ jobs' = Tail(jobs)
  /\ broke' = (mode = "loop" /\ Head(jobs))
  /\ UNCHANGED <<uses, mode, found, sleep, settled, enqueued, unhandled, timers, nextTimerId,
                 handlers, sigHandlers, systemState>>
JobReturns == at = "job" /\ Goes(IF broke THEN "check" ELSE "turn")
NoMoreJobs == at = "turn" /\ ~Awaiting /\ jobs = <<>> /\ Goes("check")

(* js_std_promise_rejection_check; the slip forgets it after a failed job. *)
ExitsForSkips == unhandled # {} /\ ~broke
ExitsFor == unhandled # {}
RejectionCheck ==
  /\ at = "check"
  /\ at' = IF ExitsFor THEN "exit" ELSE "signals"
  /\ UNCHANGED <<uses, mode, broke, found, sleep, scriptState, systemState>>

-----------------------------------------------------------------------------
(* js_os_poll *)

(* The first handler whose signal is pending is called. *)
FirstPending == {i \in DOMAIN sigHandlers :
  sigHandlers[i] \in pending /\ \A j \in 1 .. i - 1 : sigHandlers[j] \notin pending}
CallSignal ==
  /\ at = "signals" /\ FirstPending # {}
  /\ \E i \in FirstPending : pending' = pending \ {sigHandlers[i]}
  /\ at' = "script" /\ broke' = FALSE
  /\ UNCHANGED <<uses, mode, found, sleep, scriptState, arrived>>
NoSignal ==
  /\ at = "signals" /\ FirstPending = {}
  /\ Goes("timers")

(* Without descriptors and timers there is nothing to wait for: js_std_loop
   ends; js_std_await does not look and tries again. *)
Nothing == handlers = <<>> /\ timers = <<>>
PollNothing ==
  /\ at = "timers" /\ Nothing
  /\ at' = (IF mode = "loop" THEN "ended" ELSE "turn")
  /\ UNCHANGED <<uses, mode, broke, found, sleep, scriptState, systemState>>

(* The first expired timer in the order they were made is freed, then its
   function called; the slip takes the last. *)
LastExpired == {i \in DOMAIN timers :
  timers[i].left <= 0 /\ \A j \in i + 1 .. Len(timers) : timers[j].left > 0}
FirstExpired == {i \in DOMAIN timers :
  timers[i].left <= 0 /\ \A j \in 1 .. i - 1 : timers[j].left > 0}
CallTimer ==
  /\ at = "timers" /\ FirstExpired # {}
  /\ \E i \in FirstExpired : timers' = RemoveAt(timers, i)
  /\ at' = "script" /\ broke' = FALSE
  /\ UNCHANGED <<uses, mode, found, sleep, settled, jobs, enqueued, unhandled, nextTimerId, handlers,
                 sigHandlers, systemState>>

(* min_delay; the slip looks at the timer that was made last. *)
MinDelayLast ==
  IF timers = <<>> THEN Forever
  ELSE IF timers[Len(timers)].left < MaxSleep THEN timers[Len(timers)].left ELSE MaxSleep
MinDelay ==
  IF timers = <<>> THEN Forever
  ELSE CHOOSE d \in 1 .. MaxSleep :
         /\ d = MaxSleep \/ \E i \in DOMAIN timers : timers[i].left = d
         /\ \A i \in DOMAIN timers : d <= timers[i].left
Sleep ==
  /\ at = "timers" /\ ~Nothing /\ FirstExpired = {}
  /\ sleep' = MinDelay /\ at' = "asleep"
  /\ UNCHANGED <<uses, mode, broke, found, scriptState, systemState>>

(* select ends when descriptors it watches are ready, or in time. *)
Watched == {x \in Fds \X {0, 1} : \E i \in EntryOf(x[1]) : x[2] \in handlers[i].func}
SelectFinds ==
  /\ at = "asleep" /\ \E ready \in SUBSET Watched : ready # {} /\ found' = ready
  /\ at' = "found" /\ sleep' = Forever
  /\ UNCHANGED <<uses, mode, broke, scriptState, systemState>>
SelectTimesOut ==
  /\ at = "asleep" /\ sleep = 0
  /\ sleep' = Forever /\ at' = "turn" /\ broke' = FALSE
  /\ UNCHANGED <<uses, mode, found, scriptState, systemState>>
(* One function is called, of the first entry, reading before writing: it
   may change the list. *)
CallHandler ==
  /\ at = "found"
  /\ found' = {} /\ at' = "script" /\ broke' = FALSE
  /\ UNCHANGED <<uses, mode, sleep, scriptState, systemState>>

-----------------------------------------------------------------------------
(* The system.  Time passes while scripts run and in select; the instant
   between reading the clock and select is left out. *)
Tick ==
  /\ at \in {"script", "asleep"} /\ sleep # 0 /\ \E i \in DOMAIN timers : timers[i].left > 0
  /\ timers' = [i \in DOMAIN timers |-> [timers[i] EXCEPT !.left = IF @ > 0 THEN @ - 1 ELSE @]]
  /\ sleep' = IF sleep > 0 THEN sleep - 1 ELSE sleep
  /\ UNCHANGED <<uses, mode, at, broke, found, settled, jobs, enqueued, unhandled, nextTimerId,
                 handlers, sigHandlers, systemState>>

(* os_signal_handler.  A signal ends select with EINTR.  One that arrives
   while the bit of another is cleared may be lost: os_pending_signals is a
   plain variable, read and written in two steps. *)
SignalArrives(sig) ==
  /\ arrived < MaxSignals /\ Contains(sigHandlers, sig)
  /\ arrived' = arrived + 1
  /\ \/ pending' = pending \cup {sig}
     \/ at = "signals" /\ FirstPending # {} /\ pending' = pending
  /\ IF at = "asleep" THEN at' = "turn" /\ broke' = FALSE /\ sleep' = Forever
     ELSE UNCHANGED <<at, broke, sleep>>
  /\ UNCHANGED <<uses, mode, found, scriptState>>

-----------------------------------------------------------------------------
Running == at \notin {"exit", "ended"}
LoopStep ==
  \/ ScriptReturns \/ AwaitEnds \/ RunJob \/ JobReturns \/ NoMoreJobs \/ RejectionCheck
  \/ CallSignal \/ NoSignal \/ PollNothing \/ CallTimer \/ Sleep
  \/ SelectTimesOut \/ CallHandler
LoopNext ==
  /\ Running
  /\ \/ ScriptCall \/ LoopStep \/ SelectFinds \/ Tick
     \/ \E sig \in Signals : SignalArrives(sig)

(* Scripts return, the thread runs, and time passes however often the thread
   is busy. *)
LoopFairness == WF_loopVars(LoopStep) /\ SF_loopVars(Tick)
LoopSpec == LoopInit /\ [][LoopNext]_loopVars /\ LoopFairness

-----------------------------------------------------------------------------
LoopTypeOK ==
  /\ mode \in {"await", "loop"}
  /\ at \in {"script", "job", "turn", "check", "signals", "timers", "asleep", "found", "exit", "ended"}
  /\ nextTimerId \in 1 .. MaxTimerId
  /\ sleep \in {Forever} \cup 0 .. MaxSleep
  /\ \A h \in Range(handlers) : h.func # {} /\ h.func \subseteq {0, 1}
  /\ pending \subseteq Signals

(***************************************************************************)
(* js_os_poll never sleeps over a timer: while it is in select, what is    *)
(* left of the timeout is no more than what is left of any timer.          *)
(***************************************************************************)
WakesForTimers ==
  at = "asleep" => \A i \in DOMAIN timers : sleep # Forever /\ sleep <= timers[i].left

(***************************************************************************)
(* clearTimeout names one timer: two live timers share an id only when     *)
(* INT32_MAX timers were made between them, and the ids wrapped.           *)
(***************************************************************************)
TimerIdsDistinct ==
  \A i, j \in DOMAIN timers :
    i < j /\ timers[i].id = timers[j].id /\ timers[i].id > 0 =>
      timers[i].age - timers[j].age >= MaxTimerId \/ timers[i].age = MaxTimerId

(***************************************************************************)
(* No rejection goes unreported: the thread does not sleep, and the loop   *)
(* does not end, with an unhandled rejection; and jobs are left behind     *)
(* only after one of them failed.                                          *)
(***************************************************************************)
SettledBeforeSleep ==
  at \in {"asleep", "ended"} => unhandled = {} /\ (jobs # <<>> => broke)

(***************************************************************************)
(* Every timer fires or is cleared, whatever descriptors are ready and     *)
(* however many timers without delay the handlers make.                    *)
(***************************************************************************)
TimersFire ==
  \A th \in Timers : (th \in Live /\ Running) ~> (th \notin Live \/ ~Running)

(***************************************************************************)
(* "Call the function func when the signal signal happens": a signal with  *)
(* a handler is eventually handled.                                        *)
(***************************************************************************)
SignalsHandled ==
  \A sig \in Signals : (sig \in pending /\ Contains(sigHandlers, sig) /\ Running)
    ~> (sig \notin pending \/ ~Contains(sigHandlers, sig) \/ ~Running)

(***************************************************************************)
(* js_os_poll never sleeps past a timer that is due; two live timers have  *)
(* distinct identifiers, also after the counter has wrapped, unless a full *)
(* turn of the counter lies between them; and the loop sleeps only with no *)
(* job left and no rejection unreported.                                   *)
(***************************************************************************)
LoopSound ==
  /\ LoopTypeOK
  /\ WakesForTimers
  /\ TimerIdsDistinct
  /\ SettledBeforeSleep
=============================================================================
