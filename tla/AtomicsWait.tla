------------------------------ MODULE AtomicsWait ------------------------------
(***************************************************************************)
(* Atomics.wait and Atomics.notify of quickjs.c, with the read-modify-write *)
(* operations that change shared cells.  The waiters of the process are in  *)
(* one list behind one mutex; a waiter is a variable on the stack of the    *)
(* thread that waits.  The operations on cells do not take the mutex.       *)
(*                                                                         *)
(* A script that changes a cell notifies all waiters of it afterwards; it   *)
(* may also notify at any other time.                                       *)
(***************************************************************************)
EXTENDS Integers, Sequences, FiniteSets, SequencesExt

CONSTANTS
  Agents,       \* threads that share memory
  Cells,        \* addresses in the shared buffer
  Width,        \* bits of a cell
  NoAgent,      \* holder of a free mutex
  Watched       \* agents NoLostWakeup is about; one does, for they are all alike

ASSUME AtomicsAssumption ==
  /\ NoAgent \notin Agents /\ Watched \subseteq Agents
  /\ Width \in Nat \ {0} /\ 2 ^ Width \in Nat \ {0}

Words == 0 .. 2 ^ Width - 1
All == Cardinality(Agents)    \* count when it is undefined: INT32_MAX

VARIABLES
  cell,         \* contents of each cell
  step,         \* where each agent is
  call,         \* call[g]: arguments of its wait or notify, and of a waiter its address
  holder,       \* of js_atomics_mutex
  waiterList,   \* js_atomics_waiter_list
  linked,       \* linked[g], of g's waiter
  signalled,    \* agents whose condition variable was signalled
  toSignal      \* waiter_list of the notify that runs

atomicsVars == <<cell, step, call, holder, waiterList, linked, signalled, toSignal>>

AtomicsInit ==
  /\ cell = [a \in Cells |-> 0]
  /\ step = [g \in Agents |-> "script"]
  /\ call = [g \in Agents |-> <<>>]
  /\ holder = NoAgent
  /\ waiterList = <<>>
  /\ linked = [g \in Agents |-> FALSE]
  /\ signalled = {}
  /\ toSignal = <<>>

At(g, here) == step[g] = here
Goto(g, there) == step' = [step EXCEPT ![g] = there]

-----------------------------------------------------------------------------
(* js_atomics_op and js_atomics_store: one indivisible step on the cell,
   modulo its width; the slip does not wrap. *)
OpResultUnwrapped(op, old, v, rep) == IF op = "add" THEN old + v ELSE v
OpResult(op, old, v, rep) ==
  CASE op = "add" -> (old + v) % 2 ^ Width
    [] op = "sub" -> (old - v) % 2 ^ Width
    [] op \in {"exchange", "store"} -> v
    [] op = "compareExchange" -> IF old = v THEN rep ELSE old
AtomicsOp(g, a, op, v, rep) ==
  /\ At(g, "script") /\ cell[a] # OpResult(op, cell[a], v, rep)
  /\ cell' = [cell EXCEPT ![a] = OpResult(op, @, v, rep)]
  /\ call' = [call EXCEPT ![g] = <<a, All>>]
  /\ Goto(g, "notify")
  /\ UNCHANGED <<holder, waiterList, linked, signalled, toSignal>>

-----------------------------------------------------------------------------
(* js_atomics_wait *)

WaitCalled(g, a, v) ==
  /\ At(g, "script")
  /\ call' = [call EXCEPT ![g] = <<a, v>>]
  /\ Goto(g, "wait")
  /\ UNCHANGED <<cell, holder, waiterList, linked, signalled, toSignal>>

(* The cell is compared with the mutex held; the slip compares it before. *)
WaitChecksUnlocked(g) ==
  /\ At(g, "wait") /\ UNCHANGED holder
  /\ IF cell[call[g][1]] # call[g][2]
     THEN Goto(g, "script") /\ call' = [call EXCEPT ![g] = <<>>]
     ELSE Goto(g, "link") /\ UNCHANGED call
  /\ UNCHANGED <<cell, waiterList, linked, signalled, toSignal>>
WaitChecks(g) ==
  /\ At(g, "wait") /\ holder = NoAgent
  /\ IF cell[call[g][1]] # call[g][2]
     THEN Goto(g, "script") /\ call' = [call EXCEPT ![g] = <<>>] /\ UNCHANGED holder
     ELSE Goto(g, "link") /\ holder' = g /\ UNCHANGED call
  /\ UNCHANGED <<cell, waiterList, linked, signalled, toSignal>>

(* The waiter joins the list, and pthread_cond_wait gives the mutex back.
   (It is g that holds it: WaitChecks took it.) *)
WaitLinks(g) ==
  /\ At(g, "link") /\ holder \in {g, NoAgent}
  /\ waiterList' = Append(waiterList, g)
  /\ linked' = [linked EXCEPT ![g] = TRUE]
  /\ holder' = NoAgent
  /\ Goto(g, "blocked")
  /\ UNCHANGED <<cell, call, signalled, toSignal>>

(***************************************************************************)
(* External: pthread_cond_wait ends when the condition is signalled, when  *)
(* the time is over, or for no reason, and then asks for the mutex.  Which  *)
(* of the three makes the answer "ok" or "timed-out", and nothing else.    *)
(***************************************************************************)
Wakes(g) ==
  /\ At(g, "blocked")
  /\ Goto(g, "woken")
  /\ UNCHANGED <<cell, call, holder, waiterList, linked, signalled, toSignal>>

(* With the mutex again: the waiter leaves the list unless notify took it
   out.  The slip does not ask. *)
WaitLeavesLinked(g) ==
  /\ At(g, "woken") /\ holder = NoAgent
  /\ UNCHANGED waiterList
  /\ linked' = [linked EXCEPT ![g] = FALSE]
  /\ signalled' = signalled \ {g}
  /\ call' = [call EXCEPT ![g] = <<>>]
  /\ Goto(g, "script")
  /\ UNCHANGED <<cell, holder, toSignal>>
PlaceInList(g) == CHOOSE i \in DOMAIN waiterList : waiterList[i] = g
WaitReturns(g) ==
  /\ At(g, "woken") /\ holder = NoAgent
  /\ waiterList' = IF linked[g] THEN RemoveAt(waiterList, PlaceInList(g)) ELSE waiterList
  /\ linked' = [linked EXCEPT ![g] = FALSE]
  /\ signalled' = signalled \ {g}
  /\ call' = [call EXCEPT ![g] = <<>>]
  /\ Goto(g, "script")
  /\ UNCHANGED <<cell, holder, toSignal>>

-----------------------------------------------------------------------------
(* js_atomics_notify *)

NotifyCalled(g, a, count) ==
  /\ At(g, "script")
  /\ call' = [call EXCEPT ![g] = <<a, count>>]
  /\ Goto(g, "notify")
  /\ UNCHANGED <<cell, holder, waiterList, linked, signalled, toSignal>>

(* The waiters of an address, by place, and the one that began to wait first;
   the slip takes the one that came last. *)
PlacesAt(a) == {i \in DOMAIN waiterList : call[waiterList[i]][1] = a}
FirstWaiterLast(a) == CHOOSE i \in PlacesAt(a) : \A j \in PlacesAt(a) : j <= i
FirstWaiter(a) == CHOOSE i \in PlacesAt(a) : \A j \in PlacesAt(a) : i <= j

(* With the mutex, the walk along the list moves the waiters of the address
   to a list of its own, until count are there. *)
Walks(g) == At(g, "take") \/ (At(g, "notify") /\ holder = NoAgent)
TakesMore(g) == PlacesAt(call[g][1]) # {} /\ Len(toSignal) < call[g][2]
NotifyTakes(g) ==
  /\ Walks(g) /\ TakesMore(g)
  /\ LET i == FirstWaiter(call[g][1]) IN
     /\ waiterList' = RemoveAt(waiterList, i)
     /\ linked' = [linked EXCEPT ![waiterList[i]] = FALSE]
     /\ toSignal' = Append(toSignal, waiterList[i])
  /\ holder' = g /\ Goto(g, "take")
  /\ UNCHANGED <<cell, call, signalled>>

(* pthread_cond_signal of each, and only then the mutex is given back; the
   slip gives it back at once. *)
MutexWhileSignalsFreed(g) == NoAgent
MutexWhileSignals(g) == g
Took(g) == At(g, "signal") \/ (Walks(g) /\ ~TakesMore(g))
NotifySignals(g) ==
  /\ Took(g) /\ toSignal # <<>>
  /\ signalled' = signalled \cup {Head(toSignal)}
  /\ toSignal' = Tail(toSignal)
  /\ holder' = MutexWhileSignals(g) /\ Goto(g, "signal")
  /\ UNCHANGED <<cell, call, waiterList, linked>>
NotifyReturns(g) ==
  /\ Took(g) /\ toSignal = <<>>
  /\ holder' = NoAgent
  /\ call' = [call EXCEPT ![g] = <<>>]
  /\ Goto(g, "script")
  /\ UNCHANGED <<cell, waiterList, linked, signalled, toSignal>>

-----------------------------------------------------------------------------
(* What an agent does by itself once it is in a call. *)
InCall(g) ==
  \/ WaitChecks(g) \/ WaitLinks(g) \/ WaitReturns(g)
  \/ NotifyTakes(g) \/ NotifySignals(g) \/ NotifyReturns(g)
Signalled(g) == g \in signalled /\ Wakes(g)
AtomicsNext ==
  \E g \in Agents :
    \/ InCall(g)
    \/ \E a \in Cells :
         \/ \E op \in {"add", "sub", "exchange", "compareExchange"}, v, rep \in Words :
              AtomicsOp(g, a, op, v, rep)
         \/ \E v \in Words : WaitCalled(g, a, v)
         \/ \E count \in {1, All} : NotifyCalled(g, a, count)
    \/ Wakes(g)

(* Threads run, a free mutex is granted to each that wants it in turn, and a
   signalled condition ends the wait. *)
AtomicsFairness ==
  \A g \in Agents : SF_atomicsVars(InCall(g)) /\ WF_atomicsVars(Signalled(g))
AtomicsSpec == AtomicsInit /\ [][AtomicsNext]_atomicsVars /\ AtomicsFairness

-----------------------------------------------------------------------------
AtomicsTypeOK ==
  /\ cell \in [Cells -> Words]
  /\ step \in [Agents -> {"script", "wait", "link", "blocked", "woken", "notify", "take", "signal"}]
  /\ holder \in Agents \cup {NoAgent}
  /\ linked \in [Agents -> BOOLEAN] /\ signalled \subseteq Agents

(***************************************************************************)
(* The process-wide list holds exactly the linked waiters, each once, and  *)
(* only of threads still inside Atomics.wait: a waiter is a variable on    *)
(* the stack of js_atomics_wait, and is gone when it returns.              *)
(***************************************************************************)
WaitersAlive ==
  /\ Len(waiterList) = Cardinality(ToSet(waiterList))
  /\ ToSet(waiterList) = {g \in Agents : linked[g]}
  /\ \A g \in ToSet(waiterList) : step[g] \in {"blocked", "woken"}

(***************************************************************************)
(* The condition that js_atomics_notify is about to signal still exists:   *)
(* its thread cannot leave the wait before the mutex is given back.        *)
(***************************************************************************)
SignalsLiveWaiter == \A g \in ToSet(toSignal) : step[g] \in {"blocked", "woken"} /\ ~linked[g]

(***************************************************************************)
(* Atomics.notify with a count wakes the agents that have waited longest   *)
(* at the address: none of those left there began to wait before one taken.*)
(***************************************************************************)
NotifyPicksOldest ==
  [][\A g \in Agents : Walks(g) /\ holder' = g =>
       \A x \in ToSet(toSignal') \ ToSet(toSignal) :
         /\ call[x][1] = call[g][1]
         /\ \A y \in ToSet(waiterList') : call[y][1] = call[g][1] =>
              \E i, j \in DOMAIN waiterList : i < j /\ waiterList[i] = x /\ waiterList[j] = y]_atomicsVars

(***************************************************************************)
(* No wake-up is lost: an agent that waits for a cell to change from the   *)
(* value it named is woken when another changes it and notifies, wherever  *)
(* the change falls between the comparison and the wait.                   *)
(***************************************************************************)
NoLostWakeup ==
  \A g \in Watched :
    (At(g, "blocked") /\ cell[call[g][1]] # call[g][2]) ~> ~At(g, "blocked")

(***************************************************************************)
(* The list of waiters holds only agents that are inside their wait, whose *)
(* record on the stack is alive, and a notify signals only such records.   *)
(***************************************************************************)
WaitersSound ==
  /\ AtomicsTypeOK
  /\ WaitersAlive
  /\ SignalsLiveWaiter

(***************************************************************************)
(* Atomics.notify wakes whom it should: of the agents at an address those  *)
(* that came first, and none is left asleep on a value that is gone.       *)
(***************************************************************************)
WakeupsRight ==
  /\ NotifyPicksOldest
  /\ NoLostWakeup
=============================================================================
