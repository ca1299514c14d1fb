------------------------------ MODULE ModuleGraph ------------------------------
(***************************************************************************)
(* Modules of quickjs.c: linking (js_inner_module_linking) and evaluation  *)
(* (js_inner_module_evaluation), which find the cycles of the graph as     *)
(* they walk it, and what goes on when a module that awaits at its top     *)
(* level ends, js_async_module_execution_fulfilled and _rejected.  Imports *)
(* may arrive while modules of earlier ones still wait.                    *)
(*                                                                         *)
(* A walk runs without interruption.  What modules export is left out:     *)
(* linking a module succeeds, or fails when an import is not found.        *)
(***************************************************************************)
EXTENDS Integers, Sequences, FiniteSets, SequencesExt

CONSTANTS
  Modules,
  Graphs       \* functions from modules to the sequence of modules they request

VARIABLES
  requests,    \* req_module_entries of each module
  tla,         \* modules with has_tla
  faulty,      \* modules that cannot be linked, or whose body throws: <<kind, module>>
  graph,       \* the state of the engine
  imported     \* modules that were imported, by a script or by import()

moduleVars == <<requests, tla, faulty, graph, imported>>

NoModule == 0
ASSUME ModuleGraphAssumption == NoModule \notin Modules /\ IsFiniteSet(Modules)

(* running are bodies that wait; log is history: bodies that began and ended;
   asserts is history: the assertions of the code held. *)
UnlinkedModule ==
  [status |-> "unlinked", idx |-> 0, anc |-> 0, pending |-> 0, async |-> FALSE, time |-> 0,
   root |-> NoModule, err |-> FALSE, promise |-> "none", parents |-> <<>>]
ModuleGraphInit ==
  /\ requests \in Graphs /\ tla \in SUBSET Modules
  /\ faulty \in {{}} \cup {{<<k, m>>} : k \in {"link", "body"}, m \in Modules}
  /\ graph = [mod |-> [m \in Modules |-> UnlinkedModule], stack |-> <<>>, index |-> 0,
              ok |-> TRUE, clock |-> 0, running |-> {}, log |-> <<>>, asserts |-> TRUE]
  /\ imported = {}

Asserted(s, condition) == [s EXCEPT !.asserts = @ /\ condition]
Lesser(a, b) == IF a < b THEN a ELSE b
Entered(s, m, status) ==
  [s EXCEPT !.mod[m].status = status, !.mod[m].idx = s.index, !.mod[m].anc = s.index,
            !.mod[m].pending = 0, !.index = @ + 1, !.stack = <<m>> \o @]
(* The cycle that m is the root of: what is on the stack, down to m. *)
OnStackTo(s, m) == SubSeq(s.stack, 1, CHOOSE i \in DOMAIN s.stack : s.stack[i] = m)
IsRoot(s, m) == s.mod[m].idx = s.mod[m].anc

-----------------------------------------------------------------------------
(* js_inner_module_linking *)
Linkable(m) == <<"link", m>> \notin faulty
RECURSIVE InnerLinking(_, _)
LinkRequest(m, s, m1) ==
  IF ~s.ok THEN s
  ELSE LET t == InnerLinking(s, m1) IN
       IF t.ok /\ t.mod[m1].status = "linking"
       THEN [t EXCEPT !.mod[m].anc = Lesser(@, t.mod[m1].anc)] ELSE t
InnerLinking(s, m) ==
  IF s.mod[m].status \in {"linking", "linked", "async", "evaluated"} THEN s
  ELSE LET t == FoldLeft(LAMBDA u, m1 : LinkRequest(m, u, m1), Entered(s, m, "linking"), requests[m])
           cycle == ToSet(OnStackTo(t, m))
       IN IF ~t.ok \/ ~Linkable(m) THEN [t EXCEPT !.ok = FALSE]
          ELSE IF ~IsRoot(t, m) THEN t
          ELSE [t EXCEPT !.stack = SubSeq(@, Cardinality(cycle) + 1, Len(@)),
                         !.mod = [x \in Modules |-> IF x \in cycle
                                    THEN [@[x] EXCEPT !.status = "linked"] ELSE @[x]]]

(* js_link_module: a failure takes back what is on the stack; the slip leaves
   it as it is. *)
UnlinkedAgainNot(s) == s.mod
UnlinkedAgain(s) ==
  [x \in Modules |-> IF x \in ToSet(s.stack) THEN [s.mod[x] EXCEPT !.status = "unlinked"] ELSE s.mod[x]]
LinkModule(s, m) ==
  LET t == InnerLinking([s EXCEPT !.stack = <<>>, !.index = 0, !.ok = TRUE], m) IN
  IF t.ok THEN Asserted(t, t.stack = <<>> /\ t.mod[m].status \in {"linked", "async", "evaluated"})
  ELSE [t EXCEPT !.mod = UnlinkedAgain(t), !.stack = <<>>]

-----------------------------------------------------------------------------
(* js_execute_async_module and js_execute_sync_module *)
Throws(m) == <<"body", m>> \in faulty
Begun(s, m) == [s EXCEPT !.log = Append(@, <<"begin", m>>)]
Ended(s, m) == [s EXCEPT !.log = Append(@, <<"end", m>>)]
ExecuteAsync(s, m) == [Begun(s, m) EXCEPT !.running = @ \cup {m}]
ExecuteSync(s, m) ==
  IF Throws(m) THEN [Begun(s, m) EXCEPT !.ok = FALSE] ELSE Ended(Begun(s, m), m)

Stamped(s, m) ==
  [Asserted(s, ~s.mod[m].async) EXCEPT
     !.mod[m].async = TRUE, !.mod[m].time = s.clock, !.clock = @ + 1]
Executed(s, m) ==
  IF s.mod[m].pending > 0 THEN Stamped(s, m)
  ELSE IF m \in tla THEN ExecuteAsync(Stamped(s, m), m)
  ELSE ExecuteSync(s, m)

(* js_inner_module_evaluation.  A module whose cycle is complete stands for
   its cycle: the root is waited for.  The slip waits for the module. *)
WaitedForItself(s, m1) == m1
WaitedFor(s, m1) == IF s.mod[m1].status = "evaluating" THEN m1 ELSE s.mod[m1].root
RECURSIVE InnerEvaluation(_, _)
EvaluateRequest(m, s, m1) ==
  IF ~s.ok THEN s
  ELSE LET t == InnerEvaluation(s, m1)
           dep == WaitedFor(t, m1)
           u == IF t.mod[m1].status = "evaluating"
                THEN [t EXCEPT !.mod[m].anc = Lesser(@, t.mod[m1].anc)] ELSE t
       IN IF ~t.ok THEN t
          ELSE IF u.mod[dep].err THEN [u EXCEPT !.ok = FALSE]
          ELSE IF u.mod[dep].async
          THEN [u EXCEPT !.mod[m].pending = @ + 1, !.mod[dep].parents = Append(@, m)]
          ELSE u
InnerEvaluation(s, m) ==
  IF s.mod[m].status \in {"async", "evaluated"} THEN [s EXCEPT !.ok = ~s.mod[m].err]
  ELSE IF s.mod[m].status = "evaluating" THEN s
  ELSE LET t == FoldLeft(LAMBDA u, m1 : EvaluateRequest(m, u, m1),
                         Asserted(Entered(s, m, "evaluating"), s.mod[m].status = "linked"), requests[m])
           e == IF t.ok THEN Executed(t, m) ELSE t
           cycle == ToSet(OnStackTo(e, m))
       IN IF ~e.ok \/ ~IsRoot(e, m) THEN e
          ELSE [e EXCEPT !.stack = SubSeq(@, Cardinality(cycle) + 1, Len(@)),
                         !.mod = [x \in Modules |-> IF x \in cycle
                                    THEN [@[x] EXCEPT !.status = IF @ = "evaluating" /\ e.mod[x].async
                                                                 THEN "async" ELSE "evaluated",
                                                      !.root = m] ELSE @[x]]]

(* js_evaluate_module *)
EvaluateModule(s, m0) ==
  LET m == IF s.mod[m0].status \in {"async", "evaluated"} THEN s.mod[m0].root ELSE m0
      t == InnerEvaluation([s EXCEPT !.mod[m].promise = "pending",
                                     !.stack = <<>>, !.index = 0, !.ok = TRUE], m)
  IN IF s.mod[m].promise # "none" THEN s
     ELSE IF t.ok
     THEN LET u == Asserted(t, t.stack = <<>> /\ ~t.mod[m].err /\ t.mod[m].status \in {"async", "evaluated"})
          IN IF t.mod[m].async THEN u ELSE [u EXCEPT !.mod[m].promise = "fulfilled"]
     ELSE LET f == [x \in Modules |-> IF x \in ToSet(t.stack)
                      THEN [t.mod[x] EXCEPT !.status = "evaluated", !.err = TRUE, !.root = m] ELSE t.mod[x]]
              u == Asserted(t, /\ \A x \in ToSet(t.stack) : t.mod[x].status = "evaluating"
                               /\ f[m].status = "evaluated" /\ f[m].err)
          IN [u EXCEPT !.stack = <<>>, !.mod = [f EXCEPT ![m].promise = "rejected"]]

-----------------------------------------------------------------------------
(* js_set_module_evaluated *)
SetEvaluated(s, m) ==
  LET t == Asserted(s, s.mod[m].promise # "none" => s.mod[m].root = m) IN
  [t EXCEPT !.mod[m].status = "evaluated", !.mod[m].async = FALSE,
            !.mod[m].promise = IF @ = "none" THEN @ ELSE "fulfilled"]

(* js_async_module_execution_rejected.  The slip does not tell the parents. *)
ParentsToldNone(s, m) == <<>>
ParentsTold(s, m) == s.mod[m].parents
RECURSIVE ExecutionRejected(_, _)
ExecutionRejected(s, m) ==
  IF s.mod[m].status = "evaluated" THEN Asserted(s, s.mod[m].err)
  ELSE LET t == Asserted(s, /\ s.mod[m].status = "async" /\ ~s.mod[m].err /\ s.mod[m].async
                            /\ s.mod[m].promise # "none" => s.mod[m].root = m)
           u == [t EXCEPT !.mod[m].err = TRUE, !.mod[m].status = "evaluated", !.mod[m].async = FALSE,
                          !.mod[m].promise = IF @ = "none" THEN @ ELSE "rejected"]
       IN FoldLeft(ExecutionRejected, u, ParentsTold(u, m))

(* gather_available_ancestors: <<state, modules to execute>>.  The slip
   forgets to look at the count. *)
AvailableAtOnce(m) == TRUE
Available(m) == m.pending = 0
(* A cycle whose root has failed is not told; the slip does not ask. *)
PassedOverListed(acc, m) == m \in ToSet(acc[2])
PassedOver(acc, m) == m \in ToSet(acc[2]) \/ acc[1].mod[acc[1].mod[m].root].err
RECURSIVE Gathered(_, _)
GatherParent(acc, m) ==
  LET s == acc[1] IN
  IF PassedOver(acc, m) THEN acc
  ELSE LET t == [Asserted(s, s.mod[m].status = "async" /\ ~s.mod[m].err /\ s.mod[m].async
                             /\ s.mod[m].pending > 0) EXCEPT !.mod[m].pending = @ - 1]
       IN IF ~Available(t.mod[m]) THEN <<t, acc[2]>>
          ELSE IF m \in tla THEN <<t, Append(acc[2], m)>>
          ELSE Gathered(<<t, Append(acc[2], m)>>, m)
Gathered(acc, m) == FoldLeft(GatherParent, acc, acc[1].mod[m].parents)

(* By the times they were stamped *)
InTimeOrder(s, list) == SortSeq(list, LAMBDA a, b : s.mod[a].time < s.mod[b].time)

(* js_async_module_execution_fulfilled *)
ExecuteGathered(s, m) ==
  IF s.mod[m].status = "evaluated" THEN Asserted(s, s.mod[m].err)
  ELSE IF m \in tla THEN ExecuteAsync(s, m)
  ELSE LET t == ExecuteSync([s EXCEPT !.ok = TRUE], m) IN
       IF t.ok THEN SetEvaluated(t, m) ELSE ExecutionRejected(t, m)
ExecutionFulfilled(s, m) ==
  IF s.mod[m].status = "evaluated" THEN Asserted(s, s.mod[m].err)
  ELSE LET t == Asserted(s, s.mod[m].status = "async" /\ ~s.mod[m].err /\ s.mod[m].async)
           g == Gathered(<<SetEvaluated(t, m), <<>>>>, m)
       IN FoldLeft(ExecuteGathered, g[1], InTimeOrder(g[1], g[2]))

-----------------------------------------------------------------------------
(* JS_EvalFunctionInternal of a module: from the command line, a Worker or a
   dynamic import, whose job runs between those of other modules. *)
Import(m) ==
  /\ m \notin imported /\ imported' = imported \cup {m}
  /\ LET s == LinkModule(graph, m) IN
     graph' = IF s.ok THEN EvaluateModule(s, m) ELSE s
  /\ UNCHANGED <<requests, tla, faulty>>

(* The promise of an asynchronous body settles. *)
BodySettles(m) ==
  /\ m \in graph.running
  /\ LET s == [graph EXCEPT !.running = @ \ {m}] IN
     graph' = IF Throws(m) THEN ExecutionRejected(s, m) ELSE ExecutionFulfilled(Ended(s, m), m)
  /\ UNCHANGED <<requests, tla, faulty, imported>>

ModuleGraphNext == \E m \in Modules : Import(m) \/ BodySettles(m)
ModuleGraphSpec == ModuleGraphInit /\ [][ModuleGraphNext]_moduleVars

-----------------------------------------------------------------------------
RECURSIVE RequestedFrom(_)
RequestedFrom(S) ==
  LET T == S \cup UNION {ToSet(requests[m]) : m \in S} IN IF T = S THEN S ELSE RequestedFrom(T)
Needs(m) == RequestedFrom({m})
HasEnded(m) == \E i \in DOMAIN graph.log : graph.log[i] = <<"end", m>>

(***************************************************************************)
(* The assertions of the walks and of the handlers hold, whatever the      *)
(* graph, wherever it fails, and whichever body settles first.             *)
(***************************************************************************)
ModuleAsserts == graph.asserts

(***************************************************************************)
(* A body begins once at most, and after the bodies of all the modules it  *)
(* requests have ended, those of its own cycle apart: so also when they    *)
(* were imported earlier and still wait.                                   *)
(***************************************************************************)
RequestsFirst ==
  \A i \in DOMAIN graph.log : graph.log[i][1] = "begin" =>
    LET m == graph.log[i][2] IN
    /\ \A j \in DOMAIN graph.log : graph.log[j] = graph.log[i] => i = j
    /\ \A m1 \in ToSet(requests[m]) :
         m \in Needs(m1) \/ \E j \in 1 .. i - 1 : graph.log[j] = <<"end", m1>>

(***************************************************************************)
(* A promise that is fulfilled says that every module needed has ended,    *)
(* and one that is rejected that one of them failed.                       *)
(***************************************************************************)
PromisesTrue ==
  \A m \in Modules :
    /\ graph.mod[m].promise = "fulfilled" => \A x \in Needs(m) : HasEnded(x)
    /\ graph.mod[m].promise = "rejected" => \E x \in Needs(m) : Throws(x)

(***************************************************************************)
(* Nobody waits for nothing: while no body waits, every promise is settled *)
(* and no module is in the middle of linking or evaluation, except in a    *)
(* cycle whose root has failed, which answers for all of it.               *)
(***************************************************************************)
NoneForgotten ==
  graph.running = {} => \A m \in Modules :
    LET x == graph.mod[m] IN
    /\ x.promise # "pending"
    /\ x.status \in {"unlinked", "linked", "evaluated"} \/ (x.status = "async" /\ graph.mod[x.root].err)

(***************************************************************************)
(* For each of Graphs, every choice of the modules that await and every    *)
(* order in which the bodies settle, failures included: a module runs      *)
(* once, after all it requests; its promise is settled with what became of *)
(* them; and when nothing is left to settle no module is still waiting.    *)
(***************************************************************************)
ModulesSound ==
  /\ ModuleAsserts
  /\ RequestsFirst
  /\ PromisesTrue
  /\ NoneForgotten
=============================================================================
