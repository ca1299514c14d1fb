--------------------------------- MODULE CycleGC ---------------------------------
(***************************************************************************)
(* Memory of quickjs.c: objects counted by reference, the collector of     *)
(* cycles (gc_decref, gc_scan, gc_free_cycles) and weak references, whose  *)
(* targets keep their structure after they were freed.  The collector runs *)
(* between two steps of the script; its loops are taken one object at a    *)
(* time.                                                                   *)
(*                                                                         *)
(* An object has at most one field that refers to each other one, and the  *)
(* script's stack holds it at most once.  Holders are WeakRef objects,     *)
(* each with one target.  Shapes, variables and contexts, which only       *)
(* objects refer to, are left out.                                         *)
(***************************************************************************)
EXTENDS Naturals, Sequences, FiniteSets, SequencesExt

CONSTANTS
  Objects, Holders,   \* Holders \subseteq Objects: WeakRef objects
  NoObject,           \* target that is undefined
  MaxFields           \* bound: fields in use at once

ASSUME CycleGCAssumption == Holders \subseteq Objects /\ NoObject \notin Objects /\ MaxFields \in Nat

VARIABLES
  mem,          \* of each structure: "unused", "live", or "zombie" (freed, still a target)
  refs, weaks,  \* ref_count and weakref_count
  mark,         \* header.mark
  fields,       \* fields[o]: what o refers to
  stack,        \* what the script holds
  target,       \* target[h] of each holder
  gcObjList, tmpObjList, zeroRefList,
  gcPhase,      \* what the collector does
  visited,      \* of gc_scan: elements of gcObjList that were visited
  collected     \* history: nothing happened since a collection

gcVars == <<mem, refs, weaks, mark, fields, stack, target,
            gcObjList, tmpObjList, zeroRefList, gcPhase, visited, collected>>

CycleGCInit ==
  /\ mem = [o \in Objects |-> "unused"]
  /\ refs = [o \in Objects |-> 0] /\ weaks = [o \in Objects |-> 0]
  /\ mark = [o \in Objects |-> 0]
  /\ fields = [o \in Objects |-> {}] /\ stack = {}
  /\ target = [h \in Holders |-> NoObject]
  /\ gcObjList = <<>> /\ tmpObjList = <<>> /\ zeroRefList = <<>>
  /\ gcPhase = "none" /\ visited = 0 /\ collected = FALSE

-----------------------------------------------------------------------------
(* Scripts.  JS_FreeValue of the last reference starts free_zero_refcount. *)

Script == gcPhase = "none" /\ zeroRefList = <<>>
Counted(S, d) == [o \in Objects |-> IF o \in S THEN refs[o] + d ELSE refs[o]]

Allocate(o) ==
  /\ Script /\ mem[o] = "unused"
  /\ mem' = [mem EXCEPT ![o] = "live"]
  /\ refs' = [refs EXCEPT ![o] = 1] /\ mark' = [mark EXCEPT ![o] = 0]
  /\ stack' = stack \cup {o}
  /\ gcObjList' = Append(gcObjList, o)
  /\ collected' = FALSE
  /\ UNCHANGED <<weaks, fields, target, tmpObjList, zeroRefList, gcPhase, visited>>

SetField(o, x) ==
  /\ Script /\ {o, x} \subseteq stack /\ x \notin fields[o]
  /\ Cardinality({<<a, b>> \in Objects \X Objects : b \in fields[a]}) < MaxFields
  /\ fields' = [fields EXCEPT ![o] = @ \cup {x}]
  /\ refs' = Counted({x}, 1)
  /\ collected' = FALSE
  /\ UNCHANGED <<mem, weaks, mark, stack, target, gcObjList, tmpObjList, zeroRefList, gcPhase, visited>>

GetField(o, x) ==
  /\ Script /\ o \in stack /\ x \in fields[o] \ stack
  /\ stack' = stack \cup {x}
  /\ refs' = Counted({x}, 1)
  /\ collected' = FALSE
  /\ UNCHANGED <<mem, weaks, mark, fields, target, gcObjList, tmpObjList, zeroRefList, gcPhase, visited>>

(* __JS_FreeValueRT: at zero the object goes to the front of the list of
   those to be freed, and is marked. *)
Release(o) ==
  /\ refs' = Counted({o}, -1)
  /\ IF refs[o] = 1
     THEN /\ gcObjList' = Remove(gcObjList, o) /\ zeroRefList' = <<o>> \o zeroRefList
          /\ mark' = [mark EXCEPT ![o] = 1]
     ELSE UNCHANGED <<gcObjList, zeroRefList, mark>>
ClearField(o, x) ==
  /\ Script /\ o \in stack /\ x \in fields[o]
  /\ fields' = [fields EXCEPT ![o] = @ \ {x}]
  /\ Release(x) /\ collected' = FALSE
  /\ UNCHANGED <<mem, weaks, stack, target, tmpObjList, gcPhase, visited>>
LeaveScope(o) ==
  /\ Script /\ o \in stack
  /\ stack' = stack \ {o}
  /\ Release(o) /\ collected' = FALSE
  /\ UNCHANGED <<mem, weaks, fields, target, tmpObjList, gcPhase, visited>>

(* new WeakRef(t), and deref. *)
SetTarget(h, t) ==
  /\ Script /\ {h, t} \subseteq stack /\ target[h] = NoObject
  /\ target' = [target EXCEPT ![h] = t]
  /\ weaks' = [weaks EXCEPT ![t] = @ + 1]
  /\ collected' = FALSE
  /\ UNCHANGED <<mem, refs, mark, fields, stack, gcObjList, tmpObjList, zeroRefList, gcPhase, visited>>
Deref(h) ==
  /\ Script /\ h \in stack /\ target[h] # NoObject
  /\ refs[target[h]] # 0 /\ target[h] \notin stack
  /\ stack' = stack \cup {target[h]}
  /\ refs' = Counted({target[h]}, 1)
  /\ collected' = FALSE
  /\ UNCHANGED <<mem, weaks, mark, fields, target, gcObjList, tmpObjList, zeroRefList, gcPhase, visited>>

-----------------------------------------------------------------------------
(* free_object: the references of o are given back, and of a WeakRef its
   weak one. *)

(* js_weakref_free leaves the structure alone while its object is marked: it
   is about to be freed in a cycle or in free_zero_refcount.  The slip does
   not look at the mark. *)
FreesTargetUnmarked(t, w, r, m) == w[t] = 0 /\ r[t] = 0
FreesTarget(t, w, r, m) == w[t] = 0 /\ r[t] = 0 /\ m[t] = 0
TargetOf(o) == IF o \in Holders THEN target[o] ELSE NoObject
WeaksWithout(o) ==
  [x \in Objects |-> IF x = TargetOf(o) THEN weaks[x] - 1 ELSE weaks[x]]
TargetsFreed(o, w, r, m) == {t \in {TargetOf(o)} \cap Objects : FreesTarget(t, w, r, m)}
Cleared(o) ==
  /\ fields' = [fields EXCEPT ![o] = {}]
  /\ target' = [h \in Holders |-> IF h = o THEN NoObject ELSE target[h]]
  /\ weaks' = WeaksWithout(o)
  /\ refs' = Counted(fields[o], -1)

(* free_zero_refcount frees the first of the list, until it is empty. *)
FreeZeroRefcount ==
  /\ gcPhase = "none" /\ zeroRefList # <<>>
  /\ LET o == Head(zeroRefList)
         dead == {x \in fields[o] : refs[x] = 1}
         marks == [x \in Objects |-> IF x \in dead THEN 1 ELSE mark[x]]
         gone == TargetsFreed(o, weaks', refs', marks) \cup (IF weaks'[o] = 0 THEN {o} ELSE {})
     IN
     /\ Cleared(o)
     /\ zeroRefList' = SetToSeq(dead) \o Tail(zeroRefList)
     /\ gcObjList' = SelectSeq(gcObjList, LAMBDA x : x \notin dead)
     /\ mem' = [x \in Objects |-> IF x \in gone THEN "unused"
                                  ELSE IF x = o THEN "zombie" ELSE mem[x]]
     /\ mark' = [marks EXCEPT ![o] = 0]
  /\ UNCHANGED <<stack, tmpObjList, gcPhase, visited, collected>>

-----------------------------------------------------------------------------
(* JS_RunGC *)

(* gc_remove_weak_objects: WeakRef objects forget targets that are gone. *)
DeadTargets == {h \in Holders : target[h] # NoObject /\ refs[target[h]] = 0}
RunGC ==
  /\ Script
  /\ target' = [h \in Holders |-> IF h \in DeadTargets THEN NoObject ELSE target[h]]
  /\ weaks' = [x \in Objects |-> weaks[x] - Cardinality({h \in DeadTargets : target[h] = x})]
  /\ mem' = [x \in Objects |-> IF mem[x] = "zombie" /\ weaks'[x] = 0 THEN "unused" ELSE mem[x]]
  /\ gcPhase' = "decref"
  /\ UNCHANGED <<refs, mark, fields, stack, gcObjList, tmpObjList, zeroRefList, visited, collected>>

(* mark_children: what an object refers to, as its class tells the collector.
   The slip has a class without a gc_mark function. *)
ChildrenUnmarked(o) == IF o \in Holders THEN {} ELSE fields[o]
Children(o) == fields[o]

(* gc_decref: the next object of the list; its children that have no other
   reference and were visited already, and itself, go to tmpObjList.  The
   slip forgets the children. *)
MovedNoChildren(o, r) == {x \in {o} : r[x] = 0}
Moved(o, r) == {x \in Children(o) \cup {o} : r[x] = 0 /\ (mark[x] = 1 \/ x = o)}
ToVisit == {i \in DOMAIN gcObjList : mark[gcObjList[i]] = 0}
GcDecref ==
  /\ gcPhase = "decref"
  /\ IF ToVisit = {} THEN gcPhase' = "scan" /\ UNCHANGED <<refs, mark, gcObjList, tmpObjList>>
     ELSE LET o == gcObjList[CHOOSE i \in ToVisit : \A j \in ToVisit : i <= j] IN
          /\ refs' = Counted(Children(o), -1)
          /\ mark' = [mark EXCEPT ![o] = 1]
          /\ tmpObjList' = tmpObjList \o SetToSeq(Moved(o, refs'))
          /\ gcObjList' = SelectSeq(gcObjList, LAMBDA x : x \notin Moved(o, refs'))
          /\ UNCHANGED gcPhase
  /\ visited' = 0
  /\ UNCHANGED <<mem, weaks, fields, stack, target, zeroRefList, collected>>

(* gc_scan: the next object of the list, which grows; what it refers to is
   taken back.  The slip does not take objects back. *)
TakenBackNever(o) == {}
TakenBack(o) == {x \in Children(o) : refs[x] = 0}
GcScan ==
  /\ gcPhase = "scan" /\ visited < Len(gcObjList)
  /\ LET o == gcObjList[visited + 1] IN
     /\ refs' = Counted(Children(o), 1)
     /\ mark' = [x \in Objects |-> IF x = o \/ x \in TakenBack(o) THEN 0 ELSE mark[x]]
     /\ gcObjList' = gcObjList \o SetToSeq(TakenBack(o))
     /\ tmpObjList' = SelectSeq(tmpObjList, LAMBDA x : x \notin TakenBack(o))
  /\ visited' = visited + 1
  /\ UNCHANGED <<mem, weaks, fields, stack, target, zeroRefList, gcPhase, collected>>
(* The counts of what is left are put back; the slip forgets it. *)
RestoredCountsKept == refs
RestoredCounts ==
  [x \in Objects |-> refs[x] + Cardinality({o \in ToSet(tmpObjList) : x \in Children(o)})]
GcScanEnds ==
  /\ gcPhase = "scan" /\ visited = Len(gcObjList)
  /\ refs' = RestoredCounts
  /\ gcPhase' = "free"
  /\ UNCHANGED <<mem, weaks, mark, fields, stack, target, gcObjList, tmpObjList, zeroRefList,
                 visited, collected>>

(* gc_free_cycles frees the objects of tmpObjList; structures that others
   still name are kept until the end. *)
GcFree ==
  /\ gcPhase = "free" /\ tmpObjList # <<>>
  /\ LET o == Head(tmpObjList)
         now == refs'[o] = 0 /\ weaks'[o] = 0
         gone == TargetsFreed(o, weaks', refs', mark) \cup (IF now THEN {o} ELSE {})
     IN
     /\ Cleared(o)
     /\ tmpObjList' = Tail(tmpObjList)
     /\ zeroRefList' = IF now THEN zeroRefList ELSE Append(zeroRefList, o)
     /\ mem' = [x \in Objects |-> IF x \in gone THEN "unused"
                                  ELSE IF x = o THEN "zombie" ELSE mem[x]]
  /\ UNCHANGED <<mark, stack, gcObjList, gcPhase, visited, collected>>
GcEnds ==
  /\ gcPhase = "free" /\ tmpObjList = <<>>
  /\ mem' = [x \in Objects |-> IF x \in ToSet(zeroRefList) /\ weaks[x] = 0 THEN "unused" ELSE mem[x]]
  /\ mark' = [x \in Objects |-> IF x \in ToSet(zeroRefList) THEN 0 ELSE mark[x]]
  /\ zeroRefList' = <<>> /\ gcPhase' = "none" /\ visited' = 0 /\ collected' = TRUE
  /\ UNCHANGED <<refs, weaks, fields, stack, target, gcObjList, tmpObjList>>

-----------------------------------------------------------------------------
CycleGCNext ==
  \/ \E o \in Objects : Allocate(o) \/ LeaveScope(o)
  \/ \E o, x \in Objects : SetField(o, x) \/ GetField(o, x) \/ ClearField(o, x)
  \/ \E h \in Holders : Deref(h) \/ \E t \in Objects : SetTarget(h, t)
  \/ FreeZeroRefcount
  \/ RunGC \/ GcDecref \/ GcScan \/ GcScanEnds \/ GcFree \/ GcEnds

CycleGCSpec == CycleGCInit /\ [][CycleGCNext]_gcVars

-----------------------------------------------------------------------------
Existing == {o \in Objects : mem[o] = "live"}

(* What the script can reach. *)
RECURSIVE ReachedFrom(_)
ReachedFrom(S) ==
  LET T == S \cup UNION {fields[o] : o \in S} IN IF T = S THEN S ELSE ReachedFrom(T)
Reached == ReachedFrom(stack)

(***************************************************************************)
(* Nothing that the script can reach is ever freed, in no phase of the     *)
(* collector and whatever cycles are freed beside it.                      *)
(***************************************************************************)
ReachableLives == Reached \subseteq Existing

(***************************************************************************)
(* A collection leaves no garbage: what is still there can be reached.     *)
(***************************************************************************)
NoCycleLeft == collected => Existing = Reached

(***************************************************************************)
(* Between collections the counts are exact, marks are reset, and a        *)
(* structure that was freed is kept only for weak references to it.        *)
(***************************************************************************)
CountsExact ==
  Script => \A o \in Objects :
    /\ refs[o] = (IF o \in stack THEN 1 ELSE 0)
                 + Cardinality({x \in Existing : o \in fields[x]})
    /\ weaks[o] = Cardinality({h \in Holders : target[h] = o})
    /\ mem[o] # "unused" => mark[o] = 0
    /\ mem[o] = "zombie" => weaks[o] > 0
    /\ mem[o] = "unused" => weaks[o] = 0 /\ refs[o] = 0

(***************************************************************************)
(* Each object is in one list, and no structure in a list was given back:  *)
(* the structure of a weak target that dies together with its WeakRef is   *)
(* freed once, whichever of the two goes first.                            *)
(***************************************************************************)
ListsDisjoint ==
  LET all == gcObjList \o tmpObjList \o zeroRefList IN
  /\ Len(all) = Cardinality(ToSet(all))
  /\ \A o \in ToSet(all) : mem[o] # "unused"
  /\ Existing \subseteq ToSet(all)

(***************************************************************************)
(* assert(p->ref_count > 0) and assert(p->ref_count == 0): what gc_scan is *)
(* about to keep has a reference, what free_zero_refcount is about to free *)
(* has none.                                                               *)
(***************************************************************************)
CollectorAsserts ==
  /\ gcPhase = "scan" /\ visited < Len(gcObjList) => refs[gcObjList[visited + 1]] > 0
  /\ gcPhase = "none" => \A o \in ToSet(zeroRefList) : refs[o] = 0

(***************************************************************************)
(* What the script can reach is never freed, neither by a count that falls *)
(* to zero nor by the collector; the counts are exact outside of a         *)
(* collection, and the assertions of the collector hold.                   *)
(***************************************************************************)
CollectorSound ==
  /\ ListsDisjoint
  /\ CollectorAsserts
  /\ ReachableLives
  /\ CountsExact
=============================================================================
