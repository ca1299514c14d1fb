--------------------------------- MODULE Pool ---------------------------------
(***************************************************************************)
(* pool of stdlib/ptstdlib.js: cap slots and a stack of the free ones.     *)
(*                                                                         *)
(* alocar takes an index off the stack before it has the value to store.   *)
(* The value comes from the seed function of the pool, or is a shallow     *)
(* clone of the argument or of the seed, which reads properties and calls  *)
(* slice or a constructor.  Any of these may run code of the script, which *)
(* may call the pool again, end with undefined, or throw.  An alocar is    *)
(* therefore two steps, and the calls in progress form a stack.            *)
(***************************************************************************)
EXTENDS Integers, Sequences, SequencesExt, ScriptValues

CONSTANT poolCap   \* capacidade

ASSUME PoolAssumption == poolCap \in Nat

PoolIndices == 0 .. poolCap - 1

(* What scripts pass to liberar: any integer, in range or next to it. *)
Arguments == -1 .. poolCap

VARIABLES
  free,      \* the stack of free indices, top last
  poolSlots,     \* what each slot holds
  filling,   \* the indices of the alocar calls in progress, innermost last
  lost       \* history: indices taken for a call that stored nothing

poolVars == <<free, poolSlots, filling, lost>>

(* The stack pool builds, with 0 on top; the slip counts down to 1. *)
FreeStackOneBased == [k \in 1 .. poolCap |-> poolCap - k + 1]
FreeStack == [k \in 1 .. poolCap |-> poolCap - k]

PoolInit ==
  /\ free = FreeStack
  /\ poolSlots = [i \in PoolIndices |-> undefined]
  /\ filling = <<>>
  /\ lost = {}

(* alocar up to the call of the seed function or the clone; the slip leaves
   the index on the stack until that has returned. *)
AlocarTakesLate ==
  /\ free # <<>>
  /\ filling' = Append(filling, Last(free))
  /\ UNCHANGED <<free, poolSlots, lost>>
AlocarTakes ==
  /\ free # <<>>
  /\ free' = Front(free)
  /\ filling' = Append(filling, Last(free))
  /\ UNCHANGED <<poolSlots, lost>>

(* The seed function or the clone returns v, and alocar stores it. *)
AlocarStores(v) ==
  /\ filling # <<>>
  /\ poolSlots' = [poolSlots EXCEPT ![Last(filling)] = v]
  /\ filling' = Front(filling)
  /\ lost' = IF v = undefined THEN lost \cup {Last(filling)} ELSE lost
  /\ UNCHANGED free

(* The seed function, or a getter the clone reads, throws out of alocar. *)
AlocarThrows ==
  /\ filling # <<>>
  /\ filling' = Front(filling)
  /\ lost' = lost \cup {Last(filling)}
  /\ UNCHANGED <<free, poolSlots>>

IntOr(n) == IF n < 0 THEN 0 ELSE n

Occupied(i) == i < poolCap /\ poolSlots[i] # undefined

(* liberar of an occupied slot (it changes nothing otherwise); the slip
   forgets to give the index back. *)
LiberarForgets(n) ==
  /\ Occupied(IntOr(n))
  /\ poolSlots' = [poolSlots EXCEPT ![IntOr(n)] = undefined]
  /\ UNCHANGED <<free, filling, lost>>
Liberar(n) ==
  /\ Occupied(IntOr(n))
  /\ poolSlots' = [poolSlots EXCEPT ![IntOr(n)] = undefined]
  /\ free' = Append(free, IntOr(n))
  /\ UNCHANGED <<filling, lost>>

PoolNext ==
  \/ AlocarTakes
  \/ \E v \in Values \cup {undefined} : AlocarStores(v)
  \/ AlocarThrows
  \/ \E n \in Arguments : Liberar(n)

PoolSpec == PoolInit /\ [][PoolNext]_poolVars

-----------------------------------------------------------------------------
(* The stacks hold indices of the pool. *)
PoolTypeOK ==
  /\ free \in Seq(PoolIndices)
  /\ poolSlots \in [PoolIndices -> Values \cup {undefined}]
  /\ filling \in Seq(PoolIndices)
  /\ lost \subseteq PoolIndices

(***************************************************************************)
(* A slot that holds a value keeps it until liberar empties it: alocar     *)
(* never hands out a slot that somebody holds, however the calls made from *)
(* seed functions and getters are nested.                                  *)
(***************************************************************************)
GrantsAreExclusive ==
  [][\A i \in PoolIndices : poolSlots[i] # undefined => poolSlots'[i] \in {poolSlots[i], undefined}]_poolVars

(* Slot i is free, being filled, or holds a value that liberar accepts. *)
Accounted(i) ==
  \/ \E j \in 1 .. Len(free) : free[j] = i
  \/ \E k \in 1 .. Len(filling) : filling[k] = i
  \/ poolSlots[i] # undefined

(***************************************************************************)
(* alocar and liberar never mislay an index: every slot is accounted for,  *)
(* but those whose seed function or clone threw or ended with undefined.   *)
(***************************************************************************)
SlotsAccounted == \A i \in PoolIndices \ lost : Accounted(i)

(***************************************************************************)
(* Each slot is in one place only: no index is twice on the free stack or  *)
(* twice being filled, an index being filled is not free, a slot that is   *)
(* occupied is neither, and a lost one is none of these: it is never given *)
(* out again and liberar refuses it.                                       *)
(***************************************************************************)
Distinct(s) == \A j, k \in 1 .. Len(s) : s[j] = s[k] => j = k
OnePlace ==
  /\ Distinct(free) /\ Distinct(filling)
  /\ \A j \in 1 .. Len(free) : \A k \in 1 .. Len(filling) : free[j] # filling[k]
  /\ \A j \in 1 .. Len(free) : poolSlots[free[j]] = undefined
  /\ \A k \in 1 .. Len(filling) : poolSlots[filling[k]] = undefined
  /\ \A i \in lost : poolSlots[i] = undefined
  /\ \A j \in 1 .. Len(free) : free[j] \notin lost
  /\ \A k \in 1 .. Len(filling) : filling[k] \notin lost

(***************************************************************************)
(* After any sequence of operations, also of calls of alocar and liberar   *)
(* from inside a seed function or a getter, and of ones that throw, every  *)
(* slot is in exactly one of these places, and there once: on the stack of *)
(* free indices, in an alocar in progress, held, or lost, which only a     *)
(* seed function or a clone that threw or ended with undefined makes it.   *)
(***************************************************************************)
PoolSound ==
  /\ PoolTypeOK
  /\ SlotsAccounted
  /\ OnePlace
=============================================================================
