------------------------------ MODULE PoolProofs ------------------------------
(***************************************************************************)
(* pool for every capacity and every set of values: no slot is handed out  *)
(* twice, and none disappears except through a seed function or a clone    *)
(* that throws or ends with undefined.                                     *)
(***************************************************************************)
EXTENDS Pool, ListLemmas, TLAPS

IInv == PoolTypeOK /\ OnePlace /\ SlotsAccounted

(* A new pool has every index on the free stack, once. *)
LEMMA InitIInv == PoolInit => IInv
<1> SUFFICES ASSUME PoolInit PROVE IInv
  OBVIOUS
<1> USE PoolAssumption, UndefinedAssumption
<1>1. free \in [1 .. poolCap -> PoolIndices] /\ Len(free) = poolCap /\ free \in Seq(PoolIndices)
  BY DEF PoolInit, FreeStack, PoolIndices
<1>2. filling \in Seq(PoolIndices) /\ Len(filling) = 0
  BY DEF PoolInit
<1>3. PoolTypeOK
  BY <1>1, <1>2 DEF PoolInit, PoolTypeOK
<1>4. OnePlace
  BY <1>1, <1>2 DEF PoolInit, FreeStack, OnePlace, Distinct, PoolIndices
<1>5. SlotsAccounted
  <2> SUFFICES ASSUME NEW i \in PoolIndices PROVE \E j \in 1 .. Len(free) : free[j] = i
    BY DEF SlotsAccounted, Accounted
  <2>1. poolCap - i \in 1 .. Len(free) /\ free[poolCap - i] = i
    BY <1>1 DEF PoolInit, FreeStack, PoolIndices
  <2>2. QED
    BY <2>1
<1>6. QED
  BY <1>3, <1>4, <1>5 DEF IInv

(* Every step keeps each slot in one place, and accounted for. *)
LEMMA StepIInv == IInv /\ [PoolNext]_poolVars => IInv'
<1> SUFFICES ASSUME IInv, [PoolNext]_poolVars PROVE IInv'
  OBVIOUS
<1> USE PoolAssumption, UndefinedAssumption
<1>a. /\ free \in Seq(PoolIndices) /\ Len(free) \in Nat /\ \A j \in 1 .. Len(free) : free[j] \in PoolIndices
      /\ filling \in Seq(PoolIndices) /\ Len(filling) \in Nat /\ \A k \in 1 .. Len(filling) : filling[k] \in PoolIndices
      /\ poolSlots \in [PoolIndices -> Values \cup {undefined}] /\ lost \subseteq PoolIndices
  BY DEF IInv, PoolTypeOK
<1>b. OnePlace /\ SlotsAccounted
  BY DEF IInv
<1>t. ASSUME free # << >>
      PROVE  /\ Front(free) \in Seq(PoolIndices) /\ Len(free) > 0 /\ Len(Front(free)) = Len(free) - 1
             /\ \A k \in 1 .. Len(free) - 1 : Front(free)[k] = free[k]
             /\ Last(free) = free[Len(free)] /\ Last(free) \in PoolIndices
  BY <1>a, <1>t, FrontLast, Zenon
<1>f. ASSUME filling # << >>
      PROVE  /\ Front(filling) \in Seq(PoolIndices) /\ Len(filling) > 0 /\ Len(Front(filling)) = Len(filling) - 1
             /\ \A k \in 1 .. Len(filling) - 1 : Front(filling)[k] = filling[k]
             /\ Last(filling) = filling[Len(filling)] /\ Last(filling) \in PoolIndices
  BY <1>a, <1>f, FrontLast, Zenon
<1>1. CASE AlocarTakes
  <2>1. PICK idx \in PoolIndices : /\ idx = free[Len(free)] /\ Len(free) > 0
                               /\ filling' = Append(filling, idx)
    BY <1>1, <1>t DEF AlocarTakes
  <2>2. /\ free' \in Seq(PoolIndices) /\ Len(free') = Len(free) - 1
        /\ \A j \in 1 .. Len(free) - 1 : free'[j] = free[j]
        /\ poolSlots' = poolSlots /\ lost' = lost
    BY <1>1, <1>t DEF AlocarTakes
  <2>3. /\ filling' \in Seq(PoolIndices) /\ Len(filling') = Len(filling) + 1
        /\ \A k \in 1 .. Len(filling) : filling'[k] = filling[k]
        /\ filling'[Len(filling) + 1] = idx
    BY <1>a, <2>1, AppendProperties
  <2>4. PoolTypeOK'
    BY <1>a, <2>2, <2>3 DEF PoolTypeOK
  <2>5. /\ \A j \in 1 .. Len(free) - 1 : free[j] # idx
        /\ \A k \in 1 .. Len(filling) : filling[k] # idx
        /\ idx \notin lost /\ poolSlots[idx] = undefined
    BY <1>a, <1>b, <2>1 DEF OnePlace, Distinct
  <2>6. OnePlace'
    <3>1. Distinct(free')
      <4> SUFFICES ASSUME NEW j \in 1 .. Len(free'), NEW k \in 1 .. Len(free'), free'[j] = free'[k]
                   PROVE  j = k
        BY DEF Distinct
      <4>1. j \in 1 .. Len(free) - 1 /\ k \in 1 .. Len(free) - 1
        BY <2>2, Zenon
      <4>2. free'[j] = free[j] /\ free'[k] = free[k]
        BY <2>2, <4>1, Zenon
      <4>3. PICK n \in Nat : n = Len(free)
        BY <1>a, Zenon
      <4>4. j \in 1 .. n - 1 /\ k \in 1 .. n - 1
        BY <4>1, <4>3, Zenon
      <4>5. j \in 1 .. n /\ k \in 1 .. n
        BY <4>4
      <4>6. QED
        BY <1>b, <4>2, <4>3, <4>5, Zenon DEF OnePlace, Distinct
    <3>2. Distinct(filling')
      BY <1>a, <1>b, <2>3, <2>5 DEF OnePlace, Distinct
    <3>3. ASSUME NEW j \in 1 .. Len(free')
          PROVE  free'[j] = free[j] /\ j \in 1 .. Len(free) /\ free[j] # idx
      BY <1>a, <2>2, <2>5
    <3>4. ASSUME NEW k \in 1 .. Len(filling')
          PROVE  filling'[k] = idx \/ (k \in 1 .. Len(filling) /\ filling'[k] = filling[k])
      BY <1>a, <2>3
    <3>5. \A j \in 1 .. Len(free') : \A k \in 1 .. Len(filling') : free'[j] # filling'[k]
      BY <1>b, <3>3, <3>4 DEF OnePlace
    <3>6. \A j \in 1 .. Len(free') : poolSlots[free'[j]] = undefined /\ free'[j] \notin lost
      BY <1>b, <3>3 DEF OnePlace
    <3>7. \A k \in 1 .. Len(filling') : poolSlots[filling'[k]] = undefined /\ filling'[k] \notin lost
      BY <1>b, <2>5, <3>4 DEF OnePlace
    <3>8. QED
      BY <1>b, <2>2, <3>1, <3>2, <3>5, <3>6, <3>7 DEF OnePlace, Distinct
  <2>7. SlotsAccounted'
    <3> SUFFICES ASSUME NEW i \in PoolIndices, i \notin lost' PROVE Accounted(i)'
      BY DEF SlotsAccounted
    <3>1. CASE i = idx
      <4>1. Len(filling) + 1 \in 1 .. Len(filling') /\ filling'[Len(filling) + 1] = i
        BY <1>a, <2>3, <3>1
      <4>2. QED
        BY <4>1 DEF Accounted
    <3>2. CASE i # idx
      <4>1. Accounted(i)
        BY <1>b, <2>1, <2>2, <3>2 DEF SlotsAccounted
      <4>2. ASSUME NEW j \in 1 .. Len(free), free[j] = i PROVE Accounted(i)'
        <5>1. j \in 1 .. Len(free) - 1
          BY <1>a, <2>1, <3>2, <4>2
        <5>2. QED
          BY <2>2, <4>2, <5>1 DEF Accounted
      <4>3. ASSUME NEW k \in 1 .. Len(filling), filling[k] = i PROVE Accounted(i)'
        <5>1. k \in 1 .. Len(filling') /\ filling'[k] = i
          BY <1>a, <2>3, <4>3
        <5>2. QED
          BY <5>1 DEF Accounted
      <4>4. CASE poolSlots[i] # undefined
        BY <2>2, <4>4 DEF Accounted
      <4>5. QED
        BY <4>1, <4>2, <4>3, <4>4 DEF Accounted
    <3>3. QED
      BY <3>1, <3>2
  <2>8. QED
    BY <2>4, <2>6, <2>7 DEF IInv
<1>2. ASSUME NEW v \in Values \cup {undefined}, AlocarStores(v) PROVE IInv'
  <2>1. PICK idx \in PoolIndices : /\ idx = filling[Len(filling)] /\ Len(filling) > 0
                               /\ poolSlots' = [poolSlots EXCEPT ![idx] = v]
                               /\ lost' = IF v = undefined THEN lost \cup {idx} ELSE lost
    BY <1>2, <1>f DEF AlocarStores
  <2>2. /\ filling' \in Seq(PoolIndices) /\ Len(filling') = Len(filling) - 1
        /\ \A k \in 1 .. Len(filling) - 1 : filling'[k] = filling[k]
        /\ free' = free
    BY <1>2, <1>f DEF AlocarStores
  <2>3. PoolTypeOK'
    BY <1>a, <2>1, <2>2 DEF PoolTypeOK
  <2>4. /\ \A k \in 1 .. Len(filling) - 1 : filling[k] # idx
        /\ \A j \in 1 .. Len(free) : free[j] # idx
        /\ idx \notin lost
    BY <1>a, <1>b, <2>1 DEF OnePlace, Distinct
  <2>5. OnePlace'
    BY <1>a, <1>b, <2>1, <2>2, <2>4 DEF OnePlace, Distinct
  <2>6. SlotsAccounted'
    <3> SUFFICES ASSUME NEW i \in PoolIndices, i \notin lost' PROVE Accounted(i)'
      BY DEF SlotsAccounted
    <3>1. CASE i = idx
      <4>1. v # undefined
        BY <2>1, <3>1
      <4>2. QED
        BY <1>a, <2>1, <3>1, <4>1 DEF Accounted
    <3>2. CASE i # idx
      <4>1. Accounted(i)
        BY <1>b, <2>1, <2>2, <3>2 DEF SlotsAccounted
      <4>2. ASSUME NEW j \in 1 .. Len(free), free[j] = i PROVE Accounted(i)'
        BY <2>2, <4>2 DEF Accounted
      <4>3. ASSUME NEW k \in 1 .. Len(filling), filling[k] = i PROVE Accounted(i)'
        <5>1. k \in 1 .. Len(filling) - 1
          BY <1>a, <2>1, <3>2, <4>3
        <5>2. QED
          BY <2>2, <4>3, <5>1 DEF Accounted
      <4>4. CASE poolSlots[i] # undefined
        BY <1>a, <2>1, <3>2, <4>4 DEF Accounted
      <4>5. QED
        BY <4>1, <4>2, <4>3, <4>4 DEF Accounted
    <3>3. QED
      BY <3>1, <3>2
  <2>7. QED
    BY <2>3, <2>5, <2>6 DEF IInv
<1>3. CASE AlocarThrows
  <2>1. PICK idx \in PoolIndices : /\ idx = filling[Len(filling)] /\ Len(filling) > 0
                               /\ lost' = lost \cup {idx}
    BY <1>3, <1>f DEF AlocarThrows
  <2>2. /\ filling' \in Seq(PoolIndices) /\ Len(filling') = Len(filling) - 1
        /\ \A k \in 1 .. Len(filling) - 1 : filling'[k] = filling[k]
        /\ free' = free /\ poolSlots' = poolSlots
    BY <1>3, <1>f DEF AlocarThrows
  <2>3. PoolTypeOK'
    BY <1>a, <2>1, <2>2 DEF PoolTypeOK
  <2>4. /\ \A k \in 1 .. Len(filling) - 1 : filling[k] # idx
        /\ \A j \in 1 .. Len(free) : free[j] # idx
        /\ poolSlots[idx] = undefined
    BY <1>a, <1>b, <2>1 DEF OnePlace, Distinct
  <2>5. OnePlace'
    BY <1>a, <1>b, <2>1, <2>2, <2>4 DEF OnePlace, Distinct
  <2>6. SlotsAccounted'
    <3> SUFFICES ASSUME NEW i \in PoolIndices, i \notin lost' PROVE Accounted(i)'
      BY DEF SlotsAccounted
    <3>1. CASE i = idx
      BY <2>1, <3>1
    <3>2. CASE i # idx
      <4>1. Accounted(i)
        BY <1>b, <2>1, <2>2, <3>2 DEF SlotsAccounted
      <4>2. ASSUME NEW j \in 1 .. Len(free), free[j] = i PROVE Accounted(i)'
        BY <2>2, <4>2 DEF Accounted
      <4>3. ASSUME NEW k \in 1 .. Len(filling), filling[k] = i PROVE Accounted(i)'
        <5>1. k \in 1 .. Len(filling) - 1
          BY <1>a, <2>1, <3>2, <4>3
        <5>2. QED
          BY <2>2, <4>3, <5>1 DEF Accounted
      <4>4. CASE poolSlots[i] # undefined
        BY <2>2, <4>4 DEF Accounted
      <4>5. QED
        BY <4>1, <4>2, <4>3, <4>4 DEF Accounted
    <3>3. QED
      BY <3>1, <3>2
  <2>7. QED
    BY <2>3, <2>5, <2>6 DEF IInv
<1>4. ASSUME NEW n \in Arguments, Liberar(n) PROVE IInv'
  <2>1. PICK idx \in PoolIndices : /\ idx = IntOr(n) /\ poolSlots[idx] # undefined
                               /\ poolSlots' = [poolSlots EXCEPT ![idx] = undefined]
                               /\ free' = Append(free, idx)
    <3>1. IntOr(n) \in PoolIndices
      BY <1>4 DEF Liberar, Occupied, IntOr, Arguments, PoolIndices
    <3>2. QED
      BY <1>4, <3>1 DEF Liberar, Occupied
  <2>2. /\ free' \in Seq(PoolIndices) /\ Len(free') = Len(free) + 1
        /\ \A j \in 1 .. Len(free) : free'[j] = free[j]
        /\ free'[Len(free) + 1] = idx
        /\ filling' = filling /\ lost' = lost
    BY <1>4, <1>a, <2>1, AppendProperties DEF Liberar
  <2>3. PoolTypeOK'
    BY <1>a, <2>1, <2>2 DEF PoolTypeOK
  <2>4. /\ \A j \in 1 .. Len(free) : free[j] # idx
        /\ \A k \in 1 .. Len(filling) : filling[k] # idx
        /\ idx \notin lost
    BY <1>a, <1>b, <2>1 DEF OnePlace
  <2>5. OnePlace'
    BY <1>a, <1>b, <2>1, <2>2, <2>4 DEF OnePlace, Distinct
  <2>6. SlotsAccounted'
    <3> SUFFICES ASSUME NEW i \in PoolIndices, i \notin lost' PROVE Accounted(i)'
      BY DEF SlotsAccounted
    <3>1. CASE i = idx
      <4>1. Len(free) + 1 \in 1 .. Len(free') /\ free'[Len(free) + 1] = i
        BY <1>a, <2>2, <3>1
      <4>2. QED
        BY <4>1 DEF Accounted
    <3>2. CASE i # idx
      <4>1. Accounted(i)
        BY <1>b, <2>1, <2>2, <3>2 DEF SlotsAccounted
      <4>2. ASSUME NEW j \in 1 .. Len(free), free[j] = i PROVE Accounted(i)'
        <5>1. j \in 1 .. Len(free') /\ free'[j] = i
          BY <1>a, <2>2, <4>2
        <5>2. QED
          BY <5>1 DEF Accounted
      <4>3. ASSUME NEW k \in 1 .. Len(filling), filling[k] = i PROVE Accounted(i)'
        BY <2>2, <4>3 DEF Accounted
      <4>4. CASE poolSlots[i] # undefined
        BY <1>a, <2>1, <3>2, <4>4 DEF Accounted
      <4>5. QED
        BY <4>1, <4>2, <4>3, <4>4 DEF Accounted
    <3>3. QED
      BY <3>1, <3>2
  <2>7. QED
    BY <2>3, <2>5, <2>6 DEF IInv
<1>5. CASE UNCHANGED poolVars
  BY <1>5 DEF poolVars, IInv, PoolTypeOK, OnePlace, Distinct, SlotsAccounted, Accounted
<1>6. QED
  BY <1>1, <1>2, <1>3, <1>4, <1>5 DEF PoolNext

(* The indices on the stacks of a pool of any size are its own. *)
THEOREM TypeCorrect == PoolSpec => []PoolTypeOK
<1>1. PoolInit => IInv
  BY InitIInv
<1>2. IInv /\ [PoolNext]_poolVars => IInv'
  BY StepIInv
<1>3. IInv => PoolTypeOK
  BY DEF IInv
<1>4. QED
  BY <1>1, <1>2, <1>3, PTL DEF PoolSpec

(***************************************************************************)
(* In a pool of any size, alocar never hands out a slot that is held,      *)
(* however deeply seed functions and getters call alocar and liberar.      *)
(***************************************************************************)
THEOREM GrantsExclusive == PoolSpec => GrantsAreExclusive
<1> DEFINE Kept == \A i \in PoolIndices : poolSlots[i] # undefined => poolSlots'[i] \in {poolSlots[i], undefined}
<1>1. PoolInit => IInv
  BY InitIInv
<1>2. IInv /\ [PoolNext]_poolVars => IInv'
  BY StepIInv
<1>3. IInv /\ [PoolNext]_poolVars => [Kept]_poolVars
  <2> SUFFICES ASSUME IInv, PoolNext PROVE Kept
    OBVIOUS
  <2>a. /\ free \in Seq(PoolIndices) /\ filling \in Seq(PoolIndices)
        /\ poolSlots \in [PoolIndices -> Values \cup {undefined}] /\ OnePlace
    BY DEF IInv, PoolTypeOK
  <2>1. CASE AlocarTakes
    BY <2>1 DEF AlocarTakes
  <2>2. ASSUME NEW v \in Values \cup {undefined}, AlocarStores(v) PROVE Kept
    <3>1. filling # << >>
      BY <2>2 DEF AlocarStores
    <3>2. Len(filling) \in Nat /\ Len(filling) > 0 /\ Last(filling) = filling[Len(filling)] /\ Last(filling) \in PoolIndices
      BY <2>a, <3>1, FrontLast, Zenon
    <3>3. poolSlots[Last(filling)] = undefined
      BY <2>a, <3>2 DEF OnePlace
    <3>4. QED
      BY <2>2, <2>a, <3>2, <3>3 DEF AlocarStores
  <2>3. CASE AlocarThrows
    BY <2>3 DEF AlocarThrows
  <2>4. ASSUME NEW n \in Arguments, Liberar(n) PROVE Kept
    BY <2>4, <2>a DEF Liberar
  <2>5. QED
    BY <2>1, <2>2, <2>3, <2>4 DEF PoolNext
<1>4. QED
  BY <1>1, <1>2, <1>3, PTL DEF PoolSpec, GrantsAreExclusive

(***************************************************************************)
(* For every capacity, any nesting of alocar and liberar leaves each slot  *)
(* in exactly one place: free, once; being filled, once; held; or lost.    *)
(* Only a seed function or a clone that threw or ended with undefined      *)
(* loses one.                                                              *)
(***************************************************************************)
THEOREM PoolCorrect == PoolSpec => []PoolSound
<1>1. PoolInit => IInv
  BY InitIInv
<1>2. IInv /\ [PoolNext]_poolVars => IInv'
  BY StepIInv
<1>3. IInv => PoolSound
  BY DEF IInv, PoolSound
<1>4. QED
  BY <1>1, <1>2, <1>3, PTL DEF PoolSpec
=============================================================================
