-------------------------- MODULE LinearScanProofs --------------------------
(***************************************************************************)
(* Proofs about LinearScan, for every set of temporaries, every list of    *)
(* allocatable registers and every well-formed function.                   *)
(***************************************************************************)
EXTENDS LinearScan, FiniteSetTheorems, TLAPS

-----------------------------------------------------------------------------
(* Sequences without repetition: what each queue operation does to the set *)
(* of elements.                                                            *)

(* freeRegs.push: a new element joins the range. *)
LEMMA AppendInjective ==
  ASSUME NEW S, NEW s \in Seq(S), NEW x \in S, IsInjective(s), x \notin Range(s)
  PROVE  /\ Append(s, x) \in Seq(S)
         /\ IsInjective(Append(s, x))
         /\ Range(Append(s, x)) = Range(s) \cup {x}
<1>1. /\ Append(s, x) \in Seq(S)
      /\ Len(Append(s, x)) = Len(s) + 1
      /\ \A i \in 1 .. Len(s) : Append(s, x)[i] = s[i]
      /\ Append(s, x)[Len(s) + 1] = x
  OBVIOUS
<1>2. DOMAIN s = 1 .. Len(s) /\ DOMAIN Append(s, x) = 1 .. Len(s) + 1 /\ Len(s) \in Nat
  BY <1>1
<1>3. IsInjective(Append(s, x))
  BY <1>1, <1>2 DEF IsInjective, Range
<1>4. Range(Append(s, x)) = Range(s) \cup {x}
  BY <1>1, <1>2 DEF Range
<1> QED BY <1>1, <1>3, <1>4

(* freeRegs.shift and active.shift: the head leaves the range. *)
LEMMA TailInjective ==
  ASSUME NEW S, NEW s \in Seq(S), s # <<>>, IsInjective(s)
  PROVE  /\ Head(s) \in S
         /\ Head(s) \in Range(s)
         /\ Tail(s) \in Seq(S)
         /\ IsInjective(Tail(s))
         /\ Range(Tail(s)) = Range(s) \ {Head(s)}
<1>1. /\ Len(s) \in Nat \ {0}
      /\ Head(s) = s[1]
      /\ Tail(s) \in Seq(S)
      /\ Len(Tail(s)) = Len(s) - 1
      /\ \A i \in 1 .. Len(s) - 1 : Tail(s)[i] = s[i + 1]
  OBVIOUS
<1>2. DOMAIN s = 1 .. Len(s) /\ DOMAIN Tail(s) = 1 .. Len(s) - 1
  BY <1>1
<1>3. Head(s) \in S /\ Head(s) \in Range(s)
  BY <1>1, <1>2 DEF Range
<1>4. IsInjective(Tail(s))
  BY <1>1, <1>2 DEF IsInjective
<1>5. Range(Tail(s)) \subseteq Range(s) \ {Head(s)}
  BY <1>1, <1>2 DEF Range, IsInjective
<1>6. Range(s) \ {Head(s)} \subseteq Range(Tail(s))
  <2> SUFFICES ASSUME NEW i \in DOMAIN s, s[i] # Head(s)
               PROVE  s[i] \in Range(Tail(s))
    BY DEF Range
  <2>1. i - 1 \in 1 .. Len(s) - 1
    BY <1>1, <1>2
  <2>2. Tail(s)[i - 1] = s[i]
    BY <2>1, <1>1, <1>2
  <2> QED BY <2>1, <2>2, <1>2 DEF Range
<1> QED BY <1>1, <1>3, <1>4, <1>5, <1>6

(* active.push followed by sortActive: the new element joins the range. *)
LEMMA InsertInjective ==
  ASSUME NEW S, NEW s \in Seq(S), NEW x \in S, NEW k \in 0 .. Len(s),
         IsInjective(s), x \notin Range(s)
  PROVE  /\ PlacedAt(s, k, x) \in Seq(S)
         /\ IsInjective(PlacedAt(s, k, x))
         /\ Range(PlacedAt(s, k, x)) = Range(s) \cup {x}
<1> DEFINE n == PlacedAt(s, k, x)
<1>1. Len(s) \in Nat /\ DOMAIN s = 1 .. Len(s) /\ DOMAIN n = 1 .. Len(s) + 1
  BY DEF PlacedAt
<1>2. /\ \A i \in 1 .. Len(s) + 1 : i <= k => n[i] = s[i]
      /\ n[k + 1] = x
      /\ \A i \in 1 .. Len(s) + 1 : i > k + 1 => n[i] = s[i - 1]
  BY <1>1 DEF PlacedAt
<1>3. n \in [1 .. Len(s) + 1 -> S]
  BY <1>1 DEF PlacedAt
<1>4. n \in Seq(S)
  BY <1>1, <1>3
<1> HIDE DEF n
<1>5. ASSUME NEW i \in 1 .. Len(s) + 1, NEW j \in 1 .. Len(s) + 1, n[i] = n[j]
      PROVE  i = j
  <2>1. \A a \in 1 .. Len(s) : s[a] # x
    BY <1>1 DEF Range
  <2>2. \A a, b \in 1 .. Len(s) : s[a] = s[b] => a = b
    BY <1>1 DEF IsInjective
  <2> QED BY <1>1, <1>2, <1>5, <2>1, <2>2, SMTT(20)
<1>6. Range(n) \subseteq Range(s) \cup {x}
  <2> SUFFICES ASSUME NEW i \in 1 .. Len(s) + 1, n[i] # x
               PROVE  \E j \in 1 .. Len(s) : n[i] = s[j]
    BY <1>1 DEF Range
  <2>1. CASE i <= k BY <2>1, <1>1, <1>2
  <2>2. CASE i > k + 1
    <3>1. i - 1 \in 1 .. Len(s) BY <2>2, <1>1
    <3> QED BY <3>1, <2>2, <1>2
  <2> QED BY <2>1, <2>2, <1>1, <1>2
<1>7. Range(s) \cup {x} \subseteq Range(n)
  <2>1. x \in Range(n)
    BY <1>1, <1>2 DEF Range
  <2>2. ASSUME NEW i \in 1 .. Len(s) PROVE \E j \in 1 .. Len(s) + 1 : n[j] = s[i]
    <3>1. CASE i <= k BY <3>1, <1>1, <1>2
    <3>2. CASE i > k
      <4>1. i + 1 \in 1 .. Len(s) + 1 /\ i + 1 > k + 1 BY <3>2, <1>1
      <4>2. n[i + 1] = s[i] BY <4>1, <1>2
      <4> QED BY <4>1, <4>2
    <3> QED BY <3>1, <3>2, <1>1
  <2> QED BY <2>1, <2>2, <1>1 DEF Range
<1> QED BY <1>1, <1>4, <1>5, <1>6, <1>7 DEF n, IsInjective

(* Dropping the last element of `active`, the victim. *)
LEMMA FrontInjective ==
  ASSUME NEW S, NEW s \in Seq(S), s # <<>>, IsInjective(s),
         NEW f, f = [i \in 1 .. Len(s) - 1 |-> s[i]]
  PROVE  /\ s[Len(s)] \in S
         /\ s[Len(s)] \in Range(s)
         /\ f \in Seq(S)
         /\ IsInjective(f)
         /\ Range(f) = Range(s) \ {s[Len(s)]}
<1>1. Len(s) \in Nat \ {0} /\ DOMAIN s = 1 .. Len(s) /\ \A i \in 1 .. Len(s) : s[i] \in S
  OBVIOUS
<1>2. f \in Seq(S) /\ DOMAIN f = 1 .. Len(s) - 1
  BY <1>1
<1>3. s[Len(s)] \in S /\ s[Len(s)] \in Range(s)
  BY <1>1 DEF Range
<1>4. IsInjective(f)
  BY <1>1, <1>2 DEF IsInjective
<1>5. Range(f) \subseteq Range(s) \ {s[Len(s)]}
  BY <1>1, <1>2 DEF Range, IsInjective
<1>6. Range(s) \ {s[Len(s)]} \subseteq Range(f)
  <2> SUFFICES ASSUME NEW i \in 1 .. Len(s), s[i] # s[Len(s)]
               PROVE  \E j \in 1 .. Len(s) - 1 : f[j] = s[i]
    BY <1>1, <1>2 DEF Range
  <2>1. i \in 1 .. Len(s) - 1
    BY <1>1
  <2> QED BY <2>1
<1> QED BY <1>2, <1>3, <1>4, <1>5, <1>6

-----------------------------------------------------------------------------
(* The inductive invariant.                                                *)

Mentioned(t, i) == t \in code[i].def \cup code[i].use

(***************************************************************************)
(* What the first pass knows of the instructions it has read: the interval *)
(* of a temporary spans all that mention it.  No interval is visited       *)
(* before the pass is over.                                                *)
(***************************************************************************)
IntervalInv ==
  /\ \A t \in Temps : starts[t] < idx /\ ends[t] < idx
  /\ \A t \in Temps : \A i \in DOMAIN code :
       i < idx /\ Mentioned(t, i) => starts[t] \in 1 .. i /\ i <= ends[t]
  /\ \A t \in Temps :
       ends[t] # 0 => \E i \in DOMAIN code : i < idx /\ Mentioned(t, i)
  /\ ~Scanned => pending = Temps

(***************************************************************************)
(* freeRegs and the registers of the active intervals split the            *)
(* allocatable registers between them.                                     *)
(***************************************************************************)
RegisterInv ==
  /\ IsInjective(freeRegs)
  /\ IsInjective(active)
  /\ Range(active) \subseteq Assigned
  /\ \A t \in Range(active) : \E r \in Regs : locations[t] = Reg(r)
  /\ \A t, u \in Range(active) : t # u => locations[t] # locations[u]
  /\ \A t \in Range(active) : \A r \in Range(freeRegs) : locations[t] # Reg(r)
  /\ \A r \in Regs : r \notin Range(freeRegs) => \E t \in Range(active) : locations[t] = Reg(r)

(* A temporary that still owns a register but is no longer active ended    *)
(* before every interval still to come.                                    *)
RetiredInv ==
  \A t \in Assigned : \A p \in pending :
    locations[t].kind = "reg" /\ t \notin Range(active) => ends[t] < starts[p]

(* A spill slot is handed out once. *)
SpillInv ==
  /\ \A t \in Temps : locations[t].kind = "spill" => locations[t].slot < spillCount
  /\ \A t, u \in Temps :
       /\ locations[t].kind = "spill"
       /\ locations[u].kind = "spill"
       /\ t # u
       => locations[t].slot # locations[u].slot
  /\ \A t \in Assigned : locations[t].kind # "none"

IInv ==
  /\ AllocTypeOK
  /\ IntervalInv
  /\ RegisterInv
  /\ RetiredInv
  /\ SpillInv
  /\ NoSharedPlace

(* The three kinds of place are told apart by their fields. *)
LEMMA PlaceFacts ==
  /\ \A r \in Regs : Reg(r) \in Place /\ Reg(r).kind = "reg" /\ Reg(r).name = r
  /\ \A n \in Nat : Spill(n) \in Place /\ Spill(n).kind = "spill" /\ Spill(n).slot = n
  /\ NoPlace \in Place /\ NoPlace.kind = "none"
  /\ \A p \in Place : \/ p.kind = "none"
                      \/ p.kind = "reg" /\ p.name \in Regs /\ p = Reg(p.name)
                      \/ p.kind = "spill" /\ p.slot \in Nat /\ p = Spill(p.slot)
BY DEF Place, Reg, Spill, NoPlace

(* allocateTemps starts with every register free and nothing placed. *)
LEMMA InitIInv == AllocInit => IInv
<1> SUFFICES ASSUME AllocInit PROVE IInv
  OBVIOUS
<1>1. AllocTypeOK
  <2>1. WellFormed(code) BY CodesAssumption DEF AllocInit
  <2>2. Len(code) \in Nat BY <2>1 DEF WellFormed
  <2> QED BY <2>1, <2>2, AllocatableAssumption, PlaceFacts DEF AllocInit, AllocTypeOK
<1>2. IntervalInv
  BY <1>1 DEF AllocInit, IntervalInv, AllocTypeOK, WellFormed
<1>3. Range(active) = {}
  BY DEF AllocInit, Range
<1>4. RegisterInv
  <2>1. IsInjective(active)
    BY DEF AllocInit, IsInjective
  <2>2. Range(freeRegs) = Regs
    BY DEF AllocInit, Regs
  <2> QED BY <1>3, <2>1, <2>2, AllocatableAssumption DEF AllocInit, RegisterInv
<1>5. RetiredInv /\ SpillInv /\ NoSharedPlace
  BY PlaceFacts DEF AllocInit, RetiredInv, SpillInv, NoSharedPlace, Assigned
<1> QED BY <1>1, <1>2, <1>4, <1>5 DEF IInv

(* A turn of the first pass only grows the intervals. *)
LEMMA ScanKeepsIInv == IInv /\ ScanInstruction => IInv'
<1> SUFFICES ASSUME IInv, ScanInstruction PROVE IInv'
  OBVIOUS
<1> USE DEF IInv
<1>0. /\ code' = code /\ pending' = pending /\ freeRegs' = freeRegs /\ active' = active
      /\ locations' = locations /\ spillCount' = spillCount /\ idx' = idx + 1
      /\ starts' = ScanStarts(idx) /\ ends' = ScanEnds(idx) /\ idx \in DOMAIN code
  BY DEF ScanInstruction
<1>1. /\ code \in Seq(Instruction) /\ Len(code) \in Nat
      /\ DOMAIN code = 1 .. Len(code) /\ idx \in 1 .. Len(code)
  BY <1>0 DEF AllocTypeOK, WellFormed
<1>2. \A t \in Temps : /\ starts[t] \in 0 .. Len(code) /\ ends[t] \in 0 .. Len(code)
                       /\ starts'[t] = starts[t] \/ (starts[t] = 0 /\ starts'[t] = idx)
                       /\ ends'[t] = ends[t] \/ (Mentioned(t, idx) /\ ends'[t] = idx)
  BY <1>0 DEF AllocTypeOK, ScanStarts, ScanEnds, Mentioned
<1>3. AllocTypeOK'
  <2>1. starts' \in [Temps -> 0 .. Len(code)] /\ ends' \in [Temps -> 0 .. Len(code)]
    BY <1>0, <1>1 DEF AllocTypeOK, ScanStarts, ScanEnds
  <2>2. WellFormed(code')
    BY <1>0 DEF AllocTypeOK
  <2> QED BY <1>0, <1>1, <2>1, <2>2 DEF AllocTypeOK
<1>4. pending = Temps
  BY <1>0 DEF IntervalInv, Scanned
<1>5. IntervalInv'
  <2>1. \A t \in Temps : starts'[t] < idx' /\ ends'[t] < idx'
    BY <1>0, <1>1, <1>2 DEF IntervalInv
  <2>2. ASSUME NEW t \in Temps, NEW i \in DOMAIN code, i < idx + 1, Mentioned(t, i)
        PROVE  starts'[t] \in 1 .. i /\ i <= ends'[t]
    <3>1. CASE i < idx
      <4>1. starts[t] \in 1 .. i /\ i <= ends[t]
        BY <2>2, <3>1 DEF IntervalInv
      <4> QED BY <1>1, <1>2, <4>1, <3>1
    <3>2. CASE i = idx
      <4>1. starts'[t] \in 1 .. i
        BY <1>0, <1>1, <1>2, <2>2, <3>2 DEF IntervalInv, ScanStarts, Mentioned
      <4>2. CASE t \in code[i].use
        BY <1>0, <1>1, <3>2, <4>1, <4>2 DEF ScanEnds
      <4>3. CASE t \in code[i].def
        <5>1. PICK d \in DOMAIN code : DefinedAt(code, t, d)
          BY DEF AllocTypeOK, WellFormed
        <5>2. i = d /\ \A j \in DOMAIN code : j < i => ~Mentioned(t, j)
          BY <5>1, <4>3, <1>1 DEF DefinedAt, Mentioned
        <5>3. ends[t] = 0
          BY <5>2, <3>2 DEF IntervalInv
        <5> QED BY <5>3, <4>1, <4>3, <3>2, <1>0, <1>1 DEF ScanEnds
      <4> QED BY <4>1, <4>2, <4>3, <2>2 DEF Mentioned
    <3> QED BY <3>1, <3>2, <2>2, <1>1
  <2>3. ASSUME NEW t \in Temps, ends'[t] # 0
        PROVE  \E i \in DOMAIN code : i < idx + 1 /\ Mentioned(t, i)
    <3>1. CASE ends'[t] = ends[t]
      <4>1. PICK i \in DOMAIN code : i < idx /\ Mentioned(t, i)
        BY <2>3, <3>1 DEF IntervalInv
      <4> QED BY <4>1, <1>1
    <3>2. CASE Mentioned(t, idx)
      BY <3>2, <1>0, <1>1
    <3> QED BY <3>1, <3>2, <1>2
  <2> QED BY <2>1, <2>2, <2>3, <1>0, <1>4 DEF IntervalInv, Mentioned
<1>6. RegisterInv'
  BY <1>0 DEF RegisterInv, Assigned, Range, IsInjective
<1>7. RetiredInv' /\ SpillInv' /\ NoSharedPlace'
  BY <1>0, <1>4 DEF RetiredInv, SpillInv, NoSharedPlace, Assigned
<1> QED BY <1>3, <1>5, <1>6, <1>7

(***************************************************************************)
(* The second pass leaves the intervals alone: what it preserves follows   *)
(* from the queue, the active set and the places alone.                    *)
(***************************************************************************)
LEMMA SecondPassKeepsIntervals ==
  ASSUME IInv, UNCHANGED <<code, idx, starts, ends>>, Scanned,
         pending' \in SUBSET Temps, freeRegs' \in Seq(Regs), active' \in Seq(Temps),
         locations' \in [Temps -> Place], spillCount' \in Nat
  PROVE  AllocTypeOK' /\ IntervalInv'
<1>1. AllocTypeOK'
  <2>1. WellFormed(code')
    BY DEF AllocTypeOK, IInv
  <2> QED BY <2>1 DEF AllocTypeOK, IInv
<1>2. IntervalInv'
  BY DEF IntervalInv, IInv, Scanned, Mentioned
<1> QED BY <1>1, <1>2

(* Facts about the interval of the current turn. *)
LEMMA CurrentFacts ==
  ASSUME IInv, NEW t \in Temps, Current(t)
  PROVE  /\ Scanned
         /\ t \in pending
         /\ t \notin Range(active)
         /\ \A p \in pending : starts[t] <= starts[p]
         /\ \A u \in Temps : starts[u] \in Int /\ ends[u] \in Int
<1>1. \A u \in Temps : starts[u] \in Int /\ ends[u] \in Int
  BY DEF IInv, AllocTypeOK, WellFormed
<1>2. pending \subseteq Temps
  BY DEF IInv, AllocTypeOK
<1>3. \A p \in pending : starts[t] <= starts[p]
  BY <1>1, <1>2 DEF Current, SortsBefore
<1>4. t \notin Range(active)
  BY DEF Current, IInv, RegisterInv, Assigned
<1> QED BY <1>1, <1>3, <1>4 DEF Current

(* expireOld returns the register of an interval that is over. *)
LEMMA ExpireKeepsIInv == ASSUME IInv, NEW t \in Temps, ExpireOld(t) PROVE IInv'
<1> DEFINE h == Head(active)
<1>0. /\ UNCHANGED <<code, idx, starts, ends, pending, locations, spillCount>>
      /\ active # <<>> /\ ends[h] < starts[t]
      /\ freeRegs' = Append(freeRegs, locations[h].name)
      /\ active' = Tail(active)
      /\ Current(t)
  BY DEF ExpireOld, HasExpired
<1>t. /\ active \in Seq(Temps) /\ IsInjective(active) /\ freeRegs \in Seq(Regs)
      /\ IsInjective(freeRegs) /\ locations \in [Temps -> Place] /\ spillCount \in Nat
      /\ pending \in SUBSET Temps
  BY DEF IInv, AllocTypeOK, RegisterInv
<1>c. /\ Scanned /\ \A p \in pending : starts[t] <= starts[p]
      /\ \A u \in Temps : starts[u] \in Int /\ ends[u] \in Int
  BY <1>0, CurrentFacts
<1>1. /\ h \in Temps /\ h \in Range(active) /\ active' \in Seq(Temps)
      /\ IsInjective(active') /\ Range(active') = Range(active) \ {h}
  BY <1>0, <1>t, TailInjective
<1>2. PICK r \in Regs : locations[h] = Reg(r)
  BY <1>1 DEF IInv, RegisterInv
<1>3. locations[h].name = r /\ locations[h].kind = "reg"
  BY <1>2, PlaceFacts
<1>4. r \notin Range(freeRegs)
  BY <1>1, <1>2 DEF IInv, RegisterInv
<1>5. /\ freeRegs' \in Seq(Regs) /\ IsInjective(freeRegs')
      /\ Range(freeRegs') = Range(freeRegs) \cup {r}
  BY <1>0, <1>t, <1>3, <1>4, AppendInjective
<1> HIDE DEF h
<1>6. AllocTypeOK' /\ IntervalInv'
  BY <1>0, <1>1, <1>5, <1>t, <1>c, SecondPassKeepsIntervals
<1>7. RegisterInv'
  <2>1. Range(active') \subseteq Assigned' /\ \A u \in Range(active') : \E q \in Regs : locations'[u] = Reg(q)
    BY <1>0, <1>1 DEF IInv, RegisterInv, Assigned
  <2>2. \A u, v \in Range(active') : u # v => locations'[u] # locations'[v]
    BY <1>0, <1>1 DEF IInv, RegisterInv
  <2>3. ASSUME NEW u \in Range(active'), NEW q \in Range(freeRegs') PROVE locations'[u] # Reg(q)
    BY <1>0, <1>1, <1>2, <1>5, <2>3 DEF IInv, RegisterInv
  <2>4. ASSUME NEW q \in Regs, q \notin Range(freeRegs')
        PROVE  \E u \in Range(active') : locations'[u] = Reg(q)
    <3>1. PICK u \in Range(active) : locations[u] = Reg(q)
      BY <1>5, <2>4 DEF IInv, RegisterInv
    <3>2. u # h
      BY <1>3, <1>5, <2>4, <3>1, PlaceFacts
    <3> QED BY <1>0, <1>1, <3>1, <3>2
  <2> QED BY <1>1, <1>5, <2>1, <2>2, <2>3, <2>4 DEF RegisterInv
<1>8. RetiredInv'
  <2> SUFFICES ASSUME NEW u \in Assigned, NEW p \in pending,
                      locations[u].kind = "reg", u \notin Range(active')
               PROVE  ends[u] < starts[p]
    BY <1>0 DEF RetiredInv, Assigned
  <2>1. CASE u \notin Range(active)
    BY <2>1 DEF IInv, RetiredInv
  <2>2. CASE u = h
    BY <2>2, <1>0, <1>c, <1>t, <1>1
  <2> QED BY <2>1, <2>2, <1>1
<1>9. SpillInv' /\ NoSharedPlace'
  BY <1>0 DEF IInv, SpillInv, NoSharedPlace, Assigned, Overlap
<1> QED BY <1>6, <1>7, <1>8, <1>9 DEF IInv

(* The current interval takes the register at the head of freeRegs. *)
LEMMA AllocateKeepsIInv == ASSUME IInv, NEW t \in Temps, AllocateFree(t) PROVE IInv'
<1> DEFINE r == Head(freeRegs)
<1>0. /\ UNCHANGED <<code, idx, starts, ends, spillCount>>
      /\ freeRegs # <<>> /\ freeRegs' = Tail(freeRegs)
      /\ locations' = [locations EXCEPT ![t] = Reg(r)]
      /\ PushActive(active, t)
      /\ pending' = pending \ {t}
      /\ Current(t)
  BY DEF AllocateFree
<1>t. /\ active \in Seq(Temps) /\ IsInjective(active) /\ freeRegs \in Seq(Regs)
      /\ IsInjective(freeRegs) /\ locations \in [Temps -> Place] /\ spillCount \in Nat
      /\ pending \in SUBSET Temps
  BY DEF IInv, AllocTypeOK, RegisterInv
<1>c. /\ Scanned /\ t \in pending /\ t \notin Range(active)
      /\ \A u \in Temps : starts[u] \in Int /\ ends[u] \in Int
  BY <1>0, CurrentFacts
<1>1. /\ r \in Regs /\ r \in Range(freeRegs) /\ freeRegs' \in Seq(Regs)
      /\ IsInjective(freeRegs') /\ Range(freeRegs') = Range(freeRegs) \ {r}
  BY <1>0, <1>t, TailInjective
<1>2. /\ active' \in Seq(Temps) /\ IsInjective(active')
      /\ Range(active') = Range(active) \cup {t}
  <2>1. PICK k \in 0 .. Len(active) : active' = PlacedAt(active, k, t)
    BY <1>0 DEF PushActive
  <2> QED BY <2>1, <1>t, <1>c, InsertInjective
<1> HIDE DEF r
<1>3. /\ locations'[t] = Reg(r) /\ locations' \in [Temps -> Place]
      /\ \A u \in Temps : u # t => locations'[u] = locations[u]
      /\ Reg(r).kind = "reg"
  BY <1>0, <1>1, <1>t, PlaceFacts
<1>4. Assigned' = Assigned \cup {t} /\ Assigned \subseteq Temps /\ t \notin Assigned
  BY <1>0, <1>c, <1>t DEF Assigned
<1>5. Range(active) \subseteq Assigned
  BY DEF IInv, RegisterInv
<1>6. AllocTypeOK' /\ IntervalInv'
  BY <1>0, <1>1, <1>2, <1>3, <1>t, <1>c, SecondPassKeepsIntervals
<1>7. RegisterInv'
  <2>1. Range(active') \subseteq Assigned'
    BY <1>2, <1>4, <1>5
  <2>2. \A u \in Range(active') : \E q \in Regs : locations'[u] = Reg(q)
    BY <1>1, <1>2, <1>3, <1>4, <1>5 DEF IInv, RegisterInv
  <2>3. \A u \in Range(active) : locations[u] # Reg(r)
    BY <1>1 DEF IInv, RegisterInv
  <2>4. \A u, v \in Range(active') : u # v => locations'[u] # locations'[v]
    BY <1>2, <1>3, <1>4, <1>5, <2>3 DEF IInv, RegisterInv
  <2>5. ASSUME NEW u \in Range(active'), NEW q \in Range(freeRegs') PROVE locations'[u] # Reg(q)
    <3>0. Range(freeRegs) \subseteq Regs
      BY <1>t DEF Range
    <3>1. q \in Regs /\ q # r /\ q \in Range(freeRegs)
      BY <1>1, <3>0
    <3>2. CASE u = t BY <3>1, <3>2, <1>1, <1>3, PlaceFacts
    <3>3. CASE u \in Range(active) BY <3>1, <3>3, <1>3, <1>4, <1>5 DEF IInv, RegisterInv
    <3> QED BY <3>2, <3>3, <1>2
  <2>6. ASSUME NEW q \in Regs, q \notin Range(freeRegs')
        PROVE  \E u \in Range(active') : locations'[u] = Reg(q)
    <3>1. CASE q = r BY <3>1, <1>2, <1>3
    <3>2. CASE q # r
      <4>1. PICK u \in Range(active) : locations[u] = Reg(q)
        BY <1>1, <2>6, <3>2 DEF IInv, RegisterInv
      <4> QED BY <4>1, <1>2, <1>3, <1>4, <1>5
    <3> QED BY <3>1, <3>2
  <2> QED BY <1>1, <1>2, <2>1, <2>2, <2>4, <2>5, <2>6 DEF RegisterInv
<1>8. RetiredInv'
  BY <1>0, <1>2, <1>3, <1>4 DEF IInv, RetiredInv
<1>9. SpillInv'
  BY <1>0, <1>3, <1>4 DEF IInv, SpillInv
<1>10. NoSharedPlace'
  <2>1. ASSUME NEW u \in Assigned, Overlap(t, u) PROVE locations[u] # Reg(r)
    <3>1. CASE u \in Range(active)
      BY <3>1, <1>1 DEF IInv, RegisterInv
    <3>2. CASE u \notin Range(active) /\ locations[u].kind = "reg"
      <4>1. ends[u] < starts[t]
        BY <3>2, <1>c DEF IInv, RetiredInv
      <4> QED BY <4>1, <2>1, <1>c, <1>4 DEF Overlap
    <3> QED BY <3>1, <3>2, <1>3
  <2>2. \A u, v \in Assigned : u # v /\ Overlap(u, v) => locations[u] # locations[v]
    BY DEF IInv, NoSharedPlace
  <2>3. \A u, v \in Temps : Overlap(u, v)' = Overlap(u, v) /\ Overlap(u, v) = Overlap(v, u)
    BY <1>0 DEF Overlap
  <2> SUFFICES ASSUME NEW u \in Assigned', NEW v \in Assigned', u # v, Overlap(u, v)
               PROVE  locations'[u] # locations'[v]
    BY <2>3, <1>4 DEF NoSharedPlace
  <2>4. CASE u = t BY <2>4, <2>1, <1>3, <1>4
  <2>5. CASE v = t BY <2>5, <2>1, <2>3, <1>3, <1>4
  <2>6. CASE u # t /\ v # t BY <2>6, <2>2, <1>3, <1>4
  <2> QED BY <2>4, <2>5, <2>6
<1> QED BY <1>6, <1>7, <1>8, <1>9, <1>10 DEF IInv

(* The current interval itself goes to a fresh slot. *)
LEMMA SpillCurrentKeepsIInv == ASSUME IInv, NEW t \in Temps, SpillCurrent(t) PROVE IInv'
<1>0. /\ UNCHANGED <<code, idx, starts, ends, freeRegs, active>>
      /\ locations' = [locations EXCEPT ![t] = Spill(spillCount)]
      /\ spillCount' = spillCount + 1
      /\ pending' = pending \ {t}
      /\ Current(t)
  BY DEF SpillCurrent
<1>t. /\ active \in Seq(Temps) /\ freeRegs \in Seq(Regs)
      /\ locations \in [Temps -> Place] /\ spillCount \in Nat /\ pending \in SUBSET Temps
  BY DEF IInv, AllocTypeOK
<1>c. Scanned /\ t \in pending /\ t \notin Range(active)
  BY <1>0, CurrentFacts
<1>1. /\ locations'[t] = Spill(spillCount) /\ locations' \in [Temps -> Place]
      /\ \A u \in Temps : u # t => locations'[u] = locations[u]
      /\ Spill(spillCount).kind = "spill" /\ Spill(spillCount).slot = spillCount
  BY <1>0, <1>t, PlaceFacts
<1>2. Assigned' = Assigned \cup {t} /\ Assigned \subseteq Temps /\ t \notin Assigned
  BY <1>0, <1>c, <1>t DEF Assigned
<1>3. \A u \in Temps : /\ locations[u] # Spill(spillCount)
                       /\ locations[u].kind = "spill" => locations[u].slot \in Nat
  BY <1>t, <1>1, PlaceFacts DEF IInv, SpillInv
<1>4. AllocTypeOK' /\ IntervalInv'
  BY <1>0, <1>1, <1>t, <1>c, SecondPassKeepsIntervals
<1>5. RegisterInv'
  <2>1. Range(active) \subseteq Assigned /\ Range(active') = Range(active) /\ Range(freeRegs') = Range(freeRegs)
    BY <1>0 DEF IInv, RegisterInv
  <2>2. \A u \in Range(active) : locations'[u] = locations[u]
    BY <2>1, <1>1, <1>2
  <2> QED BY <1>0, <1>2, <2>1, <2>2 DEF IInv, RegisterInv
<1>6. RetiredInv'
  BY <1>0, <1>1, <1>2 DEF IInv, RetiredInv
<1>7. SpillInv'
  <2>1. \A u \in Temps : locations'[u].kind = "spill" => locations'[u].slot < spillCount'
    BY <1>0, <1>1, <1>3, <1>t DEF IInv, SpillInv
  <2>2. \A u \in Temps : u # t /\ locations[u].kind = "spill" => locations[u].slot # spillCount
    BY <1>3, <1>t DEF IInv, SpillInv
  <2>3. \A u, v \in Temps : locations'[u].kind = "spill" /\ locations'[v].kind = "spill" /\ u # v
                            => locations'[u].slot # locations'[v].slot
    BY <1>1, <2>2 DEF IInv, SpillInv
  <2>4. \A u \in Assigned' : locations'[u].kind # "none"
    BY <1>1, <1>2 DEF IInv, SpillInv
  <2> QED BY <2>1, <2>3, <2>4 DEF SpillInv
<1>8. NoSharedPlace'
  BY <1>0, <1>1, <1>2, <1>3 DEF IInv, NoSharedPlace, Overlap
<1> QED BY <1>4, <1>5, <1>6, <1>7, <1>8 DEF IInv

(* The victim moves to a fresh slot and the current interval takes its register. *)
LEMMA SpillVictimKeepsIInv == ASSUME IInv, NEW t \in Temps, SpillVictim(t) PROVE IInv'
<1> DEFINE v == Victim
<1>0. /\ UNCHANGED <<code, idx, starts, ends, freeRegs>>
      /\ freeRegs = <<>> /\ active # <<>>
      /\ locations' = [locations EXCEPT ![t] = locations[v], ![v] = Spill(spillCount)]
      /\ spillCount' = spillCount + 1
      /\ PushActive(Others, t)
      /\ pending' = pending \ {t}
      /\ Current(t)
  BY DEF SpillVictim, VictimOutlives
<1>t. /\ active \in Seq(Temps) /\ IsInjective(active) /\ freeRegs \in Seq(Regs)
      /\ locations \in [Temps -> Place] /\ spillCount \in Nat /\ pending \in SUBSET Temps
  BY DEF IInv, AllocTypeOK, RegisterInv
<1>c. /\ Scanned /\ t \in pending /\ t \notin Range(active)
      /\ \A u \in Temps : starts[u] \in Int /\ ends[u] \in Int
  BY <1>0, CurrentFacts
<1>1. /\ v \in Temps /\ v \in Range(active) /\ Others \in Seq(Temps)
      /\ IsInjective(Others) /\ Range(Others) = Range(active) \ {v}
  BY <1>0, <1>t, FrontInjective DEF Victim, Others
<1>2. /\ active' \in Seq(Temps) /\ IsInjective(active')
      /\ Range(active') = (Range(active) \ {v}) \cup {t}
  <2>1. PICK k \in 0 .. Len(Others) : active' = PlacedAt(Others, k, t)
    BY <1>0 DEF PushActive
  <2> QED BY <2>1, <1>1, <1>c, InsertInjective
<1> HIDE DEF v
<1>3. PICK r \in Regs : locations[v] = Reg(r)
  BY <1>1 DEF IInv, RegisterInv
<1>4. t # v
  BY <1>1, <1>c
<1>5. /\ locations'[t] = Reg(r) /\ locations'[v] = Spill(spillCount)
      /\ locations' \in [Temps -> Place]
      /\ \A u \in Temps : u # t /\ u # v => locations'[u] = locations[u]
      /\ Reg(r).kind = "reg"
      /\ Spill(spillCount).kind = "spill" /\ Spill(spillCount).slot = spillCount
  BY <1>0, <1>1, <1>3, <1>4, <1>t, PlaceFacts
<1>6. /\ Assigned' = Assigned \cup {t} /\ Assigned \subseteq Temps /\ t \notin Assigned
      /\ Range(active) \subseteq Assigned /\ v \in Assigned
  BY <1>0, <1>1, <1>c, <1>t DEF Assigned, IInv, RegisterInv
<1>7. \A u \in Temps : /\ locations[u] # Spill(spillCount)
                       /\ locations[u].kind = "spill" => locations[u].slot \in Nat
  BY <1>t, <1>5, PlaceFacts DEF IInv, SpillInv
<1>8. AllocTypeOK' /\ IntervalInv'
  BY <1>0, <1>2, <1>5, <1>t, <1>c, SecondPassKeepsIntervals
<1>9. RegisterInv'
  <2>1. Range(freeRegs') = {} /\ IsInjective(freeRegs') /\ Range(freeRegs) = {}
    BY <1>0 DEF Range, IsInjective
  <2>2. Range(active') \subseteq Assigned'
    BY <1>2, <1>6
  <2>3. \A u \in Range(active') : u = t \/ (u \in Range(active) /\ u # v /\ u # t /\ locations'[u] = locations[u])
    BY <1>2, <1>5, <1>6, <1>c
  <2>4. \A u \in Range(active') : \E q \in Regs : locations'[u] = Reg(q)
    BY <2>3, <1>5 DEF IInv, RegisterInv
  <2>5. \A u \in Range(active) : u # v => locations[u] # Reg(r)
    BY <1>1, <1>3 DEF IInv, RegisterInv
  <2>6. \A u, w \in Range(active') : u # w => locations'[u] # locations'[w]
    BY <2>3, <2>5, <1>5 DEF IInv, RegisterInv
  <2>7. ASSUME NEW q \in Regs PROVE \E u \in Range(active') : locations'[u] = Reg(q)
    <3>1. CASE q = r BY <3>1, <1>2, <1>5
    <3>2. CASE q # r
      <4>1. PICK u \in Range(active) : locations[u] = Reg(q)
        BY <2>1 DEF IInv, RegisterInv
      <4>2. u # v
        BY <4>1, <3>2, <1>3, PlaceFacts
      <4> QED BY <4>1, <4>2, <1>2, <1>5, <1>c, <1>6
    <3> QED BY <3>1, <3>2
  <2> QED BY <1>2, <2>1, <2>2, <2>4, <2>6, <2>7 DEF RegisterInv
<1>10. RetiredInv'
  <2> SUFFICES ASSUME NEW u \in Assigned', NEW p \in pending',
                      locations'[u].kind = "reg", u \notin Range(active')
               PROVE  ends[u] < starts[p]
    BY <1>0 DEF RetiredInv
  <2>1. u # t /\ u # v /\ p \in pending
    BY <1>0, <1>2, <1>5
  <2>2. u \in Assigned /\ locations[u].kind = "reg" /\ u \notin Range(active)
    BY <2>1, <1>2, <1>5, <1>6
  <2> QED BY <2>1, <2>2 DEF IInv, RetiredInv
<1>11. SpillInv'
  <2>1. \A u \in Temps : locations'[u].kind = "spill" => locations'[u].slot < spillCount'
    BY <1>0, <1>5, <1>7, <1>t DEF IInv, SpillInv
  <2>2. \A u \in Temps : locations[u].kind = "spill" => locations[u].slot # spillCount
    BY <1>7, <1>t DEF IInv, SpillInv
  <2>3. \A u \in Temps : u # v /\ locations'[u].kind = "spill" => u # t /\ locations'[u] = locations[u]
    BY <1>5
  <2>4. \A u, w \in Temps : locations'[u].kind = "spill" /\ locations'[w].kind = "spill" /\ u # w
                            => locations'[u].slot # locations'[w].slot
    BY <1>5, <2>2, <2>3 DEF IInv, SpillInv
  <2>5. \A u \in Assigned' : locations'[u].kind # "none"
    BY <1>5, <1>6 DEF IInv, SpillInv
  <2> QED BY <2>1, <2>4, <2>5 DEF SpillInv
<1>12. NoSharedPlace'
  <2>1. ASSUME NEW u \in Assigned, u # v, Overlap(t, u) PROVE locations[u] # Reg(r)
    <3>1. CASE u \in Range(active)
      BY <3>1, <2>1, <1>1, <1>3 DEF IInv, RegisterInv
    <3>2. CASE u \notin Range(active) /\ locations[u].kind = "reg"
      <4>1. ends[u] < starts[t]
        BY <3>2, <1>c DEF IInv, RetiredInv
      <4> QED BY <4>1, <2>1, <1>c, <1>6 DEF Overlap
    <3> QED BY <3>1, <3>2, <1>5
  <2>2. \A u, w \in Assigned : u # w /\ Overlap(u, w) => locations[u] # locations[w]
    BY DEF IInv, NoSharedPlace
  <2>3. \A u, w \in Temps : Overlap(u, w)' = Overlap(u, w) /\ Overlap(u, w) = Overlap(w, u)
    BY <1>0 DEF Overlap
  <2>4. \A u \in Temps : u # v => locations'[u] # Spill(spillCount)
    BY <1>5, <1>7
  <2> SUFFICES ASSUME NEW u \in Assigned', NEW w \in Assigned', u # w, Overlap(u, w)
               PROVE  locations'[u] # locations'[w]
    BY <2>3, <1>6 DEF NoSharedPlace
  <2>5. CASE u = v \/ w = v BY <2>5, <2>4, <1>5, <1>6
  <2>6. CASE u = t /\ w # v BY <2>6, <2>1, <1>5, <1>6
  <2>7. CASE w = t /\ u # v BY <2>7, <2>1, <2>3, <1>5, <1>6
  <2>8. CASE u \notin {t, v} /\ w \notin {t, v} BY <2>8, <2>2, <1>5, <1>6
  <2> QED BY <2>5, <2>6, <2>7, <2>8
<1> QED BY <1>8, <1>9, <1>10, <1>11, <1>12 DEF IInv

(* Every step of the allocator keeps the invariant. *)
LEMMA NextKeepsIInv == IInv /\ [AllocNext]_allocVars => IInv'
<1> SUFFICES ASSUME IInv, [AllocNext]_allocVars PROVE IInv'
  OBVIOUS
<1>1. CASE ScanInstruction
  BY <1>1, ScanKeepsIInv
<1>2. ASSUME NEW t \in Temps, ExpireOld(t) PROVE IInv'
  BY <1>2, ExpireKeepsIInv
<1>3. ASSUME NEW t \in Temps, AllocateFree(t) PROVE IInv'
  BY <1>3, AllocateKeepsIInv
<1>4. ASSUME NEW t \in Temps, SpillVictim(t) PROVE IInv'
  BY <1>4, SpillVictimKeepsIInv
<1>5. ASSUME NEW t \in Temps, SpillCurrent(t) PROVE IInv'
  BY <1>5, SpillCurrentKeepsIInv
<1>6. CASE UNCHANGED allocVars
  <2>1. AllocTypeOK'
    BY <1>6 DEF IInv, AllocTypeOK, allocVars
  <2>2. IntervalInv' /\ RegisterInv' /\ RetiredInv' /\ SpillInv' /\ NoSharedPlace'
    BY <1>6 DEF IInv, IntervalInv, RegisterInv, RetiredInv, SpillInv, NoSharedPlace,
                Overlap, Assigned, Scanned, Mentioned, allocVars
  <2> QED BY <2>1, <2>2 DEF IInv
<1> QED BY <1>1, <1>2, <1>3, <1>4, <1>5, <1>6 DEF AllocNext, Returned

(* The invariant holds in every state of allocateTemps. *)
THEOREM Invariance == AllocSpec => []IInv
<1>1. AllocInit => IInv
  BY InitIInv
<1>2. IInv /\ [AllocNext]_allocVars => IInv'
  BY NextKeepsIInv
<1> QED BY <1>1, <1>2, PTL DEF AllocSpec

(* allocateTemps keeps the shape of its state. *)
THEOREM TypeCorrect == AllocSpec => []AllocTypeOK
<1>1. IInv => AllocTypeOK BY DEF IInv
<1> QED BY <1>1, Invariance, PTL

(***************************************************************************)
(* For every function and every register file, allocateTemps never lets    *)
(* two temporaries with overlapping intervals share a place.               *)
(***************************************************************************)
THEOREM AllocationSound == AllocSpec => []NoSharedPlace
<1>1. IInv => NoSharedPlace BY DEF IInv
<1> QED BY <1>1, Invariance, PTL

(***************************************************************************)
(* The result of allocateTemps can be executed: between the instruction    *)
(* that writes a temporary and any that reads it, its place is not         *)
(* written.                                                                *)
(***************************************************************************)
THEOREM ValuesSurvive == AllocSpec => []NoClobber
<1>1. IInv => NoClobber
  <2> SUFFICES ASSUME IInv, Done, NEW t \in Temps, NEW u \in Temps,
                      NEW d \in DOMAIN code, NEW w \in DOMAIN code, NEW r \in DOMAIN code,
                      t \in code[d].def, u \in code[w].def, t \in code[r].use, d < w, w < r
               PROVE  locations[t] # locations[u]
    BY DEF NoClobber
  <2>1. /\ Len(code) \in Nat /\ DOMAIN code = 1 .. Len(code) /\ idx \in 1 .. Len(code) + 1
        /\ starts \in [Temps -> 0 .. Len(code)] /\ ends \in [Temps -> 0 .. Len(code)]
    BY DEF IInv, AllocTypeOK, WellFormed
  <2>2. \A i \in DOMAIN code : i < idx
    BY <2>1 DEF Done, Scanned
  <2>3. starts[t] <= d /\ r <= ends[t] /\ starts[u] <= w /\ w <= ends[u]
    BY <2>1, <2>2 DEF IInv, IntervalInv, Mentioned
  <2>4. t # u
    <3>1. PICK i \in DOMAIN code : DefinedAt(code, t, i)
      BY DEF IInv, AllocTypeOK, WellFormed
    <3> QED BY <3>1, <2>1 DEF DefinedAt
  <2>5. Overlap(t, u)
    BY <2>1, <2>3 DEF Overlap
  <2>6. t \in Assigned /\ u \in Assigned
    BY DEF Done, Assigned
  <2> QED BY <2>4, <2>5, <2>6 DEF IInv, NoSharedPlace
<1> QED BY <1>1, Invariance, PTL

(* No register is lost or handed out twice by allocateTemps. *)
THEOREM RegistersAccounted == AllocSpec => []RegsAccounted
<1>1. IInv => RegsAccounted
  <2> SUFFICES ASSUME IInv PROVE RegsAccounted
    OBVIOUS
  <2>1. \A t \in Range(active) : \E r \in Regs : locations[t] = Reg(r) /\ locations[t].name = r
    BY PlaceFacts DEF IInv, RegisterInv
  <2>2. IsInjective([i \in DOMAIN active |-> locations[active[i]].name])
    <3> SUFFICES ASSUME NEW i \in DOMAIN active, NEW j \in DOMAIN active,
                        locations[active[i]].name = locations[active[j]].name
                 PROVE  i = j
      BY DEF IsInjective
    <3>1. active[i] \in Range(active) /\ active[j] \in Range(active)
      BY DEF Range
    <3>2. locations[active[i]] = locations[active[j]]
      BY <2>1, <3>1
    <3>3. active[i] = active[j]
      BY <3>1, <3>2 DEF IInv, RegisterInv
    <3> QED BY <3>3 DEF IInv, RegisterInv, IsInjective
  <2>3. Range(freeRegs) \subseteq Regs
    BY DEF IInv, AllocTypeOK, Range
  <2>4. Range(freeRegs) \cap HeldRegs = {}
    BY <2>1 DEF HeldRegs, IInv, RegisterInv
  <2>5. Range(freeRegs) \cup HeldRegs = Regs
    <3>1. \A r \in Regs : r \in Range(freeRegs) \cup HeldRegs
      BY PlaceFacts DEF HeldRegs, IInv, RegisterInv
    <3>2. HeldRegs \subseteq Regs
      BY <2>1 DEF HeldRegs
    <3> QED BY <2>3, <3>1, <3>2
  <2> QED BY <2>2, <2>4, <2>5 DEF RegsAccounted, IInv, RegisterInv
<1> QED BY <1>1, Invariance, PTL
-----------------------------------------------------------------------------
(* Spilling.                                                               *)

(***************************************************************************)
(* `active` is sorted by the ends of its intervals, and the intervals are  *)
(* visited in the order of their starts.                                   *)
(***************************************************************************)
SortedBy(s) == \A i, j \in DOMAIN s : i < j => ends[s[i]] <= ends[s[j]]
SortedInv ==
  /\ SortedBy(active)
  /\ \A t \in Assigned, p \in pending : starts[t] <= starts[p]

(* sortActive puts the new interval where it belongs. *)
LEMMA InsertSorted ==
  ASSUME NEW s \in Seq(Temps), NEW t \in Temps, NEW k \in 0 .. Len(s),
         \A u \in Temps : ends[u] \in Int, SortedBy(s), SortsAt(s, k, t)
  PROVE  SortedBy(PlacedAt(s, k, t))
<1> DEFINE n == PlacedAt(s, k, t)
<1>1. Len(s) \in Nat /\ DOMAIN s = 1 .. Len(s) /\ \A i \in 1 .. Len(s) : s[i] \in Temps
  OBVIOUS
<1>2. DOMAIN n = 1 .. Len(s) + 1
  BY DEF PlacedAt
<1>3. ASSUME NEW i \in DOMAIN n
      PROVE  \/ i \in 1 .. k /\ n[i] = s[i]
             \/ i = k + 1 /\ n[i] = t
             \/ i \in k + 2 .. Len(s) + 1 /\ i - 1 \in k + 1 .. Len(s) /\ n[i] = s[i - 1]
  BY <1>1, <1>2 DEF PlacedAt
<1>4. ASSUME NEW i \in DOMAIN n, NEW j \in DOMAIN n, i < j PROVE ends[n[i]] <= ends[n[j]]
  <2>1. CASE i \in 1 .. k /\ n[i] = s[i]
    BY <1>1, <1>2, <1>3, <1>4, <2>1, SMTT(20) DEF SortedBy, SortsAt
  <2>2. CASE i = k + 1 /\ n[i] = t
    BY <1>1, <1>2, <1>3, <1>4, <2>2 DEF SortsAt
  <2>3. CASE i \in k + 2 .. Len(s) + 1 /\ i - 1 \in k + 1 .. Len(s) /\ n[i] = s[i - 1]
    <3>1. j - 1 \in k + 1 .. Len(s) /\ n[j] = s[j - 1] /\ i - 1 < j - 1
      BY <1>1, <1>2, <1>3, <1>4, <2>3
    <3> QED BY <1>1, <2>3, <3>1 DEF SortedBy
  <2> QED BY <1>3, <2>1, <2>2, <2>3
<1> QED BY <1>4 DEF SortedBy

(* Every step of allocateTemps keeps both orders. *)
LEMMA StepSorted == IInv /\ SortedInv /\ [AllocNext]_allocVars => SortedInv'
<1> SUFFICES ASSUME IInv, SortedInv, [AllocNext]_allocVars PROVE SortedInv'
  OBVIOUS
<1>1. /\ active \in Seq(Temps) /\ pending \subseteq Temps
      /\ \A u \in Temps : starts[u] \in Int /\ ends[u] \in Int
  BY DEF IInv, AllocTypeOK, WellFormed
<1>2. Len(active) \in Nat /\ DOMAIN active = 1 .. Len(active)
  BY <1>1
<1>3. CASE ScanInstruction
  <2>1. pending' = Temps /\ Assigned' = {} /\ active' = active
    BY <1>3 DEF ScanInstruction, IInv, IntervalInv, Scanned, Assigned
  <2>2. Range(active) = {}
    BY <2>1, <1>3 DEF ScanInstruction, IInv, RegisterInv, IntervalInv, Scanned, Assigned
  <2>3. DOMAIN active = {}
    BY <2>2 DEF Range
  <2> QED BY <2>1, <2>3 DEF SortedInv, SortedBy
<1>4. ASSUME NEW t \in Temps, Current(t), UNCHANGED <<starts, ends>>, pending' = pending \ {t}
      PROVE  \A u \in Assigned', p \in pending' : starts'[u] <= starts'[p]
  <2>1. \A p \in pending : starts[t] <= starts[p]
    BY <1>4, CurrentFacts
  <2> QED BY <1>1, <1>4, <2>1 DEF SortedInv, Assigned
<1>5. ASSUME NEW t \in Temps, NEW s \in Seq(Temps), SortedBy(s), PushActive(s, t), UNCHANGED ends
      PROVE  SortedBy(active)'
  <2>1. PICK k \in 0 .. Len(s) : SortsAt(s, k, t) /\ active' = PlacedAt(s, k, t)
    BY <1>5 DEF PushActive
  <2>2. SortedBy(PlacedAt(s, k, t))
    BY <1>1, <1>5, <2>1, InsertSorted
  <2> QED BY <1>5, <2>1, <2>2 DEF SortedBy
<1>6. ASSUME NEW t \in Temps, ExpireOld(t) PROVE SortedInv'
  <2>1. active # <<>> /\ active' = Tail(active) /\ UNCHANGED <<starts, ends, pending>>
    BY <1>6 DEF ExpireOld, HasExpired
  <2>2. Len(active) > 0 /\ DOMAIN active' = 1 .. Len(active) - 1
        /\ \A i \in 1 .. Len(active) - 1 : active'[i] = active[i + 1]
    BY <1>1, <2>1
  <2>3. SortedBy(active)'
    BY <1>2, <2>1, <2>2 DEF SortedInv, SortedBy
  <2> QED BY <2>1, <2>3 DEF SortedInv, Assigned
<1>7. ASSUME NEW t \in Temps, AllocateFree(t) PROVE SortedInv'
  BY <1>1, <1>4, <1>5, <1>7 DEF AllocateFree, SortedInv
<1>8. ASSUME NEW t \in Temps, SpillVictim(t) PROVE SortedInv'
  <2>1. Others \in Seq(Temps) /\ DOMAIN Others = 1 .. Len(active) - 1
    BY <1>1, <1>2, <1>8 DEF SpillVictim, VictimOutlives, Others
  <2>2. \A i \in 1 .. Len(active) - 1 : Others[i] = active[i]
    BY DEF Others
  <2>3. SortedBy(Others)
    BY <1>2, <2>1, <2>2 DEF SortedInv, SortedBy
  <2> QED BY <1>4, <1>5, <1>8, <2>1, <2>3 DEF SpillVictim, SortedInv
<1>9. ASSUME NEW t \in Temps, SpillCurrent(t) PROVE SortedInv'
  <2>1. SortedBy(active)'
    BY <1>9 DEF SpillCurrent, SortedInv, SortedBy
  <2> QED BY <1>4, <1>9, <2>1 DEF SpillCurrent, SortedInv
<1>10. CASE UNCHANGED allocVars
  BY <1>10 DEF allocVars, SortedInv, SortedBy, Assigned
<1> QED BY <1>3, <1>6, <1>7, <1>8, <1>9, <1>10 DEF AllocNext, Returned

(***************************************************************************)
(* When an interval finds no free register, every register is held by an   *)
(* active interval that is live where it starts.                           *)
(***************************************************************************)
LEMMA SpillNeedsPressure ==
  ASSUME IInv, SortedInv, NEW t \in Temps, Current(t), ~HasExpired(t), freeRegs = <<>>
  PROVE  /\ Cardinality(LiveAt(starts[t])) > Cardinality(Regs)
         /\ \A u \in Range(active) \cup {t} : starts[t] \in starts[u] .. ends[u]
<1>1. /\ active \in Seq(Temps) /\ pending \subseteq Temps /\ code \in Seq(Instruction)
      /\ \A u \in Temps : starts[u] \in Int /\ ends[u] \in Int
      /\ idx \in 1 .. Len(code) + 1
  BY DEF IInv, AllocTypeOK, WellFormed
<1>2. t \in pending /\ t \notin Range(active) /\ Scanned
  BY CurrentFacts
<1>3. starts[t] <= ends[t]
  <2>1. PICK i \in DOMAIN code : DefinedAt(code, t, i)
    BY DEF IInv, AllocTypeOK, WellFormed
  <2>2. i < idx /\ Mentioned(t, i)
    BY <1>1, <1>2, <2>1 DEF Scanned, DefinedAt, Mentioned
  <2>3. starts[t] \in 1 .. i /\ i <= ends[t]
    BY <2>1, <2>2 DEF IInv, IntervalInv
  <2>4. i \in Int
    BY <1>1
  <2> QED BY <1>1, <2>3, <2>4
<1>4. ASSUME NEW u \in Range(active) PROVE starts[u] <= starts[t] /\ starts[t] <= ends[u]
  <2>1. PICK i \in 1 .. Len(active) : u = active[i]
    BY <1>1 DEF Range
  <2>2. /\ u \in Temps /\ active # <<>> /\ Head(active) = active[1] /\ active[1] \in Temps
        /\ 1 \in DOMAIN active /\ i \in DOMAIN active
    BY <1>1, <2>1
  <2>3. starts[t] <= ends[active[1]]
    BY <1>1, <2>2 DEF HasExpired
  <2>4. ends[active[1]] <= ends[u]
    <3>1. CASE i = 1 BY <1>1, <2>1, <2>2, <3>1
    <3>2. CASE i > 1 BY <2>1, <2>2, <3>2 DEF SortedInv, SortedBy
    <3> QED BY <2>1, <3>1, <3>2
  <2>5. starts[u] <= starts[t]
    BY <1>2 DEF SortedInv, IInv, RegisterInv
  <2> QED BY <1>1, <2>2, <2>3, <2>4, <2>5
<1>5. Range(active) \subseteq Temps
  BY <1>1 DEF Range
<1>6. Range(active) \cup {t} \subseteq LiveAt(starts[t])
  BY <1>1, <1>3, <1>4, <1>5 DEF LiveAt
<1>7. IsFiniteSet(LiveAt(starts[t])) /\ IsFiniteSet(Range(active))
  <2>1. LiveAt(starts[t]) \in SUBSET Temps /\ Range(active) \in SUBSET Temps
    BY <1>5 DEF LiveAt
  <2> QED BY <2>1, TempsAssumption, FS_Subset
<1>8. Cardinality(Range(active) \cup {t}) = Cardinality(Range(active)) + 1
  BY <1>2, <1>7, FS_AddElement
<1>9. Cardinality(Range(active) \cup {t}) <= Cardinality(LiveAt(starts[t]))
  BY <1>6, <1>7, FS_Subset
<1>10. IsFiniteSet(Regs) /\ Cardinality(Regs) <= Cardinality(Range(active))
  <2> DEFINE held == [u \in Range(active) |-> locations[u].name]
  <2>1. \A u \in Range(active) : locations[u].name \in Regs
    BY PlaceFacts DEF IInv, RegisterInv
  <2>2. Range(freeRegs) = {}
    BY DEF Range
  <2>3. \A r \in Regs : \E u \in Range(active) : locations[u].name = r
    BY <2>2, PlaceFacts DEF IInv, RegisterInv
  <2>4. held \in Surjection(Range(active), Regs)
    BY <2>1, <2>3 DEF Surjection
  <2> QED BY <1>7, <2>4, FS_Surjection
<1>11. /\ Cardinality(Range(active)) \in Nat /\ Cardinality(LiveAt(starts[t])) \in Nat
       /\ Cardinality(Regs) \in Nat
  BY <1>7, <1>10, FS_CardinalityType
<1>12. \A u \in Range(active) \cup {t} : starts[t] \in starts[u] .. ends[u]
  BY <1>1, <1>3, <1>4, <1>5
<1> QED BY <1>8, <1>9, <1>10, <1>11, <1>12

(* A step spills only under pressure. *)
LEMMA StepPressure ==
  IInv /\ SortedInv /\ SpillOnlyUnderPressure /\ [AllocNext]_allocVars => SpillOnlyUnderPressure'
<1> SUFFICES ASSUME IInv, SortedInv, SpillOnlyUnderPressure, [AllocNext]_allocVars
             PROVE  SpillOnlyUnderPressure'
  OBVIOUS
<1> DEFINE Pressed(u) == \E i \in starts[u] .. ends[u] : Cardinality(LiveAt(i)) > Cardinality(Regs)
<1>t. pending \subseteq Temps /\ locations \in [Temps -> Place]
  BY DEF IInv, AllocTypeOK
<1>1. ASSUME UNCHANGED <<starts, ends>>,
             \A u \in Assigned' : locations'[u].kind = "spill" => Pressed(u)
      PROVE  SpillOnlyUnderPressure'
  <2>1. \A i : LiveAt(i)' = LiveAt(i)
    BY <1>1 DEF LiveAt
  <2> QED BY <1>1, <2>1 DEF SpillOnlyUnderPressure
<1>2. \A u \in Assigned : locations[u].kind = "spill" => Pressed(u)
  BY DEF SpillOnlyUnderPressure
<1> HIDE DEF Pressed
<1>3. CASE ScanInstruction
  <2>1. Assigned' = {}
    BY <1>3 DEF ScanInstruction, IInv, IntervalInv, Scanned, Assigned
  <2> QED BY <2>1 DEF SpillOnlyUnderPressure
<1>4. ASSUME NEW t \in Temps, ExpireOld(t) PROVE SpillOnlyUnderPressure'
  BY <1>1, <1>2, <1>4 DEF ExpireOld, Assigned
<1>5. ASSUME NEW t \in Temps, AllocateFree(t) PROVE SpillOnlyUnderPressure'
  <2>1. locations'[t].kind = "reg" /\ \A u \in Temps \ {t} : locations'[u] = locations[u]
    BY <1>t, <1>5 DEF AllocateFree, Reg
  <2> QED BY <1>1, <1>2, <1>5, <2>1 DEF AllocateFree, Assigned
<1>6. ASSUME NEW t \in Temps, Current(t), ~HasExpired(t), freeRegs = <<>>
      PROVE  \A u \in Range(active) \cup {t} : Pressed(u)
  BY <1>6, SpillNeedsPressure DEF Pressed
<1>7. ASSUME NEW t \in Temps, SpillVictim(t) PROVE SpillOnlyUnderPressure'
  <2>1. Victim \in Range(active)
    BY <1>7 DEF SpillVictim, VictimOutlives, Victim, Range, IInv, AllocTypeOK
  <2>2. Pressed(t) /\ Pressed(Victim)
    BY <1>6, <1>7, <2>1 DEF SpillVictim
  <2>3. \A u \in Temps \ {t, Victim} : locations'[u] = locations[u]
    BY <1>t, <1>7 DEF SpillVictim
  <2> QED BY <1>1, <1>2, <1>7, <2>2, <2>3 DEF SpillVictim, Assigned
<1>8. ASSUME NEW t \in Temps, SpillCurrent(t) PROVE SpillOnlyUnderPressure'
  <2>1. Pressed(t)
    BY <1>6, <1>8 DEF SpillCurrent
  <2>2. \A u \in Temps \ {t} : locations'[u] = locations[u]
    BY <1>t, <1>8 DEF SpillCurrent
  <2> QED BY <1>1, <1>2, <1>8, <2>1, <2>2 DEF SpillCurrent, Assigned
<1>9. CASE UNCHANGED allocVars
  BY <1>1, <1>2, <1>9 DEF allocVars, Assigned
<1> QED BY <1>3, <1>4, <1>5, <1>7, <1>8, <1>9 DEF AllocNext, Returned

(***************************************************************************)
(* For every function and register file, a temporary goes to memory only   *)
(* where more temporaries are live than there are registers.               *)
(***************************************************************************)
THEOREM SpillsUnderPressure == AllocSpec => []SpillOnlyUnderPressure
<1>1. AllocInit => SortedInv /\ SpillOnlyUnderPressure
  <2> SUFFICES ASSUME AllocInit PROVE SortedInv /\ SpillOnlyUnderPressure
    OBVIOUS
  <2>1. Assigned = {} /\ DOMAIN active = {}
    BY DEF AllocInit, Assigned
  <2> QED BY <2>1 DEF SortedInv, SortedBy, SpillOnlyUnderPressure
<1>2. IInv /\ SortedInv /\ [AllocNext]_allocVars => SortedInv'
  BY StepSorted
<1>3. IInv /\ SortedInv /\ SpillOnlyUnderPressure /\ [AllocNext]_allocVars => SpillOnlyUnderPressure'
  BY StepPressure
<1> QED BY <1>1, <1>2, <1>3, Invariance, PTL DEF AllocSpec

(***************************************************************************)
(* All that the backend relies on of allocateTemps, for every function and *)
(* every register file.                                                    *)
(***************************************************************************)
THEOREM AllocationCorrect == AllocSpec => []AllocationRight
<1>1. AllocTypeOK /\ NoSharedPlace /\ NoClobber /\ RegsAccounted /\ SpillOnlyUnderPressure => AllocationRight
  BY DEF AllocationRight
<1> QED BY <1>1, TypeCorrect, AllocationSound, ValuesSurvive, RegistersAccounted, SpillsUnderPressure, PTL
=============================================================================
