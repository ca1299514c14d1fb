---------------------------- MODULE BackendProofs ----------------------------
(***************************************************************************)
(* The code the native backend emits and the runtime it calls, for every   *)
(* value of their constants.                                               *)
(***************************************************************************)
EXTENDS RuntimeRings, NativeFrame, Emission, ListLemmas, TLAPS

-----------------------------------------------------------------------------
(* The rings of static buffers.                                            *)

Slots(f) == 0 .. RingSize[f] - 1
Pointer(f) == [slot : Slots(f), text : Texts]

RingsTypeOK ==
  /\ DOMAIN buffer = RingFunctions /\ DOMAIN ringNext = RingFunctions
  /\ DOMAIN returned = RingFunctions
  /\ \A f \in RingFunctions :
       /\ buffer[f] \in [Slots(f) -> Texts \cup {NoText}]
       /\ ringNext[f] \in Slots(f)
       /\ returned[f] \in Seq(Pointer(f)) /\ Len(returned[f]) <= RingSize[f]

(* The slot k places behind slot a in a ring of n. *)
Behind(n, a, k) == IF a >= k THEN a - k ELSE a - k + n

(***************************************************************************)
(* The i-th of the remembered pointers was returned Len - i + 1 calls ago, *)
(* and its buffer lies as many places behind the next one.                 *)
(***************************************************************************)
SlotsInOrder ==
  \A f \in RingFunctions : \A i \in 1 .. Len(returned[f]) :
    returned[f][i].slot = Behind(RingSize[f], ringNext[f], Len(returned[f]) - i + 1)

RingsInv == RingsTypeOK /\ SlotsInOrder /\ RecentStringsIntact

(* The index `next` wraps at the end of the ring. *)
LEMMA NextWraps ==
  ASSUME NEW f \in RingFunctions, NEW i \in Slots(f)
  PROVE  /\ NextBuffer(f, i) \in Slots(f)
         /\ NextBuffer(f, i) = IF i + 1 = RingSize[f] THEN 0 ELSE i + 1
<1>1. PICK n \in Nat \ {0} : n = RingSize[f]
  BY RuntimeRingsAssumption
<1>2. CASE i + 1 < n
  <2>1. (i + 1) % n = i + 1
    BY <1>1, <1>2 DEF Slots
  <2>2. QED
    BY <1>1, <1>2, <2>1 DEF NextBuffer, Slots
<1>3. CASE i + 1 = n
  <2>1. n % n = 0
    <3>1. n = n * 1 + 0
      OBVIOUS
    <3>2. QED
      BY <3>1
  <2>2. QED
    BY <1>1, <1>3, <2>1 DEF NextBuffer, Slots
<1>4. QED
  BY <1>1, <1>2, <1>3 DEF Slots

(* What is remembered after one more call. *)
OneMore(s, x, n, t) ==
  /\ Len(t) \in 1 .. n
  /\ t[Len(t)] = x
  /\ Len(s) < n => Len(t) = Len(s) + 1 /\ \A i \in 1 .. Len(t) - 1 : t[i] = s[i]
  /\ Len(s) = n => Len(t) = n /\ \A i \in 1 .. Len(t) - 1 : t[i] = s[i + 1]

LEMMA LastOfAppend ==
  ASSUME NEW S, NEW s \in Seq(S), NEW x \in S, NEW n \in Nat \ {0}, Len(s) <= n,
         NEW t, t = LastOf(Append(s, x), n)
  PROVE  t \in Seq(S) /\ OneMore(s, x, n, t)
<1> DEFINE a == Append(s, x)
<1>1. /\ a \in Seq(S) /\ Len(a) = Len(s) + 1 /\ a[Len(s) + 1] = x
      /\ \A i \in 1 .. Len(s) : a[i] = s[i]
  OBVIOUS
<1>2. PICK m \in Nat : m = Len(s) /\ m <= n
  OBVIOUS
<1> HIDE DEF a
<1>3. CASE m < n
  <2>1. t = a
    BY <1>1, <1>2, <1>3 DEF LastOf, a
  <2>2. QED
    BY <1>1, <1>2, <1>3, <2>1 DEF OneMore
<1>4. CASE m = n
  <2>1. t = SubSeq(a, n + 1 - n + 1, n + 1)
    BY <1>1, <1>2, <1>4 DEF LastOf, a
  <2>2. t = SubSeq(a, 2, n + 1)
    BY <2>1
  <2>3. /\ t \in Seq(S)
        /\ Len(t) = IF 2 <= n + 1 THEN n + 1 - 2 + 1 ELSE 0
        /\ \A i \in 1 .. n + 1 - 2 + 1 : t[i] = a[2 + i - 1]
    BY <1>1, <1>2, <1>4, <2>2, SubSeqProperties
  <2>4. Len(t) = n /\ \A i \in 1 .. n : t[i] = a[i + 1]
    <3>1. PICK k : k = Len(t)
      OBVIOUS
    <3>2. k = IF 2 <= n + 1 THEN n + 1 - 2 + 1 ELSE 0
      BY <2>3, <3>1, Zenon
    <3>3. k = n
      BY <3>2
    <3>4. ASSUME NEW i \in 1 .. n PROVE t[i] = a[i + 1]
      <4>1. i \in 1 .. n + 1 - 2 + 1 /\ 2 + i - 1 = i + 1
        OBVIOUS
      <4>2. QED
        BY <2>3, <4>1, Zenon
    <3>5. QED
      BY <3>1, <3>3, <3>4
  <2>5. QED
    BY <1>1, <1>2, <1>4, <2>3, <2>4 DEF OneMore
<1>5. QED
  BY <1>2, <1>3, <1>4

LEMMA RingsInitInv == RingsInit => RingsInv
<1> SUFFICES ASSUME RingsInit PROVE RingsInv
  OBVIOUS
<1>1. \A f \in RingFunctions : RingSize[f] \in Nat \ {0}
  BY RuntimeRingsAssumption
<1>2. \A f \in RingFunctions : returned[f] = <<>> /\ Len(returned[f]) = 0
  BY DEF RingsInit
<1>3. RingsTypeOK
  BY <1>1, <1>2 DEF RingsInit, RingsTypeOK, Slots
<1>4. SlotsInOrder /\ RecentStringsIntact
  BY <1>2 DEF SlotsInOrder, RecentStringsIntact
<1>5. QED
  BY <1>3, <1>4 DEF RingsInv

(* A call of one function leaves the rings of the others alone, and of its
   own takes the buffer that has been out longest. *)
LEMMA RingsCallInv ==
  ASSUME RingsInv, NEW f \in RingFunctions, NEW text \in Texts, RuntimeCall(f, text)
  PROVE  RingsInv'
<1>0. PICK n \in Nat \ {0} : n = RingSize[f]
  BY RuntimeRingsAssumption
<1> DEFINE next == ringNext[f]
           s == returned[f]
           x == [slot |-> next, text |-> text]
           t == returned'[f]
<1>1. /\ n \in Nat \ {0} /\ next \in 0 .. n - 1 /\ x \in Pointer(f)
      /\ s \in Seq(Pointer(f)) /\ Len(s) \in Nat /\ Len(s) <= n
      /\ x.slot = next /\ x.text = text
  <2>1. next \in Slots(f) /\ s \in Seq(Pointer(f)) /\ Len(s) <= n
    BY <1>0 DEF RingsInv, RingsTypeOK
  <2>2. x \in Pointer(f) /\ x.slot = next /\ x.text = text
    BY <2>1 DEF Pointer
  <2>3. QED
    BY <1>0, <2>1, <2>2 DEF Slots
<1>2. /\ buffer'[f] = [buffer[f] EXCEPT ![next] = text]
      /\ ringNext'[f] = NextBuffer(f, next)
      /\ t = LastOf(Append(s, x), n)
  BY <1>0 DEF RuntimeCall, RingsInv, RingsTypeOK
<1>3. /\ DOMAIN buffer' = RingFunctions /\ DOMAIN ringNext' = RingFunctions
      /\ DOMAIN returned' = RingFunctions
      /\ \A g \in RingFunctions \ {f} : /\ buffer'[g] = buffer[g]
                                        /\ ringNext'[g] = ringNext[g]
                                        /\ returned'[g] = returned[g]
  BY DEF RuntimeCall, RingsInv, RingsTypeOK
<1>4. /\ ringNext'[f] \in 0 .. n - 1
      /\ ringNext'[f] = IF next + 1 = n THEN 0 ELSE next + 1
  BY <1>0, <1>1, <1>2, NextWraps DEF Slots
<1> HIDE DEF next, s, x, t
<1>5. t \in Seq(Pointer(f)) /\ OneMore(s, x, n, t)
  BY <1>1, <1>2, LastOfAppend, Zenon
<1>6. PICK len \in 1 .. n : len = Len(t)
  BY <1>5 DEF OneMore
<1>7. ASSUME NEW i \in 1 .. len - 1
      PROVE  \E j \in 1 .. Len(s) :
               t[i] = s[j] /\ Len(s) - j + 1 = len - i /\ len - i \in 1 .. n - 1
  <2>1. CASE Len(s) < n
    <3>1. i \in 1 .. Len(s) /\ Len(s) - i + 1 = len - i /\ len - i \in 1 .. n - 1 /\ t[i] = s[i]
      BY <1>1, <1>5, <1>6, <2>1 DEF OneMore
    <3>2. QED
      BY <3>1
  <2>2. CASE Len(s) = n
    <3>1. /\ i + 1 \in 1 .. Len(s) /\ Len(s) - (i + 1) + 1 = len - i
          /\ len - i \in 1 .. n - 1 /\ t[i] = s[i + 1]
      BY <1>1, <1>5, <1>6, <2>2 DEF OneMore
    <3>2. QED
      BY <3>1
  <2>3. QED
    BY <1>1, <2>1, <2>2
<1>8. RingsTypeOK'
  <2>1. buffer'[f] \in [Slots(f) -> Texts \cup {NoText}]
    BY <1>0, <1>1, <1>2 DEF RingsInv, RingsTypeOK, Slots, next
  <2>2. /\ ringNext'[f] \in Slots(f)
        /\ returned'[f] \in Seq(Pointer(f)) /\ Len(returned'[f]) <= RingSize[f]
    BY <1>0, <1>1, <1>4, <1>5 DEF Slots, t, OneMore
  <2>3. QED
    BY <1>3, <2>1, <2>2 DEF RingsInv, RingsTypeOK
<1>9. ASSUME NEW i \in 1 .. len
      PROVE  /\ t[i].slot = Behind(n, ringNext'[f], len - i + 1)
             /\ buffer'[f][t[i].slot] = t[i].text
  <2>1. CASE i = len
    <3>1. t[i] = x /\ len - i + 1 = 1
      BY <1>5, <1>6, <2>1 DEF OneMore
    <3>2. Behind(n, ringNext'[f], 1) = next
      BY <1>1, <1>4 DEF Behind
    <3>3. buffer'[f][next] = text
      BY <1>0, <1>1, <1>2 DEF RingsInv, RingsTypeOK, Slots
    <3>4. QED
      BY <1>1, <3>1, <3>2, <3>3
  <2>2. CASE i # len
    <3>0. i \in 1 .. len - 1
      BY <2>2
    <3>1. PICK j \in 1 .. Len(s) :
            t[i] = s[j] /\ Len(s) - j + 1 = len - i /\ len - i \in 1 .. n - 1
      BY <1>7, <3>0, Zenon
    <3>2. PICK k \in 1 .. n - 1 : k = len - i /\ len - i + 1 = k + 1
      BY <1>6, <3>1
    <3>3. s[j].slot = Behind(n, next, k)
      BY <1>0, <3>1, <3>2 DEF RingsInv, SlotsInOrder, s, next
    <3>4. /\ Behind(n, next, k) \in 0 .. n - 1 /\ Behind(n, next, k) # next
          /\ Behind(n, ringNext'[f], k + 1) = Behind(n, next, k)
      <4>1. PICK a \in 0 .. n - 1 : a = next
        BY <1>1
      <4>2. PICK b \in 0 .. n - 1 : b = ringNext'[f] /\ b = IF a + 1 = n THEN 0 ELSE a + 1
        BY <1>4, <4>1
      <4>3. \A l \in 1 .. n - 1 :
              /\ Behind(n, a, l) \in 0 .. n - 1 /\ Behind(n, a, l) # a
              /\ Behind(n, b, l + 1) = Behind(n, a, l)
        BY <4>2 DEF Behind
      <4>4. QED
        BY <4>1, <4>2, <4>3, Zenon
    <3>5. buffer[f][s[j].slot] = s[j].text
      BY <1>1, <3>1 DEF RingsInv, RecentStringsIntact, s
    <3>6. buffer'[f][s[j].slot] = buffer[f][s[j].slot]
      BY <1>0, <1>1, <1>2, <3>3, <3>4 DEF RingsInv, RingsTypeOK, Slots
    <3>7. QED
      BY <3>1, <3>2, <3>3, <3>4, <3>5, <3>6
  <2>3. QED
    BY <2>1, <2>2
<1>10. SlotsInOrder'
  <2>1. ASSUME NEW g \in RingFunctions \ {f}, NEW i \in 1 .. Len(returned'[g])
        PROVE  returned'[g][i].slot
                 = Behind(RingSize[g], ringNext'[g], Len(returned'[g]) - i + 1)
    BY <1>3 DEF RingsInv, SlotsInOrder
  <2>2. ASSUME NEW i \in 1 .. Len(returned'[f])
        PROVE  returned'[f][i].slot
                 = Behind(RingSize[f], ringNext'[f], Len(returned'[f]) - i + 1)
    BY <1>0, <1>6, <1>9 DEF t
  <2>3. QED
    BY <2>1, <2>2 DEF SlotsInOrder
<1>11. RecentStringsIntact'
  <2>1. DOMAIN returned'[f] = 1 .. len
    BY <1>5, <1>6 DEF t
  <2>2. QED
    BY <1>3, <1>9, <2>1 DEF RingsInv, RecentStringsIntact, t
<1>12. QED
  BY <1>8, <1>10, <1>11 DEF RingsInv

(***************************************************************************)
(* ptjs_string_char_at and the ptjs_identificar functions: a string they   *)
(* returned stays as it was returned for RingSize - 1 more calls of the    *)
(* same function and any number of calls of the others, whatever the sizes *)
(* of the rings and the texts.                                             *)
(***************************************************************************)
THEOREM RingsIntact == RingsSpec => []RecentStringsIntact
<1>1. RingsInv /\ [RingsNext]_ringsVars => RingsInv'
  <2>1. ASSUME RingsInv, UNCHANGED ringsVars PROVE RingsInv'
    BY <2>1 DEF ringsVars, RingsInv, RingsTypeOK, SlotsInOrder, RecentStringsIntact
  <2>2. QED
    BY <2>1, RingsCallInv DEF RingsNext
<1>2. RingsInv => RecentStringsIntact
  BY DEF RingsInv
<1>3. QED
  BY <1>1, <1>2, RingsInitInv, PTL DEF RingsSpec

-----------------------------------------------------------------------------
(* Stack frames.                                                           *)

WordKinds == {"dead", "return", "rbp", "local", "spill", "temp"} \cup CalleeSaved
StackWords == [at : Nat, what : WordKinds, n : Int]
Activation == [fn : Functions, rbp : Int, callerRbp : Int, entry : [CalleeSaved -> StackWords],
               locals : SUBSET Nat, spills : SUBSET Nat]

MachineTypeOK ==
  /\ mem \in [0 .. StackTop -> StackWords]
  /\ rsp \in 0 .. StackTop /\ rbp \in 0 .. StackTop
  /\ regs \in [CalleeSaved -> StackWords]
  /\ frames \in Seq(Activation) /\ Depth <= MaxDepth

(* The lowest word of an activation's frame. *)
Bottom(frame) == frame.rbp - Saved(frame.fn) - FrameWords(frame.fn)

(***************************************************************************)
(* The frames follow each other down the stack without a gap and without   *)
(* an overlap; rsp and rbp are those of the innermost one.                 *)
(***************************************************************************)
FramesInLine ==
  /\ Depth = 0 => rsp = StackTop /\ rbp = StackTop
  /\ Depth > 0 => rsp = Bottom(Top) /\ rbp = Top.rbp
  /\ \A d \in 1 .. Depth :
       /\ Bottom(frames[d]) >= 0 /\ frames[d].rbp + 2 <= StackTop
       /\ frames[d].callerRbp = IF d = 1 THEN StackTop ELSE frames[d - 1].rbp
       /\ frames[d].rbp + 2 = IF d = 1 THEN StackTop ELSE Bottom(frames[d - 1])
       /\ frames[d].locals \subseteq 0 .. Locals[frames[d].fn] - 1
       /\ frames[d].spills \subseteq 0 .. Spills[frames[d].fn] - 1
  /\ \A d, e \in 1 .. Depth : d < e => frames[e].rbp + 2 <= Bottom(frames[d])

FramesInv == MachineTypeOK /\ FramesInLine /\ AlignedAtCalls /\ FramesIsolated

(* What FramesIsolated says of one activation, of a stack m. *)
Intact(m, d, frame) ==
  /\ m[frame.rbp + 1] = StackWord(d, "return", 0)
  /\ m[frame.rbp] = StackWord(d, "rbp", frame.callerRbp)
  /\ \A slot \in frame.locals :
       m[frame.rbp - LocalOffset(slot)] = StackWord(d, "local", LocalOffset(slot))
  /\ \A slot \in frame.spills :
       m[frame.rbp - SpillOffset(frame.fn, slot)] = StackWord(d, "spill", slot)

(* frameFor: the frame has room for all slots, and with the saved registers
   it is a multiple of two words. *)
LEMMA FrameSizes ==
  ASSUME NEW f \in Functions
  PROVE  /\ Params[f] \in Nat /\ Locals[f] \in Nat /\ Spills[f] \in Nat
         /\ Params[f] <= Locals[f]
         /\ Saved(f) \in Nat /\ DOMAIN UsedRegs[f] = 1 .. Saved(f)
         /\ \A i \in 1 .. Saved(f) : UsedRegs[f][i] \in CalleeSaved
         /\ FrameWords(f) \in Nat /\ FrameWords(f) >= Locals[f] + Spills[f]
         /\ (Saved(f) + FrameWords(f)) % 2 = 0
<1>1. /\ Params[f] \in Nat /\ Locals[f] \in Nat /\ Spills[f] \in Nat /\ Params[f] <= Locals[f]
  BY FrameAssumption
<1>2. /\ Saved(f) \in Nat /\ DOMAIN UsedRegs[f] = 1 .. Saved(f)
      /\ \A i \in 1 .. Saved(f) : UsedRegs[f][i] \in CalleeSaved
  <2>1. UsedRegs[f] \in Seq(CalleeSaved)
    BY FrameAssumption
  <2>2. QED
    BY <2>1 DEF Saved
<1>3. PICK s \in Nat, r \in Nat : s = Saved(f) /\ r = RawWords(f) /\ r = Locals[f] + Spills[f]
  BY <1>1, <1>2 DEF RawWords
<1>4. PICK w \in Nat : w = FrameWords(f) /\ w = IF r % 2 = s % 2 THEN r ELSE r + 1
  BY <1>3 DEF FrameWords
<1>5. (s + w) % 2 = 0
  BY <1>4
<1>6. QED
  BY <1>1, <1>2, <1>3, <1>4, <1>5, SMTT(30)

LEMMA EvenSums ==
  ASSUME NEW a \in Int, NEW b \in Int, b % 2 = 0
  PROVE  (a % 2 = 0) = ((a + b) % 2 = 0)
OBVIOUS

LEMMA BottomBelow ==
  ASSUME NEW frame, frame.fn \in Functions, frame.rbp \in Int
  PROVE  /\ Bottom(frame) \in Int /\ Bottom(frame) <= frame.rbp
         /\ Bottom(frame) + Locals[frame.fn] + Spills[frame.fn] <= frame.rbp
<1>1. PICK f \in Functions : f = frame.fn
  OBVIOUS
<1>2. PICK b \in Int : b = frame.rbp
  OBVIOUS
<1>3. PICK s \in Nat, w \in Nat, l \in Nat, k \in Nat :
        s = Saved(f) /\ w = FrameWords(f) /\ l = Locals[f] /\ k = Spills[f] /\ w >= l + k
  BY FrameSizes
<1>4. Bottom(frame) = b - s - w
  BY <1>1, <1>2, <1>3 DEF Bottom
<1>5. QED
  BY <1>1, <1>2, <1>3, <1>4

(* What the invariant says of one activation. *)
LEMMA FrameBounds ==
  ASSUME FramesInv, NEW d \in 1 .. Depth
  PROVE  /\ Depth \in Nat /\ frames[d] \in Activation
         /\ frames[d].fn \in Functions /\ frames[d].rbp \in Int /\ frames[d].callerRbp \in Int
         /\ frames[d].locals \subseteq 0 .. Locals[frames[d].fn] - 1
         /\ frames[d].spills \subseteq 0 .. Spills[frames[d].fn] - 1
         /\ Bottom(frames[d]) \in Int /\ rsp <= Bottom(frames[d])
         /\ Bottom(frames[d]) + Locals[frames[d].fn] + Spills[frames[d].fn] <= frames[d].rbp
         /\ frames[d].rbp + 2 <= StackTop
         /\ d < Depth => Top.rbp + 2 <= Bottom(frames[d])
         /\ Intact(mem, d, frames[d])
<1>1. Depth \in Nat /\ frames[d] \in Activation /\ Top \in Activation
  BY DEF FramesInv, MachineTypeOK, Depth, Top
<1>2. /\ frames[d].fn \in Functions /\ frames[d].rbp \in Int /\ frames[d].callerRbp \in Int
      /\ Top.fn \in Functions /\ Top.rbp \in Int
  BY <1>1 DEF Activation
<1>3. /\ Bottom(frames[d]) \in Int
      /\ Bottom(frames[d]) + Locals[frames[d].fn] + Spills[frames[d].fn] <= frames[d].rbp
  BY <1>2, BottomBelow
<1>4. rsp = Bottom(Top) /\ Bottom(Top) \in Int /\ Bottom(Top) <= Top.rbp
  <2>1. Depth > 0
    BY <1>1
  <2>2. QED
    BY <1>2, <2>1, BottomBelow DEF FramesInv, FramesInLine
<1>5. d < Depth => Top.rbp + 2 <= Bottom(frames[d])
  BY <1>1 DEF FramesInv, FramesInLine, Top
<1>6. rsp <= Bottom(frames[d])
  <2>1. CASE d = Depth
    BY <1>3, <1>4, <2>1 DEF Top
  <2>2. CASE d < Depth
    BY <1>2, <1>3, <1>4, <1>5, <2>2
  <2>3. QED
    BY <1>1, <2>1, <2>2
<1>7. Intact(mem, d, frames[d])
  BY DEF FramesInv, FramesIsolated, Intact
<1>8. QED
  BY <1>1, <1>2, <1>3, <1>5, <1>6, <1>7 DEF FramesInv, FramesInLine

(* An activation is as it was when no word of its frame changed. *)
LEMMA IntactElsewhere ==
  ASSUME FramesInv, NEW d \in 1 .. Depth, NEW m,
         \A a \in Bottom(frames[d]) .. frames[d].rbp + 1 : m[a] = mem[a]
  PROVE  Intact(m, d, frames[d])
<1> DEFINE frame == frames[d]
<1>1. /\ frame.fn \in Functions /\ frame.rbp \in Int /\ Bottom(frame) \in Int
      /\ frame.locals \subseteq 0 .. Locals[frame.fn] - 1
      /\ frame.spills \subseteq 0 .. Spills[frame.fn] - 1
      /\ Bottom(frame) + Locals[frame.fn] + Spills[frame.fn] <= frame.rbp
      /\ Intact(mem, d, frame)
  BY FrameBounds
<1>2. Locals[frame.fn] \in Nat /\ Spills[frame.fn] \in Nat
  BY <1>1, FrameSizes
<1>3. frame.rbp + 1 \in Bottom(frame) .. frame.rbp + 1 /\ frame.rbp \in Bottom(frame) .. frame.rbp + 1
  BY <1>1, <1>2
<1>4. \A slot \in frame.locals : frame.rbp - LocalOffset(slot) \in Bottom(frame) .. frame.rbp + 1
  BY <1>1, <1>2 DEF LocalOffset
<1>5. \A slot \in frame.spills :
        frame.rbp - SpillOffset(frame.fn, slot) \in Bottom(frame) .. frame.rbp + 1
  BY <1>1, <1>2 DEF SpillOffset
<1> HIDE DEF frame
<1>6. \A a \in Bottom(frame) .. frame.rbp + 1 : m[a] = mem[a]
  BY DEF frame
<1>7. Intact(m, d, frame)
  BY <1>1, <1>3, <1>4, <1>5, <1>6 DEF Intact
<1>8. QED
  BY <1>7 DEF frame

LEMMA FramesInitInv == FrameInit => FramesInv
<1> SUFFICES ASSUME FrameInit PROVE FramesInv
  OBVIOUS
<1>1. Depth = 0 /\ frames \in Seq(Activation)
  BY DEF FrameInit, Depth
<1>2. StackTop \in Nat /\ MaxDepth \in Nat /\ StackTop % 2 = 0
  BY FrameAssumption
<1>3. mem \in [0 .. StackTop -> StackWords]
  BY <1>2 DEF FrameInit, Dead, StackWord, StackWords, WordKinds
<1>4. regs \in [CalleeSaved -> StackWords]
  BY DEF FrameInit, StackWord, StackWords, WordKinds
<1>5. MachineTypeOK
  BY <1>1, <1>2, <1>3, <1>4 DEF FrameInit, MachineTypeOK
<1>6. FramesInLine /\ AlignedAtCalls /\ FramesIsolated
  BY <1>1, <1>2 DEF FrameInit, FramesInLine, AlignedAtCalls, FramesIsolated
<1>7. QED
  BY <1>5, <1>6 DEF FramesInv

(* The activations after a change of the innermost one alone. *)
OnlyTop(new, frame) ==
  /\ new \in Seq(Activation) /\ Len(new) = Len(frames)
  /\ \A d \in 1 .. Depth - 1 : new[d] = frames[d]
  /\ new[Depth] = frame

(***************************************************************************)
(* A store into a slot of the running function: its frame stays where it   *)
(* is, and no other frame is touched.                                      *)
(***************************************************************************)
LEMMA StoreKeepsInv ==
  ASSUME FramesInv, Depth > 0, UNCHANGED <<rsp, rbp, regs>>,
         NEW a \in Bottom(Top) .. Top.rbp - 1, NEW w \in StackWords,
         mem' = [mem EXCEPT ![a] = w],
         NEW frame, OnlyTop(frames', frame),
         frame.fn = Top.fn, frame.rbp = Top.rbp, frame.callerRbp = Top.callerRbp,
         frame.locals \subseteq 0 .. Locals[frame.fn] - 1,
         frame.spills \subseteq 0 .. Spills[frame.fn] - 1,
         Intact(mem', Depth, frame)
  PROVE  FramesInv'
<1>1. PICK n \in Nat \ {0} : n = Depth /\ n = Depth' /\ n <= MaxDepth
  BY DEF FramesInv, MachineTypeOK, OnlyTop, Depth
<1> /\ frames' \in Seq(Activation) /\ frames'[n] = frame
    /\ \A d \in 1 .. n - 1 : frames'[d] = frames[d]
  BY <1>1 DEF OnlyTop
<1>2. /\ Top.rbp \in Int /\ Bottom(Top) \in Int /\ rsp = Bottom(Top) /\ rbp = Top.rbp
      /\ Top.rbp + 2 <= StackTop /\ rsp \in 0 .. StackTop
  <2>1. n \in 1 .. Depth
    BY <1>1
  <2>2. frames[n].rbp \in Int /\ Bottom(frames[n]) \in Int /\ frames[n].rbp + 2 <= StackTop
    BY <2>1, FrameBounds
  <2>3. QED
    BY <1>1, <2>2 DEF Top, FramesInv, FramesInLine, MachineTypeOK
<1>3. /\ \A d \in 1 .. n : /\ frames'[d].fn = frames[d].fn /\ frames'[d].rbp = frames[d].rbp
                             /\ frames'[d].callerRbp = frames[d].callerRbp
                             /\ Bottom(frames'[d]) = Bottom(frames[d])
  <2>1. ASSUME NEW d \in 1 .. n
        PROVE  /\ frames'[d].fn = frames[d].fn /\ frames'[d].rbp = frames[d].rbp
               /\ frames'[d].callerRbp = frames[d].callerRbp
    <3>1. CASE d = n
      BY <1>1, <3>1 DEF Top
    <3>2. CASE d # n
      <4>1. d \in 1 .. n - 1
        BY <3>2
      <4>2. QED
        BY <4>1
    <3>3. QED
      BY <3>1, <3>2
  <2>2. QED
    BY <2>1 DEF Bottom
<1>4. MachineTypeOK'
  BY <1>1, <1>2 DEF FramesInv, MachineTypeOK
<1>5. FramesInLine'
  <2>1. Top'.rbp = Top.rbp /\ Bottom(Top)' = Bottom(Top)
    BY <1>1, <1>3 DEF Top, Bottom
  <2>2. (Depth > 0 => rsp = Bottom(Top) /\ rbp = Top.rbp)'
    BY <1>2, <2>1
  <2>3. ASSUME NEW d \in 1 .. n
        PROVE  /\ frames'[d].locals \subseteq 0 .. Locals[frames'[d].fn] - 1
               /\ frames'[d].spills \subseteq 0 .. Spills[frames'[d].fn] - 1
    <3>1. CASE d = n
      BY <1>1, <3>1
    <3>2. CASE d # n
      <4>1. d \in 1 .. n - 1
        BY <3>2
      <4>2. frames'[d] = frames[d] /\ d \in 1 .. Depth
        BY <1>1, <4>1
      <4>3. QED
        BY <4>2 DEF FramesInv, FramesInLine
    <3>3. QED
      BY <3>1, <3>2
  <2>4. ASSUME NEW d \in 1 .. n
        PROVE  /\ Bottom(frames'[d]) >= 0 /\ frames'[d].rbp + 2 <= StackTop
               /\ frames'[d].callerRbp = IF d = 1 THEN StackTop ELSE frames'[d - 1].rbp
               /\ frames'[d].rbp + 2 = IF d = 1 THEN StackTop ELSE Bottom(frames'[d - 1])
    <3>1. d = 1 \/ d - 1 \in 1 .. n
      OBVIOUS
    <3>2. QED
      BY <1>1, <1>3, <3>1 DEF FramesInv, FramesInLine
  <2>5. \A d, e \in 1 .. n : d < e => frames'[e].rbp + 2 <= Bottom(frames'[d])
    BY <1>1, <1>3 DEF FramesInv, FramesInLine
  <2>6. QED
    BY <1>1, <2>2, <2>3, <2>4, <2>5 DEF FramesInLine
<1>6. FramesIsolated'
  <2>1. ASSUME NEW d \in 1 .. n PROVE Intact(mem', d, frames'[d])
    <3>1. CASE d = n
      BY <1>1, <3>1
    <3>2. CASE d # n
      <4>0. d \in 1 .. n - 1 /\ d < n
        BY <3>2
      <4>1. d \in 1 .. Depth /\ d < Depth /\ frames'[d] = frames[d]
        BY <1>1, <4>0
      <4>2. Top.rbp + 2 <= Bottom(frames[d]) /\ Bottom(frames[d]) \in Int /\ frames[d].rbp \in Int
        BY <4>1, FrameBounds
      <4>3. \A c \in Bottom(frames[d]) .. frames[d].rbp + 1 : c # a
        BY <1>2, <4>2
      <4>4. \A c \in Bottom(frames[d]) .. frames[d].rbp + 1 : mem'[c] = mem[c]
        <5>1. frames[d].rbp + 2 <= StackTop /\ 0 <= Bottom(frames[d]) /\ StackTop \in Nat
          BY <4>1, <4>2, FrameBounds, FrameAssumption DEF FramesInv, FramesInLine
        <5>2. \A c \in Bottom(frames[d]) .. frames[d].rbp + 1 : c \in 0 .. StackTop
          BY <4>2, <5>1
        <5>3. QED
          BY <4>3, <5>2 DEF FramesInv, MachineTypeOK
      <4>5. QED
        BY <4>1, <4>4, IntactElsewhere
    <3>3. QED
      BY <3>1, <3>2
  <2>2. QED
    BY <1>1, <2>1 DEF FramesIsolated, Intact
<1>7. AlignedAtCalls'
  BY DEF FramesInv, AlignedAtCalls
<1>8. QED
  BY <1>4, <1>5, <1>6, <1>7 DEF FramesInv

LEMMA TopReplaced ==
  ASSUME FramesInv, Depth > 0, NEW v \in Activation, frames' = [frames EXCEPT ![Depth] = v]
  PROVE  OnlyTop(frames', v)
<1>1. PICK n \in Nat \ {0} : n = Depth /\ n = Len(frames)
  BY DEF FramesInv, MachineTypeOK, Depth
<1>2. frames' = [frames EXCEPT ![n] = v]
  BY <1>1
<1>3. /\ frames' \in Seq(Activation) /\ Len(frames') = n
      /\ \A d \in 1 .. n - 1 : frames'[d] = frames[d]
      /\ frames'[n] = v
  BY <1>1, <1>2 DEF FramesInv, MachineTypeOK
<1>4. QED
  BY <1>1, <1>3, Zenon DEF OnlyTop

(* The innermost activation in numbers. *)
TopIs(n, f, b, lo, l, k) ==
  /\ n = Depth /\ Top = frames[n] /\ Top \in Activation /\ f = Top.fn
  /\ b = Top.rbp /\ b = rbp /\ lo = Bottom(Top) /\ lo = rsp
  /\ l = Locals[f] /\ k = Spills[f] /\ lo + l + k <= b /\ b + 2 <= StackTop
  /\ Top.locals \subseteq 0 .. l - 1 /\ Top.spills \subseteq 0 .. k - 1
  /\ Intact(mem, n, Top)

LEMMA TopNumbers ==
  ASSUME FramesInv, Depth > 0
  PROVE  \E n \in Nat \ {0}, f \in Functions, b \in Int, lo \in Nat, l \in Nat, k \in Nat :
           TopIs(n, f, b, lo, l, k)
<1>1. PICK n \in Nat \ {0} : n = Depth /\ n \in 1 .. Depth
  BY DEF FramesInv, MachineTypeOK, Depth
<1>2. Top = frames[n]
  BY <1>1 DEF Top
<1>3. /\ Top \in Activation /\ Top.fn \in Functions /\ Top.rbp \in Int /\ Bottom(Top) \in Int
      /\ Top.locals \subseteq 0 .. Locals[Top.fn] - 1 /\ Top.spills \subseteq 0 .. Spills[Top.fn] - 1
      /\ Bottom(Top) + Locals[Top.fn] + Spills[Top.fn] <= Top.rbp
      /\ Top.rbp + 2 <= StackTop /\ Intact(mem, n, Top)
  BY <1>1, <1>2, FrameBounds
<1>4. rsp = Bottom(Top) /\ rbp = Top.rbp /\ Bottom(Top) \in Nat
  BY <1>1, <1>3 DEF FramesInv, FramesInLine, MachineTypeOK
<1>5. Locals[Top.fn] \in Nat /\ Spills[Top.fn] \in Nat
  BY <1>3, FrameSizes
<1>6. TopIs(n, Top.fn, Top.rbp, Bottom(Top), Locals[Top.fn], Spills[Top.fn])
  BY <1>1, <1>2, <1>3, <1>4 DEF TopIs
<1>7. QED
  BY <1>3, <1>4, <1>5, <1>6

(* Intact with the numbers filled in. *)
IntactAt(m, d, frame, b, l) ==
  /\ m[b + 1] = StackWord(d, "return", 0)
  /\ m[b] = StackWord(d, "rbp", frame.callerRbp)
  /\ \A slot \in frame.locals : m[b - (slot + 1)] = StackWord(d, "local", slot + 1)
  /\ \A slot \in frame.spills : m[b - (l + slot + 1)] = StackWord(d, "spill", slot)

LEMMA IntactNumbers ==
  ASSUME NEW m, NEW d, NEW frame, NEW b, NEW l, b = frame.rbp, l = Locals[frame.fn]
  PROVE  Intact(m, d, frame) = IntactAt(m, d, frame, b, l)
BY DEF Intact, IntactAt, LocalOffset, SpillOffset

LEMMA StoreLocalInv ==
  ASSUME FramesInv, NEW slot \in Nat, StoreLocal(slot)
  PROVE  FramesInv'
<1> DEFINE frame == [Top EXCEPT !.locals = @ \cup {slot}]
           word == StackWord(Depth, "local", LocalOffset(slot))
<1>0. Depth > 0 /\ slot < Locals[Top.fn]
  BY DEF StoreLocal
<1>1. PICK n \in Nat \ {0}, f \in Functions, b \in Int, lo \in Nat, l \in Nat, k \in Nat :
        TopIs(n, f, b, lo, l, k)
  BY <1>0, TopNumbers
<1>2. PICK a \in lo .. b - 1 : /\ a = b - slot - 1 /\ a \in 0 .. StackTop
                              /\ a = rbp - LocalOffset(slot)
  <2>1. slot < l /\ StackTop \in Nat /\ rbp = b /\ lo + l + k <= b /\ b + 2 <= StackTop
    BY <1>0, <1>1, FrameAssumption DEF TopIs
  <2>2. LocalOffset(slot) = slot + 1
    BY <1>1 DEF TopIs, LocalOffset
  <2>3. b - slot - 1 \in lo .. b - 1 /\ b - slot - 1 \in 0 .. StackTop
    BY <2>1
  <2>4. b - slot - 1 = b - (slot + 1)
    OBVIOUS
  <2>5. QED
    BY <2>1, <2>2, <2>3, <2>4
<1>3. /\ frame \in Activation /\ frame.fn = Top.fn /\ frame.rbp = Top.rbp
      /\ frame.callerRbp = Top.callerRbp /\ frame.spills = Top.spills
      /\ frame.locals = Top.locals \cup {slot}
  BY <1>1 DEF TopIs, Activation
<1>4. word \in StackWords
  BY <1>1 DEF TopIs, StackWord, StackWords, WordKinds, LocalOffset
<1>5. /\ mem' = [mem EXCEPT ![a] = word] /\ UNCHANGED <<rsp, rbp, regs>>
      /\ frames' = [frames EXCEPT ![Depth] = frame]
  <2>1. frames' = [frames EXCEPT ![Depth].locals = @ \cup {slot}]
    BY DEF StoreLocal
  <2>2. QED
    BY <1>2, <2>1 DEF StoreLocal, Top
<1> HIDE DEF frame, word
<1>6. OnlyTop(frames', frame)
  BY <1>0, <1>3, <1>5, TopReplaced
<1>7. /\ frame.locals \subseteq 0 .. Locals[frame.fn] - 1
      /\ frame.spills \subseteq 0 .. Spills[frame.fn] - 1
  <2>1. Top.locals \subseteq 0 .. l - 1 /\ Top.spills \subseteq 0 .. k - 1
    BY <1>1 DEF TopIs
  <2>2. frame.locals \subseteq 0 .. l - 1 /\ frame.spills \subseteq 0 .. k - 1
    BY <1>0, <1>1, <1>3, <2>1 DEF TopIs
  <2>3. QED
    BY <1>1, <1>3, <2>2 DEF TopIs
<1>8. Intact(mem', n, frame)
  <2>1. /\ mem'[a] = word
        /\ \A c \in 0 .. StackTop : c # a => mem'[c] = mem[c]
    BY <1>2, <1>5 DEF FramesInv, MachineTypeOK
  <2>2. /\ StackTop \in Nat /\ lo + l + k <= b /\ b + 2 <= StackTop
        /\ Top.locals \subseteq 0 .. l - 1 /\ Top.spills \subseteq 0 .. k - 1
    BY <1>1, FrameAssumption DEF TopIs
  <2>3. slot < l
    BY <1>0, <1>1 DEF TopIs
  <2>4. ASSUME NEW s \in Top.locals, s # slot
        PROVE  mem'[b - (s + 1)] = mem[b - (s + 1)]
    <3>1. s \in 0 .. l - 1 /\ a = b - (slot + 1)
      BY <1>2, <2>2
    <3>2. b - (s + 1) \in 0 .. StackTop /\ b - (s + 1) # a
      BY <2>2, <2>3, <2>4, <3>1
    <3>3. QED
      BY <2>1, <3>2
  <2>5. ASSUME NEW s \in Top.spills
        PROVE  mem'[b - (l + s + 1)] = mem[b - (l + s + 1)]
    <3>1. s \in 0 .. k - 1 /\ a = b - (slot + 1)
      BY <1>2, <2>2
    <3>2. b - (l + s + 1) \in 0 .. StackTop /\ b - (l + s + 1) # a
      BY <2>2, <2>3, <3>1
    <3>3. QED
      BY <2>1, <3>2
  <2>6. mem'[b + 1] = mem[b + 1] /\ mem'[b] = mem[b]
    <3>1. b + 1 \in 0 .. StackTop /\ b + 1 # a /\ b \in 0 .. StackTop /\ b # a
      BY <1>2, <2>2
    <3>2. QED
      BY <2>1, <3>1
  <2>7. IntactAt(mem, n, Top, b, l)
    BY <1>1, IntactNumbers DEF TopIs
  <2>8. a = b - (slot + 1)
    BY <1>2
  <2>9. IntactAt(mem', n, frame, b, l)
    BY <1>1, <1>3, <2>1, <2>4, <2>5, <2>6, <2>7, <2>8 DEF IntactAt, TopIs, word, LocalOffset
  <2>10. QED
    BY <1>1, <1>3, <2>9, IntactNumbers DEF TopIs
<1>9. QED
  <2>1. a \in Bottom(Top) .. Top.rbp - 1 /\ Intact(mem', Depth, frame)
    BY <1>1, <1>2, <1>8 DEF TopIs
  <2>2. QED
    BY <1>0, <1>3, <1>4, <1>5, <1>6, <1>7, <2>1, StoreKeepsInv

LEMMA StoreSpillInv ==
  ASSUME FramesInv, NEW slot \in Nat, StoreSpill(slot)
  PROVE  FramesInv'
<1> DEFINE frame == [Top EXCEPT !.spills = @ \cup {slot}]
           word == StackWord(Depth, "spill", slot)
<1>0. Depth > 0 /\ slot < Spills[Top.fn]
  BY DEF StoreSpill
<1>1. PICK n \in Nat \ {0}, f \in Functions, b \in Int, lo \in Nat, l \in Nat, k \in Nat :
        TopIs(n, f, b, lo, l, k)
  BY <1>0, TopNumbers
<1>2. PICK a \in lo .. b - 1 : /\ a = b - l - slot - 1 /\ a \in 0 .. StackTop
                              /\ a = rbp - SpillOffset(Top.fn, slot)
  <2>1. slot < k /\ StackTop \in Nat /\ rbp = b /\ lo + l + k <= b /\ b + 2 <= StackTop
    BY <1>0, <1>1, FrameAssumption DEF TopIs
  <2>2. SpillOffset(Top.fn, slot) = l + slot + 1
    BY <1>1 DEF TopIs, SpillOffset
  <2>3. b - l - slot - 1 \in lo .. b - 1 /\ b - l - slot - 1 \in 0 .. StackTop
    BY <2>1
  <2>4. b - l - slot - 1 = b - (l + slot + 1)
    OBVIOUS
  <2>5. QED
    BY <2>1, <2>2, <2>3, <2>4
<1>3. /\ frame \in Activation /\ frame.fn = Top.fn /\ frame.rbp = Top.rbp
      /\ frame.callerRbp = Top.callerRbp /\ frame.locals = Top.locals
      /\ frame.spills = Top.spills \cup {slot}
  BY <1>1 DEF TopIs, Activation
<1>4. word \in StackWords
  BY <1>1 DEF TopIs, StackWord, StackWords, WordKinds, LocalOffset
<1>5. /\ mem' = [mem EXCEPT ![a] = word] /\ UNCHANGED <<rsp, rbp, regs>>
      /\ frames' = [frames EXCEPT ![Depth] = frame]
  <2>1. frames' = [frames EXCEPT ![Depth].spills = @ \cup {slot}]
    BY DEF StoreSpill
  <2>2. QED
    BY <1>2, <2>1 DEF StoreSpill, Top
<1> HIDE DEF frame, word
<1>6. OnlyTop(frames', frame)
  BY <1>0, <1>3, <1>5, TopReplaced
<1>7. /\ frame.locals \subseteq 0 .. Locals[frame.fn] - 1
      /\ frame.spills \subseteq 0 .. Spills[frame.fn] - 1
  <2>1. Top.locals \subseteq 0 .. l - 1 /\ Top.spills \subseteq 0 .. k - 1
    BY <1>1 DEF TopIs
  <2>2. frame.locals \subseteq 0 .. l - 1 /\ frame.spills \subseteq 0 .. k - 1
    BY <1>0, <1>1, <1>3, <2>1 DEF TopIs
  <2>3. QED
    BY <1>1, <1>3, <2>2 DEF TopIs
<1>8. Intact(mem', n, frame)
  <2>1. /\ mem'[a] = word
        /\ \A c \in 0 .. StackTop : c # a => mem'[c] = mem[c]
    BY <1>2, <1>5 DEF FramesInv, MachineTypeOK
  <2>2. /\ StackTop \in Nat /\ lo + l + k <= b /\ b + 2 <= StackTop
        /\ Top.locals \subseteq 0 .. l - 1 /\ Top.spills \subseteq 0 .. k - 1
    BY <1>1, FrameAssumption DEF TopIs
  <2>3. slot < k
    BY <1>0, <1>1 DEF TopIs
  <2>4. ASSUME NEW s \in Top.locals
        PROVE  mem'[b - (s + 1)] = mem[b - (s + 1)]
    <3>1. s \in 0 .. l - 1 /\ a = b - (l + slot + 1)
      BY <1>2, <2>2
    <3>2. b - (s + 1) \in 0 .. StackTop /\ b - (s + 1) # a
      BY <2>2, <2>3, <3>1
    <3>3. QED
      BY <2>1, <3>2
  <2>5. ASSUME NEW s \in Top.spills, s # slot
        PROVE  mem'[b - (l + s + 1)] = mem[b - (l + s + 1)]
    <3>1. s \in 0 .. k - 1 /\ a = b - (l + slot + 1)
      BY <1>2, <2>2
    <3>2. b - (l + s + 1) \in 0 .. StackTop /\ b - (l + s + 1) # a
      BY <2>2, <2>3, <2>5, <3>1
    <3>3. QED
      BY <2>1, <3>2
  <2>6. mem'[b + 1] = mem[b + 1] /\ mem'[b] = mem[b]
    <3>1. b + 1 \in 0 .. StackTop /\ b + 1 # a /\ b \in 0 .. StackTop /\ b # a
      BY <1>2, <2>2
    <3>2. QED
      BY <2>1, <3>1
  <2>7. IntactAt(mem, n, Top, b, l)
    BY <1>1, IntactNumbers DEF TopIs
  <2>8. a = b - (l + slot + 1)
    BY <1>2
  <2>9. IntactAt(mem', n, frame, b, l)
    BY <1>1, <1>3, <2>1, <2>4, <2>5, <2>6, <2>7, <2>8 DEF IntactAt, TopIs, word, LocalOffset
  <2>10. QED
    BY <1>1, <1>3, <2>9, IntactNumbers DEF TopIs
<1>9. QED
  <2>1. a \in Bottom(Top) .. Top.rbp - 1 /\ Intact(mem', Depth, frame)
    BY <1>1, <1>2, <1>8 DEF TopIs
  <2>2. QED
    BY <1>0, <1>3, <1>4, <1>5, <1>6, <1>7, <2>1, StoreKeepsInv

LEMMA StoreRegInv ==
  ASSUME FramesInv, NEW i, StoreReg(i)
  PROVE  FramesInv'
<1>1. PICK n \in Nat \ {0}, f \in Functions, b \in Int, lo \in Nat, l \in Nat, k \in Nat :
        TopIs(n, f, b, lo, l, k)
  BY TopNumbers DEF StoreReg
<1>2. i \in 1 .. Saved(f) /\ UsedRegs[f][i] \in CalleeSaved /\ Saved(f) \in Nat
  BY <1>1, FrameSizes DEF StoreReg, TopIs
<1>3. StackWord(Depth, "temp", i) \in StackWords
  BY <1>1, <1>2 DEF TopIs, StackWord, StackWords, WordKinds
<1>4. regs' = [regs EXCEPT ![UsedRegs[f][i]] = StackWord(Depth, "temp", i)]
      /\ UNCHANGED <<mem, rsp, rbp, frames>>
  BY <1>1 DEF StoreReg, TopIs
<1>5. regs' \in [CalleeSaved -> StackWords]
  BY <1>2, <1>3, <1>4 DEF FramesInv, MachineTypeOK
<1>6. MachineTypeOK'
  BY <1>4, <1>5 DEF FramesInv, MachineTypeOK, Depth
<1>7. FramesInLine' /\ AlignedAtCalls' /\ FramesIsolated'
  BY <1>4 DEF FramesInv, FramesInLine, AlignedAtCalls, FramesIsolated, Depth, Top, Bottom
<1>8. QED
  BY <1>6, <1>7 DEF FramesInv

(* What `call f` and the prologue leave in memory. *)
LEMMA PrologueWrites ==
  ASSUME FramesInv, NEW f \in Functions, Fits(f),
         NEW s \in Nat, s = rsp
  PROVE  /\ Prologue(f) \in [0 .. StackTop -> StackWords]
         /\ \A a \in s .. StackTop : Prologue(f)[a] = mem[a]
         /\ Prologue(f)[s - 1] = StackWord(Depth + 1, "return", 0)
         /\ Prologue(f)[s - 2] = StackWord(Depth + 1, "rbp", rbp)
         /\ \A p \in 0 .. Params[f] - 1 :
              Prologue(f)[s - 2 - (p + 1)] = StackWord(Depth + 1, "local", p + 1)
<1> DEFINE pushed == [mem EXCEPT ![s - 1] = StackWord(Depth + 1, "return", 0),
                                 ![s - 2] = StackWord(Depth + 1, "rbp", rbp)]
           saved == [a \in DOMAIN mem |->
                       IF s - 2 - a \in DOMAIN UsedRegs[f] THEN regs[UsedRegs[f][s - 2 - a]]
                                                           ELSE pushed[a]]
           full == [a \in DOMAIN mem |->
                      IF \E p \in 0 .. Params[f] - 1 : a = s - 2 - (p + 1)
                      THEN StackWord(Depth + 1, "local", s - 2 - a) ELSE saved[a]]
<1>1. PICK ps \in Nat, r \in Nat, w \in Nat :
        /\ ps = Params[f] /\ r = Saved(f) /\ w = FrameWords(f) /\ ps <= w
        /\ DOMAIN UsedRegs[f] = 1 .. r
        /\ \A i \in 1 .. r : UsedRegs[f][i] \in CalleeSaved
  BY FrameSizes, SMTT(30)
<1>2. /\ mem \in [0 .. StackTop -> StackWords] /\ regs \in [CalleeSaved -> StackWords]
      /\ rbp \in 0 .. StackTop /\ StackTop \in Nat /\ Depth \in Nat /\ s <= StackTop
  BY FrameAssumption DEF FramesInv, MachineTypeOK, Depth
<1>3. 2 + r + w <= s
  BY <1>1 DEF Fits
<1>4. Prologue(f) = full
  BY DEF Prologue, LocalOffset
<1>5. /\ StackWord(Depth + 1, "return", 0) \in StackWords
      /\ StackWord(Depth + 1, "rbp", rbp) \in StackWords
      /\ \A a \in Int : StackWord(Depth + 1, "local", a) \in StackWords
  BY <1>2 DEF StackWord, StackWords, WordKinds
<1>6. /\ s - 1 \in 0 .. StackTop /\ s - 2 \in 0 .. StackTop /\ s - 1 # s - 2
      /\ \A a \in s .. StackTop : a \in 0 .. StackTop /\ a # s - 1 /\ a # s - 2
  BY <1>2, <1>3
<1>7. /\ pushed \in [0 .. StackTop -> StackWords]
      /\ pushed[s - 1] = StackWord(Depth + 1, "return", 0)
      /\ pushed[s - 2] = StackWord(Depth + 1, "rbp", rbp)
      /\ \A a \in s .. StackTop : pushed[a] = mem[a]
  BY <1>2, <1>5, <1>6
<1> HIDE DEF pushed
<1>8. /\ saved \in [0 .. StackTop -> StackWords]
      /\ \A a \in s - 2 .. StackTop : saved[a] = pushed[a]
  <2>1. ASSUME NEW a \in 0 .. StackTop PROVE saved[a] \in StackWords
    BY <1>1, <1>2, <1>7
  <2>2. DOMAIN mem = 0 .. StackTop
    BY <1>2
  <2>3. saved \in [0 .. StackTop -> StackWords]
    BY <2>1, <2>2
  <2>4. ASSUME NEW a \in s - 2 .. StackTop PROVE saved[a] = pushed[a]
    <3>1. a \in 0 .. StackTop /\ s - 2 - a \notin 1 .. r
      BY <1>2, <1>3
    <3>2. QED
      BY <1>1, <2>2, <3>1
  <2>5. QED
    BY <2>3, <2>4
<1> HIDE DEF saved
<1>9. full \in [0 .. StackTop -> StackWords]
  <2>1. DOMAIN mem = 0 .. StackTop
    BY <1>2
  <2>2. ASSUME NEW a \in 0 .. StackTop PROVE full[a] \in StackWords
    <3>1. s - 2 - a \in Int
      OBVIOUS
    <3>2. QED
      BY <1>5, <1>8, <2>1, <3>1
  <2>3. QED
    BY <2>1, <2>2
<1>10. \A a \in s - 2 .. StackTop : full[a] = saved[a]
  <2>1. DOMAIN mem = 0 .. StackTop
    BY <1>2
  <2>2. ASSUME NEW a \in s - 2 .. StackTop PROVE full[a] = saved[a]
    <3>1. a \in 0 .. StackTop /\ ~\E p \in 0 .. ps - 1 : a = s - 2 - (p + 1)
      BY <1>2, <1>3
    <3>2. QED
      BY <1>1, <2>1, <3>1
  <2>3. QED
    BY <2>2
<1>11. ASSUME NEW p \in 0 .. ps - 1
       PROVE  full[s - 2 - (p + 1)] = StackWord(Depth + 1, "local", p + 1)
  <2>1. DOMAIN mem = 0 .. StackTop
    BY <1>2
  <2>2. PICK a \in 0 .. StackTop : a = s - 2 - (p + 1) /\ s - 2 - a = p + 1
    BY <1>1, <1>2, <1>3
  <2>3. \E q \in 0 .. Params[f] - 1 : a = s - 2 - (q + 1)
    BY <1>1, <2>2
  <2>4. full[a] = StackWord(Depth + 1, "local", s - 2 - a)
    BY <2>1, <2>3
  <2>5. QED
    BY <2>2, <2>4
<1> HIDE DEF full
<1>12. QED
  <2>1. \A a \in s .. StackTop : full[a] = mem[a]
    BY <1>2, <1>3, <1>7, <1>8, <1>10
  <2>2. full[s - 1] = pushed[s - 1] /\ full[s - 2] = pushed[s - 2]
    BY <1>2, <1>3, <1>8, <1>10
  <2>3. QED
    BY <1>1, <1>4, <1>7, <1>9, <1>11, <2>1, <2>2

LEMMA CallInv ==
  ASSUME FramesInv, NEW f \in Functions, Call(f)
  PROVE  FramesInv'
<1> DEFINE frame == [fn |-> f, rbp |-> rsp - 2, callerRbp |-> rbp, entry |-> regs,
                     locals |-> 0 .. Params[f] - 1, spills |-> {}]
<1>1. PICK n \in Nat, s \in Nat, b \in Nat, top \in Nat :
        /\ n = Depth /\ s = rsp /\ b = rbp /\ top = StackTop /\ s <= top /\ b <= top
        /\ n < MaxDepth /\ MaxDepth \in Nat /\ frames \in Seq(Activation)
  BY FrameAssumption DEF FramesInv, MachineTypeOK, Depth, Call
<1>2. PICK ps \in Nat, l \in Nat, r \in Nat, w \in Nat :
        /\ ps = Params[f] /\ l = Locals[f] /\ r = Saved(f) /\ w = FrameWords(f)
        /\ ps <= l /\ l <= w /\ (r + w) % 2 = 0
  BY FrameSizes, SMTT(30)
<1>3. 2 + r + w <= s
  BY <1>1, <1>2 DEF Call, Fits
<1>4. /\ rbp' = s - 2 /\ rsp' = s - 2 - r - w /\ regs' = regs /\ mem' = Prologue(f)
      /\ frames' = Append(frames, frame)
  BY <1>1, <1>2 DEF Call
<1>5. /\ frame \in Activation /\ frame.fn = f /\ frame.rbp = s - 2 /\ frame.callerRbp = b
      /\ frame.locals = 0 .. ps - 1 /\ frame.spills = {}
  BY <1>1, <1>2, SMTT(20) DEF Activation, FramesInv, MachineTypeOK
<1>6. Bottom(frame) = s - 2 - r - w
  BY <1>2, <1>5 DEF Bottom
<1> HIDE DEF frame
<1>7. /\ frames' \in Seq(Activation) /\ Depth' = n + 1 /\ frames'[n + 1] = frame
      /\ \A d \in 1 .. n : frames'[d] = frames[d]
  BY <1>1, <1>4, <1>5 DEF Depth
<1>8. /\ mem' \in [0 .. top -> StackWords]
      /\ \A a \in s .. top : mem'[a] = mem[a]
      /\ mem'[s - 1] = StackWord(n + 1, "return", 0)
      /\ mem'[s - 2] = StackWord(n + 1, "rbp", b)
      /\ \A p \in 0 .. ps - 1 : mem'[s - 2 - (p + 1)] = StackWord(n + 1, "local", p + 1)
  <2>1. Fits(f)
    BY DEF Call
  <2>2. QED
    BY <1>1, <1>2, <1>4, <2>1, PrologueWrites
<1>9. MachineTypeOK'
  BY <1>1, <1>3, <1>4, <1>7, <1>8 DEF FramesInv, MachineTypeOK
<1>10. AlignedAtCalls'
  <2>1. s % 2 = 0
    BY <1>1 DEF FramesInv, AlignedAtCalls
  <2>2. (s - 2 - r - w) % 2 = 0
    BY <1>2, <2>1
  <2>3. QED
    BY <1>4, <2>2 DEF AlignedAtCalls
<1>11. ASSUME NEW d \in 1 .. n
       PROVE  /\ Bottom(frames[d]) \in Int /\ s <= Bottom(frames[d])
              /\ frames[d].rbp \in Int /\ frames[d].rbp + 2 <= top
              /\ Bottom(frames[d]) <= frames[d].rbp
  <2>1. d \in 1 .. Depth
    BY <1>1
  <2>2. /\ frames[d].fn \in Functions /\ frames[d].rbp \in Int /\ rsp <= Bottom(frames[d])
        /\ frames[d].rbp + 2 <= StackTop
    BY <2>1, FrameBounds
  <2>3. QED
    BY <1>1, <2>2, BottomBelow
<1>12. FramesInLine'
  <2>1. (Depth > 0 => rsp = Bottom(Top) /\ rbp = Top.rbp)'
    BY <1>4, <1>5, <1>6, <1>7 DEF Top
  <2>2. ASSUME NEW d \in 1 .. n + 1
        PROVE  /\ Bottom(frames'[d]) >= 0 /\ frames'[d].rbp + 2 <= StackTop
               /\ frames'[d].callerRbp = IF d = 1 THEN StackTop ELSE frames'[d - 1].rbp
               /\ frames'[d].rbp + 2 = IF d = 1 THEN StackTop ELSE Bottom(frames'[d - 1])
               /\ frames'[d].locals \subseteq 0 .. Locals[frames'[d].fn] - 1
               /\ frames'[d].spills \subseteq 0 .. Spills[frames'[d].fn] - 1
    <3>1. CASE d = n + 1
      <4>1. /\ Bottom(frames'[d]) >= 0 /\ frames'[d].rbp + 2 <= StackTop
        <5>1. frames'[d] = frame
          BY <1>7, <3>1
        <5>2. Bottom(frame) >= 0
          <6>1. s - 2 - r - w >= 0
            BY <1>3
          <6>2. QED
            BY <1>6, <6>1
        <5>3. frame.rbp + 2 <= StackTop
          BY <1>1, <1>5
        <5>4. QED
          BY <5>1, <5>2, <5>3
      <4>2. /\ frames'[d].locals \subseteq 0 .. Locals[frames'[d].fn] - 1
            /\ frames'[d].spills \subseteq 0 .. Spills[frames'[d].fn] - 1
        <5>1. l = Locals[f] /\ ps <= l
          BY <1>2
        <5>2. 0 .. ps - 1 \subseteq 0 .. l - 1
          BY <5>1
        <5>3. frame.fn = f /\ frame.locals = 0 .. ps - 1 /\ frame.spills = {}
          BY <1>2, <1>5
        <5>4. frames'[d] = frame
          BY <1>7, <3>1
        <5>5. QED
          BY <5>1, <5>2, <5>3, <5>4
      <4>3. CASE n = 0
        BY <1>1, <1>5, <1>7, <3>1, <4>1, <4>2, <4>3 DEF FramesInv, FramesInLine
      <4>4. CASE n > 0
        <5>1. rsp = Bottom(frames[n]) /\ rbp = frames[n].rbp
          BY <1>1, <4>4 DEF FramesInv, FramesInLine, Top
        <5>2. frames'[d - 1] = frames[n] /\ d # 1
          <6>1. d - 1 = n /\ n \in 1 .. n /\ d # 1
            BY <3>1, <4>4
          <6>2. frames'[n] = frames[n]
            BY <1>7, <6>1
          <6>3. QED
            BY <6>1, <6>2
        <5>3. frames'[d].rbp + 2 = s /\ frames'[d].callerRbp = b
          <6>1. frames'[d] = frame
            BY <1>7, <3>1
          <6>2. frame.rbp + 2 = s /\ frame.callerRbp = b
            BY <1>1, <1>5
          <6>3. QED
            BY <6>1, <6>2
        <5>4. QED
          BY <1>1, <4>1, <4>2, <5>1, <5>2, <5>3
      <4>5. QED
        BY <4>3, <4>4
    <3>2. CASE d \in 1 .. n
      <4>1. d = 1 \/ d - 1 \in 1 .. n
        BY <3>2
      <4>2. frames'[d] = frames[d] /\ (d # 1 => frames'[d - 1] = frames[d - 1])
        BY <1>7, <3>2, <4>1
      <4>3. QED
        BY <1>1, <3>2, <4>2 DEF FramesInv, FramesInLine
    <3>3. QED
      BY <3>1, <3>2
  <2>3. ASSUME NEW d \in 1 .. n + 1, NEW e \in 1 .. n + 1, d < e
        PROVE  frames'[e].rbp + 2 <= Bottom(frames'[d])
    <3>1. d \in 1 .. n /\ frames'[d] = frames[d]
      BY <1>7, <2>3
    <3>2. CASE e = n + 1
      BY <1>5, <1>7, <1>11, <3>1, <3>2
    <3>3. CASE e # n + 1
      <4>1. e \in 1 .. n /\ frames'[e] = frames[e]
        BY <1>7, <3>3
      <4>2. QED
        BY <1>1, <2>3, <3>1, <4>1 DEF FramesInv, FramesInLine
    <3>4. QED
      BY <3>2, <3>3
  <2>4. (Depth = 0 => rsp = StackTop /\ rbp = StackTop)'
    BY <1>7
  <2>5. QED
    BY <1>7, <2>1, <2>2, <2>3, <2>4 DEF FramesInLine
<1>13. FramesIsolated'
  <2>1. Intact(mem', n + 1, frame)
    <3>1. s - 2 + 1 = s - 1
      OBVIOUS
    <3>2. QED
      BY <1>5, <1>8, <3>1 DEF Intact, LocalOffset
  <2>2. ASSUME NEW d \in 1 .. n PROVE Intact(mem', d, frames[d])
    <3>1. \A a \in Bottom(frames[d]) .. frames[d].rbp + 1 : a \in s .. top
      BY <1>11
    <3>2. \A a \in Bottom(frames[d]) .. frames[d].rbp + 1 : mem'[a] = mem[a]
      BY <1>8, <3>1
    <3>3. d \in 1 .. Depth
      BY <1>1
    <3>4. QED
      BY <3>2, <3>3, IntactElsewhere
  <2>3. ASSUME NEW d \in 1 .. n + 1 PROVE Intact(mem', d, frames'[d])
    <3>1. CASE d = n + 1
      BY <1>7, <2>1, <3>1
    <3>2. CASE d \in 1 .. n
      BY <1>7, <2>2, <3>2
    <3>3. QED
      BY <3>1, <3>2
  <2>4. QED
    BY <1>7, <2>3 DEF FramesIsolated, Intact
<1>14. QED
  BY <1>9, <1>10, <1>12, <1>13 DEF FramesInv

(* The epilogue finds the saved frame pointer where the prologue put it. *)
LEMMA ReturnTo ==
  ASSUME FramesInv, Return
  PROVE  rbp' = Top.callerRbp /\ rsp' = Top.rbp + 2
<1>1. PICK n \in Nat \ {0}, f \in Functions, b \in Int, lo \in Nat, l \in Nat, k \in Nat :
        TopIs(n, f, b, lo, l, k)
  BY TopNumbers DEF Return
<1>2. PICK r \in Nat, w \in Nat : r = Saved(f) /\ w = FrameWords(f)
  BY FrameSizes
<1>3. lo = b - r - w /\ lo = rsp /\ f = Top.fn /\ b = Top.rbp
  BY <1>1, <1>2 DEF TopIs, Bottom
<1>4. Lifted(f) + Saved(f) = b
  BY <1>2, <1>3 DEF Lifted
<1>5. mem[b] = StackWord(n, "rbp", Top.callerRbp)
  BY <1>1, <1>3 DEF TopIs, Intact
<1>6. QED
  BY <1>3, <1>4, <1>5, SMTT(20) DEF Return, StackWord

LEMMA ReturnInv ==
  ASSUME FramesInv, Return
  PROVE  FramesInv'
<1>1. PICK n \in Nat \ {0}, f \in Functions, b \in Int, lo \in Nat, l \in Nat, k \in Nat :
        TopIs(n, f, b, lo, l, k)
  BY TopNumbers DEF Return
<1>2. PICK r \in Nat, w \in Nat :
        /\ r = Saved(f) /\ w = FrameWords(f) /\ (r + w) % 2 = 0 /\ DOMAIN UsedRegs[f] = 1 .. r
  BY FrameSizes
<1>3. PICK top \in Nat : top = StackTop
  BY FrameAssumption
<1>4. /\ lo = b - r - w /\ lo = rsp /\ b + 2 <= top /\ n = Depth /\ f = Top.fn /\ n <= MaxDepth
      /\ frames \in Seq(Activation) /\ mem \in [0 .. top -> StackWords]
      /\ regs \in [CalleeSaved -> StackWords]
  BY <1>1, <1>2, <1>3 DEF TopIs, Bottom, FramesInv, MachineTypeOK
<1>5. rbp' = Top.callerRbp /\ rsp' = b + 2
  BY <1>1, ReturnTo DEF TopIs
<1>6. /\ frames' \in Seq(Activation) /\ Depth' = n - 1
      /\ \A d \in 1 .. n - 1 : frames'[d] = frames[d]
  <2>1. PICK t : t = frames' /\ t = SubSeq(frames, 1, Len(frames) - 1)
    BY DEF Return, Depth
  <2>2. frames # <<>> /\ Len(frames) = n
    BY <1>4 DEF Depth
  <2>3. Shorter(Activation, frames, t)
    BY <1>4, <2>1, <2>2, ButLast, Zenon
  <2>4. QED
    BY <2>1, <2>2, <2>3 DEF Shorter, Depth
<1>7. regs' \in [CalleeSaved -> StackWords]
  <2>1. ASSUME NEW reg \in CalleeSaved PROVE regs'[reg] \in StackWords
    <3>1. CASE \E i \in DOMAIN UsedRegs[f] : UsedRegs[f][i] = reg
      <4> DEFINE j == CHOOSE i \in DOMAIN UsedRegs[f] : UsedRegs[f][i] = reg
      <4>1. j \in 1 .. r
        BY <1>2, <3>1
      <4>2. regs'[reg] = mem[Lifted(f) + (Saved(f) - j)]
        BY <1>4, <3>1 DEF Return
      <4> HIDE DEF j
      <4>3. Lifted(f) + (Saved(f) - j) \in 0 .. top
        <5>1. PICK i \in 1 .. r : i = j
          BY <4>1
        <5>2. Lifted(f) + (Saved(f) - j) = lo + w + (r - i)
          BY <1>2, <1>4, <5>1 DEF Lifted
        <5>3. lo + w + (r - i) \in 0 .. top
          BY <1>4
        <5>4. QED
          BY <5>2, <5>3
      <4>4. QED
        BY <1>4, <4>2, <4>3
    <3>2. CASE ~\E i \in DOMAIN UsedRegs[f] : UsedRegs[f][i] = reg
      <4>1. regs'[reg] = regs[reg]
        BY <1>4, <3>2 DEF Return
      <4>2. QED
        BY <1>4, <4>1
    <3>3. QED
      BY <3>1, <3>2
  <2>2. regs' = [reg \in CalleeSaved |-> regs'[reg]]
    BY DEF Return
  <2>3. QED
    BY <2>1, <2>2
<1>8. /\ mem' \in [0 .. top -> StackWords]
      /\ \A a \in b + 2 .. top : mem'[a] = mem[a]
  <2>1. mem' = [a \in DOMAIN mem |-> IF a < b + 2 THEN Dead(a) ELSE mem[a]]
    BY <1>5 DEF Return
  <2>2. \A a \in Int : Dead(a) \in StackWords
    BY DEF Dead, StackWord, StackWords, WordKinds
  <2>3. QED
    BY <1>4, <2>1, <2>2
<1>9. /\ Top.callerRbp = (IF n = 1 THEN StackTop ELSE frames[n - 1].rbp)
      /\ b + 2 = (IF n = 1 THEN StackTop ELSE Bottom(frames[n - 1]))
      /\ Bottom(frames[n]) = lo
  <2>1. n \in 1 .. Depth /\ Top = frames[n] /\ Top.rbp = b
    BY <1>1 DEF TopIs
  <2>2. QED
    BY <1>1, <2>1 DEF FramesInv, FramesInLine, TopIs
<1>10. rbp' \in 0 .. top
  <2>1. CASE n = 1
    BY <1>3, <1>5, <1>9, <2>1
  <2>2. CASE n # 1
    <3>1. n - 1 \in 1 .. Depth /\ n - 1 < Depth
      BY <1>4, <2>2
    <3>2. /\ frames[n - 1].fn \in Functions /\ frames[n - 1].rbp \in Int
          /\ frames[n - 1].rbp + 2 <= StackTop /\ Bottom(frames[n - 1]) <= frames[n - 1].rbp
      BY <3>1, FrameBounds, BottomBelow
    <3>3. b + 2 <= frames[n - 1].rbp /\ b >= 0
      BY <1>1, <1>2, <1>4, <1>9, <2>2, <3>2, SMTT(20) DEF TopIs
    <3>4. QED
      BY <1>3, <1>5, <1>9, <2>2, <3>2, <3>3
  <2>3. QED
    BY <2>1, <2>2
<1>11. MachineTypeOK'
  <2>1. MaxDepth \in Nat
    BY FrameAssumption
  <2>2. Depth' <= MaxDepth
    BY <1>4, <1>6, <2>1
  <2>3. b + 2 \in 0 .. top
    BY <1>4, <1>2
  <2>4. rsp' \in 0 .. StackTop /\ rbp' \in 0 .. StackTop
    BY <1>3, <1>5, <1>10, <2>3
  <2>5. mem' \in [0 .. StackTop -> StackWords]
    BY <1>3, <1>8
  <2>6. QED
    BY <1>6, <1>7, <2>2, <2>4, <2>5 DEF MachineTypeOK
<1>12. AlignedAtCalls'
  <2>1. lo % 2 = 0
    BY <1>4 DEF FramesInv, AlignedAtCalls
  <2>2. (b + 2) % 2 = 0
    <3>1. b + 2 = lo + (r + w) + 2
      BY <1>4
    <3>2. PICK q \in Int : q = r + w /\ q % 2 = 0
      BY <1>2
    <3>3. PICK t \in Int : t = lo + q /\ t % 2 = 0
      BY <2>1, <3>2
    <3>4. b + 2 = t + 2
      BY <3>1, <3>2, <3>3
    <3>5. QED
      BY <3>3, <3>4
  <2>3. QED
    BY <1>5, <2>2 DEF AlignedAtCalls
<1>13. FramesInLine'
  <2>1. (Depth = 0 => rsp = StackTop /\ rbp = StackTop)'
    BY <1>5, <1>6, <1>9
  <2>2. (Depth > 0 => rsp = Bottom(Top) /\ rbp = Top.rbp)'
    <3>1. CASE n > 1
      <4>1. Top' = frames[n - 1]
        BY <1>6, <3>1 DEF Top
      <4>2. QED
        BY <1>5, <1>9, <3>1, <4>1 DEF Bottom
    <3>2. CASE n = 1
      BY <1>6, <3>2
    <3>3. QED
      BY <3>1, <3>2
  <2>3. ASSUME NEW d \in 1 .. n - 1
        PROVE  /\ Bottom(frames'[d]) >= 0 /\ frames'[d].rbp + 2 <= StackTop
               /\ frames'[d].callerRbp = IF d = 1 THEN StackTop ELSE frames'[d - 1].rbp
               /\ frames'[d].rbp + 2 = IF d = 1 THEN StackTop ELSE Bottom(frames'[d - 1])
               /\ frames'[d].locals \subseteq 0 .. Locals[frames'[d].fn] - 1
               /\ frames'[d].spills \subseteq 0 .. Spills[frames'[d].fn] - 1
    <3>1. d \in 1 .. Depth /\ (d = 1 \/ d - 1 \in 1 .. n - 1)
      BY <1>4
    <3>2. frames'[d] = frames[d] /\ (d # 1 => frames'[d - 1] = frames[d - 1])
      BY <1>6, <3>1
    <3>3. QED
      BY <3>1, <3>2 DEF FramesInv, FramesInLine
  <2>4. ASSUME NEW d \in 1 .. n - 1, NEW e \in 1 .. n - 1, d < e
        PROVE  frames'[e].rbp + 2 <= Bottom(frames'[d])
    <3>1. d \in 1 .. Depth /\ e \in 1 .. Depth
      BY <1>4
    <3>2. QED
      BY <1>6, <2>4, <3>1 DEF FramesInv, FramesInLine
  <2>5. QED
    BY <1>6, <2>1, <2>2, <2>3, <2>4 DEF FramesInLine
<1>14. FramesIsolated'
  <2>1. ASSUME NEW d \in 1 .. n - 1 PROVE Intact(mem', d, frames'[d])
    <3>1. d \in 1 .. Depth /\ d < Depth
      BY <1>4
    <3>2. /\ Bottom(frames[d]) \in Int /\ b + 2 <= Bottom(frames[d])
          /\ frames[d].rbp \in Int /\ frames[d].rbp + 2 <= top
      BY <1>1, <1>3, <3>1, FrameBounds DEF TopIs
    <3>3. \A a \in Bottom(frames[d]) .. frames[d].rbp + 1 : a \in b + 2 .. top
      BY <3>2
    <3>4. \A a \in Bottom(frames[d]) .. frames[d].rbp + 1 : mem'[a] = mem[a]
      BY <1>8, <3>3
    <3>5. QED
      BY <1>6, <3>1, <3>4, IntactElsewhere
  <2>2. QED
    BY <1>6, <2>1 DEF FramesIsolated, Intact
<1>15. QED
  BY <1>11, <1>12, <1>13, <1>14 DEF FramesInv

LEMMA FramesStepInv == FramesInv /\ [FrameNext]_frameVars => FramesInv'
<1> SUFFICES ASSUME FramesInv, [FrameNext]_frameVars PROVE FramesInv'
  OBVIOUS
<1>1. \A f \in Functions : Locals[f] \in Nat /\ Spills[f] \in Nat
  BY FrameSizes
<1>2. CASE \E f \in Functions : Call(f)
  BY <1>2, CallInv
<1>3. ASSUME NEW f \in Functions, NEW slot \in 0 .. Locals[f] - 1, StoreLocal(slot)
      PROVE  FramesInv'
  BY <1>1, <1>3, StoreLocalInv
<1>4. ASSUME NEW f \in Functions, NEW slot \in 0 .. Spills[f] - 1, StoreSpill(slot)
      PROVE  FramesInv'
  BY <1>1, <1>4, StoreSpillInv
<1>5. CASE \E f \in Functions : \E i \in DOMAIN UsedRegs[f] : StoreReg(i)
  BY <1>5, StoreRegInv
<1>6. CASE Return
  BY <1>6, ReturnInv
<1>7. CASE UNCHANGED frameVars
  BY <1>7 DEF frameVars, FramesInv, MachineTypeOK, FramesInLine, AlignedAtCalls, FramesIsolated,
              Depth, Top, Bottom
<1>8. QED
  BY <1>2, <1>3, <1>4, <1>5, <1>6, <1>7 DEF FrameNext

(***************************************************************************)
(* The frames that frameFor and the prologue lay out: for all functions,   *)
(* with any number of parameters, locals, spill slots and saved registers, *)
(* and all chains of calls, the stack is aligned at every call and no      *)
(* function writes into the frame of another or one slot over another.     *)
(***************************************************************************)
THEOREM FramesAlwaysSound == FrameSpec => []FramesSound
<1>1. FramesInv => FramesSound
  <2>1. ASSUME FramesInv PROVE FrameTypeOK
    <3>1. Depth \in Nat /\ \A d \in 1 .. Depth : frames[d].fn \in Functions
      BY <2>1, FrameBounds DEF FramesInv, MachineTypeOK, Depth
    <3>2. QED
      BY <2>1, <3>1, FrameAssumption DEF FramesInv, MachineTypeOK, FrameTypeOK
  <2>2. QED
    BY <2>1 DEF FramesInv, FramesSound
<1>2. QED
  BY <1>1, FramesInitInv, FramesStepInv, PTL DEF FrameSpec

(***************************************************************************)
(* The epilogue of every function returns to the frame of its caller: rsp  *)
(* and rbp are those of the call.                                          *)
(***************************************************************************)
THEOREM EpilogueReturns == FrameSpec => ReturnsToCaller
<1>1. FramesInv /\ [FrameNext]_frameVars =>
        [Depth' < Depth => rbp' = Top.callerRbp /\ rsp' = Top.rbp + 2]_frameVars
  <2> SUFFICES ASSUME FramesInv, FrameNext, Depth' < Depth
               PROVE  rbp' = Top.callerRbp /\ rsp' = Top.rbp + 2
    OBVIOUS
  <2>1. Return
    <3>1. frames \in Seq(Activation) /\ Depth \in Nat
      BY DEF FramesInv, MachineTypeOK, Depth
    <3>2. ASSUME NEW f \in Functions, Call(f) PROVE FALSE
      BY <3>1, <3>2, CallInv DEF Call, Depth, FramesInv, MachineTypeOK
    <3>3. ASSUME NEW slot, StoreLocal(slot) \/ StoreSpill(slot) \/ StoreReg(slot) PROVE FALSE
      BY <3>1, <3>3 DEF StoreLocal, StoreSpill, StoreReg, Depth
    <3>4. QED
      BY <3>2, <3>3 DEF FrameNext
  <2>2. QED
    BY <2>1, ReturnTo
<1>2. QED
  BY <1>1, FramesInitInv, FramesStepInv, PTL DEF FrameSpec, ReturnsToCaller

-----------------------------------------------------------------------------
(* The lines of one instruction.                                           *)

(* The first line of a program, and the rest. *)
IsNext(ln, rest) == lines # <<>> /\ Head(lines) = ln /\ Tail(lines) = rest
LEMMA FirstLine ==
  /\ \A a : lines = <<a>> => IsNext(a, <<>>)
  /\ \A a, b : lines = <<a, b>> => IsNext(a, <<b>>)
  /\ \A a, b, c : lines = <<a, b, c>> => IsNext(a, <<b, c>>)
  /\ \A a, b, c, d : lines = <<a, b, c, d>> => IsNext(a, <<b, c, d>>)
  /\ \A a, b, c, d, e : lines = <<a, b, c, d, e>> => IsNext(a, <<b, c, d, e>>)
  /\ \A a, b, c, d, e, f : lines = <<a, b, c, d, e, f>> => IsNext(a, <<b, c, d, e, f>>)
<1>1. \A a : lines = <<a>> => IsNext(a, <<>>)
  BY DEF IsNext
<1>2. \A a, b : lines = <<a, b>> => IsNext(a, <<b>>)
  BY DEF IsNext
<1>3. \A a, b, c : lines = <<a, b, c>> => IsNext(a, <<b, c>>)
  BY DEF IsNext
<1>4. \A a, b, c, d : lines = <<a, b, c, d>> => IsNext(a, <<b, c, d>>)
  BY DEF IsNext
<1>5. \A a, b, c, d, e : lines = <<a, b, c, d, e>> => IsNext(a, <<b, c, d, e>>)
  BY DEF IsNext
<1>6. \A a, b, c, d, e, f : lines = <<a, b, c, d, e, f>> => IsNext(a, <<b, c, d, e, f>>)
  BY DEF IsNext
<1> QED  BY <1>1, <1>2, <1>3, <1>4, <1>5, <1>6

(* Short programs, one after the other. *)
LEMMA ShortPrograms ==
  /\ \A a, b : <<a>> \o <<b>> = <<a, b>>
  /\ \A a, b, c : <<a, b>> \o <<c>> = <<a, b, c>>
  /\ \A a, b, c, d : <<a, b, c>> \o <<d>> = <<a, b, c, d>>
  /\ \A a, b, c, d, e : <<a, b, c, d>> \o <<e>> = <<a, b, c, d, e>>
  /\ \A a, b, c, d, e, f : <<a, b, c, d, e>> \o <<f>> = <<a, b, c, d, e, f>>
  /\ \A a, b, c, d : <<a>> \o <<b, c, d>> = <<a, b, c, d>>
  /\ \A a, b, c, d, e : <<a, b>> \o <<c, d, e>> = <<a, b, c, d, e>>
  /\ \A a : <<a>> \o <<>> = <<a>>
<1>1. ASSUME NEW a, NEW b PROVE <<a>> \o <<b>> = <<a, b>>
  <2>1. PICK S : S = {a, b}
    OBVIOUS
  <2>2. <<a>> \in Seq(S) /\ <<b>> \in Seq(S) /\ <<a, b>> \in Seq(S)
    BY <2>1
  <2>3. PICK v : v = <<a>> \o <<b>>
    OBVIOUS
  <2>4. PICK w : w = <<a, b>>
    OBVIOUS
  <2>5. v \in Seq(S) /\ Len(v) = 2 /\ v[1] = a /\ v[2] = b
    BY <2>2, <2>3
  <2>6. w \in Seq(S) /\ Len(w) = 2 /\ w[1] = a /\ w[2] = b
    BY <2>2, <2>4
  <2>7. \A i \in 1 .. Len(v) : v[i] = w[i]
    BY <2>5, <2>6
  <2> QED  BY <2>3, <2>4, <2>5, <2>6, <2>7, SeqEqual
<1>2. ASSUME NEW a, NEW b, NEW c PROVE <<a, b>> \o <<c>> = <<a, b, c>>
  <2>1. PICK S : S = {a, b, c}
    OBVIOUS
  <2>2. <<a, b>> \in Seq(S) /\ <<c>> \in Seq(S) /\ <<a, b, c>> \in Seq(S)
    BY <2>1
  <2>3. PICK v : v = <<a, b>> \o <<c>>
    OBVIOUS
  <2>4. PICK w : w = <<a, b, c>>
    OBVIOUS
  <2>5. v \in Seq(S) /\ Len(v) = 3 /\ v[1] = a /\ v[2] = b /\ v[3] = c
    BY <2>2, <2>3
  <2>6. w \in Seq(S) /\ Len(w) = 3 /\ w[1] = a /\ w[2] = b /\ w[3] = c
    BY <2>2, <2>4
  <2>7. \A i \in 1 .. Len(v) : v[i] = w[i]
    BY <2>5, <2>6
  <2> QED  BY <2>3, <2>4, <2>5, <2>6, <2>7, SeqEqual
<1>3. ASSUME NEW a, NEW b, NEW c, NEW d PROVE <<a, b, c>> \o <<d>> = <<a, b, c, d>>
  <2>1. PICK S : S = {a, b, c, d}
    OBVIOUS
  <2>2. <<a, b, c>> \in Seq(S) /\ <<d>> \in Seq(S) /\ <<a, b, c, d>> \in Seq(S)
    BY <2>1
  <2>3. PICK v : v = <<a, b, c>> \o <<d>>
    OBVIOUS
  <2>4. PICK w : w = <<a, b, c, d>>
    OBVIOUS
  <2>5. v \in Seq(S) /\ Len(v) = 4 /\ v[1] = a /\ v[2] = b /\ v[3] = c /\ v[4] = d
    BY <2>2, <2>3
  <2>6. w \in Seq(S) /\ Len(w) = 4 /\ w[1] = a /\ w[2] = b /\ w[3] = c /\ w[4] = d
    BY <2>2, <2>4
  <2>7. \A i \in 1 .. Len(v) : v[i] = w[i]
    BY <2>5, <2>6
  <2> QED  BY <2>3, <2>4, <2>5, <2>6, <2>7, SeqEqual
<1>4. ASSUME NEW a, NEW b, NEW c, NEW d, NEW e PROVE <<a, b, c, d>> \o <<e>> = <<a, b, c, d, e>>
  <2>1. PICK S : S = {a, b, c, d, e}
    OBVIOUS
  <2>2. <<a, b, c, d>> \in Seq(S) /\ <<e>> \in Seq(S) /\ <<a, b, c, d, e>> \in Seq(S)
    BY <2>1
  <2>3. PICK v : v = <<a, b, c, d>> \o <<e>>
    OBVIOUS
  <2>4. PICK w : w = <<a, b, c, d, e>>
    OBVIOUS
  <2>5. v \in Seq(S) /\ Len(v) = 5 /\ v[1] = a /\ v[2] = b /\ v[3] = c /\ v[4] = d /\ v[5] = e
    BY <2>2, <2>3
  <2>6. w \in Seq(S) /\ Len(w) = 5 /\ w[1] = a /\ w[2] = b /\ w[3] = c /\ w[4] = d /\ w[5] = e
    BY <2>2, <2>4
  <2>7. \A i \in 1 .. Len(v) : v[i] = w[i]
    BY <2>5, <2>6
  <2> QED  BY <2>3, <2>4, <2>5, <2>6, <2>7, SeqEqual
<1>5. ASSUME NEW a, NEW b, NEW c, NEW d, NEW e, NEW f PROVE <<a, b, c, d, e>>
        \o <<f>> = <<a, b, c, d, e, f>>
  <2>1. PICK S : S = {a, b, c, d, e, f}
    OBVIOUS
  <2>2. <<a, b, c, d, e>> \in Seq(S) /\ <<f>> \in Seq(S) /\ <<a, b, c, d, e, f>> \in Seq(S)
    BY <2>1
  <2>3. PICK v : v = <<a, b, c, d, e>> \o <<f>>
    OBVIOUS
  <2>4. PICK w : w = <<a, b, c, d, e, f>>
    OBVIOUS
  <2>5. v \in Seq(S) /\ Len(v) = 6 /\ v[1] = a /\ v[2] = b /\ v[3] = c /\ v[4] = d /\ v[5] = e
          /\ v[6] = f
    BY <2>2, <2>3
  <2>6. w \in Seq(S) /\ Len(w) = 6 /\ w[1] = a /\ w[2] = b /\ w[3] = c /\ w[4] = d /\ w[5] = e
          /\ w[6] = f
    BY <2>2, <2>4
  <2>7. \A i \in 1 .. Len(v) : v[i] = w[i]
    BY <2>5, <2>6
  <2> QED  BY <2>3, <2>4, <2>5, <2>6, <2>7, SeqEqual
<1>6. ASSUME NEW a, NEW b, NEW c, NEW d PROVE <<a>> \o <<b, c, d>> = <<a, b, c, d>>
  <2>1. PICK S : S = {a, b, c, d}
    OBVIOUS
  <2>2. <<a>> \in Seq(S) /\ <<b, c, d>> \in Seq(S) /\ <<a, b, c, d>> \in Seq(S)
    BY <2>1
  <2>3. PICK v : v = <<a>> \o <<b, c, d>>
    OBVIOUS
  <2>4. PICK w : w = <<a, b, c, d>>
    OBVIOUS
  <2>5. v \in Seq(S) /\ Len(v) = 4 /\ v[1] = a /\ v[2] = b /\ v[3] = c /\ v[4] = d
    BY <2>2, <2>3
  <2>6. w \in Seq(S) /\ Len(w) = 4 /\ w[1] = a /\ w[2] = b /\ w[3] = c /\ w[4] = d
    BY <2>2, <2>4
  <2>7. \A i \in 1 .. Len(v) : v[i] = w[i]
    BY <2>5, <2>6
  <2> QED  BY <2>3, <2>4, <2>5, <2>6, <2>7, SeqEqual
<1>7. ASSUME NEW a, NEW b, NEW c, NEW d, NEW e PROVE <<a, b>> \o <<c, d, e>> = <<a, b, c, d, e>>
  <2>1. PICK S : S = {a, b, c, d, e}
    OBVIOUS
  <2>2. <<a, b>> \in Seq(S) /\ <<c, d, e>> \in Seq(S) /\ <<a, b, c, d, e>> \in Seq(S)
    BY <2>1
  <2>3. PICK v : v = <<a, b>> \o <<c, d, e>>
    OBVIOUS
  <2>4. PICK w : w = <<a, b, c, d, e>>
    OBVIOUS
  <2>5. v \in Seq(S) /\ Len(v) = 5 /\ v[1] = a /\ v[2] = b /\ v[3] = c /\ v[4] = d /\ v[5] = e
    BY <2>2, <2>3
  <2>6. w \in Seq(S) /\ Len(w) = 5 /\ w[1] = a /\ w[2] = b /\ w[3] = c /\ w[4] = d /\ w[5] = e
    BY <2>2, <2>4
  <2>7. \A i \in 1 .. Len(v) : v[i] = w[i]
    BY <2>5, <2>6
  <2> QED  BY <2>3, <2>4, <2>5, <2>6, <2>7, SeqEqual
<1>8. ASSUME NEW a PROVE <<a>> \o <<>> = <<a>>
  OBVIOUS
<1> QED  BY <1>1, <1>2, <1>3, <1>4, <1>5, <1>6, <1>7, <1>8

(* The programs of emitInstruction, put together from their parts. *)
LEMMA JoinTwo ==
  ASSUME NEW a, NEW b
  PROVE  <<a>> \o <<b>> = <<a, b>>
<1>1. <<a>> \o <<b>> = <<a, b>>
  BY ShortPrograms
<1> QED  BY <1>1

(* neg. *)
LEMMA JoinThree ==
  ASSUME NEW a, NEW b, NEW c
  PROVE  <<a>> \o <<b>> \o <<c>> = <<a, b, c>>
<1>1. <<a>> \o <<b>> = <<a, b>>
  BY ShortPrograms
<1>2. <<a, b>> \o <<c>> = <<a, b, c>>
  BY ShortPrograms
<1> QED  BY <1>1, <1>2, Zenon

(* Arithmetic, and calls with two arguments. *)
LEMMA JoinFour ==
  ASSUME NEW a, NEW b, NEW c, NEW d
  PROVE  <<a>> \o <<b>> \o <<c>> \o <<d>> = <<a, b, c, d>>
<1>1. <<a>> \o <<b>> = <<a, b>>
  BY ShortPrograms
<1>2. <<a, b>> \o <<c>> = <<a, b, c>>
  BY ShortPrograms
<1>3. <<a, b, c>> \o <<d>> = <<a, b, c, d>>
  BY ShortPrograms
<1> QED  BY <1>1, <1>2, <1>3, Zenon

(* A division. *)
LEMMA JoinFive ==
  ASSUME NEW a, NEW b, NEW c, NEW d, NEW e
  PROVE  <<a>> \o <<b>> \o <<c>> \o <<d>> \o <<e>> = <<a, b, c, d, e>>
<1>1. <<a>> \o <<b>> = <<a, b>>
  BY ShortPrograms
<1>2. <<a, b>> \o <<c>> = <<a, b, c>>
  BY ShortPrograms
<1>3. <<a, b, c>> \o <<d>> = <<a, b, c, d>>
  BY ShortPrograms
<1>4. <<a, b, c, d>> \o <<e>> = <<a, b, c, d, e>>
  BY ShortPrograms
<1> QED  BY <1>1, <1>2, <1>3, <1>4, Zenon

(* A branch. *)
LEMMA JoinBranch ==
  ASSUME NEW a, NEW b, NEW c, NEW d
  PROVE  <<a>> \o <<b, c, d>> = <<a, b, c, d>>
<1>1. <<a>> \o <<b, c, d>> = <<a, b, c, d>>
  BY ShortPrograms
<1> QED  BY <1>1

(* A comparison with zero. *)
LEMMA JoinTest ==
  ASSUME NEW a, NEW b, NEW c, NEW d, NEW e
  PROVE  <<a>> \o <<>> \o <<b, c, d>> \o <<e>> = <<a, b, c, d, e>>
<1>1. <<a>> \o <<>> = <<a>>
  BY ShortPrograms
<1>2. <<a>> \o <<b, c, d>> = <<a, b, c, d>>
  BY ShortPrograms
<1>3. <<a, b, c, d>> \o <<e>> = <<a, b, c, d, e>>
  BY ShortPrograms
<1> QED  BY <1>1, <1>2, <1>3, Zenon

(* A comparison of two operands. *)
LEMMA JoinCompare ==
  ASSUME NEW a, NEW b, NEW c, NEW d, NEW e, NEW f
  PROVE  <<a>> \o <<b>> \o <<c, d, e>> \o <<f>> = <<a, b, c, d, e, f>>
<1>1. <<a>> \o <<b>> = <<a, b>>
  BY ShortPrograms
<1>2. <<a, b>> \o <<c, d, e>> = <<a, b, c, d, e>>
  BY ShortPrograms
<1>3. <<a, b, c, d, e>> \o <<f>> = <<a, b, c, d, e, f>>
  BY ShortPrograms
<1> QED  BY <1>1, <1>2, <1>3, Zenon

(* The numbers of a machine with words of any width. *)
LEMMA Widths ==
  \E h, k, b \in Nat \ {0, 1} : /\ Modulus = 2 * h /\ Modulus = k * b /\ b = 2 ^ ByteBits
                                /\ Modulus \in Nat /\ Modulus >= 4 /\ Word = 0 .. Modulus - 1
<1>1. PICK h : h = 2 ^ (WordBits - 1)
  OBVIOUS
<1>2. PICK k : k = 2 ^ (WordBits - ByteBits)
  OBVIOUS
<1>3. PICK b : b = 2 ^ ByteBits
  OBVIOUS
<1>4. PICK w : w = 2 ^ WordBits
  OBVIOUS
<1>5. {w, h, b, k} \subseteq Nat \ {0, 1} /\ w = 2 * h /\ w = k * b
  BY <1>1, <1>2, <1>3, <1>4, PowersAssumption
<1>6. w = Modulus
  BY <1>4 DEF Modulus
<1>7. w >= 4 /\ w \in Nat /\ h \in Nat \ {0, 1} /\ k \in Nat \ {0, 1} /\ b \in Nat \ {0, 1}
  BY <1>5
<1> QED  BY <1>3, <1>5, <1>6, <1>7 DEF Word

(* What the machine computes fits a word. *)
LEMMA WordsHold ==
  /\ \A n \in Int : Wrap(n) \in Word
  /\ 0 \in Word /\ 1 \in Word /\ Literal \in Word /\ Modulus - 1 \in Word /\ Modulus - 2 \in Word
  /\ \A x \in Word : x \in Int /\ Signed(x) \in Int
<1>1. PICK m \in Nat : m = Modulus /\ m >= 4 /\ Word = 0 .. m - 1
  BY Widths
<1>2. \A n \in Int : n % m \in 0 .. m - 1
  BY <1>1
<1> QED  BY <1>1, <1>2 DEF Wrap, Literal, Signed

(* Arithmetic on words, and the value a call returns, are words. *)
LEMMA ResultsAreWords ==
  ASSUME NEW a \in Word, NEW b \in Word
  PROVE  /\ CalleeResult(a, b) \in Word
         /\ \A op \in {"+", "-", "*"} : Arithmetic(op, a, b) \in Word
         /\ Wrap(-a) \in Word
<1>1. a \in Int /\ b \in Int
  BY WordsHold
<1>2. /\ a + 2 * b + 1 \in Int /\ a + b \in Int /\ a - b \in Int /\ -a \in Int
  BY <1>1
<1>3. a * b \in Int
  BY <1>1
<1>4. /\ Wrap(a + 2 * b + 1) \in Word /\ Wrap(a + b) \in Word /\ Wrap(a - b) \in Word
      /\ Wrap(a * b) \in Word /\ Wrap(-a) \in Word
  BY <1>2, <1>3, WordsHold
<1> QED  BY <1>4 DEF CalleeResult, Arithmetic

(* A bit in the low byte leaves a word, and is what movzx finds. *)
LEMMA ByteSet ==
  ASSUME NEW x \in Word, NEW y \in {0, 1}
  PROVE  /\ x - LowByte(x) + y \in Word
         /\ LowByte(x - LowByte(x) + y) = y
         /\ LowByte(x) \in Word
<1>1. PICK k \in Nat \ {0, 1}, b \in Nat \ {0, 1}, m \in Nat :
        m = k * b /\ b = 2 ^ ByteBits /\ Word = 0 .. m - 1
  BY Widths
<1>2. x \in Int /\ x >= 0 /\ x < k * b
  BY <1>1
<1>3. b \in Nat \ {0} /\ x \in Int
  BY <1>1, <1>2
<1>4. PICK d \in Int, e \in 0 .. b - 1 : d = x \div b /\ e = x % b /\ x = d * b + e
  BY <1>3, Division, Zenon
<1>5. LowByte(x) = e /\ x - e = d * b
  <2>1. LowByte(x) = x % b
    BY <1>1 DEF LowByte
  <2>2. PICK p \in Int : p = d * b
    BY <1>3, <1>4
  <2>3. x = p + e /\ e \in Int
    BY <1>3, <1>4, <2>2
  <2> QED  BY <1>3, <1>4, <2>1, <2>2, <2>3
<1>6. d \in 0 .. k - 1
  <2>1. d * b + e >= 0 /\ d * b + e < k * b /\ k \in Nat /\ b \in Nat \ {0}
    BY <1>1, <1>2, <1>4
  <2> QED  BY <1>4, <2>1, QuotientBelow
<1>7. d * b >= 0 /\ d * b <= k * b - b
  <2>1. d * b <= (k - 1) * b
    BY <1>6
  <2>2. (k - 1) * b = k * b - b
    BY <1>6
  <2>3. d * b >= 0
    BY <1>6
  <2> QED  BY <2>1, <2>2, <2>3
<1>8. d * b + y \in Word /\ e \in Word
  <2>1. e <= x
    BY <1>2, <1>4, <1>7
  <2>2. PICK p \in Int : p = d * b
    BY <1>4
  <2>3. p >= 0 /\ p <= m - b /\ x < m
    BY <1>1, <1>2, <1>7, <2>2
  <2>4. y = 0 \/ y = 1
    OBVIOUS
  <2>5. b >= 2 /\ b \in Int
    BY <1>1
  <2>6. e >= 0 /\ e \in Int
    BY <1>3, <1>4
  <2>7. p + y \in 0 .. m - 1 /\ e \in 0 .. m - 1
    BY <1>2, <2>1, <2>2, <2>3, <2>4, <2>5, <2>6
  <2> QED  BY <1>1, <2>2, <2>7
<1>9. (d * b + y) % b = y
  <2>1. PICK a \in Int : a = d * b + y
    OBVIOUS
  <2>2. y \in 0 .. b - 1
    BY <1>1
  <2> QED  BY <2>1, <2>2, DivisionUnique
<1>10. LowByte(d * b + y) = y
  BY <1>1, <1>9 DEF LowByte
<1> QED  BY <1>5, <1>8, <1>10

(***************************************************************************)
(* What is true at every line: cells hold words, and no place but that of  *)
(* the destination was written.                                            *)
(***************************************************************************)
Instructions == [op : Ops, dest : Places, left : Places, right : Places]
WordsKept ==
  /\ inst \in Instructions /\ inst.dest \notin {inst.left, inst.right}
  /\ cell \in [Cells -> Word] /\ before \in [Cells -> Word]
  /\ OthersUntouched
MayWrite(c) == c \in Scratch \/ c = inst.dest \/ (c = Local /\ inst.op = "store_local")
Goes(rest) == lines' = rest /\ inst' = inst /\ before' = before
Sets(c, v) == cell'[c] = v /\ \A x \in Cells : x # c => cell'[x] = cell[x]
Calm == flags' = flags /\ target' = target /\ trapped' = trapped

(* Operands are read as they were when the instruction began. *)
LEMMA Operands ==
  ASSUME WordsKept
  PROVE  /\ cell[inst.left] = LeftValue /\ cell[inst.right] = RightValue
         /\ LeftValue \in Word /\ RightValue \in Word
         /\ inst.left \in Places /\ inst.right \in Places /\ inst.dest \in Places
         /\ Places \subseteq Cells /\ Local \in Cells /\ Scratch \subseteq Cells
         /\ \A p \in Places : p \notin Scratch /\ p # Local /\ p \notin {"#0", "#k"}
         /\ (inst.op # "store_local" => cell[Local] = before[Local])
         /\ cell[Local] \in Word /\ before[Local] \in Word
<1>1. inst.left \in Places /\ inst.right \in Places /\ inst.dest \in Places
  BY DEF WordsKept, Instructions
<1>2. Places \subseteq Cells /\ Local \in Cells /\ Scratch \subseteq Cells
  BY DEF Cells
<1>3. \A p \in Places : p \notin Scratch /\ p # Local /\ p \notin {"#0", "#k"}
  BY PlacesAssumption
<1>4. ASSUME NEW c \in Places, c # inst.dest  PROVE cell[c] = before[c]
  BY <1>3, <1>4 DEF WordsKept, OthersUntouched
<1>5. inst.left # inst.dest /\ inst.right # inst.dest
  BY DEF WordsKept
<1>6. cell[inst.left] = LeftValue /\ cell[inst.right] = RightValue
  BY <1>1, <1>4, <1>5 DEF LeftValue, RightValue
<1>7. \A c \in Cells : cell[c] \in Word /\ before[c] \in Word
  BY DEF WordsKept
<1>8. LeftValue \in Word /\ RightValue \in Word
  BY <1>1, <1>2, <1>7 DEF LeftValue, RightValue
<1>9. inst.op # "store_local" => cell[Local] = before[Local]
  BY <1>1, <1>3 DEF WordsKept, OthersUntouched
<1> QED  BY <1>1, <1>2, <1>3, <1>6, <1>7, <1>8, <1>9

(* A line that writes a cell the instruction may write. *)
LEMMA WriteKeeps ==
  ASSUME WordsKept, inst' = inst, before' = before, NEW c \in Cells, MayWrite(c), NEW v \in Word,
         cell' = [cell EXCEPT ![c] = v]
  PROVE  WordsKept' /\ Sets(c, v)
<1>1. cell \in [Cells -> Word] /\ before \in [Cells -> Word]
  BY DEF WordsKept
<1>2. Sets(c, v) /\ cell' \in [Cells -> Word]
  BY <1>1 DEF Sets
<1>3. \A p \in Places : p \notin Scratch
  BY PlacesAssumption
<1>4. Local \notin Scratch
  BY DEF Local, Scratch
<1>5. ASSUME NEW x \in Places \cup {Local}, x # inst.dest
      PROVE  cell'[x] = before[x] \/ (inst.op = "store_local" /\ x = Local)
  <2>1. cell[x] = before[x] \/ (inst.op = "store_local" /\ x = Local)
    BY <1>5 DEF WordsKept, OthersUntouched
  <2>2. x \in Cells
    BY DEF Cells
  <2>3. CASE x = c
    BY <1>3, <1>4, <1>5, <2>3 DEF MayWrite
  <2>4. CASE x # c
    BY <1>2, <2>1, <2>2, <2>4 DEF Sets
  <2> QED  BY <2>3, <2>4
<1>6. OthersUntouched'
  BY <1>5 DEF OthersUntouched
<1> QED  BY <1>1, <1>2, <1>6 DEF WordsKept

(* mov writes one cell. *)
LEMMA MovRuns ==
  ASSUME WordsKept, Step, NEW c \in Cells, MayWrite(c), NEW from, NEW rest,
         IsNext(Line("mov", c, from), rest), NEW v \in Word, v = Value(from)
  PROVE  WordsKept' /\ Sets(c, v) /\ Goes(rest) /\ Calm
<1>1. PICK ln : ln = Line("mov", c, from)
  OBVIOUS
<1>2. ln.op = "mov" /\ ln.to = c /\ ln.from = from
  BY <1>1 DEF Line
<1>3. Mov(ln) /\ UNCHANGED <<inst, before>>
  BY <1>1, <1>2 DEF Step, IsNext, Compute, Cmp, SetCc, Idiv, CallLine, Jump, CmpOps
<1>4. cell' = [cell EXCEPT ![c] = v] /\ Goes(rest) /\ Calm
  BY <1>1, <1>2, <1>3 DEF Mov, SetCell, Goes, Calm, IsNext
<1>5. WordsKept' /\ Sets(c, v)
  BY <1>4, WriteKeeps DEF Goes
<1> QED  BY <1>4, <1>5

(* Arithmetic in a scratch register: add, sub, imul, neg, cqo and movzx. *)
LEMMA ComputeRuns ==
  ASSUME WordsKept, Step, NEW op \in {"+", "-", "*", "neg", "cqo", "movzx"},
         NEW c \in Scratch, NEW from, NEW rest, IsNext(Line(op, c, from), rest),
         NEW v \in Word,
         v = CASE op = "neg" -> Wrap(-cell[c])
               [] op = "cqo" -> IF Signed(cell["rax"]) < 0 THEN Modulus - 1 ELSE 0
               [] op = "movzx" -> LowByte(cell["rax"])
               [] OTHER -> Arithmetic(op, cell[c], cell[from])
  PROVE  WordsKept' /\ Sets(c, v) /\ Goes(rest) /\ Calm
<1>1. PICK ln : ln = Line(op, c, from)
  OBVIOUS
<1>2. ln.op = op /\ ln.to = c /\ ln.from = from
  BY <1>1 DEF Line
<1>3. Compute(ln) /\ UNCHANGED <<inst, before>>
  BY <1>1, <1>2 DEF Step, IsNext, Mov, Cmp, SetCc, Idiv, CallLine, Jump, CmpOps
<1>4. cell' = [cell EXCEPT ![c] = v] /\ Goes(rest) /\ Calm
  BY <1>1, <1>2, <1>3 DEF Compute, SetCell, Goes, Calm, IsNext
<1>5. c \in Cells /\ MayWrite(c)
  BY DEF Cells, MayWrite
<1>6. WordsKept' /\ Sets(c, v)
  BY <1>4, <1>5, WriteKeeps DEF Goes
<1> QED  BY <1>4, <1>6

(* cmp writes the flags only. *)
LEMMA CmpRuns ==
  ASSUME WordsKept, Step, NEW c, NEW from, NEW rest, IsNext(Line("cmp", c, from), rest)
  PROVE  /\ WordsKept' /\ cell' = cell /\ Goes(rest) /\ flags' = <<cell[c], Value(from)>>
         /\ target' = target /\ trapped' = trapped
<1>1. PICK ln : ln = Line("cmp", c, from)
  OBVIOUS
<1>2. ln.op = "cmp" /\ ln.to = c /\ ln.from = from
  BY <1>1 DEF Line
<1>3. Cmp(ln) /\ UNCHANGED <<inst, before>>
  BY <1>1, <1>2 DEF Step, IsNext, Mov, Compute, SetCc, Idiv, CallLine, Jump, CmpOps
<1>4. /\ cell' = cell /\ Goes(rest) /\ flags' = <<cell[c], Value(from)>>
      /\ target' = target /\ trapped' = trapped
  BY <1>1, <1>2, <1>3 DEF Cmp, Goes, IsNext
<1>5. WordsKept'
  BY <1>4 DEF Goes, WordsKept, OthersUntouched
<1> QED  BY <1>4, <1>5

(* setcc leaves its bit in the low byte of rax. *)
LEMMA SetCcRuns ==
  ASSUME WordsKept, Step, NEW op \in CmpOps, NEW to, NEW from, NEW rest,
         IsNext(Line(op, to, from), rest), NEW y \in {0, 1}, y = Bit(Holds(op, flags[1], flags[2]))
  PROVE  WordsKept' /\ LowByte(cell'["rax"]) = y /\ Goes(rest) /\ Calm
<1>1. PICK ln : ln = Line(op, to, from)
  OBVIOUS
<1>2. ln.op = op
  BY <1>1 DEF Line
<1>3. SetCc(ln) /\ UNCHANGED <<inst, before>>
  BY <1>1, <1>2 DEF Step, IsNext, Mov, Compute, Cmp, Idiv, CallLine, Jump, CmpOps
<1>4. "rax" \in Cells /\ "rax" \in Scratch /\ MayWrite("rax")
  BY DEF Cells, Scratch, MayWrite
<1>5. PICK x \in Word : x = cell["rax"]
  BY <1>4 DEF WordsKept
<1>6. PICK v \in Word : v = x - LowByte(x) + y /\ LowByte(v) = y
  BY ByteSet
<1>7. cell' = [cell EXCEPT !["rax"] = v] /\ Goes(rest) /\ Calm
  BY <1>1, <1>2, <1>3, <1>5, <1>6 DEF SetCc, SetCell, Goes, Calm, IsNext
<1>8. WordsKept' /\ Sets("rax", v)
  BY <1>4, <1>7, WriteKeeps DEF Goes
<1> QED  BY <1>6, <1>7, <1>8 DEF Sets

(* jmp leaves the instruction, and jne when the flags differ. *)
LEMMA JumpRuns ==
  ASSUME WordsKept, Step, NEW op \in {"jmp", "jne"}, NEW to, NEW from, NEW rest,
         IsNext(Line(op, to, from), rest)
  PROVE  /\ WordsKept' /\ cell' = cell /\ inst' = inst /\ before' = before /\ trapped' = trapped
         /\ flags' = flags
         /\ op = "jmp" \/ flags[1] # flags[2] => target' = to /\ lines' = <<>>
         /\ op = "jne" /\ flags[1] = flags[2] => target' = target /\ lines' = rest
<1>1. PICK ln : ln = Line(op, to, from)
  OBVIOUS
<1>2. ln.op = op /\ ln.to = to
  BY <1>1 DEF Line
<1>3. Jump(ln) /\ UNCHANGED <<inst, before>>
  BY <1>1, <1>2 DEF Step, IsNext, Mov, Compute, Cmp, SetCc, Idiv, CallLine, CmpOps
<1>4. /\ cell' = cell /\ inst' = inst /\ before' = before /\ trapped' = trapped /\ flags' = flags
      /\ op = "jmp" \/ flags[1] # flags[2] => target' = to /\ lines' = <<>>
      /\ op = "jne" /\ flags[1] = flags[2] => target' = target /\ lines' = rest
  BY <1>1, <1>2, <1>3 DEF Jump, JumpTo, IsNext
<1>5. WordsKept'
  BY <1>4 DEF WordsKept, OthersUntouched
<1> QED  BY <1>4, <1>5

(* A call writes rax and the other scratch registers. *)
LEMMA CallRuns ==
  ASSUME WordsKept, Step, NEW to, NEW rest, IsNext(Line("call", to, ""), rest)
  PROVE  /\ WordsKept' /\ Goes(rest) /\ target' = to /\ trapped' = trapped /\ flags' = flags
         /\ cell'["rax"] = CalleeResult(cell["rdi"], cell["rsi"])
<1>1. PICK ln : ln = Line("call", to, "")
  OBVIOUS
<1>2. ln.op = "call" /\ ln.to = to
  BY <1>1 DEF Line
<1>3. CallLine(ln) /\ UNCHANGED <<inst, before>>
  BY <1>1, <1>2 DEF Step, IsNext, Mov, Compute, Cmp, SetCc, Idiv, Jump, CmpOps
<1>4. PICK v : v = CalleeResult(cell["rdi"], cell["rsi"])
  OBVIOUS
<1>5. "rax" \in Cells /\ "rdi" \in Cells /\ "rsi" \in Cells /\ Scratch \subseteq Cells
  BY DEF Cells, Scratch
<1>6. v \in Word /\ Modulus - 1 \in Word
  <2>1. cell["rdi"] \in Word /\ cell["rsi"] \in Word
    BY <1>5 DEF WordsKept
  <2> QED  BY <1>4, <2>1, ResultsAreWords, WordsHold
<1>7. /\ cell' = [c \in Cells |-> IF c = "rax" THEN v ELSE IF c \in Scratch THEN Modulus - 1 ELSE cell[c]]
      /\ Goes(rest) /\ target' = to /\ trapped' = trapped /\ flags' = flags
  BY <1>1, <1>2, <1>3, <1>4 DEF CallLine, Goes, IsNext
<1>8. cell' \in [Cells -> Word] /\ cell'["rax"] = v
  BY <1>5, <1>6, <1>7 DEF WordsKept
<1>9. ASSUME NEW x \in Places \cup {Local}  PROVE cell'[x] = cell[x]
  <2>1. x \notin Scratch /\ x \in Cells
    BY PlacesAssumption DEF Cells, Local, Scratch
  <2>2. x # "rax"
    BY <2>1 DEF Scratch
  <2> QED  BY <1>7, <2>1, <2>2
<1>10. OthersUntouched'
  BY <1>7, <1>9 DEF WordsKept, OthersUntouched, Goes
<1>11. WordsKept'
  BY <1>7, <1>8, <1>10 DEF WordsKept, Goes
<1> QED  BY <1>4, <1>7, <1>8, <1>11

(* The dividend cqo prepares, and the quotients that fit. *)
Extended(x) == IF Signed(x) < 0 THEN Modulus - 1 ELSE 0
LEMMA SignExtends ==
  ASSUME NEW x \in Word
  PROVE  /\ Signed(Extended(x)) * Modulus + x = Signed(x) /\ Extended(x) \in Word
         /\ Signed(x) \in Int /\ Modulus \in Nat
         /\ \A h \in Nat : Modulus = 2 * h => Signed(x) \in -h .. h - 1
<1>1. PICK h \in Nat \ {0, 1} : Modulus = 2 * h /\ Word = 0 .. Modulus - 1
  BY Widths
<1>2. Signed(x) = IF x < h THEN x ELSE x - 2 * h
  BY <1>1 DEF Signed
<1>3. x \in 0 .. 2 * h - 1
  BY <1>1
<1>4. Signed(x) \in -h .. h - 1
  BY <1>1, <1>2, <1>3
<1>5. \A g \in Nat : Modulus = 2 * g => g = h
  BY <1>1
<1>6. Signed(0) = 0 /\ Signed(2 * h - 1) = -1
  BY <1>1 DEF Signed
<1>7. CASE x < h
  <2>1. Extended(x) = 0
    BY <1>1, <1>2, <1>3, <1>7 DEF Extended
  <2> QED  BY <1>1, <1>2, <1>3, <1>4, <1>6, <1>7, <1>5, <2>1
<1>8. CASE ~(x < h)
  <2>1. Extended(x) = 2 * h - 1
    BY <1>1, <1>2, <1>3, <1>8 DEF Extended
  <2> QED  BY <1>1, <1>2, <1>3, <1>4, <1>6, <1>8, <1>5, <2>1
<1> QED  BY <1>7, <1>8, <1>5

(* The quotient of a number is at most the number. *)
LEMMA QuotientWithin ==
  ASSUME NEW c \in Nat, NEW d \in Nat \ {0}, NEW q \in Int, NEW r \in 0 .. d - 1, c = q * d + r
  PROVE  q \in 0 .. c
<1>1. q >= 0
  <2>1. CASE q =< -1
    <3>1. q * d =< -d
      BY <2>1
    <3> QED  BY <3>1
  <2> QED  BY <2>1
<1>2. PICK e \in Nat : d = e + 1
  <2>1. d - 1 \in Nat /\ d = (d - 1) + 1
    OBVIOUS
  <2> QED  BY <2>1
<1>3. PICK m \in Nat : m = q * e
  BY <1>1, <1>2
<1>4. q * d = m + q
  BY <1>2, <1>3
<1> QED  BY <1>1, <1>3, <1>4

(* A quotient of two words is a word, but for the least one by -1. *)
LEMMA Quotients ==
  ASSUME NEW h \in Nat \ {0, 1}, NEW a \in -h .. h - 1, NEW b \in -h .. h - 1, b # 0
  PROVE  /\ Quotient(a, b) \in Int /\ Remainder(a, b) \in Int
         /\ ~(a = -h /\ b = -1) => Quotient(a, b) \in -h .. h - 1
<1>1. PICK c \in 0 .. h : c = Abs(a)
  BY DEF Abs
<1>2. PICK d \in Nat \ {0} : d = Abs(b)
  BY DEF Abs
<1>3. PICK q \in Int, r \in 0 .. d - 1 : q = c \div d /\ r = c % d /\ c = q * d + r
  <2>1. c \in Int
    BY <1>1
  <2> QED  BY <1>2, <2>1, Division, Zenon
<1>4. q \in 0 .. c
  <2>1. c \in Nat
    BY <1>1
  <2> QED  BY <1>2, <1>3, <2>1, QuotientWithin
<1>5. q \in Int /\ q >= 0 /\ q =< c /\ c =< h
  BY <1>1, <1>4
<1>6. Quotient(a, b) = q * (IF (a < 0) = (b < 0) THEN 1 ELSE -1)
  BY <1>1, <1>2, <1>3 DEF Quotient
<1>7. Quotient(a, b) = IF (a < 0) = (b < 0) THEN q ELSE -q
  BY <1>5, <1>6
<1>8. Quotient(a, b) \in Int
  BY <1>5, <1>7
<1>9. Remainder(a, b) \in Int
  BY <1>8 DEF Remainder
<1>10. ASSUME ~(a = -h /\ b = -1)  PROVE Quotient(a, b) \in -h .. h - 1
  <2>1. CASE q < h
    BY <1>5, <1>7, <2>1
  <2>2. CASE q = h
    <3>1. c = h /\ a = -h
      BY <1>1, <1>5, <2>2 DEF Abs
    <3>2. d = 1
      <4>1. CASE d >= 2
        <5>1. h * d >= 2 * h
          BY <1>2, <4>1
        <5> QED  BY <1>3, <2>2, <3>1, <5>1
      <4> QED  BY <1>2, <4>1
    <3>3. b = 1
      BY <1>2, <1>10, <3>1, <3>2 DEF Abs
    <3> QED  BY <1>5, <1>7, <2>2, <3>1, <3>3
  <2>3. q < h \/ q = h
    BY <1>1, <1>5
  <2> QED  BY <2>1, <2>2, <2>3
<1> QED  BY <1>8, <1>9, <1>10

(* idiv after cqo divides the operands, or raises the error they deserve. *)
LEMMA IdivRuns ==
  ASSUME WordsKept, Step, NEW rest, IsNext(Line("idiv", "rax", "rcx"), rest), trapped = FALSE,
         cell["rax"] = LeftValue, cell["rcx"] = RightValue, cell["rdx"] = Extended(LeftValue)
  PROVE  /\ WordsKept' /\ inst' = inst /\ before' = before
         /\ \/ trapped' = TRUE /\ lines' = <<>> /\ ~Divisible
            \/ /\ trapped' = FALSE /\ lines' = rest
               /\ cell'["rax"] = Wrap(Quotient(Signed(LeftValue), Signed(RightValue)))
               /\ cell'["rdx"] = Wrap(Remainder(Signed(LeftValue), Signed(RightValue)))
<1>1. PICK ln : ln = Line("idiv", "rax", "rcx")
  OBVIOUS
<1>2. ln.op = "idiv"
  BY <1>1 DEF Line
<1>3. Idiv(ln) /\ inst' = inst /\ before' = before
  BY <1>1, <1>2 DEF Step, IsNext, Mov, Compute, Cmp, SetCc, CallLine, Jump, CmpOps
<1>4. LeftValue \in Word /\ RightValue \in Word
  BY Operands
<1>5. PICK h \in Nat \ {0, 1} : Modulus = 2 * h /\ Word = 0 .. Modulus - 1
  BY Widths
<1>6. PICK a \in -h .. h - 1 : a = Signed(LeftValue) /\ Dividend = a
  <2>1. Signed(LeftValue) \in -h .. h - 1
    BY <1>4, <1>5, SignExtends
  <2>2. Dividend = Signed(LeftValue)
    BY <1>4, SignExtends DEF Dividend
  <2> QED  BY <2>1, <2>2
<1>7. PICK b \in -h .. h - 1 : b = Signed(RightValue)
  BY <1>4, <1>5, SignExtends
<1>8. Modulus \div 2 = h
  <2>1. 2 * h = h * 2 + 0 /\ 2 * h \in Int /\ 0 \in 0 .. 2 - 1
    BY <1>5
  <2>2. (2 * h) \div 2 = h
    BY <2>1, DivisionUnique
  <2> QED  BY <1>5, <2>2
<1>9. CASE DivideError(b)
  <2>1. trapped' = TRUE /\ lines' = <<>> /\ cell' = cell
    BY <1>3, <1>7, <1>9 DEF Idiv
  <2>2. b = 0 \/ (a = -h /\ b = -1)
    BY <1>6, <1>8, <1>9, Quotients DEF DivideError
  <2>3. b = 0 => RightValue = 0
    BY <1>4, <1>5, <1>7 DEF Signed
  <2>4. a = -h => 2 * LeftValue = Modulus
    BY <1>4, <1>5, <1>6 DEF Signed
  <2>5. b = -1 => RightValue = Modulus - 1
    BY <1>4, <1>5, <1>7 DEF Signed
  <2>6. ~Divisible
    BY <2>2, <2>3, <2>4, <2>5 DEF Divisible
  <2>7. WordsKept'
    BY <1>3, <2>1 DEF WordsKept, OthersUntouched
  <2> QED  BY <1>3, <2>1, <2>6, <2>7
<1>10. CASE ~DivideError(b)
  <2>1. PICK v \in Word : v = Wrap(Quotient(a, b))
    BY <1>10, Quotients, WordsHold DEF DivideError
  <2>2. PICK w \in Word : w = Wrap(Remainder(a, b))
    BY <1>10, Quotients, WordsHold DEF DivideError
  <2>3. /\ cell' = [cell EXCEPT !["rax"] = v, !["rdx"] = w]
        /\ lines' = rest /\ trapped' = FALSE
    BY <1>1, <1>3, <1>6, <1>7, <1>10, <2>1, <2>2 DEF Idiv, IsNext
  <2>4. "rax" \in Cells /\ "rdx" \in Cells
    BY DEF Cells, Scratch
  <2>5. cell' \in [Cells -> Word] /\ cell'["rax"] = v /\ cell'["rdx"] = w
    BY <2>3, <2>4 DEF WordsKept
  <2>6. ASSUME NEW x \in Places \cup {Local}  PROVE cell'[x] = cell[x]
    <3>1. x \notin Scratch /\ x \in Cells
      BY PlacesAssumption DEF Cells, Local, Scratch
    <3>2. x # "rax" /\ x # "rdx"
      BY <3>1 DEF Scratch
    <3> QED  BY <2>3, <3>1, <3>2 DEF WordsKept
  <2>7. OthersUntouched'
    BY <1>3, <2>6 DEF WordsKept, OthersUntouched
  <2>8. WordsKept'
    BY <1>3, <2>5, <2>7 DEF WordsKept
  <2> QED  BY <1>3, <1>6, <1>7, <2>1, <2>2, <2>3, <2>5, <2>8
<1> QED  BY <1>9, <1>10

(***************************************************************************)
(* Where an instruction may be.  Ending, or the line before it, moves the  *)
(* result out of rax or rdx; a comparison has a condition and something to *)
(* compare with.                                                           *)
(***************************************************************************)
CompareOps == CmpOps \cup {"not", "nonzero"}
Condition == IF inst.op = "not" THEN "==" ELSE IF inst.op = "nonzero" THEN "!=" ELSE inst.op
Against == IF inst.op \in {"not", "nonzero"} THEN "#0" ELSE "rcx"
Ending(c) == Line("mov", inst.dest, c)
ResultIn == IF inst.op = "%" THEN "rdx" ELSE "rax"
LoadRight == Line("mov", "rcx", inst.right)

Transferred ==
  /\ inst.op = "br" => target = IF LeftValue # 0 THEN "then" ELSE "else"
  /\ inst.op = "print" => target = "print"
  /\ inst.op = "jmp" => target = "label"
  /\ inst.op = "ret" => target = "epilogue" /\ cell["rax"] = LeftValue
  /\ inst.op = "store_local" => cell[Local] = LeftValue

StartPoint == lines = Emit(inst)
DonePoint == lines = <<>> /\ (Writes => cell[inst.dest] = Meaning) /\ Transferred
EndPoint == Writes /\ \E c \in {"rax", "rdx"} : lines = <<Ending(c)>> /\ cell[c] = Meaning
StorePoint == inst.op = "store_local" /\ lines = <<Line("mov", Local, "rax")>>
  /\ cell["rax"] = LeftValue
NegPoint ==
  inst.op = "neg" /\ lines = <<Line("neg", "rax", ""), Ending("rax")>> /\ cell["rax"] = LeftValue
ArithmeticPoint ==
  /\ inst.op \in {"+", "-", "*"} /\ cell["rax"] = LeftValue
  /\ \/ lines = <<LoadRight, Line(inst.op, "rax", "rcx"), Ending("rax")>>
     \/ lines = <<Line(inst.op, "rax", "rcx"), Ending("rax")>> /\ cell["rcx"] = RightValue
ComparePoint ==
  /\ inst.op \in CompareOps
  /\ \/ /\ lines = <<LoadRight, Line("cmp", "rax", "rcx"), Line(inst.op, "al", ""),
                     Line("movzx", "rax", "al"), Ending("rax")>>
        /\ inst.op \in CmpOps /\ cell["rax"] = LeftValue
     \/ /\ lines = <<Line("cmp", "rax", Against), Line(Condition, "al", ""),
                     Line("movzx", "rax", "al"), Ending("rax")>>
        /\ cell["rax"] = LeftValue /\ (inst.op \in CmpOps => cell["rcx"] = RightValue)
     \/ /\ lines = <<Line(Condition, "al", ""), Line("movzx", "rax", "al"), Ending("rax")>>
        /\ Bit(Holds(Condition, flags[1], flags[2])) = Meaning
     \/ lines = <<Line("movzx", "rax", "al"), Ending("rax")>> /\ LowByte(cell["rax"]) = Meaning
DivisionPoint ==
  /\ inst.op \in {"/", "%"} /\ cell["rax"] = LeftValue
  /\ \/ lines = <<Line("cqo", "rdx", "rax"), LoadRight, Line("idiv", "rax", "rcx"),
                  Ending(ResultIn)>>
     \/ /\ cell["rdx"] = Extended(LeftValue)
        /\ lines = <<LoadRight, Line("idiv", "rax", "rcx"), Ending(ResultIn)>>
     \/ /\ cell["rdx"] = Extended(LeftValue) /\ cell["rcx"] = RightValue
        /\ lines = <<Line("idiv", "rax", "rcx"), Ending(ResultIn)>>
CallPoint ==
  /\ inst.op = "call" /\ cell["rdi"] = LeftValue
  /\ \/ lines = <<Line("mov", "rsi", inst.right), Line("call", "callee", ""), Ending("rax")>>
     \/ lines = <<Line("call", "callee", ""), Ending("rax")>> /\ cell["rsi"] = RightValue
PrintPoint == inst.op = "print" /\ lines = <<Line("call", "print", "")>>
BranchPoint ==
  /\ inst.op = "br"
  /\ \/ /\ lines = <<Line("cmp", "rax", "#0"), Line("jne", "then", ""), Line("jmp", "else", "")>>
        /\ cell["rax"] = LeftValue
     \/ lines = <<Line("jne", "then", ""), Line("jmp", "else", "")>> /\ flags = <<LeftValue, 0>>
     \/ lines = <<Line("jmp", "else", "")>> /\ LeftValue = 0
ReturnPoint ==
  inst.op = "ret" /\ lines = <<Line("jmp", "epilogue", "")>> /\ cell["rax"] = LeftValue

Somewhere ==
  \/ StartPoint \/ DonePoint \/ EndPoint \/ StorePoint \/ NegPoint \/ ArithmeticPoint
  \/ ComparePoint \/ DivisionPoint \/ CallPoint \/ PrintPoint \/ BranchPoint \/ ReturnPoint
DividedWrong == trapped = TRUE /\ lines = <<>> /\ inst.op \in {"/", "%"} /\ ~Divisible
EmissionInv ==
  /\ WordsKept /\ inst.op \notin {"&&", "||"}
  /\ \/ trapped = FALSE /\ Somewhere
     \/ DividedWrong

(* What the instructions are emitted as. *)
LEMMA EmitIs ==
  ASSUME WordsKept, inst.op \notin {"&&", "||"}
  PROVE  /\ inst.op \in {"const_int", "const_ptr"} /\ inst.dest \in RegPlaces =>
              Emit(inst) = <<Ending("#k")>>
         /\ inst.op \in {"const_int", "const_ptr"} /\ inst.dest \notin RegPlaces =>
              Emit(inst) = <<Line("mov", "rax", "#k"), Ending("rax")>>
         /\ inst.op = "load_local" /\ inst.dest \in RegPlaces => Emit(inst) = <<Ending(Local)>>
         /\ inst.op = "load_local" /\ inst.dest \notin RegPlaces =>
              Emit(inst) = <<Line("mov", "rax", Local), Ending("rax")>>
         /\ inst.op = "store_local" =>
              Emit(inst) = <<Line("mov", "rax", inst.left), Line("mov", Local, "rax")>>
         /\ inst.op = "neg" =>
              Emit(inst) = <<Line("mov", "rax", inst.left), Line("neg", "rax", ""), Ending("rax")>>
         /\ inst.op \in {"+", "-", "*"} =>
              Emit(inst) = <<Line("mov", "rax", inst.left), LoadRight, Line(inst.op, "rax",
                             "rcx"), Ending("rax")>>
         /\ inst.op \in {"not", "nonzero"} =>
              Emit(inst) = <<Line("mov", "rax", inst.left), Line("cmp", "rax", Against),
                             Line(Condition, "al", ""), Line("movzx", "rax", "al"), Ending("rax")>>
         /\ inst.op \in CmpOps =>
              Emit(inst) = <<Line("mov", "rax", inst.left), LoadRight, Line("cmp", "rax", "rcx"),
                             Line(inst.op, "al", ""), Line("movzx", "rax", "al"), Ending("rax")>>
         /\ inst.op \in {"/", "%"} =>
              Emit(inst) = <<Line("mov", "rax", inst.left), Line("cqo", "rdx", "rax"), LoadRight,
                             Line("idiv", "rax", "rcx"), Ending(ResultIn)>>
         /\ inst.op = "call" =>
              Emit(inst) = <<Line("mov", "rdi", inst.left), Line("mov", "rsi", inst.right),
                             Line("call", "callee", ""), Ending("rax")>>
         /\ inst.op = "print" =>
              Emit(inst) = <<Line("mov", "rdi", inst.left), Line("call", "print", "")>>
         /\ inst.op = "br" =>
              Emit(inst) = <<Line("mov", "rax", inst.left), Line("cmp", "rax", "#0"),
                             Line("jne", "then", ""), Line("jmp", "else", "")>>
         /\ inst.op = "jmp" => Emit(inst) = <<Line("jmp", "label", "")>>
         /\ inst.op = "ret" =>
              Emit(inst) = <<Line("mov", "rax", inst.left), Line("jmp", "epilogue", "")>>
<1>1. /\ inst.left \in Places /\ inst.right \in Places /\ inst.dest \in Places
      /\ \A p \in Places : p \notin {"rax", "rcx", "rdx", "rdi", "rsi", "#0", "#k"}
  BY Operands DEF Scratch
<1>2. \A p \in Places, c \in {"rax", "rcx", "rdx", "rdi", "rsi"} :
        Move(c, p) = <<Line("mov", c, p)>> /\ Move(p, c) = <<Line("mov", p, c)>>
  BY <1>1 DEF Move
<1>3. CASE inst.op \in {"const_int", "const_ptr"}
  BY <1>3 DEF Emit, IntoDest, Ending, CmpOps
<1>4. CASE inst.op = "load_local"
  BY <1>4 DEF Emit, IntoDest, Ending, CmpOps
<1>5. CASE inst.op = "store_local"
  <2>1. Emit(inst) = Move("rax", inst.left) \o <<Line("mov", Local, "rax")>>
    BY <1>5 DEF Emit, CmpOps
  <2>2. Emit(inst) = <<Line("mov", "rax", inst.left)>> \o <<Line("mov", Local, "rax")>>
    BY <1>1, <1>2, <1>5, <2>1 DEF CmpOps
  <2>3. Emit(inst) = <<Line("mov", "rax", inst.left), Line("mov", Local, "rax")>>
    BY <2>2, JoinTwo, Zenon
  <2> QED  BY <1>5, <2>3 DEF CmpOps
<1>6. CASE inst.op = "neg"
  <2>1. Emit(inst) = Move("rax", inst.left) \o <<Line("neg", "rax", "")>> \o Move(inst.dest, "rax")
    BY <1>6 DEF Emit, CmpOps
  <2>2. Emit(inst) = <<Line("mov", "rax", inst.left)>> \o <<Line("neg", "rax", "")>>
          \o <<Ending("rax")>>
    BY <1>1, <1>2, <1>6, <2>1 DEF CmpOps, Ending
  <2>3. Emit(inst) = <<Line("mov", "rax", inst.left), Line("neg", "rax", ""), Ending("rax")>>
    BY <2>2, JoinThree, Zenon
  <2> QED  BY <1>6, <2>3 DEF CmpOps
<1>7. CASE inst.op \in {"+", "-", "*"}
  <2>1. Emit(inst) = EmitArithmetic(inst.op, inst.dest, inst.left, inst.right)
    BY <1>7 DEF Emit, CmpOps
  <2>2. Emit(inst) = <<Line("mov", "rax", inst.left)>> \o <<LoadRight>>
          \o <<Line(inst.op, "rax", "rcx")>> \o <<Ending("rax")>>
    BY <1>1, <1>2, <1>7, <2>1 DEF CmpOps, EmitArithmetic, LoadRight, Ending
  <2>3. Emit(inst) = <<Line("mov", "rax", inst.left), LoadRight, Line(inst.op, "rax", "rcx"),
                       Ending("rax")>>
    BY <2>2, JoinFour, Zenon
  <2> QED  BY <1>7, <2>3 DEF CmpOps
<1>8. CASE inst.op \in {"not", "nonzero"}
  <2>1. Emit(inst) = EmitCompare(Condition, inst.dest, inst.left, "#0")
    BY <1>8 DEF Emit, CmpOps, Condition
  <2>2. Emit(inst) = <<Line("mov", "rax", inst.left)>> \o <<>>
          \o <<Line("cmp", "rax", Against), Line(Condition, "al", ""), Line("movzx", "rax", "al")>>
          \o <<Ending("rax")>>
    BY <1>1, <1>2, <1>8, <2>1 DEF CmpOps, EmitCompare, Against, Ending
  <2>3. Emit(inst) = <<Line("mov", "rax", inst.left), Line("cmp", "rax", Against),
                       Line(Condition, "al", ""), Line("movzx", "rax", "al"), Ending("rax")>>
    <3>1. PICK a, b, c, d, e :
            /\ a = Line("mov", "rax", inst.left) /\ b = Line("cmp", "rax", Against)
            /\ c = Line(Condition, "al", "") /\ d = Line("movzx", "rax", "al") /\ e = Ending("rax")
      OBVIOUS
    <3>2. <<a>> \o <<>> \o <<b, c, d>> \o <<e>> = <<a, b, c, d, e>>
      BY JoinTest
    <3> QED  BY <2>2, <3>1, <3>2, Zenon
  <2> QED  BY <1>8, <2>3 DEF CmpOps
<1>9. CASE inst.op \in CmpOps
  <2>1. Emit(inst) = EmitCompare(inst.op, inst.dest, inst.left, inst.right)
    BY <1>9 DEF Emit, CmpOps
  <2>2. Emit(inst) = <<Line("mov", "rax", inst.left)>> \o <<LoadRight>>
          \o <<Line("cmp", "rax", "rcx"), Line(inst.op, "al", ""), Line("movzx", "rax", "al")>>
          \o <<Ending("rax")>>
    <3>1. inst.right # "#0"
      BY <1>1
    <3>2. Move("rax", inst.left) = <<Line("mov", "rax", inst.left)>>
            /\ Move("rcx", inst.right) = <<LoadRight>>
      BY <1>1, <1>2 DEF LoadRight
    <3>3. Move(inst.dest, "rax") = <<Ending("rax")>>
      BY <1>1, <1>2 DEF Ending
    <3>4. EmitCompare(inst.op, inst.dest, inst.left, inst.right) =
            Move("rax", inst.left) \o Move("rcx", inst.right)
              \o <<Line("cmp", "rax", "rcx"), Line(inst.op, "al", ""), Line("movzx", "rax", "al")>>
              \o Move(inst.dest, "rax")
      BY <3>1, Zenon DEF EmitCompare
    <3> QED  BY <2>1, <3>2, <3>3, <3>4, Zenon
  <2>3. Emit(inst) = <<Line("mov", "rax", inst.left), LoadRight, Line("cmp", "rax", "rcx"),
                       Line(inst.op, "al", ""), Line("movzx", "rax", "al"), Ending("rax")>>
    <3>1. PICK a, b, c, d, e, f :
            /\ a = Line("mov", "rax", inst.left) /\ b = LoadRight /\ c = Line("cmp", "rax", "rcx")
            /\ d = Line(inst.op, "al", "") /\ e = Line("movzx", "rax", "al") /\ f = Ending("rax")
      OBVIOUS
    <3>2. <<a>> \o <<b>> \o <<c, d, e>> \o <<f>> = <<a, b, c, d, e, f>>
      BY JoinCompare
    <3> QED  BY <2>2, <3>1, <3>2, Zenon
  <2> QED  BY <1>9, <2>3 DEF CmpOps
<1>10. CASE inst.op \in {"/", "%"}
  <2>1. Emit(inst) = EmitDivision(inst.op, inst.dest, inst.left, inst.right)
    BY <1>10 DEF Emit, CmpOps
  <2>2. Emit(inst) = <<Line("mov", "rax", inst.left)>> \o <<Line("cqo", "rdx", "rax")>>
          \o <<LoadRight>> \o <<Line("idiv", "rax", "rcx")>> \o <<Ending(ResultIn)>>
    <3>1. Move(inst.dest, IF inst.op = "/" THEN "rax" ELSE "rdx") = <<Ending(ResultIn)>>
      BY <1>1, <1>2, <1>10 DEF Ending, ResultIn
    <3>2. Move("rax", inst.left) = <<Line("mov", "rax", inst.left)>>
            /\ Move("rcx", inst.right) = <<LoadRight>>
      BY <1>1, <1>2 DEF LoadRight
    <3>3. EmitDivision("/", inst.dest, inst.left, inst.right) =
            Move("rax", inst.left) \o <<Line("cqo", "rdx", "rax")>> \o Move("rcx", inst.right)
              \o <<Line("idiv", "rax", "rcx")>> \o Move(inst.dest, "rax")
      BY Zenon DEF EmitDivision
    <3>4. EmitDivision("%", inst.dest, inst.left, inst.right) =
            Move("rax", inst.left) \o <<Line("cqo", "rdx", "rax")>> \o Move("rcx", inst.right)
              \o <<Line("idiv", "rax", "rcx")>> \o Move(inst.dest, "rdx")
      BY Zenon DEF EmitDivision
    <3>5. CASE inst.op = "/"
      <4>1. Move(inst.dest, "rax") = <<Ending(ResultIn)>>
        BY <3>1, <3>5
      <4> QED  BY <2>1, <3>2, <3>3, <3>5, <4>1, Zenon
    <3>6. CASE inst.op = "%"
      <4>1. Move(inst.dest, "rdx") = <<Ending(ResultIn)>>
        BY <3>1, <3>6
      <4> QED  BY <2>1, <3>2, <3>4, <3>6, <4>1, Zenon
    <3> QED  BY <1>10, <3>5, <3>6
  <2>3. Emit(inst) = <<Line("mov", "rax", inst.left), Line("cqo", "rdx", "rax"), LoadRight,
                       Line("idiv", "rax", "rcx"), Ending(ResultIn)>>
    <3>1. PICK a, b, c, d, e :
            /\ a = Line("mov", "rax", inst.left) /\ b = Line("cqo", "rdx", "rax") /\ c = LoadRight
            /\ d = Line("idiv", "rax", "rcx") /\ e = Ending(ResultIn)
      OBVIOUS
    <3>2. <<a>> \o <<b>> \o <<c>> \o <<d>> \o <<e>> = <<a, b, c, d, e>>
      BY JoinFive
    <3> QED  BY <2>2, <3>1, <3>2, Zenon
  <2> QED  BY <1>10, <2>3 DEF CmpOps
<1>11. CASE inst.op = "call"
  <2>1. Emit(inst) = Move("rdi", inst.left) \o Move("rsi", inst.right)
                        \o <<Line("call", "callee", "")>> \o Move(inst.dest, "rax")
    BY <1>11 DEF Emit, CmpOps
  <2>2. Emit(inst) = <<Line("mov", "rdi", inst.left)>> \o <<Line("mov", "rsi", inst.right)>>
          \o <<Line("call", "callee", "")>> \o <<Ending("rax")>>
    BY <1>1, <1>2, <1>11, <2>1 DEF CmpOps, Ending
  <2>3. Emit(inst) = <<Line("mov", "rdi", inst.left), Line("mov", "rsi", inst.right),
                       Line("call", "callee", ""), Ending("rax")>>
    BY <2>2, JoinFour, Zenon
  <2> QED  BY <1>11, <2>3 DEF CmpOps
<1>12. CASE inst.op = "print"
  <2>1. Emit(inst) = Move("rdi", inst.left) \o <<Line("call", "print", "")>>
    BY <1>12 DEF Emit, CmpOps
  <2>2. Emit(inst) = <<Line("mov", "rdi", inst.left)>> \o <<Line("call", "print", "")>>
    BY <1>1, <1>2, <1>12, <2>1 DEF CmpOps
  <2>3. Emit(inst) = <<Line("mov", "rdi", inst.left), Line("call", "print", "")>>
    BY <2>2, JoinTwo, Zenon
  <2> QED  BY <1>12, <2>3 DEF CmpOps
<1>13. CASE inst.op = "br"
  <2>1. Emit(inst) = EmitBranch(inst.left)
    BY <1>13 DEF Emit, CmpOps
  <2>2. Emit(inst) = <<Line("mov", "rax", inst.left)>>
          \o <<Line("cmp", "rax", "#0"), Line("jne", "then", ""), Line("jmp", "else", "")>>
    BY <1>1, <1>2, <1>13, <2>1 DEF CmpOps, EmitBranch
  <2>3. Emit(inst) = <<Line("mov", "rax", inst.left), Line("cmp", "rax", "#0"),
                       Line("jne", "then", ""), Line("jmp", "else", "")>>
    BY <2>2, JoinBranch, Zenon
  <2> QED  BY <1>13, <2>3 DEF CmpOps
<1>14. CASE inst.op = "jmp"
  BY <1>14 DEF Emit, CmpOps
<1>15. CASE inst.op = "ret"
  <2>1. Emit(inst) = Move("rax", inst.left) \o <<Line("jmp", "epilogue", "")>>
    BY <1>15 DEF Emit, CmpOps
  <2>2. Emit(inst) = <<Line("mov", "rax", inst.left)>> \o <<Line("jmp", "epilogue", "")>>
    BY <1>1, <1>2, <1>15, <2>1 DEF CmpOps
  <2>3. Emit(inst) = <<Line("mov", "rax", inst.left), Line("jmp", "epilogue", "")>>
    BY <2>2, JoinTwo, Zenon
  <2> QED  BY <1>15, <2>3 DEF CmpOps
<1> QED
  BY <1>3, <1>4, <1>5, <1>6, <1>7, <1>8, <1>9, <1>10, <1>11, <1>12, <1>13, <1>14, <1>15 DEF CmpOps

(* What they mean. *)
LEMMA MeaningIs ==
  /\ inst.op \in {"const_int", "const_ptr"} => Meaning = Literal
  /\ inst.op = "load_local" => Meaning = before[Local]
  /\ inst.op = "neg" => Meaning = Wrap(-LeftValue)
  /\ inst.op = "not" => Meaning = Bit(LeftValue = 0)
  /\ inst.op = "nonzero" => Meaning = Bit(LeftValue # 0)
  /\ inst.op = "/" => Meaning = Wrap(Quotient(Signed(LeftValue), Signed(RightValue)))
  /\ inst.op = "%" => Meaning = Wrap(Remainder(Signed(LeftValue), Signed(RightValue)))
  /\ inst.op \in CmpOps => Meaning = Bit(Holds(inst.op, LeftValue, RightValue))
  /\ inst.op = "call" => Meaning = CalleeResult(LeftValue, RightValue)
  /\ inst.op \in {"+", "-", "*"} => Meaning = Arithmetic(inst.op, LeftValue, RightValue)
<1>1. CASE inst.op \in {"const_int", "const_ptr", "load_local", "neg", "not", "nonzero", "/", "%"}
  BY <1>1 DEF Meaning, CmpOps
<1>2. CASE inst.op \in CmpOps
  BY <1>2 DEF Meaning, CmpOps
<1>3. CASE inst.op \in {"call", "+", "-", "*"}
  BY <1>3 DEF Meaning, CmpOps
<1> QED  BY <1>1, <1>2, <1>3

(* No line changes the instruction or what it was given. *)
LEMMA SameMeaning ==
  ASSUME inst' = inst, before' = before
  PROVE  /\ Meaning' = Meaning /\ LeftValue' = LeftValue /\ RightValue' = RightValue
         /\ (Writes' <=> Writes) /\ (Divisible' <=> Divisible)
         /\ Condition' = Condition /\ Against' = Against /\ ResultIn' = ResultIn
         /\ LoadRight' = LoadRight /\ \A c : Ending(c)' = Ending(c)
<1>1. LeftValue' = LeftValue /\ RightValue' = RightValue
  BY DEF LeftValue, RightValue
<1>2. Meaning' = Meaning
  BY <1>1 DEF Meaning
<1>3. /\ (Writes' <=> Writes) /\ (Divisible' <=> Divisible)
      /\ Condition' = Condition /\ Against' = Against /\ ResultIn' = ResultIn
  BY <1>1 DEF Writes, Divisible, Condition, Against, ResultIn
<1>4. LoadRight' = LoadRight /\ \A c : Ending(c)' = Ending(c)
  BY DEF LoadRight, Ending
<1> QED  BY <1>1, <1>2, <1>3, <1>4

(***************************************************************************)
(* One line at each of these points.                                       *)
(***************************************************************************)
Running == WordsKept /\ inst.op \notin {"&&", "||"} /\ trapped = FALSE /\ Step
Advances(rest) == WordsKept' /\ trapped' = FALSE /\ Goes(rest)

(* The instruction goes on at a known point. *)
LEMMA Arrives ==
  ASSUME Running, NEW rest, Advances(rest)
  PROVE  /\ Somewhere' => EmissionInv'
         /\ lines' = rest /\ inst' = inst /\ before' = before
         /\ Meaning' = Meaning /\ LeftValue' = LeftValue /\ RightValue' = RightValue
         /\ (Writes' <=> Writes)
         /\ Condition' = Condition /\ Against' = Against /\ ResultIn' = ResultIn
         /\ LoadRight' = LoadRight /\ \A c : Ending(c)' = Ending(c)
<1>1. inst' = inst /\ before' = before /\ lines' = rest
  BY DEF Advances, Goes
<1> QED  BY <1>1, SameMeaning DEF Running, Advances, EmissionInv

(* An operand is moved to a scratch register. *)
LEMMA LoadsOperand ==
  ASSUME Running, NEW c \in Scratch, NEW p \in {inst.left, inst.right}, NEW rest,
         IsNext(Line("mov", c, p), rest)
  PROVE  /\ Advances(rest) /\ flags' = flags
         /\ cell'[c] = before[p] /\ \A x \in Cells : x # c => cell'[x] = cell[x]
<1>1. WordsKept /\ Step /\ trapped = FALSE
  BY DEF Running
<1>2. c \in Cells /\ MayWrite(c)
  BY DEF Cells, MayWrite
<1>3. cell[p] = before[p] /\ before[p] \in Word /\ p \notin {"#0", "#k"}
  BY <1>1, Operands DEF LeftValue, RightValue
<1>4. PICK v \in Word : v = before[p]
  BY <1>3
<1>5. v = Value(p)
  BY <1>3, <1>4 DEF Value
<1>6. WordsKept' /\ Sets(c, v) /\ Goes(rest) /\ Calm
  BY <1>1, <1>2, <1>5, MovRuns
<1> QED  BY <1>1, <1>4, <1>6 DEF Advances, Sets, Calm

(* The last move. *)
LEMMA EndStep ==
  ASSUME Running, EndPoint
  PROVE  EmissionInv'
<1>1. WordsKept /\ Step /\ trapped = FALSE /\ Writes
  BY DEF Running, EndPoint
<1>2. PICK c \in {"rax", "rdx"} : lines = <<Ending(c)>> /\ cell[c] = Meaning
  BY DEF EndPoint
<1>3. c \in Cells /\ inst.dest \in Cells /\ MayWrite(inst.dest)
  BY <1>1, Operands DEF Scratch, MayWrite
<1>4. PICK v \in Word : v = cell[c]
  BY <1>1, <1>3 DEF WordsKept
<1>5. v = Value(c)
  BY <1>4 DEF Value
<1>6. IsNext(Line("mov", inst.dest, c), <<>>)
  BY <1>2, FirstLine DEF Ending
<1>7. WordsKept' /\ Sets(inst.dest, v) /\ Goes(<<>>) /\ Calm
  BY <1>1, <1>3, <1>5, <1>6, MovRuns
<1>8. Advances(<<>>) /\ cell'[inst.dest] = Meaning
  BY <1>1, <1>2, <1>4, <1>7 DEF Advances, Sets, Calm
<1>9. /\ Somewhere' => EmissionInv'
      /\ lines' = <<>> /\ inst' = inst /\ Meaning' = Meaning
  BY <1>8, Arrives
<1>10. Transferred'
  BY <1>1, <1>9 DEF Transferred, Writes
<1>11. DonePoint'
  BY <1>8, <1>9, <1>10 DEF DonePoint
<1> QED  BY <1>9, <1>11 DEF Somewhere

(* The value is already in rax: what is left is the last move. *)
LEMMA ReachesEnd ==
  ASSUME Running, Advances(<<Ending("rax")>>), Writes, cell'["rax"] = Meaning
  PROVE  EmissionInv'
<1>1. /\ Somewhere' => EmissionInv'
      /\ lines' = <<Ending("rax")>> /\ Meaning' = Meaning /\ (Writes' <=> Writes)
      /\ Ending("rax")' = Ending("rax")
  BY Arrives
<1>2. lines' = <<Ending("rax")>>' /\ cell'["rax"] = Meaning'
  BY <1>1
<1>3. EndPoint'
  BY <1>1, <1>2 DEF EndPoint
<1> QED  BY <1>1, <1>3 DEF Somewhere

(* store_local writes the local. *)
LEMMA StoreStep ==
  ASSUME Running, StorePoint
  PROVE  EmissionInv'
<1>1. /\ WordsKept /\ Step /\ trapped = FALSE /\ inst.op = "store_local"
      /\ lines = <<Line("mov", Local, "rax")>> /\ cell["rax"] = LeftValue
  BY DEF Running, StorePoint
<1>2. Local \in Cells /\ MayWrite(Local) /\ LeftValue \in Word
  BY <1>1, Operands DEF MayWrite
<1>3. LeftValue = Value("rax")
  BY <1>1 DEF Value
<1>4. IsNext(Line("mov", Local, "rax"), <<>>)
  BY <1>1, FirstLine
<1>5. WordsKept' /\ Sets(Local, LeftValue) /\ Goes(<<>>) /\ Calm
  BY <1>1, <1>2, <1>3, <1>4, MovRuns
<1>6. Advances(<<>>) /\ cell'[Local] = LeftValue
  BY <1>1, <1>5 DEF Advances, Sets, Calm
<1>7. /\ Somewhere' => EmissionInv'
      /\ lines' = <<>> /\ inst' = inst /\ LeftValue' = LeftValue
  BY <1>6, Arrives
<1>8. DonePoint'
  BY <1>1, <1>6, <1>7 DEF DonePoint, Transferred, Writes
<1> QED  BY <1>7, <1>8 DEF Somewhere

(* neg, in rax. *)
LEMMA NegStep ==
  ASSUME Running, NegPoint
  PROVE  EmissionInv'
<1>1. /\ WordsKept /\ Step /\ trapped = FALSE /\ inst.op = "neg"
      /\ lines = <<Line("neg", "rax", ""), Ending("rax")>> /\ cell["rax"] = LeftValue
  BY DEF Running, NegPoint
<1>2. IsNext(Line("neg", "rax", ""), <<Ending("rax")>>)
  BY <1>1, FirstLine
<1>3. PICK v \in Word : v = Wrap(-LeftValue)
  BY <1>1, Operands, ResultsAreWords
<1>4. "rax" \in Scratch
  BY DEF Scratch
<1>5. WordsKept' /\ Sets("rax", v) /\ Goes(<<Ending("rax")>>) /\ Calm
  BY <1>1, <1>2, <1>3, <1>4, ComputeRuns
<1>6. Advances(<<Ending("rax")>>) /\ cell'["rax"] = Meaning /\ Writes
  BY <1>1, <1>3, <1>5, MeaningIs DEF Advances, Sets, Calm, Writes
<1> QED  BY <1>6, ReachesEnd

(* add, sub and imul: the right operand to rcx, the operation in rax. *)
LEMMA ArithmeticStep ==
  ASSUME Running, ArithmeticPoint
  PROVE  EmissionInv'
<1>1. /\ WordsKept /\ Step /\ trapped = FALSE /\ inst.op \in {"+", "-", "*"}
        /\ cell["rax"] = LeftValue
  BY DEF Running, ArithmeticPoint
<1>2. {"rax", "rcx"} \subseteq Scratch /\ "rax" \in Cells
  BY DEF Scratch, Cells
<1>3. CASE lines = <<LoadRight, Line(inst.op, "rax", "rcx"), Ending("rax")>>
  <2>1. IsNext(Line("mov", "rcx", inst.right), <<Line(inst.op, "rax", "rcx"), Ending("rax")>>)
    BY <1>3, FirstLine DEF LoadRight
  <2>2. /\ Advances(<<Line(inst.op, "rax", "rcx"), Ending("rax")>>)
        /\ cell'["rcx"] = RightValue /\ cell'["rax"] = LeftValue
    BY <1>1, <1>2, <2>1, LoadsOperand DEF RightValue
  <2>3. /\ Somewhere' => EmissionInv'
        /\ lines' = <<Line(inst.op, "rax", "rcx"), Ending("rax")>> /\ inst' = inst
        /\ LeftValue' = LeftValue /\ RightValue' = RightValue /\ Ending("rax")' = Ending("rax")
    BY <2>2, Arrives
  <2>4. lines' = <<Line(inst.op, "rax", "rcx"), Ending("rax")>>'
    BY <2>3
  <2>5. ArithmeticPoint'
    BY <1>1, <2>2, <2>3, <2>4 DEF ArithmeticPoint
  <2> QED  BY <2>3, <2>5 DEF Somewhere
<1>4. CASE lines = <<Line(inst.op, "rax", "rcx"), Ending("rax")>> /\ cell["rcx"] = RightValue
  <2>1. IsNext(Line(inst.op, "rax", "rcx"), <<Ending("rax")>>)
    BY <1>4, FirstLine
  <2>2. PICK v \in Word : v = Arithmetic(inst.op, LeftValue, RightValue)
    BY <1>1, Operands, ResultsAreWords
  <2>3. v = CASE inst.op = "neg" -> Wrap(-cell["rax"])
              [] inst.op = "cqo" -> IF Signed(cell["rax"]) < 0 THEN Modulus - 1 ELSE 0
              [] inst.op = "movzx" -> LowByte(cell["rax"])
              [] OTHER -> Arithmetic(inst.op, cell["rax"], cell["rcx"])
    BY <1>1, <1>4, <2>2
  <2>4. WordsKept' /\ Sets("rax", v) /\ Goes(<<Ending("rax")>>) /\ Calm
    BY <1>1, <1>2, <2>1, <2>3, ComputeRuns
  <2>5. Advances(<<Ending("rax")>>) /\ cell'["rax"] = Meaning /\ Writes
    BY <1>1, <2>2, <2>4, MeaningIs DEF Advances, Sets, Calm, Writes
  <2> QED  BY <2>5, ReachesEnd
<1> QED  BY <1>3, <1>4 DEF ArithmeticPoint

(* What a comparison decides. *)
LEMMA ConditionMeans ==
  ASSUME inst.op \in CompareOps
  PROVE  /\ Condition \in CmpOps /\ Writes
         /\ inst.op \in CmpOps => Against = "rcx" /\ Condition = inst.op
         /\ inst.op \in {"not", "nonzero"} => Against = "#0"
         /\ Meaning = Bit(Holds(Condition, LeftValue, IF inst.op \in CmpOps THEN RightValue ELSE 0))
         /\ Meaning \in {0, 1}
<1>1. CASE inst.op = "not"
  <2>1. Condition = "==" /\ Against = "#0" /\ inst.op \notin CmpOps
    BY <1>1 DEF Condition, Against, CmpOps
  <2>2. Holds("==", LeftValue, 0) <=> LeftValue = 0
    BY DEF Holds
  <2>3. Meaning = Bit(LeftValue = 0)
    BY <1>1, MeaningIs
  <2> QED  BY <1>1, <2>1, <2>2, <2>3 DEF Bit, Writes, CmpOps
<1>2. CASE inst.op = "nonzero"
  <2>1. Condition = "!=" /\ Against = "#0" /\ inst.op \notin CmpOps
    BY <1>2 DEF Condition, Against, CmpOps
  <2>2. Holds("!=", LeftValue, 0) <=> LeftValue # 0
    BY DEF Holds
  <2>3. Meaning = Bit(LeftValue # 0)
    BY <1>2, MeaningIs
  <2> QED  BY <1>2, <2>1, <2>2, <2>3 DEF Bit, Writes, CmpOps
<1>3. CASE inst.op \in CmpOps
  <2>1. Condition = inst.op /\ Against = "rcx" /\ inst.op \notin {"not", "nonzero"}
    BY <1>3 DEF Condition, Against, CmpOps
  <2>2. Meaning = Bit(Holds(inst.op, LeftValue, RightValue))
    BY <1>3, MeaningIs
  <2>3. Writes
    BY <1>3 DEF CmpOps, Writes
  <2> QED  BY <1>3, <2>1, <2>2, <2>3 DEF Bit
<1> QED  BY <1>1, <1>2, <1>3 DEF CompareOps

(* A comparison: cmp, setcc and movzx. *)
LEMMA CompareStep ==
  ASSUME Running, ComparePoint
  PROVE  EmissionInv'
<1>1. WordsKept /\ Step /\ trapped = FALSE /\ inst.op \in CompareOps
  BY DEF Running, ComparePoint
<1>2. {"rax", "rcx"} \subseteq Scratch /\ "rax" \in Cells
  BY DEF Scratch, Cells
<1>3. ASSUME lines = <<LoadRight, Line("cmp", "rax", "rcx"), Line(inst.op, "al", ""),
                       Line("movzx", "rax", "al"), Ending("rax")>>,
             inst.op \in CmpOps, cell["rax"] = LeftValue
      PROVE  EmissionInv'
  <2>1. PICK rest : rest = <<Line("cmp", "rax", Against), Line(Condition, "al", ""),
                             Line("movzx", "rax", "al"), Ending("rax")>>
    OBVIOUS
  <2>2. Against = "rcx" /\ Condition = inst.op
    BY <1>1, <1>3, ConditionMeans
  <2>3. IsNext(Line("mov", "rcx", inst.right), rest)
    BY <1>3, <2>1, <2>2, FirstLine DEF LoadRight
  <2>4. Advances(rest) /\ cell'["rcx"] = RightValue /\ cell'["rax"] = LeftValue
    BY <1>2, <1>3, <2>3, LoadsOperand DEF RightValue
  <2>5. /\ Somewhere' => EmissionInv'
        /\ lines' = rest /\ inst' = inst
        /\ LeftValue' = LeftValue /\ RightValue' = RightValue
        /\ Condition' = Condition /\ Against' = Against /\ Ending("rax")' = Ending("rax")
    BY <2>4, Arrives
  <2>6. lines' = <<Line("cmp", "rax", Against), Line(Condition, "al", ""),
                   Line("movzx", "rax", "al"), Ending("rax")>>'
    BY <2>1, <2>5
  <2>7. ComparePoint'
    BY <1>1, <2>4, <2>5, <2>6 DEF ComparePoint
  <2> QED  BY <2>5, <2>7 DEF Somewhere
<1>4. ASSUME lines = <<Line("cmp", "rax", Against), Line(Condition, "al", ""),
                       Line("movzx", "rax", "al"), Ending("rax")>>,
             cell["rax"] = LeftValue, inst.op \in CmpOps => cell["rcx"] = RightValue
      PROVE  EmissionInv'
  <2>1. PICK rest : rest = <<Line(Condition, "al", ""), Line("movzx", "rax", "al"), Ending("rax")>>
    OBVIOUS
  <2>2. IsNext(Line("cmp", "rax", Against), rest)
    BY <1>4, <2>1, FirstLine
  <2>3. /\ WordsKept' /\ cell' = cell /\ Goes(rest) /\ flags' = <<LeftValue, Value(Against)>>
        /\ trapped' = FALSE
    BY <1>1, <1>4, <2>2, CmpRuns
  <2>4. Value(Against) = IF inst.op \in CmpOps THEN RightValue ELSE 0
    <3>1. CASE inst.op \in CmpOps
      BY <1>1, <1>4, <3>1, ConditionMeans DEF Value
    <3>2. CASE inst.op \notin CmpOps
      BY <1>1, <3>2, ConditionMeans DEF Value, CompareOps
    <3> QED  BY <3>1, <3>2
  <2>5. Advances(rest)
    BY <2>3 DEF Advances
  <2>6. /\ Somewhere' => EmissionInv'
        /\ lines' = rest /\ inst' = inst /\ Meaning' = Meaning
        /\ Condition' = Condition /\ Ending("rax")' = Ending("rax")
    BY <2>5, Arrives
  <2>7. lines' = <<Line(Condition, "al", ""), Line("movzx", "rax", "al"), Ending("rax")>>'
    BY <2>1, <2>6
  <2>8. flags'[1] = LeftValue /\ flags'[2] = Value(Against)
    BY <2>3
  <2>9. Bit(Holds(Condition', flags'[1], flags'[2])) = Meaning'
    BY <1>1, <2>4, <2>6, <2>8, ConditionMeans
  <2>10. ComparePoint'
    BY <1>1, <2>6, <2>7, <2>9 DEF ComparePoint
  <2> QED  BY <2>6, <2>10 DEF Somewhere
<1>5. ASSUME lines = <<Line(Condition, "al", ""), Line("movzx", "rax", "al"), Ending("rax")>>,
             Bit(Holds(Condition, flags[1], flags[2])) = Meaning
      PROVE  EmissionInv'
  <2>1. PICK rest : rest = <<Line("movzx", "rax", "al"), Ending("rax")>>
    OBVIOUS
  <2>2. IsNext(Line(Condition, "al", ""), rest)
    BY <1>5, <2>1, FirstLine
  <2>3. WordsKept' /\ LowByte(cell'["rax"]) = Meaning /\ Goes(rest) /\ Calm
    BY <1>1, <1>5, <2>2, ConditionMeans, SetCcRuns
  <2>4. Advances(rest)
    BY <1>1, <2>3 DEF Advances, Calm
  <2>5. /\ Somewhere' => EmissionInv'
        /\ lines' = rest /\ inst' = inst /\ Meaning' = Meaning /\ Ending("rax")' = Ending("rax")
    BY <2>4, Arrives
  <2>6. lines' = <<Line("movzx", "rax", "al"), Ending("rax")>>'
    BY <2>1, <2>5
  <2>7. ComparePoint'
    BY <1>1, <2>3, <2>5, <2>6 DEF ComparePoint
  <2> QED  BY <2>5, <2>7 DEF Somewhere
<1>6. ASSUME lines = <<Line("movzx", "rax", "al"), Ending("rax")>>, LowByte(cell["rax"]) = Meaning
      PROVE  EmissionInv'
  <2>1. IsNext(Line("movzx", "rax", "al"), <<Ending("rax")>>)
    BY <1>6, FirstLine
  <2>2. PICK v \in Word : v = Meaning
    BY <1>1, ConditionMeans, WordsHold
  <2>3. WordsKept' /\ Sets("rax", v) /\ Goes(<<Ending("rax")>>) /\ Calm
    BY <1>1, <1>2, <1>6, <2>1, <2>2, ComputeRuns
  <2>4. Advances(<<Ending("rax")>>) /\ cell'["rax"] = Meaning /\ Writes
    BY <1>1, <2>2, <2>3, ConditionMeans DEF Advances, Sets, Calm
  <2> QED  BY <2>4, ReachesEnd
<1> QED  BY <1>3, <1>4, <1>5, <1>6 DEF ComparePoint

(* A division: cqo, the divisor to rcx, idiv. *)
LEMMA DivisionStep ==
  ASSUME Running, DivisionPoint
  PROVE  EmissionInv'
<1>1. WordsKept /\ Step /\ trapped = FALSE /\ inst.op \in {"/", "%"} /\ cell["rax"] = LeftValue
  BY DEF Running, DivisionPoint
<1>2. {"rax", "rcx", "rdx"} \subseteq Scratch /\ {"rax", "rcx", "rdx"} \subseteq Cells
  BY DEF Scratch, Cells
<1>3. ASSUME lines = <<Line("cqo", "rdx", "rax"), LoadRight, Line("idiv", "rax", "rcx"),
                       Ending(ResultIn)>>
      PROVE  EmissionInv'
  <2>1. PICK rest : rest = <<LoadRight, Line("idiv", "rax", "rcx"), Ending(ResultIn)>>
    OBVIOUS
  <2>2. IsNext(Line("cqo", "rdx", "rax"), rest)
    BY <1>3, <2>1, FirstLine
  <2>3. PICK v \in Word : v = Extended(LeftValue)
    BY <1>1, Operands, SignExtends
  <2>4. v = IF Signed(cell["rax"]) < 0 THEN Modulus - 1 ELSE 0
    BY <1>1, <2>3 DEF Extended
  <2>5. WordsKept' /\ Sets("rdx", v) /\ Goes(rest) /\ Calm
    BY <1>1, <1>2, <2>2, <2>4, ComputeRuns
  <2>6. Advances(rest) /\ cell'["rdx"] = Extended(LeftValue) /\ cell'["rax"] = LeftValue
    BY <1>1, <1>2, <2>3, <2>5 DEF Advances, Sets, Calm
  <2>7. /\ Somewhere' => EmissionInv'
        /\ lines' = rest /\ inst' = inst /\ LeftValue' = LeftValue
        /\ LoadRight' = LoadRight /\ ResultIn' = ResultIn /\ \A c : Ending(c)' = Ending(c)
    BY <2>6, Arrives
  <2>8. lines' = <<LoadRight, Line("idiv", "rax", "rcx"), Ending(ResultIn)>>'
    BY <2>1, <2>7, <1>1 DEF LoadRight, Ending, ResultIn
  <2>9. cell'["rdx"] = Extended(LeftValue')
    BY <2>6, <2>7
  <2>10. DivisionPoint'
    BY <1>1, <2>6, <2>7, <2>8, <2>9 DEF DivisionPoint
  <2> QED  BY <2>7, <2>10 DEF Somewhere
<1>4. ASSUME lines = <<LoadRight, Line("idiv", "rax", "rcx"), Ending(ResultIn)>>,
             cell["rdx"] = Extended(LeftValue)
      PROVE  EmissionInv'
  <2>1. PICK rest : rest = <<Line("idiv", "rax", "rcx"), Ending(ResultIn)>>
    OBVIOUS
  <2>2. IsNext(Line("mov", "rcx", inst.right), rest)
    BY <1>4, <2>1, FirstLine DEF LoadRight
  <2>3. /\ Advances(rest) /\ cell'["rdx"] = Extended(LeftValue) /\ cell'["rax"] = LeftValue
        /\ cell'["rcx"] = RightValue
    BY <1>1, <1>2, <1>4, <2>2, LoadsOperand DEF RightValue
  <2>4. /\ Somewhere' => EmissionInv'
        /\ lines' = rest /\ inst' = inst /\ LeftValue' = LeftValue /\ RightValue' = RightValue
    BY <2>3, Arrives
  <2>5. lines' = <<Line("idiv", "rax", "rcx"), Ending(ResultIn)>>'
    BY <2>1, <2>4 DEF Ending, ResultIn
  <2>6. cell'["rdx"] = Extended(LeftValue')
    BY <2>3, <2>4
  <2>7. DivisionPoint'
    BY <1>1, <2>3, <2>4, <2>5, <2>6 DEF DivisionPoint
  <2> QED  BY <2>4, <2>7 DEF Somewhere
<1>5. ASSUME lines = <<Line("idiv", "rax", "rcx"), Ending(ResultIn)>>,
             cell["rdx"] = Extended(LeftValue), cell["rcx"] = RightValue
      PROVE  EmissionInv'
  <2>1. IsNext(Line("idiv", "rax", "rcx"), <<Ending(ResultIn)>>)
    BY <1>5, FirstLine
  <2>2. /\ WordsKept' /\ inst' = inst /\ before' = before
        /\ \/ trapped' = TRUE /\ lines' = <<>> /\ ~Divisible
           \/ /\ trapped' = FALSE /\ lines' = <<Ending(ResultIn)>>
              /\ cell'["rax"] = Wrap(Quotient(Signed(LeftValue), Signed(RightValue)))
              /\ cell'["rdx"] = Wrap(Remainder(Signed(LeftValue), Signed(RightValue)))
    BY <1>1, <1>5, <2>1, IdivRuns
  <2>3. CASE trapped' = TRUE /\ lines' = <<>> /\ ~Divisible
    <3>1. ~Divisible'
      BY <2>2, <2>3, SameMeaning
    <3>2. DividedWrong'
      BY <1>1, <2>2, <2>3, <3>1 DEF DividedWrong
    <3> QED  BY <1>1, <2>2, <3>2 DEF EmissionInv
  <2>4. CASE /\ trapped' = FALSE /\ lines' = <<Ending(ResultIn)>>
             /\ cell'["rax"] = Wrap(Quotient(Signed(LeftValue), Signed(RightValue)))
             /\ cell'["rdx"] = Wrap(Remainder(Signed(LeftValue), Signed(RightValue)))
    <3>1. Advances(<<Ending(ResultIn)>>)
      BY <2>2, <2>4 DEF Advances, Goes
    <3>2. ResultIn \in {"rax", "rdx"} /\ cell'[ResultIn] = Meaning /\ Writes
      BY <1>1, <2>4, MeaningIs DEF ResultIn, Writes
    <3>3. /\ Somewhere' => EmissionInv'
          /\ Meaning' = Meaning /\ (Writes' <=> Writes) /\ lines' = <<Ending(ResultIn)>>
          /\ inst' = inst
      BY <3>1, Arrives
    <3>4. PICK c \in {"rax", "rdx"} : lines' = <<Ending(c)>>' /\ cell'[c] = Meaning'
      BY <3>2, <3>3 DEF Ending
    <3>5. EndPoint'
      BY <3>2, <3>3, <3>4 DEF EndPoint
    <3> QED  BY <3>3, <3>5 DEF Somewhere
  <2> QED  BY <2>2, <2>3, <2>4
<1> QED  BY <1>3, <1>4, <1>5 DEF DivisionPoint

(* A call: the second argument to rsi, the call. *)
LEMMA CallStep ==
  ASSUME Running, CallPoint
  PROVE  EmissionInv'
<1>1. WordsKept /\ Step /\ trapped = FALSE /\ inst.op = "call" /\ cell["rdi"] = LeftValue
  BY DEF Running, CallPoint
<1>2. "rsi" \in Scratch /\ "rdi" \in Cells
  BY DEF Scratch, Cells
<1>3. CASE lines = <<Line("mov", "rsi", inst.right), Line("call", "callee", ""), Ending("rax")>>
  <2>1. PICK rest : rest = <<Line("call", "callee", ""), Ending("rax")>>
    OBVIOUS
  <2>2. IsNext(Line("mov", "rsi", inst.right), rest)
    BY <1>3, <2>1, FirstLine
  <2>3. Advances(rest) /\ cell'["rsi"] = RightValue /\ cell'["rdi"] = LeftValue
    BY <1>1, <1>2, <2>2, LoadsOperand DEF RightValue
  <2>4. /\ Somewhere' => EmissionInv'
        /\ lines' = rest /\ inst' = inst /\ LeftValue' = LeftValue /\ RightValue' = RightValue
        /\ Ending("rax")' = Ending("rax")
    BY <2>3, Arrives
  <2>5. lines' = <<Line("call", "callee", ""), Ending("rax")>>'
    BY <2>1, <2>4
  <2>6. CallPoint'
    BY <1>1, <2>3, <2>4, <2>5 DEF CallPoint
  <2> QED  BY <2>4, <2>6 DEF Somewhere
<1>4. CASE lines = <<Line("call", "callee", ""), Ending("rax")>> /\ cell["rsi"] = RightValue
  <2>1. IsNext(Line("call", "callee", ""), <<Ending("rax")>>)
    BY <1>4, FirstLine
  <2>2. /\ WordsKept' /\ Goes(<<Ending("rax")>>) /\ trapped' = FALSE
        /\ cell'["rax"] = CalleeResult(LeftValue, RightValue)
    BY <1>1, <1>4, <2>1, CallRuns
  <2>3. Advances(<<Ending("rax")>>) /\ cell'["rax"] = Meaning /\ Writes
    BY <1>1, <2>2, MeaningIs DEF Advances, Writes
  <2> QED  BY <2>3, ReachesEnd
<1> QED  BY <1>3, <1>4 DEF CallPoint

(* A call whose result nobody reads. *)
LEMMA PrintStep ==
  ASSUME Running, PrintPoint
  PROVE  EmissionInv'
<1>1. WordsKept /\ Step /\ trapped = FALSE /\ inst.op = "print"
        /\ lines = <<Line("call", "print", "")>>
  BY DEF Running, PrintPoint
<1>2. IsNext(Line("call", "print", ""), <<>>)
  BY <1>1, FirstLine
<1>3. Advances(<<>>) /\ target' = "print"
  BY <1>1, <1>2, CallRuns DEF Advances
<1>4. (Somewhere' => EmissionInv') /\ lines' = <<>> /\ inst' = inst
  BY <1>3, Arrives
<1>5. DonePoint'
  BY <1>1, <1>3, <1>4 DEF DonePoint, Transferred, Writes
<1> QED  BY <1>4, <1>5 DEF Somewhere

(* A branch: cmp with zero, jne, jmp. *)
LEMMA BranchStep ==
  ASSUME Running, BranchPoint
  PROVE  EmissionInv'
<1>1. WordsKept /\ Step /\ trapped = FALSE /\ inst.op = "br"
  BY DEF Running, BranchPoint
<1>2. CASE /\ lines = <<Line("cmp", "rax", "#0"), Line("jne", "then", ""), Line("jmp", "else", "")>>
           /\ cell["rax"] = LeftValue
  <2>1. PICK rest : rest = <<Line("jne", "then", ""), Line("jmp", "else", "")>>
    OBVIOUS
  <2>2. IsNext(Line("cmp", "rax", "#0"), rest)
    BY <1>2, <2>1, FirstLine
  <2>3. Advances(rest) /\ flags' = <<LeftValue, 0>>
    BY <1>1, <1>2, <2>2, CmpRuns DEF Advances, Value
  <2>4. /\ Somewhere' => EmissionInv'
        /\ lines' = rest /\ inst' = inst /\ LeftValue' = LeftValue
    BY <2>3, Arrives
  <2>5. BranchPoint'
    BY <1>1, <2>1, <2>3, <2>4 DEF BranchPoint
  <2> QED  BY <2>4, <2>5 DEF Somewhere
<1>3. CASE lines = <<Line("jne", "then", ""), Line("jmp", "else", "")>> /\ flags = <<LeftValue, 0>>
  <2>1. PICK rest : rest = <<Line("jmp", "else", "")>>
    OBVIOUS
  <2>2. IsNext(Line("jne", "then", ""), rest)
    BY <1>3, <2>1, FirstLine
  <2>3. flags[1] = LeftValue /\ flags[2] = 0
    BY <1>3
  <2>4. /\ WordsKept' /\ inst' = inst /\ before' = before /\ trapped' = FALSE
        /\ LeftValue # 0 => target' = "then" /\ lines' = <<>>
        /\ LeftValue = 0 => lines' = rest
    BY <1>1, <2>2, <2>3, JumpRuns
  <2>5. CASE LeftValue # 0
    <3>1. Advances(<<>>)
      BY <2>4, <2>5 DEF Advances, Goes
    <3>2. (Somewhere' => EmissionInv') /\ lines' = <<>> /\ inst' = inst /\ LeftValue' = LeftValue
      BY <3>1, Arrives
    <3>3. DonePoint'
      BY <1>1, <2>4, <2>5, <3>2 DEF DonePoint, Transferred, Writes
    <3> QED  BY <3>2, <3>3 DEF Somewhere
  <2>6. CASE LeftValue = 0
    <3>1. Advances(rest)
      BY <2>4, <2>6 DEF Advances, Goes
    <3>2. (Somewhere' => EmissionInv') /\ lines' = rest /\ inst' = inst /\ LeftValue' = LeftValue
      BY <3>1, Arrives
    <3>3. BranchPoint'
      BY <1>1, <2>1, <2>6, <3>2 DEF BranchPoint
    <3> QED  BY <3>2, <3>3 DEF Somewhere
  <2> QED  BY <2>5, <2>6
<1>4. CASE lines = <<Line("jmp", "else", "")>> /\ LeftValue = 0
  <2>1. IsNext(Line("jmp", "else", ""), <<>>)
    BY <1>4, FirstLine
  <2>2. Advances(<<>>) /\ target' = "else"
    BY <1>1, <2>1, JumpRuns DEF Advances, Goes
  <2>3. (Somewhere' => EmissionInv') /\ lines' = <<>> /\ inst' = inst /\ LeftValue' = LeftValue
    BY <2>2, Arrives
  <2>4. DonePoint'
    BY <1>1, <1>4, <2>2, <2>3 DEF DonePoint, Transferred, Writes
  <2> QED  BY <2>3, <2>4 DEF Somewhere
<1> QED  BY <1>2, <1>3, <1>4 DEF BranchPoint

(* ret: the value is in rax. *)
LEMMA ReturnStep ==
  ASSUME Running, ReturnPoint
  PROVE  EmissionInv'
<1>1. /\ WordsKept /\ Step /\ trapped = FALSE /\ inst.op = "ret"
      /\ lines = <<Line("jmp", "epilogue", "")>> /\ cell["rax"] = LeftValue
  BY DEF Running, ReturnPoint
<1>2. IsNext(Line("jmp", "epilogue", ""), <<>>)
  BY <1>1, FirstLine
<1>3. Advances(<<>>) /\ target' = "epilogue" /\ cell' = cell
  BY <1>1, <1>2, JumpRuns DEF Advances, Goes
<1>4. (Somewhere' => EmissionInv') /\ lines' = <<>> /\ inst' = inst /\ LeftValue' = LeftValue
  BY <1>3, Arrives
<1>5. DonePoint'
  BY <1>1, <1>3, <1>4 DEF DonePoint, Transferred, Writes
<1> QED  BY <1>4, <1>5 DEF Somewhere

(* Constants and loads go to their destination directly or through rax. *)
LEMMA DirectStep ==
  ASSUME Running, NEW from \in {"#k", Local}, Value(from) = Meaning, Meaning \in Word, Writes,
         lines = <<Ending(from)>> \/ lines = <<Line("mov", "rax", from), Ending("rax")>>
  PROVE  EmissionInv'
<1>1. WordsKept /\ Step /\ trapped = FALSE
  BY DEF Running
<1>2. /\ "rax" \in Cells /\ MayWrite("rax")
      /\ inst.dest \in Cells /\ MayWrite(inst.dest)
  BY <1>1, Operands DEF Scratch, MayWrite
<1>3. CASE lines = <<Ending(from)>>
  <2>1. IsNext(Line("mov", inst.dest, from), <<>>)
    BY <1>3, FirstLine DEF Ending
  <2>2. WordsKept' /\ Sets(inst.dest, Meaning) /\ Goes(<<>>) /\ Calm
    BY <1>1, <1>2, <2>1, MovRuns
  <2>3. Advances(<<>>) /\ cell'[inst.dest] = Meaning
    BY <1>1, <2>2 DEF Advances, Sets, Calm
  <2>4. /\ Somewhere' => EmissionInv'
        /\ lines' = <<>> /\ inst' = inst /\ Meaning' = Meaning
    BY <2>3, Arrives
  <2>5. DonePoint'
    BY <2>3, <2>4 DEF DonePoint, Transferred, Writes
  <2> QED  BY <2>4, <2>5 DEF Somewhere
<1>4. CASE lines = <<Line("mov", "rax", from), Ending("rax")>>
  <2>1. IsNext(Line("mov", "rax", from), <<Ending("rax")>>)
    BY <1>4, FirstLine
  <2>2. WordsKept' /\ Sets("rax", Meaning) /\ Goes(<<Ending("rax")>>) /\ Calm
    BY <1>1, <1>2, <2>1, MovRuns
  <2>3. Advances(<<Ending("rax")>>) /\ cell'["rax"] = Meaning
    BY <1>1, <2>2 DEF Advances, Sets, Calm
  <2> QED  BY <2>3, ReachesEnd
<1> QED  BY <1>3, <1>4

(* The first line of every instruction. *)
LEMMA StartStep ==
  ASSUME Running, StartPoint
  PROVE  EmissionInv'
<1>1. WordsKept /\ Step /\ trapped = FALSE /\ lines = Emit(inst) /\ inst.op \notin {"&&", "||"}
  BY DEF Running, StartPoint
<1>2. "rax" \in Scratch /\ "rdi" \in Scratch
  BY DEF Scratch
<1>3. ASSUME NEW c \in {"rax", "rdi"}, NEW rest, IsNext(Line("mov", c, inst.left), rest)
      PROVE  /\ Somewhere' => EmissionInv'
             /\ lines' = rest /\ inst' = inst /\ before' = before
             /\ LeftValue' = LeftValue /\ cell'[c] = LeftValue' /\ Against' = Against
             /\ Condition' = Condition /\ ResultIn' = ResultIn
             /\ LoadRight' = LoadRight /\ \A d : Ending(d)' = Ending(d)
  <2>1. Advances(rest) /\ cell'[c] = LeftValue
    BY <1>2, <1>3, LoadsOperand DEF LeftValue
  <2> QED  BY <2>1, Arrives
<1>4. CASE inst.op \in {"const_int", "const_ptr"}
  <2>1. Meaning = Literal /\ Literal \in Word /\ Writes /\ Value("#k") = Literal
    BY <1>4, MeaningIs, WordsHold DEF Writes, Value
  <2>2. lines = <<Ending("#k")>> \/ lines = <<Line("mov", "rax", "#k"), Ending("rax")>>
    BY <1>1, <1>4, EmitIs
  <2> QED  BY <2>1, <2>2, DirectStep
<1>5. CASE inst.op = "load_local"
  <2>1. Meaning = cell[Local] /\ cell[Local] \in Word /\ Writes /\ Value(Local) = cell[Local]
    BY <1>1, <1>5, MeaningIs, Operands DEF Writes, Value, Local
  <2>2. lines = <<Ending(Local)>> \/ lines = <<Line("mov", "rax", Local), Ending("rax")>>
    BY <1>1, <1>5, EmitIs
  <2> QED  BY <2>1, <2>2, DirectStep
<1>6. CASE inst.op = "store_local"
  <2>1. IsNext(Line("mov", "rax", inst.left), <<Line("mov", Local, "rax")>>)
    BY <1>1, <1>6, EmitIs, FirstLine
  <2>2. StorePoint'
    BY <1>3, <1>6, <2>1 DEF StorePoint
  <2> QED  BY <1>3, <2>1, <2>2 DEF Somewhere
<1>7. CASE inst.op = "neg"
  <2>1. IsNext(Line("mov", "rax", inst.left), <<Line("neg", "rax", ""), Ending("rax")>>)
    BY <1>1, <1>7, EmitIs, FirstLine
  <2>2. NegPoint'
    BY <1>3, <1>7, <2>1 DEF NegPoint
  <2> QED  BY <1>3, <2>1, <2>2 DEF Somewhere
<1>8. CASE inst.op \in {"+", "-", "*"}
  <2>1. IsNext(Line("mov", "rax", inst.left), <<LoadRight, Line(inst.op, "rax", "rcx"),
                                        Ending("rax")>>)
    BY <1>1, <1>8, EmitIs, FirstLine
  <2>2. ArithmeticPoint'
    BY <1>3, <1>8, <2>1 DEF ArithmeticPoint
  <2> QED  BY <1>3, <2>1, <2>2 DEF Somewhere
<1>9. CASE inst.op \in {"not", "nonzero"}
  <2>1. IsNext(Line("mov", "rax", inst.left),
               <<Line("cmp", "rax", Against), Line(Condition, "al", ""),
                 Line("movzx", "rax", "al"), Ending("rax")>>)
    BY <1>1, <1>9, EmitIs, FirstLine
  <2>2. inst.op \in CompareOps /\ inst.op \notin CmpOps
    BY <1>9 DEF CompareOps, CmpOps
  <2>3. ComparePoint'
    BY <1>3, <2>1, <2>2 DEF ComparePoint
  <2> QED  BY <1>3, <2>1, <2>3 DEF Somewhere
<1>10. CASE inst.op \in CmpOps
  <2>1. IsNext(Line("mov", "rax", inst.left),
               <<LoadRight, Line("cmp", "rax", "rcx"), Line(inst.op, "al", ""),
                 Line("movzx", "rax", "al"), Ending("rax")>>)
    BY <1>1, <1>10, EmitIs, FirstLine
  <2>2. ComparePoint'
    BY <1>3, <1>10, <2>1 DEF ComparePoint, CompareOps
  <2> QED  BY <1>3, <2>1, <2>2 DEF Somewhere
<1>11. CASE inst.op \in {"/", "%"}
  <2>1. IsNext(Line("mov", "rax", inst.left),
               <<Line("cqo", "rdx", "rax"), LoadRight, Line("idiv", "rax", "rcx"),
                 Ending(ResultIn)>>)
    BY <1>1, <1>11, EmitIs, FirstLine
  <2>2. lines' = <<Line("cqo", "rdx", "rax"), LoadRight, Line("idiv", "rax", "rcx"),
                   Ending(ResultIn)>>'
    BY <1>3, <2>1 DEF LoadRight, Ending, ResultIn
  <2>3. DivisionPoint'
    BY <1>3, <1>11, <2>1, <2>2 DEF DivisionPoint
  <2> QED  BY <1>3, <2>1, <2>3 DEF Somewhere
<1>12. CASE inst.op = "call"
  <2>1. IsNext(Line("mov", "rdi", inst.left),
               <<Line("mov", "rsi", inst.right), Line("call", "callee", ""), Ending("rax")>>)
    BY <1>1, <1>12, EmitIs, FirstLine
  <2>2. CallPoint'
    BY <1>3, <1>12, <2>1 DEF CallPoint
  <2> QED  BY <1>3, <2>1, <2>2 DEF Somewhere
<1>13. CASE inst.op = "print"
  <2>1. IsNext(Line("mov", "rdi", inst.left), <<Line("call", "print", "")>>)
    BY <1>1, <1>13, EmitIs, FirstLine
  <2>2. PrintPoint'
    BY <1>3, <1>13, <2>1 DEF PrintPoint
  <2> QED  BY <1>3, <2>1, <2>2 DEF Somewhere
<1>14. CASE inst.op = "br"
  <2>1. IsNext(Line("mov", "rax", inst.left),
               <<Line("cmp", "rax", "#0"), Line("jne", "then", ""), Line("jmp", "else", "")>>)
    BY <1>1, <1>14, EmitIs, FirstLine
  <2>2. BranchPoint'
    BY <1>3, <1>14, <2>1 DEF BranchPoint
  <2> QED  BY <1>3, <2>1, <2>2 DEF Somewhere
<1>15. CASE inst.op = "jmp"
  <2>1. IsNext(Line("jmp", "label", ""), <<>>)
    BY <1>1, <1>15, EmitIs, FirstLine
  <2>2. Advances(<<>>) /\ target' = "label"
    BY <1>1, <2>1, JumpRuns DEF Advances, Goes
  <2>3. (Somewhere' => EmissionInv') /\ lines' = <<>> /\ inst' = inst
    BY <2>2, Arrives
  <2>4. DonePoint'
    BY <1>15, <2>2, <2>3 DEF DonePoint, Transferred, Writes
  <2> QED  BY <2>3, <2>4 DEF Somewhere
<1>16. CASE inst.op = "ret"
  <2>1. IsNext(Line("mov", "rax", inst.left), <<Line("jmp", "epilogue", "")>>)
    BY <1>1, <1>16, EmitIs, FirstLine
  <2>2. ReturnPoint'
    BY <1>3, <1>16, <2>1 DEF ReturnPoint
  <2> QED  BY <1>3, <2>1, <2>2 DEF Somewhere
<1>17. inst.op \in Ops
  BY <1>1 DEF WordsKept, Instructions
<1>18. inst.op \in {"+", "-", "*", "/", "%"} \cup CmpOps \cup
         {"const_int", "const_ptr", "load_local", "store_local", "neg", "not", "nonzero",
          "call", "print", "br", "jmp", "ret"}
  BY <1>1, <1>17, PlacesAssumption DEF BinOps
<1> QED
  BY <1>4, <1>5, <1>6, <1>7, <1>8, <1>9, <1>10, <1>11, <1>12, <1>13, <1>14, <1>15, <1>16, <1>18

(* The invariant holds at the first line, *)
LEMMA EmissionStarts == Ops \cap {"&&", "||"} = {} /\ EmissionInit => EmissionInv
<1> SUFFICES ASSUME Ops \cap {"&&", "||"} = {}, EmissionInit  PROVE EmissionInv
  OBVIOUS
<1>1. inst \in Instructions /\ inst.dest \notin {inst.left, inst.right}
  BY DEF EmissionInit, Instructions
<1>2. PICK l \in Word, r \in Word :
        cell = [c \in Cells |-> IF c = inst.right THEN r ELSE IF c = inst.left THEN l ELSE Modulus - 2]
  BY DEF EmissionInit
<1>3. cell \in [Cells -> Word]
  BY <1>2, WordsHold
<1>4. before = cell /\ trapped = FALSE /\ lines = Emit(inst)
  BY DEF EmissionInit
<1>5. WordsKept
  BY <1>1, <1>3, <1>4 DEF WordsKept, OthersUntouched
<1>6. inst.op \notin {"&&", "||"}
  BY <1>1 DEF Instructions
<1> QED  BY <1>4, <1>5, <1>6 DEF EmissionInv, Somewhere, StartPoint

(* no line breaks it, *)
LEMMA EmissionKept == EmissionInv /\ [EmissionNext]_emissionVars => EmissionInv'
<1> SUFFICES ASSUME EmissionInv, [EmissionNext]_emissionVars  PROVE EmissionInv'
  OBVIOUS
<1>1. CASE Step
  <2>1. lines # <<>>
    BY <1>1 DEF Step
  <2>2. Running /\ Somewhere
    BY <1>1, <2>1 DEF EmissionInv, DividedWrong, Running
  <2>3. ~DonePoint
    BY <2>1 DEF DonePoint
  <2> QED
    BY <2>2, <2>3, StartStep, EndStep, StoreStep, NegStep, ArithmeticStep, CompareStep,
      DivisionStep,
       CallStep, PrintStep, BranchStep, ReturnStep DEF Somewhere
<1>2. CASE UNCHANGED emissionVars
  <2>1. /\ inst' = inst /\ lines' = lines /\ cell' = cell /\ before' = before /\ flags' = flags
        /\ target' = target /\ trapped' = trapped
    BY <1>2 DEF emissionVars
  <2> QED  BY <2>1
       DEF EmissionInv, WordsKept, OthersUntouched, Somewhere, StartPoint, DonePoint, EndPoint,
         StorePoint,
           NegPoint, ArithmeticPoint, ComparePoint, DivisionPoint, CallPoint, PrintPoint,
             BranchPoint,
           ReturnPoint, DividedWrong, Transferred, Writes, Divisible, LeftValue, RightValue,
             Meaning,
           Condition, Against, Ending, ResultIn, LoadRight
<1> QED  BY <1>1, <1>2 DEF EmissionNext, Finished

(* every instruction has a line, *)
LEMMA EmitNotEmpty ==
  ASSUME WordsKept, inst.op \notin {"&&", "||"}, lines = Emit(inst)
  PROVE  lines # <<>>
<1>1. inst.op \in {"+", "-", "*", "/", "%"} \cup CmpOps \cup
        {"const_int", "const_ptr", "load_local", "store_local", "neg", "not", "nonzero",
         "call", "print", "br", "jmp", "ret"}
  BY PlacesAssumption DEF BinOps, WordsKept, Instructions
<1>2. CASE inst.op \in {"const_int", "const_ptr"}
  <2>1. lines = <<Ending("#k")>> \/ lines = <<Line("mov", "rax", "#k"), Ending("rax")>>
    BY <1>2, EmitIs
  <2> QED  BY <2>1, FirstLine DEF IsNext
<1>3. CASE inst.op = "load_local"
  <2>1. lines = <<Ending(Local)>> \/ lines = <<Line("mov", "rax", Local), Ending("rax")>>
    BY <1>3, EmitIs
  <2> QED  BY <2>1, FirstLine DEF IsNext
<1>4. CASE inst.op = "store_local"
  <2>1. lines = <<Line("mov", "rax", inst.left), Line("mov", Local, "rax")>>
    BY <1>4, EmitIs
  <2> QED  BY <2>1, FirstLine DEF IsNext
<1>5. CASE inst.op = "neg"
  <2>1. lines = <<Line("mov", "rax", inst.left), Line("neg", "rax", ""), Ending("rax")>>
    BY <1>5, EmitIs
  <2> QED  BY <2>1, FirstLine DEF IsNext
<1>6. CASE inst.op \in {"+", "-", "*"}
  <2>1. lines = <<Line("mov", "rax", inst.left), LoadRight, Line(inst.op, "rax", "rcx"),
                  Ending("rax")>>
    BY <1>6, EmitIs
  <2> QED  BY <2>1, FirstLine DEF IsNext
<1>7. CASE inst.op \in {"not", "nonzero"}
  <2>1. lines = <<Line("mov", "rax", inst.left), Line("cmp", "rax", Against), Line(Condition,
                  "al", ""),
                         Line("movzx", "rax", "al"), Ending("rax")>>
    BY <1>7, EmitIs
  <2> QED  BY <2>1, FirstLine DEF IsNext
<1>8. CASE inst.op \in CmpOps
  <2>1. lines = <<Line("mov", "rax", inst.left), LoadRight, Line("cmp", "rax", "rcx"),
                         Line(inst.op, "al", ""), Line("movzx", "rax", "al"), Ending("rax")>>
    BY <1>8, EmitIs
  <2> QED  BY <2>1, FirstLine DEF IsNext
<1>9. CASE inst.op \in {"/", "%"}
  <2>1. lines = <<Line("mov", "rax", inst.left), Line("cqo", "rdx", "rax"), LoadRight,
                         Line("idiv", "rax", "rcx"), Ending(ResultIn)>>
    BY <1>9, EmitIs
  <2> QED  BY <2>1, FirstLine DEF IsNext
<1>10. CASE inst.op = "call"
  <2>1. lines = <<Line("mov", "rdi", inst.left), Line("mov", "rsi", inst.right),
                         Line("call", "callee", ""), Ending("rax")>>
    BY <1>10, EmitIs
  <2> QED  BY <2>1, FirstLine DEF IsNext
<1>11. CASE inst.op = "print"
  <2>1. lines = <<Line("mov", "rdi", inst.left), Line("call", "print", "")>>
    BY <1>11, EmitIs
  <2> QED  BY <2>1, FirstLine DEF IsNext
<1>12. CASE inst.op = "br"
  <2>1. lines = <<Line("mov", "rax", inst.left), Line("cmp", "rax", "#0"),
                         Line("jne", "then", ""), Line("jmp", "else", "")>>
    BY <1>12, EmitIs
  <2> QED  BY <2>1, FirstLine DEF IsNext
<1>13. CASE inst.op = "jmp"
  <2>1. lines = <<Line("jmp", "label", "")>>
    BY <1>13, EmitIs
  <2> QED  BY <2>1, FirstLine DEF IsNext
<1>14. CASE inst.op = "ret"
  <2>1. lines = <<Line("mov", "rax", inst.left), Line("jmp", "epilogue", "")>>
    BY <1>14, EmitIs
  <2> QED  BY <2>1, FirstLine DEF IsNext
<1> QED
  BY <1>1, <1>2, <1>3, <1>4, <1>5, <1>6, <1>7, <1>8, <1>9, <1>10, <1>11, <1>12, <1>13, <1>14

(* and it gives what the run checks. *)
LEMMA EmissionInvSound == EmissionInv => InstructionsRight
<1> SUFFICES ASSUME EmissionInv  PROVE InstructionsRight
  OBVIOUS
<1>1. EmissionTypeOK
  BY DEF EmissionInv, WordsKept, Instructions, EmissionTypeOK, DividedWrong
<1>2. OthersUntouched
  BY DEF EmissionInv, WordsKept
<1>3. TrapsOnlyUndivisible
  BY DEF EmissionInv, TrapsOnlyUndivisible, DividedWrong
<1>4. ASSUME Over  PROVE (Writes => cell[inst.dest] = Meaning) /\ Transferred
  <2>1. trapped = FALSE /\ lines = <<>> /\ Somewhere
    BY <1>4 DEF Over, EmissionInv, DividedWrong
  <2>2. CASE DonePoint
    BY <2>2 DEF DonePoint
  <2>3. ~StartPoint
    BY <2>1, EmitNotEmpty DEF EmissionInv, StartPoint
  <2>4. /\ ~EndPoint /\ ~StorePoint /\ ~NegPoint /\ ~ArithmeticPoint /\ ~ComparePoint
        /\ ~DivisionPoint /\ ~CallPoint /\ ~PrintPoint /\ ~BranchPoint /\ ~ReturnPoint
    BY <2>1 DEF EndPoint, StorePoint, NegPoint, ArithmeticPoint, ComparePoint, DivisionPoint,
                CallPoint, PrintPoint, BranchPoint, ReturnPoint
  <2> QED  BY <2>1, <2>2, <2>3, <2>4 DEF Somewhere
<1>5. ComputesMeaning /\ TransfersRight
  BY <1>4 DEF ComputesMeaning, TransfersRight, Transferred
<1> QED  BY <1>1, <1>2, <1>3, <1>5 DEF InstructionsRight

(***************************************************************************)
(* The lines emitInstruction writes compute what the IR instruction means, *)
(* for words of every width and any registers and slots, as long as the    *)
(* instruction is not && or ||.                                            *)
(***************************************************************************)
THEOREM InstructionsAlwaysRight == Ops \cap {"&&", "||"} = {} /\ EmissionSpec => []InstructionsRight
<1>1. Ops \cap {"&&", "||"} = {} /\ EmissionInit => EmissionInv
  BY EmissionStarts
<1>2. EmissionInv /\ [EmissionNext]_emissionVars => EmissionInv'
  BY EmissionKept
<1>3. EmissionInv => InstructionsRight
  BY EmissionInvSound
<1> QED  BY <1>1, <1>2, <1>3, PTL DEF EmissionSpec
=============================================================================
