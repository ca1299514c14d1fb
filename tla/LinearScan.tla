----------------------------- MODULE LinearScan -----------------------------
(***************************************************************************)
(* The register allocator of the native backend: allocateTemps in          *)
(* compiler/ptjs_native.js.  A first pass over the instructions of a       *)
(* lowered function gives every temporary one live interval; the intervals *)
(* are then visited in the order of their starts, and each gets a machine  *)
(* register or a spill slot of the frame.                                  *)
(*                                                                         *)
(* The function under allocation is seen through the two facts the         *)
(* allocator reads of an instruction: what it writes and what it reads.    *)
(* One step is one turn of a loop of the code: ScanInstruction for the     *)
(* first pass, ExpireOld for the inner loop of the second, and             *)
(* AllocateFree, SpillVictim or SpillCurrent for the rest of its body.     *)
(***************************************************************************)
EXTENDS Integers, Sequences, FiniteSets, Functions

CONSTANTS
  Temps,        \* the temporaries of the function
  Allocatable,  \* the "allocatable" list of snippets/alloc/register_classes.json
  Codes         \* the functions to allocate: sequences of instructions

Regs == Range(Allocatable)

(* tempDefs and tempUses of an instruction. *)
Instruction == [def : SUBSET Temps, use : SUBSET Temps]

(***************************************************************************)
(* What lowering guarantees of a function: an instruction writes at most   *)
(* one temporary (newTemp hands each one to the instruction emitted next), *)
(* every temporary is written by exactly one instruction, and is read only *)
(* by later ones.                                                          *)
(***************************************************************************)
DefinedAt(c, t, i) ==
  /\ i \in DOMAIN c
  /\ c[i].def = {t}
  /\ \A j \in DOMAIN c : t \in c[j].def => j = i
  /\ \A j \in DOMAIN c : t \in c[j].use => i < j

WellFormed(c) ==
  /\ c \in Seq(Instruction)
  /\ \A t \in Temps : \E i \in DOMAIN c : DefinedAt(c, t, i)

ASSUME CodesAssumption == \A c \in Codes : WellFormed(c)

ASSUME TempsAssumption == IsFiniteSet(Temps)

ASSUME AllocatableAssumption ==
  Allocatable \in Seq(Regs) /\ IsInjective(Allocatable)

VARIABLES
  code,        \* the instructions of the function; never changes
  idx,         \* the instruction the first pass reads next
  starts,      \* first instruction that mentions a temporary, 0 if none yet
  ends,        \* last instruction that uses it, 0 if none yet
  pending,     \* the temporaries whose interval has no place yet
  freeRegs,    \* the queue of free registers
  active,      \* the temporaries of `active`, in the order sortActive leaves
  locations,   \* the place of each temporary
  spillCount   \* the number of spill slots handed out

allocVars == <<code, idx, starts, ends, pending, freeRegs, active, locations, spillCount>>

NoPlace  == [kind |-> "none"]
Reg(r)   == [kind |-> "reg", name |-> r]
Spill(n) == [kind |-> "spill", slot |-> n]
Place    == {NoPlace} \cup [kind : {"reg"}, name : Regs] \cup [kind : {"spill"}, slot : Nat]

Assigned == Temps \ pending

AllocInit ==
  /\ code \in Codes
  /\ idx = 1
  /\ starts = [t \in Temps |-> 0]
  /\ ends = [t \in Temps |-> 0]
  /\ pending = Temps
  /\ freeRegs = Allocatable
  /\ active = <<>>
  /\ locations = [t \in Temps |-> NoPlace]
  /\ spillCount = 0

-----------------------------------------------------------------------------
(* First pass: the live intervals.                                         *)

(* A definition opens an interval once; a use always moves its end. *)
ScanStarts(i) ==
  [t \in Temps |-> IF starts[t] = 0 /\ t \in code[i].def \cup code[i].use
                   THEN i ELSE starts[t]]
(* Slips in the pass: only the first use counts; ends one instruction late. *)
ScanEndsFirstUse(i) ==
  [t \in Temps |-> IF t \in code[i].def \cup code[i].use /\ ends[t] = 0
                   THEN i ELSE ends[t]]
ScanEndsLate(i) ==
  [t \in Temps |-> IF t \in code[i].def \cup code[i].use THEN i + 1 ELSE ends[t]]
ScanEnds(i) ==
  [t \in Temps |-> IF t \in code[i].use \/ (t \in code[i].def /\ ends[t] = 0)
                   THEN i ELSE ends[t]]

ScanInstruction ==
  /\ idx \in DOMAIN code
  /\ starts' = ScanStarts(idx)
  /\ ends' = ScanEnds(idx)
  /\ idx' = idx + 1
  /\ UNCHANGED <<code, pending, freeRegs, active, locations, spillCount>>

-----------------------------------------------------------------------------
(* Second pass: places.                                                    *)

Scanned == idx \notin DOMAIN code

(* The comparison function of intervals.sort. *)
SortsBefore(t, u) ==
  starts[t] < starts[u] \/ (starts[t] = starts[u] /\ ends[t] <= ends[u])

(* t is the interval of the outer loop's current turn. *)
Current(t) ==
  /\ Scanned
  /\ t \in pending
  /\ \A u \in pending : SortsBefore(t, u)

(* Slips in the test of expireOld: `<=` for `<`; never true. *)
HasExpiredInclusive(t) == active # <<>> /\ ends[Head(active)] <= starts[t]
HasExpiredNever(t) == FALSE

(* The interval at the head of `active` ended before t starts. *)
HasExpired(t) == active # <<>> /\ ends[Head(active)] < starts[t]

(* A slip: the expired interval leaves `active` and its register is lost. *)
ExpireOldLosesReg(t) ==
  /\ Current(t)
  /\ HasExpired(t)
  /\ active' = Tail(active)
  /\ UNCHANGED <<code, idx, starts, ends, pending, freeRegs, locations, spillCount>>

ExpireOld(t) ==
  /\ Current(t)
  /\ HasExpired(t)
  /\ freeRegs' = Append(freeRegs, locations[Head(active)].name)
  /\ active' = Tail(active)
  /\ UNCHANGED <<code, idx, starts, ends, pending, locations, spillCount>>

(***************************************************************************)
(* active.push(t); sortActive(): the array is sorted by `ends`, and the    *)
(* sort is stable, so t goes after every interval that ends with it.       *)
(***************************************************************************)
PlacedAt(s, k, t) ==
  [i \in 1 .. Len(s) + 1 |->
     IF i <= k THEN s[i] ELSE IF i = k + 1 THEN t ELSE s[i - 1]]
SortsAt(s, k, t) ==
  /\ \A i \in 1 .. k : ends[s[i]] <= ends[t]
  /\ \A i \in k + 1 .. Len(s) : ends[t] < ends[s[i]]
PushActive(s, t) ==
  \E k \in 0 .. Len(s) : SortsAt(s, k, t) /\ active' = PlacedAt(s, k, t)

AllocateFree(t) ==
  /\ Current(t)
  /\ ~HasExpired(t)
  /\ freeRegs # <<>>
  /\ locations' = [locations EXCEPT ![t] = Reg(Head(freeRegs))]
  /\ freeRegs' = Tail(freeRegs)
  /\ PushActive(active, t)
  /\ pending' = pending \ {t}
  /\ UNCHANGED <<code, idx, starts, ends, spillCount>>

Victim == active[Len(active)]
Others == [i \in 1 .. Len(active) - 1 |-> active[i]]
VictimOutlives(t) == active # <<>> /\ ends[Victim] > ends[t]

(* The interval that ends last gives up its register for a spill slot. *)
SpillVictim(t) ==
  /\ Current(t)
  /\ ~HasExpired(t)
  /\ freeRegs = <<>>
  /\ VictimOutlives(t)
  /\ locations' = [locations EXCEPT ![t] = locations[Victim], ![Victim] = Spill(spillCount)]
  /\ spillCount' = spillCount + 1
  /\ PushActive(Others, t)
  /\ pending' = pending \ {t}
  /\ UNCHANGED <<code, idx, starts, ends, freeRegs>>

SpillCurrent(t) ==
  /\ Current(t)
  /\ ~HasExpired(t)
  /\ freeRegs = <<>>
  /\ ~VictimOutlives(t)
  /\ locations' = [locations EXCEPT ![t] = Spill(spillCount)]
  /\ spillCount' = spillCount + 1
  /\ pending' = pending \ {t}
  /\ UNCHANGED <<code, idx, starts, ends, freeRegs, active>>

Done == Scanned /\ pending = {}

(* allocateTemps has returned. *)
Returned == Done /\ UNCHANGED allocVars

AllocNext ==
  \/ ScanInstruction
  \/ \E t \in Temps : \/ ExpireOld(t)
                      \/ AllocateFree(t)
                      \/ SpillVictim(t)
                      \/ SpillCurrent(t)
  \/ Returned

AllocSpec == AllocInit /\ [][AllocNext]_allocVars

-----------------------------------------------------------------------------
(* Every variable keeps the shape the code gives it. *)
AllocTypeOK ==
  /\ WellFormed(code)
  /\ idx \in 1 .. Len(code) + 1
  /\ starts \in [Temps -> 0 .. Len(code)]
  /\ ends \in [Temps -> 0 .. Len(code)]
  /\ pending \in SUBSET Temps
  /\ freeRegs \in Seq(Regs)
  /\ active \in Seq(Temps)
  /\ locations \in [Temps -> Place]
  /\ spillCount \in Nat

(* Two temporaries hold a value at the same instruction. *)
Overlap(t, u) == starts[t] <= ends[u] /\ starts[u] <= ends[t]

(***************************************************************************)
(* allocateTemps never gives one register or one spill slot to two         *)
(* temporaries whose intervals overlap, through every expiry, reuse of a   *)
(* freed register and eviction of a victim.                                *)
(***************************************************************************)
NoSharedPlace ==
  \A t, u \in Assigned :
    t # u /\ Overlap(t, u) => locations[t] # locations[u]

(***************************************************************************)
(* What the emitted code needs of the result: from the instruction that    *)
(* writes a temporary to each one that reads it, no instruction in between *)
(* writes its place.  Stated on the instructions, not on the intervals, so *)
(* it also checks the first pass.                                          *)
(***************************************************************************)
NoClobber ==
  Done => \A t, u \in Temps : \A d, w, r \in DOMAIN code :
            /\ t \in code[d].def
            /\ u \in code[w].def
            /\ t \in code[r].use
            /\ d < w
            /\ w < r
            => locations[t] # locations[u]

(***************************************************************************)
(* No register is lost or duplicated: at every turn of the loop each       *)
(* allocatable register is either once in freeRegs or held by exactly one  *)
(* active interval.                                                        *)
(***************************************************************************)
HeldRegs == {locations[t].name : t \in Range(active)}
RegsAccounted ==
  /\ IsInjective(freeRegs)
  /\ IsInjective([i \in DOMAIN active |-> locations[active[i]].name])
  /\ Range(freeRegs) \cap HeldRegs = {}
  /\ Range(freeRegs) \cup HeldRegs = Regs

(***************************************************************************)
(* A temporary goes to memory only under real pressure: at some            *)
(* instruction of its interval more temporaries are live than there are    *)
(* registers.                                                              *)
(***************************************************************************)
LiveAt(i) == {t \in Temps : starts[t] <= i /\ i <= ends[t]}
SpillOnlyUnderPressure ==
  \A t \in Assigned :
    locations[t].kind = "spill" =>
      \E i \in starts[t] .. ends[t] : Cardinality(LiveAt(i)) > Cardinality(Regs)

(***************************************************************************)
(* allocateTemps is right: two temporaries that are live together have     *)
(* different places, no value is overwritten before its last use, no       *)
(* register is lost or held twice, and none is left unused while a         *)
(* temporary goes to memory.                                               *)
(***************************************************************************)
AllocationRight ==
  /\ AllocTypeOK
  /\ NoSharedPlace
  /\ NoClobber
  /\ RegsAccounted
  /\ SpillOnlyUnderPressure
=============================================================================
