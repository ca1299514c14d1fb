----------------------------- MODULE NativeFrame -----------------------------
(***************************************************************************)
(* Stack frames of the code the native backend emits: frameFor,            *)
(* localOffset, spillOffset and the prologue and epilogue renderAssembly   *)
(* builds from snippets/asm/fragments.                                     *)
(*                                                                         *)
(* Memory is counted in words of 8 bytes; the stack grows towards smaller  *)
(* addresses.  What a function body computes is left out: it may write any *)
(* local, any spill slot and any register allocateTemps gave it, in any    *)
(* order, call any function and return, so every program whose functions   *)
(* have these frames is covered.  A written word is tagged with the        *)
(* activation and the place it was meant for, which makes every word that  *)
(* lands on another visible.                                               *)
(***************************************************************************)
EXTENDS Integers, Sequences

CONSTANTS
  Functions,    \* the functions of the program
  Params,       \* Params[f]: how many of the locals of f are parameters
  Locals,       \* Locals[f] = fn.locals.length
  Spills,       \* Spills[f] = alloc.spillCount
  UsedRegs,     \* UsedRegs[f] = alloc.usedRegs, in the order of callee_saved
  CalleeSaved,  \* the "callee_saved" list of register_classes.json, as a set
  StackTop,     \* the word rsp points to when the C runtime calls main
  MaxDepth      \* bound: activations on the stack

ASSUME FrameAssumption ==
  /\ Params \in [Functions -> Nat]
  /\ Locals \in [Functions -> Nat]
  /\ Spills \in [Functions -> Nat]
  /\ UsedRegs \in [Functions -> Seq(CalleeSaved)]
  /\ \A f \in Functions : Params[f] <= Locals[f]
  /\ StackTop \in Nat /\ StackTop % 2 = 0
  /\ MaxDepth \in Nat

VARIABLES
  mem,     \* the stack: word address -> tagged value
  rsp,     \* stack pointer
  rbp,     \* frame pointer
  regs,    \* the callee-saved registers
  frames   \* the activations, innermost last; not in the machine, see below

frameVars == <<mem, rsp, rbp, regs, frames>>

(* A word written by activation number d for its place `what`, number n. *)
StackWord(d, what, n) == [at |-> d, what |-> what, n |-> n]

(* A word below rsp: no instruction reads it before writing it again. *)
Dead(a) == StackWord(0, "dead", a)

(***************************************************************************)
(* An activation remembers what the machine should be able to reproduce:   *)
(* its function, its frame pointer and its caller's, the registers it was  *)
(* entered with, and which of its slots it has written.                    *)
(***************************************************************************)
Depth == Len(frames)
Top == frames[Depth]

-----------------------------------------------------------------------------
(* Frame layout, in words.                                                 *)

Saved(f) == Len(UsedRegs[f])

(***************************************************************************)
(* frameFor: room for the locals and the spill slots, grown by one word    *)
(* until, with the saved registers, it is a multiple of 16 bytes.  The raw *)
(* size is a whole number of words, so the loop turns at most once.        *)
(***************************************************************************)
RawWordsNoSpills(f) == Locals[f]
RawWords(f) == Locals[f] + Spills[f]
FrameWordsUnpadded(f) == RawWords(f)
FrameWords(f) ==
  IF RawWords(f) % 2 = Saved(f) % 2 THEN RawWords(f) ELSE RawWords(f) + 1

(* localOffset and spillOffset: distances below rbp. *)
LocalOffset(slot) == slot + 1
SpillOffset(f, slot) == Locals[f] + slot + 1

-----------------------------------------------------------------------------
FrameInit ==
  /\ mem = [a \in 0 .. StackTop |-> Dead(a)]
  /\ rsp = StackTop
  /\ rbp = StackTop
  /\ regs = [r \in CalleeSaved |-> StackWord(0, r, 0)]
  /\ frames = <<>>

(***************************************************************************)
(* `call f` and the prologue: the return address, rbp and the saved        *)
(* registers are pushed, rsp moves below the frame, and the parameters are *)
(* stored in the first locals.                                             *)
(***************************************************************************)
Prologue(f) ==
  LET base   == rsp - 2
      pushed == [mem EXCEPT ![rsp - 1] = StackWord(Depth + 1, "return", 0),
                            ![base]    = StackWord(Depth + 1, "rbp", rbp)]
      saved  == [a \in DOMAIN mem |->
                   IF base - a \in DOMAIN UsedRegs[f] THEN regs[UsedRegs[f][base - a]]
                                                      ELSE pushed[a]]
  IN [a \in DOMAIN mem |->
        IF \E p \in 0 .. Params[f] - 1 : a = base - LocalOffset(p)
        THEN StackWord(Depth + 1, "local", base - a) ELSE saved[a]]

(* External: below the stack lies a page that ends the program when its
   next frame does not fit. *)
Fits(f) == 2 + Saved(f) + FrameWords(f) <= rsp

Call(f) ==
  /\ Depth < MaxDepth /\ Fits(f)
  /\ mem' = Prologue(f)
  /\ rbp' = rsp - 2
  /\ rsp' = rsp - 2 - Saved(f) - FrameWords(f)
  /\ frames' = Append(frames, [fn |-> f, rbp |-> rsp - 2, callerRbp |-> rbp, entry |-> regs,
                               locals |-> 0 .. Params[f] - 1, spills |-> {}])
  /\ UNCHANGED regs

(* store_local. *)
StoreLocal(slot) ==
  /\ Depth > 0
  /\ slot < Locals[Top.fn]
  /\ mem' = [mem EXCEPT ![rbp - LocalOffset(slot)] = StackWord(Depth, "local", LocalOffset(slot))]
  /\ frames' = [frames EXCEPT ![Depth].locals = @ \cup {slot}]
  /\ UNCHANGED <<rsp, rbp, regs>>

(* storeTempFrom for a spilled temporary. *)
StoreSpill(slot) ==
  /\ Depth > 0
  /\ slot < Spills[Top.fn]
  /\ mem' = [mem EXCEPT ![rbp - SpillOffset(Top.fn, slot)] = StackWord(Depth, "spill", slot)]
  /\ frames' = [frames EXCEPT ![Depth].spills = @ \cup {slot}]
  /\ UNCHANGED <<rsp, rbp, regs>>

(* storeTempFrom for a temporary in a register. *)
StoreReg(i) ==
  /\ Depth > 0
  /\ i \in DOMAIN UsedRegs[Top.fn]
  /\ regs' = [regs EXCEPT ![UsedRegs[Top.fn][i]] = StackWord(Depth, "temp", i)]
  /\ UNCHANGED <<mem, rsp, rbp, frames>>

(* frame_free of the epilogue template; the slips forget it or overshoot. *)
LiftedNothing(f) == rsp
LiftedTooFar(f) == rsp + FrameWords(f) + 1
Lifted(f) == rsp + FrameWords(f)

(***************************************************************************)
(* The epilogue: rsp moves up over the frame, the saved registers are      *)
(* popped in the reverse order of the pushes, then rbp and the return      *)
(* address.                                                                *)
(***************************************************************************)
Return ==
  LET f      == Top.fn
      lifted == Lifted(f)
      slotOf(i) == lifted + (Saved(f) - i)
  IN /\ Depth > 0
     /\ regs' = [r \in CalleeSaved |->
                   IF \E i \in DOMAIN UsedRegs[f] : UsedRegs[f][i] = r
                   THEN mem[slotOf(CHOOSE i \in DOMAIN UsedRegs[f] : UsedRegs[f][i] = r)]
                   ELSE regs[r]]
     /\ rbp' = mem[lifted + Saved(f)].n
     /\ rsp' = lifted + Saved(f) + 2
     /\ frames' = SubSeq(frames, 1, Depth - 1)
     /\ mem' = [a \in DOMAIN mem |-> IF a < rsp' THEN Dead(a) ELSE mem[a]]

FrameNext ==
  \/ \E f \in Functions : Call(f)
  \/ \E f \in Functions : \E slot \in 0 .. Locals[f] - 1 : StoreLocal(slot)
  \/ \E f \in Functions : \E slot \in 0 .. Spills[f] - 1 : StoreSpill(slot)
  \/ \E f \in Functions : \E i \in DOMAIN UsedRegs[f] : StoreReg(i)
  \/ Return

FrameSpec == FrameInit /\ [][FrameNext]_frameVars

-----------------------------------------------------------------------------
(* Every address the code computes is a word of the stack. *)
FrameTypeOK ==
  /\ rsp \in 0 .. StackTop
  /\ rbp \in 0 .. StackTop
  /\ DOMAIN mem = 0 .. StackTop
  /\ DOMAIN regs = CalleeSaved
  /\ Depth \in 0 .. MaxDepth
  /\ \A d \in 1 .. Depth : frames[d].fn \in Functions

(***************************************************************************)
(* The SysV convention requires rsp to be a multiple of 16 bytes at every  *)
(* call; the runtime's printf relies on it.  frameFor pads for it, for     *)
(* every mix of saved registers, locals and spill slots along the chain of *)
(* calls.                                                                  *)
(***************************************************************************)
AlignedAtCalls == rsp % 2 = 0

(***************************************************************************)
(* No activation writes into the frame of another, nor one slot of a frame *)
(* into another slot: the words each suspended or running activation has   *)
(* written, its return address and its saved frame pointer are as it left  *)
(* them.                                                                   *)
(***************************************************************************)
FramesIsolated ==
  \A d \in 1 .. Depth :
    LET frame == frames[d] IN
      /\ mem[frame.rbp + 1] = StackWord(d, "return", 0)
      /\ mem[frame.rbp] = StackWord(d, "rbp", frame.callerRbp)
      /\ \A slot \in frame.locals :
           mem[frame.rbp - LocalOffset(slot)] = StackWord(d, "local", LocalOffset(slot))
      /\ \A slot \in frame.spills :
           mem[frame.rbp - SpillOffset(frame.fn, slot)] = StackWord(d, "spill", slot)

(***************************************************************************)
(* The epilogue returns to the caller's frame: rsp and rbp are those of    *)
(* the caller at the call, so its locals are found where it left them.     *)
(***************************************************************************)
ReturnsToCaller ==
  [][Depth' < Depth => rbp' = Top.callerRbp /\ rsp' = Top.rbp + 2]_frameVars

(***************************************************************************)
(* The convention of snippets/alloc/register_classes.json ("callee_saved") *)
(* that allocateTemps relies on to keep a temporary in a register across a *)
(* call: a function returns with the callee-saved registers it was entered *)
(* with.                                                                   *)
(***************************************************************************)
CalleeSavedRestored ==
  [][Depth' < Depth => regs' = Top.entry]_frameVars

(***************************************************************************)
(* The stack frames are sound: at every call the stack is aligned as the   *)
(* ABI wants it, and no function writes outside its own frame.             *)
(***************************************************************************)
FramesSound ==
  /\ FrameTypeOK
  /\ AlignedAtCalls
  /\ FramesIsolated
=============================================================================
