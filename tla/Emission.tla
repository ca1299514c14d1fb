------------------------------- MODULE Emission -------------------------------
(***************************************************************************)
(* The assembly emitInstruction writes for one IR instruction, run line by *)
(* line on a small machine and compared with what the IR instruction       *)
(* means, for every combination of registers and spill slots allocateTemps *)
(* may have chosen for its operands.                                       *)
(*                                                                         *)
(* A word has WordBits bits and its low byte ByteBits: setcc writes only   *)
(* the low byte of rax, and movzx widens it.                               *)
(***************************************************************************)
EXTENDS Integers, Sequences

CONSTANTS
  WordBits, ByteBits,  \* widths of a register and of al
  Ops,                 \* the IR instructions to emit
  RegPlaces,           \* allocatable registers
  SpillPlaces          \* spill slots of the frame

ASSUME WidthAssumption == WordBits \in Nat /\ ByteBits \in 1 .. WordBits - 1

(* What the proofs use of powers of two. *)
ASSUME PowersAssumption ==
  /\ {2 ^ WordBits, 2 ^ (WordBits - 1), 2 ^ ByteBits, 2 ^ (WordBits - ByteBits)} \subseteq Nat \ {0, 1}
  /\ 2 ^ WordBits = 2 * 2 ^ (WordBits - 1)
  /\ 2 ^ WordBits = 2 ^ (WordBits - ByteBits) * 2 ^ ByteBits

Modulus == 2 ^ WordBits
Word == 0 .. Modulus - 1
Literal == Modulus - 3   \* the operand of const_int
Signed(x) == IF 2 * x < Modulus THEN x ELSE x - Modulus
Wrap(n) == n % Modulus

Places == RegPlaces \cup SpillPlaces
Scratch == {"rax", "rcx", "rdx", "rdi", "rsi"}
Local == "local"   \* the stack slot of the local an instruction names
Cells == Places \cup Scratch \cup {Local}

BinOps == {"+", "-", "*", "/", "%", "&&", "||"}
CmpOps == {"==", "!=", "<", "<=", ">", ">="}

(* No temporary lives in a register emitInstruction works in. *)
ASSUME PlacesAssumption ==
  /\ Places \cap (Scratch \cup {Local, "#0", "#k"}) = {}
  /\ Ops \subseteq BinOps \cup CmpOps \cup
       {"const_int", "const_ptr", "load_local", "store_local", "neg", "not", "nonzero",
        "call", "print", "br", "jmp", "ret"}

VARIABLES
  inst,     \* the IR instruction and the places of its temporaries
  lines,    \* the assembly still to run
  cell,     \* registers, spill slots and the local
  before,   \* the cells when the first line ran
  flags,    \* what the last cmp compared
  target,   \* where the last jump or call went
  trapped   \* idiv raised a divide error

emissionVars == <<inst, lines, cell, before, flags, target, trapped>>

-----------------------------------------------------------------------------
(* Emission.  A line is [op, to, from]; the immediates are "#0" and "#k".   *)

Line(op, to, from) == [op |-> op, to |-> to, from |-> from]

(* loadTempInto and storeTempFrom: no move onto itself. *)
Move(to, from) == IF to = from THEN <<>> ELSE <<Line("mov", to, from)>>

(* A value that a register can take directly and a slot only through rax. *)
IntoDest(op, dest, from) ==
  IF dest \in RegPlaces THEN <<Line(op, dest, from)>>
                        ELSE <<Line(op, "rax", from), Line("mov", dest, "rax")>>

Booleanize(reg, scratch) ==
  <<Line("cmp", reg, "#0"), Line("!=", "al", ""), Line("movzx", scratch, "al")>>
    \o Move(reg, scratch)

(* Slips: the remainder is read from rax; rax is not sign-extended. *)
EmitDivisionQuotient(op, d, l, r) ==
  Move("rax", l) \o <<Line("cqo", "rdx", "rax")>> \o Move("rcx", r)
    \o <<Line("idiv", "rax", "rcx")>> \o Move(d, "rax")
EmitDivisionNoExtend(op, d, l, r) ==
  Move("rax", l) \o Move("rcx", r)
    \o <<Line("idiv", "rax", "rcx")>> \o Move(d, IF op = "/" THEN "rax" ELSE "rdx")
EmitDivision(op, d, l, r) ==
  Move("rax", l) \o <<Line("cqo", "rdx", "rax")>> \o Move("rcx", r)
    \o <<Line("idiv", "rax", "rcx")>> \o Move(d, IF op = "/" THEN "rax" ELSE "rdx")

EmitBoolean(op, d, l, r) ==
  Move("rax", l) \o Booleanize("rax", "rax") \o Move("rcx", r) \o Booleanize("rcx", "rcx")
    \o <<Line(op, "rax", "rcx")>> \o Move(d, "rax")

(* A slip: the sum is formed in the left operand's own place. *)
EmitArithmeticInPlace(op, d, l, r) ==
  Move("rcx", r) \o <<Line(op, l, "rcx")>> \o Move("rax", l) \o Move(d, "rax")
EmitArithmetic(op, d, l, r) ==
  Move("rax", l) \o Move("rcx", r) \o <<Line(op, "rax", "rcx")>> \o Move(d, "rax")

EmitCompare(op, d, l, r) ==
  Move("rax", l) \o (IF r = "#0" THEN <<>> ELSE Move("rcx", r))
    \o <<Line("cmp", "rax", IF r = "#0" THEN r ELSE "rcx"), Line(op, "al", ""),
         Line("movzx", "rax", "al")>>
    \o Move(d, "rax")

(* A slip: the labels of the two jumps are exchanged. *)
EmitBranchSwapped(c) ==
  Move("rax", c) \o <<Line("cmp", "rax", "#0"), Line("jne", "else", ""), Line("jmp", "then", "")>>
EmitBranch(c) ==
  Move("rax", c) \o <<Line("cmp", "rax", "#0"), Line("jne", "then", ""), Line("jmp", "else", "")>>

(***************************************************************************)
(* emitInstruction: i.op with its destination and its operands.  Constants *)
(* and loads write a register directly; the address lea loads (const_str,  *)
(* const_ptr) is one more literal, and a runtime call is a call.           *)
(***************************************************************************)
Emit(i) ==
  CASE i.op \in {"const_int", "const_ptr"} -> IntoDest("mov", i.dest, "#k")
    [] i.op = "load_local"  -> IntoDest("mov", i.dest, Local)
    [] i.op = "store_local" -> Move("rax", i.left) \o <<Line("mov", Local, "rax")>>
    [] i.op = "neg" -> Move("rax", i.left) \o <<Line("neg", "rax", "")>> \o Move(i.dest, "rax")
    [] i.op = "not" -> EmitCompare("==", i.dest, i.left, "#0")
    [] i.op = "nonzero" -> EmitCompare("!=", i.dest, i.left, "#0")
    [] i.op \in {"/", "%"} -> EmitDivision(i.op, i.dest, i.left, i.right)
    [] i.op \in {"&&", "||"} -> EmitBoolean(i.op, i.dest, i.left, i.right)
    [] i.op \in {"+", "-", "*"} -> EmitArithmetic(i.op, i.dest, i.left, i.right)
    [] i.op \in CmpOps -> EmitCompare(i.op, i.dest, i.left, i.right)
    [] i.op = "call" -> Move("rdi", i.left) \o Move("rsi", i.right)
                          \o <<Line("call", "callee", "")>> \o Move(i.dest, "rax")
    [] i.op = "print" -> Move("rdi", i.left) \o <<Line("call", "print", "")>>
    [] i.op = "br" -> EmitBranch(i.left)
    [] i.op = "jmp" -> <<Line("jmp", "label", "")>>
    [] i.op = "ret" -> Move("rax", i.left) \o <<Line("jmp", "epilogue", "")>>

-----------------------------------------------------------------------------
(* The machine.                                                            *)

Value(from) == CASE from = "#0" -> 0
                 [] from = "#k" -> Literal
                 [] OTHER -> cell[from]

Holds(op, a, b) ==
  CASE op = "==" -> a = b
    [] op = "!=" -> a # b
    [] op = "<"  -> Signed(a) < Signed(b)
    [] op = "<=" -> Signed(a) <= Signed(b)
    [] op = ">"  -> Signed(a) > Signed(b)
    [] op = ">=" -> Signed(a) >= Signed(b)

Bit(b) == IF b THEN 1 ELSE 0
LowByte(x) == x % (2 ^ ByteBits)

(* x86 division truncates towards zero; the remainder has the dividend's sign. *)
Abs(n) == IF n < 0 THEN -n ELSE n
Quotient(a, b) == (Abs(a) \div Abs(b)) * (IF (a < 0) = (b < 0) THEN 1 ELSE -1)
Remainder(a, b) == a - Quotient(a, b) * b

(* What the C function or the compiled function called returns. *)
CalleeResult(a, b) == Wrap(a + 2 * b + 1)

Arithmetic(op, a, b) ==
  CASE op = "+" -> Wrap(a + b)
    [] op = "-" -> Wrap(a - b)
    [] op = "*" -> Wrap(a * b)
    [] op = "&&" -> IF a = 1 /\ b = 1 THEN 1 ELSE 0   \* and, of two booleans
    [] op = "||" -> IF a = 0 /\ b = 0 THEN 0 ELSE 1   \* or, of two booleans

SetCell(c, v) == cell' = [cell EXCEPT ![c] = v]

(* A jump leaves the instruction: what follows it is not run. *)
JumpTo(label) == target' = label /\ lines' = <<>> /\ UNCHANGED <<cell, flags, trapped>>

Mov(ln) == /\ ln.op = "mov"
           /\ SetCell(ln.to, Value(ln.from))
           /\ lines' = Tail(lines)
           /\ UNCHANGED <<flags, target, trapped>>

Compute(ln) ==
  /\ ln.op \in {"+", "-", "*", "&&", "||", "neg", "cqo", "movzx"}
  /\ SetCell(ln.to, CASE ln.op = "neg" -> Wrap(-cell[ln.to])
                      [] ln.op = "cqo" -> IF Signed(cell["rax"]) < 0 THEN Modulus - 1 ELSE 0
                      [] ln.op = "movzx" -> LowByte(cell["rax"])
                      [] OTHER -> Arithmetic(ln.op, cell[ln.to], cell[ln.from]))
  /\ lines' = Tail(lines)
  /\ UNCHANGED <<flags, target, trapped>>

Cmp(ln) == /\ ln.op = "cmp"
           /\ flags' = <<cell[ln.to], Value(ln.from)>>
           /\ lines' = Tail(lines)
           /\ UNCHANGED <<cell, target, trapped>>

(* A slip: the bit is added to what al held. *)
SetCcKeepsByte(ln) ==
  /\ ln.op \in CmpOps
  /\ SetCell("rax", cell["rax"] + Bit(Holds(ln.op, flags[1], flags[2])))
  /\ lines' = Tail(lines)
  /\ UNCHANGED <<flags, target, trapped>>
SetCc(ln) ==
  /\ ln.op \in CmpOps
  /\ SetCell("rax", cell["rax"] - LowByte(cell["rax"]) + Bit(Holds(ln.op, flags[1], flags[2])))
  /\ lines' = Tail(lines)
  /\ UNCHANGED <<flags, target, trapped>>

(* idiv divides rdx:rax; it raises a divide error when the quotient has no word. *)
Dividend == Signed(cell["rdx"]) * Modulus + cell["rax"]
DivideError(b) ==
  b = 0 \/ Quotient(Dividend, b) \notin -(Modulus \div 2) .. Modulus \div 2 - 1
Idiv(ln) ==
  LET b == Signed(cell["rcx"]) IN
    /\ ln.op = "idiv"
    /\ IF DivideError(b)
       THEN trapped' = TRUE /\ lines' = <<>> /\ UNCHANGED cell
       ELSE /\ cell' = [cell EXCEPT !["rax"] = Wrap(Quotient(Dividend, b)),
                                    !["rdx"] = Wrap(Remainder(Dividend, b))]
            /\ lines' = Tail(lines)
            /\ UNCHANGED trapped
    /\ UNCHANGED <<flags, target>>

(* A call may leave anything in the registers the convention does not preserve. *)
CallLine(ln) ==
  /\ ln.op = "call"
  /\ target' = ln.to
  /\ cell' = [c \in Cells |-> IF c = "rax" THEN CalleeResult(cell["rdi"], cell["rsi"])
                              ELSE IF c \in Scratch THEN Modulus - 1 ELSE cell[c]]
  /\ lines' = Tail(lines)
  /\ UNCHANGED <<flags, trapped>>

Jump(ln) ==
  \/ ln.op = "jmp" /\ JumpTo(ln.to)
  \/ ln.op = "jne" /\ flags[1] # flags[2] /\ JumpTo(ln.to)
  \/ ln.op = "jne" /\ flags[1] = flags[2] /\ lines' = Tail(lines)
       /\ UNCHANGED <<cell, flags, target, trapped>>

(***************************************************************************)
(* The operands are read at the instruction that writes the destination,   *)
(* so their intervals overlap it and it has a place of its own.  The       *)
(* operands of && and || are themselves results of a comparison.  Where    *)
(* there is no second operand, right stands for nothing and repeats left.  *)
(***************************************************************************)
TwoOperands == {"+", "-", "*", "/", "%", "&&", "||", "call"} \cup CmpOps
EmissionInit ==
  /\ inst \in [op : Ops, dest : Places, left : Places, right : Places]
  /\ inst.dest \notin {inst.left, inst.right}
  /\ inst.op \notin TwoOperands => inst.right = inst.left
  /\ \E l, r \in Word :
       /\ inst.left = inst.right => l = r
       /\ inst.op \in {"&&", "||"} => {l, r} \subseteq {0, 1}
       /\ cell = [c \in Cells |-> IF c = inst.right THEN r ELSE IF c = inst.left THEN l ELSE Modulus - 2]
  /\ before = cell
  /\ lines = Emit(inst)
  /\ flags = <<0, 0>>
  /\ target = "next"
  /\ trapped = FALSE

Step ==
  /\ lines # <<>>
  /\ LET ln == Head(lines) IN
       Mov(ln) \/ Compute(ln) \/ Cmp(ln) \/ SetCc(ln) \/ Idiv(ln) \/ CallLine(ln) \/ Jump(ln)
  /\ UNCHANGED <<inst, before>>

Finished == lines = <<>> /\ UNCHANGED emissionVars

EmissionNext == Step \/ Finished

EmissionSpec == EmissionInit /\ [][EmissionNext]_emissionVars

-----------------------------------------------------------------------------
(* The meaning of an IR instruction.                                       *)

LeftValue == before[inst.left]
RightValue == before[inst.right]
Divisible == RightValue # 0 /\ ~(2 * LeftValue = Modulus /\ RightValue = Modulus - 1)

Meaning ==
  CASE inst.op \in {"const_int", "const_ptr"} -> Literal
    [] inst.op = "load_local" -> before[Local]
    [] inst.op = "neg" -> Wrap(-LeftValue)
    [] inst.op = "not" -> Bit(LeftValue = 0)
    [] inst.op = "nonzero" -> Bit(LeftValue # 0)
    [] inst.op = "/" -> Wrap(Quotient(Signed(LeftValue), Signed(RightValue)))
    [] inst.op = "%" -> Wrap(Remainder(Signed(LeftValue), Signed(RightValue)))
    [] inst.op = "&&" -> Bit(LeftValue # 0 /\ RightValue # 0)
    [] inst.op = "||" -> Bit(LeftValue # 0 \/ RightValue # 0)
    [] inst.op \in CmpOps -> Bit(Holds(inst.op, LeftValue, RightValue))
    [] inst.op = "call" -> CalleeResult(LeftValue, RightValue)
    [] OTHER -> Arithmetic(inst.op, LeftValue, RightValue)

Writes == inst.op \notin {"store_local", "print", "jmp", "br", "ret"}
Over == lines = <<>> /\ ~trapped

(* Every cell holds a word of the machine. *)
EmissionTypeOK ==
  /\ cell \in [Cells -> Word]
  /\ inst.op \in Ops
  /\ trapped \in BOOLEAN

(***************************************************************************)
(* The lines emitInstruction writes compute the IR instruction into the    *)
(* place of its destination, wherever its operands live.                   *)
(***************************************************************************)
ComputesMeaning == Over /\ Writes => cell[inst.dest] = Meaning

(***************************************************************************)
(* The instructions that transfer control or store do so with the right    *)
(* value: jmp and print go where they say, a branch goes to its then label *)
(* exactly when the condition is not zero, ret leaves the value in rax,    *)
(* and store_local in the local.                                           *)
(***************************************************************************)
TransfersRight ==
  Over =>
    /\ inst.op = "br" => target = IF LeftValue # 0 THEN "then" ELSE "else"
    /\ inst.op = "print" => target = "print"
    /\ inst.op = "jmp" => target = "label"
    /\ inst.op = "ret" => target = "epilogue" /\ cell["rax"] = LeftValue
    /\ inst.op = "store_local" => cell[Local] = LeftValue

(***************************************************************************)
(* No line writes a place other than the destination's: the scratch        *)
(* registers emitInstruction works in hold no temporary, and an operand is *)
(* still there for the next instruction that reads it.                     *)
(***************************************************************************)
OthersUntouched ==
  \A c \in (Places \cup {Local}) \ {inst.dest} :
    cell[c] = before[c] \/ (inst.op = "store_local" /\ c = Local)

(***************************************************************************)
(* A divide error is raised only for a division by zero or one whose       *)
(* quotient does not fit: cqo sets up rdx for every dividend.              *)
(***************************************************************************)
TrapsOnlyUndivisible == trapped => inst.op \in {"/", "%"} /\ ~Divisible

(***************************************************************************)
(* Wherever the allocator has put the operands, the lines emitInstruction  *)
(* writes for an instruction compute what the instruction means, leave     *)
(* every other place alone, go where it says, and trap only in a division  *)
(* that has no result.                                                     *)
(***************************************************************************)
InstructionsRight ==
  /\ EmissionTypeOK
  /\ ComputesMeaning
  /\ TransfersRight
  /\ OthersUntouched
  /\ TrapsOnlyUndivisible
=============================================================================
