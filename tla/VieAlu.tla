------------------------------ MODULE VieAlu ------------------------------
(***************************************************************************)
(* The instructions of vmm_instruction_emul.c that move or combine one     *)
(* operand: MOV, MOVZX, MOVSX, AND, OR, CMP, SUB and BT, with the register *)
(* helpers and the dispatch of vmm_emulate_instruction().  The model       *)
(* computes on integers as the code does, with a byte scaled to B bits     *)
(* (a register has 8 bytes); the reference below is written on bytes and   *)
(* signed values, as the architecture describes the instructions.          *)
(***************************************************************************)
EXTENDS Integers, Sequences, FiniteSets, Bitwise

CONSTANTS B,       \* bits of a byte
          Values,  \* register and memory contents tried
          Imms,    \* (sign-extended) immediates tried
          Ops,     \* opcodes tried, with the ModRM reg extension of a group
          Regs     \* values of vie->reg tried

VARIABLES vie,     \* [op, size, rex, reg, imm]
          cpu,     \* [gpr, mem, flags] before the instruction
          res      \* after it, with the error

vars == <<vie, cpu, res>>

Bits(size) == B * size
Mod(size) == 2^Bits(size)
Mask(v, size) == v % Mod(size)              \* v & size2mask[size]
Status == {"CF", "PF", "AF", "ZF", "SF", "OF"}

-----------------------------------------------------------------------------
\* Registers.

(* vie_calc_bytereg(): without REX, 4..7 are the high bytes of 0..3.       *)
Lhbr == ~vie.rex /\ (vie.reg \div 4) % 2 = 1
ByteReg == IF Lhbr THEN vie.reg % 4 ELSE vie.reg

vie_read_bytereg(gpr) ==
    Mask(IF Lhbr THEN gpr[ByteReg] \div 2^B ELSE gpr[ByteReg], 1)

vie_write_bytereg(gpr, byte) ==
    LET shift == IF Lhbr THEN 2^B ELSE 1
        old == (gpr[ByteReg] \div shift) % 2^B
    IN  [gpr EXCEPT ![ByteReg] = @ - old * shift + byte * shift]

(* 1 and 2 bytes merge, 4 bytes clear the rest, 8 replace.                 *)
vie_update_register(gpr, r, val, size) ==
    [gpr EXCEPT ![r] = IF size \in {1, 2} THEN (@ - Mask(@, size)) + Mask(val, size)
                       ELSE Mask(val, size)]

-----------------------------------------------------------------------------
\* getcc() runs a subtraction on the host: the flags of the processor
\* (external).

Signed(v, size) == LET u == Mask(v, size)
                   IN  IF 2 * u >= Mod(size) THEN u - Mod(size) ELSE u
Ones(v) == Cardinality({i \in 0 .. B - 1 : (v \div 2^i) % 2 = 1})

getcc(size, x, y) ==
    LET a == Mask(x, size)  b == Mask(y, size)  r == Mask(a - b, size)
        s == Signed(x, size) - Signed(y, size)
    IN    (IF a < b THEN {"CF"} ELSE {})
     \cup (IF Ones(r) % 2 = 0 THEN {"PF"} ELSE {})
     \cup (IF a % 2^(B \div 2) < b % 2^(B \div 2) THEN {"AF"} ELSE {})
     \cup (IF r = 0 THEN {"ZF"} ELSE {})
     \cup (IF 2 * r >= Mod(size) THEN {"SF"} ELSE {})
     \cup (IF s # Signed(r, size) THEN {"OF"} ELSE {})

SetFlags(old, new) == (old \ Status) \cup new

-----------------------------------------------------------------------------
\* The handlers: the cpu after the instruction.  memread() gives the
\* device's value in `size' bytes; memwrite() hands it a value of which the
\* device takes `size' bytes.

memread(size) == Mask(cpu.mem, size)
memwrite(val, size) ==
    [cpu EXCEPT !.mem = (@ - Mask(@, size)) + Mask(val, size)]
ToReg(r, val) == [cpu EXCEPT !.gpr = vie_update_register(@, r, val, vie.size)]
Invalid == [error |-> "EINVAL"]

emulate_mov ==
    CASE vie.op = "88" -> memwrite(vie_read_bytereg(cpu.gpr), 1)
      [] vie.op = "89" -> memwrite(Mask(cpu.gpr[vie.reg], vie.size), vie.size)
      [] vie.op = "8A" -> [cpu EXCEPT !.gpr = vie_write_bytereg(@, memread(1))]
      [] vie.op = "8B" -> ToReg(vie.reg, memread(vie.size))
      [] vie.op = "A1" -> ToReg(0, memread(vie.size))
      [] vie.op = "A3" -> memwrite(Mask(cpu.gpr[0], vie.size), vie.size)
      [] vie.op = "C6" -> memwrite(Mask(vie.imm, 8), 1)
      [] OTHER -> memwrite(Mask(vie.imm, vie.size), vie.size)

emulate_movx ==
    CASE vie.op = "0FB6" -> ToReg(vie.reg, memread(1))
      [] vie.op = "0FB7" -> ToReg(vie.reg, memread(2))
      [] OTHER -> ToReg(vie.reg, Mask(Signed(memread(1), 1), 8))

(* AND and OR: CF, OF and AF cleared, the others from the result.          *)
Logic(s, result) ==
    [s EXCEPT !.flags = SetFlags(@, getcc(vie.size, result, 0) \cap {"PF", "ZF", "SF"})]

emulate_and ==
    IF vie.op = "23"
    THEN LET result == cpu.gpr[vie.reg] & memread(vie.size)
         IN  Logic(ToReg(vie.reg, result), result)
    ELSE LET result == memread(vie.size) & Mask(vie.imm, 8)
         IN  Logic(memwrite(result, vie.size), result)

emulate_or ==
    LET result == memread(vie.size) | Mask(vie.imm, 8)
    IN  Logic(memwrite(result, vie.size), result)

emulate_cmp ==
    LET size == IF vie.op = "80/7" THEN 1 ELSE vie.size
        cc == IF vie.op = "3B" THEN getcc(size, cpu.gpr[vie.reg], memread(size))
              ELSE getcc(size, memread(size), vie.imm)
    IN  [cpu EXCEPT !.flags = SetFlags(@, cc)]

emulate_sub ==
    LET x == cpu.gpr[vie.reg]  y == memread(vie.size)
    IN  [ToReg(vie.reg, Mask(x - y, 8)) EXCEPT !.flags = SetFlags(@, getcc(vie.size, x, y))]

(* The bit offset is taken modulo the operand's width.                     *)
emulate_bittest ==
    LET bit == (memread(vie.size) \div 2^(vie.imm % Bits(vie.size))) % 2
    IN  [cpu EXCEPT !.flags = IF bit = 1 THEN @ \cup {"CF"} ELSE @ \ {"CF"}]

(* Group 1 (80, 81, 83) is told apart by the ModRM reg field; an 8-bit OR  *)
(* or AND is refused by its handler.                                       *)
emulate_group1 ==
    CASE vie.op \in {"81/1", "83/1"} -> emulate_or
      [] vie.op \in {"81/4", "83/4"} -> emulate_and
      [] vie.op \in {"80/7", "81/7", "83/7"} -> emulate_cmp
      [] OTHER -> Invalid

vmm_emulate_instruction ==
    CASE vie.op \in {"88", "89", "8A", "8B", "A1", "A3", "C6", "C7"} -> emulate_mov
      [] vie.op \in {"0FB6", "0FB7", "0FBE"} -> emulate_movx
      [] vie.op = "23" -> emulate_and
      [] vie.op = "3B" -> emulate_cmp
      [] vie.op = "2B" -> emulate_sub
      [] vie.op = "0FBA/4" -> emulate_bittest
      [] vie.op = "0FBA/5" -> Invalid
      [] OTHER -> emulate_group1

-----------------------------------------------------------------------------

Init == /\ vie \in [op : Ops, size : {2, 4, 8}, rex : BOOLEAN, reg : Regs, imm : Imms]
        /\ vie.reg > 7 => vie.rex
        /\ cpu \in [gpr : {[r \in Regs \cup {0, 1} |-> (v + 21 * r) % Mod(8)] : v \in Values},
                    mem : Values, flags : {{}, Status \cup {"DF"}}]
        /\ res = << >>

Emulate == /\ res = << >>
           /\ res' = <<vmm_emulate_instruction>>
           /\ UNCHANGED <<vie, cpu>>

Done == res # << >> /\ UNCHANGED vars

Next == Emulate \/ Done

Spec == Init /\ [][Next]_vars

-----------------------------------------------------------------------------
\* The reference: operands as sequences of bytes.

Byte(v, i) == (v \div 2^(B * (i - 1))) % 2^B              \* i = 1 is the lowest
Bytes(v) == [i \in 1 .. 8 |-> Byte(v, i)]
Top(bs, n) == bs[n] >= 2^(B - 1)                         \* the sign of n bytes
SignFill(bs, n) == IF Top(bs, n) THEN 2^B - 1 ELSE 0

(* An immediate, sign-extended to 8 bytes.                                 *)
ImmBytes == Bytes(Mask(vie.imm, 8))

(* A register after a write of n bytes: 16-bit and 8-bit writes keep the   *)
(* other bytes, 32-bit writes clear them.                                  *)
Written(old, bs, n) == [i \in 1 .. 8 |-> IF i <= n THEN bs[i]
                                         ELSE IF n < 4 THEN old[i] ELSE 0]
Stored(old, bs, n) == [i \in 1 .. 8 |-> IF i <= n THEN bs[i] ELSE old[i]]

(* The 8-bit register that ModRM reg names.                                *)
ByteOperand == IF ~vie.rex /\ vie.reg \in 4 .. 7 THEN [r |-> vie.reg - 4, i |-> 2]
               ELSE [r |-> vie.reg, i |-> 1]

Number(bs, n) == LET sum[i \in 0 .. n] == IF i = 0 THEN 0
                                          ELSE sum[i - 1] + bs[i] * 2^(B * (i - 1))
                 IN  sum[n]
SNumber(bs, n) == IF Top(bs, n) THEN Number(bs, n) - Mod(n) ELSE Number(bs, n)
Combine(a, b, keep(_, _)) == [i \in 1 .. 8 |-> keep(a[i], b[i])]

(* The flags of x - y by the meaning of the comparison.                    *)
Below(x, y, n) == Number(x, n) < Number(y, n)
Equal(x, y, n) == \A i \in 1 .. n : x[i] = y[i]
Less(x, y, n) == SNumber(x, n) < SNumber(y, n)

CompareFlags(f, x, y, n) ==
    /\ ("CF" \in f) = Below(x, y, n)
    /\ ("ZF" \in f) = Equal(x, y, n)
    /\ (("SF" \in f) # ("OF" \in f)) = Less(x, y, n)

(* One emulated instruction does what the architecture says: the operand   *)
(* widths, zero and sign extension, the legacy high-byte registers, what a *)
(* narrow write keeps of its register, and the flags a following jump      *)
(* tests - and it changes nothing else.                                    *)
EmulatesExactly ==
    res # << >> /\ res[1] # Invalid =>
        LET new == res[1]
            n == vie.size
            r == Bytes(cpu.gpr[vie.reg])
            m == Bytes(cpu.mem)
            regIs(k, bs) == new.gpr = [cpu.gpr EXCEPT ![k] = Number(bs, 8)]
            memIs(bs) == new.mem = Number(bs, 8)
            onlyMem == new.gpr = cpu.gpr /\ new.flags = cpu.flags
            onlyReg == new.mem = cpu.mem /\ new.flags = cpu.flags
            sysFlags == new.flags \ Status = cpu.flags \ Status
            land(a, b) == a & b
            lor(a, b) == a | b
            logic(bs) == /\ sysFlags /\ {"CF", "OF"} \cap new.flags = {}
                         /\ ("ZF" \in new.flags) = (\A i \in 1 .. n : bs[i] = 0)
                         /\ ("SF" \in new.flags) = Top(bs, n)
        IN  CASE vie.op = "88" ->
                   LET o == ByteOperand
                   IN  onlyMem /\ memIs(Stored(m, <<Byte(cpu.gpr[o.r], o.i)>>, 1))
              [] vie.op = "8A" ->
                   LET o == ByteOperand
                   IN  onlyReg /\ regIs(o.r, [Bytes(cpu.gpr[o.r]) EXCEPT ![o.i] = m[1]])
              [] vie.op \in {"89", "A3"} ->
                   onlyMem /\ memIs(Stored(m, IF vie.op = "89" THEN r ELSE Bytes(cpu.gpr[0]), n))
              [] vie.op \in {"8B", "A1"} ->
                   LET k == IF vie.op = "8B" THEN vie.reg ELSE 0
                   IN  onlyReg /\ regIs(k, Written(Bytes(cpu.gpr[k]), m, n))
              [] vie.op \in {"C6", "C7"} ->
                   onlyMem /\ memIs(Stored(m, ImmBytes, IF vie.op = "C6" THEN 1 ELSE n))
              [] vie.op \in {"0FB6", "0FB7"} ->
                   LET w == IF vie.op = "0FB6" THEN 1 ELSE 2
                   IN  onlyReg /\ regIs(vie.reg, Written(r, [i \in 1 .. 8 |->
                                            IF i <= w THEN m[i] ELSE 0], n))
              [] vie.op = "0FBE" ->
                   onlyReg /\ regIs(vie.reg, Written(r, [i \in 1 .. 8 |->
                                         IF i = 1 THEN m[1] ELSE SignFill(m, 1)], n))
              [] vie.op = "23" ->
                   /\ regIs(vie.reg, Written(r, Combine(r, m, land), n))
                   /\ new.mem = cpu.mem /\ logic(Combine(r, m, land))
              [] vie.op \in {"81/4", "83/4"} ->
                   /\ memIs(Stored(m, Combine(m, ImmBytes, land), n))
                   /\ new.gpr = cpu.gpr /\ logic(Combine(m, ImmBytes, land))
              [] vie.op \in {"81/1", "83/1"} ->
                   /\ memIs(Stored(m, Combine(m, ImmBytes, lor), n))
                   /\ new.gpr = cpu.gpr /\ logic(Combine(m, ImmBytes, lor))
              [] vie.op = "3B" ->
                   new.gpr = cpu.gpr /\ new.mem = cpu.mem /\ sysFlags
                   /\ CompareFlags(new.flags, r, m, n)
              [] vie.op \in {"80/7", "81/7", "83/7"} ->
                   new.gpr = cpu.gpr /\ new.mem = cpu.mem /\ sysFlags
                   /\ CompareFlags(new.flags, m, ImmBytes, IF vie.op = "80/7" THEN 1 ELSE n)
              [] vie.op = "2B" ->
                   /\ \E d \in {Number(r, n) - Number(m, n)} :
                        regIs(vie.reg, Written(r, Bytes(d % Mod(8)), n))
                   /\ new.mem = cpu.mem /\ sysFlags /\ CompareFlags(new.flags, r, m, n)
              [] OTHER ->
                   LET bit == vie.imm % (B * n)
                   IN  /\ new.gpr = cpu.gpr /\ new.mem = cpu.mem
                       /\ new.flags \ {"CF"} = cpu.flags \ {"CF"}
                       /\ ("CF" \in new.flags)
                             = (((m[(bit \div B) + 1] \div 2^(bit % B)) % 2) = 1)
=============================================================================
