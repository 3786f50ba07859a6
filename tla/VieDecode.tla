---------------------------- MODULE VieDecode ----------------------------
(***************************************************************************)
(* The instruction decoder of vmm_instruction_emul.c: fetch, prefixes,     *)
(* opcode, ModRM, SIB, displacement, immediate, memory offset and the      *)
(* verification of the linear address, over the real instruction bytes.    *)
(* The reference is the other direction, an encoder that follows the       *)
(* tables of the architecture: decoding what it produces must give the     *)
(* instruction back.                                                       *)
(*                                                                         *)
(* A value of several bytes is its little-endian byte sequence, sign- or   *)
(* zero-extended to 8 bytes; addresses are compared in their low 16 bits.  *)
(***************************************************************************)
EXTENDS Integers, Sequences, FiniteSets, SequencesExt, TLC

CONSTANTS Descs,   \* the instructions tried, if Encodable
          Lengths  \* {TRUE}: the exit gives the instruction length; FALSE: 0

VARIABLES desc,    \* the instruction in guest memory
          known,   \* the exit carries its length
          vie      \* the decoder's result

vars == <<desc, known, vie>>

VIE_INST_SIZE == 15
None == -1
RIP == 16

Bit(x, i) == (x \div 2^i) % 2

-----------------------------------------------------------------------------
\* The opcode tables: opcode byte to kind and flags.

NoFlags == {}
one_byte_opcodes ==
    [b \in {43, 59, 136, 137, 138, 139, 35} |-> NoFlags]               \* 2B 3B 88..8B 23
 @@ [b \in {161, 163} |-> {"MOFFSET", "NO_MODRM"}]                      \* A1 A3
 @@ [b \in {164, 165, 170, 171} |-> {"NO_MODRM", "NO_GLA"}]             \* A4 A5 AA AB
 @@ [b \in {198, 128, 131} |-> {"IMM8"}]                                \* C6 80 83
 @@ [b \in {199, 129} |-> {"IMM"}]                                      \* C7 81
 @@ [b \in {143, 255} |-> NoFlags]                                      \* 8F FF

two_byte_opcodes == [b \in {182, 183, 190} |-> NoFlags]                 \* B6 B7 BE
                 @@ [b \in {186} |-> {"IMM8"}]                          \* BA

-----------------------------------------------------------------------------
\* The stages.  A stage maps the state of the decoder to the next one; pos is
\* num_processed, ok turns FALSE where the code returns -1.

Fail(v) == [v EXCEPT !.ok = FALSE]
vie_peek(v, k) == v.pos + k <= Len(v.inst)      \* k bytes are left

vie_init(bytes) ==
    [ok |-> TRUE, inst |-> bytes, pos |-> 0, opsize |-> 0, addrsize |-> 0,
     rep |-> {}, seg |-> None, rex |-> None, op |-> << >>, flags |-> {},
     mod |-> 0, rm |-> 0, reg |-> 0, base |-> None, index |-> None, scale |-> 0,
     dispBytes |-> 0, disp |-> << >>, imm |-> << >>]

segment_override == {46, 54, 62, 38, 100, 101}        \* CS SS DS ES FS GS
PrefixBytes == {102, 103, 243, 242} \cup segment_override

(* Number of prefixes before the first byte that is none of them.          *)
PrefixRun(inst) == CHOOSE k \in 0 .. Len(inst) :
                      /\ \A i \in 1 .. k : inst[i] \in PrefixBytes
                      /\ k < Len(inst) => inst[k + 1] \notin PrefixBytes

Sizes(mode, opsize, addrsize, w) ==
    CASE mode = "64" -> [opsize |-> IF w THEN 8 ELSE IF opsize THEN 2 ELSE 4,
                         addrsize |-> IF addrsize THEN 4 ELSE 8]
      [] mode = "32" -> [opsize |-> IF opsize THEN 2 ELSE 4,
                         addrsize |-> IF addrsize THEN 2 ELSE 4]
      [] OTHER -> [opsize |-> IF opsize THEN 4 ELSE 2,
                   addrsize |-> IF addrsize THEN 4 ELSE 2]

decode_prefixes(v, mode) ==
    LET k == PrefixRun(v.inst)
        pre == {v.inst[i] : i \in 1 .. k}
        segs == {i \in 1 .. k : v.inst[i] \in segment_override}
        next == v.inst[k + 1]
        rex == mode = "64" /\ next \in 64 .. 79
        sz == Sizes(mode, 102 \in pre, 103 \in pre, rex /\ Bit(next, 3) = 1)
    IN  IF k = Len(v.inst) THEN Fail(v)
        ELSE [v EXCEPT !.pos = IF rex THEN k + 1 ELSE k,
                       !.rex = IF rex THEN next ELSE None,
                       !.rep = pre \cap {242, 243},
                       !.seg = IF segs = {} THEN None
                               ELSE v.inst[CHOOSE i \in segs : \A j \in segs : j <= i],
                       !.opsize = sz.opsize, !.addrsize = sz.addrsize]

decode_two_byte_opcode(v) ==
    IF ~vie_peek(v, 1) \/ v.inst[v.pos + 1] \notin DOMAIN two_byte_opcodes
    THEN Fail(v)
    ELSE LET x == v.inst[v.pos + 1]
         IN  [v EXCEPT !.pos = @ + 1, !.op = <<15, x>>, !.flags = two_byte_opcodes[x]]

decode_opcode(v) ==
    IF ~v.ok \/ ~vie_peek(v, 1) THEN Fail(v)
    ELSE LET x == v.inst[v.pos + 1]
         IN  IF x = 15 THEN decode_two_byte_opcode([v EXCEPT !.pos = @ + 1])
             ELSE IF x \notin DOMAIN one_byte_opcodes THEN Fail(v)
             ELSE [v EXCEPT !.pos = @ + 1, !.op = <<x>>, !.flags = one_byte_opcodes[x]]

RexBit(v, i) == IF v.rex = None THEN 0 ELSE Bit(v.rex, i)
DispBytes(mod, old) == CASE mod = 1 -> 1 [] mod = 2 -> 4 [] OTHER -> old

(* The REX.B bit extends r/m unless r/m announces a SIB byte or a disp32   *)
(* without a base.                                                         *)
decode_modrm(v, mode) ==
    IF ~v.ok \/ "NO_MODRM" \in v.flags THEN v
    ELSE IF mode = "real" \/ ~vie_peek(v, 1) \/ v.inst[v.pos + 1] \div 64 = 3 THEN Fail(v)
    ELSE LET x == v.inst[v.pos + 1]
             mod == x \div 64
             low == x % 8
             rm == IF (mod = 0 /\ low = 5) \/ low = 4 THEN low ELSE low + 8 * RexBit(v, 0)
             w == [v EXCEPT !.pos = @ + 1, !.mod = mod, !.rm = rm,
                            !.reg = ((x \div 8) % 8) + 8 * RexBit(v, 2)]
         IN  IF rm = 4 THEN w
             ELSE IF mod = 0 /\ rm = 5
             THEN [w EXCEPT !.dispBytes = 4, !.base = IF mode = "64" THEN RIP ELSE None]
             ELSE [w EXCEPT !.dispBytes = DispBytes(mod, @), !.base = rm]

(* Mutant: the REX.X bit is not looked at.                                 *)
SibIgnoresRexX(v) ==
    IF ~v.ok \/ v.rm # 4 THEN v
    ELSE IF ~vie_peek(v, 1) THEN Fail(v)
    ELSE LET x == v.inst[v.pos + 1]
             index == (x \div 8) % 8
             base == (x % 8) + 8 * RexBit(v, 0)
             unused == v.mod = 0 /\ base = 5
         IN  [v EXCEPT !.pos = @ + 1,
                       !.dispBytes = IF unused THEN 4 ELSE DispBytes(v.mod, @),
                       !.base = IF unused THEN None ELSE base,
                       !.index = IF index # 4 THEN index ELSE None,
                       !.scale = IF index # 4 THEN 2^(x \div 64) ELSE 0]

(* The base is unused for rbp and r13 if mod is 0; the index for rsp.      *)
decode_sib(v) ==
    IF ~v.ok \/ v.rm # 4 THEN v
    ELSE IF ~vie_peek(v, 1) THEN Fail(v)
    ELSE LET x == v.inst[v.pos + 1]
             index == ((x \div 8) % 8) + 8 * RexBit(v, 1)
             base == (x % 8) + 8 * RexBit(v, 0)
             unused == v.mod = 0 /\ base \in {5, 13}
         IN  [v EXCEPT !.pos = @ + 1,
                       !.dispBytes = IF unused THEN 4 ELSE DispBytes(v.mod, @),
                       !.base = IF unused THEN None ELSE base,
                       !.index = IF index # 4 THEN index ELSE None,
                       !.scale = IF index # 4 THEN 2^(x \div 64) ELSE 0]

Extend(bs, fill) == bs \o [i \in 1 .. 8 - Len(bs) |-> fill]
SignExtend(bs) == Extend(bs, IF Last(bs) >= 128 THEN 255 ELSE 0)

decode_displacement(v) ==
    IF ~v.ok \/ v.dispBytes = 0 THEN v
    ELSE IF ~vie_peek(v, v.dispBytes) THEN Fail(v)
    ELSE [v EXCEPT !.pos = @ + v.dispBytes,
                   !.disp = SignExtend(SubSeq(v.inst, v.pos + 1, v.pos + v.dispBytes))]

ImmBytes(v) == CASE "IMM" \in v.flags -> IF v.opsize \in {4, 8} THEN 4 ELSE 2
                 [] "IMM8" \in v.flags -> 1
                 [] OTHER -> 0

decode_immediate(v) ==
    LET n == ImmBytes(v)
    IN  IF ~v.ok \/ n = 0 THEN v
        ELSE IF ~vie_peek(v, n) THEN Fail(v)
        ELSE [v EXCEPT !.pos = @ + n,
                       !.imm = SignExtend(SubSeq(v.inst, v.pos + 1, v.pos + n))]

decode_moffset(v) ==
    IF ~v.ok \/ "MOFFSET" \notin v.flags THEN v
    ELSE IF ~vie_peek(v, v.addrsize) THEN Fail(v)
    ELSE [v EXCEPT !.pos = @ + v.addrsize,
                   !.disp = Extend(SubSeq(v.inst, v.pos + 1, v.pos + v.addrsize), 0)]

verify_inst_length(v) == IF v.pos # 0 THEN v ELSE Fail(v)

(* Registers hold distinct small values; addresses are taken modulo 2^16.  *)
RegValue(r) == IF r = RIP THEN 4096 ELSE 16 * (r + 1)
Low16(d) == IF d = << >> THEN 0 ELSE d[1] + 256 * d[2]

(* "RIP-relative addressing starts from the following instruction": the    *)
(* code adds the number of bytes that were fetched.                        *)
RipOffset(v) == Len(v.inst)

verify_gla(v, gla) ==
    LET base == IF v.base = None THEN 0
                ELSE RegValue(v.base) + (IF v.base = RIP THEN RipOffset(v) ELSE 0)
        idx == IF v.index = None THEN 0 ELSE v.scale * RegValue(v.index)
    IN  IF ~v.ok \/ "NO_GLA" \in v.flags \/ (base + idx + Low16(v.disp)) % 65536 = gla
        THEN v ELSE Fail(v)

vmm_decode_instruction(bytes, gla, mode) ==
    verify_gla(verify_inst_length(decode_moffset(decode_immediate(decode_displacement(
        decode_sib(decode_modrm(decode_opcode(decode_prefixes(vie_init(bytes), mode)),
                                mode)))))), gla)

-----------------------------------------------------------------------------
\* The reference: an instruction
\*   [mode, pre, rex, w, op, reg, base, index, scale, disp, imm]
\* and its encoding by the tables of the architecture.

High(r) == IF r \in 8 .. 15 THEN 1 ELSE 0
RexByte(d) == 64 + 8 * (IF d.w THEN 1 ELSE 0) + 4 * High(d.reg) + 2 * High(d.index)
                 + High(d.base)
HasModrm(d) == d.op \notin {<<161>>, <<163>>, <<164>>, <<165>>, <<170>>, <<171>>}

(* A SIB byte: an index, a base that r/m cannot name, or (in 64-bit mode)  *)
(* an absolute address.                                                    *)
NeedsSib(d) == \/ d.index # None
               \/ d.base \in {4, 12}
               \/ d.base = None /\ d.mode = "64"

ModRm(d) ==
    LET mod == IF d.base \in {None, RIP} THEN 0
               ELSE CASE Len(d.disp) = 0 -> 0 [] Len(d.disp) = 1 -> 1 [] OTHER -> 2
        rm == IF NeedsSib(d) THEN 4 ELSE IF d.base \in {None, RIP} THEN 5 ELSE d.base % 8
    IN  <<64 * mod + 8 * (d.reg % 8) + rm>>

Log2(s) == CHOOSE k \in 0 .. 3 : 2^k = s

Sib(d) == <<64 * (IF d.index = None THEN 0 ELSE Log2(d.scale))
            + 8 * (IF d.index = None THEN 4 ELSE d.index % 8)
            + (IF d.base = None THEN 5 ELSE d.base % 8)>>

Encode(d) == d.pre
             \o (IF d.rex THEN <<RexByte(d)>> ELSE << >>)
             \o d.op
             \o (IF HasModrm(d) THEN ModRm(d) \o (IF NeedsSib(d) THEN Sib(d) ELSE << >>)
                 ELSE << >>)
             \o d.disp \o d.imm

Imm8 == {<<198>>, <<128>>, <<131>>, <<15, 186>>}
Imm4 == {<<199>>, <<129>>}
Moffset == {<<161>>, <<163>>}
SizesOf(d) == Sizes(d.mode, 102 \in Range(d.pre), 103 \in Range(d.pre), d.w)

(* The combinations that the architecture can encode.                      *)
Encodable(d) ==
    /\ d.rex => d.mode = "64"
    /\ HasModrm(d) => /\ d.mode # "real"       \* 16-bit forms are not decoded
                      /\ SizesOf(d).addrsize # 2
    /\ ~HasModrm(d) => /\ d.base = None /\ d.index = None /\ d.reg = 0
                       /\ Len(d.disp) = IF d.op \in Moffset THEN SizesOf(d).addrsize ELSE 0
    /\ d.index = None => d.scale = 1
    /\ Len(d.imm) = CASE d.op \in Imm8 -> 1
                      [] d.op \in Imm4 -> IF SizesOf(d).opsize = 2 THEN 2 ELSE 4
                      [] OTHER -> 0
    /\ Len(Encode(d)) <= VIE_INST_SIZE
    /\ (d.w \/ High(d.reg) = 1 \/ High(d.index) = 1 \/ High(d.base) = 1) => d.rex
    /\ d.base = RIP => d.mode = "64" /\ d.index = None
    /\ d.index # 4
    /\ HasModrm(d) /\ d.base \in {None, RIP} => Len(d.disp) = 4
    /\ HasModrm(d) /\ d.base \in {5, 13} => Len(d.disp) # 0
    /\ HasModrm(d) => Len(d.disp) \in {0, 1, 4}

Gla(d, n) ==     \* the address that the processor reports; n is the length
    (  (IF d.base = None THEN 0 ELSE RegValue(d.base) + (IF d.base = RIP THEN n ELSE 0))
     + (IF d.index = None THEN 0 ELSE d.scale * RegValue(d.index))
     + (IF d.disp = << >> THEN 0
        ELSE IF HasModrm(d) THEN Low16(SignExtend(d.disp)) ELSE Low16(d.disp))) % 65536

-----------------------------------------------------------------------------

Undecoded == vie_init(<< >>)

Init == /\ desc \in {d \in Descs : Encodable(d)}
        /\ known \in Lengths
        /\ vie = Undecoded

(* vmm_fetch_instruction(): the instruction's bytes, or as many as an      *)
(* instruction can have when the length is not known; the bytes after it   *)
(* belong to the next instructions.                                        *)
vmm_fetch_instruction(d) ==
    LET bytes == Encode(d)
    IN  IF known THEN bytes
        ELSE bytes \o [i \in 1 .. VIE_INST_SIZE - Len(bytes) |-> 144]

Decode == /\ vie = Undecoded
          /\ vie' = vmm_decode_instruction(vmm_fetch_instruction(desc),
                                           Gla(desc, Len(Encode(desc))), desc.mode)
          /\ UNCHANGED <<desc, known>>

Done == vie # Undecoded /\ UNCHANGED vars

Next == Decode \/ Done

Spec == Init /\ [][Next]_vars

-----------------------------------------------------------------------------

(* What the decoder must find out about an instruction.                    *)
Gives(v, d) ==
    /\ v.ok
    /\ v.pos = Len(Encode(d))
    /\ v.op = d.op
    /\ [opsize |-> v.opsize, addrsize |-> v.addrsize]
          = SizesOf(d)
    /\ HasModrm(d) => /\ v.reg = d.reg /\ v.base = d.base /\ v.index = d.index
                      /\ d.index # None => v.scale = d.scale
                      /\ v.disp = IF d.disp = << >> THEN << >> ELSE SignExtend(d.disp)
    /\ d.imm # << >> => v.imm = SignExtend(d.imm)

(* Decoding inverts encoding for every addressing form: the registers with *)
(* their REX extensions, the displacement and the immediate with their     *)
(* signs and exactly the instruction's bytes, so that nextrip lands on the *)
(* next instruction; an instruction that is cut off anywhere is refused.   *)
DecodeInverts ==
    vie # Undecoded =>
        /\ (known \/ desc.base # RIP) => Gives(vie, desc)
        /\ known => \A n \in 0 .. Len(Encode(desc)) - 1 :
             ~vmm_decode_instruction(SubSeq(Encode(desc), 1, n),
                                     Gla(desc, Len(Encode(desc))), desc.mode).ok

(* "RIP-relative addressing starts from the following instruction", also   *)
(* when the exit did not give the instruction's length and a maximum-size  *)
(* fetch stands for it.                                                    *)
RipRelative == vie # Undecoded /\ desc.base = RIP => Gives(vie, desc)
=============================================================================
