---------------------------- MODULE StringOps ----------------------------
(***************************************************************************)
(* The instructions that vmm_instruction_emul.c and inout.c emulate one    *)
(* element at a time: MOVS, STOS, INS and OUTS with and without a repeat   *)
(* prefix, and PUSH/POP of an MMIO operand.  An element touches guest      *)
(* memory, whose pages another vcpu of the guest may unmap at any moment,  *)
(* and a device, whose accesses have side effects.  The emulation runs in  *)
(* steps; a missing page injects a fault and the guest restarts the        *)
(* instruction from its registers, so nothing that a restart repeats may   *)
(* have happened before.                                                   *)
(*                                                                         *)
(* Addresses are 0..M-1 (the address size of the instruction); a register  *)
(* holds 0..R-1, R a multiple of M.  A value is abstracted to the place it *)
(* was read from.  Segments have base 0.                                   *)
(***************************************************************************)
EXTENDS Integers, Sequences, SequencesExt

CONSTANTS M,          \* number of addresses of the address size
          R,          \* number of values of a register
          PageSize,   \* bytes per page
          Mmio,       \* the pages that belong to a device
          Limit,      \* the limit of the (expand-up) segments
          MergeRegs,  \* address size 2: the rest of a register is kept
          Batch,      \* back-to-back in/out emulations per exit (16)
          MaxUnmaps,  \* bound: pages the other vcpu unmaps
          Insts,      \* the instructions tried: [op, rep, back, bytes]
          Starts      \* the registers tried: [rsi, rdi, rcx, rsp]

VARIABLES inst,     \* the instruction
          regs,     \* rsi, rdi, rcx, rsp
          start,    \* their values when the instruction began
          present,  \* the pages the guest has mapped
          pc,       \* where the vcpu is
          nextrip,  \* "this" or "next": where the guest resumes
          work,     \* the locals of the handler
          log,      \* the accesses with effects, in order
          unmaps

vars == <<inst, regs, start, present, pc, nextrip, work, log, unmaps>>

-----------------------------------------------------------------------------

Pages == 0 .. (M \div PageSize) - 1
Trunc(v) == v % M                              \* & vie_size2mask(addrsize)
PagesOf(a) == {Trunc(a + i) \div PageSize : i \in 0 .. inst.bytes - 1}
IsMmio(a) == PagesOf(a) \cap Mmio # {}
Mapped(a) == PagesOf(a) \subseteq present

(* Places that are not addresses.                                          *)
Port == -1
Operand == -2      \* the MMIO operand of PUSH and POP
Rax == -3
ReadOf(a) == [ev |-> "read", at |-> a, from |-> a]
WriteOf(a, v) == [ev |-> "write", at |-> a, from |-> v]

(* Every byte of an element lies within the segment, each offset truncated *)
(* to the address size.                                                    *)
vie_calculate_gla(off) == \A i \in 0 .. inst.bytes - 1 : Trunc(off + i) <= Limit

(* A register is replaced, or keeps what lies above the address size.      *)
vie_update_register(old, v) ==
    IF MergeRegs THEN (old - Trunc(old)) + Trunc(v) ELSE Trunc(v)

Advance(v) == (IF inst.back THEN v - inst.bytes ELSE v + inst.bytes) % R

Idle == [gpa |-> 0, index |-> 0, count |-> 0, iterations |-> 0]

Init == /\ inst \in Insts
        /\ regs \in Starts
        /\ start = regs
        /\ present \in {Pages, Mmio}
        /\ pc = "guest"
        /\ nextrip = "this"
        /\ work = Idle
        /\ log = << >>
        /\ unmaps = 0

Src == Trunc(regs.rsi)
Dst == Trunc(regs.rdi)
StackOff == IF inst.op = "PUSH" THEN regs.rsp - inst.bytes ELSE regs.rsp
CountLeft == ~inst.rep \/ Trunc(regs.rcx) # 0

-----------------------------------------------------------------------------
\* How a handler ends.

(* Back to the guest, at the instruction or after it.                      *)
Resume == /\ pc' = IF nextrip' = "next" THEN "done" ELSE "guest"
          /\ work' = Idle

vm_restart_instruction == nextrip' = "this"

(* A page fault is injected and the instruction restarted; the guest's     *)
(* handler maps the page.                                                  *)
vm_inject_pf(a) == /\ present' = present \cup PagesOf(a)
                   /\ vm_restart_instruction
                   /\ Resume
                   /\ UNCHANGED <<regs, log>>

(* A segment fault: the guest's handler ends the program.                  *)
vm_inject_gp == /\ pc' = "gp" /\ work' = Idle
                /\ vm_restart_instruction
                /\ UNCHANGED <<regs, log, present>>

(* An error the handlers cannot recover from ends the virtual machine.     *)
Stop == /\ pc' = "stopped" /\ work' = Idle
        /\ UNCHANGED <<regs, log, present, nextrip>>

(* get_gla() and the walk of vm_copy_setup(): the segment first, then the  *)
(* pages; `then' is what follows an address that is mapped.                *)
Translate(a, then) == IF ~vie_calculate_gla(a) THEN vm_inject_gp
                      ELSE IF ~Mapped(a) THEN vm_inject_pf(a) ELSE then

(* vm_copy_setup() succeeds on memory only.                                *)
vm_copy_setup(a, memory, device) ==
    Translate(a, IF IsMmio(a) THEN device ELSE memory)

Goto(l) == pc' = l /\ UNCHANGED <<regs, log, present, nextrip, work>>

(* The registers after an element of MOVS or STOS, and the restart of a    *)
(* repeated instruction whose count is not yet 0.                          *)
NextElement ==
    /\ regs' = [regs EXCEPT
                 !.rsi = IF inst.op = "MOVS" THEN vie_update_register(@, Advance(@)) ELSE @,
                 !.rdi = vie_update_register(@, Advance(@)),
                 !.rcx = IF inst.rep THEN vie_update_register(@, (@ - 1) % R) ELSE @]
    /\ IF inst.rep /\ Trunc(regs.rcx - 1) # 0
       THEN vm_restart_instruction ELSE UNCHANGED nextrip
    /\ Resume

-----------------------------------------------------------------------------
\* The processor (external): it executes elements on memory by itself and
\* exits for the accesses that it cannot perform.

(* An EPT violation: the instruction's length is unknown until it is       *)
(* decoded, which moves nextrip past it.                                   *)
vm_handle_inst_emul(l, gpa) ==
    /\ pc' = l /\ nextrip' = "next"
    /\ work' = [Idle EXCEPT !.gpa = gpa]
    /\ UNCHANGED <<regs, log, present>>

(* EXIT_REASON_INOUT of a string instruction: the index and the count are  *)
(* read when the exit is decoded.                                          *)
InoutStrExit ==
    LET count == IF inst.rep THEN Trunc(regs.rcx) ELSE 1
    IN  /\ pc' = "inout" /\ nextrip' = "next"
        /\ work' = [Idle EXCEPT !.index = IF inst.op = "INS" THEN Dst ELSE Src,
                                !.count = count,
                                !.iterations = IF count < Batch THEN count ELSE Batch]
        /\ UNCHANGED <<regs, log, present>>

Processor ==
    /\ pc = "guest"
    /\ CASE ~CountLeft -> /\ nextrip' = "next" /\ Resume
                          /\ UNCHANGED <<regs, log, present>>
         [] CountLeft /\ inst.op \in {"INS", "OUTS"} -> InoutStrExit
         [] CountLeft /\ inst.op = "STOS" ->
              vm_copy_setup(Dst, Goto("hw"), vm_handle_inst_emul("stos", Dst))
         [] CountLeft /\ inst.op = "MOVS" ->
              vm_copy_setup(Src,
                  vm_copy_setup(Dst, Goto("hw"), vm_handle_inst_emul("movs", Dst)),
                  vm_handle_inst_emul("movs", Src))
         [] OTHER -> vm_handle_inst_emul("stack", Operand)
    /\ UNCHANGED <<inst, start, unmaps>>

(* An element from memory (or RAX) to memory needs no exit.                *)
Hardware ==
    /\ pc = "hw"
    /\ log' = Append(log, WriteOf(Dst, IF inst.op = "MOVS" THEN Src ELSE Rax))
    /\ regs' = [regs EXCEPT
                 !.rsi = IF inst.op = "MOVS" THEN vie_update_register(@, Advance(@)) ELSE @,
                 !.rdi = vie_update_register(@, Advance(@)),
                 !.rcx = IF inst.rep THEN vie_update_register(@, (@ - 1) % R) ELSE @]
    /\ nextrip' = IF inst.rep THEN "this" ELSE "next"
    /\ Resume
    /\ UNCHANGED <<inst, start, present, unmaps>>

(* Another vcpu of the guest unmaps a page.                                *)
Unmap == /\ unmaps < MaxUnmaps
         /\ pc \notin {"done", "gp", "stopped"}
         /\ \E p \in present : present' = present \ {p}
         /\ unmaps' = unmaps + 1
         /\ UNCHANGED <<inst, regs, start, pc, nextrip, work, log>>

-----------------------------------------------------------------------------
\* emulate_movs(): the source's page decides between memory and a device.

Movs ==
    /\ pc = "movs"
    /\ vm_copy_setup(Src,
          \* case (2): memory to device
          /\ log' = Append(log, WriteOf(work.gpa, Src))
          /\ NextElement /\ UNCHANGED present,
          Goto("movs_dst"))
    /\ UNCHANGED <<inst, start, unmaps>>

ReadBeforeSetup ==
    /\ pc = "movs_dst"
    /\ log' = Append(log, ReadOf(work.gpa))
    /\ pc' = IF Mapped(Dst) /\ IsMmio(Dst) THEN "movs_gpa1" ELSE "movs_read"
    /\ UNCHANGED <<inst, regs, start, present, nextrip, work, unmaps>>

(* The destination is set up before the device is read.                    *)
MovsDst ==
    /\ pc = "movs_dst"
    /\ vm_copy_setup(Dst, Goto("movs_read"), Goto("movs_gpa1"))
    /\ UNCHANGED <<inst, start, unmaps>>

(* case (3): device to the memory whose copy was set up.                   *)
MovsRead ==
    /\ pc = "movs_read"
    /\ log' = log \o <<ReadOf(work.gpa), WriteOf(Dst, work.gpa)>>
    /\ NextElement
    /\ UNCHANGED <<inst, start, present, unmaps>>

(* case (4): both translations again, then the two device accesses.        *)
MovsGpa1 ==
    /\ pc = "movs_gpa1"
    /\ IF Mapped(Src) THEN Goto("movs_gpa2") ELSE vm_inject_pf(Src)
    /\ UNCHANGED <<inst, start, unmaps>>

MovsGpa2 ==
    /\ pc = "movs_gpa2"
    /\ IF Mapped(Dst)
       THEN /\ log' = log \o <<ReadOf(Src), WriteOf(Dst, Src)>>
            /\ NextElement /\ UNCHANGED present
       ELSE vm_inject_pf(Dst)
    /\ UNCHANGED <<inst, start, unmaps>>

emulate_stos ==
    /\ pc = "stos"
    /\ log' = Append(log, WriteOf(work.gpa, Rax))
    /\ NextElement
    /\ UNCHANGED <<inst, start, present, unmaps>>

(* The stack's memory is set up before the operand is accessed.            *)
emulate_stack_op ==
    LET a == Trunc(StackOff)
    IN  /\ pc = "stack"
        /\ vm_copy_setup(a,
              /\ log' = log \o (IF inst.op = "PUSH"
                                THEN <<ReadOf(Operand), WriteOf(a, Operand)>>
                                ELSE <<WriteOf(Operand, a)>>)
              /\ regs' = [regs EXCEPT !.rsp = vie_update_register(@,
                            IF inst.op = "PUSH" THEN StackOff ELSE @ + inst.bytes)]
              /\ UNCHANGED <<present, nextrip>> /\ Resume,
              Stop)
        /\ UNCHANGED <<inst, start, unmaps>>

-----------------------------------------------------------------------------
\* emulate_inout(): up to Batch elements per exit.

(* The index and count registers after the loop, however it ended.         *)
IoRegs ==
    [regs EXCEPT !.rdi = IF inst.op = "INS" THEN vie_update_register(@, work.index) ELSE @,
                 !.rsi = IF inst.op = "OUTS" THEN vie_update_register(@, work.index) ELSE @,
                 !.rcx = IF inst.rep THEN vie_update_register(@, work.count) ELSE @]

(* The loop is over.                                                       *)
InoutEnd == /\ work.iterations = 0
            /\ regs' = IoRegs
            /\ IF work.count # 0 THEN vm_restart_instruction ELSE UNCHANGED nextrip
            /\ Resume
            /\ UNCHANGED <<log, present>>

InoutElement ==
    LET a == Trunc(work.index)
    IN  /\ work.iterations > 0
        /\ IF ~vie_calculate_gla(a)
           THEN /\ regs' = IoRegs /\ vm_restart_instruction
                /\ pc' = "gp" /\ work' = Idle /\ UNCHANGED <<log, present>>
           ELSE IF ~Mapped(a)
           THEN /\ regs' = IoRegs /\ vm_restart_instruction
                /\ present' = present \cup PagesOf(a)
                /\ Resume /\ UNCHANGED log
           ELSE IF IsMmio(a)
           THEN Stop
           ELSE /\ log' = log \o (IF inst.op = "INS"
                                  THEN <<ReadOf(Port), WriteOf(a, Port)>>
                                  ELSE <<WriteOf(Port, a)>>)
                /\ work' = [work EXCEPT !.index = Advance(@), !.count = @ - 1,
                                        !.iterations = @ - 1]
                /\ UNCHANGED <<regs, pc, nextrip, present>>

emulate_inout == /\ pc = "inout"
                 /\ InoutElement \/ InoutEnd
                 /\ UNCHANGED <<inst, start, unmaps>>

-----------------------------------------------------------------------------

Ended == pc \in {"done", "gp", "stopped"} /\ UNCHANGED vars

Emulate == \/ Movs \/ MovsDst \/ MovsRead \/ MovsGpa1 \/ MovsGpa2
           \/ emulate_stos \/ emulate_stack_op \/ emulate_inout

Next == Processor \/ Hardware \/ Unmap \/ Emulate \/ Ended

Spec == Init /\ [][Next]_vars

-----------------------------------------------------------------------------
\* What the instruction does, by the architecture: element by element.

Moved(v, i) == IF inst.back THEN v - i * inst.bytes ELSE v + i * inst.bytes
Elements == IF inst.rep THEN Trunc(start.rcx) ELSE 1

(* The accesses of element i (from 0).                                     *)
Element(i) ==
    LET s == Trunc(Moved(start.rsi, i))
        d == Trunc(Moved(start.rdi, i))
        top == Trunc(start.rsp - inst.bytes)
    IN  CASE inst.op = "MOVS" -> (IF IsMmio(s) THEN <<ReadOf(s)>> ELSE << >>)
                                 \o <<WriteOf(d, s)>>
          [] inst.op = "STOS" -> <<WriteOf(d, Rax)>>
          [] inst.op = "INS" -> <<ReadOf(Port), WriteOf(d, Port)>>
          [] inst.op = "OUTS" -> <<WriteOf(Port, s)>>
          [] inst.op = "PUSH" -> <<ReadOf(Operand), WriteOf(top, Operand)>>
          [] OTHER -> <<WriteOf(Operand, Trunc(start.rsp))>>

FirstElements(n) == FlattenSeq([i \in 1 .. n |-> Element(i - 1)])

(* A register r moved to v: the part that the address size covers, and in  *)
(* 16-bit address size the rest of the register too.                       *)
Holds(r, v) == /\ Trunc(regs[r]) = Trunc(v)
               /\ MergeRegs => regs[r] - Trunc(regs[r]) = start[r] - Trunc(start[r])

RegistersAfter(n) ==
    /\ Holds("rsi", IF inst.op \in {"MOVS", "OUTS"} THEN Moved(start.rsi, n) ELSE start.rsi)
    /\ Holds("rdi", IF inst.op \in {"MOVS", "STOS", "INS"} THEN Moved(start.rdi, n)
                    ELSE start.rdi)
    /\ Holds("rcx", IF inst.rep THEN start.rcx - n ELSE start.rcx)
    /\ Holds("rsp", CASE inst.op = "PUSH" -> start.rsp - n * inst.bytes
                      [] inst.op = "POP" -> start.rsp + n * inst.bytes
                      [] OTHER -> start.rsp)

(* No access is made twice, skipped or reordered: "A MMIO read can have    *)
(* side-effects so we commit to it only after vm_copy_setup() is           *)
(* successful" (emulate_movs), whatever pages other vcpus unmap meanwhile. *)
AccessesExact == IsPrefix(log, FirstElements(Elements))

(* Whenever the guest runs - after an exit, at a page fault, at a segment  *)
(* fault, when the instruction has retired - the registers say exactly how *)
(* many elements were transferred, which is what a restart continues from. *)
Precise ==
    pc \in {"guest", "gp", "done"} =>
        \E n \in 0 .. Elements : /\ log = FirstElements(n)
                                 /\ RegistersAfter(n)
                                 /\ pc = "done" => n = Elements
=============================================================================
