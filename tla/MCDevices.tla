----------------------------- MODULE MCDevices -----------------------------
(***************************************************************************)
(* Guest instructions and the devices they reach: small instances for TLC  *)
(* of the modules whose properties are about every state or step.          *)
(* `which' says which of them a behaviour is about; the others rest.       *)
(* PciBar, VirtioSock, Events, Ahci and VirtioNet are extended, with the   *)
(* constants of mem, dials, uart, pm, ata_pin and vpnkit in the            *)
(* configuration; all but Events are instantiated for other constants too. *)
(***************************************************************************)
EXTENDS Integers, Sequences, FiniteSets, PciBar, VirtioSock, Events, Ahci, VirtioNet

VARIABLES which,
  inst, regs, start, present, pc, nextrip, local, log, unmaps,   \* StringOps
  desc, known, vie,                                              \* VieDecode
  insn, cpu, res,                                                \* VieAlu
  pt, walk, held, changes                                        \* GuestWalk

-----------------------------------------------------------------------------
(* String, stack and port instructions: pages of two bytes, eight          *)
(* addresses, registers of twice that range.                               *)
Strings ==
  [op : {"MOVS", "STOS", "INS", "OUTS"}, rep : BOOLEAN, back : BOOLEAN, bytes : {1, 2}]
    \cup [op : {"PUSH", "POP"}, rep : {FALSE}, back : {FALSE}, bytes : {1, 2}]

At(si, di, cx, sp) == [rsi |-> si, rdi |-> di, rcx |-> cx, rsp |-> sp]
Registers == {At(0, 4, 3, 2), At(4, 0, 11, 6), At(2, 6, 0, 0), At(12, 14, 2, 8), At(4, 6, 2, 8),
              At(6, 4, 3, 8)}

Narrow == INSTANCE StringOps WITH
  M <- 8, R <- 16, PageSize <- 2, Mmio <- {2, 3}, Limit <- 6, MergeRegs <- TRUE, Batch <- 2,
  MaxUnmaps <- 2, Insts <- Strings, Starts <- Registers, work <- local

Wide == INSTANCE StringOps WITH
  M <- 8, R <- 16, PageSize <- 2, Mmio <- {2, 3}, Limit <- 6, MergeRegs <- FALSE, Batch <- 2,
  MaxUnmaps <- 1, Insts <- Strings, Starts <- Registers, work <- local

(* Instructions to decode: every addressing form with one opcode, and      *)
(* every opcode with a few forms.                                          *)
Desc(mode, pre, rex, w, op, reg, base, index, scale, disp, imm) ==
  [mode |-> mode, pre |-> pre, rex |-> rex, w |-> w, op |-> op, reg |-> reg, base |-> base,
   index |-> index, scale |-> scale, disp |-> disp, imm |-> imm]

PrefixBytes == {<<>>, <<102>>, <<103>>, <<100, 103, 62>>}

\* The processor's mode, whether there is a REX prefix, and its W bit.
Modes ==
  ({"64", "32", "16", "real"} \X {FALSE} \X {FALSE}) \cup ({"64"} \X {TRUE} \X BOOLEAN)

Forms ==
  {Desc(m[1], pre, m[2], m[3], <<139>>, reg, base, index, scale, disp, <<>>) :
     m \in Modes, pre \in PrefixBytes, reg \in {5, 12}, base \in {-1, 0, 4, 5, 12, 13, 16}, index \in {-1, 1, 5, 12},
     scale \in {1, 4}, disp \in {<<>>, <<16>>, <<240>>, <<16, 1, 0, 0>>, <<240, 255, 255, 255>>}}

Opcodes ==
  {<<x>> : x \in {35, 43, 59, 128, 129, 131, 136, 137, 138, 143, 161, 163, 164, 165, 170, 171,
                  198, 199, 255}}
    \cup {<<15, x>> : x \in {182, 183, 186, 190}}

EveryOpcode ==
  {Desc(m[1], pre, m[2], m[3], op, reg, base, -1, 1, disp, imm) :
     m \in Modes, pre \in PrefixBytes, op \in Opcodes, reg \in {0, 12}, base \in {-1, 4, 13},
     disp \in {<<>>, <<240>>, <<16, 1>>, <<16, 1, 0, 0>>, <<16, 1, 0, 0, 0, 0, 0, 0>>},
     imm \in {<<>>, <<240>>, <<16, 240>>, <<16, 1, 0, 255>>}}

Dec == INSTANCE VieDecode WITH Descs <- Forms \cup EveryOpcode, Lengths <- BOOLEAN

(* Arithmetic with bytes of two bits.                                      *)
Alu == INSTANCE VieAlu WITH
  B <- 2, Values <- {6, 32897, 65530}, Imms <- {-2, 1, 5}, Regs <- {0, 5, 9}, vie <- insn,
  Ops <- {"88", "89", "8A", "8B", "A1", "A3", "C6", "C7", "0FB6", "0FB7", "0FBE", "23", "3B", "2B",
          "0FBA/4", "0FBA/5", "80/1", "80/7", "81/1", "81/2", "81/4", "81/7", "83/1", "83/4", "83/7"}

Walk32 == INSTANCE GuestWalk WITH Paging <- "32", MaxChanges <- 2
WalkPae == INSTANCE GuestWalk WITH Paging <- "PAE", MaxChanges <- 2
Walk64 == INSTANCE GuestWalk WITH Paging <- "64", MaxChanges <- 1

-----------------------------------------------------------------------------
(* Two vcpus and BARs of two devices in both spaces, of which the guest    *)
(* moves the ones in memory or the ones in port space.                     *)
Bar(d, t, n) == [dev |-> d, type |-> t, size |-> n]
MachineBars == <<Bar(1, "MEM64", 2), Bar(2, "MEM32", 1), Bar(1, "IO", 1), Bar(2, "IO", 2)>>

Ports == INSTANCE PciBar WITH Moves <- {3, 4}

(* Values of the interrupt enable and the modem control registers.         *)
IerValues == {{}, {"RXRDY", "RLS"}, {"TXRDY", "MSC", "RLS"}}
McrValues == {{}, {"LOOPBACK", "RTS", "OUT1"}, {"LOOPBACK"}}

(* Drivers of an AHCI port: one that queues commands and stops and resets  *)
(* whenever it likes, one for a DVD drive with messages, one for a disk    *)
(* with the pin and every command.                                         *)
AtaAny == INSTANCE Ahci WITH
  NSlots <- 2, Atapi <- FALSE, Msi <- FALSE, Drivers <- {"any"}, Cmds <- {"FPDMA"}, Enables <- {}

Dvd == INSTANCE Ahci WITH
  NSlots <- 1, Atapi <- TRUE, Msi <- TRUE, Drivers <- {"careful"},
  Cmds <- {"PACKET_READ", "PACKET_OK", "PACKET_BAD", "INQUIRY", "READ_TOC", "START_STOP_UNIT",
           "MODE_SENSE", "GET_EVENT", "ATAPI_IDENTIFY", "IDENTIFY"}

AtaCmds == {"RW", "FPDMA", "FLUSH", "TRIM", "IDENTIFY", "SETFEATURES", "READ_LOG", "STANDBY",
            "SEND_FPDMA", "NOP", "SRST_ON", "SRST_OFF"}
SomeIrqs == {{"DHR", "SDB", "TFE"}, {"TFE"}}

(* Network drivers: one that sends with two chains, one that receives with *)
(* two, and one that uses the pin, loses the connection to vpnkit and has  *)
(* one chain in each ring.                                                 *)
Tap == INSTANCE VirtioNet WITH Kind <- "tap", Mrg <- BOOLEAN, Uses <- {"rx"}

Pin == INSTANCE VirtioNet WITH Msix <- FALSE, Resets <- FALSE, Uses <- {"tx", "rx"}, Chains <- {1}

(* Connections of the guest to a host that closes or fails, and of the     *)
(* host.                                                                   *)
Packet(o, a, x) == [op |-> o, addr |-> a, arg |-> x]

Closes == INSTANCE VirtioSock WITH
  HostDoes <- {"eof", "full"},
  Ops <- {Packet("REQUEST", "G", {}), Packet("RST", "G", {}), Packet("RW", "G", 1),
          Packet("SHUTDOWN", "G", {"TX"})}

Fails == INSTANCE VirtioSock WITH
  HostDoes <- {"readerr", "epipe", "err", "full"},
  Ops <- {Packet("REQUEST", "G", {}), Packet("RW", "G", 1),
          Packet("SHUTDOWN", "G", {"RX", "TX"})}

DialOps ==
  {Packet("RESPONSE", "H0", {}), Packet("RESPONSE", "H1", {}), Packet("BAD", "G", {}),
   Packet("CREDIT_UPDATE", "H0", {}), Packet("CREDIT_REQUEST", "H0", {}), Packet("RST", "H0", {})}

-----------------------------------------------------------------------------
stringvars == <<inst, regs, start, present, pc, nextrip, local, log, unmaps>>
decvars == <<desc, known, vie>>
aluvars == <<insn, cpu, res>>
walkvars == <<pt, walk, held, changes>>
guestcode == <<stringvars, decvars, aluvars, walkvars>>
hostdevs == <<pcivars, uartvars, pmvars>>
disknet == <<ahcivars, netvars, sockvars>>
vars == <<which, guestcode, hostdevs, disknet>>

StringRest ==
  /\ inst = 0 /\ regs = 0 /\ start = 0 /\ present = 0 /\ pc = 0 /\ nextrip = 0
  /\ local = 0 /\ log = 0 /\ unmaps = 0
\* A write that rests, so that TLC need not compare tree and BARs.
PciRest ==
  /\ ranges = [b \in Bars |-> "set"] /\ tree = {} /\ hint = [v \in Vcpus |-> Hole]
  /\ vc = [v \in Vcpus |-> [pc |-> "idle"]] /\ pciabort = FALSE
  /\ bar = 0 /\ en = 0 /\ port = 0 /\ rd = 0 /\ cw = 0 /\ newaddr = 0
WalkRest == pt = 0 /\ walk = [pc |-> "rest"] /\ held = 0 /\ changes = 0

Init ==
  /\ which \in {"narrow", "wide", "decode", "alu", "walk32", "walkpae", "walk64", "mem", "ports",
                 "uart", "pm", "ata_any", "dvd", "ata_pin", "vpnkit", "tap", "pin",
                 "closes", "fails", "dials"}
  /\ CASE which = "narrow" -> Narrow!Init [] which = "wide" -> Wide!Init [] OTHER -> StringRest
  /\ IF which = "decode" THEN Dec!Init ELSE desc = 0 /\ known = TRUE /\ vie = Dec!Undecoded
  /\ IF which = "alu" THEN Alu!Init ELSE insn = 0 /\ cpu = 0 /\ res = <<>>
  /\ CASE which = "walk32" -> Walk32!Init [] which = "walkpae" -> WalkPae!Init
       [] which = "walk64" -> Walk64!Init [] OTHER -> WalkRest
  /\ IF which \in {"mem", "ports"} THEN PciInit ELSE PciRest
  /\ UartInit /\ PmInit
  /\ IF which = "ata_any" THEN AtaAny!AhciInit ELSE AhciInit
  /\ IF which = "tap" THEN Tap!NetInit ELSE NetInit
  /\ SockInit

\* What rests while a component of each group steps.
String == UNCHANGED <<decvars, aluvars, walkvars, hostdevs, disknet>>
Walk == UNCHANGED <<stringvars, decvars, aluvars, hostdevs, disknet>>
Pci == UNCHANGED <<guestcode, uartvars, pmvars, disknet>>
Port == UNCHANGED <<guestcode, hostdevs, netvars, sockvars>>
Net == UNCHANGED <<guestcode, hostdevs, ahcivars, sockvars>>
Vsock == UNCHANGED <<guestcode, hostdevs, ahcivars, netvars>>

Next ==
  /\ which' = which
  /\ \/ which = "narrow" /\ Narrow!Next /\ String
     \/ which = "wide" /\ Wide!Next /\ String
     \/ which = "decode" /\ Dec!Next /\ UNCHANGED <<stringvars, aluvars, walkvars, hostdevs, disknet>>
     \/ which = "alu" /\ Alu!Next /\ UNCHANGED <<stringvars, decvars, walkvars, hostdevs, disknet>>
     \/ which = "walk32" /\ Walk32!Next /\ Walk
     \/ which = "walkpae" /\ WalkPae!Next /\ Walk
     \/ which = "walk64" /\ Walk64!Next /\ Walk
     \/ which = "mem" /\ PciNext /\ Pci
     \/ which = "ports" /\ Ports!PciNext /\ Pci
     \/ which = "uart" /\ UartNext /\ UNCHANGED <<guestcode, pcivars, pmvars, disknet>>
     \/ which = "pm" /\ PmNext /\ UNCHANGED <<guestcode, pcivars, uartvars, disknet>>
     \/ which = "ata_any" /\ AtaAny!AhciNext /\ Port
     \/ which = "dvd" /\ Dvd!AhciNext /\ Port
     \/ which = "ata_pin" /\ AhciNext /\ Port
     \/ which = "vpnkit" /\ NetNext /\ Net
     \/ which = "tap" /\ Tap!NetNext /\ Net
     \/ which = "pin" /\ Pin!NetNext /\ Net
     \/ which = "closes" /\ Closes!SockNext /\ Vsock
     \/ which = "fails" /\ Fails!SockNext /\ Vsock
     \/ which = "dials" /\ SockNext /\ Vsock

Spec == Init /\ [][Next]_vars

-----------------------------------------------------------------------------
\* StringOps!AccessesExact and StringOps!Precise: a string, stack or port
\* instruction makes each access once and in order, whatever pages other
\* vcpus unmap meanwhile, and whenever the guest runs again its registers say
\* how far the instruction came.
StringExact ==
  /\ which = "narrow" => Narrow!AccessesExact /\ Narrow!Precise
  /\ which = "wide" => Wide!AccessesExact /\ Wide!Precise

\* VieDecode!DecodeInverts and VieAlu!EmulatesExactly: the decoder recovers
\* every instruction from its bytes, and the emulation computes what the
\* architecture says, flags and kept register parts included.
InstructionExact ==
  /\ which = "decode" => Dec!DecodeInverts
  /\ which = "alu" => Alu!EmulatesExactly

\* GuestWalk!TranslationRecorded and GuestWalk!KeepsTable: a translation
\* that is used was permitted by entries that were in memory with their
\* accessed and dirty bits set, and the walk implements PageTable: it never
\* undoes what another vcpu stored.
WalkRecorded ==
  CASE which = "walk32"  -> Walk32!TranslationRecorded /\ Walk32!IInv
    [] which = "walkpae" -> WalkPae!TranslationRecorded /\ WalkPae!IInv
    [] which = "walk64"  -> Walk64!TranslationRecorded /\ Walk64!IInv
    [] OTHER             -> TRUE

WalkKeeps ==
  CASE which = "walk32"  -> Walk32!KeepsTable
    [] which = "walkpae" -> WalkPae!KeepsTable
    [] which = "walk64"  -> Walk64!KeepsTable
    [] OTHER             -> TRUE

WalkExact == []WalkRecorded /\ [][WalkKeeps]_vars

(* A statement of the source that the code does not keep.                  *)

\* VieDecode!RipRelative: "RIP-relative addressing starts from the following
\* instruction".
RipRelative == which = "decode" => Dec!RipRelative
=============================================================================
