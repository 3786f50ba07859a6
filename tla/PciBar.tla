------------------------------- MODULE PciBar -------------------------------
(***************************************************************************)
(* The BARs of the PCI devices (pci_emul.c) and the dispatch of memory and *)
(* port accesses to them (mem.c, inout.c).  A guest that moves a BAR, or   *)
(* switches the decoding of a device on or off, makes its vcpu unregister  *)
(* and register ranges step by step, while other vcpus look addresses up,  *)
(* with a hint per vcpu, and run the handlers of devices.                  *)
(*                                                                         *)
(* mmio_rwlock: rd[v] says that v holds it for reading; the write lock is  *)
(* held within a step only.  The guest serialises its writes to the        *)
(* configuration space (cw is the vcpu that has one under way) and does    *)
(* not let two ranges that are decoded overlap.                            *)
(***************************************************************************)
EXTENDS Integers, Sequences

CONSTANTS
  Vcpus,
  BarList,       \* the BARs of the machine: sequence of [dev, type, size]
  Limit,         \* addresses of each space, below and above 4 GB
  Moves          \* the BARs that the guest moves

ASSUME PciConstants ==
  /\ 0 \notin Vcpus /\ Limit \in Nat \ {0}
  /\ BarList \in Seq([dev : Nat, type : {"IO", "MEM32", "MEM64"}, size : Nat \ {0}])

VARIABLES bar, en, tree, port, hint, rd, vc, cw, ranges, newaddr, pciabort
pcivars == <<bar, en, tree, port, hint, rd, vc, cw, ranges, newaddr, pciabort>>

Bars == DOMAIN BarList
Devs == {BarList[b].dev : b \in Bars}
BarType(b) == BarList[b].type
Space(b) == IF BarType(b) = "IO" THEN "io" ELSE "mem"
Ecfg == [b |-> 0, base |-> Limit - 1, size |-> 1]        \* PCI_EMUL_ECFG_BASE
Hole == [b |-> -1, base |-> 0, size |-> 2 * Limit]       \* mmio_rb_fallback

Entry(b, base) == [b |-> b, base |-> base, size |-> BarList[b].size]
Holds(e, a) == e.base <= a /\ a < e.base + e.size
Overlap(d, e) == d.base < e.base + e.size /\ e.base < d.base + d.size

\* pci_emul_alloc_resource: the base is the end of what was allocated before,
\* rounded up to the size; the limit of memory is PCI_EMUL_ECFG_BASE.
pci_emul_alloc_resource(b) ==
  LET earlier == {c \in 1 .. b - 1 : Space(c) = Space(b)}
      size == BarList[b].size
  IN /\ bar[b] % size = 0
     /\ \A c \in earlier : bar[c] + BarList[c].size <= bar[b]
     /\ bar[b] < size \/ \E c \in earlier : bar[b] - size < bar[c] + BarList[c].size
     /\ bar[b] + size <= IF Space(b) = "mem" THEN Limit - 1 ELSE Limit

\* pci_emul_alloc_pbar for every BAR in turn, in init_pci: all are registered
\* and decoded.  Of MEM64 BARs, the small ones are allocated below 4 GB too.
PciInit ==
  /\ bar \in [Bars -> 0 .. Limit - 1] /\ \A b \in Bars : pci_emul_alloc_resource(b)
  /\ en = [d \in Devs |-> {"mem", "io"}]
  /\ tree = {Ecfg} \cup {Entry(b, bar[b]) : b \in {x \in Bars : Space(x) = "mem"}}
  /\ port = [p \in 0 .. Limit - 1 |->
               IF \E b \in Bars : Space(b) = "io" /\ Holds(Entry(b, bar[b]), p)
               THEN CHOOSE b \in Bars : Space(b) = "io" /\ Holds(Entry(b, bar[b]), p) ELSE 0]
  /\ hint = [v \in Vcpus |-> Hole] /\ rd = [v \in Vcpus |-> FALSE]
  /\ vc = [v \in Vcpus |-> [pc |-> "idle"]] /\ cw = 0
  /\ ranges = [b \in Bars |-> "none"] /\ newaddr = 0 /\ pciabort = FALSE

\* Where the write under way is with each BAR: "unregister" or "register" it;
\* "leave" its address and register it at the new one, in which "address" is
\* the second step; or just "set" the address.
Idle == \A b \in Bars : ranges[b] = "none"

\* The BAR at hand: the BARs of a device are visited in order.
Now(b) == ranges[b] # "none" /\ \A c \in Bars : c < b => ranges[c] = "none"

-----------------------------------------------------------------------------
(* Accesses to memory (emulate_mem).                                       *)

\* A waiting writer keeps new readers out (pthread_rwlock_wrlock).
WriterWaits ==
  \E b \in Bars : Now(b) /\ Space(b) = "mem" /\ ranges[b] \in {"leave", "unregister", "register"}

\* MEM_F_IMMUTABLE: the extended configuration space and the fallback.
Immutable(e) == e.b <= 0

mmio_rb_lookup(a) == {e \in tree : Holds(e, a)}

\* emulate_mem up to the call of the handler; hint is Hole when there is none.
emulate_mem(v, a) ==
  LET found == mmio_rb_lookup(a)
      e == IF hint[v] # Hole /\ Holds(hint[v], a) THEN hint[v]
           ELSE IF found # {} THEN CHOOSE x \in found : TRUE ELSE Hole
  IN /\ vc[v].pc = "idle" /\ ~WriterWaits
     /\ e = Ecfg => cw = 0
     /\ cw' = IF e = Ecfg THEN v ELSE cw
     /\ hint' = [hint EXCEPT ![v] = IF e = Hole THEN @ ELSE e]
     /\ rd' = [rd EXCEPT ![v] = ~Immutable(e)]
     /\ vc' = [vc EXCEPT ![v] = [pc |-> IF e = Ecfg THEN "config" ELSE "handler",
                                 entry |-> e, addr |-> IF e.b > 0 THEN a ELSE 0]]
     /\ UNCHANGED <<bar, en, tree, port, ranges, newaddr, pciabort>>

\* The handler returns and the lock, if held, is released.
HandlerReturns(v) ==
  /\ vc[v].pc = "handler" \/ (vc[v].pc = "busy" /\ Idle)
  /\ vc' = [vc EXCEPT ![v] = [pc |-> "idle"]]
  /\ rd' = [rd EXCEPT ![v] = FALSE]
  /\ cw' = IF cw = v THEN 0 ELSE cw
  /\ UNCHANGED <<bar, en, tree, port, hint, ranges, newaddr, pciabort>>

-----------------------------------------------------------------------------
(* Writes to the configuration space (pci_cfgrw).                          *)

\* pci_emul_cfgaddr and pci_emul_cfgdata: the write comes through the ports.
pci_emul_cfgdata(v) ==
  /\ vc[v].pc = "idle" /\ cw = 0
  /\ vc' = [vc EXCEPT ![v] = [pc |-> "config"]] /\ cw' = v
  /\ UNCHANGED <<bar, en, tree, port, hint, rd, ranges, newaddr, pciabort>>

decode(b) == Space(b) \in en[BarList[b].dev]

\* The ranges that are decoded do not overlap, for the addresses addr and the
\* command registers cmd.
Apart(addr, cmd) ==
  LET on == {b \in Bars : Space(b) \in cmd[BarList[b].dev]}
  IN /\ \A b, c \in on : b # c /\ Space(b) = Space(c)
                         => ~Overlap(Entry(b, addr[b]), Entry(c, addr[c]))
     /\ \A b \in on : Space(b) = "mem" => ~Overlap(Entry(b, addr[b]), Ecfg)

\* What a write to a BAR, or for MEM64 to one of its halves, makes of the address.
BarValues(b) ==
  LET lo == {x \in 0 .. Limit - 1 : x % BarList[b].size = 0}
      hi == bar[b] \div Limit
  IN IF BarType(b) = "MEM64"
     THEN {hi * Limit + x : x \in lo} \cup {(bar[b] % Limit) + Limit * h : h \in {0, 1}}
     ELSE lo

\* Mutant: the old range is not unregistered before the address changes.
AddressFirst(b) == IF decode(b) THEN "address" ELSE "set"

\* update_bar_address: what it has to do.
update_bar_address(b) == IF decode(b) THEN "leave" ELSE "set"

\* The part of pci_cfgrw for BARs: nothing happens when the address is the same.
WriteBar(v) ==
  /\ vc[v].pc = "config"
  /\ \E b \in Bars \cap Moves : \E a \in BarValues(b) :
       /\ Apart([bar EXCEPT ![b] = a], en)
       /\ IF a = bar[b] THEN UNCHANGED <<ranges, newaddr>>
          ELSE ranges' = [ranges EXCEPT ![b] = update_bar_address(b)] /\ newaddr' = a
  /\ vc' = [vc EXCEPT ![v] = [pc |-> "busy"]]
  /\ UNCHANGED <<bar, en, tree, port, hint, rd, cw, pciabort>>

\* pci_emul_cmdsts_write: the command register, and the BARs whose decoding
\* changed with it.
pci_emul_cmdsts_write(v, d, cmd) ==
  LET changed == (en[d] \ cmd) \cup (cmd \ en[d])
  IN /\ vc[v].pc = "config"
     /\ Apart(bar, [en EXCEPT ![d] = cmd])
     /\ en' = [en EXCEPT ![d] = cmd]
     /\ ranges' = [b \in Bars |->
                     IF BarList[b].dev # d \/ Space(b) \notin changed THEN "none"
                     ELSE IF Space(b) \in cmd THEN "register" ELSE "unregister"]
     /\ vc' = [vc EXCEPT ![v] = [pc |-> "busy"]]
     /\ UNCHANGED <<bar, tree, port, hint, rd, cw, newaddr, pciabort>>

\* The address, in update_bar_address.
SetAddress(b) ==
  /\ Now(b) /\ ranges[b] \in {"address", "set"}
  /\ bar' = [bar EXCEPT ![b] = newaddr]
  /\ ranges' = [ranges EXCEPT ![b] = IF @ = "address" THEN "register" ELSE "none"]
  /\ UNCHANGED <<en, tree, port, hint, rd, vc, cw, newaddr, pciabort>>

\* register_mem and register_inout; of a range that begins inside another one
\* register_mem_int says nothing.
RegisterMem(b) ==
  /\ Now(b) /\ Space(b) = "mem" /\ ranges[b] = "register" /\ \A v \in Vcpus : ~rd[v]
  /\ LET e == Entry(b, bar[b])
     IN IF mmio_rb_lookup(e.base) # {} THEN UNCHANGED <<tree, pciabort>>
        ELSE /\ pciabort' = \E x \in tree : Overlap(x, e)
             /\ tree' = tree \cup {e}
  /\ ranges' = [ranges EXCEPT ![b] = "none"]
  /\ UNCHANGED <<bar, en, port, hint, rd, vc, cw, newaddr>>

RegisterPort(b) ==
  /\ Now(b) /\ Space(b) = "io" /\ ranges[b] = "register"
  /\ LET e == Entry(b, bar[b])
     IN /\ pciabort' = \E p \in DOMAIN port : Holds(e, p) /\ port[p] # 0
        /\ port' = [p \in DOMAIN port |-> IF Holds(e, p) THEN b ELSE port[p]]
  /\ ranges' = [ranges EXCEPT ![b] = "none"]
  /\ UNCHANGED <<bar, en, tree, hint, rd, vc, cw, newaddr>>

\* Mutant: the hints are kept.
KeepHints(e) == hint

\* unregister_mem: flush the per-vcpu cache.
FlushHints(e) == [v \in Vcpus |-> IF hint[v] = e THEN Hole ELSE hint[v]]

\* unregister_bar is the end of the write, or the address comes next.
Unregistered(b) == [ranges EXCEPT ![b] = IF @ = "leave" THEN "address" ELSE "none"]

UnregisterMem(b) ==
  /\ Now(b) /\ Space(b) = "mem" /\ ranges[b] \in {"leave", "unregister"}
  /\ \A v \in Vcpus : ~rd[v]
  /\ LET found == mmio_rb_lookup(bar[b])
         e == CHOOSE x \in found : TRUE
     IN IF found = {} \/ e.b # b \/ e.base # bar[b]
        THEN pciabort' = TRUE /\ UNCHANGED <<tree, hint>>
        ELSE tree' = tree \ {e} /\ hint' = FlushHints(e) /\ UNCHANGED pciabort
  /\ ranges' = Unregistered(b)
  /\ UNCHANGED <<bar, en, port, rd, vc, cw, newaddr>>

UnregisterPort(b) ==
  /\ Now(b) /\ Space(b) = "io" /\ ranges[b] \in {"leave", "unregister"}
  /\ LET e == Entry(b, bar[b])
     IN /\ pciabort' = (port[e.base] # b)
        /\ port' = [p \in DOMAIN port |-> IF Holds(e, p) THEN 0 ELSE port[p]]
  /\ ranges' = Unregistered(b)
  /\ UNCHANGED <<bar, en, tree, hint, rd, vc, cw, newaddr>>

ConfigStep(b) ==
  SetAddress(b) \/ RegisterMem(b) \/ RegisterPort(b) \/ UnregisterMem(b) \/ UnregisterPort(b)

PciNext ==
  /\ ~pciabort
  /\ \/ \E b \in Bars : ConfigStep(b)
     \/ \E v \in Vcpus :
          \/ pci_emul_cfgdata(v) \/ WriteBar(v) \/ HandlerReturns(v)
          \/ \E d \in Devs, cmd \in SUBSET {"mem", "io"} : pci_emul_cmdsts_write(v, d, cmd)
          \/ \E a \in 0 .. 2 * Limit - 1 : emulate_mem(v, a)

PciSpec == PciInit /\ [][PciNext]_pcivars

-----------------------------------------------------------------------------
\* The assertions of modify_bar_registration, unregister_mem and
\* unregister_inout hold for a guest that keeps its ranges apart, and the
\* ones of pci_emul_mem_handler: the BAR of a range never moves while a vcpu
\* is in its handler.
NoPciAbort ==
  /\ ~pciabort
  /\ \A v \in Vcpus : vc[v].pc = "handler" /\ vc[v].entry.b > 0
       => Holds(Entry(vc[v].entry.b, bar[vc[v].entry.b]), vc[v].addr)

\* Whenever no write is under way, the ranges that are dispatched to devices
\* are exactly the BARs that are decoded, at their present addresses; and no
\* vcpu has a hint to a range that is gone (its entry has been freed).
DispatchMatchesBars ==
  /\ Idle =>
       /\ tree = {Ecfg} \cup {Entry(b, bar[b]) : b \in {x \in Bars : Space(x) = "mem" /\ decode(x)}}
       /\ \A p \in DOMAIN port :
            port[p] # 0 <=> \E b \in Bars : Space(b) = "io" /\ decode(b) /\ Holds(Entry(b, bar[b]), p)
  /\ \A v \in Vcpus : hint[v] \in tree \cup {Hole}

(* The inductive invariant of the proofs.                                  *)

Registered(b) ==
  \/ ranges[b] \in {"leave", "unregister"}
  \/ ranges[b] = "none" /\ decode(b)

\* Where a BAR will be when the write is done.
Goal == [b \in Bars |-> IF ranges[b] \in {"leave", "address", "set"} THEN newaddr ELSE bar[b]]

PciTypeOK ==
  /\ bar \in [Bars -> Nat] /\ newaddr \in Nat
  /\ \A b \in Bars : Space(b) = "io" => Goal[b] < Limit /\ bar[b] < Limit
  /\ en \in [Devs -> SUBSET {"mem", "io"}]
  /\ port \in [0 .. Limit - 1 -> Bars \cup {0}]
  /\ rd \in [Vcpus -> BOOLEAN] /\ DOMAIN vc = Vcpus /\ DOMAIN hint = Vcpus
  /\ ranges \in [Bars -> {"none", "unregister", "register", "leave", "address", "set"}]
  /\ pciabort \in BOOLEAN

\* One write is under way at a time; it moves one BAR, or changes the
\* decoding of BARs of one space in one direction; what is decoded does not
\* overlap now and will not when the write is done.
WriteOrder ==
  /\ \A v \in Vcpus : vc[v].pc \in {"config", "busy"} => cw = v
  /\ ~Idle => cw \in Vcpus /\ vc[cw].pc = "busy"
  /\ \A b \in Bars : /\ ranges[b] \in {"leave", "address", "register"} => decode(b)
                     /\ ranges[b] \in {"unregister", "set"} => ~decode(b)
  /\ \A b, c \in Bars : b # c /\ ranges[b] \in {"leave", "address", "set"} => ranges[c] = "none"
  /\ \A b, c \in Bars : ranges[b] = "register" /\ ranges[c] = "unregister" => Space(b) # Space(c)
  /\ Apart(Goal, en)

\* What is registered are the BARs at their present addresses, which are
\* apart; and a vcpu in the handler of a range keeps it registered.
Dispatched ==
  /\ tree = {Ecfg} \cup {Entry(b, bar[b]) : b \in {x \in Bars : Space(x) = "mem" /\ Registered(x)}}
  /\ \A p \in DOMAIN port, b \in Bars :
       port[p] = b <=> Space(b) = "io" /\ Registered(b) /\ Holds(Entry(b, bar[b]), p)
  /\ \A b, c \in Bars : b # c /\ Space(b) = Space(c) /\ Registered(b) /\ Registered(c)
       => ~Overlap(Entry(b, bar[b]), Entry(c, bar[c]))
  /\ \A b \in Bars : Space(b) = "mem" /\ Registered(b) => ~Overlap(Entry(b, bar[b]), Ecfg)
  /\ \A v \in Vcpus : hint[v] \in tree \cup {Hole}
  /\ \A v \in Vcpus : vc[v].pc = "handler" /\ vc[v].entry.b > 0
       => rd[v] /\ vc[v].entry \in tree /\ Holds(vc[v].entry, vc[v].addr)

PciInv == PciTypeOK /\ WriteOrder /\ Dispatched /\ ~pciabort
=============================================================================
