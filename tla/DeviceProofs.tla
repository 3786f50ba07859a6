---------------------------- MODULE DeviceProofs ----------------------------
(***************************************************************************)
(* Proofs about devices and their dispatch.                                *)
(*                                                                         *)
(* PciBar, for every number of vcpus and every list of BARs: the           *)
(* assertions on the way of a write to a BAR or to a command register      *)
(* hold, and what is dispatched is what is decoded.  The inductive         *)
(* invariant PciInv follows a write through its steps: one vcpu has one    *)
(* under way (OneWriter), what it still has to do agrees with the command  *)
(* register (Planned), what is registered are the BARs at their present    *)
(* addresses (InTree, InPorts), which are apart (RegisteredApart), and a   *)
(* vcpu in a handler holds the lock that keeps its range (InHandler).      *)
(*                                                                         *)
(* VirtioSock, for every number of socks, all packets and any behaviour of *)
(* the host: no descriptor is used after it was closed.  SockInv says what *)
(* each thread may rely on of the socks it chose before it gave up the     *)
(* list lock: a sock in use is open (UsedIsOpen), what the tx thread       *)
(* selects on is connected or closing and buffers (TxChosen), and what the *)
(* rx thread chose cannot be freed by the tx thread (RxChosen).            *)
(*                                                                         *)
(* Uart and Pm, for every size of the FIFO and any number of characters,   *)
(* writes, signals and mode changes: the kernel watches what the devices   *)
(* can take.  UartInv and PmInv say where the event is between the wish of *)
(* a vcpu and the kernel (EventFollows, SignalFollows), what the ring      *)
(* buffer holds (Fifo, InputInOrder) and that the SCI is asserted once     *)
(* (SciFollows).                                                           *)
(*                                                                         *)
(* Ahci, for every number of slots and all commands: what is in flight is  *)
(* what the guest was not told is done.  AhciInv adds to it what BSY, PxCI *)
(* and PxSACT say of a running port (InFlight), that a stopping one waits  *)
(* for its last request (Running), and what the loop has not begun yet     *)
(* (NotBegun).                                                             *)
(*                                                                         *)
(* VirtioNet, for every size of the rings, kind of device and use of       *)
(* interrupts: a thread that works on a ring has it to itself, also        *)
(* against a reset, and no chain is lost.  NetInv says how far a reset has *)
(* waited for the threads (ResetWaits), that the queues exist while one is *)
(* inside (QueuesExist), and that the chain a thread may give back is      *)
(* still before the index of its queue (InHand).                           *)
(***************************************************************************)
EXTENDS PciBar, VirtioSock, Events, Ahci, VirtioNet, FiniteSetTheorems, TLAPS

-----------------------------------------------------------------------------
(* The BARs.                                                               *)

\* A BAR has a number, a size, a device and a space.
LEMMA BarFacts ==
  ASSUME NEW b \in Bars
  PROVE  /\ b \in Nat \ {0} /\ BarList[b].size \in Nat \ {0} /\ BarList[b].dev \in Devs
         /\ Space(b) \in {"io", "mem"}
  <1>1. b \in 1 .. Len(BarList)
    BY PciConstants DEF Bars
  <1> DEFINE S == [dev : Nat, type : {"IO", "MEM32", "MEM64"}, size : Nat \ {0}]
  <1>3. BarList \in Seq(S)
    BY PciConstants
  <1>2. BarList[b] \in S
    <2> HIDE DEF S
    <2> QED BY <1>1, <1>3
  <1> QED BY <1>1, <1>2, PciConstants DEF Bars, Devs, Space, BarType

(* The parts of the invariant, one lemma per kind of step below.           *)

\* One vcpu has a write under way, and it is the one that is busy.
OneWriter ==
  /\ \A v \in Vcpus : vc[v].pc \in {"config", "busy"} => cw = v
  /\ ~Idle => cw \in Vcpus /\ vc[cw].pc = "busy"

\* What is left to do agrees with the command register; one BAR is moved, or
\* one space is switched, in one direction.
Planned ==
  /\ \A b \in Bars : /\ ranges[b] \in {"leave", "address", "register"} => decode(b)
                     /\ ranges[b] \in {"unregister", "set"} => ~decode(b)
  /\ \A b, c \in Bars : b # c /\ ranges[b] \in {"leave", "address", "set"} => ranges[c] = "none"
  /\ \A b, c \in Bars : ranges[b] = "register" /\ ranges[c] = "unregister" => Space(b) # Space(c)

\* The tree holds the extended configuration space and the memory BARs that
\* are registered.
InTree ==
  /\ Ecfg \in tree
  /\ \A b \in Bars : Space(b) = "mem" /\ Registered(b) => Entry(b, bar[b]) \in tree
  /\ \A e \in tree : e = Ecfg \/ \E b \in Bars : Space(b) = "mem" /\ Registered(b) /\ e = Entry(b, bar[b])

\* The ports belong to the port BARs that are registered.
InPorts ==
  \A p \in DOMAIN port, b \in Bars :
    port[p] = b <=> Space(b) = "io" /\ Registered(b) /\ Holds(Entry(b, bar[b]), p)

\* What is registered does not overlap.
RegisteredApart ==
  /\ \A b, c \in Bars : b # c /\ Space(b) = Space(c) /\ Registered(b) /\ Registered(c)
       => ~Overlap(Entry(b, bar[b]), Entry(c, bar[c]))
  /\ \A b \in Bars : Space(b) = "mem" /\ Registered(b) => ~Overlap(Entry(b, bar[b]), Ecfg)

\* No hint is stale.
Hints == \A v \in Vcpus : hint[v] \in tree \cup {Hole}

\* A vcpu in the handler of a BAR holds the lock, and the range is
\* registered.
InHandler ==
  \A v \in Vcpus : vc[v].pc = "handler" /\ vc[v].entry.b > 0
       => rd[v] /\ vc[v].entry \in tree /\ Holds(vc[v].entry, vc[v].addr)

Parts == /\ PciTypeOK /\ OneWriter /\ Planned /\ Apart(Goal, en)
         /\ InTree /\ InPorts /\ RegisteredApart /\ Hints /\ InHandler /\ ~pciabort

\* PciInv is the conjunction of its parts.
LEMMA PartsOfInv == PciInv <=> Parts
  <1>1. tree = {Ecfg} \cup {Entry(b, bar[b]) : b \in {x \in Bars : Space(x) = "mem" /\ Registered(x)}}
          <=> InTree
    BY DEF InTree
  <1> QED BY <1>1 DEF PciInv, Parts, WriteOrder, Dispatched, OneWriter, Planned, InPorts,
                      RegisteredApart, Hints, InHandler

-----------------------------------------------------------------------------
(* Steps of the vcpus that change no BAR.                                  *)

\* What a step keeps that leaves the BARs and their registration alone.
LEMMA BarsKept ==
  ASSUME Parts, UNCHANGED <<bar, en, tree, port, ranges, newaddr, pciabort>>
  PROVE  /\ bar' \in [Bars -> Nat] /\ newaddr' \in Nat
         /\ \A b \in Bars : Space(b) = "io" => Goal'[b] < Limit /\ bar'[b] < Limit
         /\ en' \in [Devs -> SUBSET {"mem", "io"}]
         /\ port' \in [0 .. Limit - 1 -> Bars \cup {0}]
         /\ ranges' \in [Bars -> {"none", "unregister", "register", "leave", "address", "set"}]
         /\ pciabort' \in BOOLEAN
         /\ Planned' /\ Apart(Goal, en)' /\ InTree' /\ InPorts' /\ RegisteredApart' /\ ~pciabort'
         /\ (Idle' <=> Idle)
  <1>0. Goal' = Goal
    BY DEF Goal
  <1>1. /\ bar' \in [Bars -> Nat] /\ newaddr' \in Nat
        /\ \A b \in Bars : Space(b) = "io" => Goal'[b] < Limit /\ bar'[b] < Limit
        /\ en' \in [Devs -> SUBSET {"mem", "io"}]
        /\ port' \in [0 .. Limit - 1 -> Bars \cup {0}]
        /\ ranges' \in [Bars -> {"none", "unregister", "register", "leave", "address", "set"}]
        /\ pciabort' \in BOOLEAN
    BY <1>0 DEF Parts, PciTypeOK
  <1>2. Planned' /\ (Idle' <=> Idle)
    BY DEF Parts, Planned, decode, Idle
  <1>3. Apart(Goal, en)'
    BY <1>0 DEF Parts, Apart
  <1>4. \A b \in Bars : Registered(b)' <=> Registered(b)
    BY DEF Registered, decode
  <1>5. InTree' /\ InPorts' /\ RegisteredApart' /\ ~pciabort'
    BY <1>4 DEF Parts, InTree, InPorts, RegisteredApart
  <1> QED BY <1>1, <1>2, <1>3, <1>5

\* emulate_mem: the entry it finds, by the hint or in the tree, is
\* registered, and unless it is immutable the vcpu holds the lock with it.
LEMMA AccessStep ==
  ASSUME Parts, NEW v \in Vcpus, NEW a \in 0 .. 2 * Limit - 1, emulate_mem(v, a)
  PROVE  Parts'
  <1> DEFINE found == mmio_rb_lookup(a)
             e == IF hint[v] # Hole /\ Holds(hint[v], a) THEN hint[v]
                  ELSE IF found # {} THEN CHOOSE x \in found : TRUE ELSE Hole
  <1>1. UNCHANGED <<bar, en, tree, port, ranges, newaddr, pciabort>>
    BY DEF emulate_mem
  <1>2. /\ vc[v].pc = "idle" /\ (e = Ecfg => cw = 0)
        /\ cw' = IF e = Ecfg THEN v ELSE cw
        /\ hint' = [hint EXCEPT ![v] = IF e = Hole THEN @ ELSE e]
        /\ rd' = [rd EXCEPT ![v] = ~Immutable(e)]
        /\ vc' = [vc EXCEPT ![v] = [pc |-> IF e = Ecfg THEN "config" ELSE "handler",
                                    entry |-> e, addr |-> IF e.b > 0 THEN a ELSE 0]]
    BY DEF emulate_mem
  <1>3. e = Hole \/ (e \in tree /\ Holds(e, a))
    <2>1. CASE hint[v] # Hole /\ Holds(hint[v], a)
      BY <2>1 DEF Parts, Hints
    <2>2. CASE ~(hint[v] # Hole /\ Holds(hint[v], a)) /\ found # {}
      <3>1. e \in found
        BY <2>2
      <3> QED BY <3>1 DEF mmio_rb_lookup
    <2>3. CASE ~(hint[v] # Hole /\ Holds(hint[v], a)) /\ found = {}
      BY <2>3
    <2> QED BY <2>1, <2>2, <2>3
  <1> HIDE DEF e
  <1>4. e.b \in Int
    <2>1. Hole.b \in Int /\ Ecfg.b \in Int
      BY DEF Hole, Ecfg
    <2>2. \A b \in Bars : Entry(b, bar[b]).b = b /\ b \in Int
      BY BarFacts DEF Entry
    <2> QED BY <1>3, <2>1, <2>2 DEF Parts, InTree
  <1>5. DOMAIN vc' = Vcpus /\ DOMAIN hint' = Vcpus /\ rd' \in [Vcpus -> BOOLEAN]
    BY <1>2 DEF Parts, PciTypeOK
  <1>6. PciTypeOK'
    BY <1>1, <1>5, BarsKept DEF PciTypeOK
  <1>7. OneWriter'
    <2>1. \A w \in Vcpus : w # v => vc'[w] = vc[w]
      BY <1>2 DEF Parts, PciTypeOK
    <2>2. vc'[v].pc = IF e = Ecfg THEN "config" ELSE "handler"
      BY <1>2 DEF Parts, PciTypeOK
    <2>3. Idle' <=> Idle
      BY <1>1, BarsKept
    <2>4. 0 \notin Vcpus
      BY PciConstants
    <2>5. OneWriter
      BY DEF Parts
    <2>6. CASE e = Ecfg
      BY <1>2, <2>1, <2>2, <2>3, <2>4, <2>5, <2>6 DEF OneWriter
    <2>7. CASE e # Ecfg
      BY <1>2, <2>1, <2>2, <2>3, <2>5, <2>7 DEF OneWriter
    <2> QED BY <2>6, <2>7
  <1>8. Hints'
    BY <1>1, <1>2, <1>3, <1>5 DEF Parts, Hints, PciTypeOK
  <1>9. InHandler'
    <2> SUFFICES ASSUME NEW w \in Vcpus, vc'[w].pc = "handler", vc'[w].entry.b > 0
                 PROVE  rd'[w] /\ vc'[w].entry \in tree' /\ Holds(vc'[w].entry, vc'[w].addr)
      BY DEF InHandler
    <2>1. CASE w # v
      <3>1. vc'[w] = vc[w] /\ rd'[w] = rd[w]
        BY <1>2, <2>1 DEF Parts, PciTypeOK
      <3> QED BY <1>1, <3>1 DEF Parts, InHandler
    <2>2. CASE w = v
      <3>1. vc'[v] = [pc |-> IF e = Ecfg THEN "config" ELSE "handler",
                      entry |-> e, addr |-> IF e.b > 0 THEN a ELSE 0]
        BY <1>2 DEF Parts, PciTypeOK
      <3>2. vc'[v].entry = e /\ e.b > 0 /\ vc'[v].addr = a
        BY <3>1, <2>2
      <3>3. ~Immutable(e)
        BY <1>4, <3>2 DEF Immutable
      <3> DEFINE m == ~Immutable(e)
      <3>6. rd' = [rd EXCEPT ![v] = m] /\ m
        BY <1>2, <3>3
      <3> HIDE DEF m
      <3>4. rd'[v]
        BY <3>6 DEF Parts, PciTypeOK
      <3>5. e # Hole
        BY <3>2 DEF Hole
      <3> QED BY <1>1, <1>3, <2>2, <3>2, <3>4, <3>5
    <2> QED BY <2>1, <2>2
  <1> QED BY <1>1, <1>6, <1>7, <1>8, <1>9, BarsKept DEF Parts

\* The handler returns.
LEMMA ReturnStep ==
  ASSUME Parts, NEW v \in Vcpus, HandlerReturns(v)
  PROVE  Parts'
  <1>1. UNCHANGED <<bar, en, tree, port, hint, ranges, newaddr, pciabort>>
    BY DEF HandlerReturns
  <1>2. /\ vc[v].pc = "handler" \/ (vc[v].pc = "busy" /\ Idle)
        /\ vc' = [vc EXCEPT ![v] = [pc |-> "idle"]] /\ rd' = [rd EXCEPT ![v] = FALSE]
        /\ cw' = IF cw = v THEN 0 ELSE cw
    BY DEF HandlerReturns
  <1>3. vc'[v].pc = "idle" /\ \A w \in Vcpus : w # v => vc'[w] = vc[w] /\ rd'[w] = rd[w]
    BY <1>2 DEF Parts, PciTypeOK
  <1>4. PciTypeOK'
    <2>1. DOMAIN vc' = Vcpus /\ DOMAIN hint' = Vcpus /\ rd' \in [Vcpus -> BOOLEAN]
      BY <1>1, <1>2 DEF Parts, PciTypeOK
    <2> QED BY <1>1, <2>1, BarsKept DEF PciTypeOK
  <1>5. OneWriter'
    <2>1. Idle' <=> Idle
      BY <1>1, BarsKept
    <2>2. OneWriter
      BY DEF Parts
    <2> QED BY <1>2, <1>3, <2>1, <2>2 DEF OneWriter
  <1>6. Hints'
    BY <1>1 DEF Parts, Hints
  <1>7. InHandler'
    BY <1>1, <1>3 DEF Parts, InHandler
  <1> QED BY <1>1, <1>4, <1>5, <1>6, <1>7, BarsKept DEF Parts

\* A write to the configuration space begins through the ports.
LEMMA PortConfigStep ==
  ASSUME Parts, NEW v \in Vcpus, pci_emul_cfgdata(v)
  PROVE  Parts'
  <1>1. UNCHANGED <<bar, en, tree, port, hint, rd, ranges, newaddr, pciabort>>
    BY DEF pci_emul_cfgdata
  <1>2. vc[v].pc = "idle" /\ cw = 0 /\ vc' = [vc EXCEPT ![v] = [pc |-> "config"]] /\ cw' = v
    BY DEF pci_emul_cfgdata
  <1>3. vc'[v].pc = "config" /\ \A w \in Vcpus : w # v => vc'[w] = vc[w]
    BY <1>2 DEF Parts, PciTypeOK
  <1>4. PciTypeOK'
    <2>1. DOMAIN vc' = Vcpus /\ DOMAIN hint' = Vcpus /\ rd' \in [Vcpus -> BOOLEAN]
      BY <1>1, <1>2 DEF Parts, PciTypeOK
    <2> QED BY <1>1, <2>1, BarsKept DEF PciTypeOK
  <1>5. OneWriter'
    <2>1. Idle' <=> Idle
      BY <1>1, BarsKept
    <2>2. OneWriter /\ 0 \notin Vcpus
      BY PciConstants DEF Parts
    <2> QED BY <1>2, <1>3, <2>1, <2>2 DEF OneWriter
  <1>6. Hints'
    BY <1>1 DEF Parts, Hints
  <1>7. InHandler'
    BY <1>1, <1>3 DEF Parts, InHandler
  <1> QED BY <1>1, <1>4, <1>5, <1>6, <1>7, BarsKept DEF Parts

-----------------------------------------------------------------------------
(* The beginning of a write to the configuration space.                    *)

\* The vcpu that begins a write finds nothing under way.
LEMMA NothingUnderWay ==
  ASSUME Parts, NEW v \in Vcpus, vc[v].pc = "config"
  PROVE  cw = v /\ Idle /\ Goal = bar /\ \A b \in Bars : ranges[b] = "none"
  <1>1. cw = v /\ Idle
    BY DEF Parts, OneWriter
  <1>2. \A b \in Bars : ranges[b] = "none"
    BY <1>1 DEF Idle
  <1>3. Goal = bar
    BY <1>2 DEF Goal, Parts, PciTypeOK
  <1> QED BY <1>1, <1>2, <1>3

\* What is registered does not change when a write begins.
LEMMA BeginWrite ==
  ASSUME Parts, NEW v \in Vcpus, vc[v].pc = "config", vc' = [vc EXCEPT ![v] = [pc |-> "busy"]],
         UNCHANGED <<bar, tree, port, hint, rd, cw, pciabort>>,
         \A b \in Bars : Registered(b)' <=> Registered(b)
  PROVE  OneWriter' /\ InTree' /\ InPorts' /\ RegisteredApart' /\ Hints' /\ InHandler' /\ ~pciabort'
         /\ DOMAIN vc' = Vcpus
  <1>1. vc'[v].pc = "busy" /\ DOMAIN vc' = Vcpus /\ \A w \in Vcpus : w # v => vc'[w] = vc[w]
    BY DEF Parts, PciTypeOK
  <1>2. OneWriter'
    BY <1>1, NothingUnderWay DEF Parts, OneWriter
  <1>3. InTree' /\ InPorts' /\ RegisteredApart'
    BY DEF Parts, InTree, InPorts, RegisteredApart
  <1>4. Hints' /\ ~pciabort'
    BY DEF Parts, Hints
  <1>5. InHandler'
    BY <1>1 DEF Parts, InHandler
  <1> QED BY <1>1, <1>2, <1>3, <1>4, <1>5

\* The addresses a guest can write are addresses; those of ports are below
\* the limit.
LEMMA BarValueNat ==
  ASSUME NEW b \in Bars, bar[b] \in Nat, NEW a \in BarValues(b)
  PROVE  a \in Nat /\ (Space(b) = "io" => a < Limit)
  <1> DEFINE size == BarList[b].size
             lo == {x \in 0 .. Limit - 1 : x % size = 0}
             hi == bar[b] \div Limit
  <1>1. Limit \in Nat \ {0} /\ lo \subseteq 0 .. Limit - 1
    BY PciConstants
  <1>2. hi \in Nat /\ bar[b] % Limit \in Nat
    BY ONLY <1>1, bar[b] \in Nat, Z3 DEF hi
  <1>3. CASE BarType(b) = "MEM64"
    <2>1. a \in {hi * Limit + x : x \in lo} \cup {(bar[b] % Limit) + Limit * h : h \in {0, 1}}
      BY <1>3 DEF BarValues
    <2> DEFINE m == hi * Limit
               r == bar[b] % Limit
    <2>2. m \in Nat
      <3> HIDE DEF hi
      <3> QED BY ONLY <1>1, <1>2
    <2>4. a \in {m + x : x \in lo} \cup {r + Limit * h : h \in {0, 1}} /\ r \in Nat
      BY <2>1, <1>2
    <2> HIDE DEF m, r, hi, lo
    <2>3. a \in Nat
      <3>1. (\E x \in lo : a = m + x) \/ a = r + Limit * 0 \/ a = r + Limit * 1
        BY ONLY <2>4
      <3>2. (\E x \in Nat : a = m + x) \/ a = r \/ a = r + Limit
        BY ONLY <1>1, <2>4, <3>1
      <3> QED BY ONLY <1>1, <2>2, <2>4, <3>2
    <2> QED BY <1>3, <2>3 DEF Space
  <1>4. CASE BarType(b) # "MEM64"
    BY <1>1, <1>4 DEF BarValues
  <1> QED BY <1>3, <1>4

\* A write to a BAR.
LEMMA WriteBarStep ==
  ASSUME Parts, NEW v \in Vcpus, WriteBar(v)
  PROVE  Parts'
  <1>1. /\ vc[v].pc = "config" /\ vc' = [vc EXCEPT ![v] = [pc |-> "busy"]]
        /\ UNCHANGED <<bar, en, tree, port, hint, rd, cw, pciabort>>
    BY DEF WriteBar
  <1>2. Idle /\ Goal = bar /\ \A b \in Bars : ranges[b] = "none"
    BY <1>1, NothingUnderWay
  <1>3. CASE UNCHANGED <<ranges, newaddr>>
    <2>1. \A b \in Bars : Registered(b)' <=> Registered(b)
      BY <1>1, <1>3 DEF Registered, decode
    <2>2. /\ OneWriter' /\ InTree' /\ InPorts' /\ RegisteredApart' /\ Hints' /\ InHandler' /\ ~pciabort'
          /\ DOMAIN vc' = Vcpus
      BY <1>1, <2>1, BeginWrite
    <2>3. PciTypeOK' /\ Planned' /\ Apart(Goal, en)'
      <3>1. rd' \in [Vcpus -> BOOLEAN] /\ DOMAIN hint' = Vcpus
        BY <1>1 DEF Parts, PciTypeOK
      <3>2. UNCHANGED <<bar, en, tree, port, ranges, newaddr, pciabort>>
        BY <1>1, <1>3
      <3> QED BY <2>2, <3>1, <3>2, BarsKept DEF PciTypeOK
    <2> QED BY <2>2, <2>3 DEF Parts
  <1>4. CASE ~UNCHANGED <<ranges, newaddr>>
    <2>0. PICK b \in Bars : \E a :
            /\ a \in BarValues(b) /\ Apart([bar EXCEPT ![b] = a], en)
            /\ ranges' = [ranges EXCEPT ![b] = update_bar_address(b)] /\ newaddr' = a
      BY <1>4 DEF WriteBar
    <2>1. PICK a :
            /\ a \in BarValues(b) /\ Apart([bar EXCEPT ![b] = a], en)
            /\ ranges' = [ranges EXCEPT ![b] = update_bar_address(b)] /\ newaddr' = a
      BY <2>0
    <2>2. bar[b] \in Nat /\ bar \in [Bars -> Nat] /\ DOMAIN ranges = Bars
      BY DEF Parts, PciTypeOK
    <2>3. a \in Nat /\ (Space(b) = "io" => a < Limit)
      BY <2>1, <2>2, BarValueNat
    <2>4. /\ ranges'[b] = IF decode(b) THEN "leave" ELSE "set"
          /\ \A c \in Bars : c # b => ranges'[c] = "none"
          /\ ranges' \in [Bars -> {"none", "unregister", "register", "leave", "address", "set"}]
      BY <1>2, <2>1, <2>2 DEF update_bar_address
    <2>5. \A c \in Bars : decode(c)' <=> decode(c)
      BY <1>1 DEF decode
    <2>6. \A c \in Bars : Registered(c)' <=> Registered(c)
      BY <1>2, <2>4, <2>5 DEF Registered
    <2>7. /\ OneWriter' /\ InTree' /\ InPorts' /\ RegisteredApart' /\ Hints' /\ InHandler' /\ ~pciabort'
          /\ DOMAIN vc' = Vcpus
      BY <1>1, <2>6, BeginWrite
    <2>8. Goal' = [bar EXCEPT ![b] = a]
      <3>1. Goal' = [c \in Bars |-> IF ranges'[c] \in {"leave", "address", "set"} THEN a ELSE bar[c]]
        BY <1>1, <2>1 DEF Goal
      <3>2. \A c \in Bars : ranges'[c] \in {"leave", "address", "set"} <=> c = b
        BY <2>4
      <3> QED BY <2>2, <3>1, <3>2
    <2>9. Apart(Goal, en)'
      <3>2. Apart(Goal', en') <=> Apart([bar EXCEPT ![b] = a], en)
        BY <1>1, <2>8
      <3> QED BY <2>1, <3>2 DEF Apart
    <2>10. Planned'
      BY <2>4, <2>5 DEF Planned
    <2>11. PciTypeOK'
      <3>1. \A c \in Bars : Space(c) = "io" => Goal'[c] < Limit /\ bar'[c] < Limit
        <4>1. \A c \in Bars : Space(c) = "io" => bar[c] < Limit
          BY DEF Parts, PciTypeOK
        <4> QED BY <1>1, <2>2, <2>3, <2>8, <4>1
      <3>2. /\ bar' \in [Bars -> Nat] /\ newaddr' \in Nat /\ en' \in [Devs -> SUBSET {"mem", "io"}]
            /\ port' \in [0 .. Limit - 1 -> Bars \cup {0}] /\ rd' \in [Vcpus -> BOOLEAN]
            /\ DOMAIN hint' = Vcpus /\ pciabort' \in BOOLEAN
        BY <1>1, <2>1, <2>3 DEF Parts, PciTypeOK
      <3> QED BY <2>4, <2>7, <3>1, <3>2 DEF PciTypeOK
    <2> QED BY <2>7, <2>9, <2>10, <2>11 DEF Parts
  <1> QED BY <1>3, <1>4

\* A write to the command register.
LEMMA CommandStep ==
  ASSUME Parts, NEW v \in Vcpus, NEW d \in Devs, NEW cmd \in SUBSET {"mem", "io"},
         pci_emul_cmdsts_write(v, d, cmd)
  PROVE  Parts'
  <1> DEFINE changed == (en[d] \ cmd) \cup (cmd \ en[d])
  <1>1. /\ vc[v].pc = "config" /\ vc' = [vc EXCEPT ![v] = [pc |-> "busy"]]
        /\ UNCHANGED <<bar, tree, port, hint, rd, cw, newaddr, pciabort>>
        /\ Apart(bar, [en EXCEPT ![d] = cmd]) /\ en' = [en EXCEPT ![d] = cmd]
        /\ ranges' = [b \in Bars |->
                        IF BarList[b].dev # d \/ Space(b) \notin changed THEN "none"
                        ELSE IF Space(b) \in cmd THEN "register" ELSE "unregister"]
    BY DEF pci_emul_cmdsts_write
  <1>2. Idle /\ Goal = bar /\ \A b \in Bars : ranges[b] = "none"
    BY <1>1, NothingUnderWay
  <1>3. en' \in [Devs -> SUBSET {"mem", "io"}] /\ en \in [Devs -> SUBSET {"mem", "io"}]
    BY <1>1 DEF Parts, PciTypeOK
  <1>4. ASSUME NEW b \in Bars
        PROVE  /\ Registered(b)' <=> Registered(b)
               /\ ranges'[b] \in {"none", "register", "unregister"}
               /\ ranges'[b] = "register" => decode(b)' /\ Space(b) \in cmd /\ Space(b) \in changed
               /\ ranges'[b] = "unregister" => ~decode(b)' /\ Space(b) \notin cmd
    <2>1. BarList[b].dev \in Devs
      BY BarFacts
    <2>2. ranges'[b] = IF BarList[b].dev # d \/ Space(b) \notin changed THEN "none"
                       ELSE IF Space(b) \in cmd THEN "register" ELSE "unregister"
      BY <1>1
    <2>3. decode(b)' <=> Space(b) \in (IF BarList[b].dev = d THEN cmd ELSE en[BarList[b].dev])
      BY <1>1, <1>3, <2>1 DEF decode
    <2> QED BY <1>2, <2>1, <2>2, <2>3 DEF Registered, decode
  <1>5. /\ OneWriter' /\ InTree' /\ InPorts' /\ RegisteredApart' /\ Hints' /\ InHandler' /\ ~pciabort'
        /\ DOMAIN vc' = Vcpus
    BY <1>1, <1>4, BeginWrite
  <1>6. Goal' = bar
    <2>1. Goal' = [c \in Bars |-> IF ranges'[c] \in {"leave", "address", "set"} THEN newaddr' ELSE bar'[c]]
      BY DEF Goal
    <2>2. \A c \in Bars : ranges'[c] \notin {"leave", "address", "set"}
      BY <1>4
    <2>3. bar \in [Bars -> Nat] /\ bar' = bar
      BY <1>1 DEF Parts, PciTypeOK
    <2> QED BY <2>1, <2>2, <2>3
  <1>7. Apart(Goal, en)'
    <2>1. Apart(Goal', en') <=> Apart(bar, [en EXCEPT ![d] = cmd])
      BY <1>1, <1>6
    <2> QED BY <1>1, <2>1 DEF Apart
  <1>8. Planned'
    BY <1>4 DEF Planned
  <1>9. PciTypeOK'
    <2>1. ranges' \in [Bars -> {"none", "unregister", "register", "leave", "address", "set"}]
      BY <1>1, <1>4
    <2>2. \A c \in Bars : Space(c) = "io" => Goal'[c] < Limit /\ bar'[c] < Limit
      BY <1>1, <1>6 DEF Parts, PciTypeOK
    <2>3. /\ bar' \in [Bars -> Nat] /\ newaddr' \in Nat
          /\ port' \in [0 .. Limit - 1 -> Bars \cup {0}] /\ rd' \in [Vcpus -> BOOLEAN]
          /\ DOMAIN hint' = Vcpus /\ pciabort' \in BOOLEAN
      BY <1>1 DEF Parts, PciTypeOK
    <2> QED BY <1>3, <1>5, <2>1, <2>2, <2>3 DEF PciTypeOK
  <1> QED BY <1>5, <1>7, <1>8, <1>9 DEF Parts

-----------------------------------------------------------------------------
(* The steps of a write that is under way, on the BAR b at hand.           *)

\* Nothing else is being moved, and only one space is being switched.
LEMMA OtherBars ==
  ASSUME Parts, NEW b \in Bars, NEW c \in Bars, c # b, ranges[b] = "register", Space(b) = Space(c),
         Registered(c)
  PROVE  ~Overlap(Entry(b, bar[b]), Entry(c, bar[c]))
  <1>1. ranges[c] = "none" /\ decode(c) /\ decode(b)
    BY DEF Parts, PciTypeOK, Planned, Registered
  <1>2. Goal[b] = bar[b] /\ Goal[c] = bar[c]
    BY <1>1 DEF Goal
  <1> QED BY <1>1, <1>2 DEF Parts, Apart, decode

\* A range about to be registered is apart from the extended configuration
\* space.
LEMMA NotEcfg ==
  ASSUME Parts, NEW b \in Bars, ranges[b] = "register", Space(b) = "mem"
  PROVE  ~Overlap(Entry(b, bar[b]), Ecfg)
  <1>1. decode(b) /\ Goal[b] = bar[b]
    BY DEF Parts, Planned, Goal
  <1> QED BY <1>1 DEF Parts, Apart, decode

\* What every such step keeps: r is what is left to do for the BAR.
LEMMA WriteGoesOn ==
  ASSUME Parts, NEW b \in Bars, Now(b), NEW r, ranges' = [ranges EXCEPT ![b] = r],
         r \in {"none", "address", "register"},
         r = "address" => ranges[b] = "leave",
         r = "register" => ranges[b] = "address",
         r = "none" => ranges[b] \in {"register", "unregister", "set"},
         UNCHANGED <<en, rd, vc, cw, newaddr>>,
         bar' = IF ranges[b] \in {"address", "set"} THEN [bar EXCEPT ![b] = newaddr] ELSE bar,
         port' \in [0 .. Limit - 1 -> Bars \cup {0}], DOMAIN hint' = Vcpus, ~pciabort', pciabort' \in BOOLEAN
  PROVE  /\ PciTypeOK' /\ OneWriter' /\ Planned' /\ Apart(Goal, en)'
         /\ \A c \in Bars : decode(c)' <=> decode(c)
         /\ \A c \in Bars : c # b => ranges'[c] = ranges[c] /\ (Registered(c)' <=> Registered(c))
                                       /\ bar'[c] = bar[c]
         /\ ranges'[b] = r
  <1>1. \A c \in Bars : decode(c)' <=> decode(c)
    BY DEF decode
  <1>2. ranges \in [Bars -> {"none", "unregister", "register", "leave", "address", "set"}]
    BY DEF Parts, PciTypeOK
  <1>3. ranges'[b] = r /\ \A c \in Bars : c # b => ranges'[c] = ranges[c]
    BY <1>2
  <1>4. bar \in [Bars -> Nat] /\ newaddr \in Nat
    BY DEF Parts, PciTypeOK
  <1>5. bar' \in [Bars -> Nat] /\ \A c \in Bars : c # b => bar'[c] = bar[c]
    BY <1>4
  <1>6. \A c \in Bars : c # b => (Registered(c)' <=> Registered(c))
    BY <1>1, <1>3 DEF Registered
  <1>7. Goal' = Goal
    <2>1. Goal' = [c \in Bars |-> IF ranges'[c] \in {"leave", "address", "set"} THEN newaddr ELSE bar'[c]]
      BY DEF Goal
    <2>2. ASSUME NEW c \in Bars
          PROVE  (IF ranges'[c] \in {"leave", "address", "set"} THEN newaddr ELSE bar'[c])
                   = IF ranges[c] \in {"leave", "address", "set"} THEN newaddr ELSE bar[c]
      <3>1. CASE c # b
        BY <1>3, <1>5, <3>1
      <3>2. CASE c = b
        <4>1. ranges[b] \in {"address", "set"} => bar'[b] = newaddr
          BY <1>4
        <4>2. ranges[b] \notin {"address", "set"} => bar'[b] = bar[b]
          OBVIOUS
        <4> QED BY <1>3, <3>2, <4>1, <4>2
      <3> QED BY <3>1, <3>2
    <2> QED BY <2>1, <2>2 DEF Goal
  <1>8. Apart(Goal, en)'
    <2>1. Apart(Goal', en') <=> Apart(Goal, en)
      BY <1>7
    <2> QED BY <2>1 DEF Apart, Parts
  <1>9. Planned'
    <2>1. ranges[b] # "none" /\ Planned
      BY DEF Now, Parts
    <2>2. \A c \in Bars : /\ ranges'[c] \in {"leave", "address", "register"} => decode(c)'
                          /\ ranges'[c] \in {"unregister", "set"} => ~decode(c)'
      BY <1>1, <1>3, <2>1 DEF Planned
    <2>3. \A x, c \in Bars : x # c /\ ranges'[x] \in {"leave", "address", "set"} => ranges'[c] = "none"
      <3> SUFFICES ASSUME NEW x \in Bars, NEW c \in Bars, x # c, ranges'[x] \in {"leave", "address", "set"}
                   PROVE  ranges'[c] = "none"
        OBVIOUS
      <3>1. CASE x = b
        <4>1. ranges[b] = "leave"
          BY <1>3, <3>1
        <4>2. ranges[c] = "none"
          BY <2>1, <3>1, <4>1 DEF Planned
        <4> QED BY <1>3, <3>1, <4>2
      <3>2. CASE x # b
        BY <1>3, <2>1, <3>2 DEF Planned
      <3> QED BY <3>1, <3>2
    <2>4. \A x, c \in Bars : ranges'[x] = "register" /\ ranges'[c] = "unregister" => Space(x) # Space(c)
      <3> SUFFICES ASSUME NEW x \in Bars, NEW c \in Bars, ranges'[x] = "register", ranges'[c] = "unregister"
                   PROVE  Space(x) # Space(c)
        OBVIOUS
      <3>1. c # b /\ ranges[c] = "unregister"
        BY <1>3
      <3>2. x # b
        BY <1>3, <2>1, <3>1 DEF Planned
      <3> QED BY <1>3, <2>1, <3>1, <3>2 DEF Planned
    <2> QED BY <2>2, <2>3, <2>4 DEF Planned
  <1>10. OneWriter'
    <2>1. ~Idle
      BY DEF Now, Idle
    <2> QED BY <2>1 DEF Parts, OneWriter
  <1>11. PciTypeOK'
    <2>1. ranges' \in [Bars -> {"none", "unregister", "register", "leave", "address", "set"}]
      BY <1>2
    <2>2. \A c \in Bars : Space(c) = "io" => Goal'[c] < Limit /\ bar'[c] < Limit
      <3>1. \A c \in Bars : Space(c) = "io" => Goal[c] < Limit /\ bar[c] < Limit
        BY DEF Parts, PciTypeOK
      <3>2. ranges[b] \in {"address", "set"} => bar'[b] = Goal[b]
        BY <1>4 DEF Goal
      <3>3. ranges[b] \notin {"address", "set"} => bar'[b] = bar[b]
        OBVIOUS
      <3> QED BY <1>5, <1>7, <3>1, <3>2, <3>3
    <2>3. /\ newaddr' \in Nat /\ en' \in [Devs -> SUBSET {"mem", "io"}] /\ rd' \in [Vcpus -> BOOLEAN]
          /\ DOMAIN vc' = Vcpus
      BY DEF Parts, PciTypeOK
    <2> QED BY <1>5, <2>1, <2>2, <2>3 DEF PciTypeOK
  <1> QED BY <1>1, <1>3, <1>5, <1>6, <1>8, <1>9, <1>10, <1>11

\* The address of a BAR changes: the BAR is not registered then.
LEMMA SetAddressStep ==
  ASSUME Parts, NEW b \in Bars, SetAddress(b)
  PROVE  Parts'
  <1> DEFINE r == IF ranges[b] = "address" THEN "register" ELSE "none"
  <1>1. /\ Now(b) /\ ranges[b] \in {"address", "set"} /\ bar' = [bar EXCEPT ![b] = newaddr]
        /\ ranges' = [ranges EXCEPT ![b] = r]
        /\ UNCHANGED <<en, tree, port, hint, rd, vc, cw, newaddr, pciabort>>
    BY DEF SetAddress, Parts, PciTypeOK
  <1>2. /\ PciTypeOK' /\ OneWriter' /\ Planned' /\ Apart(Goal, en)'
        /\ \A c \in Bars : decode(c)' <=> decode(c)
        /\ \A c \in Bars : c # b => (Registered(c)' <=> Registered(c)) /\ bar'[c] = bar[c]
        /\ ranges'[b] = r
    <2>1. port' \in [0 .. Limit - 1 -> Bars \cup {0}] /\ DOMAIN hint' = Vcpus /\ ~pciabort' /\ pciabort' \in BOOLEAN
      BY <1>1 DEF Parts, PciTypeOK
    <2>2. /\ r \in {"none", "address", "register"} /\ (r = "address" => ranges[b] = "leave")
          /\ (r = "register" => ranges[b] = "address")
          /\ (r = "none" => ranges[b] \in {"register", "unregister", "set"})
      BY <1>1
    <2>3. bar' = IF ranges[b] \in {"address", "set"} THEN [bar EXCEPT ![b] = newaddr] ELSE bar
      BY ONLY <1>1
    <2>4. UNCHANGED <<en, rd, vc, cw, newaddr>> /\ ranges' = [ranges EXCEPT ![b] = r] /\ Now(b)
      BY ONLY <1>1
    <2> HIDE DEF r
    <2> QED BY ONLY Parts, b \in Bars, <2>1, <2>2, <2>3, <2>4, WriteGoesOn
  <1>3. ~Registered(b) /\ ~Registered(b)'
    <2>1. ranges[b] = "set" => ~decode(b)
      BY DEF Parts, Planned
    <2> QED BY <1>1, <1>2, <2>1 DEF Registered
  <1>4. \A c \in Bars : /\ Registered(c)' <=> Registered(c)
                        /\ Registered(c) => bar'[c] = bar[c]
    BY <1>2, <1>3
  <1>5. InTree' /\ InPorts' /\ RegisteredApart'
    BY <1>1, <1>4 DEF Parts, InTree, InPorts, RegisteredApart
  <1>6. Hints' /\ InHandler' /\ ~pciabort'
    BY <1>1 DEF Parts, Hints, InHandler
  <1> QED BY <1>2, <1>5, <1>6 DEF Parts

\* register_mem finds no range in its way.
LEMMA RegisterMemStep ==
  ASSUME Parts, NEW b \in Bars, RegisterMem(b)
  PROVE  Parts'
  <1> DEFINE e == Entry(b, bar[b])
  <1>0. bar[b] \in Nat /\ BarList[b].size \in Nat \ {0} /\ bar \in [Bars -> Nat]
    BY BarFacts DEF Parts, PciTypeOK
  <1>1. /\ Now(b) /\ Space(b) = "mem" /\ ranges[b] = "register"
        /\ ranges' = [ranges EXCEPT ![b] = "none"]
        /\ UNCHANGED <<bar, en, port, hint, rd, vc, cw, newaddr>>
    BY DEF RegisterMem
  <1>2. \A x \in tree : ~Overlap(x, e)
    <2> SUFFICES ASSUME NEW x \in tree PROVE ~Overlap(x, e)
      OBVIOUS
    <2>1. CASE x = Ecfg
      <3>1. ~Overlap(e, Ecfg)
        BY <1>1, NotEcfg
      <3> QED BY <2>1, <3>1 DEF Overlap
    <2>2. CASE x # Ecfg
      <3>1. PICK c \in Bars : Space(c) = "mem" /\ Registered(c) /\ x = Entry(c, bar[c])
        BY <2>2 DEF Parts, InTree
      <3>2. c # b
        BY <1>1, <3>1 DEF Registered
      <3>3. ~Overlap(e, x)
        BY <1>1, <3>1, <3>2, OtherBars
      <3> QED BY <3>3 DEF Overlap
    <2> QED BY <2>1, <2>2
  <1>3. mmio_rb_lookup(e.base) = {}
    <2>1. e.base = bar[b] /\ e.size = BarList[b].size
      BY DEF Entry
    <2>2. \A x \in tree : x.base \in Int /\ x.size \in Int
      <3>1. Ecfg.base \in Int /\ Ecfg.size \in Int
        BY PciConstants DEF Ecfg
      <3>2. \A c \in Bars : Entry(c, bar[c]).base \in Int /\ Entry(c, bar[c]).size \in Int
        BY <1>0, BarFacts DEF Entry
      <3> QED BY <3>1, <3>2 DEF Parts, InTree
    <2> HIDE DEF e
    <2>3. \A x \in tree : ~Holds(x, e.base)
      BY <1>0, <1>2, <2>1, <2>2 DEF Holds, Overlap
    <2> QED BY <2>3 DEF mmio_rb_lookup
  <1>4. tree' = tree \cup {e} /\ ~pciabort' /\ pciabort' \in BOOLEAN
    BY <1>2, <1>3 DEF RegisterMem
  <1>5. /\ PciTypeOK' /\ OneWriter' /\ Planned' /\ Apart(Goal, en)'
        /\ \A c \in Bars : decode(c)' <=> decode(c)
        /\ \A c \in Bars : c # b => (Registered(c)' <=> Registered(c)) /\ bar'[c] = bar[c]
        /\ ranges'[b] = "none"
    <2>1. port' \in [0 .. Limit - 1 -> Bars \cup {0}] /\ DOMAIN hint' = Vcpus
      BY <1>1 DEF Parts, PciTypeOK
    <2>3. bar' = IF ranges[b] \in {"address", "set"} THEN [bar EXCEPT ![b] = newaddr] ELSE bar
      BY ONLY <1>1
    <2>4. UNCHANGED <<en, rd, vc, cw, newaddr>> /\ ranges' = [ranges EXCEPT ![b] = "none"] /\ Now(b)
          /\ ranges[b] = "register"
      BY ONLY <1>1
    <2> QED BY ONLY Parts, b \in Bars, <1>4, <2>1, <2>3, <2>4, WriteGoesOn
  <1>6. ~Registered(b) /\ Registered(b)'
    BY <1>1, <1>5 DEF Registered, Parts, Planned
  <1>7. InTree'
    BY <1>1, <1>4, <1>5, <1>6 DEF Parts, InTree
  <1>8. InPorts'
    BY <1>1, <1>5 DEF Parts, InPorts
  <1>9. RegisteredApart'
    <2>1. \A c \in Bars : c # b /\ Space(c) = "mem" /\ Registered(c) =>
             ~Overlap(e, Entry(c, bar[c])) /\ ~Overlap(Entry(c, bar[c]), e)
      <3> SUFFICES ASSUME NEW c \in Bars, c # b, Space(c) = "mem", Registered(c)
                   PROVE  ~Overlap(e, Entry(c, bar[c])) /\ ~Overlap(Entry(c, bar[c]), e)
        OBVIOUS
      <3>1. ~Overlap(e, Entry(c, bar[c]))
        BY <1>1, OtherBars
      <3> QED BY <3>1 DEF Overlap
    <2>2. ~Overlap(e, Ecfg)
      BY <1>1, NotEcfg
    <2> QED BY <1>1, <1>5, <2>1, <2>2 DEF Parts, RegisteredApart
  <1>10. Hints' /\ InHandler'
    BY <1>1, <1>4 DEF Parts, Hints, InHandler
  <1> QED BY <1>4, <1>5, <1>7, <1>8, <1>9, <1>10 DEF Parts

\* register_inout finds every port free.
LEMMA RegisterPortStep ==
  ASSUME Parts, NEW b \in Bars, RegisterPort(b)
  PROVE  Parts'
  <1> DEFINE e == Entry(b, bar[b])
  <1>0. bar[b] \in Nat /\ BarList[b].size \in Nat \ {0} /\ bar \in [Bars -> Nat] /\ b # 0
        /\ port \in [0 .. Limit - 1 -> Bars \cup {0}]
    BY BarFacts DEF Parts, PciTypeOK
  <1>1. /\ Now(b) /\ Space(b) = "io" /\ ranges[b] = "register"
        /\ ranges' = [ranges EXCEPT ![b] = "none"]
        /\ pciabort' = \E p \in DOMAIN port : Holds(e, p) /\ port[p] # 0
        /\ port' = [p \in DOMAIN port |-> IF Holds(e, p) THEN b ELSE port[p]]
        /\ UNCHANGED <<bar, en, tree, hint, rd, vc, cw, newaddr>>
    BY DEF RegisterPort
  <1>2. \A c \in Bars, p \in 0 .. Limit - 1 : c # b /\ Space(c) = "io" /\ Registered(c)
           => ~(Holds(e, p) /\ Holds(Entry(c, bar[c]), p))
    <2> SUFFICES ASSUME NEW c \in Bars, NEW p \in 0 .. Limit - 1, c # b, Space(c) = "io", Registered(c)
                 PROVE  ~(Holds(e, p) /\ Holds(Entry(c, bar[c]), p))
      OBVIOUS
    <2>1. ~Overlap(e, Entry(c, bar[c]))
      BY <1>1, OtherBars
    <2>2. bar[c] \in Nat /\ BarList[c].size \in Nat
      BY <1>0, BarFacts
    <2> QED BY <1>0, <2>1, <2>2 DEF Holds, Overlap, Entry
  <1>3. \A p \in DOMAIN port : Holds(e, p) => port[p] = 0
    <2> SUFFICES ASSUME NEW p \in DOMAIN port, Holds(e, p), port[p] # 0 PROVE FALSE
      OBVIOUS
    <2>1. PICK c \in Bars : port[p] = c /\ p \in 0 .. Limit - 1
      BY <1>0
    <2>2. Space(c) = "io" /\ Registered(c) /\ Holds(Entry(c, bar[c]), p)
      BY <2>1 DEF Parts, InPorts
    <2>3. c # b
      BY <1>1, <2>2 DEF Registered
    <2> QED BY <1>2, <2>1, <2>2, <2>3
  <1>4. ~pciabort' /\ pciabort' \in BOOLEAN
    BY <1>1, <1>3
  <1>5. port' \in [0 .. Limit - 1 -> Bars \cup {0}]
    BY <1>0, <1>1
  <1>6. /\ PciTypeOK' /\ OneWriter' /\ Planned' /\ Apart(Goal, en)'
        /\ \A c \in Bars : decode(c)' <=> decode(c)
        /\ \A c \in Bars : c # b => (Registered(c)' <=> Registered(c)) /\ bar'[c] = bar[c]
        /\ ranges'[b] = "none"
    <2>1. DOMAIN hint' = Vcpus
      BY <1>1 DEF Parts, PciTypeOK
    <2>3. bar' = IF ranges[b] \in {"address", "set"} THEN [bar EXCEPT ![b] = newaddr] ELSE bar
      BY ONLY <1>1
    <2>4. UNCHANGED <<en, rd, vc, cw, newaddr>> /\ ranges' = [ranges EXCEPT ![b] = "none"] /\ Now(b)
          /\ ranges[b] = "register"
      BY ONLY <1>1
    <2> QED BY ONLY Parts, b \in Bars, <1>4, <1>5, <2>1, <2>3, <2>4, WriteGoesOn
  <1>7. ~Registered(b) /\ Registered(b)'
    BY <1>1, <1>6 DEF Registered, Parts, Planned
  <1>8. InTree'
    BY <1>1, <1>6 DEF Parts, InTree
  <1>9. InPorts'
    <2> SUFFICES ASSUME NEW p \in DOMAIN port', NEW c \in Bars
                 PROVE  port'[p] = c <=> Space(c) = "io" /\ Registered(c)' /\ Holds(Entry(c, bar'[c]), p)
      BY DEF InPorts
    <2>1. p \in DOMAIN port /\ p \in 0 .. Limit - 1 /\ port'[p] = IF Holds(e, p) THEN b ELSE port[p]
      BY <1>0, <1>1
    <2>2. c # 0 /\ (port[p] = c <=> Space(c) = "io" /\ Registered(c) /\ Holds(Entry(c, bar[c]), p))
      BY <2>1, BarFacts DEF Parts, InPorts
    <2>3. CASE c = b
      BY <1>1, <1>7, <2>1, <2>2, <2>3
    <2>4. CASE c # b
      BY <1>1, <1>2, <1>3, <1>6, <2>1, <2>2, <2>4
    <2> QED BY <2>3, <2>4
  <1>10. RegisteredApart'
    <2>1. \A c \in Bars : c # b /\ Space(c) = "io" /\ Registered(c) =>
             ~Overlap(e, Entry(c, bar[c])) /\ ~Overlap(Entry(c, bar[c]), e)
      <3> SUFFICES ASSUME NEW c \in Bars, c # b, Space(c) = "io", Registered(c)
                   PROVE  ~Overlap(e, Entry(c, bar[c])) /\ ~Overlap(Entry(c, bar[c]), e)
        OBVIOUS
      <3>1. ~Overlap(e, Entry(c, bar[c]))
        BY <1>1, OtherBars
      <3> QED BY <3>1 DEF Overlap
    <2> QED BY <1>1, <1>6, <2>1 DEF Parts, RegisteredApart
  <1>11. Hints' /\ InHandler'
    BY <1>1 DEF Parts, Hints, InHandler
  <1> QED BY <1>4, <1>6, <1>8, <1>9, <1>10, <1>11 DEF Parts

\* unregister_mem finds the entry of the BAR; no vcpu is in a handler then,
\* and the hints to the entry are flushed.
LEMMA UnregisterMemStep ==
  ASSUME Parts, NEW b \in Bars, UnregisterMem(b)
  PROVE  Parts'
  <1> DEFINE e == Entry(b, bar[b])
             r == IF ranges[b] = "leave" THEN "address" ELSE "none"
  <1>0. bar[b] \in Nat /\ BarList[b].size \in Nat \ {0} /\ bar \in [Bars -> Nat]
    BY BarFacts DEF Parts, PciTypeOK
  <1>1. /\ Now(b) /\ Space(b) = "mem" /\ ranges[b] \in {"leave", "unregister"}
        /\ \A v \in Vcpus : ~rd[v]
        /\ ranges' = [ranges EXCEPT ![b] = r]
        /\ UNCHANGED <<bar, en, port, rd, vc, cw, newaddr>>
    BY DEF UnregisterMem, Unregistered, Parts, PciTypeOK
  <1>2. Registered(b)
    BY <1>1 DEF Registered
  <1>3. e.base = bar[b] /\ e.size = BarList[b].size /\ e.b = b
    BY DEF Entry
  <1>4. \A x \in tree : x # e => ~Overlap(e, x) /\ x.base \in Int /\ x.size \in Int
    <2> SUFFICES ASSUME NEW x \in tree, x # e
                 PROVE  ~Overlap(e, x) /\ x.base \in Int /\ x.size \in Int
      OBVIOUS
    <2>1. CASE x = Ecfg
      <3>1. ~Overlap(e, Ecfg)
        BY <1>1, <1>2 DEF Parts, RegisteredApart
      <3>2. Ecfg.base \in Int /\ Ecfg.size \in Int
        BY PciConstants DEF Ecfg
      <3> QED BY <2>1, <3>1, <3>2
    <2>2. CASE x # Ecfg
      <3>1. PICK c \in Bars : Space(c) = "mem" /\ Registered(c) /\ x = Entry(c, bar[c])
        BY <2>2 DEF Parts, InTree
      <3>2. c # b
        BY <3>1
      <3>3. ~Overlap(e, x)
        BY <1>1, <1>2, <3>1, <3>2 DEF Parts, RegisteredApart
      <3>4. x.base \in Int /\ x.size \in Int
        BY <1>0, <3>1, BarFacts DEF Entry
      <3> QED BY <3>3, <3>4
    <2> QED BY <2>1, <2>2
  <1>5. e \in tree
    BY <1>1, <1>2 DEF Parts, InTree
  <1>6. mmio_rb_lookup(bar[b]) = {e}
    <2> HIDE DEF e
    <2>1. \A x \in tree : Holds(x, bar[b]) <=> x = e
      BY <1>0, <1>3, <1>4 DEF Holds, Overlap
    <2> QED BY <1>5, <2>1 DEF mmio_rb_lookup
  <1>7. (CHOOSE x \in {e} : TRUE) = e
    <2> HIDE DEF e
    <2> QED OBVIOUS
  <1>8. tree' = tree \ {e} /\ hint' = FlushHints(e) /\ pciabort' = pciabort
    <2>1. /\ LET found == mmio_rb_lookup(bar[b])
                 f == CHOOSE x \in found : TRUE
             IN IF found = {} \/ f.b # b \/ f.base # bar[b]
                THEN pciabort' = TRUE /\ UNCHANGED <<tree, hint>>
                ELSE tree' = tree \ {f} /\ hint' = FlushHints(f) /\ UNCHANGED pciabort
      BY DEF UnregisterMem
    <2> HIDE DEF e
    <2> QED BY <1>3, <1>6, <1>7, <2>1
  <1>9. /\ PciTypeOK' /\ OneWriter' /\ Planned' /\ Apart(Goal, en)'
        /\ \A c \in Bars : decode(c)' <=> decode(c)
        /\ \A c \in Bars : c # b => (Registered(c)' <=> Registered(c)) /\ bar'[c] = bar[c]
        /\ ranges'[b] = r
    <2>1. port' \in [0 .. Limit - 1 -> Bars \cup {0}] /\ DOMAIN hint' = Vcpus /\ ~pciabort' /\ pciabort' \in BOOLEAN
      BY <1>1, <1>8 DEF Parts, PciTypeOK, FlushHints
    <2>2. /\ r \in {"none", "address", "register"} /\ (r = "address" => ranges[b] = "leave")
          /\ (r = "register" => ranges[b] = "address")
          /\ (r = "none" => ranges[b] \in {"register", "unregister", "set"})
      BY <1>1
    <2>3. bar' = IF ranges[b] \in {"address", "set"} THEN [bar EXCEPT ![b] = newaddr] ELSE bar
      BY ONLY <1>1
    <2>4. UNCHANGED <<en, rd, vc, cw, newaddr>> /\ ranges' = [ranges EXCEPT ![b] = r] /\ Now(b)
      BY ONLY <1>1
    <2> HIDE DEF r
    <2> QED BY ONLY Parts, b \in Bars, <2>1, <2>2, <2>3, <2>4, WriteGoesOn
  <1>10. ~Registered(b)'
    <2>1. ranges[b] = "unregister" => ~decode(b)
      BY DEF Parts, Planned
    <2> QED BY <1>1, <1>9, <2>1 DEF Registered
  <1>11. InTree'
    <2>1. Ecfg # e
      BY <1>3, BarFacts DEF Ecfg
    <2>2. \A c \in Bars : c # b => Entry(c, bar[c]) # e
      BY DEF Entry
    <2> HIDE DEF e
    <2>3. \A x \in tree : x = Ecfg \/ \E c \in Bars : Space(c) = "mem" /\ Registered(c) /\ x = Entry(c, bar[c])
      BY DEF Parts, InTree
    <2>4. \A x \in tree \ {e} : x = Ecfg \/ \E c \in Bars : Space(c) = "mem" /\ Registered(c)' /\ x = Entry(c, bar'[c])
      <3> SUFFICES ASSUME NEW x \in tree \ {e}, x # Ecfg
                   PROVE  \E c \in Bars : Space(c) = "mem" /\ Registered(c)' /\ x = Entry(c, bar'[c])
        OBVIOUS
      <3>1. PICK c \in Bars : Space(c) = "mem" /\ Registered(c) /\ x = Entry(c, bar[c])
        BY <2>3
      <3>2. c # b
        BY <3>1 DEF e
      <3> QED BY <1>1, <1>9, <3>1, <3>2
    <2>5. \A c \in Bars : Space(c) = "mem" /\ Registered(c)' => Entry(c, bar'[c]) \in tree'
      <3> SUFFICES ASSUME NEW c \in Bars, Space(c) = "mem", Registered(c)'
                   PROVE  Entry(c, bar'[c]) \in tree'
        OBVIOUS
      <3>1. c # b /\ Registered(c)
        BY <1>9, <1>10
      <3>2. Entry(c, bar[c]) \in tree
        BY <3>1 DEF Parts, InTree
      <3> QED BY <1>1, <1>8, <2>2, <3>1, <3>2
    <2>6. Ecfg \in tree'
      BY <1>8, <2>1 DEF Parts, InTree
    <2>7. Ecfg' = Ecfg /\ \A c \in Bars : Entry(c, bar[c])' = Entry(c, bar'[c])
      BY DEF Ecfg, Entry
    <2> QED BY <1>8, <2>4, <2>5, <2>6, <2>7 DEF InTree
  <1>12. InPorts'
    BY <1>1, <1>9 DEF Parts, InPorts
  <1>13. RegisteredApart'
    BY <1>1, <1>9, <1>10 DEF Parts, RegisteredApart
  <1>14. Hints'
    <2> HIDE DEF e
    <2> QED BY <1>8 DEF Parts, Hints, FlushHints
  <1>15. InHandler'
    BY <1>1 DEF Parts, InHandler
  <1> QED BY <1>8, <1>9, <1>11, <1>12, <1>13, <1>14, <1>15 DEF Parts

\* unregister_inout finds the ports of the BAR.
LEMMA UnregisterPortStep ==
  ASSUME Parts, NEW b \in Bars, UnregisterPort(b)
  PROVE  Parts'
  <1> DEFINE e == Entry(b, bar[b])
             r == IF ranges[b] = "leave" THEN "address" ELSE "none"
  <1>0. bar[b] \in Nat /\ BarList[b].size \in Nat \ {0} /\ bar \in [Bars -> Nat] /\ b # 0
        /\ port \in [0 .. Limit - 1 -> Bars \cup {0}]
    BY BarFacts DEF Parts, PciTypeOK
  <1>1. /\ Now(b) /\ Space(b) = "io" /\ ranges[b] \in {"leave", "unregister"}
        /\ ranges' = [ranges EXCEPT ![b] = r]
        /\ pciabort' = (port[e.base] # b)
        /\ port' = [p \in DOMAIN port |-> IF Holds(e, p) THEN 0 ELSE port[p]]
        /\ UNCHANGED <<bar, en, tree, hint, rd, vc, cw, newaddr>>
    BY DEF UnregisterPort, Unregistered, Parts, PciTypeOK
  <1>2. Registered(b)
    BY <1>1 DEF Registered
  <1>3. e.base = bar[b] /\ e.size = BarList[b].size
    BY DEF Entry
  <1>4. port[e.base] = b
    <2>1. bar[b] < Limit
      BY <1>1 DEF Parts, PciTypeOK
    <2>2. e.base \in DOMAIN port /\ Holds(e, e.base)
      BY <1>0, <1>3, <2>1, PciConstants DEF Holds
    <2> QED BY <1>1, <1>2, <2>2 DEF Parts, InPorts
  <1>5. ~pciabort' /\ pciabort' \in BOOLEAN
    BY <1>1, <1>4
  <1>6. port' \in [0 .. Limit - 1 -> Bars \cup {0}]
    BY <1>0, <1>1
  <1>7. /\ PciTypeOK' /\ OneWriter' /\ Planned' /\ Apart(Goal, en)'
        /\ \A c \in Bars : decode(c)' <=> decode(c)
        /\ \A c \in Bars : c # b => (Registered(c)' <=> Registered(c)) /\ bar'[c] = bar[c]
        /\ ranges'[b] = r
    <2>1. DOMAIN hint' = Vcpus
      BY <1>1 DEF Parts, PciTypeOK
    <2>2. /\ r \in {"none", "address", "register"} /\ (r = "address" => ranges[b] = "leave")
          /\ (r = "register" => ranges[b] = "address")
          /\ (r = "none" => ranges[b] \in {"register", "unregister", "set"})
      BY <1>1
    <2>3. bar' = IF ranges[b] \in {"address", "set"} THEN [bar EXCEPT ![b] = newaddr] ELSE bar
      BY ONLY <1>1
    <2>4. UNCHANGED <<en, rd, vc, cw, newaddr>> /\ ranges' = [ranges EXCEPT ![b] = r] /\ Now(b)
      BY ONLY <1>1
    <2> HIDE DEF r
    <2> QED BY ONLY Parts, b \in Bars, <1>5, <1>6, <2>1, <2>2, <2>3, <2>4, WriteGoesOn
  <1>8. ~Registered(b)'
    <2>1. ranges[b] = "unregister" => ~decode(b)
      BY DEF Parts, Planned
    <2> QED BY <1>1, <1>7, <2>1 DEF Registered
  <1>9. InTree'
    BY <1>1, <1>7 DEF Parts, InTree
  <1>10. InPorts'
    <2> SUFFICES ASSUME NEW p \in DOMAIN port', NEW c \in Bars
                 PROVE  port'[p] = c <=> Space(c) = "io" /\ Registered(c)' /\ Holds(Entry(c, bar'[c]), p)
      BY DEF InPorts
    <2>1. p \in DOMAIN port /\ p \in 0 .. Limit - 1 /\ port'[p] = IF Holds(e, p) THEN 0 ELSE port[p]
      BY <1>0, <1>1
    <2>2. c # 0 /\ (port[p] = c <=> Space(c) = "io" /\ Registered(c) /\ Holds(Entry(c, bar[c]), p))
      BY <2>1, BarFacts DEF Parts, InPorts
    <2>3. port[p] = b <=> Holds(e, p)
      BY <1>1, <1>2, <2>1 DEF Parts, InPorts
    <2>4. CASE c = b
      BY <1>8, <2>1, <2>2, <2>3, <2>4
    <2>5. CASE c # b
      BY <1>1, <1>7, <2>1, <2>2, <2>3, <2>5
    <2> QED BY <2>4, <2>5
  <1>11. RegisteredApart'
    BY <1>1, <1>7, <1>8 DEF Parts, RegisteredApart
  <1>12. Hints' /\ InHandler'
    BY <1>1 DEF Parts, Hints, InHandler
  <1> QED BY <1>5, <1>7, <1>9, <1>10, <1>11, <1>12 DEF Parts

-----------------------------------------------------------------------------
\* What init_pci allocated is registered and does not overlap.
LEMMA PciInitInv == PciInit => Parts
  <1> SUFFICES ASSUME PciInit PROVE Parts
    OBVIOUS
  <1>0. bar \in [Bars -> 0 .. Limit - 1] /\ Limit \in Nat \ {0} /\ Bars = 1 .. Len(BarList) /\ Len(BarList) \in Nat
    BY PciConstants DEF PciInit, Bars
  <1>1. \A b \in Bars : ranges[b] = "none" /\ decode(b)
    BY BarFacts DEF PciInit, decode
  <1>2. \A b \in Bars : Registered(b)
    BY <1>1 DEF Registered
  <1>3. Idle
    BY <1>1 DEF Idle
  <1>4. Goal = bar
    BY <1>0, <1>1 DEF Goal
  <1>5. ASSUME NEW b \in Bars, NEW c \in Bars, b < c, Space(b) = Space(c)
        PROVE  bar[b] + BarList[b].size <= bar[c]
    <2>1. pci_emul_alloc_resource(c)
      BY DEF PciInit
    <2>2. b \in {x \in 1 .. c - 1 : Space(x) = Space(c)}
      BY <1>0, <1>5
    <2> QED BY <2>1, <2>2 DEF pci_emul_alloc_resource
  <1>6. ASSUME NEW b \in Bars, NEW c \in Bars, b # c, Space(b) = Space(c)
        PROVE  ~Overlap(Entry(b, bar[b]), Entry(c, bar[c]))
    <2>1. /\ bar[b] \in Nat /\ bar[c] \in Nat /\ BarList[b].size \in Nat /\ BarList[c].size \in Nat
          /\ b \in Nat /\ c \in Nat
      BY <1>0, BarFacts
    <2>2. bar[b] + BarList[b].size <= bar[c] \/ bar[c] + BarList[c].size <= bar[b]
      <3>1. b < c \/ c < b
        BY <1>6, <2>1
      <3> QED BY <1>5, <1>6, <3>1
    <2> QED BY <2>1, <2>2 DEF Overlap, Entry
  <1>7. \A b \in Bars : Space(b) = "mem" => ~Overlap(Entry(b, bar[b]), Ecfg)
    <2> SUFFICES ASSUME NEW b \in Bars, Space(b) = "mem" PROVE ~Overlap(Entry(b, bar[b]), Ecfg)
      OBVIOUS
    <2>1. bar[b] + BarList[b].size <= Limit - 1
      BY DEF PciInit, pci_emul_alloc_resource
    <2>2. bar[b] \in Nat /\ BarList[b].size \in Nat
      BY <1>0, BarFacts
    <2> QED BY <1>0, <2>1, <2>2 DEF Overlap, Entry, Ecfg
  <1>8. RegisteredApart
    BY <1>6, <1>7 DEF RegisteredApart
  <1>9. Apart(Goal, en)
    BY <1>4, <1>6, <1>7 DEF Apart
  <1>10. InTree
    BY <1>2 DEF PciInit, InTree
  <1>11. DOMAIN port = 0 .. Limit - 1 /\ InPorts /\ port \in [0 .. Limit - 1 -> Bars \cup {0}]
    <2> DEFINE At(b, p) == Space(b) = "io" /\ Holds(Entry(b, bar[b]), p)
    <2>1. port = [p \in 0 .. Limit - 1 |-> IF \E b \in Bars : At(b, p) THEN CHOOSE b \in Bars : At(b, p) ELSE 0]
      BY DEF PciInit
    <2>2. ASSUME NEW p \in 0 .. Limit - 1, NEW b \in Bars, NEW c \in Bars, At(b, p), At(c, p)
          PROVE  b = c
      <3>1. bar[b] \in Nat /\ bar[c] \in Nat /\ BarList[b].size \in Nat /\ BarList[c].size \in Nat
        BY <1>0, BarFacts
      <3>2. Overlap(Entry(b, bar[b]), Entry(c, bar[c]))
        BY <2>2, <3>1 DEF Overlap, Entry, Holds
      <3> QED BY <1>6, <2>2, <3>2
    <2>3. 0 \notin Bars
      BY BarFacts
    <2> HIDE DEF At
    <2>4. ASSUME NEW p \in 0 .. Limit - 1
          PROVE  port[p] \in Bars \cup {0} /\ \A b \in Bars : port[p] = b <=> At(b, p)
      <3>1. port[p] = IF \E b \in Bars : At(b, p) THEN CHOOSE b \in Bars : At(b, p) ELSE 0
        BY <2>1
      <3>2. CASE \E b \in Bars : At(b, p)
        <4>1. port[p] \in Bars /\ At(port[p], p)
          BY <3>1, <3>2
        <4> QED BY <2>2, <4>1
      <3>3. CASE ~\E b \in Bars : At(b, p)
        BY <2>3, <3>1, <3>3
      <3> QED BY <3>2, <3>3
    <2>5. DOMAIN port = 0 .. Limit - 1 /\ port \in [0 .. Limit - 1 -> Bars \cup {0}]
      BY <2>1, <2>4
    <2> QED BY <1>2, <2>4, <2>5 DEF InPorts, At
  <1>12. PciTypeOK
    <2>1. en \in [Devs -> SUBSET {"mem", "io"}]
      BY DEF PciInit
    <2>2. ranges \in [Bars -> {"none", "unregister", "register", "leave", "address", "set"}] /\ newaddr \in Nat
          /\ rd \in [Vcpus -> BOOLEAN] /\ DOMAIN vc = Vcpus /\ DOMAIN hint = Vcpus /\ pciabort \in BOOLEAN
      BY DEF PciInit
    <2>3. bar \in [Bars -> Nat] /\ \A b \in Bars : Goal[b] < Limit /\ bar[b] < Limit
      BY <1>0, <1>4
    <2> QED BY <1>11, <2>1, <2>2, <2>3 DEF PciTypeOK
  <1>13. OneWriter
    BY <1>3 DEF PciInit, OneWriter
  <1>14. Planned
    BY <1>1 DEF Planned
  <1>15. Hints /\ InHandler /\ ~pciabort
    BY DEF PciInit, Hints, InHandler
  <1> QED BY <1>8, <1>9, <1>10, <1>11, <1>12, <1>13, <1>14, <1>15 DEF Parts

\* Every step keeps the parts of the invariant.
LEMMA PciStep == Parts /\ [PciNext]_pcivars => Parts'
  <1> SUFFICES ASSUME Parts, [PciNext]_pcivars PROVE Parts'
    OBVIOUS
  <1>1. CASE UNCHANGED pcivars
    <2>1. UNCHANGED <<bar, en, tree, port, hint, rd, vc, cw, ranges, newaddr, pciabort>>
      BY <1>1 DEF pcivars
    <2>2. OneWriter' /\ Hints' /\ InHandler' /\ rd' \in [Vcpus -> BOOLEAN] /\ DOMAIN vc' = Vcpus
          /\ DOMAIN hint' = Vcpus
      BY <2>1 DEF Parts, OneWriter, Hints, InHandler, PciTypeOK, Idle
    <2>3. UNCHANGED <<bar, en, tree, port, ranges, newaddr, pciabort>>
      BY <2>1
    <2> QED BY <2>2, <2>3, BarsKept DEF Parts, PciTypeOK
  <1>2. CASE PciNext
    <2>1. ASSUME NEW b \in Bars, ConfigStep(b) PROVE Parts'
      BY <2>1, SetAddressStep, RegisterMemStep, RegisterPortStep, UnregisterMemStep, UnregisterPortStep
         DEF ConfigStep
    <2> QED BY <1>2, <2>1, PortConfigStep, WriteBarStep, ReturnStep, CommandStep, AccessStep DEF PciNext
  <1> QED BY <1>1, <1>2

\* The inductive invariant of the BARs: at every step of a write to the
\* configuration space, what is registered is known and does not overlap.
THEOREM PciInvariant == PciSpec => []PciInv
  BY PciInitInv, PciStep, PartsOfInv, PTL DEF PciSpec

\* No assertion of modify_bar_registration, unregister_mem, unregister_inout
\* and pci_emul_mem_handler fails, for any BARs and vcpus and a guest that
\* keeps its ranges apart.
THEOREM NoPciAborts == PciSpec => []NoPciAbort
  <1>1. PciInv => NoPciAbort
    <2> SUFFICES ASSUME Parts PROVE NoPciAbort
      BY PartsOfInv
    <2>1. ASSUME NEW v \in Vcpus, vc[v].pc = "handler", vc[v].entry.b > 0
          PROVE  Holds(Entry(vc[v].entry.b, bar[vc[v].entry.b]), vc[v].addr)
      <3> DEFINE e == vc[v].entry
      <3>1. e \in tree /\ Holds(e, vc[v].addr) /\ e.b > 0
        BY <2>1 DEF Parts, InHandler
      <3>2. e # Ecfg
        BY <3>1 DEF Ecfg
      <3>3. PICK b \in Bars : e = Entry(b, bar[b])
        BY <3>1, <3>2 DEF Parts, InTree
      <3>4. e.b = b
        BY <3>3 DEF Entry
      <3> QED BY <3>1, <3>3, <3>4
    <2> QED BY <2>1 DEF NoPciAbort, Parts
  <1> QED BY <1>1, PciInvariant, PTL

\* Between writes, what is dispatched to devices are exactly the decoded
\* BARs at their present addresses, and at no time has a vcpu a hint to an
\* entry that was freed.
THEOREM DispatchFollowsBars == PciSpec => []DispatchMatchesBars
  <1>1. PciInv => DispatchMatchesBars
    <2> SUFFICES ASSUME Parts, PciInv PROVE DispatchMatchesBars
      BY PartsOfInv
    <2>1. ASSUME Idle
          PROVE  \A b \in Bars : Registered(b) <=> decode(b)
      BY <2>1 DEF Idle, Registered
    <2>2. ASSUME Idle
          PROVE  tree = {Ecfg} \cup {Entry(b, bar[b]) : b \in {x \in Bars : Space(x) = "mem" /\ decode(x)}}
      <3>1. \A b \in Bars : Space(b) = "mem" /\ decode(b) => Entry(b, bar[b]) \in tree
        BY <2>1, <2>2 DEF Parts, InTree
      <3>2. \A e \in tree : e = Ecfg \/ \E b \in Bars : Space(b) = "mem" /\ decode(b) /\ e = Entry(b, bar[b])
        BY <2>1, <2>2 DEF Parts, InTree
      <3>3. Ecfg \in tree
        BY DEF Parts, InTree
      <3> QED BY <3>1, <3>2, <3>3
    <2>3. ASSUME Idle, NEW p \in DOMAIN port
          PROVE  port[p] # 0 <=> \E b \in Bars : Space(b) = "io" /\ decode(b) /\ Holds(Entry(b, bar[b]), p)
      <3>1. port[p] \in Bars \cup {0} /\ \A b \in Bars : b # 0
        BY BarFacts DEF Parts, PciTypeOK
      <3>2. \A b \in Bars : port[p] = b <=> Space(b) = "io" /\ decode(b) /\ Holds(Entry(b, bar[b]), p)
        BY <2>1, <2>3 DEF Parts, InPorts
      <3> QED BY <3>1, <3>2
    <2> QED BY <2>2, <2>3 DEF DispatchMatchesBars, Parts, Hints
  <1> QED BY <1>1, PciInvariant, PTL

-----------------------------------------------------------------------------
(* The socks.                                                              *)

\* A sock keeps its descriptor and goes on towards CLOSING_TX at most.
Kept(k, j) ==
  /\ j \in Sock /\ j.fd = k.fd /\ j.buf <= j.unack
  /\ j.st = k.st \/ (k.st \in {"CONNECTED", "CONNECTING"} /\ j.st \in {"CONNECTED", "CLOSING_TX"})

\* What the tx thread found it has to drain.
Drainable(k) == k.st = "CONNECTED" => k.buf > 0 /\ "RX" \notin k.lsh

\* shutdown_peer_local_fd changes neither the state of a sock nor its
\* buffer.
LEMMA ShutdownPeer ==
  ASSUME NEW k \in Sock, NEW mode \in SUBSET All
  PROVE  LET j == shutdown_peer_local_fd(k, mode)
         IN /\ j \in Sock /\ j.st = k.st /\ j.fd = k.fd /\ j.buf = k.buf /\ j.unack = k.unack
            /\ j.addr = k.addr
  BY DEF shutdown_peer_local_fd, Sock, All

\* close_sock leaves the descriptor open and the buffer as it is.
LEMMA CloseSock ==
  ASSUME NEW k \in Sock
  PROVE  LET j == close_sock(k)
         IN /\ j \in Sock /\ j.st = "CLOSING_TX" /\ j.fd = k.fd /\ j.buf = k.buf
            /\ j.unack = k.unack
  <1> DEFINE h == shutdown_peer_local_fd(k, All)
  <1>1. h \in Sock /\ h.fd = k.fd /\ h.buf = k.buf /\ h.unack = k.unack
    BY ShutdownPeer DEF All
  <1> HIDE DEF h
  <1>2. LET j == [h EXCEPT !.st = "CLOSING_TX"]
        IN j \in Sock /\ j.st = "CLOSING_TX" /\ j.fd = h.fd /\ j.buf = h.buf /\ j.unack = h.unack
    BY <1>1 DEF Sock, States
  <1> QED BY <1>1, <1>2 DEF close_sock, h

\* shutdown_local_sock keeps the buffer within what is not acknowledged; a
\* shutdown for TX keeps a sock that can be drained as it is.
LEMMA ShutdownLocal ==
  ASSUME NEW k \in Sock, NEW mode \in All, k.buf <= k.unack
  PROVE  LET j == shutdown_local_sock(k, mode)
         IN /\ j \in Sock /\ j.st = k.st /\ j.fd = k.fd /\ j.buf <= j.unack
            /\ mode = "TX" /\ "RX" \notin k.lsh => j.buf = k.buf /\ "RX" \notin j.lsh
  <1> DEFINE new == k.lsh \cup {mode}
             n == IF "RX" \in new THEN 0 ELSE k.buf
             un == IF "RX" \in new THEN 0 ELSE k.unack
             l == IF new = All THEN FALSE ELSE k.late
             j == [k EXCEPT !.lsh = new, !.buf = n, !.unack = un, !.late = l]
  <1>1. new \in SUBSET All
    BY DEF Sock
  <1>2. n \in Nat /\ un \in Nat /\ n <= un
    BY DEF Sock
  <1>3. l \in BOOLEAN
    BY DEF Sock
  <1>4. mode = "TX" /\ "RX" \notin k.lsh => n = k.buf /\ "RX" \notin new
    OBVIOUS
  <1>5. shutdown_local_sock(k, mode) = j
    BY DEF shutdown_local_sock
  <1> HIDE DEF new, n, un, l
  <1>6. j \in Sock /\ j.st = k.st /\ j.fd = k.fd /\ j.buf = n /\ j.unack = un /\ j.lsh = new
    BY <1>1, <1>2, <1>3 DEF Sock
  <1> HIDE DEF j
  <1> QED BY <1>2, <1>4, <1>5, <1>6

\* A reply to the peer (send_response_sock) changes nothing the threads
\* choose by.
LEMMA ToldSock ==
  ASSUME NEW k \in Sock
  PROVE  LET j == Told(k)
         IN /\ j \in Sock /\ j.st = k.st /\ j.fd = k.fd /\ j.buf = k.buf /\ j.unack = k.unack
            /\ j.lsh = k.lsh
  BY DEF Told, Sock

\* Nor does set_credit_update_required.
LEMMA CreditSock ==
  ASSUME NEW k \in Sock
  PROVE  LET j == set_credit_update_required(k)
         IN /\ j \in Sock /\ j.st = k.st /\ j.fd = k.fd /\ j.buf = k.buf /\ j.unack = k.unack
  BY DEF set_credit_update_required, Sock

\* alloc_sock makes a sock that is connecting, with an empty buffer.
LEMMA AllocSock ==
  ASSUME NEW k \in Sock
  PROVE  LET j == alloc_sock(k)
         IN /\ j \in Sock /\ j.st = "CONNECTING" /\ j.buf = 0 /\ j.unack = 0 /\ j.fd = k.fd
  BY DEF alloc_sock, Sock, States, All

\* The end of buffer_drain keeps a sock.
LEMMA DrainedSock ==
  ASSUME NEW k \in Sock, k.buf <= k.unack
  PROVE  Kept(k, Drained(k))
  <1> DEFINE n == k.unack - k.buf
             lsh == IF "TX" \in k.psh THEN k.lsh \cup {"RX"} ELSE k.lsh
             h == [k EXCEPT !.buf = 0, !.unack = n, !.told = FALSE, !.lsh = lsh]
  <1>1. n \in Nat
    BY DEF Sock
  <1>2. lsh \in SUBSET All
    BY DEF Sock, All
  <1> HIDE DEF n, lsh
  <1>3. h \in Sock /\ h.st = k.st /\ h.fd = k.fd /\ h.buf = 0 /\ h.unack = n
    BY <1>1, <1>2 DEF Sock
  <1>4. h = [k EXCEPT !.buf = 0, !.unack = @ - k.buf, !.told = FALSE,
              !.lsh = IF "TX" \in k.psh THEN @ \cup {"RX"} ELSE @]
    BY DEF n, lsh, Sock
  <1> HIDE DEF h
  <1>5. Drained(k) = set_credit_update_required(h)
    BY <1>4 DEF Drained
  <1> QED BY <1>1, <1>3, <1>5, CreditSock DEF Kept

\* A step that changes one sock and keeps it, and takes nothing new into
\* what the threads have chosen, keeps what they rely on.
LEMMA Update ==
  ASSUME SockInv, NEW s \in Socks, NEW j, Kept(sk[s], j), sk' = [sk EXCEPT ![s] = j],
         UNCHANGED <<inuse, tq, rp>>, rq' \subseteq rq, tw' \subseteq tw,
         tpc' = tpc \/ tpc' = "proc",
         rpc' = rpc \/ rpc' = "scan",
         rpc' = "socks" => todo' \subseteq rq',
         \/ tpc' \notin {"select", "accept", "drain"}
         \/ tpc' = "drain" /\ s \notin tw'
         \/ Drainable(sk[s]) => Drainable(j)
  PROVE  sk' \in [Socks -> Sock] /\ UsedIsOpen' /\ BufferedUnacked' /\ TxChosen' /\ RxChosen'
  <1> USE DEF SockInv, SockTypeOK
  <1>1. sk' \in [Socks -> Sock]
    BY DEF Kept
  <1>2. UsedIsOpen'
    BY DEF UsedIsOpen, Kept
  <1>3. BufferedUnacked'
    BY DEF BufferedUnacked, Kept
  <1>4. TxChosen'
    <2>1. tpc' \in {"select", "accept", "drain"} =>
             \A x \in tq : sk'[x].st \in {"CONNECTED", "CLOSING_TX"}
      BY DEF TxChosen, Kept
    <2>4. tpc' \in {"accept", "drain"} => tw' \subseteq tq'
      BY DEF TxChosen
    <2>2. tpc' \in {"select", "accept"} => Buffering(tq)'
      BY DEF TxChosen, Buffering, Drainable, sock_is_buffering
    <2>3. tpc' = "drain" => \A x \in tw' : Drainable(sk'[x])
      BY DEF TxChosen, Buffering, Drainable, sock_is_buffering
    <2> QED BY <2>1, <2>2, <2>3, <2>4 DEF TxChosen, Buffering, Drainable, sock_is_buffering
  <1>5. RxChosen'
    BY DEF RxChosen, Kept
  <1> QED BY <1>1, <1>2, <1>3, <1>4, <1>5

\* What is left of the invariant after Update.
Places ==
  /\ inuse \subseteq Socks /\ tq \subseteq Socks /\ tw \subseteq Socks
  /\ rq \subseteq Socks /\ rp \subseteq Socks /\ rr \subseteq Socks /\ todo \subseteq Socks
  /\ tpc \in {"scan", "select", "accept", "drain", "proc", "respond"}
  /\ rpc \in {"scan", "select", "replies", "socks"}
  /\ packets \in Seq(Ops)
  /\ abort \in {"no", "local"}

\* The parts make the invariant.
LEMMA FromParts ==
  ASSUME Places', sk' \in [Socks -> Sock], UsedIsOpen', BufferedUnacked', TxChosen', RxChosen'
  PROVE  SockInv'
  BY DEF Places, SockInv, SockTypeOK

\* What the invariant says of the sets and the socks.
LEMMA HasPlaces ==
  ASSUME SockInv
  PROVE  Places /\ sk \in [Socks -> Sock] /\ \A s \in Socks : sk[s] \in Sock /\ sk[s].buf <= sk[s].unack
  BY DEF Places, SockInv, SockTypeOK, BufferedUnacked

\* A sock is taken from the free list: no thread has chosen it.
LEMMA Allocate ==
  ASSUME SockInv, NEW s \in Socks \ inuse, NEW j \in Sock, j.buf = 0,
         j.st # "FREE" => j.fd,
         sk' = [sk EXCEPT ![s] = j], inuse' = inuse \cup {s},
         UNCHANGED <<rpc, rq, rp, todo, tq, tw>>,
         \/ tpc = "accept" /\ tpc' = "drain" /\ tw \subseteq tq
         \/ tpc' \in {"proc", "respond"}
  PROVE  sk' \in [Socks -> Sock] /\ UsedIsOpen' /\ BufferedUnacked' /\ TxChosen' /\ RxChosen'
  <1> USE DEF SockInv, SockTypeOK
  <1>0. sk[s].st = "FREE"
    BY DEF UsedIsOpen
  <1>1. sk' \in [Socks -> Sock] /\ UsedIsOpen'
    BY DEF UsedIsOpen
  <1>2. BufferedUnacked'
    <2>1. j.buf <= j.unack
      BY DEF Sock
    <2> QED BY <2>1 DEF BufferedUnacked
  <1>3. TxChosen'
    <2>1. CASE tpc = "accept" /\ tpc' = "drain" /\ tw \subseteq tq
      <3>1. s \notin tq
        BY <1>0, <2>1 DEF TxChosen
      <3>2. \A x \in tq : sk'[x] = sk[x]
        BY <3>1
      <3> QED BY <2>1, <3>2 DEF TxChosen, Buffering, sock_is_buffering
    <2>2. CASE tpc' \in {"proc", "respond"}
      BY <2>2 DEF TxChosen
    <2> QED BY <2>1, <2>2
  <1>4. RxChosen'
    <2>1. ASSUME rpc \in {"select", "replies", "socks"}
          PROVE  s \notin rq \cup rp
      BY <1>0, <2>1 DEF RxChosen
    <2> QED BY <2>1 DEF RxChosen
  <1> QED BY <1>1, <1>2, <1>3, <1>4

-----------------------------------------------------------------------------
\* The tx thread's scan: closing socks are handed to the rx thread and late
\* ones closed, and what it selects on afterwards are open socks that
\* buffer.
LEMMA TxScanStep ==
  ASSUME SockInv, TxScan
  PROVE  SockInv'
  <1> USE DEF TxScan
  <1>0. Places /\ \A s \in Socks : sk[s] \in Sock /\ sk[s].buf <= sk[s].unack
    BY HasPlaces
  <1>1. ASSUME NEW k \in Sock, k.buf <= k.unack, k.st # "FREE" => k.fd
        PROVE  LET j == Scanned(k)
               IN /\ j \in Sock /\ j.fd = k.fd /\ j.buf <= j.unack
                  /\ j.st \in {"CONNECTED", "CLOSING_TX", "CLOSING_RX"} <=>
                       k.st \in {"CONNECTED", "CLOSING_TX", "CLOSING_RX"}
                  /\ j.st = "FREE" <=> k.st = "FREE"
    <2>1. CASE k.st = "CLOSING_TX" /\ ~sock_is_buffering(k)
      <3>1. Scanned(k) = [k EXCEPT !.st = "CLOSING_RX"]
        BY <2>1 DEF Scanned
      <3> QED BY <1>1, <2>1, <3>1 DEF Sock, States
    <2>2. CASE ~(k.st = "CLOSING_TX" /\ ~sock_is_buffering(k)) /\ Expired(k)
      <3>1. Scanned(k) = Told(close_sock(k))
        BY <2>2 DEF Scanned
      <3>2. k.st \in {"CONNECTED", "CLOSING_TX"}
        BY <2>2 DEF Expired
      <3> DEFINE c == close_sock(k)
      <3>3. c \in Sock /\ c.st = "CLOSING_TX" /\ c.fd = k.fd /\ c.buf = k.buf /\ c.unack = k.unack
        BY CloseSock
      <3> HIDE DEF c
      <3>4. LET j == Told(c) IN j \in Sock /\ j.st = c.st /\ j.fd = c.fd /\ j.buf = c.buf
                                /\ j.unack = c.unack
        BY <3>3, ToldSock
      <3>5. Scanned(k) = Told(c)
        BY <3>1 DEF c
      <3> QED BY <1>1, <3>2, <3>3, <3>4, <3>5
    <2>3. CASE ~(k.st = "CLOSING_TX" /\ ~sock_is_buffering(k)) /\ ~Expired(k)
      BY <1>1, <2>3 DEF Scanned
    <2> QED BY <2>1, <2>2, <2>3
  <1>2. \A s \in Socks : sk[s].st # "FREE" => sk[s].fd /\ s \in inuse
    BY DEF SockInv, UsedIsOpen
  <1>3. \A s \in Socks :
           /\ sk'[s] \in Sock /\ sk'[s].fd = sk[s].fd /\ sk'[s].buf <= sk'[s].unack
           /\ sk'[s].st \in {"CONNECTED", "CLOSING_TX", "CLOSING_RX"} <=>
                 sk[s].st \in {"CONNECTED", "CLOSING_TX", "CLOSING_RX"}
           /\ sk'[s].st = "FREE" <=> sk[s].st = "FREE"
    <2> SUFFICES ASSUME NEW s \in Socks
                 PROVE  /\ sk'[s] \in Sock /\ sk'[s].fd = sk[s].fd /\ sk'[s].buf <= sk'[s].unack
                        /\ sk'[s].st \in {"CONNECTED", "CLOSING_TX", "CLOSING_RX"} <=>
                             sk[s].st \in {"CONNECTED", "CLOSING_TX", "CLOSING_RX"}
                        /\ sk'[s].st = "FREE" <=> sk[s].st = "FREE"
      OBVIOUS
    <2>1. sk'[s] = IF s \in inuse THEN Scanned(sk[s]) ELSE sk[s]
      OBVIOUS
    <2>2. sk[s] \in Sock /\ sk[s].buf <= sk[s].unack /\ (sk[s].st # "FREE" => sk[s].fd)
      BY <1>0, <1>2
    <2>3. CASE s \in inuse
      BY <1>1, <2>1, <2>2, <2>3
    <2>4. CASE s \notin inuse
      BY <2>1, <2>2, <2>4
    <2> QED BY <2>3, <2>4
  <1>4. tpc' = "select" /\ inuse' = inuse /\ tw' = tw /\ rq' = rq /\ rp' = rp /\ rpc' = rpc
        /\ todo' = todo /\ rr' = rr /\ packets' = packets /\ abort' = abort /\ DOMAIN sk' = Socks
    BY DEF rxlocal
  <1>5. tq' \subseteq inuse /\ \A s \in tq' : /\ sk[s].st \in {"CONNECTED", "CLOSING_TX"}
                                              /\ sk'[s] = sk[s] /\ "RX" \notin sk[s].lsh /\ sk[s].buf > 0
    <2>1. \A s \in tq' : /\ s \in inuse /\ ~Expired(sk[s])
                         /\ ~(sk[s].st = "CLOSING_TX" /\ ~sock_is_buffering(sk[s]))
                         /\ sk[s].st \in {"CONNECTED", "CLOSING_TX"}
                         /\ "RX" \notin sk[s].lsh /\ sock_is_buffering(sk[s])
      OBVIOUS
    <2>2. \A s \in tq' : Scanned(sk[s]) = sk[s]
      BY <2>1 DEF Scanned
    <2>3. \A s \in inuse : sk'[s] = Scanned(sk[s])
      BY <1>0 DEF Places
    <2> QED BY <2>1, <2>2, <2>3 DEF sock_is_buffering
  <1>6. sk' \in [Socks -> Sock]
    BY <1>3
  <1>7. UsedIsOpen' /\ BufferedUnacked'
    BY <1>2, <1>3, <1>4 DEF UsedIsOpen, BufferedUnacked
  <1>8. TxChosen'
    BY <1>4, <1>5 DEF TxChosen, Buffering, sock_is_buffering
  <1>9. RxChosen'
    <2>1. RxChosen /\ rq \subseteq Socks /\ rp \subseteq Socks
      BY <1>0 DEF SockInv, Places
    <2> HIDE DEF TxScan
    <2> QED BY <2>1, <1>3, <1>4 DEF RxChosen
  <1>10. Places'
    BY <1>0, <1>4, <1>5 DEF Places
  <1> QED BY <1>6, <1>7, <1>8, <1>9, <1>10, FromParts

\* The rx thread's scan frees the closing socks: none of them is one that
\* the tx thread has chosen.
LEMMA RxScanStep ==
  ASSUME SockInv, RxScan
  PROVE  SockInv'
  <1> USE DEF RxScan
  <1>0. Places /\ \A s \in Socks : sk[s] \in Sock /\ sk[s].buf <= sk[s].unack
    BY HasPlaces
  <1>1. \A s \in Socks :
           /\ sk[s].st = "CLOSING_RX" /\ s \in inuse =>
                /\ sk'[s] = [sk[s] EXCEPT !.st = "FREE", !.fd = FALSE]
                /\ s \notin inuse'
           /\ sk[s].st # "CLOSING_RX" => sk'[s] = sk[s] /\ (s \in inuse' <=> s \in inuse)
    BY <1>0 DEF Places
  <1>2. ASSUME NEW k \in Sock
        PROVE  LET j == [k EXCEPT !.st = "FREE", !.fd = FALSE]
               IN j \in Sock /\ j.st = "FREE" /\ j.buf = k.buf /\ j.unack = k.unack
    BY DEF Sock, States
  <1>3. UsedIsOpen
    BY DEF SockInv
  <1>4. \A s \in Socks : sk'[s] \in Sock /\ sk'[s].buf <= sk'[s].unack
                         /\ (sk'[s].st # "FREE" => sk'[s] = sk[s] /\ sk[s].fd /\ s \in inuse')
    <2> SUFFICES ASSUME NEW s \in Socks
                 PROVE  sk'[s] \in Sock /\ sk'[s].buf <= sk'[s].unack
                         /\ (sk'[s].st # "FREE" => sk'[s] = sk[s] /\ sk[s].fd /\ s \in inuse')
      OBVIOUS
    <2>1. CASE sk[s].st = "CLOSING_RX"
      <3>1. s \in inuse
        BY <2>1, <1>3 DEF UsedIsOpen
      <3>2. sk'[s] = [sk[s] EXCEPT !.st = "FREE", !.fd = FALSE]
        BY <1>1, <2>1, <3>1
      <3> HIDE DEF RxScan
      <3> QED BY ZenonT(60), <1>0, <1>2, <3>2
    <2>2. CASE sk[s].st # "CLOSING_RX"
      <3>1. sk'[s] = sk[s] /\ (s \in inuse' <=> s \in inuse)
        BY <1>1, <2>2
      <3> HIDE DEF RxScan
      <3> QED BY <1>0, <1>3, <3>1 DEF UsedIsOpen
    <2> QED BY <2>1, <2>2
  <1>5. sk' \in [Socks -> Sock] /\ UsedIsOpen' /\ BufferedUnacked'
    <2>1. DOMAIN sk' = Socks
      OBVIOUS
    <2> QED BY <1>4, <2>1 DEF UsedIsOpen, BufferedUnacked
  <1>6. TxChosen'
    <2>1. tpc' = tpc /\ tq' = tq /\ tw' = tw
      BY DEF txlocal
    <2>2. TxChosen /\ tq \subseteq Socks
      BY <1>0 DEF SockInv, Places
    <2>3. tpc \in {"select", "accept", "drain"} => \A s \in tq : sk'[s] = sk[s]
      <3> HIDE DEF RxScan
      <3> QED BY <2>2, <1>1 DEF TxChosen
    <2> HIDE DEF RxScan
    <2>4. tpc = "drain" => \A s \in tw : sk'[s] = sk[s]
      BY <2>2, <2>3 DEF TxChosen
    <2> QED BY <2>1, <2>2, <2>3, <2>4 DEF TxChosen, Buffering, sock_is_buffering
  <1>7. RxChosen'
    <2>1. rpc' = "select" /\ \A s \in rq' \cup rp' : sk[s].st = "CONNECTED" /\ s \in Socks
      BY <1>0 DEF Places
    <2>2. \A s \in rq' \cup rp' : sk'[s].st = "CONNECTED"
      BY <1>1, <2>1
    <2> HIDE DEF RxScan
    <2> QED BY <2>1, <2>2 DEF RxChosen
  <1>8. Places'
    BY <1>0 DEF Places, txlocal
  <1> QED BY <1>5, <1>6, <1>7, <1>8, FromParts

\* Steps that leave the socks alone.
LEMMA SameSocks ==
  ASSUME SockInv, UNCHANGED <<sk, inuse, tq>>, Places',
         \/ tpc' = tpc /\ tw' = tw
         \/ tpc' \notin {"select", "accept", "drain"}
         \/ tpc = "select" /\ tpc' \in {"accept", "drain"} /\ tw' \subseteq tq,
         rpc' = "scan" \/ (rpc # "scan" /\ rq' \subseteq rq /\ rp' \subseteq rp),
         rpc' = "socks" => todo' \subseteq rq'
  PROVE  SockInv'
  <1>1. sk' \in [Socks -> Sock] /\ UsedIsOpen' /\ BufferedUnacked'
    BY DEF SockInv, SockTypeOK, UsedIsOpen, BufferedUnacked
  <1>2. TxChosen'
    BY DEF SockInv, TxChosen, Buffering, sock_is_buffering
  <1>3. RxChosen'
    BY DEF SockInv, SockTypeOK, RxChosen
  <1> QED BY <1>1, <1>2, <1>3, FromParts

\* handle_connect_fd: a connection from the host takes a free sock or is
\* refused.
LEMMA ConnectStep ==
  ASSUME SockInv, handle_connect_fd
  PROVE  SockInv'
  <1> USE DEF handle_connect_fd
  <1>0. Places /\ \A s \in Socks : sk[s] \in Sock
    BY HasPlaces
  <1>1. tpc = "accept" /\ tpc' = "drain" /\ UNCHANGED <<packets, tq, tw, rpc, rq, rp, rr, todo, abort>>
    BY DEF txlocal, rxlocal
  <1>2. tw \subseteq tq
    BY <1>1 DEF SockInv, TxChosen
  <1>3. CASE UNCHANGED <<sk, inuse>>
    <2>1. Places'
      BY <1>0, <1>1, <1>3 DEF Places
    <2>2. TxChosen'
      BY <1>1, <1>2, <1>3 DEF SockInv, TxChosen, Buffering, sock_is_buffering
    <2>3. sk' \in [Socks -> Sock] /\ UsedIsOpen' /\ BufferedUnacked' /\ RxChosen'
      BY <1>1, <1>3 DEF SockInv, SockTypeOK, UsedIsOpen, BufferedUnacked, RxChosen
    <2> QED BY <2>1, <2>2, <2>3, FromParts
  <1>4. CASE ~UNCHANGED <<sk, inuse>>
    <2> DEFINE Accepted(s, j) ==
                 /\ inuse' = inuse \cup {s}
                 /\ sk' = [sk EXCEPT ![s] = j]
                 /\ LET fg == 1 - sk[s].gen
                        k == [alloc_sock(sk[s]) EXCEPT !.gen = fg, !.in = "none", !.out = "ok",
                                                 !.addr = IF fg = 0 THEN "H0" ELSE "H1"]
                    IN j = [k EXCEPT !.fd = TRUE] \/ j = [k EXCEPT !.st = "FREE", !.fd = FALSE]
    <2>0. PICK s \in Socks \ inuse : \E j : Accepted(s, j)
      BY <1>4
    <2>1. PICK j : Accepted(s, j)
      BY <2>0
    <2> DEFINE a == alloc_sock(sk[s])
               fg == 1 - sk[s].gen
               addr == IF fg = 0 THEN "H0" ELSE "H1"
               k == [a EXCEPT !.gen = fg, !.in = "none", !.out = "ok", !.addr = addr]
    <2>2. a \in Sock /\ a.st = "CONNECTING" /\ a.buf = 0
      BY <1>0, AllocSock
    <2>3. fg \in {0, 1}
      <3>1. sk[s].gen \in {0, 1}
        BY <1>0 DEF Sock
      <3> QED BY ONLY <3>1
    <2>4. addr \in Addrs
      BY DEF Addrs
    <2>7. j = [k EXCEPT !.fd = TRUE] \/ j = [k EXCEPT !.st = "FREE", !.fd = FALSE]
      BY <2>1
    <2> HIDE DEF a, addr, fg
    <2>5. k \in Sock /\ k.buf = 0
      BY <2>2, <2>3, <2>4 DEF Sock
    <2> HIDE DEF k
    <2>6. j \in Sock /\ j.buf = 0 /\ (j.st # "FREE" => j.fd)
      <3>1. CASE j = [k EXCEPT !.fd = TRUE]
        BY <2>5, <3>1 DEF Sock
      <3>2. CASE j = [k EXCEPT !.st = "FREE", !.fd = FALSE]
        BY <2>5, <3>2 DEF Sock, States
      <3> QED BY <2>7, <3>1, <3>2
    <2> HIDE DEF handle_connect_fd
    <2>8. sk' \in [Socks -> Sock] /\ UsedIsOpen' /\ BufferedUnacked' /\ TxChosen' /\ RxChosen'
      BY <2>1, <2>6, <1>1, <1>2, Allocate
    <2>9. Places'
      BY <1>0, <1>1, <2>1 DEF Places
    <2> QED BY <2>8, <2>9, FromParts
  <1> QED BY <1>3, <1>4

\* buffer_drain of a sock that select found writable.
LEMMA DrainStep ==
  ASSUME SockInv, NEW s \in Socks, buffer_drain(s), abort = "no"
  PROVE  SockInv'
  <1>0. Places /\ sk \in [Socks -> Sock] /\ \A x \in Socks : sk[x] \in Sock /\ sk[x].buf <= sk[x].unack
    BY HasPlaces
  <1>1. /\ tpc = "drain" /\ s \in tw /\ tw' = tw \ {s} /\ tpc' = tpc
        /\ UNCHANGED <<inuse, packets, tq, rpc, rq, rp, rr, todo>>
    BY DEF buffer_drain, rxlocal
  <1>2. sk[s].st = "CONNECTED" => sock_is_buffering(sk[s])
    BY <1>1 DEF SockInv, TxChosen, Buffering
  <1> DEFINE k == sk[s]
  <1>3. \/ UNCHANGED <<sk, abort>>
        \/ sk' = [sk EXCEPT ![s] = Drained(k)] /\ abort' = abort
        \/ sk' = [sk EXCEPT ![s] = Told(shutdown_local_sock(k, "RX"))] /\ abort' \in {abort, "local"}
        \/ sk' = [sk EXCEPT ![s] = Told(close_sock(k))] /\ abort' = abort /\ k.st = "CONNECTED"
    BY <1>0, <1>2 DEF buffer_drain
  <1>4. PICK j : Kept(k, j) /\ sk' = [sk EXCEPT ![s] = j]
    <2>1. CASE UNCHANGED <<sk, abort>>
      <3>1. Kept(k, k)
        BY <1>0 DEF Kept
      <3> QED BY <1>0, <2>1, <3>1
    <2>2. CASE sk' = [sk EXCEPT ![s] = Drained(k)]
      BY <1>0, <2>2, DrainedSock
    <2>3. CASE sk' = [sk EXCEPT ![s] = Told(shutdown_local_sock(k, "RX"))]
      <3> DEFINE h == shutdown_local_sock(k, "RX")
      <3>1. h \in Sock /\ h.st = k.st /\ h.fd = k.fd /\ h.buf <= h.unack
        BY <1>0, ShutdownLocal DEF All
      <3> HIDE DEF h
      <3>2. Kept(k, Told(h))
        BY <3>1, ToldSock DEF Kept
      <3> QED BY <2>3, <3>2 DEF h
    <2>4. CASE sk' = [sk EXCEPT ![s] = Told(close_sock(k))] /\ k.st = "CONNECTED"
      <3> DEFINE h == close_sock(k)
      <3>1. h \in Sock /\ h.st = "CLOSING_TX" /\ h.fd = k.fd /\ h.buf = k.buf /\ h.unack = k.unack
        BY <1>0, CloseSock
      <3>3. sk[s].buf <= sk[s].unack
        BY <1>0
      <3> HIDE DEF h
      <3>2. Kept(k, Told(h))
        BY <3>1, <3>3, <2>4, ToldSock DEF Kept
      <3> QED BY <2>4, <3>2 DEF h
    <2> QED BY <1>3, <2>1, <2>2, <2>3, <2>4
  <1>5. sk' \in [Socks -> Sock] /\ UsedIsOpen' /\ BufferedUnacked' /\ TxChosen' /\ RxChosen'
    <2>1. rpc' = "socks" => todo' \subseteq rq'
      BY <1>1 DEF SockInv, RxChosen
    <2>2. /\ UNCHANGED <<inuse, tq, rp>> /\ rq' \subseteq rq /\ tw' \subseteq tw /\ s \notin tw'
          /\ tpc' = tpc /\ tpc' = "drain" /\ rpc' = rpc
      BY <1>1
    <2> HIDE DEF k
    <2> QED BY ONLY SockInv, s \in Socks, <1>4, <2>1, <2>2, Update DEF k
  <1>6. Places'
    BY <1>0, <1>1, <1>3 DEF Places
  <1> QED BY <1>5, <1>6, FromParts

\* A sock that is reset or closed, acknowledged or not, keeps its descriptor.
LEMMA ClosedKept ==
  ASSUME NEW k \in Sock, k.buf <= k.unack, k.st \in {"CONNECTED", "CONNECTING"}
  PROVE  Kept(k, close_sock(k)) /\ Kept(k, Told(close_sock(k)))
  <1> DEFINE h == close_sock(k)
  <1>1. h \in Sock /\ h.st = "CLOSING_TX" /\ h.fd = k.fd /\ h.buf = k.buf /\ h.unack = k.unack
    BY CloseSock
  <1> HIDE DEF h
  <1>2. Kept(k, h) /\ Kept(k, Told(h))
    BY <1>1, ToldSock DEF Kept
  <1> QED BY <1>2 DEF h

\* Kept is transitive.
LEMMA KeptTransitive ==
  ASSUME NEW k, NEW h, NEW j, Kept(k, h), Kept(h, j)
  PROVE  Kept(k, j)
  BY DEF Kept

\* handle_write keeps the sock.
LEMMA WriteKept ==
  ASSUME NEW s \in Socks, NEW k \in Sock, NEW n \in Nat \ {0}, k.buf <= k.unack,
         k.st = "CONNECTED", handle_write(s, k, n)
  PROVE  \E j : Kept(k, j) /\ sk' = [sk EXCEPT ![s] = j]
  <1>1. ASSUME RstSock(s, k)
        PROVE  \E j : Kept(k, j) /\ sk' = [sk EXCEPT ![s] = j]
    BY <1>1, ClosedKept DEF RstSock
  <1>2. CASE sock_is_buffering(k)
    <2>1. CASE k.buf + n > WriteBuf
      BY <1>1, <1>2, <2>1 DEF handle_write
    <2>2. CASE ~(k.buf + n > WriteBuf)
      <3> DEFINE b == k.buf + n
                 un == k.unack + n
                 j == [k EXCEPT !.buf = b, !.unack = un]
      <3>1. b \in Nat /\ un \in Nat /\ b <= un
        BY DEF Sock
      <3>2. sk' = [sk EXCEPT ![s] = j]
        BY <1>2, <2>2 DEF handle_write
      <3> HIDE DEF b, un
      <3>3. Kept(k, j)
        BY ONLY <3>1, k \in Sock DEF Kept, Sock
      <3> QED BY <3>2, <3>3
    <2> QED BY <2>1, <2>2
  <1>3. CASE ~sock_is_buffering(k)
    <2>1. \/ sk' = [sk EXCEPT ![s] = set_credit_update_required([k EXCEPT !.told = FALSE])]
          \/ \E rest \in 1 .. n : sk' = [sk EXCEPT ![s] = [k EXCEPT !.buf = rest, !.unack = @ + n]]
          \/ sk' = [sk EXCEPT ![s] = Told(shutdown_local_sock(k, "RX"))]
          \/ RstSock(s, k)
      <3>1. \/ sk' = [sk EXCEPT ![s] = set_credit_update_required([k EXCEPT !.told = FALSE])]
            \/ \E rest \in IF k.out = "ok" THEN 1 .. n - 1 ELSE {n} :
                 sk' = [sk EXCEPT ![s] = [k EXCEPT !.buf = rest, !.unack = @ + n]]
            \/ sk' = [sk EXCEPT ![s] = Told(shutdown_local_sock(k, "RX"))]
            \/ RstSock(s, k)
        BY <1>3, Zenon DEF handle_write
      <3>2. (IF k.out = "ok" THEN 1 .. n - 1 ELSE {n}) \subseteq 1 .. n
        OBVIOUS
      <3> QED BY ONLY <3>1, <3>2, Zenon
    <2>2. CASE sk' = [sk EXCEPT ![s] = set_credit_update_required([k EXCEPT !.told = FALSE])]
      <3> DEFINE h == [k EXCEPT !.told = FALSE]
      <3>1. h \in Sock /\ h.st = k.st /\ h.fd = k.fd /\ h.buf = k.buf /\ h.unack = k.unack
        BY DEF Sock
      <3> HIDE DEF h
      <3>2. Kept(k, set_credit_update_required(h))
        BY <3>1, CreditSock DEF Kept
      <3> QED BY <2>2, <3>2 DEF h
    <2>3. CASE \E rest \in 1 .. n : sk' = [sk EXCEPT ![s] = [k EXCEPT !.buf = rest, !.unack = @ + n]]
      <3> PICK rest \in 1 .. n : sk' = [sk EXCEPT ![s] = [k EXCEPT !.buf = rest, !.unack = @ + n]]
        BY <2>3
      <3> DEFINE un == k.unack + n
                 j == [k EXCEPT !.buf = rest, !.unack = un]
      <3>1. rest \in Nat /\ un \in Nat /\ rest <= un
        BY DEF Sock
      <3>2. sk' = [sk EXCEPT ![s] = j]
        OBVIOUS
      <3> HIDE DEF un
      <3>3. Kept(k, j)
        BY ONLY <3>1, k \in Sock DEF Kept, Sock
      <3> QED BY <3>2, <3>3
    <2>4. CASE sk' = [sk EXCEPT ![s] = Told(shutdown_local_sock(k, "RX"))]
      <3> DEFINE h == shutdown_local_sock(k, "RX")
      <3>1. h \in Sock /\ h.st = k.st /\ h.fd = k.fd /\ h.buf <= h.unack
        BY ShutdownLocal DEF All
      <3> HIDE DEF h
      <3>2. Kept(k, Told(h))
        BY <3>1, ToldSock DEF Kept
      <3> QED BY <2>4, <3>2 DEF h
    <2> QED BY <1>1, <2>1, <2>2, <2>3, <2>4
  <1> QED BY <1>2, <1>3

\* A packet of the guest for a sock that is connected keeps it.
LEMMA ProcKept ==
  ASSUME NEW s \in Socks, NEW k \in Sock, NEW p \in Ops, k.buf <= k.unack,
         k.st \in {"CONNECTED", "CONNECTING"}, ProcSock(s, k, p)
  PROVE  \E j : Kept(k, j) /\ sk' = [sk EXCEPT ![s] = j]
  <1>1. ASSUME RstSock(s, k)
        PROVE  \E j : Kept(k, j) /\ sk' = [sk EXCEPT ![s] = j]
    BY <1>1, ClosedKept DEF RstSock
  <1>2. CASE p.op = "RST"
    BY <1>2, ClosedKept DEF ProcSock
  <1>3. CASE p.op = "RESPONSE" /\ k.st # "CONNECTED"
    <2> DEFINE j == [k EXCEPT !.st = "CONNECTED"]
    <2>1. sk' = [sk EXCEPT ![s] = j]
      BY <1>3 DEF ProcSock
    <2>2. Kept(k, j)
      BY DEF Kept, Sock, States
    <2> QED BY <2>1, <2>2
  <1>4. CASE p.op = "SHUTDOWN" /\ k.st = "CONNECTED"
    <2> DEFINE k2 == shutdown_peer_local_fd(k, p.arg)
    <2>1. k2 \in Sock /\ k2.st = k.st /\ k2.fd = k.fd /\ k2.buf = k.buf /\ k2.unack = k.unack
      BY <1>4, ShutdownPeer, SockConstants DEF All
    <2>2. sk' = [sk EXCEPT ![s] = k2] \/ RstSock(s, k2)
      BY <1>4 DEF ProcSock
    <2> HIDE DEF k2
    <2>3. Kept(k, k2)
      BY <2>1 DEF Kept
    <2>4. CASE RstSock(s, k2)
      <3>1. Kept(k2, Told(close_sock(k2)))
        BY <1>4, <2>1, ClosedKept
      <3>2. Kept(k, Told(close_sock(k2)))
        BY <2>3, <3>1, KeptTransitive
      <3> QED BY <2>4, <3>2 DEF RstSock
    <2> QED BY <2>2, <2>3, <2>4
  <1>5. CASE p.op = "RW" /\ k.st = "CONNECTED"
    <2>1. handle_write(s, k, p.arg) \/ RstSock(s, k)
      BY <1>5 DEF ProcSock
    <2>2. p.arg \in Nat \ {0}
      BY <1>5, SockConstants
    <2> QED BY <1>1, <1>5, <2>1, <2>2, WriteKept
  <1>6. CASE p.op \in {"CREDIT_UPDATE", "CREDIT_REQUEST"} /\ k.st = "CONNECTED"
    <2>1. sk' = [sk EXCEPT ![s] = k] \/ sk' = [sk EXCEPT ![s] = set_credit_update_required(k)]
      BY <1>6 DEF ProcSock
    <2>2. Kept(k, k) /\ Kept(k, set_credit_update_required(k))
      BY CreditSock DEF Kept
    <2> QED BY <2>1, <2>2
  <1>7. CASE /\ p.op \notin {"RST"}
             /\ ~(p.op = "RESPONSE" /\ k.st # "CONNECTED")
             /\ ~(p.op \in {"SHUTDOWN", "RW", "CREDIT_UPDATE", "CREDIT_REQUEST"} /\ k.st = "CONNECTED")
    <2>1. RstSock(s, k)
      BY <1>7 DEF ProcSock
    <2> QED BY <1>1, <2>1
  <1> QED BY <1>2, <1>3, <1>4, <1>5, <1>6, <1>7

\* pci_vtsock_proc_tx: a packet of the guest.
LEMMA PacketStep ==
  ASSUME SockInv, pci_vtsock_proc_tx
  PROVE  SockInv'
  <1>0. Places /\ sk \in [Socks -> Sock] /\ \A x \in Socks : sk[x] \in Sock /\ sk[x].buf <= sk[x].unack
    BY HasPlaces
  <1> DEFINE p == Head(packets)
  <1>1. /\ tpc = "proc" /\ UNCHANGED <<tq, tw, rpc, rq, rp, rr, todo, abort>>
        /\ packets # <<>> /\ packets' = Tail(packets)
    BY DEF pci_vtsock_proc_tx, txlocal, rxlocal
  <1>2. p \in Ops /\ packets' \in Seq(Ops)
    BY <1>0, <1>1 DEF Places
  <1>3. rpc' = "socks" => todo' \subseteq rq'
    BY <1>1 DEF SockInv, RxChosen
  <1>4. CASE /\ p.op # "BAD" /\ lookup_sock(p.addr) # {}
    <2>0. PICK s \in lookup_sock(p.addr) :
            \E f \in 0 .. sk[s].flight : ProcSock(s, [sk[s] EXCEPT !.flight = f], p)
      BY <1>4 DEF pci_vtsock_proc_tx
    <2>1. PICK f \in 0 .. sk[s].flight : ProcSock(s, [sk[s] EXCEPT !.flight = f], p)
      BY <2>0
    <2>2. inuse' = inuse /\ tpc' = tpc
      BY <1>4 DEF pci_vtsock_proc_tx
    <2>3. s \in Socks /\ sk[s].st \in {"CONNECTED", "CONNECTING"}
      BY <1>0 DEF lookup_sock, Places
    <2> DEFINE k == [sk[s] EXCEPT !.flight = f]
    <2>4. Kept(sk[s], k) /\ k.st = sk[s].st
      <3>1. f \in Nat
        BY <1>0, <2>1, <2>3 DEF Sock
      <3>2. sk[s] \in Sock /\ sk[s].buf <= sk[s].unack
        BY <1>0, <2>3
      <3> QED BY ONLY <3>1, <3>2 DEF Kept, Sock
    <2>5. ProcSock(s, k, p)
      BY <2>1
    <2> HIDE DEF k
    <2>6. PICK j : Kept(k, j) /\ sk' = [sk EXCEPT ![s] = j]
      <3>1. k \in Sock /\ k.buf <= k.unack /\ k.st \in {"CONNECTED", "CONNECTING"}
        BY <2>3, <2>4 DEF Kept
      <3> QED BY <1>2, <2>3, <2>5, <3>1, ProcKept
    <2>7. Kept(sk[s], j)
      BY <2>4, <2>6, KeptTransitive
    <2>8. sk' \in [Socks -> Sock] /\ UsedIsOpen' /\ BufferedUnacked' /\ TxChosen' /\ RxChosen'
      <3>1. UNCHANGED <<inuse, tq, rp>> /\ rq' \subseteq rq /\ tw' \subseteq tw /\ tpc' = "proc" /\ rpc' = rpc
        BY <1>1, <2>2
      <3> QED BY ONLY SockInv, <1>3, <2>3, <2>6, <2>7, <3>1, Update
    <2>9. Places'
      BY <1>0, <1>1, <1>2, <2>2 DEF Places
    <2> QED BY <2>8, <2>9, FromParts
  <1>5. CASE ~(p.op # "BAD" /\ lookup_sock(p.addr) # {}) /\ UNCHANGED <<sk, inuse, tpc>>
    <2>1. Places'
      BY <1>0, <1>1, <1>2, <1>5 DEF Places
    <2>2. sk' \in [Socks -> Sock] /\ UsedIsOpen' /\ BufferedUnacked'
      BY <1>5 DEF SockInv, SockTypeOK, UsedIsOpen, BufferedUnacked
    <2>3. TxChosen' /\ RxChosen'
      BY <1>1, <1>3, <1>5 DEF SockInv, TxChosen, RxChosen
    <2> QED BY <2>1, <2>2, <2>3, FromParts
  <1>6. CASE /\ ~(p.op # "BAD" /\ lookup_sock(p.addr) # {}) /\ ~UNCHANGED <<sk, inuse, tpc>>
    <2>1. connect_sock(p) /\ ~(RstNoSock(p) /\ UNCHANGED <<inuse, tpc>>)
      BY <1>6 DEF pci_vtsock_proc_tx, RstNoSock
    <2> DEFINE Connected(s, j) ==
                 /\ inuse' = inuse \cup {s} /\ sk' = [sk EXCEPT ![s] = j]
                 /\ tpc' \in {tpc, "respond"}
                 /\ LET k == [alloc_sock(sk[s]) EXCEPT !.addr = p.addr, !.in = "none", !.out = "ok"]
                    IN \/ j = [k EXCEPT !.st = "CONNECTED", !.fd = TRUE]
                       \/ j = [k EXCEPT !.st = "FREE", !.fd = FALSE]
    <2>0. PICK s \in Socks \ inuse : \E j : Connected(s, j)
      BY <2>1 DEF connect_sock
    <2>2. PICK j : Connected(s, j)
      BY <2>0
    <2> DEFINE a == alloc_sock(sk[s])
               k == [a EXCEPT !.addr = p.addr, !.in = "none", !.out = "ok"]
    <2>3. a \in Sock /\ a.st = "CONNECTING" /\ a.buf = 0
      BY <1>0, AllocSock
    <2>4. p.addr \in Addrs
      BY <1>2, SockConstants DEF Addrs
    <2>5. j = [k EXCEPT !.st = "CONNECTED", !.fd = TRUE] \/ j = [k EXCEPT !.st = "FREE", !.fd = FALSE]
      BY <2>2
    <2> HIDE DEF a
    <2>6. k \in Sock /\ k.buf = 0
      BY <2>3, <2>4 DEF Sock
    <2> HIDE DEF k
    <2>7. j \in Sock /\ j.buf = 0 /\ (j.st # "FREE" => j.fd)
      <3>1. CASE j = [k EXCEPT !.st = "CONNECTED", !.fd = TRUE]
        BY ONLY <2>6, <3>1 DEF Sock, States
      <3>2. CASE j = [k EXCEPT !.st = "FREE", !.fd = FALSE]
        BY ONLY <2>6, <3>2 DEF Sock, States
      <3> QED BY <2>5, <3>1, <3>2
    <2>8. sk' \in [Socks -> Sock] /\ UsedIsOpen' /\ BufferedUnacked' /\ TxChosen' /\ RxChosen'
      <3>1. tpc' \in {"proc", "respond"}
        BY <1>1, <2>2
      <3> QED BY ONLY SockInv, <1>1, <2>2, <2>7, <3>1, Allocate
    <2>9. Places'
      BY <1>0, <1>1, <1>2, <2>2 DEF Places
    <2> QED BY <2>8, <2>9, FromParts
  <1> QED BY <1>4, <1>5, <1>6

-----------------------------------------------------------------------------
\* The response to a connection of the guest.
LEMMA RespondStep ==
  ASSUME SockInv, TxRespond
  PROVE  SockInv'
  <1>0. Places /\ sk \in [Socks -> Sock] /\ \A x \in Socks : sk[x] \in Sock /\ sk[x].buf <= sk[x].unack
    BY HasPlaces
  <1>1. PICK s \in inuse : sk' = [sk EXCEPT ![s] = Told(sk[s])]
    BY DEF TxRespond
  <1>2. /\ tpc' = "proc" /\ UNCHANGED <<inuse, packets, tq, tw, rpc, rq, rp, rr, todo, abort>>
    BY DEF TxRespond, txlocal, rxlocal
  <1>3. s \in Socks /\ Kept(sk[s], Told(sk[s]))
    BY <1>0, ToldSock DEF Places, Kept
  <1>4. sk' \in [Socks -> Sock] /\ UsedIsOpen' /\ BufferedUnacked' /\ TxChosen' /\ RxChosen'
    <2>1. rpc' = "socks" => todo' \subseteq rq'
      BY <1>2 DEF SockInv, RxChosen
    <2>2. UNCHANGED <<inuse, tq, rp>> /\ rq' \subseteq rq /\ tw' \subseteq tw /\ tpc' = "proc" /\ rpc' = rpc
      BY <1>2
    <2> QED BY ONLY SockInv, <1>1, <1>3, <2>1, <2>2, Update
  <1>5. Places'
    BY <1>0, <1>2 DEF Places
  <1> QED BY <1>4, <1>5, FromParts

\* What the host does, and time, concerns neither the state of a sock nor
\* its buffer.
LEMMA HostStep ==
  ASSUME SockInv, NEW s \in Socks, HostIn(s) \/ HostOut(s) \/ Deadline(s)
  PROVE  SockInv'
  <1>0. Places /\ sk \in [Socks -> Sock] /\ sk[s] \in Sock /\ sk[s].buf <= sk[s].unack
    BY HasPlaces
  <1>1. UNCHANGED <<inuse, packets, tpc, tq, tw, rpc, rq, rp, rr, todo, abort>>
    BY DEF HostIn, HostOut, Deadline, Others, txlocal, rxlocal
  <1>2. PICK j : /\ sk' = [sk EXCEPT ![s] = j] /\ Kept(sk[s], j)
                 /\ Drainable(sk[s]) => Drainable(j)
    <2>1. CASE HostIn(s)
      <3> PICK i \in {"data", "eof", "readerr"} : sk' = [sk EXCEPT ![s].in = i]
        BY <2>1 DEF HostIn
      <3> DEFINE j == [sk[s] EXCEPT !.in = i]
      <3>1. sk' = [sk EXCEPT ![s] = j]
        BY <1>0
      <3>2. Kept(sk[s], j) /\ j.st = sk[s].st /\ j.buf = sk[s].buf /\ j.lsh = sk[s].lsh
        BY ONLY <1>0, i \in {"data", "eof", "readerr"} DEF Kept, Sock
      <3> HIDE DEF j
      <3> QED BY <3>1, <3>2 DEF Drainable
    <2>2. CASE HostOut(s)
      <3> PICK o \in {"ok", "full", "epipe", "err"} : sk' = [sk EXCEPT ![s].out = o]
        BY <2>2 DEF HostOut
      <3> DEFINE j == [sk[s] EXCEPT !.out = o]
      <3>1. sk' = [sk EXCEPT ![s] = j]
        BY <1>0
      <3>2. Kept(sk[s], j) /\ j.st = sk[s].st /\ j.buf = sk[s].buf /\ j.lsh = sk[s].lsh
        BY ONLY <1>0, o \in {"ok", "full", "epipe", "err"} DEF Kept, Sock
      <3> HIDE DEF j
      <3> QED BY <3>1, <3>2 DEF Drainable
    <2>3. CASE Deadline(s)
      <3> DEFINE j == [sk[s] EXCEPT !.late = TRUE]
      <3>1. sk' = [sk EXCEPT ![s] = j]
        BY <1>0, <2>3 DEF Deadline
      <3>2. Kept(sk[s], j) /\ j.st = sk[s].st /\ j.buf = sk[s].buf /\ j.lsh = sk[s].lsh
        BY ONLY <1>0 DEF Kept, Sock
      <3> HIDE DEF j
      <3> QED BY <3>1, <3>2 DEF Drainable
    <2> QED BY <2>1, <2>2, <2>3
  <1>3. sk' \in [Socks -> Sock] /\ UsedIsOpen' /\ BufferedUnacked' /\ TxChosen' /\ RxChosen'
    <2>1. rpc' = "socks" => todo' \subseteq rq'
      BY <1>1 DEF SockInv, RxChosen
    <2>2. UNCHANGED <<inuse, tq, rp>> /\ rq' \subseteq rq /\ tw' \subseteq tw /\ tpc' = tpc /\ rpc' = rpc
      BY <1>1
    <2> QED BY ONLY SockInv, s \in Socks, <1>2, <2>1, <2>2, Update
  <1>4. Places'
    BY <1>0, <1>1 DEF Places
  <1> QED BY <1>3, <1>4, FromParts

\* The rx thread at a sock it has chosen: the other thread may have begun to
\* close it, and it is left alone then.
LEMMA VisitStep ==
  ASSUME SockInv, NEW s \in Socks, RxSock(s), abort = "no"
  PROVE  SockInv'
  <1>0. /\ Places /\ sk \in [Socks -> Sock] /\ sk[s] \in Sock /\ sk[s].buf <= sk[s].unack
        /\ todo \subseteq rq
    BY HasPlaces DEF RxSock, SockInv, RxChosen
  <1> DEFINE k == sk[s]
             r == pci_vtsock_proc_rx(k)
             c == [k EXCEPT !.credit = FALSE]
  <1>1. /\ rpc = "socks" /\ s \in todo /\ todo' = todo \ {s} /\ rpc' \in {rpc, "scan"}
        /\ UNCHANGED <<inuse, packets, tpc, tq, tw, rp>>
        /\ rq' \in {rq, rq \ {s}} /\ rr' \subseteq rr /\ abort' \in {abort, "local"}
    BY DEF RxSock, txlocal
  <1>2. \/ sk' = sk
        \/ k.st = "CONNECTED" /\ sk' = [sk EXCEPT ![s] = [r EXCEPT !.credit = FALSE]]
        \/ k.st = "CONNECTED" /\ sk' = [sk EXCEPT ![s] = c]
        \/ k.st = "CONNECTED" /\ sk' = [sk EXCEPT ![s] = Told(c)]
    BY <1>0 DEF RxSock, MayVisit
  <1>3. ASSUME NEW h, Kept(k, h), Drainable(k) => Drainable(h)
        PROVE  LET j == [h EXCEPT !.credit = FALSE]
               IN Kept(k, j) /\ (Drainable(k) => Drainable(j))
    <2>1. LET j == [h EXCEPT !.credit = FALSE]
          IN j \in Sock /\ j.st = h.st /\ j.fd = h.fd /\ j.buf = h.buf /\ j.unack = h.unack /\ j.lsh = h.lsh
      BY <1>3 DEF Kept, Sock
    <2> QED BY <2>1, <1>3 DEF Kept, Drainable
  <1>4. ASSUME NEW h, Kept(k, h), Drainable(k) => Drainable(h)
        PROVE  Kept(k, Told(h)) /\ (Drainable(k) => Drainable(Told(h)))
    BY <1>4, ToldSock DEF Kept, Drainable
  <1>5. Kept(k, k)
    BY <1>0 DEF Kept
  <1>6. k.st = "CONNECTED" => Kept(k, r) /\ (Drainable(k) => Drainable(r))
    <2> SUFFICES ASSUME k.st = "CONNECTED"
                 PROVE  Kept(k, r) /\ (Drainable(k) => Drainable(r))
      OBVIOUS
    <2>1. k.in \in {"none", "data", "eof", "readerr"}
      BY <1>0 DEF Sock
    <2>2. CASE k.in = "none"
      <3>1. r = k
        BY <2>2 DEF pci_vtsock_proc_rx
      <3> QED BY <1>5, <3>1
    <2>3. CASE k.in = "readerr"
      <3>1. r = Told(close_sock(k))
        BY <2>3 DEF pci_vtsock_proc_rx
      <3>2. close_sock(k) \in Sock /\ close_sock(k).st = "CLOSING_TX"
        BY <1>0, CloseSock
      <3>3. Told(close_sock(k)).st = "CLOSING_TX"
        BY <3>2, ToldSock
      <3>4. Kept(k, Told(close_sock(k)))
        BY <1>0, ClosedKept
      <3> QED BY <3>1, <3>3, <3>4 DEF Drainable
    <2>4. CASE k.in = "eof"
      <3> DEFINE h == shutdown_local_sock(k, "TX")
      <3>1. /\ h \in Sock /\ h.st = k.st /\ h.fd = k.fd /\ h.buf <= h.unack
            /\ "RX" \notin k.lsh => h.buf = k.buf /\ "RX" \notin h.lsh
        BY <1>0, ShutdownLocal DEF All
      <3>2. r = Told(h)
        BY <2>4 DEF pci_vtsock_proc_rx
      <3> HIDE DEF h
      <3>3. Kept(k, h) /\ (Drainable(k) => Drainable(h))
        BY <3>1 DEF Kept, Drainable
      <3> QED BY <1>4, <3>2, <3>3
    <2>5. CASE k.in = "data"
      <3> DEFINE f == k.flight + 1
                 h == [k EXCEPT !.in = "none", !.flight = f]
      <3>1. f \in Nat
        BY <1>0 DEF Sock
      <3>2. r = Told(h)
        BY <2>5 DEF pci_vtsock_proc_rx
      <3> HIDE DEF f
      <3>3. Kept(k, h) /\ h.st = k.st /\ h.buf = k.buf /\ h.lsh = k.lsh
        BY ONLY <1>0, <3>1 DEF Kept, Sock
      <3> HIDE DEF h
      <3>4. Drainable(k) => Drainable(h)
        BY <3>3 DEF Drainable
      <3> QED BY <1>4, <3>2, <3>3, <3>4
    <2> QED BY <2>1, <2>2, <2>3, <2>4, <2>5
  <1>7. PICK j : sk' = [sk EXCEPT ![s] = j] /\ Kept(k, j) /\ (Drainable(k) => Drainable(j))
    <2> HIDE DEF r
    <2>1. Kept(k, c) /\ (Drainable(k) => Drainable(c))
      BY <1>3, <1>5
    <2>2. Kept(k, Told(c)) /\ (Drainable(k) => Drainable(Told(c)))
      <3> HIDE DEF c
      <3> QED BY <1>4, <2>1
    <2>3. CASE sk' = sk
      <3>1. sk' = [sk EXCEPT ![s] = k]
        BY <1>0, <2>3
      <3> QED BY <1>5, <3>1
    <2> HIDE DEF c
    <2>4. CASE k.st = "CONNECTED" /\ sk' = [sk EXCEPT ![s] = [r EXCEPT !.credit = FALSE]]
      BY <1>3, <1>6, <2>4
    <2> QED BY <1>2, <2>1, <2>2, <2>3, <2>4
  <1> HIDE DEF k, r, c
  <1>8. sk' \in [Socks -> Sock] /\ UsedIsOpen' /\ BufferedUnacked' /\ TxChosen' /\ RxChosen'
    <2>1. todo' \subseteq rq'
      BY <1>0, <1>1
    <2>2. UNCHANGED <<inuse, tq, rp>> /\ rq' \subseteq rq /\ tw' \subseteq tw /\ tpc' = tpc
      BY <1>1
    <2>3. rpc' = rpc \/ rpc' = "scan"
      BY <1>1
    <2> QED BY ONLY SockInv, s \in Socks, <1>7, <2>1, <2>2, <2>3, Update DEF k
  <1>9. Places'
    BY <1>0, <1>1 DEF Places
  <1> QED BY <1>8, <1>9, FromParts

-----------------------------------------------------------------------------
\* All socks are free at the start.
LEMMA SockInitInv == SockInit => SockInv
  <1> SUFFICES ASSUME SockInit PROVE SockInv
    OBVIOUS
  <1>1. FreeSock \in Sock /\ FreeSock.st = "FREE" /\ FreeSock.buf = 0 /\ FreeSock.unack = 0
    BY DEF FreeSock, Sock, States, Addrs, All
  <1>2. \A s \in Socks : sk[s] = FreeSock
    BY DEF SockInit
  <1>3. SockTypeOK
    <2>1. sk \in [Socks -> Sock]
      BY <1>1 DEF SockInit
    <2> QED BY <2>1 DEF SockInit, SockTypeOK
  <1>4. UsedIsOpen /\ BufferedUnacked
    BY <1>1, <1>2 DEF UsedIsOpen, BufferedUnacked
  <1>5. TxChosen /\ RxChosen /\ abort # "drain"
    BY DEF SockInit, TxChosen, RxChosen
  <1> QED BY <1>3, <1>4, <1>5 DEF SockInv

\* Every step of the device, the guest and the host keeps the invariant.
LEMMA SockStep == SockInv /\ [SockNext]_sockvars => SockInv'
  <1> SUFFICES ASSUME SockInv, [SockNext]_sockvars PROVE SockInv'
    OBVIOUS
  <1>0. Places
    BY HasPlaces
  <1>s. rpc' = "socks" /\ rpc' = rpc /\ todo' = todo /\ rq' = rq => todo' \subseteq rq'
    BY DEF SockInv, RxChosen
  <1>1. CASE SockNext /\ SockTxThread
    <2>0. abort = "no"
      BY <1>1 DEF SockNext
    <2>1. CASE TxSelect
      <3>1. /\ Places' /\ UNCHANGED <<sk, inuse, tq, rpc, rq, rp, todo>>
            /\ tpc = "select" /\ tpc' \in {"accept", "drain"} /\ tw' \subseteq tq
        BY <1>0, <2>1 DEF TxSelect, Places, rxlocal
      <3>2. rpc' = "scan" \/ (rpc # "scan" /\ rq' \subseteq rq /\ rp' \subseteq rp)
        BY <3>1
      <3> QED BY <1>s, <3>1, <3>2, SameSocks
    <2>2. CASE TxDrained \/ SockTxEnd
      <3>1. /\ Places' /\ UNCHANGED <<sk, inuse, tq, rpc, rq, rp, todo>>
            /\ tpc' \notin {"select", "accept", "drain"}
        BY <1>0, <2>2 DEF TxDrained, SockTxEnd, Places, txlocal, rxlocal
      <3>2. rpc' = "scan" \/ (rpc # "scan" /\ rq' \subseteq rq /\ rp' \subseteq rp)
        BY <3>1
      <3> QED BY <1>s, <3>1, <3>2, SameSocks
    <2> QED BY <1>1, <2>0, <2>1, <2>2, TxScanStep, ConnectStep, RespondStep, PacketStep, DrainStep
         DEF SockTxThread
  <1>2. CASE SockNext /\ SockRxThread
    <2>0. abort = "no"
      BY <1>2 DEF SockNext
    <2>1. CASE RxSelect \/ rx_do_replies \/ RxRound
      <3>1. /\ UNCHANGED <<sk, inuse, tpc, tq, tw, rq, rp, packets, abort>>
            /\ rr' \subseteq Socks /\ rpc # "scan" /\ rpc' \in {"scan", "replies", "socks"}
            /\ todo' \in {todo, rq} /\ (rpc' = "socks" => todo' = rq)
        <4>1. CASE RxSelect
          BY <1>0, <4>1 DEF RxSelect, Places, txlocal
        <4>2. CASE rx_do_replies
          BY <1>0, <4>2 DEF rx_do_replies, Places, txlocal
        <4>3. CASE RxRound
          BY <1>0, <4>3 DEF RxRound, Places, txlocal
        <4> QED BY <2>1, <4>1, <4>2, <4>3
      <3>2. Places' /\ (rpc' = "socks" => todo' \subseteq rq')
        BY <1>0, <3>1 DEF Places
      <3> QED BY <3>1, <3>2, SameSocks
    <2> QED BY <1>2, <2>0, <2>1, RxScanStep, VisitStep DEF SockRxThread
  <1>3. CASE SockNext /\ Environment
    <2>1. CASE GuestSend \/ GuestDesc \/ HostDial
      <3>1. /\ UNCHANGED <<sk, inuse, tpc, tq, tw, rpc, rq, rp, rr, todo, abort>>
        BY <2>1 DEF GuestSend, GuestDesc, HostDial, Others, txlocal, rxlocal
      <3>2. packets' \in Seq(Ops)
        BY <1>0, <2>1 DEF GuestSend, GuestDesc, HostDial, Places
      <3>3. Places'
        BY <1>0, <3>1, <3>2 DEF Places
      <3>4. rpc' = "scan" \/ (rpc # "scan" /\ rq' \subseteq rq /\ rp' \subseteq rp)
        BY <3>1
      <3> QED BY <1>s, <3>1, <3>3, <3>4, SameSocks
    <2> QED BY <1>3, <2>1, HostStep DEF Environment
  <1>4. CASE UNCHANGED sockvars
    BY <1>4 DEF sockvars, SockInv, SockTypeOK, UsedIsOpen, BufferedUnacked, TxChosen, RxChosen,
                Buffering, sock_is_buffering
  <1> QED BY <1>1, <1>2, <1>3, <1>4 DEF SockNext

\* The inductive invariant of the socket device: a sock in use has its
\* descriptor, a buffer holds no more than is not acknowledged, and what
\* each thread has chosen is still open.
THEOREM SockInvariant == SockSpec => []SockInv
  BY SockInitInv, SockStep, PTL DEF SockSpec

\* Neither thread of pci_virtio_sock.c selects on, drains or reads a
\* descriptor that the other has closed, and buffer_drain's assertions hold,
\* for any socks, addresses, packets and buffer sizes.
THEOREM SelectedFdsOpen == SockSpec => [](SockTypeOK /\ SelectedFdOpen)
  <1>1. SockInv => SockTypeOK /\ SelectedFdOpen
    BY DEF SockInv, SockTypeOK, UsedIsOpen, TxChosen, RxChosen, SelectedFdOpen
  <1> QED BY <1>1, SockInvariant, PTL

-----------------------------------------------------------------------------
(* The console.                                                            *)

\* x modulo n, for x below 2n.
Mod(x, n) == IF x < n THEN x ELSE x - n

\* One turn around a ring.
LEMMA Wrap ==
  ASSUME NEW n \in Nat, n > 0, NEW x \in 0 .. 2 * n - 1
  PROVE  x % n = Mod(x, n)
  <1>1. CASE x < n
    BY <1>1 DEF Mod
  <1>2. CASE ~(x < n)
    <2> DEFINE y == x - n
    <2>1. y \in 0 .. n - 1 /\ x = y + n
      BY <1>2
    <2>2. (y + n) % n = y
      <3> HIDE DEF y
      <3> QED BY <2>1
    <2> QED BY <1>2, <2>1, <2>2 DEF Mod
  <1> QED BY <1>1, <1>2

\* The fields of the FIFO.
FifoRecord == [buf : [0 .. FIFOSZ - 1 -> Nat], r : Nat, w : Nat, num : Nat, size : {1, FIFOSZ}]

\* The definition of Fifo, field by field.
LEMMA FifoIs ==
  ASSUME NEW f
  PROVE  f \in Fifo <=> f \in FifoRecord /\ f.r < f.size /\ f.num <= f.size /\ f.w = (f.r + f.num) % f.size
  BY DEF Fifo, FifoRecord

\* The write index is num places after the read index.
LEMMA FifoFields ==
  ASSUME NEW f \in Fifo
  PROVE  /\ f.size \in Nat /\ f.size > 0 /\ f.size <= FIFOSZ
         /\ f.r \in Nat /\ f.num \in Nat /\ f.w \in Nat
         /\ f.r < f.size /\ f.num <= f.size
         /\ f.w = Mod(f.r + f.num, f.size)
         /\ f.w < f.size
         /\ f.buf \in [0 .. FIFOSZ - 1 -> Nat]
  <1>1. f \in FifoRecord /\ f.r < f.size /\ f.num <= f.size /\ f.w = (f.r + f.num) % f.size
    BY FifoIs
  <1>2. f.size \in {1, FIFOSZ} /\ f.r \in Nat /\ f.num \in Nat /\ f.w \in Nat /\ f.buf \in [0 .. FIFOSZ - 1 -> Nat]
    BY <1>1 DEF FifoRecord
  <1>3. f.size \in Nat /\ f.size > 0 /\ f.size <= FIFOSZ
    BY <1>2, UartConstants
  <1>4. f.r + f.num \in 0 .. 2 * f.size - 1
    BY <1>1, <1>2, <1>3
  <1>5. f.w = Mod(f.r + f.num, f.size)
    BY <1>1, <1>3, <1>4, Wrap, Zenon
  <1> QED BY <1>1, <1>2, <1>3, <1>5 DEF Mod

\* The index of the i-th character.
PlaceOf(f, i) == Mod(f.r + i - 1, f.size)

\* Where the characters of the FIFO are.
LEMMA ContentsIs ==
  ASSUME NEW f \in Fifo
  PROVE  /\ Contents(f) = [i \in 1 .. f.num |-> f.buf[PlaceOf(f, i)]]
         /\ \A i \in 1 .. f.num : PlaceOf(f, i) \in 0 .. f.size - 1
         /\ Contents(f) \in [1 .. f.num -> Nat]
  <1>1. ASSUME NEW i \in 1 .. f.num
        PROVE  (f.r + i - 1) % f.size = PlaceOf(f, i) /\ PlaceOf(f, i) \in 0 .. f.size - 1
    <2>1. f.r + i - 1 \in 0 .. 2 * f.size - 1
      BY FifoFields
    <2>2. f.size \in Nat /\ f.size > 0
      BY FifoFields
    <2>3. (f.r + i - 1) % f.size = PlaceOf(f, i)
      BY <2>1, <2>2, Wrap, Zenon DEF PlaceOf
    <2> QED BY <2>1, <2>2, <2>3 DEF PlaceOf, Mod
  <1>2. Contents(f) = [i \in 1 .. f.num |-> f.buf[PlaceOf(f, i)]]
    BY <1>1 DEF Contents
  <1>3. \A i \in 1 .. f.num : f.buf[PlaceOf(f, i)] \in Nat
    BY SMTT(60), <1>1, FifoFields, UartConstants
  <1> QED BY <1>1, <1>2, <1>3

\* One character of the contents.
LEMMA ContentAt ==
  ASSUME NEW f \in Fifo, NEW i \in 1 .. f.num
  PROVE  Contents(f)[i] = f.buf[PlaceOf(f, i)]
  BY ContentsIs

\* rxfifo_putchar adds a character at the end and changes no other.
LEMMA PutSound ==
  ASSUME NEW f \in Fifo, rxfifo_available(f), NEW ch \in Nat
  PROVE  LET fg == PutChar(f, ch)
         IN /\ fg \in Fifo /\ fg.num = f.num + 1 /\ fg.size = f.size
            /\ \A i \in 1 .. f.num : Contents(fg)[i] = Contents(f)[i]
            /\ Contents(fg)[f.num + 1] = ch
  <1> DEFINE b == [f.buf EXCEPT ![f.w] = ch]
             x == (f.w + 1) % f.size
             n == f.num + 1
             fg == [f EXCEPT !.buf = b, !.w = x, !.num = n]
  <1>1. fg = PutChar(f, ch)
    BY DEF PutChar
  <1>2. f.num < f.size
    BY DEF rxfifo_available
  <1>3. x = Mod(f.w + 1, f.size) /\ x \in Nat
    <2>1. f.w + 1 \in 0 .. 2 * f.size - 1 /\ f.size \in Nat /\ f.size > 0
      BY FifoFields
    <2>2. x = Mod(f.w + 1, f.size)
      BY <2>1, Wrap, Zenon
    <2> HIDE DEF x
    <2> QED BY <2>2, FifoFields DEF Mod
  <1>4. n \in Nat /\ n <= f.size
    BY <1>2, FifoFields
  <1>5. b \in [0 .. FIFOSZ - 1 -> Nat] /\ f.w \in 0 .. FIFOSZ - 1 /\ b[f.w] = ch
        /\ \A k \in 0 .. FIFOSZ - 1 : k # f.w => b[k] = f.buf[k]
    BY FifoFields, UartConstants
  <1>6. x = (f.r + n) % f.size
    <2>1. f.r + n \in 0 .. 2 * f.size - 1 /\ f.size \in Nat /\ f.size > 0
      BY <1>2, FifoFields
    <2>2. (f.r + n) % f.size = Mod(f.r + n, f.size)
      BY <2>1, Wrap, Zenon
    <2> DEFINE y == (f.r + n) % f.size
    <2>3. f.w = Mod(f.r + f.num, f.size)
      BY FifoFields
    <2>4. y = Mod(f.r + n, f.size)
      BY <2>2
    <2> HIDE DEF x, y
    <2>5. x = y
      BY <1>2, <1>3, <2>3, <2>4, FifoFields DEF Mod
    <2> QED BY <2>5 DEF y
  <1> HIDE DEF b, x
  <1>7. fg \in FifoRecord /\ fg.r = f.r /\ fg.num = n /\ fg.size = f.size /\ fg.w = x /\ fg.buf = b
    <2> HIDE DEF n
    <2>1. f \in FifoRecord
      BY FifoIs
    <2> QED BY <1>3, <1>4, <1>5, <2>1 DEF FifoRecord
  <1> HIDE DEF fg
  <1>8. fg \in Fifo
    BY <1>4, <1>6, <1>7, FifoIs, FifoFields
  <1>9. ASSUME NEW i \in 1 .. f.num PROVE Contents(fg)[i] = Contents(f)[i]
    <2>1. i \in 1 .. fg.num /\ PlaceOf(fg, i) = PlaceOf(f, i)
      BY <1>7, FifoFields DEF PlaceOf, Mod
    <2>2. PlaceOf(f, i) # f.w /\ PlaceOf(f, i) \in 0 .. FIFOSZ - 1
      BY <1>2, FifoFields, UartConstants DEF PlaceOf, Mod
    <2>3. Contents(fg)[i] = b[PlaceOf(f, i)] /\ Contents(f)[i] = f.buf[PlaceOf(f, i)]
      BY <1>7, <1>8, <2>1, ContentAt
    <2> QED BY <1>5, <2>2, <2>3
  <1>10. Contents(fg)[f.num + 1] = ch
    <2>1. f.num + 1 \in 1 .. fg.num
      BY <1>7, FifoFields
    <2>2. PlaceOf(fg, f.num + 1) = f.w
      BY <1>7, FifoFields DEF PlaceOf, Mod
    <2>3. Contents(fg)[f.num + 1] = fg.buf[PlaceOf(fg, f.num + 1)]
      BY <1>8, <2>1, ContentAt
    <2> QED BY <1>5, <1>7, <2>2, <2>3
  <1> QED BY <1>1, <1>7, <1>8, <1>9, <1>10

\* rxfifo_getchar takes the oldest one, and the FIFO is not full afterwards.
LEMMA GetSound ==
  ASSUME NEW f \in Fifo, f.num > 0
  PROVE  LET fg == GetChar(f)
         IN /\ fg \in Fifo /\ fg.num = f.num - 1 /\ rxfifo_available(fg)
            /\ \A i \in 1 .. f.num - 1 : Contents(fg)[i] = Contents(f)[i + 1]
            /\ Contents(f)[1] = f.buf[f.r]
  <1> DEFINE x == (f.r + 1) % f.size
             n == f.num - 1
             fg == [f EXCEPT !.r = x, !.num = n]
  <1>1. fg = GetChar(f)
    BY DEF GetChar
  <1>3. x = Mod(f.r + 1, f.size) /\ x \in Nat /\ x < f.size
    <2>1. f.r + 1 \in 0 .. 2 * f.size - 1 /\ f.size \in Nat /\ f.size > 0
      BY FifoFields
    <2>2. x = Mod(f.r + 1, f.size)
      BY <2>1, Wrap, Zenon
    <2> HIDE DEF x
    <2> QED BY <2>2, FifoFields DEF Mod
  <1>4. n \in Nat /\ n < f.size /\ n <= f.size
    BY FifoFields
  <1>6. f.w = (x + n) % f.size
    <2>1. x + n \in 0 .. 2 * f.size - 1 /\ f.size \in Nat /\ f.size > 0
      <3> HIDE DEF x
      <3> QED BY <1>3, <1>4, FifoFields
    <2>2. (x + n) % f.size = Mod(x + n, f.size)
      BY <2>1, Wrap, Zenon
    <2> DEFINE y == (x + n) % f.size
    <2>3. f.w = Mod(f.r + f.num, f.size)
      BY FifoFields
    <2>4. y = Mod(x + n, f.size)
      BY <2>2
    <2> HIDE DEF x, y
    <2>5. f.w = y
      <3>1. CASE f.r + 1 < f.size
        <4>1. x + n = f.r + f.num
          BY <1>3, <3>1, FifoFields DEF Mod
        <4> QED BY <2>3, <2>4, <4>1
      <3>2. CASE ~(f.r + 1 < f.size)
        <4>1. x = 0 /\ f.r + 1 = f.size
          BY <1>3, <3>2, FifoFields DEF Mod
        <4>2. x + n = n /\ y = n
          BY <1>4, <2>4, <4>1, FifoFields DEF Mod
        <4> QED BY <2>3, <4>1, <4>2, FifoFields DEF Mod
      <3> QED BY <3>1, <3>2
    <2> QED BY <2>5 DEF y
  <1> HIDE DEF x
  <1>7. fg \in FifoRecord /\ fg.r = x /\ fg.num = n /\ fg.size = f.size /\ fg.w = f.w /\ fg.buf = f.buf
    <2> HIDE DEF n
    <2>1. f \in FifoRecord
      BY FifoIs
    <2> QED BY <1>3, <1>4, <2>1 DEF FifoRecord
  <1> HIDE DEF fg
  <1>8. fg \in Fifo
    BY <1>3, <1>4, <1>6, <1>7, FifoIs, FifoFields
  <1>9. ASSUME NEW i \in 1 .. f.num - 1 PROVE Contents(fg)[i] = Contents(f)[i + 1]
    <2>1. i \in 1 .. fg.num /\ i + 1 \in 1 .. f.num
      BY <1>7, FifoFields
    <2>2. PlaceOf(fg, i) = PlaceOf(f, i + 1)
      <3>1. PlaceOf(fg, i) = Mod(x + i - 1, f.size)
        BY <1>7 DEF PlaceOf
      <3>2. PlaceOf(f, i + 1) = Mod(f.r + i, f.size)
        BY FifoFields DEF PlaceOf
      <3> HIDE DEF fg
      <3>3. i \in Nat /\ i < f.size
        BY FifoFields
      <3> DEFINE s == f.size
                 k == f.r
      <3>4. /\ s \in Nat /\ k \in Nat /\ k < s /\ i \in Nat /\ i < s /\ i >= 1
            /\ x = Mod(k + 1, s)
        BY <1>3, <3>3, FifoFields
      <3> HIDE DEF s, k
      <3>5. Mod(x + i - 1, s) = Mod(k + i, s)
        BY ONLY <3>4 DEF Mod
      <3> QED BY <3>1, <3>2, <3>5 DEF s, k
    <2>3. Contents(fg)[i] = fg.buf[PlaceOf(fg, i)] /\ Contents(f)[i + 1] = f.buf[PlaceOf(f, i + 1)]
      BY <1>8, <2>1, ContentAt
    <2> QED BY <1>7, <2>2, <2>3
  <1>10. Contents(f)[1] = f.buf[f.r]
    <2>1. 1 \in 1 .. f.num /\ PlaceOf(f, 1) = f.r
      BY FifoFields DEF PlaceOf, Mod
    <2>2. Contents(f)[1] = f.buf[PlaceOf(f, 1)]
      BY <2>1, ContentAt
    <2> QED BY <2>1, <2>2
  <1> QED BY <1>1, <1>4, <1>7, <1>8, <1>9, <1>10 DEF rxfifo_available

\* The FIFO after a reset is empty and has room.
LEMMA EmptySound ==
  ASSUME NEW n \in {1, FIFOSZ}
  PROVE  EmptyFifo(n) \in Fifo /\ EmptyFifo(n).num = 0 /\ rxfifo_available(EmptyFifo(n))
  <1> DEFINE fg == EmptyFifo(n)
             b == [i \in 0 .. FIFOSZ - 1 |-> 0]
  <1>1. fg = [buf |-> b, r |-> 0, w |-> 0, num |-> 0, size |-> n]
    BY DEF EmptyFifo
  <1>2. b \in [0 .. FIFOSZ - 1 -> Nat]
    OBVIOUS
  <1> HIDE DEF b, fg
  <1>3. fg \in FifoRecord /\ fg.r = 0 /\ fg.w = 0 /\ fg.num = 0 /\ fg.size = n
    BY <1>1, <1>2 DEF FifoRecord
  <1>4. n \in Nat /\ n > 0
    BY UartConstants
  <1>5. 0 % n = 0
    BY <1>4
  <1> QED BY <1>3, <1>4, <1>5, FifoIs DEF rxfifo_available, fg

\* InputInOrder of a FIFO f, a last character l and a terminal t with n
\* characters typed, with the bounds.
Ordered(f, l, t, n) ==
  /\ f \in Fifo /\ l \in Nat /\ t \in Seq(Nat) /\ n \in Nat /\ l <= n
  /\ \A i \in 1 .. Len(t) : l < t[i] /\ t[i] <= n
  /\ \A i \in 1 .. f.num : Contents(f)[i] <= n /\ (Contents(f)[i] # 0 => l < Contents(f)[i])
  /\ \A i, j \in 1 .. f.num :
       i < j /\ Contents(f)[i] # 0 /\ Contents(f)[j] # 0 => Contents(f)[i] < Contents(f)[j]
  /\ \A i \in 1 .. f.num, j \in 1 .. Len(t) : Contents(f)[i] < t[j]
  /\ \A i, j \in 1 .. Len(t) : i < j => t[i] < t[j]

\* What is compared are numbers.
LEMMA OrderedNats ==
  ASSUME NEW f, NEW l, NEW t, NEW n, Ordered(f, l, t, n)
  PROVE  /\ f \in Fifo /\ f.num \in Nat /\ Len(t) \in Nat /\ l \in Nat /\ n \in Nat
         /\ \A i \in 1 .. f.num : Contents(f)[i] \in Nat
         /\ \A i \in 1 .. Len(t) : t[i] \in Nat
  <1>1. f \in Fifo /\ t \in Seq(Nat) /\ l \in Nat /\ n \in Nat
    BY DEF Ordered
  <1>2. f.num \in Nat /\ Contents(f) \in [1 .. f.num -> Nat]
    BY <1>1, FifoFields, ContentsIs
  <1>3. Len(t) \in Nat /\ \A i \in 1 .. Len(t) : t[i] \in Nat
    BY <1>1
  <1> QED BY <1>1, <1>2, <1>3

\* A character that is newer than what the FIFO holds, or 0, keeps the
\* order.
LEMMA PutOrdered ==
  ASSUME NEW f, NEW l, NEW t, NEW n, Ordered(f, l, t, n), rxfifo_available(f),
         NEW ch \in Nat, ch <= n, ch # 0 => l < ch, \A j \in 1 .. Len(t) : ch < t[j],
         ch # 0 => \A i \in 1 .. f.num : Contents(f)[i] < ch
  PROVE  Ordered(PutChar(f, ch), l, t, n)
  <1> DEFINE fg == PutChar(f, ch)
  <1>1. f \in Fifo
    BY DEF Ordered
  <1>2. /\ fg \in Fifo /\ fg.num = f.num + 1
        /\ \A i \in 1 .. f.num : Contents(fg)[i] = Contents(f)[i]
        /\ Contents(fg)[f.num + 1] = ch
    BY <1>1, PutSound
  <1> HIDE DEF fg
  <1>3. \A i \in 1 .. fg.num : i \in 1 .. f.num \/ i = f.num + 1
    BY <1>2, OrderedNats
  <1>4. \A i \in 1 .. fg.num : Contents(fg)[i] <= n /\ (Contents(fg)[i] # 0 => l < Contents(fg)[i])
    BY <1>2, <1>3 DEF Ordered
  <1>5. ASSUME NEW i \in 1 .. fg.num, NEW j \in 1 .. fg.num, i < j, Contents(fg)[i] # 0, Contents(fg)[j] # 0
        PROVE  Contents(fg)[i] < Contents(fg)[j]
    <2>1. i \in 1 .. f.num
      BY <1>2, <1>5, OrderedNats
    <2>2. CASE j \in 1 .. f.num
      BY <1>2, <1>5, <2>1, <2>2 DEF Ordered
    <2>3. CASE j = f.num + 1
      BY <1>2, <1>5, <2>1, <2>3
    <2> QED BY <1>3, <2>2, <2>3
  <1>6. \A i \in 1 .. fg.num, j \in 1 .. Len(t) : Contents(fg)[i] < t[j]
    BY <1>2, <1>3 DEF Ordered
  <1>7. Ordered(fg, l, t, n)
    BY <1>2, <1>4, <1>5, <1>6 DEF Ordered
  <1> QED BY <1>7 DEF fg

\* So does throwing away what is typed,
LEMMA DropOrdered ==
  ASSUME NEW f, NEW l, NEW t, NEW n, Ordered(f, l, t, n), t # <<>>
  PROVE  Ordered(f, l, Tail(t), n)
  <1>1. t \in Seq(Nat)
    BY DEF Ordered
  <1>2. /\ Tail(t) \in Seq(Nat) /\ Len(Tail(t)) = Len(t) - 1 /\ Len(t) \in Nat /\ Len(t) > 0
        /\ \A i \in 1 .. Len(Tail(t)) : Tail(t)[i] = t[i + 1] /\ i + 1 \in 1 .. Len(t)
    BY <1>1
  <1> DEFINE s == Tail(t)
  <1> HIDE DEF s
  <1>3. s \in Seq(Nat) /\ \A i \in 1 .. Len(s) : s[i] = t[i + 1] /\ i + 1 \in 1 .. Len(t)
    BY <1>2 DEF s
  <1>4. \A i \in 1 .. Len(s) : l < s[i] /\ s[i] <= n
    BY <1>3 DEF Ordered
  <1>5. \A i \in 1 .. f.num, j \in 1 .. Len(s) : Contents(f)[i] < s[j]
    BY <1>3 DEF Ordered
  <1>6. ASSUME NEW i \in 1 .. Len(s), NEW j \in 1 .. Len(s), i < j PROVE s[i] < s[j]
    <2>1. i + 1 < j + 1 /\ i + 1 \in 1 .. Len(t) /\ j + 1 \in 1 .. Len(t)
      BY <1>3, <1>6
    <2>2. t[i + 1] < t[j + 1]
      BY <2>1 DEF Ordered
    <2> QED BY <1>3, <2>2
  <1>7. Ordered(f, l, s, n)
    BY <1>3, <1>4, <1>5, <1>6 DEF Ordered
  <1> QED BY <1>7 DEF s

\* reading it into the FIFO,
LEMMA MoveOrdered ==
  ASSUME NEW f, NEW l, NEW t, NEW n, Ordered(f, l, t, n), rxfifo_available(f), t # <<>>
  PROVE  Ordered(PutChar(f, Head(t)), l, Tail(t), n)
  <1>1. t \in Seq(Nat)
    BY DEF Ordered
  <1>2. Head(t) = t[1] /\ 1 \in 1 .. Len(t) /\ Len(t) \in Nat /\ Len(Tail(t)) = Len(t) - 1
        /\ \A j \in 1 .. Len(Tail(t)) : Tail(t)[j] = t[j + 1] /\ j + 1 \in 1 .. Len(t) /\ 1 < j + 1
    BY <1>1
  <1>3. Ordered(f, l, Tail(t), n)
    BY DropOrdered
  <1>4. t[1] \in Nat /\ t[1] <= n /\ l < t[1] /\ \A i \in 1 .. f.num : Contents(f)[i] < t[1]
    BY <1>2, OrderedNats DEF Ordered
  <1>5. ASSUME NEW j \in 1 .. Len(Tail(t)) PROVE t[1] < Tail(t)[j]
    <2>1. j + 1 \in 1 .. Len(t) /\ 1 < j + 1 /\ Tail(t)[j] = t[j + 1]
      BY <1>2
    <2>2. t[1] < t[j + 1]
      BY <1>2, <2>1 DEF Ordered
    <2> QED BY <2>1, <2>2
  <1> QED BY <1>2, <1>3, <1>4, <1>5, PutOrdered

\* a character in loopback mode,
LEMMA LoopOrdered ==
  ASSUME NEW f, NEW l, NEW t, NEW n, Ordered(f, l, t, n), rxfifo_available(f)
  PROVE  Ordered(PutChar(f, 0), l, t, n)
  <1>1. 0 <= n /\ \A j \in 1 .. Len(t) : 0 < t[j]
    BY OrderedNats DEF Ordered
  <1> QED BY <1>1, PutOrdered

\* handing the oldest one to the guest,
LEMMA GetOrdered ==
  ASSUME NEW f, NEW l, NEW t, NEW n, Ordered(f, l, t, n), f.num > 0
  PROVE  Ordered(GetChar(f), IF f.buf[f.r] = 0 THEN l ELSE f.buf[f.r], t, n)
  <1> DEFINE fg == GetChar(f)
             c == f.buf[f.r]
             k == IF c = 0 THEN l ELSE c
  <1>1. f \in Fifo /\ 1 \in 1 .. f.num
    <2>1. f.num \in Nat /\ f \in Fifo
      BY OrderedNats
    <2> QED BY <2>1
  <1>2. /\ fg \in Fifo /\ fg.num = f.num - 1
        /\ \A i \in 1 .. f.num - 1 : Contents(fg)[i] = Contents(f)[i + 1]
        /\ Contents(f)[1] = c
    BY <1>1, GetSound
  <1>3. c \in Nat /\ c <= n /\ (c # 0 => l < c) /\ \A j \in 1 .. Len(t) : c < t[j]
    BY <1>1, <1>2, OrderedNats DEF Ordered
  <1>4. \A i \in 1 .. f.num - 1 : i + 1 \in 1 .. f.num /\ 1 < i + 1
    BY OrderedNats
  <1> HIDE DEF fg, c
  <1>5. k \in Nat /\ k <= n /\ \A j \in 1 .. Len(t) : k < t[j]
    BY <1>3 DEF Ordered
  <1>6. ASSUME NEW i \in 1 .. fg.num, Contents(fg)[i] # 0 PROVE k < Contents(fg)[i]
    <2>1. i \in 1 .. f.num - 1 /\ i + 1 \in 1 .. f.num /\ 1 < i + 1 /\ Contents(fg)[i] = Contents(f)[i + 1]
      BY <1>2, <1>4
    <2>2. CASE c = 0
      BY <1>6, <2>1, <2>2 DEF Ordered
    <2>3. CASE c # 0
      BY <1>1, <1>2, <1>6, <2>1, <2>3 DEF Ordered
    <2> QED BY <2>2, <2>3
  <1>7. ASSUME NEW i \in 1 .. fg.num
        PROVE  Contents(fg)[i] <= n /\ \A j \in 1 .. Len(t) : Contents(fg)[i] < t[j]
    <2>1. i + 1 \in 1 .. f.num /\ Contents(fg)[i] = Contents(f)[i + 1]
      BY <1>2, <1>4
    <2> QED BY <2>1 DEF Ordered
  <1>8. ASSUME NEW i \in 1 .. fg.num, NEW j \in 1 .. fg.num, i < j, Contents(fg)[i] # 0, Contents(fg)[j] # 0
        PROVE  Contents(fg)[i] < Contents(fg)[j]
    <2>1. /\ i + 1 \in 1 .. f.num /\ Contents(fg)[i] = Contents(f)[i + 1]
          /\ j + 1 \in 1 .. f.num /\ Contents(fg)[j] = Contents(f)[j + 1]
          /\ i + 1 < j + 1
      BY <1>2, <1>4, <1>8
    <2> QED BY <1>8, <2>1 DEF Ordered
  <1> HIDE DEF k
  <1>9. Ordered(fg, k, t, n)
    BY <1>2, <1>5, <1>6, <1>7, <1>8 DEF Ordered
  <1> QED BY <1>9 DEF fg, k, c

\* typing one more
LEMMA TypeOrdered ==
  ASSUME NEW f, NEW l, NEW t, NEW n, Ordered(f, l, t, n)
  PROVE  Ordered(f, l, Append(t, n + 1), n + 1)
  <1>1. t \in Seq(Nat) /\ n \in Nat /\ n + 1 \in Nat
    BY DEF Ordered
  <1> DEFINE s == Append(t, n + 1)
  <1>2. /\ s \in Seq(Nat) /\ Len(s) = Len(t) + 1 /\ Len(t) \in Nat /\ s[Len(t) + 1] = n + 1
        /\ \A i \in 1 .. Len(t) : s[i] = t[i]
    BY <1>1
  <1> HIDE DEF s
  <1>3. \A i \in 1 .. Len(s) : i \in 1 .. Len(t) \/ i = Len(t) + 1
    BY <1>2
  <1>0. /\ l \in Nat /\ l <= n /\ f.num \in Nat
        /\ \A i \in 1 .. f.num : Contents(f)[i] \in Nat /\ Contents(f)[i] <= n
        /\ \A i \in 1 .. Len(t) : t[i] \in Nat /\ l < t[i] /\ t[i] <= n
    <2>1. l \in Nat /\ f.num \in Nat /\ \A i \in 1 .. f.num : Contents(f)[i] \in Nat
      BY OrderedNats
    <2>2. \A i \in 1 .. Len(t) : t[i] \in Nat
      BY OrderedNats
    <2> QED BY <2>1, <2>2 DEF Ordered
  <1>4. ASSUME NEW i \in 1 .. Len(s) PROVE l < s[i] /\ s[i] <= n + 1
    <2>1. CASE i \in 1 .. Len(t)
      <3>1. s[i] = t[i] /\ t[i] \in Nat /\ l < t[i] /\ t[i] <= n
        BY <1>0, <1>2, <2>1
      <3> QED BY <1>1, <3>1
    <2>2. CASE i = Len(t) + 1
      BY <1>0, <1>1, <1>2, <2>2
    <2> QED BY <1>3, <2>1, <2>2
  <1>5. ASSUME NEW i \in 1 .. f.num, NEW j \in 1 .. Len(s) PROVE Contents(f)[i] < s[j]
    <2>1. CASE j \in 1 .. Len(t)
      BY <1>2, <2>1 DEF Ordered
    <2>2. CASE j = Len(t) + 1
      BY <1>0, <1>1, <1>2, <2>2
    <2> QED BY <1>3, <2>1, <2>2
  <1>6. ASSUME NEW i \in 1 .. Len(s), NEW j \in 1 .. Len(s), i < j PROVE s[i] < s[j]
    <2>1. i \in 1 .. Len(t)
      BY <1>2, <1>6
    <2>2. CASE j \in 1 .. Len(t)
      BY <1>2, <1>6, <2>1, <2>2 DEF Ordered
    <2>3. CASE j = Len(t) + 1
      BY <1>1, <1>2, <2>1, <2>3, OrderedNats DEF Ordered
    <2> QED BY <1>3, <2>2, <2>3
  <1>7. \A i \in 1 .. f.num : Contents(f)[i] <= n + 1
    BY <1>0, <1>1
  <1>8. l <= n + 1
    BY OrderedNats DEF Ordered
  <1>9. Ordered(f, l, s, n + 1)
    BY <1>1, <1>2, <1>4, <1>5, <1>6, <1>7, <1>8 DEF Ordered
  <1> QED BY <1>9 DEF s

\* and a reset.
LEMMA EmptyOrdered ==
  ASSUME NEW m \in {1, FIFOSZ}, NEW l \in Nat, NEW n \in Nat, l <= n
  PROVE  Ordered(EmptyFifo(m), l, <<>>, n)
  <1> DEFINE fg == EmptyFifo(m)
  <1>1. fg \in Fifo /\ fg.num = 0
    BY EmptySound
  <1>2. <<>> \in Seq(Nat) /\ Len(<<>>) = 0 /\ 1 .. 0 = {}
    OBVIOUS
  <1> HIDE DEF fg
  <1>3. Ordered(fg, l, <<>>, n)
    BY <1>1, <1>2 DEF Ordered
  <1> QED BY <1>3 DEF fg

\* The event library with the terminal.
TtyQ ==
  [ev : [{"tty"} -> {"ADD", "ENABLE", "DISABLE"}], kq : [{"tty"} -> {"none", "on", "off"}],
   change : {<<>>, <<"tty">>}, pipe : BOOLEAN, pc : {"start", "build", "wait", "handle"},
   hot : SUBSET {"tty", "pipe"}]

\* EventFollows, of a queue q and whether the FIFO has room.
TtySound(q, room) ==
  /\ q \in TtyQ
  /\ q.ev["tty"] = "DISABLE" <=> ~room
  /\ q.change = <<>> /\ (q.kq["tty"] # "none" \/ q.ev["tty"] = "ADD")
       => (q.kq["tty"] = "off" <=> q.ev["tty"] = "DISABLE") /\ q.kq["tty"] # "none"
  /\ q.pc = "wait" /\ q.change # <<>> => q.pipe

\* A list of changes with one event, which is empty or holds it.
LEMMA OneChange ==
  ASSUME NEW e
  PROVE  ~Contains(<<>>, e) /\ Contains(<<e>>, e) /\ <<e>> \o <<>> = <<e>> /\ <<e>> # <<>>
  BY DEF Contains

\* What the kernel has after kevent, for one event.
LEMMA KqueueApplied ==
  ASSUME NEW q, NEW x, DOMAIN q.kq = {x}
  PROVE  KqueueApply(q) = [e \in {x} |-> KqueueApply(q)[x]]
  <1> DEFINE Apply(e) == CASE q.ev[e] \in {"ADD", "ENABLE"} -> "on"
                    [] q.ev[e] = "DISABLE" -> "off"
                    [] q.ev[e] = "DEL_PENDING" -> "none"
             Fails(i) == q.kq[q.change[i]] = "none" /\ q.ev[q.change[i]] # "ADD"
             done == {i \in DOMAIN q.change : \A j \in 1 .. i : ~Fails(j)}
             G(e) == IF \E i \in done : q.change[i] = e THEN Apply(e) ELSE q.kq[e]
  <1>1. KqueueApply(q) = [e \in DOMAIN q.kq |-> G(e)]
    BY Zenon DEF KqueueApply
  <1> HIDE DEF G
  <1> QED BY <1>1

\* mevent_build and kevent bring the kernel up to date.
LEMMA BuildTty ==
  ASSUME NEW q, NEW room \in BOOLEAN, TtySound(q, room)
  PROVE  TtySound(Build(q), room)
  <1> DEFINE k == KqueueApply(q)["tty"]
             b == Build(q)
  <1>1. /\ DOMAIN q.kq = {"tty"} /\ DOMAIN q.ev = {"tty"} /\ q.change \in {<<>>, <<"tty">>}
        /\ q.ev["tty"] \in {"ADD", "ENABLE", "DISABLE"} /\ q.kq["tty"] \in {"none", "on", "off"}
    BY DEF TtySound, TtyQ
  <1>2. k = IF q.change = <<>> \/ (q.kq["tty"] = "none" /\ q.ev["tty"] # "ADD") THEN q.kq["tty"]
            ELSE IF q.ev["tty"] = "DISABLE" THEN "off" ELSE "on"
    <2>1. CASE q.change = <<>>
      BY <1>1, <2>1 DEF KqueueApply
    <2>2. CASE q.change = <<"tty">>
      <3>1. DOMAIN q.change = {1} /\ q.change[1] = "tty" /\ q.change # <<>> /\ 1 .. 1 = {1}
        BY <2>2
      <3>2. CASE q.kq["tty"] = "none" /\ q.ev["tty"] # "ADD"
        BY <1>1, <3>1, <3>2 DEF KqueueApply
      <3>3. CASE q.kq["tty"] # "none" /\ q.ev["tty"] = "DISABLE"
        BY <1>1, <3>1, <3>3 DEF KqueueApply
      <3>4. CASE q.ev["tty"] = "ADD"
        BY <1>1, <3>1, <3>4 DEF KqueueApply
      <3>5. CASE q.kq["tty"] # "none" /\ q.ev["tty"] = "ENABLE"
        BY <1>1, <3>1, <3>5 DEF KqueueApply
      <3> QED BY <1>1, <3>1, <3>2, <3>3, <3>4, <3>5
    <2> QED BY <1>1, <2>1, <2>2
  <1>3. KqueueApply(q) = [e \in {"tty"} |-> k]
    BY <1>1, KqueueApplied
  <1>4. [e \in DOMAIN q.ev |-> IF q.ev[e] = "DEL_PENDING" /\ Contains(q.change, e) THEN "none" ELSE q.ev[e]]
          = q.ev
    <2>1. q.ev \in [{"tty"} -> {"ADD", "ENABLE", "DISABLE"}]
      BY DEF TtySound, TtyQ
    <2> QED BY <1>1, <2>1
  <1>5. b = [q EXCEPT !.kq = [e \in {"tty"} |-> k], !.change = <<>>, !.pc = "wait", !.ev = q.ev]
    BY <1>3, <1>4 DEF Build
  <1> HIDE DEF b
  <1>7. k \in {"none", "on", "off"}
    BY <1>1, <1>2
  <1> HIDE DEF k
  <1>8. /\ b \in TtyQ /\ b.kq["tty"] = k /\ b.change = <<>> /\ b.pc = "wait" /\ b.ev = q.ev
    BY <1>5, <1>7 DEF TtySound, TtyQ
  <1> QED BY <1>1, <1>2, <1>8 DEF TtySound, b

\* The end of a handler leaves the event and the changes alone; the thread
\* builds before it waits again.
LEMMA HandleTty ==
  ASSUME NEW q, NEW room \in BOOLEAN, TtySound(q, room), NEW e \in {"tty", "pipe"}
  PROVE  TtySound(Handled(q, e), room)
  <1> DEFINE b == Handled(q, e)
             c == IF q.hot = {e} THEN "build" ELSE "handle"
             d == IF e = "pipe" THEN FALSE ELSE q.pipe
             h == q.hot \ {e}
  <1>0. q \in TtyQ
    BY DEF TtySound
  <1>1. b = [q EXCEPT !.hot = h, !.pc = c, !.pipe = d]
    BY DEF Handled
  <1>2. c \in {"build", "handle"} /\ d \in BOOLEAN /\ h \in SUBSET {"tty", "pipe"}
    BY <1>0 DEF TtyQ
  <1> HIDE DEF b, c, d, h
  <1>3. /\ b \in TtyQ /\ b.pc = c /\ b.ev = q.ev /\ b.kq = q.kq /\ b.change = q.change
    BY <1>0, <1>1, <1>2 DEF TtyQ
  <1> QED BY <1>2, <1>3 DEF TtySound, b

\* So does the return of kevent.
LEMMA WakeTty ==
  ASSUME NEW q, NEW room \in BOOLEAN, TtySound(q, room), NEW ready \in SUBSET {"tty"}
  PROVE  TtySound(Wake(q, ready), room)
  <1> DEFINE b == Wake(q, ready)
             f == Fired(q, ready)
  <1>0. q \in TtyQ
    BY DEF TtySound
  <1>2. f \in SUBSET {"tty", "pipe"}
    BY DEF Fired
  <1>3. b = [q EXCEPT !.pc = "handle", !.hot = f]
    BY DEF Wake
  <1> HIDE DEF b, f
  <1>4. b \in TtyQ /\ b.pc = "handle" /\ b.ev = q.ev /\ b.kq = q.kq /\ b.change = q.change
    BY <1>0, <1>2, <1>3 DEF TtyQ
  <1> QED BY <1>4 DEF TtySound, b

\* mevent_enable and mevent_disable list the change, and wake the thread
\* unless it is the caller or the change was listed already.
LEMMA UpdateTty ==
  ASSUME NEW q, NEW room \in BOOLEAN, TtySound(q, room), NEW s \in {"ENABLE", "DISABLE"},
         NEW self \in BOOLEAN, self => q.pc = "handle"
  PROVE  TtySound(mevent_update(q, "tty", s, self), s = "ENABLE") /\ mevent_update(q, "tty", s, self).hot = q.hot
  <1> DEFINE f == [q.ev EXCEPT !["tty"] = s]
             r == [q EXCEPT !.ev = f, !.change = <<"tty">>]
             y == (q.pc # "start")
             n == [r EXCEPT !.pipe = y]
             b == mevent_update(q, "tty", s, self)
  <1>0. q \in TtyQ
    BY DEF TtySound
  <1>1. q.change \in {<<>>, <<"tty">>} /\ q.ev["tty"] \in {"ADD", "ENABLE", "DISABLE"}
    BY <1>0 DEF TtyQ
  <1>2. IF Contains(q.change, "tty") THEN q.change = <<"tty">>
        ELSE q.change = <<>> /\ <<"tty">> \o q.change = <<"tty">>
    BY <1>1, OneChange
  <1>3. [q EXCEPT !.ev["tty"] = s, !.change = IF Contains(@, "tty") THEN @ ELSE <<"tty">> \o @] = r
    BY <1>0, <1>2 DEF TtyQ
  <1>4. f \in [{"tty"} -> {"ADD", "ENABLE", "DISABLE"}] /\ f["tty"] = s
    BY <1>0 DEF TtyQ
  <1> HIDE DEF f
  <1>5. r \in TtyQ /\ r.ev = f /\ r.kq = q.kq /\ r.change = <<"tty">> /\ r.pc = q.pc /\ r.pipe = q.pipe /\ r.hot = q.hot
    BY <1>0, <1>4 DEF TtyQ
  <1>6. mevent_notify(r) = n /\ y \in BOOLEAN /\ (q.pc = "wait" => y)
    <2>1. (r.pc # "start") = y
      BY <1>5
    <2> QED BY <2>1 DEF mevent_notify
  <1> HIDE DEF y
  <1>7. b = IF q.ev["tty"] = s THEN q ELSE IF self \/ Contains(q.change, "tty") THEN r ELSE n
    BY <1>1, <1>3, <1>6 DEF mevent_update, InsertChange
  <1> HIDE DEF r
  <1>8. n \in TtyQ /\ n.ev = f /\ n.kq = q.kq /\ n.change = <<"tty">> /\ n.pc = q.pc /\ n.pipe = y /\ n.hot = q.hot
    BY <1>5, <1>6 DEF TtyQ
  <1> HIDE DEF n, b
  <1>9. CASE q.ev["tty"] = s
    BY <1>7, <1>9 DEF TtySound, b
  <1>10. CASE q.ev["tty"] # s /\ (self \/ Contains(q.change, "tty"))
    <2>1. b = r
      BY <1>7, <1>10
    <2>2. Contains(q.change, "tty") => q.change # <<>>
      BY <1>2, OneChange
    <2>3. r.pc = "wait" => r.pipe
      BY <1>5, <1>10, <2>2 DEF TtySound
    <2> QED BY <1>4, <1>5, <2>1, <2>3, OneChange DEF TtySound, b
  <1>11. CASE q.ev["tty"] # s /\ ~(self \/ Contains(q.change, "tty"))
    <2>1. b = n
      BY <1>7, <1>11
    <2> QED BY <1>4, <1>6, <1>8, <2>1, OneChange DEF TtySound, b
  <1> QED BY <1>9, <1>10, <1>11

\* The registers of the UART.
UartState == [fifo : Fifo, ier : SUBSET {"RXRDY", "TXRDY", "RLS", "MSC"},
       mcr : SUBSET {"LOOPBACK", "DTR", "RTS", "OUT1", "OUT2"},
       msr : SUBSET {"cts", "ri", "dcts", "teri"}, oe : BOOLEAN, thre : BOOLEAN,
       fcr : BOOLEAN, line : BOOLEAN, last : Nat, locked : BOOLEAN]

\* The invariant, of its state.
UartSound(s, q, t, n) ==
  s \in UartState /\ Ordered(s.fifo, s.last, t, n) /\ TtySound(q, rxfifo_available(s.fifo))

\* Ordered, in the words of the invariant.
LEMMA OrderedIs ==
  ASSUME NEW f \in Fifo, NEW l \in Nat, NEW t, NEW n
  PROVE  Ordered(f, l, t, n) <=>
           /\ t \in Seq(Nat) /\ n \in Nat /\ l <= n
           /\ \A i \in DOMAIN t : t[i] <= n
           /\ \A i \in DOMAIN Contents(f) : Contents(f)[i] <= n
           /\ \A i, j \in DOMAIN Contents(f) :
                i < j /\ Contents(f)[i] # 0 /\ Contents(f)[j] # 0 => Contents(f)[i] < Contents(f)[j]
           /\ \A i \in DOMAIN Contents(f) : Contents(f)[i] # 0 => l < Contents(f)[i]
           /\ \A i \in DOMAIN Contents(f), j \in DOMAIN t : Contents(f)[i] < t[j]
           /\ \A i, j \in DOMAIN t : i < j => t[i] < t[j]
           /\ \A j \in DOMAIN t : l < t[j]
  <1>1. DOMAIN Contents(f) = 1 .. f.num
    BY DEF Contents
  <1>2. t \in Seq(Nat) => DOMAIN t = 1 .. Len(t)
    OBVIOUS
  <1>3. CASE t \in Seq(Nat)
    <2>1. DOMAIN t = 1 .. Len(t)
      BY <1>2, <1>3
    <2> DEFINE c == Contents(f)
               D == DOMAIN t
               E == DOMAIN Contents(f)
    <2>2. D = 1 .. Len(t) /\ E = 1 .. f.num
      BY <1>1, <2>1
    <2> HIDE DEF D, E
    <2>3. Ordered(f, l, t, n) <=>
            /\ n \in Nat /\ l <= n
            /\ \A i \in D : l < t[i] /\ t[i] <= n
            /\ \A i \in E : c[i] <= n /\ (c[i] # 0 => l < c[i])
            /\ \A i, j \in E : i < j /\ c[i] # 0 /\ c[j] # 0 => c[i] < c[j]
            /\ \A i \in E, j \in D : c[i] < t[j]
            /\ \A i, j \in D : i < j => t[i] < t[j]
      BY <1>3, <2>2, Zenon DEF Ordered
    <2> HIDE DEF c
    <2>4. Ordered(f, l, t, n) <=>
           /\ n \in Nat /\ l <= n
           /\ \A i \in D : t[i] <= n
           /\ \A i \in E : c[i] <= n
           /\ \A i, j \in E : i < j /\ c[i] # 0 /\ c[j] # 0 => c[i] < c[j]
           /\ \A i \in E : c[i] # 0 => l < c[i]
           /\ \A i \in E, j \in D : c[i] < t[j]
           /\ \A i, j \in D : i < j => t[i] < t[j]
           /\ \A j \in D : l < t[j]
      BY <2>3, Zenon
    <2> QED BY <1>3, <2>4, Zenon DEF c, D, E
  <1>4. CASE t \notin Seq(Nat)
    BY <1>4 DEF Ordered
  <1> QED BY <1>3, <1>4

\* UartInv is UartSound of the state.
LEMMA UartInvIs == UartInv <=> UartSound(u, ttyq, tty, typed)
  <1>1. CASE u \in UartState
    <2>1. u.fifo \in Fifo /\ u.last \in Nat
      BY <1>1 DEF UartState
    <2>2. Ordered(u.fifo, u.last, tty, typed) <=>
           /\ tty \in Seq(Nat) /\ typed \in Nat /\ u.last <= typed
           /\ \A i \in DOMAIN tty : tty[i] <= typed
           /\ \A i \in DOMAIN Contents(u.fifo) : Contents(u.fifo)[i] <= typed
           /\ InputInOrder
      BY <2>1, OrderedIs DEF InputInOrder
    <2>3. TtySound(ttyq, rxfifo_available(u.fifo)) <=> EventFollows
      BY DEF TtySound, TtyQ, EventFollows
    <2>4. UartTypeOK <=> tty \in Seq(Nat) /\ typed \in Nat /\ u.last <= typed
           /\ (\A i \in DOMAIN tty : tty[i] <= typed)
           /\ \A i \in DOMAIN Contents(u.fifo) : Contents(u.fifo)[i] <= typed
      BY <1>1, Zenon DEF UartTypeOK, UartState
    <2> QED BY <1>1, <2>2, <2>3, <2>4, Zenon DEF UartInv, UartSound
  <1>2. CASE u \notin UartState
    BY <1>2, Zenon DEF UartInv, UartTypeOK, UartState, UartSound
  <1> QED BY <1>1, <1>2

\* The same of the next state.
LEMMA UartInvIsNext == UartInv' <=> UartSound(u', ttyq', tty', typed')
  <1>1. CASE u' \in UartState
    <2>1. u'.fifo \in Fifo /\ u'.last \in Nat
      BY <1>1 DEF UartState
    <2>2. Ordered(u'.fifo, u'.last, tty', typed') <=>
           /\ tty' \in Seq(Nat) /\ typed' \in Nat /\ u'.last <= typed'
           /\ \A i \in DOMAIN tty' : tty'[i] <= typed'
           /\ \A i \in DOMAIN Contents(u'.fifo) : Contents(u'.fifo)[i] <= typed'
           /\ InputInOrder'
      BY <2>1, OrderedIs DEF InputInOrder
    <2>3. TtySound(ttyq', rxfifo_available(u'.fifo)) <=> EventFollows'
      BY DEF TtySound, TtyQ, EventFollows
    <2>4. UartTypeOK' <=> tty' \in Seq(Nat) /\ typed' \in Nat /\ u'.last <= typed'
           /\ (\A i \in DOMAIN tty' : tty'[i] <= typed')
           /\ \A i \in DOMAIN Contents(u'.fifo) : Contents(u'.fifo)[i] <= typed'
      BY <1>1, Zenon DEF UartTypeOK, UartState
    <2> QED BY <1>1, <2>2, <2>3, <2>4, Zenon DEF UartInv, UartSound
  <1>2. CASE u' \notin UartState
    BY <1>2, Zenon DEF UartInv, UartTypeOK, UartState, UartSound
  <1> QED BY <1>1, <1>2

\* uart_toggle_intr changes only the line.
LEMMA ToggleSound ==
  ASSUME NEW s, NEW q, NEW t, NEW n, UartSound(s, q, t, n)
  PROVE  UartSound(uart_toggle_intr(s), q, t, n)
  <1> DEFINE x == uart_intr_reason(s) # "NOPEND"
             r == [s EXCEPT !.line = x]
  <1>1. r = uart_toggle_intr(s) /\ x \in BOOLEAN /\ s \in UartState
    BY DEF uart_toggle_intr, UartSound
  <1> HIDE DEF x
  <1>2. r \in UartState /\ r.fifo = s.fifo /\ r.last = s.last
    BY <1>1 DEF UartState
  <1> HIDE DEF r
  <1> QED BY <1>1, <1>2 DEF UartSound

\* rxfifo_putchar disables the event with the character that fills the FIFO.
LEMMA PutResult ==
  ASSUME NEW f \in Fifo, NEW q, TtySound(q, rxfifo_available(f)), NEW ch \in Nat,
         NEW self \in BOOLEAN, self => q.pc = "handle"
  PROVE  LET r == rxfifo_putchar(f, q, ch, self)
         IN /\ r.ok = rxfifo_available(f)
            /\ r.f = (IF rxfifo_available(f) THEN PutChar(f, ch) ELSE f)
            /\ TtySound(r.q, rxfifo_available(r.f))
  <1> DEFINE r == rxfifo_putchar(f, q, ch, self)
             fg == PutChar(f, ch)
             p == IF rxfifo_available(fg) THEN q ELSE mevent_update(q, "tty", "DISABLE", self)
  <1>1. CASE ~rxfifo_available(f)
    <2>1. r = [f |-> f, q |-> q, ok |-> FALSE]
      BY <1>1 DEF rxfifo_putchar
    <2>2. r.ok = FALSE /\ r.f = f /\ r.q = q
      BY <2>1
    <2>3. rxfifo_available(f) = FALSE
      BY <1>1 DEF rxfifo_available
    <2> HIDE DEF r
    <2>4. r.ok = rxfifo_available(f)
      BY <2>2, <2>3
    <2>5. r.f = (IF rxfifo_available(f) THEN PutChar(f, ch) ELSE f)
      BY <1>1, <2>2
    <2>6. TtySound(r.q, rxfifo_available(r.f))
      BY <2>2
    <2> QED BY <2>4, <2>5, <2>6, Zenon DEF r
  <1>2. CASE rxfifo_available(f)
    <2>1. r = [f |-> fg, ok |-> TRUE, q |-> p]
      BY <1>2 DEF rxfifo_putchar
    <2>2. TtySound(p, rxfifo_available(fg))
      <3>1. CASE rxfifo_available(fg)
        BY <1>2, <3>1 DEF TtySound
      <3>2. CASE ~rxfifo_available(fg)
        <4>1. TtySound(mevent_update(q, "tty", "DISABLE", self), "DISABLE" = "ENABLE")
          <5>1. rxfifo_available(f) \in BOOLEAN
            BY <1>2
          <5> QED BY <5>1, UpdateTty
        <4> QED BY <3>2, <4>1 DEF TtySound
      <3> QED BY <3>1, <3>2
    <2> HIDE DEF p, fg
    <2>3. r.ok = TRUE /\ r.f = fg /\ r.q = p
      BY <2>1
    <2>4. rxfifo_available(f) = TRUE
      BY <1>2 DEF rxfifo_available
    <2> HIDE DEF r
    <2>5. r.ok = rxfifo_available(f)
      BY <2>3, <2>4
    <2>6. r.f = (IF rxfifo_available(f) THEN PutChar(f, ch) ELSE f)
      BY <1>2, <2>3 DEF fg
    <2>7. TtySound(r.q, rxfifo_available(r.f))
      BY <2>2, <2>3
    <2> QED BY <2>5, <2>6, <2>7, Zenon DEF r
  <1> QED BY <1>1, <1>2

\* uart_opentty adds the event before the mevent thread starts.
LEMMA UartInitInv == UartInit => UartInv
  <1> SUFFICES ASSUME UartInit PROVE UartSound(u, ttyq, tty, typed)
    BY UartInvIs
  <1>1. EmptyFifo(1) \in Fifo /\ rxfifo_available(EmptyFifo(1))
    BY EmptySound
  <1>2. u \in UartState /\ u.fifo = EmptyFifo(1) /\ u.last = 0
    <2> DEFINE fg == EmptyFifo(1)
    <2>1. u = [fifo |-> fg, ier |-> {}, mcr |-> {}, msr |-> {}, oe |-> FALSE,
               thre |-> FALSE, fcr |-> FALSE, line |-> FALSE, last |-> 0, locked |-> FALSE]
      BY DEF UartInit
    <2>2. fg \in Fifo
      BY <1>1
    <2> HIDE DEF fg
    <2>3. u \in UartState /\ u.fifo = fg /\ u.last = 0
      BY <2>1, <2>2 DEF UartState
    <2> QED BY <2>3 DEF fg
  <1>3. Ordered(u.fifo, u.last, tty, typed)
    BY <1>2, EmptyOrdered DEF UartInit
  <1>4. TtySound(ttyq, TRUE)
    <2> DEFINE M == [ev : [{"tty"} -> {"none", "ADD", "ENABLE", "DISABLE"}], kq : [{"tty"} -> {"none"}],
                     change : {<<>>, <<"tty">>}, pipe : BOOLEAN, pc : {"start"}, hot : SUBSET {"tty", "pipe"}]
               m == MeventInit({"tty"})
               add == [m.ev EXCEPT !["tty"] = "ADD"]
               p == [m EXCEPT !.ev = add, !.change = <<"tty">>]
               no == FALSE
               r == [p EXCEPT !.pipe = no]
    <2>1. m \in M /\ m.ev["tty"] = "none" /\ m.change = <<>>
      BY DEF MeventInit
    <2>2. add \in [{"tty"} -> {"none", "ADD", "ENABLE", "DISABLE"}] /\ add["tty"] = "ADD"
      BY <2>1
    <2> HIDE DEF m
    <2>3. [m EXCEPT !.ev["tty"] = "ADD", !.change = IF Contains(@, "tty") THEN @ ELSE <<"tty">> \o @] = p
      BY <2>1, OneChange
    <2> HIDE DEF add
    <2>4. p \in M /\ p.ev = add /\ p.change = <<"tty">> /\ p.pc = "start"
      BY <2>1, <2>2
    <2> HIDE DEF p
    <2>5. (p.pc # "start") = no /\ no \in BOOLEAN
      BY <2>4
    <2> HIDE DEF no
    <2>6. mevent_notify(p) = r
      BY <2>5 DEF mevent_notify
    <2>7. mevent_add(m, "tty") = r
      <3>1. ~Contains(m.change, "tty")
        BY <2>1, OneChange
      <3> HIDE DEF r
      <3>2. InsertChange(m, "tty", "ADD", FALSE) = r
        BY <2>3, <2>6, <3>1, Zenon DEF InsertChange
      <3> QED BY <2>1, <3>2 DEF mevent_add
    <2>8. r \in M /\ r.ev = add /\ r.change = <<"tty">>
      BY <2>4, <2>5
    <2>9. ttyq = r
      <3>1. ttyq = mevent_add(m, "tty")
        BY DEF UartInit, m
      <3> HIDE DEF r
      <3> QED BY <2>7, <3>1
    <2> HIDE DEF r
    <2>10. r.ev \in [{"tty"} -> {"ADD", "ENABLE", "DISABLE"}] /\ r.ev["tty"] = "ADD" /\ r.pc = "start"
      BY <2>2, <2>8
    <2>11. r \in TtyQ
      BY <2>8, <2>10 DEF TtyQ
    <2> QED BY <2>8, <2>9, <2>10, <2>11, OneChange DEF TtySound
  <1> QED BY <1>1, <1>2, <1>3, <1>4 DEF UartSound

\* The common end of an access, uart_toggle_intr and the unlock.
LEMMA DoneSound ==
  ASSUME NEW s, NEW q, Done(s, q), UartSound(s, q, tty', typed)
  PROVE  UartSound(u', ttyq', tty', typed')
  BY ToggleSound DEF Done

\* uart_drain, one character at a time and its end.
LEMMA DrainSound ==
  ASSUME UartSound(u, ttyq, tty, typed), DrainChar \/ uart_drain
  PROVE  UartSound(u', ttyq', tty', typed')
  <1>0. u \in UartState /\ u.fifo \in Fifo /\ rxfifo_available(u.fifo) \in BOOLEAN /\ ttyq \in TtyQ
    BY DEF UartSound, UartState, rxfifo_available, TtySound
  <1>1. CASE DrainChar
    <2> DEFINE d == rxfifo_putchar(u.fifo, ttyq, Head(tty), TRUE)
               s == [u EXCEPT !.fifo = d.f, !.locked = TRUE]
    <2>1. u' = s /\ ttyq' = d.q /\ tty' = Tail(tty) /\ typed' = typed /\ rxfifo_available(u.fifo) /\ tty # <<>>
          /\ ttyq.pc = "handle"
      BY <1>1 DEF DrainChar, InDrain
    <2>2. tty \in Seq(Nat)
      BY DEF UartSound, Ordered
    <2>3. Head(tty) \in Nat
      BY <2>1, <2>2
    <2>4. d.f = PutChar(u.fifo, Head(tty)) /\ TtySound(d.q, rxfifo_available(d.f))
      BY ZenonT(60), <1>0, <2>1, <2>3, PutResult DEF UartSound
    <2>5. Ordered(d.f, u.last, Tail(tty), typed)
      BY <2>1, <2>4, MoveOrdered DEF UartSound
    <2>6. d.f \in Fifo
      BY <2>5 DEF Ordered
    <2> HIDE DEF d
    <2>7. s \in UartState /\ s.fifo = d.f /\ s.last = u.last
      BY <1>0, <2>6 DEF UartState
    <2> HIDE DEF s
    <2> QED BY <2>1, <2>4, <2>5, <2>7 DEF UartSound
  <1>2. CASE uart_drain
    <2>0. TtySound(Handled(ttyq, "tty"), rxfifo_available(u.fifo))
      BY <1>0, HandleTty DEF UartSound
    <2>1. CASE "LOOPBACK" \in u.mcr
      <3>1. u' = u /\ typed' = typed /\ ttyq' = Handled(ttyq, "tty") /\ tty' = IF tty = <<>> THEN tty ELSE Tail(tty)
        BY <1>2, <2>1 DEF uart_drain
      <3>2. Ordered(u.fifo, u.last, tty', typed)
        BY <3>1, DropOrdered DEF UartSound
      <3> QED BY <1>0, <2>0, <3>1, <3>2 DEF UartSound
    <2>2. CASE "LOOPBACK" \notin u.mcr
      <3> DEFINE s == [u EXCEPT !.locked = FALSE]
      <3>1. Done(s, Handled(ttyq, "tty")) /\ tty' = tty
        BY <1>2, <2>2 DEF uart_drain
      <3>2. s \in UartState /\ s.fifo = u.fifo /\ s.last = u.last
        BY <1>0 DEF UartState
      <3> HIDE DEF s
      <3>3. UartSound(s, Handled(ttyq, "tty"), tty', typed)
        BY <2>0, <3>1, <3>2 DEF UartSound
      <3> QED BY <3>1, <3>3, DoneSound
    <2> QED BY <2>1, <2>2
  <1> QED BY <1>1, <1>2

\* The guest reads a character; the event is enabled again if the FIFO was
\* full.
LEMMA ReadSound ==
  ASSUME UartSound(u, ttyq, tty, typed), ReadData, tty' = tty
  PROVE  UartSound(u', ttyq', tty', typed')
  <1>0. u \in UartState /\ u.fifo \in Fifo /\ rxfifo_available(u.fifo) \in BOOLEAN
    BY DEF UartSound, UartState, rxfifo_available
  <1> DEFINE c == u.fifo.buf[u.fifo.r]
             k == IF c = 0 THEN u.last ELSE c
             fg == GetChar(u.fifo)
             s == [u EXCEPT !.fifo = fg, !.last = k]
             q == EnableIfFull(u.fifo, ttyq)
  <1>1. Done(s, q) /\ tty' = tty /\ u.fifo.num > 0
    BY DEF ReadData
  <1>2. Ordered(fg, k, tty, typed)
    BY <1>1, GetOrdered DEF UartSound
  <1>3. fg \in Fifo /\ k \in Nat
    BY <1>2 DEF Ordered
  <1>4. rxfifo_available(fg) = TRUE
    BY <1>0, <1>1, GetSound DEF rxfifo_available
  <1>5. TtySound(q, TRUE)
    <2>1. CASE rxfifo_available(u.fifo)
      BY <2>1 DEF EnableIfFull, UartSound, TtySound
    <2>2. CASE ~rxfifo_available(u.fifo)
      <3>1. TtySound(mevent_update(ttyq, "tty", "ENABLE", FALSE), "ENABLE" = "ENABLE")
        BY <1>0, UpdateTty DEF UartSound
      <3> QED BY <2>2, <3>1 DEF EnableIfFull
    <2> QED BY <2>1, <2>2
  <1> HIDE DEF fg, k, q
  <1>6. s \in UartState /\ s.fifo = fg /\ s.last = k
    BY <1>0, <1>3 DEF UartState
  <1> HIDE DEF s
  <1>7. UartSound(s, q, tty', typed)
    BY <1>1, <1>2, <1>4, <1>5, <1>6 DEF UartSound
  <1> QED BY <1>1, <1>7, DoneSound

\* An access that leaves the FIFO alone.
LEMMA KeepSound ==
  ASSUME UartSound(u, ttyq, tty, typed), NEW s \in UartState, s.fifo = u.fifo, s.last = u.last,
         Done(s, ttyq), tty' = tty
  PROVE  UartSound(u', ttyq', tty', typed')
  <1>1. UartSound(s, ttyq, tty', typed)
    BY DEF UartSound
  <1> QED BY <1>1, DoneSound

\* The registers that the guest writes.
LEMMA WriteSound ==
  ASSUME UartSound(u, ttyq, tty, typed), WriteData \/ WriteIer \/ WriteFcr \/ WriteMcr
  PROVE  UartSound(u', ttyq', tty', typed')
  <1>0. u \in UartState /\ u.fifo \in Fifo /\ rxfifo_available(u.fifo) \in BOOLEAN /\ u.last \in Nat
    BY DEF UartSound, UartState, rxfifo_available
  <1>1. CASE WriteData
    <2>1. CASE "LOOPBACK" \in u.mcr
      <3> DEFINE r == rxfifo_putchar(u.fifo, ttyq, 0, FALSE)
                 o == u.oe \/ ~r.ok
                 y == TRUE
                 s == [u EXCEPT !.fifo = r.f, !.oe = o, !.thre = y]
      <3>1. Done(s, r.q) /\ tty' = tty
        BY <1>1, <2>1 DEF WriteData
      <3>2. /\ r.ok = rxfifo_available(u.fifo)
            /\ r.f = (IF rxfifo_available(u.fifo) THEN PutChar(u.fifo, 0) ELSE u.fifo)
            /\ TtySound(r.q, rxfifo_available(r.f))
        BY <1>0, PutResult DEF UartSound
      <3>3. Ordered(r.f, u.last, tty, typed)
        BY <3>2, LoopOrdered DEF UartSound
      <3>4. r.f \in Fifo
        BY <3>3 DEF Ordered
      <3>5. o \in BOOLEAN /\ y \in BOOLEAN
        OBVIOUS
      <3> HIDE DEF o, y, r
      <3>6. s \in UartState /\ s.fifo = r.f /\ s.last = u.last
        BY <1>0, <3>4, <3>5 DEF UartState
      <3> HIDE DEF s
      <3>7. UartSound(s, r.q, tty', typed)
        BY <3>1, <3>2, <3>3, <3>6 DEF UartSound
      <3> QED BY <3>1, <3>7, DoneSound
    <2>2. CASE "LOOPBACK" \notin u.mcr
      <3> DEFINE s == [u EXCEPT !.thre = TRUE]
      <3>1. Done(s, ttyq) /\ tty' = tty
        BY <1>1, <2>2 DEF WriteData
      <3>2. s \in UartState /\ s.fifo = u.fifo /\ s.last = u.last
        BY <1>0 DEF UartState
      <3> HIDE DEF s
      <3> QED BY <3>1, <3>2, KeepSound
    <2> QED BY <2>1, <2>2
  <1>2. CASE WriteIer
    <2>1. PICK v \in Iers : Done([u EXCEPT !.ier = v], ttyq) /\ tty' = tty
      BY <1>2 DEF WriteIer
    <2> DEFINE s == [u EXCEPT !.ier = v]
    <2>2. s \in UartState /\ s.fifo = u.fifo /\ s.last = u.last
      BY <1>0, UartConstants DEF UartState
    <2>3. Done(s, ttyq)
      BY <2>1
    <2> HIDE DEF s
    <2> QED BY <2>1, <2>2, <2>3, KeepSound
  <1>3. CASE WriteMcr
    <2>1. PICK v \in Mcrs :
            LET new == Modem(v)
                delta == (IF ("cts" \in new) # ("cts" \in u.msr) THEN {"dcts"} ELSE {})
                         \cup (IF "ri" \in u.msr /\ "ri" \notin new THEN {"teri"} ELSE {})
            IN Done([u EXCEPT !.mcr = v, !.msr = new \cup (@ \cap {"dcts", "teri"}) \cup delta], ttyq)
               /\ tty' = tty
      BY ZenonT(60), <1>3 DEF WriteMcr
    <2> DEFINE new == Modem(v)
               delta == (IF ("cts" \in new) # ("cts" \in u.msr) THEN {"dcts"} ELSE {})
                         \cup (IF "ri" \in u.msr /\ "ri" \notin new THEN {"teri"} ELSE {})
               n == new \cup (u.msr \cap {"dcts", "teri"}) \cup delta
               s == [u EXCEPT !.mcr = v, !.msr = n]
    <2>2. Done(s, ttyq) /\ tty' = tty
      BY <2>1
    <2>3. new \subseteq {"cts", "ri"} /\ delta \subseteq {"dcts", "teri"}
      BY DEF Modem
    <2> HIDE DEF new, delta
    <2>4. n \in SUBSET {"cts", "ri", "dcts", "teri"}
      BY <2>3
    <2> HIDE DEF n
    <2>5. s \in UartState /\ s.fifo = u.fifo /\ s.last = u.last
      BY <1>0, <2>4, UartConstants DEF UartState
    <2> HIDE DEF s
    <2> QED BY <2>2, <2>5, KeepSound
  <1>4. CASE WriteFcr
    <2>1. PICK enable, rst \in BOOLEAN :
            LET reset == (enable # u.fcr) \/ (enable /\ rst)
                size == IF enable THEN FIFOSZ ELSE 1
            IN /\ tty' = IF reset THEN <<>> ELSE tty
               /\ Done([u EXCEPT !.fcr = enable, !.fifo = IF reset THEN EmptyFifo(size) ELSE @],
                       IF reset THEN mevent_update(ttyq, "tty", "ENABLE", FALSE) ELSE ttyq)
      BY ZenonT(60), <1>4 DEF WriteFcr
    <2> DEFINE reset == (enable # u.fcr) \/ (enable /\ rst)
               size == IF enable THEN FIFOSZ ELSE 1
               fg == IF reset THEN EmptyFifo(size) ELSE u.fifo
               q == IF reset THEN mevent_update(ttyq, "tty", "ENABLE", FALSE) ELSE ttyq
               s == [u EXCEPT !.fcr = enable, !.fifo = fg]
    <2>2. tty' = (IF reset THEN <<>> ELSE tty) /\ Done(s, q)
      BY <2>1
    <2>3. size \in {1, FIFOSZ}
      OBVIOUS
    <2> HIDE DEF reset, size
    <2>4. Ordered(fg, u.last, tty', typed) /\ TtySound(q, rxfifo_available(fg))
      <3>1. CASE reset
        <4>1. typed \in Nat /\ u.last <= typed
          BY DEF UartSound, Ordered
        <4>2. Ordered(EmptyFifo(size), u.last, <<>>, typed)
          BY <1>0, <2>3, <4>1, EmptyOrdered
        <4>3. rxfifo_available(EmptyFifo(size)) = TRUE
          BY <2>3, EmptySound DEF rxfifo_available
        <4>4. TtySound(mevent_update(ttyq, "tty", "ENABLE", FALSE), "ENABLE" = "ENABLE")
          BY <1>0, UpdateTty DEF UartSound
        <4> QED BY <2>2, <3>1, <4>2, <4>3, <4>4
      <3>2. CASE ~reset
        BY <2>2, <3>2 DEF UartSound
      <3> QED BY <3>1, <3>2
    <2>5. fg \in Fifo
      BY <2>4 DEF Ordered
    <2> HIDE DEF fg, q
    <2>6. s \in UartState /\ s.fifo = fg /\ s.last = u.last
      BY <1>0, <2>5 DEF UartState
    <2> HIDE DEF s
    <2>7. UartSound(s, q, tty', typed)
      BY <2>4, <2>6 DEF UartSound
    <2> QED BY <2>2, <2>7, DoneSound
  <1> QED BY <1>1, <1>2, <1>3, <1>4

\* What the guest reads.
LEMMA GuestReadSound ==
  ASSUME UartSound(u, ttyq, tty, typed), GuestRead
  PROVE  UartSound(u', ttyq', tty', typed')
  <1>0. u \in UartState /\ tty' = tty
    BY DEF UartSound, GuestRead
  <1>1. CASE ReadData
    BY <1>0, <1>1, ReadSound
  <1>2. CASE Done(ReadLsr(u), ttyq)
    <2> DEFINE r == ReadLsr(u)
    <2>1. r \in UartState /\ r.fifo = u.fifo /\ r.last = u.last
      BY <1>0 DEF ReadLsr, UartState
    <2> HIDE DEF r
    <2> QED BY <1>0, <1>2, <2>1, KeepSound DEF r
  <1>3. CASE Done(ReadMsr(u), ttyq)
    <2> DEFINE r == ReadMsr(u)
    <2>1. r \in UartState /\ r.fifo = u.fifo /\ r.last = u.last
      BY <1>0 DEF ReadMsr, UartState
    <2> HIDE DEF r
    <2> QED BY <1>0, <1>3, <2>1, KeepSound DEF r
  <1>4. CASE Done(ReadIir(u), ttyq)
    <2> DEFINE r == ReadIir(u)
    <2>1. r \in UartState /\ r.fifo = u.fifo /\ r.last = u.last
      BY <1>0 DEF ReadIir, UartState
    <2> HIDE DEF r
    <2> QED BY <1>0, <1>4, <2>1, KeepSound DEF r
  <1> QED BY <1>1, <1>2, <1>3, <1>4 DEF GuestRead

\* Every step of the terminal, the mevent thread and the guest keeps the
\* invariant.
LEMMA UartStep == UartInv /\ [UartNext]_uartvars => UartInv'
  <1> SUFFICES ASSUME UartSound(u, ttyq, tty, typed), [UartNext]_uartvars
               PROVE  UartSound(u', ttyq', tty', typed')
    BY UartInvIs, UartInvIsNext
  <1>0. rxfifo_available(u.fifo) \in BOOLEAN
    BY DEF rxfifo_available
  <1>1. CASE TtyBuild
    BY <1>0, <1>1, BuildTty DEF TtyBuild, UartSound
  <1>2. CASE TtyWake
    <2>1. TtyReady \in SUBSET {"tty"}
      BY DEF TtyReady
    <2> QED BY <1>0, <1>2, <2>1, WakeTty DEF TtyWake, UartSound
  <1>3. CASE DrainChar \/ uart_drain
    BY <1>3, DrainSound
  <1>4. CASE TtyPipeRead
    BY <1>0, <1>4, HandleTty DEF TtyPipeRead, UartSound
  <1>5. CASE GuestRead
    BY <1>5, GuestReadSound
  <1>7. CASE GuestWrite
    <2>1. WriteData \/ WriteIer \/ WriteFcr \/ WriteMcr
      BY <1>7 DEF GuestWrite
    <2> QED BY <2>1, WriteSound
  <1>8. CASE TypeChar
    BY <1>8, TypeOrdered DEF TypeChar, UartSound
  <1>9. CASE UNCHANGED uartvars
    BY <1>9 DEF uartvars
  <1> QED BY <1>1, <1>2, <1>3, <1>4, <1>5, <1>7, <1>8, <1>9 DEF UartNext, TtyThread

\* The inductive invariant of the console, for any size of the FIFO and any
\* number of characters and writes: the event of the terminal is disabled
\* exactly while the FIFO is full, in the kernel, if that was ever given the
\* event, or by a change that the thread is woken for, and input keeps its order.
THEOREM UartInvariant == UartSpec => []UartInv
  <1>1. UartInit => UartInv
    BY UartInitInv
  <1> QED BY <1>1, UartStep, PTL DEF UartSpec

\* The invariant implies what the console promises.
LEMMA UartShows == UartInv => WatchedIfRoom /\ InputInOrder
  <1> SUFFICES ASSUME UartInv PROVE WatchedIfRoom
    BY DEF UartInv
  <1>1. TtySound(ttyq, rxfifo_available(u.fifo))
    BY UartInvIs DEF UartSound
  <1>2. ASSUME Settled(ttyq), ttyq.kq["tty"] # "none" \/ ttyq.ev["tty"] = "ADD"
        PROVE  ttyq.kq["tty"] = "on" <=> rxfifo_available(u.fifo)
    <2>1. ttyq.change = <<>>
      BY <1>1, <1>2 DEF Settled, TtySound
    <2>2. ttyq.kq["tty"] \in {"none", "on", "off"}
      BY <1>1 DEF TtySound, TtyQ
    <2> QED BY <1>1, <1>2, <2>1, <2>2 DEF TtySound
  <1> QED BY <1>2 DEF WatchedIfRoom

-----------------------------------------------------------------------------
(* The power button.                                                       *)



\* The event library with the signal.
SigQ ==
  [ev : [{"term"} -> {"none", "ADD", "DEL_PENDING"}], kq : [{"term"} -> {"none", "on"}],
   change : {<<>>, <<"term">>}, pipe : BOOLEAN, pc : {"start", "build", "wait", "handle"},
   hot : SUBSET {"term", "pipe"}]

\* SignalFollows and SciFollows, of the registers p and a queue q.
SignalSound(p, q) ==
  /\ p.button => p.sci_en /\ p.handler = "ignore" /\ ~p.killed
  /\ p.button <=> q.ev["term"] = "ADD"
  /\ q.ev["term"] = "none" => q.kq["term"] = "none" /\ q.change = <<>>
  /\ q.ev["term"] = "ADD" => (q.kq["term"] = "on" <=> q.change = <<>>)
  /\ q.ev["term"] = "DEL_PENDING" => q.change # <<>>
  /\ q.pc = "wait" /\ q.change # <<>> => q.pipe

\* The registers of the power management.
PmState == [enable : SUBSET {"PWRBTN", "GBL"}, status : SUBSET {"PWRBTN"}, active : BOOLEAN,
             irq : {0, 1}, sci_en : BOOLEAN, button : BOOLEAN, handler : {"default", "ignore"},
             old : {"default", "ignore"}, killed : BOOLEAN]

\* What the power button is about.
SameButton(p, r) ==
  /\ r.sci_en = p.sci_en /\ r.button = p.button /\ r.handler = p.handler /\ r.killed = p.killed

SciSound(p) ==
  /\ p.active <=> p.enable \cap p.status # {}
  /\ p.irq = IF p.active THEN 1 ELSE 0

\* PmInv in terms of its state.
LEMMA PmInvIs == PmInv <=> pm \in PmState /\ sigq \in SigQ /\ SignalSound(pm, sigq) /\ SciSound(pm)
  BY DEF PmInv, PmTypeOK, SignalFollows, SciFollows, PmState, SigQ, SignalSound, SciSound

\* The same of the next state.
LEMMA PmInvIsNext == PmInv' <=> pm' \in PmState /\ sigq' \in SigQ /\ SignalSound(pm', sigq') /\ SciSound(pm')
  BY DEF PmInv, PmTypeOK, SignalFollows, SciFollows, PmState, SigQ, SignalSound, SciSound

\* sci_update brings the interrupt up to date and changes nothing else.
LEMMA SciUpdated ==
  ASSUME NEW p \in PmState, p.irq = IF p.active THEN 1 ELSE 0
  PROVE  LET r == sci_update(p)
         IN r \in PmState /\ SciSound(r) /\ SameButton(p, r)
  <1> DEFINE need == p.enable \cap p.status # {}
             n == IF need /\ ~p.active THEN p.irq + 1 ELSE IF ~need /\ p.active THEN p.irq - 1 ELSE p.irq
             r == [p EXCEPT !.active = need, !.irq = n]
  <1>1. n = (IF need THEN 1 ELSE 0) /\ n \in {0, 1}
    BY DEF PmState
  <1>2. r = sci_update(p)
    BY DEF sci_update
  <1>3. need \in BOOLEAN /\ (need <=> p.enable \cap p.status # {})
    OBVIOUS
  <1> HIDE DEF n, need
  <1>4. r \in PmState /\ r.active = need /\ r.irq = n /\ SameButton(p, r)
        /\ r.enable = p.enable /\ r.status = p.status
    BY <1>1, <1>3 DEF PmState, SameButton
  <1> HIDE DEF r
  <1> QED BY <1>1, <1>2, <1>3, <1>4 DEF SciSound

\* mevent_build and kevent bring the kernel up to date, and forget an event
\* that was deleted.
LEMMA BuildSig ==
  ASSUME NEW q \in SigQ, NEW p \in PmState, SignalSound(p, q)
  PROVE  Build(q) \in SigQ /\ SignalSound(p, Build(q))
  <1> DEFINE k == KqueueApply(q)["term"]
             x == IF q.ev["term"] = "DEL_PENDING" THEN "none" ELSE q.ev["term"]
             b == Build(q)
  <1>1. DOMAIN q.kq = {"term"} /\ DOMAIN q.ev = {"term"} /\ q.change \in {<<>>, <<"term">>}
    BY DEF SigQ
  <1>2. k = IF q.change = <<>> THEN q.kq["term"]
            ELSE IF q.ev["term"] = "ADD" THEN "on" ELSE "none"
    <2>1. CASE q.change = <<>>
      BY <1>1, <2>1 DEF KqueueApply
    <2>2. CASE q.change = <<"term">>
      <3>1. DOMAIN q.change = {1} /\ q.change[1] = "term" /\ q.change # <<>> /\ 1 .. 1 = {1}
        BY <2>2
      <3>2. CASE q.ev["term"] = "ADD"
        BY <1>1, <3>1, <3>2 DEF KqueueApply
      <3>3. CASE q.ev["term"] = "DEL_PENDING" /\ q.kq["term"] = "none"
        BY <1>1, <3>1, <3>3 DEF KqueueApply
      <3>4. CASE q.ev["term"] = "DEL_PENDING" /\ q.kq["term"] = "on"
        BY <1>1, <3>1, <3>4 DEF KqueueApply
      <3>5. q.ev["term"] \in {"ADD", "DEL_PENDING"} /\ q.kq["term"] \in {"none", "on"}
        BY <3>1 DEF SigQ, SignalSound
      <3> QED BY <3>2, <3>3, <3>4, <3>5
    <2> QED BY <1>1, <2>1, <2>2
  <1>3. KqueueApply(q) = [e \in {"term"} |-> k]
    BY <1>1, KqueueApplied
  <1>4. [e \in DOMAIN q.ev |-> IF q.ev[e] = "DEL_PENDING" /\ Contains(q.change, e) THEN "none" ELSE q.ev[e]]
          = [e \in {"term"} |-> x]
    <2>1. q.ev["term"] = "DEL_PENDING" => Contains(q.change, "term")
      BY <1>1, OneChange DEF SignalSound
    <2> QED BY <1>1, <2>1
  <1>5. b = [q EXCEPT !.kq = [e \in {"term"} |-> k], !.change = <<>>, !.pc = "wait", !.ev = [e \in {"term"} |-> x]]
    BY <1>3, <1>4 DEF Build
  <1>6. q.ev["term"] \in {"none", "ADD", "DEL_PENDING"} /\ q.kq["term"] \in {"none", "on"}
    BY DEF SigQ
  <1> HIDE DEF b
  <1>7. k \in {"none", "on"} /\ x \in {"none", "ADD"}
    BY <1>2, <1>6
  <1> HIDE DEF k
  <1>8. /\ b \in SigQ /\ b.kq["term"] = k /\ b.change = <<>> /\ b.pc = "wait"
        /\ b.ev["term"] = x
    <2> HIDE DEF x
    <2> QED BY <1>5, <1>7 DEF SigQ
  <1> QED BY <1>1, <1>2, <1>6, <1>8 DEF SignalSound, b

\* The end of a handler leaves the event and the changes alone.
LEMMA HandleSig ==
  ASSUME NEW q \in SigQ, NEW p \in PmState, SignalSound(p, q), q.pc = "handle", NEW e \in {"term", "pipe"}
  PROVE  Handled(q, e) \in SigQ /\ SignalSound(p, Handled(q, e))
  <1> DEFINE b == Handled(q, e)
             c == IF q.hot = {e} THEN "build" ELSE "handle"
             d == IF e = "pipe" THEN FALSE ELSE q.pipe
             h == q.hot \ {e}
  <1>1. b = [q EXCEPT !.hot = h, !.pc = c, !.pipe = d]
    BY DEF Handled
  <1>2. c \in {"build", "handle"} /\ d \in BOOLEAN /\ h \in SUBSET {"term", "pipe"}
    BY DEF SigQ
  <1> HIDE DEF b, c, d, h
  <1>3. /\ b \in SigQ /\ b.pc = c /\ b.ev = q.ev /\ b.kq = q.kq /\ b.change = q.change
    BY <1>1, <1>2 DEF SigQ
  <1> QED BY <1>2, <1>3 DEF SignalSound, b

\* mevent_add and mevent_delete list the change and wake the thread.
LEMMA ListedSig ==
  ASSUME NEW q \in SigQ, NEW p \in PmState, SignalSound(p, q), NEW s \in {"ADD", "DEL_PENDING"}
  PROVE  LET b == InsertChange(q, "term", s, FALSE)
         IN /\ b \in SigQ /\ b.ev["term"] = s /\ b.kq = q.kq /\ b.change = <<"term">>
            /\ b.pc = "wait" => b.pipe
  <1> DEFINE f == [q.ev EXCEPT !["term"] = s]
             r == [q EXCEPT !.ev = f, !.change = <<"term">>]
             y == (q.pc # "start")
             n == [r EXCEPT !.pipe = y]
             b == InsertChange(q, "term", s, FALSE)
  <1>1. q.change \in {<<>>, <<"term">>}
    BY DEF SigQ
  <1>2. IF Contains(q.change, "term") THEN q.change = <<"term">>
        ELSE q.change = <<>> /\ <<"term">> \o q.change = <<"term">>
    BY <1>1, OneChange
  <1>3. [q EXCEPT !.ev["term"] = s, !.change = IF Contains(@, "term") THEN @ ELSE <<"term">> \o @] = r
    BY <1>2 DEF SigQ
  <1>4. f \in [{"term"} -> {"none", "ADD", "DEL_PENDING"}] /\ f["term"] = s
    BY DEF SigQ
  <1> HIDE DEF f
  <1>5. r \in SigQ /\ r.ev = f /\ r.kq = q.kq /\ r.change = <<"term">> /\ r.pc = q.pc /\ r.pipe = q.pipe
    BY <1>4 DEF SigQ
  <1>6. mevent_notify(r) = n /\ y \in BOOLEAN /\ (q.pc = "wait" => y)
    <2>1. (r.pc # "start") = y
      BY <1>5
    <2> QED BY <2>1 DEF mevent_notify
  <1> HIDE DEF y
  <1>7. b = IF Contains(q.change, "term") THEN r ELSE n
    BY <1>3, <1>6 DEF InsertChange
  <1> HIDE DEF r
  <1>8. n \in SigQ /\ n.ev = f /\ n.kq = q.kq /\ n.change = <<"term">> /\ n.pc = q.pc /\ n.pipe = y
    BY <1>5, <1>6 DEF SigQ
  <1> HIDE DEF n, b
  <1>9. CASE Contains(q.change, "term")
    <2>1. q.change # <<>>
      BY <1>9, OneChange
    <2> QED BY <1>4, <1>5, <1>7, <1>9, <2>1 DEF SignalSound, b
  <1>10. CASE ~Contains(q.change, "term")
    BY <1>4, <1>6, <1>7, <1>8, <1>10 DEF b
  <1> QED BY <1>9, <1>10

\* ACPI is disabled at the start and nothing is watched.
LEMMA PmInitInv == PmInit => PmInv
  <1> SUFFICES ASSUME PmInit PROVE PmInv
    OBVIOUS
  <1>1. pm \in PmState /\ SciSound(pm) /\ ~pm.button
    BY DEF PmInit, PmState, SciSound
  <1>2. sigq \in SigQ /\ sigq.ev["term"] = "none" /\ sigq.kq["term"] = "none" /\ sigq.change = <<>>
    BY DEF PmInit, MeventInit, SigQ
  <1> QED BY <1>1, <1>2, PmInvIs DEF SignalSound

\* Every step of the guest, the mevent thread and the host keeps the
\* invariant.
LEMMA PmStep == PmInv /\ [PmNext]_pmvars => PmInv'
  <1> SUFFICES ASSUME pm \in PmState, sigq \in SigQ, SignalSound(pm, sigq), SciSound(pm), [PmNext]_pmvars
               PROVE  pm' \in PmState /\ sigq' \in SigQ /\ SignalSound(pm', sigq') /\ SciSound(pm')
    BY PmInvIs, PmInvIsNext
  <1>0. pm.irq = IF pm.active THEN 1 ELSE 0
    BY DEF SciSound
  <1>1. ASSUME NEW p \in PmState, p.irq = pm.irq, p.active = pm.active, SameButton(pm, p),
               pm' = sci_update(p)
        PROVE  pm' \in PmState /\ SciSound(pm') /\ SameButton(pm, pm')
    BY <1>0, <1>1, SciUpdated DEF SameButton
  <1>2. CASE pm1_enable_handler
    <2>1. PICK v \in SUBSET {"PWRBTN", "GBL"} : pm' = sci_update([pm EXCEPT !.enable = v]) /\ sigq' = sigq
      BY <1>2 DEF pm1_enable_handler
    <2> DEFINE p == [pm EXCEPT !.enable = v]
    <2>2. p \in PmState /\ p.irq = pm.irq /\ p.active = pm.active /\ SameButton(pm, p)
      BY DEF PmState, SameButton
    <2>3. pm' = sci_update(p)
      BY <2>1
    <2> HIDE DEF p
    <2> QED BY <1>1, <2>1, <2>2, <2>3 DEF SignalSound, SameButton
  <1>3. CASE pm1_status_handler
    <2> DEFINE s == pm.status \ {"PWRBTN"}
               p == [pm EXCEPT !.status = s]
    <2>1. pm' = sci_update(p) /\ sigq' = sigq
      BY <1>3 DEF pm1_status_handler
    <2>2. p \in PmState /\ p.irq = pm.irq /\ p.active = pm.active /\ SameButton(pm, p)
      BY DEF PmState, SameButton
    <2> HIDE DEF p
    <2> QED BY <1>1, <2>1, <2>2 DEF SignalSound, SameButton
  <1>4. CASE push_power_button
    <2> DEFINE s == pm.status \cup {"PWRBTN"}
               p == [pm EXCEPT !.status = s]
    <2>1. pm' = sci_update(p) /\ sigq' = Handled(sigq, "term") /\ sigq.pc = "handle"
      BY <1>4 DEF push_power_button
    <2>2. p \in PmState /\ p.irq = pm.irq /\ p.active = pm.active /\ SameButton(pm, p)
      BY DEF PmState, SameButton
    <2> HIDE DEF p
    <2>3. sigq' \in SigQ /\ SignalSound(pm, sigq')
      BY <2>1, HandleSig
    <2> QED BY <1>1, <2>1, <2>2, <2>3 DEF SignalSound, SameButton
  <1>5. CASE SigPipeRead
    BY <1>5, HandleSig DEF SigPipeRead
  <1>6. CASE SigBuild
    BY <1>6, BuildSig DEF SigBuild
  <1>7. CASE SigWake
    <2> DEFINE b == Wake(sigq, SigReady)
               f == Fired(sigq, SigReady)
    <2>1. sigq' = b /\ pm' = pm
      BY <1>7 DEF SigWake
    <2>2. f \in SUBSET {"term", "pipe"}
      BY DEF Fired, SigReady
    <2>3. b = [sigq EXCEPT !.pc = "handle", !.hot = f]
      BY DEF Wake
    <2> HIDE DEF b, f
    <2>4. b \in SigQ /\ b.pc = "handle" /\ b.ev = sigq.ev /\ b.kq = sigq.kq /\ b.change = sigq.change
      BY <2>2, <2>3 DEF SigQ
    <2> QED BY <2>1, <2>4 DEF SignalSound
  <1>8. CASE SigTerm
    <2> DEFINE k == (pm.handler = "default")
               p == [pm EXCEPT !.killed = k]
    <2>1. pm' = p /\ sigq' = sigq /\ k \in BOOLEAN /\ (pm.button => ~k)
      BY <1>8 DEF SigTerm, SignalSound
    <2> HIDE DEF k
    <2>2. /\ p \in PmState /\ SciSound(p) /\ p.killed = k /\ p.button = pm.button
          /\ p.sci_en = pm.sci_en /\ p.handler = pm.handler
      BY <2>1 DEF PmState, SciSound
    <2> HIDE DEF p
    <2> QED BY <2>1, <2>2 DEF SignalSound
  <1>9. CASE AcpiEnable /\ ~pm.killed
    <2>1. CASE pm.button
      <3> DEFINE p == [pm EXCEPT !.sci_en = TRUE]
      <3>1. pm' = p /\ sigq' = sigq
        BY <1>9, <2>1 DEF AcpiEnable
      <3>2. p \in PmState /\ SciSound(p) /\ p.button /\ p.sci_en /\ p.handler = pm.handler /\ p.killed = pm.killed
        BY <2>1 DEF PmState, SciSound
      <3> HIDE DEF p
      <3> QED BY <2>1, <3>1, <3>2 DEF SignalSound
    <2>2. CASE ~pm.button
      <3> DEFINE c == (sigq.ev["term"] = "none")
                 p == [pm EXCEPT !.sci_en = TRUE, !.button = c, !.old = pm.handler, !.handler = "ignore"]
      <3>1. pm' = p /\ sigq' = mevent_add(sigq, "term") /\ c \in BOOLEAN /\ (c <=> sigq.ev["term"] = "none")
        BY <1>9, <2>2 DEF AcpiEnable
      <3> HIDE DEF c
      <3>2. p \in PmState /\ SciSound(p) /\ p.button = c /\ p.sci_en /\ p.handler = "ignore" /\ ~p.killed
        BY <1>9, <3>1 DEF PmState, SciSound
      <3> HIDE DEF p
      <3>3. CASE c
        <4>1. sigq' = InsertChange(sigq, "term", "ADD", FALSE)
          BY <3>1, <3>3 DEF mevent_add
        <4>2. /\ sigq' \in SigQ /\ sigq'.ev["term"] = "ADD" /\ sigq'.kq = sigq.kq
              /\ sigq'.change = <<"term">> /\ (sigq'.pc = "wait" => sigq'.pipe)
          BY <4>1, ListedSig
        <4>3. sigq.kq["term"] = "none"
          BY <3>1, <3>3 DEF SignalSound
        <4> QED BY <3>1, <3>2, <3>3, <4>2, <4>3, OneChange DEF SignalSound
      <3>4. CASE ~c
        <4>1. sigq' = sigq
          BY <3>1, <3>4 DEF mevent_add
        <4> QED BY <2>2, <3>1, <3>2, <3>4, <4>1 DEF SignalSound
      <3> QED BY <3>1, <3>3, <3>4
    <2> QED BY <2>1, <2>2
  <1>10. CASE AcpiDisable
    <2>1. CASE pm.button
      <3> DEFINE p == [pm EXCEPT !.sci_en = FALSE, !.button = FALSE, !.handler = pm.old]
      <3>1. pm' = p /\ sigq' = InsertChange(sigq, "term", "DEL_PENDING", FALSE)
        BY <1>10, <2>1 DEF AcpiDisable, mevent_delete
      <3>2. p \in PmState /\ ~p.button /\ SciSound(p)
        BY DEF PmState, SciSound
      <3>3. /\ sigq' \in SigQ /\ sigq'.ev["term"] = "DEL_PENDING"
            /\ sigq'.change = <<"term">> /\ (sigq'.pc = "wait" => sigq'.pipe)
        BY <3>1, ListedSig
      <3> HIDE DEF p
      <3> QED BY <3>1, <3>2, <3>3, OneChange DEF SignalSound
    <2>2. CASE ~pm.button
      <3> DEFINE p == [pm EXCEPT !.sci_en = FALSE]
      <3>1. pm' = p /\ sigq' = sigq
        BY <1>10, <2>2 DEF AcpiDisable
      <3>2. p \in PmState /\ ~p.button /\ SciSound(p)
        BY <2>2 DEF PmState, SciSound
      <3> HIDE DEF p
      <3> QED BY <2>2, <3>1, <3>2 DEF SignalSound
    <2> QED BY <2>1, <2>2
  <1>11. CASE UNCHANGED pmvars
    BY <1>11 DEF pmvars
  <1> QED
    BY <1>2, <1>3, <1>4, <1>5, <1>6, <1>7, <1>8, <1>9, <1>10, <1>11 DEF PmNext, SigThread

\* The inductive invariant of the power button, for any number of signals
\* and changes of mode: an event of the signal that pm.c holds is in the kernel
\* or on its way there, and SIGTERM is ignored.
THEOREM PmInvariant == PmSpec => []PmInv
  <1>1. PmInv /\ [PmNext]_pmvars => PmInv'
    BY PmStep
  <1> QED BY <1>1, PmInitInv, PTL DEF PmSpec

\* The invariant implies what the power button promises.
LEMMA PmShows == PmInv => ButtonWatched /\ SciMatches
  <1> SUFFICES ASSUME pm \in PmState, sigq \in SigQ, SignalSound(pm, sigq), SciSound(pm)
               PROVE  ButtonWatched /\ SciMatches
    BY PmInvIs
  <1>1. SciMatches
    BY DEF SciSound, SciMatches
  <1>2. ASSUME Settled(sigq) PROVE sigq.kq["term"] = "on" <=> pm.button
    <2>1. sigq.change = <<>>
      BY <1>2 DEF Settled, SignalSound
    <2>2. sigq.ev["term"] \in {"none", "ADD"}
      BY <2>1 DEF SignalSound, SigQ
    <2> QED BY <2>1, <2>2 DEF SignalSound
  <1> QED BY <1>1, <1>2 DEF ButtonWatched, SignalSound

\* Once the mevent thread has caught up, the kernel watches the terminal
\* exactly when the receive FIFO has room, if it was ever given its event, and
\* SIGTERM exactly while there is a power button; input reaches the guest in
\* order; and the SCI follows its registers (mevent.c, uart_emul.c, pm.c).  The
\* vcpus may run before the mevent thread starts and never wait for it.
THEOREM EventsAreWatched == UartSpec /\ PmSpec => []EventsWatched
  <1>1. UartSpec => []UartInv
    BY UartInvariant
  <1>2. PmSpec => []PmInv
    BY PmInvariant
  <1>3. UartInv /\ PmInv => EventsWatched
    BY UartShows, PmShows DEF EventsWatched
  <1> QED BY <1>1, <1>2, <1>3, PTL

-----------------------------------------------------------------------------
(* The AHCI port.                                                          *)

\* A request in block_if.
PortRequest == [slot : Slots, io : {"queued", "running"}, more : BOOLEAN, older : SUBSET Slots]

\* The registers of the port.
PortState == [ci : SUBSET Slots, sact : SUBSET Slots, pending : SUBSET Slots, ccs : Slots,
             st : BOOLEAN, cr : BOOLEAN, fre : BOOLEAN, bsy : BOOLEAN, err : BOOLEAN,
             waitforclear : BOOLEAN, reset : BOOLEAN,
             asc : {"ok", "asc20", "asc21", "asc24", "asc39", "asc53"}, is : SUBSET Irqs,
             ie : SUBSET Irqs, hbais : BOOLEAN, ghcie : BOOLEAN, lintr : BOOLEAN,
             msg : {"none", "sent", "taken"}, busy : SUBSET PortRequest]

\* IntrFollows, of a state.
IntrSound(s) ==
  /\ s.is \cap s.ie # {} => s.hbais
  /\ s.lintr <=> ~Msi /\ s.hbais /\ s.ghcie
  /\ Msi /\ s.hbais /\ s.ghcie => s.msg # "none"

\* What is in flight, and what says that the port runs, is the same.
SameFlight(r, s) ==
  /\ r.st = s.st /\ r.cr = s.cr /\ r.fre = s.fre /\ r.pending = s.pending /\ r.busy = s.busy

\* A state whose interrupts are right.
PortGood(s) == s \in PortState /\ IntrSound(s)

\* A set that loses a slot unless there was an error.
LeftOf(S, x, err) == IF err THEN S ELSE S \ {x}

\* ahci_generate_intr makes the pin and the message follow the status
\* registers, whatever they were, and changes nothing else.
LEMMA Generated ==
  ASSUME NEW s \in PortState
  PROVE  LET r == ahci_generate_intr(s)
         IN PortGood(r) /\ SameFlight(r, s) /\ r.ci = s.ci /\ r.sact = s.sact /\ r.bsy = s.bsy
            /\ r.waitforclear = s.waitforclear
  <1> DEFINE h == s.hbais \/ s.is \cap s.ie # {}
             l == ~Msi /\ h /\ s.ghcie
             m == IF Msi /\ h /\ s.ghcie THEN "sent" ELSE s.msg
             r == [s EXCEPT !.hbais = h, !.lintr = l, !.msg = m]
  <1>1. r = ahci_generate_intr(s)
    BY DEF ahci_generate_intr
  <1>2. h \in BOOLEAN /\ l \in BOOLEAN /\ m \in {"none", "sent", "taken"}
    BY DEF PortState
  <1>3. (s.is \cap s.ie # {} => h) /\ (l <=> ~Msi /\ h /\ s.ghcie) /\ (Msi /\ h /\ s.ghcie => m # "none")
    OBVIOUS
  <1> HIDE DEF h, l, m
  <1>4. r \in PortState
    BY <1>2 DEF PortState
  <1>5. /\ r.hbais = h /\ r.lintr = l /\ r.msg = m /\ r.is = s.is /\ r.ie = s.ie
        /\ r.ghcie = s.ghcie
        /\ SameFlight(r, s) /\ r.ci = s.ci /\ r.sact = s.sact /\ r.bsy = s.bsy
        /\ r.waitforclear = s.waitforclear
    BY DEF PortState, SameFlight
  <1> HIDE DEF r
  <1>6. IntrSound(r)
    BY <1>3, <1>5 DEF IntrSound
  <1> QED BY <1>1, <1>4, <1>5, <1>6 DEF PortGood

\* ahci_write_fis: an error stops the port until it is cleared, if the guest
\* receives FISes.
LEMMA FisWritten ==
  ASSUME NEW s, PortGood(s), NEW irq \in SUBSET Irqs, NEW err \in BOOLEAN
  PROVE  LET r == ahci_write_fis(s, irq, err)
         IN /\ PortGood(r) /\ SameFlight(r, s) /\ r.ci = s.ci /\ r.sact = s.sact /\ r.bsy = s.bsy
            /\ r.waitforclear <=> s.waitforclear \/ (s.fre /\ err)
  <1> DEFINE i == irq \cup (IF err THEN {"TFE"} ELSE {})
             w == s.waitforclear \/ err
             x == s.is \cup i
             t == [s EXCEPT !.waitforclear = w, !.is = x]
             r == ahci_write_fis(s, irq, err)
  <1>0. s \in PortState /\ IntrSound(s)
    BY DEF PortGood
  <1>1. i \in SUBSET Irqs /\ x \in SUBSET Irqs /\ w \in BOOLEAN
    BY <1>0 DEF PortState, Irqs
  <1>2. (i = {} => x = s.is /\ ~err) /\ (w <=> s.waitforclear \/ err)
    OBVIOUS
  <1>3. r = IF ~s.fre THEN s ELSE IF i = {} THEN t ELSE ahci_generate_intr(t)
    BY DEF ahci_write_fis
  <1> HIDE DEF i, w, x
  <1>4. t \in PortState
    BY <1>0, <1>1 DEF PortState
  <1>5. /\ SameFlight(t, s) /\ t.ci = s.ci /\ t.sact = s.sact /\ t.bsy = s.bsy /\ t.waitforclear = w
        /\ t.is = x /\ t.ie = s.ie /\ t.hbais = s.hbais /\ t.ghcie = s.ghcie
        /\ t.lintr = s.lintr /\ t.msg = s.msg
    BY <1>0 DEF PortState, SameFlight
  <1> HIDE DEF t, r
  <1>6. CASE ~s.fre
    BY <1>0, <1>3, <1>6 DEF PortGood, SameFlight, r
  <1>7. CASE s.fre /\ i = {}
    <2>1. r = t
      BY <1>3, <1>7
    <2>2. IntrSound(t)
      BY <1>0, <1>2, <1>5, <1>7 DEF IntrSound
    <2> QED BY <1>2, <1>4, <1>5, <1>7, <2>1, <2>2 DEF PortGood, r
  <1>8. CASE s.fre /\ i # {}
    <2>1. r = ahci_generate_intr(t)
      BY <1>3, <1>8
    <2>2. PortGood(r) /\ SameFlight(r, t) /\ r.ci = t.ci /\ r.sact = t.sact /\ r.bsy = t.bsy
          /\ r.waitforclear = t.waitforclear
      BY <1>4, <2>1, Generated
    <2> QED BY <1>2, <1>5, <1>8, <2>2 DEF SameFlight, r
  <1> QED BY <1>6, <1>7, <1>8

\* ahci_write_fis_sdb takes a queued command out of PxSACT, or leaves it
\* there with an error.
LEMMA SdbWritten ==
  ASSUME NEW s, PortGood(s), NEW slot \in Slots, NEW err \in BOOLEAN
  PROVE  LET r == ahci_write_fis_sdb(s, slot, err)
         IN /\ PortGood(r) /\ SameFlight(r, s) /\ r.ci = s.ci /\ r.bsy = s.bsy
            /\ r.sact = LeftOf(s.sact, slot, err)
            /\ r.waitforclear <=> s.waitforclear \/ (s.fre /\ err)
  <1> DEFINE a == IF err THEN s.sact ELSE s.sact \ {slot}
             t == [s EXCEPT !.sact = a, !.err = err]
             r == ahci_write_fis_sdb(s, slot, err)
  <1>0. s \in PortState /\ IntrSound(s)
    BY DEF PortGood
  <1>1. r = ahci_write_fis(t, {"SDB"}, err) /\ {"SDB"} \in SUBSET Irqs
    BY DEF ahci_write_fis_sdb, Irqs
  <1>2. a \in SUBSET Slots
    BY <1>0 DEF PortState
  <1>a. a = LeftOf(s.sact, slot, err)
    BY DEF LeftOf
  <1> HIDE DEF a
  <1>3. t \in PortState
    BY <1>0, <1>2 DEF PortState
  <1>4. /\ SameFlight(t, s) /\ t.ci = s.ci /\ t.sact = a /\ t.bsy = s.bsy
        /\ t.waitforclear = s.waitforclear
        /\ t.is = s.is /\ t.ie = s.ie /\ t.hbais = s.hbais /\ t.ghcie = s.ghcie
        /\ t.lintr = s.lintr /\ t.msg = s.msg
    BY <1>0 DEF PortState, SameFlight
  <1> HIDE DEF t, r
  <1>5. PortGood(t)
    BY <1>0, <1>3, <1>4 DEF PortGood, IntrSound
  <1>6. /\ PortGood(r) /\ SameFlight(r, t) /\ r.ci = t.ci /\ r.sact = t.sact /\ r.bsy = t.bsy
        /\ r.waitforclear <=> t.waitforclear \/ (t.fre /\ err)
    BY <1>1, <1>5, FisWritten
  <1> QED BY <1>4, <1>6, <1>a DEF SameFlight, r

\* ahci_write_fis_d2h takes a command out of PxCI, or leaves it there with
\* an error, and clears BSY.
LEMMA D2hWritten ==
  ASSUME NEW s, PortGood(s), NEW slot \in Slots, NEW err \in BOOLEAN
  PROVE  LET r == ahci_write_fis_d2h(s, slot, err)
         IN /\ PortGood(r) /\ SameFlight(r, s) /\ r.sact = s.sact /\ ~r.bsy
            /\ r.ci = LeftOf(s.ci, slot, err)
            /\ r.waitforclear <=> s.waitforclear \/ (s.fre /\ err)
  <1> DEFINE a == IF err THEN s.ci ELSE s.ci \ {slot}
             no == FALSE
             t == [s EXCEPT !.ci = a, !.bsy = no, !.err = err]
             r == ahci_write_fis_d2h(s, slot, err)
  <1>0. s \in PortState /\ IntrSound(s)
    BY DEF PortGood
  <1>1. r = ahci_write_fis(t, {"DHR"}, err) /\ {"DHR"} \in SUBSET Irqs
    BY DEF ahci_write_fis_d2h, Irqs
  <1>2. a \in SUBSET Slots /\ no \in BOOLEAN /\ ~no
    BY <1>0 DEF PortState
  <1>a. a = LeftOf(s.ci, slot, err)
    BY DEF LeftOf
  <1> HIDE DEF a, no
  <1>3. t \in PortState
    BY <1>0, <1>2 DEF PortState
  <1>4. /\ SameFlight(t, s) /\ t.sact = s.sact /\ t.ci = a /\ t.bsy = no
        /\ t.waitforclear = s.waitforclear
        /\ t.is = s.is /\ t.ie = s.ie /\ t.hbais = s.hbais /\ t.ghcie = s.ghcie
        /\ t.lintr = s.lintr /\ t.msg = s.msg
    BY <1>0 DEF PortState, SameFlight
  <1> HIDE DEF t, r
  <1>5. PortGood(t)
    BY <1>0, <1>3, <1>4 DEF PortGood, IntrSound
  <1>6. /\ PortGood(r) /\ SameFlight(r, t) /\ r.ci = t.ci /\ r.sact = t.sact /\ r.bsy = t.bsy
        /\ r.waitforclear <=> t.waitforclear \/ (t.fre /\ err)
    BY <1>1, <1>5, FisWritten
  <1> QED BY <1>2, <1>4, <1>6, <1>a DEF SameFlight, r

\* ahci_write_fis_d2h_ncq takes an accepted command out of PxCI and clears
\* BSY.
LEMMA NcqWritten ==
  ASSUME NEW s, PortGood(s), NEW slot \in Slots
  PROVE  LET r == ahci_write_fis_d2h_ncq(s, slot)
         IN /\ PortGood(r) /\ SameFlight(r, s) /\ r.sact = s.sact /\ ~r.bsy /\ r.ci = s.ci \ {slot}
            /\ r.waitforclear = s.waitforclear
  <1> DEFINE a == s.ci \ {slot}
             no == FALSE
             t == [s EXCEPT !.ci = a, !.bsy = no, !.err = no]
             r == ahci_write_fis_d2h_ncq(s, slot)
  <1>0. s \in PortState /\ IntrSound(s)
    BY DEF PortGood
  <1>1. r = ahci_write_fis(t, {}, FALSE) /\ {} \in SUBSET Irqs
    BY DEF ahci_write_fis_d2h_ncq
  <1>2. a \in SUBSET Slots /\ no \in BOOLEAN /\ ~no
    BY <1>0 DEF PortState
  <1>a. a = s.ci \ {slot}
    OBVIOUS
  <1> HIDE DEF a, no
  <1>3. t \in PortState
    BY <1>0, <1>2 DEF PortState
  <1>4. /\ SameFlight(t, s) /\ t.sact = s.sact /\ t.ci = a /\ t.bsy = no
        /\ t.waitforclear = s.waitforclear
        /\ t.is = s.is /\ t.ie = s.ie /\ t.hbais = s.hbais /\ t.ghcie = s.ghcie
        /\ t.lintr = s.lintr /\ t.msg = s.msg
    BY <1>0 DEF PortState, SameFlight
  <1> HIDE DEF t, r
  <1>5. PortGood(t)
    BY <1>0, <1>3, <1>4 DEF PortGood, IntrSound
  <1>6. /\ PortGood(r) /\ SameFlight(r, t) /\ r.ci = t.ci /\ r.sact = t.sact /\ r.bsy = t.bsy
        /\ r.waitforclear <=> t.waitforclear \/ (t.fre /\ FALSE)
    BY <1>1, <1>5, FisWritten
  <1>7. r.waitforclear \in BOOLEAN /\ t.waitforclear \in BOOLEAN
    BY <1>3, <1>6 DEF PortGood, PortState
  <1> QED BY <1>2, <1>4, <1>6, <1>7, <1>a DEF SameFlight, r

\* No slot has two requests.
OneEach(s) == \A b, c \in s.busy : b.slot = c.slot => b = c
\* The pending slots are those of the requests, but x has none.
PendingBut(s, x) ==
  /\ \A b \in s.busy : b.slot \in s.pending /\ b.slot # x
  /\ \A y \in s.pending : y # x => \E b \in s.busy : b.slot = y
  /\ OneEach(s)
\* The pending slots are those of the requests.
PendingSlots(s) ==
  /\ \A b \in s.busy : b.slot \in s.pending
  /\ \A y \in s.pending : \E b \in s.busy : b.slot = y
  /\ OneEach(s)

\* The registers of the port are the same.
SameRegs(r, s) ==
  /\ r.st = s.st /\ r.cr = s.cr /\ r.fre = s.fre /\ r.bsy = s.bsy /\ r.waitforclear = s.waitforclear
  /\ r.ci = s.ci /\ r.sact = s.sact
\* The interrupt registers are the same.
SameIntr(r, s) ==
  /\ r.is = s.is /\ r.ie = s.ie /\ r.hbais = s.hbais /\ r.ghcie = s.ghcie /\ r.lintr = s.lintr
  /\ r.msg = s.msg

\* Interrupts are right as long as no register they depend on changes.
LEMMA GoodSame ==
  ASSUME NEW r \in PortState, NEW s, PortGood(s), SameIntr(r, s)
  PROVE  PortGood(r)
  BY DEF PortGood, SameIntr, IntrSound

\* ahci_check_stopped does nothing while the port runs or something is in
\* flight.
LEMMA Checked ==
  ASSUME NEW s, PortGood(s)
  PROVE  LET r == ahci_check_stopped(s)
         IN /\ PortGood(r)
            /\ s.st \/ s.pending # {} => r = s
            /\ ~s.st /\ s.pending = {} =>
                 ~r.st /\ ~r.cr /\ r.ci = {} /\ r.pending = {} /\ r.busy = s.busy
  <1> DEFINE no == FALSE
             e == {}
             z == 0
             t == [s EXCEPT !.ccs = z, !.cr = no, !.ci = e, !.sact = e, !.waitforclear = no]
  <1>1. ahci_check_stopped(s) = IF s.st \/ s.pending # {} THEN s ELSE t
    BY DEF ahci_check_stopped
  <1>2. no \in BOOLEAN /\ ~no /\ e \in SUBSET Slots /\ e = {}
    OBVIOUS
  <1>3. z \in Slots
    BY AhciConstants DEF Slots
  <1>0. s \in PortState
    BY DEF PortGood
  <1> HIDE DEF no, e, z
  <1>4. t \in PortState
    BY <1>0, <1>2, <1>3 DEF PortState
  <1>5. SameIntr(t, s) /\ t.st = s.st /\ t.cr = no /\ t.ci = e /\ t.pending = s.pending
        /\ t.busy = s.busy
    BY <1>0 DEF PortState, SameIntr
  <1> HIDE DEF t
  <1>6. PortGood(t)
    BY <1>4, <1>5, GoodSame
  <1> QED BY <1>1, <1>2, <1>5, <1>6

\* A request for a slot that has none.
LEMMA Taken ==
  ASSUME NEW s, PortGood(s), NEW x \in Slots, PendingBut(s, x), NEW more \in BOOLEAN
  PROVE  LET r == Take(s, x, more)
         IN PortGood(r) /\ PendingSlots(r) /\ SameRegs(r, s) /\ r.pending = s.pending \cup {x}
  <1> DEFINE q == [slot |-> x, io |-> "queued", more |-> more, older |-> {b.slot : b \in s.busy}]
             B == s.busy \cup {q}
             P == s.pending \cup {x}
             r == [s EXCEPT !.pending = P, !.busy = B]
  <1>1. r = Take(s, x, more)
    BY DEF Take
  <1>0. s \in PortState
    BY DEF PortGood
  <1>b. s.busy \in SUBSET PortRequest /\ s.pending \in SUBSET Slots
    BY <1>0 DEF PortState
  <1>2. q \in PortRequest
    <2>1. {b.slot : b \in s.busy} \subseteq Slots
      BY <1>b DEF PortRequest
    <2> QED BY <2>1 DEF PortRequest
  <1>3. q.slot = x
    OBVIOUS
  <1> HIDE DEF q
  <1>4. B \in SUBSET PortRequest /\ P \in SUBSET Slots
    BY <1>b, <1>2
  <1>5. /\ \A b \in B : b.slot \in P
        /\ \A y \in P : \E b \in B : b.slot = y
        /\ \A b, c \in B : b.slot = c.slot => b = c
    BY <1>3 DEF PendingBut, OneEach
  <1> HIDE DEF B
  <1>p. P = s.pending \cup {x}
    OBVIOUS
  <1> HIDE DEF P
  <1>6. r \in PortState
    BY <1>0, <1>4 DEF PortState
  <1>7. SameIntr(r, s) /\ SameRegs(r, s) /\ r.pending = P /\ r.busy = B
    BY <1>0 DEF PortState, SameIntr, SameRegs
  <1> HIDE DEF r
  <1>8. PortGood(r)
    BY <1>6, <1>7, GoodSame
  <1> QED BY <1>1, <1>5, <1>7, <1>8, <1>p DEF PendingSlots, OneEach

\* A list without some of its requests holds the other ones, once each.
LEMMA Removed ==
  ASSUME NEW B \in SUBSET PortRequest, NEW gone \in SUBSET B, \A b, c \in B : b.slot = c.slot => b = c
  PROVE  LET Ws == Without(B, gone)
         IN /\ Ws \in SUBSET PortRequest
            /\ \A w \in Ws : \E b \in B \ gone : b.slot = w.slot
            /\ \A b \in B \ gone : \E w \in Ws : b.slot = w.slot
            /\ \A v, w \in Ws : v.slot = w.slot => v = w
  <1> DEFINE S == {c.slot : c \in gone}
             F(b) == [b EXCEPT !.older = b.older \ S]
             Ws == Without(B, gone)
  <1>1. Ws = {F(b) : b \in B \ gone}
    BY DEF Without
  <1>2. ASSUME NEW b \in PortRequest
        PROVE  F(b) \in PortRequest /\ F(b).slot = b.slot
    <2> HIDE DEF S
    <2> QED BY <1>2 DEF PortRequest
  <1> HIDE DEF F, Ws
  <1>3. \A w \in Ws : w \in PortRequest /\ \E b \in B \ gone : w = F(b) /\ b.slot = w.slot
    BY <1>1, <1>2
  <1>4. \A b \in B \ gone : F(b) \in Ws /\ b.slot = F(b).slot
    BY <1>1, <1>2
  <1>5. \A v, w \in Ws : v.slot = w.slot => v = w
    BY <1>3
  <1> QED BY <1>3, <1>4, <1>5 DEF Ws

\* Running, InFlight and NotBegun, of a state s, commands cf and a loop lp.
Controlled(s, cf, lp) ==
  /\ s.st => s.cr /\ s.fre
  /\ s.cr /\ ~s.st => s.pending # {}
  /\ ~s.cr => s.pending = {} /\ (s.ci = {} \/ s.waitforclear)
  /\ s.st =>
      /\ s.bsy => \E y \in s.pending : ~ncq(cf[y])
      /\ \A y \in s.pending : IF ncq(cf[y]) THEN y \in s.sact \ s.ci ELSE y \in s.ci
  /\ s.st /\ ~s.waitforclear =>
      /\ ~lp /\ ~s.bsy => s.ci \subseteq s.pending
      /\ \A y \in s.ci : ncq(cf[y]) => y \in s.sact
      /\ \A y \in s.ci \ s.pending :
           cf[y] \in {"SRST_ON", "SRST_OFF"} => lp /\ ~s.bsy /\ s.ci \cup s.sact = {y}

\* AhciInv, of its state.
PortSound(s, cf, lp) == PortGood(s) /\ PendingSlots(s) /\ (Careful => Controlled(s, cf, lp))

\* What a finished loop guarantees holds when a new one begins.
LEMMA ControlLoops ==
  ASSUME NEW s, NEW cf, Controlled(s, cf, FALSE)
  PROVE  Controlled(s, cf, TRUE)
  BY DEF Controlled

\* What is in flight, PxCMD, PxCI, PxSACT, BSY and an error are all that counts.
LEMMA ControlSame ==
  ASSUME NEW s, NEW r, NEW cf, NEW lp, Controlled(s, cf, lp), SameRegs(r, s), r.pending = s.pending
  PROVE  Controlled(r, cf, lp)
  BY DEF Controlled, SameRegs

\* The list and the pending slots are all that counts.
LEMMA PendSame ==
  ASSUME NEW s, NEW r, PendingSlots(s), r.pending = s.pending, r.busy = s.busy
  PROVE  PendingSlots(r)
  BY DEF PendingSlots, OneEach

\* A slot that is not pending has no request.
LEMMA PendSkips ==
  ASSUME NEW s, PendingSlots(s), NEW x, x \notin s.pending
  PROVE  PendingBut(s, x)
  BY DEF PendingSlots, PendingBut

\* A slot that has no request any more is no longer pending.
LEMMA PendEnds ==
  ASSUME NEW s, NEW r, NEW x, PendingBut(s, x), r.pending = s.pending \ {x}, r.busy = s.busy
  PROVE  PendingSlots(r)
  BY DEF PendingSlots, PendingBut, OneEach

\* A callback takes its request from the list.
LEMMA IoRemoved ==
  ASSUME NEW s, PortGood(s), PendingSlots(s), NEW b \in s.busy
  PROVE  LET r == [s EXCEPT !.busy = Without(@, {b})]
         IN PortGood(r) /\ SameRegs(r, s) /\ r.pending = s.pending /\ PendingBut(r, b.slot)
            /\ b.slot \in s.pending
  <1> DEFINE Ws == Without(s.busy, {b})
             r == [s EXCEPT !.busy = Ws]
  <1>0. s \in PortState
    BY DEF PortGood
  <1>1. s.busy \in SUBSET PortRequest /\ {b} \in SUBSET s.busy
    BY <1>0 DEF PortState
  <1>2. /\ Ws \in SUBSET PortRequest
        /\ \A w \in Ws : \E c \in s.busy \ {b} : c.slot = w.slot
        /\ \A c \in s.busy \ {b} : \E w \in Ws : c.slot = w.slot
        /\ \A v, w \in Ws : v.slot = w.slot => v = w
    <2>1. \A c, d \in s.busy : c.slot = d.slot => c = d
      BY DEF PendingSlots, OneEach
    <2> QED BY <1>1, <2>1, Removed
  <1> HIDE DEF Ws
  <1>3. r \in PortState
    BY <1>0, <1>2 DEF PortState
  <1>4. SameIntr(r, s) /\ SameRegs(r, s) /\ r.pending = s.pending /\ r.busy = Ws
    BY <1>0 DEF PortState, SameIntr, SameRegs
  <1>e. [s EXCEPT !.busy = Without(@, {b})] = r
    BY DEF Ws
  <1> HIDE DEF r
  <1>5. PortGood(r)
    BY <1>3, <1>4, GoodSame
  <1>6. b.slot \in s.pending
    BY DEF PendingSlots
  <1>7. PendingBut(r, b.slot)
    <2>1. \A w \in Ws : w.slot \in s.pending /\ w.slot # b.slot
      BY <1>2 DEF PendingSlots, OneEach
    <2>2. \A y \in s.pending : y # b.slot => \E w \in Ws : w.slot = y
      BY <1>2 DEF PendingSlots
    <2> QED BY <1>2, <1>4, <2>1, <2>2 DEF PendingBut, OneEach
  <1> QED BY <1>4, <1>5, <1>6, <1>7, <1>e

\* ahci_handle_cmd sets BSY.
LEMMA SlotBusy ==
  ASSUME NEW s, PortGood(s)
  PROVE  LET r == [s EXCEPT !.bsy = TRUE]
         IN /\ PortGood(r) /\ r.bsy /\ r.st = s.st /\ r.cr = s.cr /\ r.fre = s.fre
            /\ r.pending = s.pending
            /\ r.busy = s.busy /\ r.ci = s.ci /\ r.sact = s.sact /\ r.waitforclear = s.waitforclear
  <1> DEFINE yes == TRUE
             r == [s EXCEPT !.bsy = yes]
  <1>0. s \in PortState
    BY DEF PortGood
  <1>1. yes \in BOOLEAN /\ yes
    OBVIOUS
  <1> HIDE DEF yes
  <1>2. r \in PortState
    BY <1>0, <1>1 DEF PortState
  <1>3. /\ SameIntr(r, s) /\ r.bsy = yes /\ r.st = s.st /\ r.cr = s.cr /\ r.fre = s.fre
        /\ r.pending = s.pending
        /\ r.busy = s.busy /\ r.ci = s.ci /\ r.sact = s.sact /\ r.waitforclear = s.waitforclear
    BY <1>0 DEF PortState, SameIntr
  <1>e. r = [s EXCEPT !.bsy = TRUE]
    BY DEF yes
  <1> HIDE DEF r
  <1>4. PortGood(r)
    BY <1>2, <1>3, GoodSame
  <1> QED BY <1>1, <1>3, <1>4, <1>e

\* How a command without I/O can end.
LEMMA EndsAre ==
  ASSUME NEW c, NEW e \in Ends(c)
  PROVE  e \in {"ok", "ABRT", "asc20", "asc24", "asc39", "asc53"}
  <1>1. handle_packet_cmd(c) \subseteq {"ok", "asc20", "asc24", "asc39", "asc53"}
    BY DEF handle_packet_cmd, atapi_inquiry, atapi_read_toc, atapi_start_stop_unit, atapi_mode_sense,
           atapi_get_event_status_notification, atapi_read_capacity, atapi_report_luns, atapi_request_sense
  <1>2. /\ handle_identify \subseteq {"ok", "ABRT"}
        /\ handle_atapi_identify \subseteq {"ok", "ABRT"}
        /\ handle_setfeatures \subseteq {"ok", "ABRT"}
        /\ ahci_handle_read_log \subseteq {"ok", "ABRT"}
    BY DEF handle_identify, handle_atapi_identify, handle_setfeatures, ahci_handle_read_log
  <1>3. \/ Ends(c) = handle_identify \/ Ends(c) = handle_atapi_identify \/ Ends(c) = handle_setfeatures
        \/ Ends(c) = ahci_handle_read_log \/ Ends(c) = {"ok"} \/ Ends(c) = {"ABRT"} \/ Ends(c) = handle_packet_cmd(c)
    BY DEF Ends
  <1> QED BY <1>1, <1>2, <1>3

\* ahci_handle_rw for a new command: one request more; a queued command is
\* accepted.
LEMMA RwFirst ==
  ASSUME NEW s, PortGood(s), NEW x \in Slots, PendingBut(s, x), NEW t \in ahci_handle_rw(s, x, TRUE)
  PROVE  /\ PortGood(t) /\ PendingSlots(t) /\ t.pending = s.pending \cup {x}
         /\ t.st = s.st /\ t.cr = s.cr /\ t.fre = s.fre /\ t.waitforclear = s.waitforclear
         /\ t.sact = s.sact
         /\ ncq(cfis[x]) => ~t.bsy /\ t.ci = s.ci \ {x}
         /\ ~ncq(cfis[x]) => t.bsy = s.bsy /\ t.ci = s.ci
  <1>1. PICK more \in BOOLEAN :
          t = IF ncq(cfis[x]) THEN ahci_write_fis_d2h_ncq(Take(s, x, more), x) ELSE Take(s, x, more)
    BY DEF ahci_handle_rw
  <1> DEFINE un == Take(s, x, more)
  <1>2. PortGood(un) /\ PendingSlots(un) /\ SameRegs(un, s) /\ un.pending = s.pending \cup {x}
    BY Taken
  <1> HIDE DEF un
  <1>3. CASE ncq(cfis[x])
    <2>1. t = ahci_write_fis_d2h_ncq(un, x)
      BY <1>1, <1>3 DEF un
    <2>2. /\ PortGood(t) /\ SameFlight(t, un) /\ t.sact = un.sact /\ ~t.bsy /\ t.ci = un.ci \ {x}
          /\ t.waitforclear = un.waitforclear
      BY <1>2, <2>1, NcqWritten
    <2>3. PendingSlots(t)
      BY <1>2, <2>2, PendSame DEF SameFlight
    <2> QED BY <1>2, <1>3, <2>2, <2>3 DEF SameFlight, SameRegs
  <1>4. CASE ~(ncq(cfis[x]))
    <2>1. t = un
      BY <1>1, <1>4 DEF un
    <2> QED BY <1>2, <1>4, <2>1 DEF SameRegs
  <1> QED BY <1>3, <1>4

\* ahci_handle_rw for the rest of a command.
LEMMA RwAgain ==
  ASSUME NEW s, PortGood(s), NEW x \in Slots, PendingBut(s, x), NEW t \in ahci_handle_rw(s, x, FALSE)
  PROVE  /\ PortGood(t) /\ PendingSlots(t) /\ t.pending = s.pending \cup {x} /\ SameRegs(t, s)
  <1>1. PICK more \in BOOLEAN : t = Take(s, x, more)
    BY DEF ahci_handle_rw
  <1> QED BY <1>1, Taken

\* ahci_write_fis_d2h without an error.
LEMMA D2hSucceeds ==
  ASSUME NEW s, PortGood(s), NEW x \in Slots
  PROVE  LET r == ahci_write_fis_d2h(s, x, FALSE)
         IN /\ PortGood(r) /\ SameFlight(r, s) /\ r.sact = s.sact /\ ~r.bsy /\ r.ci = s.ci \ {x}
            /\ r.waitforclear <=> s.waitforclear
  <1> DEFINE no == FALSE
             r == ahci_write_fis_d2h(s, x, no)
  <1>1. no \in BOOLEAN /\ ~no
    OBVIOUS
  <1>e. r = ahci_write_fis_d2h(s, x, FALSE)
    OBVIOUS
  <1> HIDE DEF no
  <1>2. /\ PortGood(r) /\ SameFlight(r, s) /\ r.sact = s.sact /\ ~r.bsy
        /\ r.ci = LeftOf(s.ci, x, no)
        /\ r.waitforclear <=> s.waitforclear \/ (s.fre /\ no)
    BY <1>1, D2hWritten
  <1> HIDE DEF r
  <1> QED BY <1>1, <1>2, <1>e DEF LeftOf

\* A slot stops being pending.
LEMMA Dropped ==
  ASSUME NEW s, PortGood(s), NEW x, PendingBut(s, x)
  PROVE  LET r == [s EXCEPT !.pending = @ \ {x}]
         IN PortGood(r) /\ PendingSlots(r) /\ SameRegs(r, s) /\ r.pending = s.pending \ {x}
  <1> DEFINE P == s.pending \ {x}
             r == [s EXCEPT !.pending = P]
  <1>0. s \in PortState
    BY DEF PortGood
  <1>1. P \in SUBSET Slots /\ P = s.pending \ {x}
    BY <1>0 DEF PortState
  <1> HIDE DEF P
  <1>2. r \in PortState
    BY <1>0, <1>1 DEF PortState
  <1>3. SameIntr(r, s) /\ SameRegs(r, s) /\ r.pending = P /\ r.busy = s.busy
    BY <1>0 DEF PortState, SameIntr, SameRegs
  <1>e. r = [s EXCEPT !.pending = @ \ {x}]
    BY DEF P
  <1> HIDE DEF r
  <1>4. PortGood(r)
    BY <1>2, <1>3, GoodSame
  <1>5. PendingSlots(r)
    BY <1>1, <1>3, PendEnds
  <1> QED BY <1>1, <1>3, <1>4, <1>5, <1>e

\* The sense code is not part of the control state.
LEMMA AscSet ==
  ASSUME NEW s, PortGood(s), NEW a \in {"ok", "asc20", "asc21", "asc24", "asc39", "asc53"}
  PROVE  LET r == [s EXCEPT !.asc = a]
         IN PortGood(r) /\ SameRegs(r, s) /\ r.pending = s.pending /\ r.busy = s.busy
  <1> DEFINE r == [s EXCEPT !.asc = a]
  <1>0. s \in PortState
    BY DEF PortGood
  <1>2. r \in PortState
    BY <1>0 DEF PortState
  <1>3. SameIntr(r, s) /\ SameRegs(r, s) /\ r.pending = s.pending /\ r.busy = s.busy
    BY <1>0 DEF PortState, SameIntr, SameRegs
  <1> HIDE DEF r
  <1>4. PortGood(r)
    BY <1>2, <1>3, GoodSame
  <1> QED BY <1>3, <1>4 DEF r

\* What a command leaves that ends, with or without an error.
EndOfCommand(t, s, x, c, err) ==
  /\ PortGood(t) /\ PendingSlots(t) /\ t.pending = s.pending \ {x}
  /\ t.st = s.st /\ t.cr = s.cr /\ t.fre = s.fre
  /\ t.waitforclear <=> s.waitforclear \/ (s.fre /\ err)
  /\ EndsBySdb(c) => t.ci = s.ci /\ t.bsy = s.bsy /\ t.sact = LeftOf(s.sact, x, err)
  /\ ~EndsBySdb(c) => ~t.bsy /\ t.sact = s.sact /\ t.ci = LeftOf(s.ci, x, err)

\* The end of a request: the port goes on, or it has stopped with the last
\* one.
LEMMA EndControl ==
  ASSUME NEW s, PortSound(s, cfis, FALSE), NEW x \in s.pending, NEW err \in BOOLEAN,
         NEW t, EndOfCommand(t, s, x, cfis[x], err)
  PROVE  PortSound(ahci_check_stopped(t), cfis, TRUE) /\ x \notin ahci_check_stopped(t).pending
  <1> DEFINE r == ahci_check_stopped(t)
  <1>1. /\ PortGood(r)
        /\ t.st \/ t.pending # {} => r = t
        /\ ~t.st /\ t.pending = {} => ~r.st /\ ~r.cr /\ r.ci = {} /\ r.pending = {} /\ r.busy = t.busy
    BY Checked DEF EndOfCommand
  <1> HIDE DEF r
  <1>2. PendingSlots(r)
    <2>1. CASE t.st \/ t.pending # {}
      BY <1>1, <2>1 DEF EndOfCommand
    <2>2. CASE ~t.st /\ t.pending = {}
      BY <1>1, <2>2, PendSame DEF EndOfCommand
    <2> QED BY <2>1, <2>2
  <1>3. ASSUME Careful
        PROVE  Controlled(r, cfis, TRUE)
    <2>0. Controlled(s, cfis, FALSE)
      BY <1>3 DEF PortSound
    <2>1. CASE ~t.st /\ t.pending = {}
      BY <1>1, <2>1 DEF Controlled
    <2>2. CASE ~t.st /\ t.pending # {}
      BY <1>1, <2>0, <2>2 DEF Controlled, EndOfCommand
    <2>3. CASE t.st /\ EndsBySdb(cfis[x])
      <3>1. /\ r = t /\ s.st /\ t.pending = s.pending \ {x} /\ t.ci = s.ci /\ t.bsy = s.bsy
            /\ t.sact = LeftOf(s.sact, x, err) /\ t.cr = s.cr /\ t.fre = s.fre
            /\ t.waitforclear <=> s.waitforclear \/ (s.fre /\ err)
        BY <1>1, <2>3 DEF EndOfCommand
      <3> QED BY <2>0, <2>3, <3>1 DEF Controlled, LeftOf, EndsBySdb
    <2>4. CASE t.st /\ ~EndsBySdb(cfis[x])
      <3>1. /\ r = t /\ s.st /\ t.pending = s.pending \ {x} /\ t.sact = s.sact /\ ~t.bsy
            /\ t.ci = LeftOf(s.ci, x, err) /\ t.cr = s.cr /\ t.fre = s.fre
            /\ t.waitforclear <=> s.waitforclear \/ (s.fre /\ err)
        BY <1>1, <2>4 DEF EndOfCommand
      <3> QED BY <2>0, <2>4, <3>1 DEF Controlled, LeftOf
    <2> QED BY <2>1, <2>2, <2>3, <2>4
  <1>4. x \notin r.pending
    BY <1>1 DEF EndOfCommand
  <1> QED BY <1>1, <1>2, <1>3, <1>4 DEF PortSound, r

\* ata_ioreq_cb and atapi_ioreq_cb, with the next part of the command or its
\* end.
LEMMA CallbackControl ==
  ASSUME PortSound(sc, cfis, FALSE), NEW b \in sc.busy, NEW err \in BOOLEAN, ioreq_cb(b, err)
  PROVE  PortSound(sc', cfis, b.slot \notin sc'.pending)
  <1> DEFINE x == b.slot
             c == cfis[x]
             n == EndsBySdb(c)
             s == [sc EXCEPT !.busy = Without(@, {b})]
             f == IF EndsBySdb(c) THEN ahci_write_fis_sdb(s, x, err) ELSE ahci_write_fis_d2h(s, x, err)
             a == IF Atapi /\ err THEN "asc21" ELSE f.asc
  <1>1. PortGood(sc) /\ PendingSlots(sc)
    BY DEF PortSound
  <1>2. PortGood(s) /\ SameRegs(s, sc) /\ s.pending = sc.pending /\ PendingBut(s, x)
        /\ x \in sc.pending
    BY <1>1, IoRemoved
  <1>3. x \in Slots
    BY <1>1, <1>2 DEF PortGood, PortState
  <1>4. /\ ~err /\ b.more => sc' \in IF c = "TRIM" /\ ~Atapi THEN ahci_handle_dsm_trim(s, x, FALSE)
                                   ELSE ahci_handle_rw(s, x, FALSE)
        /\ ~(~err /\ b.more) => sc' = ahci_check_stopped([f EXCEPT !.pending = @ \ {x}, !.asc = IF Atapi /\ err THEN "asc21" ELSE @])
    BY DEF ioreq_cb
  <1>n. n = EndsBySdb(c) /\ c = cfis[x] /\ n \in BOOLEAN
    BY DEF EndsBySdb
  <1> HIDE DEF s, x, n
  <1>5. ASSUME sc' \in ahci_handle_rw(s, x, FALSE)
        PROVE  PortSound(sc', cfis, x \notin sc'.pending)
    <2> DEFINE t == sc'
    <2>1. t \in ahci_handle_rw(s, x, FALSE)
      BY <1>5
    <2> HIDE DEF t
    <2>2. /\ PortGood(t) /\ PendingSlots(t) /\ t.pending = s.pending \cup {x}
          /\ SameRegs(t, s)
      BY <1>2, <1>3, <2>1, RwAgain
    <2>3. SameRegs(t, sc) /\ t.pending = sc.pending
      BY <1>2, <2>2 DEF SameRegs
    <2>4. ASSUME Careful
          PROVE  Controlled(t, cfis, FALSE)
      <3>1. Controlled(sc, cfis, FALSE)
        BY <2>4 DEF PortSound
      <3> QED BY <2>3, <3>1, ControlSame
    <2>5. (x \notin t.pending) = FALSE
      BY <2>2
    <2>6. PortSound(t, cfis, FALSE)
      BY <2>2, <2>4 DEF PortSound
    <2> QED BY <2>5, <2>6 DEF t
  <1>6. ASSUME sc' = ahci_check_stopped([ahci_write_fis_d2h(s, x, FALSE) EXCEPT !.pending = @ \ {x}]), ~EndsBySdb(c)
        PROVE  PortSound(sc', cfis, x \notin sc'.pending)
    <2> DEFINE fg == ahci_write_fis_d2h(s, x, FALSE)
               t == [fg EXCEPT !.pending = @ \ {x}]
    <2>1. /\ PortGood(fg) /\ SameFlight(fg, s) /\ fg.sact = s.sact /\ ~fg.bsy /\ fg.ci = s.ci \ {x}
          /\ fg.waitforclear <=> s.waitforclear
      BY <1>2, <1>3, D2hSucceeds
    <2>2. PendingBut(fg, x)
      BY <1>2, <2>1 DEF PendingBut, SameFlight, OneEach
    <2> HIDE DEF fg
    <2>3. PortGood(t) /\ PendingSlots(t) /\ SameRegs(t, fg) /\ t.pending = fg.pending \ {x}
      BY <2>1, <2>2, Dropped
    <2> HIDE DEF t
    <2>4. EndOfCommand(t, sc, x, c, FALSE)
      BY <1>2, <1>6, <2>1, <2>3 DEF EndOfCommand, SameFlight, SameRegs, LeftOf
    <2>5. sc' = ahci_check_stopped(t)
      BY <1>6 DEF t, fg
    <2>6. PortSound(ahci_check_stopped(t), cfis, TRUE) /\ x \notin ahci_check_stopped(t).pending
      BY <1>2, <2>4, EndControl
    <2>7. (x \notin sc'.pending) = TRUE
      BY <2>5, <2>6
    <2> QED BY <2>5, <2>6, <2>7
  <1>7. ASSUME ~(~err /\ b.more)
        PROVE  PortSound(sc', cfis, x \notin sc'.pending)
    <2> DEFINE fg == [f EXCEPT !.pending = @ \ {x}]
               t == [fg EXCEPT !.asc = a]
    <2>1. /\ PortGood(f) /\ SameFlight(f, s)
          /\ f.waitforclear <=> s.waitforclear \/ (s.fre /\ err)
          /\ EndsBySdb(c) => f.ci = s.ci /\ f.bsy = s.bsy /\ f.sact = LeftOf(s.sact, x, err)
          /\ ~EndsBySdb(c) => ~f.bsy /\ f.sact = s.sact /\ f.ci = LeftOf(s.ci, x, err)
      <3>1. CASE EndsBySdb(c)
        <4> DEFINE r == ahci_write_fis_sdb(s, x, err)
        <4>1. f = r
          BY <3>1
        <4>2. /\ PortGood(r) /\ SameFlight(r, s) /\ r.ci = s.ci /\ r.bsy = s.bsy
              /\ r.sact = LeftOf(s.sact, x, err)
              /\ r.waitforclear <=> s.waitforclear \/ (s.fre /\ err)
          BY <1>2, <1>3, SdbWritten
        <4> HIDE DEF f, r
        <4> QED BY <3>1, <4>1, <4>2
      <3>2. CASE ~EndsBySdb(c)
        <4> DEFINE r == ahci_write_fis_d2h(s, x, err)
        <4>1. f = r
          BY <3>2
        <4>2. /\ PortGood(r) /\ SameFlight(r, s) /\ r.sact = s.sact /\ ~r.bsy
              /\ r.ci = LeftOf(s.ci, x, err)
              /\ r.waitforclear <=> s.waitforclear \/ (s.fre /\ err)
          BY <1>2, <1>3, D2hWritten
        <4> HIDE DEF f, r
        <4> QED BY <3>2, <4>1, <4>2
      <3> QED BY <3>1, <3>2
    <2>2. PendingBut(f, x)
      <3> HIDE DEF f
      <3> QED BY <1>2, <2>1 DEF PendingBut, SameFlight, OneEach
    <2>e. sc' = ahci_check_stopped(t)
      <3>1. sc' = ahci_check_stopped([f EXCEPT !.pending = @ \ {x}, !.asc = IF Atapi /\ err THEN "asc21" ELSE @])
        BY <1>4, <1>7
      <3> HIDE DEF f
      <3>2. f \in PortState
        BY <2>1 DEF PortGood
      <3>3. [f EXCEPT !.pending = @ \ {x}, !.asc = IF Atapi /\ err THEN "asc21" ELSE @] = t
        BY <3>2 DEF PortState
      <3> QED BY <3>1, <3>3
    <2>a. a \in {"ok", "asc20", "asc21", "asc24", "asc39", "asc53"}
      <3> HIDE DEF f
      <3> QED BY <2>1 DEF PortGood, PortState
    <2> HIDE DEF f, a
    <2>3. PortGood(fg) /\ PendingSlots(fg) /\ SameRegs(fg, f) /\ fg.pending = f.pending \ {x}
      BY <2>1, <2>2, Dropped
    <2> HIDE DEF fg
    <2>4. PortGood(t) /\ SameRegs(t, fg) /\ t.pending = fg.pending /\ t.busy = fg.busy
      BY <2>3, <2>a, AscSet
    <2> HIDE DEF t
    <2>5. PendingSlots(t)
      BY <2>3, <2>4, PendSame
    <2>6. EndOfCommand(t, sc, x, c, err)
      <3> HIDE DEF c
      <3> QED BY <1>2, <2>1, <2>3, <2>4, <2>5 DEF EndOfCommand, SameFlight, SameRegs
    <2>7. PortSound(ahci_check_stopped(t), cfis, TRUE) /\ x \notin ahci_check_stopped(t).pending
      BY <1>2, <2>6, EndControl
    <2>8. (x \notin sc'.pending) = TRUE
      BY <2>e, <2>7
    <2> QED BY <2>e, <2>7, <2>8
  <1>8. ASSUME ~err /\ b.more
        PROVE  PortSound(sc', cfis, x \notin sc'.pending)
    <2>1. CASE c = "TRIM" /\ ~Atapi
      <3>1. ~EndsBySdb(c)
        BY <2>1 DEF ncq, EndsBySdb
      <3>2. \/ sc' \in ahci_handle_rw(s, x, FALSE)
            \/ sc' = ahci_check_stopped([ahci_write_fis_d2h(s, x, FALSE) EXCEPT !.pending = @ \ {x}])
        BY <1>4, <1>8, <2>1 DEF ahci_handle_dsm_trim
      <3> QED BY <1>5, <1>6, <3>1, <3>2
    <2>2. CASE ~(c = "TRIM" /\ ~Atapi)
      BY <1>4, <1>5, <1>8, <2>2
    <2> QED BY <2>1, <2>2
  <1> QED BY <1>7, <1>8 DEF x

\* A new command with I/O.
LEMMA RwControl ==
  ASSUME NEW s, PortSound(s, cfis, TRUE), s.st, ~s.bsy, ~s.waitforclear, NEW x \in s.ci \ s.pending,
         cfis[x] \notin {"SRST_ON", "SRST_OFF"},
         NEW t \in ahci_handle_rw([s EXCEPT !.bsy = TRUE], x, TRUE)
  PROVE  PortSound(t, cfis, TRUE)
  <1> DEFINE un == [s EXCEPT !.bsy = TRUE]
  <1>1. PortGood(s) /\ PendingSlots(s)
    BY DEF PortSound
  <1>2. x \in Slots
    BY <1>1 DEF PortGood, PortState
  <1>3. /\ PortGood(un) /\ un.bsy /\ un.st = s.st /\ un.cr = s.cr /\ un.fre = s.fre
        /\ un.pending = s.pending
        /\ un.busy = s.busy /\ un.ci = s.ci /\ un.sact = s.sact /\ un.waitforclear = s.waitforclear
    BY <1>1, SlotBusy
  <1>x. t \in ahci_handle_rw(un, x, TRUE)
    OBVIOUS
  <1> HIDE DEF un
  <1>4. PendingBut(un, x)
    BY <1>1, <1>3, PendSkips DEF PendingBut, OneEach
  <1>5. /\ PortGood(t) /\ PendingSlots(t) /\ t.pending = un.pending \cup {x}
        /\ t.st = un.st /\ t.cr = un.cr /\ t.fre = un.fre /\ t.waitforclear = un.waitforclear
        /\ t.sact = un.sact
        /\ ncq(cfis[x]) => ~t.bsy /\ t.ci = un.ci \ {x}
        /\ ~ncq(cfis[x]) => t.bsy = un.bsy /\ t.ci = un.ci
    BY <1>2, <1>3, <1>4, <1>x, RwFirst
  <1>6. ASSUME Careful
        PROVE  Controlled(t, cfis, TRUE)
    <2>0. Controlled(s, cfis, TRUE)
      BY <1>6 DEF PortSound
    <2>1. \A y \in s.ci \ s.pending : cfis[y] \notin {"SRST_ON", "SRST_OFF"}
      BY <2>0 DEF Controlled
    <2>2. CASE ncq(cfis[x])
      BY <1>3, <1>5, <2>0, <2>1, <2>2 DEF Controlled
    <2>3. CASE ~ncq(cfis[x])
      BY <1>3, <1>5, <2>0, <2>1, <2>3 DEF Controlled
    <2> QED BY <2>2, <2>3
  <1> QED BY <1>5, <1>6 DEF PortSound

\* A command that ends at once.
LEMMA EndsNowControl ==
  ASSUME NEW s, PortSound(s, cfis, TRUE), s.st, ~s.bsy, ~s.waitforclear, NEW x \in s.ci \ s.pending,
         cfis[x] \notin {"SRST_ON", "SRST_OFF"}, NEW t, NEW err \in BOOLEAN, PortGood(t), SameFlight(t, s),
         t.sact = s.sact, ~t.bsy, t.ci = LeftOf(s.ci, x, err), t.waitforclear <=> s.waitforclear \/ (s.fre /\ err)
  PROVE  PortSound(t, cfis, TRUE)
  <1>1. PendingSlots(t)
    BY PendSame DEF PortSound, SameFlight
  <1>2. ASSUME Careful
        PROVE  Controlled(t, cfis, TRUE)
    <2>0. Controlled(s, cfis, TRUE)
      BY <1>2 DEF PortSound
    <2>1. \A y \in s.ci \ s.pending : cfis[y] \notin {"SRST_ON", "SRST_OFF"}
      BY <2>0 DEF Controlled
    <2> QED BY <2>0, <2>1 DEF Controlled, SameFlight, LeftOf
  <1> QED BY <1>1, <1>2 DEF PortSound

\* A software reset is alone, so that nothing is in flight.
LEMMA ResetControl ==
  ASSUME NEW s, PortSound(s, cfis, TRUE), s.st, ~s.bsy, ~s.waitforclear, NEW x \in s.ci \ s.pending,
         cfis[x] \in {"SRST_ON", "SRST_OFF"}, NEW t, t \in PortState, IntrSound(t), SameFlight(t, s),
         t.sact \subseteq s.sact, ~t.bsy, t.ci = s.ci \ {x}, t.waitforclear = s.waitforclear
  PROVE  PortSound(t, cfis, TRUE)
  <1>1. PendingSlots(t)
    BY PendSame DEF PortSound, SameFlight
  <1>2. ASSUME Careful
        PROVE  Controlled(t, cfis, TRUE)
    <2>0. Controlled(s, cfis, TRUE)
      BY <1>2 DEF PortSound
    <2>1. s.ci \cup s.sact = {x}
      BY <2>0 DEF Controlled
    <2>2. s.pending = {} /\ t.ci = {}
      BY <2>0, <2>1 DEF Controlled
    <2> QED BY <2>0, <2>2 DEF Controlled, SameFlight
  <1> QED BY <1>1, <1>2 DEF PortSound, PortGood

\* ahci_handle_slot.
LEMMA SlotControl ==
  ASSUME NEW s, PortSound(s, cfis, TRUE), s.st, ~s.bsy, ~s.waitforclear, NEW x \in s.ci \ s.pending,
         NEW t \in ahci_handle_slot(s, x)
  PROVE  PortSound(t, cfis, TRUE)
  <1> DEFINE c == cfis[x]
             no == FALSE
             yes == TRUE
             e == {}
             C == s.ci \ {x}
             un == [s EXCEPT !.bsy = TRUE]
  <1>0. PortGood(s) /\ PendingSlots(s) /\ s \in PortState /\ IntrSound(s)
    BY DEF PortSound, PortGood
  <1>1. x \in Slots /\ C \in SUBSET Slots /\ no \in BOOLEAN /\ ~no /\ yes \in BOOLEAN
        /\ e \in SUBSET Slots
    BY <1>0 DEF PortState
  <1>2. CASE c = "SRST_ON"
    <2> DEFINE r == [s EXCEPT !.reset = yes, !.ci = C]
    <2>1. t = r
      BY <1>2 DEF ahci_handle_slot
    <2>c. C = s.ci \ {x}
      OBVIOUS
    <2> HIDE DEF yes, C
    <2>2. r \in PortState
      BY <1>0, <1>1 DEF PortState
    <2>3. SameIntr(r, s) /\ SameFlight(r, s) /\ r.sact = s.sact /\ r.bsy = s.bsy /\ r.ci = C
          /\ r.waitforclear = s.waitforclear
      BY <1>0 DEF PortState, SameIntr, SameFlight
    <2> HIDE DEF r
    <2>4. IntrSound(r)
      BY <1>0, <2>3 DEF IntrSound, SameIntr
    <2> QED BY <1>2, <2>1, <2>2, <2>3, <2>4, <2>c, ResetControl
  <1>3. CASE c = "SRST_OFF"
    <2> DEFINE r1 == [s EXCEPT !.sact = e, !.bsy = no, !.err = no]
               r2 == [r1 EXCEPT !.reset = no, !.ci = C]
               r3 == [s EXCEPT !.reset = no, !.ci = C]
    <2>1. t = IF s.reset THEN r2 ELSE r3
      BY <1>3 DEF ahci_handle_slot, ahci_port_reset
    <2>c. C = s.ci \ {x} /\ e = {}
      OBVIOUS
    <2> HIDE DEF no, C, e
    <2>2. r1 \in PortState
      BY <1>0, <1>1 DEF PortState
    <2>3. SameIntr(r1, s) /\ SameFlight(r1, s) /\ r1.sact = e /\ r1.bsy = no
          /\ r1.waitforclear = s.waitforclear
      BY <1>0 DEF PortState, SameIntr, SameFlight
    <2> HIDE DEF r1
    <2>4. r2 \in PortState /\ r3 \in PortState
      BY <1>0, <1>1, <2>2 DEF PortState
    <2>5. SameIntr(r2, r1) /\ SameFlight(r2, r1) /\ r2.sact = r1.sact /\ r2.bsy = r1.bsy
          /\ r2.ci = C /\ r2.waitforclear = r1.waitforclear
      BY <2>2 DEF PortState, SameIntr, SameFlight
    <2>6. SameIntr(r3, s) /\ SameFlight(r3, s) /\ r3.sact = s.sact /\ r3.bsy = s.bsy
          /\ r3.ci = C /\ r3.waitforclear = s.waitforclear
      BY <1>0 DEF PortState, SameIntr, SameFlight
    <2> HIDE DEF r2, r3
    <2>7. IntrSound(r2) /\ IntrSound(r3)
      BY <1>0, <2>3, <2>5, <2>6 DEF IntrSound, SameIntr
    <2>8. PortSound(r3, cfis, TRUE)
      BY <1>3, <2>4, <2>6, <2>7, <2>c, ResetControl
    <2>9. SameFlight(r2, s) /\ r2.sact \subseteq s.sact /\ ~r2.bsy /\ r2.ci = s.ci \ {x}
          /\ r2.waitforclear = s.waitforclear
      BY <1>1, <2>3, <2>5, <2>c DEF SameFlight
    <2>10. PortSound(r2, cfis, TRUE)
      BY <1>3, <2>4, <2>7, <2>9, ResetControl
    <2> QED BY <2>1, <2>8, <2>10
  <1>4. CASE c \notin {"SRST_ON", "SRST_OFF"}
    <2>1. t \in ahci_handle_cmd(s, x)
      BY <1>4 DEF ahci_handle_slot
    <2>2. /\ PortGood(un) /\ un.bsy /\ un.st = s.st /\ un.cr = s.cr /\ un.fre = s.fre
          /\ un.pending = s.pending
          /\ un.busy = s.busy /\ un.ci = s.ci /\ un.sact = s.sact
          /\ un.waitforclear = s.waitforclear
      BY <1>0, SlotBusy
    <2>3. ASSUME t \in ahci_handle_rw(un, x, TRUE)
          PROVE  PortSound(t, cfis, TRUE)
      BY <1>4, <2>3, RwControl
    <2>4. \/ t \in ahci_handle_rw(un, x, TRUE)
          \/ c = "FLUSH" /\ t = Take(un, x, FALSE)
          \/ t = ahci_check_stopped([ahci_write_fis_d2h(un, x, FALSE) EXCEPT !.pending = @ \ {x}])
          \/ \E q \in Ends(c) : t = ahci_write_fis_d2h([un EXCEPT !.asc = IF q \in {"ok", "ABRT"} THEN @ ELSE q], x, q # "ok")
      <3>1. CASE c \in {"RW", "FPDMA"} \/ (c = "PACKET_READ" /\ Atapi)
        BY <2>1, <3>1 DEF ahci_handle_cmd
      <3>2. CASE c = "FLUSH"
        BY <2>1, <3>2 DEF ahci_handle_cmd, ahci_handle_flush
      <3>3. CASE c = "TRIM"
        BY <2>1, <3>3 DEF ahci_handle_cmd, ahci_handle_dsm_trim
      <3>4. CASE ~(c \in {"RW", "FPDMA"} \/ (c = "PACKET_READ" /\ Atapi)) /\ c # "FLUSH" /\ c # "TRIM"
        BY <2>1, <3>4 DEF ahci_handle_cmd
      <3> QED BY <3>1, <3>2, <3>3, <3>4
    <2> HIDE DEF un
    <2>5. PendingBut(un, x)
      BY <1>0, <2>2, PendSkips DEF PendingBut, OneEach
    <2>6. ASSUME c = "FLUSH", t = Take(un, x, FALSE)
          PROVE  PortSound(t, cfis, TRUE)
      <3>1. t \in {Take(un, x, more) : more \in BOOLEAN}
        BY <2>6
      <3>2. ~ncq(cfis[x])
        BY <2>6 DEF ncq
      <3>3. t \in ahci_handle_rw(un, x, TRUE)
        BY <3>1, <3>2 DEF ahci_handle_rw
      <3> QED BY <2>3, <3>3
    <2>7. ASSUME t = ahci_check_stopped([ahci_write_fis_d2h(un, x, FALSE) EXCEPT !.pending = @ \ {x}])
          PROVE  PortSound(t, cfis, TRUE)
      <3> DEFINE fg == ahci_write_fis_d2h(un, x, FALSE)
                 h == [fg EXCEPT !.pending = @ \ {x}]
      <3>1. /\ PortGood(fg) /\ SameFlight(fg, un) /\ fg.sact = un.sact /\ ~fg.bsy /\ fg.ci = un.ci \ {x}
            /\ fg.waitforclear <=> un.waitforclear
        BY <1>1, <2>2, D2hSucceeds
      <3> HIDE DEF fg
      <3>2. fg.pending \ {x} = fg.pending
        BY <2>2, <3>1 DEF SameFlight
      <3>3. h = fg
        BY <3>1, <3>2 DEF PortGood, PortState
      <3>4. t = ahci_check_stopped(h)
        BY <2>7 DEF fg
      <3>5. fg.st
        BY <2>2, <3>1 DEF SameFlight
      <3>6. t = fg
        BY <3>1, <3>3, <3>4, <3>5, Checked
      <3>7. no \in BOOLEAN /\ fg.ci = LeftOf(s.ci, x, no) /\ (fg.waitforclear <=> s.waitforclear \/ (s.fre /\ no)) /\ SameFlight(fg, s)
        BY <2>2, <3>1 DEF LeftOf, SameFlight
      <3> HIDE DEF no
      <3> QED BY <1>4, <2>2, <3>1, <3>6, <3>7, EndsNowControl
    <2>8. ASSUME NEW q \in Ends(c), t = ahci_write_fis_d2h([un EXCEPT !.asc = IF q \in {"ok", "ABRT"} THEN @ ELSE q], x, q # "ok")
          PROVE  PortSound(t, cfis, TRUE)
      <3> DEFINE a == IF q \in {"ok", "ABRT"} THEN un.asc ELSE q
                 v == [un EXCEPT !.asc = a]
                 err == q # "ok"
      <3>1. a \in {"ok", "asc20", "asc21", "asc24", "asc39", "asc53"} /\ err \in BOOLEAN
        <4>1. q \in {"ok", "ABRT", "asc20", "asc24", "asc39", "asc53"}
          BY EndsAre
        <4>2. un.asc \in {"ok", "asc20", "asc21", "asc24", "asc39", "asc53"}
          BY <2>2 DEF PortGood, PortState
        <4> QED BY <4>1, <4>2
      <3>2. t = ahci_write_fis_d2h(v, x, err)
        BY <2>8
      <3> HIDE DEF a, err
      <3>3. PortGood(v) /\ SameRegs(v, un) /\ v.pending = un.pending /\ v.busy = un.busy
        BY <2>2, <3>1, AscSet
      <3> HIDE DEF v
      <3>4. /\ PortGood(t) /\ SameFlight(t, v) /\ t.sact = v.sact /\ ~t.bsy
            /\ t.ci = LeftOf(v.ci, x, err)
            /\ t.waitforclear <=> v.waitforclear \/ (v.fre /\ err)
        BY <1>1, <3>1, <3>2, <3>3, D2hWritten
      <3>5. /\ SameFlight(t, s) /\ t.sact = s.sact /\ t.ci = LeftOf(s.ci, x, err)
            /\ t.waitforclear <=> s.waitforclear \/ (s.fre /\ err)
        BY <2>2, <3>3, <3>4 DEF SameFlight, SameRegs
      <3> QED BY <1>4, <3>1, <3>4, <3>5, EndsNowControl
    <2> QED BY <2>3, <2>4, <2>6, <2>7, <2>8
  <1> QED BY <1>2, <1>3, <1>4

\* A step of the loop of ahci_handle_port; when it ends, every command has
\* been begun, or BSY or an error is in the way.
LEMMA HandleControl ==
  ASSUME PortSound(sc, cfis, TRUE), ahci_handle_port
  PROVE  PortSound(sc', cfis, loop')
  <1>0. PortGood(sc) /\ PendingSlots(sc) /\ sc \in PortState
    BY DEF PortSound, PortGood
  <1>1. CASE ~sc.st \/ sc.ci \subseteq sc.pending \/ sc.bsy \/ sc.waitforclear
    <2>1. sc' = sc /\ loop' = FALSE
      BY <1>1 DEF ahci_handle_port
    <2>2. ASSUME Careful
          PROVE  Controlled(sc, cfis, FALSE)
      <3>1. Controlled(sc, cfis, TRUE)
        BY <2>2 DEF PortSound
      <3>2. CASE ~sc.st
        BY <3>1, <3>2 DEF Controlled
      <3>3. CASE sc.waitforclear
        BY <3>1, <3>3 DEF Controlled
      <3>4. CASE sc.st /\ sc.ci \subseteq sc.pending
        BY <3>1, <3>4 DEF Controlled
      <3>5. CASE sc.st /\ ~sc.waitforclear /\ sc.bsy
        BY <3>1, <3>5 DEF Controlled
      <3> QED BY <1>1, <3>2, <3>3, <3>4, <3>5
    <2>3. PortSound(sc, cfis, FALSE)
      BY <1>0, <2>2 DEF PortSound
    <2> QED BY <2>1, <2>3
  <1>2. CASE ~(~sc.st \/ sc.ci \subseteq sc.pending \/ sc.bsy \/ sc.waitforclear)
    <2>1. PICK t \in IF sc.ccs \in sc.ci \ sc.pending THEN ahci_handle_slot(sc, sc.ccs) ELSE {sc} :
            sc' = [t EXCEPT !.ccs = NextSlot(sc)]
      BY <1>2 DEF ahci_handle_port
    <2>2. loop' = loop /\ loop
      BY <1>2 DEF ahci_handle_port
    <2>3. PortSound(t, cfis, TRUE)
      <3>1. CASE sc.ccs \in sc.ci \ sc.pending
        <4>1. t \in ahci_handle_slot(sc, sc.ccs)
          BY <2>1, <3>1
        <4> QED BY <1>2, <3>1, <4>1, SlotControl
      <3>2. CASE sc.ccs \notin sc.ci \ sc.pending
        BY <2>1, <3>2
      <3> QED BY <3>1, <3>2
    <2>4. NextSlot(sc) \in Slots
      <3>1. sc.ccs \in 0 .. NSlots - 1
        BY <1>0 DEF PortState, Slots
      <3> DEFINE k == sc.ccs
      <3>2. k \in Nat
        BY <3>1, AhciConstants
      <3> HIDE DEF k
      <3>3. (k + 1) % NSlots \in 0 .. NSlots - 1
        BY <3>2, AhciConstants
      <3> QED BY <3>3 DEF NextSlot, Slots, k
    <2> DEFINE n == NextSlot(sc)
               r == [t EXCEPT !.ccs = n]
    <2>5. sc' = r
      BY <2>1
    <2> HIDE DEF n
    <2>6. PortGood(t) /\ PendingSlots(t) /\ t \in PortState
      BY <2>3 DEF PortSound, PortGood
    <2>7. r \in PortState
      BY <2>4, <2>6 DEF PortState, n
    <2>8. SameIntr(r, t) /\ SameRegs(r, t) /\ r.pending = t.pending /\ r.busy = t.busy
      BY <2>6 DEF PortState, SameIntr, SameRegs
    <2> HIDE DEF r
    <2>9. PortGood(r) /\ PendingSlots(r)
      BY <2>6, <2>7, <2>8, GoodSame, PendSame
    <2>10. Careful => Controlled(r, cfis, TRUE)
      BY <2>3, <2>8, ControlSame DEF PortSound
    <2>11. PortSound(r, cfis, TRUE)
      BY <2>9, <2>10 DEF PortSound
    <2>12. PortSound(r, cfis, loop)
      <3>1. loop => (Controlled(r, cfis, TRUE) => Controlled(r, cfis, loop))
        BY DEF Controlled
      <3> QED BY <2>2, <2>11, <3>1 DEF PortSound
    <2> QED BY <2>2, <2>5, <2>12
  <1> QED BY <1>1, <1>2

\* An I/O thread begins a request.
LEMMA BeginControl ==
  ASSUME NEW lp, PortSound(sc, cfis, lp), NEW b \in sc.busy, IoBegin(b)
  PROVE  PortSound(sc', cfis, lp)
  <1> DEFINE run == "running"
             w == [b EXCEPT !.io = run]
             B == (sc.busy \ {b}) \cup {w}
             r == [sc EXCEPT !.busy = B]
  <1>0. PortGood(sc) /\ PendingSlots(sc) /\ sc \in PortState
    BY DEF PortSound, PortGood
  <1>1. sc' = r
    BY DEF IoBegin
  <1>2. sc.busy \in SUBSET PortRequest /\ run \in {"queued", "running"}
    BY <1>0 DEF PortState
  <1> HIDE DEF run
  <1>3. w \in PortRequest /\ w.slot = b.slot
    BY <1>2 DEF PortRequest
  <1> HIDE DEF w
  <1>4. /\ B \in SUBSET PortRequest
        /\ \A c \in B : c.slot \in sc.pending
        /\ \A y \in sc.pending : \E c \in B : c.slot = y
        /\ \A c, d \in B : c.slot = d.slot => c = d
    BY <1>0, <1>2, <1>3 DEF PendingSlots, OneEach
  <1> HIDE DEF B
  <1>5. r \in PortState
    BY <1>0, <1>4 DEF PortState
  <1>6. SameIntr(r, sc) /\ SameRegs(r, sc) /\ r.pending = sc.pending /\ r.busy = B
    BY <1>0 DEF PortState, SameIntr, SameRegs
  <1> HIDE DEF r
  <1>7. PortGood(r)
    BY <1>0, <1>5, <1>6, GoodSame
  <1>8. PendingSlots(r)
    BY <1>4, <1>6 DEF PendingSlots, OneEach
  <1>9. Careful => Controlled(r, cfis, lp)
    BY <1>6, ControlSame DEF PortSound
  <1> QED BY <1>1, <1>7, <1>8, <1>9 DEF PortSound

\* The guest issues a command in a free slot.
LEMMA IssueControl ==
  ASSUME PortSound(sc, cfis, FALSE), cfis \in [Slots -> Cmds \cup {"none"}], NEW x \in Slots, NEW c \in Cmds, WriteCi(x, c)
  PROVE  PortSound(sc', cfis', TRUE)
  <1> DEFINE C == sc.ci \cup {x}
             A == IF ncq(c) THEN sc.sact \cup {x} ELSE sc.sact
             r == [sc EXCEPT !.ci = C, !.sact = A]
             cf == [cfis EXCEPT ![x] = c]
  <1>0. PortGood(sc) /\ PendingSlots(sc) /\ sc \in PortState
    BY DEF PortSound, PortGood
  <1>1. sc' = r /\ cfis' = cf
    BY DEF WriteCi
  <1>2. C \in SUBSET Slots /\ A \in SUBSET Slots
    BY <1>0 DEF PortState
  <1>3. C = sc.ci \cup {x} /\ (ncq(c) => A = sc.sact \cup {x}) /\ (~ncq(c) => A = sc.sact)
    OBVIOUS
  <1> HIDE DEF C, A
  <1>4. r \in PortState
    BY <1>0, <1>2 DEF PortState
  <1>5. /\ SameIntr(r, sc) /\ SameFlight(r, sc) /\ r.bsy = sc.bsy
        /\ r.waitforclear = sc.waitforclear
        /\ r.ci = C /\ r.sact = A
    BY <1>0 DEF PortState, SameIntr, SameFlight
  <1> HIDE DEF r
  <1>6. PortGood(r) /\ PendingSlots(r)
    BY <1>0, <1>4, <1>5, GoodSame, PendSame DEF SameFlight
  <1>7. ASSUME Careful
        PROVE  Controlled(r, cf, TRUE)
    <2>0. Controlled(sc, cfis, FALSE)
      BY <1>7 DEF PortSound
    <2>1. /\ x \notin sc.ci /\ x \notin sc.sact /\ sc.st
          /\ c \in {"SRST_ON", "SRST_OFF"} => sc.ci \cup sc.sact = {}
      BY <1>7 DEF WriteCi
    <2>2. x \notin sc.pending
      BY <2>0, <2>1 DEF Controlled
    <2>3. cf[x] = c /\ \A y \in Slots : y # x => cf[y] = cfis[y]
      OBVIOUS
    <2>t. sc.pending \subseteq Slots /\ sc.ci \subseteq Slots
      BY <1>0 DEF PortState
    <2> HIDE DEF cf
    <2>4. \A y \in sc.pending : cf[y] = cfis[y]
      BY <2>2, <2>3, <2>t
    <2>5. \A y \in sc.ci : cf[y] = cfis[y]
      BY <2>1, <2>3, <2>t
    <2>6. r.st => r.cr /\ r.fre
      BY <1>5, <2>0 DEF Controlled, SameFlight
    <2>7. r.bsy => \E y \in r.pending : ~ncq(cf[y])
      BY <1>5, <2>0, <2>1, <2>4 DEF Controlled, SameFlight
    <2>8. \A y \in r.pending : IF ncq(cf[y]) THEN y \in r.sact \ r.ci ELSE y \in r.ci
      BY <1>3, <1>5, <2>0, <2>1, <2>2, <2>4 DEF Controlled, SameFlight
    <2>9. ASSUME ~r.waitforclear, NEW y \in r.ci
          PROVE  ncq(cf[y]) => y \in r.sact
      <3>1. CASE y = x
        BY <1>3, <1>5, <2>3, <3>1
      <3>2. CASE y # x
        BY <1>3, <1>5, <2>0, <2>1, <2>5, <2>9, <3>2 DEF Controlled
      <3> QED BY <3>1, <3>2
    <2>10. ASSUME ~r.waitforclear, NEW y \in r.ci \ r.pending, cf[y] \in {"SRST_ON", "SRST_OFF"}
           PROVE  ~r.bsy /\ r.ci \cup r.sact = {y}
      <3>1. CASE y = x
        <4>1. c \in {"SRST_ON", "SRST_OFF"} /\ ~ncq(c)
          BY <2>3, <2>10, <3>1 DEF ncq
        <4>2. sc.ci = {} /\ sc.sact = {}
          BY <2>1, <4>1
        <4>3. ~sc.bsy
          BY <2>0, <2>1, <4>2 DEF Controlled
        <4> QED BY <1>3, <1>5, <3>1, <4>1, <4>2, <4>3
      <3>2. CASE y # x
        <4>1. y \in sc.ci \ sc.pending /\ cfis[y] \in {"SRST_ON", "SRST_OFF"}
          BY <1>3, <1>5, <2>5, <2>10, <3>2 DEF SameFlight
        <4> QED BY <1>5, <2>0, <2>1, <2>10, <4>1 DEF Controlled
      <3> QED BY <3>1, <3>2
    <2>11. r.st
      BY <1>5, <2>1 DEF SameFlight
    <2> QED BY <2>6, <2>7, <2>8, <2>9, <2>10, <2>11 DEF Controlled
  <1>8. PortSound(r, cf, TRUE)
    BY <1>6, <1>7 DEF PortSound
  <1> QED BY <1>1, <1>8

\* ahci_port_stop: the port has stopped unless a request was already begun.
LEMMA Stopped ==
  ASSUME NEW s, PortGood(s), PendingSlots(s), ~s.st
  PROVE  LET r == ahci_port_stop(s)
         IN /\ PortGood(r) /\ PendingSlots(r) /\ ~r.st
            /\ \/ r.pending = {} /\ ~r.cr /\ r.ci = {}
               \/ r.pending # {} /\ r.pending \subseteq s.pending /\ r.cr = s.cr
  <1> DEFINE gone == {b \in s.busy : b.io = "queued"}
             sticky == {b \in gone : \E c \in gone : ncq(cfis[c.slot]) /\ (c = b \/ b.slot \in c.older)}
             slots(I) == {b.slot : b \in I}
             A == s.sact \ slots(sticky)
             C == s.ci \ slots(gone \ sticky)
             G == slots(gone)
             P == s.pending \ G
             Ws == Without(s.busy, gone)
             t == [s EXCEPT !.sact = A, !.ci = C, !.pending = P, !.busy = Ws]
             r == ahci_port_stop(s)
  <1>0. s \in PortState
    BY DEF PortGood
  <1>1. r = ahci_check_stopped(t)
    BY DEF ahci_port_stop
  <1>2. A \in SUBSET Slots /\ C \in SUBSET Slots /\ P \in SUBSET Slots /\ gone \in SUBSET s.busy
        /\ s.busy \in SUBSET PortRequest
    BY <1>0 DEF PortState
  <1>fg. \A y : y \in G <=> \E b \in gone : b.slot = y
    OBVIOUS
  <1>p. P = s.pending \ G
    OBVIOUS
  <1> HIDE DEF gone, A, C, G
  <1>3. \A b, c \in s.busy : b.slot = c.slot => b = c
    BY DEF PendingSlots, OneEach
  <1>4. /\ Ws \in SUBSET PortRequest
        /\ \A w \in Ws : \E b \in s.busy \ gone : b.slot = w.slot
        /\ \A b \in s.busy \ gone : \E w \in Ws : b.slot = w.slot
        /\ \A v, w \in Ws : v.slot = w.slot => v = w
    BY <1>2, <1>3, Removed
  <1> HIDE DEF Ws, P
  <1>5. /\ \A w \in Ws : w.slot \in P
        /\ \A y \in P : \E w \in Ws : w.slot = y
    <2>1. ASSUME NEW w \in Ws
          PROVE  w.slot \in P
      <3>1. PICK b \in s.busy \ gone : b.slot = w.slot
        BY <1>4
      <3>2. w.slot \notin G
        BY <1>2, <1>3, <1>fg, <3>1
      <3> QED BY <1>p, <3>1, <3>2 DEF PendingSlots
    <2>2. ASSUME NEW y \in P
          PROVE  \E w \in Ws : w.slot = y
      <3>1. PICK b \in s.busy : b.slot = y
        BY <1>p DEF PendingSlots
      <3>2. b \notin gone
        BY <1>fg, <1>p, <3>1
      <3> QED BY <1>4, <3>1, <3>2
    <2> QED BY <2>1, <2>2
  <1>6. t \in PortState
    BY <1>0, <1>2, <1>4 DEF PortState
  <1>7. SameIntr(t, s) /\ t.st = s.st /\ t.cr = s.cr /\ t.pending = P /\ t.busy = Ws
    BY <1>0 DEF PortState, SameIntr
  <1> HIDE DEF t, r
  <1>8. PortGood(t)
    BY <1>6, <1>7, GoodSame
  <1>9. PendingSlots(t)
    BY <1>4, <1>5, <1>7 DEF PendingSlots, OneEach
  <1>10. /\ PortGood(r)
         /\ t.st \/ t.pending # {} => r = t
         /\ ~t.st /\ t.pending = {} => ~r.st /\ ~r.cr /\ r.ci = {} /\ r.pending = {} /\ r.busy = t.busy
    BY <1>1, <1>8, Checked
  <1>11. CASE t.pending # {}
    BY <1>7, <1>9, <1>10, <1>11, <1>p DEF r
  <1>12. CASE t.pending = {}
    <2>1. ~r.st /\ ~r.cr /\ r.ci = {} /\ r.pending = {} /\ r.busy = t.busy
      BY <1>7, <1>10, <1>12
    <2>2. PendingSlots(r)
      BY <1>9, <1>12, <2>1, PendSame
    <2> QED BY <1>10, <2>1, <2>2 DEF r
  <1> QED BY <1>11, <1>12

\* A write to PxCMD.
LEMMA CommandControl ==
  ASSUME PortSound(sc, cfis, FALSE), NEW st \in BOOLEAN, NEW fre \in BOOLEAN, NEW clo \in BOOLEAN,
         WriteCmd(st, fre, clo)
  PROVE  PortSound(sc', cfis, TRUE)
  <1> DEFINE s == [sc EXCEPT !.st = st, !.fre = fre]
             yes == TRUE
             v == [s EXCEPT !.cr = yes]
             t == IF st THEN v ELSE ahci_port_stop(s)
             z == t.bsy /\ ~clo
             r == [t EXCEPT !.bsy = z]
  <1>0. PortGood(sc) /\ PendingSlots(sc) /\ sc \in PortState
    BY DEF PortSound, PortGood
  <1>1. sc' = r
    BY DEF WriteCmd
  <1>2. yes \in BOOLEAN /\ yes
    OBVIOUS
  <1> HIDE DEF yes
  <1>3. s \in PortState
    BY <1>0 DEF PortState
  <1>4. /\ SameIntr(s, sc) /\ s.st = st /\ s.fre = fre /\ s.cr = sc.cr
        /\ s.pending = sc.pending /\ s.busy = sc.busy
        /\ s.ci = sc.ci /\ s.sact = sc.sact /\ s.bsy = sc.bsy /\ s.waitforclear = sc.waitforclear
    BY <1>0 DEF PortState, SameIntr
  <1> HIDE DEF s
  <1>5. PortGood(s) /\ PendingSlots(s)
    BY <1>0, <1>3, <1>4, GoodSame, PendSame
  <1>6. v \in PortState
    BY <1>2, <1>3 DEF PortState
  <1>7. /\ SameIntr(v, s) /\ v.st = s.st /\ v.fre = s.fre /\ v.cr = yes
        /\ v.pending = s.pending /\ v.busy = s.busy
        /\ v.ci = s.ci /\ v.sact = s.sact /\ v.bsy = s.bsy /\ v.waitforclear = s.waitforclear
    BY <1>3 DEF PortState, SameIntr
  <1> HIDE DEF v
  <1>8. PortGood(v) /\ PendingSlots(v)
    BY <1>5, <1>6, <1>7, GoodSame, PendSame
  <1>9. PortGood(t) /\ PendingSlots(t)
    <2>1. CASE st
      BY <1>8, <2>1
    <2>2. CASE ~st
      <3>1. t = ahci_port_stop(s)
        BY <2>2
      <3> HIDE DEF t
      <3> QED BY <1>4, <1>5, <2>2, <3>1, Stopped
    <2> QED BY <2>1, <2>2
  <1>10. (st => t = v) /\ (~st => t = ahci_port_stop(s))
    OBVIOUS
  <1> HIDE DEF t
  <1>11. z \in BOOLEAN /\ (z => t.bsy)
    OBVIOUS
  <1> HIDE DEF z
  <1>12. t \in PortState
    BY <1>9 DEF PortGood
  <1>13. r \in PortState
    BY <1>11, <1>12 DEF PortState
  <1>14. /\ SameIntr(r, t) /\ r.st = t.st /\ r.fre = t.fre /\ r.cr = t.cr
         /\ r.pending = t.pending /\ r.busy = t.busy
         /\ r.ci = t.ci /\ r.sact = t.sact /\ r.bsy = z /\ r.waitforclear = t.waitforclear
    BY <1>12 DEF PortState, SameIntr
  <1> HIDE DEF r
  <1>15. PortGood(r) /\ PendingSlots(r)
    BY <1>9, <1>13, <1>14, GoodSame, PendSame
  <1>16. ASSUME Careful
         PROVE  Controlled(r, cfis, TRUE)
    <2>0. Controlled(sc, cfis, FALSE)
      BY <1>16 DEF PortSound
    <2>1. (st /\ ~sc.st => ~sc.cr /\ ~sc.bsy) /\ (st => fre)
      BY <1>16 DEF WriteCmd
    <2>2. CASE ~st
      <3>1. /\ ~t.st
            /\ \/ t.pending = {} /\ ~t.cr /\ t.ci = {}
               \/ t.pending # {} /\ t.pending \subseteq s.pending /\ t.cr = s.cr
        BY <1>4, <1>5, <1>10, <2>2, Stopped
      <3> QED BY <1>4, <1>14, <2>0, <3>1 DEF Controlled
    <2>3. CASE st
      <3>1. /\ r.st /\ r.fre /\ r.cr /\ r.pending = sc.pending /\ r.ci = sc.ci /\ r.sact = sc.sact
            /\ r.waitforclear = sc.waitforclear /\ (r.bsy => sc.bsy)
        BY <1>2, <1>4, <1>7, <1>10, <1>11, <1>14, <2>1, <2>3
      <3>2. CASE sc.st
        BY <2>0, <3>1, <3>2 DEF Controlled
      <3>3. CASE ~sc.st
        <4>1. sc.pending = {} /\ (sc.ci = {} \/ sc.waitforclear) /\ ~sc.bsy
          BY <2>0, <2>1, <2>3, <3>3 DEF Controlled
        <4> QED BY <3>1, <4>1 DEF Controlled
      <3> QED BY <3>2, <3>3
    <2> QED BY <2>2, <2>3
  <1> QED BY <1>1, <1>15, <1>16 DEF PortSound

\* An interrupt register changes and nothing else.
LEMMA KeptControl ==
  ASSUME NEW s, NEW r, NEW lp, PortSound(s, cfis, lp), PortGood(r), SameRegs(r, s), r.pending = s.pending, r.busy = s.busy
  PROVE  PortSound(r, cfis, lp)
  <1>1. PendingSlots(r)
    BY PendSame DEF PortSound
  <1>2. Careful => Controlled(r, cfis, lp)
    BY ControlSame DEF PortSound
  <1> QED BY <1>1, <1>2 DEF PortSound

\* A write to an interrupt register that ends in ahci_generate_intr.
LEMMA GenerateControl ==
  ASSUME NEW s, NEW un, NEW lp, PortSound(s, cfis, lp), un \in PortState, SameRegs(un, s), un.pending = s.pending, un.busy = s.busy
  PROVE  PortSound(ahci_generate_intr(un), cfis, lp)
  <1> DEFINE r == ahci_generate_intr(un)
  <1>1. PortGood(r) /\ SameFlight(r, un) /\ r.ci = un.ci /\ r.sact = un.sact /\ r.bsy = un.bsy
        /\ r.waitforclear = un.waitforclear
    BY Generated
  <1> HIDE DEF r
  <1>2. SameRegs(r, s) /\ r.pending = s.pending /\ r.busy = s.busy
    BY <1>1 DEF SameRegs, SameFlight
  <1> QED BY <1>1, <1>2, KeptControl DEF r

\* Writes to the interrupt registers.
LEMMA InterruptControl ==
  ASSUME NEW lp, PortSound(sc, cfis, lp),
         \/ \E i \in Enables : WriteIe(i)
         \/ \E i \in {{"DHR"}, Irqs} : WriteIs(i)
         \/ WriteGhcIe \/ WriteHbaIs \/ TakeMsi
  PROVE  PortSound(sc', cfis, lp)
  <1>0. PortGood(sc) /\ PendingSlots(sc) /\ sc \in PortState /\ IntrSound(sc)
    BY DEF PortSound, PortGood
  <1>1. ASSUME NEW i \in Enables, WriteIe(i)
        PROVE  PortSound(sc', cfis, lp)
    <2> DEFINE un == [sc EXCEPT !.ie = i]
    <2>1. sc' = ahci_generate_intr(un)
      BY <1>1 DEF WriteIe
    <2>2. i \in SUBSET Irqs
      BY AhciConstants DEF Irqs
    <2>3. un \in PortState
      BY <1>0, <2>2 DEF PortState
    <2>4. SameRegs(un, sc) /\ un.pending = sc.pending /\ un.busy = sc.busy
      BY <1>0 DEF PortState, SameRegs
    <2> HIDE DEF un
    <2> QED BY <2>1, <2>3, <2>4, GenerateControl
  <1>2. ASSUME NEW i \in {{"DHR"}, Irqs}, WriteIs(i)
        PROVE  PortSound(sc', cfis, lp)
    <2> DEFINE j == sc.is \ i
               un == [sc EXCEPT !.is = j]
    <2>1. sc' = un
      BY <1>2 DEF WriteIs
    <2>2. j \in SUBSET Irqs /\ j \subseteq sc.is
      BY <1>0 DEF PortState
    <2> HIDE DEF j
    <2>3. un \in PortState
      BY <1>0, <2>2 DEF PortState
    <2>4. /\ SameRegs(un, sc) /\ un.pending = sc.pending /\ un.busy = sc.busy /\ un.is = j
          /\ un.ie = sc.ie /\ un.hbais = sc.hbais /\ un.ghcie = sc.ghcie
          /\ un.lintr = sc.lintr /\ un.msg = sc.msg
      BY <1>0 DEF PortState, SameRegs
    <2> HIDE DEF un
    <2>5. IntrSound(un)
      BY <1>0, <2>2, <2>4 DEF IntrSound
    <2> QED BY <2>1, <2>3, <2>4, <2>5, KeptControl DEF PortGood
  <1>3. ASSUME WriteGhcIe
        PROVE  PortSound(sc', cfis, lp)
    <2> DEFINE yes == TRUE
               un == [sc EXCEPT !.ghcie = yes]
    <2>1. sc' = ahci_generate_intr(un)
      BY <1>3 DEF WriteGhcIe
    <2>2. yes \in BOOLEAN
      OBVIOUS
    <2> HIDE DEF yes
    <2>3. un \in PortState
      BY <1>0, <2>2 DEF PortState
    <2>4. SameRegs(un, sc) /\ un.pending = sc.pending /\ un.busy = sc.busy
      BY <1>0 DEF PortState, SameRegs
    <2> HIDE DEF un
    <2> QED BY <2>1, <2>3, <2>4, GenerateControl
  <1>4. ASSUME WriteHbaIs
        PROVE  PortSound(sc', cfis, lp)
    <2> DEFINE no == FALSE
               m == IF sc.msg = "taken" THEN "none" ELSE sc.msg
               un == [sc EXCEPT !.hbais = no, !.msg = m]
    <2>1. sc' = ahci_generate_intr(un)
      BY <1>4 DEF WriteHbaIs
    <2>2. no \in BOOLEAN /\ m \in {"none", "sent", "taken"}
      BY <1>0 DEF PortState
    <2> HIDE DEF no, m
    <2>3. un \in PortState
      BY <1>0, <2>2 DEF PortState
    <2>4. SameRegs(un, sc) /\ un.pending = sc.pending /\ un.busy = sc.busy
      BY <1>0 DEF PortState, SameRegs
    <2> HIDE DEF un
    <2> QED BY <2>1, <2>3, <2>4, GenerateControl
  <1>5. ASSUME TakeMsi
        PROVE  PortSound(sc', cfis, lp)
    <2> DEFINE m == "taken"
               un == [sc EXCEPT !.msg = m]
    <2>1. sc' = un
      BY <1>5 DEF TakeMsi
    <2>2. m \in {"none", "sent", "taken"} /\ m # "none"
      OBVIOUS
    <2> HIDE DEF m
    <2>3. un \in PortState
      BY <1>0, <2>2 DEF PortState
    <2>4. /\ SameRegs(un, sc) /\ un.pending = sc.pending /\ un.busy = sc.busy /\ un.is = sc.is
          /\ un.ie = sc.ie /\ un.hbais = sc.hbais /\ un.ghcie = sc.ghcie
          /\ un.lintr = sc.lintr /\ un.msg = m
      BY <1>0 DEF PortState, SameRegs
    <2> HIDE DEF un
    <2>5. IntrSound(un)
      BY <1>0, <2>2, <2>4 DEF IntrSound
    <2> QED BY <2>1, <2>3, <2>4, <2>5, KeptControl DEF PortGood
  <1> QED BY <1>1, <1>2, <1>3, <1>4, <1>5

\* PxSCTL and GHC.HR: a careful driver has nothing in flight then.
LEMMA ResetsControl ==
  ASSUME PortSound(sc, cfis, FALSE), WriteSctl \/ WriteGhcHr
  PROVE  PortSound(sc', cfis, FALSE)
  <1> DEFINE no == FALSE
             e == {}
  <1>0. PortGood(sc) /\ PendingSlots(sc) /\ sc \in PortState /\ IntrSound(sc)
    BY DEF PortSound, PortGood
  <1>1. no \in BOOLEAN /\ ~no /\ e \in SUBSET Slots /\ e \in SUBSET Irqs /\ e = {}
    OBVIOUS
  <1>2. CASE WriteSctl
    <2> DEFINE r == [sc EXCEPT !.sact = e, !.bsy = no, !.err = no]
    <2>1. sc' = r /\ ~sc.st
      BY <1>2 DEF WriteSctl, ahci_port_reset
    <2> HIDE DEF no, e
    <2>2. r \in PortState
      BY <1>0, <1>1 DEF PortState
    <2>3. /\ SameIntr(r, sc) /\ SameFlight(r, sc) /\ r.ci = sc.ci
          /\ r.waitforclear = sc.waitforclear
      BY <1>0 DEF PortState, SameIntr, SameFlight
    <2> HIDE DEF r
    <2>4. PortGood(r) /\ PendingSlots(r)
      BY <1>0, <2>2, <2>3, GoodSame, PendSame DEF SameFlight
    <2>5. Careful => Controlled(r, cfis, FALSE)
      BY <2>1, <2>3 DEF PortSound, Controlled, SameFlight
    <2> QED BY <2>1, <2>4, <2>5 DEF PortSound
  <1>3. CASE WriteGhcHr
    <2> DEFINE s == [sc EXCEPT !.ghcie = no, !.hbais = no, !.lintr = no, !.ie = e,
                               !.is = e, !.st = no, !.cr = no, !.fre = no]
               r == [s EXCEPT !.sact = e, !.bsy = no, !.err = no]
    <2>1. sc' = r
      BY <1>3 DEF WriteGhcHr, ahci_reset, ahci_port_reset
    <2> HIDE DEF no, e
    <2>2. s \in PortState
      BY <1>0, <1>1 DEF PortState
    <2>3. /\ s.ghcie = no /\ s.hbais = no /\ s.lintr = no /\ s.ie = e /\ s.is = e /\ s.st = no
          /\ s.cr = no
          /\ s.pending = sc.pending /\ s.busy = sc.busy /\ s.ci = sc.ci
          /\ s.waitforclear = sc.waitforclear
      BY <1>0 DEF PortState
    <2> HIDE DEF s
    <2>4. r \in PortState
      BY <1>1, <2>2 DEF PortState
    <2>5. SameIntr(r, s) /\ SameFlight(r, s) /\ r.ci = s.ci /\ r.waitforclear = s.waitforclear
      BY <2>2 DEF PortState, SameIntr, SameFlight
    <2> HIDE DEF r
    <2>6. IntrSound(s)
      BY <1>1, <2>3 DEF IntrSound
    <2>7. PortGood(s)
      BY <2>2, <2>6 DEF PortGood
    <2>8. PortGood(r) /\ PendingSlots(r)
      BY <1>0, <2>3, <2>4, <2>5, <2>7, GoodSame, PendSame DEF SameFlight
    <2>9. ASSUME Careful
          PROVE  Controlled(r, cfis, FALSE)
      <3>1. sc.pending = {} /\ Controlled(sc, cfis, FALSE)
        BY <1>3, <2>9 DEF WriteGhcHr, PortSound
      <3>2. sc.ci = {} \/ sc.waitforclear
        BY <3>1 DEF Controlled
      <3>3. ~r.st /\ ~r.cr /\ r.pending = {} /\ r.ci = sc.ci /\ r.waitforclear = sc.waitforclear
        BY <1>1, <2>3, <2>5, <3>1 DEF SameFlight
      <3> QED BY <3>2, <3>3 DEF Controlled
    <2> QED BY <2>1, <2>8, <2>9 DEF PortSound
  <1> QED BY <1>2, <1>3

\* AhciInv is PortSound of the state.
LEMMA InvIsControl == AhciInv <=> PortSound(sc, cfis, loop) /\ cfis \in [Slots -> Cmds \cup {"none"}] /\ loop \in BOOLEAN
  <1>1. PendingIsBusy <=> PendingSlots(sc)
    <2>1. sc.pending = {b.slot : b \in sc.busy} <=>
            /\ \A b \in sc.busy : b.slot \in sc.pending
            /\ \A y \in sc.pending : \E b \in sc.busy : b.slot = y
      OBVIOUS
    <2> QED BY <2>1 DEF PendingIsBusy, PendingSlots, OneEach
  <1>2. AhciTypeOK <=> sc \in PortState /\ cfis \in [Slots -> Cmds \cup {"none"}] /\ loop \in BOOLEAN
    BY DEF AhciTypeOK, PortState, PortRequest
  <1>3. IntrFollows <=> IntrSound(sc)
    BY DEF IntrFollows, IntrSound
  <1>4. Running /\ InFlight /\ NotBegun <=> Controlled(sc, cfis, loop)
    BY DEF Running, InFlight, NotBegun, Controlled
  <1> QED BY <1>1, <1>2, <1>3, <1>4 DEF AhciInv, PortSound, PortGood

\* After pci_ahci_init nothing is in flight.
LEMMA AhciInitially == AhciInit => AhciInv
  <1> SUFFICES ASSUME AhciInit PROVE AhciInv
    OBVIOUS
  <1>0. 0 \in Slots
    BY AhciConstants DEF Slots
  <1>1. sc \in PortState
    BY <1>0 DEF AhciInit, PortState, Irqs
  <1>2. cfis \in [Slots -> Cmds \cup {"none"}] /\ loop \in BOOLEAN
    BY DEF AhciInit
  <1>3. IntrSound(sc)
    BY DEF AhciInit, IntrSound
  <1>4. PendingSlots(sc)
    BY DEF AhciInit, PendingSlots, OneEach
  <1>5. Controlled(sc, cfis, loop)
    BY DEF AhciInit, Controlled
  <1> QED BY <1>1, <1>2, <1>3, <1>4, <1>5, InvIsControl DEF PortSound, PortGood

\* Every step of the guest, the loop and block_if keeps the invariant.
LEMMA AhciSteps == AhciInv /\ [AhciNext]_ahcivars => AhciInv'
  <1> SUFFICES ASSUME AhciInv, [AhciNext]_ahcivars
               PROVE  AhciInv'
    OBVIOUS
  <1>0. PortSound(sc, cfis, loop) /\ cfis \in [Slots -> Cmds \cup {"none"}] /\ loop \in BOOLEAN
    BY InvIsControl
  <1>1. SUFFICES /\ PortSound(sc', cfis', loop') /\ cfis' \in [Slots -> Cmds \cup {"none"}]
        /\ loop' \in BOOLEAN
                 /\ driver' = driver
    <2>1. Careful <=> Careful'
      BY <1>1 DEF Careful
    <2>2. PortSound(sc', cfis', loop') => PortSound(sc, cfis, loop)'
      BY <2>1 DEF PortSound, PortGood, PortState, IntrSound, PendingSlots, OneEach, Controlled
    <2>3. (PortSound(sc, cfis, loop) /\ cfis \in [Slots -> Cmds \cup {"none"}] /\ loop \in BOOLEAN => AhciInv)'
      BY InvIsControl, PTL
    <2>4. cfis' \in [Slots -> Cmds \cup {"none"}] /\ loop' \in BOOLEAN =>
            (cfis \in [Slots -> Cmds \cup {"none"}] /\ loop \in BOOLEAN)'
      BY DEF Slots
    <2> QED BY <1>1, <2>2, <2>3, <2>4
  <1>2. CASE UNCHANGED ahcivars
    BY <1>0, <1>2 DEF ahcivars
  <1>3. CASE ahci_handle_port
    <2>1. loop = TRUE /\ cfis' = cfis /\ driver' = driver /\ loop' \in BOOLEAN
      BY <1>0, <1>3 DEF ahci_handle_port
    <2>2. PortSound(sc', cfis, loop')
      BY <1>0, <1>3, <2>1, HandleControl
    <2> QED BY <1>0, <2>1, <2>2
  <1>4. CASE \E b \in sc.busy : Io(b)
    <2>1. PICK b \in sc.busy : Io(b)
      BY <1>4
    <2>2. CASE IoBegin(b)
      <3>1. cfis' = cfis /\ loop' = loop /\ driver' = driver
        BY <2>2 DEF IoBegin
      <3>2. PortSound(sc', cfis, loop)
        BY <1>0, <2>2, BeginControl
      <3> QED BY <1>0, <3>1, <3>2
    <2>3. CASE \E err \in BOOLEAN : ioreq_cb(b, err)
      <3>1. PICK err \in BOOLEAN : ioreq_cb(b, err)
        BY <2>3
      <3>2. /\ cfis' = cfis /\ loop = FALSE /\ driver' = driver
            /\ loop' = (b.slot \notin sc'.pending)
        BY <1>0, <3>1 DEF ioreq_cb
      <3>3. PortSound(sc', cfis, b.slot \notin sc'.pending)
        BY <1>0, <3>1, <3>2, CallbackControl
      <3> QED BY <1>0, <3>2, <3>3
    <2> QED BY <2>1, <2>2, <2>3 DEF Io
  <1>5. CASE Guests
    <2>1. CASE \E s \in Slots, c \in Cmds : WriteCi(s, c)
      <3>1. PICK s \in Slots, c \in Cmds : WriteCi(s, c)
        BY <2>1
      <3>2. cfis' = [cfis EXCEPT ![s] = c] /\ loop = FALSE /\ loop' = TRUE /\ driver' = driver
        BY <1>0, <3>1 DEF WriteCi
      <3>3. PortSound(sc', cfis', TRUE)
        BY <1>0, <3>1, <3>2, IssueControl
      <3>4. cfis' \in [Slots -> Cmds \cup {"none"}]
        BY <1>0, <3>2
      <3> QED BY <3>2, <3>3, <3>4
    <2>2. CASE \E st, fre, clo \in BOOLEAN : WriteCmd(st, fre, clo)
      <3>1. PICK st, fre, clo \in BOOLEAN : WriteCmd(st, fre, clo)
        BY <2>2
      <3>2. cfis' = cfis /\ loop = FALSE /\ loop' = TRUE /\ driver' = driver
        BY <1>0, <3>1 DEF WriteCmd
      <3>3. PortSound(sc', cfis, TRUE)
        BY <1>0, <3>1, <3>2, CommandControl
      <3> QED BY <1>0, <3>2, <3>3
    <2>3. CASE \/ \E i \in Enables : WriteIe(i)
               \/ \E i \in {{"DHR"}, Irqs} : WriteIs(i)
               \/ WriteGhcIe \/ WriteHbaIs \/ TakeMsi
      <3>1. cfis' = cfis /\ loop' = loop /\ driver' = driver
        BY <2>3 DEF WriteIe, WriteIs, WriteGhcIe, WriteHbaIs, TakeMsi
      <3>2. PortSound(sc', cfis, loop)
        BY <1>0, <2>3, InterruptControl
      <3> QED BY <1>0, <3>1, <3>2
    <2>4. CASE WriteSctl \/ WriteGhcHr
      <3>1. cfis' = cfis /\ loop' = loop /\ driver' = driver /\ loop = FALSE
        BY <1>0, <2>4 DEF WriteSctl, WriteGhcHr
      <3>2. PortSound(sc', cfis, FALSE)
        BY <1>0, <2>4, <3>1, ResetsControl
      <3> QED BY <1>0, <3>1, <3>2
    <2> QED BY <1>5, <2>1, <2>2, <2>3, <2>4 DEF Guests
  <1> QED BY <1>2, <1>3, <1>4, <1>5 DEF AhciNext

\* The inductive invariant of an AHCI port (pci_ahci.c), for any number of
\* slots, any commands, a disk or a DVD drive, the pin or messages.
THEOREM AhciInvariant == AhciSpec => []AhciInv
  BY AhciInitially, AhciSteps, PTL DEF AhciSpec

\* The requests in block_if are the pending commands, one each; a running
\* port under a careful driver has reported none of them as done; and an
\* enabled interrupt is asserted or on its way (pci_ahci.c).
THEOREM PortIsConsistent == AhciSpec => []PortConsistent
  <1>1. AhciInv => PortConsistent
    <2> SUFFICES ASSUME AhciInv PROVE PortConsistent
      OBVIOUS
    <2>1. PendingIsBusy
      BY DEF AhciInv
    <2>2. InFlightIsActive
      <3> SUFFICES ASSUME Careful, sc.st, NEW b \in sc.busy
                   PROVE  b.slot \in sc.ci \cup sc.sact
        BY DEF InFlightIsActive
      <3>1. InFlight /\ b.slot \in sc.pending
        BY <2>1 DEF AhciInv, PendingIsBusy
      <3> QED BY <3>1 DEF InFlight
    <2>3. IntrNotLost
      <3>1. IntrFollows
        BY DEF AhciInv
      <3>2. Msi \in BOOLEAN /\ sc.lintr \in BOOLEAN
        BY AhciConstants DEF AhciInv, AhciTypeOK
      <3> QED BY <3>1, <3>2 DEF IntrFollows, IntrNotLost
    <2> QED BY <2>1, <2>2, <2>3 DEF PortConsistent
  <1> QED BY <1>1, AhciInvariant, PTL

-----------------------------------------------------------------------------
(* The arithmetic of the rings of virtio.                                  *)

\* Quotient and remainder of a number.
LEMMA Divides ==
  ASSUME NEW n \in Nat \ {0}, NEW x \in Nat
  PROVE  x = n * (x \div n) + (x % n) /\ (x % n) \in 0 .. n-1 /\ (x \div n) \in Nat
  OBVIOUS

\* The remainder of what is written as a multiple and a rest.
LEMMA Remainder ==
  ASSUME NEW n \in Nat \ {0}, NEW d \in Nat, NEW r \in 0 .. n-1
  PROVE  (n * d + r) % n = r
  OBVIOUS

\* r and i steps around a ring of n places.
Turn(r, i, n) == IF r + i < n THEN r + i ELSE r + i - n

\* One step around a ring.
LEMMA Around ==
  ASSUME NEW n \in Nat \ {0}, NEW x \in Nat, NEW i \in 0 .. n
  PROVE  (x + i) % n = Turn(x % n, i, n)
  <1> DEFINE d == x \div n
             r == x % n
  <1>1. d \in Nat /\ r \in 0 .. n - 1 /\ x = n * d + r
    BY Divides
  <1> HIDE DEF d, r
  <1>2. CASE r + i < n
    <2> DEFINE s == r + i
    <2>1. s \in 0 .. n - 1 /\ x + i = n * d + s
      BY <1>1, <1>2
    <2> HIDE DEF s
    <2>2. (n * d + s) % n = s
      BY <1>1, <2>1, Remainder
    <2>3. (x + i) % n = s
      BY <2>1, <2>2
    <2> QED BY <1>2, <2>3 DEF s, r, Turn
  <1>3. CASE ~(r + i < n)
    <2> DEFINE s == r + i - n
               e == d + 1
    <2>1. s \in 0 .. n - 1 /\ e \in Nat /\ x + i = n * e + s
      BY <1>1, <1>3
    <2> HIDE DEF s, e
    <2>2. (n * e + s) % n = s
      BY <2>1, Remainder
    <2>3. (x + i) % n = s
      BY <2>1, <2>2
    <2> QED BY <1>3, <2>3 DEF s, r, Turn
  <1> QED BY <1>2, <1>3

\* A multiple of the size does not change the place in a ring.
LEMMA Multiple ==
  ASSUME NEW n \in Nat \ {0}, NEW w \in Nat, w % n = 0, NEW x \in Nat
  PROVE  (w + x) % n = x % n
  <1> DEFINE k == w \div n
             d == x \div n
             r == x % n
             e == k + d
  <1>1. k \in Nat /\ w = n * k
    BY Divides
  <1>2. d \in Nat /\ r \in 0 .. n - 1 /\ x = n * d + r
    BY Divides
  <1> HIDE DEF k, d, r
  <1>3. e \in Nat /\ w + x = n * e + r
    BY <1>1, <1>2
  <1> HIDE DEF e
  <1>4. (n * e + r) % n = r
    BY <1>2, <1>3, Remainder
  <1> QED BY <1>3, <1>4 DEF r

\* How far hi is ahead of lo.
Span(lo, hi) == (hi + W - lo) % W

\* The n chains of ring r from index lo on.
Window(r, lo, n) == {r[(lo + i) % QSize] : i \in 0 .. n - 1}

\* Chain x at index hi of ring r.
Put(r, hi, x) == [r EXCEPT ![hi % QSize] = x]

\* The index after, and before, x.
Forward(x) == (x + 1) % W
Back(x) == (x + W - 1) % W

\* The size of a ring, and the range of its free-running indices.
LEMMA RingConstants == QSize \in Nat \ {0} /\ W \in Nat \ {0} /\ W > QSize /\ W % QSize = 0
  BY VirtioConstants

\* The distance between two indices, without the remainder.
LEMMA SpanIs ==
  ASSUME NEW lo \in Indices, NEW hi \in Indices
  PROVE  Span(lo, hi) = (IF hi >= lo THEN hi - lo ELSE hi + W - lo) /\ Span(lo, hi) \in Indices
  <1>1. lo \in 0 .. W - 1 /\ hi \in 0 .. W - 1 /\ W \in Nat \ {0}
    BY RingConstants DEF Indices
  <1> DEFINE x == hi + W - lo
  <1>2. CASE hi >= lo
    <2> DEFINE y == hi - lo
    <2>1. y \in 0 .. W - 1 /\ x = W * 1 + y
      BY <1>1, <1>2
    <2> HIDE DEF y
    <2>2. (W * 1 + y) % W = y
      BY <1>1, <2>1, Remainder
    <2>3. x % W = y
      BY <2>1, <2>2
    <2> QED BY <1>2, <2>1, <2>3 DEF Span, Indices, y
  <1>3. CASE ~(hi >= lo)
    <2>1. x \in 0 .. W - 1 /\ x = W * 0 + x
      BY <1>1, <1>3
    <2> HIDE DEF x
    <2>2. (W * 0 + x) % W = x
      BY <1>1, <2>1, Remainder
    <2>3. x % W = x
      BY <2>1, <2>2
    <2> QED BY <1>3, <2>1, <2>3 DEF Span, Indices, x
  <1> QED BY <1>2, <1>3

\* The next index, without the remainder.
LEMMA ForwardIs ==
  ASSUME NEW x \in Indices
  PROVE  Forward(x) = (IF x + 1 < W THEN x + 1 ELSE 0) /\ Forward(x) \in Indices
  <1>1. x \in 0 .. W - 1 /\ W \in Nat \ {0}
    BY RingConstants DEF Indices
  <1>2. CASE x + 1 < W
    <2> DEFINE y == x + 1
    <2>1. y \in 0 .. W - 1 /\ y = W * 0 + y
      BY <1>1, <1>2
    <2> HIDE DEF y
    <2>2. (W * 0 + y) % W = y
      BY <1>1, <2>1, Remainder
    <2>3. y % W = y
      BY <2>1, <2>2
    <2> QED BY <1>2, <2>1, <2>3 DEF Forward, Indices, y
  <1>3. CASE ~(x + 1 < W)
    <2>1. 0 \in 0 .. W - 1 /\ x + 1 = W * 1 + 0
      BY <1>1, <1>3
    <2>2. (W * 1 + 0) % W = 0
      BY <1>1, <2>1, Remainder
    <2>3. (x + 1) % W = 0
      BY <2>1, <2>2
    <2> QED BY <1>3, <2>1, <2>3 DEF Forward, Indices
  <1> QED BY <1>2, <1>3

\* The index before (vq_retchain), without the remainder.
LEMMA BackIs ==
  ASSUME NEW x \in Indices
  PROVE  Back(x) = (IF x = 0 THEN W - 1 ELSE x - 1) /\ Back(x) \in Indices /\ Forward(Back(x)) = x
  <1>1. x \in 0 .. W - 1 /\ W \in Nat \ {0}
    BY RingConstants DEF Indices
  <1>2. Back(x) = (IF x = 0 THEN W - 1 ELSE x - 1) /\ Back(x) \in Indices
    <2>1. CASE x = 0
      <3> DEFINE y == W - 1
      <3>1. y \in 0 .. W - 1 /\ x + W - 1 = W * 0 + y
        BY <1>1, <2>1
      <3> HIDE DEF y
      <3>2. (W * 0 + y) % W = y
        BY <1>1, <3>1, Remainder
      <3>3. (x + W - 1) % W = y
        BY <3>1, <3>2
      <3> QED BY <2>1, <3>1, <3>3 DEF Back, Indices, y
    <2>2. CASE x # 0
      <3> DEFINE y == x - 1
      <3>1. y \in 0 .. W - 1 /\ x + W - 1 = W * 1 + y
        BY <1>1, <2>2
      <3> HIDE DEF y
      <3>2. (W * 1 + y) % W = y
        BY <1>1, <3>1, Remainder
      <3>3. (x + W - 1) % W = y
        BY <3>1, <3>2
      <3> QED BY <2>2, <3>1, <3>3 DEF Back, Indices, y
    <2> QED BY <2>1, <2>2
  <1>3. Forward(Back(x)) = (IF Back(x) + 1 < W THEN Back(x) + 1 ELSE 0)
    BY <1>2, ForwardIs
  <1> QED BY <1>1, <1>2, <1>3

\* The place of an index in a ring does not depend on the turn.
LEMMA PlaceForward ==
  ASSUME NEW x \in Indices, NEW i \in Nat
  PROVE  (Forward(x) + i) % QSize = (x + 1 + i) % QSize
  <1>1. x \in 0 .. W - 1 /\ W \in Nat \ {0} /\ QSize \in Nat \ {0} /\ W % QSize = 0
    BY RingConstants DEF Indices
  <1>2. Forward(x) = (IF x + 1 < W THEN x + 1 ELSE 0)
    BY ForwardIs
  <1>3. CASE x + 1 < W
    BY <1>2, <1>3
  <1>4. CASE ~(x + 1 < W)
    <2>1. Forward(x) + i = i /\ x + 1 + i = W + i
      BY <1>1, <1>2, <1>4
    <2>2. (W + i) % QSize = i % QSize
      BY <1>1, Multiple
    <2> QED BY <2>1, <2>2
  <1> QED BY <1>3, <1>4

\* The place of an index is one of the ring.
LEMMA PlaceIn ==
  ASSUME NEW x \in Nat
  PROVE  x % QSize \in Heads
  BY RingConstants, Divides DEF Heads

\* The place of an index is as far from another one as the indices are.
LEMMA PlaceOfHi ==
  ASSUME NEW lo \in Indices, NEW hi \in Indices
  PROVE  hi % QSize = (lo + Span(lo, hi)) % QSize
  <1>1. /\ lo \in 0 .. W - 1 /\ hi \in 0 .. W - 1 /\ W \in Nat \ {0} /\ QSize \in Nat \ {0}
        /\ W % QSize = 0
    BY RingConstants DEF Indices
  <1>2. Span(lo, hi) = IF hi >= lo THEN hi - lo ELSE hi + W - lo
    BY SpanIs
  <1>3. CASE hi >= lo
    <2>1. lo + Span(lo, hi) = hi
      BY <1>1, <1>2, <1>3
    <2> QED BY <2>1
  <1>4. CASE ~(hi >= lo)
    <2>1. lo + Span(lo, hi) = W + hi
      BY <1>1, <1>2, <1>4
    <2>h. hi \in Nat /\ W \in Nat
      BY <1>1
    <2>2. (W + hi) % QSize = hi % QSize
      BY <1>1, <2>h, Multiple
    <2> QED BY <2>1, <2>2
  <1> QED BY <1>3, <1>4

\* Indices less than the size of the ring apart have different places.
LEMMA PlacesDiffer ==
  ASSUME NEW x \in Nat, NEW i \in Nat, NEW j \in Nat, i < j, j - i < QSize
  PROVE  (x + i) % QSize # (x + j) % QSize
  <1>1. QSize \in Nat \ {0}
    BY RingConstants
  <1> DEFINE y == x + i
             k == j - i
  <1>2. y \in Nat /\ k \in 1 .. QSize - 1 /\ x + j = y + k
    BY <1>1
  <1>e. x + i = y
    OBVIOUS
  <1> HIDE DEF y, k
  <1>k. k \in 0 .. QSize
    BY <1>1, <1>2
  <1>3. (y + k) % QSize = Turn(y % QSize, k, QSize)
    BY <1>1, <1>2, <1>k, Around
  <1>4. y % QSize \in 0 .. QSize - 1
    BY <1>1, <1>2, Divides
  <1> DEFINE a == y % QSize
             b == (y + k) % QSize
  <1>5. b = Turn(a, k, QSize) /\ a \in 0 .. QSize - 1
    BY <1>3, <1>4
  <1> HIDE DEF a, b
  <1>6. a # b
    BY <1>1, <1>2, <1>5 DEF Turn
  <1> QED BY <1>2, <1>6, <1>e DEF a, b

\* An index that moves on, in a ring that is not full, makes the distance one
\* larger.
LEMMA SpanGrows ==
  ASSUME NEW lo \in Indices, NEW hi \in Indices, Span(lo, hi) < QSize
  PROVE  Span(lo, Forward(hi)) = Span(lo, hi) + 1 /\ lo # Forward(hi)
  <1> DEFINE f == Forward(hi)
             a == Span(lo, hi)
             b == Span(lo, f)
  <1>1. lo \in 0 .. W - 1 /\ hi \in 0 .. W - 1 /\ W \in Nat /\ QSize \in Nat \ {0} /\ W > QSize
    BY RingConstants DEF Indices
  <1>2. f = (IF hi + 1 < W THEN hi + 1 ELSE 0) /\ f \in Indices
    BY ForwardIs
  <1>3. a = IF hi >= lo THEN hi - lo ELSE hi + W - lo
    BY SpanIs
  <1> HIDE DEF f
  <1>4. b = IF f >= lo THEN f - lo ELSE f + W - lo
    BY <1>2, SpanIs
  <1>5. a < QSize
    OBVIOUS
  <1> HIDE DEF a, b
  <1>6. b = a + 1 /\ lo # f
    BY <1>1, <1>2, <1>3, <1>4, <1>5
  <1> QED BY <1>6 DEF a, b, f

\* An index that follows another one makes the distance one smaller.
LEMMA SpanShrinks ==
  ASSUME NEW lo \in Indices, NEW hi \in Indices, lo # hi
  PROVE  Span(Forward(lo), hi) = Span(lo, hi) - 1 /\ Span(lo, hi) >= 1
  <1> DEFINE f == Forward(lo)
             a == Span(lo, hi)
             b == Span(f, hi)
  <1>1. lo \in 0 .. W - 1 /\ hi \in 0 .. W - 1 /\ W \in Nat /\ QSize \in Nat \ {0} /\ W > QSize
    BY RingConstants DEF Indices
  <1>2. f = (IF lo + 1 < W THEN lo + 1 ELSE 0) /\ f \in Indices
    BY ForwardIs
  <1>3. a = IF hi >= lo THEN hi - lo ELSE hi + W - lo
    BY SpanIs
  <1> HIDE DEF f
  <1>4. b = IF hi >= f THEN hi - f ELSE hi + W - f
    BY <1>2, SpanIs
  <1> HIDE DEF a, b
  <1>6. b = a - 1 /\ a >= 1
    BY <1>1, <1>2, <1>3, <1>4
  <1> QED BY <1>6 DEF a, b, f

\* An index is at no distance from itself.
LEMMA SpanZero ==
  ASSUME NEW lo \in Indices
  PROVE  Span(lo, lo) = 0
  <1>1. Span(lo, lo) = IF lo >= lo THEN lo - lo ELSE lo + W - lo
    BY SpanIs
  <1> QED BY <1>1, RingConstants DEF Indices

\* A stretch of a ring holds at most as many chains as it is long.
LEMMA WindowType ==
  ASSUME NEW r \in [Heads -> Heads], NEW lo \in Indices, NEW n \in Nat
  PROVE  /\ Window(r, lo, n) \subseteq Heads
         /\ IsFiniteSet(Window(r, lo, n)) /\ Cardinality(Window(r, lo, n)) <= n
  <1> DEFINE D == 0 .. n - 1
             f == [i \in D |-> r[(lo + i) % QSize]]
             T == Window(r, lo, n)
  <1>0. lo \in Nat
    BY RingConstants DEF Indices
  <1>1. \A i \in D : (lo + i) % QSize \in Heads
    BY <1>0, PlaceIn
  <1>2. T = {f[i] : i \in D} /\ T \subseteq Heads
    BY <1>1 DEF Window
  <1>3. f \in Surjection(D, T)
    BY <1>2 DEF Surjection
  <1>4. IsFiniteSet(D) /\ Cardinality(D) = n
    <2>1. IsFiniteSet(D) /\ Cardinality(D) = IF 0 > n - 1 THEN 0 ELSE n - 1 - 0 + 1
      BY FS_Interval
    <2> QED BY <2>1
  <1> HIDE DEF D, T, f
  <1>5. IsFiniteSet(T) /\ Cardinality(T) <= Cardinality(D)
    BY <1>3, <1>4, FS_Surjection
  <1> QED BY <1>2, <1>4, <1>5 DEF T

\* A chain that is put at the end of a stretch is added to it: no place of it
\* is overwritten.
LEMMA WindowGrows ==
  ASSUME NEW r \in [Heads -> Heads], NEW lo \in Indices, NEW hi \in Indices, NEW x \in Heads,
         Span(lo, hi) < QSize
  PROVE  Window(Put(r, hi, x), lo, Span(lo, hi) + 1) = Window(r, lo, Span(lo, hi)) \cup {x}
  <1> DEFINE n == Span(lo, hi)
             s == Put(r, hi, x)
             p == hi % QSize
             P(i) == (lo + i) % QSize
  <1>0. lo \in Nat /\ hi \in Nat /\ n \in Nat /\ n < QSize /\ QSize \in Nat
    BY RingConstants, SpanIs DEF Indices
  <1>1. p \in Heads /\ p = P(n)
    BY <1>0, PlaceIn, PlaceOfHi
  <1>2. \A i \in 0 .. n - 1 : P(i) # P(n) /\ P(i) \in Heads
    <2> HIDE DEF n
    <2> TAKE i \in 0 .. n - 1
    <2>1. i \in Nat /\ i < n /\ n - i < QSize /\ lo + i \in Nat
      BY <1>0
    <2>2. (lo + i) % QSize # (lo + n) % QSize
      BY <1>0, <2>1, PlacesDiffer
    <2>3. (lo + i) % QSize \in Heads
      BY <2>1, PlaceIn
    <2> QED BY <2>2, <2>3
  <1>w. /\ Window(s, lo, n + 1) = {s[P(i)] : i \in 0 .. n}
        /\ Window(r, lo, n) = {r[P(i)] : i \in 0 .. n - 1}
    BY <1>0 DEF Window
  <1>s. s = [r EXCEPT ![p] = x]
    BY DEF Put
  <1> HIDE DEF p, P
  <1>3. s[P(n)] = x /\ \A i \in 0 .. n - 1 : s[P(i)] = r[P(i)]
    BY <1>1, <1>2, <1>s
  <1> HIDE DEF s, n
  <1>4. {s[P(i)] : i \in 0 .. n} = {r[P(i)] : i \in 0 .. n - 1} \cup {x}
    BY <1>0, <1>3
  <1> QED BY <1>w, <1>4 DEF s, n

\* The first chain of a stretch, and the rest.
LEMMA WindowShrinks ==
  ASSUME NEW r \in [Heads -> Heads], NEW lo \in Indices, NEW n \in Nat, n >= 1
  PROVE  Window(r, lo, n) = {r[lo % QSize]} \cup Window(r, Forward(lo), n - 1)
  <1> DEFINE P(i) == (lo + i) % QSize
             Q(i) == (Forward(lo) + i) % QSize
  <1>0. lo \in Nat
    BY RingConstants DEF Indices
  <1>1. \A i \in Nat : Q(i) = P(i + 1)
    <2> TAKE i \in Nat
    <2>1. (Forward(lo) + i) % QSize = (lo + 1 + i) % QSize
      BY PlaceForward
    <2>2. lo + 1 + i = lo + (i + 1)
      BY <1>0
    <2> QED BY <2>1, <2>2
  <1>2. P(0) = lo % QSize
    BY <1>0
  <1>w. /\ Window(r, lo, n) = {r[P(i)] : i \in 0 .. n - 1}
        /\ Window(r, Forward(lo), n - 1) = {r[Q(i)] : i \in 0 .. n - 2}
    BY DEF Window
  <1> HIDE DEF P, Q
  <1>3. {r[Q(i)] : i \in 0 .. n - 2} = {r[P(i)] : i \in 1 .. n - 1}
    <2>1. \A i \in 1 .. n - 1 : i - 1 \in 0 .. n - 2 /\ Q(i - 1) = P(i)
      <3> TAKE i \in 1 .. n - 1
      <3> DEFINE j == i - 1
      <3>1. j \in Nat /\ j \in 0 .. n - 2 /\ j + 1 = i
        OBVIOUS
      <3> HIDE DEF j
      <3>2. Q(j) = P(i)
        BY <1>1, <3>1
      <3> QED BY <3>1, <3>2 DEF j
    <2>2. \A i \in 0 .. n - 2 : i + 1 \in 1 .. n - 1 /\ Q(i) = P(i + 1)
      BY <1>1
    <2> QED BY <2>1, <2>2
  <1>4. {r[P(i)] : i \in 0 .. n - 1} = {r[P(0)]} \cup {r[P(i)] : i \in 1 .. n - 1}
    BY SMTT(30)
  <1> QED BY <1>2, <1>3, <1>4, <1>w

\* A ring has as many chains as places.
LEMMA HeadsFinite == IsFiniteSet(Heads) /\ Cardinality(Heads) = QSize
  <1>1. 0 \in Int /\ QSize - 1 \in Int /\ QSize \in Nat \ {0}
    BY RingConstants
  <1>2. /\ IsFiniteSet(0 .. QSize - 1)
        /\ Cardinality(0 .. QSize - 1) = IF 0 > QSize - 1 THEN 0 ELSE QSize - 1 - 0 + 1
    BY <1>1, FS_Interval
  <1> QED BY <1>1, <1>2 DEF Heads

\* Sets of chains can be counted.
LEMMA SubsetFinite ==
  ASSUME NEW S \in SUBSET Heads
  PROVE  IsFiniteSet(S) /\ Cardinality(S) \in Nat /\ Cardinality(S) <= QSize
  BY HeadsFinite, FS_Subset, FS_CardinalityType

\* A union has at most as many members as both sets.
LEMMA UnionBound ==
  ASSUME NEW S, NEW T, IsFiniteSet(S), IsFiniteSet(T)
  PROVE  IsFiniteSet(S \cup T) /\ Cardinality(S \cup T) <= Cardinality(S) + Cardinality(T)
  <1>1. /\ IsFiniteSet(S \cup T)
        /\ Cardinality(S \cup T) = Cardinality(S) + Cardinality(T) - Cardinality(S \cap T)
    BY FS_Union
  <1>2. IsFiniteSet(S \cap T)
    BY FS_Subset
  <1>3. Cardinality(S) \in Nat /\ Cardinality(T) \in Nat /\ Cardinality(S \cap T) \in Nat
    BY <1>2, FS_CardinalityType
  <1> QED BY <1>1, <1>3

\* A step forward and one back.
LEMMA BackForward ==
  ASSUME NEW x \in Indices
  PROVE  Back(Forward(x)) = x
  <1> DEFINE f == Forward(x)
  <1>1. x \in 0 .. W - 1 /\ W \in Nat /\ QSize \in Nat \ {0} /\ W > QSize
    BY RingConstants DEF Indices
  <1>2. f = (IF x + 1 < W THEN x + 1 ELSE 0) /\ f \in Indices
    BY ForwardIs
  <1> HIDE DEF f
  <1>3. Back(f) = (IF f = 0 THEN W - 1 ELSE f - 1)
    BY <1>2, BackIs
  <1> QED BY <1>1, <1>2, <1>3 DEF f

\* An index that moves back makes the distance one larger.
LEMMA SpanExtends ==
  ASSUME NEW lo \in Indices, NEW hi \in Indices, Span(lo, hi) < QSize
  PROVE  Span(Back(lo), hi) = Span(lo, hi) + 1
  <1> DEFINE b == Back(lo)
             n == Span(lo, hi)
             k == Span(b, hi)
  <1>1. lo \in 0 .. W - 1 /\ hi \in 0 .. W - 1 /\ W \in Nat /\ QSize \in Nat \ {0} /\ W > QSize
    BY RingConstants DEF Indices
  <1>2. b = (IF lo = 0 THEN W - 1 ELSE lo - 1) /\ b \in Indices
    BY BackIs
  <1>3. n = IF hi >= lo THEN hi - lo ELSE hi + W - lo
    BY SpanIs
  <1> HIDE DEF b
  <1>4. k = IF hi >= b THEN hi - b ELSE hi + W - b
    BY <1>2, SpanIs
  <1>5. n < QSize
    OBVIOUS
  <1> HIDE DEF n, k
  <1>6. k = n + 1
    BY <1>1, <1>2, <1>3, <1>4, <1>5
  <1> QED BY <1>6 DEF b, n, k

\* Conserved, of the parts of a queue.
Shared(ar, last, av, ur, seen, used, F, H) ==
  /\ F \cup H \cup Window(ar, last, Span(last, av)) \cup Window(ur, seen, Span(seen, used)) = Heads
  /\ Cardinality(F) + Cardinality(H) + Span(last, av) + Span(seen, used) = QSize

\* Conserved speaks of the rings and indices only.
LEMMA ConservedIs ==
  ASSUME NEW q, NEW seen, NEW F, NEW H
  PROVE  Conserved(q, seen, F, H) <=> Shared(q.aring, q.last, q.avail, q.uring, seen, q.used, F, H)
  BY DEF Conserved, Shared, AvailChains, UsedChains, ndesc, UsedCount, Window, Span

\* The spans of a ring whose chains are shared are numbers below its size.
LEMMA SpanFacts ==
  ASSUME NEW ar, NEW ur, NEW last \in Indices, NEW av \in Indices, NEW seen \in Indices,
         NEW used \in Indices, NEW F \in SUBSET Heads, NEW H \in SUBSET Heads,
         Shared(ar, last, av, ur, seen, used, F, H)
  PROVE  /\ Span(last, av) \in Nat /\ Span(seen, used) \in Nat /\ QSize \in Nat
         /\ Cardinality(F) \in Nat /\ Cardinality(H) \in Nat /\ IsFiniteSet(F) /\ IsFiniteSet(H)
         /\ Cardinality(F) + Cardinality(H) + Span(last, av) + Span(seen, used) = QSize
  <1>1. Span(last, av) \in Indices /\ Span(seen, used) \in Indices
    BY SpanIs
  <1>2. Span(last, av) \in Nat /\ Span(seen, used) \in Nat /\ QSize \in Nat
    BY <1>1, RingConstants DEF Indices
  <1>3. Cardinality(F) \in Nat /\ Cardinality(H) \in Nat /\ IsFiniteSet(F) /\ IsFiniteSet(H)
    BY SubsetFinite
  <1>4. Cardinality(F) + Cardinality(H) + Span(last, av) + Span(seen, used) = QSize
    BY DEF Shared
  <1> QED BY <1>2, <1>3, <1>4

\* A set without one of its members.
LEMMA OneMember ==
  ASSUME NEW S, IsFiniteSet(S), NEW x \in S
  PROVE  /\ Cardinality(S) >= 1 /\ Cardinality(S) \in Nat
         /\ Cardinality(S \ {x}) = Cardinality(S) - 1
  <1>1. Cardinality(S) \in Nat
    BY FS_CardinalityType
  <1>2. Cardinality(S \ {x}) = Cardinality(S) - 1 /\ IsFiniteSet(S \ {x})
    BY FS_RemoveElement
  <1>3. Cardinality(S \ {x}) \in Nat
    BY <1>2, FS_CardinalityType
  <1> QED BY <1>1, <1>2, <1>3

\* guest_post: a chain goes from the guest to the avail ring.
LEMMA SharedPost ==
  ASSUME NEW ar \in [Heads -> Heads], NEW ur \in [Heads -> Heads], NEW last \in Indices,
         NEW av \in Indices, NEW seen \in Indices, NEW used \in Indices,
         NEW F \in SUBSET Heads, NEW H \in SUBSET Heads, NEW x \in F,
         Shared(ar, last, av, ur, seen, used, F, H)
  PROVE  /\ Shared(Put(ar, av, x), last, Forward(av), ur, seen, used, F \ {x}, H)
         /\ Forward(av) \in Indices /\ last # Forward(av)
         /\ Put(ar, av, x) \in [Heads -> Heads]
  <1> DEFINE a == Span(last, av)
             d == Span(seen, used)
             br == Put(ar, av, x)
             cF == Cardinality(F)
             cH == Cardinality(H)
             cG == Cardinality(F \ {x})
  <1>1. /\ a \in Nat /\ d \in Nat /\ QSize \in Nat /\ cF \in Nat /\ cH \in Nat
        /\ cF + cH + a + d = QSize /\ IsFiniteSet(F)
    BY SpanFacts
  <1>2. cF >= 1 /\ cG = cF - 1
    BY <1>1, OneMember
  <1>u. F \cup H \cup Window(ar, last, a) \cup Window(ur, seen, d) = Heads
    BY DEF Shared
  <1>x. x \in Heads
    OBVIOUS
  <1>3. a < QSize
    <2> HIDE DEF a, d, cF, cH, cG
    <2> QED BY <1>1, <1>2
  <1>4. Span(last, Forward(av)) = a + 1 /\ last # Forward(av) /\ Forward(av) \in Indices
    BY <1>3, SpanGrows, ForwardIs
  <1>5. Window(br, last, a + 1) = Window(ar, last, a) \cup {x}
    BY <1>3, <1>x, WindowGrows
  <1>6. br \in [Heads -> Heads]
    BY <1>x DEF Put
  <1>7. cG + cH + (a + 1) + d = QSize
    <2> HIDE DEF a, d, cF, cH, cG
    <2> QED BY <1>1, <1>2
  <1>8. (F \ {x}) \cup H \cup Window(br, last, a + 1) \cup Window(ur, seen, d) = Heads
    <2> HIDE DEF a, d, br
    <2> QED BY <1>5, <1>u
  <1>9. Shared(br, last, Forward(av), ur, seen, used, F \ {x}, H)
    <2> HIDE DEF br
    <2> QED BY <1>4, <1>7, <1>8 DEF Shared
  <1> QED BY <1>4, <1>6, <1>9

\* vq_getchain: a chain goes from the avail ring into the hand of a thread.
LEMMA SharedGet ==
  ASSUME NEW ar \in [Heads -> Heads], NEW ur \in [Heads -> Heads], NEW last \in Indices,
         NEW av \in Indices, NEW seen \in Indices, NEW used \in Indices,
         NEW F \in SUBSET Heads, last # av,
         Shared(ar, last, av, ur, seen, used, F, {})
  PROVE  /\ ar[last % QSize] \in Heads /\ Forward(last) \in Indices
         /\ Shared(ar, Forward(last), av, ur, seen, used, F, {ar[last % QSize]})
  <1> DEFINE a == Span(last, av)
             d == Span(seen, used)
             h == ar[last % QSize]
             cF == Cardinality(F)
  <1>1. /\ a \in Nat /\ d \in Nat /\ QSize \in Nat /\ cF \in Nat
        /\ cF + Cardinality({}) + a + d = QSize
    BY SpanFacts
  <1>u. F \cup Window(ar, last, a) \cup Window(ur, seen, d) = Heads
    BY DEF Shared
  <1>e. Cardinality({}) = 0 /\ Cardinality({h}) = 1
    BY FS_EmptySet, FS_Singleton
  <1>h. h \in Heads
    <2>1. last \in Nat
      BY RingConstants DEF Indices
    <2>2. last % QSize \in Heads
      BY <2>1, PlaceIn
    <2> QED BY <2>2
  <1>2. Span(Forward(last), av) = a - 1 /\ a >= 1 /\ Forward(last) \in Indices
    BY SpanShrinks, ForwardIs
  <1>3. Window(ar, last, a) = {h} \cup Window(ar, Forward(last), a - 1)
    BY <1>1, <1>2, WindowShrinks
  <1>4. cF + 1 + (a - 1) + d = QSize
    <2> HIDE DEF a, d, cF
    <2> QED BY <1>1, <1>e
  <1>5. F \cup {h} \cup Window(ar, Forward(last), a - 1) \cup Window(ur, seen, d) = Heads
    <2> HIDE DEF a, d, h
    <2> QED BY <1>3, <1>u
  <1>6. Shared(ar, Forward(last), av, ur, seen, used, F, {h})
    <2> HIDE DEF h
    <2> QED BY <1>2, <1>4, <1>5, <1>e DEF Shared
  <1> QED BY <1>2, <1>h, <1>6

\* vq_retchain: the chain in hand goes back, for it is still in its place.
LEMMA SharedRet ==
  ASSUME NEW ar \in [Heads -> Heads], NEW ur \in [Heads -> Heads], NEW last \in Indices,
         NEW av \in Indices, NEW seen \in Indices, NEW used \in Indices,
         NEW F \in SUBSET Heads, NEW h \in Heads, h = ar[Back(last) % QSize],
         Shared(ar, last, av, ur, seen, used, F, {h})
  PROVE  Shared(ar, Back(last), av, ur, seen, used, F, {}) /\ Back(last) \in Indices
  <1> DEFINE a == Span(last, av)
             d == Span(seen, used)
             cF == Cardinality(F)
  <1>1. /\ a \in Nat /\ d \in Nat /\ QSize \in Nat /\ cF \in Nat
        /\ cF + Cardinality({h}) + a + d = QSize
    BY SpanFacts
  <1>u. F \cup {h} \cup Window(ar, last, a) \cup Window(ur, seen, d) = Heads
    BY DEF Shared
  <1>e. Cardinality({}) = 0 /\ Cardinality({h}) = 1
    BY FS_EmptySet, FS_Singleton
  <1>3. a < QSize /\ a + 1 \in Nat /\ a + 1 >= 1 /\ (a + 1) - 1 = a
    <2> HIDE DEF a, d, cF
    <2> QED BY <1>1, <1>e
  <1>4. Span(Back(last), av) = a + 1 /\ Back(last) \in Indices /\ Forward(Back(last)) = last
    BY <1>3, SpanExtends, BackIs
  <1>5. Window(ar, Back(last), a + 1)
          = {ar[Back(last) % QSize]} \cup Window(ar, Forward(Back(last)), (a + 1) - 1)
    <2> HIDE DEF a
    <2> QED BY <1>3, <1>4, WindowShrinks
  <1>6. Window(ar, Back(last), a + 1) = {h} \cup Window(ar, last, a)
    <2> HIDE DEF a
    <2> QED BY <1>3, <1>4, <1>5
  <1>7. cF + 0 + (a + 1) + d = QSize
    <2> HIDE DEF a, d, cF
    <2> QED BY <1>1, <1>e
  <1>8. F \cup {} \cup Window(ar, Back(last), a + 1) \cup Window(ur, seen, d) = Heads
    <2> HIDE DEF a, d
    <2> QED BY <1>6, <1>u
  <1> QED BY <1>4, <1>7, <1>8, <1>e DEF Shared

\* vq_relchain: the chain in hand goes to the used ring.
LEMMA SharedRel ==
  ASSUME NEW ar \in [Heads -> Heads], NEW ur \in [Heads -> Heads], NEW last \in Indices,
         NEW av \in Indices, NEW seen \in Indices, NEW used \in Indices,
         NEW F \in SUBSET Heads, NEW h \in Heads,
         Shared(ar, last, av, ur, seen, used, F, {h})
  PROVE  /\ Shared(ar, last, av, Put(ur, used, h), seen, Forward(used), F, {})
         /\ Forward(used) \in Indices
         /\ Put(ur, used, h) \in [Heads -> Heads]
  <1> DEFINE a == Span(last, av)
             d == Span(seen, used)
             vr == Put(ur, used, h)
             cF == Cardinality(F)
  <1>1. /\ a \in Nat /\ d \in Nat /\ QSize \in Nat /\ cF \in Nat
        /\ cF + Cardinality({h}) + a + d = QSize
    BY SpanFacts
  <1>u. F \cup {h} \cup Window(ar, last, a) \cup Window(ur, seen, d) = Heads
    BY DEF Shared
  <1>e. Cardinality({}) = 0 /\ Cardinality({h}) = 1
    BY FS_EmptySet, FS_Singleton
  <1>3. d < QSize
    <2> HIDE DEF a, d, cF
    <2> QED BY <1>1, <1>e
  <1>4. Span(seen, Forward(used)) = d + 1 /\ Forward(used) \in Indices
    BY <1>3, SpanGrows, ForwardIs
  <1>5. Window(vr, seen, d + 1) = Window(ur, seen, d) \cup {h}
    BY <1>3, WindowGrows
  <1>6. vr \in [Heads -> Heads]
    BY DEF Put
  <1>7. cF + 0 + a + (d + 1) = QSize
    <2> HIDE DEF a, d, cF
    <2> QED BY <1>1, <1>e
  <1>8. F \cup {} \cup Window(ar, last, a) \cup Window(vr, seen, d + 1) = Heads
    <2> HIDE DEF a, d, vr
    <2> QED BY <1>5, <1>u
  <1>9. Shared(ar, last, av, vr, seen, Forward(used), F, {})
    <2> HIDE DEF vr
    <2> QED BY <1>4, <1>7, <1>8, <1>e DEF Shared
  <1> QED BY <1>4, <1>6, <1>9

\* A chain in the used ring is not with the guest: there would be too few.
LEMMA SharedReclaim ==
  ASSUME NEW ar \in [Heads -> Heads], NEW ur \in [Heads -> Heads], NEW last \in Indices,
         NEW av \in Indices, NEW seen \in Indices, NEW used \in Indices,
         NEW F \in SUBSET Heads, NEW H \in SUBSET Heads, seen # used,
         Shared(ar, last, av, ur, seen, used, F, H)
  PROVE  /\ Shared(ar, last, av, ur, Forward(seen), used, F \cup {ur[seen % QSize]}, H)
         /\ Forward(seen) \in Indices /\ ur[seen % QSize] \in Heads
  <1> DEFINE a == Span(last, av)
             d == Span(seen, used)
             x == ur[seen % QSize]
             cF == Cardinality(F)
             cH == Cardinality(H)
             A == Window(ar, last, a)
             E == Window(ur, Forward(seen), d - 1)
  <1>1. /\ a \in Nat /\ d \in Nat /\ QSize \in Nat /\ cF \in Nat /\ cH \in Nat
        /\ cF + cH + a + d = QSize /\ IsFiniteSet(F) /\ IsFiniteSet(H)
    BY SpanFacts
  <1>2. Span(Forward(seen), used) = d - 1 /\ d >= 1 /\ Forward(seen) \in Indices
    BY SpanShrinks, ForwardIs
  <1>n. d - 1 \in Nat
    <2> HIDE DEF d
    <2> QED BY <1>1, <1>2
  <1>3. Window(ur, seen, d) = {x} \cup E
    BY <1>1, <1>2, WindowShrinks
  <1>u. F \cup H \cup A \cup {x} \cup E = Heads
    <2>1. F \cup H \cup A \cup Window(ur, seen, d) = Heads
      BY DEF Shared
    <2> HIDE DEF A, E, x, d
    <2> QED BY <2>1, <1>3
  <1>h. x \in Heads
    BY <1>u
  <1>A. IsFiniteSet(A) /\ Cardinality(A) <= a /\ Cardinality(A) \in Nat
    BY <1>1, WindowType, FS_CardinalityType
  <1>E. IsFiniteSet(E) /\ Cardinality(E) <= d - 1 /\ Cardinality(E) \in Nat
    BY <1>n, <1>2, WindowType, FS_CardinalityType
  <1> HIDE DEF a, d, A, E, x
  <1>4. x \notin F
    <2> SUFFICES ASSUME x \in F PROVE FALSE
      OBVIOUS
    <2>1. (F \cup H) \cup (A \cup E) = Heads
      BY <1>u
    <2>2. IsFiniteSet(F \cup H) /\ Cardinality(F \cup H) <= cF + cH /\ Cardinality(F \cup H) \in Nat
      BY <1>1, UnionBound, FS_CardinalityType
    <2>3. /\ IsFiniteSet(A \cup E) /\ Cardinality(A \cup E) <= Cardinality(A) + Cardinality(E)
          /\ Cardinality(A \cup E) \in Nat
      BY <1>A, <1>E, UnionBound, FS_CardinalityType
    <2>4. Cardinality((F \cup H) \cup (A \cup E)) <= Cardinality(F \cup H) + Cardinality(A \cup E)
      BY <2>2, <2>3, UnionBound
    <2>5. QSize <= Cardinality(F \cup H) + Cardinality(A \cup E)
      BY <2>1, <2>4, HeadsFinite
    <2> DEFINE p == Cardinality(F \cup H)
               q == Cardinality(A \cup E)
               cA == Cardinality(A)
               cE == Cardinality(E)
    <2>6. p <= cF + cH /\ p \in Nat /\ q <= cA + cE /\ q \in Nat /\ QSize <= p + q
      BY <2>2, <2>3, <2>5
    <2>7. cA <= a /\ cA \in Nat /\ cE <= d - 1 /\ cE \in Nat
      BY <1>A, <1>E
    <2> HIDE DEF p, q, cA, cE, cF, cH
    <2> QED BY <1>1, <2>6, <2>7
  <1>5. Cardinality(F \cup {x}) = cF + 1
    BY <1>1, <1>4, FS_AddElement
  <1>6. Cardinality(F \cup {x}) + cH + a + (d - 1) = QSize
    <2> HIDE DEF cF, cH
    <2> QED BY <1>1, <1>5
  <1>7. (F \cup {x}) \cup H \cup A \cup E = Heads
    BY <1>u
  <1>8. Shared(ar, last, av, ur, Forward(seen), used, F \cup {x}, H)
    BY <1>2, <1>6, <1>7 DEF Shared, a, A, E, d
  <1> QED BY <1>2, <1>h, <1>8 DEF x

\* A ring that has just been set up: all chains are with the guest.
LEMMA SharedInit ==
  ASSUME NEW ar, NEW ur
  PROVE  Shared(ar, 0, 0, ur, 0, 0, Heads, {})
  <1>1. 0 \in Indices
    BY RingConstants DEF Indices
  <1>2. Span(0, 0) = 0
    BY <1>1, SpanZero
  <1>3. Window(ar, 0, 0) = {} /\ Window(ur, 0, 0) = {}
    BY DEF Window
  <1>4. Cardinality(Heads) = QSize /\ Cardinality({}) = 0 /\ QSize \in Nat
    BY HeadsFinite, FS_EmptySet, RingConstants
  <1> QED BY <1>2, <1>3, <1>4 DEF Shared

\* A chain in hand stays in the avail ring, before the index of the device.
LEMMA BeforeLastStays ==
  ASSUME NEW ar \in [Heads -> Heads], NEW ur \in [Heads -> Heads], NEW last \in Indices,
         NEW av \in Indices, NEW seen \in Indices, NEW used \in Indices,
         NEW F \in SUBSET Heads, NEW h \in Heads, NEW x \in F,
         Shared(ar, last, av, ur, seen, used, F, {h})
  PROVE  Put(ar, av, x)[Back(last) % QSize] = ar[Back(last) % QSize]
  <1> DEFINE a == Span(last, av)
             d == Span(seen, used)
             cF == Cardinality(F)
             b == Back(last)
  <1>1. /\ a \in Nat /\ d \in Nat /\ QSize \in Nat /\ cF \in Nat
        /\ cF + Cardinality({h}) + a + d = QSize /\ IsFiniteSet(F)
    BY SpanFacts
  <1>2. cF >= 1 /\ Cardinality({h}) = 1
    BY <1>1, OneMember, FS_Singleton
  <1>3. a < QSize /\ a + 1 \in Nat /\ a + 1 < QSize /\ 0 < a + 1
    <2> HIDE DEF a, d, cF
    <2> QED BY <1>1, <1>2
  <1>4. Span(b, av) = a + 1 /\ b \in Indices
    BY <1>3, SpanExtends, BackIs
  <1>5. av % QSize = (b + (a + 1)) % QSize
    BY <1>4, PlaceOfHi
  <1>6. b \in Nat
    BY <1>4, RingConstants DEF Indices
  <1> HIDE DEF a, b
  <1>7. (b + 0) % QSize # (b + (a + 1)) % QSize
    <2> DEFINE j == a + 1
    <2>1. j \in Nat /\ 0 \in Nat /\ 0 < j /\ j - 0 < QSize
      BY <1>3
    <2> HIDE DEF j
    <2>2. (b + 0) % QSize # (b + j) % QSize
      BY <1>6, <2>1, PlacesDiffer
    <2> QED BY <2>2 DEF j
  <1>8. b % QSize # av % QSize
    BY <1>5, <1>6, <1>7
  <1>9. b % QSize \in Heads
    BY <1>6, PlaceIn
  <1> QED BY <1>8, <1>9 DEF b, Put

-----------------------------------------------------------------------------
(* The operations of virtio.c on a queue.                                  *)

\* The record of the device.
NetDev ==
  [resetting : BOOLEAN, rx_ready : BOOLEAN, rx_in_progress : BOOLEAN,
   tx_in_progress : BOOLEAN, vhdrlen : {10, 12}, merge : BOOLEAN,
   link : {"down", "up", "lost"}]

\* Two queues that differ in flags only.
Alike(q, r) ==
  /\ r.alloc = q.alloc /\ r.last = q.last /\ r.avail = q.avail /\ r.used = q.used
  /\ r.aring = q.aring /\ r.uring = q.uring

\* What the invariant says of a queue depends on no flag.
LEMMA AlikeKeeps ==
  ASSUME NEW q, NEW r, Alike(q, r), NEW s, NEW F, NEW H
  PROVE  /\ Conserved(q, s, F, H) => Conserved(r, s, F, H)
         /\ vq_has_descs(r) <=> vq_has_descs(q)
  BY ConservedIs DEF Alike, vq_has_descs

\* The chain before the index of a queue.
Before(q) == q.aring[Back(q.last) % QSize]

\* The chain that vq_retchain would give back.
LEMMA BeforeIs ==
  ASSUME NEW q \in Queues
  PROVE  vq_head(vq_retchain(q)) = Before(q)
  BY DEF vq_head, vq_retchain, Before, Back, Queues

\* The flags, what vq_endchains saves, and the part of the used index that the
\* guest does not see yet, are no part of the rings.
LEMMA FlagsOnly ==
  ASSUME NEW q \in Queues, NEW b \in BOOLEAN, NEW x, NEW e
  PROVE  /\ [q EXCEPT !.noNotify = b] \in Queues /\ Alike(q, [q EXCEPT !.noNotify = b])
         /\ [q EXCEPT !.noIntr = b] \in Queues /\ Alike(q, [q EXCEPT !.noIntr = b])
         /\ vq_saved(q, x, e) \in Queues /\ Alike(q, vq_saved(q, x, e))
         /\ Locked(q) \in Queues /\ Alike(q, Locked(q))
         /\ q.lag # 0 => Drain(q) \in Queues /\ Alike(q, Drain(q))
  <1> DEFINE r == [q EXCEPT !.save = q.used]
  <1>1. /\ [q EXCEPT !.noNotify = b] \in Queues /\ Alike(q, [q EXCEPT !.noNotify = b])
        /\ [q EXCEPT !.noIntr = b] \in Queues /\ Alike(q, [q EXCEPT !.noIntr = b])
        /\ r \in Queues /\ Alike(q, r)
        /\ Locked(q) \in Queues /\ Alike(q, Locked(q))
        /\ Locked(r) \in Queues /\ Alike(q, Locked(r))
    BY DEF Queues, Alike, Locked
  <1>2. vq_saved(q, x, e) = r \/ vq_saved(q, x, e) = Locked(r)
    BY DEF vq_saved
  <1>3. q.lag # 0 => Drain(q) \in Queues /\ Alike(q, Drain(q))
    BY DEF Queues, Alike, Drain
  <1> HIDE DEF r
  <1> QED BY <1>1, <1>2, <1>3

\* The guest posts a chain.
LEMMA PostQueue ==
  ASSUME NEW q \in Queues, NEW s \in Indices, NEW F \in SUBSET Heads, NEW H \in SUBSET Heads,
         NEW x \in F, Conserved(q, s, F, H)
  PROVE  /\ guest_post(q, x) \in Queues /\ guest_post(q, x).alloc = q.alloc
         /\ guest_post(q, x).last # guest_post(q, x).avail
         /\ Conserved(guest_post(q, x), s, F \ {x}, H)
  <1> DEFINE p == guest_post(q, x)
  <1>q. /\ q.aring \in [Heads -> Heads] /\ q.uring \in [Heads -> Heads] /\ q.last \in Indices
        /\ q.avail \in Indices /\ q.used \in Indices
    BY DEF Queues
  <1>1. Shared(q.aring, q.last, q.avail, q.uring, s, q.used, F, H)
    BY ConservedIs
  <1>2. /\ Shared(Put(q.aring, q.avail, x), q.last, Forward(q.avail), q.uring, s, q.used,
                  F \ {x}, H)
        /\ Forward(q.avail) \in Indices /\ q.last # Forward(q.avail)
        /\ Put(q.aring, q.avail, x) \in [Heads -> Heads]
    BY <1>q, <1>1, SharedPost
  <1>3. p = [q EXCEPT !.aring = Put(q.aring, q.avail, x), !.avail = Forward(q.avail)]
    BY DEF guest_post, Put, Forward, Queues
  <1> HIDE DEF p
  <1>4. /\ p \in Queues /\ p.aring = Put(q.aring, q.avail, x) /\ p.avail = Forward(q.avail)
        /\ p.alloc = q.alloc /\ p.last = q.last /\ p.uring = q.uring /\ p.used = q.used
    BY <1>2, <1>3 DEF Queues
  <1>5. Conserved(p, s, F \ {x}, H)
    BY <1>2, <1>4, ConservedIs
  <1> QED BY <1>2, <1>4, <1>5 DEF p

\* Posting leaves the chain in hand where it is.
LEMMA PostBefore ==
  ASSUME NEW q \in Queues, NEW s \in Indices, NEW F \in SUBSET Heads, NEW h \in Heads,
         NEW x \in F, Conserved(q, s, F, {h})
  PROVE  Before(guest_post(q, x)) = Before(q)
  <1>q. /\ q.aring \in [Heads -> Heads] /\ q.uring \in [Heads -> Heads] /\ q.last \in Indices
        /\ q.avail \in Indices /\ q.used \in Indices
    BY DEF Queues
  <1>1. Shared(q.aring, q.last, q.avail, q.uring, s, q.used, F, {h})
    BY ConservedIs
  <1>2. Put(q.aring, q.avail, x)[Back(q.last) % QSize] = q.aring[Back(q.last) % QSize]
    BY <1>q, <1>1, BeforeLastStays
  <1>3. guest_post(q, x).aring = Put(q.aring, q.avail, x) /\ guest_post(q, x).last = q.last
    BY DEF guest_post, Put, Queues
  <1> QED BY <1>2, <1>3 DEF Before

\* vq_getchain takes the next chain.
LEMMA GetQueue ==
  ASSUME NEW q \in Queues, NEW s \in Indices, NEW F \in SUBSET Heads,
         vq_has_descs(q), Conserved(q, s, F, {})
  PROVE  /\ vq_getchain(q) \in Queues /\ vq_getchain(q).alloc = q.alloc
         /\ vq_head(q) \in Heads /\ Before(vq_getchain(q)) = vq_head(q)
         /\ Conserved(vq_getchain(q), s, F, {vq_head(q)})
  <1> DEFINE p == vq_getchain(q)
             h == vq_head(q)
  <1>q. /\ q.aring \in [Heads -> Heads] /\ q.uring \in [Heads -> Heads] /\ q.last \in Indices
        /\ q.avail \in Indices /\ q.used \in Indices /\ q.last # q.avail
    BY DEF Queues, vq_has_descs
  <1>h. h = q.aring[q.last % QSize]
    BY DEF vq_head
  <1> HIDE DEF h
  <1>1. Shared(q.aring, q.last, q.avail, q.uring, s, q.used, F, {})
    BY ConservedIs
  <1>2. /\ Shared(q.aring, Forward(q.last), q.avail, q.uring, s, q.used, F, {h})
        /\ Forward(q.last) \in Indices /\ h \in Heads
    BY <1>q, <1>1, <1>h, SharedGet
  <1>3. p = [q EXCEPT !.last = Forward(q.last)]
    BY DEF vq_getchain, Forward
  <1> HIDE DEF p
  <1>4. /\ p \in Queues /\ p.aring = q.aring /\ p.avail = q.avail
        /\ p.alloc = q.alloc /\ p.last = Forward(q.last) /\ p.uring = q.uring /\ p.used = q.used
    BY <1>2, <1>3 DEF Queues
  <1>5. Conserved(p, s, F, {h})
    BY <1>2, <1>4, ConservedIs
  <1>6. Before(p) = h
    BY <1>q, <1>h, <1>4, BackForward DEF Before
  <1> QED BY <1>2, <1>4, <1>5, <1>6 DEF p, h

\* vq_retchain gives the chain back.
LEMMA RetQueue ==
  ASSUME NEW q \in Queues, NEW s \in Indices, NEW F \in SUBSET Heads, NEW h \in Heads,
         h = Before(q), Conserved(q, s, F, {h})
  PROVE  /\ vq_retchain(q) \in Queues /\ vq_retchain(q).alloc = q.alloc
         /\ Conserved(vq_retchain(q), s, F, {})
  <1> DEFINE p == vq_retchain(q)
  <1>q. /\ q.aring \in [Heads -> Heads] /\ q.uring \in [Heads -> Heads] /\ q.last \in Indices
        /\ q.avail \in Indices /\ q.used \in Indices
    BY DEF Queues
  <1>1. Shared(q.aring, q.last, q.avail, q.uring, s, q.used, F, {h})
    BY ConservedIs
  <1>h. h = q.aring[Back(q.last) % QSize]
    BY DEF Before
  <1>2. /\ Shared(q.aring, Back(q.last), q.avail, q.uring, s, q.used, F, {})
        /\ Back(q.last) \in Indices
    BY <1>q, <1>1, <1>h, SharedRet
  <1>3. p = [q EXCEPT !.last = Back(q.last)]
    BY DEF vq_retchain, Back
  <1> HIDE DEF p
  <1>4. /\ p \in Queues /\ p.aring = q.aring /\ p.avail = q.avail
        /\ p.alloc = q.alloc /\ p.last = Back(q.last) /\ p.uring = q.uring /\ p.used = q.used
    BY <1>2, <1>3 DEF Queues
  <1>5. Conserved(p, s, F, {})
    BY <1>2, <1>4, ConservedIs
  <1> QED BY <1>4, <1>5 DEF p

\* vq_relchain releases the chain.
LEMMA RelQueue ==
  ASSUME NEW q \in Queues, NEW s \in Indices, NEW F \in SUBSET Heads, NEW h \in Heads,
         Conserved(q, s, F, {h})
  PROVE  /\ vq_relchain(q, h) \in Queues /\ vq_relchain(q, h).alloc = q.alloc
         /\ vq_has_descs(vq_relchain(q, h)) <=> vq_has_descs(q)
         /\ Conserved(vq_relchain(q, h), s, F, {})
  <1> DEFINE p == vq_relchain(q, h)
  <1>q. /\ q.aring \in [Heads -> Heads] /\ q.uring \in [Heads -> Heads] /\ q.last \in Indices
        /\ q.avail \in Indices /\ q.used \in Indices
    BY DEF Queues
  <1>1. Shared(q.aring, q.last, q.avail, q.uring, s, q.used, F, {h})
    BY ConservedIs
  <1>2. /\ Shared(q.aring, q.last, q.avail, Put(q.uring, q.used, h), s, Forward(q.used), F, {})
        /\ Forward(q.used) \in Indices /\ Put(q.uring, q.used, h) \in [Heads -> Heads]
    BY <1>q, <1>1, SharedRel
  <1>3. p = [q EXCEPT !.uring = Put(q.uring, q.used, h), !.used = Forward(q.used),
                     !.lag = q.lag + 1] /\ q.lag + 1 \in Nat
    BY DEF vq_relchain, Put, Forward, Queues
  <1> HIDE DEF p
  <1>4. /\ p \in Queues /\ p.aring = q.aring /\ p.avail = q.avail /\ p.alloc = q.alloc
        /\ p.last = q.last /\ p.uring = Put(q.uring, q.used, h) /\ p.used = Forward(q.used)
    BY <1>2, <1>3 DEF Queues
  <1>5. Conserved(p, s, F, {})
    BY <1>2, <1>4, ConservedIs
  <1>6. vq_has_descs(p) <=> vq_has_descs(q)
    BY <1>4 DEF vq_has_descs
  <1> QED BY <1>4, <1>5, <1>6 DEF p

\* What the guest sees is there.
LEMMA SeesUsed ==
  ASSUME NEW q \in Queues, NEW s \in Indices, guest_sees(q, s)
  PROVE  s # q.used
  <1>1. q.lag \in Nat /\ s \in Nat /\ W \in Nat /\ W > 0
    BY RingConstants DEF Queues, Indices
  <1>2. UsedCount(q, s) > q.lag
    BY DEF guest_sees
  <1>3. ASSUME s = q.used PROVE FALSE
    <2>1. UsedCount(q, s) = (s + W - s) % W
      BY <1>3 DEF UsedCount
    <2>2. s + W - s = W /\ W % W = 0
      BY <1>1
    <2> QED BY <1>1, <1>2, <2>1, <2>2
  <1> QED BY <1>3

\* The guest takes a chain back from the used ring.
LEMMA ReclaimQueue ==
  ASSUME NEW q \in Queues, NEW s \in Indices, NEW F \in SUBSET Heads, NEW H \in SUBSET Heads,
         s # q.used, Conserved(q, s, F, H)
  PROVE  /\ (s + 1) % W \in Indices /\ guest_head(q, s) \in Heads
         /\ Conserved(q, (s + 1) % W, F \cup {guest_head(q, s)}, H)
  <1>q. /\ q.aring \in [Heads -> Heads] /\ q.uring \in [Heads -> Heads] /\ q.last \in Indices
        /\ q.avail \in Indices /\ q.used \in Indices
    BY DEF Queues
  <1>1. Shared(q.aring, q.last, q.avail, q.uring, s, q.used, F, H)
    BY ConservedIs
  <1> DEFINE x == guest_head(q, s)
             t == Forward(s)
  <1>h. x = q.uring[s % QSize]
    BY DEF guest_head
  <1> HIDE DEF x, t
  <1>2. /\ Shared(q.aring, q.last, q.avail, q.uring, Forward(s), q.used, F \cup {x}, H)
        /\ Forward(s) \in Indices /\ x \in Heads
    BY <1>q, <1>1, <1>h, SharedReclaim
  <1>3. Conserved(q, t, F \cup {x}, H) /\ t \in Indices
    BY <1>2, ConservedIs DEF t
  <1>4. t = (s + 1) % W
    BY DEF t, Forward
  <1> QED BY <1>2, <1>3, <1>4 DEF x

\* Queues before and after their set-up (vi_vq_init).
LEMMA InitQueue ==
  /\ EmptyQueue \in Queues /\ ~EmptyQueue.alloc
  /\ \A q : /\ vi_vq_init(q) \in Queues /\ vi_vq_init(q).alloc
            /\ Conserved(vi_vq_init(q), 0, Heads, {})
  /\ 0 \in Indices
  <1>0. 0 \in Indices /\ 0 \in Heads
    BY RingConstants DEF Indices, Heads
  <1>1. EmptyQueue \in Queues /\ ~EmptyQueue.alloc
    BY <1>0 DEF EmptyQueue, Queues
  <1>2. ASSUME NEW q
        PROVE  /\ vi_vq_init(q) \in Queues /\ vi_vq_init(q).alloc
               /\ Conserved(vi_vq_init(q), 0, Heads, {})
    <2> DEFINE p == vi_vq_init(q)
    <2>1. /\ p \in Queues /\ p.alloc /\ p.last = 0 /\ p.avail = 0 /\ p.used = 0
      BY <1>0 DEF vi_vq_init, EmptyQueue, Queues
    <2> HIDE DEF p
    <2>2. Conserved(p, 0, Heads, {})
      BY <2>1, SharedInit, ConservedIs
    <2> QED BY <2>1, <2>2 DEF p
  <1> QED BY <1>0, <1>1, <1>2

\* vi_reset_dev leaves no queue.
LEMMA ResetQueue ==
  ASSUME NEW q \in Queues
  PROVE  vi_reset_dev(q) \in Queues /\ ~vi_reset_dev(q).alloc
  BY InitQueue DEF Queues, vi_reset_dev

-----------------------------------------------------------------------------
(* The steps of the network device.                                        *)

\* The chain in hand, as a set.
LEMMA HandIs ==
  /\ NoChain \notin Heads /\ {NoChain} \cap Heads = {}
  /\ \A h \in Heads : {h} \cap Heads = {h} /\ h # NoChain
  BY RingConstants DEF NoChain, Heads

\* The driver's record.
NetGuest ==
  [txseen : Indices, txfree : SUBSET Heads, rxseen : Indices, rxfree : SUBSET Heads,
   mode : {"sleep", "poll", "look"}]

\* What the invariant says of the threads and locks, with the queues left out
\* but for what the threads see of them.
NetParts ==
  /\ rxq \in Queues /\ txq \in Queues /\ dev \in NetDev /\ g \in NetGuest
  /\ dev.merge => dev.vhdrlen = 12
  /\ mtx \in BOOLEAN /\ txm \in {"none", "tx"} /\ rxm \in {"none", "rx"}
  /\ tx \in {"wait", "woken", "lock", "top", "empty", "recheck", "proc", "sent", "end"}
  /\ rx \in {"select", "check", "ready", "fill", "more", "end", "end0", "done", "lost"}
  /\ vcpu \in {"run", "kick", "ping", "txwait", "rxwait", "reset", "clear", "over"}
  /\ chain \in [tx : Heads \cup {NoChain}, rx : Heads \cup {NoChain}]
  /\ intr \in BOOLEAN

\* The type invariant with the records named.
LEMMA NetTypeIs == NetTypeOK <=> NetParts
  BY DEF NetTypeOK, NetParts, NetDev, NetGuest

\* A step that leaves the rings, the chains and the driver alone.
Quiet == rxq' = rxq /\ txq' = txq /\ chain' = chain /\ g' = g

\* A quiet step keeps the chains and the queues.
LEMMA QuietKeeps ==
  ASSUME Quiet
  PROVE  /\ (RingsOwned => ChainsConserved')
         /\ (QueuesExist /\ dev'.rx_ready = dev.rx_ready => QueuesExist')
  BY DEF Quiet, RingsOwned, ChainsConserved, QueuesExist

\* A packet comes.
LEMMA RxBeginStep ==
  ASSUME NetInv, RxBegin
  PROVE  NetInv'
  <1> USE NetTypeIs DEF NetInv
  <1>q. Quiet
    BY DEF RxBegin, Quiet, ring
  <1>d. /\ dev' \in NetDev
        /\ dev'.resetting = dev.resetting /\ dev'.rx_ready = dev.rx_ready
        /\ dev'.rx_in_progress = TRUE /\ dev'.tx_in_progress = dev.tx_in_progress
        /\ dev'.vhdrlen = dev.vhdrlen /\ dev'.merge = dev.merge /\ dev'.link = dev.link
    BY DEF RxBegin, NetParts, NetDev
  <1>1. NetParts'
    BY <1>q, <1>d DEF RxBegin, NetParts, Quiet, locks
  <1>2. ResetWaits' /\ QueuesExist' /\ InHand'
    BY <1>q, <1>d, QuietKeeps, NetConstants DEF RxBegin, ResetWaits, InHand, Quiet, NetParts,
       NetDev, locks
  <1>3. RingsOwned'
    BY <1>q, QuietKeeps DEF RxBegin, RingsOwned, RingOwned, Quiet
  <1> QED BY <1>1, <1>2, <1>3, PTL

\* The connection is lost.
LEMMA RxLostStep ==
  ASSUME NetInv, RxLost
  PROVE  NetInv'
  <1> USE NetTypeIs DEF NetInv
  <1>q. Quiet
    BY DEF RxLost, Quiet, ring
  <1>d. /\ dev' \in NetDev
        /\ dev'.resetting = dev.resetting /\ dev'.rx_ready = dev.rx_ready
        /\ dev'.rx_in_progress = dev.rx_in_progress /\ dev'.tx_in_progress = dev.tx_in_progress
        /\ dev'.vhdrlen = dev.vhdrlen /\ dev'.merge = dev.merge /\ dev'.link = "lost"
    BY DEF RxLost, NetParts, NetDev
  <1>1. NetParts'
    BY <1>q, <1>d DEF RxLost, NetParts, Quiet, locks
  <1>2. ResetWaits' /\ QueuesExist' /\ InHand'
    BY <1>q, <1>d, QuietKeeps, NetConstants DEF RxLost, ResetWaits, InHand, Quiet, NetParts,
       NetDev, locks
  <1>3. RingsOwned'
    BY <1>q, QuietKeeps DEF RxLost, RingsOwned, RingOwned, Quiet
  <1> QED BY <1>1, <1>2, <1>3, PTL

\* The connection is made.
LEMMA CreateStep ==
  ASSUME NetInv, vpnkit_create
  PROVE  NetInv'
  <1> USE NetTypeIs DEF NetInv
  <1>q. Quiet
    BY DEF vpnkit_create, Quiet, ring
  <1>d. /\ dev' \in NetDev
        /\ dev'.resetting = dev.resetting /\ dev'.rx_ready = dev.rx_ready
        /\ dev'.rx_in_progress = dev.rx_in_progress /\ dev'.tx_in_progress = dev.tx_in_progress
        /\ dev'.vhdrlen = dev.vhdrlen /\ dev'.merge = dev.merge /\ dev'.link = "up"
    BY DEF vpnkit_create, NetParts, NetDev
  <1>1. NetParts'
    BY <1>q, <1>d DEF vpnkit_create, NetParts, Quiet, locks
  <1>2. ResetWaits' /\ QueuesExist' /\ InHand'
    BY <1>q, <1>d, QuietKeeps, NetConstants DEF vpnkit_create, ResetWaits, InHand, Quiet,
       NetParts, NetDev, locks
  <1>3. RingsOwned'
    BY <1>q, QuietKeeps DEF vpnkit_create, RingsOwned, RingOwned, Quiet
  <1> QED BY <1>1, <1>2, <1>3, PTL

\* The vcpu notifies, first half.
LEMMA PingTxBeginStep ==
  ASSUME NetInv, PingTxBegin
  PROVE  NetInv'
  <1> USE NetTypeIs DEF NetInv
  <1>q. Quiet
    BY DEF PingTxBegin, Quiet, ring
  <1>1. NetParts'
    BY <1>q DEF PingTxBegin, NetParts, Quiet, locks
  <1>2. ResetWaits' /\ QueuesExist' /\ InHand'
    BY <1>q, QuietKeeps, NetConstants DEF PingTxBegin, ResetWaits, InHand, Quiet, NetParts,
       NetDev, locks
  <1>3. RingsOwned'
    BY <1>q, QuietKeeps DEF PingTxBegin, RingsOwned, RingOwned, Quiet
  <1> QED BY <1>1, <1>2, <1>3, PTL

\* The driver does not notify.
LEMMA SkipNotifyStep ==
  ASSUME NetInv, SkipNotify
  PROVE  NetInv'
  <1> USE NetTypeIs DEF NetInv
  <1>q. Quiet
    BY DEF SkipNotify, Quiet, ring
  <1>1. NetParts'
    BY <1>q DEF SkipNotify, NetParts, Quiet, locks
  <1>2. ResetWaits' /\ QueuesExist' /\ InHand'
    BY <1>q, QuietKeeps, NetConstants DEF SkipNotify, ResetWaits, InHand, Quiet, NetParts,
       NetDev, locks
  <1>3. RingsOwned'
    BY <1>q, QuietKeeps DEF SkipNotify, RingsOwned, RingOwned, Quiet
  <1> QED BY <1>1, <1>2, <1>3, PTL

\* A reset begins: from here on no thread begins to work.
LEMMA ResetBeginStep ==
  ASSUME NetInv, ResetBegin
  PROVE  NetInv'
  <1> USE NetTypeIs DEF NetInv
  <1>q. Quiet
    BY DEF ResetBegin, Quiet, ring
  <1>d. /\ dev' \in NetDev
        /\ dev'.resetting = TRUE /\ dev'.rx_ready = dev.rx_ready
        /\ dev'.rx_in_progress = dev.rx_in_progress /\ dev'.tx_in_progress = dev.tx_in_progress
        /\ dev'.vhdrlen = dev.vhdrlen /\ dev'.merge = dev.merge /\ dev'.link = dev.link
    BY DEF ResetBegin, NetParts, NetDev
  <1>1. NetParts'
    BY <1>q, <1>d DEF ResetBegin, NetParts, Quiet, locks
  <1>2. ResetWaits' /\ QueuesExist' /\ InHand'
    BY <1>q, <1>d, QuietKeeps, NetConstants DEF ResetBegin, ResetWaits, InHand, Quiet,
       NetParts, NetDev, locks
  <1>3. RingsOwned'
    BY <1>q, QuietKeeps DEF ResetBegin, RingsOwned, RingOwned, Quiet
  <1> QED BY <1>1, <1>2, <1>3, PTL

\* The reset has waited for the transmit thread.
LEMMA TxWaitStep ==
  ASSUME NetInv, pci_vtnet_txwait
  PROVE  NetInv'
  <1> USE NetTypeIs DEF NetInv
  <1>q. Quiet
    BY DEF pci_vtnet_txwait, Quiet, ring
  <1>1. NetParts'
    BY <1>q DEF pci_vtnet_txwait, NetParts, Quiet, locks
  <1>2. ResetWaits' /\ QueuesExist' /\ InHand'
    BY <1>q, QuietKeeps, NetConstants DEF pci_vtnet_txwait, ResetWaits, InHand, Quiet,
       NetParts, NetDev, locks
  <1>3. RingsOwned'
    BY <1>q, QuietKeeps DEF pci_vtnet_txwait, RingsOwned, RingOwned, Quiet
  <1> QED BY <1>1, <1>2, <1>3, PTL

\* The reset has waited for the receiver.
LEMMA RxWaitStep ==
  ASSUME NetInv, pci_vtnet_rxwait
  PROVE  NetInv'
  <1> USE NetTypeIs DEF NetInv
  <1>q. Quiet
    BY DEF pci_vtnet_rxwait, Quiet, ring
  <1>1. NetParts'
    BY <1>q DEF pci_vtnet_rxwait, NetParts, Quiet, locks
  <1>2. ResetWaits' /\ QueuesExist' /\ InHand'
    BY <1>q, QuietKeeps, NetConstants DEF pci_vtnet_rxwait, ResetWaits, InHand, Quiet,
       NetParts, NetDev, locks
  <1>3. RingsOwned'
    BY <1>q, QuietKeeps DEF pci_vtnet_rxwait, RingsOwned, RingOwned, Quiet
  <1> QED BY <1>1, <1>2, <1>3, PTL

\* The receiver finds the ring ready, or not.
LEMMA TapRxStep ==
  ASSUME NetInv, pci_vtnet_tap_rx
  PROVE  NetInv'
  <1> USE NetTypeIs DEF NetInv
  <1>q. Quiet
    BY DEF pci_vtnet_tap_rx, Quiet, ring
  <1>1. NetParts'
    BY <1>q DEF pci_vtnet_tap_rx, NetParts, Quiet, locks
  <1>2. ResetWaits' /\ QueuesExist' /\ InHand'
    BY <1>q, QuietKeeps, NetConstants DEF pci_vtnet_tap_rx, ResetWaits, InHand, Quiet,
       NetParts, NetDev, locks
  <1>3. RingsOwned'
    BY <1>q, QuietKeeps DEF pci_vtnet_tap_rx, RingsOwned, RingOwned, Quiet
  <1> QED BY <1>1, <1>2, <1>3, PTL

\* The reset is over.
LEMMA ResetOverStep ==
  ASSUME NetInv, ResetOver
  PROVE  NetInv'
  <1> USE NetTypeIs DEF NetInv
  <1>q. Quiet
    BY DEF ResetOver, Quiet, ring
  <1>d. /\ dev' \in NetDev
        /\ dev'.resetting = FALSE /\ dev'.rx_ready = dev.rx_ready
        /\ dev'.rx_in_progress = dev.rx_in_progress /\ dev'.tx_in_progress = dev.tx_in_progress
        /\ dev'.vhdrlen = dev.vhdrlen /\ dev'.merge = dev.merge /\ dev'.link = dev.link
    BY DEF ResetOver, NetParts, NetDev
  <1>1. NetParts'
    BY <1>q, <1>d DEF ResetOver, NetParts, Quiet, locks
  <1>2. ResetWaits' /\ QueuesExist' /\ InHand'
    BY <1>q, <1>d, QuietKeeps, NetConstants DEF ResetOver, ResetWaits, InHand, Quiet,
       NetParts, NetDev, locks
  <1>3. RingsOwned'
    BY <1>q, QuietKeeps DEF ResetOver, RingsOwned, RingOwned, Quiet
  <1> QED BY <1>1, <1>2, <1>3, PTL

\* The features are negotiated.
LEMMA NegStep ==
  ASSUME NetInv, NEW mrg \in Mrg, pci_vtnet_neg_features(mrg)
  PROVE  NetInv'
  <1> USE NetTypeIs DEF NetInv
  <1>q. Quiet
    BY DEF pci_vtnet_neg_features, Quiet, ring
  <1>m. mrg \in BOOLEAN /\ dev.vhdrlen = 12 /\ dev \in NetDev
    BY NetConstants DEF pci_vtnet_neg_features, NetParts
  <1>d. /\ dev' \in NetDev /\ (dev'.merge => dev'.vhdrlen = 12)
        /\ dev'.resetting = dev.resetting /\ dev'.rx_ready = dev.rx_ready /\ dev'.link = dev.link
        /\ dev'.rx_in_progress = dev.rx_in_progress /\ dev'.tx_in_progress = dev.tx_in_progress
    <2>1. CASE mrg
      <3>1. dev' = [dev EXCEPT !.merge = mrg, !.vhdrlen = 12]
        BY <1>m, <2>1 DEF pci_vtnet_neg_features, NetDev
      <3> QED BY <1>m, <3>1 DEF NetDev
    <2>2. CASE ~mrg
      <3>1. dev' = [dev EXCEPT !.merge = mrg, !.vhdrlen = 10]
        BY <1>m, <2>2 DEF pci_vtnet_neg_features, NetDev
      <3>2. ~dev'.merge /\ dev' \in NetDev
        BY <1>m, <2>2, <3>1 DEF NetDev
      <3> QED BY <1>m, <3>1, <3>2 DEF NetDev
    <2> QED BY <2>1, <2>2
  <1>1. NetParts'
    BY <1>q, <1>d DEF pci_vtnet_neg_features, NetParts, Quiet, locks
  <1>2. ResetWaits' /\ QueuesExist' /\ InHand'
    BY <1>q, <1>d, QuietKeeps, NetConstants DEF pci_vtnet_neg_features, ResetWaits, InHand,
       Quiet, NetParts, NetDev, locks
  <1>3. RingsOwned'
    BY <1>q, QuietKeeps DEF pci_vtnet_neg_features, RingsOwned, RingOwned, Quiet
  <1> QED BY <1>1, <1>2, <1>3, PTL

\* A step that sets flags of the queues.
FlagStep ==
  /\ rxq' \in Queues /\ Alike(rxq, rxq') /\ txq' \in Queues /\ Alike(txq, txq')
  /\ chain' = chain /\ g' \in NetGuest
  /\ g'.txseen = g.txseen /\ g'.txfree = g.txfree /\ g'.rxseen = g.rxseen /\ g'.rxfree = g.rxfree

\* A step that sets flags keeps the chains, and what the threads see.
LEMMA FlagKeeps ==
  ASSUME NetInv, FlagStep
  PROVE  /\ ChainsConserved'
         /\ vq_has_descs(rxq)' <=> vq_has_descs(rxq)
         /\ vq_has_descs(txq)' <=> vq_has_descs(txq)
         /\ rxq'.alloc = rxq.alloc /\ txq'.alloc = txq.alloc
         /\ vq_head(vq_retchain(rxq))' = vq_head(vq_retchain(rxq))
  <1>0. rxq \in Queues /\ txq \in Queues /\ ChainsConserved
    BY DEF NetInv, NetTypeOK, RingsOwned
  <1>1. rxq'.alloc = rxq.alloc /\ txq'.alloc = txq.alloc
    BY DEF FlagStep, Alike
  <1>2. txq'.alloc => Conserved(txq', g'.txseen, g'.txfree, {chain'.tx} \cap Heads)
    BY <1>0, <1>1, AlikeKeeps DEF FlagStep, ChainsConserved
  <1>3. rxq'.alloc => Conserved(rxq', g'.rxseen, g'.rxfree, {chain'.rx} \cap Heads)
    BY <1>0, <1>1, AlikeKeeps DEF FlagStep, ChainsConserved
  <1>4. (vq_has_descs(rxq') <=> vq_has_descs(rxq)) /\ (vq_has_descs(txq') <=> vq_has_descs(txq))
    BY AlikeKeeps DEF FlagStep
  <1>5. vq_head(vq_retchain(rxq')) = Before(rxq') /\ vq_head(vq_retchain(rxq)) = Before(rxq)
    BY <1>0, BeforeIs DEF FlagStep
  <1>6. Before(rxq') = Before(rxq)
    BY DEF FlagStep, Alike, Before
  <1> QED BY <1>1, <1>2, <1>3, <1>4, <1>5, <1>6 DEF ChainsConserved

\* A queue is like itself.
LEMMA AlikeSelf == ASSUME NEW q PROVE Alike(q, q)
  BY DEF Alike

\* Flags of one queue.
LEMMA QuietFlags ==
  ASSUME NetParts
  PROVE  /\ /\ rxq' = rxq /\ g' = g /\ chain' = chain
            /\ txq' \in Queues /\ Alike(txq, txq')
            => FlagStep
         /\ /\ txq' = txq /\ g' = g /\ chain' = chain
            /\ rxq' \in Queues /\ Alike(rxq, rxq')
            => FlagStep
  BY AlikeSelf DEF NetParts, FlagStep

\* The condition of the transmit loop: a thread that goes on found a chain.
LEMMA TxTopStep ==
  ASSUME NetInv, TxTop
  PROVE  NetInv'
  <1> USE NetTypeIs DEF NetInv
  <1>f. FlagStep
    BY FlagsOnly, AlikeSelf, QuietFlags DEF TxTop, TxGo, NetParts
  <1>d. /\ dev' \in NetDev /\ (dev'.merge => dev'.vhdrlen = 12)
        /\ dev'.resetting = dev.resetting /\ dev'.rx_ready = dev.rx_ready
        /\ dev'.rx_in_progress = dev.rx_in_progress
        /\ tx' = "proc" => dev'.tx_in_progress /\ ~dev.resetting
        /\ tx' # "proc" => dev'.tx_in_progress = dev.tx_in_progress
    BY DEF TxTop, TxGo, NetParts, NetDev
  <1>k. /\ ChainsConserved'
        /\ vq_has_descs(rxq)' <=> vq_has_descs(rxq)
        /\ vq_has_descs(txq)' <=> vq_has_descs(txq)
        /\ rxq'.alloc = rxq.alloc /\ txq'.alloc = txq.alloc
        /\ vq_head(vq_retchain(rxq))' = vq_head(vq_retchain(rxq))
    BY <1>f, FlagKeeps
  <1>1. NetParts'
    BY <1>f, <1>d DEF TxTop, NetParts, FlagStep, locks, TxGo
  <1>2. ResetWaits'
    BY <1>f, <1>d, NetConstants DEF TxTop, ResetWaits, NetParts, NetDev, locks, TxGo
  <1>3. QueuesExist'
    BY <1>k, <1>d DEF TxTop, QueuesExist, NetParts, NetDev, TxGo
  <1>4. InHand'
    BY <1>f, <1>k DEF TxTop, InHand, FlagStep, TxGo
  <1>h. tx' = "proc" => vq_has_descs(txq) /\ txq.alloc
    BY DEF TxTop, TxGo, vq_has_descs
  <1>5. RingOwned'
    BY <1>h, <1>k, <1>d DEF TxTop, RingsOwned, RingOwned, NetParts, NetDev, TxGo
  <1> QED BY <1>1, <1>2, <1>3, <1>4, <1>5, <1>k, PTL DEF RingsOwned

\* The transmit thread asks for notifications.
LEMMA TxAskStep ==
  ASSUME NetInv, TxAsk
  PROVE  NetInv'
  <1> USE NetTypeIs DEF NetInv
  <1>f. FlagStep
    BY FlagsOnly, QuietFlags DEF TxAsk, NetParts
  <1>k. /\ ChainsConserved'
        /\ vq_has_descs(rxq)' <=> vq_has_descs(rxq)
        /\ vq_has_descs(txq)' <=> vq_has_descs(txq)
        /\ rxq'.alloc = rxq.alloc /\ txq'.alloc = txq.alloc
        /\ vq_head(vq_retchain(rxq))' = vq_head(vq_retchain(rxq))
    BY <1>f, FlagKeeps
  <1>1. NetParts'
    BY <1>f DEF TxAsk, NetParts, FlagStep, locks
  <1>2. ResetWaits'
    BY <1>f, NetConstants DEF TxAsk, ResetWaits, NetParts, NetDev, locks
  <1>3. QueuesExist'
    BY <1>k DEF TxAsk, QueuesExist, NetParts, NetDev
  <1>4. InHand'
    BY <1>f, <1>k DEF TxAsk, InHand, FlagStep
  <1>5. RingOwned'
    BY <1>k DEF TxAsk, RingsOwned, RingOwned, NetParts, NetDev
  <1> QED BY <1>1, <1>2, <1>3, <1>4, <1>5, <1>k, PTL DEF RingsOwned

\* The second look of the transmit thread.
LEMMA TxRecheckStep ==
  ASSUME NetInv, TxRecheck
  PROVE  NetInv'
  <1> USE NetTypeIs DEF NetInv
  <1>f. FlagStep
    BY FlagsOnly, AlikeSelf, QuietFlags DEF TxRecheck, TxGo, NetParts
  <1>d. /\ dev' \in NetDev /\ (dev'.merge => dev'.vhdrlen = 12)
        /\ dev'.resetting = dev.resetting /\ dev'.rx_ready = dev.rx_ready
        /\ dev'.rx_in_progress = dev.rx_in_progress
        /\ tx' = "proc" => dev'.tx_in_progress /\ ~dev.resetting
        /\ tx' # "proc" => ~dev'.tx_in_progress
    BY DEF TxRecheck, TxGo, NetParts, NetDev
  <1>k. /\ ChainsConserved'
        /\ vq_has_descs(rxq)' <=> vq_has_descs(rxq)
        /\ vq_has_descs(txq)' <=> vq_has_descs(txq)
        /\ rxq'.alloc = rxq.alloc /\ txq'.alloc = txq.alloc
        /\ vq_head(vq_retchain(rxq))' = vq_head(vq_retchain(rxq))
    BY <1>f, FlagKeeps
  <1>1. NetParts'
    BY <1>f, <1>d DEF TxRecheck, NetParts, FlagStep, locks, TxGo
  <1>2. ResetWaits'
    BY <1>f, <1>d, NetConstants DEF TxRecheck, ResetWaits, NetParts, NetDev, locks, TxGo
  <1>3. QueuesExist'
    BY <1>k, <1>d DEF TxRecheck, QueuesExist, NetParts, NetDev, TxGo
  <1>4. InHand'
    BY <1>f, <1>k DEF TxRecheck, InHand, FlagStep, TxGo
  <1>h. tx' = "proc" => vq_has_descs(txq) /\ txq.alloc
    BY DEF TxRecheck, TxGo, vq_has_descs
  <1>5. RingOwned'
    BY <1>h, <1>k, <1>d DEF TxRecheck, RingsOwned, RingOwned, NetParts, NetDev, TxGo
  <1> QED BY <1>1, <1>2, <1>3, <1>4, <1>5, <1>k, PTL DEF RingsOwned

\* The transmit thread ends its chains.
LEMMA TxEndStep ==
  ASSUME NetInv, TxEnd
  PROVE  NetInv'
  <1> USE NetTypeIs DEF NetInv
  <1>f. FlagStep
    BY FlagsOnly, QuietFlags DEF TxEnd, NetParts
  <1>k. /\ ChainsConserved'
        /\ vq_has_descs(rxq)' <=> vq_has_descs(rxq)
        /\ vq_has_descs(txq)' <=> vq_has_descs(txq)
        /\ rxq'.alloc = rxq.alloc /\ txq'.alloc = txq.alloc
        /\ vq_head(vq_retchain(rxq))' = vq_head(vq_retchain(rxq))
    BY <1>f, FlagKeeps
  <1>1. NetParts'
    BY <1>f DEF TxEnd, NetParts, FlagStep, locks, vq_interrupt
  <1>2. ResetWaits'
    BY <1>f, NetConstants DEF TxEnd, ResetWaits, NetParts, NetDev, locks, vq_interrupt
  <1>3. QueuesExist'
    BY <1>k DEF TxEnd, QueuesExist, NetParts, NetDev, vq_interrupt
  <1>4. InHand'
    BY <1>f, <1>k DEF TxEnd, InHand, FlagStep, vq_interrupt
  <1>5. RingOwned'
    BY <1>k DEF TxEnd, RingsOwned, RingOwned, NetParts, NetDev, vq_interrupt
  <1> QED BY <1>1, <1>2, <1>3, <1>4, <1>5, <1>k, PTL DEF RingsOwned

\* The vcpu notifies, second half.
LEMMA PingTxStep ==
  ASSUME NetInv, pci_vtnet_ping_txq
  PROVE  NetInv'
  <1> USE NetTypeIs DEF NetInv
  <1>f. FlagStep
    BY FlagsOnly, QuietFlags DEF pci_vtnet_ping_txq, NetParts
  <1>k. /\ ChainsConserved'
        /\ vq_has_descs(rxq)' <=> vq_has_descs(rxq)
        /\ vq_has_descs(txq)' <=> vq_has_descs(txq)
        /\ rxq'.alloc = rxq.alloc /\ txq'.alloc = txq.alloc
        /\ vq_head(vq_retchain(rxq))' = vq_head(vq_retchain(rxq))
    BY <1>f, FlagKeeps
  <1>1. NetParts'
    BY <1>f DEF pci_vtnet_ping_txq, NetParts, FlagStep, locks
  <1>2. ResetWaits'
    BY <1>f, NetConstants DEF pci_vtnet_ping_txq, ResetWaits, NetParts, NetDev, locks
  <1>3. QueuesExist'
    BY <1>k DEF pci_vtnet_ping_txq, QueuesExist, NetParts, NetDev
  <1>4. InHand'
    BY <1>f, <1>k DEF pci_vtnet_ping_txq, InHand, FlagStep
  <1>5. RingOwned'
    BY <1>k DEF pci_vtnet_ping_txq, RingsOwned, RingOwned, NetParts, NetDev
  <1> QED BY <1>1, <1>2, <1>3, <1>4, <1>5, <1>k, PTL DEF RingsOwned

\* The receiver ends its chains.
LEMMA RxEndStep ==
  ASSUME NetInv, RxEnd
  PROVE  NetInv'
  <1> USE NetTypeIs DEF NetInv
  <1>f. FlagStep
    BY FlagsOnly, QuietFlags DEF RxEnd, NetParts
  <1>k. /\ ChainsConserved'
        /\ vq_has_descs(rxq)' <=> vq_has_descs(rxq)
        /\ vq_has_descs(txq)' <=> vq_has_descs(txq)
        /\ rxq'.alloc = rxq.alloc /\ txq'.alloc = txq.alloc
        /\ vq_head(vq_retchain(rxq))' = vq_head(vq_retchain(rxq))
    BY <1>f, FlagKeeps
  <1>1. NetParts'
    BY <1>f DEF RxEnd, NetParts, FlagStep, locks, vq_interrupt
  <1>2. ResetWaits'
    BY <1>f, NetConstants DEF RxEnd, ResetWaits, NetParts, NetDev, locks, vq_interrupt
  <1>3. QueuesExist'
    BY <1>k DEF RxEnd, QueuesExist, NetParts, NetDev, vq_interrupt
  <1>4. InHand'
    BY <1>f, <1>k DEF RxEnd, InHand, FlagStep, vq_interrupt
  <1>5. RingOwned'
    BY <1>k DEF RxEnd, RingsOwned, RingOwned, NetParts, NetDev, vq_interrupt
  <1> QED BY <1>1, <1>2, <1>3, <1>4, <1>5, <1>k, PTL DEF RingsOwned

\* The receive queue is ready.
LEMMA PingRxStep ==
  ASSUME NetInv, pci_vtnet_ping_rxq
  PROVE  NetInv'
  <1> USE NetTypeIs DEF NetInv
  <1>f. FlagStep
    BY FlagsOnly, QuietFlags DEF pci_vtnet_ping_rxq, NetParts
  <1>d. /\ dev' \in NetDev
        /\ dev'.resetting = dev.resetting /\ dev'.rx_ready = TRUE
        /\ dev'.rx_in_progress = dev.rx_in_progress /\ dev'.tx_in_progress = dev.tx_in_progress
        /\ dev'.vhdrlen = dev.vhdrlen /\ dev'.merge = dev.merge /\ dev'.link = dev.link
    BY DEF pci_vtnet_ping_rxq, NetParts, NetDev
  <1>k. /\ ChainsConserved'
        /\ vq_has_descs(rxq)' <=> vq_has_descs(rxq)
        /\ vq_has_descs(txq)' <=> vq_has_descs(txq)
        /\ rxq'.alloc = rxq.alloc /\ txq'.alloc = txq.alloc
        /\ vq_head(vq_retchain(rxq))' = vq_head(vq_retchain(rxq))
    BY <1>f, FlagKeeps
  <1>1. NetParts'
    BY <1>f, <1>d DEF pci_vtnet_ping_rxq, NetParts, FlagStep, locks
  <1>2. ResetWaits'
    BY <1>f, <1>d, NetConstants DEF pci_vtnet_ping_rxq, ResetWaits, NetParts, NetDev, locks,
       Run
  <1>3. QueuesExist'
    BY <1>k, <1>d DEF pci_vtnet_ping_rxq, QueuesExist, NetParts, NetDev
  <1>4. InHand'
    BY <1>f, <1>k DEF pci_vtnet_ping_rxq, InHand, FlagStep
  <1>5. RingOwned'
    BY <1>k, <1>d DEF pci_vtnet_ping_rxq, RingsOwned, RingOwned, NetParts, NetDev
  <1> QED BY <1>1, <1>2, <1>3, <1>4, <1>5, <1>k, PTL DEF RingsOwned

\* The driver takes the interrupt.
LEMMA TakeInterruptStep ==
  ASSUME NetInv, TakeInterrupt
  PROVE  NetInv'
  <1> USE NetTypeIs DEF NetInv
  <1>f. FlagStep
    BY FlagsOnly, AlikeSelf DEF TakeInterrupt, NetParts, NetGuest, FlagStep
  <1>k. /\ ChainsConserved'
        /\ vq_has_descs(rxq)' <=> vq_has_descs(rxq)
        /\ vq_has_descs(txq)' <=> vq_has_descs(txq)
        /\ rxq'.alloc = rxq.alloc /\ txq'.alloc = txq.alloc
        /\ vq_head(vq_retchain(rxq))' = vq_head(vq_retchain(rxq))
    BY <1>f, FlagKeeps
  <1>1. NetParts'
    BY <1>f DEF TakeInterrupt, NetParts, FlagStep, locks
  <1>2. ResetWaits'
    BY <1>f, NetConstants DEF TakeInterrupt, ResetWaits, NetParts, NetDev, locks
  <1>3. QueuesExist'
    BY <1>k DEF TakeInterrupt, QueuesExist, NetParts, NetDev
  <1>4. InHand'
    BY <1>f, <1>k DEF TakeInterrupt, InHand, FlagStep
  <1>5. RingOwned'
    BY <1>k DEF TakeInterrupt, RingsOwned, RingOwned, NetParts, NetDev
  <1> QED BY <1>1, <1>2, <1>3, <1>4, <1>5, <1>k, PTL DEF RingsOwned

\* The driver enables interrupts.
LEMMA EnableStep ==
  ASSUME NetInv, Enable
  PROVE  NetInv'
  <1> USE NetTypeIs DEF NetInv
  <1>f. FlagStep
    BY FlagsOnly, AlikeSelf DEF Enable, NetParts, NetGuest, FlagStep
  <1>k. /\ ChainsConserved'
        /\ vq_has_descs(rxq)' <=> vq_has_descs(rxq)
        /\ vq_has_descs(txq)' <=> vq_has_descs(txq)
        /\ rxq'.alloc = rxq.alloc /\ txq'.alloc = txq.alloc
        /\ vq_head(vq_retchain(rxq))' = vq_head(vq_retchain(rxq))
    BY <1>f, FlagKeeps
  <1>1. NetParts'
    BY <1>f DEF Enable, NetParts, FlagStep, locks
  <1>2. ResetWaits'
    BY <1>f, NetConstants DEF Enable, ResetWaits, NetParts, NetDev, locks
  <1>3. QueuesExist'
    BY <1>k DEF Enable, QueuesExist, NetParts, NetDev
  <1>4. InHand'
    BY <1>f, <1>k DEF Enable, InHand, FlagStep
  <1>5. RingOwned'
    BY <1>k DEF Enable, RingsOwned, RingOwned, NetParts, NetDev
  <1> QED BY <1>1, <1>2, <1>3, <1>4, <1>5, <1>k, PTL DEF RingsOwned

\* The driver looks once more.
LEMMA LookStep ==
  ASSUME NetInv, Look
  PROVE  NetInv'
  <1> USE NetTypeIs DEF NetInv
  <1>f. FlagStep
    BY FlagsOnly, AlikeSelf DEF Look, NetParts, NetGuest, FlagStep
  <1>k. /\ ChainsConserved'
        /\ vq_has_descs(rxq)' <=> vq_has_descs(rxq)
        /\ vq_has_descs(txq)' <=> vq_has_descs(txq)
        /\ rxq'.alloc = rxq.alloc /\ txq'.alloc = txq.alloc
        /\ vq_head(vq_retchain(rxq))' = vq_head(vq_retchain(rxq))
    BY <1>f, FlagKeeps
  <1>1. NetParts'
    BY <1>f DEF Look, NetParts, FlagStep, locks
  <1>2. ResetWaits'
    BY <1>f, NetConstants DEF Look, ResetWaits, NetParts, NetDev, locks
  <1>3. QueuesExist'
    BY <1>k DEF Look, QueuesExist, NetParts, NetDev
  <1>4. InHand'
    BY <1>f, <1>k DEF Look, InHand, FlagStep
  <1>5. RingOwned'
    BY <1>k DEF Look, RingsOwned, RingOwned, NetParts, NetDev
  <1> QED BY <1>1, <1>2, <1>3, <1>4, <1>5, <1>k, PTL DEF RingsOwned

\* The transmit thread gets its mutex.
LEMMA TxLockStep ==
  ASSUME NetInv, TxLock
  PROVE  NetInv'
  <1> USE NetTypeIs DEF NetInv
  <1>f. FlagStep
    BY FlagsOnly, QuietFlags DEF TxLock, NetParts
  <1>k. /\ ChainsConserved'
        /\ vq_has_descs(rxq)' <=> vq_has_descs(rxq)
        /\ vq_has_descs(txq)' <=> vq_has_descs(txq)
        /\ rxq'.alloc = rxq.alloc /\ txq'.alloc = txq.alloc
        /\ vq_head(vq_retchain(rxq))' = vq_head(vq_retchain(rxq))
    BY <1>f, FlagKeeps
  <1>1. NetParts'
    BY <1>f DEF TxLock, NetParts, FlagStep, locks
  <1>2. ResetWaits'
    BY <1>f, NetConstants DEF TxLock, ResetWaits, NetParts, NetDev, locks
  <1>3. QueuesExist'
    BY <1>k DEF TxLock, QueuesExist, NetParts, NetDev
  <1>4. InHand'
    BY <1>f, <1>k DEF TxLock, InHand, FlagStep
  <1>5. RingOwned'
    BY <1>k DEF TxLock, RingsOwned, RingOwned, NetParts, NetDev
  <1> QED BY <1>1, <1>2, <1>3, <1>4, <1>5, <1>k, PTL DEF RingsOwned

\* The receiver is done with it.
LEMMA RxDoneStep ==
  ASSUME NetInv, RxDone
  PROVE  NetInv'
  <1> USE NetTypeIs DEF NetInv
  <1>f. FlagStep
    BY FlagsOnly, QuietFlags DEF RxDone, NetParts
  <1>d. /\ dev' \in NetDev
        /\ dev'.resetting = dev.resetting /\ dev'.rx_ready = dev.rx_ready
        /\ dev'.rx_in_progress = FALSE /\ dev'.tx_in_progress = dev.tx_in_progress
        /\ dev'.vhdrlen = dev.vhdrlen /\ dev'.merge = dev.merge /\ dev'.link = dev.link
    BY DEF RxDone, NetParts, NetDev
  <1>k. /\ ChainsConserved'
        /\ vq_has_descs(rxq)' <=> vq_has_descs(rxq)
        /\ vq_has_descs(txq)' <=> vq_has_descs(txq)
        /\ rxq'.alloc = rxq.alloc /\ txq'.alloc = txq.alloc
        /\ vq_head(vq_retchain(rxq))' = vq_head(vq_retchain(rxq))
    BY <1>f, FlagKeeps
  <1>1. NetParts'
    BY <1>f, <1>d DEF RxDone, NetParts, FlagStep, locks
  <1>2. ResetWaits'
    BY <1>f, <1>d, NetConstants DEF RxDone, ResetWaits, NetParts, NetDev, locks
  <1>3. QueuesExist'
    BY <1>k, <1>d DEF RxDone, QueuesExist, NetParts, NetDev
  <1>4. InHand'
    BY <1>f, <1>k DEF RxDone, InHand, FlagStep
  <1>5. RingOwned'
    BY <1>k, <1>d DEF RxDone, RingsOwned, RingOwned, NetParts, NetDev
  <1> QED BY <1>1, <1>2, <1>3, <1>4, <1>5, <1>k, PTL DEF RingsOwned

\* A used index leaves the store buffer of the transmit thread,
LEMMA TxDrainStep ==
  ASSUME NetInv, TxDrain
  PROVE  NetInv'
  <1> USE NetTypeIs DEF NetInv
  <1>f. FlagStep
    BY FlagsOnly, QuietFlags DEF TxDrain, NetParts
  <1>k. /\ ChainsConserved'
        /\ vq_has_descs(rxq)' <=> vq_has_descs(rxq)
        /\ vq_has_descs(txq)' <=> vq_has_descs(txq)
        /\ rxq'.alloc = rxq.alloc /\ txq'.alloc = txq.alloc
        /\ vq_head(vq_retchain(rxq))' = vq_head(vq_retchain(rxq))
    BY <1>f, FlagKeeps
  <1>1. NetParts'
    BY <1>f DEF TxDrain, NetParts, FlagStep, locks
  <1>2. ResetWaits'
    BY <1>f, NetConstants DEF TxDrain, ResetWaits, NetParts, NetDev, locks
  <1>3. QueuesExist'
    BY <1>k DEF TxDrain, QueuesExist, NetParts, NetDev
  <1>4. InHand'
    BY <1>f, <1>k DEF TxDrain, InHand, FlagStep
  <1>5. RingOwned'
    BY <1>k DEF TxDrain, RingsOwned, RingOwned, NetParts, NetDev
  <1> QED BY <1>1, <1>2, <1>3, <1>4, <1>5, <1>k, PTL DEF RingsOwned

\* and of the receiver.
LEMMA RxDrainStep ==
  ASSUME NetInv, RxDrain
  PROVE  NetInv'
  <1> USE NetTypeIs DEF NetInv
  <1>f. FlagStep
    BY FlagsOnly, QuietFlags DEF RxDrain, NetParts
  <1>k. /\ ChainsConserved'
        /\ vq_has_descs(rxq)' <=> vq_has_descs(rxq)
        /\ vq_has_descs(txq)' <=> vq_has_descs(txq)
        /\ rxq'.alloc = rxq.alloc /\ txq'.alloc = txq.alloc
        /\ vq_head(vq_retchain(rxq))' = vq_head(vq_retchain(rxq))
    BY <1>f, FlagKeeps
  <1>1. NetParts'
    BY <1>f DEF RxDrain, NetParts, FlagStep, locks
  <1>2. ResetWaits'
    BY <1>f, NetConstants DEF RxDrain, ResetWaits, NetParts, NetDev, locks
  <1>3. QueuesExist'
    BY <1>k DEF RxDrain, QueuesExist, NetParts, NetDev
  <1>4. InHand'
    BY <1>f, <1>k DEF RxDrain, InHand, FlagStep
  <1>5. RingOwned'
    BY <1>k DEF RxDrain, RingsOwned, RingOwned, NetParts, NetDev
  <1> QED BY <1>1, <1>2, <1>3, <1>4, <1>5, <1>k, PTL DEF RingsOwned

\* pci_vtnet_proctx takes a chain.
LEMMA TxProcStep ==
  ASSUME NetInv, pci_vtnet_proctx
  PROVE  NetInv'
  <1> USE NetTypeIs DEF NetInv
  <1>o. /\ rxq' = rxq /\ chain'.rx = chain.rx /\ g'.rxseen = g.rxseen /\ g'.rxfree = g.rxfree
        /\ g'.mode = g.mode /\ dev' = dev /\ mtx' = mtx /\ txm' = txm /\ rxm' = rxm /\ intr' = intr
    BY DEF pci_vtnet_proctx, locks, NetParts, NetGuest
  <1>t. /\ g.txseen \in Indices /\ g.txfree \in SUBSET Heads /\ txq \in Queues
        /\ chain.tx \in Heads \cup {NoChain}
        /\ txq.alloc => Conserved(txq, g.txseen, g.txfree, {chain.tx} \cap Heads)
        /\ rxq.alloc => Conserved(rxq, g.rxseen, g.rxfree, {chain.rx} \cap Heads)
    BY DEF NetParts, NetGuest, RingsOwned, ChainsConserved
  <1>a. txq.alloc /\ vq_has_descs(txq) /\ chain.tx = NoChain
    BY <1>t DEF pci_vtnet_proctx, RingsOwned, RingOwned, InHand
  <1>b. Conserved(txq, g.txseen, g.txfree, {})
    BY <1>a, <1>t, HandIs
  <1>c. /\ vq_getchain(txq) \in Queues /\ vq_getchain(txq).alloc = txq.alloc
        /\ vq_head(txq) \in Heads
        /\ Conserved(vq_getchain(txq), g.txseen, g.txfree, {vq_head(txq)})
    BY <1>a, <1>b, <1>t, GetQueue
  <1>d. /\ txq' = vq_getchain(txq) /\ g' = g /\ chain'.tx = vq_head(txq)
        /\ chain' \in [tx : Heads \cup {NoChain}, rx : Heads \cup {NoChain}]
    BY <1>c DEF pci_vtnet_proctx, NetParts
  <1>q. /\ txq' \in Queues /\ txq'.alloc = txq.alloc /\ chain'.tx \in Heads /\ g' = g /\ txq.alloc
        /\ chain' \in [tx : Heads \cup {NoChain}, rx : Heads \cup {NoChain}]
        /\ Conserved(txq', g'.txseen, g'.txfree, {chain'.tx} \cap Heads)
    BY <1>a, <1>c, <1>d, HandIs
  <1>1. NetParts'
    BY <1>o, <1>q DEF pci_vtnet_proctx, NetParts, NetGuest
  <1>2. ResetWaits' /\ QueuesExist'
    BY <1>o, <1>q DEF pci_vtnet_proctx, ResetWaits, QueuesExist
  <1>3. InHand'
    BY <1>o, <1>q, HandIs DEF pci_vtnet_proctx, InHand
  <1>4. RingOwned'
    BY <1>o, <1>q DEF pci_vtnet_proctx, RingsOwned, RingOwned
  <1>5. ChainsConserved'
    BY <1>o, <1>q, <1>t DEF ChainsConserved
  <1> QED BY <1>1, <1>2, <1>3, <1>4, <1>5, PTL DEF RingsOwned

\* It releases the chain.
LEMMA TxReleaseStep ==
  ASSUME NetInv, TxRelease
  PROVE  NetInv'
  <1> USE NetTypeIs DEF NetInv
  <1>o. /\ rxq' = rxq /\ chain'.rx = chain.rx /\ g'.rxseen = g.rxseen /\ g'.rxfree = g.rxfree
        /\ g'.mode = g.mode /\ dev' = dev /\ mtx' = mtx /\ txm' = txm /\ rxm' = rxm /\ intr' = intr
    BY DEF TxRelease, locks, NetParts, NetGuest
  <1>t. /\ g.txseen \in Indices /\ g.txfree \in SUBSET Heads /\ txq \in Queues
        /\ chain.tx \in Heads \cup {NoChain}
        /\ txq.alloc => Conserved(txq, g.txseen, g.txfree, {chain.tx} \cap Heads)
        /\ rxq.alloc => Conserved(rxq, g.rxseen, g.rxfree, {chain.rx} \cap Heads)
    BY DEF NetParts, NetGuest, RingsOwned, ChainsConserved
  <1>a. txq.alloc /\ chain.tx \in Heads
    BY <1>t DEF TxRelease, RingsOwned, RingOwned, InHand
  <1>b. Conserved(txq, g.txseen, g.txfree, {chain.tx})
    BY <1>a, <1>t, HandIs
  <1>c. /\ vq_relchain(txq, chain.tx) \in Queues /\ vq_relchain(txq, chain.tx).alloc = txq.alloc
        /\ vq_has_descs(vq_relchain(txq, chain.tx)) <=> vq_has_descs(txq)
        /\ Conserved(vq_relchain(txq, chain.tx), g.txseen, g.txfree, {})
    BY <1>a, <1>b, <1>t, RelQueue
  <1>d. /\ txq' = vq_relchain(txq, chain.tx) /\ g' = g /\ chain'.tx = NoChain
        /\ chain' \in [tx : Heads \cup {NoChain}, rx : Heads \cup {NoChain}]
    BY DEF TxRelease, NetParts
  <1>q. /\ txq' \in Queues /\ txq'.alloc = txq.alloc /\ chain'.tx = NoChain /\ g' = g /\ txq.alloc
        /\ chain' \in [tx : Heads \cup {NoChain}, rx : Heads \cup {NoChain}]
        /\ Conserved(txq', g'.txseen, g'.txfree, {chain'.tx} \cap Heads)
        /\ vq_has_descs(txq)' <=> vq_has_descs(txq)
    BY <1>a, <1>c, <1>d, HandIs
  <1>1. NetParts'
    BY <1>o, <1>q DEF TxRelease, NetParts, NetGuest
  <1>2. ResetWaits' /\ QueuesExist'
    BY <1>o, <1>q DEF TxRelease, ResetWaits, QueuesExist
  <1>3. InHand'
    BY <1>o, <1>q, HandIs DEF TxRelease, InHand
  <1>4. RingOwned'
    BY <1>o, <1>q DEF TxRelease, RingsOwned, RingOwned
  <1>5. ChainsConserved'
    BY <1>o, <1>q, <1>t DEF ChainsConserved
  <1> QED BY <1>1, <1>2, <1>3, <1>4, <1>5, PTL DEF RingsOwned

\* The driver posts a packet.
LEMMA TxPostStep ==
  ASSUME NetInv, NEW i \in Heads, TxPost(i)
  PROVE  NetInv'
  <1> USE NetTypeIs DEF NetInv
  <1>o. /\ rxq' = rxq /\ chain'.rx = chain.rx /\ g'.rxseen = g.rxseen /\ g'.rxfree = g.rxfree
        /\ g'.mode = g.mode /\ dev' = dev /\ mtx' = mtx /\ txm' = txm /\ rxm' = rxm /\ intr' = intr
    BY DEF TxPost, locks, NetParts, NetGuest
  <1>t. /\ g.txseen \in Indices /\ g.txfree \in SUBSET Heads /\ txq \in Queues
        /\ chain.tx \in Heads \cup {NoChain}
        /\ txq.alloc => Conserved(txq, g.txseen, g.txfree, {chain.tx} \cap Heads)
        /\ rxq.alloc => Conserved(rxq, g.rxseen, g.rxfree, {chain.rx} \cap Heads)
    BY DEF NetParts, NetGuest, RingsOwned, ChainsConserved
  <1> DEFINE p == guest_post(txq, i)
  <1>a. txq.alloc /\ i \in g.txfree /\ {chain.tx} \cap Heads \in SUBSET Heads
    BY DEF TxPost
  <1>c. /\ p \in Queues /\ p.alloc = txq.alloc /\ p.last # p.avail
        /\ Conserved(p, g.txseen, g.txfree \ {i}, {chain.tx} \cap Heads)
    BY <1>a, <1>t, PostQueue
  <1>d. /\ txq' = p /\ chain' = chain /\ g' \in NetGuest /\ g'.txseen = g.txseen
        /\ g'.txfree = g.txfree \ {i}
    BY DEF TxPost, NetParts, NetGuest
  <1> HIDE DEF p
  <1>e. vq_has_descs(p)
    BY <1>a, <1>c DEF vq_has_descs
  <1>q. /\ txq' \in Queues /\ txq'.alloc = txq.alloc /\ chain' = chain /\ txq.alloc
        /\ g' \in NetGuest /\ vq_has_descs(txq)'
        /\ Conserved(txq', g'.txseen, g'.txfree, {chain'.tx} \cap Heads)
    BY <1>a, <1>c, <1>d, <1>e
  <1>1. NetParts'
    BY <1>o, <1>q DEF TxPost, NetParts, NetGuest
  <1>2. ResetWaits' /\ QueuesExist'
    BY <1>o, <1>q DEF TxPost, ResetWaits, QueuesExist
  <1>3. InHand'
    BY <1>o, <1>q, HandIs DEF TxPost, InHand
  <1>4. RingOwned'
    BY <1>o, <1>q DEF TxPost, RingsOwned, RingOwned
  <1>5. ChainsConserved'
    BY <1>o, <1>q, <1>t DEF ChainsConserved
  <1> QED BY <1>1, <1>2, <1>3, <1>4, <1>5, PTL DEF RingsOwned

\* The driver posts a buffer; the chain in hand stays where it is.
LEMMA RxPostStep ==
  ASSUME NetInv, NEW i \in Heads, RxPost(i)
  PROVE  NetInv'
  <1> USE NetTypeIs DEF NetInv
  <1>o. /\ txq' = txq /\ chain'.tx = chain.tx /\ g'.txseen = g.txseen /\ g'.txfree = g.txfree
        /\ g'.mode = g.mode /\ dev' = dev /\ mtx' = mtx /\ txm' = txm /\ rxm' = rxm /\ intr' = intr
    BY DEF RxPost, locks, NetParts, NetGuest
  <1>t. /\ g.rxseen \in Indices /\ g.rxfree \in SUBSET Heads /\ rxq \in Queues
        /\ chain.rx \in Heads \cup {NoChain}
        /\ rxq.alloc => Conserved(rxq, g.rxseen, g.rxfree, {chain.rx} \cap Heads)
        /\ txq.alloc => Conserved(txq, g.txseen, g.txfree, {chain.tx} \cap Heads)
    BY DEF NetParts, NetGuest, RingsOwned, ChainsConserved
  <1> DEFINE p == guest_post(rxq, i)
  <1>a. rxq.alloc /\ i \in g.rxfree /\ {chain.rx} \cap Heads \in SUBSET Heads
    BY DEF RxPost
  <1>c. /\ p \in Queues /\ p.alloc = rxq.alloc /\ p.last # p.avail
        /\ Conserved(p, g.rxseen, g.rxfree \ {i}, {chain.rx} \cap Heads)
    BY <1>a, <1>t, PostQueue
  <1>h. ASSUME rx = "fill" PROVE vq_head(vq_retchain(p)) = vq_head(vq_retchain(rxq))
    <2>1. chain.rx \in Heads
      BY <1>h, <1>t DEF InHand
    <2>2. Conserved(rxq, g.rxseen, g.rxfree, {chain.rx})
      BY <2>1, <1>a, <1>t, HandIs
    <2>3. Before(guest_post(rxq, i)) = Before(rxq)
      BY <1>a, <1>t, <2>1, <2>2, PostBefore
    <2> QED BY <1>c, <1>t, <2>3, BeforeIs
  <1>d. /\ rxq' = p /\ chain' = chain /\ g' \in NetGuest /\ g'.rxseen = g.rxseen
        /\ g'.rxfree = g.rxfree \ {i}
    BY DEF RxPost, NetParts, NetGuest
  <1> HIDE DEF p
  <1>e. vq_has_descs(p)
    BY <1>a, <1>c DEF vq_has_descs
  <1>q. /\ rxq' \in Queues /\ rxq'.alloc = rxq.alloc /\ chain' = chain /\ rxq.alloc
        /\ g' \in NetGuest /\ vq_has_descs(rxq)'
        /\ Conserved(rxq', g'.rxseen, g'.rxfree, {chain'.rx} \cap Heads)
        /\ rx = "fill" => vq_head(vq_retchain(rxq))' = vq_head(vq_retchain(rxq))
    BY <1>a, <1>c, <1>d, <1>e, <1>h
  <1>1. NetParts'
    BY <1>o, <1>q DEF RxPost, NetParts, NetGuest
  <1>2. ResetWaits' /\ QueuesExist'
    BY <1>o, <1>q DEF RxPost, ResetWaits, QueuesExist
  <1>3. InHand'
    BY <1>o, <1>q, HandIs DEF RxPost, InHand
  <1>4. RingOwned'
    BY <1>o, <1>q DEF RxPost, RingsOwned, RingOwned
  <1>5. ChainsConserved'
    BY <1>o, <1>q, <1>t DEF ChainsConserved
  <1> QED BY <1>1, <1>2, <1>3, <1>4, <1>5, PTL DEF RingsOwned

\* The driver takes back what was sent.
LEMMA TxReclaimStep ==
  ASSUME NetInv, TxReclaim
  PROVE  NetInv'
  <1> USE NetTypeIs DEF NetInv
  <1>o. /\ rxq' = rxq /\ chain'.rx = chain.rx /\ g'.rxseen = g.rxseen /\ g'.rxfree = g.rxfree
        /\ g'.mode = g.mode /\ dev' = dev /\ mtx' = mtx /\ txm' = txm /\ rxm' = rxm /\ intr' = intr
    BY DEF TxReclaim, locks, NetParts, NetGuest, ring
  <1>t. /\ g.txseen \in Indices /\ g.txfree \in SUBSET Heads /\ txq \in Queues
        /\ chain.tx \in Heads \cup {NoChain}
        /\ txq.alloc => Conserved(txq, g.txseen, g.txfree, {chain.tx} \cap Heads)
        /\ rxq.alloc => Conserved(rxq, g.rxseen, g.rxfree, {chain.rx} \cap Heads)
    BY DEF NetParts, NetGuest, RingsOwned, ChainsConserved
  <1>a. txq.alloc /\ g.txseen # txq.used /\ {chain.tx} \cap Heads \in SUBSET Heads
    BY <1>t, SeesUsed DEF TxReclaim
  <1>c. /\ (g.txseen + 1) % W \in Indices /\ guest_head(txq, g.txseen) \in Heads
        /\ Conserved(txq, (g.txseen + 1) % W, g.txfree \cup {guest_head(txq, g.txseen)},
                     {chain.tx} \cap Heads)
    BY <1>a, <1>t, ReclaimQueue
  <1>d. /\ txq' = txq /\ chain' = chain /\ g' \in NetGuest
        /\ g'.txseen = (g.txseen + 1) % W /\ g'.txfree = g.txfree \cup {guest_head(txq, g.txseen)}
    <2> DEFINE n == (g.txseen + 1) % W
               h == guest_head(txq, g.txseen)
    <2>1. g' = [g EXCEPT !.txseen = n, !.txfree = @ \cup {h}] /\ txq' = txq /\ chain' = chain
      BY DEF TxReclaim, ring
    <2>2. n \in Indices /\ h \in Heads
      BY <1>c
    <2> HIDE DEF n, h
    <2>3. g' \in NetGuest /\ g'.txseen = n /\ g'.txfree = g.txfree \cup {h}
      BY <2>1, <2>2 DEF NetParts, NetGuest
    <2> QED BY <2>1, <2>3 DEF n, h
  <1>q. /\ txq' \in Queues /\ txq' = txq /\ chain' = chain /\ g' \in NetGuest
        /\ Conserved(txq', g'.txseen, g'.txfree, {chain'.tx} \cap Heads)
    BY <1>t, <1>c, <1>d
  <1>1. NetParts'
    BY <1>o, <1>q DEF TxReclaim, NetParts, NetGuest, ring
  <1>2. ResetWaits' /\ QueuesExist'
    BY <1>o, <1>q DEF TxReclaim, ResetWaits, QueuesExist, ring
  <1>3. InHand'
    BY <1>o, <1>q, HandIs DEF TxReclaim, InHand, ring
  <1>4. RingOwned'
    BY <1>o, <1>q DEF TxReclaim, RingsOwned, RingOwned, ring
  <1>5. ChainsConserved'
    BY <1>o, <1>q, <1>t DEF ChainsConserved
  <1> QED BY <1>1, <1>2, <1>3, <1>4, <1>5, PTL DEF RingsOwned

\* The driver takes what was received.
LEMMA RxReclaimStep ==
  ASSUME NetInv, RxReclaim
  PROVE  NetInv'
  <1> USE NetTypeIs DEF NetInv
  <1>o. /\ txq' = txq /\ chain'.tx = chain.tx /\ g'.txseen = g.txseen /\ g'.txfree = g.txfree
        /\ g'.mode = g.mode /\ dev' = dev /\ mtx' = mtx /\ txm' = txm /\ rxm' = rxm /\ intr' = intr
    BY DEF RxReclaim, locks, NetParts, NetGuest, ring
  <1>t. /\ g.rxseen \in Indices /\ g.rxfree \in SUBSET Heads /\ rxq \in Queues
        /\ chain.rx \in Heads \cup {NoChain}
        /\ rxq.alloc => Conserved(rxq, g.rxseen, g.rxfree, {chain.rx} \cap Heads)
        /\ txq.alloc => Conserved(txq, g.txseen, g.txfree, {chain.tx} \cap Heads)
    BY DEF NetParts, NetGuest, RingsOwned, ChainsConserved
  <1>a. rxq.alloc /\ g.rxseen # rxq.used /\ {chain.rx} \cap Heads \in SUBSET Heads
    BY <1>t, SeesUsed DEF RxReclaim
  <1>c. /\ (g.rxseen + 1) % W \in Indices /\ guest_head(rxq, g.rxseen) \in Heads
        /\ Conserved(rxq, (g.rxseen + 1) % W, g.rxfree \cup {guest_head(rxq, g.rxseen)},
                     {chain.rx} \cap Heads)
    BY <1>a, <1>t, ReclaimQueue
  <1>d. /\ rxq' = rxq /\ chain' = chain /\ g' \in NetGuest
        /\ g'.rxseen = (g.rxseen + 1) % W /\ g'.rxfree = g.rxfree \cup {guest_head(rxq, g.rxseen)}
    <2> DEFINE n == (g.rxseen + 1) % W
               h == guest_head(rxq, g.rxseen)
    <2>1. g' = [g EXCEPT !.rxseen = n, !.rxfree = @ \cup {h}] /\ rxq' = rxq /\ chain' = chain
      BY DEF RxReclaim, ring
    <2>2. n \in Indices /\ h \in Heads
      BY <1>c
    <2> HIDE DEF n, h
    <2>3. g' \in NetGuest /\ g'.rxseen = n /\ g'.rxfree = g.rxfree \cup {h}
      BY <2>1, <2>2 DEF NetParts, NetGuest
    <2> QED BY <2>1, <2>3 DEF n, h
  <1>q. /\ rxq' \in Queues /\ rxq' = rxq /\ chain' = chain /\ g' \in NetGuest
        /\ Conserved(rxq', g'.rxseen, g'.rxfree, {chain'.rx} \cap Heads)
    BY <1>t, <1>c, <1>d
  <1>1. NetParts'
    BY <1>o, <1>q DEF RxReclaim, NetParts, NetGuest, ring
  <1>2. ResetWaits' /\ QueuesExist'
    BY <1>o, <1>q DEF RxReclaim, ResetWaits, QueuesExist, ring
  <1>3. InHand'
    BY <1>o, <1>q, HandIs DEF RxReclaim, InHand, ring
  <1>4. RingOwned'
    BY <1>o, <1>q DEF RxReclaim, RingsOwned, RingOwned, ring
  <1>5. ChainsConserved'
    BY <1>o, <1>q, <1>t DEF ChainsConserved
  <1> QED BY <1>1, <1>2, <1>3, <1>4, <1>5, PTL DEF RingsOwned

\* The receiver takes the next chain.
LEMMA RxTakes ==
  ASSUME NetInv, rxq.alloc, vq_has_descs(rxq), chain.rx = NoChain, g' = g,
         chain' = [chain EXCEPT !.rx = vq_head(rxq)], rxq' = vq_getchain(rxq)
  PROVE  /\ rxq' \in Queues /\ rxq'.alloc = rxq.alloc
         /\ chain' \in [tx : Heads \cup {NoChain}, rx : Heads \cup {NoChain}]
         /\ Conserved(rxq', g'.rxseen, g'.rxfree, {chain'.rx} \cap Heads)
         /\ chain'.rx \in Heads /\ chain'.rx = vq_head(vq_retchain(rxq))'
  <1> USE NetTypeIs DEF NetInv
  <1>t. /\ g.rxseen \in Indices /\ g.rxfree \in SUBSET Heads /\ rxq \in Queues
        /\ rxq.alloc => Conserved(rxq, g.rxseen, g.rxfree, {chain.rx} \cap Heads)
    BY DEF NetParts, NetGuest, RingsOwned, ChainsConserved
  <1>b. Conserved(rxq, g.rxseen, g.rxfree, {})
    BY <1>t, HandIs
  <1>c. /\ vq_getchain(rxq) \in Queues /\ vq_getchain(rxq).alloc = rxq.alloc
        /\ vq_head(rxq) \in Heads
        /\ Before(vq_getchain(rxq)) = vq_head(rxq)
        /\ Conserved(vq_getchain(rxq), g.rxseen, g.rxfree, {vq_head(rxq)})
    BY <1>b, <1>t, GetQueue
  <1>d. /\ chain'.rx = vq_head(rxq)
        /\ chain' \in [tx : Heads \cup {NoChain}, rx : Heads \cup {NoChain}]
    BY <1>c DEF NetParts
  <1>e. vq_head(vq_retchain(rxq')) = Before(rxq')
    BY <1>c, BeforeIs
  <1> QED BY <1>c, <1>d, <1>e, HandIs

\* pci_vtnet_tap_rx drops a packet or takes a chain for it.
LEMMA RxTakeStep ==
  ASSUME NetInv, RxTake
  PROVE  NetInv'
  <1> USE NetTypeIs DEF NetInv
  <1>o. /\ txq' = txq /\ chain'.tx = chain.tx /\ g'.txseen = g.txseen /\ g'.txfree = g.txfree
        /\ g'.mode = g.mode /\ dev' = dev /\ mtx' = mtx /\ txm' = txm /\ rxm' = rxm /\ intr' = intr
    BY DEF RxTake, locks, NetParts, NetGuest
  <1>t. /\ g.rxseen \in Indices /\ g.rxfree \in SUBSET Heads /\ rxq \in Queues
        /\ chain.rx \in Heads \cup {NoChain}
        /\ rxq.alloc => Conserved(rxq, g.rxseen, g.rxfree, {chain.rx} \cap Heads)
        /\ txq.alloc => Conserved(txq, g.txseen, g.txfree, {chain.tx} \cap Heads)
    BY DEF NetParts, NetGuest, RingsOwned, ChainsConserved
  <1>a. chain.rx = NoChain
    BY <1>t DEF RxTake, InHand
  <1>b. (~RxDrops => ~dev.resetting) /\ (vq_has_descs(rxq) => rxq.alloc)
    BY DEF RxDrops, vq_has_descs
  <1>c. /\ g' = g /\ tx' = tx /\ vcpu' = vcpu /\ rx = "ready" /\ dev.rx_in_progress
        /\ rx' \in {"done", "end", "fill"} /\ (rx' # "done" => ~RxDrops)
        /\ rx' = "fill" => /\ vq_has_descs(rxq) /\ rxq' = vq_getchain(rxq)
                            /\ chain' = [chain EXCEPT !.rx = vq_head(rxq)]
        /\ rx' # "fill" => rxq' = rxq /\ chain' = chain
    BY DEF RxTake, ResetWaits
  <1>q. /\ rxq' \in Queues /\ rxq'.alloc = rxq.alloc
        /\ chain' \in [tx : Heads \cup {NoChain}, rx : Heads \cup {NoChain}] /\ g' = g
        /\ rxq.alloc => Conserved(rxq', g'.rxseen, g'.rxfree, {chain'.rx} \cap Heads)
        /\ rx' = "fill" => chain'.rx \in Heads /\ chain'.rx = vq_head(vq_retchain(rxq))'
        /\ rx' # "fill" => chain'.rx = NoChain
    <2>1. CASE rx' = "fill"
      BY <1>a, <1>b, <1>c, <2>1, RxTakes
    <2>2. CASE rx' # "fill"
      BY <1>a, <1>c, <1>t, <2>2 DEF NetParts
    <2> QED BY <2>1, <2>2
  <1>1. NetParts'
    BY <1>o, <1>q, <1>c, <1>b DEF RxTake, NetParts, NetGuest
  <1>2. ResetWaits' /\ QueuesExist'
    BY <1>o, <1>q, <1>c, <1>b DEF RxTake, ResetWaits, QueuesExist
  <1>3. InHand'
    BY <1>o, <1>q, <1>c, <1>b, HandIs DEF RxTake, InHand
  <1>4. RingOwned'
    BY <1>o, <1>q, <1>c, <1>b DEF RxTake, RingsOwned, RingOwned
  <1>5. ChainsConserved'
    BY <1>o, <1>q, <1>t DEF ChainsConserved
  <1> QED BY <1>1, <1>2, <1>3, <1>4, <1>5, PTL DEF RingsOwned

\* The loop of tap takes the next chain.
LEMMA RxMoreStep ==
  ASSUME NetInv, RxMore
  PROVE  NetInv'
  <1> USE NetTypeIs DEF NetInv
  <1>o. /\ txq' = txq /\ chain'.tx = chain.tx /\ g'.txseen = g.txseen /\ g'.txfree = g.txfree
        /\ g'.mode = g.mode /\ dev' = dev /\ mtx' = mtx /\ txm' = txm /\ rxm' = rxm /\ intr' = intr
    BY DEF RxMore, locks, NetParts, NetGuest
  <1>t. /\ g.rxseen \in Indices /\ g.rxfree \in SUBSET Heads /\ rxq \in Queues
        /\ chain.rx \in Heads \cup {NoChain}
        /\ rxq.alloc => Conserved(rxq, g.rxseen, g.rxfree, {chain.rx} \cap Heads)
        /\ txq.alloc => Conserved(txq, g.txseen, g.txfree, {chain.tx} \cap Heads)
    BY DEF NetParts, NetGuest, RingsOwned, ChainsConserved
  <1>a. chain.rx = NoChain /\ rxq.alloc /\ vq_has_descs(rxq)
    BY <1>t DEF RxMore, InHand, RingsOwned, RingOwned
  <1>q. /\ rxq' \in Queues /\ rxq'.alloc = rxq.alloc /\ rxq.alloc /\ g' = g
        /\ chain' \in [tx : Heads \cup {NoChain}, rx : Heads \cup {NoChain}]
        /\ Conserved(rxq', g'.rxseen, g'.rxfree, {chain'.rx} \cap Heads)
        /\ chain'.rx \in Heads /\ chain'.rx = vq_head(vq_retchain(rxq))'
    <2>1. g' = g /\ chain' = [chain EXCEPT !.rx = vq_head(rxq)] /\ rxq' = vq_getchain(rxq)
      BY DEF RxMore
    <2> QED BY <1>a, <2>1, RxTakes
  <1>1. NetParts'
    BY <1>o, <1>q DEF RxMore, NetParts, NetGuest
  <1>2. ResetWaits' /\ QueuesExist'
    BY <1>o, <1>q DEF RxMore, ResetWaits, QueuesExist
  <1>3. InHand'
    BY <1>o, <1>q, HandIs DEF RxMore, InHand
  <1>4. RingOwned'
    BY <1>o, <1>q DEF RxMore, RingsOwned, RingOwned
  <1>5. ChainsConserved'
    BY <1>o, <1>q, <1>t DEF ChainsConserved
  <1> QED BY <1>1, <1>2, <1>3, <1>4, <1>5, PTL DEF RingsOwned

\* The chain is filled and released, or given back.
LEMMA RxFillStep ==
  ASSUME NetInv, RxFill
  PROVE  NetInv'
  <1> USE NetTypeIs DEF NetInv
  <1>o. /\ txq' = txq /\ chain'.tx = chain.tx /\ g'.txseen = g.txseen /\ g'.txfree = g.txfree
        /\ g'.mode = g.mode /\ dev' = dev /\ mtx' = mtx /\ txm' = txm /\ rxm' = rxm /\ intr' = intr
    BY DEF RxFill, locks, NetParts, NetGuest
  <1>t. /\ g.rxseen \in Indices /\ g.rxfree \in SUBSET Heads /\ rxq \in Queues
        /\ chain.rx \in Heads \cup {NoChain}
        /\ rxq.alloc => Conserved(rxq, g.rxseen, g.rxfree, {chain.rx} \cap Heads)
        /\ txq.alloc => Conserved(txq, g.txseen, g.txfree, {chain.tx} \cap Heads)
    BY DEF NetParts, NetGuest, RingsOwned, ChainsConserved
  <1>a. chain.rx \in Heads /\ rxq.alloc /\ rx = "fill" /\ chain.rx = vq_head(vq_retchain(rxq))
    BY <1>t DEF RxFill, InHand, RingsOwned, RingOwned
  <1>b. Conserved(rxq, g.rxseen, g.rxfree, {chain.rx}) /\ chain.rx = Before(rxq)
    BY <1>a, <1>t, HandIs, BeforeIs
  <1>c. /\ vq_relchain(rxq, chain.rx) \in Queues /\ vq_relchain(rxq, chain.rx).alloc = rxq.alloc
        /\ vq_has_descs(vq_relchain(rxq, chain.rx)) <=> vq_has_descs(rxq)
        /\ Conserved(vq_relchain(rxq, chain.rx), g.rxseen, g.rxfree, {})
    BY <1>a, <1>b, <1>t, RelQueue
  <1>d. /\ vq_retchain(rxq) \in Queues /\ vq_retchain(rxq).alloc = rxq.alloc
        /\ Conserved(vq_retchain(rxq), g.rxseen, g.rxfree, {})
    BY <1>a, <1>b, <1>t, RetQueue
  <1>e. /\ g' = g /\ chain'.rx = NoChain /\ rx' \in {"end", "more", "end0"}
        /\ chain' \in [tx : Heads \cup {NoChain}, rx : Heads \cup {NoChain}]
        /\ rxq' = vq_relchain(rxq, chain.rx) \/ (rxq' = vq_retchain(rxq) /\ rx' = "end0")
        /\ rx' = "more" => vq_has_descs(rxq)
    BY DEF RxFill, VpnkitFill, TapFill, RxGiveBack, NetParts
  <1>q. /\ rxq' \in Queues /\ rxq'.alloc = rxq.alloc /\ rxq.alloc /\ g' = g
        /\ chain' \in [tx : Heads \cup {NoChain}, rx : Heads \cup {NoChain}] /\ chain'.rx = NoChain
        /\ Conserved(rxq', g'.rxseen, g'.rxfree, {chain'.rx} \cap Heads)
        /\ rx = "fill" /\ rx' \in {"end", "more", "end0"}
        /\ rx' = "more" => vq_has_descs(rxq)'
    BY <1>a, <1>c, <1>d, <1>e, HandIs
  <1>1. NetParts'
    BY <1>o, <1>q DEF RxFill, NetParts, NetGuest
  <1>2. ResetWaits' /\ QueuesExist'
    BY <1>o, <1>q DEF RxFill, ResetWaits, QueuesExist
  <1>3. InHand'
    BY <1>o, <1>q, HandIs DEF RxFill, InHand
  <1>4. RingOwned'
    BY <1>o, <1>q DEF RxFill, RingsOwned, RingOwned
  <1>5. ChainsConserved'
    BY <1>o, <1>q, <1>t DEF ChainsConserved
  <1> QED BY <1>1, <1>2, <1>3, <1>4, <1>5, PTL DEF RingsOwned

\* The queues are set up: no thread has a chain of the old ones.
LEMMA WritePfnStep ==
  ASSUME NetInv, WritePfn
  PROVE  NetInv'
  <1> USE NetTypeIs DEF NetInv
  <1>a. chain.tx = NoChain /\ chain.rx = NoChain
    BY DEF WritePfn, QueuesExist, RingsOwned, RingOwned, InHand
  <1>b. /\ rxq' \in Queues /\ rxq'.alloc /\ Conserved(rxq', 0, Heads, {})
        /\ txq' \in Queues /\ txq'.alloc /\ Conserved(txq', 0, Heads, {})
    BY InitQueue DEF WritePfn
  <1>c. /\ g' \in NetGuest /\ g'.txseen = 0 /\ g'.rxseen = 0 /\ g'.txfree = Heads
        /\ g'.rxfree = Heads
        /\ dev' = dev /\ mtx' = mtx /\ txm' = txm /\ rxm' = rxm /\ tx' = tx /\ rx' = rx
        /\ vcpu' = vcpu
        /\ chain' = chain /\ intr' = intr
    BY InitQueue DEF WritePfn, NetGuest, locks
  <1>d. rxq'.alloc = txq'.alloc
    BY DEF WritePfn, vi_vq_init
  <1>1. NetParts'
    BY <1>b, <1>c DEF NetParts
  <1>2. ResetWaits' /\ QueuesExist' /\ InHand'
    BY <1>a, <1>b, <1>c, <1>d, HandIs DEF WritePfn, ResetWaits, QueuesExist, InHand,
       RingsOwned, RingOwned
  <1>3. RingOwned'
    BY <1>b, <1>c DEF WritePfn, QueuesExist, RingsOwned, RingOwned, vq_has_descs
  <1>4. ChainsConserved'
    BY <1>a, <1>b, <1>c, HandIs DEF ChainsConserved
  <1> QED BY <1>1, <1>2, <1>3, <1>4, PTL DEF RingsOwned

\* The reset has waited: the receiver is no longer ready.
LEMMA NetResetStep ==
  ASSUME NetInv, pci_vtnet_reset
  PROVE  NetInv'
  <1> USE NetTypeIs DEF NetInv
  <1>q. Quiet
    BY DEF pci_vtnet_reset, Quiet, ring
  <1>d. /\ dev' \in NetDev
        /\ dev'.resetting = dev.resetting /\ dev'.rx_ready = FALSE /\ dev'.vhdrlen = 12
        /\ dev'.rx_in_progress = dev.rx_in_progress /\ dev'.tx_in_progress = dev.tx_in_progress
    BY DEF pci_vtnet_reset, NetParts, NetDev
  <1>1. NetParts'
    BY <1>q, <1>d DEF pci_vtnet_reset, NetParts, Quiet, locks
  <1>2. ResetWaits' /\ QueuesExist' /\ InHand'
    BY <1>q, <1>d DEF pci_vtnet_reset, ResetWaits, QueuesExist, InHand, Quiet, NetParts, NetDev
  <1>3. RingsOwned'
    BY <1>q, QuietKeeps DEF pci_vtnet_reset, RingsOwned, RingOwned, Quiet
  <1> QED BY <1>1, <1>2, <1>3, PTL

\* The queues are reset: no thread has a chain of them.
LEMMA ResetRingsStep ==
  ASSUME NetInv, ResetRings
  PROVE  NetInv'
  <1> USE NetTypeIs DEF NetInv
  <1>a. /\ chain.tx = NoChain /\ chain.rx = NoChain /\ dev.resetting /\ Resets
        /\ ~dev.rx_ready
    BY NetConstants DEF ResetRings, ResetWaits, InHand, NetParts, NetDev
  <1>b. rxq' \in Queues /\ ~rxq'.alloc /\ txq' \in Queues /\ ~txq'.alloc /\ rxq'.alloc = txq'.alloc
    <2>1. rxq' \in Queues /\ ~rxq'.alloc /\ txq' \in Queues /\ ~txq'.alloc
      BY ResetQueue DEF ResetRings, NetParts
    <2> QED BY <2>1 DEF Queues
  <1>d. /\ g' = g /\ txm' = txm /\ rxm' = rxm /\ tx' = tx /\ rx' = rx /\ chain' = chain
        /\ intr' = FALSE /\ mtx' = mtx /\ vcpu = "clear" /\ vcpu' = "over" /\ dev' = dev
    BY DEF ResetRings, locks
  <1>e. tx \notin {"proc", "sent", "end"} /\ rx \notin {"fill", "more", "end", "end0", "lost"}
    BY <1>a, <1>d DEF ResetWaits
  <1>1. NetParts'
    <2>1. NetParts
      OBVIOUS
    <2>2. /\ dev' \in NetDev /\ g' \in NetGuest /\ (dev'.merge => dev'.vhdrlen = 12)
          /\ mtx' \in BOOLEAN /\ txm' \in {"none", "tx"} /\ rxm' \in {"none", "rx"}
      BY <2>1, <1>d, Zenon DEF NetParts
    <2>3. /\ tx' \in {"wait", "woken", "lock", "top", "empty", "recheck", "proc", "sent", "end"}
          /\ rx' \in {"select", "check", "ready", "fill", "more", "end", "end0", "done", "lost"}
          /\ chain' \in [tx : Heads \cup {NoChain}, rx : Heads \cup {NoChain}]
      BY <2>1, <1>d, Zenon DEF NetParts
    <2>4. intr' \in BOOLEAN
          /\ vcpu' \in {"run", "kick", "ping", "txwait", "rxwait", "reset", "clear", "over"}
      BY <1>d
    <2> QED BY <1>b, <2>2, <2>3, <2>4, Zenon DEF NetParts
  <1>2. ResetWaits' /\ QueuesExist' /\ InHand'
    BY <1>a, <1>b, <1>d, <1>e DEF ResetWaits, QueuesExist, InHand, NetDev
  <1>3. RingOwned'
    BY <1>d, <1>e DEF RingOwned
  <1>4. ChainsConserved'
    BY <1>b DEF ChainsConserved
  <1> QED BY <1>1, <1>2, <1>3, <1>4, PTL DEF RingsOwned

\* The invariant holds at first.
LEMMA NetInitially == NetInit => NetInv
  <1> SUFFICES ASSUME NetInit PROVE NetInv
    OBVIOUS
  <1> USE NetTypeIs DEF NetInv
  <1>a. rxq \in Queues /\ txq \in Queues /\ ~rxq.alloc /\ ~txq.alloc /\ rxq.alloc = txq.alloc
    BY InitQueue DEF NetInit
  <1>b. dev \in NetDev /\ ~dev.resetting /\ ~dev.rx_ready /\ dev.vhdrlen = 12
    BY DEF NetInit, NetDev
  <1>c. /\ g \in NetGuest /\ chain \in [tx : Heads \cup {NoChain}, rx : Heads \cup {NoChain}]
        /\ chain.tx = NoChain /\ chain.rx = NoChain
    BY InitQueue DEF NetInit, NetGuest
  <1>1. NetParts
    BY <1>a, <1>b, <1>c DEF NetInit, NetParts
  <1>2. ResetWaits /\ QueuesExist /\ InHand
    BY <1>a, <1>b, <1>c DEF NetInit, ResetWaits, QueuesExist, InHand
  <1>3. RingsOwned
    BY <1>a DEF NetInit, RingsOwned, RingOwned, ChainsConserved
  <1> QED BY <1>1, <1>2, <1>3

\* Every step keeps the invariant.
LEMMA NetSteps == NetInv /\ [NetNext]_netvars => NetInv'
  <1> SUFFICES ASSUME NetInv, [NetNext]_netvars PROVE NetInv'
    OBVIOUS
  <1>1. CASE TxThread
    BY <1>1, TxLockStep, TxTopStep, TxAskStep, TxRecheckStep, TxProcStep, TxReleaseStep,
       TxEndStep DEF TxThread
  <1>2. CASE RxThread
    BY <1>2, TapRxStep, RxTakeStep, RxFillStep, RxMoreStep, RxEndStep, RxDoneStep DEF RxThread
  <1>3. CASE Vcpu
    BY <1>3, PingTxBeginStep, SkipNotifyStep, PingTxStep, TxWaitStep, RxWaitStep,
       NetResetStep, ResetRingsStep, ResetOverStep DEF Vcpu
  <1>4. CASE Driver
    BY <1>4, TakeInterruptStep, RxReclaimStep, EnableStep, LookStep DEF Driver
  <1>5. CASE \/ RxBegin \/ RxLost \/ vpnkit_create \/ WritePfn \/ pci_vtnet_ping_rxq
             \/ ResetBegin \/ TxReclaim \/ TxDrain \/ RxDrain
    BY <1>5, TxDrainStep, RxDrainStep, RxBeginStep, RxLostStep, CreateStep, WritePfnStep, PingRxStep, ResetBeginStep,
       TxReclaimStep
  <1>6. CASE \E mrg \in Mrg : pci_vtnet_neg_features(mrg)
    BY <1>6, NegStep
  <1>7. CASE \E i \in Chains : TxPost(i) \/ RxPost(i)
    BY <1>7, NetConstants, TxPostStep, RxPostStep
  <1>8. CASE UNCHANGED netvars
    BY <1>8 DEF netvars, NetInv, NetTypeOK, ResetWaits, QueuesExist, InHand, RingsOwned,
       RingOwned, ChainsConserved
  <1> QED BY <1>1, <1>2, <1>3, <1>4, <1>5, <1>6, <1>7, <1>8 DEF NetNext

\* The inductive invariant of the network device.
THEOREM NetInvariant == NetSpec => []NetInv
  BY NetInitially, NetSteps, PTL DEF NetSpec

\* No reset takes a ring from a thread that has a chain of it, however the
\* receiver's two loads fall between the stores of the reset, and no chain is
\* lost or doubled (pci_virtio_net_*.c, virtio.c), for every size
\* of the rings, kind of device and use of interrupts.
THEOREM RingsAreOwned == NetSpec => []RingsOwned
  <1>1. NetInv => RingsOwned
    BY DEF NetInv
  <1> QED BY <1>1, NetInvariant, PTL
=============================================================================
