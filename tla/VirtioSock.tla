----------------------------- MODULE VirtioSock -----------------------------
(***************************************************************************)
(* The virtio socket device (pci_virtio_sock.c): connections between guest *)
(* ports and unix sockets of the host, kept in a pool of socks.  The tx    *)
(* thread handles what the guest sends, incoming connections and buffered  *)
(* writes; the rx thread sends replies, data and credit to the guest and   *)
(* frees socks.  Both select() with the locks released on descriptors they *)
(* chose before, which is what the CLOSING_TX, CLOSING_RX handshake is for.*)
(*                                                                         *)
(* sk[s] is struct pci_vtsock_sock.  Bytes are counted in small units: buf *)
(* is write_buf_tail, flight is rx_cnt - peer_fwd_cnt (the guest's buffer  *)
(* holds GuestBuf), unack is what was accepted from the guest and is not   *)
(* in fwd_cnt.  in and out are what the host's end of the unix socket lets *)
(* readv and writev do.  told is history: the guest has been sent the      *)
(* current fwd_cnt.  A scan of the list is one step: it treats one sock    *)
(* after the other, each under its own lock.                               *)
(***************************************************************************)
EXTENDS Naturals, Sequences, FiniteSets

CONSTANTS
  Socks,      \* the pool, VTSOCK_MAXSOCKS
  WriteBuf,   \* WRITE_BUF_LENGTH
  GuestBuf,   \* buf_alloc of the guest
  Ops,        \* what the guest sends
  HostDoes,   \* what the host does: of "dial", "data", "eof", "readerr", "full", "epipe", "err"
  MaxTx,      \* bound on packets in the tx ring
  MaxDesc,    \* bound on free descriptors in the rx ring
  MaxReply    \* bound on queued replies; a guest that keeps the rx ring
              \* supplied does not fill VTSOCK_REPLYRINGSZ

ASSUME SockConstants ==
  /\ WriteBuf \in Nat /\ GuestBuf \in Nat
  /\ \A p \in Ops :
       /\ p.addr \in {"G", "H0", "H1"}
       /\ p.op = "RW" => p.arg \in Nat \ {0}
       /\ p.op = "SHUTDOWN" => p.arg \in SUBSET {"RX", "TX"}

VARIABLES
  sk, inuse,              \* the socks, and those on inuse_list
  reply, rxd, packets,    \* reply_ring; free rx descriptors; the guest's packets
  tpc, tq, tw, txkick,    \* tx thread: place, local queue, writable ones, its pipe
  rpc, rq, rp, rr, todo,  \* rx thread: place, local queue, polled, readable, not yet visited
  poll, work, rxkick,     \* poll_socks, did_some_work, its pipe
  kickpend, dial,         \* rx_kick_pending; a process connects to a unix socket
  abort                   \* the assertion that failed

sockvars == <<sk, inuse, reply, rxd, packets, tpc, tq, tw, txkick, rpc, rq, rp, rr, todo,
          poll, work, rxkick, kickpend, dial, abort>>
txlocal == <<tq, tw>>
rxlocal == <<rpc, rq, rp, rr, todo, poll, work>>

All == {"RX", "TX"}
Addrs == {"G", "H0", "H1"}    \* guest's ports; a sock's port with its generation

\* pci_vtsock_init.
FreeSock ==
  [st |-> "FREE", fd |-> FALSE, addr |-> "G", gen |-> 0, lsh |-> {}, psh |-> {},
   buf |-> 0, credit |-> FALSE, flight |-> 0, unack |-> 0, told |-> TRUE,
   late |-> TRUE, in |-> "none", out |-> "ok"]

SockInit ==
  /\ sk = [s \in Socks |-> FreeSock] /\ inuse = {}
  /\ reply = <<>> /\ rxd = 0 /\ packets = <<>>
  /\ tpc = "scan" /\ tq = {} /\ tw = {} /\ txkick = FALSE
  /\ rpc = "scan" /\ rq = {} /\ rp = {} /\ rr = {} /\ todo = {}
  /\ poll = TRUE /\ work = FALSE /\ rxkick = FALSE
  /\ kickpend = FALSE /\ dial = FALSE /\ abort = "no"

-----------------------------------------------------------------------------
(* Operations on one sock, under its lock.                                 *)

\* alloc_sock; rst_deadline keeps its old value.
alloc_sock(k) ==
  [k EXCEPT !.st = "CONNECTING", !.lsh = {}, !.psh = {}, !.buf = 0, !.unack = 0,
            !.credit = FALSE, !.flight = 0, !.told = TRUE]

sock_is_buffering(k) == k.buf > 0

\* shutdown_peer_local_fd: SHUT_WR waits until the buffer is drained; after
\* SHUT_RD the descriptor reads as at its end.
shutdown_peer_local_fd(k, mode) ==
  LET new == mode \ k.psh
      rd == "RX" \in new
      wr == "TX" \in new /\ ~sock_is_buffering(k)
  IN [k EXCEPT !.psh = @ \cup mode,
               !.lsh = @ \cup (IF rd THEN {"TX"} ELSE {}) \cup (IF wr THEN {"RX"} ELSE {}),
               !.in = IF rd THEN "eof" ELSE @]

\* Mutant: the tx thread is skipped, as only it may do for itself.
CloseToRx(k) == [shutdown_peer_local_fd(k, All) EXCEPT !.st = "CLOSING_RX"]

\* close_sock; the callers kick the tx thread.
close_sock(k) == [shutdown_peer_local_fd(k, All) EXCEPT !.st = "CLOSING_TX"]

\* shutdown_local_sock, for a connected sock.
shutdown_local_sock(k, mode) ==
  LET new == k.lsh \cup {mode}
  IN [k EXCEPT !.lsh = new, !.buf = IF "RX" \in new THEN 0 ELSE @,
               !.unack = IF "RX" \in new THEN 0 ELSE @,
               !.late = IF new = All THEN FALSE ELSE @]

\* set_credit_update_required; the callers set rx_kick_pending.
set_credit_update_required(k) == [k EXCEPT !.credit = TRUE]

\* send_response_sock, send_response_nosock: a header in the reply ring.  A
\* header of a sock carries its fwd_cnt.
send_response_common(op, a) == Append(reply, [op |-> op, addr |-> a])
Told(k) == [k EXCEPT !.told = TRUE]

\* lookup_sock.
lookup_sock(a) ==
  {s \in inuse : sk[s].st \in {"CONNECTED", "CONNECTING"} /\ sk[s].addr = a}

-----------------------------------------------------------------------------
(* The tx thread.                                                          *)

Expired(k) ==
  \/ k.st = "CONNECTED" /\ k.lsh = All /\ k.late
  \/ k.st = "CLOSING_TX" /\ sock_is_buffering(k) /\ k.lsh = All /\ k.late

\* What the scan makes of a sock.
Scanned(k) ==
  IF k.st = "CLOSING_TX" /\ ~sock_is_buffering(k) THEN [k EXCEPT !.st = "CLOSING_RX"]
  ELSE IF Expired(k) THEN Told(close_sock(k))
  ELSE k

\* The head of the tx loop: close, expire, and choose what to select.
TxScan ==
  LET closing == {s \in inuse : sk[s].st = "CLOSING_TX" /\ ~sock_is_buffering(sk[s])}
      expired == {s \in inuse : Expired(sk[s])}
      rst(s) == [op |-> "RST", addr |-> sk[s].addr]
  IN /\ tpc = "scan"
     /\ tpc' = "select"
     /\ sk' = [s \in Socks |-> IF s \in inuse THEN Scanned(sk[s]) ELSE sk[s]]
     /\ tq' = {s \in inuse \ (closing \cup expired) :
                 /\ sk[s].st \in {"CONNECTED", "CLOSING_TX"}
                 /\ "RX" \notin sk[s].lsh /\ sock_is_buffering(sk[s])}
     /\ \E order \in [1 .. Cardinality(expired) -> expired] :
          /\ \A s \in expired : \E i \in DOMAIN order : order[i] = s
          /\ reply' = reply \o [i \in DOMAIN order |-> rst(order[i])]
     /\ txkick' = (txkick \/ expired # {})
     /\ rxkick' = (rxkick \/ closing # {})
     /\ kickpend' = IF closing # {} THEN FALSE ELSE kickpend \/ expired # {}
     /\ UNCHANGED <<inuse, rxd, packets, tw, rxlocal, dial, abort>>

\* select: the kicks are eaten; with a timeout while some sock waits for its RST.
TxSelect ==
  /\ tpc = "select"
  /\ \/ txkick \/ dial
     \/ \E s \in tq : sk[s].out # "full"
     \/ \E s \in inuse : sk[s].st = "CONNECTED" /\ sk[s].lsh = All
  /\ txkick' = FALSE
  /\ tw' = {s \in tq : sk[s].out # "full"}
  /\ tpc' = IF dial THEN "accept" ELSE "drain"
  /\ UNCHANGED <<sk, inuse, reply, rxd, packets, tq, rxlocal, rxkick, kickpend, dial, abort>>

\* handle_connect_fd: the request is bad or there is no free sock; or a sock
\* sends REQUEST; or its options cannot be set, and it stays on inuse_list.
handle_connect_fd ==
  /\ tpc = "accept" /\ tpc' = "drain" /\ dial' = FALSE
  /\ \/ UNCHANGED <<sk, inuse, reply, kickpend>>
     \/ \E s \in Socks \ inuse :
          LET g == 1 - sk[s].gen
              k == [alloc_sock(sk[s]) EXCEPT !.gen = g, !.in = "none", !.out = "ok",
                                             !.addr = IF g = 0 THEN "H0" ELSE "H1"]
          IN /\ inuse' = inuse \cup {s}
             /\ \/ /\ sk' = [sk EXCEPT ![s] = [k EXCEPT !.fd = TRUE]]
                   /\ reply' = send_response_common("REQUEST", k.addr)
                   /\ kickpend' = TRUE
                \/ /\ sk' = [sk EXCEPT ![s] = [k EXCEPT !.st = "FREE", !.fd = FALSE]]
                   /\ UNCHANGED <<reply, kickpend>>
  /\ UNCHANGED <<rxd, packets, txlocal, txkick, rxlocal, rxkick, abort>>

\* The sock after buffer_drain wrote everything, with the pending SHUT_WR.
Drained(k) ==
  set_credit_update_required(
    [k EXCEPT !.buf = 0, !.unack = @ - k.buf, !.told = FALSE,
              !.lsh = IF "TX" \in k.psh THEN @ \cup {"RX"} ELSE @])

\* The drain loop, with buffer_drain: the buffer is written, or a part of it,
\* or the host's end is closed, or broken.
buffer_drain(s) ==
  /\ tpc = "drain" /\ s \in tw
  /\ tw' = tw \ {s}
  /\ IF sk[s].st # "CONNECTED" THEN UNCHANGED <<sk, reply, kickpend, txkick, abort>>
     ELSE IF ~sock_is_buffering(sk[s])
     THEN abort' = "drain" /\ UNCHANGED <<sk, reply, kickpend, txkick>>
     ELSE
       \/ /\ sk[s].out = "ok"
          /\ sk' = [sk EXCEPT ![s] = Drained(@)] /\ kickpend' = (kickpend \/ ~sk[s].credit)
          /\ UNCHANGED <<reply, txkick, abort>>
       \/ sk[s].out \in {"ok", "full"} /\ UNCHANGED <<sk, reply, kickpend, txkick, abort>>
       \/ /\ sk[s].out = "epipe"
          /\ abort' = IF sk[s].lsh = All THEN "local" ELSE abort
          /\ sk' = [sk EXCEPT ![s] = Told(shutdown_local_sock(@, "RX"))]
          /\ reply' = send_response_common("SHUTDOWN", sk[s].addr)
          /\ kickpend' = TRUE /\ UNCHANGED txkick
       \/ /\ sk[s].out = "err"
          /\ sk' = [sk EXCEPT ![s] = Told(close_sock(@))]
          /\ reply' = send_response_common("RST", sk[s].addr)
          /\ kickpend' = TRUE /\ txkick' = TRUE /\ UNCHANGED abort
  /\ UNCHANGED <<inuse, rxd, packets, tpc, tq, rxlocal, rxkick, dial>>

TxDrained ==
  /\ tpc = "drain" /\ tw = {}
  /\ tpc' = "proc"
  /\ UNCHANGED <<sk, inuse, reply, rxd, packets, txlocal, txkick, rxlocal, rxkick, kickpend,
                 dial, abort>>

-----------------------------------------------------------------------------
(* pci_vtsock_proc_tx, by what the packet is and whether there is a sock   *)
(* for it.                                                                 *)

\* do_rst without and with a sock.
RstNoSock(p) ==
  /\ reply' = send_response_common("RST", p.addr) /\ kickpend' = TRUE
  /\ UNCHANGED <<sk, txkick>>

RstSock(s, k) ==
  /\ reply' = send_response_common("RST", k.addr) /\ kickpend' = TRUE
  /\ sk' = [sk EXCEPT ![s] = Told(close_sock(k))] /\ txkick' = TRUE

\* connect_sock for a REQUEST of the guest.  When the host refuses, the sock
\* is FREE again but stays on inuse_list.
connect_sock(p) ==
  \/ Socks \ inuse = {} /\ RstNoSock(p) /\ UNCHANGED <<inuse, tpc>>
  \/ \E s \in Socks \ inuse :
       LET k == [alloc_sock(sk[s]) EXCEPT !.addr = p.addr, !.in = "none", !.out = "ok"]
       IN /\ inuse' = inuse \cup {s}
          /\ \/ /\ sk' = [sk EXCEPT ![s] = [k EXCEPT !.st = "CONNECTED", !.fd = TRUE]]
                /\ tpc' = "respond"
                /\ UNCHANGED <<reply, kickpend, txkick>>
             \/ /\ sk' = [sk EXCEPT ![s] = [k EXCEPT !.st = "FREE", !.fd = FALSE]]
                /\ reply' = send_response_common("RST", p.addr) /\ kickpend' = TRUE
                /\ UNCHANGED <<tpc, txkick>>

\* The RESPONSE is queued after connect_sock has released the sock.
TxRespond ==
  /\ tpc = "respond" /\ tpc' = "proc"
  /\ \E s \in inuse : /\ sk[s].addr = "G"
                      /\ sk' = [sk EXCEPT ![s] = Told(@)]
                      /\ reply' = send_response_common("RESPONSE", "G")
  /\ kickpend' = TRUE
  /\ UNCHANGED <<inuse, rxd, packets, txlocal, txkick, rxlocal, rxkick, dial, abort>>

\* handle_write of n units, with buffer_write.
handle_write(s, k, n) ==
  IF sock_is_buffering(k)
  THEN IF k.buf + n > WriteBuf THEN RstSock(s, k)
       ELSE /\ sk' = [sk EXCEPT ![s] = [k EXCEPT !.buf = @ + n, !.unack = @ + n]]
            /\ UNCHANGED <<reply, kickpend, txkick>>
  ELSE \/ /\ k.out = "ok"
          /\ sk' = [sk EXCEPT ![s] = set_credit_update_required([k EXCEPT !.told = FALSE])]
          /\ kickpend' = (kickpend \/ ~k.credit)
          /\ UNCHANGED <<reply, txkick>>
       \/ /\ k.out \in {"ok", "full"}
          /\ \E rest \in IF k.out = "ok" THEN 1 .. n - 1 ELSE {n} :
               sk' = [sk EXCEPT ![s] = [k EXCEPT !.buf = rest, !.unack = @ + n]]
          /\ UNCHANGED <<reply, kickpend, txkick>>
       \/ /\ k.out = "epipe"
          /\ sk' = [sk EXCEPT ![s] = Told(shutdown_local_sock(k, "RX"))]
          /\ reply' = send_response_common("SHUTDOWN", k.addr) /\ kickpend' = TRUE
          /\ UNCHANGED txkick
       \/ k.out = "err" /\ RstSock(s, k)

\* A packet for sock s, whose credit has been updated in k.
ProcSock(s, k, p) ==
  LET up == k.st = "CONNECTED"
      k2 == shutdown_peer_local_fd(k, p.arg)
  IN CASE p.op = "RST" ->
            /\ sk' = [sk EXCEPT ![s] = close_sock(k)] /\ txkick' = TRUE
            /\ UNCHANGED <<reply, kickpend, rxkick>>
       [] p.op = "RESPONSE" /\ ~up ->
            /\ sk' = [sk EXCEPT ![s] = [k EXCEPT !.st = "CONNECTED"]]
            /\ rxkick' = TRUE /\ kickpend' = FALSE /\ UNCHANGED <<reply, txkick>>
       [] p.op = "SHUTDOWN" /\ up ->
            /\ IF k2.psh = All THEN RstSock(s, k2)
               ELSE sk' = [sk EXCEPT ![s] = k2] /\ UNCHANGED <<reply, kickpend, txkick>>
            /\ UNCHANGED rxkick
       [] p.op = "RW" /\ up /\ "TX" \notin k.psh /\ "RX" \notin k.lsh ->
            handle_write(s, k, p.arg) /\ UNCHANGED rxkick
       [] p.op = "CREDIT_UPDATE" /\ up ->
            /\ sk' = [sk EXCEPT ![s] = k] /\ kickpend' = TRUE
            /\ UNCHANGED <<reply, txkick, rxkick>>
       [] p.op = "CREDIT_REQUEST" /\ up ->
            /\ sk' = [sk EXCEPT ![s] = set_credit_update_required(k)]
            /\ kickpend' = (kickpend \/ ~k.credit)
            /\ UNCHANGED <<reply, txkick, rxkick>>
       [] OTHER -> RstSock(s, k) /\ UNCHANGED rxkick

\* pci_vtsock_proc_tx.  The header of a well-behaved guest acknowledges what
\* it was sent, or less.
pci_vtsock_proc_tx ==
  /\ tpc = "proc" /\ packets # <<>> /\ packets' = Tail(packets)
  /\ LET p == Head(packets) IN
     IF p.op = "BAD" THEN RstNoSock(p) /\ UNCHANGED <<inuse, tpc, rxkick>>
     ELSE IF lookup_sock(p.addr) # {}
     THEN /\ \E s \in lookup_sock(p.addr) : \E f \in 0 .. sk[s].flight :
               ProcSock(s, [sk[s] EXCEPT !.flight = f], p)
          /\ UNCHANGED <<inuse, tpc>>
     ELSE IF p.op = "REQUEST" THEN connect_sock(p) /\ UNCHANGED rxkick
     ELSE /\ IF p.op = "RST" THEN UNCHANGED <<sk, reply, kickpend, txkick>> ELSE RstNoSock(p)
          /\ UNCHANGED <<inuse, tpc, rxkick>>
  /\ UNCHANGED <<rxd, txlocal, rxlocal, dial, abort>>

\* Mutant: the pending kick is forgotten.
TxEndNoKick ==
  /\ tpc = "proc" /\ packets = <<>> /\ tpc' = "scan"
  /\ kickpend' = FALSE
  /\ UNCHANGED <<sk, inuse, reply, rxd, packets, txlocal, txkick, rxlocal, rxkick, dial, abort>>

\* The end of the tx loop, with kick_rx.
SockTxEnd ==
  /\ tpc = "proc" /\ packets = <<>> /\ tpc' = "scan"
  /\ rxkick' = (rxkick \/ kickpend) /\ kickpend' = FALSE
  /\ UNCHANGED <<sk, inuse, reply, rxd, packets, txlocal, txkick, rxlocal, dial, abort>>

-----------------------------------------------------------------------------
(* The rx thread.                                                          *)

PeerFree(k) == GuestBuf - k.flight

\* The head of the rx loop: CLOSING_RX socks are closed and become free;
\* the others are polled if they may send to the guest.
RxScan ==
  LET closing == {s \in inuse : sk[s].st = "CLOSING_RX"}
      up == {s \in inuse : sk[s].st = "CONNECTED" /\ poll}
      polled == {s \in up : /\ "TX" \notin sk[s].lsh /\ "RX" \notin sk[s].psh
                            /\ PeerFree(sk[s]) > 0}
  IN /\ rpc = "scan" /\ rpc' = "select"
     /\ sk' = [s \in Socks |-> IF s \in closing
                 THEN [sk[s] EXCEPT !.st = "FREE", !.fd = FALSE] ELSE sk[s]]
     /\ inuse' = inuse \ closing
     /\ rp' = polled
     /\ rq' = polled \cup {s \in up : sk[s].credit}
     /\ UNCHANGED <<reply, rxd, packets, tpc, txlocal, txkick, rr, todo, poll, work, rxkick,
                    kickpend, dial, abort>>

\* select, without a timeout unless a credit update is pending (rq holds
\* more than is polled); without descriptors the socks are not polled again
\* until the next kick.
RxSelect ==
  LET ready == {s \in rp : sk[s].in # "none"}
  IN /\ rpc = "select"
     /\ rxkick \/ ready # {} \/ \E s \in rq : s \notin rp \/ sk[s].credit
     /\ rxkick' = FALSE
     /\ rr' = ready
     /\ IF rxd = 0 THEN rpc' = "scan" /\ poll' = FALSE
        ELSE rpc' = "replies" /\ poll' = (poll \/ rxkick)
     /\ UNCHANGED <<sk, inuse, reply, rxd, packets, tpc, txlocal, txkick, rq, rp, todo, work,
                    kickpend, dial, abort>>

\* The loop over rx_do_one_reply, which holds reply_mtx.
rx_do_replies ==
  LET n == IF Len(reply) < rxd THEN Len(reply) ELSE rxd
      more == rxd = 0 \/ Len(reply) > rxd
  IN /\ rpc = "replies"
     /\ reply' = SubSeq(reply, n + 1, Len(reply))
     /\ rxd' = rxd - n
     /\ IF more THEN rpc' = "scan" /\ poll' = FALSE /\ UNCHANGED <<work, todo>>
        ELSE rpc' = "socks" /\ todo' = rq /\ work' = (n >= 2) /\ UNCHANGED poll
     /\ UNCHANGED <<sk, inuse, packets, tpc, txlocal, txkick, rq, rp, rr, rxkick, kickpend,
                    dial, abort>>

\* pci_vtsock_proc_rx with a descriptor and credit: nothing to read, an
\* error, the end, or data.
pci_vtsock_proc_rx(k) ==
  CASE k.in = "none" -> k
    [] k.in = "readerr" -> Told(close_sock(k))
    [] k.in = "eof" -> Told(shutdown_local_sock(k, "TX"))
    [] k.in = "data" -> Told([k EXCEPT !.in = "none", !.flight = @ + 1])

\* The rx loop only uses connected socks.
MayVisit(k) == k.st = "CONNECTED"

\* The visit of one sock of the local queue.
RxSock(s) ==
  LET k == sk[s]
      send == rxd > 0 /\ PeerFree(k) > 0
      stop == rpc' = "scan" /\ UNCHANGED <<sk, rxd, rq, rr, work, txkick, abort>>
  IN /\ rpc = "socks" /\ s \in todo /\ todo' = todo \ {s}
     /\ IF ~MayVisit(k)
        THEN rq' = rq \ {s} /\ UNCHANGED <<sk, rxd, rpc, rr, work, txkick, abort>>
        ELSE IF s \in rr
        THEN IF rxd = 0 THEN stop
             ELSE /\ sk' = [sk EXCEPT ![s] =
                       [IF send THEN pci_vtsock_proc_rx(k) ELSE k EXCEPT !.credit = FALSE]]
                  /\ rxd' = IF send /\ k.in # "none" THEN rxd - 1 ELSE rxd
                  /\ abort' = IF send /\ k.in = "eof" /\ k.lsh = All THEN "local" ELSE abort
                  /\ txkick' = (txkick \/ (send /\ k.in = "readerr"))
                  /\ IF send /\ k.in = "data" THEN work' = TRUE /\ UNCHANGED <<rq, rr>>
                     ELSE rq' = rq \ {s} /\ rr' = rr \ {s} /\ UNCHANGED work
                  /\ UNCHANGED rpc
        ELSE IF k.credit
        THEN IF rxd = 0 THEN stop
             ELSE /\ sk' = [sk EXCEPT ![s] = Told([@ EXCEPT !.credit = FALSE])]
                  /\ rxd' = rxd - 1 /\ UNCHANGED <<rpc, rq, rr, work, txkick, abort>>
        ELSE rq' = rq \ {s} /\ UNCHANGED <<sk, rxd, rpc, rr, work, txkick, abort>>
     /\ UNCHANGED <<inuse, reply, packets, tpc, txlocal, rp, poll, rxkick, kickpend, dial>>

RxRound ==
  /\ rpc = "socks" /\ todo = {}
  /\ rpc' = IF work THEN "replies" ELSE "scan"
  /\ UNCHANGED <<sk, inuse, reply, rxd, packets, tpc, txlocal, txkick, rq, rp, rr, todo, poll,
                 work, rxkick, kickpend, dial, abort>>

-----------------------------------------------------------------------------
(* The guest, the processes of the host, and time.                         *)

Others == <<inuse, tpc, txlocal, rxlocal, abort>>

\* pci_vtsock_notify_tx.  The guest stays within the credit it was given.
GuestSend ==
  /\ Len(packets) < MaxTx /\ Len(reply) < MaxReply
  /\ \E p \in Ops :
       /\ p.op = "RW" => \A s \in lookup_sock(p.addr) : sk[s].unack + p.arg <= WriteBuf
       /\ packets' = Append(packets, p)
  /\ txkick' = TRUE
  /\ UNCHANGED <<sk, reply, rxd, rxkick, kickpend, dial, Others>>

\* pci_vtsock_notify_rx.
GuestDesc ==
  /\ rxd < MaxDesc /\ rxd' = rxd + 1
  /\ rxkick' = TRUE /\ kickpend' = FALSE
  /\ UNCHANGED <<sk, reply, packets, txkick, dial, Others>>

\* The other end of a unix socket writes, closes, stops and starts reading.
HostIn(s) ==
  /\ sk[s].fd /\ sk[s].in = "none"
  /\ \E i \in HostDoes \cap {"data", "eof", "readerr"} : sk' = [sk EXCEPT ![s].in = i]
  /\ UNCHANGED <<reply, rxd, packets, txkick, rxkick, kickpend, dial, Others>>

HostOut(s) ==
  /\ sk[s].fd /\ sk[s].out \in {"ok", "full"}
  /\ \E o \in ((HostDoes \cap {"full", "epipe", "err"}) \cup {"ok"}) \ {sk[s].out} : sk' = [sk EXCEPT ![s].out = o]
  /\ UNCHANGED <<reply, rxd, packets, txkick, rxkick, kickpend, dial, Others>>

HostDial ==
  /\ "dial" \in HostDoes /\ ~dial /\ dial' = TRUE
  /\ UNCHANGED <<sk, reply, rxd, packets, txkick, rxkick, kickpend, Others>>

\* SHUTDOWN_RST_DELAY passes.
Deadline(s) ==
  /\ ~sk[s].late /\ sk' = [sk EXCEPT ![s].late = TRUE]
  /\ UNCHANGED <<reply, rxd, packets, txkick, rxkick, kickpend, dial, Others>>

SockTxThread ==
  \/ TxScan \/ TxSelect \/ handle_connect_fd \/ TxDrained \/ TxRespond
  \/ pci_vtsock_proc_tx \/ SockTxEnd \/ \E s \in Socks : buffer_drain(s)

SockRxThread == RxScan \/ RxSelect \/ rx_do_replies \/ RxRound \/ \E s \in Socks : RxSock(s)

Environment ==
  \/ GuestSend \/ GuestDesc \/ HostDial
  \/ \E s \in Socks : HostIn(s) \/ HostOut(s) \/ Deadline(s)

SockNext == abort = "no" /\ (SockTxThread \/ SockRxThread \/ Environment)

SockSpec == SockInit /\ [][SockNext]_sockvars

\* Both threads run; the guest supplies descriptors.
SockFairSpec ==
  SockSpec /\ WF_sockvars(SockTxThread) /\ WF_sockvars(SockRxThread) /\ WF_sockvars(GuestDesc)

-----------------------------------------------------------------------------
States == {"FREE", "CONNECTING", "CONNECTED", "CLOSING_TX", "CLOSING_RX"}

Sock ==
  [st : States, fd : BOOLEAN, addr : Addrs, gen : {0, 1}, lsh : SUBSET All, psh : SUBSET All,
   buf : Nat, credit : BOOLEAN, flight : Nat, unack : Nat, told : BOOLEAN, late : BOOLEAN,
   in : {"none", "data", "eof", "readerr"}, out : {"ok", "full", "epipe", "err"}]

SockTypeOK ==
  /\ sk \in [Socks -> Sock]
  /\ inuse \subseteq Socks /\ tq \subseteq Socks /\ tw \subseteq Socks
  /\ rq \subseteq Socks /\ rp \subseteq Socks /\ rr \subseteq Socks /\ todo \subseteq Socks
  /\ tpc \in {"scan", "select", "accept", "drain", "proc", "respond"}
  /\ rpc \in {"scan", "select", "replies", "socks"}
  /\ packets \in Seq(Ops)
  /\ abort \in {"no", "drain", "local"}

\* "only to ensure that the fd is not current in the tx select": while the tx
\* thread selects on or is about to drain a sock, and while the rx thread
\* selects on one or is about to visit it, its descriptor is not closed; and
\* what the tx thread is about to drain still has something to be drained
\* (assert(sock_is_buffering(sock)) of buffer_drain).
SelectedFdOpen ==
  /\ tpc \in {"select", "accept", "drain"} => \A s \in tq : sk[s].fd
  /\ rpc \in {"select", "replies", "socks"} => \A s \in rq \cup rp : sk[s].fd
  /\ abort # "drain"

(* The inductive invariant of the proof.                                   *)

\* A sock that is to be drained has buffered bytes, and its SHUT_RD is not
\* done: only the tx thread would empty the buffer otherwise.
Buffering(T) ==
  \A s \in T : sk[s].st = "CONNECTED" => sock_is_buffering(sk[s]) /\ "RX" \notin sk[s].lsh

\* The descriptor of a sock that is not FREE is open, and such a sock cannot
\* be allocated.
UsedIsOpen == \A s \in Socks : sk[s].st # "FREE" => sk[s].fd /\ s \in inuse

\* What is buffered has not been acknowledged.
BufferedUnacked == \A s \in Socks : sk[s].buf <= sk[s].unack

\* What the tx thread has chosen is closed by nobody but itself: the rx
\* thread leaves a sock in CLOSING_TX, and only the scan goes on from there.
TxChosen ==
  /\ tpc \in {"select", "accept", "drain"} =>
       \A s \in tq : sk[s].st \in {"CONNECTED", "CLOSING_TX"}
  /\ tpc \in {"select", "accept"} => Buffering(tq)
  /\ tpc \in {"accept", "drain"} => tw \subseteq tq
  /\ tpc = "drain" => Buffering(tw)

\* What the rx thread has chosen stays open until its own next scan.
RxChosen ==
  /\ rpc \in {"select", "replies", "socks"} =>
       \A s \in rq \cup rp : sk[s].st \in {"CONNECTED", "CLOSING_TX", "CLOSING_RX"}
  /\ rpc = "socks" => todo \subseteq rq

SockInv == SockTypeOK /\ UsedIsOpen /\ BufferedUnacked /\ TxChosen /\ RxChosen /\ abort # "drain"

\* A reply that is queued for the guest reaches it, if the guest supplies
\* descriptors: no kick of the rx thread is lost.
RepliesDelivered == [](reply # <<>> => <>(reply = <<>>))

(* Statements of the source that the code does not keep.                   *)

\* "Set state to CLOSING_TX and kick the tx thread.  Then the following will
\* happen: ... set state == FREE".  It is asked only when the host goes on
\* reading, the guest stops sending and no assertion fails.
ClosingLeadsToFree ==
  \A s \in Socks :
    <>[](sk[s].out = "ok" /\ packets = <<>> /\ abort = "no")
      => (sk[s].st = "CLOSING_TX" ~> sk[s].st = "FREE")

\* assert(s->local_shutdown != VIRTIO_VSOCK_FLAG_SHUTDOWN_ALL).
NoAssert == abort = "no"

\* "We sent either an OP_RW or an OP_SHUTDOWN in proc_rx": when no credit
\* update is required, the guest has been sent the current fwd_cnt.
CreditAnnounced ==
  \A s \in Socks : sk[s].st = "CONNECTED" /\ ~sk[s].told => sk[s].credit

\* "We do not update fwd_cnt until we drain the _whole_ buffer": what is
\* accepted and not in fwd_cnt is in the buffer.
CreditConserved == \A s \in Socks : sk[s].st = "CONNECTED" => sk[s].unack = sk[s].buf

\* "Either on softc->free_list or softc->inuse_list": a FREE sock can be
\* allocated again.
FreeOnFreeList == \A s \in inuse : sk[s].st # "FREE"
=============================================================================
