------------------------------- MODULE Mevent -------------------------------
(***************************************************************************)
(* The event library (mevent.c): one thread, which is the main thread once *)
(* the machine has been started, applies the changes that other threads    *)
(* asked for to a kqueue, waits for events and calls their handlers.  The  *)
(* state of the library is a record, q, that the devices with events share.*)
(*                                                                         *)
(* An event is named by the descriptor, or the signal, that it is about;   *)
(* there is at most one struct mevent for each.                            *)
(***************************************************************************)
EXTENDS Integers, Sequences, SequencesExt

\* ev: the struct mevent of each event, "none" when there is none; change:
\* change_head, the last one inserted first; kq: what the kernel has of each
\* event; pipe: a byte is in the pipe; hot: events that kevent has returned.
\* Until the thread is in mevent_dispatch, pc is "start".
MeventInit(Events) ==
  [ev |-> [e \in Events |-> "none"], kq |-> [e \in Events |-> "none"], change |-> <<>>,
   pipe |-> FALSE, pc |-> "start", hot |-> {}]

\* mevent_notify, from a thread that is not the mevent thread.
mevent_notify(q) == [q EXCEPT !.pipe = (q.pc # "start")]

InsertChange(q, e, state, self) ==
  LET p == [q EXCEPT !.ev[e] = state,
                     !.change = IF Contains(@, e) THEN @ ELSE <<e>> \o @]
  IN IF self \/ Contains(q.change, e) THEN p ELSE mevent_notify(p)

\* "Verify that the fd/type tuple is not present in any list": if it is,
\* nothing happens and NULL is returned.
mevent_add(q, e) == IF q.ev[e] # "none" THEN q ELSE InsertChange(q, e, "ADD", FALSE)

\* mevent_enable and mevent_disable; self: called by the mevent thread.
mevent_update(q, e, new, self) ==
  IF q.ev[e] \in {"DEL_PENDING", new} THEN q ELSE InsertChange(q, e, new, self)

mevent_delete(q, e) == InsertChange(q, e, "DEL_PENDING", FALSE)

\* kevent with a change list and no room for errors: the first change that
\* fails (of an event that is not there) ends the call.
KqueueApply(q) ==
  LET Apply(e) == CASE q.ev[e] \in {"ADD", "ENABLE"} -> "on"
                    [] q.ev[e] = "DISABLE" -> "off"
                    [] q.ev[e] = "DEL_PENDING" -> "none"
      Fails(i) == q.kq[q.change[i]] = "none" /\ q.ev[q.change[i]] # "ADD"
      done == {i \in DOMAIN q.change : \A j \in 1 .. i : ~Fails(j)}
  IN [e \in DOMAIN q.kq |-> IF \E i \in done : q.change[i] = e THEN Apply(e) ELSE q.kq[e]]

\* One round of mevent_dispatch up to the wait: mevent_build and kevent.
Build(q) ==
  [q EXCEPT !.kq = KqueueApply(q), !.change = <<>>, !.pc = "wait",
            !.ev = [e \in DOMAIN q.ev |-> IF q.ev[e] = "DEL_PENDING" /\ Contains(q.change, e)
                                          THEN "none" ELSE q.ev[e]]]

CanBuild(q) == q.pc \in {"start", "build"}

\* kevent returns: the events that are ready and enabled, and the pipe.
Fired(q, ready) == {e \in ready : q.kq[e] = "on"} \cup (IF q.pipe THEN {"pipe"} ELSE {})
CanWake(q, ready) == q.pc = "wait" /\ Fired(q, ready) # {}
Wake(q, ready) == [q EXCEPT !.pc = "handle", !.hot = Fired(q, ready)]

\* mevent_handle takes one event off the list; mevent_pipe_read for the pipe.
Handled(q, e) ==
  [q EXCEPT !.hot = @ \ {e}, !.pc = IF q.hot = {e} THEN "build" ELSE "handle",
            !.pipe = IF e = "pipe" THEN FALSE ELSE @]

\* The thread sleeps and nothing has been left for it to do.
Settled(q) == q.pc = "wait" /\ ~q.pipe
=============================================================================
