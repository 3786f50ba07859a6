------------------------------ MODULE Callout ------------------------------
(***************************************************************************)
(* The timer service of vmm_callout.c: one thread that waits for the       *)
(* callout with the nearest timeout and calls its handler, and the device  *)
(* models (vlapic, vhpet, vatpit, vrtc) that arm, stop and drain callouts. *)
(*                                                                         *)
(* callout_mtx makes every operation of a client atomic; the thread gives  *)
(* it up while it waits and while a handler runs.  A handler runs under    *)
(* the lock of its device, which also covers that device's calls here.     *)
(* Time is mach_absolute_time(), counted up to MaxTime.                    *)
(***************************************************************************)
EXTENDS Integers, Sequences, SequencesExt, FiniteSets

CONSTANTS Callouts,   \* the callouts of the device models
          MaxTime,    \* bound on time and on timeouts
          MinDelay,   \* how far ahead a device arms at least
          Drains,     \* TRUE when callouts are drained (vm_destroy)
          NoCallout   \* the thread has not looked at a callout yet

ASSUME MaxTimeAssumption == MaxTime \in Nat
ASSUME MinDelayAssumption == MinDelay \in Nat
ASSUME DrainsAssumption == Drains \in BOOLEAN
ASSUME NoCalloutAssumption == NoCallout \notin Callouts

VARIABLES
  now,
  timeout,    \* c->timeout
  flags,      \* c->flags: subset of ACTIVE, PENDING, COMPLETED, WAITING
  queue,      \* callout_queue
  work,
  pc,         \* where the callout thread is
  cur,        \* its variable c
  deadline,   \* end of its timed wait
  sig,        \* callout_cnd was signalled while it waits
  client,     \* per callout: its device is "up", "draining" it or "down"
  armed,      \* per callout: armed and neither stopped nor fired since
  fired       \* per callout: how its last firing came about

vars == <<now, timeout, flags, queue, work, pc, cur, deadline, sig, client,
          armed, fired>>

Queued(c) == \E i \in DOMAIN queue : queue[i] = c

Init ==
  /\ now = 0
  /\ timeout = [c \in Callouts |-> 0]
  /\ flags = [c \in Callouts |-> {}]
  /\ queue = <<>>
  /\ work = FALSE
  /\ pc = "top" /\ cur = NoCallout /\ deadline = 0 /\ sig = FALSE
  /\ client = [c \in Callouts |-> "up"]
  /\ armed = [c \in Callouts |-> FALSE]
  /\ fired = [c \in Callouts |-> "never"]

-----------------------------------------------------------------------------
(* The queue.                                                              *)

\* callout_insert: before the first callout with a later timeout.
callout_insert(q, c, t) ==
  LET later == {i \in DOMAIN q : t[c] < t[q[i]]}
      k == IF later = {} THEN Len(q) + 1
           ELSE CHOOSE i \in later : \A j \in later : i <= j
  IN InsertAt(q, k, c)

\* callout_remove: a callout that is linked is unlinked.
callout_remove(q, c) ==
  IF \E i \in DOMAIN q : q[i] = c
  THEN RemoveAt(q, CHOOSE i \in DOMAIN q : q[i] = c)
  ELSE q

\* pthread_cond_signal(&callout_cnd): it reaches the thread when that waits.
SignalThread == sig' = (sig \/ pc \in {"idle", "sleep"})

-----------------------------------------------------------------------------
(* Clients.                                                                *)

\* Mutant: a callout that becomes the nearest one does not set `work'.
ResetNoWork(c, t) ==
  /\ timeout' = [timeout EXCEPT ![c] = t]
  /\ flags' = [flags EXCEPT ![c] = {"ACTIVE", "PENDING"}]
  /\ queue' = callout_insert(callout_remove(queue, c), c, timeout')
  /\ UNCHANGED <<work, sig>>

\* The body of callout_reset_sbt, with the callout_stop_safe_locked it calls.
callout_reset_sbt(c, t) ==
  /\ timeout' = [timeout EXCEPT ![c] = t]
  /\ flags' = [flags EXCEPT ![c] = {"ACTIVE", "PENDING"}]
  /\ queue' = callout_insert(callout_remove(queue, c), c, timeout')
  /\ IF Head(queue') = c
     THEN work' = TRUE /\ SignalThread
     ELSE UNCHANGED <<work, sig>>

\* A device arms or re-arms its callout for a time to come.
Arm(c) ==
  /\ client[c] = "up"
  /\ pc # "abort"
  /\ \E t \in now + MinDelay .. MaxTime : callout_reset_sbt(c, t)
  /\ armed' = [armed EXCEPT ![c] = TRUE]
  /\ UNCHANGED <<now, pc, cur, deadline, client, fired>>

\* Mutant: a callout that is stopped stays linked.
StopStaysQueued(c) == flags' = [flags EXCEPT ![c] = {}] /\ UNCHANGED queue

\* The end of callout_stop_safe_locked.
StopLocked(c) ==
  /\ queue' = callout_remove(queue, c)
  /\ flags' = [flags EXCEPT ![c] = {}]

\* callout_stop: callout_stop_safe(c, 0).
Stop(c) ==
  /\ client[c] = "up"
  /\ pc # "abort"
  /\ StopLocked(c)
  /\ armed' = [armed EXCEPT ![c] = FALSE]
  /\ UNCHANGED <<now, timeout, work, pc, cur, deadline, sig, client, fired>>

\* Whether callout_stop_safe_locked waits for the callout.
MustWait(c) ==
  \/ "PENDING" \in flags[c]
  \/ "ACTIVE" \in flags[c] /\ "COMPLETED" \notin flags[c]

\* callout_drain: callout_stop_safe(c, 1), from the cleanup of a device.
Drain(c) ==
  /\ Drains
  /\ client[c] = "up"
  /\ pc # "abort"
  /\ IF MustWait(c)
     THEN /\ flags' = [flags EXCEPT ![c] = @ \cup {"WAITING"}]
          /\ work' = TRUE
          /\ SignalThread
          /\ client' = [client EXCEPT ![c] = "draining"]
          /\ UNCHANGED <<queue, armed>>
     ELSE /\ StopLocked(c)
          /\ client' = [client EXCEPT ![c] = "down"]
          /\ armed' = [armed EXCEPT ![c] = FALSE]
          /\ UNCHANGED <<work, sig>>
  /\ UNCHANGED <<now, timeout, pc, cur, deadline, fired>>

\* pthread_cond_wait(&c->wait) returns.  No code signals that condition
\* variable: only a spurious wakeup makes the loop see COMPLETED.
DrainReturn(c) ==
  /\ client[c] = "draining"
  /\ "COMPLETED" \in flags[c]
  /\ StopLocked(c)
  /\ client' = [client EXCEPT ![c] = "down"]
  /\ armed' = [armed EXCEPT ![c] = FALSE]
  /\ UNCHANGED <<now, timeout, work, pc, cur, deadline, sig, fired>>

-----------------------------------------------------------------------------
(* The callout thread.                                                     *)

\* "dispatch": the callout is no longer pending, the mutex is released.
Dispatch(c) ==
  /\ flags' = [flags EXCEPT ![c] = @ \ {"PENDING"}]
  /\ pc' = "handler"

\* The loop of callout_thread_func up to its wait.
Top ==
  /\ pc = "top"
  /\ \/ /\ queue = <<>>
        /\ pc' = "idle"
        /\ UNCHANGED <<flags, work, cur, deadline>>
     \/ /\ queue # <<>>
        /\ cur' = Head(queue)
        /\ IF flags[Head(queue)] \cap {"ACTIVE", "PENDING"} = {}
           THEN pc' = "abort" /\ UNCHANGED <<flags, work, deadline>>
           ELSE \/ work /\ work' = FALSE /\ UNCHANGED <<pc, flags, deadline>>
                \/ /\ ~work /\ now >= timeout[Head(queue)]
                   /\ Dispatch(Head(queue))
                   /\ UNCHANGED <<work, deadline>>
                \/ /\ ~work /\ now < timeout[Head(queue)]
                   /\ deadline' = timeout[Head(queue)]
                   /\ pc' = "sleep"
                   /\ UNCHANGED <<flags, work>>
  /\ UNCHANGED <<now, timeout, queue, sig, client, armed, fired>>

\* pthread_cond_wait returns with work to look at.
IdleWake ==
  /\ pc = "idle" /\ sig
  /\ sig' = FALSE
  /\ pc' = "top"
  /\ UNCHANGED <<now, timeout, flags, queue, work, cur, deadline, client,
                 armed, fired>>

\* A wait may also return unasked, and the signal of callout_reset_sbt, sent
\* after the unlock, may come when `work' has been seen.
SpuriousWake ==
  /\ pc \in {"idle", "sleep"} /\ ~sig
  /\ sig' = TRUE
  /\ UNCHANGED <<now, timeout, flags, queue, work, pc, cur, deadline, client,
                 armed, fired>>

\* The timed wait returns ETIMEDOUT.
Timeout ==
  /\ pc = "sleep" /\ now >= deadline
  /\ sig' = FALSE
  /\ work' = FALSE
  /\ IF Queued(cur)
     THEN Dispatch(cur)
     ELSE pc' = "top" /\ UNCHANGED flags
  /\ UNCHANGED <<now, timeout, queue, cur, deadline, client, armed, fired>>

\* The timed wait returns 0: start over when there is work, else wait again.
SleepWake ==
  /\ pc = "sleep" /\ sig
  /\ sig' = FALSE
  /\ work' = FALSE
  /\ \/ /\ work
        /\ pc' = "top"
        /\ UNCHANGED <<flags, deadline>>
     \/ /\ ~work /\ now < timeout[cur]
        /\ deadline' = timeout[cur]
        /\ UNCHANGED <<pc, flags>>
     \/ /\ ~work /\ now >= timeout[cur]
        /\ IF Queued(cur)
           THEN Dispatch(cur)
           ELSE pc' = "top" /\ UNCHANGED flags
        /\ UNCHANGED deadline
  /\ UNCHANGED <<now, timeout, queue, cur, client, armed, fired>>

\* Mutant: the handler fires without looking whether it was stopped.
IgnoresStop(c) == "PENDING" \notin flags[c]

\* vlapic_callout_handler and its kin: "callout was reset", "callout was
\* stopped".
MayFire(c) == "PENDING" \notin flags[c] /\ "ACTIVE" \in flags[c]

FiredAs(c) == IF ~armed[c] THEN "stopped"
              ELSE IF now < timeout[c] THEN "early" ELSE "due"

\* The handler, under the lock of the device: it fires, and a periodic timer
\* arms itself again.
Handler ==
  /\ pc = "handler"
  /\ pc' = "after"
  /\ IF MayFire(cur)
     THEN /\ fired' = [fired EXCEPT ![cur] = FiredAs(cur)]
          /\ \/ /\ flags' = [flags EXCEPT ![cur] = @ \ {"ACTIVE"}]
                /\ armed' = [armed EXCEPT ![cur] = FALSE]
                /\ UNCHANGED <<timeout, queue, work, sig>>
             \/ /\ \E t \in now + MinDelay .. MaxTime : callout_reset_sbt(cur, t)
                /\ armed' = [armed EXCEPT ![cur] = TRUE]
     ELSE UNCHANGED <<fired, armed, flags, timeout, queue, work, sig>>
  /\ UNCHANGED <<now, cur, deadline, client>>

\* After the handler: remove the callout unless it has been rescheduled.
After ==
  /\ pc = "after"
  /\ pc' = "top"
  /\ IF Queued(cur) /\ ("PENDING" \notin flags[cur] \/ "WAITING" \in flags[cur])
     THEN /\ flags' = [flags EXCEPT ![cur] = @ \cup {"COMPLETED"}]
          /\ queue' = callout_remove(queue, cur)
     ELSE UNCHANGED <<flags, queue>>
  /\ UNCHANGED <<now, timeout, work, cur, deadline, sig, client, armed, fired>>

Tick ==
  /\ now < MaxTime
  /\ now' = now + 1
  /\ UNCHANGED <<timeout, flags, queue, work, pc, cur, deadline, sig, client,
                 armed, fired>>

-----------------------------------------------------------------------------
ThreadStep == Top \/ IdleWake \/ Timeout \/ SleepWake \/ Handler \/ After

Next ==
  \/ \E c \in Callouts : Arm(c) \/ Stop(c) \/ Drain(c) \/ DrainReturn(c)
  \/ ThreadStep
  \/ SpuriousWake
  \/ Tick

Spec == Init /\ [][Next]_vars

\* The thread is scheduled and time passes; a condition variable nobody
\* signals need not wake its waiter.
FairSpec == Spec /\ WF_vars(ThreadStep) /\ WF_vars(Tick)

-----------------------------------------------------------------------------
\* The values each part of the timer service can hold; timeouts are absolute
\* instants.
TypeOK ==
  /\ now \in 0 .. MaxTime
  /\ timeout \in [Callouts -> 0 .. MaxTime]
  /\ flags \in [Callouts -> SUBSET {"ACTIVE", "PENDING", "COMPLETED", "WAITING"}]
  /\ queue \in Seq(Callouts)
  /\ work \in BOOLEAN /\ sig \in BOOLEAN
  /\ pc \in {"top", "idle", "sleep", "handler", "after", "abort"}
  /\ cur \in Callouts \cup {NoCallout}
  /\ deadline \in 0 .. MaxTime
  /\ client \in [Callouts -> {"up", "draining", "down"}]
  /\ armed \in [Callouts -> BOOLEAN]
  /\ fired \in [Callouts -> {"never", "due", "early", "stopped"}]

\* The queue holds no callout twice and is sorted by timeout, although
\* re-arming changes c->timeout while the callout is still linked: "get the
\* callout with the nearest timout" takes its head.
QueueSorted ==
  \A i, j \in DOMAIN queue : i < j =>
    queue[i] # queue[j] /\ timeout[queue[i]] <= timeout[queue[j]]

\* The thread never finds a queued callout that is neither active nor pending
\* (its abort()): clients and handlers only leave such flags on a callout
\* that is out of the queue, or that the thread is about to remove.
NoAbort == pc # "abort"

\* The queue is in order and holds nothing the thread would abort for, although
\* devices arm callouts that are linked, and stop and drain them at any point.
QueueSound == QueueSorted /\ NoAbort

\* A callout that was stopped does not fire, also when the stop falls between
\* the dispatch and the handler: vhpet and vlapic rely on it to reprogram.
StoppedNeverFires == \A c \in Callouts : fired[c] # "stopped"

\* What keeps a callout from being forgotten: while it is pending it is in
\* the queue, or the drain that waits for it has been answered, and the thread
\* does not wait for work beside a queue that has some.
WorkIsSeen ==
  /\ \A c \in Callouts : "PENDING" \in flags[c] => Queued(c) \/ "COMPLETED" \in flags[c]
  /\ pc = "idle" /\ queue # <<>> => sig

\* A callout that waits for its timeout is not forgotten: it is dispatched,
\* re-armed or stopped in the end, whichever callouts are armed around it and
\* whatever the thread was doing when it was armed.
PendingLeadsToDispatch ==
  \A c \in Callouts : "PENDING" \in flags[c] ~>
                      ("PENDING" \notin flags[c] \/ client[c] # "up")

-----------------------------------------------------------------------------
(* The inductive invariant.                                                *)

\* The callout the thread deals with.
CurKnown == pc \in {"sleep", "handler", "after"} => cur \in Callouts

\* A queued callout is active, but for the one whose handler has just fired.
QueuedActive ==
  \A c \in Callouts : Queued(c) =>
    "ACTIVE" \in flags[c] \/ (pc = "after" /\ cur = c /\ "PENDING" \notin flags[c])

\* An active callout has been armed and neither stopped nor fired since.
ActiveArmed == \A c \in Callouts : "ACTIVE" \in flags[c] => armed[c]

CalloutInv ==
  /\ TypeOK /\ QueueSorted /\ NoAbort /\ StoppedNeverFires /\ WorkIsSeen
  /\ CurKnown /\ QueuedActive /\ ActiveArmed

-----------------------------------------------------------------------------
(* Statements of the source that the code does not keep.                   *)

\* "wait for timeout": a callout is not called before its timeout.
NeverEarly == \A c \in Callouts : fired[c] # "early"
=============================================================================
