--------------------------- MODULE HttpAdmission ---------------------------
(***************************************************************************)
(* The HTTP serve layer's class-aware admission gate: struct Admission and *)
(* AdmissionGuard of hipfire-cli/src/main.rs, with the request threads     *)
(* that go through it (handle_http) and the one-retry driver that goes     *)
(* through it again (complete_request).                                    *)
(*                                                                         *)
(* One thread serves one request.  Every critical section of the gate's    *)
(* mutex is one action.  A thread in the condition variable's wait is      *)
(* "asleep" until a notification (or nothing at all: condition variables   *)
(* wake spuriously) makes it "awake"; an awake thread still has to win the *)
(* mutex before it looks at the state again.  Time is left out: a wait may *)
(* time out at any moment when the configured timeout is not zero.         *)
(***************************************************************************)
EXTENDS Integers, FiniteSets

CONSTANTS
  Threads,      \* request threads
  Models,       \* model names requests carry
  NoModel,      \* Option::None
  ModelOf,      \* [Threads -> Models \cup {NoModel}]: the request's "model"
  MayBatch,     \* threads whose request has the shape that may share a batch
  BatchCapable, \* values runtime.continuous_batch_capable may be read with
  Capacity,     \* Admission::capacity, after .max(1)
  MaxQueue,     \* Admission::max_queue; 0 is unbounded
  TimesOut,     \* Admission::timeout is not zero
  RetryEnabled  \* ServeShared::retry_enabled

ASSUME AdmissionAssumption ==
  /\ IsFiniteSet(Threads)
  /\ NoModel \notin Models
  /\ ModelOf \in [Threads -> Models \cup {NoModel}]
  /\ MayBatch \subseteq Threads
  /\ BatchCapable \subseteq BOOLEAN
  /\ Capacity \in Nat \ {0}
  /\ MaxQueue \in Nat
  /\ TimesOut \in BOOLEAN /\ RetryEnabled \in BOOLEAN

VARIABLES
  eligible, ineligible_busy, queued, batch_model,  \* AdmissionState
  pc,       \* where each request thread is
  req,      \* the class and model it asked with
  attempt   \* attempt_index of complete_request

state == << eligible, ineligible_busy, queued, batch_model >>
vars == << state, pc, req, attempt >>

Class == [is_eligible : BOOLEAN, model : Models \cup {NoModel}]
Exclusive == [is_eligible |-> FALSE, model |-> NoModel]

\* How handle_http classes the request: by its shape, and by what the daemon's
\* runtime said of itself, read under another lock before the gate is entered.
is_batch_eligible_request(t) ==
  {IF capable /\ t \in MayBatch
   THEN [is_eligible |-> TRUE, model |-> ModelOf[t]] ELSE Exclusive :
     capable \in BatchCapable}

is_model_compatible(current, requested) ==
  current = NoModel \/ requested = NoModel \/ current = requested

\* Mutant of can_acquire: a shared request does not look for an exclusive holder.
can_acquire_beside_exclusive(r) ==
  IF r.is_eligible
  THEN eligible < Capacity /\ is_model_compatible(batch_model, r.model)
  ELSE eligible = 0 /\ ~ ineligible_busy

can_acquire(r) ==
  IF r.is_eligible
  THEN /\ ~ ineligible_busy
       /\ eligible < Capacity
       /\ is_model_compatible(batch_model, r.model)
  ELSE eligible = 0 /\ ~ ineligible_busy

saturating_dec(n) == IF n = 0 THEN 0 ELSE n - 1

-----------------------------------------------------------------------------
Init ==
  /\ eligible = 0 /\ ineligible_busy = FALSE /\ queued = 0 /\ batch_model = NoModel
  /\ pc = [t \in Threads |-> "new"]
  /\ req = [t \in Threads |-> Exclusive]
  /\ attempt = [t \in Threads |-> 1]

\* The guard is built: the thread holds the backend.
Grant(t, r) ==
  /\ IF r.is_eligible
     THEN /\ eligible' = eligible + 1
          /\ batch_model' = IF batch_model = NoModel THEN r.model ELSE batch_model
          /\ UNCHANGED ineligible_busy
     ELSE /\ ineligible_busy' = TRUE
          /\ UNCHANGED << eligible, batch_model >>
  /\ pc' = [pc EXCEPT ![t] = "holding"]

Refuse(t) ==
  /\ pc' = [pc EXCEPT ![t] = "refused"]
  /\ UNCHANGED << eligible, ineligible_busy, batch_model >>

\* acquire_for up to its first wait.  A thread goes to sleep without asking
\* again whether it could acquire.
acquire_for(t, r) ==
  /\ req' = [req EXCEPT ![t] = r]
  /\ IF can_acquire(r) /\ queued = 0
     THEN Grant(t, r) /\ UNCHANGED queued
     ELSE IF MaxQueue # 0 /\ queued >= MaxQueue
     THEN Refuse(t) /\ UNCHANGED queued
     ELSE \/ /\ queued' = queued + 1
             /\ pc' = [pc EXCEPT ![t] = "asleep"]
             /\ UNCHANGED << eligible, ineligible_busy, batch_model >>
          \/ TimesOut /\ Refuse(t) /\ UNCHANGED queued  \* remaining is zero at once
  /\ UNCHANGED attempt

\* handle_http for /v1/chat/completions.
Handle(t) ==
  /\ pc[t] = "new"
  /\ \E r \in is_batch_eligible_request(t) : acquire_for(t, r)

\* complete_request after the backoff: the guard is re-acquired exclusively.
Retry(t) ==
  /\ pc[t] = "backoff"
  /\ acquire_for(t, Exclusive)

\* A notified waiter has the mutex again.
Recheck(t) ==
  /\ pc[t] = "awake"
  /\ IF can_acquire(req[t])
     THEN Grant(t, req[t]) /\ queued' = saturating_dec(queued)
     ELSE \/ /\ pc' = [pc EXCEPT ![t] = "asleep"]
             /\ UNCHANGED state
          \/ TimesOut /\ Refuse(t) /\ queued' = saturating_dec(queued)
  /\ UNCHANGED << req, attempt >>

\* Mutant of TimeOut: the waiter leaves and is still counted.
TimeOutKeepingPlace(t) ==
  /\ TimesOut
  /\ pc[t] \in {"asleep", "awake"}
  /\ ~ can_acquire(req[t]) /\ Refuse(t)
  /\ UNCHANGED << queued, req, attempt >>

\* Mutant of TimeOut: the waiter gives up without looking at the gate again.
TimeOutAtOnce(t) ==
  /\ TimesOut
  /\ pc[t] \in {"asleep", "awake"}
  /\ Refuse(t)
  /\ queued' = saturating_dec(queued)
  /\ UNCHANGED << req, attempt >>

\* wait_timeout returned timed_out, notified in the meantime or not.
TimeOut(t) ==
  /\ TimesOut
  /\ pc[t] \in {"asleep", "awake"}
  /\ IF can_acquire(req[t]) THEN Grant(t, req[t]) ELSE Refuse(t)
  /\ queued' = saturating_dec(queued)
  /\ UNCHANGED << req, attempt >>

SpuriousWakeup(t) ==
  /\ pc[t] = "asleep"
  /\ pc' = [pc EXCEPT ![t] = "awake"]
  /\ UNCHANGED << state, req, attempt >>

\* Mutant of notify_all: only a shared holder notifies.
notify_if_shared(t, next) ==
  pc' = [u \in Threads |-> IF u = t THEN next
                           ELSE IF req[t].is_eligible /\ pc[u] = "asleep" THEN "awake"
                           ELSE pc[u]]

\* notify_all, and the thread itself goes on to `next`.
notify_all(t, next) ==
  pc' = [u \in Threads |-> IF u = t THEN next
                           ELSE IF pc[u] = "asleep" THEN "awake" ELSE pc[u]]

\* Mutant of lease_left: the model lease outlives its last holder.
lease_kept(n) == batch_model

\* The model lease while n shared holders are left.
lease_left(n) == IF n = 0 THEN NoModel ELSE batch_model

\* Mutant of may_retry: every attempt may be followed by another.
may_always_retry(t) == RetryEnabled

\* complete_request has one retry to spend.
may_retry(t) == RetryEnabled /\ attempt[t] = 1

\* Mutant of DropGuard: a retry turns the guard it has into an exclusive one.
UpgradeGuard(t) ==
  /\ pc[t] = "holding"
  /\ may_retry(t)
  /\ eligible' = IF req[t].is_eligible THEN saturating_dec(eligible) ELSE eligible
  /\ batch_model' = lease_left(eligible')
  /\ ineligible_busy' = TRUE
  /\ req' = [req EXCEPT ![t] = Exclusive]
  /\ attempt' = [attempt EXCEPT ![t] = @ + 1]
  /\ UNCHANGED << queued, pc >>

\* The guard is dropped at the end of an attempt: the request is over, or it
\* failed in a way that is retried once.
DropGuard(t) ==
  /\ pc[t] = "holding"
  /\ IF req[t].is_eligible
     THEN /\ eligible' = saturating_dec(eligible)
          /\ batch_model' = lease_left(eligible')
          /\ UNCHANGED ineligible_busy
     ELSE /\ ineligible_busy' = FALSE
          /\ UNCHANGED << eligible, batch_model >>
  /\ \/ notify_all(t, "done") /\ UNCHANGED attempt
     \/ /\ may_retry(t)
        /\ attempt' = [attempt EXCEPT ![t] = @ + 1]
        /\ notify_all(t, "backoff")
  /\ UNCHANGED << queued, req >>

Thread(t) == Handle(t) \/ Retry(t) \/ Recheck(t) \/ DropGuard(t)

Next == \E t \in Threads : Thread(t) \/ TimeOut(t) \/ SpuriousWakeup(t)

Spec == Init /\ [][Next]_vars

\* Every request thread is scheduled and every attempt ends; time-outs and
\* spurious wake-ups are not relied on.
FairSpec == Spec /\ \A t \in Threads : WF_vars(Thread(t))

inflight == eligible + (IF ineligible_busy THEN 1 ELSE 0) + queued

-----------------------------------------------------------------------------
(* Properties *)

Waiting == {t \in Threads : pc[t] \in {"asleep", "awake"}}
Holding == {t \in Threads : pc[t] = "holding"}
Shared == {t \in Holding : req[t].is_eligible}
Alone == {t \in Holding : ~ req[t].is_eligible}

Places == {"new", "asleep", "awake", "holding", "backoff", "done", "refused"}

\* Type invariant.
TypeOK ==
  /\ eligible \in Nat /\ queued \in Nat /\ ineligible_busy \in BOOLEAN
  /\ batch_model \in Models \cup {NoModel}
  /\ pc \in [Threads -> Places]
  /\ req \in [Threads -> Class]
  /\ attempt \in [Threads -> {1, 2}]

\* The counters are the threads: whatever was refused, timed out, retried or
\* woken in vain, `eligible`, `ineligible_busy` and `queued` count exactly the
\* guards alive and the threads waiting, so inflight() -- which the idle-unload
\* thread trusts -- misses nobody, and the queue keeps its bound.
CountersMatchThreads ==
  /\ eligible = Cardinality(Shared)
  /\ queued = Cardinality(Waiting)
  /\ ineligible_busy <=> Alone # {}
  /\ MaxQueue # 0 => queued <= MaxQueue

\* The gate as a lease on the backend: what thread t holds.
LeaseOf(t) ==
  IF pc[t] # "holding" THEN [class |-> "free", model |-> NoModel]
  ELSE [class |-> IF req[t].is_eligible THEN "shared" ELSE "exclusive",
        model |-> req[t].model]

LeaseFcn == [t \in Threads |-> LeaseOf(t)]

Lease == INSTANCE BackendLease WITH lease <- LeaseFcn

\* An exclusive holder is alone, shared holders are at most `capacity` and of one
\* model (admission_ineligible_is_exclusive and
\* admission_model_lease_prevents_cross_model_batch, for every interleaving).
BackendProtected == Lease!BackendProtected

\* Every step of the gate grants, gives back or leaves alone a lease.
ImplementsLease == Lease!Spec

\* No lost wake-up in acquire_for's wait loop: a thread sleeps only while someone
\* is going to notify it -- a holder, or a woken waiter that will become one --
\* although newcomers sleep without rechecking and a timed-out waiter leaves
\* without notifying.
NoLostWakeup ==
  (\E t \in Threads : pc[t] = "asleep") => \E t \in Threads : pc[t] \in {"awake", "holding"}

\* Who holds the backend, and what AdmissionState says of it.
HoldInv ==
  /\ eligible = Cardinality(Shared) /\ eligible <= Capacity
  /\ ineligible_busy <=> Alone # {}
  /\ \A t, u \in Alone : t = u
  /\ ineligible_busy => eligible = 0
  /\ eligible = 0 => batch_model = NoModel
  /\ \A t \in Shared : req[t].model \in {NoModel, batch_model}

QueueInv == queued = Cardinality(Waiting) /\ (MaxQueue # 0 => queued <= MaxQueue)

\* The inductive invariant of the gate: the counters, who may hold together with
\* whom, that an empty gate has no model lease left over (so that a woken waiter
\* can always take it), and that sleepers have someone to wake them.
GateInv ==
  /\ TypeOK
  /\ HoldInv
  /\ QueueInv
  /\ \A t \in Threads : req[t].is_eligible \/ req[t] = Exclusive
  /\ NoLostWakeup

\* With no queue timeout configured every request still gets through or is
\* refused: nobody waits for ever at the gate.
EveryThreadFinishes == \A t \in Threads : <>(pc[t] \in {"done", "refused"})
=============================================================================
