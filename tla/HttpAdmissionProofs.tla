------------------------ MODULE HttpAdmissionProofs ------------------------
(***************************************************************************)
(* Proofs about HttpAdmission for any number of threads and models and     *)
(* every capacity, queue bound and configuration.                          *)
(***************************************************************************)
EXTENDS HttpAdmission, FiniteSetTheorems, TLAPS

(* Sets of threads are finite, so that their cardinalities are numbers. *)
LEMMA ThreadSets ==
  ASSUME NEW S \in SUBSET Threads
  PROVE  IsFiniteSet(S) /\ Cardinality(S) \in Nat
  BY FS_Subset, FS_CardinalityType, AdmissionAssumption DEF AdmissionAssumption

(* One thread more in a set. *)
LEMMA OneMore ==
  ASSUME NEW S \in SUBSET Threads, NEW t \in Threads \ S
  PROVE  Cardinality(S \cup {t}) = Cardinality(S) + 1
  BY ThreadSets, FS_AddElement

(* One thread less in a set. *)
LEMMA OneLess ==
  ASSUME NEW S \in SUBSET Threads, NEW t \in S
  PROVE  Cardinality(S \ {t}) = Cardinality(S) - 1 /\ Cardinality(S) # 0
  <1>1. IsFiniteSet(S)
    BY ThreadSets
  <1>2. Cardinality(S \ {t}) = Cardinality(S) - 1
    BY <1>1, FS_RemoveElement
  <1>3. Cardinality(S) # 0
    BY <1>1, FS_EmptySet
  <1> QED BY <1>2, <1>3

(* Who asks, and with which class. *)
LEMMA ClassTypes ==
  /\ Exclusive \in Class
  /\ \A t \in Threads : \A r \in is_batch_eligible_request(t) :
       r \in Class /\ (r.is_eligible \/ r = Exclusive)
  <1>1. Exclusive \in Class
    BY DEF Exclusive, Class
  <1>2. ASSUME NEW t \in Threads, NEW r \in is_batch_eligible_request(t)
        PROVE  r \in Class /\ (r.is_eligible \/ r = Exclusive)
    <2>1. PICK capable \in BatchCapable :
            r = IF capable /\ t \in MayBatch
                THEN [is_eligible |-> TRUE, model |-> ModelOf[t]] ELSE Exclusive
      BY Zenon DEF is_batch_eligible_request
    <2>2. ModelOf[t] \in Models \cup {NoModel}
      BY AdmissionAssumption DEF AdmissionAssumption
    <2>3. CASE capable /\ t \in MayBatch
      BY <2>1, <2>2, <2>3 DEF Class
    <2>4. CASE ~ (capable /\ t \in MayBatch)
      BY <1>1, <2>1, <2>4
    <2> QED BY <2>3, <2>4
  <1> QED BY <1>1, <1>2

(* A thread that may acquire does: it joins the holders and nothing about  *)
(* who may hold together is broken (Grant, from acquire_for and the loop). *)
LEMMA GrantStep ==
  ASSUME TypeOK, HoldInv, NEW t \in Threads, NEW r \in Class,
         pc[t] # "holding", can_acquire(r), Grant(t, r),
         req' = [req EXCEPT ![t] = r]
  PROVE  HoldInv'
  <1> USE DEF TypeOK, HoldInv
  <1>1. Shared' = IF r.is_eligible THEN Shared \cup {t} ELSE Shared
    BY DEF Shared, Holding, Grant
  <1>2. Alone' = IF r.is_eligible THEN Alone ELSE Alone \cup {t}
    BY DEF Alone, Holding, Grant, Class
  <1>3. t \in Threads \ Shared /\ Shared \in SUBSET Threads
    BY DEF Shared, Holding
  <1>4. Cardinality(Shared \cup {t}) = Cardinality(Shared) + 1
    BY <1>3, OneMore
  <1>5. CASE r.is_eligible
    <2>1. \A u \in Shared : req'[u] = req[u]
      BY <1>3 DEF Shared, Holding
    <2>2. req'[t] = r
      OBVIOUS
    <2>3. batch_model' = (IF batch_model = NoModel THEN r.model ELSE batch_model)
      BY <1>5 DEF Grant
    <2>4. \A u \in Shared' : req'[u].model \in {NoModel, batch_model'}
      BY <1>1, <1>5, <2>1, <2>2, <2>3 DEF can_acquire, is_model_compatible
    <2>5. eligible' = Cardinality(Shared') /\ eligible' <= Capacity /\ eligible' # 0
      <3>1. Cardinality(Shared) \in Nat
        BY <1>3, ThreadSets
      <3>2. eligible' = eligible + 1 /\ eligible < Capacity
        BY <1>5 DEF Grant, can_acquire
      <3> QED BY <1>1, <1>4, <1>5, <3>1, <3>2, AdmissionAssumption DEF AdmissionAssumption
    <2>6. Alone' = Alone /\ ineligible_busy' = ineligible_busy /\ ~ ineligible_busy
      BY <1>2, <1>5 DEF Grant, can_acquire
    <2>7. \A u, v \in Alone' : u = v
      BY <2>6
    <2>8. ineligible_busy' <=> Alone' # {}
      BY <2>6
    <2> QED BY <2>4, <2>5, <2>6, <2>7, <2>8
  <1>6. CASE ~ r.is_eligible
    <2>1. eligible = 0 /\ ~ ineligible_busy
      BY <1>6 DEF can_acquire
    <2>2. Alone = {} /\ Alone' = {t}
      BY <1>2, <1>6, <2>1
    <2>3. eligible' = eligible /\ batch_model' = batch_model /\ ineligible_busy'
      BY <1>6 DEF Grant
    <2>4. Shared' = Shared
      BY <1>1, <1>6
    <2>5. \A u \in Shared : req'[u] = req[u]
      BY <1>3 DEF Shared, Holding
    <2> QED BY <2>1, <2>2, <2>3, <2>4, <2>5
  <1> QED BY <1>5, <1>6

(* A grant keeps the types of the gate. *)
LEMMA GrantTypes ==
  ASSUME TypeOK, NEW t \in Threads, NEW r \in Class, Grant(t, r)
  PROVE  /\ eligible' \in Nat /\ ineligible_busy' \in BOOLEAN
         /\ batch_model' \in Models \cup {NoModel}
         /\ pc' \in [Threads -> Places]
         /\ pc'[t] = "holding" /\ \A u \in Threads \ {t} : pc'[u] = pc[u]
  <1>1. r.model \in Models \cup {NoModel}
    BY DEF Class
  <1>2. CASE r.is_eligible
    BY <1>1, <1>2 DEF TypeOK, Grant, Places
  <1>3. CASE ~ r.is_eligible
    <2>1. ineligible_busy' = TRUE /\ eligible' = eligible /\ batch_model' = batch_model
      BY <1>3 DEF Grant
    <2> QED BY <2>1 DEF TypeOK, Grant, Places
  <1> QED BY <1>2, <1>3

(* Steps that leave the holders alone: sleeping, waking, being refused. *)
LEMMA SameHolders ==
  ASSUME HoldInv, NEW t \in Threads, TypeOK,
         pc[t] # "holding", Holding' = Holding,
         req' = req \/ \E r : req' = [req EXCEPT ![t] = r],
         UNCHANGED << eligible, ineligible_busy, batch_model >>
  PROVE  HoldInv'
  <1>1. \A u \in Holding : req'[u] = req[u]
    BY DEF TypeOK, Holding
  <1>2. Shared' = Shared /\ Alone' = Alone
    BY <1>1 DEF Shared, Alone
  <1>3. \A u \in Shared' : req'[u].model = req[u].model
    BY <1>1, <1>2 DEF Shared
  <1> QED BY <1>2, <1>3 DEF HoldInv
(* A dropped guard: one holder less; the last one takes the model lease    *)
(* with it (Drop for AdmissionGuard).                                      *)
LEMMA DropStep ==
  ASSUME TypeOK, HoldInv, NEW t \in Threads, DropGuard(t)
  PROVE  HoldInv'
  <1> USE DEF TypeOK, HoldInv
  <1>0. pc[t] = "holding" /\ req' = req
    BY DEF DropGuard
  <1>1. \A u \in Threads : pc'[u] = "holding" <=> pc[u] = "holding" /\ u # t
    BY DEF DropGuard, notify_all
  <1>2. Holding' = Holding \ {t}
    BY <1>1 DEF Holding
  <1>3. Shared \in SUBSET Threads
    BY DEF Shared, Holding
  <1>4. CASE req[t].is_eligible
    <2>1. t \in Shared
      BY <1>0, <1>4 DEF Shared, Holding
    <2>2. Shared' = Shared \ {t} /\ Alone' = Alone
      BY <1>0, <1>2, <1>4 DEF Shared, Alone
    <2>3. Cardinality(Shared') = Cardinality(Shared) - 1 /\ Cardinality(Shared) # 0
      BY <1>3, <2>1, <2>2, OneLess
    <2>4. eligible' = eligible - 1 /\ eligible # 0 /\ ineligible_busy' = ineligible_busy
      BY <1>4, <2>3 DEF DropGuard, lease_left, saturating_dec
    <2>5. eligible' = Cardinality(Shared') /\ eligible' <= Capacity
      BY <2>3, <2>4, AdmissionAssumption DEF AdmissionAssumption
    <2>6. eligible' = 0 => Shared' = {}
      BY <1>3, <2>2, <2>5, ThreadSets, FS_EmptySet
    <2>7. batch_model' = IF eligible' = 0 THEN NoModel ELSE batch_model
      BY <1>4 DEF DropGuard, lease_left
    <2>8. ~ ineligible_busy
      BY <2>4
    <2> QED BY <1>0, <2>2, <2>4, <2>5, <2>6, <2>7, <2>8
  <1>5. CASE ~ req[t].is_eligible
    <2>1. t \in Alone
      BY <1>0, <1>5 DEF Alone, Holding
    <2>2. Shared' = Shared /\ Alone' = Alone \ {t}
      BY <1>0, <1>2, <1>5 DEF Shared, Alone
    <2>3. Alone' = {}
      BY <2>1, <2>2
    <2>4. ineligible_busy' = FALSE /\ eligible' = eligible /\ batch_model' = batch_model
      BY <1>5 DEF DropGuard
    <2> QED BY <1>0, <2>2, <2>3, <2>4
  <1> QED BY <1>4, <1>5

(* A thread that finds nobody holding can acquire: a woken waiter is as    *)
(* good as a holder to those still asleep.                                 *)
LEMMA EmptyGateGrants ==
  ASSUME HoldInv, NEW r \in Class, Holding = {}
  PROVE  can_acquire(r)
  <1>1. Shared = {} /\ Alone = {}
    BY DEF Shared, Alone
  <1>2. eligible = 0
    BY <1>1, FS_EmptySet DEF HoldInv
  <1>3. ~ ineligible_busy /\ batch_model = NoModel
    BY <1>1, <1>2 DEF HoldInv
  <1> QED BY <1>2, <1>3, AdmissionAssumption
          DEF can_acquire, is_model_compatible, AdmissionAssumption

-----------------------------------------------------------------------------
(* The induction: one step per action. *)

(* An empty gate satisfies the inductive invariant. *)
LEMMA InitGate == Init => GateInv
  <1> SUFFICES ASSUME Init PROVE GateInv
    OBVIOUS
  <1>1. TypeOK
    BY ClassTypes DEF Init, TypeOK, Places
  <1>2. Holding = {} /\ Waiting = {} /\ Shared = {} /\ Alone = {}
    BY DEF Init, Holding, Waiting, Shared, Alone
  <1>3. HoldInv
    BY <1>2, FS_EmptySet, AdmissionAssumption DEF HoldInv, Init, AdmissionAssumption
  <1>4. QueueInv
    BY <1>2, FS_EmptySet, AdmissionAssumption DEF QueueInv, Init, AdmissionAssumption
  <1>5. NoLostWakeup /\ \A t \in Threads : req[t] = Exclusive
    BY DEF NoLostWakeup, Init
  <1> QED BY <1>1, <1>3, <1>4, <1>5 DEF GateInv

(* A thread that enters the gate: admitted at once, refused, or queued. *)
LEMMA AcquireStep ==
  ASSUME GateInv, NEW t \in Threads, NEW r \in Class,
         r.is_eligible \/ r = Exclusive,
         pc[t] \in {"new", "backoff"}, acquire_for(t, r)
  PROVE  GateInv'
  <1> USE DEF GateInv
  <1>0. Waiting \in SUBSET Threads /\ t \notin Waiting /\ pc \in [Threads -> Places]
    BY DEF Waiting, TypeOK
  <1>1. req' = [req EXCEPT ![t] = r] /\ attempt' = attempt
    BY DEF acquire_for
  <1>2. req' \in [Threads -> Class] /\ \A u \in Threads : req'[u].is_eligible \/ req'[u] = Exclusive
    BY <1>1 DEF TypeOK
  <1>3. CASE can_acquire(r) /\ queued = 0
    <2>1. Grant(t, r) /\ queued' = queued
      BY <1>3 DEF acquire_for
    <2>2. HoldInv'
      BY <1>0, <1>1, <1>3, <2>1, GrantStep
    <2>3. pc' = [pc EXCEPT ![t] = "holding"]
      BY <2>1 DEF Grant
    <2>4. Waiting' = Waiting
      BY <1>0, <2>3 DEF Waiting
    <2>5. TypeOK'
      BY <1>1, <1>2, <2>1, GrantTypes DEF TypeOK
    <2>6. NoLostWakeup'
      BY <1>0, <2>3 DEF NoLostWakeup
    <2>7. QueueInv'
      BY <2>1, <2>4 DEF QueueInv
    <2> QED BY <1>2, <2>2, <2>5, <2>6, <2>7
  <1>4. CASE Refuse(t) /\ queued' = queued
    <2>1. pc' = [pc EXCEPT ![t] = "refused"]
      BY <1>4 DEF Refuse
    <2>2. Holding' = Holding /\ Waiting' = Waiting
      BY <1>0, <2>1 DEF Holding, Waiting
    <2>3. HoldInv'
      BY <1>0, <1>1, <1>4, <2>2, SameHolders DEF Refuse
    <2>4. TypeOK'
      BY <1>1, <1>2, <1>4, <2>1 DEF TypeOK, Refuse, Places
    <2>5. NoLostWakeup'
      BY <1>0, <2>1 DEF NoLostWakeup
    <2>6. QueueInv'
      BY <1>4, <2>2 DEF QueueInv
    <2> QED BY <1>2, <2>3, <2>4, <2>5, <2>6
  <1>5. CASE /\ ~ (can_acquire(r) /\ queued = 0)
             /\ ~ (MaxQueue # 0 /\ queued >= MaxQueue)
             /\ queued' = queued + 1
             /\ pc' = [pc EXCEPT ![t] = "asleep"]
             /\ UNCHANGED << eligible, ineligible_busy, batch_model >>
    <2>1. Holding' = Holding /\ Waiting' = Waiting \cup {t}
      BY <1>0, <1>5 DEF Holding, Waiting
    <2>2. HoldInv'
      BY <1>0, <1>1, <1>5, <2>1, SameHolders
    <2>3. TypeOK'
      BY <1>1, <1>2, <1>5 DEF TypeOK, Places
    <2>4. QueueInv'
      BY <1>0, <1>5, <2>1, OneMore, AdmissionAssumption
      DEF QueueInv, TypeOK, AdmissionAssumption
    <2>5. Holding # {} \/ Waiting # {}
      <3>1. CASE queued # 0
        BY <3>1, FS_EmptySet DEF QueueInv
      <3>2. CASE queued = 0
        BY <1>5, <3>2, EmptyGateGrants
      <3> QED BY <3>1, <3>2
    <2>6. \E u \in Threads : pc[u] \in {"awake", "holding"}
      BY <2>5 DEF Holding, Waiting, NoLostWakeup
    <2>7. NoLostWakeup'
      BY <1>0, <1>5, <2>6 DEF NoLostWakeup
    <2> QED BY <1>2, <2>2, <2>3, <2>4, <2>7
  <1> QED BY <1>3, <1>4, <1>5 DEF acquire_for

(* A waiter that stops waiting, with a guard or without: woken or timed out. *)
LEMMA LeaveStep ==
  ASSUME GateInv, NEW t \in Threads, t \in Waiting,
         \/ can_acquire(req[t]) /\ Grant(t, req[t])
         \/ ~ can_acquire(req[t]) /\ Refuse(t),
         queued' = saturating_dec(queued), req' = req, attempt' = attempt
  PROVE  GateInv'
  <1> USE DEF GateInv
  <1>0. /\ Waiting \in SUBSET Threads /\ pc[t] # "holding"
        /\ pc \in [Threads -> Places] /\ req[t] \in Class
        /\ req' = [req EXCEPT ![t] = req[t]]
    BY DEF Waiting, TypeOK
  <1>1. queued' = queued - 1 /\ queued' \in Nat /\ queued' = Cardinality(Waiting \ {t})
    BY <1>0, OneLess, ThreadSets DEF QueueInv, TypeOK, saturating_dec
  <1>2. \A u \in Threads \ {t} : pc'[u] = pc[u]
    BY <1>0, GrantTypes DEF Refuse
  <1>3. pc'[t] \in {"holding", "refused"} /\ pc' \in [Threads -> Places]
    BY <1>0, GrantTypes DEF Refuse, TypeOK, Places
  <1>4. Waiting' = Waiting \ {t}
    BY <1>2, <1>3 DEF Waiting
  <1>5. QueueInv'
    BY <1>1, <1>4, AdmissionAssumption DEF QueueInv, TypeOK, AdmissionAssumption
  <1>6. CASE can_acquire(req[t]) /\ Grant(t, req[t])
    <2>1. HoldInv'
      BY <1>0, <1>6, GrantStep
    <2>2. TypeOK'
      BY <1>0, <1>1, <1>6, GrantTypes DEF TypeOK, Places
    <2>3. NoLostWakeup'
      BY <1>0, <1>6, GrantTypes DEF NoLostWakeup
    <2> QED BY <1>5, <2>1, <2>2, <2>3
  <1>7. CASE ~ can_acquire(req[t]) /\ Refuse(t)
    <2>1. pc'[t] = "refused"
      BY <1>0, <1>7 DEF Refuse
    <2>2. Holding' = Holding /\ Holding # {}
      BY <1>0, <1>2, <1>7, <2>1, EmptyGateGrants DEF Holding
    <2>3. HoldInv'
      BY <1>0, <1>7, <2>2, SameHolders DEF Refuse
    <2>4. TypeOK'
      BY <1>1, <1>3, <1>7 DEF TypeOK, Refuse, Places
    <2>5. NoLostWakeup'
      BY <2>2 DEF NoLostWakeup, Holding
    <2> QED BY <1>5, <2>3, <2>4, <2>5
  <1> QED BY <1>6, <1>7

(* A waiter that goes on waiting: back to sleep, or woken for nothing.  It *)
(* goes back to sleep only past a holder.                                  *)
LEMMA StayStep ==
  ASSUME GateInv, NEW t \in Threads, t \in Waiting, UNCHANGED << state, req, attempt >>,
         \/ pc' = [pc EXCEPT ![t] = "awake"]
         \/ pc' = [pc EXCEPT ![t] = "asleep"] /\ ~ can_acquire(req[t])
  PROVE  GateInv'
  <1> USE DEF GateInv
  <1>0. pc \in [Threads -> Places] /\ req[t] \in Class /\ pc[t] # "holding"
    BY DEF Waiting, TypeOK
  <1>1. Holding' = Holding /\ Waiting' = Waiting
    BY <1>0 DEF Holding, Waiting
  <1>2. HoldInv'
    BY <1>0, <1>1, SameHolders DEF state
  <1>3. TypeOK'
    BY <1>0 DEF TypeOK, state, Places
  <1>4. QueueInv'
    BY <1>1 DEF QueueInv, state
  <1>5. NoLostWakeup'
    <2>1. CASE pc' = [pc EXCEPT ![t] = "awake"]
      BY <1>0, <2>1 DEF NoLostWakeup
    <2>2. CASE ~ can_acquire(req[t])
      <3>1. Holding # {}
        BY <1>0, <2>2, EmptyGateGrants
      <3> QED BY <1>1, <3>1 DEF NoLostWakeup, Holding
    <2> QED BY <2>1, <2>2
  <1> QED BY <1>2, <1>3, <1>4, <1>5

(* A guard is dropped and every sleeper is woken. *)
LEMMA ReleaseStep ==
  ASSUME GateInv, NEW t \in Threads, DropGuard(t)
  PROVE  GateInv'
  <1> USE DEF GateInv
  <1>1. HoldInv'
    BY DropStep
  <1>2. PICK next \in {"done", "backoff"} : notify_all(t, next)
    BY DEF DropGuard
  <1>3. /\ pc[t] = "holding" /\ req' = req /\ queued' = queued
        /\ attempt' \in [Threads -> {1, 2}]
    BY DEF DropGuard, may_retry, TypeOK
  <1>4. /\ pc' \in [Threads -> Places]
        /\ \A u \in Threads : pc'[u] # "asleep"
        /\ \A u \in Threads : pc'[u] = "awake" <=> pc[u] \in {"asleep", "awake"}
    BY <1>2, <1>3 DEF notify_all, TypeOK, Places
  <1>5. eligible' \in Nat /\ ineligible_busy' \in BOOLEAN /\ batch_model' \in Models \cup {NoModel}
    <2>1. CASE req[t].is_eligible
      BY <2>1 DEF DropGuard, lease_left, TypeOK, saturating_dec
    <2>2. CASE ~ req[t].is_eligible
      <3>1. ineligible_busy' = FALSE /\ eligible' = eligible /\ batch_model' = batch_model
        BY <2>2 DEF DropGuard
      <3> QED BY <3>1 DEF TypeOK
    <2> QED BY <2>1, <2>2
  <1>6. TypeOK'
    BY <1>3, <1>4, <1>5 DEF TypeOK, Places
  <1>7. Waiting' = Waiting
    BY <1>4 DEF Waiting
  <1>8. QueueInv'
    BY <1>3, <1>7 DEF QueueInv
  <1>9. NoLostWakeup'
    BY <1>4 DEF NoLostWakeup
  <1> QED BY <1>1, <1>3, <1>6, <1>8, <1>9

(* Every step of every thread preserves the inductive invariant. *)
LEMMA NextGate == GateInv /\ [Next]_vars => GateInv'
  <1> SUFFICES ASSUME GateInv, [Next]_vars PROVE GateInv'
    OBVIOUS
  <1>1. CASE UNCHANGED vars
    BY <1>1 DEF vars, state, GateInv, TypeOK, HoldInv, QueueInv, NoLostWakeup,
                Shared, Alone, Holding, Waiting
  <1>2. ASSUME NEW t \in Threads, Handle(t) PROVE GateInv'
    BY <1>2, AcquireStep, ClassTypes DEF Handle
  <1>3. ASSUME NEW t \in Threads, Retry(t) PROVE GateInv'
    BY <1>3, AcquireStep, ClassTypes DEF Retry
  <1>4. ASSUME NEW t \in Threads, Recheck(t) PROVE GateInv'
    <2>1. t \in Waiting /\ req' = req /\ attempt' = attempt
      BY <1>4 DEF Recheck, Waiting
    <2>2. CASE can_acquire(req[t])
      BY <1>4, <2>1, <2>2, LeaveStep DEF Recheck
    <2>3. CASE ~ can_acquire(req[t]) /\ Refuse(t) /\ queued' = saturating_dec(queued)
      BY <2>1, <2>3, LeaveStep
    <2>4. CASE ~ can_acquire(req[t]) /\ pc' = [pc EXCEPT ![t] = "asleep"] /\ UNCHANGED state
      BY <2>1, <2>4, StayStep
    <2> QED BY <1>4, <2>2, <2>3, <2>4 DEF Recheck
  <1>5. ASSUME NEW t \in Threads, TimeOut(t) PROVE GateInv'
    <2>1. /\ t \in Waiting /\ req' = req /\ attempt' = attempt
          /\ queued' = saturating_dec(queued)
          /\ \/ can_acquire(req[t]) /\ Grant(t, req[t])
             \/ ~ can_acquire(req[t]) /\ Refuse(t)
      BY <1>5 DEF TimeOut, Waiting
    <2> QED BY <2>1, LeaveStep
  <1>6. ASSUME NEW t \in Threads, SpuriousWakeup(t) PROVE GateInv'
    BY <1>6, StayStep DEF SpuriousWakeup, Waiting
  <1>7. ASSUME NEW t \in Threads, DropGuard(t) PROVE GateInv'
    BY <1>7, ReleaseStep
  <1> QED BY <1>1, <1>2, <1>3, <1>4, <1>5, <1>6, <1>7 DEF Next, Thread

(* GateInv holds in every reachable state of the gate, whatever the number *)
(* of request threads and models and however the gate is configured.       *)
THEOREM GateInvariant == Spec => []GateInv
  BY InitGate, NextGate, PTL DEF Spec

(* The type invariant of AdmissionState and its threads. *)
THEOREM TypeCorrect == Spec => []TypeOK
  <1>1. GateInv => TypeOK
    BY DEF GateInv
  <1> QED BY <1>1, GateInvariant, PTL

(* The counters of AdmissionState count exactly the guards alive and the   *)
(* threads waiting, and the queue bound holds.                             *)
THEOREM CountersCorrect == Spec => []CountersMatchThreads
  <1>1. GateInv => CountersMatchThreads
    BY DEF GateInv, HoldInv, QueueInv, CountersMatchThreads
  <1> QED BY <1>1, GateInvariant, PTL

(* acquire_for's wait loop loses no wake-up. *)
THEOREM WakeupsNotLost == Spec => []NoLostWakeup
  <1>1. GateInv => NoLostWakeup
    BY DEF GateInv
  <1> QED BY <1>1, GateInvariant, PTL

-----------------------------------------------------------------------------
(* The gate implements BackendLease. *)

(* The lease specification counts as the gate does. *)
LEMMA SameCardinality == \A S : Lease!Cardinality(S) = Cardinality(S)
  BY Zenon DEF Lease!Cardinality, Cardinality

(* Who holds the lease: the threads that hold a guard. *)
LEMMA LeaseHolders ==
  /\ Lease!Holders = Holding
  /\ \A t \in Threads : LeaseFcn[t] = LeaseOf(t)
  /\ \A t \in Shared : LeaseOf(t) = [class |-> "shared", model |-> req[t].model]
  /\ \A t \in Alone : LeaseOf(t) = [class |-> "exclusive", model |-> req[t].model]
  /\ Holding = Shared \cup Alone
  <1>1. \A t \in Threads : LeaseOf(t) # [class |-> "free", model |-> NoModel]
                               <=> pc[t] = "holding"
    <2> SUFFICES ASSUME NEW t \in Threads
                 PROVE  LeaseOf(t) # [class |-> "free", model |-> NoModel]
                          <=> pc[t] = "holding"
      OBVIOUS
    <2>1. CASE pc[t] = "holding"
      <3>1. LeaseOf(t).class \in {"shared", "exclusive"}
        BY <2>1 DEF LeaseOf
      <3> QED BY <2>1, <3>1
    <2>2. CASE pc[t] # "holding"
      BY <2>2 DEF LeaseOf
    <2> QED BY <2>1, <2>2
  <1>2. Lease!Holders = Holding
    BY <1>1 DEF Lease!Holders, Lease!Free, Holding, LeaseFcn
  <1> QED BY <1>2 DEF LeaseFcn, LeaseOf, Shared, Alone, Holding

(* The number of holders, from the counters. *)
LEMMA HoldingBound ==
  ASSUME GateInv
  PROVE  /\ Cardinality(Holding) <= Capacity
         /\ Alone = {} => Cardinality(Holding) = eligible
         /\ Alone # {} => Shared = {}
  <1> USE DEF GateInv, HoldInv
  <1>1. Holding = Shared \cup Alone /\ Shared \in SUBSET Threads
    BY DEF Shared, Alone, Holding
  <1>2. CASE Alone = {}
    BY <1>1, <1>2
  <1>3. CASE Alone # {}
    <2>1. Shared = {}
      BY <1>1, <1>3, ThreadSets, FS_EmptySet
    <2>2. PICK t \in Alone : Alone = {t}
      BY <1>3
    <2>3. Holding = {t}
      BY <1>1, <2>1, <2>2
    <2>4. Cardinality(Holding) = 1
      BY <2>3, FS_Singleton
    <2> QED BY <1>3, <2>1, <2>4, AdmissionAssumption DEF AdmissionAssumption
  <1> QED BY <1>2, <1>3

(* An exclusive holder is alone, shared holders are at most `capacity` and *)
(* agree on the model, for every interleaving and configuration.           *)
THEOREM GateProtectsBackend == Spec => []BackendProtected
  <1>1. GateInv => BackendProtected
    <2> SUFFICES ASSUME GateInv PROVE BackendProtected
      OBVIOUS
    <2> USE DEF GateInv, HoldInv
    <2>1. ASSUME NEW t \in Holding, NEW u \in Holding, LeaseOf(t).class = "exclusive"
          PROVE  t = u
      <3>1. t \in Alone
        BY <2>1, LeaseHolders
      <3> QED BY <3>1, LeaseHolders, HoldingBound
    <2>2. ASSUME NEW t \in Holding, NEW u \in Holding
          PROVE  Lease!Agree(LeaseOf(t).model, LeaseOf(u).model)
      <3>1. LeaseOf(t).model = req[t].model /\ LeaseOf(u).model = req[u].model
        BY DEF LeaseOf, Holding
      <3>2. req[t].model \in {NoModel, batch_model} /\ req[u].model \in {NoModel, batch_model}
        BY LeaseHolders DEF Alone, Holding, Exclusive
      <3> QED BY <3>1, <3>2 DEF Lease!Agree
    <2>3. \A t \in Holding : LeaseFcn[t] = LeaseOf(t)
      BY DEF LeaseFcn, Holding
    <2>4. Lease!Holders = Holding
      BY LeaseHolders
    <2>5. \A t, u \in Lease!Holders : LeaseFcn[t].class = "exclusive" => t = u
      BY <2>1, <2>3, <2>4
    <2>6. \A t, u \in Lease!Holders : Lease!Agree(LeaseFcn[t].model, LeaseFcn[u].model)
      BY <2>2, <2>3, <2>4
    <2>7. Lease!Cardinality(Lease!Holders) <= Capacity
      BY <2>4, HoldingBound, SameCardinality
    <2> QED BY <2>5, <2>6, <2>7, Zenon DEF BackendProtected, Lease!BackendProtected
  <1> QED BY <1>1, GateInvariant, PTL

(* A grant by the gate is a grant of the lease. *)
LEMMA GrantIsLease ==
  ASSUME GateInv, NEW t \in Threads, NEW r \in Class, r.is_eligible \/ r = Exclusive,
         pc[t] # "holding", can_acquire(r), Grant(t, r), req' = [req EXCEPT ![t] = r]
  PROVE  Lease!Next
  <1> USE DEF GateInv, HoldInv
  <1>1. LeaseFcn' = [LeaseFcn EXCEPT ![t] =
                       [class |-> IF r.is_eligible THEN "shared" ELSE "exclusive",
                        model |-> r.model]]
    BY GrantTypes DEF LeaseFcn, LeaseOf, TypeOK
  <1>2. Lease!Holders = Holding /\ Holding = Shared \cup Alone
    BY LeaseHolders
  <1>3. CASE r.is_eligible
    <2>1. Alone = {} /\ Lease!Cardinality(Lease!Holders) < Capacity
      BY <1>2, <1>3, HoldingBound, SameCardinality DEF can_acquire
    <2>2. LeaseFcn[t] = Lease!Free
      BY DEF LeaseFcn, LeaseOf, Lease!Free
    <2>3. ASSUME NEW u \in Lease!Holders
          PROVE  LeaseFcn[u].class = "shared" /\ Lease!Agree(LeaseFcn[u].model, r.model)
      <3>1. u \in Shared /\ u \in Threads
        BY <1>2, <2>1 DEF Shared, Holding
      <3>2. LeaseFcn[u].class = "shared" /\ LeaseFcn[u].model = req[u].model
        BY <3>1, LeaseHolders
      <3> QED BY <1>3, <3>1, <3>2 DEF Lease!Agree, can_acquire, is_model_compatible
    <2>4. LeaseFcn' = [LeaseFcn EXCEPT ![t] = [class |-> "shared", model |-> r.model]]
      BY <1>1, <1>3
    <2>5. Lease!GrantShared(t, r.model)
      BY <2>1, <2>2, <2>3, <2>4 DEF Lease!GrantShared
    <2>6. r.model \in Models \cup {NoModel}
      BY DEF Class
    <2> QED BY <2>5, <2>6 DEF Lease!Next
  <1>4. CASE ~ r.is_eligible
    <2>1. Lease!Holders = {}
      BY <1>2, <1>4, ThreadSets, FS_EmptySet DEF can_acquire, Shared, Holding
    <2>2. r.model = NoModel
      BY <1>4 DEF Exclusive
    <2>3. LeaseFcn' = [LeaseFcn EXCEPT ![t] = [class |-> "exclusive", model |-> NoModel]]
      BY <1>1, <1>4, <2>2
    <2> QED BY <2>1, <2>3 DEF Lease!GrantExclusive, Lease!Next
  <1> QED BY <1>3, <1>4

(* Sleeping, waking and being refused do not touch the lease. *)
LEMMA NoLeaseChange ==
  ASSUME TypeOK, NEW t \in Threads, pc[t] # "holding", NEW x, x # "holding",
         pc' = [pc EXCEPT ![t] = x],
         req' = req \/ \E r : req' = [req EXCEPT ![t] = r]
  PROVE  LeaseFcn' = LeaseFcn
  <1>1. \A u \in Threads : LeaseOf(u)' = LeaseOf(u)
    BY DEF TypeOK, LeaseOf
  <1> QED BY <1>1 DEF LeaseFcn

(* A step of the gate is a step of the lease, or none. *)
LEMMA GateStepIsLeaseStep == GateInv /\ [Next]_vars => [Lease!Next]_LeaseFcn
  <1> SUFFICES ASSUME GateInv, [Next]_vars PROVE Lease!Next \/ LeaseFcn' = LeaseFcn
    BY Zenon
  <1> USE DEF GateInv
  <1>1. CASE UNCHANGED vars
    BY <1>1 DEF vars, state, LeaseFcn, LeaseOf
  <1>2. ASSUME NEW t \in Threads, NEW r \in Class, r.is_eligible \/ r = Exclusive,
               pc[t] \in {"new", "backoff"}, acquire_for(t, r)
        PROVE  Lease!Next \/ LeaseFcn' = LeaseFcn
    <2>1. CASE can_acquire(r) /\ Grant(t, r)
      BY <1>2, <2>1, GrantIsLease DEF acquire_for
    <2>2. CASE pc' = [pc EXCEPT ![t] = "asleep"] \/ pc' = [pc EXCEPT ![t] = "refused"]
      BY <1>2, <2>2, NoLeaseChange DEF acquire_for
    <2> QED BY <1>2, <2>1, <2>2 DEF acquire_for, Refuse
  <1>3. ASSUME NEW t \in Threads, Recheck(t) \/ TimeOut(t) \/ SpuriousWakeup(t)
        PROVE  Lease!Next \/ LeaseFcn' = LeaseFcn
    <2>1. pc[t] # "holding" /\ req' = req /\ req[t] \in Class
      BY <1>3 DEF Recheck, TimeOut, SpuriousWakeup, TypeOK
    <2>2. CASE can_acquire(req[t]) /\ Grant(t, req[t])
      <3>1. req' = [req EXCEPT ![t] = req[t]]
        BY <2>1 DEF TypeOK
      <3> QED BY <2>1, <2>2, <3>1, GrantIsLease
    <2>3. CASE \E x \in {"asleep", "awake", "refused"} : pc' = [pc EXCEPT ![t] = x]
      BY <2>1, <2>3, NoLeaseChange
    <2> QED BY <1>3, <2>2, <2>3 DEF Recheck, TimeOut, SpuriousWakeup, Refuse
  <1>4. ASSUME NEW t \in Threads, DropGuard(t)
        PROVE  Lease!Next
    <2>1. /\ pc[t] = "holding" /\ pc'[t] # "holding" /\ req' = req
          /\ \A u \in Threads \ {t} : pc'[u] = "holding" <=> pc[u] = "holding"
      BY <1>4 DEF DropGuard, notify_all, TypeOK
    <2>2. LeaseFcn' = [LeaseFcn EXCEPT ![t] = Lease!Free]
      BY <2>1 DEF LeaseFcn, LeaseOf, Lease!Free
    <2>3. LeaseFcn[t] # Lease!Free
      BY <2>1, LeaseHolders DEF Lease!Holders, Holding
    <2> QED BY <2>2, <2>3 DEF Lease!GiveBack, Lease!Next
  <1>5. ASSUME NEW t \in Threads, Handle(t) \/ Retry(t)
        PROVE  Lease!Next \/ LeaseFcn' = LeaseFcn
    BY <1>2, <1>5, ClassTypes DEF Handle, Retry
  <1> QED BY <1>1, <1>3, <1>4, <1>5 DEF Next, Thread

(* The gate implements the lease: its initial state lends nothing, and     *)
(* every step grants one lease, gives one back, or leaves them alone.      *)
THEOREM GateImplementsLease == Spec => ImplementsLease
  <1>1. Init => Lease!Init
    BY DEF Init, Lease!Init, Lease!Free, LeaseFcn, LeaseOf
  <1> QED BY <1>1, GateStepIsLeaseStep, GateInvariant, PTL
          DEF Spec, ImplementsLease, Lease!Spec
=============================================================================
