------------------------- MODULE ServeRuntimeProofs -------------------------
(***************************************************************************)
(* Proofs about ServeRuntime for any number of request threads and models, *)
(* every budget, capability and failure.                                   *)
(***************************************************************************)
EXTENDS ServeRuntime, QueueFacts

(* Types *)

Messages == [kind : {"load"}, model : Models \cup {NoModel}, seq : Nat]
            \cup [kind : {"warm", "reset", "unload", "notice"}]
            \cup [kind : {"generate"}, thread : Threads]
Replies == [kind : {"loaded", "decode_result", "reset", "unloaded", "pflash", "error",
                    "transient"}, eligible : BOOLEAN]

LineTypes ==
  /\ wire \in Seq(Messages) /\ ctl \in Seq(Replies)
  /\ faults \in Seq({"load", "warm", "reset", "unload", "generate"})

TypeInv == TypeOK /\ LineTypes

(* The initial state is typed. *)
LEMMA InitTypes == Init => TypeInv
  BY ServeAssumption
  DEF Init, TypeInv, TypeOK, LineTypes, Gate!Free, Gate!Leases, Unloaded, Places, Actors, Generating

(* Actors and what they want. *)
LEMMA ActorFacts ==
  /\ Threads \subseteq Actors /\ Prewarmer \in Actors /\ Evictor \in Actors
  /\ NoOwner \notin Actors /\ Prewarmer \notin Threads /\ Evictor \notin Threads
  /\ Prewarmer # Evictor
  /\ NoModel \notin Models
  /\ \A t \in Threads : ModelOf[t] \in Models /\ Needs[t] \in Nat /\ Wanted(t) = ModelOf[t]
  /\ Wanted(Prewarmer) = PrewarmModel /\ PrewarmModel \in Models \cup {NoModel}
  /\ DefaultSeq \in Nat
  BY ServeAssumption DEF Actors, Wanted

(* The larger of two sizes. *)
LEMMA MaxFacts ==
  \A m, n \in Nat : MaxOf(m, n) \in Nat /\ m <= MaxOf(m, n) /\ n <= MaxOf(m, n)
  BY DEF MaxOf

-----------------------------------------------------------------------------
(* The outcomes of the actions, each a plain assignment *)

Callers == Threads \cup {Prewarmer}

\* What an actor's load asks for.
Size(a) == MaxOf(DefaultSeq, min[a])
LoadLine(a) == [kind |-> "load", model |-> Wanted(a), seq |-> Size(a)]

\* Where ensure_model takes its caller, and who holds the lock then.
After(a) == IF a = Prewarmer THEN "warmed" ELSE IF min[a] = 0 THEN "ensured" ELSE "sized"
Owner(a) == IF a = Prewarmer THEN NoOwner ELSE lock

Published(a, e) ==
  [path |-> Wanted(a), max_seq |-> Size(a), cache |-> Wanted(a) \in CacheModels,
   batch |-> Wanted(a) \in BatchModels, eligible |-> e]

SharedLease(t) == [class |-> "shared", model |-> ModelOf[t]]
AloneLease == [class |-> "exclusive", model |-> NoModel]

AcquireShared(t) ==
  /\ pc[t] \in {"classed", "backoff"} /\ shared[t] = TRUE
  /\ Gate!GrantShared(t, ModelOf[t])
  /\ pc' = [pc EXCEPT ![t] = "admitted"]
  /\ UNCHANGED << shared, serve, min, attempt, result, back >>

AcquireAlone(t) ==
  /\ pc[t] \in {"classed", "backoff"} /\ shared[t] = FALSE
  /\ Gate!GrantExclusive(t)
  /\ pc' = [pc EXCEPT ![t] = "admitted"]
  /\ UNCHANGED << shared, serve, min, attempt, result, back >>

EnsureLoads(a) ==
  /\ pc[a] = "ensuring" /\ must_reload(a)
  /\ wire' = Append(wire, LoadLine(a))
  /\ rt' = [rt EXCEPT !.eligible = FALSE]
  /\ pc' = [pc EXCEPT ![a] = "loading"]
  /\ UNCHANGED << gate, lock, meta, min, attempt, result, ctl, daemon, running, faults >>

EnsureSkips(a) ==
  /\ pc[a] = "ensuring" /\ ~ must_reload(a)
  /\ pc' = [pc EXCEPT ![a] = After(a)] /\ lock' = Owner(a)
  /\ UNCHANGED << gate, rt, meta, min, attempt, result, back >>

\* Takes the next control line.
Hears(a, place) ==
  /\ pc[a] = place /\ ctl # << >> /\ ctl' = Tail(ctl)
  /\ UNCHANGED << shared, min, attempt, wire, daemon, running, faults >>

Publishes(a) ==
  /\ \/ Hears(a, "loading") /\ Head(ctl).kind = "loaded" /\ Wanted(a) \notin WarmModels
     \/ Hears(a, "warming") /\ Head(ctl).kind = "decode_result"
  /\ \E e : e \in {Head(ctl).eligible, rt.eligible} /\ rt' = Published(a, e)
  /\ meta' = [meta EXCEPT !.current = Wanted(a)]
  /\ pc' = [pc EXCEPT ![a] = After(a)] /\ lock' = Owner(a)
  /\ UNCHANGED << lease, result >>

LoadedCold(a) ==
  /\ Hears(a, "loading") /\ Head(ctl).kind = "loaded" /\ Wanted(a) \in WarmModels
  /\ rt' = [rt EXCEPT !.eligible = Head(ctl).eligible]
  /\ pc' = [pc EXCEPT ![a] = "warm"]
  /\ UNCHANGED << lease, lock, meta, result >>

LoadSkips(a) ==
  /\ Hears(a, "loading") /\ Head(ctl).kind \notin load_errors \cup {"loaded"}
  /\ UNCHANGED << lease, lock, rt, meta, pc, result >>

\* A call that failed, of the pre-warm thread and of a request.
EnsureFails(a) ==
  \/ Hears(a, "loading") /\ Head(ctl).kind \in load_errors
  \/ Hears(a, "warming") /\ Head(ctl).kind # "decode_result"

PrewarmFails ==
  /\ EnsureFails(Prewarmer)
  /\ lock' = NoOwner /\ pc' = [pc EXCEPT ![Prewarmer] = "cold"]
  /\ UNCHANGED << lease, rt, meta, result >>

\* The request leaves with an error: locks and guard go with it.
Leaves(t, why) ==
  /\ lock' = NoOwner
  /\ pc' = [pc EXCEPT ![t] = "failed"]
  /\ result' = [result EXCEPT ![t] = why]
  /\ lease[t] # Gate!Free /\ lease' = [lease EXCEPT ![t] = Gate!Free]
  /\ UNCHANGED << shared, meta, min, attempt, wire, daemon, running, faults >>

Poisoned == [Unloaded EXCEPT !.eligible = rt.eligible]

RequestFails(t) ==
  \E why \in {"fatal", "transient"} :
    /\ Leaves(t, why)
    /\ \/ EnsureFails(t) /\ UNCHANGED rt
       \/ Hears(t, "resetting") /\ Head(ctl).kind # "reset" /\ attempt[t] # 2 /\ UNCHANGED rt
       \/ Hears(t, "resetting") /\ Head(ctl).kind # "reset" /\ attempt[t] = 2 /\ rt' = Poisoned
       \/ pc[t] = "budget" /\ Needs[t] = 0 /\ UNCHANGED << rt, ctl >>

(* Acquire ends in one of two leases. *)
LEMMA AcquireSteps ==
  ASSUME shared \in [Threads -> BOOLEAN], NEW t \in Threads, Acquire(t)
  PROVE  AcquireShared(t) \/ AcquireAlone(t)
  <1>1. CASE shared[t] = TRUE
    BY <1>1 DEF Acquire, AcquireShared, Goto
  <1>2. CASE shared[t] = FALSE
    BY <1>2 DEF Acquire, AcquireAlone, Goto
  <1>3. shared[t] = TRUE \/ shared[t] = FALSE
    OBVIOUS
  <1> QED BY <1>1, <1>2, <1>3

(* What becomes of the caller of ensure_model. *)
LEMMA EnsuredSteps ==
  ASSUME NEW a, NEW m, Ensured(a, m)
  PROVE  meta' = m /\ pc' = [pc EXCEPT ![a] = After(a)] /\ lock' = Owner(a)
  <1>1. CASE a = Prewarmer
    BY <1>1 DEF Ensured, Goto, After, Owner
  <1>2. CASE a # Prewarmer /\ min[a] = 0
    BY <1>2 DEF Ensured, Goto, After, Owner
  <1>3. CASE a # Prewarmer /\ min[a] # 0
    BY <1>3 DEF Ensured, Goto, After, Owner
  <1> QED BY <1>1, <1>2, <1>3

(* ensure_model loads or does not. *)
LEMMA EnsureSteps ==
  ASSUME NEW a \in Callers, EnsureModel(a)
  PROVE  EnsureLoads(a) \/ EnsureSkips(a)
  <1>1. CASE must_reload(a)
    BY <1>1 DEF EnsureModel, EnsureLoads, Goto, LoadLine, Size
  <1>2. CASE ~ must_reload(a)
    <2>1. Ensured(a, meta) /\ UNCHANGED << wire, rt >>
          /\ UNCHANGED << gate, min, attempt, result, ctl, daemon, running, faults >>
          /\ pc[a] = "ensuring"
      BY <1>2 DEF EnsureModel
    <2>2. meta' = meta /\ pc' = [pc EXCEPT ![a] = After(a)] /\ lock' = Owner(a)
      BY <2>1, EnsuredSteps
    <2> QED BY <1>2, <2>1, <2>2 DEF EnsureSkips, back
  <1> QED BY <1>1, <1>2

(* Publishing what was loaded. *)
LEMMA PublishSteps ==
  ASSUME NEW a, NEW e, Publish(a, e)
  PROVE  /\ rt' = Published(a, e) /\ meta' = [meta EXCEPT !.current = Wanted(a)]
         /\ pc' = [pc EXCEPT ![a] = After(a)] /\ lock' = Owner(a)
         /\ UNCHANGED << lease, result >>
  <1>1. Ensured(a, [meta EXCEPT !.current = Wanted(a)]) /\ UNCHANGED << lease, result >>
        /\ rt' = Published(a, e)
    BY DEF Publish, Published, Size
  <1> QED BY <1>1, EnsuredSteps

(* Giving up. *)
LEMMA AbandonSteps ==
  ASSUME NEW a \in Callers, NEW why, Abandon(a, why)
  PROVE  \/ /\ a = Prewarmer /\ lock' = NoOwner /\ pc' = [pc EXCEPT ![a] = "cold"]
            /\ UNCHANGED << lease, meta, result >>
         \/ /\ a \in Threads /\ lock' = NoOwner /\ pc' = [pc EXCEPT ![a] = "failed"]
            /\ result' = [result EXCEPT ![a] = why]
            /\ lease[a] # Gate!Free /\ lease' = [lease EXCEPT ![a] = Gate!Free]
            /\ UNCHANGED meta
  <1>1. CASE a = Prewarmer
    BY <1>1 DEF Abandon, Goto
  <1>2. CASE a # Prewarmer
    BY <1>2 DEF Abandon, Goto, Gate!GiveBack, Callers
  <1> QED BY <1>1, <1>2

(* The reply to a load. *)
LEMMA LoadSteps ==
  ASSUME NEW a \in Callers, LoadReply(a)
  PROVE  \/ Publishes(a) \/ LoadedCold(a) \/ LoadSkips(a)
         \/ (a = Prewarmer /\ PrewarmFails) \/ (a \in Threads /\ RequestFails(a))
  <1>0. Hears(a, "loading")
    BY DEF LoadReply, Hears
  <1>1. CASE Head(ctl).kind = "loaded" /\ Wanted(a) \in WarmModels
    <2>1. LoadedCold(a)
      BY <1>0, <1>1 DEF LoadReply, LoadedCold, Goto, load_errors
    <2> QED BY <2>1
  <1>2. CASE Head(ctl).kind = "loaded" /\ Wanted(a) \notin WarmModels
    <2>1. Publish(a, Head(ctl).eligible)
      BY <1>2 DEF LoadReply, load_errors
    <2>2. Publishes(a)
      BY <1>0, <1>2, <2>1, PublishSteps DEF Publishes
    <2> QED BY <2>2
  <1>3. CASE Head(ctl).kind \in load_errors
    <2>0. EnsureFails(a)
      BY <1>0, <1>3 DEF EnsureFails
    <2>1. Abandon(a, "fatal") /\ UNCHANGED rt
      BY <1>3 DEF LoadReply, load_errors
    <2>2. CASE a = Prewarmer
      <3>1. PrewarmFails
        BY <2>0, <2>1, <2>2, AbandonSteps, ActorFacts DEF PrewarmFails
      <3> QED BY <2>2, <3>1
    <2>3. CASE a # Prewarmer
      <3>1. a \in Threads
        BY <2>3 DEF Callers
      <3>2. Leaves(a, "fatal")
        BY <1>0, <2>1, <2>3, AbandonSteps DEF Leaves, Hears
      <3>3. RequestFails(a)
        BY <2>0, <2>1, <3>2 DEF RequestFails
      <3> QED BY <3>1, <3>3
    <2> QED BY <2>2, <2>3
  <1>4. CASE Head(ctl).kind \notin load_errors \cup {"loaded"}
    <2>1. LoadSkips(a)
      BY <1>0, <1>4 DEF LoadReply, LoadSkips, load_errors
    <2> QED BY <2>1
  <1> QED BY <1>1, <1>2, <1>3, <1>4

(* The reply to a warm-up. *)
LEMMA WarmSteps ==
  ASSUME NEW a \in Callers, WarmReply(a)
  PROVE  \/ Publishes(a) \/ (a = Prewarmer /\ PrewarmFails) \/ (a \in Threads /\ RequestFails(a))
  <1>0. Hears(a, "warming")
    BY DEF WarmReply, Hears
  <1>1. CASE Head(ctl).kind = "decode_result"
    <2>1. Publish(a, rt.eligible)
      BY <1>1 DEF WarmReply
    <2>2. Publishes(a)
      BY <1>0, <1>1, <2>1, PublishSteps DEF Publishes
    <2> QED BY <2>2
  <1>2. CASE Head(ctl).kind # "decode_result"
    <2>0. EnsureFails(a)
      BY <1>0, <1>2 DEF EnsureFails
    <2>1. Abandon(a, "fatal") /\ UNCHANGED rt
      BY <1>2 DEF WarmReply
    <2>2. CASE a = Prewarmer
      <3>1. PrewarmFails
        BY <2>0, <2>1, <2>2, AbandonSteps, ActorFacts DEF PrewarmFails
      <3> QED BY <2>2, <3>1
    <2>3. CASE a # Prewarmer
      <3>1. a \in Threads
        BY <2>3 DEF Callers
      <3>2. Leaves(a, "fatal")
        BY <1>0, <2>1, <2>3, AbandonSteps DEF Leaves, Hears
      <3>3. RequestFails(a)
        BY <2>0, <2>1, <3>2 DEF RequestFails
      <3> QED BY <3>1, <3>3
    <2> QED BY <2>2, <2>3
  <1> QED BY <1>1, <1>2

\* The reset of a request, its budget, its return and the decision to retry.
ResetSends(t) ==
  /\ pc[t] = "ensured" /\ needs_reset(t)
  /\ wire' = Append(wire, [kind |-> "reset"])
  /\ pc' = [pc EXCEPT ![t] = "resetting"]
  /\ UNCHANGED << gate, serve, min, attempt, result, ctl, daemon, running, faults >>

ResetSkips(t) ==
  /\ pc[t] = "ensured" /\ ~ needs_reset(t)
  /\ pc' = [pc EXCEPT ![t] = "budget"]
  /\ UNCHANGED << gate, serve, min, attempt, result, back >>

ResetDone(t) ==
  /\ Hears(t, "resetting") /\ Head(ctl).kind = "reset"
  /\ rt' = [rt EXCEPT !.eligible = Head(ctl).eligible]
  /\ pc' = [pc EXCEPT ![t] = "budget"]
  /\ UNCHANGED << lease, lock, meta, result >>

BudgetGrows(t) ==
  /\ pc[t] = "budget" /\ Needs[t] # 0 /\ rt.max_seq < Needs[t]
  /\ min' = [min EXCEPT ![t] = Needs[t]]
  /\ pc' = [pc EXCEPT ![t] = "ensuring"]
  /\ UNCHANGED << gate, serve, attempt, result, back >>

BudgetFits(t) ==
  /\ pc[t] = "budget" /\ ~ (rt.max_seq < Needs[t])
  /\ pc' = [pc EXCEPT ![t] = "sized"]
  /\ UNCHANGED << gate, serve, min, attempt, result, back >>

Returns(t) ==
  /\ pc[t] = "generating" /\ result[t] # "none"
  /\ lease[t] # Gate!Free /\ lease' = [lease EXCEPT ![t] = Gate!Free]
  /\ \E p \in {"done", "failed"} : pc' = [pc EXCEPT ![t] = p]
  /\ meta' \in {meta, [meta EXCEPT !.expired = FALSE]}
  /\ UNCHANGED << shared, lock, rt, min, attempt, result, back >>

Retries(t) ==
  /\ pc[t] = "failed" /\ lock = NoOwner /\ attempt[t] = 1
  /\ pc' = [pc EXCEPT ![t] = "backoff"]
  /\ attempt' = [attempt EXCEPT ![t] = 2]
  /\ shared' = [shared EXCEPT ![t] = FALSE]
  /\ result' = [result EXCEPT ![t] = "none"]
  /\ UNCHANGED << lease, serve, min, back >>

GivesUp(t) ==
  /\ pc[t] = "failed"
  /\ pc' = [pc EXCEPT ![t] = "done"]
  /\ UNCHANGED << gate, serve, min, attempt, result, back >>

\* The idle thread.
IdleSends ==
  /\ pc[Evictor] = "expired" /\ lock = NoOwner /\ lock' = Evictor
  /\ wire' = Append(wire, [kind |-> "unload"])
  /\ pc' = [pc EXCEPT ![Evictor] = "unloading"]
  /\ UNCHANGED << gate, rt, meta, min, attempt, result, ctl, daemon, running, faults >>

IdleSkips ==
  /\ pc[Evictor] = "expired"
  /\ pc' = [pc EXCEPT ![Evictor] = "clearing"]
  /\ UNCHANGED << gate, serve, min, attempt, result, back >>

IdleForgets ==
  /\ Hears(Evictor, "unloading") /\ Head(ctl).kind = "unloaded"
  /\ lock' = NoOwner /\ rt' = forget_model
  /\ pc' = [pc EXCEPT ![Evictor] = "clearing"]
  /\ UNCHANGED << lease, meta, result >>

IdleKeeps ==
  /\ Hears(Evictor, "unloading") /\ Head(ctl).kind # "unloaded"
  /\ lock' = NoOwner
  /\ pc' = [pc EXCEPT ![Evictor] = "sleep"]
  /\ UNCHANGED << lease, rt, meta, result >>

\* The daemon takes a line of a kind and answers with another.
Answers(kind, k) ==
  /\ Takes(kind) /\ wire' = Tail(wire) /\ ctl' = Append(ctl, Line(k))
  /\ UNCHANGED << gate, serve, call, running >>

NoDaemonModel == [model |-> NoModel, seq |-> 0, used |-> FALSE]
FailsAt(what) == what \in Faults /\ faults' = Append(faults, what)

Loads ==
  /\ Takes("load")
  /\ daemon' = [model |-> Head(wire).model, seq |-> Head(wire).seq, used |-> FALSE]
  /\ ctl' = Append(ctl, [kind |-> "loaded", eligible |-> Head(wire).model \in RetryModels])
  /\ wire' = IF Head(wire).model \in NoticeModels THEN << [kind |-> "notice"] >> \o Tail(wire)
             ELSE Tail(wire)
  /\ UNCHANGED << gate, serve, call, running, faults >>

LoadBreaks == Answers("load", "error") /\ FailsAt("load") /\ daemon' = NoDaemonModel

WarmAnswers ==
  \/ Answers("warm", "decode_result") /\ daemon.model # NoModel /\ UNCHANGED << daemon, faults >>
  \/ Answers("warm", "error") /\ daemon.model = NoModel /\ UNCHANGED << daemon, faults >>
  \/ Answers("warm", "error") /\ FailsAt("warm") /\ UNCHANGED daemon

ResetAnswers ==
  \/ /\ \E k \in {"reset", "error"} : Answers("reset", k)
     /\ daemon' = [daemon EXCEPT !.used = FALSE] /\ UNCHANGED faults
  \/ Answers("reset", "transient") /\ FailsAt("reset") /\ UNCHANGED daemon

Unloads ==
  /\ daemon' = NoDaemonModel
  /\ \/ Answers("unload", "unloaded") /\ UNCHANGED faults
     \/ Answers("unload", "error") /\ FailsAt("unload")

Refuses(t) ==
  /\ Takes("generate") /\ t = Head(wire).thread /\ daemon.model = NoModel
  /\ wire' = Tail(wire) /\ result' = [result EXCEPT ![t] = "fatal"]
  /\ UNCHANGED << gate, serve, pc, min, attempt, ctl, daemon, running, faults >>

Starting(b) == [model |-> daemon.model, seq |-> daemon.seq, used |-> daemon.used, batched |-> b]

Starts(t, b) ==
  /\ Takes("generate") /\ t = Head(wire).thread /\ daemon.model # NoModel
  /\ wire' = Tail(wire)
  /\ running' = [u \in Generating \cup {t} |-> IF u \in Generating THEN running[u] ELSE Starting(b)]
  /\ \E d \in {daemon.used, TRUE} : daemon' = [daemon EXCEPT !.used = d]
  /\ UNCHANGED << gate, serve, call, ctl, faults >>

Ends(t) ==
  /\ t \in Generating
  /\ running' = [u \in Generating \ {t} |-> running[u]]
  /\ \/ result' = [result EXCEPT ![t] = "ok"] /\ UNCHANGED faults
     \/ result' = [result EXCEPT ![t] = "transient"] /\ FailsAt("generate")
  /\ UNCHANGED << gate, serve, pc, min, attempt, wire, ctl, daemon >>

ThreadMoves(t) ==
  \/ Classify(t) \/ AcquireShared(t) \/ AcquireAlone(t) \/ Refuse(t)
  \/ ResetSends(t) \/ ResetSkips(t) \/ ResetDone(t) \/ BudgetGrows(t) \/ BudgetFits(t)
  \/ Unlock(t) \/ Send(t) \/ Returns(t) \/ Retries(t) \/ GivesUp(t) \/ RequestFails(t)

CallerMoves(a) ==
  \/ Enter(a) \/ EnsureLoads(a) \/ EnsureSkips(a) \/ Publishes(a)
  \/ LoadedCold(a) \/ LoadSkips(a) \/ SendWarm(a)

SideMoves ==
  \/ PrewarmFails \/ PrewarmAnnounce \/ finish_prewarm \/ Expire
  \/ IdleLook \/ IdleExpired \/ IdleSends \/ IdleSkips \/ IdleForgets \/ IdleKeeps \/ IdleClear

DaemonMoves ==
  \/ Loads \/ LoadBreaks \/ DaemonNotice \/ WarmAnswers \/ ResetAnswers \/ Unloads \/ DropLine
  \/ \E t \in Threads : Refuses(t) \/ Ends(t) \/ \E b \in BOOLEAN : Starts(t, b)

Moves ==
  \/ \E t \in Threads : ThreadMoves(t)
  \/ \E a \in Callers : CallerMoves(a)
  \/ SideMoves \/ DaemonMoves

(* The reset of a request and the reply to it. *)
LEMMA ResetSteps ==
  ASSUME NEW t \in Threads, Reset(t) \/ ResetReply(t)
  PROVE  ResetSends(t) \/ ResetSkips(t) \/ ResetDone(t) \/ RequestFails(t)
  <1>1. CASE Reset(t) /\ needs_reset(t)
    BY <1>1 DEF Reset, ResetSends, Goto
  <1>2. CASE Reset(t) /\ ~ needs_reset(t)
    BY <1>2 DEF Reset, ResetSkips, Goto, back
  <1>3. CASE ResetReply(t) /\ Head(ctl).kind = "reset"
    BY <1>3 DEF ResetReply, ResetDone, Hears, Goto
  <1>4. CASE ResetReply(t) /\ Head(ctl).kind # "reset"
    <2> DEFINE why == IF Head(ctl).kind = "transient" THEN "transient" ELSE "fatal"
    <2>0. Hears(t, "resetting") /\ why \in {"fatal", "transient"} /\ t # Prewarmer
      BY <1>4, ActorFacts DEF ResetReply, Hears
    <2>1. Abandon(t, why) /\ rt' = IF attempt[t] = 2 THEN Poisoned ELSE rt
      BY <1>4 DEF ResetReply, Poisoned
    <2> HIDE DEF why
    <2>2. Leaves(t, why)
      BY <2>0, <2>1, AbandonSteps DEF Leaves, Hears, Callers
    <2>3. CASE attempt[t] = 2
      <3>1. rt' = Poisoned
        BY <2>1, <2>3
      <3> QED BY <1>4, <2>0, <2>2, <2>3, <3>1 DEF RequestFails
    <2>4. CASE attempt[t] # 2
      <3>1. rt' = rt
        BY <2>1, <2>4
      <3> QED BY <1>4, <2>0, <2>2, <2>4, <3>1 DEF RequestFails
    <2> QED BY <2>3, <2>4
  <1> QED BY <1>1, <1>2, <1>3, <1>4

(* The budget of a request. *)
LEMMA BudgetSteps ==
  ASSUME NEW t \in Threads, Budget(t), rt.max_seq \in Nat
  PROVE  BudgetGrows(t) \/ BudgetFits(t) \/ RequestFails(t)
  <1>1. CASE Needs[t] = 0
    <2>1. Abandon(t, "fatal") /\ UNCHANGED min /\ UNCHANGED << shared, rt, attempt, back >> /\ pc[t] = "budget"
      BY <1>1 DEF Budget
    <2>2. Leaves(t, "fatal")
      BY <2>1, AbandonSteps, ActorFacts DEF Leaves, Callers, back
    <2> QED BY <1>1, <2>1, <2>2 DEF RequestFails, back
  <1>2. CASE Needs[t] # 0 /\ rt.max_seq < Needs[t]
    BY <1>2 DEF Budget, BudgetGrows, Goto, gate, serve
  <1>3. CASE Needs[t] # 0 /\ ~ (rt.max_seq < Needs[t])
    BY <1>3 DEF Budget, BudgetFits, Goto, gate, serve
  <1> QED BY <1>1, <1>2, <1>3

(* The end of an attempt. *)
LEMMA ReturnSteps ==
  ASSUME NEW t \in Threads, Return(t) \/ DecideRetry(t)
  PROVE  Returns(t) \/ Retries(t) \/ GivesUp(t)
  <1>1. CASE Return(t)
    <2>1. CASE result[t] = "ok"
      BY <1>1, <2>1 DEF Return, Returns, Goto, Gate!GiveBack
    <2>2. CASE result[t] # "ok"
      BY <1>1, <2>2 DEF Return, Returns, Goto, Gate!GiveBack
    <2> QED BY <2>1, <2>2
  <1>2. CASE DecideRetry(t) /\ may_retry(t)
    BY <1>2 DEF DecideRetry, may_retry, Retries, Goto
  <1>3. CASE DecideRetry(t) /\ ~ may_retry(t)
    BY <1>3 DEF DecideRetry, GivesUp, Goto, gate
  <1> QED BY <1>1, <1>2, <1>3

(* The idle thread. *)
LEMMA IdleSteps ==
  ASSUME IdleEvict \/ IdleReply
  PROVE  IdleSends \/ IdleSkips \/ IdleForgets \/ IdleKeeps
  <1>1. CASE IdleEvict /\ rt.path # NoModel
    BY <1>1 DEF IdleEvict, IdleSends, Goto
  <1>2. CASE IdleEvict /\ rt.path = NoModel
    BY <1>2 DEF IdleEvict, IdleSkips, Goto, serve, back
  <1>3. CASE IdleReply /\ Head(ctl).kind = "unloaded"
    BY <1>3 DEF IdleReply, IdleForgets, Hears, Goto, gate
  <1>4. CASE IdleReply /\ Head(ctl).kind # "unloaded"
    BY <1>4 DEF IdleReply, IdleKeeps, Hears, Goto, gate
  <1> QED BY <1>1, <1>2, <1>3, <1>4

(* The daemon's control messages. *)
LEMMA DaemonSteps ==
  ASSUME DaemonLoad \/ DaemonWarm \/ DaemonReset \/ DaemonUnload
  PROVE  Loads \/ LoadBreaks \/ WarmAnswers \/ ResetAnswers \/ Unloads
  <1>1. CASE DaemonLoad
    BY <1>1 DEF DaemonLoad, Loads, LoadBreaks, Answers, NoDaemonModel, FailsAt, Fails
  <1>2. CASE DaemonWarm
    <2>1. CASE daemon.model = NoModel
      BY <1>2, <2>1 DEF DaemonWarm, WarmAnswers, Answers, FailsAt, Fails
    <2>2. CASE daemon.model # NoModel
      BY <1>2, <2>2 DEF DaemonWarm, WarmAnswers, Answers, FailsAt, Fails
    <2> QED BY <2>1, <2>2
  <1>3. CASE DaemonReset
    <2>1. CASE daemon.model = NoModel
      BY <1>3, <2>1 DEF DaemonReset, ResetAnswers, Answers, FailsAt, Fails
    <2>2. CASE daemon.model # NoModel
      BY <1>3, <2>2 DEF DaemonReset, ResetAnswers, Answers, FailsAt, Fails
    <2> QED BY <2>1, <2>2
  <1>4. CASE DaemonUnload
    BY <1>4 DEF DaemonUnload, Unloads, Answers, NoDaemonModel, FailsAt, Fails
  <1> QED BY <1>1, <1>2, <1>3, <1>4

(* A generate that reaches the daemon, and its end. *)
LEMMA GenerateSteps ==
  ASSUME TypeInv, DaemonGenerate
  PROVE  \E t \in Threads : Refuses(t) \/ \E b \in BOOLEAN : Starts(t, b)
  <1> DEFINE t == Head(wire).thread
             b == shared[t] /\ daemon.model \in BatchModels
  <1>0. Takes("generate") /\ t \in Threads
    <2>1. Takes("generate") /\ wire \in Seq(Messages)
      BY DEF DaemonGenerate, TypeInv, LineTypes
    <2>2. Head(wire) \in Messages /\ Head(wire).kind = "generate"
      BY <2>1, TailAt DEF Takes
    <2> QED BY <2>1, <2>2 DEF Messages
  <1>1. CASE daemon.model = NoModel
    <2>1. Refuses(t)
      BY <1>0, <1>1 DEF DaemonGenerate, Refuses
    <2> QED BY <1>0, <2>1
  <1>2. CASE daemon.model # NoModel
    <2>1. b \in BOOLEAN
      OBVIOUS
    <2>2. /\ running' = [u \in Generating \cup {t} |-> IF u \in Generating THEN running[u] ELSE Starting(b)]
          /\ daemon' = [daemon EXCEPT !.used = daemon.used \/ ~ b]
          /\ wire' = Tail(wire) /\ UNCHANGED << gate, serve, call, ctl, faults >>
      BY <1>2 DEF DaemonGenerate, Starting, call
    <2> HIDE DEF b
    <2>3. (daemon.used \/ ~ b) \in {daemon.used, TRUE}
      BY <2>1 DEF TypeInv, TypeOK
    <2>4. Starts(t, b)
      BY <1>0, <1>2, <2>2, <2>3 DEF Starts
    <2> QED BY <1>0, <2>1, <2>4
  <1> QED BY <1>1, <1>2

(* The end of a generation. *)
LEMMA EndSteps ==
  ASSUME NEW t, DaemonEnd(t)
  PROVE  Ends(t)
  BY DEF DaemonEnd, Ends, Restrict, FailsAt, Fails

(* Every step of the specification is one of the moves. *)
LEMMA NextMoves ==
  ASSUME TypeInv, Next
  PROVE  Moves
  <1> USE DEF Moves
  <1>1. ASSUME NEW t \in Threads, Request(t) \/ Refuse(t)
        PROVE  ThreadMoves(t) \/ CallerMoves(t)
    <2>0. t \in Callers /\ shared \in [Threads -> BOOLEAN] /\ rt.max_seq \in Nat
      BY DEF Callers, TypeInv, TypeOK
    <2>1. CASE Acquire(t)
      BY <2>0, <2>1, AcquireSteps DEF ThreadMoves
    <2>2. CASE EnsureModel(t)
      BY <2>0, <2>2, EnsureSteps DEF CallerMoves
    <2>3. CASE LoadReply(t)
      BY <2>0, <2>3, LoadSteps, ActorFacts DEF CallerMoves, ThreadMoves
    <2>4. CASE WarmReply(t)
      BY <2>0, <2>4, WarmSteps, ActorFacts DEF CallerMoves, ThreadMoves
    <2>5. CASE Reset(t) \/ ResetReply(t)
      BY <2>0, <2>5, ResetSteps DEF ThreadMoves
    <2>6. CASE Budget(t)
      BY <2>0, <2>6, BudgetSteps DEF ThreadMoves
    <2>7. CASE Return(t) \/ DecideRetry(t)
      BY <2>0, <2>7, ReturnSteps DEF ThreadMoves
    <2>8. CASE Classify(t) \/ Refuse(t) \/ Unlock(t) \/ Send(t) \/ Enter(t) \/ SendWarm(t)
      BY <2>0, <2>8 DEF ThreadMoves, CallerMoves
    <2> QED BY <1>1, <2>1, <2>2, <2>3, <2>4, <2>5, <2>6, <2>7, <2>8 DEF Request
  <1>2. ASSUME Prewarm
        PROVE  SideMoves \/ CallerMoves(Prewarmer)
    <2>0. Prewarmer \in Callers /\ Prewarmer \notin Threads
      BY ActorFacts DEF Callers
    <2>1. CASE EnsureModel(Prewarmer)
      BY <2>0, <2>1, EnsureSteps DEF CallerMoves
    <2>2. CASE LoadReply(Prewarmer)
      BY <2>0, <2>2, LoadSteps DEF CallerMoves, SideMoves
    <2>3. CASE WarmReply(Prewarmer)
      BY <2>0, <2>3, WarmSteps DEF CallerMoves, SideMoves
    <2>4. CASE PrewarmAnnounce \/ finish_prewarm \/ Enter(Prewarmer) \/ SendWarm(Prewarmer)
      BY <2>4 DEF CallerMoves, SideMoves
    <2> QED BY <1>2, <2>1, <2>2, <2>3, <2>4 DEF Prewarm
  <1>3. ASSUME Expire \/ Idle
        PROVE  SideMoves
    BY <1>3, IdleSteps DEF Idle, SideMoves
  <1>4. ASSUME Daemon
        PROVE  DaemonMoves
    <2>1. CASE DaemonLoad \/ DaemonWarm \/ DaemonReset \/ DaemonUnload
      BY <2>1, DaemonSteps DEF DaemonMoves
    <2>2. CASE DaemonNotice \/ DropLine
      BY <2>2 DEF DaemonMoves
    <2>3. CASE DaemonGenerate
      BY <2>3, GenerateSteps DEF DaemonMoves
    <2>4. CASE \E t \in Threads : DaemonEnd(t)
      BY <2>4, EndSteps DEF DaemonMoves
    <2> QED BY <1>4, <2>1, <2>2, <2>3, <2>4 DEF Daemon
  <1>5. Threads \subseteq Callers /\ Prewarmer \in Callers
    BY DEF Callers
  <1> QED BY <1>1, <1>2, <1>3, <1>4, <1>5 DEF Next

-----------------------------------------------------------------------------
(* Types *)

(* A runtime that forgot its model after a failed reset. *)
LEMMA PoisonedTyped ==
  ASSUME TypeInv
  PROVE  /\ Poisoned \in [path : Models \cup {NoModel}, max_seq : Nat, cache : BOOLEAN,
                          batch : BOOLEAN, eligible : BOOLEAN]
         /\ Poisoned.path = NoModel /\ Poisoned.max_seq = 0
  <1>1. rt.eligible \in BOOLEAN
    BY DEF TypeInv, TypeOK
  <1> QED BY <1>1 DEF Poisoned, Unloaded

(* The steps of a request keep the types. *)
LEMMA TypesThread ==
  ASSUME TypeInv, NEW t \in Threads, ThreadMoves(t)
  PROVE  TypeInv'
  <1> USE ActorFacts DEF TypeInv, TypeOK, LineTypes, gate, serve, call, back, Generating, Hears
  <1>1. CASE Classify(t)
    BY <1>1 DEF Classify, Goto, Places
  <1>2. CASE AcquireShared(t)
    BY <1>2 DEF AcquireShared, Gate!GrantShared, Gate!Leases, Places
  <1>3. CASE AcquireAlone(t)
    BY <1>3 DEF AcquireAlone, Gate!GrantExclusive, Gate!Leases, Places
  <1>4. CASE Refuse(t)
    BY <1>4 DEF Refuse, Goto, Places
  <1>5. CASE ResetSends(t)
    <2>1. [kind |-> "reset"] \in Messages
      BY DEF Messages
    <2> QED BY <1>5, <2>1, AppendAt DEF ResetSends, Places
  <1>6. CASE ResetSkips(t)
    BY <1>6 DEF ResetSkips, Places
  <1>7. CASE ResetDone(t)
    <2>1. Head(ctl) \in Replies /\ Tail(ctl) \in Seq(Replies)
      BY <1>7, TailAt DEF ResetDone
    <2> QED BY <1>7, <2>1 DEF ResetDone, Replies, Places
  <1>8. CASE BudgetGrows(t)
    BY <1>8 DEF BudgetGrows, Places
  <1>9. CASE BudgetFits(t)
    BY <1>9 DEF BudgetFits, Places
  <1>10. CASE Unlock(t)
    BY <1>10 DEF Unlock, Goto, Places
  <1>11. CASE Send(t)
    <2>1. [kind |-> "generate", thread |-> t] \in Messages
      BY DEF Messages
    <2> QED BY <1>11, <2>1, AppendAt DEF Send, Goto, Places
  <1>12. CASE Returns(t)
    <2>1. meta' \in [current : Models \cup {NoModel}, loading : Models \cup {NoModel}, expired : BOOLEAN]
      BY <1>12 DEF Returns
    <2>2. pc' \in [Actors -> Places]
      BY <1>12 DEF Returns, Places
    <2>3. lease' \in [Threads -> Gate!Leases]
      BY <1>12 DEF Returns, Gate!Leases, Gate!Free
    <2> QED BY <1>12, <2>1, <2>2, <2>3 DEF Returns
  <1>13. CASE Retries(t)
    BY <1>13 DEF Retries, Places
  <1>14. CASE GivesUp(t)
    BY <1>14 DEF GivesUp, Places
  <1>15. CASE RequestFails(t)
    <2>1. PICK why \in {"fatal", "transient"} : Leaves(t, why)
      BY <1>15 DEF RequestFails
    <2>2. rt' \in {rt, Poisoned} /\ (ctl' = ctl \/ (ctl # << >> /\ ctl' = Tail(ctl)))
      BY <1>15 DEF RequestFails, EnsureFails
    <2>3. ctl' \in Seq(Replies)
      <3>1. ctl # << >> => Tail(ctl) \in Seq(Replies)
        BY TailAt
      <3> QED BY <2>2, <3>1
    <2>4. rt' \in [path : Models \cup {NoModel}, max_seq : Nat, cache : BOOLEAN,
                   batch : BOOLEAN, eligible : BOOLEAN]
      <3>1. CASE rt' = rt
        BY <3>1
      <3>2. CASE rt' = Poisoned
        BY <3>2, PoisonedTyped
      <3> QED BY <2>2, <3>1, <3>2
    <2>5. lease' \in [Threads -> Gate!Leases] /\ pc' \in [Actors -> Places]
          /\ result' \in [Threads -> {"none", "ok", "fatal", "transient"}]
      BY <2>1 DEF Leaves, Gate!Leases, Gate!Free, Places
    <2> QED BY <2>1, <2>3, <2>4, <2>5 DEF Leaves
  <1> QED BY <1>1, <1>2, <1>3, <1>4, <1>5, <1>6, <1>7, <1>8, <1>9, <1>10, <1>11, <1>12, <1>13,
            <1>14, <1>15 DEF ThreadMoves

(* ensure_model keeps the types. *)
LEMMA TypesCaller ==
  ASSUME TypeInv, NEW a \in Callers, CallerMoves(a)
  PROVE  TypeInv'
  <1> USE DEF TypeInv, TypeOK, LineTypes, gate, serve, call, back, Generating, Hears
  <1>0. a \in Actors /\ Wanted(a) \in Models \cup {NoModel} /\ Size(a) \in Nat
        /\ After(a) \in Places /\ (lock' = Owner(a) => lock' \in Actors \cup {NoOwner})
    <2>1. a \in Actors /\ Wanted(a) \in Models \cup {NoModel} /\ min[a] \in Nat
      BY ActorFacts DEF Callers
    <2>2. Size(a) \in Nat
      BY <2>1, MaxFacts, ActorFacts DEF Size
    <2> QED BY <2>1, <2>2 DEF After, Owner, Places
  <1> USE <1>0
  <1>1. CASE Enter(a)
    BY <1>1 DEF Enter, Goto, Places
  <1>2. CASE EnsureLoads(a)
    <2>1. LoadLine(a) \in Messages
      BY DEF LoadLine, Messages
    <2>2. wire' \in Seq(Messages)
      BY <1>2, <2>1, AppendAt DEF EnsureLoads
    <2> QED BY <1>2, <2>2 DEF EnsureLoads, Places
  <1>3. CASE EnsureSkips(a)
    BY <1>3 DEF EnsureSkips
  <1>4. CASE Publishes(a)
    <2>0. ctl # << >> /\ ctl' = Tail(ctl) /\ UNCHANGED << shared, min, attempt, wire, daemon, running, faults >>
      BY <1>4 DEF Publishes
    <2>1. Head(ctl) \in Replies /\ ctl' \in Seq(Replies)
      BY <2>0, TailAt
    <2>2. PICK e : e \in {Head(ctl).eligible, rt.eligible} /\ rt' = Published(a, e)
      BY <1>4 DEF Publishes
    <2>3. e \in BOOLEAN
      BY <2>1, <2>2 DEF Replies
    <2>4. rt' \in [path : Models \cup {NoModel}, max_seq : Nat, cache : BOOLEAN,
                   batch : BOOLEAN, eligible : BOOLEAN]
      BY <2>2, <2>3 DEF Published
    <2>5. /\ meta' \in [current : Models \cup {NoModel}, loading : Models \cup {NoModel}, expired : BOOLEAN]
          /\ pc' \in [Actors -> Places] /\ lock' \in Actors \cup {NoOwner}
      BY <1>4 DEF Publishes
    <2>6. UNCHANGED << lease, result >>
      BY <1>4 DEF Publishes
    <2> QED BY <2>0, <2>1, <2>4, <2>5, <2>6
  <1>5. CASE LoadedCold(a)
    <2>1. Head(ctl) \in Replies /\ Tail(ctl) \in Seq(Replies)
      BY <1>5, TailAt DEF LoadedCold
    <2> QED BY <1>5, <2>1 DEF LoadedCold, Replies, Places
  <1>6. CASE LoadSkips(a)
    <2>1. Tail(ctl) \in Seq(Replies)
      BY <1>6, TailAt DEF LoadSkips
    <2> QED BY <1>6, <2>1 DEF LoadSkips
  <1>7. CASE SendWarm(a)
    <2>1. [kind |-> "warm"] \in Messages
      BY DEF Messages
    <2> QED BY <1>7, <2>1, AppendAt DEF SendWarm, Goto, Places
  <1> QED BY <1>1, <1>2, <1>3, <1>4, <1>5, <1>6, <1>7 DEF CallerMoves

(* The threads without a lease keep the types. *)
LEMMA TypesSide ==
  ASSUME TypeInv, SideMoves
  PROVE  TypeInv'
  <1> USE ActorFacts DEF TypeInv, TypeOK, LineTypes, gate, serve, call, back, Generating, Hears
  <1>1. CASE PrewarmFails
    <2>1. ctl # << >> /\ ctl' = Tail(ctl) /\ UNCHANGED << shared, min, attempt, wire, daemon, running, faults >>
      BY <1>1 DEF PrewarmFails, EnsureFails
    <2>2. ctl' \in Seq(Replies)
      BY <2>1, TailAt
    <2> QED BY <1>1, <2>1, <2>2 DEF PrewarmFails, Places
  <1>2. CASE PrewarmAnnounce
    BY <1>2 DEF PrewarmAnnounce, Goto, Places
  <1>3. CASE finish_prewarm
    <2>1. meta' \in [current : Models \cup {NoModel}, loading : Models \cup {NoModel}, expired : BOOLEAN]
      BY <1>3 DEF finish_prewarm
    <2> QED BY <1>3, <2>1 DEF finish_prewarm, Goto, Places
  <1>4. CASE Expire
    BY <1>4 DEF Expire
  <1>5. CASE IdleLook
    BY <1>5 DEF IdleLook, Goto, Places
  <1>6. CASE IdleExpired
    BY <1>6 DEF IdleExpired, Goto, Places
  <1>7. CASE IdleSends
    <2>1. [kind |-> "unload"] \in Messages
      BY DEF Messages
    <2> QED BY <1>7, <2>1, AppendAt DEF IdleSends, Places
  <1>8. CASE IdleSkips
    BY <1>8 DEF IdleSkips, Places
  <1>9. CASE IdleForgets
    <2>1. Tail(ctl) \in Seq(Replies)
      BY <1>9, TailAt DEF IdleForgets
    <2> QED BY <1>9, <2>1 DEF IdleForgets, forget_model, Places
  <1>10. CASE IdleKeeps
    <2>1. Tail(ctl) \in Seq(Replies)
      BY <1>10, TailAt DEF IdleKeeps
    <2> QED BY <1>10, <2>1 DEF IdleKeeps, Places
  <1>11. CASE IdleClear
    BY <1>11 DEF IdleClear, Goto, Places
  <1> QED BY <1>1, <1>2, <1>3, <1>4, <1>5, <1>6, <1>7, <1>8, <1>9, <1>10, <1>11 DEF SideMoves

(* The daemon keeps the types. *)
LEMMA TypesDaemon ==
  ASSUME TypeInv, DaemonMoves
  PROVE  TypeInv'
  <1> USE ActorFacts DEF TypeInv, TypeOK, LineTypes, gate, serve, call, back, Generating
  <1>0. ASSUME NEW kind, Takes(kind)
        PROVE  Head(wire) \in Messages /\ Tail(wire) \in Seq(Messages) /\ Head(wire).kind = kind
    BY <1>0, TailAt DEF Takes
  <1>a. ASSUME NEW kind, NEW k \in {"decode_result", "reset", "unloaded", "pflash", "error", "transient"},
               Takes(kind), ctl' = Append(ctl, Line(k))
        PROVE  ctl' \in Seq(Replies)
    <2>1. Line(k) \in Replies
      BY DEF Line, Replies
    <2> QED BY <1>a, <2>1, AppendAt
  <1>b. ASSUME NEW what \in {"load", "warm", "reset", "unload", "generate"}, faults' = Append(faults, what)
        PROVE  faults' \in Seq({"load", "warm", "reset", "unload", "generate"})
    BY <1>b, AppendAt
  <1>c. ASSUME NEW kind, NEW k \in {"decode_result", "reset", "unloaded", "pflash", "error", "transient"},
               Answers(kind, k)
        PROVE  /\ ctl' \in Seq(Replies) /\ wire' \in Seq(Messages)
               /\ UNCHANGED << lease, shared, lock, rt, meta, pc, min, attempt, result, running >>
    BY <1>0, <1>a, <1>c DEF Answers
  <1>1. CASE Loads
    <2>1. /\ Head(wire) \in Messages /\ Tail(wire) \in Seq(Messages) /\ Head(wire).kind = "load"
      BY <1>0, <1>1 DEF Loads
    <2>2. Head(wire).model \in Models \cup {NoModel} /\ Head(wire).seq \in Nat
      BY <2>1 DEF Messages
    <2>3. [kind |-> "loaded", eligible |-> Head(wire).model \in RetryModels] \in Replies
      BY DEF Replies
    <2>4. ctl' \in Seq(Replies)
      BY <1>1, <2>3, AppendAt DEF Loads
    <2>5. << [kind |-> "notice"] >> \in Seq(Messages)
      BY DEF Messages
    <2>6. << [kind |-> "notice"] >> \o Tail(wire) \in Seq(Messages)
      BY <2>1, <2>5, ConcatProperties
    <2>7. wire' \in Seq(Messages)
      BY <1>1, <2>1, <2>6 DEF Loads
    <2> QED BY <1>1, <2>2, <2>4, <2>7 DEF Loads
  <1>2. CASE LoadBreaks
    BY <1>2, <1>b, <1>c DEF LoadBreaks, FailsAt, NoDaemonModel
  <1>3. CASE DaemonNotice
    BY <1>0, <1>a, <1>3 DEF DaemonNotice
  <1>4. CASE WarmAnswers
    BY <1>4, <1>b, <1>c DEF WarmAnswers, FailsAt
  <1>5. CASE ResetAnswers
    <2>1. CASE \E k \in {"reset", "error"} : Answers("reset", k) /\ UNCHANGED faults
               /\ daemon' = [daemon EXCEPT !.used = FALSE]
      <3>1. PICK k \in {"reset", "error"} : Answers("reset", k)
        BY <2>1
      <3>2. /\ ctl' \in Seq(Replies) /\ wire' \in Seq(Messages)
            /\ UNCHANGED << lease, shared, lock, rt, meta, pc, min, attempt, result, running >>
        BY <1>c, <3>1
      <3>3. daemon' \in [model : Models \cup {NoModel}, seq : Nat, used : BOOLEAN]
        BY <2>1
      <3> QED BY <2>1, <3>2, <3>3
    <2>2. CASE Answers("reset", "transient") /\ FailsAt("reset") /\ UNCHANGED daemon
      BY <2>2, <1>b, <1>c DEF FailsAt
    <2> QED BY <1>5, <2>1, <2>2 DEF ResetAnswers
  <1>6. CASE Unloads
    BY <1>6, <1>b, <1>c DEF Unloads, FailsAt, NoDaemonModel
  <1>7. CASE DropLine
    <2>1. Tail(ctl) \in Seq(Replies)
      BY <1>7, TailAt DEF DropLine
    <2> QED BY <1>7, <2>1 DEF DropLine
  <1>8. ASSUME NEW t \in Threads, Refuses(t)
        PROVE  TypeInv'
    BY <1>0, <1>8 DEF Refuses
  <1>9. ASSUME NEW t \in Threads, Ends(t)
        PROVE  TypeInv'
    <2>1. faults' \in Seq({"load", "warm", "reset", "unload", "generate"})
      BY <1>9, <1>b DEF Ends, FailsAt
    <2>2. result' \in [Threads -> {"none", "ok", "fatal", "transient"}]
      BY <1>9 DEF Ends
    <2>3. DOMAIN running' \subseteq Threads
          /\ \A u \in DOMAIN running' : running'[u] \in [model : Models, seq : Nat, used : BOOLEAN, batched : BOOLEAN]
      BY <1>9 DEF Ends
    <2> QED BY <1>9, <2>1, <2>2, <2>3 DEF Ends
  <1>10. ASSUME NEW t \in Threads, NEW b \in BOOLEAN, Starts(t, b)
         PROVE  TypeInv'
    <2>0. PICK d \in {daemon.used, TRUE} : daemon' = [daemon EXCEPT !.used = d]
      BY <1>10 DEF Starts
    <2>1. wire' \in Seq(Messages) /\ daemon' \in [model : Models \cup {NoModel}, seq : Nat, used : BOOLEAN]
      <3>1. wire' \in Seq(Messages)
        BY <1>0, <1>10 DEF Starts
      <3>2. d \in BOOLEAN
        OBVIOUS
      <3> QED BY <2>0, <3>1, <3>2
    <2>2. Starting(b) \in [model : Models, seq : Nat, used : BOOLEAN, batched : BOOLEAN]
      BY <1>10 DEF Starts, Starting
    <2>3. DOMAIN running' \subseteq Threads
          /\ \A u \in DOMAIN running' : running'[u] \in [model : Models, seq : Nat, used : BOOLEAN, batched : BOOLEAN]
      BY <1>10, <2>2 DEF Starts
    <2> QED BY <1>10, <2>1, <2>3 DEF Starts
  <1> HIDE DEF TypeInv
  <1> QED BY <1>1, <1>2, <1>3, <1>4, <1>5, <1>6, <1>7, <1>8, <1>9, <1>10 DEF DaemonMoves

(* Every step keeps the types. *)
LEMMA TypesStep ==
  ASSUME TypeInv, [Next]_vars
  PROVE  TypeInv'
  <1>1. CASE Next
    BY <1>1, NextMoves, TypesThread, TypesCaller, TypesSide, TypesDaemon DEF Moves
  <1>2. CASE UNCHANGED vars
    BY <1>2 DEF vars, gate, serve, call, back, TypeInv, TypeOK, LineTypes, Generating
  <1> QED BY <1>1, <1>2

(* The types hold in every reachable state. *)
LEMMA TypesHold == Spec => []TypeInv
  BY InitTypes, TypesStep, PTL DEF Spec

(* TypeOK: every variable of the serve layer, of its threads and of the daemon has its    *)
(* type in every reachable state: an attempt is the first or the only retry, and whatever *)
(* runs in the daemon runs for a request thread, on a model.                              *)
THEOREM TypeCorrect == Spec => []TypeOK
  <1>1. TypeInv => TypeOK
    BY DEF TypeInv
  <1> QED BY <1>1, TypesHold, PTL

-----------------------------------------------------------------------------
(* The lock, the leases and the lines, whatever the constants *)

\* Where the runtime lock is held, and where a lease is.
Locked == {"ensuring", "loading", "warm", "warming", "ensured", "resetting", "budget",
           "sized", "unloading"}
Holding == (Locked \ {"unloading"}) \cup {"admitted", "built", "generating"}
ThreadPlaces == Holding \cup {"new", "classed", "failed", "backoff", "done"}

\* Who is where, which call a min belongs to, and which requests share.
PlaceInv ==
  /\ \A t \in Threads : pc[t] \in ThreadPlaces
  /\ pc[Prewarmer] \in {"new", "announced", "ensuring", "loading", "warm", "warming", "warmed",
                        "cold", "done"}
  /\ pc[Evictor] \in {"sleep", "quiet", "expired", "unloading", "clearing"}
  /\ PrewarmModel = NoModel => pc[Prewarmer] = "done"
  /\ ~ IdleUnload => pc[Evictor] = "sleep"

RequestInv ==
  /\ min[Prewarmer] = 0
  /\ \A t \in Threads :
       /\ pc[t] \in Locked => min[t] \in {0, Needs[t]}
       /\ pc[t] = "new" => attempt[t] = 1
       /\ attempt[t] = 2 => shared[t] = FALSE
       /\ shared[t] = TRUE => t \in MayBatch

\* The lock belongs to the actor whose place needs it.
LockInv == \A a \in Actors : pc[a] \in Locked <=> lock = a

\* The lease of a request goes with its place and its class; two requests hold leases
\* together only if both share, and then they name the same model.
LeaseInv ==
  /\ \A t \in Threads : lease[t] # Gate!Free <=> pc[t] \in Holding
  /\ \A t \in Threads : pc[t] \in Holding =>
       lease[t] = IF shared[t] = TRUE THEN SharedLease(t) ELSE AloneLease
  /\ \A t, u \in Threads : pc[t] \in Holding /\ pc[u] \in Holding /\ t # u =>
       shared[t] = TRUE /\ shared[u] = TRUE /\ ModelOf[t] = ModelOf[u]

\* A generation belongs to a request that waits for it, and so does a generate on the
\* wire; a request has one or the other, and one of it.
GenerateInv ==
  /\ \A t \in Threads : pc[t] \notin {"generating", "failed", "done"} => result[t] = "none"
  /\ \A t \in Generating : pc[t] = "generating" /\ result[t] = "none"
  /\ \A i \in 1 .. Len(wire) : wire[i].kind = "generate" =>
       /\ pc[wire[i].thread] = "generating" /\ result[wire[i].thread] = "none"
       /\ wire[i].thread \notin Generating
  /\ \A i, j \in 1 .. Len(wire) :
       wire[i].kind = "generate" /\ wire[j].kind = "generate" /\ wire[i].thread = wire[j].thread
         => i = j

\* What the runtime believes of a model is what the model can do; under the lock a request
\* past ensure_model is on its own model.
RuntimeInv ==
  /\ rt.path # NoModel => /\ rt.cache = (rt.path \in CacheModels)
                          /\ rt.batch = (rt.path \in BatchModels)
                          /\ rt.max_seq >= DefaultSeq
  /\ \A t \in Threads : pc[t] \in {"ensured", "resetting", "budget", "sized"} =>
       rt.path = ModelOf[t]

BaseInv == TypeInv /\ PlaceInv /\ RequestInv /\ LockInv /\ LeaseInv /\ GenerateInv /\ RuntimeInv

(* The daemon touches nothing of the serve layer but the results. *)
LEMMA DaemonFrame ==
  ASSUME DaemonMoves
  PROVE  UNCHANGED << lease, shared, lock, rt, meta, pc, min, attempt >>
  <1> USE DEF gate, serve, call
  <1>1. CASE Loads \/ LoadBreaks \/ DaemonNotice \/ WarmAnswers \/ ResetAnswers \/ Unloads \/ DropLine
    BY <1>1 DEF Loads, LoadBreaks, DaemonNotice, WarmAnswers, ResetAnswers, Unloads, DropLine, Answers
  <1>2. CASE \E t \in Threads : Refuses(t) \/ Ends(t) \/ \E b \in BOOLEAN : Starts(t, b)
    BY <1>2 DEF Refuses, Ends, Starts
  <1> QED BY <1>1, <1>2 DEF DaemonMoves

(* The places of the actors. *)
LEMMA PlaceStep ==
  ASSUME TypeInv, PlaceInv, LockInv, Moves
  PROVE  PlaceInv' /\ LockInv'
  <1>0. pc \in [Actors -> Places] /\ min \in [Actors -> Nat] /\ lock \in Actors \cup {NoOwner}
    BY DEF TypeInv, TypeOK
  <1> USE <1>0, ActorFacts DEF PlaceInv, LockInv, gate, serve, call, back, Hears
  <1>1. ASSUME NEW t \in Threads, ThreadMoves(t)
        PROVE  PlaceInv' /\ LockInv'
    <2> USE DEF ThreadPlaces, Holding, Locked
    <2>1. CASE Classify(t)
      BY <2>1 DEF Classify, Goto
    <2>2. CASE AcquireShared(t)
      BY <2>2 DEF AcquireShared
    <2>3. CASE AcquireAlone(t)
      BY <2>3 DEF AcquireAlone
    <2>4. CASE Refuse(t)
      BY <2>4 DEF Refuse, Goto
    <2>5. CASE ResetSends(t)
      BY <2>5 DEF ResetSends
    <2>6. CASE ResetSkips(t)
      BY <2>6 DEF ResetSkips
    <2>7. CASE ResetDone(t)
      BY <2>7 DEF ResetDone
    <2>8. CASE BudgetGrows(t)
      BY <2>8 DEF BudgetGrows
    <2>9. CASE BudgetFits(t)
      BY <2>9 DEF BudgetFits
    <2>10. CASE Unlock(t)
      BY <2>10 DEF Unlock, Goto
    <2>11. CASE Send(t)
      BY <2>11 DEF Send, Goto
    <2>12. CASE Returns(t)
      BY <2>12 DEF Returns
    <2>13. CASE Retries(t)
      BY <2>13 DEF Retries
    <2>14. CASE GivesUp(t)
      BY <2>14 DEF GivesUp
    <2>15. CASE RequestFails(t)
      <3>1. pc[t] \in {"loading", "warming", "resetting", "budget"} /\ lock' = NoOwner
            /\ pc' = [pc EXCEPT ![t] = "failed"]
        BY <2>15 DEF RequestFails, EnsureFails, Leaves
      <3> QED BY <3>1
    <2> QED BY <1>1, <2>1, <2>2, <2>3, <2>4, <2>5, <2>6, <2>7, <2>8, <2>9, <2>10, <2>11, <2>12, <2>13,
              <2>14, <2>15 DEF ThreadMoves
  <1>2. ASSUME NEW a \in Callers, CallerMoves(a)
        PROVE  PlaceInv' /\ LockInv'
    <2> USE DEF ThreadPlaces, Holding, Locked
    <2>0. a \in Actors /\ a # Evictor /\ (a = Prewarmer \/ a \in Threads)
      BY DEF Callers
    <2>a. ASSUME pc[a] \in {"ensuring", "loading", "warming"}, pc' = [pc EXCEPT ![a] = After(a)],
                 lock' = Owner(a)
          PROVE  PlaceInv' /\ LockInv'
      <3>1. CASE a = Prewarmer
        <4>1. pc' = [pc EXCEPT ![Prewarmer] = "warmed"] /\ lock' = NoOwner
          BY <2>a, <3>1 DEF After, Owner
        <4> QED BY <2>a, <3>1, <4>1
      <3>2. CASE a # Prewarmer
        <4>1. lock' = lock /\ After(a) \in {"ensured", "sized"}
          BY <2>a, <3>2 DEF After, Owner
        <4> QED BY <2>0, <2>a, <3>2, <4>1
      <3> QED BY <3>1, <3>2
    <2>1. CASE Enter(a)
      BY <2>0, <2>1 DEF Enter, Goto
    <2>2. CASE EnsureLoads(a)
      BY <2>0, <2>2 DEF EnsureLoads
    <2>3. CASE EnsureSkips(a)
      BY <2>a, <2>3 DEF EnsureSkips
    <2>4. CASE Publishes(a)
      <3>1. pc[a] \in {"ensuring", "loading", "warming"} /\ pc' = [pc EXCEPT ![a] = After(a)] /\ lock' = Owner(a)
        BY <2>4 DEF Publishes
      <3> QED BY <2>a, <3>1
    <2>5. CASE LoadedCold(a)
      BY <2>0, <2>5 DEF LoadedCold
    <2>6. CASE LoadSkips(a)
      BY <2>0, <2>6 DEF LoadSkips
    <2>7. CASE SendWarm(a)
      BY <2>0, <2>7 DEF SendWarm, Goto
    <2> QED BY <1>2, <2>1, <2>2, <2>3, <2>4, <2>5, <2>6, <2>7 DEF CallerMoves
  <1>3. ASSUME SideMoves
        PROVE  PlaceInv' /\ LockInv'
    <2> USE DEF Locked
    <2>1. CASE PrewarmFails
      <3>1. pc[Prewarmer] \in {"loading", "warming"} /\ lock' = NoOwner
            /\ pc' = [pc EXCEPT ![Prewarmer] = "cold"]
        BY <2>1 DEF PrewarmFails, EnsureFails
      <3> QED BY <3>1
    <2>2. CASE PrewarmAnnounce
      BY <2>2 DEF PrewarmAnnounce, Goto
    <2>3. CASE finish_prewarm
      BY <2>3 DEF finish_prewarm, Goto
    <2>4. CASE Expire
      BY <2>4 DEF Expire
    <2>5. CASE IdleLook
      BY <2>5 DEF IdleLook, Goto
    <2>6. CASE IdleExpired
      <3>1. \E p \in {"expired", "sleep"} : pc' = [pc EXCEPT ![Evictor] = p]
        BY <2>6 DEF IdleExpired, Goto
      <3> QED BY <2>6, <3>1 DEF IdleExpired
    <2>7. CASE IdleSends
      BY <2>7 DEF IdleSends
    <2>8. CASE IdleSkips
      BY <2>8 DEF IdleSkips
    <2>9. CASE IdleForgets
      BY <2>9 DEF IdleForgets
    <2>10. CASE IdleKeeps
      BY <2>10 DEF IdleKeeps
    <2>11. CASE IdleClear
      BY <2>11 DEF IdleClear, Goto
    <2> QED BY <1>3, <2>1, <2>2, <2>3, <2>4, <2>5, <2>6, <2>7, <2>8, <2>9, <2>10, <2>11 DEF SideMoves
  <1>4. ASSUME DaemonMoves
        PROVE  PlaceInv' /\ LockInv'
    <2>1. pc' = pc /\ lock' = lock
      BY <1>4, DaemonFrame
    <2> QED BY <2>1
  <1> HIDE DEF PlaceInv, LockInv
  <1> QED BY <1>1, <1>2, <1>3, <1>4 DEF Moves

(* The threads without a lease touch neither leases nor results nor the daemon. *)
LEMMA SideFrame ==
  ASSUME TypeInv, SideMoves
  PROVE  /\ UNCHANGED << lease, shared, min, attempt, result, daemon, running, faults >>
         /\ \A t \in Threads : pc'[t] = pc[t]
  <1>0. pc \in [Actors -> Places]
    BY DEF TypeInv, TypeOK
  <1> USE <1>0, ActorFacts DEF gate, serve, call, back, Hears
  <1>1. CASE PrewarmFails
    BY <1>1 DEF PrewarmFails, EnsureFails
  <1>2. CASE PrewarmAnnounce \/ finish_prewarm
    BY <1>2 DEF PrewarmAnnounce, finish_prewarm, Goto
  <1>3. CASE Expire
    BY <1>3 DEF Expire
  <1>4. CASE IdleLook \/ IdleExpired \/ IdleClear
    BY <1>4 DEF IdleLook, IdleExpired, IdleClear, Goto
  <1>5. CASE IdleSends \/ IdleSkips
    BY <1>5 DEF IdleSends, IdleSkips
  <1>6. CASE IdleForgets \/ IdleKeeps
    BY <1>6 DEF IdleForgets, IdleKeeps
  <1> QED BY <1>1, <1>2, <1>3, <1>4, <1>5, <1>6 DEF SideMoves

\* Where a request can be inside ensure_model, and right before and after it.
Inside == {"admitted", "ensuring", "loading", "warm", "warming", "ensured", "sized"}

(* ensure_model moves its caller only, and touches neither leases nor results nor the  *)
(* daemon itself.                                                                      *)
LEMMA CallerFrame ==
  ASSUME TypeInv, NEW a \in Callers, CallerMoves(a)
  PROVE  /\ UNCHANGED << lease, shared, attempt, result, daemon, running, faults >>
         /\ \A b \in Actors : b # a => pc'[b] = pc[b] /\ min'[b] = min[b]
         /\ a \in Threads => pc[a] \in Inside /\ pc'[a] \in Inside
         /\ min'[a] = IF Enter(a) THEN 0 ELSE min[a]
  <1>0. pc \in [Actors -> Places] /\ min \in [Actors -> Nat] /\ a \in Actors
    BY ActorFacts DEF TypeInv, TypeOK, Callers
  <1>a. a \in Threads => After(a) \in {"ensured", "sized"}
    BY ActorFacts DEF After
  <1> USE <1>0, <1>a DEF gate, serve, call, back, Hears, Inside
  <1>1. CASE Enter(a)
    BY <1>1, ActorFacts DEF Enter, Goto
  <1>2. CASE EnsureLoads(a) /\ ~ Enter(a)
    BY <1>2 DEF EnsureLoads
  <1>3. CASE EnsureSkips(a) /\ ~ Enter(a)
    BY <1>3 DEF EnsureSkips
  <1>4. CASE Publishes(a) /\ ~ Enter(a)
    BY <1>4 DEF Publishes
  <1>5. CASE LoadedCold(a) /\ ~ Enter(a)
    BY <1>5 DEF LoadedCold
  <1>6. CASE LoadSkips(a) /\ ~ Enter(a)
    BY <1>6 DEF LoadSkips
  <1>7. CASE SendWarm(a) /\ ~ Enter(a)
    BY <1>7 DEF SendWarm, Goto
  <1> QED BY <1>1, <1>2, <1>3, <1>4, <1>5, <1>6, <1>7 DEF CallerMoves

(* The numbers and classes of a request. *)
LEMMA RequestStep ==
  ASSUME TypeInv, PlaceInv, RequestInv, Moves
  PROVE  RequestInv'
  <1>0. pc \in [Actors -> Places] /\ min \in [Actors -> Nat] /\ attempt \in [Threads -> {1, 2}]
        /\ shared \in [Threads -> BOOLEAN]
    BY DEF TypeInv, TypeOK
  <1> USE <1>0, ActorFacts DEF RequestInv, gate, serve, call, back, Hears
  <1>1. ASSUME NEW t \in Threads, ThreadMoves(t)
        PROVE  RequestInv'
    <2> USE DEF Locked
    <2>1. CASE Classify(t)
      <3>1. shared' = [shared EXCEPT ![t] = rt.batch /\ t \in MayBatch] /\ pc[t] = "new"
            /\ pc' = [pc EXCEPT ![t] = "classed"] /\ UNCHANGED << min, attempt >>
        BY <2>1 DEF Classify, Goto
      <3>2. shared'[t] = TRUE => t \in MayBatch
        BY <3>1
      <3>3. attempt[t] # 2
        BY <3>1
      <3> QED BY <3>1, <3>2, <3>3
    <2>2. CASE AcquireShared(t)
      BY <2>2 DEF AcquireShared
    <2>3. CASE AcquireAlone(t)
      BY <2>3 DEF AcquireAlone
    <2>4. CASE Refuse(t)
      BY <2>4 DEF Refuse, Goto
    <2>5. CASE ResetSends(t)
      BY <2>5 DEF ResetSends
    <2>6. CASE ResetSkips(t)
      BY <2>6 DEF ResetSkips
    <2>7. CASE ResetDone(t)
      BY <2>7 DEF ResetDone
    <2>8. CASE BudgetGrows(t)
      BY <2>8 DEF BudgetGrows
    <2>9. CASE BudgetFits(t)
      BY <2>9 DEF BudgetFits
    <2>10. CASE Unlock(t)
      BY <2>10 DEF Unlock, Goto
    <2>11. CASE Send(t)
      BY <2>11 DEF Send, Goto
    <2>12. CASE Returns(t)
      BY <2>12 DEF Returns
    <2>13. CASE Retries(t)
      BY <2>13 DEF Retries
    <2>14. CASE GivesUp(t)
      BY <2>14 DEF GivesUp
    <2>15. CASE RequestFails(t)
      <3>1. pc' = [pc EXCEPT ![t] = "failed"] /\ UNCHANGED << min, shared, attempt >>
        BY <2>15 DEF RequestFails, Leaves
      <3> QED BY <3>1
    <2> QED BY <1>1, <2>1, <2>2, <2>3, <2>4, <2>5, <2>6, <2>7, <2>8, <2>9, <2>10, <2>11, <2>12, <2>13,
              <2>14, <2>15 DEF ThreadMoves
  <1>2. ASSUME NEW a \in Callers, CallerMoves(a)
        PROVE  RequestInv'
    <2>1. /\ UNCHANGED << shared, attempt >>
          /\ \A b \in Actors : b # a => pc'[b] = pc[b] /\ min'[b] = min[b]
          /\ a \in Threads => pc[a] \in Inside /\ pc'[a] \in Inside
          /\ min'[a] = IF Enter(a) THEN 0 ELSE min[a]
      BY <1>2, CallerFrame
    <2>2. a \in Threads /\ ~ Enter(a) => pc[a] \in Locked
      BY <1>2 DEF CallerMoves, EnsureLoads, EnsureSkips, Publishes, LoadedCold, LoadSkips, SendWarm, Locked
    <2> QED BY <2>1, <2>2 DEF Inside, Callers
  <1>3. ASSUME SideMoves
        PROVE  RequestInv'
    <2>1. UNCHANGED << shared, min, attempt >> /\ \A t \in Threads : pc'[t] = pc[t]
      BY <1>3, SideFrame
    <2> QED BY <2>1
  <1>4. ASSUME DaemonMoves
        PROVE  RequestInv'
    <2>1. UNCHANGED << pc, shared, min, attempt >>
      BY <1>4, DaemonFrame
    <2> QED BY <2>1
  <1> HIDE DEF RequestInv
  <1> QED BY <1>1, <1>2, <1>3, <1>4 DEF Moves

(* Leases follow places. *)
LEMMA LeaseStep ==
  ASSUME TypeInv, PlaceInv, LeaseInv, Moves
  PROVE  LeaseInv'
  <1>0. pc \in [Actors -> Places] /\ lease \in [Threads -> Gate!Leases] /\ shared \in [Threads -> BOOLEAN]
    BY DEF TypeInv, TypeOK
  <1> USE <1>0, ActorFacts DEF LeaseInv, gate, serve, call, back, Hears, SharedLease, AloneLease, Gate!Free
  \* A step of t between two places that both hold a lease, or both do not.
  <1>a. ASSUME NEW t \in Threads, NEW p, pc' = [pc EXCEPT ![t] = p], UNCHANGED << lease, shared >>,
               pc[t] \in Holding <=> p \in Holding
        PROVE  LeaseInv'
    BY <1>a
  \* A step of t that gives its lease back.
  <1>b. ASSUME NEW t \in Threads, NEW p, pc' = [pc EXCEPT ![t] = p], UNCHANGED shared,
               p \notin Holding, lease' = [lease EXCEPT ![t] = Gate!Free]
        PROVE  LeaseInv'
    BY <1>b
  <1>1. ASSUME NEW t \in Threads, ThreadMoves(t)
        PROVE  LeaseInv'
    <2> USE DEF Holding, Locked
    <2>1. CASE Classify(t)
      <3>1. pc[t] = "new" /\ pc' = [pc EXCEPT ![t] = "classed"] /\ UNCHANGED lease
            /\ \A u \in Threads : u # t => shared'[u] = shared[u]
        BY <2>1 DEF Classify, Goto
      <3> QED BY <3>1
    <2>2. CASE AcquireShared(t)
      <3>1. /\ pc[t] \notin Holding /\ pc' = [pc EXCEPT ![t] = "admitted"] /\ shared[t] = TRUE /\ UNCHANGED shared
            /\ lease' = [lease EXCEPT ![t] = [class |-> "shared", model |-> ModelOf[t]]]
        BY <2>2 DEF AcquireShared, Gate!GrantShared
      <3>2. \A u \in Threads : pc[u] \in Holding => lease[u].class = "shared" /\ Gate!Agree(lease[u].model, ModelOf[t])
        BY <2>2 DEF AcquireShared, Gate!GrantShared, Gate!Holders
      <3>3. \A u \in Threads : pc[u] \in Holding => shared[u] = TRUE /\ ModelOf[u] = ModelOf[t]
        BY <3>2 DEF Gate!Agree
      <3> QED BY <3>1, <3>3
    <2>3. CASE AcquireAlone(t)
      <3>1. /\ pc' = [pc EXCEPT ![t] = "admitted"] /\ shared[t] = FALSE /\ UNCHANGED shared
            /\ lease' = [lease EXCEPT ![t] = [class |-> "exclusive", model |-> NoModel]]
        BY <2>3 DEF AcquireAlone, Gate!GrantExclusive
      <3>2. \A u \in Threads : pc[u] \notin Holding
        BY <2>3 DEF AcquireAlone, Gate!GrantExclusive, Gate!Holders
      <3> QED BY <3>1, <3>2
    <2>4. CASE Refuse(t)
      BY <1>a, <2>4 DEF Refuse, Goto
    <2>5. CASE ResetSends(t)
      BY <1>a, <2>5 DEF ResetSends
    <2>6. CASE ResetSkips(t)
      BY <1>a, <2>6 DEF ResetSkips
    <2>7. CASE ResetDone(t)
      BY <1>a, <2>7 DEF ResetDone
    <2>8. CASE BudgetGrows(t)
      BY <1>a, <2>8 DEF BudgetGrows
    <2>9. CASE BudgetFits(t)
      BY <1>a, <2>9 DEF BudgetFits
    <2>10. CASE Unlock(t)
      BY <1>a, <2>10 DEF Unlock, Goto
    <2>11. CASE Send(t)
      BY <1>a, <2>11 DEF Send, Goto
    <2>12. CASE Returns(t)
      BY <1>b, <2>12 DEF Returns
    <2>13. CASE Retries(t)
      <3>1. pc[t] = "failed" /\ pc' = [pc EXCEPT ![t] = "backoff"] /\ UNCHANGED lease
            /\ \A u \in Threads : u # t => shared'[u] = shared[u]
        BY <2>13 DEF Retries
      <3> QED BY <3>1
    <2>14. CASE GivesUp(t)
      BY <1>a, <2>14 DEF GivesUp
    <2>15. CASE RequestFails(t)
      <3>1. pc' = [pc EXCEPT ![t] = "failed"] /\ lease' = [lease EXCEPT ![t] = Gate!Free] /\ UNCHANGED shared
        BY <2>15 DEF RequestFails, Leaves
      <3> QED BY <1>b, <3>1
    <2> QED BY <1>1, <2>1, <2>2, <2>3, <2>4, <2>5, <2>6, <2>7, <2>8, <2>9, <2>10, <2>11, <2>12, <2>13,
              <2>14, <2>15 DEF ThreadMoves
  <1>2. ASSUME NEW a \in Callers, CallerMoves(a)
        PROVE  LeaseInv'
    <2>1. /\ UNCHANGED << lease, shared >>
          /\ \A b \in Actors : b # a => pc'[b] = pc[b]
          /\ a \in Threads => pc[a] \in Inside /\ pc'[a] \in Inside
      BY <1>2, CallerFrame
    <2>2. \A t \in Threads : pc'[t] \in Holding <=> pc[t] \in Holding
      BY <2>1 DEF Inside, Holding, Locked
    <2> QED BY <2>1, <2>2
  <1>3. ASSUME SideMoves
        PROVE  LeaseInv'
    <2>1. UNCHANGED << lease, shared >> /\ \A t \in Threads : pc'[t] = pc[t]
      BY <1>3, SideFrame
    <2> QED BY <2>1
  <1>4. ASSUME DaemonMoves
        PROVE  LeaseInv'
    <2>1. UNCHANGED << pc, shared, lease >>
      BY <1>4, DaemonFrame
    <2> QED BY <2>1
  <1> HIDE DEF LeaseInv
  <1> QED BY <1>1, <1>2, <1>3, <1>4 DEF Moves

(* A request moves nobody else and leaves the daemon alone. *)
LEMMA ThreadFrame ==
  ASSUME TypeInv, NEW t \in Threads, ThreadMoves(t)
  PROVE  /\ UNCHANGED << daemon, running, faults >>
         /\ \A b \in Actors : b # t => pc'[b] = pc[b] /\ min'[b] = min[b]
         /\ \A u \in Threads : u # t => /\ shared'[u] = shared[u] /\ attempt'[u] = attempt[u]
                                       /\ result'[u] = result[u] /\ lease'[u] = lease[u]
  <1>0. pc \in [Actors -> Places] /\ min \in [Actors -> Nat] /\ attempt \in [Threads -> {1, 2}]
        /\ shared \in [Threads -> BOOLEAN] /\ lease \in [Threads -> Gate!Leases]
        /\ result \in [Threads -> {"none", "ok", "fatal", "transient"}]
    BY DEF TypeInv, TypeOK
  <1> USE <1>0, ActorFacts DEF gate, serve, call, back, Hears
  <1>1. CASE Classify(t) \/ Refuse(t)
    BY <1>1 DEF Classify, Refuse, Goto
  <1>2. CASE AcquireShared(t)
    BY <1>2 DEF AcquireShared, Gate!GrantShared
  <1>3. CASE AcquireAlone(t)
    BY <1>3 DEF AcquireAlone, Gate!GrantExclusive
  <1>4. CASE ResetSends(t) \/ ResetSkips(t) \/ ResetDone(t)
    BY <1>4 DEF ResetSends, ResetSkips, ResetDone
  <1>5. CASE BudgetGrows(t) \/ BudgetFits(t)
    BY <1>5 DEF BudgetGrows, BudgetFits
  <1>6. CASE Unlock(t) \/ Send(t)
    BY <1>6 DEF Unlock, Send, Goto
  <1>7. CASE Returns(t)
    BY <1>7 DEF Returns
  <1>8. CASE Retries(t) \/ GivesUp(t)
    BY <1>8 DEF Retries, GivesUp
  <1>9. CASE RequestFails(t)
    BY <1>9 DEF RequestFails, Leaves
  <1> QED BY <1>1, <1>2, <1>3, <1>4, <1>5, <1>6, <1>7, <1>8, <1>9 DEF ThreadMoves

\* The lines of the serve layer to the daemon that are no generate.
Controls == {"load", "warm", "reset", "unload"}
WireGrows(m) == m \in Messages /\ wire' = Append(wire, m)
ControlSent == \E m : m.kind \in Controls /\ WireGrows(m)

(* The lines of the wire when one is added. *)
LEMMA GrownAt ==
  ASSUME TypeInv, NEW m, WireGrows(m)
  PROVE  /\ Len(wire) \in Nat /\ Len(wire') = Len(wire) + 1
         /\ \A i \in 1 .. Len(wire) : wire'[i] = wire[i]
         /\ wire'[Len(wire) + 1] = m
  BY AppendAt DEF TypeInv, LineTypes, WireGrows

(* The lines of the wire when one is taken. *)
LEMMA TakenAt ==
  ASSUME TypeInv, NEW kind, Takes(kind), wire' = Tail(wire)
  PROVE  /\ Len(wire) \in Nat \ {0} /\ Head(wire) = wire[1] /\ wire[1] \in Messages /\ wire[1].kind = kind
         /\ 1 \in 1 .. Len(wire) /\ Len(wire') = Len(wire) - 1
         /\ \A i \in 1 .. Len(wire') : wire'[i] = wire[i + 1] /\ i + 1 \in 1 .. Len(wire) /\ i + 1 # 1
  <1>1. wire \in Seq(Messages) /\ wire # << >> /\ Head(wire).kind = kind
    BY DEF TypeInv, LineTypes, Takes
  <1>2. /\ Head(wire) = wire[1] /\ Head(wire) \in Messages /\ Len(wire) \in Nat \ {0} /\ 1 \in 1 .. Len(wire)
        /\ Len(Tail(wire)) = Len(wire) - 1
        /\ \A i \in 1 .. Len(Tail(wire)) : Tail(wire)[i] = wire[i + 1] /\ i + 1 \in 1 .. Len(wire)
    BY <1>1, TailAt
  <1>3. \A i \in 1 .. Len(wire') : i + 1 # 1
    BY <1>2
  <1> QED BY <1>1, <1>2, <1>3

(* The control lines. *)
LEMMA ControlLines ==
  /\ \A a \in Callers : TypeInv => LoadLine(a) \in Messages /\ LoadLine(a).kind = "load"
  /\ [kind |-> "warm"] \in Messages /\ [kind |-> "reset"] \in Messages
  /\ [kind |-> "unload"] \in Messages
  /\ \A t \in Threads : [kind |-> "generate", thread |-> t] \in Messages
  <1>1. ASSUME NEW a \in Callers, TypeInv
        PROVE  LoadLine(a) \in Messages /\ LoadLine(a).kind = "load"
    <2>1. min[a] \in Nat /\ Wanted(a) \in Models \cup {NoModel}
      BY <1>1, ActorFacts DEF Callers, TypeInv, TypeOK
    <2>2. Size(a) \in Nat
      BY <2>1, MaxFacts, ActorFacts DEF Size
    <2> QED BY <2>1, <2>2 DEF LoadLine, Messages
  <1> QED BY <1>1 DEF Messages

(* Only Send puts a generate on the wire. *)
LEMMA WireFrame ==
  ASSUME TypeInv,
         (\E t \in Threads : ThreadMoves(t) /\ ~ Send(t)) \/ (\E a \in Callers : CallerMoves(a)) \/ SideMoves
  PROVE  wire' = wire \/ ControlSent
  <1> USE DEF gate, serve, call, back, Hears
  <1>1. ASSUME NEW t \in Threads, ThreadMoves(t), ~ Send(t)
        PROVE  wire' = wire \/ ControlSent
    <2>1. CASE ResetSends(t)
      <3>1. WireGrows([kind |-> "reset"])
        BY <2>1, ControlLines DEF ResetSends, WireGrows
      <3> QED BY <3>1 DEF ControlSent, Controls
    <2>2. CASE Classify(t) \/ Refuse(t) \/ Unlock(t)
      BY <2>2 DEF Classify, Refuse, Unlock
    <2>3. CASE AcquireShared(t) \/ AcquireAlone(t)
      BY <2>3 DEF AcquireShared, AcquireAlone
    <2>4. CASE ResetSkips(t) \/ ResetDone(t) \/ BudgetGrows(t) \/ BudgetFits(t)
      BY <2>4 DEF ResetSkips, ResetDone, BudgetGrows, BudgetFits
    <2>5. CASE Returns(t) \/ Retries(t) \/ GivesUp(t)
      BY <2>5 DEF Returns, Retries, GivesUp
    <2>6. CASE RequestFails(t)
      BY <2>6 DEF RequestFails, Leaves
    <2> QED BY <1>1, <2>1, <2>2, <2>3, <2>4, <2>5, <2>6 DEF ThreadMoves
  <1>2. ASSUME NEW a \in Callers, CallerMoves(a)
        PROVE  wire' = wire \/ ControlSent
    <2>1. CASE EnsureLoads(a)
      <3>1. WireGrows(LoadLine(a)) /\ LoadLine(a).kind = "load"
        BY <2>1, ControlLines DEF EnsureLoads, WireGrows
      <3> QED BY <3>1 DEF ControlSent, Controls
    <2>2. CASE SendWarm(a)
      <3>1. WireGrows([kind |-> "warm"])
        BY <2>2, ControlLines DEF SendWarm, WireGrows
      <3> QED BY <3>1 DEF ControlSent, Controls
    <2>3. CASE Enter(a) \/ EnsureSkips(a) \/ Publishes(a) \/ LoadedCold(a) \/ LoadSkips(a)
      BY <2>3 DEF Enter, EnsureSkips, Publishes, LoadedCold, LoadSkips
    <2> QED BY <1>2, <2>1, <2>2, <2>3 DEF CallerMoves
  <1>3. ASSUME SideMoves
        PROVE  wire' = wire \/ ControlSent
    <2>1. CASE IdleSends
      <3>1. WireGrows([kind |-> "unload"])
        BY <2>1, ControlLines DEF IdleSends, WireGrows
      <3> QED BY <3>1 DEF ControlSent, Controls
    <2>2. CASE PrewarmFails
      BY <2>2 DEF PrewarmFails, EnsureFails
    <2>3. CASE PrewarmAnnounce \/ finish_prewarm \/ Expire
      BY <2>3 DEF PrewarmAnnounce, finish_prewarm, Expire
    <2>4. CASE IdleLook \/ IdleExpired \/ IdleSkips \/ IdleForgets \/ IdleKeeps \/ IdleClear
      BY <2>4 DEF IdleLook, IdleExpired, IdleSkips, IdleForgets, IdleKeeps, IdleClear
    <2> QED BY <1>3, <2>1, <2>2, <2>3, <2>4 DEF SideMoves
  <1> QED BY <1>1, <1>2, <1>3

(* Generations and generates stay with requests that wait. *)
LEMMA GenerateKept ==
  ASSUME TypeInv, GenerateInv, wire' = wire \/ ControlSent, UNCHANGED running,
         \A t \in Threads : pc'[t] \notin {"generating", "failed", "done"} => result'[t] = "none",
         \A t \in Threads : pc[t] = "generating" /\ result[t] = "none"
                              => pc'[t] = "generating" /\ result'[t] = "none"
  PROVE  GenerateInv'
  <1>0. Generating \subseteq Threads /\ wire \in Seq(Messages)
        /\ \A i \in 1 .. Len(wire) : wire[i] \in Messages
    BY ElementOfSeq DEF TypeInv, TypeOK, LineTypes
  <1>1. \A i \in 1 .. Len(wire) : wire[i].kind = "generate" => wire[i].thread \in Threads
    BY <1>0 DEF Messages
  <1>2. \A i \in 1 .. Len(wire') : wire'[i].kind = "generate" => i \in 1 .. Len(wire) /\ wire'[i] = wire[i]
    <2>1. CASE wire' = wire
      BY <2>1
    <2>2. CASE ControlSent
      <3>1. PICK m : m.kind \in Controls /\ WireGrows(m)
        BY <2>2 DEF ControlSent
      <3>2. /\ Len(wire) \in Nat /\ Len(wire') = Len(wire) + 1
            /\ \A i \in 1 .. Len(wire) : wire'[i] = wire[i]
            /\ wire'[Len(wire) + 1] = m
        BY <3>1, GrownAt
      <3>3. m.kind # "generate"
        BY <3>1 DEF Controls
      <3> QED BY <3>2, <3>3
    <2> QED BY <2>1, <2>2
  <1>3. Generating' = Generating
    BY DEF Generating
  <1>4. \A t \in Generating : pc'[t] = "generating" /\ result'[t] = "none"
    BY <1>0 DEF GenerateInv
  <1>5. \A i \in 1 .. Len(wire') : wire'[i].kind = "generate" =>
          /\ pc'[wire'[i].thread] = "generating" /\ result'[wire'[i].thread] = "none"
          /\ wire'[i].thread \notin Generating
    BY <1>1, <1>2 DEF GenerateInv
  <1>6. \A i, j \in 1 .. Len(wire') :
          wire'[i].kind = "generate" /\ wire'[j].kind = "generate" /\ wire'[i].thread = wire'[j].thread
            => i = j
    BY <1>2 DEF GenerateInv
  <1> QED BY <1>3, <1>4, <1>5, <1>6 DEF GenerateInv

(* A line that is taken leaves the others behind. *)
LEMMA GenerateTaken ==
  ASSUME TypeInv, GenerateInv, NEW kind, Takes(kind), wire' = Tail(wire), pc' = pc,
         \/ UNCHANGED << result, running >>
         \/ kind = "generate" /\ result' = [result EXCEPT ![Head(wire).thread] = "fatal"] /\ UNCHANGED running
         \/ kind = "generate" /\ UNCHANGED result /\ Generating' = Generating \cup {Head(wire).thread}
  PROVE  GenerateInv'
  <1>0. Generating \subseteq Threads /\ wire \in Seq(Messages)
        /\ (\A i \in 1 .. Len(wire) : wire[i] \in Messages)
        /\ result \in [Threads -> {"none", "ok", "fatal", "transient"}]
    BY ElementOfSeq DEF TypeInv, TypeOK, LineTypes
  <1>1. \A i \in 1 .. Len(wire) : wire[i].kind = "generate" => wire[i].thread \in Threads
    BY <1>0 DEF Messages
  <1>2. /\ Len(wire) \in Nat \ {0} /\ Head(wire) = wire[1] /\ wire[1].kind = kind
        /\ 1 \in 1 .. Len(wire)
        /\ \A i \in 1 .. Len(wire') : wire'[i] = wire[i + 1] /\ i + 1 \in 1 .. Len(wire) /\ i + 1 # 1
    BY TakenAt
  <1>3. \A i \in 1 .. Len(wire') : wire'[i].kind = "generate" =>
          /\ wire'[i].thread \in Threads
          /\ kind = "generate" => wire'[i].thread # Head(wire).thread
          /\ pc[wire'[i].thread] = "generating" /\ result[wire'[i].thread] = "none"
          /\ wire'[i].thread \notin Generating
    BY <1>1, <1>2 DEF GenerateInv
  <1>4. \A i, j \in 1 .. Len(wire') :
          wire'[i].kind = "generate" /\ wire'[j].kind = "generate" /\ wire'[i].thread = wire'[j].thread
            => i = j
    <2> SUFFICES ASSUME NEW i \in 1 .. Len(wire'), NEW j \in 1 .. Len(wire'),
                        wire'[i].kind = "generate", wire'[j].kind = "generate",
                        wire'[i].thread = wire'[j].thread
                 PROVE  i = j
      OBVIOUS
    <2>1. i + 1 = j + 1
      BY <1>2 DEF GenerateInv
    <2> QED BY <2>1
  <1>5. kind = "generate" => /\ Head(wire).thread \in Threads /\ pc[Head(wire).thread] = "generating"
                             /\ result[Head(wire).thread] = "none" /\ Head(wire).thread \notin Generating
    BY <1>1, <1>2 DEF GenerateInv
  <1>6. CASE UNCHANGED << result, running >>
    <2>1. Generating' = Generating
      BY <1>6 DEF Generating
    <2> QED BY <1>3, <1>4, <1>6, <2>1 DEF GenerateInv
  <1>7. CASE kind = "generate" /\ result' = [result EXCEPT ![Head(wire).thread] = "fatal"] /\ UNCHANGED running
    <2>1. Generating' = Generating
      BY <1>7 DEF Generating
    <2>2. \A t \in Threads : t # Head(wire).thread => result'[t] = result[t]
      BY <1>0, <1>5, <1>7
    <2>3. \A t \in Generating : t \in Threads /\ t # Head(wire).thread
      BY <1>0, <1>5, <1>7
    <2>4. \A t \in Threads : pc[t] \notin {"generating", "failed", "done"} => t # Head(wire).thread
      BY <1>5, <1>7
    <2>5. \A t \in Threads : pc[t] \notin {"generating", "failed", "done"} => result'[t] = "none"
      BY <2>2, <2>4 DEF GenerateInv
    <2>6. \A t \in Generating : pc[t] = "generating" /\ result'[t] = "none"
      BY <2>2, <2>3 DEF GenerateInv
    <2>7. \A i \in 1 .. Len(wire') : wire'[i].kind = "generate" => result'[wire'[i].thread] = "none"
      BY <1>3, <1>7, <2>2
    <2> QED BY <1>3, <1>4, <2>1, <2>5, <2>6, <2>7 DEF GenerateInv
  <1>8. CASE kind = "generate" /\ UNCHANGED result /\ Generating' = Generating \cup {Head(wire).thread}
    BY <1>3, <1>4, <1>5, <1>8 DEF GenerateInv
  <1> QED BY <1>6, <1>7, <1>8

(* One sequence before another. *)
LEMMA ConcatAt ==
  ASSUME NEW S, NEW s \in Seq(S), NEW r \in Seq(S), NEW w, w = s \o r
  PROVE  /\ Len(w) = Len(s) + Len(r)
         /\ \A i \in 1 .. Len(s) + Len(r) : w[i] = IF i <= Len(s) THEN s[i] ELSE r[i - Len(s)]
  BY ConcatProperties

(* A generate on the wire or in the daemon belongs to a request that waits for it. *)
LEMMA GenerateStep ==
  ASSUME TypeInv, PlaceInv, GenerateInv, Moves
  PROVE  GenerateInv'
  <1>0. /\ pc \in [Actors -> Places] /\ result \in [Threads -> {"none", "ok", "fatal", "transient"}]
        /\ Generating \subseteq Threads /\ wire \in Seq(Messages)
    BY DEF TypeInv, TypeOK, LineTypes
  <1>a. \A t \in Threads : pc[t] \notin {"generating", "failed", "done"} => result[t] = "none"
    BY DEF GenerateInv
  <1> USE <1>0, ActorFacts DEF gate, serve, call, back, Hears
  <1>1. ASSUME NEW t \in Threads, ThreadMoves(t), ~ Send(t)
        PROVE  GenerateInv'
    <2>1. /\ UNCHANGED running /\ (wire' = wire \/ ControlSent)
          /\ \A u \in Threads : u # t => pc'[u] = pc[u] /\ result'[u] = result[u]
      BY <1>1, ThreadFrame, WireFrame
    <2>2. /\ pc'[t] \notin {"generating", "failed", "done"} => result'[t] = "none"
          /\ pc[t] # "generating" \/ result[t] # "none"
      <3>1. CASE Classify(t)
        BY <1>a, <3>1 DEF Classify, Goto
      <3>2. CASE AcquireShared(t) \/ AcquireAlone(t)
        BY <1>a, <3>2 DEF AcquireShared, AcquireAlone
      <3>3. CASE Refuse(t)
        BY <1>a, <3>3 DEF Refuse, Goto
      <3>4. CASE ResetSends(t) \/ ResetSkips(t) \/ ResetDone(t)
        BY <1>a, <3>4 DEF ResetSends, ResetSkips, ResetDone
      <3>5. CASE BudgetGrows(t) \/ BudgetFits(t)
        BY <1>a, <3>5 DEF BudgetGrows, BudgetFits
      <3>6. CASE Unlock(t)
        BY <1>a, <3>6 DEF Unlock, Goto
      <3>7. CASE Returns(t)
        BY <3>7 DEF Returns
      <3>8. CASE Retries(t)
        BY <3>8 DEF Retries
      <3>9. CASE GivesUp(t)
        BY <3>9 DEF GivesUp
      <3>10. CASE RequestFails(t)
        <4>1. pc[t] \in {"loading", "warming", "resetting", "budget"} /\ pc' = [pc EXCEPT ![t] = "failed"]
          BY <3>10 DEF RequestFails, EnsureFails, Leaves
        <4> QED BY <4>1
      <3> QED BY <1>1, <3>1, <3>2, <3>3, <3>4, <3>5, <3>6, <3>7, <3>8, <3>9, <3>10 DEF ThreadMoves
    <2>3. \A u \in Threads : pc'[u] \notin {"generating", "failed", "done"} => result'[u] = "none"
      BY <1>a, <2>1, <2>2
    <2>4. \A u \in Threads : pc[u] = "generating" /\ result[u] = "none"
                               => pc'[u] = "generating" /\ result'[u] = "none"
      BY <2>1, <2>2
    <2> QED BY <2>1, <2>3, <2>4, GenerateKept
  <1>2. ASSUME NEW t \in Threads, Send(t)
        PROVE  GenerateInv'
    <2> DEFINE m == [kind |-> "generate", thread |-> t]
    <2>1. /\ pc[t] = "built" /\ pc' = [pc EXCEPT ![t] = "generating"]
          /\ UNCHANGED << result, running >> /\ wire' = Append(wire, m)
      BY <1>2 DEF Send, Goto
    <2>2. m \in Messages /\ m.kind = "generate" /\ m.thread = t
      BY ControlLines
    <2> HIDE DEF m
    <2>3. /\ Len(wire) \in Nat /\ Len(wire') = Len(wire) + 1
          /\ \A i \in 1 .. Len(wire) : wire'[i] = wire[i]
          /\ wire'[Len(wire) + 1] = m
      BY <2>1, <2>2, GrownAt DEF WireGrows
    <2>4. Generating' = Generating /\ t \notin Generating /\ result[t] = "none"
      BY <1>a, <2>1 DEF Generating, GenerateInv
    <2>5. \A i \in 1 .. Len(wire) : wire[i].kind = "generate" => wire[i].thread # t
      BY <2>1 DEF GenerateInv
    <2>6. \A u \in Threads : pc'[u] \notin {"generating", "failed", "done"} => result'[u] = "none"
      BY <1>a, <2>1
    <2>7. \A u \in Generating : pc'[u] = "generating" /\ result'[u] = "none"
      BY <2>1, <2>4 DEF GenerateInv
    <2>8. \A i \in 1 .. Len(wire) : wire[i].kind = "generate" =>
            /\ wire[i].thread \in Threads /\ pc'[wire[i].thread] = "generating"
            /\ result'[wire[i].thread] = "none" /\ wire[i].thread \notin Generating
      <3>1. \A i \in 1 .. Len(wire) : wire[i].kind = "generate" => wire[i].thread \in Threads
        BY ElementOfSeq DEF Messages
      <3> QED BY <2>1, <3>1, <2>5 DEF GenerateInv
    <2>9. \A i \in 1 .. Len(wire') : i = Len(wire) + 1 \/ i \in 1 .. Len(wire)
      BY <2>3
    <2>10. \A i \in 1 .. Len(wire') : wire'[i].kind = "generate" =>
             /\ pc'[wire'[i].thread] = "generating" /\ result'[wire'[i].thread] = "none"
             /\ wire'[i].thread \notin Generating
      BY <2>1, <2>2, <2>3, <2>4, <2>8, <2>9
    <2>11. \A i, j \in 1 .. Len(wire') :
             wire'[i].kind = "generate" /\ wire'[j].kind = "generate" /\ wire'[i].thread = wire'[j].thread
               => i = j
      BY <2>2, <2>3, <2>5, <2>9 DEF GenerateInv
    <2> QED BY <2>4, <2>6, <2>7, <2>10, <2>11 DEF GenerateInv
  <1>3. ASSUME NEW a \in Callers, CallerMoves(a)
        PROVE  GenerateInv'
    <2>1. /\ UNCHANGED << running, result >> /\ (wire' = wire \/ ControlSent)
          /\ \A b \in Actors : b # a => pc'[b] = pc[b]
          /\ a \in Threads => pc[a] \in Inside /\ pc'[a] \in Inside
      BY <1>3, CallerFrame, WireFrame
    <2>2. \A u \in Threads : pc'[u] \notin {"generating", "failed", "done"} => result'[u] = "none"
      BY <1>a, <2>1 DEF Inside
    <2>3. \A u \in Threads : pc[u] = "generating" /\ result[u] = "none"
                               => pc'[u] = "generating" /\ result'[u] = "none"
      BY <2>1 DEF Inside
    <2> QED BY <2>1, <2>2, <2>3, GenerateKept
  <1>4. ASSUME SideMoves
        PROVE  GenerateInv'
    <2>1. UNCHANGED << running, result >> /\ (wire' = wire \/ ControlSent)
          /\ \A t \in Threads : pc'[t] = pc[t]
      BY <1>4, SideFrame, WireFrame
    <2>2. \A u \in Threads : pc'[u] \notin {"generating", "failed", "done"} => result'[u] = "none"
      BY <1>a, <2>1
    <2> QED BY <2>1, <2>2, GenerateKept
  <1>5. ASSUME DaemonMoves
        PROVE  GenerateInv'
    <2>0. pc' = pc
      BY <1>5, DaemonFrame
    <2>a. ASSUME NEW kind, NEW k, Answers(kind, k)
          PROVE  GenerateInv'
      <3>1. Takes(kind) /\ wire' = Tail(wire) /\ UNCHANGED << result, running >>
        BY <2>a DEF Answers
      <3> QED BY <2>0, <3>1, GenerateTaken
    <2>1. CASE Loads
      <3>0. Takes("load") /\ UNCHANGED << result, running >>
        BY <2>1 DEF Loads
      <3>1. CASE wire' = Tail(wire)
        BY <2>0, <3>0, <3>1, GenerateTaken
      <3>2. CASE wire' = << [kind |-> "notice"] >> \o Tail(wire)
        <4> DEFINE n == << [kind |-> "notice"] >>
        <4>1. n \in Seq(Messages) /\ Len(n) = 1 /\ n[1] = [kind |-> "notice"]
          BY DEF Messages
        <4>2. /\ Len(wire) \in Nat \ {0} /\ Tail(wire) \in Seq(Messages) /\ Len(Tail(wire)) = Len(wire) - 1
              /\ \A i \in 1 .. Len(Tail(wire)) : Tail(wire)[i] = wire[i + 1]
          BY <3>0, TailAt DEF Takes
        <4> HIDE DEF n
        <4>3. wire' = n \o Tail(wire)
          BY <3>2 DEF n
        <4>4. /\ Len(wire') = Len(n) + Len(Tail(wire))
              /\ \A i \in 1 .. Len(n) + Len(Tail(wire)) :
                   wire'[i] = IF i <= Len(n) THEN n[i] ELSE Tail(wire)[i - Len(n)]
          <5> DEFINE r == Tail(wire)
          <5>1. r \in Seq(Messages) /\ wire' = n \o r
            BY <4>2, <4>3
          <5>2. n \in Seq(Messages)
            BY <4>1
          <5> HIDE DEF r
          <5>3. /\ Len(wire') = Len(n) + Len(r)
                /\ \A i \in 1 .. Len(n) + Len(r) : wire'[i] = IF i <= Len(n) THEN n[i] ELSE r[i - Len(n)]
            BY <5>1, <5>2, ConcatAt
          <5> QED BY <5>3 DEF r
        <4>5. Len(wire') = Len(wire)
          BY <4>1, <4>2, <4>4
        <4>6. wire'[1].kind = "notice"
          BY <4>1, <4>2, <4>4
        <4>7. \A i \in 2 .. Len(wire) : wire'[i] = wire[i]
          <5> SUFFICES ASSUME NEW i \in 2 .. Len(wire)
                       PROVE  wire'[i] = wire[i]
            OBVIOUS
          <5>1. i \in 1 .. Len(n) + Len(Tail(wire)) /\ ~ (i <= Len(n)) /\ i - Len(n) = i - 1
                /\ i - 1 \in 1 .. Len(Tail(wire)) /\ (i - 1) + 1 = i
            BY <4>1, <4>2
          <5> QED BY <4>2, <4>4, <5>1
        <4>8. \A i \in 1 .. Len(wire') : wire'[i].kind = "generate" => i \in 1 .. Len(wire) /\ wire'[i] = wire[i]
          BY <4>2, <4>5, <4>6, <4>7
        <4>9. Generating' = Generating
          BY <3>0 DEF Generating
        <4> QED BY <2>0, <3>0, <4>8, <4>9 DEF GenerateInv
      <3> QED BY <2>1, <3>1, <3>2 DEF Loads
    <2>2. CASE LoadBreaks \/ WarmAnswers \/ Unloads
      BY <2>a, <2>2 DEF LoadBreaks, WarmAnswers, Unloads
    <2>3. CASE ResetAnswers
      <3>1. \E k : Answers("reset", k)
        BY <2>3 DEF ResetAnswers
      <3> QED BY <2>a, <3>1
    <2>4. CASE DaemonNotice
      <3>1. Takes("notice") /\ wire' = Tail(wire) /\ UNCHANGED << result, running >>
        BY <2>4 DEF DaemonNotice
      <3> QED BY <2>0, <3>1, GenerateTaken
    <2>5. CASE DropLine
      BY <2>5 DEF DropLine, GenerateInv, Generating
    <2>6. ASSUME NEW t \in Threads, Refuses(t)
          PROVE  GenerateInv'
      <3>1. Takes("generate") /\ wire' = Tail(wire) /\ UNCHANGED running
            /\ result' = [result EXCEPT ![Head(wire).thread] = "fatal"]
        BY <2>6 DEF Refuses
      <3> QED BY <2>0, <3>1, GenerateTaken
    <2>7. ASSUME NEW t \in Threads, NEW b \in BOOLEAN, Starts(t, b)
          PROVE  GenerateInv'
      <3>1. Takes("generate") /\ wire' = Tail(wire) /\ UNCHANGED result
            /\ Generating' = Generating \cup {Head(wire).thread}
        BY <2>7 DEF Starts, Generating
      <3> QED BY <2>0, <3>1, GenerateTaken
    <2>8. ASSUME NEW t \in Threads, Ends(t)
          PROVE  GenerateInv'
      <3>1. /\ t \in Generating /\ Generating' = Generating \ {t} /\ wire' = wire
            /\ \A u \in Threads : u # t => result'[u] = result[u]
        BY <2>8 DEF Ends, Generating
      <3>2. pc[t] = "generating"
        BY <3>1 DEF GenerateInv
      <3>3. \A i \in 1 .. Len(wire) : wire[i].kind = "generate" => wire[i].thread \in Threads /\ wire[i].thread # t
        <4>1. \A i \in 1 .. Len(wire) : wire[i].kind = "generate" => wire[i].thread \in Threads
          BY ElementOfSeq DEF Messages
        <4> QED BY <3>1, <4>1 DEF GenerateInv
      <3>4. \A u \in Threads : pc[u] \notin {"generating", "failed", "done"} => result'[u] = "none"
        BY <1>a, <3>1, <3>2
      <3>5. \A u \in Generating \ {t} : pc[u] = "generating" /\ result'[u] = "none"
        BY <3>1 DEF GenerateInv
      <3>6. \A i \in 1 .. Len(wire) : wire[i].kind = "generate" =>
              /\ pc[wire[i].thread] = "generating" /\ result'[wire[i].thread] = "none"
              /\ wire[i].thread \notin Generating \ {t}
        BY <3>1, <3>3 DEF GenerateInv
      <3> QED BY <2>0, <3>1, <3>4, <3>5, <3>6 DEF GenerateInv
    <2> QED BY <1>5, <2>1, <2>2, <2>3, <2>4, <2>5, <2>6, <2>7, <2>8 DEF DaemonMoves
  <1> QED BY <1>1, <1>2, <1>3, <1>4, <1>5 DEF Moves

\* Where a request is past ensure_model and under the lock.
OnModel == {"ensured", "resetting", "budget", "sized"}

(* What the runtime believes of the loaded model. *)
LEMMA RuntimeStep ==
  ASSUME TypeInv, PlaceInv, LockInv, RuntimeInv, Moves
  PROVE  RuntimeInv'
  <1>0. /\ pc \in [Actors -> Places] /\ min \in [Actors -> Nat]
        /\ rt \in [path : Models \cup {NoModel}, max_seq : Nat, cache : BOOLEAN,
                   batch : BOOLEAN, eligible : BOOLEAN]
    BY DEF TypeInv, TypeOK
  <1> USE <1>0, ActorFacts DEF gate, serve, call, back, Hears
  \* A step that changes at most the eligibility and brings nobody new past ensure_model.
  <1>a. ASSUME rt'.path = rt.path, rt'.cache = rt.cache, rt'.batch = rt.batch, rt'.max_seq = rt.max_seq,
               \A t \in Threads : pc'[t] \in OnModel => pc[t] \in OnModel
        PROVE  RuntimeInv'
    BY <1>a DEF RuntimeInv, OnModel
  \* A step that forgets the model, by the owner of the lock.
  <1>b. ASSUME rt'.path = NoModel, \A t \in Threads : pc'[t] \notin OnModel
        PROVE  RuntimeInv'
    BY <1>b DEF RuntimeInv, OnModel
  <1>1. ASSUME NEW t \in Threads, ThreadMoves(t)
        PROVE  RuntimeInv'
    <2>0. \A u \in Threads : u # t => pc'[u] = pc[u]
      BY <1>1, ThreadFrame
    <2>1. CASE rt' = rt /\ (pc'[t] \notin OnModel \/ pc[t] \in OnModel)
      BY <1>a, <2>0, <2>1
    <2>2. CASE ResetDone(t)
      BY <1>a, <2>0, <2>2 DEF ResetDone, OnModel
    <2>3. CASE RequestFails(t)
      <3>1. pc[t] \in {"loading", "warming", "resetting", "budget"} /\ pc' = [pc EXCEPT ![t] = "failed"]
            /\ (rt' = rt \/ rt' = Poisoned)
        BY <2>3 DEF RequestFails, EnsureFails, Leaves
      <3>2. CASE rt' = rt
        BY <2>1, <3>1, <3>2 DEF OnModel
      <3>3. CASE rt' = Poisoned
        <4>1. rt'.path = NoModel
          BY <3>3 DEF Poisoned, Unloaded
        <4>2. \A u \in Threads : u # t => pc[u] \notin OnModel
          BY <3>1 DEF LockInv, Locked, OnModel
        <4> QED BY <1>b, <2>0, <3>1, <4>1, <4>2 DEF OnModel
      <3> QED BY <3>1, <3>2, <3>3
    <2>4. CASE Classify(t) \/ Refuse(t) \/ Unlock(t) \/ Send(t)
      BY <2>1, <2>4 DEF Classify, Refuse, Unlock, Send, Goto, OnModel
    <2>5. CASE AcquireShared(t) \/ AcquireAlone(t) \/ ResetSends(t) \/ ResetSkips(t)
      BY <2>1, <2>5 DEF AcquireShared, AcquireAlone, ResetSends, ResetSkips, OnModel
    <2>6. CASE BudgetGrows(t) \/ BudgetFits(t)
      BY <2>1, <2>6 DEF BudgetGrows, BudgetFits, OnModel
    <2>7. CASE Returns(t) \/ Retries(t) \/ GivesUp(t)
      BY <2>1, <2>7 DEF Returns, Retries, GivesUp, OnModel
    <2> QED BY <1>1, <2>2, <2>3, <2>4, <2>5, <2>6, <2>7 DEF ThreadMoves
  <1>2. ASSUME NEW a \in Callers, CallerMoves(a)
        PROVE  RuntimeInv'
    <2>0. /\ \A t \in Threads : t # a => pc'[t] = pc[t]
          /\ a \in Actors /\ min[a] \in Nat
      BY <1>2, CallerFrame DEF Callers
    <2>1. CASE Enter(a) \/ SendWarm(a)
      BY <1>a, <2>0, <2>1 DEF Enter, SendWarm, Goto, OnModel
    <2>2. CASE EnsureLoads(a) \/ LoadedCold(a) \/ LoadSkips(a)
      BY <1>a, <2>0, <2>2 DEF EnsureLoads, LoadedCold, LoadSkips, OnModel
    <2>3. CASE EnsureSkips(a)
      <3>1. rt' = rt /\ rt.path = Wanted(a)
        BY <2>3 DEF EnsureSkips, must_reload
      <3> QED BY <2>0, <3>1 DEF RuntimeInv, OnModel
    <2>4. CASE Publishes(a)
      <3>1. PICK e : rt' = Published(a, e)
        BY <2>4 DEF Publishes
      <3>2. rt'.path = Wanted(a) /\ rt'.cache = (Wanted(a) \in CacheModels)
            /\ rt'.batch = (Wanted(a) \in BatchModels) /\ rt'.max_seq = Size(a)
        BY <3>1 DEF Published
      <3>3. Size(a) >= DefaultSeq
        BY <2>0, MaxFacts DEF Size
      <3>4. pc[a] \in Locked
        BY <2>4 DEF Publishes, Locked
      <3>5. \A t \in Threads : pc'[t] \in OnModel => t = a
        BY <2>0, <3>4 DEF LockInv, Locked, OnModel
      <3> QED BY <3>2, <3>3, <3>5 DEF RuntimeInv, OnModel
    <2> QED BY <1>2, <2>1, <2>2, <2>3, <2>4 DEF CallerMoves
  <1>3. ASSUME SideMoves
        PROVE  RuntimeInv'
    <2>0. \A t \in Threads : pc'[t] = pc[t]
      BY <1>3, SideFrame
    <2>1. CASE IdleForgets
      <3>1. rt'.path = NoModel /\ pc[Evictor] \in Locked
        BY <2>1 DEF IdleForgets, forget_model, Locked
      <3>2. \A t \in Threads : pc[t] \notin OnModel
        BY <3>1 DEF LockInv, Locked, OnModel
      <3> QED BY <1>b, <2>0, <3>1, <3>2
    <2>2. CASE rt' = rt
      BY <1>a, <2>0, <2>2
    <2>3. CASE PrewarmFails \/ PrewarmAnnounce \/ finish_prewarm \/ Expire
      BY <2>2, <2>3 DEF PrewarmFails, EnsureFails, PrewarmAnnounce, finish_prewarm, Expire
    <2>4. CASE IdleLook \/ IdleExpired \/ IdleSends \/ IdleSkips \/ IdleKeeps \/ IdleClear
      BY <2>2, <2>4 DEF IdleLook, IdleExpired, IdleSends, IdleSkips, IdleKeeps, IdleClear
    <2> QED BY <1>3, <2>1, <2>3, <2>4 DEF SideMoves
  <1>4. ASSUME DaemonMoves
        PROVE  RuntimeInv'
    <2>1. UNCHANGED << rt, pc >>
      BY <1>4, DaemonFrame
    <2> QED BY <1>a, <2>1
  <1> QED BY <1>1, <1>2, <1>3, <1>4 DEF Moves

(* The first state. *)
LEMMA InitBase == Init => BaseInv
  <1> SUFFICES ASSUME Init
               PROVE  BaseInv
    OBVIOUS
  <1>1. /\ pc = [a \in Actors |-> IF a = Prewarmer /\ PrewarmModel = NoModel THEN "done"
                                 ELSE IF a = Evictor THEN "sleep" ELSE "new"]
        /\ lock = NoOwner /\ min = [a \in Actors |-> 0] /\ attempt = [t \in Threads |-> 1]
        /\ shared = [t \in Threads |-> FALSE] /\ lease = [t \in Threads |-> Gate!Free]
        /\ result = [t \in Threads |-> "none"] /\ wire = << >> /\ running = << >> /\ rt.path = NoModel
    BY DEF Init, Unloaded
  <1>2. /\ \A t \in Threads : pc[t] = "new" /\ min[t] = 0 /\ attempt[t] = 1 /\ shared[t] = FALSE
                             /\ lease[t] = Gate!Free /\ result[t] = "none"
        /\ pc[Evictor] = "sleep" /\ pc[Prewarmer] \in {"new", "done"} /\ min[Prewarmer] = 0
        /\ PrewarmModel = NoModel => pc[Prewarmer] = "done"
    BY <1>1, ActorFacts
  <1>3. TypeInv
    BY InitTypes
  <1>4. PlaceInv
    BY <1>2 DEF PlaceInv, ThreadPlaces
  <1>5. RequestInv
    BY <1>2 DEF RequestInv
  <1>6. LockInv
    <2>1. \A a \in Actors : pc[a] \in {"new", "sleep", "done"}
      BY <1>1
    <2> QED BY <1>1, <2>1, ActorFacts DEF LockInv, Locked
  <1>7. LeaseInv
    BY <1>2 DEF LeaseInv, Holding, Locked
  <1>8. GenerateInv
    BY <1>1, <1>2 DEF GenerateInv, Generating
  <1>9. RuntimeInv
    BY <1>1, <1>2 DEF RuntimeInv
  <1> QED BY <1>3, <1>4, <1>5, <1>6, <1>7, <1>8, <1>9 DEF BaseInv

(* Every step keeps the base. *)
LEMMA BaseStep ==
  ASSUME BaseInv, [Next]_vars
  PROVE  BaseInv'
  <1>1. CASE Next
    <2>1. TypeInv /\ PlaceInv /\ RequestInv /\ LockInv /\ LeaseInv /\ GenerateInv /\ RuntimeInv
      BY DEF BaseInv
    <2>2. Moves
      BY <1>1, <2>1, NextMoves
    <2>3. TypeInv'
      BY <2>1, TypesStep
    <2>4. PlaceInv' /\ LockInv' /\ RequestInv' /\ LeaseInv' /\ GenerateInv' /\ RuntimeInv'
      BY <2>1, <2>2, PlaceStep, RequestStep, LeaseStep, GenerateStep, RuntimeStep
    <2> QED BY <2>3, <2>4 DEF BaseInv
  <1>2. CASE UNCHANGED vars
    <2>1. TypeInv'
      BY TypesStep DEF BaseInv
    <2> QED BY <1>2, <2>1 DEF vars, gate, serve, call, back, BaseInv, PlaceInv, RequestInv, LockInv,
              LeaseInv, GenerateInv, RuntimeInv, Generating
  <1> QED BY <1>1, <1>2

(* The base holds in every reachable state. *)
LEMMA BaseHolds == Spec => []BaseInv
  BY InitBase, BaseStep, PTL DEF Spec

-----------------------------------------------------------------------------
(* The control lines when no model is followed by a notice *)

\* Where an actor waits for a control line.
Waits == {"loading", "warming", "resetting", "unloading"}

\* The operation failed at least once.
Failed(what) == what \in Range(faults) /\ what \in Faults

\* A control line on the wire was sent by the owner of the lock, for its own model and budget.
Asked(m) ==
  /\ m.kind = "load" => pc[lock] = "loading" /\ m.model = Wanted(lock) /\ m.seq = Size(lock)
  /\ m.kind = "warm" => pc[lock] = "warming"
  /\ m.kind = "reset" => pc[lock] = "resetting"
  /\ m.kind = "unload" => pc[lock] = "unloading"

\* A reply of this kind is the reply to what the owner of the lock asked, and the daemon is
\* where that reply says.
Fits(k) ==
  \/ pc[lock] = "loading" /\ k = "loaded" /\ daemon.model = Wanted(lock) /\ daemon.seq = Size(lock)
  \/ pc[lock] = "loading" /\ k = "error" /\ daemon.model = NoModel /\ Failed("load")
  \/ pc[lock] = "warming" /\ k = "decode_result"
  \/ pc[lock] = "warming" /\ k = "error" /\ Failed("warm")
  \/ pc[lock] = "resetting" /\ k \in {"reset", "error", "transient"}
  \/ pc[lock] = "unloading" /\ k = "unloaded" /\ daemon.model = NoModel /\ daemon.seq = 0
  \/ pc[lock] = "unloading" /\ k = "error" /\ daemon.model = NoModel /\ Failed("unload")

\* Between the owner of the lock and the daemon there is nothing, a question or its answer;
\* the rest of the wire are generates.
OnlyGenerates == \A i \in 1 .. Len(wire) : wire[i].kind = "generate"
Quiet == OnlyGenerates /\ ctl = << >>
Asking ==
  /\ lock # NoOwner /\ ctl = << >>
  /\ \E k \in 1 .. Len(wire) :
       /\ wire[k].kind \in Controls /\ Asked(wire[k])
       /\ \A i \in 1 .. Len(wire) : i # k => wire[i].kind = "generate"
Answered ==
  /\ lock # NoOwner /\ ctl # << >> /\ Tail(ctl) = << >> /\ OnlyGenerates
  /\ Fits(Head(ctl).kind)
Talk == Quiet \/ Asking \/ Answered

\* A load goes on only while the runtime needs it, and once it is answered the daemon has
\* what it asked for.
Fresh ==
  \A a \in Actors :
    /\ pc[a] \in {"loading", "warm", "warming"} => must_reload(a)
    /\ pc[a] \in {"warm", "warming"} => daemon.model = Wanted(a) /\ daemon.seq = Size(a)

(* Nobody waits: nothing is under way. *)
LEMMA SilentWhen ==
  ASSUME TypeInv, LockInv, Talk, lock = NoOwner \/ pc[lock] \notin Waits
  PROVE  Quiet
  <1>1. ASSUME Asking
        PROVE  FALSE
    <2>1. PICK k \in 1 .. Len(wire) : wire[k].kind \in Controls /\ Asked(wire[k])
      BY <1>1 DEF Asking
    <2>2. pc[lock] \in Waits
      BY <2>1 DEF Asked, Controls, Waits
    <2> QED BY <1>1, <2>2 DEF Asking
  <1>2. ASSUME Answered
        PROVE  FALSE
    <2>1. pc[lock] \in Waits
      BY <1>2 DEF Answered, Fits, Waits
    <2> QED BY <1>2, <2>1 DEF Answered
  <1> QED BY <1>1, <1>2 DEF Talk

(* A line is heard by the owner of the lock, who asked for it, and it is the only one. *)
LEMMA HeardWhen ==
  ASSUME Talk, ctl # << >>
  PROVE  lock # NoOwner /\ Tail(ctl) = << >> /\ OnlyGenerates /\ Fits(Head(ctl).kind)
  BY DEF Talk, Quiet, Asking, Answered

(* A control line is taken: it was asked, nothing was answered yet, and the rest of the wire *)
(* are generates.                                                                            *)
LEMMA TakenWhen ==
  ASSUME TypeInv, Talk, NEW kind \in Controls \cup {"notice"}, Takes(kind)
  PROVE  /\ kind \in Controls /\ lock # NoOwner /\ ctl = << >> /\ Asked(Head(wire))
         /\ wire' = Tail(wire) => OnlyGenerates'
  <1>1. /\ Len(wire) \in Nat \ {0} /\ Head(wire) = wire[1] /\ wire[1].kind = kind /\ 1 \in 1 .. Len(wire)
    BY TailAt DEF TypeInv, LineTypes, Takes
  <1>2. kind # "generate"
    BY DEF Controls
  <1>3. Asking
    BY <1>1, <1>2 DEF Talk, Quiet, Answered, OnlyGenerates
  <1>4. PICK k \in 1 .. Len(wire) :
          /\ wire[k].kind \in Controls /\ Asked(wire[k])
          /\ \A i \in 1 .. Len(wire) : i # k => wire[i].kind = "generate"
    BY <1>3 DEF Asking
  <1>5. k = 1
    BY <1>1, <1>2, <1>4
  <1>6. ASSUME wire' = Tail(wire)
        PROVE  OnlyGenerates'
    <2>1. \A i \in 1 .. Len(wire') : wire'[i] = wire[i + 1] /\ i + 1 \in 1 .. Len(wire) /\ i + 1 # 1
      BY <1>6, TakenAt
    <2> QED BY <1>4, <1>5, <2>1 DEF OnlyGenerates
  <1> QED BY <1>1, <1>3, <1>4, <1>5, <1>6 DEF Asking

\* The wire changes by generates only.
GenerateChange ==
  \/ wire' = wire
  \/ \E m : m.kind = "generate" /\ WireGrows(m)
  \/ Takes("generate") /\ wire' = Tail(wire)

(* Generates do not disturb the talk. *)
LEMMA TalkKept ==
  ASSUME TypeInv, Talk, GenerateChange, lock' = lock, ctl' = ctl,
         lock # NoOwner => pc'[lock] = pc[lock] /\ min'[lock] = min[lock],
         daemon'.model = daemon.model, daemon'.seq = daemon.seq,
         \A what : Failed(what) => Failed(what)'
  PROVE  Talk'
  <1>1. OnlyGenerates => OnlyGenerates'
    <2>1. CASE wire' = wire
      BY <2>1 DEF OnlyGenerates
    <2>2. ASSUME NEW m, m.kind = "generate", WireGrows(m)
          PROVE  OnlyGenerates => OnlyGenerates'
      <3>1. /\ Len(wire) \in Nat /\ Len(wire') = Len(wire) + 1 /\ wire'[Len(wire) + 1] = m
            /\ \A i \in 1 .. Len(wire) : wire'[i] = wire[i]
        BY <2>2, GrownAt
      <3> QED BY <2>2, <3>1 DEF OnlyGenerates
    <2>3. CASE Takes("generate") /\ wire' = Tail(wire)
      <3>1. \A i \in 1 .. Len(wire') : wire'[i] = wire[i + 1] /\ i + 1 \in 1 .. Len(wire) /\ i + 1 # 1
        BY <2>3, TakenAt
      <3> QED BY <3>1 DEF OnlyGenerates
    <2> QED BY <2>1, <2>2, <2>3 DEF GenerateChange
  <1>2. lock # NoOwner => Size(lock)' = Size(lock) /\ Wanted(lock)' = Wanted(lock)
    BY DEF Size, Wanted
  <1>3. ASSUME NEW k, lock # NoOwner, Fits(k)
        PROVE  Fits(k)'
    BY <1>2, <1>3 DEF Fits
  <1>4. ASSUME NEW m, lock # NoOwner, Asked(m)
        PROVE  /\ m.kind = "load" => pc'[lock'] = "loading" /\ m.model = Wanted(lock') /\ m.seq = Size(lock)'
               /\ m.kind = "warm" => pc'[lock'] = "warming"
               /\ m.kind = "reset" => pc'[lock'] = "resetting"
               /\ m.kind = "unload" => pc'[lock'] = "unloading"
    BY <1>2, <1>4 DEF Asked
  <1>5. Quiet => Quiet'
    BY <1>1 DEF Quiet
  <1>6. Answered => Answered'
    BY <1>1, <1>3 DEF Answered
  <1>7. ASSUME Asking
        PROVE  Asking'
    <2>1. PICK k \in 1 .. Len(wire) :
            /\ wire[k].kind \in Controls /\ Asked(wire[k])
            /\ \A i \in 1 .. Len(wire) : i # k => wire[i].kind = "generate"
      BY <1>7 DEF Asking
    <2>2. lock # NoOwner /\ ctl = << >>
      BY <1>7 DEF Asking
    <2>3. ASSUME NEW j \in 1 .. Len(wire'), wire'[j] = wire[k],
                 \A i \in 1 .. Len(wire') : i # j => wire'[i].kind = "generate"
          PROVE  Asking'
      <3>1. Asked(wire[j])'
        BY <1>4, <2>1, <2>2, <2>3 DEF Asked
      <3> QED BY <2>1, <2>2, <2>3, <3>1 DEF Asking
    <2>4. CASE wire' = wire
      BY <2>1, <2>3, <2>4
    <2>5. ASSUME NEW m, m.kind = "generate", WireGrows(m)
          PROVE  Asking'
      <3>1. /\ Len(wire) \in Nat /\ Len(wire') = Len(wire) + 1 /\ wire'[Len(wire) + 1] = m
            /\ \A i \in 1 .. Len(wire) : wire'[i] = wire[i]
        BY <2>5, GrownAt
      <3>2. k \in 1 .. Len(wire') /\ \A i \in 1 .. Len(wire') : i # k => wire'[i].kind = "generate"
        BY <2>1, <2>5, <3>1
      <3> QED BY <2>3, <3>1, <3>2
    <2>6. CASE Takes("generate") /\ wire' = Tail(wire)
      <3>1. /\ Len(wire) \in Nat \ {0} /\ wire[1].kind = "generate" /\ Len(wire') = Len(wire) - 1
            /\ \A i \in 1 .. Len(wire') : wire'[i] = wire[i + 1] /\ i + 1 \in 1 .. Len(wire) /\ i + 1 # 1
        BY <2>6, TakenAt
      <3>2. k # 1
        BY <2>1, <3>1 DEF Controls
      <3>3. k - 1 \in 1 .. Len(wire') /\ (k - 1) + 1 = k
        BY <3>1, <3>2
      <3>4. wire'[k - 1] = wire[k]
        BY <3>1, <3>3
      <3>5. \A i \in 1 .. Len(wire') : i # k - 1 => wire'[i].kind = "generate"
        BY <2>1, <3>1, <3>3
      <3> QED BY <2>3, <3>3, <3>4, <3>5
    <2> QED BY <2>4, <2>5, <2>6 DEF GenerateChange
  <1> QED BY <1>5, <1>6, <1>7 DEF Talk

-----------------------------------------------------------------------------
(* Steps told apart by what they do under the lock *)

\* A step outside of the lock: it leaves the owner, the runtime, the replies and the daemon.
Elsewhere ==
  /\ UNCHANGED << lock, rt, ctl, daemon, running, faults, min >>
  /\ GenerateChange
  /\ \A a \in Actors : pc[a] \in Locked \/ pc'[a] \in Locked => pc'[a] = pc[a]
  /\ \A t \in Threads : attempt[t] = 2 => attempt'[t] = 2
  /\ \A t \in Threads :
       \/ pc'[t] = pc[t] /\ attempt'[t] = attempt[t] /\ result'[t] = result[t]
       \/ pc[t] = "built" /\ pc'[t] = "generating" /\ attempt'[t] = attempt[t]
       \/ pc'[t] \in {"classed", "admitted", "done", "failed", "backoff"}

\* The owner of the lock, or the one who takes it, goes on without a word to the daemon.
Turns(a) ==
  /\ lock = NoOwner \/ (lock = a /\ pc[a] \notin Waits \cup {"warm"})
  /\ lock' \in {a, NoOwner} /\ pc'[a] \notin Waits \cup {"warm", "generating"}
  /\ UNCHANGED << attempt, rt, wire, ctl, daemon, running, faults >>
  /\ \A b \in Actors : b # a => pc'[b] = pc[b] /\ min'[b] = min[b]
  /\ \A u \in Threads : u # a => result'[u] = result[u]
  /\ a \in Threads /\ pc'[a] = "sized" => rt.path = ModelOf[a] /\ Needs[a] <= rt.max_seq
  /\ a \in Threads /\ pc'[a] = "built" => pc[a] = "sized"
  /\ a \in Threads /\ (pc'[a] \in {"budget", "sized", "built"} \/ (pc'[a] = "ensuring" /\ min'[a] # 0))
       => \/ pc[a] \in {"budget", "sized"} \/ (pc[a] = "ensuring" /\ min[a] # 0)
          \/ (pc[a] = "ensured" /\ ~ needs_reset(a))

\* A request that hears of a failure.
HearsFailure(t) == RequestFails(t) /\ pc[t] # "budget"

(* A request outside of the lock. *)
LEMMA ThreadElsewhere ==
  ASSUME TypeInv, NEW t \in Threads, pc[t] \in {"new", "classed", "backoff", "built", "generating", "failed"},
         ThreadMoves(t)
  PROVE  Elsewhere
  <1>0. /\ pc \in [Actors -> Places] /\ attempt \in [Threads -> {1, 2}] /\ min \in [Actors -> Nat]
        /\ result \in [Threads -> {"none", "ok", "fatal", "transient"}]
    BY DEF TypeInv, TypeOK
  <1> USE <1>0, ActorFacts DEF gate, serve, call, back, Hears
  <1>1. /\ UNCHANGED << daemon, running, faults >>
        /\ \A b \in Actors : b # t => pc'[b] = pc[b]
        /\ \A u \in Threads : u # t => attempt'[u] = attempt[u] /\ result'[u] = result[u]
    BY ThreadFrame
  <1>2. ASSUME UNCHANGED << lock, rt, ctl, min >>, GenerateChange, attempt[t] = 2 => attempt'[t] = 2,
               \/ pc[t] = "built" /\ pc'[t] = "generating" /\ attempt'[t] = attempt[t]
               \/ pc'[t] \in {"classed", "admitted", "done", "failed", "backoff"}
        PROVE  Elsewhere
    BY <1>1, <1>2 DEF Elsewhere, Locked
  <1>3. CASE Classify(t) \/ Refuse(t)
    BY <1>2, <1>3 DEF Classify, Refuse, Goto, GenerateChange
  <1>4. CASE AcquireShared(t) \/ AcquireAlone(t)
    BY <1>2, <1>4 DEF AcquireShared, AcquireAlone, GenerateChange
  <1>5. CASE Send(t)
    <2>1. WireGrows([kind |-> "generate", thread |-> t])
      BY <1>5, ControlLines DEF Send, WireGrows
    <2>2. GenerateChange
      BY <2>1 DEF GenerateChange
    <2> QED BY <1>2, <1>5, <2>2 DEF Send, Goto
  <1>6. CASE Returns(t)
    <2>1. PICK p \in {"done", "failed"} : pc' = [pc EXCEPT ![t] = p]
      BY <1>6 DEF Returns
    <2> QED BY <1>2, <1>6, <2>1 DEF Returns, GenerateChange
  <1>7. CASE Retries(t) \/ GivesUp(t)
    BY <1>2, <1>7 DEF Retries, GivesUp, GenerateChange
  <1>8. CASE ResetSends(t) \/ ResetSkips(t) \/ ResetDone(t) \/ BudgetGrows(t) \/ BudgetFits(t)
    BY <1>8 DEF ResetSends, ResetSkips, ResetDone, BudgetGrows, BudgetFits
  <1>9. CASE Unlock(t)
    BY <1>9 DEF Unlock
  <1>10. CASE RequestFails(t)
    BY <1>10 DEF RequestFails, EnsureFails
  <1> QED BY <1>3, <1>4, <1>5, <1>6, <1>7, <1>8, <1>9, <1>10 DEF ThreadMoves

(* A request under the lock. *)
LEMMA ThreadTurns ==
  ASSUME TypeInv, LockInv, RequestInv, RuntimeInv, NEW t \in Threads,
         pc[t] \in {"ensured", "budget", "sized"}, ThreadMoves(t), ~ ResetSends(t)
  PROVE  Turns(t)
  <1>0. /\ pc \in [Actors -> Places] /\ min \in [Actors -> Nat]
        /\ result \in [Threads -> {"none", "ok", "fatal", "transient"}]
        /\ rt.path = ModelOf[t] /\ lock = t /\ rt.max_seq \in Nat /\ Needs[t] \in Nat
    BY ActorFacts DEF TypeInv, TypeOK, LockInv, Locked, RuntimeInv
  <1> USE <1>0, ActorFacts DEF gate, serve, call, back, Hears, Waits
  <1>1. /\ UNCHANGED << daemon, running, faults >>
        /\ \A b \in Actors : b # t => pc'[b] = pc[b] /\ min'[b] = min[b]
        /\ \A u \in Threads : u # t => result'[u] = result[u]
    BY ThreadFrame
  <1>2. CASE ResetSkips(t)
    BY <1>1, <1>2 DEF ResetSkips, Turns
  <1>3. CASE BudgetGrows(t)
    BY <1>1, <1>3 DEF BudgetGrows, Turns
  <1>4. CASE BudgetFits(t)
    BY <1>1, <1>4 DEF BudgetFits, Turns
  <1>5. CASE Unlock(t)
    BY <1>1, <1>5 DEF Unlock, Goto, Turns
  <1>6. CASE RequestFails(t)
    <2>1. pc[t] = "budget" /\ pc'[t] = "failed" /\ lock' = NoOwner
          /\ UNCHANGED << attempt, rt, wire, ctl >>
      BY <1>6 DEF RequestFails, EnsureFails, Leaves
    <2> QED BY <1>1, <2>1 DEF Turns
  <1>7. CASE Classify(t) \/ Refuse(t) \/ Send(t)
    BY <1>7 DEF Classify, Refuse, Send
  <1>8. CASE AcquireShared(t) \/ AcquireAlone(t) \/ ResetDone(t)
    BY <1>8 DEF AcquireShared, AcquireAlone, ResetDone
  <1>9. CASE Returns(t) \/ Retries(t) \/ GivesUp(t)
    BY <1>9 DEF Returns, Retries, GivesUp
  <1> QED BY <1>2, <1>3, <1>4, <1>5, <1>6, <1>7, <1>8, <1>9 DEF ThreadMoves

(* ensure_model when there is nothing to load, and the way into it. *)
LEMMA CallerTurns ==
  ASSUME TypeInv, LockInv, RequestInv, NEW a \in Callers, Enter(a) \/ EnsureSkips(a)
  PROVE  Turns(a)
  <1>0. /\ pc \in [Actors -> Places] /\ min \in [Actors -> Nat] /\ a \in Actors
        /\ rt.max_seq \in Nat /\ min[a] \in Nat /\ min[Prewarmer] = 0
        /\ a \in Threads => Needs[a] \in Nat /\ (pc[a] \in Locked => min[a] \in {0, Needs[a]})
    BY ActorFacts DEF TypeInv, TypeOK, Callers, RequestInv
  <1> USE <1>0, ActorFacts DEF gate, serve, call, back, Waits
  <1>1. /\ UNCHANGED << attempt, result, daemon, running, faults >>
        /\ \A b \in Actors : b # a => pc'[b] = pc[b] /\ min'[b] = min[b]
    BY CallerFrame DEF CallerMoves
  <1>2. CASE Enter(a)
    <2>1. lock = NoOwner /\ lock' = a /\ pc'[a] = "ensuring" /\ min'[a] = 0 /\ UNCHANGED << rt, wire, ctl >>
      BY <1>2 DEF Enter, Goto
    <2> QED BY <1>1, <2>1 DEF Turns
  <1>3. CASE EnsureSkips(a)
    <2>1. /\ pc[a] = "ensuring" /\ ~ must_reload(a) /\ lock = a
          /\ pc'[a] = After(a) /\ lock' = Owner(a) /\ UNCHANGED << rt, min, wire, ctl >>
      BY <1>3 DEF EnsureSkips, LockInv, Locked
    <2>2. After(a) \in {"warmed", "ensured", "sized"} /\ Owner(a) \in {a, NoOwner}
      BY <2>1 DEF After, Owner
    <2>3. a \in Threads /\ After(a) = "sized" =>
            min[a] # 0 /\ rt.path = ModelOf[a] /\ Needs[a] <= rt.max_seq
      BY <2>1 DEF After, must_reload, Locked
    <2> QED BY <1>1, <2>1, <2>2, <2>3 DEF Turns
  <1> QED BY <1>2, <1>3

(* The threads without a lease, outside of the lock. *)
LEMMA SideElsewhere ==
  ASSUME TypeInv,
         \/ PrewarmAnnounce \/ finish_prewarm \/ Expire
         \/ IdleLook \/ IdleExpired \/ IdleSkips \/ IdleClear
  PROVE  Elsewhere
  <1>0. pc \in [Actors -> Places]
    BY DEF TypeInv, TypeOK
  <1> USE <1>0, ActorFacts DEF gate, serve, call, back
  <1>1. UNCHANGED << lock, rt, ctl, daemon, running, faults, min, attempt, result >> /\ wire' = wire
        /\ \A a \in Actors : \/ pc'[a] = pc[a]
                             \/ pc[a] \notin Locked /\ pc'[a] \notin Locked /\ a \notin Threads
    <2>1. CASE PrewarmAnnounce \/ finish_prewarm
      BY <2>1 DEF PrewarmAnnounce, finish_prewarm, Goto, Locked
    <2>2. CASE Expire
      BY <2>2 DEF Expire
    <2>3. CASE IdleLook \/ IdleExpired
      BY <2>3 DEF IdleLook, IdleExpired, Goto, Locked
    <2>4. CASE IdleSkips
      BY <2>4 DEF IdleSkips, Locked
    <2>5. CASE IdleClear
      BY <2>5 DEF IdleClear, Goto, Locked
    <2> QED BY <2>1, <2>2, <2>3, <2>4, <2>5
  <1>2. GenerateChange
    BY <1>1 DEF GenerateChange
  <1> QED BY <1>1, <1>2 DEF Elsewhere

\* The steps that change what the runtime, the daemon and the lines between them say.
Speaks ==
  \/ \E t \in Threads : ResetSends(t) \/ ResetDone(t) \/ HearsFailure(t)
  \/ \E a \in Callers : EnsureLoads(a) \/ Publishes(a) \/ LoadedCold(a) \/ LoadSkips(a) \/ SendWarm(a)
  \/ PrewarmFails \/ IdleSends \/ IdleForgets \/ IdleKeeps

(* Every step is one of these. *)
LEMMA StepKinds ==
  ASSUME BaseInv, Moves
  PROVE  Elsewhere \/ (\E a \in Actors : Turns(a)) \/ Speaks \/ DaemonMoves
  <1>0. TypeInv /\ LockInv /\ RequestInv /\ RuntimeInv /\ PlaceInv
    BY DEF BaseInv
  <1>1. ASSUME NEW t \in Threads, ThreadMoves(t)
        PROVE  Elsewhere \/ (\E a \in Actors : Turns(a)) \/ Speaks
    <2>1. CASE pc[t] \in {"new", "classed", "backoff", "built", "generating", "failed"}
      BY <1>0, <1>1, <2>1, ThreadElsewhere
    <2>2. CASE pc[t] \in {"ensured", "budget", "sized"} /\ ~ ResetSends(t)
      BY <1>0, <1>1, <2>2, ThreadTurns, ActorFacts
    <2>3. CASE ResetSends(t) \/ ResetDone(t) \/ HearsFailure(t)
      BY <2>3 DEF Speaks
    <2>4. \/ pc[t] \in {"new", "classed", "backoff", "built", "generating", "failed", "ensured", "budget", "sized"}
          \/ ResetDone(t) \/ HearsFailure(t)
      BY <1>1 DEF ThreadMoves, Classify, AcquireShared, AcquireAlone, Refuse, ResetSends, ResetSkips,
                  BudgetGrows, BudgetFits, Unlock, Send, Returns, Retries, GivesUp, HearsFailure
    <2> QED BY <2>1, <2>2, <2>3, <2>4
  <1>2. ASSUME NEW a \in Callers, CallerMoves(a)
        PROVE  (\E b \in Actors : Turns(b)) \/ Speaks
    <2>1. CASE Enter(a) \/ EnsureSkips(a)
      <3>1. Turns(a)
        BY <1>0, <2>1, CallerTurns
      <3> QED BY <3>1, ActorFacts DEF Callers
    <2> QED BY <1>2, <2>1 DEF CallerMoves, Speaks
  <1>3. ASSUME SideMoves
        PROVE  Elsewhere \/ Speaks
    BY <1>0, <1>3, SideElsewhere DEF SideMoves, Speaks
  <1> QED BY <1>1, <1>2, <1>3 DEF Moves

(* Failures are remembered. *)
LEMMA FaultsAt ==
  ASSUME TypeInv, NEW what \in {"load", "warm", "reset", "unload", "generate"}, faults' = Append(faults, what)
  PROVE  Range(faults') = Range(faults) \cup {what}
  <1> DEFINE K == {"load", "warm", "reset", "unload", "generate"}
             f == Append(faults, what)
  <1>1. faults \in Seq(K)
    BY DEF TypeInv, LineTypes
  <1>2. /\ f \in Seq(K) /\ Len(f) = Len(faults) + 1 /\ Len(faults) \in Nat
        /\ \A i \in 1 .. Len(faults) : f[i] = faults[i]
        /\ f[Len(faults) + 1] = what
    BY <1>1, AppendAt
  <1>3. DOMAIN f = 1 .. Len(f) /\ DOMAIN faults = 1 .. Len(faults)
    BY <1>1, <1>2, LenProperties
  <1> HIDE DEF f
  <1>4. \A i \in DOMAIN f : i \in DOMAIN faults \/ i = Len(faults) + 1
    BY <1>2, <1>3
  <1>5. Range(f) \subseteq Range(faults) \cup {what}
    BY <1>2, <1>3, <1>4 DEF Range
  <1>6. \A i \in DOMAIN faults : i \in DOMAIN f /\ f[i] = faults[i]
    BY <1>2, <1>3
  <1>7. Len(faults) + 1 \in DOMAIN f
    BY <1>2, <1>3
  <1>8. Range(faults) \cup {what} \subseteq Range(f)
    BY <1>2, <1>6, <1>7 DEF Range
  <1>9. faults' = f
    BY DEF f
  <1> QED BY <1>5, <1>8, <1>9

(* No step takes a failure back. *)
LEMMA FailuresStay ==
  ASSUME TypeInv, faults' = faults \/ \E what \in Faults : faults' = Append(faults, what)
  PROVE  \A what : Failed(what) => Failed(what)'
  <1>1. CASE faults' = faults
    BY <1>1 DEF Failed
  <1>2. ASSUME NEW what \in Faults, faults' = Append(faults, what)
        PROVE  \A w : Failed(w) => Failed(w)'
    <2>1. Range(faults') = Range(faults) \cup {what}
      BY <1>2, FaultsAt, ServeAssumption
    <2> QED BY <2>1 DEF Failed
  <1> QED BY <1>1, <1>2

(* A failure is there from the step on. *)
LEMMA FailureCounts ==
  ASSUME TypeInv, NEW what, FailsAt(what)
  PROVE  Failed(what)' /\ Range(faults') = Range(faults) \cup {what}
  <1>1. what \in {"load", "warm", "reset", "unload", "generate"} /\ faults' = Append(faults, what) /\ what \in Faults
    BY ServeAssumption DEF FailsAt
  <1>2. Range(faults') = Range(faults) \cup {what}
    BY <1>1, FaultsAt
  <1> QED BY <1>1, <1>2 DEF Failed

(* The first reply. *)
LEMMA FirstReply ==
  ASSUME ctl = << >>, NEW m, ctl' = Append(ctl, m)
  PROVE  ctl' # << >> /\ Head(ctl') = m /\ Tail(ctl') = << >>
  OBVIOUS

\* The daemon answers the owner of the lock.
Replied(kind, k) ==
  /\ kind \in Controls /\ lock # NoOwner /\ ctl = << >> /\ Asked(Head(wire)) /\ Head(wire).kind = kind
  /\ wire' = Tail(wire) /\ OnlyGenerates'
  /\ ctl' # << >> /\ Head(ctl').kind = k /\ Tail(ctl') = << >>
  /\ UNCHANGED << lock, pc, min, rt, attempt, result, running, shared >>

(* What the daemon says is an answer to the owner of the lock. *)
LEMMA AnswersReply ==
  ASSUME TypeInv, Talk, NEW kind \in Controls, NEW k, Answers(kind, k)
  PROVE  Replied(kind, k)
  <1>1. /\ Takes(kind) /\ wire' = Tail(wire) /\ ctl' = Append(ctl, Line(k))
        /\ UNCHANGED << lock, pc, min, rt, attempt, result, running, shared >>
    BY DEF Answers, gate, serve, call
  <1>2. lock # NoOwner /\ ctl = << >> /\ Asked(Head(wire)) /\ OnlyGenerates' /\ Head(wire).kind = kind
    BY <1>1, TakenWhen DEF Takes
  <1>3. ctl' # << >> /\ Head(ctl') = Line(k) /\ Tail(ctl') = << >>
    BY <1>1, <1>2, FirstReply
  <1>4. Line(k).kind = k
    BY DEF Line
  <1> QED BY <1>1, <1>2, <1>3, <1>4 DEF Replied

(* So is the reply to a load that succeeds. *)
LEMMA LoadsReply ==
  ASSUME TypeInv, Talk, NoticeModels = {}, Loads
  PROVE  /\ Replied("load", "loaded") /\ pc[lock] = "loading" /\ faults' = faults
         /\ daemon' = [model |-> Wanted(lock), seq |-> Size(lock), used |-> FALSE]
  <1>1. /\ Takes("load") /\ wire' = Tail(wire)
        /\ ctl' = Append(ctl, [kind |-> "loaded", eligible |-> Head(wire).model \in RetryModels])
        /\ daemon' = [model |-> Head(wire).model, seq |-> Head(wire).seq, used |-> FALSE]
        /\ UNCHANGED << lock, pc, min, rt, attempt, result, running, shared, faults >>
    BY DEF Loads, gate, serve, call
  <1>2. lock # NoOwner /\ ctl = << >> /\ Asked(Head(wire)) /\ OnlyGenerates' /\ Head(wire).kind = "load"
    BY <1>1, TakenWhen DEF Takes, Controls
  <1>3. ctl' # << >> /\ Head(ctl').kind = "loaded" /\ Tail(ctl') = << >>
    BY <1>1, <1>2, FirstReply
  <1>4. pc[lock] = "loading" /\ Head(wire).model = Wanted(lock) /\ Head(wire).seq = Size(lock)
    BY <1>2 DEF Asked
  <1>5. Replied("load", "loaded")
    BY <1>1, <1>2, <1>3 DEF Replied, Controls
  <1> QED BY <1>1, <1>4, <1>5

(* An answer that fits keeps the talk going. *)
LEMMA RepliedTalk ==
  ASSUME NEW kind, NEW k, Replied(kind, k), Fits(k)'
  PROVE  Talk'
  BY DEF Replied, Talk, Answered

\* What the daemon does between two control lines.
Serves == \E t \in Threads : Refuses(t) \/ Ends(t) \/ \E b \in BOOLEAN : Starts(t, b)
Generates ==
  /\ GenerateChange
  /\ UNCHANGED << lock, pc, min, rt, ctl, attempt, shared >>
  /\ daemon'.model = daemon.model /\ daemon'.seq = daemon.seq
  /\ faults' = faults \/ FailsAt("generate")

(* Every step of the daemon answers, generates or is impossible. *)
LEMMA DaemonKinds ==
  ASSUME TypeInv, LockInv, Talk, NoticeModels = {}, DaemonMoves
  PROVE  \/ /\ Replied("load", "loaded") /\ pc[lock] = "loading" /\ faults' = faults
            /\ daemon' = [model |-> Wanted(lock), seq |-> Size(lock), used |-> FALSE]
         \/ Replied("load", "error") /\ pc[lock] = "loading" /\ FailsAt("load") /\ daemon' = NoDaemonModel
         \/ Replied("warm", "decode_result") /\ pc[lock] = "warming" /\ UNCHANGED << daemon, faults >>
         \/ /\ Replied("warm", "error") /\ pc[lock] = "warming" /\ UNCHANGED daemon
            /\ FailsAt("warm") \/ (daemon.model = NoModel /\ faults' = faults)
         \/ /\ \E k \in {"reset", "error"} : Replied("reset", k)
            /\ pc[lock] = "resetting" /\ daemon' = [daemon EXCEPT !.used = FALSE] /\ faults' = faults
         \/ Replied("reset", "transient") /\ pc[lock] = "resetting" /\ FailsAt("reset") /\ UNCHANGED daemon
         \/ /\ pc[lock] = "unloading" /\ daemon' = NoDaemonModel
            /\ \/ Replied("unload", "unloaded") /\ faults' = faults
               \/ Replied("unload", "error") /\ FailsAt("unload")
         \/ Generates /\ Serves
  <1>0. \A kind, k : Replied(kind, k) =>
          /\ kind = "load" => pc[lock] = "loading"
          /\ kind = "warm" => pc[lock] = "warming"
          /\ kind = "reset" => pc[lock] = "resetting"
          /\ kind = "unload" => pc[lock] = "unloading"
    BY DEF Replied, Asked
  <1>1. CASE Loads
    BY <1>1, LoadsReply
  <1>2. CASE LoadBreaks
    BY <1>0, <1>2, AnswersReply DEF LoadBreaks, Controls
  <1>3. CASE WarmAnswers
    BY <1>0, <1>3, AnswersReply DEF WarmAnswers, Controls
  <1>4. CASE ResetAnswers
    <2>1. ASSUME NEW k \in {"reset", "error"}, Answers("reset", k)
          PROVE  Replied("reset", k) /\ pc[lock] = "resetting"
      BY <1>0, <2>1, AnswersReply DEF Controls
    <2>2. Answers("reset", "transient") => Replied("reset", "transient") /\ pc[lock] = "resetting"
      BY <1>0, AnswersReply DEF Controls
    <2> QED BY <1>4, <2>1, <2>2 DEF ResetAnswers
  <1>5. CASE Unloads
    BY <1>0, <1>5, AnswersReply DEF Unloads, Controls
  <1>6. CASE DaemonNotice
    <2>1. Takes("notice")
      BY <1>6 DEF DaemonNotice
    <2>2. "notice" \in Controls
      BY <2>1, TakenWhen
    <2> QED BY <2>2 DEF Controls
  <1>7. CASE DropLine
    <2>1. ctl # << >> /\ \A a \in Actors : pc[a] \notin Waits
      BY <1>7 DEF DropLine, Waits
    <2>2. lock # NoOwner /\ Fits(Head(ctl).kind)
      BY <2>1, HeardWhen
    <2>3. lock \in Actors /\ pc[lock] \in Waits
      BY <2>2 DEF Fits, Waits, TypeInv, TypeOK
    <2> QED BY <2>1, <2>3
  <1>8. CASE \E t \in Threads : Refuses(t) \/ Ends(t) \/ \E b \in BOOLEAN : Starts(t, b)
    <2>0. daemon \in [model : Models \cup {NoModel}, seq : Nat, used : BOOLEAN]
      BY DEF TypeInv, TypeOK
    <2>1. Generates
      BY <1>8, <2>0 DEF Refuses, Ends, Starts, Generates, GenerateChange, gate, serve, call
    <2> QED BY <1>8, <2>1 DEF Serves
  <1> QED BY <1>1, <1>2, <1>3, <1>4, <1>5, <1>6, <1>7, <1>8 DEF DaemonMoves

(* The owner of the lock hears its answer, and nothing is left. *)
LEMMA HearsAnswer ==
  ASSUME TypeInv, LockInv, Talk, NEW a \in Actors, NEW place \in Waits, Hears(a, place)
  PROVE  lock = a /\ Fits(Head(ctl).kind) /\ Quiet' /\ Talk'
  <1>1. pc[a] = place /\ ctl # << >> /\ ctl' = Tail(ctl) /\ wire' = wire
    BY DEF Hears
  <1>2. lock = a
    BY <1>1 DEF LockInv, Locked, Waits
  <1>3. Tail(ctl) = << >> /\ OnlyGenerates /\ Fits(Head(ctl).kind)
    BY <1>1, HeardWhen
  <1>4. Quiet'
    BY <1>1, <1>3 DEF Quiet, OnlyGenerates
  <1> QED BY <1>2, <1>3, <1>4 DEF Talk

(* The owner of the lock asks while nothing is under way. *)
LEMMA AsksTalk ==
  ASSUME TypeInv, Quiet, NEW m, WireGrows(m), m.kind \in Controls, ctl' = ctl, lock' # NoOwner, Asked(m)'
  PROVE  Talk'
  <1>1. /\ Len(wire) \in Nat /\ Len(wire') = Len(wire) + 1 /\ wire'[Len(wire) + 1] = m
        /\ \A i \in 1 .. Len(wire) : wire'[i] = wire[i]
    BY GrownAt
  <1>2. Len(wire) + 1 \in 1 .. Len(wire')
        /\ \A i \in 1 .. Len(wire') : i # Len(wire) + 1 => wire'[i].kind = "generate"
    BY <1>1 DEF Quiet, OnlyGenerates
  <1>3. ctl' = << >>
    BY DEF Quiet
  <1>4. /\ m.kind = "load" => pc'[lock'] = "loading" /\ m.model = Wanted(lock') /\ m.seq = Size(lock)'
        /\ m.kind = "warm" => pc'[lock'] = "warming"
        /\ m.kind = "reset" => pc'[lock'] = "resetting"
        /\ m.kind = "unload" => pc'[lock'] = "unloading"
    BY DEF Asked
  <1>5. \E k \in 1 .. Len(wire') :
          /\ wire'[k].kind \in Controls
          /\ wire'[k].kind = "load" =>
               pc'[lock'] = "loading" /\ wire'[k].model = Wanted(lock') /\ wire'[k].seq = Size(lock)'
          /\ wire'[k].kind = "warm" => pc'[lock'] = "warming"
          /\ wire'[k].kind = "reset" => pc'[lock'] = "resetting"
          /\ wire'[k].kind = "unload" => pc'[lock'] = "unloading"
          /\ \A i \in 1 .. Len(wire') : i # k => wire'[i].kind = "generate"
    BY <1>1, <1>2, <1>4
  <1>6. Asking'
    BY <1>3, <1>5 DEF Asking, Asked
  <1> QED BY <1>6 DEF Talk

(* A step that speaks is the owner's, and it asks or hears. *)
LEMMA SpeaksTalk ==
  ASSUME BaseInv, Talk, Speaks
  PROVE  Talk'
  <1>0. /\ TypeInv /\ LockInv /\ pc \in [Actors -> Places] /\ min \in [Actors -> Nat]
        /\ \A a \in Actors : pc[a] \in Locked => lock = a
    BY DEF BaseInv, TypeInv, TypeOK, LockInv
  <1> USE <1>0, ActorFacts DEF gate, serve, call, back
  <1>1. ASSUME NEW t \in Threads, ResetSends(t)
        PROVE  Talk'
    <2>1. pc[t] = "ensured" /\ pc'[t] = "resetting" /\ lock' = lock /\ ctl' = ctl
          /\ wire' = Append(wire, [kind |-> "reset"]) /\ lock = t
      BY <1>1 DEF ResetSends, Locked
    <2>2. Quiet
      BY <2>1, SilentWhen DEF Waits
    <2> DEFINE m == [kind |-> "reset"]
    <2>3. WireGrows(m) /\ m.kind = "reset"
      BY <2>1, ControlLines DEF WireGrows
    <2> HIDE DEF m
    <2>4. Asked(m)'
      BY <2>1, <2>3 DEF Asked
    <2> QED BY <2>1, <2>2, <2>3, <2>4, AsksTalk DEF Controls
  <1>2. ASSUME NEW a \in Callers, EnsureLoads(a)
        PROVE  Talk'
    <2>0. a \in Actors
      BY DEF Callers
    <2>1. pc[a] = "ensuring" /\ pc'[a] = "loading" /\ lock' = lock /\ ctl' = ctl /\ min' = min
          /\ wire' = Append(wire, LoadLine(a)) /\ lock = a
      BY <1>2, <2>0 DEF EnsureLoads, Locked
    <2>2. Quiet
      BY <2>1, SilentWhen DEF Waits
    <2>a. PICK m : m = LoadLine(a)
      OBVIOUS
    <2>3. WireGrows(m) /\ m.kind = "load" /\ m.model = Wanted(a) /\ m.seq = Size(a)
      BY <2>1, <2>a, ControlLines DEF WireGrows, LoadLine
    <2>4. Asked(m)'
      BY <2>1, <2>3 DEF Asked, Size
    <2>5. lock' # NoOwner
      BY <2>0, <2>1
    <2> QED BY <2>1, <2>2, <2>3, <2>4, <2>5, AsksTalk DEF Controls
  <1>3. ASSUME NEW a \in Callers, SendWarm(a)
        PROVE  Talk'
    <2>0. a \in Actors
      BY DEF Callers
    <2>1. pc[a] = "warm" /\ pc'[a] = "warming" /\ lock' = lock /\ ctl' = ctl
          /\ wire' = Append(wire, [kind |-> "warm"]) /\ lock = a
      BY <1>3, <2>0 DEF SendWarm, Goto, Locked
    <2>2. Quiet
      BY <2>1, SilentWhen DEF Waits
    <2> DEFINE m == [kind |-> "warm"]
    <2>3. WireGrows(m) /\ m.kind = "warm"
      BY <2>1, ControlLines DEF WireGrows
    <2> HIDE DEF m
    <2>4. Asked(m)'
      BY <2>1, <2>3 DEF Asked
    <2>5. lock' # NoOwner
      BY <2>0, <2>1
    <2> QED BY <2>1, <2>2, <2>3, <2>4, <2>5, AsksTalk DEF Controls
  <1>4. CASE IdleSends
    <2>1. pc'[Evictor] = "unloading" /\ lock = NoOwner /\ lock' = Evictor /\ ctl' = ctl
          /\ wire' = Append(wire, [kind |-> "unload"])
      BY <1>4 DEF IdleSends
    <2>2. Quiet
      BY <2>1, SilentWhen
    <2> DEFINE m == [kind |-> "unload"]
    <2>3. WireGrows(m) /\ m.kind = "unload"
      BY <2>1, ControlLines DEF WireGrows
    <2> HIDE DEF m
    <2>4. Asked(m)'
      BY <2>1, <2>3 DEF Asked
    <2> QED BY <2>1, <2>2, <2>3, <2>4, AsksTalk DEF Controls
  <1>5. ASSUME NEW a \in Actors, NEW place \in Waits, Hears(a, place)
        PROVE  Talk'
    BY <1>5, HearsAnswer
  <1>6. ASSUME NEW a \in Callers, Publishes(a) \/ LoadedCold(a) \/ LoadSkips(a)
        PROVE  Talk'
    BY <1>5, <1>6 DEF Publishes, LoadedCold, LoadSkips, Waits, Callers
  <1>7. CASE PrewarmFails
    BY <1>5, <1>7 DEF PrewarmFails, EnsureFails, Waits
  <1>8. CASE IdleForgets \/ IdleKeeps
    BY <1>5, <1>8 DEF IdleForgets, IdleKeeps, Waits
  <1>9. ASSUME NEW t \in Threads, ResetDone(t)
        PROVE  Talk'
    BY <1>5, <1>9 DEF ResetDone, Waits
  <1>10. ASSUME NEW t \in Threads, HearsFailure(t)
         PROVE  Talk'
    <2>1. Hears(t, "loading") \/ Hears(t, "warming") \/ Hears(t, "resetting")
      BY <1>10 DEF HearsFailure, RequestFails, EnsureFails
    <2> QED BY <1>5, <2>1 DEF Waits
  <1> QED BY <1>1, <1>2, <1>3, <1>4, <1>6, <1>7, <1>8, <1>9, <1>10 DEF Speaks

(* The talk of every step. *)
LEMMA TalkStep ==
  ASSUME NoticeModels = {}, BaseInv, Talk, Fresh, Moves
  PROVE  Talk'
  <1>0. TypeInv /\ LockInv /\ PlaceInv /\ lock \in Actors \cup {NoOwner}
        /\ daemon \in [model : Models \cup {NoModel}, seq : Nat, used : BOOLEAN]
    BY DEF BaseInv, TypeInv, TypeOK
  <1>1. CASE Elsewhere
    <2>1. /\ UNCHANGED << lock, ctl, daemon, faults, min >> /\ GenerateChange
          /\ \A a \in Actors : pc[a] \in Locked => pc'[a] = pc[a]
      BY <1>1 DEF Elsewhere
    <2>2. lock # NoOwner => pc'[lock] = pc[lock]
      BY <1>0, <2>1 DEF LockInv
    <2>3. \A what : Failed(what) => Failed(what)'
      BY <2>1 DEF Failed
    <2> QED BY <1>0, <2>1, <2>2, <2>3, TalkKept
  <1>2. ASSUME NEW a \in Actors, Turns(a)
        PROVE  Talk'
    <2>1. UNCHANGED << wire, ctl >> /\ (lock = NoOwner \/ pc[lock] \notin Waits)
      BY <1>2 DEF Turns
    <2>2. Quiet
      BY <1>0, <2>1, SilentWhen
    <2> QED BY <2>1, <2>2 DEF Talk, Quiet, OnlyGenerates
  <1>3. CASE Speaks
    BY <1>3, SpeaksTalk
  <1>4. CASE DaemonMoves
    <2>0. ASSUME NEW kind, NEW k, Replied(kind, k)
          PROVE  /\ lock' = lock /\ pc' = pc /\ lock # NoOwner /\ Size(lock)' = Size(lock) /\ lock \in Actors
                 /\ Fits(k)' => Talk'
      BY <1>0, <2>0, RepliedTalk DEF Replied, Size
    <2>1. CASE /\ Replied("load", "loaded") /\ pc[lock] = "loading"
               /\ daemon' = [model |-> Wanted(lock), seq |-> Size(lock), used |-> FALSE]
      BY <2>0, <2>1 DEF Fits
    <2>2. CASE Replied("load", "error") /\ pc[lock] = "loading" /\ FailsAt("load") /\ daemon' = NoDaemonModel
      <3>1. Failed("load")'
        BY <1>0, <2>2, FailureCounts
      <3> QED BY <2>0, <2>2, <3>1 DEF Fits, NoDaemonModel
    <2>3. CASE Replied("warm", "decode_result") /\ pc[lock] = "warming"
      BY <2>0, <2>3 DEF Fits
    <2>4. CASE Replied("warm", "error") /\ pc[lock] = "warming" /\ FailsAt("warm")
      <3>1. Failed("warm")'
        BY <1>0, <2>4, FailureCounts
      <3> QED BY <2>0, <2>4, <3>1 DEF Fits
    <2>5. CASE Replied("warm", "error") /\ pc[lock] = "warming" /\ daemon.model = NoModel
      <3>1. lock \in Actors /\ daemon.model = Wanted(lock)
        BY <2>0, <2>5 DEF Fresh
      <3>2. lock \in Threads \/ lock = Prewarmer
        BY <1>0, <2>5, <3>1 DEF Actors, PlaceInv
      <3>3. Wanted(lock) # NoModel
        BY <1>0, <2>5, <3>2, ActorFacts DEF PlaceInv
      <3> QED BY <2>5, <3>1, <3>3
    <2>6. ASSUME NEW k \in {"reset", "error", "transient"}, Replied("reset", k), pc[lock] = "resetting"
          PROVE  Talk'
      BY <2>0, <2>6 DEF Fits
    <2>7. CASE pc[lock] = "unloading" /\ daemon' = NoDaemonModel /\ Replied("unload", "unloaded")
      BY <2>0, <2>7 DEF Fits, NoDaemonModel
    <2>8. CASE pc[lock] = "unloading" /\ daemon' = NoDaemonModel /\ Replied("unload", "error") /\ FailsAt("unload")
      <3>1. Failed("unload")'
        BY <1>0, <2>8, FailureCounts
      <3> QED BY <2>0, <2>8, <3>1 DEF Fits, NoDaemonModel
    <2>9. CASE Generates
      <3>1. \A what : Failed(what) => Failed(what)'
        BY <1>0, <2>9, FailuresStay DEF Generates, FailsAt
      <3> QED BY <1>0, <2>9, <3>1, TalkKept DEF Generates
    <2> QED BY <1>0, <1>4, <2>1, <2>2, <2>3, <2>4, <2>5, <2>6, <2>7, <2>8, <2>9, DaemonKinds
  <1> QED BY <1>1, <1>2, <1>3, <1>4, StepKinds

(* What a load under way knows. *)
LEMMA FreshStep ==
  ASSUME NoticeModels = {}, BaseInv, Talk, Fresh, Moves, BaseInv'
  PROVE  Fresh'
  <1>0. /\ TypeInv /\ LockInv /\ PlaceInv /\ pc \in [Actors -> Places] /\ min \in [Actors -> Nat]
        /\ daemon \in [model : Models \cup {NoModel}, seq : Nat, used : BOOLEAN]
        /\ rt \in [path : Models \cup {NoModel}, max_seq : Nat, cache : BOOLEAN,
                   batch : BOOLEAN, eligible : BOOLEAN]
        /\ \A a \in Actors : pc'[a] \in Locked => lock' = a
        /\ \A a \in Actors : pc[a] \in Locked => lock = a
    BY DEF BaseInv, TypeInv, TypeOK, LockInv
  <1> SUFFICES ASSUME NEW a \in Actors, pc'[a] \in {"loading", "warm", "warming"}
               PROVE  /\ must_reload(a)'
                      /\ pc'[a] \in {"warm", "warming"} => daemon'.model = Wanted(a) /\ daemon'.seq = Size(a)'
    BY DEF Fresh, Wanted
  <1>1. lock' = a /\ pc'[a] \in Locked
    BY <1>0 DEF Locked
  <1> USE <1>0, <1>1, ActorFacts DEF gate, serve, call, back
  \* The step leaves the owner where it is.
  <1>2. ASSUME pc'[a] = pc[a], min'[a] = min[a], rt'.path = rt.path, rt'.max_seq = rt.max_seq,
               daemon'.model = daemon.model, daemon'.seq = daemon.seq
        PROVE  /\ must_reload(a)'
               /\ pc'[a] \in {"warm", "warming"} => daemon'.model = Wanted(a) /\ daemon'.seq = Size(a)'
    BY <1>2 DEF Fresh, must_reload, Size, Wanted
  <1>3. CASE Elsewhere
    BY <1>2, <1>3 DEF Elsewhere
  <1>4. ASSUME NEW b \in Actors, Turns(b)
        PROVE  FALSE
    BY <1>4 DEF Turns, Waits
  <1>5. CASE Speaks
    <2>1. ASSUME NEW b \in Callers, EnsureLoads(b)
          PROVE  a = b /\ must_reload(a)' /\ pc'[a] = "loading"
      <3>1. b \in Actors /\ pc[b] \in Locked /\ lock' = lock
        BY <2>1 DEF EnsureLoads, Callers, Locked
      <3>2. a = b
        BY <3>1
      <3> QED BY <2>1, <3>2 DEF EnsureLoads, must_reload, Wanted
    <2>2. ASSUME NEW b \in Callers, SendWarm(b)
          PROVE  must_reload(a)' /\ daemon'.model = Wanted(a) /\ daemon'.seq = Size(a)'
      <3>1. b \in Actors /\ pc[b] \in Locked /\ lock' = lock
        BY <2>2 DEF SendWarm, Callers, Locked
      <3>2. a = b
        BY <3>1
      <3> QED BY <2>2, <3>2 DEF SendWarm, must_reload, Wanted, Fresh, Size
    <2>3. ASSUME NEW b \in Callers, LoadedCold(b)
          PROVE  must_reload(a)' /\ daemon'.model = Wanted(a) /\ daemon'.seq = Size(a)'
      <3>1. b \in Actors /\ pc[b] = "loading" /\ lock' = lock /\ Hears(b, "loading") /\ Head(ctl).kind = "loaded"
        BY <2>3 DEF LoadedCold, Callers, Hears
      <3>2. lock = b /\ Fits("loaded")
        BY <3>1, HearsAnswer DEF Waits
      <3>3. a = b
        BY <3>1, <3>2
      <3>4. daemon.model = Wanted(a) /\ daemon.seq = Size(a) /\ must_reload(a)
        BY <3>1, <3>2, <3>3 DEF Fits, Fresh
      <3> QED BY <2>3, <3>4 DEF LoadedCold, Hears, must_reload, Wanted, Size
    <2>4. ASSUME NEW b \in Callers, Publishes(b)
          PROVE  FALSE
      <3>1. b \in Actors /\ pc[b] \in Locked /\ lock' = Owner(b) /\ pc'[b] = After(b)
        BY <2>4 DEF Publishes, Hears, Callers, Locked
      <3>2. a = b
        BY <3>1 DEF Owner
      <3> QED BY <3>1, <3>2 DEF After
    <2>5. ASSUME NEW b \in Callers, LoadSkips(b)
          PROVE  UNCHANGED << pc, min, rt, daemon >>
      BY <2>5 DEF LoadSkips, Hears
    <2>6. ASSUME NEW t \in Threads, ResetSends(t) \/ ResetDone(t)
          PROVE  FALSE
      <3>1. pc[t] \in Locked /\ lock' = lock /\ pc'[t] \in {"resetting", "budget"}
        BY <2>6 DEF ResetSends, ResetDone, Hears, Locked
      <3> QED BY <3>1
    <2>7. lock' # NoOwner
      OBVIOUS
    <2>8. ASSUME NEW t \in Threads, HearsFailure(t)
          PROVE  FALSE
      BY <2>8, <2>7 DEF HearsFailure, RequestFails, Leaves
    <2>9. CASE PrewarmFails \/ IdleForgets \/ IdleKeeps
      BY <2>7, <2>9 DEF PrewarmFails, IdleForgets, IdleKeeps
    <2>10. CASE IdleSends
      BY <2>10 DEF IdleSends
    <2> QED BY <1>2, <1>5, <2>1, <2>2, <2>3, <2>4, <2>5, <2>6, <2>8, <2>9, <2>10 DEF Speaks
  <1>6. CASE DaemonMoves
    <2>0. ASSUME NEW kind, NEW k, Replied(kind, k)
          PROVE  lock = a /\ UNCHANGED << pc, min, rt >>
      BY <2>0 DEF Replied
    <2>a. UNCHANGED << pc, min, rt, lock >>
      BY <1>6, DaemonFrame
    <2>1. must_reload(a)'
      BY <2>a DEF Fresh, must_reload, Wanted
    <2>2. CASE daemon'.model = daemon.model /\ daemon'.seq = daemon.seq
      BY <1>2, <2>2, <2>a
    <2>3. CASE pc[lock] \in {"loading", "unloading", "resetting"}
      BY <2>1, <2>3, <2>a
    <2> QED BY <1>6, <2>2, <2>3, DaemonKinds DEF Generates
  <1> QED BY <1>3, <1>4, <1>5, <1>6, StepKinds

-----------------------------------------------------------------------------
(* The runtime and the daemon agree *)

\* The daemon is ahead of the runtime: it has done what it was asked, and the runtime
\* has not published it yet.
Ahead ==
  lock # NoOwner /\ (pc[lock] \in {"warm", "warming"} \/ (pc[lock] \in {"loading", "unloading"} /\ ctl # << >>))

Unfailed == Range(faults) \cap {"load", "warm", "unload"} = {}

\* Under the lock the runtime is behind the daemon by the answer under way, and otherwise
\* they agree unless a retry has poisoned the runtime.
Agrees ==
  \/ Ahead
  \/ rt.path = daemon.model /\ rt.max_seq = daemon.seq
  \/ rt.path = NoModel /\ \E t \in Threads : attempt[t] = 2
Exact == Unfailed => Agrees

QuietInv == BaseInv /\ Talk /\ Fresh /\ Exact

(* Failures only grow. *)
LEMMA UnfailedBefore ==
  ASSUME TypeInv, Moves, Unfailed'
  PROVE  Unfailed
  <1>1. Range(faults) \subseteq Range(faults')
    <2>1. ASSUME NEW what, FailsAt(what)
          PROVE  Range(faults) \subseteq Range(faults')
      BY <2>1, FailureCounts
    <2>2. CASE \E t \in Threads : ThreadMoves(t)
      BY <2>2, ThreadFrame
    <2>3. CASE \E a \in Callers : CallerMoves(a)
      BY <2>3, CallerFrame
    <2>4. CASE SideMoves
      BY <2>4, SideFrame
    <2>5. CASE DaemonMoves
      <3>1. faults' = faults \/ \E what : FailsAt(what)
        <4>1. CASE Loads \/ LoadBreaks \/ DaemonNotice \/ WarmAnswers \/ ResetAnswers \/ Unloads \/ DropLine
          BY <4>1 DEF Loads, LoadBreaks, DaemonNotice, WarmAnswers, ResetAnswers, Unloads, DropLine
        <4>2. CASE \E t \in Threads : Refuses(t) \/ Ends(t) \/ \E b \in BOOLEAN : Starts(t, b)
          BY <4>2 DEF Refuses, Ends, Starts
        <4> QED BY <2>5, <4>1, <4>2 DEF DaemonMoves
      <3> QED BY <2>1, <3>1
    <2> QED BY <2>2, <2>3, <2>4, <2>5 DEF Moves
  <1> QED BY <1>1 DEF Unfailed

(* The runtime and the daemon agree from step to step. *)
LEMMA ExactStep ==
  ASSUME NoticeModels = {}, QuietInv, Moves, BaseInv'
  PROVE  Exact'
  <1>0. /\ TypeInv /\ LockInv /\ PlaceInv /\ pc \in [Actors -> Places] /\ min \in [Actors -> Nat]
        /\ daemon \in [model : Models \cup {NoModel}, seq : Nat, used : BOOLEAN]
        /\ rt \in [path : Models \cup {NoModel}, max_seq : Nat, cache : BOOLEAN,
                   batch : BOOLEAN, eligible : BOOLEAN]
        /\ \A a \in Actors : pc'[a] \in Locked => lock' = a
        /\ \A a \in Actors : pc[a] \in Locked => lock = a
        /\ lock \in Actors \cup {NoOwner}
        /\ BaseInv /\ Talk /\ Fresh
    BY DEF QuietInv, BaseInv, TypeInv, TypeOK, LockInv
  <1> SUFFICES ASSUME Unfailed'
               PROVE  Agrees'
    BY DEF Exact
  <1>1. Unfailed /\ Agrees
    BY <1>0, UnfailedBefore DEF QuietInv, Exact
  <1>2. /\ ~ Failed("load") /\ ~ Failed("warm") /\ ~ Failed("unload")
        /\ ~ FailsAt("load") /\ ~ FailsAt("warm") /\ ~ FailsAt("unload")
    <2>1. ASSUME NEW what \in {"load", "warm", "unload"}
          PROVE  ~ Failed(what) /\ ~ FailsAt(what)
      BY <1>0, <1>1, FailureCounts DEF Unfailed, Failed
    <2> QED BY <2>1
  <1> USE <1>0, ActorFacts DEF gate, serve, call, back, Agrees
  <1>3. ASSUME rt'.path = rt.path, rt'.max_seq = rt.max_seq, daemon'.model = daemon.model,
               daemon'.seq = daemon.seq, \A t \in Threads : attempt[t] = 2 => attempt'[t] = 2,
               Ahead => Ahead'
        PROVE  Agrees'
    BY <1>1, <1>3
  <1>4. CASE Elsewhere
    <2>1. Ahead => Ahead'
      BY <1>4 DEF Elsewhere, Ahead, Locked
    <2> QED BY <1>3, <1>4, <2>1 DEF Elsewhere
  <1>5. ASSUME NEW b \in Actors, Turns(b)
        PROVE  Agrees'
    <2>1. ~ Ahead
      BY <1>5 DEF Turns, Ahead, Waits
    <2> QED BY <1>3, <1>5, <2>1 DEF Turns
  <1>6. CASE Speaks
    <2>1. ASSUME NEW b \in Callers, EnsureLoads(b)
          PROVE  Agrees'
      <3>1. lock = b
        BY <2>1 DEF EnsureLoads, Callers, Locked
      <3>2. ~ Ahead
        BY <2>1, <3>1 DEF Ahead, EnsureLoads
      <3> QED BY <1>3, <2>1, <3>2 DEF EnsureLoads
    <2>2. ASSUME NEW b \in Callers, SendWarm(b)
          PROVE  Agrees'
      <3>1. b \in Actors /\ lock' = b /\ pc'[b] = "warming"
        BY <2>2 DEF SendWarm, Callers, Locked, Goto
      <3> QED BY <3>1 DEF Ahead
    <2>3. ASSUME NEW b \in Callers, LoadedCold(b)
          PROVE  Agrees'
      <3>1. b \in Actors /\ lock' = b /\ pc'[b] = "warm"
        BY <2>3 DEF LoadedCold, Hears, Callers, Locked
      <3> QED BY <3>1 DEF Ahead
    <2>4. ASSUME NEW b \in Callers, Publishes(b)
          PROVE  Agrees'
      <3>0. b \in Actors
        BY DEF Callers
      <3>1. PICK e : rt' = Published(b, e)
        BY <2>4 DEF Publishes
      <3>2. rt'.path = Wanted(b) /\ rt'.max_seq = Size(b) /\ daemon' = daemon
        BY <2>4, <3>1 DEF Published, Publishes, Hears
      <3>3. CASE Hears(b, "loading") /\ Head(ctl).kind = "loaded"
        <4>1. lock = b /\ Fits("loaded") /\ pc[b] = "loading"
          BY <3>0, <3>3, HearsAnswer DEF Waits, Hears
        <4> QED BY <3>2, <4>1 DEF Fits
      <3>4. CASE Hears(b, "warming")
        <4>1. daemon.model = Wanted(b) /\ daemon.seq = Size(b)
          BY <3>0, <3>4 DEF Hears, Fresh
        <4> QED BY <3>2, <4>1
      <3> QED BY <2>4, <3>3, <3>4 DEF Publishes
    <2>5. ASSUME NEW b \in Callers, LoadSkips(b)
          PROVE  Agrees'
      <3>1. b \in Actors /\ Hears(b, "loading") /\ Head(ctl).kind \notin {"loaded", "error", "transient"} /\ pc[b] = "loading"
        BY <2>5 DEF LoadSkips, load_errors, Hears, Callers
      <3>2. lock = b /\ Fits(Head(ctl).kind)
        BY <3>1, HearsAnswer DEF Waits
      <3> QED BY <3>1, <3>2 DEF Fits
    <2>6. ASSUME NEW t \in Threads, ResetSends(t) \/ ResetDone(t)
          PROVE  Agrees'
      <3>1. /\ lock = t /\ pc[t] \in {"ensured", "resetting"} /\ UNCHANGED << daemon, attempt >>
            /\ rt'.path = rt.path /\ rt'.max_seq = rt.max_seq
        BY <2>6 DEF ResetSends, ResetDone, Hears, Locked
      <3>2. ~ Ahead
        BY <3>1 DEF Ahead
      <3> QED BY <1>3, <3>1, <3>2
    <2>7. ASSUME NEW b \in Callers, EnsureFails(b)
          PROVE  FALSE
      <3>0. b \in Actors
        BY DEF Callers
      <3>1. CASE Hears(b, "loading") /\ Head(ctl).kind \in load_errors
        <4>1. lock = b /\ Fits(Head(ctl).kind) /\ pc[b] = "loading"
          BY <3>0, <3>1, HearsAnswer DEF Waits, Hears
        <4> QED BY <1>2, <3>1, <4>1 DEF Fits, load_errors
      <3>2. CASE Hears(b, "warming") /\ Head(ctl).kind # "decode_result"
        <4>1. lock = b /\ Fits(Head(ctl).kind) /\ pc[b] = "warming"
          BY <3>0, <3>2, HearsAnswer DEF Waits, Hears
        <4> QED BY <1>2, <3>2, <4>1 DEF Fits
      <3> QED BY <2>7, <3>1, <3>2 DEF EnsureFails
    <2>8. ASSUME NEW t \in Threads, HearsFailure(t)
          PROVE  Agrees'
      <3>1. ~ EnsureFails(t)
        BY <2>7 DEF Callers
      <3>2. /\ Hears(t, "resetting") /\ daemon' = daemon /\ attempt' = attempt
            /\ rt' = rt \/ (attempt[t] = 2 /\ rt' = Poisoned)
        BY <2>8, <3>1 DEF HearsFailure, RequestFails, Leaves
      <3>3. lock = t /\ pc[t] = "resetting"
        BY <3>2 DEF Hears, Locked
      <3>4. ~ Ahead
        BY <3>3 DEF Ahead
      <3>5. rt' = Poisoned => rt'.path = NoModel
        BY DEF Poisoned, Unloaded
      <3> QED BY <1>3, <3>2, <3>4, <3>5
    <2>9. CASE PrewarmFails
      BY <2>7, <2>9 DEF PrewarmFails, Callers
    <2>10. CASE IdleSends
      <3>1. lock = NoOwner /\ UNCHANGED << rt, daemon, attempt >>
        BY <2>10 DEF IdleSends
      <3> QED BY <1>3, <3>1 DEF Ahead
    <2>11. CASE IdleForgets
      <3>1. Hears(Evictor, "unloading") /\ Head(ctl).kind = "unloaded" /\ rt' = forget_model /\ daemon' = daemon
        BY <2>11 DEF IdleForgets, Hears
      <3>2. lock = Evictor /\ Fits("unloaded") /\ pc[Evictor] = "unloading"
        BY <3>1, HearsAnswer DEF Waits, Hears
      <3>3. daemon.model = NoModel /\ daemon.seq = 0
        BY <3>2 DEF Fits
      <3> QED BY <3>1, <3>3 DEF forget_model
    <2>12. CASE IdleKeeps
      <3>1. Hears(Evictor, "unloading") /\ Head(ctl).kind # "unloaded"
        BY <2>12 DEF IdleKeeps
      <3>2. lock = Evictor /\ Fits(Head(ctl).kind) /\ pc[Evictor] = "unloading"
        BY <3>1, HearsAnswer DEF Waits, Hears
      <3> QED BY <1>2, <3>1, <3>2 DEF Fits
    <2> HIDE DEF Agrees
    <2> QED BY <1>6, <2>1, <2>2, <2>3, <2>4, <2>5, <2>6, <2>8, <2>9, <2>10, <2>11, <2>12 DEF Speaks
  <1>7. CASE DaemonMoves
    <2>0. UNCHANGED << pc, rt, lock, attempt >>
      BY <1>7, DaemonFrame
    <2>1. ASSUME NEW kind, NEW k, Replied(kind, k)
          PROVE  lock # NoOwner /\ ctl' # << >>
      BY <2>1 DEF Replied
    <2>2. CASE (\E kind, k : Replied(kind, k)) /\ pc[lock] \in {"loading", "warming", "unloading"}
      BY <2>0, <2>1, <2>2 DEF Ahead
    <2>3. CASE pc[lock] = "resetting" /\ daemon'.model = daemon.model /\ daemon'.seq = daemon.seq
      <3>1. ~ Ahead
        BY <2>3 DEF Ahead
      <3> QED BY <1>3, <2>0, <2>3, <3>1
    <2>4. CASE Generates
      <3>1. Ahead => Ahead'
        BY <2>4 DEF Generates, Ahead
      <3> QED BY <1>3, <2>4, <3>1 DEF Generates
    <2> HIDE DEF Agrees
    <2> QED BY <1>7, <2>2, <2>3, <2>4, DaemonKinds
  <1> HIDE DEF Agrees
  <1> QED BY <1>4, <1>5, <1>6, <1>7, StepKinds

(* The first state. *)
LEMMA InitQuiet == Init => QuietInv
  <1> SUFFICES ASSUME Init
               PROVE  QuietInv
    OBVIOUS
  <1>1. BaseInv
    BY InitBase
  <1>2. wire = << >> /\ ctl = << >> /\ lock = NoOwner /\ rt.path = NoModel /\ rt.max_seq = 0
        /\ daemon.model = NoModel /\ daemon.seq = 0
        /\ \A a \in Actors : pc[a] \in {"done", "sleep", "new"}
    BY DEF Init, Unloaded
  <1>3. Talk
    BY <1>2 DEF Talk, Quiet, OnlyGenerates
  <1>4. Fresh
    BY <1>2 DEF Fresh
  <1>5. Exact
    BY <1>2 DEF Exact, Agrees
  <1> QED BY <1>1, <1>3, <1>4, <1>5 DEF QuietInv

(* Every step. *)
LEMMA QuietStep ==
  ASSUME NoticeModels = {}, QuietInv, [Next]_vars
  PROVE  QuietInv'
  <1>0. BaseInv /\ BaseInv' /\ Talk /\ Fresh /\ Exact
    BY BaseStep DEF QuietInv
  <1>1. CASE Next
    <2>1. Moves
      BY <1>0, <1>1, NextMoves DEF BaseInv
    <2> QED BY <1>0, <2>1, TalkStep, FreshStep, ExactStep DEF QuietInv
  <1>2. CASE UNCHANGED vars
    <2> USE <1>0, <1>2 DEF vars, gate, serve, call, back
    <2>1. Talk'
      <3>1. Quiet => Quiet'
        BY DEF Quiet, OnlyGenerates
      <3>2. Asking => Asking'
        BY DEF Asking, Asked, Size, Wanted
      <3>3. Answered => Answered'
        BY DEF Answered, OnlyGenerates, Fits, Failed, Size, Wanted
      <3> QED BY <3>1, <3>2, <3>3 DEF Talk
    <2>2. Fresh'
      BY DEF Fresh, must_reload, Size, Wanted
    <2>3. Exact'
      BY DEF Exact, Agrees, Ahead, Unfailed
    <2> QED BY <2>1, <2>2, <2>3 DEF QuietInv
  <1> QED BY <1>1, <1>2

(* The talk and the agreement hold in every reachable state. *)
LEMMA QuietHolds ==
  ASSUME NoticeModels = {}
  PROVE  Spec => []QuietInv
  <1>1. QuietInv /\ [Next]_vars => QuietInv'
    BY QuietStep
  <1> QED BY InitQuiet, <1>1, PTL DEF Spec

(* Replies to load, warm-up, reset and unload carry no id, and who waits takes the next      *)
(* control line, whatever it is (Engine::load, reset, unload).  Still it is the answer to    *)
(* its own question: at any time there is nothing between the owner of the runtime lock and  *)
(* the daemon, or one question of the owner for its own model and budget, or one reply to it *)
(* that tells where the daemon is.  An actor that gives up on an error, or retries, leaves   *)
(* no reply behind for the next one.                                                         *)
THEOREM RepliesAnswerTheirCall ==
  ASSUME NoticeModels = {}
  PROVE  Spec => []Talk
  <1>1. QuietInv => Talk
    BY DEF QuietInv
  <1> QED BY <1>1, QuietHolds, PTL

(* RuntimeMatchesDaemon: when nobody holds the runtime lock and no load, warm-up or unload *)
(* has failed, current_path and current_max_seq are what the daemon has loaded (or a       *)
(* retry's failed reset has forgotten a model), so ensure_model skips a load only when the *)
(* model is there.  For any number of requests, the pre-warm thread and the idle thread,   *)
(* when no pflash line follows a `loaded`: such a line shifts every later reply by one.    *)
THEOREM RuntimeAgrees ==
  ASSUME NoticeModels = {}
  PROVE  Spec => []RuntimeMatchesDaemon
  <1>1. QuietInv => RuntimeMatchesDaemon
    BY DEF QuietInv, Exact, Agrees, Ahead, Unfailed, RuntimeMatchesDaemon
  <1> QED BY <1>1, QuietHolds, PTL

-----------------------------------------------------------------------------
(* A request is served as it asked *)

\* Every request and the pre-warm thread name one model; or no pre-warm thread runs and no
\* warm-up fails.
Single(m) == PrewarmModel \in {m, NoModel} /\ \A t \in Threads : ModelOf[t] = m
OneModel == \E m \in Models : Single(m)
Undisturbed == OneModel \/ (PrewarmModel = NoModel /\ "warm" \notin Faults)

\* An idle unload is followed by loads of the default size.
Roomy == IdleUnload => \A t \in Threads : Needs[t] <= DefaultSeq

\* The daemon has loaded what the runtime has not published yet.
Loaded == lock # NoOwner /\ (pc[lock] \in {"warm", "warming"} \/ (pc[lock] = "loading" /\ ctl # << >>))

\* The runtime is never ahead of a daemon that has a model.
Matches ==
  /\ \/ Loaded \/ daemon.model = NoModel \/ rt.path = NoModel
     \/ rt.path = daemon.model /\ rt.max_seq <= daemon.seq
  /\ \A m \in Models : Single(m) => rt.path \in {m, NoModel}

\* What a model and its max_seq are to a request.
Suits(t, model, seq) == model = ModelOf[t] /\ (Roomy => Needs[t] <= seq)

\* From the moment its budget is settled until it is served, a request's model stays: the
\* others only ever load it again, no smaller, and the idle thread only takes it away.
Kept(t) ==
  /\ Suits(t, rt.path, rt.max_seq) \/ (rt.path = NoModel /\ IdleUnload)
  /\ daemon.model # NoModel => Suits(t, daemon.model, daemon.seq)
  /\ lock # NoOwner /\ pc[lock] \in {"loading", "warm", "warming"} => Suits(t, Wanted(lock), Size(lock))

Settled == {"sized", "built", "generating"}
KeptAll == \A t \in Threads : pc[t] \in Settled => Kept(t)

Served == \A t \in Generating : Suits(t, running[t].model, running[t].seq)

ServedInv == QuietInv /\ Matches /\ KeptAll /\ Served

(* Where the runtime's path comes from. *)
LEMMA PathSteps ==
  ASSUME TypeInv, Moves
  PROVE  rt'.path = rt.path \/ rt'.path = NoModel \/ \E b \in Callers : rt'.path = Wanted(b)
  <1>0. rt \in [path : Models \cup {NoModel}, max_seq : Nat, cache : BOOLEAN,
                batch : BOOLEAN, eligible : BOOLEAN]
    BY DEF TypeInv, TypeOK
  <1> USE <1>0 DEF gate, serve, call, back, Hears
  <1>1. ASSUME NEW t \in Threads, ThreadMoves(t)
        PROVE  rt'.path = rt.path \/ rt'.path = NoModel
    <2>1. CASE RequestFails(t)
      BY <2>1 DEF RequestFails, Poisoned, Unloaded
    <2>2. CASE Classify(t) \/ Refuse(t) \/ Unlock(t) \/ Send(t)
      BY <2>2 DEF Classify, Refuse, Unlock, Send
    <2>3. CASE AcquireShared(t) \/ AcquireAlone(t) \/ ResetSends(t) \/ ResetSkips(t) \/ ResetDone(t)
      BY <2>3 DEF AcquireShared, AcquireAlone, ResetSends, ResetSkips, ResetDone
    <2>4. CASE BudgetGrows(t) \/ BudgetFits(t) \/ Returns(t) \/ Retries(t) \/ GivesUp(t)
      BY <2>4 DEF BudgetGrows, BudgetFits, Returns, Retries, GivesUp
    <2> QED BY <1>1, <2>1, <2>2, <2>3, <2>4 DEF ThreadMoves
  <1>2. ASSUME NEW a \in Callers, CallerMoves(a)
        PROVE  rt'.path = rt.path \/ rt'.path = Wanted(a)
    <2>1. CASE Publishes(a)
      BY <2>1 DEF Publishes, Published
    <2>2. CASE Enter(a) \/ EnsureSkips(a) \/ SendWarm(a)
      BY <2>2 DEF Enter, EnsureSkips, SendWarm
    <2>3. CASE EnsureLoads(a) \/ LoadedCold(a) \/ LoadSkips(a)
      BY <2>3 DEF EnsureLoads, LoadedCold, LoadSkips
    <2> QED BY <1>2, <2>1, <2>2, <2>3 DEF CallerMoves
  <1>3. ASSUME SideMoves
        PROVE  rt'.path = rt.path \/ rt'.path = NoModel
    <2>1. CASE IdleForgets
      BY <2>1 DEF IdleForgets, forget_model
    <2>2. CASE PrewarmFails \/ PrewarmAnnounce \/ finish_prewarm \/ Expire
      BY <2>2 DEF PrewarmFails, PrewarmAnnounce, finish_prewarm, Expire
    <2>3. CASE IdleLook \/ IdleExpired \/ IdleSends \/ IdleSkips \/ IdleKeeps \/ IdleClear
      BY <2>3 DEF IdleLook, IdleExpired, IdleSends, IdleSkips, IdleKeeps, IdleClear
    <2> QED BY <1>3, <2>1, <2>2, <2>3 DEF SideMoves
  <1>4. DaemonMoves => rt'.path = rt.path
    BY DaemonFrame
  <1> QED BY <1>1, <1>2, <1>3, <1>4 DEF Moves

(* What an actor inside ensure_model wants is a model. *)
LEMMA WantedModel ==
  ASSUME PlaceInv, NEW a \in Callers, pc[a] \in {"ensuring", "loading", "warm", "warming"}
  PROVE  Wanted(a) \in Models /\ \A m \in Models : Single(m) => Wanted(a) = m
  <1>1. CASE a \in Threads
    BY <1>1, ActorFacts DEF Single
  <1>2. CASE a = Prewarmer
    BY <1>2, ActorFacts DEF Single, PlaceInv
  <1> QED BY <1>1, <1>2 DEF Callers

(* The runtime stays behind. *)
LEMMA MatchesStep ==
  ASSUME NoticeModels = {}, Undisturbed, QuietInv, Matches, Moves, BaseInv'
  PROVE  Matches'
  <1>0. /\ TypeInv /\ LockInv /\ PlaceInv /\ pc \in [Actors -> Places] /\ min \in [Actors -> Nat]
        /\ daemon \in [model : Models \cup {NoModel}, seq : Nat, used : BOOLEAN]
        /\ rt \in [path : Models \cup {NoModel}, max_seq : Nat, cache : BOOLEAN,
                   batch : BOOLEAN, eligible : BOOLEAN]
        /\ \A a \in Actors : pc'[a] \in Locked => lock' = a
        /\ \A a \in Actors : pc[a] \in Locked => lock = a
        /\ lock \in Actors \cup {NoOwner}
        /\ BaseInv /\ Talk /\ Fresh
    BY DEF QuietInv, BaseInv, TypeInv, TypeOK, LockInv
  <1>a. \A m \in Models : Single(m) => rt'.path \in {m, NoModel}
    <2>1. \A m \in Models : Single(m) => \A b \in Callers : Wanted(b) \in {m, NoModel}
      BY ActorFacts DEF Single, Callers
    <2> QED BY <1>0, <2>1, PathSteps DEF Matches
  <1> DEFINE Behind == \/ Loaded \/ daemon.model = NoModel \/ rt.path = NoModel
                       \/ rt.path = daemon.model /\ rt.max_seq <= daemon.seq
  <1>b. Behind /\ (Behind' => Matches')
    BY <1>a DEF Matches, Single
  <1> SUFFICES Behind'
    BY <1>b
  <1> USE <1>0, ActorFacts DEF gate, serve, call, back
  <1>3. ASSUME rt'.path = rt.path, rt'.max_seq = rt.max_seq, daemon'.model = daemon.model,
               daemon'.seq = daemon.seq, Loaded => Loaded'
        PROVE  Behind'
    BY <1>b, <1>3
  <1>4. CASE Elsewhere
    <2>1. Loaded => Loaded'
      BY <1>4 DEF Elsewhere, Loaded, Locked
    <2> QED BY <1>3, <1>4, <2>1 DEF Elsewhere
  <1>5. ASSUME NEW b \in Actors, Turns(b)
        PROVE  Behind'
    <2>1. ~ Loaded
      BY <1>5 DEF Turns, Loaded, Waits
    <2> QED BY <1>3, <1>5, <2>1 DEF Turns
  <1>6. CASE Speaks
    <2>1. ASSUME NEW b \in Callers, EnsureLoads(b)
          PROVE  Behind'
      <3>1. lock = b
        BY <2>1 DEF EnsureLoads, Callers, Locked
      <3>2. ~ Loaded
        BY <2>1, <3>1 DEF Loaded, EnsureLoads
      <3> QED BY <1>3, <2>1, <3>2 DEF EnsureLoads
    <2>2. ASSUME NEW b \in Callers, SendWarm(b)
          PROVE  Behind'
      <3>1. b \in Actors /\ lock' = b /\ pc'[b] = "warming"
        BY <2>2 DEF SendWarm, Callers, Locked, Goto
      <3> QED BY <3>1 DEF Loaded
    <2>3. ASSUME NEW b \in Callers, LoadedCold(b)
          PROVE  Behind'
      <3>1. b \in Actors /\ lock' = b /\ pc'[b] = "warm"
        BY <2>3 DEF LoadedCold, Hears, Callers, Locked
      <3> QED BY <3>1 DEF Loaded
    <2>4. ASSUME NEW b \in Callers, Publishes(b)
          PROVE  Behind'
      <3>0. b \in Actors /\ min[b] \in Nat
        BY DEF Callers
      <3>1. PICK e : rt' = Published(b, e)
        BY <2>4 DEF Publishes
      <3>2. rt'.path = Wanted(b) /\ rt'.max_seq = Size(b) /\ daemon' = daemon
        BY <2>4, <3>1 DEF Published, Publishes, Hears
      <3>3. daemon.model = Wanted(b) /\ daemon.seq = Size(b)
        <4>1. CASE Hears(b, "loading") /\ Head(ctl).kind = "loaded"
          <5>1. lock = b /\ Fits("loaded") /\ pc[b] = "loading"
            BY <3>0, <4>1, HearsAnswer DEF Waits, Hears
          <5> QED BY <5>1 DEF Fits
        <4>2. CASE Hears(b, "warming")
          BY <3>0, <4>2 DEF Hears, Fresh
        <4> QED BY <2>4, <4>1, <4>2 DEF Publishes
      <3>4. Size(b) \in Nat
        BY <3>0, MaxFacts DEF Size
      <3> QED BY <3>2, <3>3, <3>4
    <2>5. ASSUME NEW b \in Callers, LoadSkips(b)
          PROVE  Behind'
      <3>1. b \in Actors /\ Hears(b, "loading") /\ Head(ctl).kind \notin {"loaded", "error", "transient"} /\ pc[b] = "loading"
        BY <2>5 DEF LoadSkips, load_errors, Hears, Callers
      <3>2. lock = b /\ Fits(Head(ctl).kind)
        BY <3>1, HearsAnswer DEF Waits
      <3> QED BY <3>1, <3>2 DEF Fits
    <2>6. ASSUME NEW t \in Threads, ResetSends(t) \/ ResetDone(t)
          PROVE  Behind'
      <3>1. /\ lock = t /\ pc[t] \in {"ensured", "resetting"} /\ UNCHANGED daemon
            /\ rt'.path = rt.path /\ rt'.max_seq = rt.max_seq
        BY <2>6 DEF ResetSends, ResetDone, Hears, Locked
      <3>2. ~ Loaded
        BY <3>1 DEF Loaded
      <3> QED BY <1>3, <3>1, <3>2
    <2>7. ASSUME NEW b \in Callers, EnsureFails(b), UNCHANGED rt
          PROVE  Behind'
      <3>0. b \in Actors /\ daemon' = daemon
        BY <2>7 DEF Callers, EnsureFails, Hears
      <3>1. CASE Hears(b, "loading") /\ Head(ctl).kind \in load_errors
        <4>1. lock = b /\ Fits(Head(ctl).kind) /\ pc[b] = "loading"
          BY <3>0, <3>1, HearsAnswer DEF Waits, Hears
        <4> QED BY <3>0, <3>1, <4>1 DEF Fits, load_errors
      <3>2. CASE Hears(b, "warming") /\ Head(ctl).kind # "decode_result"
        <4>1. lock = b /\ Fits(Head(ctl).kind) /\ pc[b] = "warming"
          BY <3>0, <3>2, HearsAnswer DEF Waits, Hears
        <4>2. Failed("warm")
          BY <3>2, <4>1 DEF Fits
        <4>3. PICK m \in Models : Single(m)
          BY <4>2 DEF Undisturbed, Failed, OneModel
        <4>4. Wanted(b) = m
          BY <4>1, <4>3, WantedModel
        <4>5. rt.path \in {m, NoModel}
          BY <4>3 DEF Matches
        <4>6. must_reload(b) /\ daemon.model = Wanted(b) /\ daemon.seq = Size(b)
          BY <3>0, <4>1 DEF Fresh
        <4>7. CASE rt.path = m
          <5>1. rt.max_seq < min[b]
            BY <4>4, <4>6, <4>7 DEF must_reload
          <5>2. min[b] <= Size(b) /\ min[b] \in Nat /\ Size(b) \in Nat /\ rt.max_seq \in Nat
            BY <3>0, MaxFacts DEF Size
          <5>3. rt.max_seq <= daemon.seq
            BY <4>6, <5>1, <5>2
          <5> QED BY <2>7, <3>0, <4>4, <4>6, <4>7, <5>3
        <4>8. CASE rt.path = NoModel
          BY <2>7, <4>8
        <4> QED BY <4>5, <4>7, <4>8
      <3> QED BY <2>7, <3>1, <3>2 DEF EnsureFails
    <2>8. ASSUME NEW t \in Threads, HearsFailure(t)
          PROVE  Behind'
      <3>0. t \in Callers
        BY DEF Callers
      <3>1. CASE EnsureFails(t) /\ UNCHANGED rt
        BY <2>7, <3>0, <3>1
      <3>2. CASE Hears(t, "resetting") /\ daemon' = daemon /\ rt' = rt
        <4>1. lock = t /\ pc[t] = "resetting"
          BY <3>2 DEF Hears, Locked
        <4>2. ~ Loaded
          BY <4>1 DEF Loaded
        <4> QED BY <1>3, <3>2, <4>2
      <3>3. CASE rt' = Poisoned
        BY <3>3 DEF Poisoned, Unloaded
      <3> QED BY <2>8, <3>1, <3>2, <3>3 DEF HearsFailure, RequestFails, Leaves
    <2>9. CASE PrewarmFails
      BY <2>7, <2>9 DEF PrewarmFails, Callers
    <2>10. CASE IdleSends
      <3>1. lock = NoOwner /\ UNCHANGED << rt, daemon >>
        BY <2>10 DEF IdleSends
      <3> QED BY <1>3, <3>1 DEF Loaded
    <2>11. CASE IdleForgets
      BY <2>11 DEF IdleForgets, forget_model
    <2>12. CASE IdleKeeps
      <3>1. pc[Evictor] = "unloading" /\ lock = Evictor /\ UNCHANGED << rt, daemon >>
        BY <2>12 DEF IdleKeeps, Hears, Locked
      <3> QED BY <1>3, <3>1 DEF Loaded
    <2> HIDE DEF Behind
    <2> QED BY <1>6, <2>1, <2>2, <2>3, <2>4, <2>5, <2>6, <2>8, <2>9, <2>10, <2>11, <2>12 DEF Speaks
  <1>7. CASE DaemonMoves
    <2>0. UNCHANGED << pc, rt, lock >>
      BY <1>7, DaemonFrame
    <2>1. ASSUME NEW kind, NEW k, Replied(kind, k)
          PROVE  lock # NoOwner /\ ctl' # << >>
      BY <2>1 DEF Replied
    <2>2. CASE (\E kind, k : Replied(kind, k)) /\ pc[lock] \in {"loading", "warming"}
      BY <2>0, <2>1, <2>2 DEF Loaded
    <2>3. CASE pc[lock] = "resetting" /\ daemon'.model = daemon.model /\ daemon'.seq = daemon.seq
      <3>1. ~ Loaded
        BY <2>3 DEF Loaded
      <3> QED BY <1>3, <2>0, <2>3, <3>1
    <2>4. CASE daemon' = NoDaemonModel
      BY <2>4 DEF NoDaemonModel
    <2>5. CASE Generates
      <3>1. Loaded => Loaded'
        BY <2>5 DEF Generates, Loaded
      <3> QED BY <1>3, <2>5, <3>1 DEF Generates
    <2> HIDE DEF Behind
    <2> QED BY <1>7, <2>2, <2>3, <2>4, <2>5, DaemonKinds
  <1> HIDE DEF Behind
  <1> QED BY <1>4, <1>5, <1>6, <1>7, StepKinds

(* A request past its budget holds a lease. *)
LEMMA SettledHolds ==
  ASSUME LeaseInv, NEW t \in Threads, NEW u \in Threads, t # u, pc[t] \in Settled, pc[u] \in Holding
  PROVE  shared[t] = TRUE /\ shared[u] = TRUE /\ ModelOf[t] = ModelOf[u]
  <1>1. pc[t] \in Holding
    BY DEF Settled, Holding, Locked
  <1> QED BY <1>1 DEF LeaseInv

(* A load under way suits every request past its budget. *)
LEMMA LoadSuits ==
  ASSUME Undisturbed, BaseInv, NEW t \in Threads, NEW b \in Callers, t # b, pc[t] \in Settled, Kept(t),
         pc[b] = "ensuring", must_reload(b)
  PROVE  Suits(t, Wanted(b), Size(b))
  <1>0. /\ rt.max_seq \in Nat /\ min[b] \in Nat /\ Needs[t] \in Nat /\ ModelOf[t] \in Models
        /\ PlaceInv /\ LeaseInv /\ RequestInv /\ DefaultSeq \in Nat /\ NoModel \notin Models
    BY ActorFacts DEF BaseInv, TypeInv, TypeOK, Callers
  <1>1. Wanted(b) = ModelOf[t]
    <2>1. CASE b \in Threads
      <3>1. pc[b] \in Holding
        BY DEF Holding, Locked
      <3>2. ModelOf[t] = ModelOf[b]
        BY <1>0, <2>1, <3>1, SettledHolds
      <3> QED BY <2>1, <3>2, ActorFacts
    <2>2. CASE b = Prewarmer
      <3>1. PrewarmModel # NoModel
        BY <1>0, <2>2 DEF PlaceInv
      <3>2. PICK m \in Models : Single(m)
        BY <3>1 DEF Undisturbed, OneModel
      <3> QED BY <1>0, <2>2, <3>2, WantedModel DEF Single
    <2> QED BY <2>1, <2>2 DEF Callers
  <1>2. Size(b) \in Nat /\ DefaultSeq <= Size(b) /\ min[b] <= Size(b)
    BY <1>0, MaxFacts DEF Size
  <1>3. ASSUME Roomy
        PROVE  Needs[t] <= Size(b)
    <2>1. CASE rt.path = ModelOf[t] /\ Needs[t] <= rt.max_seq
      <3>1. rt.max_seq < min[b]
        BY <1>1, <2>1 DEF must_reload
      <3> QED BY <1>0, <1>2, <2>1, <3>1
    <2>2. CASE IdleUnload
      <3>1. Needs[t] <= DefaultSeq
        BY <1>3, <2>2 DEF Roomy
      <3> QED BY <1>0, <1>2, <3>1
    <2> QED BY <1>3, <2>1, <2>2 DEF Kept, Suits
  <1> QED BY <1>1, <1>3 DEF Suits

(* The model of a request past its budget stays. *)
LEMMA KeptStep ==
  ASSUME NoticeModels = {}, Undisturbed, QuietInv, Matches, KeptAll, Moves, BaseInv'
  PROVE  KeptAll'
  <1>0. /\ TypeInv /\ LockInv /\ PlaceInv /\ LeaseInv /\ RequestInv
        /\ pc \in [Actors -> Places] /\ min \in [Actors -> Nat]
        /\ daemon \in [model : Models \cup {NoModel}, seq : Nat, used : BOOLEAN]
        /\ rt \in [path : Models \cup {NoModel}, max_seq : Nat, cache : BOOLEAN,
                   batch : BOOLEAN, eligible : BOOLEAN]
        /\ \A a \in Actors : pc'[a] \in Locked => lock' = a
        /\ \A a \in Actors : pc[a] \in Locked => lock = a
        /\ lock \in Actors \cup {NoOwner}
        /\ BaseInv /\ Talk /\ Fresh
    BY DEF QuietInv, BaseInv, TypeInv, TypeOK, LockInv
  <1> SUFFICES ASSUME NEW t \in Threads, pc'[t] \in Settled
               PROVE  Kept(t)'
    BY DEF KeptAll
  <1> USE <1>0, ActorFacts DEF gate, serve, call, back
  <1>k. pc[t] \in Settled => Kept(t)
    BY DEF KeptAll
  \* The step leaves the runtime and the daemon alone, and no load is under way.
  <1>1. ASSUME Kept(t), rt'.path = rt.path, rt'.max_seq = rt.max_seq, daemon'.model = daemon.model,
               daemon'.seq = daemon.seq,
               lock' # NoOwner => pc'[lock'] \notin {"loading", "warm", "warming"}
        PROVE  Kept(t)'
    BY <1>1 DEF Kept, Suits
  \* The step leaves the runtime, the owner and its model alone.
  <1>2. ASSUME Kept(t), rt'.path = rt.path, rt'.max_seq = rt.max_seq, lock' = lock,
               lock # NoOwner => min'[lock] = min[lock],
               lock # NoOwner /\ pc'[lock] \in {"loading", "warm", "warming"}
                 => pc[lock] \in {"loading", "warm", "warming"},
               \/ daemon'.model = daemon.model /\ daemon'.seq = daemon.seq
               \/ daemon'.model = NoModel
               \/ /\ lock # NoOwner /\ pc[lock] = "loading"
                  /\ daemon'.model = Wanted(lock) /\ daemon'.seq = Size(lock)
        PROVE  Kept(t)'
    <2>1. lock # NoOwner => Size(lock)' = Size(lock)
      BY <1>2 DEF Size
    <2>2. daemon'.model # NoModel => Suits(t, daemon'.model, daemon'.seq)
      BY <1>2 DEF Kept
    <2>3. lock # NoOwner /\ pc'[lock] \in {"loading", "warm", "warming"} => Suits(t, Wanted(lock), Size(lock)')
      BY <1>2, <2>1 DEF Kept
    <2> QED BY <1>2, <2>2, <2>3 DEF Kept, Suits, Wanted
  <1>3. CASE Elsewhere
    <2>1. pc[t] \in Settled
      BY <1>3 DEF Elsewhere, Settled
    <2>2. lock # NoOwner /\ pc'[lock] \in {"loading", "warm", "warming"} => pc'[lock] = pc[lock]
      BY <1>3 DEF Elsewhere, Locked
    <2> QED BY <1>2, <1>3, <1>k, <2>1, <2>2 DEF Elsewhere
  <1>4. ASSUME NEW b \in Actors, Turns(b)
        PROVE  Kept(t)'
    <2>1. /\ UNCHANGED << rt, daemon >>
          /\ lock' # NoOwner => pc'[lock'] \notin {"loading", "warm", "warming"}
      BY <1>4 DEF Turns, Waits
    <2>2. CASE pc[t] \in Settled
      BY <1>1, <1>k, <2>1, <2>2
    <2>3. CASE pc[t] \notin Settled
      <3>1. b = t
        BY <1>4, <2>3 DEF Turns
      <3>2. pc'[t] = "sized"
        BY <1>4, <2>3, <3>1 DEF Turns, Settled
      <3>3. rt.path = ModelOf[t] /\ Needs[t] <= rt.max_seq
        BY <1>4, <3>1, <3>2 DEF Turns
      <3>4. ~ Loaded
        BY <1>4 DEF Turns, Loaded, Waits
      <3>5. daemon.model # NoModel => rt.path = daemon.model /\ rt.max_seq <= daemon.seq
        BY <3>3, <3>4 DEF Matches
      <3>6. daemon.model # NoModel => daemon.model = ModelOf[t] /\ Needs[t] <= daemon.seq
        BY <3>3, <3>5
      <3> QED BY <2>1, <3>3, <3>6 DEF Kept, Suits
    <2> QED BY <2>2, <2>3
  <1>5. CASE Speaks
    <2>0. ASSUME NEW b \in Actors, \A c \in Actors : c # b => pc'[c] = pc[c], pc'[b] \notin Settled
          PROVE  t # b /\ Kept(t)
      BY <1>k, <2>0
    <2>1. ASSUME NEW b \in Callers, EnsureLoads(b)
          PROVE  Kept(t)'
      <3>1. /\ b \in Actors /\ pc[b] = "ensuring" /\ must_reload(b) /\ pc'[b] = "loading" /\ lock' = b
            /\ rt'.path = rt.path /\ rt'.max_seq = rt.max_seq /\ daemon' = daemon /\ min' = min
            /\ \A c \in Actors : c # b => pc'[c] = pc[c]
        BY <2>1 DEF EnsureLoads, Callers, Locked
      <3>2. t # b /\ Kept(t) /\ pc[t] \in Settled
        BY <2>0, <3>1 DEF Settled
      <3>3. Suits(t, Wanted(b), Size(b))
        BY <3>1, <3>2, LoadSuits
      <3>4. Size(b)' = Size(b)
        BY <3>1 DEF Size
      <3> QED BY <3>1, <3>2, <3>3, <3>4 DEF Kept, Suits, Wanted, Size
    <2>2. ASSUME NEW b \in Callers, SendWarm(b)
          PROVE  Kept(t)'
      <3>1. /\ b \in Actors /\ pc[b] = "warm" /\ pc'[b] = "warming" /\ lock = b /\ UNCHANGED << rt, daemon, min, lock >>
            /\ \A c \in Actors : c # b => pc'[c] = pc[c]
        BY <2>2 DEF SendWarm, Callers, Locked, Goto
      <3>2. Kept(t)
        BY <2>0, <3>1 DEF Settled
      <3> QED BY <1>2, <3>1, <3>2
    <2>3. ASSUME NEW b \in Callers, LoadedCold(b)
          PROVE  Kept(t)'
      <3>1. /\ b \in Actors /\ pc[b] = "loading" /\ pc'[b] = "warm" /\ lock = b /\ UNCHANGED << daemon, min, lock >>
            /\ rt'.path = rt.path /\ rt'.max_seq = rt.max_seq
            /\ \A c \in Actors : c # b => pc'[c] = pc[c]
        BY <2>3 DEF LoadedCold, Hears, Callers, Locked
      <3>2. Kept(t)
        BY <2>0, <3>1 DEF Settled
      <3> QED BY <1>2, <3>1, <3>2
    <2>4. ASSUME NEW b \in Callers, Publishes(b)
          PROVE  Kept(t)'
      <3>0. b \in Actors /\ min[b] \in Nat /\ pc[b] \in {"loading", "warming"} /\ lock = b /\ min' = min
            /\ pc'[b] = After(b) /\ lock' = Owner(b)
            /\ \A c \in Actors : c # b => pc'[c] = pc[c]
        BY <2>4 DEF Callers, Publishes, Hears, Locked
      <3>1. PICK e : rt' = Published(b, e)
        BY <2>4 DEF Publishes
      <3>2. rt'.path = Wanted(b) /\ rt'.max_seq = Size(b) /\ daemon' = daemon
        BY <2>4, <3>1 DEF Published, Publishes, Hears
      <3>3. daemon.model = Wanted(b) /\ daemon.seq = Size(b)
        <4>1. CASE Hears(b, "loading") /\ Head(ctl).kind = "loaded"
          <5>1. lock = b /\ Fits("loaded") /\ pc[b] = "loading"
            BY <3>0, <4>1, HearsAnswer DEF Waits, Hears
          <5> QED BY <5>1 DEF Fits
        <4>2. CASE Hears(b, "warming")
          BY <3>0, <4>2 DEF Hears, Fresh
        <4> QED BY <2>4, <4>1, <4>2 DEF Publishes
      <3>4. lock' # NoOwner => lock' = b /\ pc'[lock'] \notin {"loading", "warm", "warming"}
        BY <3>0 DEF Owner, After
      <3>5. Suits(t, Wanted(b), Size(b))
        <4>1. CASE t = b
          <5>1. min[t] # 0
            BY <3>0, <4>1 DEF After, Settled
          <5>2. min[t] = Needs[t]
            BY <3>0, <4>1, <5>1 DEF RequestInv, Locked
          <5>3. min[t] <= Size(t)
            BY <3>0, <4>1, MaxFacts DEF Size
          <5> QED BY <4>1, <5>2, <5>3 DEF Suits
        <4>2. CASE t # b
          BY <1>k, <3>0, <4>2 DEF Kept
        <4> QED BY <4>1, <4>2
      <3> QED BY <3>2, <3>3, <3>4, <3>5 DEF Kept, Suits
    <2>5. ASSUME NEW b \in Callers, LoadSkips(b)
          PROVE  Kept(t)'
      <3>1. UNCHANGED << pc, min, rt, daemon, lock >>
        BY <2>5 DEF LoadSkips, Hears
      <3> QED BY <1>2, <1>k, <3>1
    <2>6. ASSUME NEW u \in Threads, ResetSends(u) \/ ResetDone(u)
          PROVE  Kept(t)'
      <3>1. /\ lock = u /\ pc'[u] \in {"resetting", "budget"} /\ UNCHANGED << daemon, lock >>
            /\ rt'.path = rt.path /\ rt'.max_seq = rt.max_seq
            /\ \A c \in Actors : c # u => pc'[c] = pc[c]
        BY <2>6 DEF ResetSends, ResetDone, Hears, Locked
      <3>2. Kept(t)
        BY <2>0, <3>1 DEF Settled
      <3> QED BY <1>1, <3>1, <3>2
    <2>7. ASSUME NEW u \in Threads, HearsFailure(u)
          PROVE  Kept(t)'
      <3>1. /\ lock' = NoOwner /\ pc'[u] = "failed" /\ pc[u] \in {"loading", "warming", "resetting"}
            /\ daemon' = daemon
            /\ (rt' = rt \/ attempt[u] = 2)
            /\ \A c \in Actors : c # u => pc'[c] = pc[c]
        BY <2>7 DEF HearsFailure, RequestFails, EnsureFails, Leaves, Hears
      <3>2. t # u /\ Kept(t) /\ pc[t] \in Settled
        BY <2>0, <3>1 DEF Settled
      <3>3. pc[u] \in Holding
        BY <3>1 DEF Holding, Locked
      <3>4. shared[u] = TRUE
        BY <3>2, <3>3, SettledHolds
      <3>5. attempt[u] # 2
        BY <3>4 DEF RequestInv
      <3> QED BY <1>1, <3>1, <3>2, <3>5
    <2>8. CASE PrewarmFails
      <3>1. lock' = NoOwner /\ UNCHANGED << rt, daemon >> /\ pc'[t] = pc[t]
        BY <2>8 DEF PrewarmFails, EnsureFails, Hears
      <3> QED BY <1>1, <1>k, <3>1
    <2>9. CASE IdleSends
      <3>1. lock' = Evictor /\ pc'[Evictor] = "unloading" /\ UNCHANGED << rt, daemon >> /\ pc'[t] = pc[t]
        BY <2>9 DEF IdleSends
      <3> QED BY <1>1, <1>k, <3>1
    <2>10. CASE IdleForgets
      <3>1. lock' = NoOwner /\ rt'.path = NoModel /\ UNCHANGED daemon /\ pc'[t] = pc[t] /\ pc[Evictor] = "unloading"
        BY <2>10 DEF IdleForgets, forget_model, Hears
      <3>2. IdleUnload
        BY <3>1 DEF PlaceInv
      <3> QED BY <1>k, <3>1, <3>2 DEF Kept, Suits
    <2>11. CASE IdleKeeps
      <3>1. lock' = NoOwner /\ UNCHANGED << rt, daemon >> /\ pc'[t] = pc[t]
        BY <2>11 DEF IdleKeeps, Hears
      <3> QED BY <1>1, <1>k, <3>1
    <2> QED BY <1>5, <2>1, <2>2, <2>3, <2>4, <2>5, <2>6, <2>7, <2>8, <2>9, <2>10, <2>11 DEF Speaks
  <1>6. CASE DaemonMoves
    <2>0. UNCHANGED << pc, rt, lock, min >> /\ Kept(t)
      BY <1>6, <1>k, DaemonFrame
    <2>1. ASSUME NEW kind, NEW k, Replied(kind, k)
          PROVE  lock # NoOwner
      BY <2>1 DEF Replied
    <2>2. \/ daemon'.model = daemon.model /\ daemon'.seq = daemon.seq
          \/ daemon'.model = NoModel
          \/ /\ lock # NoOwner /\ pc[lock] = "loading"
             /\ daemon'.model = Wanted(lock) /\ daemon'.seq = Size(lock)
      BY <1>6, <2>1, DaemonKinds DEF NoDaemonModel, Generates
    <2> QED BY <1>2, <2>0, <2>2
  <1> QED BY <1>3, <1>4, <1>5, <1>6, StepKinds

(* What runs in the daemon changes by a start or an end. *)
LEMMA RunningSteps ==
  ASSUME TypeInv, Moves
  PROVE  \/ UNCHANGED running
         \/ \E t \in Threads : Ends(t)
         \/ \E t \in Threads : \E b \in BOOLEAN : Starts(t, b)
  <1>1. CASE \E t \in Threads : ThreadMoves(t)
    BY <1>1, ThreadFrame
  <1>2. CASE \E a \in Callers : CallerMoves(a)
    BY <1>2, CallerFrame
  <1>3. CASE SideMoves
    BY <1>3, SideFrame
  <1>4. CASE DaemonMoves
    <2>1. CASE Loads \/ LoadBreaks \/ DaemonNotice \/ WarmAnswers \/ ResetAnswers \/ Unloads \/ DropLine
      BY <2>1 DEF Loads, LoadBreaks, DaemonNotice, WarmAnswers, ResetAnswers, Unloads, DropLine, Answers
    <2>2. CASE \E t \in Threads : Refuses(t) \/ Ends(t) \/ \E b \in BOOLEAN : Starts(t, b)
      BY <2>2 DEF Refuses
    <2> QED BY <1>4, <2>1, <2>2 DEF DaemonMoves
  <1> QED BY <1>1, <1>2, <1>3, <1>4 DEF Moves

(* A request whose generate is taken waits for it. *)
LEMMA StartsFacts ==
  ASSUME BaseInv, NEW t \in Threads, NEW b \in BOOLEAN, Starts(t, b)
  PROVE  /\ pc[t] = "generating" /\ result[t] = "none" /\ t \notin Generating /\ daemon.model # NoModel
         /\ Generating' = Generating \cup {t}
         /\ running'[t] = Starting(b)
         /\ \A u \in Generating : running'[u] = running[u] /\ u # t
         /\ UNCHANGED << pc, result, attempt, min, ctl, lock >>
  <1>1. wire \in Seq(Messages) /\ wire # << >> /\ Head(wire).kind = "generate" /\ t = Head(wire).thread
    BY DEF BaseInv, TypeInv, LineTypes, Starts, Takes
  <1>2. Head(wire) = wire[1] /\ 1 \in 1 .. Len(wire)
    BY <1>1, TailAt
  <1>3. pc[t] = "generating" /\ result[t] = "none" /\ t \notin Generating
    BY <1>1, <1>2 DEF BaseInv, GenerateInv
  <1>4. running' = [u \in Generating \cup {t} |-> IF u \in Generating THEN running[u] ELSE Starting(b)]
    BY DEF Starts
  <1> QED BY <1>3, <1>4 DEF Starts, Generating, gate, serve, call

(* What ends leaves the rest running. *)
LEMMA EndsFacts ==
  ASSUME NEW t \in Threads, Ends(t)
  PROVE  /\ Generating' = Generating \ {t}
         /\ \A u \in Generating' : running'[u] = running[u] /\ u \in Generating /\ u # t
         /\ UNCHANGED << pc, attempt, min, ctl, daemon, lock >>
  <1>1. running' = [u \in Generating \ {t} |-> running[u]]
    BY DEF Ends
  <1> QED BY <1>1 DEF Ends, Generating, gate, serve

(* A generation starts on what its request settled for. *)
LEMMA ServedStep ==
  ASSUME BaseInv, KeptAll, Served, Moves
  PROVE  Served'
  <1>0. TypeInv
    BY DEF BaseInv
  <1>1. CASE UNCHANGED running
    BY <1>1 DEF Served, Generating, Suits
  <1>2. ASSUME NEW t \in Threads, Ends(t)
        PROVE  Served'
    BY <1>2, EndsFacts DEF Served, Suits
  <1>3. ASSUME NEW t \in Threads, NEW b \in BOOLEAN, Starts(t, b)
        PROVE  Served'
    <2>1. /\ pc[t] = "generating" /\ daemon.model # NoModel
          /\ Generating' = Generating \cup {t}
          /\ running'[t] = Starting(b)
          /\ \A u \in Generating : running'[u] = running[u] /\ u # t
      BY <1>3, StartsFacts
    <2>2. Suits(t, daemon.model, daemon.seq)
      BY <2>1 DEF KeptAll, Settled, Kept
    <2>3. running'[t].model = daemon.model /\ running'[t].seq = daemon.seq
      BY <2>1 DEF Starting
    <2>4. \A u \in Generating : Suits(u, running'[u].model, running'[u].seq)
      BY <2>1 DEF Served
    <2>5. \A u \in Generating' : Suits(u, running'[u].model, running'[u].seq)
      BY <2>1, <2>2, <2>3, <2>4
    <2> QED BY <2>5 DEF Served, Suits
  <1> QED BY <1>0, <1>1, <1>2, <1>3, RunningSteps

(* The first state. *)
LEMMA InitServed == Init => ServedInv
  <1> SUFFICES ASSUME Init
               PROVE  ServedInv
    OBVIOUS
  <1>1. QuietInv
    BY InitQuiet
  <1>2. daemon.model = NoModel /\ rt.path = NoModel /\ running = << >>
        /\ \A t \in Threads : pc[t] = "new"
    BY ActorFacts DEF Init, Unloaded
  <1>3. Generating = {}
    BY <1>2 DEF Generating
  <1> QED BY <1>1, <1>2, <1>3 DEF ServedInv, Matches, KeptAll, Settled, Served

(* Every step. *)
LEMMA ServedInvStep ==
  ASSUME NoticeModels = {}, Undisturbed, ServedInv, [Next]_vars
  PROVE  ServedInv'
  <1>0. QuietInv /\ QuietInv' /\ BaseInv /\ BaseInv' /\ Matches /\ KeptAll /\ Served
    BY QuietStep DEF ServedInv, QuietInv
  <1>1. CASE Next
    <2>1. Moves
      BY <1>0, <1>1, NextMoves DEF BaseInv
    <2> QED BY <1>0, <2>1, MatchesStep, KeptStep, ServedStep DEF ServedInv
  <1>2. CASE UNCHANGED vars
    <2> USE <1>0, <1>2 DEF vars, gate, serve, call, back
    <2>1. Matches'
      BY DEF Matches, Loaded, Single
    <2>2. \A t \in Threads : Kept(t) => Kept(t)'
      BY DEF Kept, Suits, Size, Wanted
    <2>3. KeptAll'
      BY <2>2 DEF KeptAll
    <2>4. Served'
      BY DEF Served, Generating, Suits
    <2> QED BY <2>1, <2>3, <2>4 DEF ServedInv
  <1> QED BY <1>1, <1>2

(* The invariant holds in every reachable state. *)
LEMMA ServedHolds ==
  ASSUME NoticeModels = {}, Undisturbed
  PROVE  Spec => []ServedInv
  <1>1. ServedInv /\ [Next]_vars => ServedInv'
    BY ServedInvStep
  <1> QED BY InitServed, <1>1, PTL DEF Spec

(* ServedAsAsked: whatever the interleaving of loads, resets, retries and unloads, a        *)
(* generate that was sent after the runtime lock was dropped, and that names no model,      *)
(* runs on the model its request named, with the max_seq its budget needs.  The lease is    *)
(* what keeps the others' loads away, so it holds when nobody loads without one (no         *)
(* pre-warm thread, or one model everywhere), no warm-up leaves the daemon on a model the   *)
(* runtime has not published, no pflash line shifts the replies, and no idle unload is      *)
(* followed by a smaller load.                                                              *)
THEOREM RequestsServedAsAsked ==
  ASSUME NoticeModels = {}, Undisturbed, Roomy
  PROVE  Spec => []ServedAsAsked
  <1>1. ServedInv => ServedAsAsked
    <2> SUFFICES ASSUME ServedInv, NEW t \in Generating
                 PROVE  running[t].model = ModelOf[t] /\ running[t].seq >= Needs[t]
      BY DEF ServedAsAsked
    <2>1. t \in Threads /\ running[t] \in [model : Models, seq : Nat, used : BOOLEAN, batched : BOOLEAN]
      BY DEF ServedInv, QuietInv, BaseInv, TypeInv, TypeOK
    <2>2. running[t].model = ModelOf[t] /\ Needs[t] <= running[t].seq
      BY DEF ServedInv, Served, Suits
    <2> QED BY <2>1, <2>2, ActorFacts
  <1> QED BY <1>1, ServedHolds, PTL

(* Without the bound on the budgets the max_seq of a request can be lost to an idle unload   *)
(* and a smaller load, its model cannot: a generate that names no model runs on the model    *)
(* its request named.                                                                        *)
THEOREM ModelServedAsAsked ==
  ASSUME NoticeModels = {}, Undisturbed
  PROVE  Spec => [](\A t \in Generating : running[t].model = ModelOf[t])
  <1>1. ServedInv => \A t \in Generating : running[t].model = ModelOf[t]
    BY DEF ServedInv, Served, Suits
  <1> QED BY <1>1, ServedHolds, PTL

-----------------------------------------------------------------------------
(* A generation that must start clean does *)

\* A model that batches keeps a prompt cache, and requests that may share a model without
\* one do not exist.
Tidy ==
  /\ BatchModels \subseteq CacheModels
  /\ \A t, u \in MayBatch : t # u /\ ModelOf[t] = ModelOf[u] => ModelOf[t] \in CacheModels

\* Whose generation must start clean, and where its state has been reset or loaded for it.
Careful(t) == attempt[t] = 2 \/ ModelOf[t] \notin CacheModels
Past(t) ==
  \/ pc[t] \in {"budget", "sized", "built"}
  \/ pc[t] = "generating" /\ result[t] = "none" /\ t \notin Generating
  \/ pc[t] \in {"ensuring", "loading", "warm", "warming"} /\ min[t] # 0
  \/ pc[t] = "resetting" /\ ctl # << >> /\ Head(ctl).kind = "reset"
Clean == \A t \in Threads : Careful(t) /\ Past(t) => daemon.used = FALSE

CleanInv == ServedInv /\ Clean /\ CleanStart

(* An attempt's number changes between two attempts only. *)
LEMMA AttemptSteps ==
  ASSUME TypeInv, Moves, NEW u \in Threads
  PROVE  attempt'[u] = attempt[u] \/ pc[u] = "failed"
  <1> USE DEF gate, serve, call, back, Hears
  <1>1. ASSUME NEW t \in Threads, ThreadMoves(t)
        PROVE  attempt'[u] = attempt[u] \/ pc[u] = "failed"
    <2>1. CASE u # t
      BY <1>1, <2>1, ThreadFrame
    <2>2. attempt' = attempt \/ pc[t] = "failed"
      <3>1. CASE RequestFails(t)
        BY <3>1 DEF RequestFails, Leaves
      <3>2. CASE Classify(t) \/ Refuse(t) \/ Unlock(t) \/ Send(t)
        BY <3>2 DEF Classify, Refuse, Unlock, Send
      <3>3. CASE AcquireShared(t) \/ AcquireAlone(t) \/ ResetSends(t) \/ ResetSkips(t) \/ ResetDone(t)
        BY <3>3 DEF AcquireShared, AcquireAlone, ResetSends, ResetSkips, ResetDone
      <3>4. CASE BudgetGrows(t) \/ BudgetFits(t) \/ Returns(t) \/ Retries(t) \/ GivesUp(t)
        BY <3>4 DEF BudgetGrows, BudgetFits, Returns, Retries, GivesUp
      <3> QED BY <1>1, <3>1, <3>2, <3>3, <3>4 DEF ThreadMoves
    <2> QED BY <2>1, <2>2
  <1>2. CASE \E a \in Callers : CallerMoves(a)
    BY <1>2, CallerFrame
  <1>3. CASE SideMoves
    BY <1>3, SideFrame
  <1>4. CASE DaemonMoves
    BY <1>4, DaemonFrame
  <1> QED BY <1>1, <1>2, <1>3, <1>4 DEF Moves

(* A request that must start clean holds the backend alone. *)
LEMMA CarefulAlone ==
  ASSUME Tidy, BaseInv, NEW t \in Threads, NEW u \in Threads, t # u, Careful(t),
         pc[t] \in Holding, pc[u] \in Holding
  PROVE  FALSE
  <1>1. shared[t] = TRUE /\ shared[u] = TRUE /\ ModelOf[t] = ModelOf[u]
    BY DEF BaseInv, LeaseInv
  <1>2. t \in MayBatch /\ u \in MayBatch /\ attempt[t] # 2
    BY <1>1 DEF BaseInv, RequestInv
  <1>3. ModelOf[t] \in CacheModels
    BY <1>1, <1>2 DEF Tidy
  <1> QED BY <1>2, <1>3 DEF Careful

(* Its state is its own from the reset on. *)
LEMMA CleanStep ==
  ASSUME NoticeModels = {}, Tidy, QuietInv, Clean, Moves, BaseInv'
  PROVE  Clean'
  <1>0. /\ TypeInv /\ LockInv /\ PlaceInv /\ LeaseInv /\ RequestInv /\ RuntimeInv
        /\ pc \in [Actors -> Places] /\ min \in [Actors -> Nat]
        /\ result \in [Threads -> {"none", "ok", "fatal", "transient"}]
        /\ daemon \in [model : Models \cup {NoModel}, seq : Nat, used : BOOLEAN]
        /\ \A a \in Actors : pc'[a] \in Locked => lock' = a
        /\ \A a \in Actors : pc[a] \in Locked => lock = a
        /\ lock \in Actors \cup {NoOwner}
        /\ BaseInv /\ Talk /\ Fresh
    BY DEF QuietInv, BaseInv, TypeInv, TypeOK, LockInv
  <1> SUFFICES ASSUME NEW t \in Threads, Careful(t)', Past(t)'
               PROVE  daemon'.used = FALSE
    BY DEF Clean
  <1>p. /\ \/ pc'[t] \in {"budget", "sized", "built"}
           \/ pc'[t] = "generating" /\ result'[t] = "none" /\ t \notin Generating'
           \/ pc'[t] \in {"ensuring", "loading", "warm", "warming"} /\ min'[t] # 0
           \/ pc'[t] = "resetting" /\ ctl' # << >> /\ Head(ctl').kind = "reset"
        /\ attempt'[t] = 2 \/ ModelOf[t] \notin CacheModels
    BY DEF Past, Careful
  <1> USE <1>0, ActorFacts DEF gate, serve, call, back
  <1>1. ASSUME daemon' = daemon, attempt'[t] = attempt[t], Past(t)
        PROVE  daemon'.used = FALSE
    BY <1>1, <1>p DEF Clean, Careful
  <1>2. CASE Elsewhere
    <2>1. /\ UNCHANGED << daemon, min, ctl >> /\ Generating' = Generating
          /\ attempt'[t] = attempt[t]
          /\ \/ pc'[t] = pc[t] /\ result'[t] = result[t]
             \/ pc[t] = "built" /\ pc'[t] = "generating"
      BY <1>2, <1>p DEF Elsewhere, Generating
    <2>2. Past(t)
      BY <1>p, <2>1 DEF Past
    <2> QED BY <1>1, <2>1, <2>2
  <1>3. ASSUME NEW b \in Actors, Turns(b)
        PROVE  daemon'.used = FALSE
    <2>1. UNCHANGED << daemon, ctl, attempt >> /\ Generating' = Generating
      BY <1>3 DEF Turns, Generating
    <2>2. CASE t # b
      <3>1. pc'[t] = pc[t] /\ min'[t] = min[t] /\ result'[t] = result[t]
        BY <1>3, <2>2 DEF Turns
      <3>2. Past(t)
        BY <1>p, <2>1, <3>1 DEF Past
      <3> QED BY <1>1, <2>1, <3>2
    <2>3. CASE t = b
      <3>1. pc'[t] \in {"budget", "sized", "built"} \/ (pc'[t] = "ensuring" /\ min'[t] # 0)
        BY <1>3, <1>p, <2>3 DEF Turns, Waits
      <3>2. \/ pc[t] \in {"budget", "sized"} \/ (pc[t] = "ensuring" /\ min[t] # 0)
            \/ (pc[t] = "ensured" /\ ~ needs_reset(t))
        BY <1>3, <2>3, <3>1 DEF Turns
      <3>3. ~ (pc[t] = "ensured" /\ ~ needs_reset(t))
        <4> SUFFICES ASSUME pc[t] = "ensured", ~ needs_reset(t)
                     PROVE  FALSE
          OBVIOUS
        <4>1. attempt[t] # 2 /\ (rt.cache \/ rt.batch)
          BY DEF needs_reset
        <4>2. rt.path = ModelOf[t] /\ rt.path # NoModel
          BY DEF RuntimeInv
        <4>3. rt.cache = (ModelOf[t] \in CacheModels) /\ rt.batch = (ModelOf[t] \in BatchModels)
          BY <4>2 DEF RuntimeInv
        <4>4. ModelOf[t] \in CacheModels
          BY <4>1, <4>3 DEF Tidy
        <4> QED BY <1>p, <2>1, <4>1, <4>4
      <3>4. Past(t)
        BY <3>2, <3>3 DEF Past
      <3> QED BY <1>1, <2>1, <3>4
    <2> QED BY <2>2, <2>3
  <1>4. CASE Speaks
    \* Another's step.
    <2>0. ASSUME NEW b \in Actors, t # b, pc'[t] = pc[t], min'[t] = min[t], result'[t] = result[t],
                 UNCHANGED << daemon, attempt, running >>, lock = b \/ lock = NoOwner
          PROVE  daemon'.used = FALSE
      <3>1. pc[t] # "resetting"
        BY <2>0 DEF Locked
      <3>2. Past(t)
        BY <1>p, <2>0, <3>1 DEF Past, Generating
      <3> QED BY <1>1, <2>0, <3>2
    <2>1. ASSUME NEW b \in Callers, \/ EnsureLoads(b) \/ Publishes(b) \/ LoadedCold(b) \/ LoadSkips(b) \/ SendWarm(b)
          PROVE  daemon'.used = FALSE
      <3>1. /\ UNCHANGED << attempt, result, daemon, running >> /\ b \in Actors
            /\ \A c \in Actors : c # b => pc'[c] = pc[c] /\ min'[c] = min[c]
        BY <2>1, CallerFrame DEF CallerMoves, Callers
      <3>2. pc[b] \in {"ensuring", "loading", "warm", "warming"} /\ min' = min
            /\ \/ pc'[b] \in {"loading", "warm", "warming"} \/ pc'[b] = After(b)
        BY <2>1, <3>1 DEF EnsureLoads, Publishes, LoadedCold, LoadSkips, SendWarm, Hears, Goto
      <3>3. lock = b
        BY <3>1, <3>2 DEF Locked
      <3>4. CASE t # b
        BY <2>0, <3>1, <3>3, <3>4
      <3>5. CASE t = b
        <4>1. min[t] # 0
          BY <1>p, <3>2, <3>5 DEF After
        <4>2. Past(t)
          BY <3>2, <3>5, <4>1 DEF Past
        <4> QED BY <1>1, <3>1, <4>2
      <3> QED BY <3>4, <3>5
    <2>2. ASSUME NEW u \in Threads, ResetSends(u) \/ ResetDone(u) \/ HearsFailure(u)
          PROVE  daemon'.used = FALSE
      <3>1. /\ UNCHANGED << daemon, running >>
            /\ \A c \in Actors : c # u => pc'[c] = pc[c] /\ min'[c] = min[c]
            /\ \A v \in Threads : v # u => result'[v] = result[v]
        BY <2>2, ThreadFrame DEF ThreadMoves, HearsFailure
      <3>2. /\ pc[u] \in {"ensured", "loading", "warming", "resetting"} /\ UNCHANGED attempt
        BY <2>2 DEF ResetSends, ResetDone, HearsFailure, RequestFails, EnsureFails, Leaves, Hears
      <3>3. lock = u
        BY <3>2 DEF Locked
      <3>4. CASE t # u
        BY <2>0, <3>1, <3>2, <3>3, <3>4
      <3>5. CASE t = u /\ ResetDone(u)
        <4>1. Past(t)
          BY <3>5 DEF Past, ResetDone, Hears
        <4> QED BY <1>1, <3>1, <3>2, <4>1
      <3>6. CASE t = u /\ ResetSends(u)
        <4>1. Quiet
          BY <3>3, <3>6, SilentWhen DEF ResetSends, Waits
        <4>2. pc'[t] = "resetting" /\ ctl' = << >>
          BY <3>6, <4>1 DEF ResetSends, Quiet
        <4> QED BY <1>p, <4>2
      <3>7. CASE t = u /\ HearsFailure(u)
        <4>1. pc'[t] = "failed"
          BY <3>7 DEF HearsFailure, RequestFails, Leaves
        <4> QED BY <1>p, <4>1
      <3> QED BY <2>2, <3>4, <3>5, <3>6, <3>7
    <2>3. CASE PrewarmFails \/ IdleSends \/ IdleForgets \/ IdleKeeps
      <3>1. UNCHANGED << min, attempt, result, daemon, running >> /\ pc'[t] = pc[t]
        BY <2>3, SideFrame DEF SideMoves
      <3>2. \E b \in Actors : t # b /\ (lock = b \/ lock = NoOwner)
        BY <2>3 DEF PrewarmFails, EnsureFails, IdleSends, IdleForgets, IdleKeeps, Hears, Locked
      <3> QED BY <2>0, <3>1, <3>2
    <2> QED BY <1>4, <2>1, <2>2, <2>3 DEF Speaks
  <1>5. CASE DaemonMoves
    <2>0. UNCHANGED << pc, lock, min, attempt >>
      BY <1>5, DaemonFrame
    <2>1. CASE Serves
      <3>1. ASSUME NEW u \in Threads, Refuses(u)
            PROVE  daemon'.used = FALSE
        <4>1. UNCHANGED << daemon, ctl, running >> /\ result' = [result EXCEPT ![u] = "fatal"]
          BY <3>1 DEF Refuses
        <4>2. Past(t)
          BY <1>p, <2>0, <4>1 DEF Past, Generating
        <4> QED BY <1>1, <2>0, <4>1, <4>2
      <3>2. ASSUME NEW u \in Threads, Ends(u)
            PROVE  daemon'.used = FALSE
        <4>1. Generating' = Generating \ {u} /\ UNCHANGED << daemon, ctl >>
          BY <3>2, EndsFacts
        <4>2. result'[u] # "none" /\ \A v \in Threads : v # u => result'[v] = result[v]
          BY <3>2 DEF Ends
        <4>3. Past(t)
          <5>1. CASE pc[t] = "generating"
            BY <1>p, <2>0, <4>1, <4>2, <5>1 DEF Past
          <5>2. CASE pc[t] # "generating"
            BY <1>p, <2>0, <4>1, <5>2 DEF Past
          <5> QED BY <5>1, <5>2
        <4> QED BY <1>1, <2>0, <4>1, <4>3
      <3>3. ASSUME NEW u \in Threads, NEW b \in BOOLEAN, Starts(u, b)
            PROVE  daemon'.used = FALSE
        <4>1. /\ pc[u] = "generating" /\ Generating' = Generating \cup {u}
          BY <3>3, StartsFacts
        <4>2. t # u
          BY <1>p, <2>0, <4>1
        <4>3. pc[t] \in Holding /\ pc[u] \in Holding
          BY <1>p, <2>0, <4>1 DEF Holding, Locked
        <4>4. Careful(t)
          BY <1>p, <2>0 DEF Careful
        <4> QED BY <4>2, <4>3, <4>4, CarefulAlone
      <3>4. PICK u \in Threads : Refuses(u) \/ Ends(u) \/ \E b \in BOOLEAN : Starts(u, b)
        BY <2>1 DEF Serves
      <3> HIDE <1>0, ActorFacts
      <3> QED BY <3>1, <3>2, <3>3, <3>4
    <2>2. CASE \E s \in {daemon.seq, 0, Size(lock)} : \E m : daemon' = [model |-> m, seq |-> s, used |-> FALSE]
      BY <2>2
    <2>3. ASSUME NEW kind, NEW k, Replied(kind, k), k # "reset" \/ pc[lock] # "resetting", daemon' = daemon
          PROVE  daemon'.used = FALSE
      <3>1. /\ UNCHANGED << result, running >> /\ ctl = << >> /\ Head(ctl').kind = k /\ lock # NoOwner
        BY <2>3 DEF Replied
      <3>2. ~ (pc'[t] = "resetting" /\ Head(ctl').kind = "reset")
        <4>1. pc[t] = "resetting" => lock = t
          BY DEF Locked
        <4>2. k = "reset" => pc[t] # "resetting"
          BY <2>3, <4>1
        <4> QED BY <2>0, <3>1, <4>2
      <3>3. Past(t)
        BY <1>p, <2>0, <3>1, <3>2 DEF Past, Generating
      <3> QED BY <1>1, <2>0, <2>3, <3>3
    <2>4. CASE daemon' = [daemon EXCEPT !.used = FALSE]
      BY <2>4
    <2>5. CASE daemon' = NoDaemonModel
      BY <2>5 DEF NoDaemonModel
    <2> QED BY <1>5, <2>1, <2>2, <2>3, <2>4, <2>5, DaemonKinds
  <1> QED BY <1>2, <1>3, <1>4, <1>5, StepKinds

(* A generation that must start clean finds the state clean. *)
LEMMA CleanStartStep ==
  ASSUME ServedInv, Clean, CleanStart, Moves
  PROVE  CleanStart'
  <1>0. /\ BaseInv /\ TypeInv /\ KeptAll
        /\ \A u \in Generating : u \in Threads /\ pc[u] # "failed"
    BY DEF ServedInv, QuietInv, BaseInv, TypeInv, TypeOK, GenerateInv
  <1>a. \A u \in Generating : attempt'[u] = attempt[u]
    BY <1>0, AttemptSteps
  <1>1. CASE UNCHANGED running
    BY <1>1, <1>a DEF CleanStart, Generating
  <1>2. ASSUME NEW t \in Threads, Ends(t)
        PROVE  CleanStart'
    BY <1>2, <1>a, EndsFacts DEF CleanStart
  <1>3. ASSUME NEW t \in Threads, NEW b \in BOOLEAN, Starts(t, b)
        PROVE  CleanStart'
    <2>1. /\ pc[t] = "generating" /\ result[t] = "none" /\ t \notin Generating /\ daemon.model # NoModel
          /\ Generating' = Generating \cup {t}
          /\ running'[t] = Starting(b)
          /\ \A u \in Generating : running'[u] = running[u] /\ u # t
          /\ attempt' = attempt
      BY <1>0, <1>3, StartsFacts
    <2>2. daemon.model = ModelOf[t]
      BY <1>0, <2>1 DEF KeptAll, Settled, Kept, Suits
    <2>3. running'[t].model = daemon.model /\ running'[t].used = daemon.used
      BY <2>1 DEF Starting
    <2>4. Past(t)
      BY <2>1 DEF Past
    <2>5. attempt'[t] = 2 \/ running'[t].model \notin CacheModels => ~ running'[t].used
      BY <2>1, <2>2, <2>3, <2>4 DEF Clean, Careful
    <2>6. ASSUME NEW u \in Generating', ~ running'[u].batched,
                 attempt'[u] = 2 \/ running'[u].model \notin CacheModels
          PROVE  ~ running'[u].used
      <3>1. CASE u = t
        BY <2>5, <2>6, <3>1
      <3>2. CASE u # t
        BY <2>1, <2>6, <3>2 DEF CleanStart
      <3> QED BY <3>1, <3>2
    <2> QED BY <2>6 DEF CleanStart
  <1> QED BY <1>0, <1>1, <1>2, <1>3, RunningSteps

(* The first state. *)
LEMMA InitClean == Init => CleanInv
  <1> SUFFICES ASSUME Init
               PROVE  CleanInv
    OBVIOUS
  <1>1. ServedInv
    BY InitServed
  <1>2. running = << >> /\ \A t \in Threads : pc[t] = "new"
    BY ActorFacts DEF Init
  <1>3. Generating = {}
    BY <1>2 DEF Generating
  <1>4. \A t \in Threads : ~ Past(t)
    BY <1>2 DEF Past
  <1> QED BY <1>1, <1>3, <1>4 DEF CleanInv, Clean, CleanStart

(* Every step. *)
LEMMA CleanInvStep ==
  ASSUME NoticeModels = {}, Undisturbed, Tidy, CleanInv, [Next]_vars
  PROVE  CleanInv'
  <1>0. ServedInv /\ ServedInv' /\ QuietInv /\ BaseInv /\ BaseInv' /\ Clean /\ CleanStart
    BY ServedInvStep DEF CleanInv, ServedInv, QuietInv
  <1>1. CASE Next
    <2>1. Moves
      BY <1>0, <1>1, NextMoves DEF BaseInv
    <2> QED BY <1>0, <2>1, CleanStep, CleanStartStep DEF CleanInv
  <1>2. CASE UNCHANGED vars
    <2> USE <1>2 DEF vars, gate, serve, call, back
    <2>1. Generating' = Generating
      BY DEF Generating
    <2>2. Clean'
      BY <1>0, <2>1 DEF Clean, Careful, Past
    <2>3. CleanStart'
      BY <1>0, <2>1 DEF CleanStart
    <2> QED BY <1>0, <2>2, <2>3 DEF CleanInv
  <1> QED BY <1>1, <1>2

(* CleanStart: a sequential generation on a model without a prompt cache, or on a second     *)
(* attempt after a torn first one, starts on a daemon whose state was reset or just loaded   *)
(* for it, although the reset is sent under the runtime lock and the generate after it was   *)
(* dropped.  Between the two nobody else may generate: the request holds the backend alone,  *)
(* which is so when no two requests that may share want one model without a cache.           *)
THEOREM RequestsStartClean ==
  ASSUME NoticeModels = {}, Undisturbed, Tidy
  PROVE  Spec => []CleanStart
  <1>1. CleanInv /\ [Next]_vars => CleanInv'
    BY CleanInvStep
  <1>2. CleanInv => CleanStart
    BY DEF CleanInv
  <1> QED BY InitClean, <1>1, <1>2, PTL DEF Spec
=============================================================================
