---------------------------- MODULE ServeRuntime ----------------------------
(***************************************************************************)
(* hipfire serve around its one daemon process: ServeRuntime and its lock, *)
(* ensure_model, one attempt of a request (complete_request_attempt) and   *)
(* its single retry, the pre-warm thread, the idle-unload thread           *)
(* (hipfire-cli/src/main.rs), and the daemon's main loop as they see it    *)
(* (hipfire-runtime/examples/daemon.rs): messages are handled in order of  *)
(* arrival, and none of load, reset, unload or a sequential generate       *)
(* before the lanes of a running batch have drained.                       *)
(*                                                                         *)
(* The admission gate is taken as what it implements, BackendLease.        *)
(* A control call holds the runtime lock and waits for the next control    *)
(* line of the daemon, whatever line that is; a line nobody waits for is   *)
(* dropped.  Time is one bit: last_activity is older than the idle timeout *)
(* or it is not.  max_seq is counted in the steps the instance tells apart.*)
(***************************************************************************)
EXTENDS Integers, Sequences, FiniteSets, Functions

CONSTANTS
  Threads,        \* request threads
  Models, NoModel,
  ModelOf,        \* [Threads -> Models]: the request's "model"
  Needs,          \* [Threads -> Nat]: required_max_seq; 0 is a refused max_tokens
  MayBatch,       \* threads whose request has the shape that may share a batch
  BatchModels,    \* loaded with continuous_batch_capable
  CacheModels,    \* loaded with cache_capable
  RetryModels,    \* loaded with retry_reset_eligible
  WarmModels,     \* should_prewarm_qwen_mq4r_decode
  NoticeModels,   \* a pflash line follows their `loaded`
  Capacity,       \* Admission::capacity
  DefaultSeq,     \* memory.max_seq, what a load gets without a larger budget
  PrewarmModel,   \* the default model of the pre-warm thread, or NoModel
  IdleUnload,     \* idle_timeout is not zero
  Faults,         \* which daemon operations may fail
  MaxFaults,      \* bound: how many of them do
  Prewarmer, Evictor, NoOwner

Actors == Threads \cup {Prewarmer, Evictor}

ASSUME ServeAssumption ==
  /\ IsFiniteSet(Threads)
  /\ NoModel \notin Models
  /\ ModelOf \in [Threads -> Models] /\ Needs \in [Threads -> Nat]
  /\ MayBatch \subseteq Threads
  /\ UNION {BatchModels, CacheModels, RetryModels, WarmModels, NoticeModels} \subseteq Models
  /\ Capacity \in Nat \ {0} /\ DefaultSeq \in Nat
  /\ PrewarmModel \in Models \cup {NoModel}
  /\ IdleUnload \in BOOLEAN
  /\ Faults \subseteq {"load", "warm", "reset", "unload", "generate"}
  /\ MaxFaults \in Nat
  /\ Prewarmer \notin Threads /\ Evictor \notin Threads /\ Prewarmer # Evictor
  /\ NoOwner \notin Actors

VARIABLES
  lease,    \* the admission gate: what each thread holds
  shared,   \* guard.is_eligible, classed before the gate is entered
  lock,     \* owner of Mutex<ServeRuntime>
  rt,       \* ServeRuntime: current_path, current_max_seq, the two capabilities,
            \* and the engine's last_retry_reset_eligible
  meta,     \* ServeMeta: current_model, loading_model, idle window over
  pc, min,  \* where each actor is; minimum_max_seq of its ensure_model (0: None)
  attempt,  \* attempt_index of complete_request
  result,   \* how the attempt's generate ended, for the thread that waits for it
  wire,     \* lines on their way to the daemon
  ctl,      \* control lines on their way back
  daemon,   \* the loaded model, its max_seq, and whether its state was used
  running,  \* generations the daemon runs, and what each of them started from
  faults    \* history: the operations that failed so far

gate == << lease, shared >>
serve == << lock, rt, meta >>
call == << pc, min, attempt, result >>
back == << wire, ctl, daemon, running, faults >>
vars == << gate, serve, call, back >>

Gate == INSTANCE BackendLease

Unloaded == [path |-> NoModel, max_seq |-> 0, cache |-> FALSE, batch |-> FALSE,
             eligible |-> FALSE]

Init ==
  /\ lease = [t \in Threads |-> Gate!Free]
  /\ shared = [t \in Threads |-> FALSE]
  /\ lock = NoOwner
  /\ rt = Unloaded
  /\ meta = [current |-> NoModel, loading |-> NoModel, expired |-> FALSE]
  /\ pc = [a \in Actors |->
             IF a = Prewarmer /\ PrewarmModel = NoModel THEN "done"
             ELSE IF a = Evictor THEN "sleep" ELSE "new"]
  /\ min = [a \in Actors |-> 0]
  /\ attempt = [t \in Threads |-> 1]
  /\ result = [t \in Threads |-> "none"]
  /\ wire = << >> /\ ctl = << >>
  /\ daemon = [model |-> NoModel, seq |-> 0, used |-> FALSE]
  /\ running = << >>
  /\ faults = << >>

Goto(a, place) == pc' = [pc EXCEPT ![a] = place]

-----------------------------------------------------------------------------
(* The gate, entered on a classification that is stale by then. *)

\* handle_http reads what the daemon can do under the runtime lock and drops it.
Classify(t) ==
  /\ pc[t] = "new" /\ lock = NoOwner
  /\ shared' = [shared EXCEPT ![t] = rt.batch /\ t \in MayBatch]
  /\ Goto(t, "classed")
  /\ UNCHANGED << lease, serve, min, attempt, result, back >>

Acquire(t) ==
  /\ pc[t] \in {"classed", "backoff"}
  /\ IF shared[t] THEN Gate!GrantShared(t, ModelOf[t]) ELSE Gate!GrantExclusive(t)
  /\ Goto(t, "admitted")
  /\ UNCHANGED << shared, serve, min, attempt, result, back >>

\* The queue is full or its time is over.
Refuse(t) ==
  /\ pc[t] \in {"classed", "backoff"}
  /\ Gate!Holders # {}
  /\ Goto(t, "done")
  /\ UNCHANGED << gate, serve, min, attempt, result, back >>

-----------------------------------------------------------------------------
(* ServeRuntime::ensure_model, under the runtime lock. *)

Wanted(a) == IF a = Prewarmer THEN PrewarmModel ELSE ModelOf[a]

Enter(a) ==
  /\ \/ a \in Threads /\ pc[a] = "admitted"
     \/ a = Prewarmer /\ pc[a] = "announced"
  /\ lock = NoOwner
  /\ lock' = a
  /\ Goto(a, "ensuring")
  /\ min' = [min EXCEPT ![a] = 0]
  /\ UNCHANGED << gate, rt, meta, attempt, result, back >>

\* Mutant of must_reload: the budget of the loaded model is not looked at.
must_reload_other(a) == rt.path # Wanted(a)

must_reload(a) == rt.path # Wanted(a) \/ (min[a] # 0 /\ rt.max_seq < min[a])

MaxOf(m, n) == IF m > n THEN m ELSE n

\* ensure_model returned Ok: the request goes on under the lock, the pre-warm
\* thread lets go of it.
Ensured(a, m) ==
  /\ meta' = m
  /\ IF a = Prewarmer THEN Goto(a, "warmed") /\ lock' = NoOwner
     ELSE Goto(a, IF min[a] = 0 THEN "ensured" ELSE "sized") /\ UNCHANGED lock

\* The actor's call failed: locks and guard go with it.
Abandon(a, why) ==
  /\ lock' = NoOwner
  /\ IF a = Prewarmer
     THEN Goto(a, "cold") /\ UNCHANGED << lease, result >>
     ELSE /\ Goto(a, "failed")
          /\ result' = [result EXCEPT ![a] = why]
          /\ Gate!GiveBack(a)
  /\ UNCHANGED meta

EnsureModel(a) ==
  /\ pc[a] = "ensuring"
  /\ IF must_reload(a)
     THEN /\ wire' = Append(wire, [kind |-> "load", model |-> Wanted(a),
                                   seq |-> MaxOf(DefaultSeq, min[a])])
          /\ rt' = [rt EXCEPT !.eligible = FALSE]
          /\ Goto(a, "loading")
          /\ UNCHANGED << lock, meta >>
     ELSE /\ Ensured(a, meta)
          /\ UNCHANGED << wire, rt >>
  /\ UNCHANGED << gate, min, attempt, result, ctl, daemon, running, faults >>

\* What the runtime publishes after a load and its warm-up, both successful.
Publish(a, eligible) ==
  /\ rt' = [path |-> Wanted(a), max_seq |-> MaxOf(DefaultSeq, min[a]),
            cache |-> Wanted(a) \in CacheModels, batch |-> Wanted(a) \in BatchModels,
            eligible |-> eligible]
  /\ Ensured(a, [meta EXCEPT !.current = Wanted(a)])
  /\ UNCHANGED << lease, result >>

\* Mutant of load_errors: an error line is skipped like any other.
load_errors_skipped == {}

load_errors == {"error", "transient"}

\* Engine::load skips every line but `loaded` and an error.
LoadReply(a) ==
  /\ pc[a] = "loading" /\ ctl # << >>
  /\ ctl' = Tail(ctl)
  /\ CASE Head(ctl).kind = "loaded" /\ Wanted(a) \in WarmModels ->
            /\ rt' = [rt EXCEPT !.eligible = Head(ctl).eligible]
            /\ Goto(a, "warm")
            /\ UNCHANGED << lease, lock, meta, result >>
       [] Head(ctl).kind = "loaded" /\ Wanted(a) \notin WarmModels ->
            Publish(a, Head(ctl).eligible)
       [] Head(ctl).kind \in load_errors -> Abandon(a, "fatal") /\ UNCHANGED rt
       [] OTHER -> UNCHANGED << lease, lock, rt, meta, pc, result >>
  /\ UNCHANGED << shared, min, attempt, wire, daemon, running, faults >>

SendWarm(a) ==
  /\ pc[a] = "warm"
  /\ wire' = Append(wire, [kind |-> "warm"])
  /\ Goto(a, "warming")
  /\ UNCHANGED << gate, serve, min, attempt, result, ctl, daemon, running, faults >>

\* prewarm_qwen_mq4r_decode: any line but decode_result is a failure.
WarmReply(a) ==
  /\ pc[a] = "warming" /\ ctl # << >>
  /\ ctl' = Tail(ctl)
  /\ IF Head(ctl).kind = "decode_result" THEN Publish(a, rt.eligible)
     ELSE Abandon(a, "fatal") /\ UNCHANGED rt
  /\ UNCHANGED << shared, min, attempt, wire, daemon, running, faults >>

-----------------------------------------------------------------------------
(* The rest of complete_request_attempt, and complete_request around it. *)

\* Mutant of needs_reset: a retry trusts the prompt cache like a first attempt.
needs_reset_without_cache(t) == ~ rt.cache /\ ~ rt.batch

needs_reset(t) == attempt[t] = 2 \/ (~ rt.cache /\ ~ rt.batch)

Reset(t) ==
  /\ pc[t] = "ensured"
  /\ IF needs_reset(t)
     THEN wire' = Append(wire, [kind |-> "reset"]) /\ Goto(t, "resetting")
     ELSE UNCHANGED wire /\ Goto(t, "budget")
  /\ UNCHANGED << gate, serve, min, attempt, result, ctl, daemon, running, faults >>

\* A reset that fails on the retry poisons the runtime: the next request reloads.
\* (validate_reset_ack also refuses an ack of another attempt or of an old epoch; the
\* lock keeps one control exchange open at a time and the daemon counts its epochs up,
\* so a refused ack is one more "fatal" answer here.)
ResetReply(t) ==
  /\ pc[t] = "resetting" /\ ctl # << >>
  /\ ctl' = Tail(ctl)
  /\ IF Head(ctl).kind = "reset"
     THEN /\ rt' = [rt EXCEPT !.eligible = Head(ctl).eligible]
          /\ Goto(t, "budget")
          /\ UNCHANGED << lease, lock, meta, result >>
     ELSE /\ rt' = IF attempt[t] = 2 THEN [Unloaded EXCEPT !.eligible = rt.eligible] ELSE rt
          /\ Abandon(t, IF Head(ctl).kind = "transient" THEN "transient" ELSE "fatal")
  /\ UNCHANGED << shared, min, attempt, wire, daemon, running, faults >>

Budget(t) ==
  /\ pc[t] = "budget"
  /\ IF Needs[t] = 0
     THEN Abandon(t, "fatal") /\ UNCHANGED min
     ELSE /\ IF rt.max_seq < Needs[t]
             THEN min' = [min EXCEPT ![t] = Needs[t]] /\ Goto(t, "ensuring")
             ELSE UNCHANGED min /\ Goto(t, "sized")
          /\ UNCHANGED << lease, lock, meta, result >>
  /\ UNCHANGED << shared, rt, attempt, back >>

\* The generate request is built and the engine handle cloned; the lock is
\* dropped before the request is sent.
Unlock(t) ==
  /\ pc[t] = "sized"
  /\ lock' = NoOwner
  /\ Goto(t, "built")
  /\ UNCHANGED << gate, rt, meta, min, attempt, result, back >>

Send(t) ==
  /\ pc[t] = "built"
  /\ wire' = Append(wire, [kind |-> "generate", thread |-> t])
  /\ Goto(t, "generating")
  /\ UNCHANGED << gate, serve, min, attempt, result, ctl, daemon, running, faults >>

\* The attempt returns and drops its guard.
Return(t) ==
  /\ pc[t] = "generating" /\ result[t] # "none"
  /\ Gate!GiveBack(t)
  /\ IF result[t] = "ok"
     THEN Goto(t, "done") /\ meta' = [meta EXCEPT !.expired = FALSE]
     ELSE Goto(t, "failed") /\ UNCHANGED meta
  /\ UNCHANGED << shared, lock, rt, min, attempt, result, back >>

\* Mutant of may_retry: a retry is retried.
may_retry_again(t) == result[t] = "transient" /\ rt.eligible

may_retry(t) == attempt[t] = 1 /\ result[t] = "transient" /\ rt.eligible

\* decide_retry: eligibility is what the engine last heard, from whichever model
\* it heard it, read once the guard is gone.
DecideRetry(t) ==
  /\ pc[t] = "failed" /\ lock = NoOwner
  /\ IF may_retry(t)
     THEN /\ Goto(t, "backoff")
          /\ attempt' = [attempt EXCEPT ![t] = @ + 1]
          /\ shared' = [shared EXCEPT ![t] = FALSE]
          /\ result' = [result EXCEPT ![t] = "none"]
     ELSE Goto(t, "done") /\ UNCHANGED << attempt, shared, result >>
  /\ UNCHANGED << lease, serve, min, back >>

Request(t) ==
  \/ Classify(t) \/ Acquire(t) \/ Enter(t)
  \/ EnsureModel(t) \/ LoadReply(t) \/ SendWarm(t) \/ WarmReply(t)
  \/ Reset(t) \/ ResetReply(t) \/ Budget(t)
  \/ Unlock(t) \/ Send(t) \/ Return(t) \/ DecideRetry(t)

-----------------------------------------------------------------------------
(* The pre-warm thread and the idle-unload thread hold no lease. *)

PrewarmAnnounce ==
  /\ pc[Prewarmer] = "new"
  /\ meta' = [meta EXCEPT !.loading = PrewarmModel]
  /\ Goto(Prewarmer, "announced")
  /\ UNCHANGED << gate, lock, rt, min, attempt, result, back >>

\* A success opens an idle window.
finish_prewarm ==
  /\ pc[Prewarmer] \in {"warmed", "cold"}
  /\ meta' = [meta EXCEPT !.loading = NoModel,
                          !.expired = IF pc[Prewarmer] = "warmed" THEN FALSE ELSE @]
  /\ Goto(Prewarmer, "done")
  /\ UNCHANGED << gate, lock, rt, min, attempt, result, back >>

Prewarm ==
  \/ PrewarmAnnounce \/ finish_prewarm \/ Enter(Prewarmer) \/ EnsureModel(Prewarmer)
  \/ LoadReply(Prewarmer) \/ SendWarm(Prewarmer) \/ WarmReply(Prewarmer)

\* last_activity grows older than the timeout.
Expire ==
  /\ IdleUnload /\ ~ meta.expired
  /\ meta' = [meta EXCEPT !.expired = TRUE]
  /\ UNCHANGED << gate, lock, rt, call, back >>

\* admission.inflight() == 0, asked before anything else.
IdleLook ==
  /\ IdleUnload
  /\ pc[Evictor] = "sleep" /\ Gate!Holders = {}
  /\ Goto(Evictor, "quiet")
  /\ UNCHANGED << gate, serve, min, attempt, result, back >>

idle_model_expired == meta.loading = NoModel /\ meta.current # NoModel /\ meta.expired

IdleExpired ==
  /\ pc[Evictor] = "quiet"
  /\ Goto(Evictor, IF idle_model_expired THEN "expired" ELSE "sleep")
  /\ UNCHANGED << gate, serve, min, attempt, result, back >>

IdleEvict ==
  /\ pc[Evictor] = "expired" /\ lock = NoOwner
  /\ IF rt.path # NoModel
     THEN /\ lock' = Evictor
          /\ wire' = Append(wire, [kind |-> "unload"])
          /\ Goto(Evictor, "unloading")
     ELSE Goto(Evictor, "clearing") /\ UNCHANGED << lock, wire >>
  /\ UNCHANGED << gate, rt, meta, min, attempt, result, ctl, daemon, running, faults >>

\* Mutant of forget_model: the path outlives the model.
remember_model == [rt EXCEPT !.max_seq = 0, !.cache = FALSE]

\* What the idle thread resets; continuous_batch_capable is not among it.
forget_model == [rt EXCEPT !.path = NoModel, !.max_seq = 0, !.cache = FALSE]

IdleReply ==
  /\ pc[Evictor] = "unloading" /\ ctl # << >>
  /\ ctl' = Tail(ctl)
  /\ lock' = NoOwner
  /\ IF Head(ctl).kind = "unloaded"
     THEN rt' = forget_model /\ Goto(Evictor, "clearing")
     ELSE UNCHANGED rt /\ Goto(Evictor, "sleep")
  /\ UNCHANGED << gate, meta, min, attempt, result, wire, daemon, running, faults >>

\* The meta lock is taken after the runtime lock was dropped.
IdleClear ==
  /\ pc[Evictor] = "clearing"
  /\ meta' = [current |-> NoModel, loading |-> NoModel, expired |-> FALSE]
  /\ Goto(Evictor, "sleep")
  /\ UNCHANGED << gate, lock, rt, min, attempt, result, back >>

Idle == IdleLook \/ IdleExpired \/ IdleEvict \/ IdleReply \/ IdleClear

-----------------------------------------------------------------------------
(* The daemon's main loop. *)

Generating == DOMAIN running

\* Takes the next line off stdin.
Takes(kind) == wire # << >> /\ Head(wire).kind = kind
Line(kind) == [kind |-> kind, eligible |-> daemon.model \in RetryModels]

Fails(what) == what \in Faults /\ Len(faults) < MaxFaults /\ faults' = Append(faults, what)

\* The old model is gone before the new one is tried.  A pflash line, if there is
\* one, is written after `loaded` and before the next line is read.
DaemonLoad ==
  /\ Takes("load") /\ Generating = {}
  /\ LET m == Head(wire) IN
     \/ /\ daemon' = [model |-> m.model, seq |-> m.seq, used |-> FALSE]
        /\ ctl' = Append(ctl, [kind |-> "loaded", eligible |-> m.model \in RetryModels])
        /\ wire' = IF m.model \in NoticeModels THEN << [kind |-> "notice"] >> \o Tail(wire)
                   ELSE Tail(wire)
        /\ UNCHANGED faults
     \/ /\ Fails("load")
        /\ daemon' = [model |-> NoModel, seq |-> 0, used |-> FALSE]
        /\ ctl' = Append(ctl, Line("error"))
        /\ wire' = Tail(wire)
  /\ UNCHANGED << gate, serve, call, running >>

DaemonNotice ==
  /\ Takes("notice")
  /\ wire' = Tail(wire)
  /\ ctl' = Append(ctl, Line("pflash"))
  /\ UNCHANGED << gate, serve, call, daemon, running, faults >>

DaemonWarm ==
  /\ Takes("warm") /\ Generating = {}
  /\ wire' = Tail(wire)
  /\ \/ /\ ctl' = Append(ctl, Line(IF daemon.model = NoModel THEN "error" ELSE "decode_result"))
        /\ UNCHANGED faults
     \/ Fails("warm") /\ ctl' = Append(ctl, Line("error"))
  /\ UNCHANGED << gate, serve, call, daemon, running >>

DaemonReset ==
  /\ Takes("reset") /\ Generating = {}
  /\ wire' = Tail(wire)
  /\ \/ /\ ctl' = Append(ctl, Line(IF daemon.model = NoModel THEN "error" ELSE "reset"))
        /\ daemon' = [daemon EXCEPT !.used = FALSE]
        /\ UNCHANGED faults
     \/ /\ Fails("reset")
        /\ ctl' = Append(ctl, Line("transient"))
        /\ UNCHANGED daemon
  /\ UNCHANGED << gate, serve, call, running >>

\* An unload that fails has taken the model all the same.
DaemonUnload ==
  /\ Takes("unload") /\ Generating = {}
  /\ wire' = Tail(wire)
  /\ daemon' = [model |-> NoModel, seq |-> 0, used |-> FALSE]
  /\ \/ ctl' = Append(ctl, Line("unloaded")) /\ UNCHANGED faults
     \/ Fails("unload") /\ ctl' = Append(ctl, Line("error"))
  /\ UNCHANGED << gate, serve, call, running >>

\* A generate joins the running batch or waits until the daemon is free; without
\* a model it is refused.  It asks for no model by name.
DaemonGenerate ==
  /\ Takes("generate")
  /\ LET t == Head(wire).thread
         batched == shared[t] /\ daemon.model \in BatchModels IN
     /\ IF batched THEN \A u \in Generating : running[u].batched ELSE Generating = {}
     /\ IF daemon.model = NoModel
        THEN /\ result' = [result EXCEPT ![t] = "fatal"]
             /\ UNCHANGED << daemon, running >>
        ELSE /\ running' = [u \in Generating \cup {t} |->
                              IF u \in Generating THEN running[u]
                              ELSE [model |-> daemon.model, seq |-> daemon.seq,
                                    used |-> daemon.used, batched |-> batched]]
             /\ daemon' = [daemon EXCEPT !.used = @ \/ ~ batched]
             /\ UNCHANGED result
  /\ wire' = Tail(wire)
  /\ UNCHANGED << gate, serve, pc, min, attempt, ctl, faults >>

\* It ends, well or with an error the daemon calls transient.
DaemonEnd(t) ==
  /\ t \in Generating
  /\ running' = Restrict(running, Generating \ {t})
  /\ \/ result' = [result EXCEPT ![t] = "ok"] /\ UNCHANGED faults
     \/ Fails("generate") /\ result' = [result EXCEPT ![t] = "transient"]
  /\ UNCHANGED << gate, serve, pc, min, attempt, wire, ctl, daemon >>

\* The client's reader thread: a control line nobody waits for is dropped.
DropLine ==
  /\ ctl # << >>
  /\ \A a \in Actors : pc[a] \notin {"loading", "warming", "resetting", "unloading"}
  /\ ctl' = Tail(ctl)
  /\ UNCHANGED << gate, serve, call, wire, daemon, running, faults >>

Daemon ==
  \/ DaemonLoad \/ DaemonNotice \/ DaemonWarm \/ DaemonReset \/ DaemonUnload
  \/ DaemonGenerate \/ DropLine
  \/ \E t \in Threads : DaemonEnd(t)

Next ==
  \/ \E t \in Threads : Request(t) \/ Refuse(t)
  \/ Prewarm
  \/ Expire \/ Idle
  \/ Daemon

Spec == Init /\ [][Next]_vars

\* Every thread of the server is scheduled, the daemon reads on, and every
\* generation ends.  No refusal, no expiry and no failure is relied on.
FairSpec ==
  /\ Spec
  /\ \A t \in Threads : WF_vars(Request(t)) /\ WF_vars(DaemonEnd(t))
  /\ WF_vars(Prewarm) /\ WF_vars(Idle) /\ WF_vars(Daemon)

-----------------------------------------------------------------------------
(* Properties *)

Places == {"new", "classed", "admitted", "announced", "ensuring", "loading", "warm",
           "warming", "warmed", "cold", "ensured", "resetting", "budget", "sized", "built", "generating",
           "failed", "backoff", "done", "sleep", "quiet", "expired", "unloading", "clearing"}

\* Type invariant.
TypeOK ==
  /\ lease \in [Threads -> Gate!Leases] /\ shared \in [Threads -> BOOLEAN]
  /\ lock \in Actors \cup {NoOwner}
  /\ rt \in [path : Models \cup {NoModel}, max_seq : Nat, cache : BOOLEAN,
             batch : BOOLEAN, eligible : BOOLEAN]
  /\ meta \in [current : Models \cup {NoModel}, loading : Models \cup {NoModel},
               expired : BOOLEAN]
  /\ pc \in [Actors -> Places] /\ min \in [Actors -> Nat]
  /\ attempt \in [Threads -> {1, 2}]
  /\ result \in [Threads -> {"none", "ok", "fatal", "transient"}]
  /\ Generating \subseteq Threads
  /\ \A t \in Generating :
       running[t] \in [model : Models, seq : Nat, used : BOOLEAN, batched : BOOLEAN]
  /\ daemon \in [model : Models \cup {NoModel}, seq : Nat, used : BOOLEAN]

\* A request is answered by the model it names, with the max_seq its budget needs.
\* The lock is dropped before the generate is sent and a generate names no model:
\* only the lease keeps the others' loads away.
ServedAsAsked ==
  \A t \in Generating : running[t].model = ModelOf[t] /\ running[t].seq >= Needs[t]

\* A sequential generation continues whatever state the daemon is in.  On a model
\* without a prompt cache, and on a retry after a torn first attempt, it starts
\* from a state nobody has used since the last reset or load.
CleanStart ==
  \A t \in Generating :
    ~ running[t].batched /\ (attempt[t] = 2 \/ running[t].model \notin CacheModels)
      => ~ running[t].used

\* Whenever nobody holds the runtime lock, what the runtime believes to be loaded,
\* and with which max_seq, is what the daemon holds: ensure_model decides by it
\* whether to load.  So it is as long as no load, warm-up or unload fails; a retry's
\* failed reset is the one place that forgets a model the daemon still has.
RuntimeMatchesDaemon ==
  lock = NoOwner /\ Range(faults) \cap {"load", "warm", "unload"} = {}
               => \/ rt.path = daemon.model /\ rt.max_seq = daemon.seq
                  \/ rt.path = NoModel /\ \E t \in Threads : attempt[t] = 2

\* Every request is answered or refused: nobody keeps the runtime lock for ever,
\* and no control call waits for a line that went to another.
EveryRequestEnds == \A t \in Threads : <>(pc[t] = "done")
=============================================================================
