----------------------------- MODULE DaemonLoop -----------------------------
(***************************************************************************)
(* The daemon process behind hipfire serve (hipfire-runtime/examples/      *)
(* daemon.rs) and the calls of its clients (hipfire-client): the stdin     *)
(* reader thread, the two terminal-control planes it writes (one cell for  *)
(* the sequential request, a registry keyed by (id, attempt_id) for the    *)
(* continuous batch), the main loop with its sequential generate, the      *)
(* batch driver with lanes, queue and cohort, and the two-phase end of a   *)
(* request: commit_ready, then the client's commit or abort, then done.    *)
(*                                                                         *)
(* A key is one request attempt; keys are never reused (the client takes a *)
(* fresh id and attempt_id for each).  A generation is a number of tokens. *)
(* Tokens are not events here: gen_start and commit_ready already give the *)
(* client every moment at which its callback may fail.                     *)
(***************************************************************************)
EXTENDS Integers, Sequences, FiniteSets, SequencesExt

CONSTANTS
  Keys, NoKey,
  Requests,     \* what a client may ask for under each key: a kind, the sampling
                \* parameters (cohort) and the tokens until the generation ends
  NoCohort,
  NLanes,       \* max_batch
  Gone,         \* keys whose client may fail to deliver an event
  Hasty,        \* keys whose client may abort before it heard anything
  Slow,         \* keys whose commit or abort may miss the 30 seconds
  Faults,       \* "gpu": the step or command fails, a reset after it is attested,
                \* "poison": it is not attested, "think": open think
  MaxFaults,    \* bound: how many of them happen
  MayDie        \* the daemon process may end at any point

Kinds == {"batch",  \* batch-eligible
          "long",   \* batch-eligible, the prompt does not fit a lane
          "think",  \* batch-eligible, the rendered prompt opens a think span
          "plain",  \* not eligible
          "quiet",  \* not eligible, on the bring-up route of generate
          "load", "reset", "unload"}  \* not a generate
Commands == {"load", "reset", "unload"}
Eligible == {"batch", "long", "think"}
LaneIds == 1 .. NLanes

ASSUME DaemonAssumption ==
  /\ IsFiniteSet(Keys) /\ NoKey \notin Keys
  /\ DOMAIN Requests = Keys
  /\ \A k \in Keys : \A r \in Requests[k] :
       r.kind \in Kinds /\ r.cohort # NoCohort /\ r.work \in Nat \ {0}
  /\ NLanes \in Nat \ {0}
  /\ Gone \cup Hasty \cup Slow \subseteq Keys
  /\ Faults \subseteq {"gpu", "poison", "think"} /\ MaxFaults \in Nat
  /\ MayDie \in BOOLEAN

VARIABLES
  req,       \* per key, the request its client made
  wire,      \* lines on the daemon's stdin
  half,      \* the abort or commit the reader applied to the first plane only
  chan,      \* DaemonInbox::rx, what the reader passed on
  backlog,   \* DaemonInbox::backlog, the message that waits as a barrier
  reg,       \* the keyed registry
  single,    \* the sequential terminal-control cell
  lanes, queue, cohort, gen,  \* ContinuousBatchScheduler
  model,     \* the model and batch_poisoned
  pc, cur,   \* where the main thread is; its sequential request
  doomed, agreed, ended,      \* lanes a loop of the driver has picked out
  said,      \* per key, the events written for it
  heard, cl, \* per key, how many of them its client took, and where that is
  early,     \* history: keys whose abort came before anything was said
  swept,     \* history: keys that lost their announcement while they waited
  faults,    \* history: the failures so far
  alive

inbox == << chan, backlog >>
control == << reg, single >>
sched == << lanes, queue, cohort, gen >>
picked == << doomed, agreed, ended >>
clients == << heard, cl >>
vars == << req, wire, half, inbox, control, sched, model, pc, cur, picked, said, clients, early,
           swept, faults, alive >>

-----------------------------------------------------------------------------
(* Terminal control *)

NoEntry == [state |-> "absent", owner |-> 0, abort |-> FALSE, commit |-> FALSE]
Announced == [NoEntry EXCEPT !.state = "announced"]

\* The singleton with nobody in it, and fresh for one request.
Vacant == [key |-> NoKey, ready |-> FALSE, decision |-> "none"]
activate_terminal_control(k) == [Vacant EXCEPT !.key = k]

\* The first decision stands; a commit counts only once the request is ready.
apply_terminal_control(kind, k) ==
  IF single.key = k /\ single.decision = "none" /\ (kind = "abort" \/ single.ready)
  THEN [single EXCEPT !.decision = kind] ELSE single

check_abort(k) == single.key = k /\ single.decision = "abort"

batch_announce_terminal(r, k) == IF r[k] = NoEntry THEN [r EXCEPT ![k] = Announced] ELSE r

batch_apply_terminal_control(kind, k) ==
  CASE kind = "abort" /\ reg[k] # NoEntry -> [reg EXCEPT ![k].abort = TRUE]
    [] kind = "commit" /\ ~ reg[k].abort /\ reg[k].state = "ready" ->
         [reg EXCEPT ![k].commit = TRUE]
    [] OTHER -> reg

batch_transition_to_queued(r, k) ==
  IF r[k].state = "announced" THEN [r EXCEPT ![k].state = "queued"] ELSE r

batch_bind_active(r, k, owner) ==
  IF r[k].state = "queued" THEN [r EXCEPT ![k].state = "active", ![k].owner = owner] ELSE r

batch_mark_ready(r, k, owner) ==
  IF r[k].state = "active" /\ r[k].owner = owner THEN [r EXCEPT ![k].state = "ready"] ELSE r

\* Mutant of batch_clear_terminal: the entries stay behind.
batch_keep_terminal(r, K) == r

batch_clear_terminal(r, K) == [k \in Keys |-> IF k \in K THEN NoEntry ELSE r[k]]

batch_check_abort(k) == reg[k].abort

\* Mutant of transfer_abort: the latched abort is lost on the way.
transfer_nothing(s, k) == s

\* batch_transfer_abort_to_singleton_and_clear, its effect on the singleton s.
transfer_abort(s, k) ==
  IF pc = "transfer" THEN [activate_terminal_control(k) EXCEPT !.decision = "abort"] ELSE s

-----------------------------------------------------------------------------
(* What the daemon writes *)

\* Appends evs to what has been said to every key of K.
Say(K, evs) == said' = [k \in Keys |-> IF k \in K THEN said[k] \o evs ELSE said[k]]

Terminals == {"done", "cancelled", "error", "ack"}

-----------------------------------------------------------------------------
(* The scheduler *)

Empty == [phase |-> "empty", key |-> NoKey, gen |-> 0, left |-> 0, late |-> FALSE]
In(phase) == {i \in LaneIds : lanes[i].phase = phase}
Occupied == In("running") \cup In("awaiting")
KeysOf(L) == {lanes[i].key : i \in L}

\* Mutant of maybe_clear_cohort: the cohort ends with any of its lanes.
clear_cohort(L) == NoCohort

\* The cohort left when the lanes L have been emptied.
maybe_clear_cohort(L) == IF Occupied \subseteq L THEN NoCohort ELSE cohort

\* Mutant of owned: compared with the scheduler's ticket, not the lane's.
owned_by_latest(i) ==
  reg[lanes[i].key].state \in {"active", "ready"} => reg[lanes[i].key].owner = gen

\* commit_lane and abort_lane: the lane is given up by whom the registry calls
\* its owner, or when the registry does not know the key.
owned(i) ==
  reg[lanes[i].key].state \in {"active", "ready"} => reg[lanes[i].key].owner = lanes[i].gen

\* The lanes L are freed and their keys forgotten.
Release(L) ==
  LET F == {i \in L : owned(i)} IN
  /\ lanes' = [i \in LaneIds |-> IF i \in F THEN Empty ELSE lanes[i]]
  /\ cohort' = maybe_clear_cohort(F)
  /\ reg' = batch_clear_terminal(reg, KeysOf(F))

\* batch_poll_decision = Commit, with the lane's deadline.
polls_commit(i) ==
  LET e == reg[lanes[i].key] IN
  ~ e.abort /\ ~ lanes[i].late /\ e.commit /\ e.state = "ready"

-----------------------------------------------------------------------------
NoRequest == [kind |-> "none", cohort |-> NoCohort, work |-> 0]

Line(kind, k) == [kind |-> kind, key |-> k]
NoLine == Line("none", NoKey)

Init ==
  /\ req = [k \in Keys |-> NoRequest]
  /\ wire = << >> /\ half = NoLine /\ chan = << >> /\ backlog = << >>
  /\ reg = [k \in Keys |-> NoEntry]
  /\ single = Vacant
  /\ lanes = [i \in LaneIds |-> Empty]
  /\ queue = << >> /\ cohort = NoCohort /\ gen = 1
  /\ model = "ready"
  /\ pc = "outer"
  /\ cur = [key |-> NoKey, left |-> 0]
  /\ doomed = {} /\ agreed = {} /\ ended = {}
  /\ said = [k \in Keys |-> << >>]
  /\ heard = [k \in Keys |-> 0] /\ cl = [k \in Keys |-> "new"]
  /\ early = {} /\ swept = {}
  /\ faults = << >>
  /\ alive = TRUE

Fails(what) == what \in Faults /\ Len(faults) < MaxFaults /\ faults' = Append(faults, what)

-----------------------------------------------------------------------------
(* Clients: Engine::generate, one call per key *)

Move(k, place) == cl' = [cl EXCEPT ![k] = place]

Submit(k) ==
  /\ cl[k] = "new"
  /\ IF alive
     THEN \E r \in Requests[k] :
            /\ req' = [req EXCEPT ![k] = r]
            /\ wire' = Append(wire, Line(IF r.kind \in Commands THEN "command" ELSE "generate", k))
            /\ Move(k, "waiting")
     ELSE Move(k, "closed") /\ UNCHANGED << req, wire >>
  /\ UNCHANGED << half, inbox, control, sched, model, pc, cur, picked, said, heard, early,
                  swept, faults, alive >>

\* abort_and_drain: from now on only the end of the request is of interest.
SendAbort(k) == wire' = Append(wire, Line("abort", k)) /\ Move(k, "aborting")

\* generate_with_rx, drain_committed_done and abort_and_drain take the next event.
Hear(k) ==
  /\ heard[k] < Len(said[k])
  /\ cl[k] \in {"waiting", "committed", "aborting"}
  /\ heard' = [heard EXCEPT ![k] = @ + 1]
  /\ LET ev == said[k][heard[k] + 1] IN
     \/ /\ cl[k] = "waiting" /\ ev = "start"
        /\ UNCHANGED << wire, cl >>
     \/ /\ cl[k] = "waiting" /\ ev = "ready"
        /\ wire' = Append(wire, Line("commit", k)) /\ Move(k, "committed")
     \/ /\ cl[k] = "waiting" /\ ev \in {"start", "ready"} /\ k \in Gone
        /\ SendAbort(k)
     \/ /\ cl[k] = "aborting" /\ ev \in {"start", "ready"}
        /\ UNCHANGED << wire, cl >>
     \/ /\ ev \in Terminals \/ cl[k] = "committed"
        /\ Move(k, IF ev = "done" /\ cl[k] = "committed" THEN "done" ELSE "failed")
        /\ UNCHANGED wire
  /\ UNCHANGED << req, half, inbox, control, sched, model, pc, cur, picked, said, early, swept,
                  faults, alive >>

\* A client of the protocol that aborts on its own account.
GiveUp(k) ==
  /\ k \in Hasty /\ cl[k] = "waiting" /\ heard[k] = 0
  /\ SendAbort(k)
  /\ UNCHANGED << req, half, inbox, control, sched, model, pc, cur, picked, said, heard, early,
                  swept, faults, alive >>

\* The reader of the client sees the daemon's end and drops the pending senders.
Closed(k) ==
  /\ ~ alive /\ heard[k] = Len(said[k])
  /\ cl[k] \in {"waiting", "committed", "aborting"}
  /\ Move(k, "closed")
  /\ UNCHANGED << req, wire, half, inbox, control, sched, model, pc, cur, picked, said, heard,
                  early, swept, faults, alive >>

Client(k) == Submit(k) \/ Hear(k) \/ Closed(k)

-----------------------------------------------------------------------------
(* The stdin reader thread *)

\* An abort is early when it comes while its request still waits, or once the
\* sequential route has taken it but said nothing yet.
Starting == {"check", "clear", "transfer"}

\* An abort or commit goes to the singleton first, under its own lock.
Read ==
  /\ alive /\ half = NoLine /\ wire # << >>
  /\ wire' = Tail(wire)
  /\ LET m == Head(wire) IN
     \/ /\ m.kind \in {"abort", "commit"}
        /\ single' = apply_terminal_control(m.kind, m.key)
        /\ half' = m
        /\ early' = IF m.kind = "abort" /\ pc \in Starting /\ cur.key = m.key
                    THEN early \cup {m.key} ELSE early
        /\ UNCHANGED << reg, chan >>
     \/ /\ m.kind = "generate"
        /\ reg' = batch_announce_terminal(reg, m.key)
        /\ chan' = IF reg[m.key] = NoEntry THEN Append(chan, m.key) ELSE chan
        /\ UNCHANGED << half, single, early >>
     \/ /\ m.kind = "command"
        /\ chan' = Append(chan, m.key)
        /\ UNCHANGED << half, control, early >>
  /\ UNCHANGED << req, backlog, sched, model, pc, cur, picked, said, clients, swept, faults,
                  alive >>

\* DaemonInbox::recv: the backlog first.
Waiting == backlog \o chan
TakeMsg == IF backlog # << >> THEN backlog' = << >> /\ UNCHANGED chan
           ELSE chan' = Tail(chan) /\ UNCHANGED backlog

\* Then it goes to the registry; the main thread may have run in between.
Latch ==
  /\ alive /\ half # NoLine
  /\ reg' = batch_apply_terminal_control(half.kind, half.key)
  /\ half' = NoLine
  /\ early' = IF half.kind = "abort" /\ half.key \in ToSet(Waiting)
              THEN early \cup {half.key} ELSE early
  /\ UNCHANGED << req, wire, inbox, single, sched, model, pc, cur, picked, said, clients, swept,
                  faults, alive >>

Reader == Read \/ Latch

-----------------------------------------------------------------------------
(* The main loop and its sequential generate *)

Goto(place) == pc' = place

\* The scheduler with nobody in it.
EmptyScheduler ==
  /\ lanes' = [i \in LaneIds |-> Empty]
  /\ queue' = << >> /\ cohort' = NoCohort

\* batch_clear_all_terminals: who still waits is no longer announced, and an abort
\* that was latched for it is gone.
ClearAll ==
  /\ reg' = batch_clear_terminal(reg, Keys)
  /\ swept' = swept \cup ToSet(Waiting)

\* A new scheduler counts its tickets from the start again.  A load that fails has
\* already unloaded the model before.
Load(k) ==
  /\ req[k].kind = "load"
  /\ \/ /\ EmptyScheduler /\ gen' = 1
        /\ model' = "ready"
        /\ Say({k}, << "ack" >>)
        /\ UNCHANGED faults
     \/ /\ Fails("gpu")
        /\ model' = "none"
        /\ Say({k}, << "error" >>)
        /\ UNCHANGED sched
  /\ UNCHANGED << control, pc, cur, swept >>

\* Only a reset that is attested clears anything; a poisoned batch stays poisoned.
\* No lane is active here (BarrierWaits), so that refusal is left out.
Reset(k) ==
  /\ req[k].kind = "reset"
  /\ \/ /\ model # "none"
        /\ EmptyScheduler
        /\ ClearAll
        /\ Say({k}, << "ack" >>)
        /\ UNCHANGED faults
     \/ /\ model = "none"
        /\ Say({k}, << "error" >>)
        /\ UNCHANGED << reg, lanes, queue, cohort, swept, faults >>
     \/ /\ model # "none" /\ Fails("gpu")
        /\ Say({k}, << "error" >>)
        /\ UNCHANGED << reg, lanes, queue, cohort, swept >>
  /\ UNCHANGED << single, gen, model, pc, cur >>

\* The model is gone and the registry cleared whatever unload_model returns.
Unload(k) ==
  /\ req[k].kind = "unload"
  /\ \/ Say({k}, << "ack" >>) /\ UNCHANGED faults
     \/ Say({k}, << "error" >>) /\ Fails("gpu")
  /\ model' = "none"
  /\ EmptyScheduler
  /\ ClearAll
  /\ UNCHANGED << single, gen, pc, cur >>

\* Without a model, or while the batch state is poisoned, every generate is
\* refused; the reader's announcement stays behind.
Refuse(k) ==
  /\ req[k].kind \notin Commands /\ model # "ready"
  /\ Say({k}, << "error" >>)
  /\ UNCHANGED << control, sched, model, pc, cur, swept, faults >>

\* A request that was aborted before the batch took it.
CancelEarly(k) ==
  /\ req[k].kind \in Eligible /\ model = "ready" /\ batch_check_abort(k)
  /\ Say({k}, << "start", "cancelled" >>)
  /\ reg' = batch_clear_terminal(reg, {k})
  /\ single' = Vacant
  /\ UNCHANGED << sched, model, pc, cur, swept, faults >>

\* The refusal is written without the attempt_id: the line reaches nobody.
RefuseLong(k) ==
  /\ req[k].kind = "long" /\ model = "ready" /\ ~ batch_check_abort(k)
  /\ reg' = batch_clear_terminal(reg, {k})
  /\ single' = Vacant
  /\ UNCHANGED << sched, model, pc, cur, said, swept, faults >>

StartBatch(k) ==
  /\ req[k].kind = "batch" /\ model = "ready" /\ ~ batch_check_abort(k)
  /\ reg' = batch_transition_to_queued(reg, k)
  /\ single' = activate_terminal_control(k)
  /\ queue' = Append(queue, k)
  /\ Say({k}, << "start" >>)
  /\ Goto("poll")
  /\ UNCHANGED << lanes, cohort, gen, model, cur, swept, faults >>

\* A sequential generate: the singleton is its own from here on.
StartSequential(k) ==
  /\ model = "ready"
  /\ \/ req[k].kind \in {"plain", "quiet"}
     \/ req[k].kind = "think" /\ ~ batch_check_abort(k)
  /\ single' = activate_terminal_control(k)
  /\ cur' = [key |-> k, left |-> req[k].work]
  /\ Goto("check")
  /\ UNCHANGED << reg, sched, model, said, swept, faults >>

Outer ==
  /\ pc = "outer" /\ Waiting # << >>
  /\ TakeMsg
  /\ LET k == Head(Waiting) IN
     \/ Load(k) \/ Reset(k) \/ Unload(k)
     \/ Refuse(k) \/ CancelEarly(k) \/ RefuseLong(k) \/ StartBatch(k) \/ StartSequential(k)
  /\ UNCHANGED << req, wire, half, picked, clients, early, alive >>

\* batch_transfer_abort_to_singleton_and_clear looks for a latched abort ...
CheckLatch ==
  /\ pc = "check"
  /\ Goto(IF batch_check_abort(cur.key) THEN "transfer" ELSE "clear")
  /\ UNCHANGED << req, wire, half, inbox, control, sched, model, cur, picked, said, clients, early,
                  swept, faults, alive >>

\* ... and under another lock takes the key out of the registry.  An abort that is
\* latched in between goes with it.
Transfer ==
  /\ pc \in {"clear", "transfer"}
  /\ reg' = batch_clear_terminal(reg, {cur.key})
  /\ single' = transfer_abort(single, cur.key)
  /\ Say({cur.key}, << "start" >>)
  /\ Goto("seq")
  /\ UNCHANGED << req, wire, half, inbox, sched, model, cur, picked, clients, early, swept, faults,
                  alive >>

\* The generate arm is left: TerminalControlGuard clears the singleton.
LeaveSequential ==
  /\ Goto("outer")
  /\ single' = Vacant
  /\ cur' = [key |-> NoKey, left |-> 0]

SeqStep ==
  /\ pc = "seq"
  /\ \/ /\ check_abort(cur.key)
        /\ Say({cur.key}, << "cancelled" >>)
        /\ LeaveSequential
        /\ UNCHANGED faults
     \/ /\ ~ check_abort(cur.key) /\ Fails("gpu")
        /\ Say({cur.key}, << "error" >>)
        /\ LeaveSequential
     \/ /\ ~ check_abort(cur.key) /\ cur.left > 0
        /\ cur' = [cur EXCEPT !.left = @ - 1]
        /\ UNCHANGED << pc, single, said, faults >>
     \/ /\ cur.left = 0
        /\ single' = [single EXCEPT !.ready = TRUE]
        /\ Say({cur.key}, << "ready" >>)
        /\ Goto("seq_wait")
        /\ UNCHANGED << cur, faults >>
  /\ UNCHANGED << req, wire, half, inbox, reg, sched, model, picked, clients, early, swept, alive >>

\* Mutant of on_abort: the staged done goes out whatever the decision.
on_abort_done(k) == << "done" >>

\* Mutant of on_abort: no route says anything.
on_abort_silent(k) == << >>

\* What follows an abort or a time-out at the handshake; the bring-up route
\* writes nothing.
on_abort(k) == IF req[k].kind = "quiet" THEN << >> ELSE << "cancelled" >>

\* wait_terminal_control_decision
SeqDecide ==
  /\ pc = "seq_wait"
  /\ \/ single.decision = "commit" /\ Say({cur.key}, << "done" >>)
     \/ single.decision = "abort" /\ Say({cur.key}, on_abort(cur.key))
     \/ single.decision = "none" /\ cur.key \in Slow /\ Say({cur.key}, on_abort(cur.key))
  /\ LeaveSequential
  /\ UNCHANGED << req, wire, half, inbox, reg, sched, model, picked, clients, early, swept,
                  faults, alive >>

-----------------------------------------------------------------------------
(* drive_qwen_continuous_batch, phase by phase *)

\* The driver returns; the generate arm that called it is left.
LeaveDriver == Goto("outer") /\ single' = Vacant

\* fail_all: lanes and queue are answered with an error and emptied.  If the reset
\* cannot be attested the batch is poisoned and the whole registry cleared.
FailAll ==
  /\ Say(KeysOf(Occupied) \cup ToSet(queue), << "error" >>)
  /\ EmptyScheduler
  /\ doomed' = {} /\ agreed' = {} /\ ended' = {}
  /\ LeaveDriver
  /\ \/ /\ Fails("gpu")
        /\ reg' = batch_clear_terminal(reg, KeysOf(Occupied) \cup ToSet(queue))
        /\ UNCHANGED << model, swept >>
     \/ /\ Fails("poison")
        /\ ClearAll
        /\ model' = "poisoned"
  /\ UNCHANGED gen

\* Lanes that wait for their client: aborted or late ones first, then committed ones.
Poll ==
  /\ pc = "poll"
  /\ doomed' = {i \in In("awaiting") : batch_check_abort(lanes[i].key) \/ lanes[i].late}
  /\ agreed' = {i \in In("awaiting") : polls_commit(i)}
  /\ Goto("settle")
  /\ UNCHANGED << req, wire, half, inbox, control, sched, model, cur, ended, said, clients, early,
                  swept, faults, alive >>

Lowest(L) == CHOOSE i \in L : \A j \in L : i <= j

\* A lane picked for cancellation is reset and freed.
CancelLane ==
  /\ doomed # {}
  /\ LET i == Lowest(doomed) IN
     /\ Say({lanes[i].key}, << "cancelled" >>)
     /\ Release({i})
     /\ doomed' = doomed \ {i}
  /\ UNCHANGED << queue, gen, model, single, pc, agreed, ended, swept, faults >>

\* commit_lane polls the decision again before it frees the lane.
commit_lane_ok(i) == polls_commit(i) /\ owned(i)

CommitLane ==
  /\ doomed = {} /\ agreed # {}
  /\ LET i == Lowest(agreed) IN
     /\ Say({lanes[i].key}, IF commit_lane_ok(i) THEN << "done" >> ELSE << "error" >>)
     /\ Release({i})
     /\ agreed' = agreed \ {i}
  /\ UNCHANGED << queue, gen, model, single, pc, doomed, ended, swept, faults >>

\* VecDeque::retain: the queue s without the keys Q, in its order.
Retained(s, Q) ==
  LET P == {n \in DOMAIN s : s[n] \notin Q}
      Rank(n) == Cardinality({m \in P : m <= n}) IN
  [i \in 1 .. Cardinality(P) |-> s[CHOOSE n \in P : Rank(n) = i]]

\* Requests that were aborted in the queue are answered, running ones picked.
Sweep ==
  /\ doomed = {} /\ agreed = {}
  /\ LET Q == {k \in ToSet(queue) : batch_check_abort(k)} IN
     /\ Say(Q, << "cancelled" >>)
     /\ queue' = Retained(queue, Q)
     /\ reg' = batch_clear_terminal(reg, Q)
  /\ doomed' = {i \in In("running") : batch_check_abort(lanes[i].key)}
  /\ Goto("cull")
  /\ UNCHANGED << lanes, cohort, gen, model, single, agreed, ended, swept, faults >>

\* A failing reset_lane fails everything.
Settle ==
  /\ pc = "settle"
  /\ \/ CancelLane \/ CommitLane \/ Sweep
     \/ doomed \cup agreed # {} /\ FailAll
  /\ UNCHANGED << req, wire, half, inbox, cur, clients, early, alive >>

Cull ==
  /\ pc = "cull"
  /\ \/ CancelLane
     \/ doomed # {} /\ FailAll
     \/ /\ doomed = {} /\ Goto("drain")
        /\ UNCHANGED << control, sched, model, picked, said, swept, faults >>
  /\ UNCHANGED << req, wire, half, inbox, cur, clients, early, alive >>

\* The next message while lanes run.  Only a generate that may join the batch is
\* taken; anything else goes back to the front as a barrier.
TakeCancelled(k) ==
  /\ req[k].kind \notin Commands /\ batch_check_abort(k)
  /\ TakeMsg
  /\ Say({k}, << "start", "cancelled" >>)
  /\ reg' = batch_clear_terminal(reg, {k})
  /\ UNCHANGED << single, queue, pc, swept >>

TakeLong(k) ==
  /\ req[k].kind = "long" /\ ~ batch_check_abort(k)
  /\ TakeMsg
  /\ reg' = batch_clear_terminal(reg, {k})
  /\ UNCHANGED << single, queue, said, pc, swept >>

TakeBatch(k) ==
  /\ req[k].kind = "batch" /\ ~ batch_check_abort(k)
  /\ TakeMsg
  /\ reg' = batch_transition_to_queued(batch_announce_terminal(reg, k), k)
  /\ queue' = Append(queue, k)
  /\ Say({k}, << "start" >>)
  /\ UNCHANGED << single, pc, swept >>

\* Mutant of barrier_leaves: the driver returns once no lane runs.
barrier_leaves_queue == Occupied = {}

\* active_count() == 0 and nothing is queued.
barrier_leaves == Occupied = {} /\ queue = << >>

\* A generate that is a barrier stays announced; one that opens a think span leaves
\* the registry, and again in every loop of the driver until it is taken.
barrier_registry(k) ==
  CASE req[k].kind \in Commands -> reg
    [] req[k].kind = "think" -> batch_clear_terminal(reg, {k})
    [] OTHER -> batch_announce_terminal(reg, k)

\* push_front, and out of the driver when it has nothing left to do.
Barrier(k) ==
  /\ \/ req[k].kind \in Commands
     \/ req[k].kind \in {"plain", "quiet", "think"} /\ ~ batch_check_abort(k)
  /\ reg' = barrier_registry(k)
  /\ backlog' = << k >>
  /\ chan' = IF backlog # << >> THEN chan ELSE Tail(chan)
  /\ IF barrier_leaves THEN LeaveDriver ELSE Goto("assign") /\ UNCHANGED single
  /\ swept' = IF req[k].kind = "think" THEN swept \cup {k} ELSE swept
  /\ UNCHANGED << queue, said >>

Drain ==
  /\ pc = "drain"
  /\ IF Waiting = << >>
     THEN Goto("assign") /\ UNCHANGED << inbox, control, queue, said, swept >>
     ELSE LET k == Head(Waiting) IN
          TakeCancelled(k) \/ TakeLong(k) \/ TakeBatch(k) \/ Barrier(k)
  /\ UNCHANGED << req, wire, half, lanes, cohort, gen, model, cur, picked, clients, early, faults,
                  alive >>

may_join(k) == cohort \in {NoCohort, req[k].cohort}

\* Mutant of next_generation: the ticket is not advanced.
next_generation_same == gen

next_generation == gen + 1

\* try_assign_one, then reset, prefill and first sample of the lane.
Assign ==
  /\ In("empty") # {} /\ queue # << >> /\ may_join(Head(queue))
  /\ LET i == Lowest(In("empty"))
         k == Head(queue) IN
     /\ lanes' = [lanes EXCEPT ![i] = [phase |-> "running", key |-> k, gen |-> gen,
                                       left |-> req[k].work, late |-> FALSE]]
     /\ cohort' = IF cohort = NoCohort THEN req[k].cohort ELSE cohort
     /\ reg' = batch_bind_active(batch_transition_to_queued(reg, k), k, gen)
  /\ queue' = Tail(queue)
  /\ gen' = next_generation
  /\ UNCHANGED << single, said, pc, picked, model, swept, faults >>

\* The driver ends when nothing is left, sleeps when no lane runs, or steps.
Assigned ==
  /\ ~ (In("empty") # {} /\ queue # << >> /\ may_join(Head(queue)))
  /\ IF Occupied = {} /\ queue = << >> /\ backlog = << >>
     THEN LeaveDriver
     ELSE Goto(IF In("running") = {} THEN "poll" ELSE "step") /\ UNCHANGED single
  /\ UNCHANGED << reg, sched, said, picked, model, swept, faults >>

FillLanes ==
  /\ pc = "assign"
  /\ \/ Assign \/ Assigned
     \/ In("empty") # {} /\ queue # << >> /\ may_join(Head(queue)) /\ FailAll
  /\ UNCHANGED << req, wire, half, inbox, cur, clients, early, alive >>

\* One forward for all running lanes.  A lane whose request was aborted is picked
\* for cancellation, one whose generation is over for the handshake; a lane that
\* ends inside a think span is answered alone.
Forward ==
  /\ doomed' = {i \in In("running") : batch_check_abort(lanes[i].key)}
  /\ ended' = {i \in In("running") : ~ batch_check_abort(lanes[i].key) /\ lanes[i].left = 1}
  /\ lanes' = [i \in LaneIds |-> IF i \in In("running") /\ ~ batch_check_abort(lanes[i].key)
                                 THEN [lanes[i] EXCEPT !.left = @ - 1] ELSE lanes[i]]
  /\ Goto("emit")
  /\ UNCHANGED << control, queue, cohort, gen, model, agreed, said, swept, faults >>

OpenThink ==
  /\ Fails("think")
  /\ \E i \in In("running") :
       /\ ~ batch_check_abort(lanes[i].key) /\ lanes[i].left = 1
       /\ Say({lanes[i].key}, << "error" >>)
       /\ Release({i})
  /\ UNCHANGED << single, queue, gen, model, pc, picked, swept >>

DecodeStep ==
  /\ pc = "step"
  /\ Forward \/ OpenThink \/ FailAll
  /\ UNCHANGED << req, wire, half, inbox, cur, clients, early, alive >>

\* The lane is AwaitingClient and the entry Ready before commit_ready is written.
Publish ==
  /\ doomed = {}
  /\ lanes' = [i \in LaneIds |-> IF i \in ended THEN [lanes[i] EXCEPT !.phase = "awaiting"]
                                 ELSE lanes[i]]
  /\ reg' = [k \in Keys |->
               IF k \in KeysOf(ended)
               THEN LET i == CHOOSE j \in ended : lanes[j].key = k IN
                    batch_mark_ready(reg, k, lanes[i].gen)[k]
               ELSE reg[k]]
  /\ Say(KeysOf(ended), << "ready" >>)
  /\ ended' = {}
  /\ Goto(IF In("running") = ended THEN "poll" ELSE "sample")
  /\ UNCHANGED << single, queue, cohort, gen, model, doomed, agreed, swept, faults >>

\* A failing reset_lane, or a failing sample_product for the lanes that go on.
Emit ==
  /\ \/ pc = "emit" /\ (CancelLane \/ Publish \/ (doomed # {} /\ FailAll))
     \/ /\ pc = "sample" /\ Goto("poll")
        /\ UNCHANGED << control, sched, model, picked, said, swept, faults >>
     \/ pc = "sample" /\ FailAll
  /\ UNCHANGED << req, wire, half, inbox, cur, clients, early, alive >>

Main ==
  /\ alive
  /\ \/ Outer \/ CheckLatch \/ Transfer \/ SeqStep \/ SeqDecide
     \/ Poll \/ Settle \/ Cull \/ Drain \/ FillLanes \/ DecodeStep \/ Emit

\* The 30 seconds of a lane that waits for its client are over.
Late(i) ==
  /\ lanes[i].phase = "awaiting" /\ ~ lanes[i].late /\ lanes[i].key \in Slow
  /\ lanes' = [lanes EXCEPT ![i].late = TRUE]
  /\ UNCHANGED << req, wire, half, inbox, control, queue, cohort, gen, model, pc, cur, picked, said,
                  clients, early, swept, faults, alive >>

Die ==
  /\ MayDie /\ alive
  /\ alive' = FALSE
  /\ UNCHANGED << req, wire, half, inbox, control, sched, model, pc, cur, picked, said, clients,
                  early, swept, faults >>

Next ==
  \/ \E k \in Keys : Client(k) \/ GiveUp(k)
  \/ Reader
  \/ Main
  \/ \E i \in LaneIds : Late(i)
  \/ Die

Spec == Init /\ [][Next]_vars

\* Threads are scheduled, the GPU returns and time passes.  No failure and no abort
\* is relied on.
FairSpec ==
  /\ Spec
  /\ \A k \in Keys : WF_vars(Client(k))
  /\ WF_vars(Reader) /\ WF_vars(Main)
  /\ \A i \in LaneIds : WF_vars(Late(i))

-----------------------------------------------------------------------------
(* Properties *)

\* Type invariant.
TypeOK ==
  /\ \A k \in Keys : req[k] \in Requests[k] \cup {NoRequest}
  /\ half \in {NoLine} \cup {Line(what, k) : what \in {"abort", "commit"}, k \in Keys}
  /\ ToSet(Waiting) \cup ToSet(queue) \subseteq Keys
  /\ reg \in [Keys -> [state : {"absent", "announced", "queued", "active", "ready"},
                       owner : 0 .. gen, abort : BOOLEAN, commit : BOOLEAN]]
  /\ single \in [key : Keys \cup {NoKey}, ready : BOOLEAN,
                 decision : {"none", "abort", "commit"}]
  /\ \A i \in LaneIds : lanes[i].phase # "empty" => lanes[i].key \in Keys /\ lanes[i].gen < gen
  /\ doomed \cup agreed \cup ended \subseteq Occupied

\* What a client is told is a transcript of the protocol: at most one gen_start,
\* one commit_ready after it, one terminal, and nothing after that, whichever of
\* the sequential route, the lanes, the queue and the failure paths spoke.
Transcript ==
  \A k \in Keys :
    LET s == said[k]
        At(ev) == {n \in DOMAIN s : s[n] \in ev} IN
    /\ \A n \in At({"start"}) : n = 1
    /\ \A n \in At({"ready"}) : n = 2 /\ s[1] = "start"
    /\ \A n \in At(Terminals) : n = Len(s)
    /\ \A n \in At({"done"}) : n = 3 /\ s[2] = "ready"

\* The two-phase end: `done` is written only for a request whose client was able to
\* deliver everything and said so, never for one that aborted.
DoneMeansCommitted ==
  \A k \in Keys : "done" \in ToSet(said[k]) => cl[k] \in {"committed", "done", "closed"}

\* A lane and its registry entry belong together by ticket, whatever the order in
\* which controls, cancellations and failures met them; nobody is in two places.
\* (A lane without an entry is one whose key was read before a failure cleared the
\* registry: it can only end by its deadline.)
LanesOwnTheirKeys ==
  /\ \A i \in Occupied :
       /\ reg[lanes[i].key] = NoEntry
          \/ /\ reg[lanes[i].key].owner = lanes[i].gen
             /\ reg[lanes[i].key].state = IF lanes[i].phase = "running" THEN "active" ELSE "ready"
       /\ lanes[i].key \notin ToSet(queue)
       /\ \A j \in Occupied \ {i} : lanes[j].key # lanes[i].key
  /\ \A k \in Keys : reg[k].state \in {"active", "ready"} => k \in KeysOf(Occupied)
  /\ \A k \in Keys : reg[k].state = "queued" => k \in ToSet(queue)

\* sample_product samples every lane with the parameters of the first: all running
\* lanes share one cohort.
OneCohort == \A i, j \in In("running") : req[lanes[i].key].cohort = req[lanes[j].key].cohort

\* A command, or a sequential generate, runs only when no lane or queued request is
\* left that works on the state it is about to change.
BarrierWaits == pc \in {"outer", "seq", "seq_wait"} \cup Starting => Occupied = {} /\ queue = << >>

\* "Closes generate-then-immediate-abort races for requests that arrive while GPU
\* work is active" (daemon.rs:260): an abort that was latched in the registry while
\* its request waited, or that came between activate_terminal_control and gen_start,
\* is never lost on the way from one plane to the other: the request does not run to
\* its end.  What the code does not close is left out: an abort read before main
\* takes the request and latched after (the two locks at daemon.rs:13145), and the
\* requests whose announcement went while they waited, with poison (15368), reset
\* (15522), unload (15607) or a think barrier (2038).
EarlyAbortStops == \A k \in early \ swept : "ready" \notin ToSet(said[k])

\* Every call of the client returns, however commits, aborts, deadlines, GPU
\* failures and the daemon's end meet.
EveryCallReturns == \A k \in Keys : <>(cl[k] \in {"done", "failed", "closed"})
=============================================================================
