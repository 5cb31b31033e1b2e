# hipfire serving layer: TLA+ models, checks and proofs

hipfire runs language models on AMD GPUs and serves them over HTTP. This
directory models the part of it in which several things happen at once: the
engine thread that generates for many conversations in a fixed number of GPU
slots, the store idle conversations are parked in, the gate that decides which
HTTP requests may use the backend together, the server around its one daemon
process, that process itself with its batch driver, and the way a reply takes back
to its HTTP peer. The numerical code (kernels, quantisation, forward passes) is data
to these models.

All source paths below are relative to `src/crates/` unless they start with
`src/`.

## 1. The system

### 1.1 How a request travels

```
HTTP thread ── Admission gate ──┬── daemon process (one stream, or a batch)
  handle_http   acquire_for     │     JSON over pipes, retried once on failure
                AdmissionGuard  │
                                └── SlotEngine::submit ─► channel ─► run_loop
                                      receive loop     ◄── events ◄──┘
                                                                 │
                 SessionTable, prefix planner, AdmissionController, Scheduler
                 SlotPool + KV arenas + recurrent states (GPU)
                 SwapManager / SwapStore (host memory, scratch directory)
```

Every HTTP request runs on a thread of its own. The gate is a mutex and a
condition variable shared by these threads. The engine is one thread; its
clients talk to it through an unbounded channel and read events from a channel
of their own. The runtime lock, the metadata lock, the pre-warm thread and the
idle-unload thread sit beside the gate; the two threads hold no guard of it.

The daemon is a child process. Its stdin reader thread passes `generate`, `load`
and the other commands on to the main thread and applies `commit` and `abort`
itself, at once, to two control planes: a cell for the sequential request and a
registry keyed by `(id, attempt_id)` for the batch. A request ends in two phases:
the daemon writes `commit_ready`, the client commits (it delivered everything) or
aborts, and only then the daemon writes `done` or `aborted`.

A reply is made by two threads of the server. A worker runs `complete_request` and
puts body chunks into a channel; the handler thread takes them out and writes them.
The last chunk carries an acknowledgement, and the worker commits only when the
handler gave it.

### 1.2 Inventory

| Part | State it keeps | Operations | What makes it correct |
|---|---|---|---|
| Slot engine, `hipfire-arch-qwen35/src/serve_engine.rs` | in-flight request per slot, pending work per slot, logits rows | `submit`, `admit`, `evict`, `restore`, one step of `run_loop`, exit | a reply is generated from the tokens of its own conversation; every request is answered once |
| Client of the engine, `complete_request_slots` in `hipfire-cli/src/main.rs` | receive loop | submit, return, vanish | an unfinished reply is not reported as finished |
| Session table and planner, `hipfire-runtime/src/session_table.rs`, `prefix.rs` | sessions: slot, residency, tokens, turns, LRU stamp | `open`, `close`, `begin_turn`, `find_continuation`, `touch`, `lru_idle_victim`, `mark_*` | a slot has one owner; residency says where the context is |
| GPU budget, `hipfire-runtime/src/admission.rs` | sessions charged | `admit`, `release` | charged once for each open session |
| Slot pool and arenas, `rdna-compute/src/slot_pool.rs`, `src/kernels/src/kv_cache_write_q8_0_batched.hip` | slot in use, length, KV cells | `acquire`, `release`, `set_seq_len`, KV writes | a slot's cells are those of its owner |
| Scheduler, `hipfire-arch-qwen35/src/scheduler.rs`, `slot_batch.rs` | – | `next_batch` | each token fed once, at its position |
| Batched forward, `hipfire-arch-qwen35/src/forward_slots.rs` | KV, recurrent state, lengths, logits | `forward_batch_slots` | KV and recurrent state advance together |
| Slot snapshots, `hipfire-runtime/src/swap/snapshot.rs` | – | `capture_slot`, `restore_slot`, `validate` | a restored slot is the captured one |
| Swap store, `hipfire-runtime/src/swap/store.rs`, `mod.rs` | two-tier map, bytes in use, scratch directory | `new`, `put`, `take`, `drop_key`, drop | `take` returns what was put, once, or fails |
| HTTP gate, `Admission` in `hipfire-cli/src/main.rs` | counters, model lease, queue length | `acquire_for`, time-out, drop of the guard | exclusive means alone; nobody sleeps with no one to wake him |
| Serve runtime, `ServeRuntime`, `ensure_model`, idle unload, prewarm in `hipfire-cli/src/main.rs` | loaded model, its `max_seq` and capabilities, last activity | load, warm-up, reset, reload for a larger budget, idle unload | a request runs on the model and budget it asked for; runtime and daemon agree |
| Retry driver and stream contract, `complete_request` | attempt, contract, latches | `complete_request_attempt`, `decide_retry`, `StreamContractGate::observe` | one retry, from a clean state; nothing is said twice |
| Response delivery, `respond_streaming`, `respond_nonstreaming`, `ChannelReader` | chunk channel, status, acknowledgement | forward, deliver the terminal, finish; write, read, drop | one reply per request; a turn is committed only if its reply was handed over |
| Daemon client, `hipfire-client/src/lib.rs` | pending calls by key, one control channel | `generate`, `abort_and_drain`, `drain_committed_done`, `load`, `reset`, `unload` | every call returns, also when the daemon dies |
| Daemon, `hipfire-runtime/examples/daemon.rs` | two control planes, inbox with a barrier, lanes, queue, cohort, poison flag | stdin reader, main loop with `load`, `reset` and `unload`, sequential generate, `drive_qwen_continuous_batch`, `fail_all` | one transcript per request; `done` only after commit; a lane and its entry belong together |
| Downloads, update guard | files being replaced | pull, verify, roll back | a failed update leaves the old files |

The remaining parts (formats, tokenizer, tool calls, configuration, speculative
decoding, KV compression, multi-GPU, kernels, quantizer, terminal UI) are listed
with their reasons in `PROJECT.json`.

### 1.3 What is hard here

* A slot changes hands between conversations while its KV cells, recurrent
  state, length, pending work and session tokens live in five different places,
  and any device copy or file operation on the way can fail.
* One batch mixes the prompt rows of one session with single decode rows of
  another; logits rows, positions and lengths are indexed by slot in some places
  and by batch position in others.
* Clients disappear at any time. The engine notices only when it sends.
* The GPU budget and the slot pool fill up independently.
* Files of the swap store outlive a crash, session numbers do not.
* Waiters of two classes and several models share one condition variable.
* A failed attempt comes back through the gate in another class.
* The class of a request, the loaded model and the need for a reset are read under
  locks that are dropped before the request is sent; a `generate` names no model.
* The idle-unload thread looks at three pieces of state, one after the other, and
  unloads.
* Commit, abort, deadline and GPU failure reach a request from different threads
  while it moves from announcement to queue to lane to handshake, or to the
  sequential route.
* The terminal is handed over before the daemon commits, by another thread, to a peer
  that may leave at any moment; a failure can still arrive after it.
* A decode graph replays what the host decided when it was captured.

`PROJECT.json` lists each of these hazards at its line with the properties
aimed at it.

## 2. Modules

| Module | Models | Uses |
|---|---|---|
| `SlotRig` | pool, arenas, session table, planner, budget, snapshots: the `Rig` as one record, its operations as operators from rig to rig | – |
| `SlotEngine` | engine thread, channel, clients | extends `SlotRig` |
| `BackendLease` | abstract: who may hold the backend together | – |
| `HttpAdmission` | the gate, request threads, the retry's second pass | instantiates `BackendLease` |
| `HttpAdmissionProofs` | theorems about the gate | extends `HttpAdmission` |
| `SnapshotStore` | abstract: a map from which each snapshot is taken at most once | – |
| `SwapStore` | both tiers, scratch directory, restarts, a second process | instantiates `SnapshotStore` |
| `SwapStoreProofs` | theorems about the store | extends `SwapStore` |
| `ServeRuntime` | runtime lock, `ensure_model`, attempts and retry, pre-warm and idle-unload threads, the daemon's loop as they see it | instantiates `BackendLease` in place of the gate |
| `DaemonLoop` | daemon: reader, control planes, main loop, batch driver; clients of the protocol | – |
| `HttpReply` | one request's worker and handler threads, chunk and status channels, latches and retry, peer, the daemon's side of an attempt | – |
| `QueueFacts` | lemmas about sequences used as queues (distinct elements, head, tail, append) | – |
| `SlotEngineProofs` | theorems about who owns slots, budget and answers | extends `SlotEngine`, `QueueFacts` |
| `SlotContextProofs` | theorems about what slots, snapshots and logits hold | extends `SlotEngineProofs` |
| `DaemonLoopProofs` | theorems about registry, lanes, transcripts and early aborts | extends `DaemonLoop`, `QueueFacts` |
| `ServeRuntimeProofs` | theorems about lock, leases, control lines, runtime against daemon, and what a generation starts from | extends `ServeRuntime`, `QueueFacts` |
| `HttpReplyProofs` | theorems about replies and commits | extends `HttpReply`, `QueueFacts` |
| `MCSlotEngine`, `MCHttpAdmission`, `MCSwapStore`, `MCServeRuntime`, `MCDaemonLoop`, `MCHttpReply` | small instances | extend the above |

Definitions carry the names of the functions they model; `PROJECT.json` maps
each to its lines. A definition commented "Mutant of X" is a plausible mistake
in X that no specification uses: replacing X by it must break the property it is
listed with, which shows that the property depends on that code.

### 2.1 SlotRig and SlotEngine

A token is a model value. A KV cell holds the token it was computed for, and
the recurrent state of a slot is the sequence of tokens fed into it, so that
"the cache belongs to these tokens" can be said. The arena is one flat array:
slot `s` owns cells `s * SlabCap ..`, and a write past the slab's end lands in
the next slot, as in the kernel, which checks no bound.

Actions and code:

* `admit` – the whole of `admit` for one request: find a session to continue,
  make room and restore it if it is swapped out, otherwise open a fresh session,
  evicting the least recently used idle one and trying once more. Its parameter
  says which of the four fallible operations fail and how.
* `Step` – schedule, forward, sample, post, finish or go on (the body of the
  loop when all operations succeed).
* `ForwardOverflows`, `ForwardFails`, `SampleFails`, `Panic` – the other ways a
  step ends: a length refused after the kernels ran; a failed launch; a failed
  synchronise, sample or read-back; an assertion.
* `Submit`, `Vanish`, `Return`, `DropEngine`, `Exit` – the ends of the channels.

With `DecodeGraph` a step of one row for every slot goes through
`forward_batch_slots_graphed`: `graph` is its cache, `Replays` says that the key
(rows and context bucket) matches, and `Baked`, `RowOf` and `Scanned` are what a
replay takes from the captured step instead of from this one: the slots whose
recurrent state and logits row each batch row works on, and how far attention looks.
A step that captures runs once (the warm-up) and its lengths are advanced once.

A handler of the engine reads nothing other threads write except whether a
receiver still exists, so one handler is one action. The clients are any users
of `SlotEngine::submit`, more than the HTTP gate currently lets through
together.

Left out because nothing depends on it: `PendingWork::decoding` (never set),
`Session::next_pos` (never read), `admit_host` / `release_host` (no caller),
statistics, traces, `granted_ctx` (always `cap_tokens`).

Properties: `SlotOwnership`, `ContextFaithful`, `SnapshotFaithful`,
`BudgetMatchesSessions` (invariants); `EmitsFromOwnContext`, `AnswersOnce`
(what a step may do); `EveryRequestAnswered`, `DropTerminates` (liveness).
`ContextFaithful` is the central one: whatever was evicted, restored, reset or
failed before, a resident slot holds KV and recurrent state of the same prefix
of its owner's tokens, and the pending work is exactly the rest.

### 2.2 HttpAdmission and BackendLease

Every critical section of the gate's mutex is one action. A sleeping thread
becomes awake by `notify_all` or spuriously, and must win the mutex again before
it looks. `is_batch_eligible_request` yields the class a request enters with;
the runtime flag it reads under another lock may have any value of
`BatchCapable`. `DropGuard` ends an attempt; `Retry` is the second, exclusive
attempt of `complete_request`. Time-outs may happen at any moment.

`BackendLease` is what the gate promises: a lease is granted to a free thread if
the holders afterwards are compatible, given back, and never changed otherwise.

### 2.3 SwapStore and SnapshotStore

A file is a snapshot, torn, or absent. A put is distinguishable from every other
put (`Snaps` carries its number and its process), so returning an older snapshot
of the same key is visible. `Stop` is either a drop of the store, which clears
the directory, or a crash or `process::exit`, which does not; in between the
removal stops half way. `new` clears what it finds, or fails half way. `Damage` tears or removes a file from outside.
The checksum is modelled by its effect: a torn file is refused.

`SnapshotStore` promises that `take` returns the snapshot this process last put
under the key, once, or fails.

### 2.4 ServeRuntime

Takes the gate as `BackendLease`, which `HttpAdmission` is shown (and proved) to
implement, and models what happens with and without a lease. One action per
stretch between two blocking points: `Classify` (the capability read under the
runtime lock and used later), `Enter` (the lock is taken), `EnsureModel`,
`LoadReply`, `SendWarm`, `WarmReply`, `Reset`, `ResetReply`, `Budget`, `Unlock`,
`Send`, `Return`, `DecideRetry`; `PrewarmAnnounce` to `finish_prewarm`;
`IdleLook` (`inflight() == 0`), `IdleExpired` (metadata), `IdleEvict` (runtime
lock), `IdleReply`, `IdleClear` (metadata again, after the lock is dropped). The
daemon is a queue of lines handled in order, none of `load`, `reset`, `unload`
or a sequential `generate` before the running generations are over; that it
keeps this order is `BarrierWaits` of `DaemonLoop`. Replies to control calls
carry no id: a waiting actor takes the next control line, whatever it is.

`ServedAsAsked` and `CleanStart` look at what the daemon really starts a
generation from, and so relate it to decisions made several steps and two locks
earlier. `RuntimeMatchesDaemon` is what those decisions rely on.

### 2.5 DaemonLoop

The registry operations keep their names; each holds the registry's mutex, so
each is one operator. The singleton has a mutex of its own, and nothing holds both:

* the stdin reader applies an abort or a commit to the singleton (`Read`) and then to
  the registry (`Latch`); `half` is the line in between;
* the sequential route activates the singleton (`StartSequential`), looks for a latched
  abort (`CheckLatch`), and clears the entry and carries the abort over (`Transfer`).

Any step of one may fall between two steps of the other. What is merged beyond that
hides nothing. The activation with the eligibility test before it is sequential
(`StartSequential`), and the clear with the second activation (`Transfer`), touch
different planes, of which the reader changes one per step: its steps in between have
the effect of steps just before or just after. An abort latched between the test and
the clear of a think barrier in `Drain` is lost like one that comes just after the clear.

The batch driver is split where the reader thread can come
in between and be noticed: `Poll` picks the lanes to abort and to commit,
`Settle` and `Cull` treat them one by one (`commit_lane` polls again), `Drain`
takes messages until the first barrier, `FillLanes` assigns, `DecodeStep` runs
one forward, `Emit` publishes `commit_ready` for the lanes that ended. `FailAll`
can follow every GPU call and answers all lanes and the queue; an unattested reset
also poisons the batch.

`Load`, `Reset` and `Unload` are the other commands of the main loop. `model` is
`ready`, `poisoned` or `none`: a `load` makes it ready, a failed `load` and every
`unload` leave none, a `reset` keeps it. `ClearAll` is `batch_clear_all_terminals`,
called by poisoning, by `unload` and by a `reset` that succeeds. `Hear` is one event at
the client, with its callback failing (`Gone`) or not.

Three history variables serve the properties: `early` (requests whose abort was latched
while they waited in the inbox, or applied between `activate_terminal_control` and
`gen_start`), `swept` (requests that lost their announcement while they waited) and
`faults`.

A generation is a number of tokens, a prompt a kind: batchable, too long for a
lane, opening a think span, not eligible, or on the bring-up route.

### 2.6 HttpReply

One request, streaming or plain. The worker's actions are the stretches between two
blocking calls of `Engine::generate` and its callback: `HearStart` (the contract is
latched), `HearToken` (forwarded, or held back by the think router of the legacy
contract), `HearBadCall`, `HearReady` (held text and the terminal go into the
channel), `HearAck`, `Drain`, `DecideRetry`, `Finish`. The handler's are one write or
one read each: `WriteHeaders`, `WriteChunk`, `Terminate` for a stream; `TakeStatus`,
`ReadBody`, `ReadNext`, `ReadEof`, `DropReader` for `ChannelReader`, whose
acknowledgement is given by the read after the chunk. The HTTP library (external) calls
`read` when it likes, keeps what it read, and writes it when it likes (`LibraryWrites`,
`Flush`): nothing orders its writes before the next read. Both ends of a channel can be
dropped at any point, with the effect Rust gives it: a send fails, a receive returns
an error once the queue is empty, a dropped chunk drops its acknowledgement.

`out` is what was handed over, in order, to the socket (a stream) or to the HTTP
library (a plain reply); `written` how much of it the socket took; `kept` the attempts
the daemon committed. Once the peer has left, a write may fail or still
succeed. The daemon does to one attempt what `DaemonLoop` shows it to do: one
transcript, ended by `done` after a commit, by a cancellation (asked for, or after 30
seconds without a decision) or by an error; it can die at any point. That the
events of other requests stay away is the key `(id, attempt_id)`, and belongs to
`DaemonLoop`; the lease given up and taken again around a retry to `HttpAdmission`.

`OneReply` and `KeptMeansHandedOver` relate what was handed over to what the daemon and
the retry driver decided elsewhere. For a stream handed over means written and flushed.
For a plain reply it means read by the library, and the property promises the socket
only once the handler has ended with the peer still there. Written is not received: bytes the kernel took
for a peer that is gone count as written, in the code and here.

## 3. Runs

Runs that must pass:

| Run | Instance | Shows |
|---|---|---|
| `engine_swap` | 1 slot, 3 requests in 2 conversations, clients that may vanish, any one operation but a sample fails | ownership, context, snapshot and budget invariants; sampling and answering; every request is answered and dropping the engine ends the thread |
| `engine_batch` | 2 slots, 4 requests in 3 conversations, decode graph with buckets of 2 positions, one failed sample | the same context properties when prefill and decode rows of two sessions share a batch, and when a captured step is replayed in another bucket or for another session |
| `gate` | 4 threads, 2 models and one request without a model, capacity 2, queue bound 2, time-outs, retries | counters, exclusion, no lost wake-up, the inductive invariant, refinement of `BackendLease`, every thread finishes |
| `store` | 1 process, 2 keys, sizes that fit once or never, 3 puts, 2 faults | accounting, files, refinement of `SnapshotStore` |
| `serve` | 4 threads, 2 models, one larger budget, one refused one, 2 failures of load, reset or generate | a request runs on its model and budget, and from a clean state where it must |
| `serve_idle` | 2 threads, pre-warm, idle unload at any moment, 1 failure of any kind | runtime and daemon agree; every request ends |
| `daemon` | 3 requests (one of them of seven kinds, commands included), 2 lanes, aborts, deadlines, 1 GPU failure | transcripts, two-phase end, tickets, cohorts, barriers, early aborts |
| `daemon_live` | 2 requests (one of them of six kinds), the same and the daemon's death | every call of a client returns |
| `reply` | 1 request in each mode, 2 tokens or tool calls per attempt, retry, a peer that leaves, a daemon that fails, is late or dies, a worker that panics | one reply, commits only of replies that were handed over, both threads end |

Runs in which TLC refutes what the repository says of itself (the findings):

| Run | Statement refuted |
|---|---|
| `unkeyed_refusal` | an error after a generate was taken on carries its key |
| `panic_is_success` | an uncompleted request does not reach its client as a success |
| `slab_overflow` | no path yields silently incorrect output |

### 3.1 Bounds and why they are enough

* One slot and two conversations make every turn an eviction, a restore or a
  cold start. Two slots and three conversations make a batch of two sessions
  with evictions beside it. A third slot adds no new kind of neighbour: a write
  past a slab reaches the next slot only.
* Prompts have one to three tokens and replies at most two, against a chunk of
  two or three: a prompt that needs one
  chunk, one that needs two, a reply that ends by the terminator and by the
  limit, and a session that outgrows its slab (where the slab is small) all
  occur. A full chunk beside any other row is not a batch the engine can run: it
  exceeds the scratch buffers (finding 2), so only whole prompts share a step
  with other sessions.
* `BudgetBytes` is chosen so that the budget is met before or after the pool.
* `MaxSessions` counts sessions ever opened; it equals the number of requests
  (each opens at most one), so the bound never stops `admit`.
* One failure per behaviour in the engine: after each failure the handlers
  return to a state of the same invariant, so two failures in a row are the
  second one from such a state; only combinations inside one `admit` are lost.
* The gate needs two shared holders, one waiter of each class and one
  newcomer: four threads, with models that agree, differ and are absent.
* Two keys and three puts let a key be replaced in each tier while the other
  one fills it.
* Batch buckets of two positions make a reply of three tokens cross a bucket, so a
  capture is made, replayed and replaced; a second session in the slot meets a
  capture made for the first.
* Four threads at the runtime are two that may share a batch, of which one needs
  a reload, one for the other model and one that is refused under the lock.
  `serve` leaves out pre-warm and idle unload, which run in `serve_idle` beside two
  threads for the same model; section 5.1 says what a pre-warm of another model does.
* Three requests at two lanes leave one in the queue, in the inbox or behind a
  barrier; a request of two tokens outlives one of one token, so lanes end at
  different steps. Commit, abort and deadline all apply to `b1`, which is batched or
  sequential; `x` is what it meets on the way. A third lane would
  add only more of the same members of `doomed` and `agreed`, which are treated one
  by one.

* Two tokens per attempt give a reply with nothing, something forwarded, something
  held, and both, before the terminal, a bad tool call or a failure. One retry is the
  code's own bound. Requests share nothing in this model, so one is enough.

All models stop when all requests are done, so deadlock checking is off.

`ContextFaithful` holds in `engine_swap` and `engine_batch` because their
instances have no session that outgrows its slab beside an idle resident
neighbour (one slot; a slab of six positions). `slab_overflow` is the instance
that has one.

### 3.2 Fairness

* Engine: the thread is scheduled, so a request at the head of the channel is
  taken, a step that can be taken is taken, and the loop's exit is taken. The
  failing outcomes are never forced. A waiting client reads its events: it
  blocks in `recv`.
* Gate: each request thread is scheduled and each attempt ends (weak fairness of
  its actions). Nothing relies on time-outs or spurious wake-ups, since the
  time-out may be configured to zero. Weak fairness is enough for a waiter
  because the instance has finitely many threads: a waiter can be overtaken, but
  only by threads that then finish.
* Serve runtime: the server's threads and the daemon are scheduled, and a
  generation ends. Neither expiry of the idle window, nor a refusal, nor a failure
  is relied on. Weak fairness suffices, also for the runtime lock: the instance has
  finitely many takers.
* Daemon: the client's threads, the reader (with both halves of a control line) and the
  main thread are scheduled, GPU
  calls return, and the 30 seconds of a lane whose client is slow pass. Nothing relies
  on an abort, a failure or the daemon's death.
* Reply: worker and handler are scheduled, their writes return and the HTTP library goes
  on with the reply; the daemon starts an
  attempt, ends it and acts on commit and abort. Nothing relies on the deadline, on a
  failure or on the peer leaving. A peer that stays and does not read is outside this
  assumption (5.1).

## 4. Proofs

Every theorem holds for all values of the constants that satisfy the named
assumptions, so for any number of threads, keys, slots, sessions or requests. Each
inductive invariant was first checked with TLC on the instances of section 3
(`ReplyInv` and `WrittenInv` 95,056 states, `DaemonInv` and `EarlyInv` up to 8.2 million,
`EngineInv` up to 1.3 million, `ContextInv` up to 0.6 million, `RoomInv` 1.3 million;
the invariants of `ServeRuntime` on four instances of 0.2 to 0.3 million states and one
with pre-warm and idle unload beside three threads of 4.4 million).

### 4.1 The gate, for any threads, models, capacity, queue bound and settings

`HttpAdmissionProofs` proves `Spec => []GateInv`. The counters are not
inductive alone: that `eligible` counts the shared holders survives a release
only if `saturating_sub` never saturates, and that sleepers have a waker needs
to know that a woken waiter can actually take an empty gate. `GateInv` is
therefore the conjunction of

* the types, and that an ineligible request carries no model;
* `HoldInv`: the counters are the holders, an exclusive holder is alone, shared
  holders agree with the model lease, and **an empty gate has no model lease
  left over**;
* `QueueInv`: `queued` is the number of waiters and keeps its bound;
* `NoLostWakeup`: someone asleep implies someone awake or holding.

The last conjunct survives `Recheck` because a waiter that goes back to sleep
was refused, hence (`EmptyGateGrants`) someone holds; and it survives a
time-out, which leaves without notifying, for the same reason: the code asks
`can_acquire` once more before it gives up. From the invariant follow
`CountersCorrect`, `WakeupsNotLost`, `GateProtectsBackend`, and, step by step,
`GateImplementsLease`.

Assumption: `AdmissionAssumption` (finitely many threads, capacity at least one).

### 4.2 The store, for any keys, sizes, budget, puts and failures

`SwapStoreProofs` proves, for a process that has the directory to itself
(`Procs = {p}`), that `TypeOK /\ DiskEntryBacked` is inductive and that with it
every step is a step of `SnapshotStore` or a stutter. `DiskEntryBacked` is what
makes the refinement true: a disk entry's file is its own snapshot, torn or
gone. It holds over restarts although files survive them, because a new process
has no entries and a put writes the file before it makes the entry. The
assumption of one process is needed: with two, TLC finds a snapshot restored that
another process put (5.1).

`HostUsedExactHolds` and `TypeCorrect` need no such assumption: with any number of
processes and finitely many keys, the host tier's counter is the sum of the sizes of
its entries and within the budget. What `put`, `take` and `drop_key` do to the sum is
a lemma about adding and removing one key, shown by the least number of keys for
which it could fail.

### 4.3 The slot engine: ownership, budget, answers

`SlotEngineProofs` proves `Spec => []EngineInv` for any number of slots, sessions and
requests, any prompts, budget and decode graph, and any failures. From it follow
`TypeOK`, `SlotOwnership`, `BudgetMatchesSessions` and `AnswersOnce`. `SlotOwnership`
is not inductive as it stands: that two sessions never share a slot needs that a
restored session holds none, and that the pool's free slots are nobody's; that an
eviction never takes the slot of a running request needs that the sessions of
requests in flight are Resident in the slots they generate in. `EngineInv` is

* `RigOK`: the types; `Owned` (a slot in use has exactly one Resident owner, only
  Resident sessions have a slot, and ids from `next_id` on were never opened);
  `Snapped` (exactly the Swapped sessions have a snapshot); `Charged` (the budget
  counts the open sessions and has room for them);
* `Flying`: the session of a request in flight has the slot the request runs in;
* `EngineTypes`, and `AnswerInv`: a request is unsubmitted, queued without an answer,
  in flight in one slot with `Accepted`, or answered.

There is one lemma per operation of `SlotRig` (`EvictKeeps`, `RestoreKeeps`,
`OpenKeeps`, `CloseKeeps`, ...), which `resume`, `ContinueTurn`, `ColdTurn` and
`OpenTurn` combine, and one per action.

Assumptions: `RigAssumption` (the preflight of `Rig::build`) and `RequestAssumption`
(prompts and continuations are sequences of tokens, a prompt is not empty, and a
continuation exists from the second user turn on).

### 4.4 The slot engine: context

`ContextFaithful` is false of the code as it is: a step past the end of a slab
overwrites the neighbour (finding 3). `SlotContextProofs` proves that this is the only
way to lose it. With `Within` for "the next step does not run past a slab":

* `Spec /\ []Within => []ContextFaithful`, `=> []SnapshotFaithful` and
  `=> EmitsFromOwnContext` (`ContextFaithfulHolds`, `SnapshotFaithfulHolds`,
  `EmitsFromOwnContextHolds`);
* `NothingOverflows`: if every conversation fits its slab, then `Spec => []Within`; so
  the three properties hold of `Spec` (`FittingContextFaithful`,
  `FittingEmitsFromOwnContext`). `ConversationsFit` is a condition on the requests
  alone: there are bounds `W[q]` up to `SlabCap` for what a session holds at the end of
  the turn of `q`, enough for the prompt and the reply of a cold turn and for what any
  earlier turn leaves, the continuation and the reply of a continued one.
  The instance of `engine_batch` satisfies it; `slab_overflow` is one that does not.

The invariant is `ContextInv`, beside `EngineInv`:

* `Held`: a Resident session's slot holds, in the arena and in the recurrent state, the
  first `len` of its tokens; a snapshot is of a prefix of its session's tokens;
* `FeedInv`: what a slot in flight has left to feed is what its session's tokens have
  beyond `len`; a slot that has nothing left has the logits row of all of them (this
  row outlives the step when sampling fails); idle slots have nothing to feed;
* `GraphInv`: a capture has every slot in it, because only a step with one row for
  every slot is captured. Hence a replay works on the rows of this step although the
  slots were baked in by an earlier one (`ReplayIsOwn`), and the bucket covers every
  context of the step.

Slabs do not meet (`AddrApart`), so eviction, restore and a forward within the slabs
write only their own slot; a turn begins with the longest common prefix of what the
slot holds and what is asked, which `begin_turn` rewinds to; and the token that is
recorded is the one left to feed. For `NothingOverflows`, `RoomInv` says that a session
is within the bound of the turn it is at, and that a request in flight has room for
the rest of its reply: `find_continuation` picks only a session exactly one user turn
behind, and a reply stops at `max_tokens`.

### 4.5 The daemon

`DaemonLoopProofs` proves `Spec => []DaemonInv` for any keys, lanes, requests and
failures, and from it `TypeOK`, `Transcript`, `DoneMeansCommitted`,
`LanesOwnTheirKeys`, `OneCohort` and `BarrierWaits`. A transcript stays legal only if
a key is in one place at a time, so the invariant follows a key along its way:

* `InboxInv`: a `generate` is on the wire, in the channel or in the backlog once, and
  until its turn comes nothing was said to it and the batch does not know it;
* `LaneInv`: queue and lanes hold different keys, told of their start (and of
  `commit_ready` when they wait for the client), all of the current cohort;
* `RegInv`: the registry knows a key as what it is and by its lane's ticket, or not at
  all (a poisoned batch clears it, a withdrawn key leaves it);
* `PhaseInv`: `doomed`, `agreed` and `ended` hold lanes of the right phase, and no lane
  is in two of them: otherwise a lane could be committed and aborted;
* `MainInv`: outside the batch driver lanes and queue are empty;
* `ClientInv`: a commit on the wire or in a control plane is its client's word.

`EarlyAbortStops` is about an abort that overtakes everything: the reader applies it at
once, while its `generate` may still wait in the channel, in the backlog, or behind a
barrier, or while the sequential route moves it from one plane to the other. It is early
when it is latched in the registry while the request waits, or applied to the singleton
after `activate_terminal_control` and before `gen_start`. `EarlyInv`, beside `DaemonInv`,
has what this needs:

* a request with an early abort was read before, so its `generate` is not on the wire;
* `Known`: a `generate` in the inbox is announced, unless it is in `swept`, so its abort
  finds an entry to latch in;
* `Fate`: a request aborted early waits with its abort latched; or was cut short before
  `commit_ready`; or is being started, with the abort in a plane where the route will
  still look (`Held`: in the registry before `CheckLatch`, in the singleton, or found and
  about to be carried over); or runs with the abort in its own cell (`Stopping`), where
  the next step sees it;
* while a request is being started its cell is neither ready nor committed, so nothing
  takes the place of an abort.

`EarlyAbortStopsHolds` is `Spec => []EarlyAbortStops` without a hypothesis on requests,
clients or failures. What the code does lose lies outside `early \ swept` and is in 5.1.

### 4.6 Replies

`HttpReplyProofs` proves `Spec => []ReplyInv` for every mode, attempt and number of
tokens, and from it `TypeOK`, `OneReply` and `KeptMeansHandedOver`. `OneReply` needs to know
about text that is still in the channel: `Latched` says that text queued or handed over
was latched first and is of this attempt, so that the retry driver, which looks at
the latches, cannot repeat it. `TerminalInv` and `AckInv` tie the terminal chunk to the
worker that waits for it: an acknowledgement is pending, or positive, only for a
terminal that was handed over. `CommitInv` passes this on to the daemon's side.
`WrittenInvariant` says when what was handed over is in the socket: always for a
stream; for a plain reply when the handler has ended and the peer is still there.

### 4.7 The serve runtime

`ServeRuntimeProofs` proves the invariants of `ServeRuntime` for any number of threads,
models, budgets, capabilities and failures, in four layers. Each theorem has exactly the
hypotheses its argument uses; every hypothesis is a condition on the configuration, and
for each TLC has an instance outside it that violates the property (5.1).

* `BaseInv`, with no hypothesis: the types (`TypeCorrect`); the runtime lock belongs to
  the actor whose place needs it; a lease goes with place and class, and two requests
  holding leases both share and name one model; a generation, or a `generate` on the
  wire, belongs to one request that waits for it; past `ensure_model` a request under
  the lock is on its own model.
* `QuietInv`, with `NoticeModels = {}`: between the owner of the lock and the daemon
  there is nothing, one question of the owner, or one reply that answers it and tells
  where the daemon is (`Talk`, theorem `RepliesAnswerTheirCall`). Replies carry no id, so
  this is what makes "take the next control line" right, also for the actor that comes
  after one that failed. From it follows `RuntimeAgrees` (`RuntimeMatchesDaemon`):
  `Exact` says that under the lock the runtime is behind the daemon only by the answer
  under way.
* `ServedInv`, with `Undisturbed` too (all requests and the pre-warm thread name one
  model, or there is no pre-warm and warm-ups do not fail): from the moment a request's
  budget is settled until its `generate` is started, which is after the lock is dropped,
  its model stays. Others holding a lease name the same model and load it again only
  larger; the idle thread can only take it away, and then the `generate` is refused
  (`Kept`). Hence `ModelServedAsAsked`; with `Roomy` (with an idle unload no request
  needs more than the default `max_seq`) `RequestsServedAsAsked`, which is
  `ServedAsAsked`.
* `CleanInv`, with `Tidy` (models that batch keep a prompt cache, and requests that may
  share a model share one with a cache) instead of `Roomy`: a request that must start
  clean is the only holder of a lease from its reset or load until its generation starts, and
  what it loads later for a larger budget is clean as well (`Clean`). Hence
  `RequestsStartClean`, which is `CleanStart`.

`serve_idle` checks `RuntimeMatchesDaemon` on an instance that satisfies its theorem's
hypothesis. `serve` satisfies `Undisturbed`, `Roomy` and `Tidy`, and adds a notice after
every load of its second model, which one thread names: that far its run covers what
`NoticeModels = {}` leaves out.

Assumption: `ServeAssumption` (finitely many threads, distinct actors, requests name
models, sizes are numbers, capacity at least one).

### 4.8 What only TLC shows

* Liveness (`EveryRequestAnswered`, `DropTerminates`, `EveryThreadFinishes`,
  `EveryRequestEnds`, `EveryCallReturns`, `EveryReplyEnds`): out of the provers' reach.
* What happens outside the hypotheses of 4.4 and 4.7, or `early \ swept` of 4.5: the instances in 5.1 are
  counterexamples, not a description of all that can go wrong.
* `ServeRuntime` with a pflash line after a load (`NoticeModels`), on the instance of
  `serve` only.

## 5. Findings

Each is a run above; `PROJECT.json` quotes the lines.

1. A batch-eligible prompt that is empty or too long for a lane is refused by an
   error with `attempt_id` 0. The client looks for a call `(id, 0)`, drops the line,
   and the call waits for ever. "render failed" and "invalid messages field" are
   written the same way.
2. Two prompts of `cap_tokens` in one batch exceed the scratch buffers, which
   hold `max(cap_tokens, n_slots)` rows; the assertion in
   `forward_batch_slots_opts` panics the engine thread, and every client sees
   its channel close and returns a normal completion.
3. KV is written before the length is checked; a session at the end of its slab
   overwrites the first positions of the next slot. The step's own sessions are
   closed when the length is then refused, but an idle session resident in that
   next slot keeps the wrong KV and its next turn generates from it.

### 5.1 Departures without a run of their own

The models show these too; the instance that does is given in brackets.

* Two servers on one machine share `<tmp>/hipfire-serve-swap` and its file names: one
  may restore the other's snapshot, or clear its directory [`store` with
  `Procs = {"p", "q"}`: `ImplementsStore`].
* A failure after the terminal ends the reply cleanly. The streaming handler sends the
  chunked terminator after a poisoned chunk too, by which time `[DONE]` is out, and the
  plain one lets `ChannelReader` report the end of the body; the comments at
  `main.rs:6056` and `main.rs:3662` promise an unclean end. The peer of a reply that was
  not committed cannot tell it from one that was.
* The socket has no write time-out: a peer that neither reads nor leaves keeps its
  handler, its worker and the worker's lease for as long as it likes; the daemon's 30
  seconds end the attempt but wake neither thread.
* After a failed synchronise, sample or read-back the step's tokens are already
  drained, and a lone request is never answered (`serve_engine.rs:359`)
  [`engine_swap` with `sample_failed` in `FaultKinds`: `EveryRequestAnswered`].
* Swapped and cold sessions keep their share of the budget for ever; an idle
  engine then answers "all slots busy" (`serve_engine.rs:589`).
* A request the daemon cannot batch is exclusive for the slot engine too, and waits
  beside free slots (`main.rs:3402`, against the comment at `main.rs:3183`).
* The pre-warm thread loads without a lease. If the default model is not the one
  requests name, its load can slip between a request's `ensure_model` and its
  `generate`, which is then answered by the default model [`serve` with
  `PrewarmModel = "a"` and threads `t1`, `t3`: `ServedAsAsked`].
* A warm-up that fails after a successful load leaves the runtime with the old path
  although the daemon holds the new model; the next request for the old model skips
  the load (`main.rs:5449`) [`serve` with `warm` in `Faults`: `ServedAsAsked`]. A load
  that fails leaves the old path too: later requests are refused by a daemon without
  a model instead of reloading, until something else calls for a load. Hence the
  premise of `RuntimeMatchesDaemon`.
* The idle thread can unload under a request that was admitted after it looked; the
  request is then refused by a daemon without a model (`main.rs:3254`). It does not
  reset `continuous_batch_capable`, so the next request is classed by the model that
  is gone.
* After an idle unload the next request loads its model at the default `max_seq`. A
  request that checked its larger budget before the unload and shares the model then
  runs with less than it needs [one model, two threads that share, one with `Needs`
  above `DefaultSeq`, `IdleUnload`: `ServedAsAsked`]. Hence `Roomy`.
* A request is classed by the capability of the model that is loaded, not of the one it
  names (`main.rs:3402`). Two eligible requests for a model without prompt cache, met
  while a batching model is loaded, both hold shared leases; the second starts from the
  state the first left, because both did their reset before [`serve` with `t1` on `a`,
  `t2` and `t3` eligible and on `b`: `CleanStart`]. Hence `Tidy`. Its other half, that
  models that batch keep a prompt cache, holds of the Qwen batch architectures; LFM2
  batches without being on the cache list, and its generate resets its own state.
* A model with a pflash drafter is announced by a line after `loaded` that nobody waits
  for. A reset or an unload that follows takes it for its reply and fails, and each later
  one takes the reply of the one before; a load skips what is left over, except an
  error, which it takes for its own [`serve` with three
  threads on `b`, one on `a` and one failed reset: `ServedAsAsked`]. Hence
  `NoticeModels = {}`; the line is written only with a drafter configured and its mode
  not off.
* The metadata is cleared after the runtime lock is dropped, and may hide a model
  loaded in between (`main.rs:3282`).
* A plain reply is committed before anything is known to be written. The next `read`
  acknowledges the body (`main.rs:6201`), and the HTTP library may read again before it
  writes; the comment at `main.rs:6128` calls this "proving writer progress". A write
  that fails afterwards leaves a turn in the conversation that the peer never got
  [`reply` with `n <= written` for every reply: `KeptMeansHandedOver`].
* An abort can fall between the two control planes. The reader applies it to the
  singleton, where the request is not yet active (`daemon.rs:13145`); the main thread
  activates the singleton (14481) and finds nothing in the registry (480); then the
  reader latches it there (13146), where it is cleared (481) or finds no entry. The
  request runs to its end, and its client, which waits for the end of an aborted request
  and commits nothing, hears of it after the 30 seconds of the handshake [`daemon` with
  an abort counted as early when it is read: `EarlyAbortStops`].
* A think-opening request that waits behind a batch leaves the registry in every
  loop of the driver; an abort read in between is lost and the request runs to its
  end (`swept`) [`daemon` with `x` in `Hasty` and without `swept`: `EarlyAbortStops`].
* Poisoning (`daemon.rs:15368`), a `reset` that succeeds (15522) and every `unload`
  (15607) clear the whole registry, with it the announcements and aborts of requests
  that still wait in the inbox (`swept`). A batch request behind a reset is then
  assigned a lane with no entry: no abort or commit reaches it, and it ends only by its
  deadline.
* The bring-up route writes nothing after an abort at the handshake
  (`daemon.rs:27428`): the client's drain waits for ever [`daemon_live` with a
  `quiet` request for `y`: `EveryCallReturns`].
* The comment of `forward_batch_slots_graphed` promises a fall-back when capture
  fails (`forward_slots.rs:2314`); the code returns the error.

Smaller observations made while modelling, not checked by a run:

* When the client of a continuation is gone at `Accepted`, the session keeps the
  unanswered user turn and may be continued (`serve_engine.rs:509`).
* The token that reaches `max_tokens` is sent and never enters the session, so
  a continuation is appended to a sequence without it (`serve_engine.rs:404`).
* A newcomer that queues behind a woken waiter sleeps although there may be room
  for both, until the next guard is dropped (`main.rs:2656`).
* `take` forgets the entry before it reads; a failed read leaves the file
  (`store.rs:103`).

## 6. Not modelled

* The other batch drivers of the daemon (LFM, expert parallel) and the expert-parallel
  load path with its deferred unload; they share the registry and the inbox modelled
  here.
* Per-architecture decode loops, speculative decoding, KV compression, kernels,
  quantisation, formats, tokenizer, multi-GPU transfers: by far the larger part of the
  repository's lines. They are numerical or sequential text and file processing, whose
  correctness is a value and not a sequence of states; a model of them would repeat
  the code. The acceptance bookkeeping of speculative decoding is the exception.
* The weight pager (`hipfire-runtime/src/weight_pager.rs`): no loader constructs one and
  nothing calls `ensure_resident`, so no state of it is one the program can be in.

## 7. Plan

1. `ServeContract`: the abstract promise of the slot engine (each conversation's
   reply is a function of its tokens alone) with `SlotEngine` shown to implement it.
2. `RuntimeMatchesDaemon` with the pflash line: which failures leave it behind, and a
   weaker agreement that survives it.
3. File protocols of the CLI: verified download and update guard.
4. Acceptance and rollback of speculative decoding.
