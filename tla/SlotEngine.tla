---------------------------- MODULE SlotEngine ----------------------------
(***************************************************************************)
(* The multi-slot serving engine: run_loop, admit, evict and restore of    *)
(* hipfire-arch-qwen35/src/serve_engine.rs, the channel its clients submit *)
(* through, and the client side of that channel (complete_request_slots in *)
(* hipfire-cli/src/main.rs).                                               *)
(*                                                                         *)
(* The engine is one thread.  Between two looks at the channel it runs one *)
(* of two handlers to the end: admit for the request at the head of the    *)
(* channel, or, when it has seen the channel empty, one step (schedule,    *)
(* forward, sample, post events).  Clients submit, vanish and read their   *)
(* answers at any time.  A handler reads nothing that another thread       *)
(* writes except whether a client's receiver still exists, so each is one  *)
(* action.                                                                 *)
(*                                                                         *)
(* Failures: at most MaxFaults device copies, file operations, kernel      *)
(* launches or synchronisations fail in a behaviour, of the kinds in       *)
(* FaultKinds.                                                             *)
(***************************************************************************)
EXTENDS SlotRig

CONSTANTS
  Requests,     \* the requests clients may submit, each at most once
  Convo,        \* [Requests -> Seq]: hashes of the user turns, oldest first
  Prompt,       \* [Requests -> Seq]: the full cold render
  Continuation, \* [Requests -> Seq]: suffix continuing the previous turn
  MaxTokens,    \* [Requests -> Nat]: SubmitRequest::max_tokens
  MayVanish,    \* the requests whose client may drop its receiver early
  Vocab,        \* tokens the model may generate that do not end the reply
  DecodeGraph,  \* HIPFIRE_SLOTS_DECODE_GRAPH
  CtxBucket,    \* DECODE_GRAPH_CTX_BUCKET
  FaultKinds,   \* which operations may fail
  MaxFaults     \* bound: failures in one behaviour

\* Every token a prompt, a continuation or the model may bring.
Tokens == Vocab \cup UNION {Range(Prompt[q]) \cup Range(Continuation[q]) : q \in Requests}

ASSUME RequestAssumption ==
  /\ Prompt \in [Requests -> Seq(Tokens)] /\ Continuation \in [Requests -> Seq(Tokens)]
  \* complete_request_slots renders a prompt with at least the role scaffolding
  \* and computes a continuation from the second user turn on.
  /\ \A q \in Requests : /\ Prompt[q] # << >>
                         /\ Convo[q] # << >>
                         /\ (Continuation[q] # << >>) <=> Len(Convo[q]) >= 2
                         /\ MaxTokens[q] \in Nat
  /\ MaxFaults \in Nat
  /\ DecodeGraph \in BOOLEAN /\ CtxBucket \in Nat \ {0}

VARIABLES
  rig,      \* the Rig
  slots,    \* Vec<Option<InFlight>>
  work,     \* Vec<PendingWork>
  logits,   \* logits_out, one row per slot: the context the row was computed from
  graph,    \* SlotDecodeGraph: its key (rows, ctx) and what the capture baked in
  queue,    \* the submission channel
  sender,   \* TRUE until SlotEngine is dropped
  engine,   \* the engine thread: "running", "exited" or "panicked"
  reply,    \* the last event on each request's own channel
  stream,   \* the tokens sent on it
  client,   \* the submitting thread
  faults    \* failures so far

engineVars == << rig, slots, work, logits, graph, queue, engine, reply, stream, faults >>
vars == << rig, slots, work, logits, graph, queue, sender, engine, reply, stream, client, faults >>

NoFlight == [session |-> NoId, req |-> "none", produced |-> 0]
NoLogits == [kv |-> << >>, dn |-> << >>]
NoGraph == [rows |-> 0, ctx |-> 0, slots |-> {}]
Eos == "eos"

InFlight == {s \in Slots : slots[s].session # NoId}
Busy == {slots[s].session : s \in InFlight}

\* MaxTokens.max(1) of admit.
Limit(q) == IF MaxTokens[q] = 0 THEN 1 ELSE MaxTokens[q]

\* send_event: an event for a dropped receiver is lost, and the engine sees it.
Gone(q) == client[q] = "gone"
Post(q, e) == reply' = IF Gone(q) THEN reply ELSE [reply EXCEPT ![q] = e]

-----------------------------------------------------------------------------
Init ==
  /\ rig = InitRig
  /\ slots = [s \in Slots |-> NoFlight]
  /\ work = [s \in Slots |-> [remaining |-> << >>, next_pos |-> 0]]
  /\ logits = [s \in Slots |-> NoLogits]
  /\ graph = NoGraph
  /\ queue = << >>
  /\ sender = TRUE
  /\ engine = "running"
  /\ reply = [q \in Requests |-> "none"]
  /\ stream = [q \in Requests |-> << >>]
  /\ client = [q \in Requests |-> "idle"]
  /\ faults = 0

-----------------------------------------------------------------------------
(* Clients *)

\* submit: fails when the engine thread is gone.
Submit(q) ==
  /\ sender
  /\ client[q] = "idle"
  /\ IF engine = "running"
     THEN /\ client' = [client EXCEPT ![q] = "waiting"]
          /\ queue' = Append(queue, q)
     ELSE /\ client' = [client EXCEPT ![q] = "failed"]
          /\ UNCHANGED queue
  /\ UNCHANGED << rig, slots, work, logits, graph, sender, engine, reply, stream, faults >>

\* The submitting thread drops its receiver before the last event.
Vanish(q) ==
  /\ q \in MayVanish
  /\ client[q] = "waiting"
  /\ client' = [client EXCEPT ![q] = "gone"]
  /\ UNCHANGED << engineVars, sender >>

\* The receive loop of complete_request_slots ends with Done, with Rejected, or
\* because the sender was dropped; only Rejected is an error to the caller.
Return(q) ==
  /\ client[q] = "waiting"
  /\ \/ /\ reply[q] \in {"Eos", "MaxTokens", "dropped"}
        /\ client' = [client EXCEPT ![q] = "ok"]
     \/ /\ reply[q] \in {"all slots busy", "no budget", "reset failed", "forward failed"}
        /\ client' = [client EXCEPT ![q] = "failed"]
  /\ UNCHANGED << engineVars, sender >>

\* Drop for SlotEngine closes the channel and then joins the thread.  Every
\* request thread shares the backend until it returns, so none is waiting then;
\* requests of clients that vanished may still be queued or in flight.
DropEngine ==
  /\ sender
  /\ \A q \in Requests : client[q] # "waiting"
  /\ sender' = FALSE
  /\ UNCHANGED << engineVars, client >>

-----------------------------------------------------------------------------
(* admit *)

\* The outcomes of the operations one admit may perform, and how many failed.
AdmitOutcomes ==
  [evict1 : EvictOutcomes, restore : RestoreOutcomes,
   evict2 : EvictOutcomes, reset : {"ok", "reset_failed"}]

Failed(o) == {k \in DOMAIN o : o[k] # "ok"}

MayFail(o) ==
  /\ \A k \in Failed(o) : o[k] \in FaultKinds
  /\ faults + Cardinality(Failed(o)) <= MaxFaults

\* A free slot for a swapped session, evicting an idle one if need be.
make_room(r, outcome) ==
  LET v == lru_idle_victim(r, Busy)
  IN  IF free_slots(r) = {} /\ v # NoId THEN evict(r, v, outcome) ELSE r

\* The session to continue and the slot it is (or was just made) resident in.
\* slot = NoSlot: nothing to continue, or it could not be brought back.
resume(q, o) ==
  LET id == IF Continuation[q] = << >> THEN NoId
            ELSE find_continuation(rig, Convo[q], Busy)
      r1 == make_room(rig, o.evict1)
      s  == Min(free_slots(r1))
      r2 == restore(acquire(r1), id, s, o.restore)
  IN  IF id = NoId THEN [id |-> NoId, slot |-> NoSlot, rig |-> rig]
      ELSE IF rig.sess[id].slot # NoSlot
           THEN [id |-> id, slot |-> rig.sess[id].slot, rig |-> rig]
      ELSE IF free_slots(r1) = {} THEN [id |-> id, slot |-> NoSlot, rig |-> r1]
      ELSE IF r2.sess[id].residency = "Resident" THEN [id |-> id, slot |-> s, rig |-> r2]
      ELSE [id |-> id, slot |-> NoSlot, rig |-> pool_release(r2, s)]

\* Seed the slot's work and put the request in flight.
StartTurn(q, id, s, prompt, reused) ==
  /\ work' = [work EXCEPT ![s] =
                [remaining |-> SubSeq(prompt, reused + 1, Len(prompt)),
                 next_pos  |-> reused]]
  /\ slots' = [slots EXCEPT ![s] = [session |-> id, req |-> q, produced |-> 0]]

\* Append the continuation to the session's exact tokens and go on from there.
\* With the client gone nothing is started, and the session stays as it is now.
ContinueTurn(q, c) ==
  \E extended \in {c.rig.sess[c.id].tokens \o Continuation[q]} :
  \E turn \in {begin_turn(c.rig, c.id, extended, Convo[q])} :
    /\ Post(q, "Accepted")
    /\ IF Gone(q)
       THEN rig' = turn.rig /\ UNCHANGED << slots, work >>
       ELSE /\ rig' = touch(turn.rig, c.id)
            /\ StartTurn(q, c.id, c.slot, extended, turn.reused)

\* A fresh session in a slot whose recurrent state is reset first.
ColdTurn(q, opened, o) ==
  \E s \in {opened.rig.sess[opened.id].slot} :
  \E turn \in {begin_turn([opened.rig EXCEPT !.dn[s] = << >>], opened.id,
                          Prompt[q], Convo[q])} :
    IF o.reset # "ok"
    THEN /\ Post(q, "reset failed")
         /\ rig' = close([opened.rig EXCEPT !.dn[s] = << "junk" >>], opened.id)
         /\ UNCHANGED << slots, work >>
    ELSE /\ Post(q, "Accepted")
         /\ IF Gone(q)
            THEN rig' = close(turn.rig, opened.id) /\ UNCHANGED << slots, work >>
            ELSE /\ rig' = turn.rig
                 /\ StartTurn(q, opened.id, s, Prompt[q], turn.reused)

\* Mutant of Reject: the request is dropped without a word.
RejectSilently(q, r, why) ==
  /\ rig' = r
  /\ UNCHANGED << slots, work, reply >>

Reject(q, r, why) ==
  /\ Post(q, why)
  /\ rig' = r
  /\ UNCHANGED << slots, work >>

\* Open a session; when that fails evict the LRU idle session and try again.
OpenTurn(q, r, o) ==
  \E first \in {open(r)} :
  \E v \in {lru_idle_victim(first.rig, Busy)} :
    IF first.id # NoId THEN ColdTurn(q, first, o)
    ELSE IF v = NoId THEN Reject(q, first.rig, "all slots busy")
    ELSE \E second \in {open(evict(first.rig, v, o.evict2))} :
           IF second.id # NoId THEN ColdTurn(q, second, o)
           ELSE Reject(q, second.rig, "no budget")

\* One request off the channel.  The intermediate results of the handler are
\* bound by \E over singletons, in the order the code computes them.
admit ==
  /\ engine = "running"
  /\ queue # << >>
  /\ rig.next_id < MaxSessions
  /\ queue' = Tail(queue)
  /\ \E q \in {Head(queue)}, o \in {x \in AdmitOutcomes : MayFail(x)} :
     \E c \in {resume(q, o)} :
       /\ faults' = faults + Cardinality(Failed(o))
       /\ IF c.slot # NoSlot THEN ContinueTurn(q, c) ELSE OpenTurn(q, c.rig, o)
  /\ UNCHANGED << logits, graph, sender, engine, stream, client >>

-----------------------------------------------------------------------------
(* One step of run_loop *)

MaxBatch == Max({CapTokens, NSlots})

\* next_batch: up to a chunk of every slot's remaining tokens.
Take(s) == SubSeq(work[s].remaining, 1, Min({Len(work[s].remaining), CapTokens}))
Rest(s) == SubSeq(work[s].remaining, Len(Take(s)) + 1, Len(work[s].remaining))
Batch == {s \in Slots : Take(s) # << >>}
Rows == MapThenSumSet(LAMBDA s : Len(Take(s)), Slots)

Drained == [s \in Slots |-> [remaining |-> Rest(s),
                             next_pos  |-> work[s].next_pos + Len(Take(s))]]

\* Where row i of slot s writes its K and V.
Cell(s, i) == s * SlabCap + work[s].next_pos + i - 1
Hits(a) == {s \in Batch : \E i \in DOMAIN Take(s) : Cell(s, i) = a}

\* What the kernels leave in the arena.  Two slots write one cell only when one
\* of them is past its slab's end; which write comes last is not defined (top).
Written(arena, top) ==
  [a \in DOMAIN arena |->
     IF Hits(a) = {} THEN arena[a]
     ELSE LET s == IF top \in Hits(a) THEN top ELSE Min(Hits(a))
          IN  Take(s)[a - Cell(s, 1) + 1]]

EndPos(s) == work[s].next_pos + Len(Take(s))

\* Mutant of pure_decode: slots without rows do not count.
pure_decode_active == \A s \in Batch : Len(Take(s)) = 1

\* Every slot of the pool has one row: only such a step goes through the graph.
pure_decode == \A s \in Slots : Len(Take(s)) = 1

\* Mutant of ctx_bucket: one bucket for all context lengths.
ctx_bucket_first == Min({CtxBucket, SlabCap})

\* The longest context of the step, rounded up to a bucket.
ctx_bucket ==
  LET true_ctx == Max({EndPos(s) : s \in Batch})
  IN  Min({((true_ctx + CtxBucket - 1) \div CtxBucket) * CtxBucket, SlabCap})

\* The key tells captures apart by the number of rows and the bucket.
Graphed == DecodeGraph /\ pure_decode
Replays == Graphed /\ graph.rows = Rows /\ graph.ctx = ctx_bucket

\* A step without a matching capture runs, is captured, and is not run again.
Captured == IF Graphed /\ ~ Replays THEN [rows |-> Rows, ctx |-> ctx_bucket, slots |-> Batch]
            ELSE graph

\* The old capture is released before the new one is tried.
CaptureLost == IF Graphed /\ ~ Replays THEN NoGraph ELSE graph

\* Tokens, positions and row_slot are uploaded before each step.  Which slot's
\* recurrent state and logits row a row of the batch works on is host code, so a
\* replay has it from the step it was captured in, and the context bound too.
Baked == IF Replays THEN graph.slots ELSE Batch
RowOf(s) == CHOOSE t \in Batch : Cardinality({u \in Batch : u < t})
                                = Cardinality({u \in Baked : u < s})
Scanned(t) == IF Graphed THEN Min({EndPos(t), IF Replays THEN graph.ctx ELSE ctx_bucket})
              ELSE EndPos(t)

\* The recurrence runs slot by slot, each over its own rows of the batch.
Fed(dn) == [s \in Slots |-> IF s \in Baked THEN dn[s] \o Take(RowOf(s)) ELSE dn[s]]

\* Mutant of Overflow: off by one at the slab's end.
OverflowByTwo == \E s \in Batch : EndPos(s) > SlabCap + 1

Overflow == \E s \in Batch : EndPos(s) > SlabCap

\* forward_batch_slots with every launch succeeding: KV written, recurrent
\* state advanced, lengths advanced.
Forwarded(top) ==
  [rig EXCEPT !.arena = Written(@, top),
              !.dn    = Fed(@),
              !.len   = [s \in Slots |-> IF s \in Batch THEN EndPos(s) ELSE @[s]]]

\* Mutant of NewLogits: the row of the slot's first token in the step.
FirstRowLogits(r) ==
  [s \in Slots |-> IF s \in Batch
                   THEN [kv |-> ReadSlab(r, s, work[s].next_pos + 1), dn |-> r.dn[s]]
                   ELSE logits[s]]

\* The logits row of a slot is rewritten only when the slot has rows in the step.
NewLogits(r) ==
  [s \in Slots |-> IF s \in Baked
                   THEN [kv |-> ReadSlab(r, RowOf(s), Scanned(RowOf(s))), dn |-> r.dn[s]]
                   ELSE logits[s]]

\* close, for every session of ids.
close_all(r, ids) ==
  [r EXCEPT
     !.used = [s \in Slots |-> @[s] /\ \A i \in ids : r.sess[i].slot # s],
     !.len  = [s \in Slots |-> IF \E i \in ids : r.sess[i].slot = s THEN 0 ELSE @[s]],
     !.sess = [i \in Ids |-> IF i \in ids THEN NoSession ELSE @[i]],
     !.admitted = @ - Cardinality(ids)]

Stepping ==
  /\ engine = "running"
  /\ Batch # {}

\* A batch with more rows than the scratch buffers trips the assertion of
\* forward_batch_slots_opts; the thread unwinds and drops every channel it holds.
Panic ==
  /\ Stepping
  /\ Rows > MaxBatch
  /\ engine' = "panicked"
  /\ queue' = << >>
  /\ reply' = [q \in Requests |->
                 IF (\E s \in InFlight : slots[s].req = q)
                    \/ (\E i \in DOMAIN queue : queue[i] = q)
                 THEN "dropped" ELSE reply[q]]
  /\ slots' = [s \in Slots |-> NoFlight]
  /\ UNCHANGED << rig, work, logits, graph, sender, stream, client, faults >>

\* Every in-flight request is rejected and its session closed.
FailInFlight(r) ==
  /\ rig' = close_all(r, Busy)
  /\ reply' = [q \in Requests |->
                 IF ~ Gone(q) /\ \E s \in InFlight : slots[s].req = q
                 THEN "forward failed" ELSE reply[q]]
  /\ slots' = [s \in Slots |-> NoFlight]
  /\ work' = [s \in Slots |-> [remaining |-> IF s \in InFlight THEN << >> ELSE Rest(s),
                               next_pos  |-> Drained[s].next_pos]]
  /\ graph' = CaptureLost
  /\ UNCHANGED << logits, queue, sender, engine, stream, client >>

\* advance_slot_seq_lens refuses a length past the slab, after the kernels ran.
ForwardOverflows ==
  /\ Stepping
  /\ Rows <= MaxBatch
  /\ Overflow
  /\ \E top \in Batch :
       FailInFlight([rig EXCEPT !.arena = Written(@, top), !.dn = Fed(@)])
  /\ UNCHANGED faults

\* A launch fails somewhere in the forward: the batch's slots hold junk.
ForwardFails ==
  /\ Stepping
  /\ Rows <= MaxBatch
  /\ "forward_failed" \in FaultKinds /\ faults < MaxFaults
  /\ faults' = faults + 1
  /\ FailInFlight(
       [rig EXCEPT
          !.arena = [a \in DOMAIN @ |-> IF Hits(a) = {} THEN @[a] ELSE "junk"],
          !.dn    = [s \in Slots |-> IF s \in Batch THEN << "junk" >> ELSE @[s]]])

\* The forward ran, then synchronising, sampling or reading the ids back failed:
\* the step's work is gone from the queue and nothing was sampled.
SampleFails ==
  /\ Stepping
  /\ Rows <= MaxBatch /\ ~ Overflow
  /\ "sample_failed" \in FaultKinds /\ faults < MaxFaults
  /\ faults' = faults + 1
  /\ \E top \in Batch :
       /\ rig' = Forwarded(top)
       /\ logits' = NewLogits(rig')
  /\ graph' = Captured
  /\ work' = Drained
  /\ UNCHANGED << slots, queue, sender, engine, reply, stream, client >>

\* The slots that are sampled: in flight, with no prompt left to feed.
Sampled == {s \in InFlight : Rest(s) = << >>}

\* Post one token per sampled slot; finish, close or go on.
Sample(r, tok) ==
  LET gone(s) == tok[s] # Eos /\ Gone(slots[s].req)
      full(s) == slots[s].produced + 1 >= Limit(slots[s].req)
      ends(s) == gone(s) \/ tok[s] = Eos \/ full(s)
      touched == {s \in Sampled : ~ gone(s)}
      slot(i) == CHOOSE s \in Sampled : slots[s].session = i
      mine(i) == \E s \in touched : slots[s].session = i
      told(q) == \E s \in touched : slots[s].req = q /\ ~ Gone(q)
      of(q)   == CHOOSE s \in Sampled : slots[s].req = q
      after   == [r EXCEPT
         !.clock = @ + Cardinality(touched),
         !.sess = [i \in Ids |->
            IF ~ mine(i) THEN r.sess[i]
            ELSE LET s == slot(i)
                     x == r.sess[i]
                 IN  [x EXCEPT
                        !.last_used = r.clock + Cardinality({t \in touched : t <= s}),
                        !.tokens = IF ends(s) THEN x.tokens ELSE Append(x.tokens, tok[s])]]]
  IN  /\ rig' = close_all(after, {slots[s].session : s \in {t \in Sampled : gone(t)}})
      /\ reply' = [q \in Requests |->
           IF ~ told(q) \/ ~ ends(of(q)) THEN reply[q]
           ELSE IF tok[of(q)] = Eos THEN "Eos" ELSE "MaxTokens"]
      /\ stream' = [q \in Requests |->
           IF told(q) /\ tok[of(q)] # Eos THEN Append(stream[q], tok[of(q)]) ELSE stream[q]]
      /\ slots' = [s \in Slots |->
           IF s \notin Sampled THEN slots[s]
           ELSE IF ends(s) THEN NoFlight
           ELSE [slots[s] EXCEPT !.produced = @ + 1]]
      /\ work' = [s \in Slots |->
           IF s \in Sampled /\ ~ ends(s)
           THEN [Drained[s] EXCEPT !.remaining = << tok[s] >>] ELSE Drained[s]]

Step ==
  /\ Stepping
  /\ Rows <= MaxBatch /\ ~ Overflow
  /\ \E top \in Batch, tok \in [Sampled -> Vocab \cup {Eos}] :
     \E r \in {Forwarded(top)} :
       Sample(r, tok) /\ logits' = NewLogits(r)
  /\ graph' = Captured
  /\ UNCHANGED << queue, sender, engine, client, faults >>

\* Mutant of Exit: the thread waits for the sessions too, not only for requests.
ExitWithoutSessions ==
  /\ engine = "running"
  /\ ~ sender /\ queue = << >> /\ Live(rig) = {}
  /\ engine' = "exited"
  /\ UNCHANGED << rig, slots, work, logits, graph, queue, sender, reply, stream, client, faults >>

\* run_loop returns once the channel is closed and drained and nothing runs.
Exit ==
  /\ engine = "running"
  /\ ~ sender /\ queue = << >> /\ InFlight = {}
  /\ engine' = "exited"
  /\ UNCHANGED << rig, slots, work, logits, graph, queue, sender, reply, stream, client, faults >>

-----------------------------------------------------------------------------
Engine == admit \/ Panic \/ ForwardOverflows \/ ForwardFails \/ SampleFails \/ Step \/ Exit

Client(q) == Submit(q) \/ Vanish(q) \/ Return(q)

Next == Engine \/ DropEngine \/ \E q \in Requests : Client(q)

Spec == Init /\ [][Next]_vars

\* The engine thread is scheduled: it takes requests off the channel and runs
\* steps (SampleFails and ForwardFails are not forced); a waiting client reads
\* the events sent to it.
Fairness ==
  /\ WF_vars(admit)
  /\ WF_vars(Panic \/ ForwardOverflows \/ Step)
  /\ WF_vars(Exit)
  /\ \A q \in Requests : WF_vars(Return(q))

FairSpec == Spec /\ Fairness
-----------------------------------------------------------------------------
(* Properties *)

SessionRecord(x) ==
  /\ x.slot \in Slots \cup {NoSlot}
  /\ x.residency \in {"Closed", "Resident", "Swapped", "Cold"}
  /\ x.last_used \in Nat

\* Type invariant: every component of the engine's state keeps its shape.
TypeOK ==
  /\ rig.used \in [Slots -> BOOLEAN]
  /\ rig.len \in [Slots -> 0 .. SlabCap]
  /\ DOMAIN rig.sess = Ids /\ \A i \in Ids : SessionRecord(rig.sess[i])
  /\ rig.next_id \in 0 .. MaxSessions
  /\ rig.admitted \in Nat /\ rig.clock \in Nat
  /\ DOMAIN slots = Slots
  /\ \A s \in Slots : slots[s].session \in Ids \cup {NoId}
  /\ engine \in {"running", "exited", "panicked"}
  /\ faults \in 0 .. MaxFaults

\* Slot ownership (SessionTable, SlotPool, run_loop): a slot is marked in use
\* exactly when one open session holds it, a session holds a slot exactly while
\* it is Resident, and a generating request's session holds the slot it
\* generates in -- across eviction, restore into another slot, close and errors.
SlotOwnership ==
  /\ \A s \in Slots : rig.used[s] <=> \E i \in Live(rig) : rig.sess[i].slot = s
  /\ \A i, j \in Live(rig) :
       rig.sess[i].slot = rig.sess[j].slot /\ rig.sess[i].slot # NoSlot => i = j
  /\ \A i \in Live(rig) : rig.sess[i].slot # NoSlot <=> rig.sess[i].residency = "Resident"
  /\ \A s \in InFlight : /\ slots[s].session \in Live(rig)
                         /\ rig.sess[slots[s].session].slot = s

\* A slot holding n valid tokens of session i: KV cells and recurrent state are
\* the first n of its tokens.
Caches(kv, dn, tokens) ==
  /\ Len(kv) <= Len(tokens)
  /\ kv = SubSeq(tokens, 1, Len(kv))
  /\ dn = kv

\* "The tokens are authoritative and KV is only a cache" (swap/mod.rs): whatever
\* was evicted, restored, rewound, reset or failed before, a resident session's
\* slot holds KV and recurrent state of the same prefix of its own tokens, and
\* what a generating session has yet to feed is exactly the rest.
ContextFaithful ==
  engine = "running" =>
    \A i \in Live(rig) :
      rig.sess[i].residency = "Resident" =>
        LET s == rig.sess[i].slot
        IN  /\ Caches(ReadSlab(rig, s, rig.len[s]), rig.dn[s], rig.sess[i].tokens)
            /\ slots[s].session = i =>
                 /\ work[s].next_pos = rig.len[s]
                 /\ rig.sess[i].tokens =
                      SubSeq(rig.sess[i].tokens, 1, rig.len[s]) \o work[s].remaining

\* Swapped means restorable (Residency in session_table.rs): exactly the Swapped
\* sessions have a parked snapshot, and it is a cache of that session's tokens.
SnapshotFaithful ==
  \A i \in Ids :
    /\ rig.snaps[i].present <=> rig.sess[i].residency = "Swapped"
    /\ rig.snaps[i].present =>
         Caches(rig.snaps[i].kv, rig.snaps[i].dn, rig.sess[i].tokens)

\* The budget is charged once for every open session -- refused opens, closes and
\* failures included -- and its last byte is never handed out (admission.rs).
BudgetMatchesSessions ==
  /\ rig.admitted = Cardinality(Live(rig))
  /\ rig.admitted > 0 => used_bytes(rig) < BudgetBytes

\* No token is sampled mid-prompt or from another context: a token is sent to a
\* client only when the logits row of its slot was computed over KV and recurrent
\* state of exactly the tokens its session has (run_loop's sampling loop), also
\* when an earlier step failed after its forward.
EmitsFromOwnContext ==
  [][\A s \in InFlight :
       stream'[slots[s].req] # stream[slots[s].req] =>
         LET tokens == rig.sess[slots[s].session].tokens
         IN  logits'[s].kv = tokens /\ logits'[s].dn = tokens]_vars

Terminal == {"Eos", "MaxTokens", "dropped", "all slots busy", "no budget",
             "reset failed", "forward failed"}

\* "Never preempt a generating session" and one answer per request: an accepted
\* request stays in flight in its slot until its answer, a failure or its
\* client's departure ends it, and nothing follows the answer (run_loop, admit).
AnswersOnce ==
  [][\A q \in Requests :
       /\ reply[q] \in Terminal => reply'[q] = reply[q] /\ stream'[q] = stream[q]
       /\ reply[q] = "Accepted" /\ reply'[q] \notin Terminal =>
            \/ Gone(q)
            \/ \E s \in InFlight : slots[s].req = q /\ slots'[s].req = q]_vars

\* Every submitted request is answered, or its client has gone: nobody waits for
\* ever on complete_request_slots' receive loop.
EveryRequestAnswered ==
  \A q \in Requests : client[q] = "waiting" ~> client[q] \in {"ok", "failed", "gone"}

\* Dropping the SlotEngine ends the thread, so the join in Drop returns.
DropTerminates == ~ sender ~> engine # "running"

-----------------------------------------------------------------------------
(* What the repository says of this engine and the engine does not do,     *)
(* checked by a run that TLC refutes; see the findings.                    *)

\* run_loop's comment on failures: a request that was not completed does not
\* reach its client as a success.
SuccessMeansDone ==
  \A q \in Requests : client[q] = "ok" => reply[q] \in {"Eos", "MaxTokens"}
=============================================================================
