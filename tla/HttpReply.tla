----------------------------- MODULE HttpReply -----------------------------
(***************************************************************************)
(* How one chat completion reaches its HTTP peer (hipfire-cli/src/main.rs):*)
(* the worker thread in complete_request with its attempts, the stream     *)
(* contract and the latches that decide on a retry; the channel of body    *)
(* chunks with the acknowledgement of the terminal one; the handler thread *)
(* that writes them (respond_streaming, or respond_nonstreaming with       *)
(* ChannelReader); and the two-phase end with the daemon: commit_ready,    *)
(* the terminal handed over, commit, done.                                 *)
(*                                                                         *)
(* The daemon is what Transcript of DaemonLoop says of it, with tokens.    *)
(* Text is data: an item of the reply is its kind and its attempt.  The    *)
(* HTTP library is external: it reads a plain reply's body when it likes,  *)
(* keeps what it read and writes it when it likes.                         *)
(***************************************************************************)
EXTENDS Integers, Sequences, FiniteSets, SequencesExt

CONSTANTS
  Modes,         \* "stream" and "plain": the request's "stream" field
  MaxTokens,     \* bound: tokens and tool-call lines in an attempt
  RetryEnabled   \* serve.retry_enabled

ASSUME ReplyAssumption ==
  /\ Modes \subseteq {"stream", "plain"}
  /\ MaxTokens \in Nat
  /\ RetryEnabled \in BOOLEAN

VARIABLES
  mode,
  worker,    \* where the worker thread is
  attempt,   \* attempt_index
  latches,   \* AttemptLatches: visible, commit_ready_seen
  contract,  \* StreamContractGate::latched
  held,      \* ThinkChannelRouter keeps text back
  error,     \* how the attempt failed
  body,      \* chunks on their way to the handler thread
  status,    \* what respond_nonstreaming's worker reported
  ack,       \* the answer to the terminal chunk
  handler,   \* where the handler thread is
  pending_ack, \* ChannelReader: the ack of the chunk that was read last
  out,       \* what was handed over: to the socket, or to the HTTP library
  written,   \* how much of it the socket took
  peer,      \* "reading" or "gone"
  dm,        \* the attempt as the daemon sees it
  said,      \* how many tokens it said
  events,    \* its events on the attempt's channel
  control,   \* commit and abort on their way to it
  kept       \* attempts the daemon committed

call == << attempt, latches, contract, held, error >>
channel == << body, status, ack >>
http == << handler, pending_ack, out, written, peer >>
daemon == << dm, said, events, control, kept >>
vars == << mode, worker, call, channel, http, daemon >>

Item(kind) == [kind |-> kind, attempt |-> attempt]
Plain(kind) == [kind |-> kind, attempt |-> 0]

Init ==
  /\ mode \in Modes
  /\ worker = "begin"
  /\ attempt = 1
  /\ latches = [visible |-> FALSE, ready |-> FALSE]
  /\ contract = "none" /\ held = FALSE /\ error = "none"
  /\ body = << >> /\ status = << >> /\ ack = "none"
  /\ handler = IF mode = "stream" THEN "headers" ELSE "status"
  /\ pending_ack = FALSE
  /\ out = << >> /\ written = 0 /\ peer = "reading"
  /\ dm = "idle" /\ said = 0
  /\ events = << >> /\ control = << >> /\ kept = {}

-----------------------------------------------------------------------------
(* The worker: complete_request, complete_request_attempt, Engine::generate *)

\* A send succeeds as long as the receiver exists, whoever reads from it.
Reachable == handler # "closed"
Send(chunks) == body' = IF Reachable THEN body \o chunks ELSE body

Begin ==
  /\ worker = "begin"
  /\ worker' = "attempt"
  /\ IF mode = "stream" THEN Send(<< Plain("role") >>) ELSE UNCHANGED body
  /\ UNCHANGED << mode, call, status, ack, http, daemon >>

\* ensure_model and the reset, and their failures; then the generate is sent.
StartAttempt ==
  /\ worker = "attempt"
  /\ \/ /\ worker' = "generating" /\ dm # "dead"
        /\ dm' = "new"
        /\ UNCHANGED error
     \/ /\ worker' = "failed"
        /\ error' \in {"transient", "fatal"}
        /\ UNCHANGED dm
  /\ UNCHANGED << mode, attempt, latches, contract, held, channel, http, said, events, control,
                  kept >>

\* The next event of the attempt's channel.
Hears(ev) == events # << >> /\ Head(events) = ev /\ events' = Tail(events)

\* A callback failed: the attempt is aborted and its end awaited.
Abort(why) ==
  /\ control' = Append(control, "abort")
  /\ worker' = "draining"
  /\ error' = why

\* StreamContractGate::observe latches the contract once.
HearStart ==
  /\ worker = "generating"
  /\ \E c \in {"v2", "legacy"} : Hears(c) /\ contract' = c
  /\ UNCHANGED << mode, worker, attempt, latches, held, error, channel, http, dm, said, control,
                  kept >>

\* A fragment goes to the peer; the latch is set before it is known to arrive.
Forward ==
  /\ latches' = [latches EXCEPT !.visible = TRUE]
  /\ IF mode = "stream" /\ ~ Reachable
     THEN Abort("cancelled") /\ UNCHANGED body
     ELSE /\ IF mode = "stream" THEN Send(<< Item("delta") >>) ELSE UNCHANGED body
          /\ UNCHANGED << worker, error, control >>

\* SemanticEventFold forwards a token verbatim, ThinkChannelRouter may hold it back.
HearToken ==
  /\ worker = "generating" /\ Hears("token")
  /\ \/ Forward /\ held' \in (IF contract = "legacy" THEN BOOLEAN ELSE {FALSE})
     \/ /\ contract = "legacy" /\ held' = TRUE
        /\ UNCHANGED << worker, latches, error, body, control >>
  /\ UNCHANGED << mode, attempt, contract, status, ack, http, dm, said, kept >>

\* A tool call that is not canonical is a protocol error of this side.
HearBadCall ==
  /\ worker = "generating" /\ Hears("bad_call")
  /\ Abort("fatal")
  /\ UNCHANGED << mode, attempt, latches, contract, held, channel, http, dm, said, kept >>

\* Mutant of terminal_ack: queueing the chunk counts as delivering it.
terminal_ack_queued == "ok"

\* Nothing is acknowledged when the terminal chunk is queued.
terminal_ack == "none"

\* respond_nonstreaming reports success once the body is queued.
stage_status == status' = IF mode = "plain" THEN Append(status, "ok") ELSE status

\* commit_ready: what the router held goes out, then the terminal as one chunk whose
\* acknowledgement the worker waits for.  The fold may refuse the staged tool calls.
HearReady ==
  /\ worker = "generating" /\ Hears("ready")
  /\ latches' = [latches EXCEPT !.ready = TRUE, !.visible = @ \/ held]
  /\ held' = FALSE
  /\ \/ /\ Reachable
        /\ Send((IF mode = "stream" /\ held THEN << Item("delta") >> ELSE << >>)
                  \o << Item("terminal") >>)
        /\ stage_status
        /\ ack' = terminal_ack
        /\ worker' = "ack"
        /\ UNCHANGED << error, control >>
     \/ /\ \/ ~ Reachable /\ Abort("cancelled")
           \/ contract = "v2" /\ Abort("fatal")
        /\ UNCHANGED channel
  /\ UNCHANGED << mode, attempt, contract, http, dm, said, kept >>

\* Mutant of ack_lost: only an answer ends the wait.
ack_lost_told == ack = "err"

\* The chunk was refused, or dropped with the receiver, and its sender with it.
ack_lost == ack = "err" \/ (ack = "none" /\ ~ Reachable)

HearAck ==
  /\ worker = "ack"
  /\ \/ /\ ack = "ok"
        /\ control' = Append(control, "commit")
        /\ worker' = "committing"
        /\ UNCHANGED error
     \/ ack_lost /\ Abort("cancelled")
  /\ ack' = "none"
  /\ UNCHANGED << mode, attempt, latches, contract, held, body, status, http, dm, said, events,
                  kept >>

\* drain_committed_done takes one event; abort_and_drain skips to the last one.
\* A typed error of the daemon replaces the error that led to the abort.
HearEnd ==
  \/ /\ worker = "committing" /\ Hears("done")
     /\ worker' = "ended" /\ error' = "none"
  \/ /\ worker = "committing" /\ Hears("cancelled")
     /\ worker' = "failed" /\ error' = "fatal"
  \/ /\ worker = "draining" /\ Hears("cancelled")
     /\ worker' = "failed" /\ UNCHANGED error
  \/ /\ worker = "draining" /\ \E ev \in {"v2", "legacy", "token", "bad_call", "ready"} : Hears(ev)
     /\ UNCHANGED << worker, error >>
  \/ /\ worker \in {"generating", "committing", "draining"}
     /\ \E ev \in {"transient", "fatal"} : Hears(ev) /\ error' = ev
     /\ worker' = "failed"
  \/ /\ worker \in {"generating", "committing", "draining"}
     /\ dm = "dead" /\ events = << >>
     /\ worker' = "failed" /\ error' = "fatal"
     /\ UNCHANGED events

Drain ==
  /\ HearEnd
  /\ UNCHANGED << mode, attempt, latches, contract, held, channel, http, dm, said, control, kept >>

\* Mutant of may_retry: the handshake does not matter.
may_retry_ready == attempt = 1 /\ error = "transient" /\ ~ latches.visible

\* Mutant of may_retry: a retry is retried.
may_retry_again == error = "transient" /\ ~ latches.visible /\ ~ latches.ready

may_retry == attempt = 1 /\ error = "transient" /\ ~ latches.visible /\ ~ latches.ready

\* decide_retry; the daemon may not have attested, the gate may refuse.
DecideRetry ==
  /\ worker = "failed"
  /\ \/ /\ RetryEnabled /\ may_retry
        /\ worker' = "attempt"
        /\ attempt' = attempt + 1
        /\ latches' = [visible |-> FALSE, ready |-> FALSE]
        /\ contract' = "none" /\ held' = FALSE /\ error' = "none"
        /\ events' = << >> /\ control' = << >> /\ said' = 0
        /\ dm' = IF dm = "dead" THEN "dead" ELSE "idle"
     \/ /\ worker' = "ended"
        /\ UNCHANGED << call, dm, said, events, control >>
  /\ UNCHANGED << mode, channel, http, kept >>

\* The senders are dropped, after a failure that the peer did not cause with a word
\* about it: an empty chunk and a poisoned one.
finish_sse_stream ==
  /\ IF error \in {"none", "cancelled"} THEN UNCHANGED body
     ELSE Send(<< Plain("empty"), Plain("fail") >>)
  /\ UNCHANGED status

\* The same in respond_nonstreaming; the message arrives although nobody may read it.
report_status ==
  /\ status' = IF error \in {"none", "cancelled"} THEN status ELSE Append(status, "err")
  /\ UNCHANGED body

Finish ==
  /\ worker = "ended"
  /\ worker' = "closed"
  /\ IF mode = "stream" THEN finish_sse_stream ELSE report_status
  /\ UNCHANGED << mode, call, ack, http, daemon >>

\* The thread panics; its channels are dropped, its attempt is left to the daemon.
WorkerDies ==
  /\ worker \in {"attempt", "generating"}
  /\ worker' = "closed"
  /\ UNCHANGED << mode, call, channel, http, daemon >>

Worker ==
  \/ Begin \/ StartAttempt
  \/ HearStart \/ HearToken \/ HearBadCall \/ HearReady \/ HearAck \/ Drain
  \/ DecideRetry \/ Finish

-----------------------------------------------------------------------------
(* The handler thread *)

\* The socket takes it; a peer that is gone may be noticed or not.
Write(item) == out' = Append(out, item) /\ written' = Len(out')
NoWrite == UNCHANGED << out, written >>
Lost == peer = "gone"

\* The receiver is dropped, and every chunk in it.
Close == handler' = "closed" /\ body' = << >>

WriteHeaders ==
  /\ handler = "headers"
  /\ \/ Write(Plain("200")) /\ handler' = "writing" /\ UNCHANGED body
     \/ Lost /\ Close /\ NoWrite
  /\ UNCHANGED << status, ack, pending_ack >>

\* The terminal chunk is acknowledged once it is written and flushed.
WriteChunk ==
  /\ handler = "writing" /\ body # << >>
  /\ LET chunk == Head(body) IN
     /\ \/ /\ chunk.kind \in {"role", "delta", "terminal"}
           /\ Write(chunk)
           /\ ack' = IF chunk.kind = "terminal" THEN "ok" ELSE ack
           /\ UNCHANGED handler
        \/ /\ chunk.kind \in {"role", "delta", "terminal"} /\ Lost
           /\ ack' = IF chunk.kind = "terminal" THEN "err" ELSE ack
           /\ handler' = "ending"
           /\ NoWrite
        \/ chunk.kind = "empty" /\ NoWrite /\ UNCHANGED << handler, ack >>
        \/ chunk.kind = "fail" /\ handler' = "ending" /\ NoWrite /\ UNCHANGED ack
     /\ body' = Tail(body)
  /\ UNCHANGED << status, pending_ack >>

ChannelClosed ==
  /\ handler = "writing" /\ body = << >> /\ worker = "closed"
  /\ handler' = "ending"
  /\ UNCHANGED << channel, pending_ack, out, written >>

\* The chunked terminator is sent whatever ended the loop.
Terminate ==
  /\ handler = "ending"
  /\ Write(Plain("eof")) \/ (Lost /\ NoWrite)
  /\ Close
  /\ UNCHANGED << status, ack, pending_ack >>

\* The HTTP library takes it, which writes nothing yet.
Give(item) == out' = Append(out, item) /\ UNCHANGED written

\* respond_nonstreaming: the status decides between the body and an error.
TakeStatus ==
  /\ handler = "status"
  /\ \/ /\ status # << >> /\ Head(status) = "ok"
        /\ \/ Give(Plain("200")) /\ handler' = "reading" /\ UNCHANGED body
           \/ Lost /\ Close /\ NoWrite
     \/ /\ \/ status # << >> /\ Head(status) = "err"
           \/ status = << >> /\ worker = "closed"
        /\ Write(Plain("error")) \/ (Lost /\ NoWrite)
        /\ Close
  /\ UNCHANGED << status, ack, pending_ack >>

\* ChannelReader::read copies the chunk into the library's buffer; its ack waits for
\* the next read.
ReadBody ==
  /\ handler = "reading" /\ body # << >> /\ ~ pending_ack
  /\ Give(Head(body))
  /\ body' = Tail(body)
  /\ pending_ack' = TRUE
  /\ UNCHANGED << status, ack, handler >>

\* The next read acknowledges it, whatever the library wrote in between.
ReadNext ==
  /\ handler = "reading" /\ pending_ack
  /\ ack' = "ok" /\ pending_ack' = FALSE
  /\ UNCHANGED << body, status, handler, out, written >>

ReadEof ==
  /\ handler = "reading" /\ ~ pending_ack /\ body = << >> /\ worker = "closed"
  /\ Give(Plain("eof"))
  /\ handler' = "flushing"
  /\ UNCHANGED << channel, pending_ack >>

\* A write of the library fails between two reads; it drops the reader.
DropReader ==
  /\ handler = "reading" /\ Lost
  /\ ack' = IF pending_ack THEN "err" ELSE ack
  /\ pending_ack' = FALSE
  /\ Close
  /\ NoWrite /\ UNCHANGED status

\* The library writes more of what it was given, at its own pace.
LibraryWrites ==
  /\ handler \in {"reading", "flushing"} /\ written < Len(out)
  /\ written' = written + 1
  /\ UNCHANGED << channel, handler, pending_ack, out >>

\* respond returns when all of it is written, or a write has failed.
Flush ==
  /\ handler = "flushing" /\ (written = Len(out) \/ Lost)
  /\ Close
  /\ NoWrite /\ UNCHANGED << status, ack, pending_ack >>

Handler ==
  /\ \/ WriteHeaders \/ WriteChunk \/ ChannelClosed \/ Terminate
     \/ TakeStatus \/ ReadBody \/ ReadNext \/ ReadEof \/ DropReader \/ LibraryWrites \/ Flush
  /\ UNCHANGED << mode, worker, call, peer, daemon >>

Disconnect ==
  /\ peer = "reading"
  /\ peer' = "gone"
  /\ UNCHANGED << mode, worker, call, channel, handler, pending_ack, out, written, daemon >>

-----------------------------------------------------------------------------
(* The daemon's side of the attempt *)

Tell(ev) == events' = Append(events, ev)

DaemonStart ==
  /\ dm = "new"
  /\ dm' = "running"
  /\ \E c \in {"v2", "legacy"} : Tell(c)
  /\ UNCHANGED << said, control, kept >>

DaemonToken ==
  /\ dm = "running" /\ said < MaxTokens
  /\ said' = said + 1
  /\ \E ev \in {"token", "bad_call"} : Tell(ev)
  /\ UNCHANGED << dm, control, kept >>

DaemonReady ==
  /\ dm = "running"
  /\ dm' = "ready"
  /\ Tell("ready")
  /\ UNCHANGED << said, control, kept >>

\* It fails, in the handshake too.
DaemonFails ==
  /\ dm \in {"new", "running", "ready"}
  /\ dm' = "over"
  /\ \E ev \in {"transient", "fatal"} : Tell(ev)
  /\ UNCHANGED << said, control, kept >>

\* A commit counts in the handshake, an abort until then; either may be too late.
DaemonControl ==
  /\ control # << >> /\ dm # "dead"
  /\ control' = Tail(control)
  /\ \/ /\ Head(control) = "commit" /\ dm = "ready"
        /\ dm' = "over" /\ Tell("done") /\ kept' = kept \cup {attempt}
     \/ /\ Head(control) = "abort" /\ dm \in {"new", "running", "ready"}
        /\ dm' = "over" /\ Tell("cancelled") /\ UNCHANGED kept
     \/ /\ dm = "over"
        /\ UNCHANGED << dm, events, kept >>
  /\ UNCHANGED said

\* 30 seconds without a decision.
DaemonDeadline ==
  /\ dm = "ready"
  /\ dm' = "over" /\ Tell("cancelled")
  /\ UNCHANGED << said, control, kept >>

DaemonDies ==
  /\ dm # "dead"
  /\ dm' = "dead"
  /\ UNCHANGED << said, events, control, kept >>

Works == DaemonStart \/ DaemonReady \/ DaemonControl

Daemon ==
  /\ Works \/ DaemonToken \/ DaemonFails \/ DaemonDeadline \/ DaemonDies
  /\ UNCHANGED << mode, worker, call, channel, http >>

Next == Worker \/ WorkerDies \/ Handler \/ Disconnect \/ Daemon

Spec == Init /\ [][Next]_vars

\* Both threads are scheduled, the library goes on with the reply and the daemon with
\* the attempt.  No disconnect is waited for.
FairSpec ==
  /\ Spec
  /\ WF_vars(Worker) /\ WF_vars(Handler)
  /\ WF_vars(Works /\ UNCHANGED << mode, worker, call, channel, http >>)

-----------------------------------------------------------------------------
(* Properties *)

\* Type invariant.
TypeOK ==
  /\ mode \in Modes
  /\ worker \in {"begin", "attempt", "generating", "ack", "committing", "draining", "failed",
                 "ended", "closed"}
  /\ attempt \in {1, 2}
  /\ latches \in [visible : BOOLEAN, ready : BOOLEAN]
  /\ contract \in {"none", "v2", "legacy"} /\ held \in BOOLEAN
  /\ error \in {"none", "cancelled", "transient", "fatal"}
  /\ ToSet(status) \subseteq {"ok", "err"} /\ ack \in {"none", "ok", "err"}
  /\ handler \in {"headers", "writing", "ending", "status", "reading", "flushing", "closed"}
  /\ written \in 0 .. Len(out)
  /\ pending_ack \in BOOLEAN /\ peer \in {"reading", "gone"}
  /\ dm \in {"idle", "new", "running", "ready", "over", "dead"}
  /\ ToSet(control) \subseteq {"commit", "abort"} /\ kept \subseteq {1, 2}

\* Whatever failed, was retried or raced, one reply is handed over, and the peer reads
\* it or a beginning of it: one status, the text of a single attempt, at most one
\* terminal and no text after it.
OneReply ==
  LET At(kinds) == {n \in DOMAIN out : out[n].kind \in kinds} IN
  /\ \A n \in At({"200", "error"}) : n = 1
  /\ \A n \in At({"error", "eof"}) : n = Len(out)
  /\ \A n \in At({"terminal"}) : \A m \in DOMAIN out : m > n => out[m].kind = "eof"
  /\ \A n, m \in At({"delta", "terminal"}) : out[n].attempt = out[m].attempt

\* The daemon keeps a turn in its conversation, at most one of the request's attempts,
\* only when the whole reply was handed over.  A stream's is then in the socket.  A
\* plain one's may still be in the HTTP library: the next read proves that the library
\* took the body, not "writer progress" (main.rs:6128).  It is in the socket when the
\* handler ends, unless a write failed because the peer went, and then a turn is kept
\* that the peer never got.
KeptMeansHandedOver ==
  /\ \A a \in kept : \E n \in DOMAIN out :
       /\ out[n] = [kind |-> "terminal", attempt |-> a]
       /\ mode = "stream" \/ (handler = "closed" /\ peer = "reading") => n <= written
  /\ Cardinality(kept) <= 1

\* Worker and handler both end, with the guard and the socket: the worker that waits
\* for the acknowledgement and the handler that waits for a chunk or a status never
\* wait for each other, and nobody waits for a peer or a daemon that is gone.
EveryReplyEnds == <>(worker = "closed" /\ handler = "closed")
=============================================================================
