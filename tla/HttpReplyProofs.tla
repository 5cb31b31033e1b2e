-------------------------- MODULE HttpReplyProofs --------------------------
(***************************************************************************)
(* Proofs about HttpReply for either kind of request, any number of tokens *)
(* and with or without retries: what the peer reads is one reply, and what *)
(* the daemon keeps was handed over.                                       *)
(***************************************************************************)
EXTENDS HttpReply, QueueFacts, FiniteSetTheorems

Chunks == [kind : {"role", "delta", "terminal", "empty", "fail"}, attempt : {0, 1, 2}]
Handed == [kind : {"200", "error", "eof", "role", "delta", "terminal"}, attempt : {0, 1, 2}]

\* The types TypeOK states, with those of the queues.
Queues ==
  /\ body \in Seq(Chunks) /\ out \in Seq(Handed)
  /\ status \in Seq({"ok", "err"}) /\ control \in Seq({"commit", "abort"})
  /\ events \in Seq({"v2", "legacy", "token", "bad_call", "ready", "transient", "fatal",
                     "cancelled", "done"})

Scalars ==
  /\ mode \in Modes
  /\ worker \in {"begin", "attempt", "generating", "ack", "committing", "draining", "failed",
                 "ended", "closed"}
  /\ attempt \in {1, 2}
  /\ latches \in [visible : BOOLEAN, ready : BOOLEAN]
  /\ contract \in {"none", "v2", "legacy"} /\ held \in BOOLEAN
  /\ error \in {"none", "cancelled", "transient", "fatal"}
  /\ ack \in {"none", "ok", "err"}
  /\ handler \in {"headers", "writing", "ending", "status", "reading", "flushing", "closed"}
  /\ pending_ack \in BOOLEAN /\ peer \in {"reading", "gone"}
  /\ dm \in {"idle", "new", "running", "ready", "over", "dead"}
  /\ kept \subseteq {1, 2}

Types == Queues /\ Scalars

\* The terminal of this attempt was handed over.
TerminalOut == \E n \in 1 .. Len(out) : out[n] = [kind |-> "terminal", attempt |-> attempt]

\* Text, queued or handed over, is of this attempt and was latched before it was queued.
Latched(s) ==
  \A n \in 1 .. Len(s) :
    /\ s[n].kind \in {"delta", "terminal"} => s[n].attempt = attempt
    /\ s[n].kind = "delta" => latches.visible
    /\ s[n].kind = "terminal" => latches.ready

\* The handler follows the mode and writes the status first, an end last.
HandlerInv ==
  /\ handler \in {"status", "reading", "flushing"} => mode = "plain"
  /\ handler \in {"headers", "status"} => out = << >>
  /\ handler \in {"writing", "ending", "reading"} =>
       /\ out # << >>
       /\ \A n \in 1 .. Len(out) : out[n].kind \notin {"error", "eof"}
  /\ handler = "closed" => body = << >>
  /\ \A n \in 1 .. Len(out) :
       /\ out[n].kind \in {"200", "error"} => n = 1
       /\ out[n].kind \in {"error", "eof"} => n = Len(out)

\* A terminal in the queue is the last chunk, unacknowledged, and the worker waits for
\* it; behind one that was handed over no text is queued.
TerminalInv ==
  /\ latches.ready => worker \notin {"begin", "attempt", "generating"}
  /\ \A n \in 1 .. Len(body) :
       /\ mode = "plain" => body[n].kind = "terminal"
       /\ body[n].kind = "terminal" =>
            n = Len(body) /\ worker = "ack" /\ ack = "none" /\ ~ TerminalOut
       /\ TerminalOut => body[n].kind \in {"empty", "fail"}
  /\ \A n, m \in 1 .. Len(out) :
       out[n].kind = "terminal" /\ m > n => out[m].kind = "eof"

\* An acknowledgement is pending, or positive, only for a terminal that was handed over.
AckInv ==
  /\ ack # "none" => worker = "ack"
  /\ ack = "ok" => TerminalOut
  /\ pending_ack => worker = "ack" /\ ack = "none" /\ handler = "reading" /\ TerminalOut

\* The daemon is told to commit, and commits, after that.
CommitInv ==
  /\ (\E n \in 1 .. Len(control) : control[n] = "commit") => latches.ready /\ TerminalOut
  /\ kept # {} => kept = {attempt} /\ latches.ready /\ TerminalOut

ReplyInv ==
  /\ Types
  /\ Latched(body) /\ Latched(out)
  /\ HandlerInv
  /\ TerminalInv
  /\ AckInv
  /\ CommitInv

\* Nothing of a stream is held back, and nothing of a plain reply once the handler has
\* ended with its peer still there.
WrittenInv ==
  /\ written \in 0 .. Len(out)
  /\ mode = "stream" \/ (handler = "closed" /\ peer = "reading") => written = Len(out)

-----------------------------------------------------------------------------
(* The worker waits, or leaves, before any terminal exists *)

(* Before commit_ready was heard no terminal is queued or written, and     *)
(* nothing is committed.                                                   *)
LEMMA NotReady ==
  ASSUME ReplyInv, worker \in {"begin", "attempt", "generating"}
  PROVE  /\ ~ latches.ready /\ ~ TerminalOut /\ ack = "none" /\ ~ pending_ack
         /\ \A n \in 1 .. Len(body) : body[n].kind # "terminal"
         /\ \A n \in 1 .. Len(out) : out[n].kind # "terminal"
         /\ \A n \in 1 .. Len(control) : control[n] # "commit"
         /\ kept = {}
  <1>1. ~ latches.ready /\ ack = "none" /\ ~ pending_ack
    BY DEF ReplyInv, TerminalInv, AckInv
  <1>2. /\ \A n \in 1 .. Len(body) : body[n].kind # "terminal"
        /\ \A n \in 1 .. Len(out) : out[n].kind # "terminal"
    BY <1>1 DEF ReplyInv, Latched
  <1>3. /\ \A n \in 1 .. Len(control) : control[n] # "commit"
        /\ kept = {}
    BY <1>1 DEF ReplyInv, CommitInv
  <1> QED BY <1>1, <1>2, <1>3 DEF TerminalOut

(* Steps that queue and write nothing and tell the daemon of no commit:    *)
(* the attempt's start, its events, an abort, the daemon's own steps.      *)
LEMMA QuietStep ==
  ASSUME ReplyInv, Types',
         UNCHANGED << mode, attempt, body, ack, handler, pending_ack, out, kept >>,
         latches'.ready = latches.ready, latches.visible => latches'.visible,
         worker = "ack" => worker' = "ack",
         latches.ready => worker' \notin {"begin", "attempt", "generating"},
         \A n \in 1 .. Len(control') : control'[n] = "commit" =>
           \E m \in 1 .. Len(control) : control[m] = "commit"
  PROVE  ReplyInv'
  <1>1. TerminalOut' <=> TerminalOut
    BY DEF TerminalOut
  <1>2. Latched(body)' /\ Latched(out)'
    BY DEF ReplyInv, Latched
  <1>3. HandlerInv'
    BY DEF ReplyInv, HandlerInv
  <1>4. TerminalInv'
    BY <1>1 DEF ReplyInv, TerminalInv
  <1>5. AckInv'
    BY <1>1 DEF ReplyInv, AckInv
  <1>6. CommitInv'
    BY <1>1 DEF ReplyInv, CommitInv
  <1> QED BY <1>2, <1>3, <1>4, <1>5, <1>6 DEF ReplyInv

(* An abort puts no commit on its way. *)
LEMMA AbortQueued ==
  ASSUME Types, control' = Append(control, "abort")
  PROVE  /\ control' \in Seq({"commit", "abort"})
         /\ \A n \in 1 .. Len(control') : control'[n] = "commit" =>
              \E m \in 1 .. Len(control) : control[m] = "commit"
  <1> DEFINE S == {"commit", "abort"}
  <1>1. control \in Seq(S) /\ "abort" \in S
    BY DEF Types, Queues
  <1>2. /\ control' \in Seq(S)
        /\ Len(control') = Len(control) + 1 /\ Len(control) \in Nat
        /\ \A i \in 1 .. Len(control) : control'[i] = control[i]
        /\ control'[Len(control) + 1] = "abort"
    BY <1>1, AppendAt
  <1>3. \A n \in 1 .. Len(control') : n \in 1 .. Len(control) \/ n = Len(control) + 1
    BY <1>2
  <1> QED BY <1>2, <1>3

-----------------------------------------------------------------------------
(* Types *)

(* The types of the proof contain the checked ones. *)
LEMMA TypesImply == Types /\ WrittenInv => TypeOK
  <1> SUFFICES ASSUME Types, WrittenInv PROVE TypeOK
    OBVIOUS
  <1>1. ToSet(status) \subseteq {"ok", "err"} /\ ToSet(control) \subseteq {"commit", "abort"}
    BY ToSetAt DEF Types, Queues
  <1> QED BY <1>1 DEF Types, Scalars, WrittenInv, TypeOK

(* What is queued for the handler has the type of a chunk. *)
LEMMA SentTypes ==
  ASSUME Types
  PROVE  /\ \A k \in {"role", "delta", "terminal", "empty", "fail"} :
              Item(k) \in Chunks /\ Plain(k) \in Chunks
         /\ \A k \in {"200", "error", "eof"} : Plain(k) \in Handed
         /\ \A a \in Chunks : body \o << a >> = Append(body, a) /\ Append(body, a) \in Seq(Chunks)
         /\ \A a, b \in Chunks : /\ body \o << a, b >> = Append(Append(body, a), b)
                                 /\ Append(Append(body, a), b) \in Seq(Chunks)
         /\ \A i \in Handed : Append(out, i) \in Seq(Handed)
  <1>1. /\ \A k \in {"role", "delta", "terminal", "empty", "fail"} :
              Item(k) \in Chunks /\ Plain(k) \in Chunks
        /\ \A k \in {"200", "error", "eof"} : Plain(k) \in Handed
    BY DEF Types, Scalars, Item, Plain, Chunks, Handed
  <1>2. body \in Seq(Chunks) /\ out \in Seq(Handed)
    BY DEF Types, Queues
  <1>3. \A a \in Chunks : body \o << a >> = Append(body, a) /\ Append(body, a) \in Seq(Chunks)
    BY <1>2, ConcatOne, AppendAt
  <1>4. ASSUME NEW a \in Chunks, NEW b \in Chunks
        PROVE  /\ body \o << a, b >> = Append(Append(body, a), b)
               /\ Append(Append(body, a), b) \in Seq(Chunks)
    <2>1. Append(body, a) \in Seq(Chunks)
      BY <1>3
    <2> QED BY <1>2, <2>1, ConcatTwo, AppendAt
  <1>5. \A i \in Handed : Append(out, i) \in Seq(Handed)
    BY <1>2, AppendAt
  <1> QED BY <1>1, <1>3, <1>4, <1>5

(* The same for every chunk the worker sends. *)
LEMMA SentBodies ==
  ASSUME Types
  PROVE  /\ body \o << Plain("role") >> = Append(body, Plain("role"))
         /\ body \o << Item("delta") >> = Append(body, Item("delta"))
         /\ body \o << Plain("empty"), Plain("fail") >>
              = Append(Append(body, Plain("empty")), Plain("fail"))
         /\ body \o (<< Item("delta") >> \o << Item("terminal") >>)
              = Append(Append(body, Item("delta")), Item("terminal"))
         /\ body \o (<< >> \o << Item("terminal") >>) = Append(body, Item("terminal"))
         /\ Append(body, Plain("role")) \in Seq(Chunks)
         /\ Append(body, Item("delta")) \in Seq(Chunks)
         /\ Append(body, Item("terminal")) \in Seq(Chunks)
         /\ Append(Append(body, Plain("empty")), Plain("fail")) \in Seq(Chunks)
         /\ Append(Append(body, Item("delta")), Item("terminal")) \in Seq(Chunks)
  <1>1. /\ Plain("role") \in Chunks /\ Item("delta") \in Chunks /\ Item("terminal") \in Chunks
        /\ Plain("empty") \in Chunks /\ Plain("fail") \in Chunks
    BY SentTypes
  <1>2. << Item("delta") >> \o << Item("terminal") >> = << Item("delta"), Item("terminal") >>
    BY <1>1, ConcatPair
  <1>3. << >> \o << Item("terminal") >> = << Item("terminal") >>
    BY <1>1, ConcatNone
  <1> HIDE DEF Chunks, Types
  <1> QED BY <1>1, <1>2, <1>3, SentTypes

(* Every other queue of strings. *)
LEMMA StringQueues ==
  ASSUME Types
  PROVE  /\ \A c \in {"commit", "abort"} : Append(control, c) \in Seq({"commit", "abort"})
         /\ \A c \in {"ok", "err"} : Append(status, c) \in Seq({"ok", "err"})
         /\ control # << >> => Tail(control) \in Seq({"commit", "abort"})
         /\ body # << >> => Head(body) \in Chunks /\ Tail(body) \in Seq(Chunks)
  <1>1. \A c \in {"commit", "abort"} : Append(control, c) \in Seq({"commit", "abort"})
    BY AppendProperties DEF Types, Queues
  <1>2. \A c \in {"ok", "err"} : Append(status, c) \in Seq({"ok", "err"})
    BY AppendProperties DEF Types, Queues
  <1>3. control # << >> => Tail(control) \in Seq({"commit", "abort"})
    BY HeadTailProperties DEF Types, Queues
  <1>4. body # << >> => Head(body) \in Chunks /\ Tail(body) \in Seq(Chunks)
    BY HeadTailProperties DEF Types, Queues
  <1> QED BY <1>1, <1>2, <1>3, <1>4

(* Reading an event takes it from the channel. *)
LEMMA HearsTypes ==
  ASSUME Types, NEW ev, Hears(ev)
  PROVE  events' \in Seq({"v2", "legacy", "token", "bad_call", "ready", "transient", "fatal",
                          "cancelled", "done"})
  BY TailAt DEF Types, Queues, Hears

(* The worker keeps the types. *)
LEMMA WorkerTypes ==
  ASSUME Types, Worker \/ WorkerDies
  PROVE  Types'
  <1> USE DEF Types, Queues, Scalars
  <1>1. CASE Begin
    <2>1. body' \in Seq(Chunks)
      BY <1>1, SentBodies DEF Begin, Send
    <2> QED BY <1>1, <2>1 DEF Begin, call, http, daemon
  <1>2. CASE StartAttempt
    BY <1>2 DEF StartAttempt, channel, http
  <1>3. CASE HearStart
    BY <1>3, HearsTypes DEF HearStart, channel, http
  <1>4. CASE HearToken
    <2>1. PICK e \in {"token"} : Hears(e)
      BY <1>4 DEF HearToken
    <2>2. control' \in Seq({"commit", "abort"})
      BY <1>4, AbortQueued DEF HearToken, Forward, Abort
    <2>3. body' \in Seq(Chunks)
      BY <1>4, SentBodies DEF HearToken, Forward, Send
    <2>4. latches' \in [visible : BOOLEAN, ready : BOOLEAN] /\ held' \in BOOLEAN
      BY <1>4 DEF HearToken, Forward
    <2>5. /\ worker' \in {worker, "draining"}
          /\ error' \in {error, "cancelled"}
      BY <1>4 DEF HearToken, Forward, Abort
    <2> QED BY <1>4, <2>1, <2>2, <2>3, <2>4, <2>5, HearsTypes DEF HearToken, http
  <1>5. CASE HearBadCall
    BY <1>5, HearsTypes, AbortQueued DEF HearBadCall, Abort, channel, http
  <1>6. CASE HearReady
    <2>1. Hears("ready")
      BY <1>6 DEF HearReady
    <2>2. latches' \in [visible : BOOLEAN, ready : BOOLEAN]
      BY <1>6 DEF HearReady
    <2>3. control' \in Seq({"commit", "abort"})
      BY <1>6, AbortQueued DEF HearReady, Abort
    <2>4. body' \in Seq(Chunks)
      BY <1>6, SentBodies DEF HearReady, Send, Reachable, channel
    <2>5. status' \in Seq({"ok", "err"})
      BY <1>6, StringQueues DEF HearReady, stage_status, channel
    <2>6. /\ worker' \in {"ack", "draining"}
          /\ error' \in {error, "cancelled", "fatal"} /\ ack' \in {ack, "none"}
      BY <1>6 DEF HearReady, Abort, terminal_ack, channel
    <2>7. held' = FALSE /\ UNCHANGED << mode, attempt, contract, http, dm, said, kept >>
      BY <1>6 DEF HearReady
    <2>8. Queues'
      BY <2>1, <2>3, <2>4, <2>5, <2>7, HearsTypes DEF http
    <2>9. Scalars'
      <3>1. held' \in BOOLEAN /\ pending_ack' \in BOOLEAN
        BY <2>7, Zenon DEF http
      <3>2. /\ error' \in {"none", "cancelled", "transient", "fatal"}
            /\ ack' \in {"none", "ok", "err"}
        BY <2>6
      <3> QED BY <2>2, <2>6, <2>7, <3>1, <3>2 DEF http
    <2> QED BY <2>8, <2>9
  <1>7. CASE HearAck
    <2>1. control' \in Seq({"commit", "abort"})
      BY <1>7, StringQueues DEF HearAck, Abort
    <2> QED BY <1>7, <2>1 DEF HearAck, Abort, http
  <1>8. CASE Drain
    <2>1. events' = events \/ \E ev : Hears(ev)
      BY <1>8 DEF Drain, HearEnd
    <2>2. worker' \in {worker, "failed", "ended"} /\ error' \in {error, "none", "transient", "fatal"}
      BY <1>8 DEF Drain, HearEnd
    <2> QED BY <1>8, <2>1, <2>2, HearsTypes DEF Drain, channel, http
  <1>9. CASE DecideRetry
    <2>1. CASE may_retry /\ attempt' = attempt + 1
      <3>1. events' = << >> /\ control' = << >>
        BY <1>9, <2>1 DEF DecideRetry, may_retry, call
      <3>2. /\ << >> \in Seq({"commit", "abort"})
            /\ << >> \in Seq({"v2", "legacy", "token", "bad_call", "ready", "transient", "fatal",
                              "cancelled", "done"})
        BY EmptySeq
      <3>3. Queues'
        BY <1>9, <3>1, <3>2 DEF DecideRetry, channel, http
      <3>4. Scalars'
        <4>1. /\ attempt' \in {1, 2} /\ latches' = [visible |-> FALSE, ready |-> FALSE]
              /\ contract' = "none" /\ held' = FALSE /\ error' = "none" /\ worker' = "attempt"
              /\ dm' \in {"dead", "idle"}
          BY <1>9, <2>1 DEF DecideRetry, may_retry, call
        <4>2. latches' \in [visible : BOOLEAN, ready : BOOLEAN] /\ held' \in BOOLEAN
          BY <4>1, Zenon
        <4>3. UNCHANGED << mode, channel, http, kept >>
          BY <1>9 DEF DecideRetry
        <4>4. pending_ack' \in BOOLEAN
          BY <4>3, Zenon DEF http
        <4> QED BY <4>1, <4>2, <4>3, <4>4 DEF channel, http
      <3> QED BY <3>3, <3>4
    <2>2. CASE UNCHANGED << call, dm, said, events, control >>
      BY <1>9, <2>2 DEF DecideRetry, call, channel, http
    <2> QED BY <1>9, <2>1, <2>2 DEF DecideRetry
  <1>10. CASE Finish
    <2>1. body' \in Seq(Chunks)
      BY <1>10, SentBodies DEF Finish, finish_sse_stream, report_status, Send
    <2>2. status' \in Seq({"ok", "err"})
      BY <1>10, StringQueues DEF Finish, finish_sse_stream, report_status
    <2> QED BY <1>10, <2>1, <2>2 DEF Finish, call, http, daemon
  <1>11. CASE WorkerDies
    BY <1>11 DEF WorkerDies, call, channel, http, daemon
  <1> QED BY <1>1, <1>2, <1>3, <1>4, <1>5, <1>6, <1>7, <1>8, <1>9, <1>10, <1>11 DEF Worker

(* The handler keeps the types. *)
LEMMA HandlerTypes ==
  ASSUME ReplyInv, Handler
  PROVE  Types'
  <1>0. Types
    BY DEF ReplyInv
  <1> USE DEF Types, Queues, Scalars
  <1>1. UNCHANGED << mode, worker, call, peer, daemon, status >>
    BY DEF Handler, WriteHeaders, WriteChunk, ChannelClosed, Terminate, TakeStatus, ReadBody,
           ReadNext, ReadEof, DropReader, LibraryWrites, Flush, NoWrite, channel
  <1>2. body' \in Seq(Chunks)
    <2>1. body' = body \/ body' = << >> \/ (body # << >> /\ body' = Tail(body))
      BY DEF Handler, WriteHeaders, WriteChunk, ChannelClosed, Terminate, TakeStatus, ReadBody,
             ReadNext, ReadEof, DropReader, LibraryWrites, Flush, NoWrite, channel, Close
    <2> QED BY <1>0, <2>1, StringQueues, EmptySeq
  <1>3. out' \in Seq(Handed)
    <2>1. \/ out' = out
          \/ \E k \in {"200", "error", "eof"} : out' = Append(out, Plain(k))
          \/ body # << >> /\ out' = Append(out, Head(body))
               /\ Head(body).kind \in {"role", "delta", "terminal"}
      <3>1. ASSUME ReadBody PROVE Head(body).kind = "terminal"
        BY <3>1, <1>0, TailAt DEF ReadBody, ReplyInv, HandlerInv, TerminalInv
      <3>2. ASSUME WriteHeaders \/ ChannelClosed \/ Terminate \/ TakeStatus \/ ReadNext
                     \/ ReadEof \/ DropReader \/ LibraryWrites \/ Flush
            PROVE  out' = out \/ \E k \in {"200", "error", "eof"} : out' = Append(out, Plain(k))
        BY <3>2 DEF WriteHeaders, ChannelClosed, Terminate, TakeStatus, ReadNext, ReadEof,
                    DropReader, LibraryWrites, Flush, Write, Give, NoWrite
      <3>3. ASSUME WriteChunk
            PROVE  \/ out' = out
                   \/ body # << >> /\ out' = Append(out, Head(body))
                        /\ Head(body).kind \in {"role", "delta", "terminal"}
        BY <3>3 DEF WriteChunk, Write, NoWrite
      <3>4. ASSUME ReadBody PROVE body # << >> /\ out' = Append(out, Head(body))
        BY <3>4 DEF ReadBody, Give
      <3> QED BY <3>1, <3>2, <3>3, <3>4 DEF Handler
    <2>2. body # << >> => Head(body) \in Chunks
      BY <1>0, StringQueues
    <2>3. body # << >> /\ Head(body).kind \in {"role", "delta", "terminal"}
            => Head(body) \in Handed
      BY <2>2 DEF Chunks, Handed
    <2>4. /\ \A k \in {"200", "error", "eof"} : Append(out, Plain(k)) \in Seq(Handed)
          /\ \A i \in Handed : Append(out, i) \in Seq(Handed)
      BY <1>0, SentTypes
    <2> QED BY <2>1, <2>3, <2>4
  <1>4. /\ ack' \in {ack, "ok", "err"} /\ pending_ack' \in BOOLEAN
        /\ handler' \in {handler, "writing", "ending", "reading", "flushing", "closed"}
    BY <1>0 DEF Handler, WriteHeaders, WriteChunk, ChannelClosed, Terminate, TakeStatus, ReadBody,
           ReadNext, ReadEof, DropReader, LibraryWrites, Flush, NoWrite, channel, Close
  <1> QED BY <1>0, <1>1, <1>2, <1>3, <1>4 DEF call, daemon

(* So does the daemon. *)
LEMMA DaemonTypes ==
  ASSUME Types, Daemon
  PROVE  Types'
  <1> USE DEF Types, Queues, Scalars
  <1>1. UNCHANGED << mode, worker, call, channel, http >>
    BY DEF Daemon
  <1>2. dm' \in {"idle", "new", "running", "ready", "over", "dead"}
    BY DEF Daemon, Works, DaemonStart, DaemonReady, DaemonControl, DaemonToken, DaemonFails,
           DaemonDeadline, DaemonDies
  <1>3. control' = control \/ (control # << >> /\ control' = Tail(control))
    BY DEF Daemon, Works, DaemonStart, DaemonReady, DaemonControl, DaemonToken, DaemonFails,
           DaemonDeadline, DaemonDies
  <1>4. kept' = kept \/ kept' = kept \cup {attempt}
    BY DEF Daemon, Works, DaemonStart, DaemonReady, DaemonControl, DaemonToken, DaemonFails,
           DaemonDeadline, DaemonDies
  <1>5. events' = events
          \/ \E e \in {"v2", "legacy", "token", "bad_call", "ready", "transient", "fatal",
                       "cancelled", "done"} : events' = Append(events, e)
    BY DEF Daemon, Works, DaemonStart, DaemonReady, DaemonControl, DaemonToken, DaemonFails,
           DaemonDeadline, DaemonDies, Tell
  <1>6. Queues'
    <2>1. events' \in Seq({"v2", "legacy", "token", "bad_call", "ready", "transient", "fatal",
                           "cancelled", "done"})
      <3> DEFINE S == {"v2", "legacy", "token", "bad_call", "ready", "transient", "fatal",
                       "cancelled", "done"}
      <3>1. events \in Seq(S) /\ (events' = events \/ \E e \in S : events' = Append(events, e))
        BY <1>5
      <3> HIDE DEF S
      <3>2. events' \in Seq(S)
        <4>1. \A e \in S : Append(events, e) \in Seq(S)
          BY <3>1, AppendProperties
        <4> QED BY <3>1, <4>1
      <3> QED BY <3>2 DEF S
    <2>2. control' \in Seq({"commit", "abort"})
      BY <1>3, StringQueues
    <2> QED BY <1>1, <2>1, <2>2 DEF channel, http
  <1>7. latches' \in [visible : BOOLEAN, ready : BOOLEAN] /\ held' \in BOOLEAN
          /\ pending_ack' \in BOOLEAN
    BY <1>1, Zenon DEF call, http
  <1>8. kept' \subseteq {1, 2}
    BY <1>4
  <1>9. Scalars'
    BY <1>1, <1>2, <1>7, <1>8 DEF call, channel, http
  <1> QED BY <1>6, <1>9

-----------------------------------------------------------------------------
(* The inductive invariant *)

(* A request starts with empty channels and no latch set. *)
LEMMA InitInv == Init => ReplyInv
  <1> SUFFICES ASSUME Init PROVE ReplyInv
    OBVIOUS
  <1>1. Types
    <2>1. Queues
      BY EmptySeq DEF Init, Queues
    <2>2. latches \in [visible : BOOLEAN, ready : BOOLEAN] /\ held \in BOOLEAN
            /\ pending_ack \in BOOLEAN
      BY Zenon DEF Init
    <2>3. Scalars
      BY <2>2 DEF Init, Scalars
    <2> QED BY <2>1, <2>3 DEF Types
  <1>2. Len(body) = 0 /\ Len(out) = 0 /\ Len(control) = 0
    BY EmptySeq DEF Init
  <1> QED BY <1>1, <1>2, ReplyAssumption DEF ReplyAssumption, Init, ReplyInv, Latched, HandlerInv, TerminalInv, AckInv, CommitInv

(* Chunks queued behind the others. *)
Extends(s, t) ==
  /\ Len(s) \in Nat /\ Len(t) \in Nat /\ Len(s) <= Len(t)
  /\ \A i \in 1 .. Len(s) : t[i] = s[i]

(* Staging a chunk, or two, only adds to the body. *)
LEMMA ExtendsBody ==
  ASSUME Types, NEW c \in Chunks, NEW d \in Chunks
  PROVE  /\ Extends(body, Append(body, c)) /\ Append(body, c)[Len(body) + 1] = c
         /\ Len(Append(body, c)) = Len(body) + 1
         /\ Extends(body, Append(Append(body, c), d))
         /\ Append(Append(body, c), d)[Len(body) + 1] = c
         /\ Append(Append(body, c), d)[Len(body) + 2] = d
         /\ Len(Append(Append(body, c), d)) = Len(body) + 2
  <1> DEFINE s == Append(body, c)
             t == Append(s, d)
  <1>1. /\ s \in Seq(Chunks) /\ Len(s) = Len(body) + 1 /\ Len(body) \in Nat
        /\ \A i \in 1 .. Len(body) : s[i] = body[i]
        /\ s[Len(body) + 1] = c
    BY AppendAt DEF Types, Queues
  <1> HIDE DEF s
  <1>2. /\ Len(t) = Len(s) + 1
        /\ \A i \in 1 .. Len(s) : t[i] = s[i]
        /\ t[Len(s) + 1] = d
    BY <1>1, AppendAt
  <1> HIDE DEF t
  <1>3. Extends(body, s) /\ Extends(body, t)
    BY <1>1, <1>2 DEF Extends
  <1>4. t[Len(body) + 1] = c /\ t[Len(body) + 2] = d /\ Len(t) = Len(body) + 2
    BY <1>1, <1>2
  <1> QED BY <1>1, <1>3, <1>4 DEF s, t

(* Chunks other than a terminal are queued behind the others: they are of  *)
(* this attempt and latched, and text only where no terminal was written.  *)
LEMMA QueueStep ==
  ASSUME ReplyInv, Types', Extends(body, body'),
         UNCHANGED << mode, attempt, ack, handler, pending_ack, out, kept, control >>,
         handler # "closed", mode = "stream",
         latches'.ready = latches.ready, latches.visible => latches'.visible,
         worker # "ack", worker' # "ack",
         latches.ready => worker' \notin {"begin", "attempt", "generating"},
         \A n \in Len(body) + 1 .. Len(body') :
           /\ body'[n].kind # "terminal"
           /\ body'[n].kind = "delta" => body'[n].attempt = attempt /\ latches'.visible
           /\ body'[n].kind \in {"empty", "fail"} \/ ~ TerminalOut
  PROVE  ReplyInv'
  <1>1. TerminalOut' <=> TerminalOut
    BY DEF TerminalOut
  <1>2. \A n \in 1 .. Len(body') :
          (n \in 1 .. Len(body) /\ body'[n] = body[n]) \/ n \in Len(body) + 1 .. Len(body')
    BY DEF Extends
  <1>3. Latched(body)' /\ Latched(out)'
    BY <1>2 DEF ReplyInv, Latched
  <1>4. HandlerInv'
    BY DEF ReplyInv, HandlerInv
  <1>5. \A n \in 1 .. Len(body) : body[n].kind # "terminal"
    BY DEF ReplyInv, TerminalInv
  <1>6. TerminalInv'
    BY <1>1, <1>2, <1>5 DEF ReplyInv, TerminalInv
  <1>7. AckInv'
    BY <1>1 DEF ReplyInv, AckInv
  <1>8. CommitInv'
    BY <1>1 DEF ReplyInv, CommitInv
  <1> QED BY <1>3, <1>4, <1>6, <1>7, <1>8 DEF ReplyInv

(* Begin: the role chunk of a stream. *)
LEMMA BeginInv ==
  ASSUME ReplyInv, Begin
  PROVE  ReplyInv'
  <1>1. Types /\ Types'
    BY WorkerTypes DEF ReplyInv, Worker
  <1>2. ~ latches.ready /\ ~ TerminalOut
    BY NotReady DEF Begin
  <1>3. CASE body' = body
    BY <1>1, <1>2, <1>3, QuietStep DEF Begin, call, http, daemon
  <1>4. CASE mode = "stream" /\ Reachable /\ body' = Append(body, Plain("role"))
    <2>1. Plain("role") \in Chunks /\ Plain("role").kind = "role"
      BY <1>1, SentTypes DEF Plain
    <2>2. Extends(body, body') /\ Len(body') = Len(body) + 1 /\ body'[Len(body) + 1] = Plain("role")
      BY <1>1, <1>4, <2>1, ExtendsBody
    <2>3. \A n \in Len(body) + 1 .. Len(body') : body'[n] = Plain("role")
      BY <2>2 DEF Extends
    <2> QED BY <1>1, <1>2, <1>4, <2>1, <2>2, <2>3, QueueStep
            DEF Begin, Reachable, call, http, daemon
  <1> QED BY <1>1, <1>3, <1>4, SentBodies DEF Begin, Send

(* HearToken: a fragment goes out, is held back, or finds the peer gone. *)
LEMMA HearTokenInv ==
  ASSUME ReplyInv, HearToken
  PROVE  ReplyInv'
  <1>1. Types /\ Types' /\ worker = "generating"
    BY WorkerTypes DEF ReplyInv, Worker, HearToken
  <1>2. ~ latches.ready /\ ~ TerminalOut
    BY <1>1, NotReady
  <1>3. /\ latches'.ready = latches.ready
        /\ latches.visible => latches'.visible
        /\ worker' \in {worker, "draining"}
        /\ UNCHANGED << mode, attempt, ack, http, kept >>
    BY <1>1 DEF HearToken, Forward, Abort, Types, Scalars
  <1>4. CASE body' = body
    <2>1. \A n \in 1 .. Len(control') : control'[n] = "commit" =>
            \E m \in 1 .. Len(control) : control[m] = "commit"
      BY <1>1, AbortQueued DEF HearToken, Forward, Abort
    <2> QED BY <1>1, <1>2, <1>3, <1>4, <2>1, QuietStep DEF http
  <1>5. CASE /\ mode = "stream" /\ Reachable /\ body' = Append(body, Item("delta"))
             /\ latches'.visible /\ UNCHANGED << worker, control >>
    <2>1. Item("delta") \in Chunks /\ Item("delta").kind = "delta"
            /\ Item("delta").attempt = attempt
      BY <1>1, SentTypes DEF Item
    <2>2. Extends(body, body') /\ Len(body') = Len(body) + 1 /\ body'[Len(body) + 1] = Item("delta")
      BY <1>1, <1>5, <2>1, ExtendsBody
    <2>3. \A n \in Len(body) + 1 .. Len(body') : body'[n] = Item("delta")
      BY <2>2 DEF Extends
    <2> QED BY <1>1, <1>2, <1>3, <1>5, <2>1, <2>2, <2>3, QueueStep DEF Reachable, http
  <1>6. body' = body \/ (/\ mode = "stream" /\ Reachable /\ body' = Append(body, Item("delta"))
                         /\ latches'.visible /\ UNCHANGED << worker, control >>)
    <2>1. latches'.visible \/ ~ Forward
      BY <1>1 DEF Forward, Types, Scalars
    <2> QED BY <1>1, <2>1, SentBodies DEF HearToken, Forward, Send
  <1> QED BY <1>4, <1>5, <1>6

(* Finish: after a failure a stream gets an empty chunk and a poisoned one. *)
LEMMA FinishInv ==
  ASSUME ReplyInv, Finish
  PROVE  ReplyInv'
  <1>1. Types /\ Types' /\ worker = "ended" /\ worker' = "closed"
    BY WorkerTypes DEF ReplyInv, Worker, Finish
  <1>2. CASE body' = body
    BY <1>1, <1>2, QuietStep DEF Finish, call, http, daemon
  <1>3. CASE /\ mode = "stream" /\ Reachable
             /\ body' = Append(Append(body, Plain("empty")), Plain("fail"))
    <2>1. /\ Plain("empty") \in Chunks /\ Plain("empty").kind = "empty"
          /\ Plain("fail") \in Chunks /\ Plain("fail").kind = "fail"
      BY <1>1, SentTypes DEF Plain
    <2>2. /\ Extends(body, body') /\ Len(body') = Len(body) + 2
          /\ body'[Len(body) + 1] = Plain("empty") /\ body'[Len(body) + 2] = Plain("fail")
      BY <1>1, <1>3, <2>1, ExtendsBody
    <2>3. \A n \in Len(body) + 1 .. Len(body') : body'[n].kind \in {"empty", "fail"}
      BY <2>1, <2>2 DEF Extends
    <2> QED BY <1>1, <1>3, <2>2, <2>3, QueueStep DEF Finish, Reachable, call, http, daemon
  <1> QED BY <1>1, <1>2, <1>3, SentBodies DEF Finish, finish_sse_stream, report_status, Send

(* HearReady: the terminal is queued, last and unacknowledged. *)
LEMMA HearReadyInv ==
  ASSUME ReplyInv, HearReady
  PROVE  ReplyInv'
  <1>1. Types /\ Types' /\ worker = "generating"
    BY WorkerTypes DEF ReplyInv, Worker, HearReady
  <1>2. /\ ~ latches.ready /\ ~ TerminalOut /\ ack = "none" /\ ~ pending_ack
        /\ \A n \in 1 .. Len(body) : body[n].kind # "terminal"
        /\ \A n \in 1 .. Len(out) : out[n].kind # "terminal"
        /\ \A n \in 1 .. Len(control) : control[n] # "commit"
        /\ kept = {}
    BY <1>1, NotReady
  <1>3. /\ UNCHANGED << mode, attempt, handler, pending_ack, out, kept >>
        /\ latches'.ready
        /\ latches.visible \/ held => latches'.visible
    BY <1>1 DEF HearReady, http, Types, Scalars
  <1>4. ~ TerminalOut'
    BY <1>2, <1>3 DEF TerminalOut
  <1>5. HandlerInv' /\ Latched(out)' /\ worker' \in {"ack", "draining"} /\ ack' = "none"
    <2>1. worker' \in {"ack", "draining"} /\ ack' = "none"
      BY <1>2 DEF HearReady, Abort, terminal_ack, channel
    <2>2. Latched(out)'
      BY <1>3 DEF ReplyInv, Latched
    <2>3. handler = "closed" => body' = body
      BY DEF HearReady, Reachable, Send, channel
    <2>4. HandlerInv'
      BY <1>3, <2>3 DEF ReplyInv, HandlerInv
    <2> QED BY <2>1, <2>2, <2>4
  <1>6. AckInv'
    BY <1>2, <1>3, <1>5 DEF AckInv
  <1>7. CommitInv'
    <2>1. \A n \in 1 .. Len(control') : control'[n] # "commit"
      BY <1>1, <1>2, AbortQueued DEF HearReady, Abort
    <2> QED BY <1>2, <1>3, <2>1 DEF CommitInv
  <1>8. Latched(body)' /\ TerminalInv'
    <2>1. Item("delta") = [kind |-> "delta", attempt |-> attempt]
            /\ Item("terminal") = [kind |-> "terminal", attempt |-> attempt]
            /\ Item("delta") \in Chunks /\ Item("terminal") \in Chunks
      BY <1>1, SentTypes DEF Item
    <2>2. CASE body' = body
      BY <1>2, <1>3, <1>4, <1>5, <2>2 DEF ReplyInv, Latched, TerminalInv
    <2>3. CASE worker' = "ack" /\ body' = Append(body, Item("terminal"))
      <3>1. /\ Extends(body, body') /\ Len(body') = Len(body) + 1
            /\ body'[Len(body) + 1] = Item("terminal")
        BY <1>1, <2>1, <2>3, ExtendsBody
      <3>2. \A n \in 1 .. Len(body') : \/ n \in 1 .. Len(body) /\ body'[n] = body[n]
                                       \/ n = Len(body') /\ body'[n] = Item("terminal")
        BY <3>1 DEF Extends
      <3>3. Latched(body)'
        BY <1>3, <2>1, <3>2 DEF ReplyInv, Latched
      <3>4. TerminalInv'
        BY <1>2, <1>3, <1>4, <1>5, <2>1, <2>3, <3>2 DEF ReplyInv, TerminalInv
      <3> QED BY <3>3, <3>4
    <2>4. CASE /\ mode = "stream" /\ held /\ worker' = "ack"
               /\ body' = Append(Append(body, Item("delta")), Item("terminal"))
      <3>1. /\ Extends(body, body') /\ Len(body') = Len(body) + 2
            /\ body'[Len(body) + 1] = Item("delta") /\ body'[Len(body) + 2] = Item("terminal")
        BY <1>1, <2>1, <2>4, ExtendsBody
      <3>2. \A n \in 1 .. Len(body') : \/ n \in 1 .. Len(body) /\ body'[n] = body[n]
                                       \/ n # Len(body') /\ body'[n] = Item("delta")
                                       \/ n = Len(body') /\ body'[n] = Item("terminal")
        BY <3>1 DEF Extends
      <3>3. Latched(body)'
        BY <1>3, <2>1, <2>4, <3>2 DEF ReplyInv, Latched
      <3>4. TerminalInv'
        BY <1>2, <1>3, <1>4, <1>5, <2>1, <2>4, <3>2 DEF ReplyInv, TerminalInv
      <3> QED BY <3>3, <3>4
    <2> QED BY <1>1, <2>2, <2>3, <2>4, SentBodies DEF HearReady, Send, channel
  <1> QED BY <1>1, <1>5, <1>6, <1>7, <1>8 DEF ReplyInv

(* HearAck: a commit is sent for a terminal that was written. *)
LEMMA HearAckInv ==
  ASSUME ReplyInv, HearAck
  PROVE  ReplyInv'
  <1>1. Types /\ Types' /\ worker = "ack" /\ ack' = "none"
    BY WorkerTypes DEF ReplyInv, Worker, HearAck
  <1>2. UNCHANGED << mode, attempt, latches, body, handler, pending_ack, out, kept >>
    BY DEF HearAck, http
  <1>3. TerminalOut' <=> TerminalOut
    BY <1>2 DEF TerminalOut
  <1>4. Latched(body)' /\ Latched(out)' /\ HandlerInv'
    BY <1>2 DEF ReplyInv, Latched, HandlerInv
  <1>5. worker' \in {"committing", "draining"} /\ ~ pending_ack
    BY <1>1 DEF HearAck, Abort, ack_lost, Reachable, ReplyInv, AckInv
  <1>6. \A n \in 1 .. Len(body) : body[n].kind # "terminal"
    <2>1. ack # "none" \/ body = << >>
      BY DEF HearAck, ack_lost, Reachable, ReplyInv, HandlerInv
    <2>2. body = << >> => Len(body) = 0
      BY EmptySeq
    <2> QED BY <2>1, <2>2 DEF ReplyInv, TerminalInv
  <1>7. TerminalInv'
    BY <1>1, <1>2, <1>3, <1>5, <1>6 DEF ReplyInv, TerminalInv
  <1>8. AckInv'
    BY <1>1, <1>2, <1>5 DEF AckInv
  <1>9. CommitInv'
    <2>1. CASE ack = "ok"
      <3>1. TerminalOut
        BY <2>1 DEF ReplyInv, AckInv
      <3>2. latches.ready
        BY <3>1 DEF ReplyInv, Latched, TerminalOut
      <3> QED BY <1>2, <1>3, <3>1, <3>2 DEF ReplyInv, CommitInv
    <2>2. CASE ack # "ok"
      <3>1. control' = Append(control, "abort")
        BY <2>2 DEF HearAck, Abort
      <3> QED BY <1>1, <1>2, <1>3, <3>1, AbortQueued DEF ReplyInv, CommitInv
    <2> QED BY <2>1, <2>2
  <1> QED BY <1>1, <1>4, <1>7, <1>8, <1>9 DEF ReplyInv

(* DecideRetry: a new attempt starts where nothing of the old one can be   *)
(* read and nothing of it was committed.                                   *)
LEMMA DecideRetryInv ==
  ASSUME ReplyInv, DecideRetry
  PROVE  ReplyInv'
  <1>1. Types /\ Types' /\ worker = "failed"
    BY WorkerTypes DEF ReplyInv, Worker, DecideRetry
  <1>2. CASE UNCHANGED << call, dm, said, events, control >> /\ worker' = "ended"
    BY <1>1, <1>2, QuietStep DEF DecideRetry, call, channel, http
  <1>3. CASE may_retry /\ worker' = "attempt" /\ control' = << >>
             /\ latches' = [visible |-> FALSE, ready |-> FALSE]
    <2>1. /\ \A n \in 1 .. Len(body) : body[n].kind \notin {"delta", "terminal"}
          /\ \A n \in 1 .. Len(out) : out[n].kind \notin {"delta", "terminal"}
          /\ kept = {} /\ ack = "none" /\ ~ pending_ack /\ Len(control') = 0
      BY <1>1, <1>3, EmptySeq DEF may_retry, ReplyInv, Latched, CommitInv, AckInv
    <2>2. UNCHANGED << mode, body, ack, handler, pending_ack, out, kept >>
      BY DEF DecideRetry, channel, http
    <2>3. Latched(body)' /\ Latched(out)'
      BY <2>1, <2>2 DEF Latched
    <2>4. HandlerInv'
      BY <2>2 DEF ReplyInv, HandlerInv
    <2>5. ~ TerminalOut'
      BY <2>1, <2>2 DEF TerminalOut
    <2>6. ~ latches'.ready
      BY <1>3
    <2>7. TerminalInv'
      BY <2>1, <2>2, <2>5, <2>6 DEF ReplyInv, TerminalInv
    <2>8. AckInv' /\ CommitInv'
      BY <2>1, <2>2 DEF AckInv, CommitInv
    <2> QED BY <1>1, <2>3, <2>4, <2>7, <2>8 DEF ReplyInv
  <1> QED BY <1>2, <1>3 DEF DecideRetry

(* The worker keeps the invariant. *)
LEMMA WorkerInv ==
  ASSUME ReplyInv, Worker \/ WorkerDies
  PROVE  ReplyInv'
  <1>1. Types /\ Types'
    BY WorkerTypes DEF ReplyInv
  <1>2. CASE StartAttempt
    BY <1>1, <1>2, NotReady, QuietStep DEF StartAttempt, channel, http
  <1>3. CASE HearStart
    BY <1>1, <1>3, NotReady, QuietStep DEF HearStart, channel, http
  <1>4. CASE HearBadCall
    BY <1>1, <1>4, NotReady, AbortQueued, QuietStep DEF HearBadCall, Abort, channel, http
  <1>5. CASE Drain
    <2>1. worker \in {"generating", "committing", "draining"}
            /\ worker' \in {"draining", "failed", "ended"}
      BY <1>5 DEF Drain, HearEnd
    <2> QED BY <1>1, <1>5, <2>1, QuietStep DEF Drain, channel, http
  <1>6. CASE WorkerDies
    BY <1>1, <1>6, NotReady, QuietStep DEF WorkerDies, call, channel, http, daemon
  <1> QED BY <1>2, <1>3, <1>4, <1>5, <1>6, BeginInv, HearTokenInv, HearReadyInv, HearAckInv,
             DecideRetryInv, FinishInv DEF Worker

-----------------------------------------------------------------------------
(* The handler *)

(* One item more is handed over. *)
LEMMA HandedAt ==
  ASSUME Types, NEW i \in Handed, out' = Append(out, i)
  PROVE  /\ Len(out') = Len(out) + 1 /\ Len(out) \in Nat /\ out' # << >>
         /\ out'[Len(out')] = i
         /\ \A n \in 1 .. Len(out') : \/ n \in 1 .. Len(out) /\ n # Len(out') /\ out'[n] = out[n]
                                      \/ n = Len(out') /\ out'[n] = i
         /\ \A n \in 1 .. Len(out) : n \in 1 .. Len(out') /\ out'[n] = out[n]
  <1>1. /\ Len(out') = Len(out) + 1 /\ Len(out) \in Nat /\ out' # << >>
        /\ \A n \in 1 .. Len(out) : out'[n] = out[n]
        /\ out'[Len(out) + 1] = i
    BY AppendAt DEF Types, Queues
  <1> QED BY <1>1

(* A status or an end is no terminal. *)
LEMMA SignAt ==
  ASSUME Types, NEW k \in {"200", "error", "eof"}, out' = Append(out, Plain(k)),
         attempt' = attempt
  PROVE  /\ Plain(k).kind = k /\ Plain(k) \in Handed
         /\ TerminalOut' <=> TerminalOut
  <1>1. Plain(k).kind = k /\ Plain(k) \in Handed
    BY SentTypes DEF Plain
  <1>2. /\ \A n \in 1 .. Len(out') : \/ n \in 1 .. Len(out) /\ out'[n] = out[n]
                                     \/ out'[n] = Plain(k)
        /\ \A n \in 1 .. Len(out) : n \in 1 .. Len(out') /\ out'[n] = out[n]
    BY <1>1, HandedAt
  <1>3. Plain(k) # [kind |-> "terminal", attempt |-> attempt]
    BY <1>1
  <1> QED BY <1>1, <1>2, <1>3 DEF TerminalOut

(* The status line is the first thing handed over. *)
LEMMA StatusStep ==
  ASSUME ReplyInv, Types', out = << >>, out' = Append(out, Plain("200")),
         handler' \in {"writing", "reading"}, handler' = "reading" => mode = "plain",
         UNCHANGED << mode, worker, attempt, latches, body, ack, pending_ack, control, kept >>
  PROVE  ReplyInv'
  <1>1. Types /\ Len(out) = 0
    BY EmptySeq DEF ReplyInv
  <1>2. (TerminalOut' <=> TerminalOut) /\ Plain("200").kind = "200"
    BY <1>1, SignAt
  <1>3. out' # << >> /\ Len(out') = 1 /\ out'[1] = Plain("200")
    BY <1>1, SignAt, HandedAt
  <1>4. Latched(body)' /\ Latched(out)'
    BY <1>2, <1>3 DEF ReplyInv, Latched
  <1>5. HandlerInv'
    BY <1>2, <1>3 DEF ReplyInv, HandlerInv
  <1>6. TerminalInv'
    BY <1>2, <1>3 DEF ReplyInv, TerminalInv
  <1>7. AckInv' /\ CommitInv'
    BY <1>1, <1>2 DEF ReplyInv, AckInv, CommitInv, TerminalOut
  <1> QED BY <1>4, <1>5, <1>6, <1>7 DEF ReplyInv

(* The body is at its end, with a last word to the peer or without it. *)
LEMMA CloseStep ==
  ASSUME ReplyInv, Types', body' = << >>,
         handler' = "closed" \/ (handler' = "flushing" /\ mode = "plain"),
         UNCHANGED << mode, worker, attempt, latches, control, kept >>,
         ~ pending_ack',
         ack' = ack \/ (pending_ack /\ ack' = "err"),
         \/ out' = out
         \/ \E k \in {"error", "eof"} :
              /\ out' = Append(out, Plain(k))
              /\ handler \notin {"flushing", "closed"}
              /\ k = "error" => out = << >>
  PROVE  ReplyInv'
  <1>1. Types /\ Len(body') = 0
    BY EmptySeq DEF ReplyInv
  <1>2. handler' \in {"flushing", "closed"}
    OBVIOUS
  <1>3. TerminalOut' <=> TerminalOut
    BY <1>1, SignAt DEF TerminalOut
  <1>4. CASE out' = out
    BY <1>1, <1>2, <1>3, <1>4
       DEF ReplyInv, Latched, HandlerInv, TerminalInv, AckInv, CommitInv
  <1>5. ASSUME NEW k \in {"error", "eof"}, out' = Append(out, Plain(k)), handler \notin {"flushing", "closed"},
               k = "error" => out = << >>
        PROVE  ReplyInv'
    <2>1. Plain(k).kind = k /\ Plain(k) \in Handed
      BY <1>1, <1>5, SignAt
    <2>2. /\ Len(out') = Len(out) + 1 /\ Len(out) \in Nat
          /\ \A n \in 1 .. Len(out') :
               \/ n \in 1 .. Len(out) /\ n # Len(out') /\ out'[n] = out[n]
               \/ n = Len(out') /\ out'[n] = Plain(k)
      BY <1>1, <1>5, <2>1, HandedAt
    <2>3. \A n \in 1 .. Len(out) : out[n].kind \notin {"error", "eof"}
      <3>1. CASE out = << >>
        BY <3>1, EmptySeq
      <3>2. CASE out # << >>
        BY <3>2, <1>1, <1>5 DEF ReplyInv, HandlerInv, Types, Scalars
      <3> QED BY <3>1, <3>2
    <2>4. k = "error" => Len(out) = 0
      BY <1>5, EmptySeq
    <2>5. Latched(body)' /\ Latched(out)'
      BY <1>1, <2>1, <2>2 DEF ReplyInv, Latched
    <2>6. HandlerInv'
      BY <1>2, <2>1, <2>2, <2>3, <2>4 DEF ReplyInv, HandlerInv
    <2>7. TerminalInv'
      BY <1>1, <1>3, <2>1, <2>2, <2>4 DEF ReplyInv, TerminalInv
    <2>8. AckInv' /\ CommitInv'
      BY <1>3 DEF ReplyInv, AckInv, CommitInv
    <2> QED BY <2>5, <2>6, <2>7, <2>8 DEF ReplyInv
  <1> QED BY <1>4, <1>5

(* A terminal is the last chunk of the queue. *)
LEMMA TerminalLast ==
  ASSUME ReplyInv
  PROVE  \A n \in 1 .. Len(body) : body[n].kind = "terminal" =>
           n = Len(body) /\ worker = "ack" /\ ack = "none" /\ body[n].attempt = attempt
  BY DEF ReplyInv, TerminalInv, Latched

(* The next chunk leaves the queue and is not written: the peer is gone,   *)
(* or the chunk only ends the loop.                                        *)
LEMMA DropStep ==
  ASSUME ReplyInv, Types', body # << >>, body' = Tail(body), handler = "writing",
         handler' \in {"writing", "ending"},
         UNCHANGED << mode, worker, attempt, latches, out, pending_ack, control, kept >>,
         ack' = IF Head(body).kind = "terminal" THEN "err" ELSE ack
  PROVE  ReplyInv'
  <1>1. Types
    BY DEF ReplyInv
  <1>2. /\ Head(body) = body[1] /\ 1 \in 1 .. Len(body)
        /\ Len(body') = Len(body) - 1 /\ Len(body) \in Nat
        /\ \A i \in 1 .. Len(body') : body'[i] = body[i + 1] /\ i + 1 \in 1 .. Len(body)
    BY <1>1, TailAt DEF Types, Queues
  <1>3. TerminalOut' <=> TerminalOut
    BY DEF TerminalOut
  <1>4. Latched(body)' /\ Latched(out)'
    BY <1>2 DEF ReplyInv, Latched
  <1>5. HandlerInv'
    BY DEF ReplyInv, HandlerInv
  <1>6. Head(body).kind = "terminal" => Len(body') = 0
    <2>1. Head(body).kind = "terminal" => 1 = Len(body)
      BY <1>2, TerminalLast
    <2> QED BY <1>2, <2>1
  <1>7. TerminalInv'
    <2>1. ASSUME NEW n \in 1 .. Len(body')
          PROVE  /\ mode = "plain" => body'[n].kind = "terminal"
                 /\ body'[n].kind = "terminal" =>
                      n = Len(body') /\ worker = "ack" /\ ack = "none" /\ ~ TerminalOut
                 /\ TerminalOut => body'[n].kind \in {"empty", "fail"}
      <3>1. body'[n] = body[n + 1] /\ n + 1 \in 1 .. Len(body)
        BY <1>2
      <3>2. /\ mode = "plain" => body[n + 1].kind = "terminal"
            /\ body[n + 1].kind = "terminal" =>
                 n + 1 = Len(body) /\ worker = "ack" /\ ack = "none" /\ ~ TerminalOut
            /\ TerminalOut => body[n + 1].kind \in {"empty", "fail"}
        BY <3>1 DEF ReplyInv, TerminalInv
      <3> QED BY <1>2, <3>1, <3>2
    <2> QED BY <1>3, <1>6, <2>1 DEF ReplyInv, TerminalInv
  <1>8. AckInv'
    <2>1. Head(body).kind = "terminal" => worker = "ack"
      BY <1>2 DEF ReplyInv, TerminalInv
    <2> QED BY <1>3, <2>1 DEF ReplyInv, AckInv
  <1>9. CommitInv'
    BY <1>3 DEF ReplyInv, CommitInv
  <1> QED BY <1>4, <1>5, <1>7, <1>8, <1>9 DEF ReplyInv

\* The next chunk is written; a terminal is acknowledged at once, or by the next read.
Moved ==
  /\ body # << >> /\ body' = Tail(body) /\ out' = Append(out, Head(body))
  /\ Head(body).kind \in {"role", "delta", "terminal"}
  /\ handler \in {"writing", "reading"} /\ handler' = handler
  /\ UNCHANGED << mode, worker, attempt, latches, control, kept >>
  /\ \/ handler = "writing" /\ pending_ack' = pending_ack
          /\ ack' = (IF Head(body).kind = "terminal" THEN "ok" ELSE ack)
     \/ handler = "reading" /\ pending_ack' /\ ack' = ack

(* Handing a chunk on keeps the invariant. *)
LEMMA MoveStep ==
  ASSUME ReplyInv, Types', Moved
  PROVE  ReplyInv'
  <1>0. /\ handler \in {"writing", "reading"}
        /\ UNCHANGED << handler, mode, worker, attempt, latches, control, kept >>
        /\ Head(body).kind \in {"role", "delta", "terminal"}
    BY DEF Moved
  <1>1. Types /\ Head(body) \in Handed
    <2>1. Types /\ Head(body) \in Chunks
      BY StringQueues DEF ReplyInv, Moved
    <2> QED BY <1>0, <2>1 DEF Chunks, Handed
  <1>2. /\ Head(body) = body[1] /\ 1 \in 1 .. Len(body)
        /\ Len(body') = Len(body) - 1 /\ Len(body) \in Nat
        /\ \A i \in 1 .. Len(body') : body'[i] = body[i + 1] /\ i + 1 \in 1 .. Len(body)
    BY <1>1, TailAt DEF Types, Queues, Moved
  <1>3. /\ Len(out') = Len(out) + 1 /\ Len(out) \in Nat /\ out' # << >>
        /\ out'[Len(out')] = body[1]
        /\ \A n \in 1 .. Len(out') : \/ n \in 1 .. Len(out) /\ n # Len(out') /\ out'[n] = out[n]
                                     \/ n = Len(out') /\ out'[n] = body[1]
        /\ \A n \in 1 .. Len(out) : n \in 1 .. Len(out') /\ out'[n] = out[n]
    BY <1>1, <1>2, HandedAt DEF Moved
  <1>4. ~ TerminalOut
    BY <1>0, <1>2 DEF ReplyInv, TerminalInv
  <1>5. \A n \in 1 .. Len(out) : out[n].kind # "terminal"
    <2>1. out \in Seq(Handed)
      BY <1>1 DEF Types, Queues
    <2>2. \A n \in 1 .. Len(out) : out[n] \in Handed
      BY <2>1, ElementOfSeq
    <2>3. \A n \in 1 .. Len(out) : out[n].kind = "terminal" =>
            out[n] = [kind |-> "terminal", attempt |-> attempt]
      BY <2>2 DEF ReplyInv, Latched, Handed
    <2> QED BY <1>4, <2>3 DEF TerminalOut
  <1>6. Latched(body)' /\ Latched(out)'
    <2>1. Latched(body)'
      BY <1>0, <1>2 DEF ReplyInv, Latched
    <2>2. \A n \in 1 .. Len(out') : (\E m \in 1 .. Len(out) : out'[n] = out[m]) \/ out'[n] = body[1]
      BY <1>3
    <2>3. Latched(out)'
      BY <1>0, <1>2, <2>2 DEF ReplyInv, Latched
    <2> QED BY <2>1, <2>3
  <1>7. HandlerInv'
    <2>1. handler # "closed" /\ body[1].kind \notin {"200", "error", "eof"}
      BY <1>0, <1>2
    <2>2. \A n \in 1 .. Len(out) : out[n].kind \notin {"error", "eof"}
      BY <1>0 DEF ReplyInv, HandlerInv
    <2> QED BY <1>0, <1>3, <2>1, <2>2 DEF ReplyInv, HandlerInv
  <1>8. CASE Head(body).kind = "terminal"
    <2>1. /\ Len(body') = 0 /\ worker = "ack" /\ ack = "none"
          /\ body[1].attempt = attempt
      <3>1. 1 = Len(body) /\ worker = "ack" /\ ack = "none" /\ body[1].attempt = attempt
        BY <1>2, <1>8, TerminalLast
      <3>2. Len(body') = Len(body) - 1
        BY <1>2
      <3>3. Len(body') = 0
        BY <3>1, <3>2
      <3> QED BY <3>1, <3>3
    <2>2. TerminalOut'
      <3>1. body[1] = [kind |-> "terminal", attempt |-> attempt]
        BY <1>1, <1>2, <1>8, <2>1 DEF Handed
      <3>2. Len(out') \in 1 .. Len(out')
        BY <1>3
      <3> QED BY <1>0, <1>3, <3>1, <3>2 DEF TerminalOut
    <2>3. TerminalInv'
      <3>1. \A n, m \in 1 .. Len(out') : out'[n].kind = "terminal" /\ m > n => FALSE
        BY <1>3, <1>5
      <3>2. \A n \in 1 .. Len(body') : FALSE
        BY <2>1
      <3>3. worker' = "ack"
        BY <1>0, <2>1
      <3> QED BY <3>1, <3>2, <3>3 DEF TerminalInv
    <2>4. AckInv'
      BY <1>0, <1>8, <2>1, <2>2 DEF ReplyInv, AckInv, Moved
    <2>5. CommitInv'
      BY <1>0, <2>2 DEF ReplyInv, CommitInv
    <2> QED BY <1>6, <1>7, <2>3, <2>4, <2>5 DEF ReplyInv
  <1>9. CASE Head(body).kind # "terminal"
    <2>1. ~ TerminalOut'
      <3>1. body[1] # [kind |-> "terminal", attempt |-> attempt]
        BY <1>2, <1>9
      <3> QED BY <1>0, <1>3, <1>4, <3>1 DEF TerminalOut
    <2>2. handler = "writing"
      BY <1>0, <1>2, <1>9 DEF ReplyInv, HandlerInv, TerminalInv
    <2>3. TerminalInv'
      <3>1. \A n \in 1 .. Len(out') : out'[n].kind # "terminal"
        BY <1>2, <1>3, <1>5, <1>9
      <3>2. ASSUME NEW n \in 1 .. Len(body'), body'[n].kind = "terminal"
            PROVE  n = Len(body') /\ worker = "ack" /\ ack = "none"
        <4>1. body'[n] = body[n + 1] /\ n + 1 \in 1 .. Len(body)
          BY <1>2
        <4>2. n + 1 = Len(body) /\ worker = "ack" /\ ack = "none"
          BY <3>2, <4>1, TerminalLast
        <4> QED BY <1>2, <4>2
      <3>3. \A n \in 1 .. Len(body') : mode = "plain" => body'[n].kind = "terminal"
        BY <1>0, <1>2 DEF ReplyInv, TerminalInv
      <3>4. ack' = ack
        BY <1>9, <2>2 DEF Moved
      <3> QED BY <1>0, <2>1, <3>1, <3>2, <3>3, <3>4 DEF ReplyInv, TerminalInv
    <2>4. AckInv' /\ CommitInv'
      BY <1>0, <1>4, <1>9, <2>1, <2>2 DEF ReplyInv, AckInv, CommitInv, Moved
    <2> QED BY <1>6, <1>7, <2>3, <2>4 DEF ReplyInv
  <1> QED BY <1>8, <1>9

(* The handler keeps the invariant. *)
LEMMA HandlerKeeps ==
  ASSUME ReplyInv, Handler
  PROVE  ReplyInv'
  <1>1. Types /\ Types'
    BY HandlerTypes DEF ReplyInv
  <1>2. UNCHANGED << mode, worker, attempt, latches, control, kept >>
    BY DEF Handler, call, daemon
  <1>3. handler \in {"headers", "status"} => out = << >>
    BY DEF ReplyInv, HandlerInv
  <1>4. CASE WriteHeaders
    <2>1. CASE out' = Append(out, Plain("200")) /\ handler' = "writing" /\ UNCHANGED body
      BY <1>1, <1>2, <1>3, <1>4, <2>1, StatusStep DEF WriteHeaders
    <2>2. CASE Close /\ UNCHANGED out
      BY <1>1, <1>2, <1>4, <2>2, CloseStep DEF WriteHeaders, Close, ReplyInv, AckInv
    <2> QED BY <1>4, <2>1, <2>2 DEF WriteHeaders, Write, NoWrite
  <1>5. CASE WriteChunk
    <2>1. CASE out' = Append(out, Head(body)) /\ UNCHANGED handler
               /\ Head(body).kind \in {"role", "delta", "terminal"}
               /\ ack' = IF Head(body).kind = "terminal" THEN "ok" ELSE ack
      BY <1>1, <1>2, <1>5, <2>1, MoveStep DEF WriteChunk, Moved
    <2>2. CASE /\ out' = out /\ handler' \in {"writing", "ending"}
               /\ ack' = IF Head(body).kind = "terminal" THEN "err" ELSE ack
      BY <1>1, <1>2, <1>5, <2>2, DropStep DEF WriteChunk
    <2> QED BY <1>5, <2>1, <2>2 DEF WriteChunk, Write, NoWrite
  <1>6. CASE ChannelClosed
    <2>1. Latched(body)' /\ Latched(out)'
      BY <1>2, <1>6 DEF ChannelClosed, channel, ReplyInv, Latched
    <2>2. HandlerInv'
      BY <1>2, <1>6 DEF ChannelClosed, channel, ReplyInv, HandlerInv
    <2>3. TerminalOut' <=> TerminalOut
      BY <1>2, <1>6 DEF ChannelClosed, TerminalOut
    <2>4. TerminalInv' /\ AckInv' /\ CommitInv'
      BY <1>2, <1>6, <2>3 DEF ChannelClosed, channel, ReplyInv, TerminalInv, AckInv, CommitInv
    <2> QED BY <1>1, <2>1, <2>2, <2>4 DEF ReplyInv
  <1>7. CASE Terminate
    <2>1. ~ pending_ack
      BY <1>7 DEF Terminate, ReplyInv, AckInv
    <2> QED BY <1>1, <1>2, <1>7, <2>1, CloseStep DEF Terminate, Close, Write, NoWrite
  <1>8. CASE TakeStatus
    <2>1. ~ pending_ack /\ (handler = "status" => mode = "plain")
      BY <1>8 DEF TakeStatus, ReplyInv, AckInv, HandlerInv
    <2>2. CASE out' = Append(out, Plain("200")) /\ handler' = "reading" /\ UNCHANGED body
      BY <1>1, <1>2, <1>3, <1>8, <2>1, <2>2, StatusStep DEF TakeStatus
    <2>3. CASE Close /\ (out' = Append(out, Plain("error")) \/ UNCHANGED out)
      BY <1>1, <1>2, <1>3, <1>8, <2>1, <2>3, CloseStep DEF TakeStatus, Close
    <2> QED BY <1>8, <2>2, <2>3 DEF TakeStatus, Write, Give, NoWrite
  <1>9. CASE ReadBody
    <2>1. Head(body).kind = "terminal"
      BY <1>1, <1>9, TailAt DEF ReadBody, ReplyInv, HandlerInv, TerminalInv, Types, Queues
    <2> QED BY <1>1, <1>2, <1>9, <2>1, MoveStep DEF ReadBody, Give, Moved
  <1>10. CASE ReadNext
    <2>1. Latched(body)' /\ Latched(out)' /\ HandlerInv'
      BY <1>2, <1>10 DEF ReadNext, ReplyInv, Latched, HandlerInv
    <2>2. TerminalOut' <=> TerminalOut
      BY <1>2, <1>10 DEF ReadNext, TerminalOut
    <2>3. TerminalInv' /\ AckInv' /\ CommitInv'
      BY <1>2, <1>10, <2>2 DEF ReadNext, ReplyInv, TerminalInv, AckInv, CommitInv
    <2> QED BY <1>1, <2>1, <2>3 DEF ReplyInv
  <1>11. CASE ReadEof
    <2>1. mode = "plain"
      BY <1>11 DEF ReadEof, ReplyInv, HandlerInv
    <2> QED BY <1>1, <1>2, <1>11, <2>1, CloseStep DEF ReadEof, Give, channel
  <1>12. CASE DropReader
    BY <1>1, <1>2, <1>12, CloseStep DEF DropReader, Close, NoWrite
  <1>13. CASE LibraryWrites
    <2>1. latches.ready => worker \notin {"begin", "attempt", "generating"}
      BY DEF ReplyInv, TerminalInv
    <2> QED BY <1>1, <1>2, <1>13, <2>1, QuietStep DEF LibraryWrites, channel
  <1>14. CASE Flush
    <2>1. ~ pending_ack
      BY <1>14 DEF Flush, ReplyInv, AckInv
    <2> QED BY <1>1, <1>2, <1>14, <2>1, CloseStep DEF Flush, Close, NoWrite
  <1> QED BY <1>4, <1>5, <1>6, <1>7, <1>8, <1>9, <1>10, <1>11, <1>12, <1>13, <1>14 DEF Handler

-----------------------------------------------------------------------------
(* The daemon, and the theorems *)

(* The daemon keeps the attempt that its commit is for. *)
LEMMA DaemonKeeps ==
  ASSUME ReplyInv, Daemon
  PROVE  ReplyInv'
  <1>1. Types /\ Types'
    BY DaemonTypes DEF ReplyInv
  <1>2. UNCHANGED << mode, worker, call, channel, http >>
    BY DEF Daemon
  <1>3. UNCHANGED << mode, worker, attempt, latches, body, ack, handler, pending_ack, out >>
    BY <1>2 DEF call, channel, http
  <1>4. latches.ready => worker \notin {"begin", "attempt", "generating"}
    BY DEF ReplyInv, TerminalInv
  <1>5. CASE control' = control /\ kept' = kept
    BY <1>1, <1>3, <1>4, <1>5, QuietStep
  <1>6. CASE DaemonControl
    <2>1. /\ Head(control) = control[1] /\ 1 \in 1 .. Len(control)
          /\ \A i \in 1 .. Len(control') : control'[i] = control[i + 1]
                                             /\ i + 1 \in 1 .. Len(control)
      BY <1>1, <1>6, TailAt DEF DaemonControl, Types, Queues
    <2>2. \A n \in 1 .. Len(control') : control'[n] = "commit" =>
            \E m \in 1 .. Len(control) : control[m] = "commit"
      BY <2>1
    <2>3. CASE kept' = kept
      BY <1>1, <1>3, <1>4, <2>2, <2>3, QuietStep
    <2>4. CASE Head(control) = "commit" /\ kept' = kept \cup {attempt}
      <3>1. latches.ready /\ TerminalOut
        BY <2>1, <2>4 DEF ReplyInv, CommitInv
      <3>2. TerminalOut' <=> TerminalOut
        BY <1>3 DEF TerminalOut
      <3>3. kept' = {attempt}
        BY <2>4 DEF ReplyInv, CommitInv
      <3>4. CommitInv'
        BY <1>3, <3>1, <3>2, <3>3 DEF CommitInv
      <3>5. Latched(body)' /\ Latched(out)' /\ HandlerInv'
        BY <1>3 DEF ReplyInv, Latched, HandlerInv
      <3>6. TerminalInv' /\ AckInv'
        BY <1>3, <3>2 DEF ReplyInv, TerminalInv, AckInv
      <3> QED BY <1>1, <3>4, <3>5, <3>6 DEF ReplyInv
    <2> QED BY <1>6, <2>3, <2>4 DEF DaemonControl
  <1> QED BY <1>5, <1>6 DEF Daemon, Works, DaemonStart, DaemonReady, DaemonToken, DaemonFails,
                            DaemonDeadline, DaemonDies

(* Every step keeps the invariant. *)
LEMMA StepInv ==
  ASSUME ReplyInv, [Next]_vars
  PROVE  ReplyInv'
  <1>1. CASE Worker \/ WorkerDies
    BY <1>1, WorkerInv
  <1>2. CASE Handler
    BY <1>2, HandlerKeeps
  <1>3. CASE Daemon
    BY <1>3, DaemonKeeps
  <1>4. CASE Disconnect \/ UNCHANGED vars
    <2>1. UNCHANGED << mode, worker, call, channel, handler, pending_ack, out, written, daemon >>
            /\ peer' \in {peer, "gone"}
      BY <1>4 DEF Disconnect, vars, http
    <2>2. UNCHANGED << mode, worker, attempt, latches, contract, held, error, body, status, ack,
                       handler, pending_ack, out, dm, events, control, kept >>
      BY <2>1 DEF call, channel, daemon
    <2>3. Types'
      <3>1. Queues'
        BY <2>2 DEF ReplyInv, Types, Queues
      <3>2. Scalars'
        BY <2>1, <2>2 DEF ReplyInv, Types, Scalars
      <3> QED BY <3>1, <3>2 DEF Types
    <2>4. latches.ready => worker \notin {"begin", "attempt", "generating"}
      BY DEF ReplyInv, TerminalInv
    <2> QED BY <2>2, <2>3, <2>4, QuietStep
  <1> QED BY <1>1, <1>2, <1>3, <1>4 DEF Next

(* The invariant is inductive. *)
THEOREM ReplyInvariant == Spec => []ReplyInv
  <1>1. Init => ReplyInv
    BY InitInv
  <1>2. ReplyInv /\ [Next]_vars => ReplyInv'
    BY StepInv
  <1> QED BY <1>1, <1>2, PTL DEF Spec

-----------------------------------------------------------------------------
(* What the socket took *)

(* The handler and the library write nothing twice and, but for a peer     *)
(* that is gone, leave nothing unwritten behind.                           *)
LEMMA HandlerWrites ==
  ASSUME ReplyInv, WrittenInv, Handler
  PROVE  WrittenInv'
  <1>1. /\ Len(out) \in Nat /\ UNCHANGED << mode, peer >>
        /\ \A i \in Handed : Len(Append(out, i)) = Len(out) + 1
    BY AppendAt, LenProperties DEF ReplyInv, Types, Queues, Handler
  <1>2. \A k \in {"200", "error", "eof"} : Plain(k) \in Handed
    BY SentTypes DEF ReplyInv
  <1>3. CASE NoWrite /\ (handler' # "closed" \/ handler = "closed" \/ Lost)
    BY <1>1, <1>3 DEF WrittenInv, NoWrite, Lost
  <1>4. CASE \E i : Write(i)
    <2>1. written' = Len(out')
      BY <1>4 DEF Write
    <2>2. Len(out') \in Nat
      BY HandlerTypes, LenProperties DEF Types, Queues
    <2> QED BY <2>1, <2>2 DEF WrittenInv
  <1>5. CASE /\ \E i \in Handed : Give(i)
             /\ mode = "plain" /\ handler' # "closed"
    <2>1. Len(out') = Len(out) + 1 /\ written' = written
      BY <1>1, <1>5 DEF Give
    <2>2. mode # "stream"
      BY <1>5
    <2> QED BY <1>1, <1>5, <2>1, <2>2 DEF WrittenInv
  <1>6. CASE LibraryWrites
    <2>1. /\ mode # "stream" /\ handler' # "closed" /\ out' = out
          /\ written < Len(out) /\ written' = written + 1
      BY <1>6 DEF LibraryWrites, ReplyInv, HandlerInv
    <2> QED BY <1>1, <2>1 DEF WrittenInv
  <1>7. CASE Flush
    <2>1. mode # "stream" /\ NoWrite /\ (written = Len(out) \/ Lost)
      BY <1>7 DEF Flush, ReplyInv, HandlerInv
    <2> QED BY <1>1, <2>1 DEF WrittenInv, NoWrite, Lost
  <1>8. CASE WriteHeaders \/ WriteChunk \/ ChannelClosed \/ Terminate
    BY <1>3, <1>4, <1>8 DEF WriteHeaders, WriteChunk, ChannelClosed, Terminate, NoWrite
  <1>9. CASE TakeStatus
    <2>1. mode = "plain"
      BY <1>9 DEF TakeStatus, ReplyInv, HandlerInv
    <2> QED BY <1>2, <1>3, <1>4, <1>5, <1>9, <2>1 DEF TakeStatus
  <1>10. CASE ReadBody
    <2>1. /\ mode = "plain" /\ handler' = "reading" /\ body # << >>
          /\ out' = Append(out, Head(body)) /\ Give(Head(body))
      BY <1>10 DEF ReadBody, Give, ReplyInv, HandlerInv
    <2>2. Head(body).kind = "terminal" /\ Head(body) \in Chunks
      BY <2>1, TailAt, StringQueues DEF ReplyInv, TerminalInv, Types, Queues
    <2>3. Head(body) \in Handed
      BY <2>2 DEF Chunks, Handed
    <2> QED BY <1>5, <2>1, <2>3
  <1>11. CASE ReadNext \/ DropReader
    BY <1>3, <1>11 DEF ReadNext, DropReader, NoWrite
  <1>12. CASE ReadEof
    <2>1. mode = "plain"
      BY <1>12 DEF ReadEof, ReplyInv, HandlerInv
    <2> QED BY <1>2, <1>5, <1>12, <2>1 DEF ReadEof
  <1> QED BY <1>6, <1>7, <1>8, <1>9, <1>10, <1>11, <1>12 DEF Handler

(* Nobody else writes. *)
LEMMA StepWrites ==
  ASSUME ReplyInv, WrittenInv, [Next]_vars
  PROVE  WrittenInv'
  <1>1. CASE Handler
    BY <1>1, HandlerWrites
  <1>2. CASE Disconnect
    BY <1>2 DEF Disconnect, WrittenInv
  <1>3. CASE Worker \/ WorkerDies \/ Daemon \/ UNCHANGED vars
    <2>1. UNCHANGED << mode, http >>
      BY <1>3 DEF Worker, WorkerDies, Daemon, Begin, StartAttempt, HearStart, HearToken, HearBadCall,
                  HearReady, HearAck, Drain, DecideRetry, Finish, vars
    <2> QED BY <2>1 DEF http, WrittenInv
  <1> QED BY <1>1, <1>2, <1>3 DEF Next

(* What the socket took is a part of what was handed over, and when it is  *)
(* all of it.                                                              *)
THEOREM WrittenInvariant == Spec => []WrittenInv
  <1>1. Init => WrittenInv
    BY EmptySeq DEF Init, WrittenInv
  <1>2. ReplyInv /\ WrittenInv /\ [Next]_vars => WrittenInv'
    BY StepWrites
  <1> QED BY <1>1, <1>2, ReplyInvariant, PTL DEF Spec

-----------------------------------------------------------------------------
(* The properties *)

(* Type correctness of the worker, the handler and the daemon's attempt. *)
THEOREM TypeCorrect == Spec => []TypeOK
  <1>1. ReplyInv /\ WrittenInv => TypeOK
    BY TypesImply DEF ReplyInv
  <1> QED BY <1>1, ReplyInvariant, WrittenInvariant, PTL

(* respond_streaming and respond_nonstreaming give the peer one reply:     *)
(* one status first, the text of a single attempt, a terminal at most once *)
(* and nothing but the end behind it, whatever was retried or failed.      *)
THEOREM OneReplyHolds == Spec => []OneReply
  <1>1. ASSUME ReplyInv PROVE OneReply
    <2>1. DOMAIN out = 1 .. Len(out) /\ Len(out) \in Nat
      BY <1>1, LenProperties DEF ReplyInv, Types, Queues
    <2>2. /\ \A n \in DOMAIN out : out[n].kind \in {"200", "error"} => n = 1
          /\ \A n \in DOMAIN out : out[n].kind \in {"error", "eof"} => n = Len(out)
      BY <1>1, <2>1 DEF ReplyInv, HandlerInv
    <2>3. \A n, m \in DOMAIN out : out[n].kind = "terminal" /\ m > n => out[m].kind = "eof"
      BY <1>1, <2>1 DEF ReplyInv, TerminalInv
    <2>4. \A n \in DOMAIN out : out[n].kind \in {"delta", "terminal"} => out[n].attempt = attempt
      BY <1>1, <2>1 DEF ReplyInv, Latched
    <2> QED BY <2>2, <2>3, <2>4 DEF OneReply
  <1> QED BY <1>1, ReplyInvariant, PTL

(* The two-phase end: what the daemon keeps, at most one attempt, was     *)
(* handed over to its terminal; of a stream the socket has it all, of a    *)
(* plain reply the HTTP library, and the socket when the handler has ended *)
(* with the peer still there.                                              *)
THEOREM KeptMeansHandedOverHolds == Spec => []KeptMeansHandedOver
  <1>1. ASSUME ReplyInv, WrittenInv PROVE KeptMeansHandedOver
    <2>1. DOMAIN out = 1 .. Len(out) /\ Len(out) \in Nat
      BY <1>1, LenProperties DEF ReplyInv, Types, Queues
    <2>2. ASSUME NEW a \in kept
          PROVE  \E n \in DOMAIN out :
                   /\ out[n] = [kind |-> "terminal", attempt |-> a]
                   /\ mode = "stream" \/ (handler = "closed" /\ peer = "reading") => n <= written
      <3>1. a = attempt /\ TerminalOut
        BY <1>1, <2>2 DEF ReplyInv, CommitInv
      <3>2. PICK n \in 1 .. Len(out) : out[n] = [kind |-> "terminal", attempt |-> attempt]
        BY <3>1 DEF TerminalOut
      <3>3. mode = "stream" \/ (handler = "closed" /\ peer = "reading") => n <= written
        <4>1. mode = "stream" \/ (handler = "closed" /\ peer = "reading") => written = Len(out)
          BY <1>1 DEF WrittenInv
        <4>2. n <= Len(out)
          BY <2>1
        <4> QED BY <4>1, <4>2
      <3> QED BY <2>1, <3>1, <3>2, <3>3
    <2>3. Cardinality(kept) <= 1
      <3>1. CASE kept = {}
        BY <3>1, FS_EmptySet
      <3>2. CASE kept = {attempt}
        <4>1. Cardinality({attempt}) = 1
          BY FS_Singleton, Zenon
        <4> QED BY <3>2, <4>1
      <3> QED BY <1>1, <3>1, <3>2 DEF ReplyInv, CommitInv
    <2> QED BY <2>2, <2>3 DEF KeptMeansHandedOver
  <1> QED BY <1>1, ReplyInvariant, WrittenInvariant, PTL
=============================================================================
