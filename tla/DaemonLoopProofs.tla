-------------------------- MODULE DaemonLoopProofs --------------------------
(***************************************************************************)
(* Proofs about DaemonLoop for any number of keys and lanes, every request *)
(* a client may make and every sequence of aborts, deadlines and failures. *)
(***************************************************************************)
EXTENDS DaemonLoop, QueueFacts

(* Types *)

Asks == {"generate", "command"}
Lines == [kind : Asks \cup {"commit", "abort"}, key : Keys]
Halves == {NoLine} \cup [kind : {"commit", "abort"}, key : Keys]
Entries == [state : {"absent", "announced", "queued", "active", "ready"}, owner : Nat,
            abort : BOOLEAN, commit : BOOLEAN]
Lanes == [phase : {"empty", "running", "awaiting"}, key : Keys \cup {NoKey}, gen : Nat,
          left : Int, late : BOOLEAN]
AllRequests == UNION {Requests[k] : k \in Keys}

Events == {"start", "ready", "done", "cancelled", "error", "ack"}

\* The transcripts of a request that waits, runs, awaits its client, and has ended.
Silent == << >>
Started == << "start" >>
Ready == << "start", "ready" >>
Done == << "start", "ready", "done" >>
Ended == {<< "ack" >>, << "error" >>, << "start", "cancelled" >>, << "start", "error" >>,
          << "start", "ready", "cancelled" >>, << "start", "ready", "error" >>,
          Done}
Transcripts == {Silent, Started, Ready} \cup Ended

QueueTypes ==
  /\ wire \in Seq(Lines) /\ chan \in Seq(Keys) /\ backlog \in Seq(Keys) /\ Len(backlog) <= 1
  /\ queue \in Seq(Keys)

MapTypes ==
  /\ req \in [Keys -> AllRequests \cup {NoRequest}]
  /\ \A k \in Keys : req[k] \in Requests[k] \cup {NoRequest}
  /\ reg \in [Keys -> Entries]
  /\ lanes \in [LaneIds -> Lanes]
  /\ said \in [Keys -> Transcripts]
  /\ heard \in [Keys -> Nat]
  /\ cl \in [Keys -> {"new", "waiting", "committed", "aborting", "done", "failed", "closed"}]

CellTypes ==
  /\ single \in [key : Keys \cup {NoKey}, ready : BOOLEAN, decision : {"none", "abort", "commit"}]
  /\ gen \in Nat \ {0}
  /\ pc \in {"outer", "check", "clear", "transfer", "seq", "seq_wait", "poll", "settle", "cull",
             "drain", "assign", "step", "emit", "sample"}
  /\ cur \in [key : Keys \cup {NoKey}, left : Int]
  /\ doomed \subseteq LaneIds /\ agreed \subseteq LaneIds /\ ended \subseteq LaneIds

-----------------------------------------------------------------------------
(* Where a key is *)

\* Keys whose generate or command is still on the wire, and those in the inbox.
OnWire == {wire[n].key : n \in {m \in 1 .. Len(wire) : wire[m].kind \in Asks}}
InInbox == ToSet(backlog) \cup ToSet(chan)

\* A key is asked for once; until its turn comes nothing is said to it, and the
\* batch does not know it.
InboxInv ==
  /\ \A m, n \in 1 .. Len(wire) :
       wire[m].kind \in Asks /\ wire[n].kind \in Asks /\ wire[m].key = wire[n].key => m = n
  /\ OnWire \cap InInbox = {}
  /\ Distinct(chan) /\ ToSet(backlog) \cap ToSet(chan) = {}
  /\ \A k \in OnWire \cup InInbox :
       said[k] = Silent /\ req[k] \in Requests[k] /\ reg[k].state \in {"absent", "announced"}
  /\ \A k \in OnWire : reg[k] = NoEntry
  /\ \A k \in Keys : cl[k] = "new" =>
       k \notin OnWire \cup InInbox /\ said[k] = Silent /\ reg[k] = NoEntry

\* The queue and the lanes hold different keys, all of them batch requests that were
\* told of their start; the lanes that wait for a client, of their commit_ready.
LaneInv ==
  /\ Distinct(queue)
  /\ \A k \in ToSet(queue) : said[k] = Started /\ req[k] \in Requests[k]
  /\ \A i \in Occupied :
       /\ lanes[i].key \in Keys /\ lanes[i].key \notin ToSet(queue)
       /\ lanes[i].gen < gen
       /\ req[lanes[i].key] \in Requests[lanes[i].key] /\ req[lanes[i].key].cohort = cohort
       /\ said[lanes[i].key] = IF lanes[i].phase = "running" THEN Started ELSE Ready
       /\ \A j \in Occupied : lanes[j].key = lanes[i].key => j = i

\* The registry knows a key as what it is, by the ticket of its lane, or not at all.
RegInv ==
  /\ \A k \in Keys :
       /\ reg[k].state = "absent" => reg[k] = NoEntry
       /\ reg[k].state \notin {"active", "ready"} => reg[k].owner = 0
       /\ reg[k].commit => reg[k].state = "ready"
       /\ reg[k].state = "queued" => k \in ToSet(queue)
       /\ reg[k].state \in {"active", "ready"} =>
            \E i \in Occupied :
              /\ lanes[i].key = k /\ reg[k].owner = lanes[i].gen
              /\ reg[k].state = IF lanes[i].phase = "running" THEN "active" ELSE "ready"
  /\ \A k \in ToSet(queue) : reg[k].state \in {"absent", "queued"}
  /\ \A i \in Occupied : reg[lanes[i].key].state \in {"absent", "active", "ready"}

\* What each phase of the driver has picked out, and what the sequential route works on.
PhaseInv ==
  /\ pc \notin {"settle", "cull", "emit"} => doomed = {}
  /\ pc # "settle" => agreed = {}
  /\ pc # "emit" => ended = {}
  /\ pc = "settle" => doomed \cup agreed \subseteq In("awaiting") /\ doomed \cap agreed = {}
  /\ pc = "cull" => doomed \subseteq In("running")
  /\ pc = "emit" => doomed \cup ended \subseteq In("running") /\ doomed \cap ended = {}

MainInv ==
  /\ pc \in {"outer", "check", "clear", "transfer", "seq", "seq_wait"} =>
       Occupied = {} /\ queue = << >>
  /\ pc \in {"check", "clear", "transfer"} =>
       /\ cur.key \in Keys /\ single.key = cur.key /\ said[cur.key] = Silent
       /\ cur.key \notin OnWire \cup InInbox /\ cl[cur.key] # "new"
  /\ pc \in {"seq", "seq_wait"} =>
       /\ cur.key \in Keys /\ single.key = cur.key
       /\ said[cur.key] = IF pc = "seq" THEN Started ELSE Ready

\* A commit, on the wire, half applied or in either control plane, is its client's word.
Agreeing == {"committed", "done", "failed", "closed"}
ClientInv ==
  /\ \A n \in 1 .. Len(wire) : wire[n].kind = "commit" => cl[wire[n].key] \in Agreeing
  /\ half \in Halves /\ (half.kind = "commit" => half.key \in Keys /\ cl[half.key] \in Agreeing)
  /\ \A k \in Keys : reg[k].commit => cl[k] \in Agreeing
  /\ single.decision = "commit" => single.key \in Keys /\ cl[single.key] \in Agreeing
  /\ \A k \in Keys :
       /\ said[k] = Done => cl[k] \in {"committed", "done", "closed"}
       /\ cl[k] = "failed" => said[k] \in Ended
       /\ cl[k] = "committed" => heard[k] >= 2

DaemonInv ==
  /\ QueueTypes /\ MapTypes /\ CellTypes
  /\ InboxInv /\ LaneInv /\ RegInv /\ PhaseInv /\ MainInv /\ ClientInv

-----------------------------------------------------------------------------
(* Transcripts *)

(* The transcripts are told apart. *)
LEMMA TranscriptsDiffer ==
  /\ Silent # Started /\ Silent # Ready /\ Started # Ready
  /\ Silent \notin Ended /\ Started \notin Ended /\ Ready \notin Ended
  /\ Done \in Ended
  BY DEF Silent, Started, Ready, Done, Ended

(* One event more. *)
LEMMA TranscriptsGrow ==
  /\ Silent \o << "start" >> = Started /\ Started \o << "ready" >> = Ready
  /\ Ready \o << >> = Ready /\ Ready \o << "done" >> = Done
  /\ Silent \o << "ack" >> \in Ended \ {Done} /\ Silent \o << "error" >> \in Ended \ {Done}
  /\ Silent \o << "start", "cancelled" >> \in Ended \ {Done}
  /\ Started \o << "cancelled" >> \in Ended \ {Done} /\ Started \o << "error" >> \in Ended \ {Done}
  /\ Ready \o << "cancelled" >> \in Ended \ {Done} /\ Ready \o << "error" >> \in Ended \ {Done}
  <1>1. \A e \in Events : Silent \o << e >> = << e >>
    BY ConcatNone DEF Silent, Events
  <1>2. \A e \in Events : Started \o << e >> = << "start", e >>
    BY ConcatPair DEF Started, Events
  <1>3. \A e \in Events : Ready \o << e >> = << "start", "ready", e >>
    BY ConcatThird DEF Ready, Events
  <1>4. Silent \o << "start", "cancelled" >> = << "start", "cancelled" >>
    <2>1. << "start", "cancelled" >> \in Seq(Events)
      BY DEF Events
    <2> QED BY <2>1, ConcatEmptySeq DEF Silent
  <1>5. Ready \o << >> = Ready
    <2>1. Ready \in Seq(Events)
      BY DEF Ready, Events
    <2> QED BY <2>1, ConcatEmptySeq
  <1>6. /\ Silent \o << "start" >> = Started /\ Started \o << "ready" >> = Ready
        /\ Ready \o << "done" >> = Done
    BY <1>1, <1>2, <1>3 DEF Started, Ready, Done, Events
  <1>7. /\ Silent \o << "ack" >> \in Ended \ {Done} /\ Silent \o << "error" >> \in Ended \ {Done}
        /\ Silent \o << "start", "cancelled" >> \in Ended \ {Done}
    BY <1>1, <1>4 DEF Ended, Done, Events
  <1>8. /\ Started \o << "cancelled" >> \in Ended \ {Done}
        /\ Started \o << "error" >> \in Ended \ {Done}
    BY <1>2 DEF Ended, Done, Events
  <1>9. Ready \o << "cancelled" >> \in Ended \ {Done} /\ Ready \o << "error" >> \in Ended \ {Done}
    BY <1>3 DEF Ended, Done, Events
  <1> QED BY <1>5, <1>6, <1>7, <1>8, <1>9

(* What a client hears where. *)
LEMMA TranscriptsAt ==
  ASSUME NEW s \in Transcripts
  PROVE  /\ s \in Seq(Events) /\ Len(s) \in Nat /\ Len(s) <= 3
         /\ \A n \in 1 .. Len(s) :
              /\ s[n] \in {"start", "ready"} \cup Terminals
              /\ s[n] = "start" => n = 1
              /\ s[n] = "ready" => n = 2 /\ s[1] = "start"
              /\ s[n] \in Terminals => n = Len(s) /\ s \in Ended
              /\ n = 3 => s[n] \in Terminals
              /\ s = Done /\ n = 3 => s[n] = "done"
              /\ s[n] = "done" => n = 3 /\ s[2] = "ready" /\ s = Done
  <1> USE DEF Events, Terminals
  <1>1. CASE s = << >>
    BY <1>1, EmptySeq
  <1>2. CASE s \in {<< "start" >>, << "ack" >>, << "error" >>}
    <2>1. Len(s) = 1 /\ s \in Seq(Events) /\ s[1] \in {"start", "ack", "error"}
      <3>1. PICK e \in {"start", "ack", "error"} : s = << e >>
        BY <1>2
      <3>2. e \in Events
        OBVIOUS
      <3> QED BY <3>1, <3>2, TuplesAt
    <2>2. s[1] # "start" => s \in Ended
      BY <1>2 DEF Ended
    <2>3. s # Done
      BY <2>1 DEF Done
    <2> QED BY <2>1, <2>2, <2>3
  <1>3. CASE s \in {<< "start", "ready" >>, << "start", "cancelled" >>, << "start", "error" >>}
    <2>1. Len(s) = 2 /\ s \in Seq(Events) /\ s[1] = "start" /\ s[2] \in {"ready", "cancelled", "error"}
      <3>1. PICK e \in {"ready", "cancelled", "error"} : s = << "start", e >>
        BY <1>3
      <3>2. e \in Events /\ "start" \in Events
        OBVIOUS
      <3> QED BY <3>1, <3>2, TuplesAt
    <2>2. s[2] # "ready" => s \in Ended
      BY <1>3 DEF Ended
    <2>3. s # Done
      BY <2>1 DEF Done
    <2> QED BY <2>1, <2>2, <2>3
  <1>4. CASE s \in {<< "start", "ready", "cancelled" >>, << "start", "ready", "error" >>, Done}
    <2>1. /\ Len(s) = 3 /\ s \in Seq(Events) /\ s[1] = "start" /\ s[2] = "ready"
          /\ s[3] \in {"cancelled", "error", "done"}
      <3>1. PICK e \in {"cancelled", "error", "done"} : s = << "start", "ready", e >>
        BY <1>4 DEF Done
      <3>2. e \in Events /\ "start" \in Events /\ "ready" \in Events
        OBVIOUS
      <3> QED BY <3>1, <3>2, TuplesAt
    <2>2. s \in Ended /\ (s[3] = "done" <=> s = Done)
      BY <1>4 DEF Ended, Done
    <2> QED BY <2>1, <2>2
  <1> QED BY <1>1, <1>2, <1>3, <1>4 DEF Transcripts, Silent, Started, Ready, Ended

-----------------------------------------------------------------------------
(* The inbox and the wire *)

(* Only keys are asked for. *)
LEMMA InboxKeys ==
  ASSUME QueueTypes
  PROVE  OnWire \cup InInbox \subseteq Keys
  <1>1. ToSet(backlog) \subseteq Keys /\ ToSet(chan) \subseteq Keys
    BY ToSetAt DEF QueueTypes
  <1>2. \A n \in 1 .. Len(wire) : wire[n].key \in Keys
    <2>1. \A n \in 1 .. Len(wire) : wire[n] \in Lines
      BY ElementOfSeq DEF QueueTypes
    <2> QED BY <2>1 DEF Lines
  <1> QED BY <1>1, <1>2 DEF OnWire, InInbox

(* The backlog holds one message, and it comes first. *)
LEMMA BacklogHead ==
  ASSUME QueueTypes, backlog # << >>
  PROVE  /\ Len(backlog) = 1 /\ 1 \in 1 .. Len(backlog) /\ backlog[1] \in Keys
         /\ ToSet(backlog) = {backlog[1]} /\ Head(Waiting) = backlog[1]
  <1>2. Len(backlog) = 1 /\ 1 \in 1 .. Len(backlog) /\ backlog[1] \in Keys
    <2>1. backlog \in Seq(Keys) /\ Len(backlog) <= 1
      BY DEF QueueTypes
    <2>2. Len(backlog) \in Nat \ {0} /\ Head(backlog) = backlog[1] /\ Head(backlog) \in Keys
      BY <2>1, TailAt
    <2>3. Len(backlog) = 1
      <3>1. Len(backlog) \in Nat /\ Len(backlog) # 0
        BY <2>2
      <3>2. Len(backlog) <= 1
        BY <2>1
      <3>3. \A n \in Nat : n # 0 /\ n <= 1 => n = 1
        OBVIOUS
      <3> QED BY <3>1, <3>2, <3>3, Zenon
    <2>4. 1 \in 1 .. Len(backlog)
      BY <2>3
    <2> QED BY <2>2, <2>3, <2>4
  <1>3. ToSet(backlog) = {backlog[1]}
    <2>1. \A e : e \in ToSet(backlog) <=> \E i \in 1 .. Len(backlog) : backlog[i] = e
      BY ToSetAt DEF QueueTypes
    <2>2. \A e : e \in ToSet(backlog) <=> e = backlog[1]
      BY <1>2, <2>1
    <2> QED BY <2>2
  <1>4. Head(Waiting) = backlog[1]
    <2>1. /\ Waiting \in Seq(Keys) /\ Len(Waiting) = Len(backlog) + Len(chan)
          /\ Waiting[1] = backlog[1]
      <3>1. backlog \in Seq(Keys) /\ chan \in Seq(Keys) /\ Len(chan) \in Nat
        BY LenProperties DEF QueueTypes
      <3>2. 1 \in 1 .. Len(backlog) + Len(chan) /\ 1 <= Len(backlog)
        BY <1>2, <3>1
      <3> QED BY <3>1, <3>2, ConcatProperties DEF Waiting
    <2> QED BY <2>1, HeadTailProperties
  <1> QED BY <1>2, <1>3, <1>4

(* The next message is taken from the backlog, then from the channel. *)
LEMMA TakeStep ==
  ASSUME QueueTypes, InboxInv, Waiting # << >>, TakeMsg
  PROVE  /\ Head(Waiting) \in InInbox /\ Head(Waiting) \in Keys
         /\ InInbox' = InInbox \ {Head(Waiting)}
         /\ chan' \in Seq(Keys) /\ backlog' \in Seq(Keys) /\ Len(backlog') <= 1
         /\ Distinct(chan') /\ ToSet(backlog') \cap ToSet(chan') = {}
  <1> DEFINE k == Head(Waiting)
  <1>1. CASE backlog # << >>
    <2>1. backlog' = << >> /\ chan' = chan
      BY <1>1 DEF TakeMsg
    <2>2. Len(backlog) = 1 /\ 1 \in 1 .. Len(backlog) /\ backlog[1] \in Keys
      BY <1>1, BacklogHead
    <2>3. ToSet(backlog) = {backlog[1]}
      BY <1>1, BacklogHead
    <2>4. k = backlog[1]
      BY <1>1, BacklogHead
    <2>5. ToSet(backlog') = {} /\ << >> \in Seq(Keys) /\ Len(<< >>) = 0
      BY <2>1, EmptySet, EmptySeq
    <2>6. InInbox' = InInbox \ {k}
      BY <2>1, <2>3, <2>4, <2>5 DEF InInbox, InboxInv
    <2> QED BY <2>1, <2>2, <2>3, <2>4, <2>5, <2>6 DEF InInbox, InboxInv, QueueTypes
  <1>2. CASE backlog = << >>
    <2>1. backlog' = << >> /\ chan' = Tail(chan)
      BY <1>2 DEF TakeMsg
    <2>2. Waiting = chan
      BY <1>2, ConcatEmptySeq DEF Waiting, QueueTypes
    <2>3. /\ ToSet(chan') = ToSet(chan) \ {Head(chan)} /\ Head(chan) \in ToSet(chan)
          /\ Distinct(chan')
      BY <2>1, <2>2, TailSet DEF InboxInv, QueueTypes
    <2>4. chan' \in Seq(Keys) /\ Head(chan) \in Keys
      BY <2>1, <2>2, TailAt DEF QueueTypes
    <2>5. ToSet(backlog) = {} /\ ToSet(backlog') = {} /\ Len(<< >>) = 0
      BY <1>2, <2>1, EmptySet, EmptySeq
    <2>6. InInbox' = InInbox \ {k}
      BY <2>2, <2>3, <2>5 DEF InInbox
    <2> QED BY <1>2, <2>1, <2>2, <2>3, <2>4, <2>5, <2>6 DEF InInbox, QueueTypes
  <1> QED BY <1>1, <1>2

(* The steps that take no message and speak to no key that waits for its   *)
(* turn leave the inbox as it is.                                          *)
LEMMA InboxKept ==
  ASSUME InboxInv, MapTypes, QueueTypes, UNCHANGED << wire, chan, backlog, req, cl >>,
         \A k \in Keys : said[k] = Silent =>
           said'[k] = Silent /\ (reg'[k] = reg[k] \/ reg'[k] = NoEntry)
  PROVE  InboxInv'
  <1>1. OnWire' = OnWire /\ InInbox' = InInbox
    BY DEF OnWire, InInbox
  <1>2. NoEntry.state = "absent"
    BY DEF NoEntry
  <1>3. OnWire \cup InInbox \subseteq Keys
    BY InboxKeys
  <1> QED BY <1>1, <1>2, <1>3 DEF InboxInv

(* A message is taken: what happens to its key is no longer the inbox's    *)
(* business.                                                               *)
LEMMA InboxTaken ==
  ASSUME InboxInv, MapTypes, QueueTypes, Waiting # << >>, TakeMsg, UNCHANGED << wire, req, cl >>,
         \A k \in Keys \ {Head(Waiting)} : said[k] = Silent =>
           said'[k] = Silent /\ (reg'[k] = reg[k] \/ reg'[k] = NoEntry)
  PROVE  InboxInv'
  <1>1. OnWire' = OnWire
    BY DEF OnWire
  <1>2. /\ Head(Waiting) \in InInbox /\ InInbox' = InInbox \ {Head(Waiting)}
        /\ Distinct(chan') /\ ToSet(backlog') \cap ToSet(chan') = {}
    BY TakeStep
  <1>3. NoEntry.state = "absent"
    BY DEF NoEntry
  <1>4. OnWire \cup InInbox \subseteq Keys
    BY InboxKeys
  <1> QED BY <1>1, <1>2, <1>3, <1>4 DEF InboxInv

(* What is left of a queue holds the other keys, each once. *)
LEMMA RetainedAt ==
  ASSUME NEW S, NEW s \in Seq(S), NEW Q, Distinct(s)
  PROVE  /\ Retained(s, Q) \in Seq(S)
         /\ ToSet(Retained(s, Q)) = ToSet(s) \ Q
         /\ Distinct(Retained(s, Q))
  <1> DEFINE P == {n \in DOMAIN s : s[n] \notin Q}
             Upto(n) == {m \in P : m <= n}
             c == Cardinality(P)
             rank == [n \in P |-> Cardinality(Upto(n))]
             nth(i) == CHOOSE n \in P : Cardinality(Upto(n)) = i
             r == [i \in 1 .. c |-> s[nth(i)]]
  <1>1. Len(s) \in Nat /\ DOMAIN s = 1 .. Len(s) /\ \A n \in 1 .. Len(s) : s[n] \in S
    BY LenProperties, ElementOfSeq
  <1>2. r = Retained(s, Q)
    BY DEF Retained
  <1>3. IsFiniteSet(P) /\ c \in Nat
    <2>1. IsFiniteSet(1 .. Len(s))
      BY <1>1, FS_Interval
    <2>2. P \in SUBSET (1 .. Len(s))
      BY <1>1
    <2> QED BY <2>1, <2>2, FS_Subset, FS_CardinalityType
  <1>4. \A n \in P : n \in Int
    BY <1>1
  <1> HIDE DEF P
  <1>5. \A n \in P : /\ IsFiniteSet(Upto(n)) /\ Cardinality(Upto(n)) \in Nat
                     /\ Cardinality(Upto(n)) <= c
                     /\ Cardinality(Upto(n)) # 0
    <2> SUFFICES ASSUME NEW n \in P
                 PROVE  /\ IsFiniteSet(Upto(n)) /\ Cardinality(Upto(n)) \in Nat
                        /\ Cardinality(Upto(n)) <= c
                        /\ Cardinality(Upto(n)) # 0
      OBVIOUS
    <2>1. Upto(n) \in SUBSET P /\ n \in Upto(n)
      BY <1>4
    <2> HIDE DEF Upto
    <2>2. IsFiniteSet(Upto(n)) /\ Cardinality(Upto(n)) <= c
      BY <1>3, <2>1, FS_Subset
    <2>3. Cardinality(Upto(n)) \in Nat
      BY <2>2, FS_CardinalityType
    <2>4. Cardinality(Upto(n)) # 0
      BY <2>1, <2>2, FS_EmptySet
    <2> QED BY <2>2, <2>3, <2>4
  <1>6. \A n \in P : rank[n] = Cardinality(Upto(n)) /\ rank[n] \in 1 .. c
    <2> SUFFICES ASSUME NEW n \in P PROVE rank[n] = Cardinality(Upto(n)) /\ rank[n] \in 1 .. c
      OBVIOUS
    <2>1. rank[n] = Cardinality(Upto(n))
      OBVIOUS
    <2>2. \A x \in Nat : x <= c /\ x # 0 => x \in 1 .. c
      BY <1>3
    <2> QED BY <1>5, <2>1, <2>2, Zenon
  <1>7. \A n, m \in P : n < m => rank[n] # rank[m]
    <2> SUFFICES ASSUME NEW n \in P, NEW m \in P, n < m PROVE rank[n] # rank[m]
      OBVIOUS
    <2>1. Upto(n) \in SUBSET Upto(m) /\ m \in Upto(m) /\ m \notin Upto(n)
      BY <1>4
    <2> HIDE DEF Upto
    <2>2. Cardinality(Upto(m)) # Cardinality(Upto(n))
      BY <1>5, <2>1, FS_Subset
    <2> QED BY <1>6, <2>2
  <1>8. \A n, m \in P : rank[n] = rank[m] => n = m
    <2>1. \A n, m \in Int : n # m => n < m \/ m < n
      OBVIOUS
    <2> HIDE DEF rank
    <2> QED BY <1>4, <1>7, <2>1, Zenon
  <1>9. rank \in [P -> 1 .. c]
    BY <1>6
  <1> HIDE DEF rank, c
  <1>10. \A i \in 1 .. c : \E n \in P : rank[n] = i
    <2>1. rank \in Injection(P, 1 .. c)
      BY <1>8, <1>9 DEF Injection, IsInjective
    <2>2. IsFiniteSet(1 .. c) /\ Cardinality(1 .. c) = c
      BY <1>3, FS_Interval DEF c
    <2>3. rank \in Surjection(P, 1 .. c)
      BY <2>1, <2>2, FS_Injection DEF c
    <2> QED BY <2>3 DEF Surjection
  <1>11. \A i \in 1 .. c : nth(i) \in P /\ rank[nth(i)] = i
    <2>1. \A i \in 1 .. c : \E n \in P : Cardinality(Upto(n)) = i
      BY <1>6, <1>10
    <2> HIDE DEF Upto
    <2>2. \A i \in 1 .. c : nth(i) \in P /\ Cardinality(Upto(nth(i))) = i
      BY <2>1
    <2> QED BY <1>6, <2>2
  <1> HIDE DEF nth
  <1>12. \A i \in 1 .. c : nth(i) \in 1 .. Len(s) /\ s[nth(i)] \in S /\ s[nth(i)] \notin Q
    BY <1>1, <1>11 DEF P
  <1>13. c \in Nat
    BY <1>3 DEF c
  <1>14. /\ r \in Seq(S) /\ Len(r) = c /\ \A i \in 1 .. c : r[i] = s[nth(i)]
    <2>1. r \in [1 .. c -> S]
      BY <1>12
    <2>2. r \in Seq(S)
      BY <1>13, <2>1, SeqDef
    <2>3. DOMAIN r = 1 .. c
      OBVIOUS
    <2>4. Len(r) = c
      BY <1>13, <2>2, <2>3, LenProperties
    <2> QED BY <2>2, <2>4
  <1> HIDE DEF r
  <1>15. ToSet(r) = ToSet(s) \ Q
    <2>1. \A e : e \in ToSet(r) <=> \E i \in 1 .. c : r[i] = e
      BY <1>14, ToSetAt
    <2>2. \A e : e \in ToSet(s) <=> \E n \in 1 .. Len(s) : s[n] = e
      BY ToSetAt
    <2>3. ASSUME NEW e \in ToSet(r) PROVE e \in ToSet(s) \ Q
      BY <1>12, <1>14, <2>1, <2>2
    <2>4. ASSUME NEW e \in ToSet(s), e \notin Q PROVE e \in ToSet(r)
      <3>1. PICK n \in 1 .. Len(s) : s[n] = e
        BY <2>2
      <3>2. n \in P
        BY <2>4, <3>1 DEF P
      <3>3. rank[n] \in 1 .. c
        BY <1>9, <3>2
      <3>4. nth(rank[n]) = n
        BY <1>8, <1>11, <3>2, <3>3
      <3> QED BY <1>14, <2>1, <3>1, <3>3, <3>4
    <2> QED BY <2>3, <2>4
  <1>16. Distinct(r)
    <2> SUFFICES ASSUME NEW i \in 1 .. c, NEW j \in 1 .. c, r[i] = r[j] PROVE i = j
      BY <1>14 DEF Distinct
    <2>1. s[nth(i)] = s[nth(j)]
      BY <1>14
    <2>2. nth(i) = nth(j)
      BY <1>12, <2>1 DEF Distinct
    <2> QED BY <1>11, <2>2
  <1> QED BY <1>2, <1>14, <1>15, <1>16

-----------------------------------------------------------------------------
(* The registry, operation by operation *)

(* The entries a key starts with. *)
LEMMA EntriesAt ==
  /\ NoEntry \in Entries /\ Announced \in Entries /\ NoEntry # Announced
  /\ NoEntry.state = "absent" /\ NoEntry.owner = 0 /\ NoEntry.abort = FALSE /\ NoEntry.commit = FALSE
  /\ Announced.state = "announced" /\ Announced.owner = 0 /\ Announced.abort = FALSE
  /\ Announced.commit = FALSE
  BY DEF NoEntry, Announced, Entries

(* An announcement makes an entry for a key that has none. *)
LEMMA AnnounceAt ==
  ASSUME NEW r \in [Keys -> Entries], NEW k \in Keys
  PROVE  /\ batch_announce_terminal(r, k) \in [Keys -> Entries]
         /\ \A j \in Keys \ {k} : batch_announce_terminal(r, k)[j] = r[j]
         /\ r[k] = NoEntry => batch_announce_terminal(r, k)[k] = Announced
         /\ r[k] # NoEntry => batch_announce_terminal(r, k)[k] = r[k]
  BY EntriesAt DEF batch_announce_terminal

(* A control line never changes where a key is, and its commit counts for a *)
(* key that is ready.                                                      *)
LEMMA ApplyAt ==
  ASSUME reg \in [Keys -> Entries], NEW k \in Keys, NEW kind \in {"abort", "commit"},
         NEW r, r = batch_apply_terminal_control(kind, k)
  PROVE  /\ r \in [Keys -> Entries]
         /\ \A j \in Keys : r[j].state = reg[j].state /\ r[j].owner = reg[j].owner
         /\ \A j \in Keys : j # k \/ reg[j] = NoEntry => r[j] = reg[j]
         /\ \A j \in Keys : r[j].commit =>
              reg[j].commit \/ (j = k /\ kind = "commit" /\ reg[j].state = "ready")
  <1>0. reg[k] \in Entries
    OBVIOUS
  <1>1. CASE r = reg
    BY <1>1
  <1>2. CASE kind = "abort" /\ reg[k] # NoEntry
    <2>1. r = [reg EXCEPT ![k].abort = TRUE]
      BY <1>2 DEF batch_apply_terminal_control
    <2>2. [reg[k] EXCEPT !.abort = TRUE] \in Entries
      BY <1>0 DEF Entries
    <2>3. r \in [Keys -> Entries] /\ r[k] = [reg[k] EXCEPT !.abort = TRUE]
          /\ \A j \in Keys \ {k} : r[j] = reg[j]
      BY <2>1, <2>2
    <2>4. r[k].state = reg[k].state /\ r[k].owner = reg[k].owner /\ r[k].commit = reg[k].commit
      BY <1>0, <2>3 DEF Entries
    <2> QED BY <1>2, <2>3, <2>4
  <1>3. CASE kind = "commit" /\ reg[k] # NoEntry /\ ~ reg[k].abort /\ reg[k].state = "ready"
    <2>1. r = [reg EXCEPT ![k].commit = TRUE]
      BY <1>3 DEF batch_apply_terminal_control
    <2>2. [reg[k] EXCEPT !.commit = TRUE] \in Entries
      BY <1>0 DEF Entries
    <2>3. r \in [Keys -> Entries] /\ r[k] = [reg[k] EXCEPT !.commit = TRUE]
          /\ \A j \in Keys \ {k} : r[j] = reg[j]
      BY <2>1, <2>2
    <2>4. r[k].state = reg[k].state /\ r[k].owner = reg[k].owner
      BY <1>0, <2>3 DEF Entries
    <2> QED BY <1>3, <2>3, <2>4
  <1>4. ASSUME ~ (kind = "abort" /\ reg[k] # NoEntry),
               ~ (kind = "commit" /\ ~ reg[k].abort /\ reg[k].state = "ready")
        PROVE  r = reg
    BY <1>4 DEF batch_apply_terminal_control
  <1>5. reg[k].state = "ready" => reg[k] # NoEntry
    BY EntriesAt
  <1> QED BY <1>1, <1>2, <1>3, <1>4, <1>5

(* A key that was announced is queued. *)
LEMMA QueuedAt ==
  ASSUME NEW r \in [Keys -> Entries], NEW k \in Keys
  PROVE  /\ batch_transition_to_queued(r, k) \in [Keys -> Entries]
         /\ \A j \in Keys : j # k \/ r[j].state # "announced" =>
              batch_transition_to_queued(r, k)[j] = r[j]
         /\ r[k].state = "announced" =>
              /\ batch_transition_to_queued(r, k)[k].state = "queued"
              /\ batch_transition_to_queued(r, k)[k].owner = r[k].owner
              /\ batch_transition_to_queued(r, k)[k].commit = r[k].commit
  <1>1. r[k] \in Entries /\ [r[k] EXCEPT !.state = "queued"] \in Entries
    BY DEF Entries
  <1>2. CASE r[k].state = "announced"
    <2>1. batch_transition_to_queued(r, k) = [r EXCEPT ![k] = [r[k] EXCEPT !.state = "queued"]]
      BY <1>2 DEF batch_transition_to_queued
    <2>2. LET e == [r[k] EXCEPT !.state = "queued"] IN
          e.state = "queued" /\ e.owner = r[k].owner /\ e.commit = r[k].commit
      BY <1>1 DEF Entries
    <2> QED BY <1>1, <1>2, <2>1, <2>2
  <1>3. CASE r[k].state # "announced"
    BY <1>3 DEF batch_transition_to_queued
  <1> QED BY <1>2, <1>3

(* A queued key is bound to the ticket of its lane. *)
LEMMA BoundAt ==
  ASSUME NEW r \in [Keys -> Entries], NEW k \in Keys, NEW g \in Nat
  PROVE  /\ batch_bind_active(r, k, g) \in [Keys -> Entries]
         /\ \A j \in Keys : j # k \/ r[j].state # "queued" => batch_bind_active(r, k, g)[j] = r[j]
         /\ r[k].state = "queued" =>
              /\ batch_bind_active(r, k, g)[k].state = "active"
              /\ batch_bind_active(r, k, g)[k].owner = g
              /\ batch_bind_active(r, k, g)[k].commit = r[k].commit
  <1> DEFINE e == [[r[k] EXCEPT !.state = "active"] EXCEPT !.owner = g]
  <1>1. r[k] \in Entries /\ e \in Entries
    BY DEF Entries
  <1>2. CASE r[k].state = "queued"
    <2>1. batch_bind_active(r, k, g) = [r EXCEPT ![k] = e]
      BY <1>2 DEF batch_bind_active
    <2>2. e.state = "active" /\ e.owner = g /\ e.commit = r[k].commit
      BY <1>1 DEF Entries
    <2> HIDE DEF e
    <2> QED BY <1>1, <1>2, <2>1, <2>2
  <1>3. CASE r[k].state # "queued"
    BY <1>3 DEF batch_bind_active
  <1> QED BY <1>2, <1>3

(* A lane's key is ready when its ticket is the lane's. *)
LEMMA MarkedAt ==
  ASSUME NEW r \in [Keys -> Entries], NEW k \in Keys, NEW g \in Nat
  PROVE  /\ batch_mark_ready(r, k, g)[k] \in Entries
         /\ r[k].state # "active" => batch_mark_ready(r, k, g)[k] = r[k]
         /\ r[k].state = "active" /\ r[k].owner = g =>
              /\ batch_mark_ready(r, k, g)[k].state = "ready"
              /\ batch_mark_ready(r, k, g)[k].owner = g
              /\ batch_mark_ready(r, k, g)[k].commit = r[k].commit
  <1> DEFINE e == [r[k] EXCEPT !.state = "ready"]
  <1>1. r[k] \in Entries /\ e \in Entries
    BY DEF Entries
  <1>2. CASE r[k].state = "active" /\ r[k].owner = g
    <2>1. batch_mark_ready(r, k, g)[k] = e
      BY <1>2 DEF batch_mark_ready
    <2>2. e.state = "ready" /\ e.owner = r[k].owner /\ e.commit = r[k].commit
      BY <1>1 DEF Entries
    <2> HIDE DEF e
    <2> QED BY <1>1, <1>2, <2>1, <2>2
  <1>3. CASE ~ (r[k].state = "active" /\ r[k].owner = g)
    BY <1>1, <1>3 DEF batch_mark_ready
  <1> QED BY <1>2, <1>3

(* Keys are forgotten. *)
LEMMA ClearedAt ==
  ASSUME NEW r \in [Keys -> Entries], NEW K
  PROVE  /\ batch_clear_terminal(r, K) \in [Keys -> Entries]
         /\ \A j \in Keys \ K : batch_clear_terminal(r, K)[j] = r[j]
         /\ \A j \in Keys \cap K : batch_clear_terminal(r, K)[j] = NoEntry
  BY EntriesAt DEF batch_clear_terminal

-----------------------------------------------------------------------------
(* What steps have in common *)

(* The daemon speaks to the keys K. *)
LEMMA SayStep ==
  ASSUME said \in [Keys -> Transcripts], NEW K, NEW evs, Say(K, evs),
         \A k \in Keys \cap K : said[k] \o evs \in Transcripts
  PROVE  /\ said' \in [Keys -> Transcripts]
         /\ \A k \in Keys \ K : said'[k] = said[k]
         /\ \A k \in Keys \cap K : said'[k] = said[k] \o evs
  BY DEF Say

(* The daemon speaks to one key. *)
LEMMA SayOne ==
  ASSUME said \in [Keys -> Transcripts], NEW k \in Keys, NEW evs, Say({k}, evs),
         said[k] \o evs \in Transcripts
  PROVE  /\ said' \in [Keys -> Transcripts]
         /\ \A j \in Keys \ {k} : said'[j] = said[j]
         /\ said'[k] = said[k] \o evs
  BY DEF Say

(* The lowest lane of a set is one of them. *)
LEMMA LowestIn ==
  ASSUME NEW L \in SUBSET LaneIds, L # {}
  PROVE  Lowest(L) \in L
  <1>1. L \in SUBSET Nat
    BY DaemonAssumption DEF LaneIds
  <1>2. \E i \in L : \A j \in L : i <= j
    BY <1>1, NatMin
  <1> QED BY <1>2 DEF Lowest

(* A line is put on the wire. *)
LEMMA WireAppend ==
  ASSUME QueueTypes, NEW kind \in Asks \cup {"commit", "abort"}, NEW k \in Keys,
         wire' = Append(wire, Line(kind, k))
  PROVE  /\ wire' \in Seq(Lines) /\ Len(wire) \in Nat /\ Len(wire') = Len(wire) + 1
         /\ \A n \in 1 .. Len(wire) : wire'[n] = wire[n]
         /\ wire'[Len(wire) + 1].kind = kind /\ wire'[Len(wire) + 1].key = k
         /\ OnWire' = OnWire \cup (IF kind \in Asks THEN {k} ELSE {})
  <1>1. Line(kind, k) \in Lines /\ Line(kind, k).kind = kind /\ Line(kind, k).key = k
    BY DEF Line, Lines
  <1>2. wire \in Seq(Lines)
    BY DEF QueueTypes
  <1>3. /\ wire' \in Seq(Lines) /\ Len(wire) \in Nat /\ Len(wire') = Len(wire) + 1
        /\ \A n \in 1 .. Len(wire) : wire'[n] = wire[n]
        /\ wire'[Len(wire) + 1] = Line(kind, k)
    BY <1>1, <1>2, AppendAt
  <1>4. ASSUME NEW j PROVE j \in OnWire' <=> j \in OnWire \cup (IF kind \in Asks THEN {k} ELSE {})
    <2>1. j \in OnWire' <=> \E n \in 1 .. Len(wire) + 1 : wire'[n].kind \in Asks /\ wire'[n].key = j
      BY <1>3 DEF OnWire
    <2>2. j \in OnWire <=> \E n \in 1 .. Len(wire) : wire[n].kind \in Asks /\ wire[n].key = j
      BY DEF OnWire
    <2>3. \A n : n \in 1 .. Len(wire) + 1 <=> n \in 1 .. Len(wire) \/ n = Len(wire) + 1
      BY <1>3
    <2> QED BY <1>1, <1>3, <2>1, <2>2, <2>3
  <1> QED BY <1>1, <1>3, <1>4

(* The reader takes a line from the wire. *)
LEMMA WireTail ==
  ASSUME QueueTypes, InboxInv, wire # << >>, wire' = Tail(wire)
  PROVE  /\ wire' \in Seq(Lines) /\ Len(wire) \in Nat /\ Len(wire') = Len(wire) - 1
         /\ Head(wire) = wire[1] /\ Head(wire) \in Lines /\ 1 \in 1 .. Len(wire)
         /\ \A n \in 1 .. Len(wire') : wire'[n] = wire[n + 1] /\ n + 1 \in 1 .. Len(wire)
         /\ Head(wire).kind \in Asks => Head(wire).key \in OnWire
         /\ OnWire' = OnWire \ (IF Head(wire).kind \in Asks THEN {Head(wire).key} ELSE {})
  <1>1. wire \in Seq(Lines)
    BY DEF QueueTypes
  <1>2. /\ wire' \in Seq(Lines) /\ Len(wire) \in Nat \ {0} /\ Len(wire') = Len(wire) - 1
        /\ Head(wire) = wire[1] /\ Head(wire) \in Lines /\ 1 \in 1 .. Len(wire)
        /\ \A n \in 1 .. Len(wire') : wire'[n] = wire[n + 1] /\ n + 1 \in 1 .. Len(wire)
    BY <1>1, TailAt
  <1>3. Head(wire).kind \in Asks => Head(wire).key \in OnWire
    BY <1>2 DEF OnWire
  <1>4. ASSUME NEW j
        PROVE  j \in OnWire' <=> j \in OnWire \ (IF Head(wire).kind \in Asks THEN {Head(wire).key} ELSE {})
    <2>1. j \in OnWire' <=> \E n \in 1 .. Len(wire') : wire'[n].kind \in Asks /\ wire'[n].key = j
      BY DEF OnWire
    <2>2. j \in OnWire <=> \E n \in 1 .. Len(wire) : wire[n].kind \in Asks /\ wire[n].key = j
      BY DEF OnWire
    <2>3. ASSUME NEW n \in 1 .. Len(wire'), wire'[n].kind \in Asks, wire'[n].key = j
          PROVE  j \in OnWire /\ (Head(wire).kind \in Asks => j # Head(wire).key)
      <3>1. wire[n + 1].kind \in Asks /\ wire[n + 1].key = j /\ n + 1 \in 1 .. Len(wire)
        BY <1>2, <2>3
      <3>2. n + 1 # 1
        OBVIOUS
      <3> QED BY <1>2, <2>2, <3>1, <3>2 DEF InboxInv
    <2>4. ASSUME NEW n \in 1 .. Len(wire), wire[n].kind \in Asks, wire[n].key = j,
                 Head(wire).kind \in Asks => j # Head(wire).key
          PROVE  j \in OnWire'
      <3>1. n # 1
        BY <1>2, <2>4
      <3>2. n - 1 \in 1 .. Len(wire') /\ (n - 1) + 1 = n
        BY <1>2, <3>1
      <3> QED BY <1>2, <2>1, <2>4, <3>2
    <2> QED BY <2>1, <2>2, <2>3, <2>4
  <1> QED BY <1>2, <1>3, <1>4

(* The steps of the daemon that make no commit of their own keep the word  *)
(* of the clients.                                                         *)
LEMMA ClientKept ==
  ASSUME ClientInv, MapTypes, UNCHANGED << wire, half, cl, heard >>,
         \A k \in Keys : reg'[k].commit => reg[k].commit,
         single'.decision = "commit" => single.decision = "commit" /\ single'.key = single.key,
         \A k \in Keys : said'[k] = Done =>
           said[k] = Done \/ cl[k] \in {"committed", "done", "closed"},
         \A k \in Keys : said[k] \in Ended => said'[k] \in Ended
  PROVE  ClientInv'
  BY DEF ClientInv, Agreeing, MapTypes

(* Nothing was said to a key that waits: it is in no lane and not queued.  *)
LEMMA SilentAway ==
  ASSUME DaemonInv, NEW k \in Keys, said[k] = Silent
  PROVE  k \notin ToSet(queue) /\ k \notin KeysOf(Occupied)
  BY TranscriptsDiffer DEF DaemonInv, LaneInv, KeysOf

-----------------------------------------------------------------------------
(* The start *)

(* The invariant holds at the start. *)
LEMMA InitInv == Init => DaemonInv
  <1> SUFFICES ASSUME Init PROVE DaemonInv
    OBVIOUS
  <1> USE DEF Init
  <1>1. Len(<< >>) = 0 /\ ToSet(<< >>) = {} /\ Distinct(<< >>) /\ \A S : << >> \in Seq(S)
    BY EmptySet, EmptySeq
  <1>2. QueueTypes
    BY <1>1 DEF QueueTypes
  <1>3. MapTypes
    <2>1. lanes \in [LaneIds -> Lanes]
      BY DEF Empty, Lanes
    <2>2. reg \in [Keys -> Entries]
      BY EntriesAt
    <2>3. said \in [Keys -> Transcripts]
      BY DEF Transcripts, Silent
    <2> QED BY <2>1, <2>2, <2>3 DEF MapTypes
  <1>4. CellTypes
    BY DEF CellTypes, Vacant
  <1>5. OnWire = {} /\ InInbox = {}
    BY <1>1 DEF OnWire, InInbox
  <1>6. InboxInv
    BY <1>1, <1>5 DEF InboxInv, Silent
  <1>7. Occupied = {} /\ \A p : p # "empty" => In(p) = {}
    BY DEF Occupied, In, Empty
  <1>8. LaneInv
    BY <1>1, <1>7 DEF LaneInv
  <1>9. RegInv
    BY <1>1, <1>7, EntriesAt DEF RegInv
  <1>10. PhaseInv /\ MainInv
    BY <1>7 DEF PhaseInv, MainInv
  <1>11. ClientInv
    <2>1. \A k \in Keys : said[k] # Done /\ ~ reg[k].commit
      BY EntriesAt, TranscriptsDiffer DEF Silent
    <2>2. half = NoLine /\ NoLine.kind = "none"
      BY DEF NoLine, Line
    <2> QED BY <1>1, <2>1, <2>2 DEF ClientInv, Vacant, Halves
  <1> QED BY <1>2, <1>3, <1>4, <1>6, <1>8, <1>9, <1>10, <1>11 DEF DaemonInv

-----------------------------------------------------------------------------
(* The clients *)

(* What a client does leaves the daemon as it is. *)
LEMMA DaemonUntouched ==
  ASSUME DaemonInv, UNCHANGED << req, half, chan, backlog, reg, single, lanes, queue, cohort, gen, pc, cur,
                                doomed, agreed, ended, said >>,
         OnWire' = OnWire, \A j \in Keys : cl'[j] = "new" => cl[j] = "new"
  PROVE  /\ CellTypes' /\ LaneInv' /\ RegInv' /\ PhaseInv' /\ MainInv'
         /\ (wire' \in Seq(Lines) => QueueTypes')
         /\ (heard' \in [Keys -> Nat]
             /\ cl' \in [Keys -> {"new", "waiting", "committed", "aborting", "done", "failed", "closed"}]
             => MapTypes')
         /\ Occupied' = Occupied /\ InInbox' = InInbox
  <1>1. /\ In("running")' = In("running") /\ In("awaiting")' = In("awaiting")
        /\ Occupied' = Occupied /\ InInbox' = InInbox
    BY DEF In, Occupied, InInbox
  <1>2. CellTypes'
    BY DEF DaemonInv, CellTypes
  <1>3. LaneInv'
    BY <1>1 DEF DaemonInv, LaneInv
  <1>4. RegInv'
    BY <1>1 DEF DaemonInv, RegInv
  <1>5. PhaseInv'
    BY <1>1 DEF DaemonInv, PhaseInv
  <1>6. MainInv'
    BY <1>1 DEF DaemonInv, MainInv
  <1>7. wire' \in Seq(Lines) => QueueTypes'
    BY DEF DaemonInv, QueueTypes
  <1>8. (heard' \in [Keys -> Nat]
         /\ cl' \in [Keys -> {"new", "waiting", "committed", "aborting", "done", "failed", "closed"}]
         => MapTypes')
    BY DEF DaemonInv, MapTypes
  <1> QED BY <1>1, <1>2, <1>3, <1>4, <1>5, <1>6, <1>7, <1>8

(* A commit or an abort on the wire asks for nothing. *)
LEMMA ControlSent ==
  ASSUME DaemonInv, NEW k \in Keys, NEW kind \in {"commit", "abort"},
         wire' = Append(wire, Line(kind, k)),
         UNCHANGED << chan, backlog, req, said, reg >>,
         \A j \in Keys : cl'[j] = "new" => cl[j] = "new"
  PROVE  InboxInv'
  <1>1. QueueTypes /\ kind \in Asks \cup {"commit", "abort"} /\ kind \notin Asks
    BY DEF DaemonInv, Asks
  <1>2. /\ Len(wire) \in Nat /\ Len(wire') = Len(wire) + 1
        /\ \A n \in 1 .. Len(wire) : wire'[n] = wire[n]
        /\ wire'[Len(wire) + 1].kind = kind
        /\ OnWire' = OnWire
    BY <1>1, WireAppend
  <1>3. InInbox' = InInbox
    BY DEF InInbox
  <1>4. \A m, n \in 1 .. Len(wire') :
          wire'[m].kind \in Asks /\ wire'[n].kind \in Asks /\ wire'[m].key = wire'[n].key => m = n
    <2>1. \A n \in 1 .. Len(wire') : wire'[n].kind \in Asks => n \in 1 .. Len(wire)
      BY <1>1, <1>2
    <2> QED BY <1>2, <2>1 DEF DaemonInv, InboxInv
  <1> QED BY <1>2, <1>3, <1>4 DEF DaemonInv, InboxInv

(* Nothing on the wire. *)
LEMMA NothingSent ==
  ASSUME DaemonInv, UNCHANGED << wire, chan, backlog, req, said, reg >>,
         \A j \in Keys : cl'[j] = "new" => cl[j] = "new"
  PROVE  InboxInv'
  BY DEF DaemonInv, InboxInv, OnWire, InInbox

(* A request is asked for, once. *)
LEMMA SubmitKeeps ==
  ASSUME DaemonInv, NEW k \in Keys, Submit(k)
  PROVE  DaemonInv'
  <1> USE DEF inbox, control, sched, picked
  <1>0. cl[k] = "new" /\ cl \in [Keys -> {"new", "waiting", "committed", "aborting", "done", "failed", "closed"}]
    BY DEF Submit, DaemonInv, MapTypes
  <1>1. CASE ~ alive
    <2>1. /\ UNCHANGED << req, wire, half, chan, backlog, reg, single, lanes, queue, cohort, gen, pc, cur,
                          doomed, agreed, ended, said, heard >>
          /\ cl' = [cl EXCEPT ![k] = "closed"]
      BY <1>1 DEF Submit, Move
    <2>2. /\ cl' \in [Keys -> {"new", "waiting", "committed", "aborting", "done", "failed", "closed"}]
          /\ cl'[k] = "closed" /\ \A j \in Keys \ {k} : cl'[j] = cl[j]
      BY <1>0, <2>1
    <2>3. InboxInv'
      BY <2>1, <2>2, NothingSent
    <2>4. QueueTypes' /\ MapTypes' /\ CellTypes' /\ LaneInv' /\ RegInv' /\ PhaseInv' /\ MainInv'
      <3>1. OnWire' = OnWire
        BY <2>1 DEF OnWire
      <3> QED BY <2>1, <2>2, <3>1, DaemonUntouched DEF DaemonInv, QueueTypes, MapTypes
    <2>5. ClientInv'
      BY <2>1, <2>2 DEF DaemonInv, ClientInv, Agreeing
    <2> QED BY <2>3, <2>4, <2>5 DEF DaemonInv
  <1>2. CASE alive
    <2>1. PICK r \in Requests[k] :
            /\ req' = [req EXCEPT ![k] = r]
            /\ wire' = Append(wire, Line(IF r.kind \in Commands THEN "command" ELSE "generate", k))
            /\ cl' = [cl EXCEPT ![k] = "waiting"]
      BY <1>2 DEF Submit, Move
    <2>2. UNCHANGED << half, chan, backlog, reg, single, lanes, queue, cohort, gen, pc, cur,
                       doomed, agreed, ended, said, heard >>
      BY DEF Submit
    <2> DEFINE kind == IF r.kind \in Commands THEN "command" ELSE "generate"
    <2>3. kind \in Asks /\ kind \notin {"commit", "abort"}
      BY DEF Asks
    <2> HIDE DEF kind
    <2>4. wire' = Append(wire, Line(kind, k))
      BY <2>1 DEF kind
    <2>5. /\ wire' \in Seq(Lines) /\ Len(wire) \in Nat /\ Len(wire') = Len(wire) + 1
          /\ \A n \in 1 .. Len(wire) : wire'[n] = wire[n]
          /\ wire'[Len(wire) + 1].kind = kind /\ wire'[Len(wire) + 1].key = k
          /\ OnWire' = OnWire \cup {k}
      BY <2>3, <2>4, WireAppend DEF DaemonInv
    <2>6. /\ cl' \in [Keys -> {"new", "waiting", "committed", "aborting", "done", "failed", "closed"}]
          /\ cl'[k] = "waiting" /\ \A j \in Keys \ {k} : cl'[j] = cl[j]
      BY <1>0, <2>1
    <2>7. /\ req' \in [Keys -> AllRequests \cup {NoRequest}]
          /\ req'[k] = r /\ \A j \in Keys \ {k} : req'[j] = req[j]
      BY <2>1 DEF DaemonInv, MapTypes, AllRequests
    <2>8. /\ k \notin OnWire \cup InInbox /\ said[k] = Silent /\ reg[k] = NoEntry
      BY <1>0 DEF DaemonInv, InboxInv
    <2>9. k \notin ToSet(queue) /\ k \notin KeysOf(Occupied)
      BY <2>8, SilentAway
    <2>10. InInbox' = InInbox /\ Occupied' = Occupied /\ In("running")' = In("running")
           /\ In("awaiting")' = In("awaiting")
      BY <2>2 DEF InInbox, Occupied, In
    <2>11. InboxInv'
      <3>1. \A m, n \in 1 .. Len(wire') :
              wire'[m].kind \in Asks /\ wire'[n].kind \in Asks /\ wire'[m].key = wire'[n].key => m = n
        <4>1. \A n \in 1 .. Len(wire') : n \in 1 .. Len(wire) \/ n = Len(wire) + 1
          BY <2>5
        <4>2. \A n \in 1 .. Len(wire) : wire[n].kind \in Asks => wire[n].key # k
          BY <2>8 DEF OnWire
        <4> QED BY <2>5, <4>1, <4>2 DEF DaemonInv, InboxInv
      <3>2. \A j \in OnWire' \cup InInbox' :
              said'[j] = Silent /\ req'[j] \in Requests[j] /\ reg'[j].state \in {"absent", "announced"}
        <4>1. OnWire \cup InInbox \subseteq Keys
          BY InboxKeys DEF DaemonInv
        <4> QED BY <2>2, <2>5, <2>7, <2>8, <2>10, <4>1, EntriesAt DEF DaemonInv, InboxInv
      <3> QED BY <2>2, <2>5, <2>6, <2>8, <2>10, <3>1, <3>2 DEF DaemonInv, InboxInv
    <2>12. LaneInv'
      <3>1. ToSet(queue) \subseteq Keys
        BY ToSetAt DEF DaemonInv, QueueTypes
      <3> QED BY <2>2, <2>7, <2>9, <2>10, <3>1 DEF DaemonInv, LaneInv, KeysOf
    <2>13. RegInv' /\ PhaseInv' /\ MainInv' /\ CellTypes'
      <3>1. RegInv' /\ PhaseInv' /\ CellTypes'
        BY <2>2, <2>10 DEF DaemonInv, RegInv, PhaseInv, CellTypes
      <3>2. MainInv'
        BY <1>0, <2>2, <2>5, <2>6, <2>10 DEF DaemonInv, MainInv
      <3> QED BY <3>1, <3>2
    <2>14. QueueTypes' /\ MapTypes'
      BY <2>1, <2>2, <2>5, <2>6, <2>7 DEF DaemonInv, QueueTypes, MapTypes
    <2>15. ClientInv'
      <3>1. \A n \in 1 .. Len(wire') : n \in 1 .. Len(wire) \/ n = Len(wire) + 1
        BY <2>5
      <3>2. \A n \in 1 .. Len(wire) : wire[n].kind = "commit" => wire[n].key # k /\ wire[n].key \in Keys
        <4>1. \A n \in 1 .. Len(wire) : wire[n] \in Lines
          BY ElementOfSeq DEF DaemonInv, QueueTypes
        <4> QED BY <1>0, <4>1 DEF DaemonInv, ClientInv, Agreeing, Lines
      <3>3. \A n \in 1 .. Len(wire') : wire'[n].kind = "commit" => cl'[wire'[n].key] \in Agreeing
        BY <2>3, <2>5, <2>6, <3>1, <3>2 DEF DaemonInv, ClientInv
      <3>4. \A j \in Keys : reg'[j].commit => cl'[j] \in Agreeing
        BY <2>2, <2>6, <2>8, EntriesAt DEF DaemonInv, ClientInv
      <3>5. single'.decision = "commit" => single'.key \in Keys /\ cl'[single'.key] \in Agreeing
        BY <1>0, <2>2, <2>6 DEF DaemonInv, ClientInv, Agreeing
      <3>6. \A j \in Keys :
              /\ said'[j] = Done => cl'[j] \in {"committed", "done", "closed"}
              /\ cl'[j] = "failed" => said'[j] \in Ended
              /\ cl'[j] = "committed" => heard'[j] >= 2
        BY <2>2, <2>6, <2>8, TranscriptsDiffer DEF DaemonInv, ClientInv
      <3>7. half' \in Halves /\ (half'.kind = "commit" => half'.key \in Keys /\ cl'[half'.key] \in Agreeing)
        BY <1>0, <2>2, <2>6 DEF DaemonInv, ClientInv, Agreeing
      <3> QED BY <3>3, <3>4, <3>5, <3>6, <3>7 DEF ClientInv
    <2> QED BY <2>11, <2>12, <2>13, <2>14, <2>15 DEF DaemonInv
  <1> QED BY <1>1, <1>2

(* An abort is the word of a client that has not agreed. *)
LEMMA AbortSent ==
  ASSUME DaemonInv, NEW k \in Keys, cl[k] = "waiting", SendAbort(k),
         UNCHANGED << req, half, chan, backlog, reg, single, lanes, queue, cohort, gen, pc, cur,
                      doomed, agreed, ended, said >>,
         heard' \in [Keys -> Nat], \A j \in Keys : heard'[j] >= heard[j]
  PROVE  DaemonInv'
  <1>1. wire' = Append(wire, Line("abort", k)) /\ cl' = [cl EXCEPT ![k] = "aborting"]
    BY DEF SendAbort, Move
  <1>2. /\ wire' \in Seq(Lines) /\ Len(wire) \in Nat /\ Len(wire') = Len(wire) + 1
        /\ \A n \in 1 .. Len(wire) : wire'[n] = wire[n]
        /\ wire'[Len(wire) + 1].kind = "abort" /\ OnWire' = OnWire
    <2>1. "abort" \notin Asks
      BY DEF Asks
    <2> QED BY <1>1, <2>1, WireAppend DEF DaemonInv
  <1>3. /\ cl' \in [Keys -> {"new", "waiting", "committed", "aborting", "done", "failed", "closed"}]
        /\ cl'[k] = "aborting" /\ \A j \in Keys \ {k} : cl'[j] = cl[j]
    BY <1>1 DEF DaemonInv, MapTypes
  <1>4. InboxInv'
    <2>1. \A j \in Keys : cl'[j] = "new" => cl[j] = "new"
      BY <1>3
    <2> QED BY <1>1, <2>1, ControlSent
  <1>5. QueueTypes' /\ MapTypes' /\ CellTypes' /\ LaneInv' /\ RegInv' /\ PhaseInv' /\ MainInv'
    BY <1>2, <1>3, DaemonUntouched
  <1>6. ClientInv'
    <2>1. \A n \in 1 .. Len(wire') : n \in 1 .. Len(wire) \/ n = Len(wire) + 1
      BY <1>2
    <2>2. \A n \in 1 .. Len(wire) : wire[n].kind = "commit" => wire[n].key # k /\ wire[n].key \in Keys
      <3>1. \A n \in 1 .. Len(wire) : wire[n] \in Lines
        BY ElementOfSeq DEF DaemonInv, QueueTypes
      <3> QED BY <3>1 DEF DaemonInv, ClientInv, Agreeing, Lines
    <2>3. \A n \in 1 .. Len(wire') : wire'[n].kind = "commit" => cl'[wire'[n].key] \in Agreeing
      BY <1>2, <1>3, <2>1, <2>2 DEF DaemonInv, ClientInv
    <2>4. \A j \in Keys : cl[j] \in Agreeing => j # k
      BY DEF Agreeing
    <2>5. \A j \in Keys : cl'[j] = "committed" => heard'[j] >= 2
      BY <1>3 DEF DaemonInv, ClientInv, MapTypes
    <2> QED BY <1>3, <2>3, <2>4, <2>5 DEF DaemonInv, ClientInv
  <1> QED BY <1>4, <1>5, <1>6 DEF DaemonInv

(* A client gives up. *)
LEMMA GiveUpKeeps ==
  ASSUME DaemonInv, NEW k \in Keys, GiveUp(k)
  PROVE  DaemonInv'
  <1>1. \A j \in Keys : heard[j] \in Nat
    BY DEF DaemonInv, MapTypes
  <1>2. heard' \in [Keys -> Nat] /\ \A j \in Keys : heard'[j] >= heard[j]
    BY <1>1 DEF DaemonInv, MapTypes, GiveUp
  <1> QED BY <1>2, AbortSent DEF GiveUp, inbox, control, sched, picked

(* A client learns that the daemon is gone. *)
LEMMA ClosedKeeps ==
  ASSUME DaemonInv, NEW k \in Keys, Closed(k)
  PROVE  DaemonInv'
  <1>1. /\ UNCHANGED << req, wire, half, chan, backlog, reg, single, lanes, queue, cohort, gen, pc, cur,
                        doomed, agreed, ended, said, heard >>
        /\ cl' = [cl EXCEPT ![k] = "closed"]
    BY DEF Closed, Move, inbox, control, sched, picked
  <1>2. /\ cl' \in [Keys -> {"new", "waiting", "committed", "aborting", "done", "failed", "closed"}]
        /\ cl'[k] = "closed" /\ \A j \in Keys \ {k} : cl'[j] = cl[j]
    BY <1>1 DEF DaemonInv, MapTypes
  <1>3. InboxInv'
    BY <1>1, <1>2, NothingSent
  <1>4. QueueTypes' /\ MapTypes' /\ CellTypes' /\ LaneInv' /\ RegInv' /\ PhaseInv' /\ MainInv'
    <2>1. OnWire' = OnWire
      BY <1>1 DEF OnWire
    <2> QED BY <1>1, <1>2, <2>1, DaemonUntouched DEF DaemonInv, QueueTypes, MapTypes
  <1>5. ClientInv'
    BY <1>1, <1>2 DEF DaemonInv, ClientInv, Agreeing
  <1> QED BY <1>3, <1>4, <1>5 DEF DaemonInv

(* A client takes the next event.  It agrees with the second, and what it  *)
(* takes after that ends its request.                                      *)
LEMMA HearKeeps ==
  ASSUME DaemonInv, NEW k \in Keys, Hear(k)
  PROVE  DaemonInv'
  <1> DEFINE s == said[k]
             n == heard[k] + 1
             ev == said[k][heard[k] + 1]
  <1>1. /\ heard[k] \in Nat /\ said[k] \in Transcripts
        /\ heard \in [Keys -> Nat]
        /\ cl \in [Keys -> {"new", "waiting", "committed", "aborting", "done", "failed", "closed"}]
    BY DEF DaemonInv, MapTypes
  <1>2. Len(s) \in Nat /\ Len(s) <= 3 /\ n \in 1 .. Len(s) /\ n \in Nat
    <2>1. Len(s) \in Nat /\ Len(s) <= 3
      BY <1>1, TranscriptsAt
    <2> QED BY <1>1, <2>1 DEF Hear
  <1>3. /\ s[n] = "ready" => n = 2
        /\ s[n] \in Terminals => s \in Ended
        /\ n = 3 => s[n] \in Terminals
        /\ s = Done /\ n = 3 => s[n] = "done"
        /\ s[n] = "done" => s = Done
    BY <1>1, <1>2, TranscriptsAt
  <1>4. /\ heard' \in [Keys -> Nat] /\ heard'[k] = n /\ heard'[k] >= heard[k]
        /\ \A j \in Keys \ {k} : heard'[j] = heard[j]
    BY <1>1 DEF Hear
  <1>5. /\ UNCHANGED << req, half, chan, backlog, reg, single, lanes, queue, cohort, gen, pc, cur,
                        doomed, agreed, ended, said >>
        /\ cl[k] \in {"waiting", "committed", "aborting"}
    BY DEF Hear, inbox, control, sched, picked
  <1>6. /\ \A j \in Keys : heard'[j] >= heard[j]
        /\ wire' = wire => OnWire' = OnWire
    BY <1>1, <1>4 DEF OnWire
  <1>7. CASE UNCHANGED << wire, cl >>
    <2>1. InboxInv'
      BY <1>5, <1>7, NothingSent
    <2>2. QueueTypes' /\ MapTypes' /\ CellTypes' /\ LaneInv' /\ RegInv' /\ PhaseInv' /\ MainInv'
      BY <1>1, <1>4, <1>5, <1>6, <1>7, DaemonUntouched DEF DaemonInv, QueueTypes
    <2>3. \A j \in Keys : cl'[j] = "committed" => heard'[j] >= 2
      BY <1>1, <1>4, <1>6, <1>7 DEF DaemonInv, ClientInv
    <2>4. ClientInv'
      BY <1>5, <1>7, <2>3 DEF DaemonInv, ClientInv
    <2> QED BY <2>1, <2>2, <2>4 DEF DaemonInv
  <1>8. CASE /\ cl[k] = "waiting" /\ ev = "ready"
             /\ wire' = Append(wire, Line("commit", k)) /\ Move(k, "committed")
    <2>1. /\ wire' \in Seq(Lines) /\ Len(wire) \in Nat /\ Len(wire') = Len(wire) + 1
          /\ \A m \in 1 .. Len(wire) : wire'[m] = wire[m]
          /\ wire'[Len(wire) + 1].kind = "commit" /\ wire'[Len(wire) + 1].key = k
          /\ OnWire' = OnWire
      <3>1. "commit" \notin Asks
        BY DEF Asks
      <3> QED BY <1>8, <3>1, WireAppend DEF DaemonInv
    <2>2. /\ cl' \in [Keys -> {"new", "waiting", "committed", "aborting", "done", "failed", "closed"}]
          /\ cl'[k] = "committed" /\ \A j \in Keys \ {k} : cl'[j] = cl[j]
      BY <1>1, <1>8 DEF Move
    <2>3. InboxInv'
      <3>1. \A j \in Keys : cl'[j] = "new" => cl[j] = "new"
        BY <2>2
      <3> QED BY <1>5, <1>8, <3>1, ControlSent
    <2>4. QueueTypes' /\ MapTypes' /\ CellTypes' /\ LaneInv' /\ RegInv' /\ PhaseInv' /\ MainInv'
      BY <1>4, <1>5, <2>1, <2>2, DaemonUntouched
    <2>5. ClientInv'
      <3>1. \A m \in 1 .. Len(wire') : m \in 1 .. Len(wire) \/ m = Len(wire) + 1
        BY <2>1
      <3>2. \A m \in 1 .. Len(wire) : wire[m].key \in Keys
        <4>1. \A m \in 1 .. Len(wire) : wire[m] \in Lines
          BY ElementOfSeq DEF DaemonInv, QueueTypes
        <4> QED BY <4>1 DEF Lines
      <3>3. \A j \in Keys : cl[j] \in Agreeing \/ j = k => cl'[j] \in Agreeing
        BY <2>2 DEF Agreeing
      <3>4. \A m \in 1 .. Len(wire') : wire'[m].kind = "commit" => cl'[wire'[m].key] \in Agreeing
        BY <2>1, <3>1, <3>2, <3>3 DEF DaemonInv, ClientInv
      <3>5. \A j \in Keys : cl'[j] = "committed" => heard'[j] >= 2
        BY <1>3, <1>4, <1>8, <2>2 DEF DaemonInv, ClientInv
      <3>6. \A j \in Keys : /\ said'[j] = Done => cl'[j] \in {"committed", "done", "closed"}
                            /\ cl'[j] = "failed" => said'[j] \in Ended
        BY <1>5, <2>2 DEF DaemonInv, ClientInv
      <3> QED BY <1>5, <3>3, <3>4, <3>5, <3>6 DEF DaemonInv, ClientInv
    <2> QED BY <2>3, <2>4, <2>5 DEF DaemonInv
  <1>9. CASE cl[k] = "waiting" /\ SendAbort(k)
    BY <1>4, <1>5, <1>6, <1>9, AbortSent
  <1>10. CASE /\ ev \in Terminals \/ cl[k] = "committed"
              /\ Move(k, IF ev = "done" /\ cl[k] = "committed" THEN "done" ELSE "failed")
              /\ UNCHANGED wire
    <2>1. said[k] \in Ended
      <3>1. CASE ev \in Terminals
        BY <1>3, <3>1
      <3>2. CASE cl[k] = "committed"
        <4>1. heard[k] >= 2
          BY <3>2 DEF DaemonInv, ClientInv
        <4>2. n = 3
          BY <1>1, <1>2, <4>1
        <4> QED BY <1>3, <4>2
      <3> QED BY <1>10, <3>1, <3>2
    <2>2. said[k] = Done => cl[k] = "committed" /\ ev = "done"
      <3>1. ASSUME said[k] = Done PROVE cl[k] = "committed"
        BY <1>5, <3>1 DEF DaemonInv, ClientInv
      <3>2. ASSUME said[k] = Done PROVE ev = "done"
        <4>1. heard[k] >= 2
          BY <3>1, <3>2 DEF DaemonInv, ClientInv
        <4>2. n = 3
          BY <1>1, <1>2, <4>1
        <4> QED BY <1>3, <3>2, <4>2
      <3> QED BY <3>1, <3>2
    <2>3. /\ cl' \in [Keys -> {"new", "waiting", "committed", "aborting", "done", "failed", "closed"}]
          /\ cl'[k] \in {"done", "failed"} /\ \A j \in Keys \ {k} : cl'[j] = cl[j]
          /\ (said[k] = Done => cl'[k] = "done")
      BY <1>1, <1>10, <2>2 DEF Move
    <2>4. InboxInv'
      <3>1. \A j \in Keys : cl'[j] = "new" => cl[j] = "new"
        BY <2>3
      <3> QED BY <1>5, <1>10, <3>1, NothingSent
    <2>5. QueueTypes' /\ MapTypes' /\ CellTypes' /\ LaneInv' /\ RegInv' /\ PhaseInv' /\ MainInv'
      BY <1>4, <1>5, <1>6, <1>10, <2>3, DaemonUntouched DEF DaemonInv, QueueTypes
    <2>6. ClientInv'
      <3>1. \A j \in Keys : cl[j] \in Agreeing => cl'[j] \in Agreeing
        BY <2>3 DEF Agreeing
      <3>2. \A m \in 1 .. Len(wire) : wire[m].key \in Keys
        <4>1. \A m \in 1 .. Len(wire) : wire[m] \in Lines
          BY ElementOfSeq DEF DaemonInv, QueueTypes
        <4> QED BY <4>1 DEF Lines
      <3>3. \A j \in Keys : /\ said'[j] = Done => cl'[j] \in {"committed", "done", "closed"}
                            /\ cl'[j] = "failed" => said'[j] \in Ended
                            /\ cl'[j] = "committed" => heard'[j] >= 2
        BY <1>4, <1>5, <2>1, <2>3 DEF DaemonInv, ClientInv
      <3> QED BY <1>5, <1>10, <3>1, <3>2, <3>3 DEF DaemonInv, ClientInv
    <2> QED BY <2>4, <2>5, <2>6 DEF DaemonInv
  <1> QED BY <1>7, <1>8, <1>9, <1>10 DEF Hear

-----------------------------------------------------------------------------
(* The stdin reader *)

(* A control line is applied to the singleton: it may decide for the key   *)
(* that is there, and changes nothing else.                                *)
LEMMA ReadControl ==
  ASSUME DaemonInv, Read, Head(wire).kind \in {"abort", "commit"}
  PROVE  DaemonInv'
  <1> DEFINE m == Head(wire)
             k == m.key
  <1>1. /\ wire # << >> /\ wire' = Tail(wire)
        /\ single' = apply_terminal_control(m.kind, m.key) /\ half' = m
        /\ UNCHANGED << reg, chan, req, backlog, lanes, queue, cohort, gen, pc, cur, doomed, agreed,
                        ended, said, heard, cl >>
    BY DEF Read, sched, picked, clients
  <1>2. /\ wire' \in Seq(Lines) /\ Len(wire) \in Nat /\ Len(wire') = Len(wire) - 1
        /\ m = wire[1] /\ m \in Lines /\ 1 \in 1 .. Len(wire)
        /\ \A n \in 1 .. Len(wire') : wire'[n] = wire[n + 1] /\ n + 1 \in 1 .. Len(wire)
        /\ OnWire' = OnWire
    <2>1. m.kind \notin Asks
      BY DEF Asks
    <2> QED BY <1>1, <2>1, WireTail DEF DaemonInv
  <1>3. k \in Keys /\ half' \in Halves
    BY <1>1, <1>2 DEF Lines, Halves
  <1>5. /\ single' \in [key : Keys \cup {NoKey}, ready : BOOLEAN, decision : {"none", "abort", "commit"}]
        /\ single'.key = single.key
        /\ single'.decision = "commit" =>
             single.decision = "commit" \/ (single.key = k /\ m.kind = "commit")
    <2>1. single \in [key : Keys \cup {NoKey}, ready : BOOLEAN, decision : {"none", "abort", "commit"}]
      BY DEF DaemonInv, CellTypes
    <2>2. CASE single' = single
      BY <2>1, <2>2
    <2>3. CASE single' = [single EXCEPT !.decision = m.kind] /\ single.key = k
      <3>1. single'.key = single.key /\ single'.decision = m.kind
        BY <2>1, <2>3
      <3>2. single' \in [key : Keys \cup {NoKey}, ready : BOOLEAN, decision : {"none", "abort", "commit"}]
        BY <2>1, <2>3
      <3> QED BY <2>3, <3>1, <3>2
    <2> QED BY <1>1, <2>2, <2>3 DEF apply_terminal_control
  <1>6. InInbox' = InInbox /\ Occupied' = Occupied /\ In("running")' = In("running")
        /\ In("awaiting")' = In("awaiting")
    BY <1>1 DEF InInbox, Occupied, In
  <1>7. QueueTypes' /\ MapTypes' /\ CellTypes'
    BY <1>1, <1>2, <1>5 DEF DaemonInv, QueueTypes, MapTypes, CellTypes
  <1>8. InboxInv'
    <2>1. \A p, q \in 1 .. Len(wire') :
            wire'[p].kind \in Asks /\ wire'[q].kind \in Asks /\ wire'[p].key = wire'[q].key => p = q
      <3> SUFFICES ASSUME NEW p \in 1 .. Len(wire'), NEW q \in 1 .. Len(wire'), wire'[p].kind \in Asks,
                          wire'[q].kind \in Asks, wire'[p].key = wire'[q].key
                   PROVE  p = q
        OBVIOUS
      <3>1. p + 1 = q + 1
        BY <1>2 DEF DaemonInv, InboxInv
      <3> QED BY <3>1
    <2> QED BY <1>1, <1>2, <1>6, <2>1 DEF DaemonInv, InboxInv
  <1>9. LaneInv' /\ RegInv' /\ PhaseInv' /\ MainInv'
    BY <1>1, <1>2, <1>5, <1>6 DEF DaemonInv, LaneInv, RegInv, PhaseInv, MainInv
  <1>11. ClientInv'
    <2>1. m.kind = "commit" => cl[k] \in Agreeing
      BY <1>2 DEF DaemonInv, ClientInv
    <2>2. \A n \in 1 .. Len(wire') : wire'[n].kind = "commit" => cl'[wire'[n].key] \in Agreeing
      BY <1>1, <1>2 DEF DaemonInv, ClientInv
    <2> QED BY <1>1, <1>3, <1>5, <2>1, <2>2 DEF DaemonInv, ClientInv
  <1> QED BY <1>7, <1>8, <1>9, <1>11 DEF DaemonInv

(* Then it is applied to the registry: it changes what a key is told,      *)
(* never where it is.                                                      *)
LEMMA LatchKeeps ==
  ASSUME DaemonInv, Latch
  PROVE  DaemonInv'
  <1> DEFINE k == half.key
  <1>1. /\ reg' = batch_apply_terminal_control(half.kind, half.key) /\ half' = NoLine
        /\ UNCHANGED << wire, single, chan, req, backlog, lanes, queue, cohort, gen, pc, cur, doomed,
                        agreed, ended, said, heard, cl >>
    BY DEF Latch, inbox, sched, picked, clients
  <1>2. /\ k \in Keys /\ half.kind \in {"abort", "commit"}
        /\ (half.kind = "commit" => cl[k] \in Agreeing)
        /\ NoLine \in Halves /\ NoLine.kind # "commit"
    BY DEF DaemonInv, ClientInv, Halves, Latch, NoLine, Line
  <1>4. /\ reg' \in [Keys -> Entries]
        /\ \A j \in Keys : reg'[j].state = reg[j].state /\ reg'[j].owner = reg[j].owner
        /\ \A j \in Keys : j # k \/ reg[j] = NoEntry => reg'[j] = reg[j]
        /\ \A j \in Keys : reg'[j].commit =>
             reg[j].commit \/ (j = k /\ half.kind = "commit" /\ reg[j].state = "ready")
    BY <1>1, <1>2, ApplyAt DEF DaemonInv, MapTypes
  <1>6. InInbox' = InInbox /\ Occupied' = Occupied /\ In("running")' = In("running")
        /\ In("awaiting")' = In("awaiting") /\ OnWire' = OnWire
    BY <1>1 DEF InInbox, Occupied, In, OnWire
  <1>7. QueueTypes' /\ MapTypes' /\ CellTypes'
    BY <1>1, <1>4 DEF DaemonInv, QueueTypes, MapTypes, CellTypes
  <1>8. InboxInv'
    <2>2. OnWire \cup InInbox \subseteq Keys
      BY InboxKeys DEF DaemonInv
    <2> QED BY <1>1, <1>4, <1>6, <2>2 DEF DaemonInv, InboxInv
  <1>9. LaneInv' /\ PhaseInv' /\ MainInv'
    BY <1>1, <1>6 DEF DaemonInv, LaneInv, PhaseInv, MainInv
  <1>10. RegInv'
    <2>1. \A j \in Keys :
            /\ reg'[j].state = "absent" => reg'[j] = NoEntry
            /\ reg'[j].state \notin {"active", "ready"} => reg'[j].owner = 0
            /\ reg'[j].commit => reg'[j].state = "ready"
            /\ reg'[j].state = "queued" => j \in ToSet(queue)
      BY <1>4 DEF DaemonInv, RegInv
    <2>2. ToSet(queue) \subseteq Keys /\ \A i \in Occupied : lanes[i].key \in Keys
      BY ToSetAt DEF DaemonInv, QueueTypes, LaneInv
    <2> QED BY <1>1, <1>4, <1>6, <2>1, <2>2 DEF DaemonInv, RegInv
  <1>11. ClientInv'
    BY <1>1, <1>2, <1>4 DEF DaemonInv, ClientInv
  <1> QED BY <1>7, <1>8, <1>9, <1>10, <1>11 DEF DaemonInv

(* A request moves from the wire to the inbox. *)
LEMMA ReadAsk ==
  ASSUME DaemonInv, Read, Head(wire).kind \in Asks
  PROVE  DaemonInv'
  <1> DEFINE m == Head(wire)
             k == m.key
  <1>1. /\ wire # << >> /\ wire' = Tail(wire)
        /\ UNCHANGED << half, single, req, backlog, lanes, queue, cohort, gen, pc, cur, doomed, agreed,
                        ended, said, heard, cl >>
    BY DEF Read, control, sched, picked, clients, Asks
  <1>2. /\ wire' \in Seq(Lines) /\ Len(wire) \in Nat /\ Len(wire') = Len(wire) - 1
        /\ m = wire[1] /\ m \in Lines /\ 1 \in 1 .. Len(wire)
        /\ \A n \in 1 .. Len(wire') : wire'[n] = wire[n + 1] /\ n + 1 \in 1 .. Len(wire)
        /\ k \in OnWire /\ OnWire' = OnWire \ {k}
    BY <1>1, WireTail DEF DaemonInv
  <1>3. k \in Keys
    BY <1>2 DEF Lines
  <1>4. /\ reg[k] = NoEntry /\ k \notin InInbox /\ said[k] = Silent /\ req[k] \in Requests[k]
        /\ cl[k] # "new"
    BY <1>2, <1>3 DEF DaemonInv, InboxInv
  <1>5. /\ chan' = Append(chan, k)
        /\ reg' = reg \/ reg' = batch_announce_terminal(reg, k)
    BY <1>4 DEF Read, control, Asks
  <1>6. /\ reg' \in [Keys -> Entries] /\ \A j \in Keys \ {k} : reg'[j] = reg[j]
        /\ reg'[k] \in {NoEntry, Announced}
    <2>1. reg \in [Keys -> Entries]
      BY DEF DaemonInv, MapTypes
    <2> QED BY <1>3, <1>4, <1>5, <2>1, AnnounceAt
  <1>7. /\ chan' \in Seq(Keys) /\ ToSet(chan') = ToSet(chan) \cup {k} /\ Distinct(chan')
    <2>1. chan \in Seq(Keys) /\ Distinct(chan) /\ k \notin ToSet(chan)
      BY <1>4 DEF DaemonInv, QueueTypes, InboxInv, InInbox
    <2> QED BY <1>3, <1>5, <2>1, AppendSet, AppendAt
  <1>8. InInbox' = InInbox \cup {k} /\ Occupied' = Occupied /\ In("running")' = In("running")
        /\ In("awaiting")' = In("awaiting")
    BY <1>1, <1>7 DEF InInbox, Occupied, In
  <1>9. k \notin ToSet(queue) /\ k \notin KeysOf(Occupied)
    BY <1>3, <1>4, SilentAway
  <1>10. QueueTypes' /\ MapTypes' /\ CellTypes'
    BY <1>1, <1>2, <1>6, <1>7 DEF DaemonInv, QueueTypes, MapTypes, CellTypes
  <1>11. InboxInv'
    <2>1. \A p, q \in 1 .. Len(wire') :
            wire'[p].kind \in Asks /\ wire'[q].kind \in Asks /\ wire'[p].key = wire'[q].key => p = q
      <3> SUFFICES ASSUME NEW p \in 1 .. Len(wire'), NEW q \in 1 .. Len(wire'), wire'[p].kind \in Asks,
                          wire'[q].kind \in Asks, wire'[p].key = wire'[q].key
                   PROVE  p = q
        OBVIOUS
      <3>1. p + 1 = q + 1
        BY <1>2 DEF DaemonInv, InboxInv
      <3> QED BY <3>1
    <2>2. OnWire \cup InInbox \subseteq Keys
      BY InboxKeys DEF DaemonInv
    <2>3. k \notin ToSet(backlog)
      BY <1>4 DEF InInbox
    <2>4. ToSet(backlog') \cap ToSet(chan') = {}
      BY <1>1, <1>7, <2>3 DEF DaemonInv, InboxInv
    <2>5. OnWire' \cap InInbox' = {}
      BY <1>2, <1>8 DEF DaemonInv, InboxInv
    <2>6. \A j \in OnWire' \cup InInbox' :
            said'[j] = Silent /\ req'[j] \in Requests[j] /\ reg'[j].state \in {"absent", "announced"}
      BY <1>1, <1>2, <1>4, <1>6, <1>8, <2>2, EntriesAt DEF DaemonInv, InboxInv
    <2>7. \A j \in OnWire' : reg'[j] = NoEntry
      BY <1>2, <1>6, <2>2 DEF DaemonInv, InboxInv
    <2>8. \A j \in Keys : cl'[j] = "new" =>
            j \notin OnWire' \cup InInbox' /\ said'[j] = Silent /\ reg'[j] = NoEntry
      BY <1>1, <1>2, <1>4, <1>6, <1>8 DEF DaemonInv, InboxInv
    <2> QED BY <1>7, <2>1, <2>4, <2>5, <2>6, <2>7, <2>8 DEF InboxInv
  <1>12. LaneInv' /\ PhaseInv' /\ MainInv'
    BY <1>1, <1>2, <1>8 DEF DaemonInv, LaneInv, PhaseInv, MainInv
  <1>13. RegInv'
    <2>1. ToSet(queue) \subseteq Keys /\ \A i \in Occupied : lanes[i].key \in Keys /\ lanes[i].key # k
      BY <1>9, ToSetAt DEF DaemonInv, QueueTypes, LaneInv, KeysOf
    <2> QED BY <1>1, <1>3, <1>6, <1>8, <1>9, <2>1, EntriesAt DEF DaemonInv, RegInv
  <1>14. ClientInv'
    <2>1. \A n \in 1 .. Len(wire') : wire'[n].kind = "commit" => cl'[wire'[n].key] \in Agreeing
      BY <1>1, <1>2 DEF DaemonInv, ClientInv
    <2>2. \A j \in Keys : reg'[j].commit => reg[j].commit
      BY <1>3, <1>6, EntriesAt
    <2> QED BY <1>1, <2>1, <2>2 DEF DaemonInv, ClientInv
  <1> QED BY <1>10, <1>11, <1>12, <1>13, <1>14 DEF DaemonInv

(* The reader. *)
LEMMA ReaderKeeps ==
  ASSUME DaemonInv, Reader
  PROVE  DaemonInv'
  BY ReadControl, ReadAsk, LatchKeeps DEF Reader, Read, Asks

-----------------------------------------------------------------------------
(* The main loop *)

(* While the main loop takes its own messages no lane is occupied and no   *)
(* request queued; it stays so.                                            *)
LEMMA IdleLanes ==
  ASSUME DaemonInv, Occupied = {}, queue = << >>, UNCHANGED << lanes, queue >>
  PROVE  LaneInv' /\ Occupied' = {} /\ In("running")' = {} /\ In("awaiting")' = {}
  <1>1. Occupied' = Occupied
    BY DEF Occupied, In
  <1> QED BY <1>1, EmptySet DEF LaneInv, Occupied

(* In that state the registry holds announcements only. *)
LEMMA IdleRegistry ==
  ASSUME DaemonInv, Occupied = {}, queue = << >>
  PROVE  \A k \in Keys :
           /\ reg[k].state \in {"absent", "announced"} /\ reg[k].owner = 0 /\ ~ reg[k].commit
           /\ reg[k].state = "absent" => reg[k] = NoEntry
  <1>1. \A k \in Keys : reg[k].state \in {"absent", "announced", "queued", "active", "ready"}
    BY DEF DaemonInv, MapTypes, Entries
  <1> QED BY <1>1, EmptySet DEF DaemonInv, RegInv

(* A message was taken and nothing entered the batch. *)
LEMMA IdleTaken ==
  ASSUME DaemonInv, pc = "outer", Waiting # << >>, TakeMsg,
         UNCHANGED << req, wire, half, doomed, agreed, ended, heard, cl >>,
         NEW k, k = Head(Waiting),
         Occupied' = {}, queue' = << >>, lanes' \in [LaneIds -> Lanes], gen' \in Nat \ {0},
         reg' = reg \/ \E K : reg' = batch_clear_terminal(reg, K),
         \A j \in Keys \ {k} : said'[j] = said[j],
         said'[k] \in Transcripts \ {Done}, said' \in [Keys -> Transcripts],
         single' \in [key : Keys \cup {NoKey}, ready : BOOLEAN, decision : {"none", "abort", "commit"}],
         single'.decision # "commit" \/ single' = single,
         \/ UNCHANGED << pc, cur >>
         \/ /\ pc' = "check" /\ cur' \in [key : Keys, left : Int] /\ cur'.key = k
            /\ single'.key = k /\ said'[k] = Silent
  PROVE  DaemonInv'
  <1>1. Occupied = {} /\ queue = << >>
    BY DEF DaemonInv, MainInv
  <1>2. /\ k \in InInbox /\ k \in Keys
        /\ chan' \in Seq(Keys) /\ backlog' \in Seq(Keys) /\ Len(backlog') <= 1
    BY TakeStep DEF DaemonInv
  <1>3. /\ reg' \in [Keys -> Entries] /\ \A j \in Keys : reg'[j] = reg[j] \/ reg'[j] = NoEntry
    <2>1. reg \in [Keys -> Entries]
      BY DEF DaemonInv, MapTypes
    <2>2. CASE reg' = reg
      BY <2>1, <2>2
    <2>3. CASE \E K : reg' = batch_clear_terminal(reg, K)
      BY <2>1, <2>3, ClearedAt
    <2> QED BY <2>2, <2>3
  <1>4. QueueTypes' /\ MapTypes' /\ CellTypes'
    <2>1. QueueTypes'
      BY <1>1, <1>2, EmptySeq DEF DaemonInv, QueueTypes
    <2>2. MapTypes'
      BY <1>3 DEF DaemonInv, MapTypes
    <2>3. CellTypes'
      BY DEF DaemonInv, CellTypes
    <2> QED BY <2>1, <2>2, <2>3
  <1>5. InboxInv'
    BY <1>3, InboxTaken DEF DaemonInv
  <1>6. LaneInv' /\ In("running")' = {} /\ In("awaiting")' = {} /\ ToSet(queue') = {}
    BY EmptySet DEF LaneInv, Occupied
  <1>7. RegInv'
    <2>1. \A j \in Keys :
           /\ reg'[j].state \in {"absent", "announced"} /\ reg'[j].owner = 0 /\ ~ reg'[j].commit
           /\ reg'[j].state = "absent" => reg'[j] = NoEntry
      BY <1>1, <1>3, IdleRegistry, EntriesAt
    <2> QED BY <1>6, <2>1 DEF RegInv
  <1>8. PhaseInv' /\ MainInv'
    <2>1. OnWire' = OnWire /\ InInbox' = InInbox \ {k}
      BY TakeStep DEF OnWire, DaemonInv
    <2>2. k \notin OnWire' \cup InInbox' /\ cl'[k] # "new"
      BY <1>2, <2>1 DEF DaemonInv, InboxInv
    <2> QED BY <1>2, <1>6, <2>2 DEF DaemonInv, PhaseInv, MainInv
  <1>9. ClientInv'
    <2>1. said[k] = Silent
      BY <1>2 DEF DaemonInv, InboxInv
    <2>2. \A j \in Keys : said[j] \in Ended => said'[j] \in Ended
      BY <2>1, TranscriptsDiffer
    <2>3. \A j \in Keys : said'[j] = Done => said[j] = Done
      BY <1>2
    <2>4. \A j \in Keys : reg'[j].commit => reg[j].commit
      BY <1>3, EntriesAt
    <2> QED BY <2>2, <2>3, <2>4, ClientKept DEF DaemonInv
  <1> QED BY <1>4, <1>5, <1>6, <1>7, <1>8, <1>9 DEF DaemonInv

(* The sequential terminal-control cell, vacant and fresh. *)
LEMMA CellsAt ==
  /\ Vacant \in [key : Keys \cup {NoKey}, ready : BOOLEAN, decision : {"none", "abort", "commit"}]
  /\ Vacant.decision = "none"
  /\ \A k \in Keys :
       /\ activate_terminal_control(k)
            \in [key : Keys \cup {NoKey}, ready : BOOLEAN, decision : {"none", "abort", "commit"}]
       /\ activate_terminal_control(k).key = k /\ activate_terminal_control(k).decision = "none"
  BY DEF Vacant, activate_terminal_control

(* The first request of a batch is queued. *)
LEMMA StartBatchKeeps ==
  ASSUME DaemonInv, pc = "outer", Waiting # << >>, TakeMsg, NEW k, k = Head(Waiting), StartBatch(k),
         UNCHANGED << req, wire, half, doomed, agreed, ended, heard, cl >>
  PROVE  DaemonInv'
  <1>1. Occupied = {} /\ queue = << >>
    BY DEF DaemonInv, MainInv
  <1>2. /\ k \in InInbox /\ k \in Keys
        /\ chan' \in Seq(Keys) /\ backlog' \in Seq(Keys) /\ Len(backlog') <= 1
    BY TakeStep DEF DaemonInv
  <1>3. said[k] = Silent /\ req[k] \in Requests[k]
    BY <1>2 DEF DaemonInv, InboxInv
  <1>4. /\ reg' = batch_transition_to_queued(reg, k)
        /\ single' = activate_terminal_control(k)
        /\ queue' = Append(queue, k) /\ Say({k}, << "start" >>) /\ pc' = "poll"
        /\ UNCHANGED << lanes, cohort, gen, cur >>
    BY DEF StartBatch, Goto
  <1>5. /\ said' \in [Keys -> Transcripts] /\ said'[k] = Started
        /\ \A j \in Keys \ {k} : said'[j] = said[j]
    <2>1. said[k] \o << "start" >> = Started /\ Started \in Transcripts
      BY <1>3, TranscriptsGrow DEF Transcripts
    <2>2. said \in [Keys -> Transcripts]
      BY DEF DaemonInv, MapTypes
    <2> QED BY <1>2, <1>4, <2>1, <2>2, SayOne
  <1>6. /\ queue' \in Seq(Keys) /\ ToSet(queue') = {k} /\ Distinct(queue')
    <2>1. queue \in Seq(Keys) /\ Distinct(queue) /\ ToSet(queue) = {}
      BY <1>1, EmptySet DEF DaemonInv, QueueTypes
    <2> QED BY <1>2, <1>4, <2>1, AppendSet, AppendAt
  <1>7. /\ Occupied' = {} /\ In("running")' = {} /\ In("awaiting")' = {}
    <2>1. Occupied' = Occupied
      BY <1>4 DEF Occupied, In
    <2> QED BY <1>1, <2>1 DEF Occupied
  <1>8. reg \in [Keys -> Entries]
    BY DEF DaemonInv, MapTypes
  <1>9. /\ reg' \in [Keys -> Entries] /\ \A j \in Keys \ {k} : reg'[j] = reg[j]
        /\ reg'[k].state \in {"absent", "queued"} /\ reg'[k].owner = 0 /\ ~ reg'[k].commit
        /\ reg'[k].state = "absent" => reg'[k] = NoEntry
    <2>1. /\ reg[k].state \in {"absent", "announced"} /\ reg[k].owner = 0 /\ ~ reg[k].commit
          /\ reg[k].state = "absent" => reg[k] = NoEntry
      BY <1>1, <1>2, IdleRegistry
    <2>2. /\ reg' \in [Keys -> Entries]
          /\ \A j \in Keys : j # k \/ reg[j].state # "announced" => reg'[j] = reg[j]
          /\ reg[k].state = "announced" =>
               reg'[k].state = "queued" /\ reg'[k].owner = reg[k].owner /\ reg'[k].commit = reg[k].commit
      BY <1>2, <1>4, <1>8, QueuedAt
    <2> QED BY <1>2, <2>1, <2>2
  <1>10. QueueTypes' /\ MapTypes' /\ CellTypes'
    <2>1. QueueTypes'
      BY <1>2, <1>6 DEF DaemonInv, QueueTypes
    <2>2. MapTypes'
      BY <1>4, <1>5, <1>9 DEF DaemonInv, MapTypes
    <2>3. CellTypes'
      BY <1>2, <1>4, CellsAt DEF DaemonInv, CellTypes
    <2> QED BY <2>1, <2>2, <2>3
  <1>11. InboxInv'
    BY <1>5, <1>9, InboxTaken DEF DaemonInv
  <1>12. LaneInv'
    BY <1>3, <1>5, <1>6, <1>7 DEF LaneInv
  <1>13. RegInv'
    <2>1. \A j \in Keys \ {k} :
           /\ reg'[j].state \in {"absent", "announced"} /\ reg'[j].owner = 0 /\ ~ reg'[j].commit
           /\ reg'[j].state = "absent" => reg'[j] = NoEntry
      BY <1>1, <1>9, IdleRegistry
    <2> QED BY <1>6, <1>7, <1>9, <2>1 DEF RegInv
  <1>14. PhaseInv' /\ MainInv'
    BY <1>4, <1>7 DEF DaemonInv, PhaseInv, MainInv
  <1>15. ClientInv'
    <2>1. \A j \in Keys : said[j] \in Ended => said'[j] \in Ended
      BY <1>3, <1>5, TranscriptsDiffer
    <2>2. \A j \in Keys : said'[j] = Done => said[j] = Done
      BY <1>5, TranscriptsDiffer
    <2>3. \A j \in Keys : reg'[j].commit => reg[j].commit
      BY <1>9
    <2>4. single'.decision # "commit"
      BY <1>2, <1>4, CellsAt
    <2> QED BY <2>1, <2>2, <2>3, <2>4, ClientKept DEF DaemonInv
  <1> QED BY <1>10, <1>11, <1>12, <1>13, <1>14, <1>15 DEF DaemonInv

(* The main loop takes a message. *)
LEMMA OuterKeeps ==
  ASSUME DaemonInv, Outer
  PROVE  DaemonInv'
  <1> DEFINE k == Head(Waiting)
  <1>1. /\ pc = "outer" /\ Waiting # << >> /\ TakeMsg
        /\ UNCHANGED << req, wire, half, doomed, agreed, ended, heard, cl >>
    BY DEF Outer, picked, clients
  <1>2. /\ k \in InInbox /\ k \in Keys /\ said[k] = Silent /\ req[k] \in Requests[k]
    BY <1>1, TakeStep DEF DaemonInv, InboxInv
  <1>3. Occupied = {} /\ queue = << >>
    BY <1>1 DEF DaemonInv, MainInv
  <1>4. /\ said \in [Keys -> Transcripts] /\ lanes \in [LaneIds -> Lanes] /\ gen \in Nat \ {0}
        /\ single \in [key : Keys \cup {NoKey}, ready : BOOLEAN, decision : {"none", "abort", "commit"}]
    BY DEF DaemonInv, MapTypes, CellTypes
  <1> HIDE DEF k
  <1>5. ASSUME UNCHANGED << lanes, queue >> PROVE Occupied' = {} /\ queue' = << >>
    BY <1>3, <1>5 DEF Occupied, In
  <1>6. Ended \cup {Started, Silent} \subseteq Transcripts /\ Started # Done /\ Silent # Done
    BY TranscriptsDiffer DEF Transcripts
  <1>7. ASSUME NEW evs, Say({k}, evs), Silent \o evs \in Transcripts
        PROVE  /\ said' \in [Keys -> Transcripts] /\ said'[k] = Silent \o evs
               /\ \A j \in Keys \ {k} : said'[j] = said[j]
    BY <1>2, <1>4, <1>7, SayOne
  <1>8. CASE Load(k) \/ Reset(k) \/ Unload(k)
    <2>1. PICK e \in {"ack", "error"} : Say({k}, << e >>)
      BY <1>8 DEF Load, Reset, Unload
    <2>2. Silent \o << e >> \in Transcripts \ {Done}
      BY <1>6, TranscriptsGrow
    <2>3. /\ said' \in [Keys -> Transcripts] /\ said'[k] \in Transcripts \ {Done}
          /\ \A j \in Keys \ {k} : said'[j] = said[j]
      BY <1>7, <2>1, <2>2
    <2>4. /\ UNCHANGED << single, pc, cur >> /\ gen' \in {gen, 1}
          /\ reg' = reg \/ \E K : reg' = batch_clear_terminal(reg, K)
          /\ EmptyScheduler \/ UNCHANGED << lanes, queue >>
      BY <1>8 DEF Load, Reset, Unload, ClearAll, control, sched
    <2>5. lanes' \in [LaneIds -> Lanes] /\ Occupied' = {} /\ queue' = << >>
      <3>1. CASE EmptyScheduler
        BY <3>1 DEF EmptyScheduler, Empty, Lanes, Occupied, In
      <3>2. CASE UNCHANGED << lanes, queue >>
        BY <1>4, <1>5, <3>2
      <3> QED BY <2>4, <3>1, <3>2
    <2>6. gen' \in Nat \ {0}
      BY <1>4, <2>4
    <2> QED BY <1>1, <1>4, <2>3, <2>4, <2>5, <2>6, IdleTaken DEF k
  <1>9. CASE Refuse(k)
    <2>1. Silent \o << "error" >> \in Ended \ {Done}
      BY TranscriptsGrow
    <2>2. Silent \o << "error" >> \in Transcripts \ {Done}
      BY <1>6, <2>1
    <2>3. /\ said' \in [Keys -> Transcripts] /\ said'[k] \in Transcripts \ {Done}
          /\ \A j \in Keys \ {k} : said'[j] = said[j]
      BY <1>7, <1>9, <2>2 DEF Refuse
    <2>4. UNCHANGED << lanes, queue, gen, reg, single, pc, cur >>
      BY <1>9 DEF Refuse, sched, control
    <2>5. Occupied' = {} /\ queue' = << >>
      BY <1>5, <2>4
    <2> QED BY <1>1, <1>4, <2>3, <2>4, <2>5, IdleTaken DEF k
  <1>10. CASE CancelEarly(k)
    <2>1. Silent \o << "start", "cancelled" >> \in Ended \ {Done}
      BY TranscriptsGrow
    <2>2. Silent \o << "start", "cancelled" >> \in Transcripts \ {Done}
      BY <1>6, <2>1
    <2>3. /\ said' \in [Keys -> Transcripts] /\ said'[k] \in Transcripts \ {Done}
          /\ \A j \in Keys \ {k} : said'[j] = said[j]
      BY <1>7, <1>10, <2>2 DEF CancelEarly
    <2>4. /\ UNCHANGED << lanes, queue, gen, pc, cur >> /\ reg' = batch_clear_terminal(reg, {k})
          /\ single' = Vacant
      BY <1>10 DEF CancelEarly, sched
    <2>5. Occupied' = {} /\ queue' = << >>
      BY <1>5, <2>4
    <2>6. /\ single'.decision # "commit"
          /\ single' \in [key : Keys \cup {NoKey}, ready : BOOLEAN, decision : {"none", "abort", "commit"}]
      BY <2>4, CellsAt
    <2> QED BY <1>1, <1>4, <2>3, <2>4, <2>5, <2>6, IdleTaken DEF k
  <1>11. CASE RefuseLong(k)
    <2>1. /\ UNCHANGED << lanes, queue, gen, pc, cur, said >> /\ reg' = batch_clear_terminal(reg, {k})
          /\ single' = Vacant
      BY <1>11 DEF RefuseLong, sched
    <2>2. Occupied' = {} /\ queue' = << >>
      BY <1>5, <2>1
    <2>3. /\ single'.decision # "commit"
          /\ single' \in [key : Keys \cup {NoKey}, ready : BOOLEAN, decision : {"none", "abort", "commit"}]
      BY <2>1, CellsAt
    <2>4. said'[k] \in Transcripts \ {Done}
      BY <1>2, <1>6, <2>1
    <2> QED BY <1>1, <1>4, <2>1, <2>2, <2>3, <2>4, IdleTaken DEF k
  <1>12. CASE StartBatch(k)
    BY <1>1, <1>12, StartBatchKeeps DEF k
  <1>13. CASE StartSequential(k)
    <2>1. /\ UNCHANGED << lanes, queue, gen, reg, said >>
          /\ single' = activate_terminal_control(k)
          /\ cur' = [key |-> k, left |-> req[k].work] /\ pc' = "check"
      BY <1>13 DEF StartSequential, sched, Goto
    <2>2. said'[k] = Silent /\ said'[k] \in Transcripts \ {Done}
      BY <1>2, <1>6, <2>1
    <2>4. Occupied' = {} /\ queue' = << >>
      BY <1>5, <2>1
    <2>5. /\ single'.decision # "commit" /\ single'.key = k
          /\ single' \in [key : Keys \cup {NoKey}, ready : BOOLEAN, decision : {"none", "abort", "commit"}]
      BY <1>2, <2>1, CellsAt
    <2>6. cur' \in [key : Keys, left : Int] /\ cur'.key = k
      <3>1. req[k].work \in Int
        BY <1>2, DaemonAssumption
      <3> QED BY <1>2, <2>1, <3>1
    <2> QED BY <1>1, <1>4, <2>1, <2>2, <2>4, <2>5, <2>6, IdleTaken DEF k
  <1> QED BY <1>8, <1>9, <1>10, <1>11, <1>12, <1>13 DEF Outer, k

-----------------------------------------------------------------------------
(* The sequential route *)

(* A step of the sequential route concerns its own key only. *)
LEMMA SequentialMoved ==
  ASSUME DaemonInv, pc \in {"check", "clear", "transfer", "seq", "seq_wait"},
         UNCHANGED << req, wire, half, chan, backlog, lanes, queue, cohort, gen, doomed, agreed, ended,
                      heard, cl >>,
         pc' \in {"outer", "seq", "seq_wait"}, cur' \in [key : Keys \cup {NoKey}, left : Int],
         single' \in [key : Keys \cup {NoKey}, ready : BOOLEAN, decision : {"none", "abort", "commit"}],
         said' \in [Keys -> Transcripts], \A j \in Keys \ {cur.key} : said'[j] = said[j],
         reg' = reg \/ reg' = batch_clear_terminal(reg, {cur.key}),
         pc' # "outer" => /\ cur'.key = cur.key /\ single'.key = cur.key
                          /\ said'[cur.key] = IF pc' = "seq" THEN Started ELSE Ready,
         said'[cur.key] = Done => cl[cur.key] \in {"committed", "done", "closed"},
         single'.decision = "commit" => single.decision = "commit" /\ single'.key = single.key
  PROVE  DaemonInv'
  <1>1. Occupied = {} /\ queue = << >> /\ cur.key \in Keys
    BY DEF DaemonInv, MainInv
  <1>2. /\ said[cur.key] \in {Silent, Started, Ready}
        /\ said[cur.key] = Silent => cur.key \notin OnWire \cup InInbox /\ cl[cur.key] # "new"
    BY TranscriptsDiffer DEF DaemonInv, MainInv
  <1>0. /\ reg' \in [Keys -> Entries]
        /\ \A k \in Keys : reg'[k] = reg[k] \/ reg'[k] = NoEntry
    <2>1. reg \in [Keys -> Entries]
      BY DEF DaemonInv, MapTypes
    <2>2. CASE reg' = batch_clear_terminal(reg, {cur.key})
      BY <2>1, <2>2, ClearedAt
    <2> QED BY <2>1, <2>2
  <1>3. LaneInv' /\ Occupied' = {} /\ In("running")' = {} /\ In("awaiting")' = {}
    BY <1>1, IdleLanes
  <1>4. QueueTypes' /\ MapTypes' /\ CellTypes'
    BY <1>0 DEF DaemonInv, QueueTypes, MapTypes, CellTypes
  <1>5. InboxInv'
    <2>1. OnWire' = OnWire /\ InInbox' = InInbox /\ OnWire \cup InInbox \subseteq Keys
      BY InboxKeys DEF OnWire, InInbox, DaemonInv
    <2>2. \A k \in OnWire \cup InInbox : said[k] = Silent
      BY DEF DaemonInv, InboxInv
    <2>3. cur.key \notin OnWire \cup InInbox /\ cl[cur.key] # "new"
      BY <1>1, <1>2, <2>2, TranscriptsDiffer DEF DaemonInv, InboxInv
    <2> QED BY <1>0, <2>1, <2>3, EntriesAt DEF DaemonInv, InboxInv
  <1>6. RegInv'
    <2>1. \A k \in Keys :
           /\ reg'[k].state \in {"absent", "announced"} /\ reg'[k].owner = 0 /\ ~ reg'[k].commit
           /\ reg'[k].state = "absent" => reg'[k] = NoEntry
      BY <1>0, <1>1, IdleRegistry, EntriesAt
    <2> QED BY <1>1, <1>3, <2>1, EmptySet DEF RegInv
  <1>7. PhaseInv' /\ MainInv'
    BY <1>1, <1>3 DEF DaemonInv, PhaseInv, MainInv
  <1>8. ClientInv'
    <2>1. \A k \in Keys : said[k] \in Ended => said'[k] \in Ended
      BY <1>2, TranscriptsDiffer
    <2>2. \A k \in Keys : said'[k] = Done => said[k] = Done \/ cl[k] \in {"committed", "done", "closed"}
      BY <1>1
    <2>3. \A k \in Keys : reg'[k].commit => reg[k].commit
      BY <1>0, EntriesAt
    <2> QED BY <2>1, <2>2, <2>3, ClientKept DEF DaemonInv
  <1> QED BY <1>3, <1>4, <1>5, <1>6, <1>7, <1>8 DEF DaemonInv

(* The route looks for a latched abort. *)
LEMMA CheckLatchKeeps ==
  ASSUME DaemonInv, CheckLatch
  PROVE  DaemonInv'
  <1>1. /\ pc = "check" /\ pc' \in {"clear", "transfer"}
        /\ UNCHANGED << req, wire, half, chan, backlog, reg, single, lanes, queue, cohort, gen, cur,
                        doomed, agreed, ended, said, heard, cl >>
    BY DEF CheckLatch, Goto, inbox, control, sched, picked, clients
  <1>2. /\ OnWire' = OnWire /\ InInbox' = InInbox /\ Occupied' = Occupied
        /\ In("running")' = In("running") /\ In("awaiting")' = In("awaiting")
    BY <1>1 DEF OnWire, InInbox, Occupied, In
  <1>3. QueueTypes' /\ MapTypes' /\ CellTypes'
    BY <1>1 DEF DaemonInv, QueueTypes, MapTypes, CellTypes
  <1>4. InboxInv' /\ LaneInv' /\ RegInv'
    BY <1>1, <1>2 DEF DaemonInv, InboxInv, LaneInv, RegInv
  <1>5. PhaseInv' /\ MainInv' /\ ClientInv'
    BY <1>1, <1>2 DEF DaemonInv, PhaseInv, MainInv, ClientInv
  <1> QED BY <1>3, <1>4, <1>5 DEF DaemonInv

(* The key leaves the registry, and its client is told of the start. *)
LEMMA TransferKeeps ==
  ASSUME DaemonInv, Transfer
  PROVE  DaemonInv'
  <1> DEFINE k == cur.key
             Cells == [key : Keys \cup {NoKey}, ready : BOOLEAN, decision : {"none", "abort", "commit"}]
  <1>1. /\ pc \in {"clear", "transfer"} /\ pc' = "seq" /\ reg' = batch_clear_terminal(reg, {cur.key})
        /\ Say({cur.key}, << "start" >>)
        /\ UNCHANGED << req, wire, half, chan, backlog, lanes, queue, cohort, gen, cur, doomed, agreed,
                        ended, heard, cl >>
    BY DEF Transfer, Goto, inbox, sched, picked, clients
  <1>2. k \in Keys /\ single.key = k /\ said[k] = Silent
    BY <1>1 DEF DaemonInv, MainInv
  <1>3. said \in [Keys -> Transcripts] /\ single \in Cells /\ cur \in [key : Keys \cup {NoKey}, left : Int]
    BY DEF DaemonInv, MapTypes, CellTypes
  <1>4. /\ said' \in [Keys -> Transcripts] /\ \A j \in Keys \ {k} : said'[j] = said[j]
        /\ said'[k] = Started
    <2>1. said[k] \o << "start" >> = Started /\ Started \in Transcripts
      BY <1>2, TranscriptsGrow DEF Transcripts
    <2> HIDE DEF k
    <2>2. Say({k}, << "start" >>)
      BY <1>1 DEF k
    <2> QED BY <1>2, <1>3, <2>1, <2>2, SayOne
  <1>5. /\ single' \in Cells /\ single'.key = k
        /\ single'.decision = "commit" => single.decision = "commit"
    <2>1. CASE single' = single
      BY <1>2, <1>3, <2>1
    <2>2. CASE single' = [activate_terminal_control(k) EXCEPT !.decision = "abort"]
      BY <1>2, <2>2 DEF activate_terminal_control, Vacant
    <2> QED BY <2>1, <2>2 DEF Transfer, transfer_abort
  <1>6. Started # Done
    BY TranscriptsDiffer
  <1> QED BY <1>1, <1>2, <1>3, <1>4, <1>5, <1>6, SequentialMoved

(* The sequential generate, token by token. *)
LEMMA SeqStepKeeps ==
  ASSUME DaemonInv, SeqStep
  PROVE  DaemonInv'
  <1> DEFINE k == cur.key
             Cells == [key : Keys \cup {NoKey}, ready : BOOLEAN, decision : {"none", "abort", "commit"}]
             Curs == [key : Keys \cup {NoKey}, left : Int]
  <1>1. /\ pc = "seq"
        /\ UNCHANGED << req, wire, half, chan, backlog, reg, lanes, queue, cohort, gen, doomed, agreed, ended,
                        heard, cl >>
    BY DEF SeqStep, inbox, sched, picked, clients
  <1>2. k \in Keys /\ single.key = k /\ said[k] = Started
    BY <1>1 DEF DaemonInv, MainInv
  <1>3. said \in [Keys -> Transcripts] /\ single \in Cells /\ cur \in Curs
    BY DEF DaemonInv, MapTypes, CellTypes
  <1>4. Vacant \in Cells /\ Vacant.decision = "none" /\ [key |-> NoKey, left |-> 0] \in Curs
    BY CellsAt
  <1>5. ASSUME NEW ev \in {"cancelled", "error"}, Say({k}, << ev >>), LeaveSequential PROVE DaemonInv'
    <2>1. said[k] \o << ev >> \in Ended \ {Done}
      BY <1>2, TranscriptsGrow
    <2>2. Ended \subseteq Transcripts
      BY DEF Transcripts
    <2>3. /\ said' \in [Keys -> Transcripts] /\ \A j \in Keys \ {k} : said'[j] = said[j]
          /\ said'[k] # Done
      <3> HIDE DEF k
      <3> QED BY <1>2, <1>3, <1>5, <2>1, <2>2, SayOne
    <2>4. pc' = "outer" /\ single' = Vacant /\ cur' = [key |-> NoKey, left |-> 0]
      BY <1>5 DEF LeaveSequential, Goto
    <2> QED BY <1>1, <1>4, <2>3, <2>4, SequentialMoved
  <1>6. CASE cur' = [cur EXCEPT !.left = @ - 1] /\ UNCHANGED << pc, single, said >>
    <2>1. cur' \in Curs /\ cur'.key = cur.key
      BY <1>3, <1>6
    <2> QED BY <1>1, <1>2, <1>3, <1>6, <2>1, TranscriptsDiffer, SequentialMoved
  <1>7. CASE /\ single' = [single EXCEPT !.ready = TRUE] /\ Say({k}, << "ready" >>)
             /\ Goto("seq_wait") /\ UNCHANGED cur
    <2>1. said[k] \o << "ready" >> = Ready /\ Ready \in Transcripts /\ Ready # Done
      BY <1>2, TranscriptsGrow, TranscriptsDiffer DEF Transcripts
    <2>2. /\ said' \in [Keys -> Transcripts] /\ \A j \in Keys \ {k} : said'[j] = said[j]
          /\ said'[k] = Ready
      <3> HIDE DEF k
      <3> QED BY <1>2, <1>3, <1>7, <2>1, SayOne
    <2>3. single' \in Cells /\ single'.key = single.key /\ single'.decision = single.decision
      BY <1>3, <1>7
    <2>4. pc' = "seq_wait" /\ cur' = cur
      BY <1>7 DEF Goto
    <2> QED BY <1>1, <1>2, <1>3, <2>1, <2>2, <2>3, <2>4, SequentialMoved
  <1> QED BY <1>5, <1>6, <1>7 DEF SeqStep

(* The end of a sequential request: done is written for a client that has  *)
(* agreed.                                                                 *)
LEMMA SeqDecideKeeps ==
  ASSUME DaemonInv, SeqDecide
  PROVE  DaemonInv'
  <1> DEFINE k == cur.key
             Cells == [key : Keys \cup {NoKey}, ready : BOOLEAN, decision : {"none", "abort", "commit"}]
             Curs == [key : Keys \cup {NoKey}, left : Int]
  <1>1. /\ pc = "seq_wait"
        /\ UNCHANGED << req, wire, half, chan, backlog, reg, lanes, queue, cohort, gen, doomed, agreed, ended,
                        heard, cl >>
        /\ pc' = "outer" /\ single' = Vacant /\ cur' = [key |-> NoKey, left |-> 0]
    BY DEF SeqDecide, inbox, sched, picked, clients, LeaveSequential, Goto
  <1>2. k \in Keys /\ single.key = k /\ said[k] = Ready
    BY <1>1 DEF DaemonInv, MainInv
  <1>3. said \in [Keys -> Transcripts]
    BY DEF DaemonInv, MapTypes
  <1>4. Vacant \in Cells /\ Vacant.decision = "none" /\ [key |-> NoKey, left |-> 0] \in Curs
    BY CellsAt
  <1>5. Ended \cup {Ready} \subseteq Transcripts
    BY DEF Transcripts
  <1>6. ASSUME NEW evs, Say({k}, evs), Ready \o evs \in Transcripts,
               Ready \o evs = Done => cl[k] \in {"committed", "done", "closed"}
        PROVE  DaemonInv'
    <2>1. /\ said' \in [Keys -> Transcripts] /\ \A j \in Keys \ {k} : said'[j] = said[j]
          /\ said'[k] = Ready \o evs
      <3> HIDE DEF k
      <3> QED BY <1>2, <1>3, <1>6, SayOne
    <2> QED BY <1>1, <1>4, <1>6, <2>1, SequentialMoved
  <1>7. CASE single.decision = "commit" /\ Say({k}, << "done" >>)
    <2>1. cl[k] \in Agreeing
      BY <1>2, <1>7 DEF DaemonInv, ClientInv
    <2>2. cl[k] # "failed"
      BY <1>2, TranscriptsDiffer DEF DaemonInv, ClientInv
    <2>3. Ready \o << "done" >> \in Transcripts
      BY <1>5, TranscriptsGrow, TranscriptsDiffer
    <2> QED BY <1>6, <1>7, <2>1, <2>2, <2>3 DEF Agreeing
  <1>8. CASE Say({k}, on_abort(k))
    <2>1. /\ Ready \o << "cancelled" >> \in Transcripts \ {Done}
          /\ Ready \o << >> \in Transcripts \ {Done}
      BY <1>5, TranscriptsGrow, TranscriptsDiffer
    <2>2. Ready \o on_abort(k) \in Transcripts \ {Done}
      BY <2>1 DEF on_abort
    <2> HIDE DEF k
    <2> QED BY <1>6, <1>8, <2>2
  <1> QED BY <1>7, <1>8 DEF SeqDecide

-----------------------------------------------------------------------------
(* The batch driver *)

(* The phase of an occupied lane, and of the lanes a phase has. *)
LEMMA PhasesAt ==
  ASSUME DaemonInv
  PROVE  /\ In("running") \cap In("awaiting") = {}
         /\ In("running") \subseteq Occupied /\ In("awaiting") \subseteq Occupied
         /\ Occupied \subseteq LaneIds
         /\ \A i \in In("running") : lanes[i].phase = "running" /\ said[lanes[i].key] = Started
         /\ \A i \in In("awaiting") : lanes[i].phase = "awaiting" /\ said[lanes[i].key] = Ready
  <1>1. /\ In("running") \cap In("awaiting") = {}
        /\ In("running") \subseteq Occupied /\ In("awaiting") \subseteq Occupied
        /\ Occupied \subseteq LaneIds
        /\ \A i \in In("running") : lanes[i].phase = "running"
        /\ \A i \in In("awaiting") : lanes[i].phase = "awaiting"
    BY DEF In, Occupied
  <1> QED BY <1>1 DEF DaemonInv, LaneInv

(* The registry calls nobody else the owner of an occupied lane. *)
LEMMA LaneOwned ==
  ASSUME DaemonInv, NEW i \in Occupied
  PROVE  owned(i)
  <1>1. lanes[i].key \in Keys
    BY DEF DaemonInv, LaneInv
  <1>2. ASSUME reg[lanes[i].key].state \in {"active", "ready"}
        PROVE  reg[lanes[i].key].owner = lanes[i].gen
    <2>1. PICK j \in Occupied : lanes[j].key = lanes[i].key /\ reg[lanes[i].key].owner = lanes[j].gen
      BY <1>1, <1>2 DEF DaemonInv, RegInv
    <2>2. j = i
      BY <2>1 DEF DaemonInv, LaneInv
    <2> QED BY <2>1, <2>2
  <1> QED BY <1>2 DEF owned

(* A lane is freed: its key gets its last word and is forgotten. *)
LEMMA ReleaseStep ==
  ASSUME DaemonInv, NEW i \in Occupied, Release({i}), NEW evs, Say({lanes[i].key}, evs),
         said[lanes[i].key] \o evs \in Ended,
         said[lanes[i].key] \o evs = Done => cl[lanes[i].key] \in {"committed", "done", "closed"},
         UNCHANGED << req, wire, half, chan, backlog, queue, gen, single, heard, cl >>
  PROVE  /\ QueueTypes' /\ MapTypes' /\ InboxInv' /\ LaneInv' /\ RegInv' /\ ClientInv'
         /\ In("running")' = In("running") \ {i} /\ In("awaiting")' = In("awaiting") \ {i}
         /\ Occupied' = Occupied \ {i}
  <1> DEFINE k == lanes[i].key
  <1>1. {j \in {i} : owned(j)} = {i} /\ KeysOf({i}) = {k}
    BY LaneOwned DEF KeysOf
  <1>2. /\ lanes' = [j \in LaneIds |-> IF j \in {i} THEN Empty ELSE lanes[j]]
        /\ cohort' = maybe_clear_cohort({i})
        /\ reg' = batch_clear_terminal(reg, {k})
    BY <1>1, Zenon DEF Release
  <1>3. /\ k \in Keys /\ k \notin ToSet(queue) /\ i \in LaneIds
        /\ \A j \in Occupied \ {i} : lanes[j].key # k
        /\ said[k] \in {Started, Ready}
    <2>1. i \in LaneIds
      BY DEF Occupied, In
    <2> QED BY <2>1 DEF DaemonInv, LaneInv
  <1>4. /\ lanes \in [LaneIds -> Lanes] /\ reg \in [Keys -> Entries] /\ said \in [Keys -> Transcripts]
    BY DEF DaemonInv, MapTypes
  <1>5. /\ lanes' \in [LaneIds -> Lanes] /\ lanes'[i].phase = "empty"
        /\ \A j \in LaneIds \ {i} : lanes'[j] = lanes[j]
    <2>1. Empty \in Lanes /\ Empty.phase = "empty"
      BY DEF Empty, Lanes
    <2> QED BY <1>2, <1>3, <1>4, <2>1
  <1>6. /\ In("running")' = In("running") \ {i} /\ In("awaiting")' = In("awaiting") \ {i}
        /\ Occupied' = Occupied \ {i} /\ Occupied \subseteq LaneIds
    BY <1>3, <1>5 DEF In, Occupied
  <1>7. /\ reg' \in [Keys -> Entries] /\ reg'[k] = NoEntry
        /\ \A j \in Keys \ {k} : reg'[j] = reg[j]
    <2> HIDE DEF k
    <2> QED BY <1>2, <1>3, <1>4, ClearedAt
  <1>8. /\ said' \in [Keys -> Transcripts] /\ said'[k] = said[k] \o evs
        /\ \A j \in Keys \ {k} : said'[j] = said[j]
    <2>1. said[k] \o evs \in Transcripts /\ Say({k}, evs)
      BY DEF Transcripts
    <2> HIDE DEF k
    <2> QED BY <1>3, <1>4, <2>1, SayOne
  <1>9. QueueTypes' /\ MapTypes'
    BY <1>5, <1>7, <1>8 DEF DaemonInv, QueueTypes, MapTypes
  <1>10. InboxInv'
    <2>1. \A j \in Keys : said[j] = Silent =>
            said'[j] = Silent /\ (reg'[j] = reg[j] \/ reg'[j] = NoEntry)
      BY <1>3, <1>7, <1>8, TranscriptsDiffer
    <2> QED BY <2>1, InboxKept DEF DaemonInv
  <1>11. LaneInv'
    <2>1. \A j \in Occupied' : j \in Occupied /\ lanes'[j] = lanes[j] /\ lanes[j].key # k
      BY <1>3, <1>5, <1>6
    <2>2. Occupied' # {} => cohort' = cohort
      BY <1>2, <1>6 DEF maybe_clear_cohort
    <2>3. ToSet(queue) \subseteq Keys
      BY ToSetAt DEF DaemonInv, QueueTypes
    <2>4. /\ Distinct(queue)
          /\ \A x \in ToSet(queue) : said'[x] = Started /\ req[x] \in Requests[x]
      BY <1>3, <1>8, <2>3 DEF DaemonInv, LaneInv
    <2>5. ASSUME NEW j \in Occupied'
          PROVE  /\ lanes'[j].key \in Keys /\ lanes'[j].key \notin ToSet(queue)
                 /\ lanes'[j].gen < gen
                 /\ req[lanes'[j].key] \in Requests[lanes'[j].key] /\ req[lanes'[j].key].cohort = cohort'
                 /\ said'[lanes'[j].key] = IF lanes'[j].phase = "running" THEN Started ELSE Ready
                 /\ \A l \in Occupied' : lanes'[l].key = lanes'[j].key => l = j
      <3>1. j \in Occupied /\ lanes'[j] = lanes[j] /\ lanes[j].key # k /\ cohort' = cohort
        BY <2>1, <2>2
      <3>2. lanes[j].key \in Keys /\ said'[lanes[j].key] = said[lanes[j].key]
        BY <1>8, <3>1 DEF DaemonInv, LaneInv
      <3> QED BY <2>1, <3>1, <3>2 DEF DaemonInv, LaneInv
    <2> QED BY <2>4, <2>5 DEF LaneInv
  <1>12. RegInv'
    <2>1. ToSet(queue) \subseteq Keys /\ \A j \in Occupied : lanes[j].key \in Keys
      BY ToSetAt DEF DaemonInv, QueueTypes, LaneInv
    <2>2. \A j \in Occupied' : j \in Occupied /\ lanes'[j] = lanes[j] /\ lanes[j].key # k
      BY <1>3, <1>5, <1>6
    <2>3. ASSUME NEW x \in Keys, reg'[x].state \in {"active", "ready"}
          PROVE  \E j \in Occupied' :
                   /\ lanes'[j].key = x /\ reg'[x].owner = lanes'[j].gen
                   /\ reg'[x].state = IF lanes'[j].phase = "running" THEN "active" ELSE "ready"
      <3>1. x # k /\ reg'[x] = reg[x]
        BY <1>7, <2>3, EntriesAt
      <3>2. PICK j \in Occupied :
              /\ lanes[j].key = x /\ reg[x].owner = lanes[j].gen
              /\ reg[x].state = IF lanes[j].phase = "running" THEN "active" ELSE "ready"
        BY <2>3, <3>1 DEF DaemonInv, RegInv
      <3>3. j # i
        BY <3>1, <3>2
      <3> QED BY <1>5, <1>6, <3>1, <3>2, <3>3
    <2>4. \A x \in Keys :
            /\ reg'[x].state = "absent" => reg'[x] = NoEntry
            /\ reg'[x].state \notin {"active", "ready"} => reg'[x].owner = 0
            /\ reg'[x].commit => reg'[x].state = "ready"
            /\ reg'[x].state = "queued" => x \in ToSet(queue)
      BY <1>7, EntriesAt DEF DaemonInv, RegInv
    <2>5. \A x \in ToSet(queue) : reg'[x].state \in {"absent", "queued"}
      BY <1>3, <1>7, <2>1 DEF DaemonInv, RegInv
    <2>6. \A j \in Occupied' : reg'[lanes'[j].key].state \in {"absent", "active", "ready"}
      BY <1>7, <2>1, <2>2 DEF DaemonInv, RegInv
    <2> QED BY <2>3, <2>4, <2>5, <2>6 DEF RegInv
  <1>13. ClientInv'
    <2>1. \A j \in Keys : reg'[j].commit => reg[j].commit
      BY <1>3, <1>7, EntriesAt
    <2>2. \A j \in Keys : said[j] \in Ended => said'[j] \in Ended
      BY <1>8
    <2>3. \A j \in Keys : said'[j] = Done => said[j] = Done \/ cl[j] \in {"committed", "done", "closed"}
      BY <1>8
    <2> QED BY <2>1, <2>2, <2>3, ClientKept DEF DaemonInv
  <1> QED BY <1>6, <1>9, <1>10, <1>11, <1>12, <1>13

(* A lane that was picked out is cancelled. *)
LEMMA CancelLaneKeeps ==
  ASSUME DaemonInv, pc \in {"settle", "cull", "emit"}, CancelLane,
         UNCHANGED << req, wire, half, chan, backlog, cur, heard, cl >>
  PROVE  DaemonInv'
  <1> DEFINE i == Lowest(doomed)
  <1>1. /\ doomed # {} /\ Say({lanes[i].key}, << "cancelled" >>) /\ Release({i})
        /\ doomed' = doomed \ {i}
        /\ UNCHANGED << queue, gen, single, pc, agreed, ended >>
    BY DEF CancelLane
  <1>2. i \in doomed /\ i \in Occupied
    <2>1. i \in doomed
      BY <1>1, LowestIn DEF DaemonInv, CellTypes
    <2> QED BY <2>1, PhasesAt DEF DaemonInv, PhaseInv
  <1> HIDE DEF i
  <1>3. said[lanes[i].key] \o << "cancelled" >> \in Ended \ {Done}
    BY <1>2, TranscriptsGrow DEF DaemonInv, LaneInv
  <1>4. /\ QueueTypes' /\ MapTypes' /\ InboxInv' /\ LaneInv' /\ RegInv' /\ ClientInv'
        /\ In("running")' = In("running") \ {i} /\ In("awaiting")' = In("awaiting") \ {i}
    BY <1>1, <1>2, <1>3, ReleaseStep
  <1>5. CellTypes'
    BY <1>1 DEF DaemonInv, CellTypes
  <1>6. PhaseInv' /\ MainInv'
    BY <1>1, <1>2, <1>4 DEF DaemonInv, PhaseInv, MainInv
  <1> QED BY <1>4, <1>5, <1>6 DEF DaemonInv

(* A lane whose client agreed ends with done, or with an error if the      *)
(* decision has changed.                                                   *)
LEMMA CommitLaneKeeps ==
  ASSUME DaemonInv, pc = "settle", CommitLane,
         UNCHANGED << req, wire, half, chan, backlog, cur, heard, cl >>
  PROVE  DaemonInv'
  <1> DEFINE i == Lowest(agreed)
             evs == IF commit_lane_ok(i) THEN << "done" >> ELSE << "error" >>
  <1>1. /\ agreed # {} /\ Say({lanes[i].key}, evs) /\ Release({i})
        /\ agreed' = agreed \ {i}
        /\ UNCHANGED << queue, gen, single, pc, doomed, ended >>
    BY DEF CommitLane
  <1>2. i \in agreed /\ i \in Occupied /\ said[lanes[i].key] = Ready /\ lanes[i].key \in Keys
    <2>1. i \in agreed
      BY <1>1, LowestIn DEF DaemonInv, CellTypes
    <2>2. i \in In("awaiting")
      BY <2>1 DEF DaemonInv, PhaseInv
    <2> QED BY <2>1, <2>2, PhasesAt DEF DaemonInv, LaneInv
  <1>3. commit_lane_ok(i) => cl[lanes[i].key] \in {"committed", "done", "closed"}
    <2> SUFFICES ASSUME commit_lane_ok(i) PROVE cl[lanes[i].key] \in {"committed", "done", "closed"}
      OBVIOUS
    <2>1. reg[lanes[i].key].commit
      BY DEF commit_lane_ok, polls_commit
    <2>2. cl[lanes[i].key] \in Agreeing
      BY <1>2, <2>1 DEF DaemonInv, ClientInv
    <2>3. cl[lanes[i].key] # "failed"
      BY <1>2, TranscriptsDiffer DEF DaemonInv, ClientInv
    <2> QED BY <2>2, <2>3 DEF Agreeing
  <1>4. /\ Ready \o << "done" >> = Done /\ Done \in Ended /\ Ready \o << "error" >> \in Ended \ {Done}
    BY TranscriptsGrow, TranscriptsDiffer
  <1>5. /\ said[lanes[i].key] \o evs \in Ended
        /\ said[lanes[i].key] \o evs = Done => cl[lanes[i].key] \in {"committed", "done", "closed"}
    <2> HIDE DEF i
    <2> QED BY <1>2, <1>3, <1>4
  <1> HIDE DEF i, evs
  <1>6. /\ QueueTypes' /\ MapTypes' /\ InboxInv' /\ LaneInv' /\ RegInv' /\ ClientInv'
        /\ In("running")' = In("running") \ {i} /\ In("awaiting")' = In("awaiting") \ {i}
    BY <1>1, <1>2, <1>5, ReleaseStep
  <1>7. CellTypes'
    BY <1>1 DEF DaemonInv, CellTypes
  <1>8. PhaseInv' /\ MainInv'
    BY <1>1, <1>2, <1>6 DEF DaemonInv, PhaseInv, MainInv
  <1> QED BY <1>6, <1>7, <1>8 DEF DaemonInv

(* A lane that ends inside a think span is answered alone. *)
LEMMA OpenThinkKeeps ==
  ASSUME DaemonInv, pc = "step", OpenThink,
         UNCHANGED << req, wire, half, chan, backlog, cur, heard, cl >>
  PROVE  DaemonInv'
  <1>1. PICK i \in In("running") : Say({lanes[i].key}, << "error" >>) /\ Release({i})
    BY DEF OpenThink
  <1>2. UNCHANGED << queue, gen, single, pc, doomed, agreed, ended >>
    BY DEF OpenThink, picked
  <1>3. i \in Occupied /\ said[lanes[i].key] = Started
    BY PhasesAt
  <1>4. said[lanes[i].key] \o << "error" >> \in Ended \ {Done}
    BY <1>3, TranscriptsGrow
  <1>5. /\ QueueTypes' /\ MapTypes' /\ InboxInv' /\ LaneInv' /\ RegInv' /\ ClientInv'
    BY <1>1, <1>2, <1>3, <1>4, ReleaseStep
  <1>6. CellTypes'
    BY <1>2 DEF DaemonInv, CellTypes
  <1>7. PhaseInv' /\ MainInv'
    BY <1>2 DEF DaemonInv, PhaseInv, MainInv
  <1> QED BY <1>5, <1>6, <1>7 DEF DaemonInv

(* The keys of the lanes and of the queue. *)
LEMMA BatchKeys ==
  ASSUME DaemonInv
  PROVE  /\ ToSet(queue) \subseteq Keys /\ KeysOf(Occupied) \subseteq Keys
         /\ \A i \in Occupied : lanes[i].key \in Keys
         /\ \A k \in KeysOf(Occupied) \cup ToSet(queue) : said[k] \in {Started, Ready}
  <1>1. ToSet(queue) \subseteq Keys
    BY ToSetAt DEF DaemonInv, QueueTypes
  <1> QED BY <1>1 DEF DaemonInv, LaneInv, KeysOf

(* Everything the batch works on is answered with an error and dropped. *)
LEMMA FailAllKeeps ==
  ASSUME DaemonInv, FailAll, UNCHANGED << req, wire, half, chan, backlog, cur, heard, cl >>
  PROVE  DaemonInv'
  <1> DEFINE K == KeysOf(Occupied) \cup ToSet(queue)
  <1>1. /\ Say(K, << "error" >>) /\ lanes' = [i \in LaneIds |-> Empty]
        /\ queue' = << >> /\ doomed' = {} /\ agreed' = {} /\ ended' = {}
        /\ pc' = "outer" /\ single' = Vacant /\ UNCHANGED gen
        /\ reg' = batch_clear_terminal(reg, K) \/ reg' = batch_clear_terminal(reg, Keys)
    BY DEF FailAll, EmptyScheduler, ClearAll, LeaveDriver, Goto
  <1>2. /\ lanes' \in [LaneIds -> Lanes] /\ Occupied' = {} /\ In("running")' = {}
        /\ In("awaiting")' = {}
    <2>1. Empty \in Lanes /\ Empty.phase = "empty"
      BY DEF Empty, Lanes
    <2> QED BY <1>1, <2>1 DEF Occupied, In
  <1>3. reg \in [Keys -> Entries] /\ said \in [Keys -> Transcripts]
    BY DEF DaemonInv, MapTypes
  <1>4. K \subseteq Keys /\ \A k \in K : said[k] \in {Started, Ready}
    BY BatchKeys
  <1> HIDE DEF K
  <1>5. /\ reg' \in [Keys -> Entries]
        /\ \A k \in Keys : reg'[k] = NoEntry \/ (k \notin K /\ reg'[k] = reg[k])
    <2>1. CASE reg' = batch_clear_terminal(reg, K)
      BY <1>3, <2>1, ClearedAt
    <2>2. CASE reg' = batch_clear_terminal(reg, Keys)
      BY <1>3, <2>2, ClearedAt
    <2> QED BY <1>1, <2>1, <2>2
  <1>6. /\ said' \in [Keys -> Transcripts] /\ \A k \in Keys \ K : said'[k] = said[k]
        /\ \A k \in K : said'[k] \in Ended \ {Done}
    <2>1. \A k \in K : said[k] \o << "error" >> \in Ended \ {Done}
      BY <1>4, TranscriptsGrow
    <2>2. Ended \subseteq Transcripts
      BY DEF Transcripts
    <2> QED BY <1>1, <1>3, <1>4, <2>1, <2>2, SayStep
  <1>7. QueueTypes' /\ MapTypes' /\ CellTypes'
    <2>1. QueueTypes'
      BY <1>1, EmptySeq DEF DaemonInv, QueueTypes
    <2>2. MapTypes'
      BY <1>2, <1>5, <1>6 DEF DaemonInv, MapTypes
    <2>3. CellTypes'
      BY <1>1, CellsAt DEF DaemonInv, CellTypes
    <2> QED BY <2>1, <2>2, <2>3
  <1>8. InboxInv'
    <2>1. \A k \in Keys : said[k] = Silent =>
            said'[k] = Silent /\ (reg'[k] = reg[k] \/ reg'[k] = NoEntry)
      BY <1>4, <1>5, <1>6, TranscriptsDiffer
    <2> QED BY <2>1, InboxKept DEF DaemonInv
  <1>9. LaneInv'
    BY <1>1, <1>2, EmptySet DEF LaneInv
  <1>10. RegInv'
    <2>1. \A k \in Keys : reg[k].state \in {"absent", "announced", "queued", "active", "ready"}
      BY <1>3 DEF Entries
    <2>2. \A k \in Keys : reg[k].state \in {"queued", "active", "ready"} => k \in K
      BY DEF DaemonInv, RegInv, KeysOf, K
    <2>3. \A k \in Keys :
           /\ reg'[k].state \in {"absent", "announced"} /\ reg'[k].owner = 0 /\ ~ reg'[k].commit
           /\ reg'[k].state = "absent" => reg'[k] = NoEntry
      BY <1>5, <2>1, <2>2, EntriesAt DEF DaemonInv, RegInv
    <2> QED BY <1>1, <1>2, <2>3, EmptySet DEF RegInv
  <1>11. PhaseInv' /\ MainInv'
    BY <1>1, <1>2 DEF PhaseInv, MainInv
  <1>12. ClientInv'
    <2>1. \A k \in Keys : reg'[k].commit => reg[k].commit
      BY <1>5, EntriesAt
    <2>2. \A k \in Keys : said[k] \in Ended => said'[k] \in Ended
      BY <1>6
    <2>3. \A k \in Keys : said'[k] = Done => said[k] = Done
      BY <1>6
    <2>4. single'.decision # "commit"
      BY <1>1, CellsAt
    <2> QED BY <2>1, <2>2, <2>3, <2>4, ClientKept DEF DaemonInv
  <1> QED BY <1>7, <1>8, <1>9, <1>10, <1>11, <1>12 DEF DaemonInv

(* A step of the driver that only moves on. *)
LEMMA DriverMoves ==
  ASSUME DaemonInv,
         UNCHANGED << req, wire, half, chan, backlog, reg, lanes, queue, cohort, gen, said, heard, cl, cur >>,
         single' = single \/ single' = Vacant
  PROVE  /\ QueueTypes' /\ MapTypes' /\ InboxInv' /\ LaneInv' /\ RegInv' /\ ClientInv'
         /\ In("running")' = In("running") /\ In("awaiting")' = In("awaiting") /\ Occupied' = Occupied
         /\ single' \in [key : Keys \cup {NoKey}, ready : BOOLEAN, decision : {"none", "abort", "commit"}]
  <1>1. In("running")' = In("running") /\ In("awaiting")' = In("awaiting") /\ Occupied' = Occupied
    BY DEF In, Occupied
  <1>2. QueueTypes' /\ MapTypes'
    BY DEF DaemonInv, QueueTypes, MapTypes
  <1>3. InboxInv'
    BY DEF DaemonInv, InboxInv, OnWire, InInbox
  <1>4. LaneInv' /\ RegInv'
    BY <1>1 DEF DaemonInv, LaneInv, RegInv
  <1>5. ClientInv'
    <2>1. single'.decision = "commit" => single.decision = "commit" /\ single'.key = single.key
      BY CellsAt
    <2> QED BY <2>1, ClientKept DEF DaemonInv
  <1>6. single' \in [key : Keys \cup {NoKey}, ready : BOOLEAN, decision : {"none", "abort", "commit"}]
    BY CellsAt DEF DaemonInv, CellTypes
  <1> QED BY <1>1, <1>2, <1>3, <1>4, <1>5, <1>6

(* The lanes that wait for a client are polled: none is both cancelled and *)
(* committed.                                                              *)
LEMMA PollKeeps ==
  ASSUME DaemonInv, Poll
  PROVE  DaemonInv'
  <1>1. /\ pc = "poll" /\ pc' = "settle"
        /\ doomed' = {i \in In("awaiting") : batch_check_abort(lanes[i].key) \/ lanes[i].late}
        /\ agreed' = {i \in In("awaiting") : polls_commit(i)}
        /\ UNCHANGED << req, wire, half, chan, backlog, reg, single, lanes, queue, cohort, gen, said, heard, cl,
                        cur, ended >>
    BY DEF Poll, Goto, inbox, control, sched, clients
  <1>2. /\ QueueTypes' /\ MapTypes' /\ InboxInv' /\ LaneInv' /\ RegInv' /\ ClientInv'
        /\ In("running")' = In("running") /\ In("awaiting")' = In("awaiting")
    BY <1>1, DriverMoves
  <1>3. doomed' \cap agreed' = {}
    BY <1>1 DEF polls_commit, batch_check_abort
  <1>4. In("awaiting") \subseteq LaneIds
    BY DEF In
  <1>5. CellTypes'
    BY <1>1, <1>4 DEF DaemonInv, CellTypes
  <1>6. PhaseInv' /\ MainInv'
    BY <1>1, <1>2, <1>3 DEF DaemonInv, PhaseInv, MainInv
  <1> QED BY <1>2, <1>5, <1>6 DEF DaemonInv

(* Requests aborted in the queue are answered. *)
LEMMA SweepKeeps ==
  ASSUME DaemonInv, pc = "settle", Sweep, UNCHANGED << req, wire, half, chan, backlog, cur, heard, cl >>
  PROVE  DaemonInv'
  <1> DEFINE Q == {k \in ToSet(queue) : batch_check_abort(k)}
  <1>1. /\ doomed = {} /\ agreed = {}
        /\ Say(Q, << "cancelled" >>) /\ queue' = Retained(queue, Q)
        /\ reg' = batch_clear_terminal(reg, Q)
        /\ doomed' = {i \in In("running") : batch_check_abort(lanes[i].key)}
        /\ pc' = "cull"
        /\ UNCHANGED << lanes, cohort, gen, single, agreed, ended >>
    BY DEF Sweep, Goto
  <1>2. Q \subseteq ToSet(queue) /\ ToSet(queue) \subseteq Keys
        /\ \A k \in ToSet(queue) : said[k] = Started
    BY BatchKeys DEF DaemonInv, LaneInv
  <1>3. /\ In("running")' = In("running") /\ In("awaiting")' = In("awaiting") /\ Occupied' = Occupied
        /\ In("running") \subseteq LaneIds
    BY <1>1 DEF In, Occupied
  <1> HIDE DEF Q
  <1>4. reg \in [Keys -> Entries] /\ said \in [Keys -> Transcripts]
    BY DEF DaemonInv, MapTypes
  <1>5. queue' \in Seq(Keys) /\ ToSet(queue') = ToSet(queue) \ Q /\ Distinct(queue')
    BY <1>1, RetainedAt DEF DaemonInv, QueueTypes, LaneInv
  <1>6. /\ reg' \in [Keys -> Entries] /\ \A k \in Q : reg'[k] = NoEntry
        /\ \A k \in Keys \ Q : reg'[k] = reg[k]
    BY <1>1, <1>2, <1>4, ClearedAt
  <1>7. /\ said' \in [Keys -> Transcripts] /\ \A k \in Keys \ Q : said'[k] = said[k]
        /\ \A k \in Q : said'[k] \in Ended \ {Done}
    <2>1. \A k \in Q : said[k] \o << "cancelled" >> \in Ended \ {Done}
      BY <1>2, TranscriptsGrow
    <2>2. Ended \subseteq Transcripts
      BY DEF Transcripts
    <2>3. Say(Q, << "cancelled" >>) /\ \A k \in Keys \cap Q : said[k] \o << "cancelled" >> \in Transcripts
      BY <1>1, <2>1, <2>2
    <2>4. /\ said' \in [Keys -> Transcripts]
          /\ \A k \in Keys \ Q : said'[k] = said[k]
          /\ \A k \in Keys \cap Q : said'[k] = said[k] \o << "cancelled" >>
      BY <1>4, <2>3, SayStep
    <2> QED BY <1>2, <2>1, <2>4
  <1>8. QueueTypes' /\ MapTypes' /\ CellTypes'
    <2>1. QueueTypes'
      BY <1>5 DEF DaemonInv, QueueTypes
    <2>2. MapTypes'
      BY <1>1, <1>6, <1>7 DEF DaemonInv, MapTypes
    <2>3. CellTypes'
      BY <1>1, <1>3 DEF DaemonInv, CellTypes
    <2> QED BY <2>1, <2>2, <2>3
  <1>9. InboxInv'
    <2>1. \A k \in Keys : said[k] = Silent =>
            said'[k] = Silent /\ (reg'[k] = reg[k] \/ reg'[k] = NoEntry)
      BY <1>2, <1>6, <1>7, TranscriptsDiffer
    <2> QED BY <2>1, InboxKept DEF DaemonInv
  <1>10. \A i \in Occupied : lanes[i].key \in Keys \ Q /\ lanes[i].key \notin ToSet(queue)
    BY <1>2 DEF DaemonInv, LaneInv
  <1>11. LaneInv'
    <2>1. \A k \in ToSet(queue') : said'[k] = Started /\ req[k] \in Requests[k]
      BY <1>2, <1>5, <1>7 DEF DaemonInv, LaneInv
    <2> QED BY <1>1, <1>3, <1>5, <1>7, <1>10, <2>1 DEF DaemonInv, LaneInv
  <1>12. RegInv'
    <2>1. \A k \in Keys :
            /\ reg'[k].state = "absent" => reg'[k] = NoEntry
            /\ reg'[k].state \notin {"active", "ready"} => reg'[k].owner = 0
            /\ reg'[k].commit => reg'[k].state = "ready"
            /\ reg'[k].state = "queued" => k \in ToSet(queue')
      BY <1>5, <1>6, EntriesAt DEF DaemonInv, RegInv
    <2>2. ASSUME NEW k \in Keys, reg'[k].state \in {"active", "ready"}
          PROVE  \E i \in Occupied :
                   /\ lanes[i].key = k /\ reg'[k].owner = lanes[i].gen
                   /\ reg'[k].state = IF lanes[i].phase = "running" THEN "active" ELSE "ready"
      <3>1. reg'[k] = reg[k]
        BY <1>6, <2>2, EntriesAt
      <3> QED BY <2>2, <3>1 DEF DaemonInv, RegInv
    <2>3. \A k \in ToSet(queue') : reg'[k].state \in {"absent", "queued"}
      BY <1>2, <1>5, <1>6 DEF DaemonInv, RegInv
    <2>4. \A i \in Occupied : reg'[lanes[i].key].state \in {"absent", "active", "ready"}
      BY <1>6, <1>10 DEF DaemonInv, RegInv
    <2> QED BY <1>1, <1>3, <2>1, <2>2, <2>3, <2>4 DEF RegInv
  <1>13. PhaseInv' /\ MainInv'
    BY <1>1, <1>3 DEF DaemonInv, PhaseInv, MainInv
  <1>14. ClientInv'
    <2>1. \A k \in Keys : reg'[k].commit => reg[k].commit
      BY <1>6, EntriesAt
    <2>2. \A k \in Keys : said[k] \in Ended => said'[k] \in Ended
      BY <1>7
    <2>3. \A k \in Keys : said'[k] = Done => said[k] = Done
      BY <1>7
    <2> QED BY <1>1, <2>1, <2>2, <2>3, ClientKept DEF DaemonInv
  <1> QED BY <1>8, <1>9, <1>11, <1>12, <1>13, <1>14 DEF DaemonInv

(* Decisions are carried out. *)
LEMMA SettleKeeps ==
  ASSUME DaemonInv, Settle
  PROVE  DaemonInv'
  <1>1. pc = "settle" /\ UNCHANGED << req, wire, half, chan, backlog, cur, heard, cl >>
    BY DEF Settle, inbox, clients
  <1>2. CancelLane \/ CommitLane \/ Sweep \/ FailAll
    BY DEF Settle
  <1> QED BY <1>1, <1>2, CancelLaneKeeps, CommitLaneKeeps, SweepKeeps, FailAllKeeps

(* Aborted lanes are culled. *)
LEMMA CullKeeps ==
  ASSUME DaemonInv, Cull
  PROVE  DaemonInv'
  <1>1. pc = "cull" /\ UNCHANGED << req, wire, half, chan, backlog, cur, heard, cl >>
    BY DEF Cull, inbox, clients
  <1>2. CASE CancelLane \/ FailAll
    BY <1>1, <1>2, CancelLaneKeeps, FailAllKeeps
  <1>3. CASE /\ doomed = {} /\ Goto("drain")
             /\ UNCHANGED << control, sched, model, picked, said, swept, faults >>
    <2>1. /\ UNCHANGED << reg, single, lanes, queue, cohort, gen, said, doomed, agreed, ended >>
          /\ pc' = "drain"
      BY <1>3 DEF Goto, control, sched, picked
    <2>2. /\ QueueTypes' /\ MapTypes' /\ InboxInv' /\ LaneInv' /\ RegInv' /\ ClientInv'
      BY <1>1, <2>1, DriverMoves
    <2>3. CellTypes' /\ PhaseInv' /\ MainInv'
      BY <1>1, <1>3, <2>1 DEF DaemonInv, CellTypes, PhaseInv, MainInv
    <2> QED BY <2>2, <2>3 DEF DaemonInv
  <1> QED BY <1>2, <1>3 DEF Cull

(* What happens to a key outside the batch does not concern the batch. *)
LEMMA OutsideBatch ==
  ASSUME DaemonInv, NEW k \in Keys, k \notin ToSet(queue), k \notin KeysOf(Occupied),
         UNCHANGED << lanes, queue, cohort, gen, req >>,
         \A j \in Keys \ {k} : reg'[j] = reg[j] /\ said'[j] = said[j],
         reg'[k] = reg[k] \/ reg'[k] = NoEntry \/ reg'[k] = Announced
  PROVE  /\ LaneInv' /\ RegInv' /\ Occupied' = Occupied
         /\ In("running")' = In("running") /\ In("awaiting")' = In("awaiting")
  <1>1. /\ Occupied' = Occupied
        /\ In("running")' = In("running") /\ In("awaiting")' = In("awaiting")
    BY DEF Occupied, In
  <1>2. /\ ToSet(queue) \subseteq Keys \ {k}
        /\ \A i \in Occupied : lanes[i].key \in Keys \ {k}
    BY BatchKeys DEF KeysOf
  <1>3. LaneInv'
    BY <1>1, <1>2 DEF DaemonInv, LaneInv
  <1>4. RegInv'
    <2>1. \A j \in Keys :
            /\ reg'[j].state = "absent" => reg'[j] = NoEntry
            /\ reg'[j].state \notin {"active", "ready"} => reg'[j].owner = 0
            /\ reg'[j].commit => reg'[j].state = "ready"
            /\ reg'[j].state = "queued" => j \in ToSet(queue)
      BY EntriesAt DEF DaemonInv, RegInv
    <2>2. ASSUME NEW j \in Keys, reg'[j].state \in {"active", "ready"}
          PROVE  \E i \in Occupied :
                   /\ lanes[i].key = j /\ reg'[j].owner = lanes[i].gen
                   /\ reg'[j].state = IF lanes[i].phase = "running" THEN "active" ELSE "ready"
      <3>1. reg'[j] = reg[j]
        BY <2>2, EntriesAt
      <3> QED BY <2>2, <3>1 DEF DaemonInv, RegInv
    <2>3. \A j \in ToSet(queue) : reg'[j].state \in {"absent", "queued"}
      BY <1>2 DEF DaemonInv, RegInv
    <2>4. \A i \in Occupied : reg'[lanes[i].key].state \in {"absent", "active", "ready"}
      BY <1>2 DEF DaemonInv, RegInv
    <2> QED BY <1>1, <2>1, <2>2, <2>3, <2>4 DEF RegInv
  <1> QED BY <1>1, <1>3, <1>4

(* A message that ends where it is taken. *)
LEMMA TakeEnds ==
  ASSUME DaemonInv, pc = "drain", Waiting # << >>, TakeMsg, NEW k, k = Head(Waiting),
         reg' = batch_clear_terminal(reg, {k}),
         Say({k}, << "start", "cancelled" >>) \/ UNCHANGED said,
         UNCHANGED << req, wire, half, single, lanes, queue, cohort, gen, pc, cur, doomed, agreed, ended,
                      heard, cl >>
  PROVE  DaemonInv'
  <1>1. /\ k \in InInbox /\ k \in Keys
        /\ chan' \in Seq(Keys) /\ backlog' \in Seq(Keys) /\ Len(backlog') <= 1
    BY TakeStep DEF DaemonInv
  <1>2. said[k] = Silent
    BY <1>1 DEF DaemonInv, InboxInv
  <1>3. k \notin ToSet(queue) /\ k \notin KeysOf(Occupied)
    BY <1>1, <1>2, SilentAway
  <1>4. reg \in [Keys -> Entries] /\ said \in [Keys -> Transcripts]
    BY DEF DaemonInv, MapTypes
  <1>5. reg' \in [Keys -> Entries] /\ reg'[k] = NoEntry /\ \A j \in Keys \ {k} : reg'[j] = reg[j]
    BY <1>1, <1>4, ClearedAt
  <1>6. /\ said' \in [Keys -> Transcripts] /\ \A j \in Keys \ {k} : said'[j] = said[j]
        /\ said'[k] # Done
    <2>1. Silent \o << "start", "cancelled" >> \in Ended \ {Done} /\ Ended \subseteq Transcripts
      BY TranscriptsGrow DEF Transcripts
    <2>2. CASE Say({k}, << "start", "cancelled" >>)
      BY <1>1, <1>2, <1>4, <2>1, <2>2, SayOne
    <2>3. CASE UNCHANGED said
      BY <1>2, <1>4, <2>3, TranscriptsDiffer
    <2> QED BY <2>2, <2>3
  <1>7. QueueTypes' /\ MapTypes' /\ CellTypes'
    BY <1>1, <1>5, <1>6 DEF DaemonInv, QueueTypes, MapTypes, CellTypes
  <1>8. InboxInv'
    BY <1>5, <1>6, InboxTaken DEF DaemonInv
  <1>9. LaneInv' /\ RegInv'
    BY <1>1, <1>3, <1>5, <1>6, OutsideBatch
  <1>10. PhaseInv' /\ MainInv'
    BY DEF DaemonInv, PhaseInv, MainInv
  <1>11. ClientInv'
    <2>1. \A j \in Keys : reg'[j].commit => reg[j].commit
      BY <1>5, EntriesAt
    <2>2. \A j \in Keys : said[j] \in Ended => said'[j] \in Ended
      BY <1>2, <1>6, TranscriptsDiffer
    <2>3. \A j \in Keys : said'[j] = Done => said[j] = Done
      BY <1>6
    <2> QED BY <2>1, <2>2, <2>3, ClientKept DEF DaemonInv
  <1> QED BY <1>7, <1>8, <1>9, <1>10, <1>11 DEF DaemonInv

(* A request joins the queue of a running batch. *)
LEMMA TakeBatchKeeps ==
  ASSUME DaemonInv, pc = "drain", Waiting # << >>, NEW k, k = Head(Waiting), TakeBatch(k),
         UNCHANGED << req, wire, half, lanes, cohort, gen, cur, doomed, agreed, ended, heard, cl >>
  PROVE  DaemonInv'
  <1>1. /\ TakeMsg /\ queue' = Append(queue, k) /\ Say({k}, << "start" >>)
        /\ reg' = batch_transition_to_queued(batch_announce_terminal(reg, k), k)
        /\ UNCHANGED << single, pc >>
    BY DEF TakeBatch
  <1>2. /\ k \in InInbox /\ k \in Keys
        /\ chan' \in Seq(Keys) /\ backlog' \in Seq(Keys) /\ Len(backlog') <= 1
    BY <1>1, TakeStep DEF DaemonInv
  <1>3. /\ said[k] = Silent /\ req[k] \in Requests[k] /\ reg[k].state \in {"absent", "announced"}
        /\ (reg[k].state = "absent" => reg[k] = NoEntry) /\ reg[k].owner = 0 /\ ~ reg[k].commit
    BY <1>2 DEF DaemonInv, InboxInv, RegInv
  <1>4. k \notin ToSet(queue) /\ k \notin KeysOf(Occupied)
    BY <1>2, <1>3, SilentAway
  <1>5. /\ reg \in [Keys -> Entries] /\ said \in [Keys -> Transcripts] /\ queue \in Seq(Keys)
        /\ Distinct(queue)
    BY DEF DaemonInv, MapTypes, QueueTypes, LaneInv
  <1>6. /\ reg' \in [Keys -> Entries] /\ \A j \in Keys \ {k} : reg'[j] = reg[j]
        /\ reg'[k].state = "queued" /\ reg'[k].owner = 0 /\ ~ reg'[k].commit
    <2> DEFINE r == batch_announce_terminal(reg, k)
    <2>1. /\ r \in [Keys -> Entries] /\ \A j \in Keys \ {k} : r[j] = reg[j]
          /\ r[k].state = "announced" /\ r[k].owner = 0 /\ ~ r[k].commit
      BY <1>2, <1>3, <1>5, AnnounceAt, EntriesAt
    <2> HIDE DEF r
    <2>2. reg' = batch_transition_to_queued(r, k)
      BY <1>1 DEF r
    <2>3. /\ reg' \in [Keys -> Entries] /\ \A j \in Keys \ {k} : reg'[j] = r[j]
          /\ reg'[k].state = "queued" /\ reg'[k].owner = r[k].owner /\ reg'[k].commit = r[k].commit
      BY <1>2, <2>1, <2>2, QueuedAt
    <2> QED BY <2>1, <2>3
  <1>7. /\ said' \in [Keys -> Transcripts] /\ said'[k] = Started
        /\ \A j \in Keys \ {k} : said'[j] = said[j]
    <2>1. said[k] \o << "start" >> = Started /\ Started \in Transcripts
      BY <1>3, TranscriptsGrow DEF Transcripts
    <2> QED BY <1>1, <1>2, <1>5, <2>1, SayOne
  <1>8. queue' \in Seq(Keys) /\ ToSet(queue') = ToSet(queue) \cup {k} /\ Distinct(queue')
    BY <1>1, <1>2, <1>4, <1>5, AppendSet, AppendAt
  <1>9. /\ In("running")' = In("running") /\ In("awaiting")' = In("awaiting") /\ Occupied' = Occupied
    BY DEF In, Occupied
  <1>10. /\ ToSet(queue) \subseteq Keys \ {k}
         /\ \A i \in Occupied : lanes[i].key \in Keys \ {k}
    BY <1>4, BatchKeys DEF KeysOf
  <1>11. QueueTypes' /\ MapTypes' /\ CellTypes'
    <2>1. QueueTypes'
      BY <1>2, <1>8 DEF DaemonInv, QueueTypes
    <2>2. MapTypes'
      BY <1>6, <1>7 DEF DaemonInv, MapTypes
    <2>3. CellTypes'
      BY <1>1 DEF DaemonInv, CellTypes
    <2> QED BY <2>1, <2>2, <2>3
  <1>12. InboxInv'
    BY <1>1, <1>6, <1>7, InboxTaken DEF DaemonInv
  <1>13. LaneInv'
    <2>1. \A j \in ToSet(queue') : said'[j] = Started /\ req[j] \in Requests[j]
      BY <1>3, <1>7, <1>8, <1>10 DEF DaemonInv, LaneInv
    <2> QED BY <1>7, <1>8, <1>9, <1>10, <2>1 DEF DaemonInv, LaneInv
  <1>14. RegInv'
    <2>1. \A j \in Keys :
            /\ reg'[j].state = "absent" => reg'[j] = NoEntry
            /\ reg'[j].state \notin {"active", "ready"} => reg'[j].owner = 0
            /\ reg'[j].commit => reg'[j].state = "ready"
            /\ reg'[j].state = "queued" => j \in ToSet(queue')
      BY <1>6, <1>8 DEF DaemonInv, RegInv
    <2>2. ASSUME NEW j \in Keys, reg'[j].state \in {"active", "ready"}
          PROVE  \E i \in Occupied :
                   /\ lanes[i].key = j /\ reg'[j].owner = lanes[i].gen
                   /\ reg'[j].state = IF lanes[i].phase = "running" THEN "active" ELSE "ready"
      <3>1. reg'[j] = reg[j]
        BY <1>6, <2>2
      <3> QED BY <2>2, <3>1 DEF DaemonInv, RegInv
    <2>3. \A j \in ToSet(queue') : reg'[j].state \in {"absent", "queued"}
      BY <1>6, <1>8, <1>10 DEF DaemonInv, RegInv
    <2>4. \A i \in Occupied : reg'[lanes[i].key].state \in {"absent", "active", "ready"}
      BY <1>6, <1>10 DEF DaemonInv, RegInv
    <2> QED BY <1>9, <2>1, <2>2, <2>3, <2>4 DEF RegInv
  <1>15. PhaseInv' /\ MainInv'
    BY <1>1 DEF DaemonInv, PhaseInv, MainInv
  <1>16. ClientInv'
    <2>1. \A j \in Keys : reg'[j].commit => reg[j].commit
      BY <1>6
    <2>2. \A j \in Keys : said[j] \in Ended => said'[j] \in Ended
      BY <1>3, <1>7, TranscriptsDiffer
    <2>3. \A j \in Keys : said'[j] = Done => said[j] = Done
      BY <1>7, TranscriptsDiffer
    <2> QED BY <1>1, <2>1, <2>2, <2>3, ClientKept DEF DaemonInv
  <1> QED BY <1>11, <1>12, <1>13, <1>14, <1>15, <1>16 DEF DaemonInv

(* A barrier goes back to the front of the inbox it came from. *)
LEMMA BarrierInbox ==
  ASSUME DaemonInv, Waiting # << >>, NEW k, k = Head(Waiting), backlog' = << k >>,
         chan' = IF backlog # << >> THEN chan ELSE Tail(chan)
  PROVE  /\ k \in Keys /\ InInbox' = InInbox /\ k \in InInbox
         /\ chan' \in Seq(Keys) /\ backlog' \in Seq(Keys) /\ Len(backlog') <= 1
         /\ Distinct(chan') /\ ToSet(backlog') \cap ToSet(chan') = {}
  <1>1. CASE backlog # << >>
    <2>1. /\ k = backlog[1] /\ ToSet(backlog) = {k} /\ k \in Keys
      BY <1>1, BacklogHead DEF DaemonInv
    <2>2. << k >> \in Seq(Keys) /\ Len(<< k >>) = 1 /\ ToSet(<< k >>) = {k}
      BY <2>1, OneSet
    <2> QED BY <1>1, <2>1, <2>2 DEF DaemonInv, QueueTypes, InboxInv, InInbox
  <1>2. CASE backlog = << >>
    <2>1. Waiting = chan
      BY <1>2, ConcatEmptySeq DEF DaemonInv, Waiting, QueueTypes
    <2>2. chan \in Seq(Keys) /\ Distinct(chan) /\ chan # << >> /\ k = Head(chan)
      BY <2>1 DEF DaemonInv, QueueTypes, InboxInv
    <2>3. /\ ToSet(chan') = ToSet(chan) \ {k} /\ k \in ToSet(chan) /\ Distinct(chan')
          /\ chan' \in Seq(Keys) /\ k \in Keys
      BY <1>2, <2>2, TailSet, TailAt
    <2>4. << k >> \in Seq(Keys) /\ Len(<< k >>) = 1 /\ ToSet(<< k >>) = {k}
      BY <2>3, OneSet
    <2>5. ToSet(backlog) = {}
      BY <1>2, EmptySet
    <2> QED BY <2>3, <2>4, <2>5 DEF InInbox
  <1> QED BY <1>1, <1>2

(* What a barrier leaves in the registry. *)
LEMMA BarrierRegistryAt ==
  ASSUME NEW k
  PROVE  /\ req[k].kind \in Commands => barrier_registry(k) = reg
         /\ req[k].kind = "think" => barrier_registry(k) = batch_clear_terminal(reg, {k})
         /\ req[k].kind \notin Commands \cup {"think"} =>
              barrier_registry(k) = batch_announce_terminal(reg, k)
  <1>1. CASE req[k].kind \in Commands
    BY <1>1 DEF barrier_registry, Commands
  <1>2. CASE req[k].kind = "think"
    BY <1>2 DEF barrier_registry, Commands
  <1>3. CASE req[k].kind \notin Commands \cup {"think"}
    BY <1>3 DEF barrier_registry
  <1> QED BY <1>1, <1>2, <1>3

(* A barrier goes back to the front of the inbox. *)
LEMMA BarrierKeeps ==
  ASSUME DaemonInv, pc = "drain", Waiting # << >>, NEW k, k = Head(Waiting), Barrier(k),
         UNCHANGED << req, wire, half, lanes, cohort, gen, cur, doomed, agreed, ended, heard, cl >>
  PROVE  DaemonInv'
  <1>1. /\ reg' = barrier_registry(k) /\ backlog' = << k >>
        /\ chan' = IF backlog # << >> THEN chan ELSE Tail(chan)
        /\ UNCHANGED << queue, said >>
        /\ \/ barrier_leaves /\ pc' = "outer" /\ single' = Vacant
           \/ pc' = "assign" /\ single' = single
    BY DEF Barrier, LeaveDriver, Goto
  <1>2. /\ k \in Keys /\ InInbox' = InInbox /\ k \in InInbox
        /\ chan' \in Seq(Keys) /\ backlog' \in Seq(Keys) /\ Len(backlog') <= 1
        /\ Distinct(chan') /\ ToSet(backlog') \cap ToSet(chan') = {}
    BY <1>1, BarrierInbox
  <1>3. /\ said[k] = Silent /\ req[k] \in Requests[k] /\ reg[k].state \in {"absent", "announced"}
        /\ k \notin OnWire /\ cl[k] # "new"
    BY <1>2 DEF DaemonInv, InboxInv
  <1>4. k \notin ToSet(queue) /\ k \notin KeysOf(Occupied)
    BY <1>2, <1>3, SilentAway
  <1>5. /\ reg' \in [Keys -> Entries] /\ \A j \in Keys \ {k} : reg'[j] = reg[j]
        /\ reg'[k] = reg[k] \/ reg'[k] = NoEntry \/ reg'[k] = Announced
    <2>1. reg \in [Keys -> Entries]
      BY DEF DaemonInv, MapTypes
    <2>2. CASE reg' = reg
      BY <2>1, <2>2
    <2>3. CASE reg' = batch_clear_terminal(reg, {k})
      BY <1>2, <2>1, <2>3, ClearedAt
    <2>4. CASE reg' = batch_announce_terminal(reg, k)
      BY <1>2, <2>1, <2>4, AnnounceAt
    <2> QED BY <1>1, <2>2, <2>3, <2>4, BarrierRegistryAt
  <1>6. /\ single' \in [key : Keys \cup {NoKey}, ready : BOOLEAN, decision : {"none", "abort", "commit"}]
        /\ single'.decision = "commit" => single.decision = "commit" /\ single'.key = single.key
    BY <1>1, CellsAt DEF DaemonInv, CellTypes
  <1>7. QueueTypes' /\ MapTypes' /\ CellTypes'
    <2>1. QueueTypes'
      BY <1>1, <1>2 DEF DaemonInv, QueueTypes
    <2>2. MapTypes'
      BY <1>1, <1>5 DEF DaemonInv, MapTypes
    <2>3. CellTypes'
      BY <1>1, <1>6 DEF DaemonInv, CellTypes
    <2> QED BY <2>1, <2>2, <2>3
  <1>8. LaneInv' /\ RegInv' /\ Occupied' = Occupied
    BY <1>1, <1>2, <1>4, <1>5, OutsideBatch
  <1>9. InboxInv'
    <2>1. OnWire' = OnWire /\ OnWire \cup InInbox \subseteq Keys
      BY InboxKeys DEF DaemonInv, OnWire
    <2>2. \A j \in OnWire' \cup InInbox' :
            said'[j] = Silent /\ req'[j] \in Requests[j] /\ reg'[j].state \in {"absent", "announced"}
      BY <1>1, <1>2, <1>3, <1>5, <2>1, EntriesAt DEF DaemonInv, InboxInv
    <2>3. \A j \in OnWire' : reg'[j] = NoEntry
      BY <1>3, <1>5, <2>1 DEF DaemonInv, InboxInv
    <2>4. \A j \in Keys : cl'[j] = "new" =>
            j \notin OnWire' \cup InInbox' /\ said'[j] = Silent /\ reg'[j] = NoEntry
      BY <1>1, <1>2, <1>3, <1>5, <2>1 DEF DaemonInv, InboxInv
    <2> QED BY <1>2, <2>1, <2>2, <2>3, <2>4 DEF DaemonInv, InboxInv
  <1>10. PhaseInv' /\ MainInv'
    BY <1>1, <1>8 DEF DaemonInv, PhaseInv, MainInv, barrier_leaves
  <1>11. ClientInv'
    <2>1. \A j \in Keys : reg'[j].commit => reg[j].commit
      BY <1>5, EntriesAt
    <2> QED BY <1>1, <1>6, <2>1, ClientKept DEF DaemonInv
  <1> QED BY <1>7, <1>8, <1>9, <1>10, <1>11 DEF DaemonInv

(* The inbox is drained while lanes run. *)
LEMMA DrainKeeps ==
  ASSUME DaemonInv, Drain
  PROVE  DaemonInv'
  <1>1. /\ pc = "drain"
        /\ UNCHANGED << req, wire, half, lanes, cohort, gen, cur, doomed, agreed, ended, heard, cl >>
    BY DEF Drain, picked, clients
  <1>2. CASE Waiting = << >>
    <2>1. UNCHANGED << chan, backlog, reg, single, queue, said >> /\ pc' = "assign"
      BY <1>2 DEF Drain, Goto, inbox, control
    <2>2. /\ QueueTypes' /\ MapTypes' /\ InboxInv' /\ LaneInv' /\ RegInv' /\ ClientInv'
      BY <1>1, <2>1, DriverMoves
    <2>3. CellTypes' /\ PhaseInv' /\ MainInv'
      BY <1>1, <2>1 DEF DaemonInv, CellTypes, PhaseInv, MainInv
    <2> QED BY <2>2, <2>3 DEF DaemonInv
  <1>3. CASE Waiting # << >>
    <2> DEFINE k == Head(Waiting)
    <2>1. TakeCancelled(k) \/ TakeLong(k) \/ TakeBatch(k) \/ Barrier(k)
      BY <1>3 DEF Drain
    <2> HIDE DEF k
    <2>2. CASE TakeCancelled(k)
      BY <1>1, <1>3, <2>2, TakeEnds DEF TakeCancelled, k
    <2>3. CASE TakeLong(k)
      BY <1>1, <1>3, <2>3, TakeEnds DEF TakeLong, k
    <2>4. CASE TakeBatch(k)
      BY <1>1, <1>3, <2>4, TakeBatchKeeps DEF k
    <2>5. CASE Barrier(k)
      BY <1>1, <1>3, <2>5, BarrierKeeps DEF k
    <2> QED BY <2>1, <2>2, <2>3, <2>4, <2>5
  <1> QED BY <1>2, <1>3

(* The first of the queue gets a lane, a ticket and the batch's cohort. *)
LEMMA AssignKeeps ==
  ASSUME DaemonInv, pc = "assign", Assign,
         UNCHANGED << req, wire, half, chan, backlog, cur, heard, cl >>
  PROVE  DaemonInv'
  <1> DEFINE i == Lowest(In("empty"))
             k == Head(queue)
             lane == [phase |-> "running", key |-> k, gen |-> gen, left |-> req[k].work, late |-> FALSE]
  <1>1. /\ In("empty") # {} /\ queue # << >> /\ may_join(k)
        /\ lanes' = [lanes EXCEPT ![i] = lane]
        /\ cohort' = IF cohort = NoCohort THEN req[k].cohort ELSE cohort
        /\ reg' = batch_bind_active(batch_transition_to_queued(reg, k), k, gen)
        /\ queue' = Tail(queue) /\ gen' = gen + 1
        /\ UNCHANGED << single, said, pc, doomed, agreed, ended >>
    BY DEF Assign, next_generation, picked
  <1>2. i \in LaneIds /\ lanes[i].phase = "empty"
    <2>1. In("empty") \in SUBSET LaneIds
      BY DEF In
    <2>2. i \in In("empty")
      BY <1>1, <2>1, LowestIn
    <2> QED BY <2>2 DEF In
  <1>3. /\ queue \in Seq(Keys) /\ Distinct(queue) /\ lanes \in [LaneIds -> Lanes]
        /\ reg \in [Keys -> Entries] /\ gen \in Nat \ {0}
    BY DEF DaemonInv, QueueTypes, MapTypes, CellTypes, LaneInv
  <1>4. /\ queue' \in Seq(Keys) /\ ToSet(queue') = ToSet(queue) \ {k} /\ k \in ToSet(queue)
        /\ Distinct(queue') /\ k \in Keys
    BY <1>1, <1>3, TailSet, TailAt
  <1>5. /\ said[k] = Started /\ req[k] \in Requests[k] /\ reg[k].state \in {"absent", "queued"}
        /\ (reg[k].state = "absent" => reg[k] = NoEntry) /\ ~ reg[k].commit
    BY <1>4 DEF DaemonInv, LaneInv, RegInv
  <1>6. req[k].work \in Int /\ req[k].cohort # NoCohort
    BY <1>4, <1>5, DaemonAssumption
  <1>7. \A j \in Occupied : lanes[j].key \in Keys \ {k} /\ j \in LaneIds \ {i}
    <2>1. \A j \in Occupied : j \in LaneIds /\ j # i
      BY <1>2 DEF Occupied, In
    <2> QED BY <1>4, <2>1 DEF DaemonInv, LaneInv
  <1>8. lane \in Lanes /\ lane.phase = "running" /\ lane.key = k /\ lane.gen = gen
    BY <1>3, <1>4, <1>6 DEF Lanes
  <1> HIDE DEF i, k, lane
  <1>9. /\ lanes' \in [LaneIds -> Lanes] /\ lanes'[i] = lane
        /\ \A j \in LaneIds \ {i} : lanes'[j] = lanes[j]
    BY <1>1, <1>2, <1>3, <1>8
  <1>10. /\ Occupied' = Occupied \cup {i}
         /\ In("running")' = In("running") \cup {i} /\ In("awaiting")' = In("awaiting")
    BY <1>2, <1>8, <1>9 DEF In, Occupied
  <1>11. /\ reg' \in [Keys -> Entries] /\ \A j \in Keys \ {k} : reg'[j] = reg[j]
         /\ \/ reg[k] = NoEntry /\ reg'[k] = NoEntry
            \/ reg'[k].state = "active" /\ reg'[k].owner = gen /\ ~ reg'[k].commit
    <2>1. batch_transition_to_queued(reg, k) = reg
      BY <1>5 DEF batch_transition_to_queued
    <2>2. reg' = batch_bind_active(reg, k, gen)
      BY <1>1, <2>1
    <2> QED BY <1>3, <1>4, <1>5, <2>2, BoundAt
  <1>12. Occupied # {} => cohort = req[k].cohort
    <2> SUFFICES ASSUME NEW j \in Occupied PROVE cohort = req[k].cohort
      OBVIOUS
    <2>1. req[lanes[j].key] \in Requests[lanes[j].key] /\ req[lanes[j].key].cohort = cohort
      BY DEF DaemonInv, LaneInv
    <2>2. cohort # NoCohort
      BY <1>7, <2>1, DaemonAssumption
    <2> QED BY <1>1, <2>2 DEF may_join
  <1>13. cohort' = req[k].cohort
    BY <1>1 DEF may_join
  <1>14. QueueTypes' /\ MapTypes' /\ CellTypes'
    <2>1. QueueTypes'
      BY <1>4 DEF DaemonInv, QueueTypes
    <2>2. MapTypes'
      BY <1>1, <1>9, <1>11 DEF DaemonInv, MapTypes
    <2>3. gen' \in Nat \ {0}
      BY <1>1, <1>3
    <2>4. CellTypes'
      BY <1>1, <2>3 DEF DaemonInv, CellTypes
    <2> QED BY <2>1, <2>2, <2>4
  <1>15. InboxInv'
    <2>1. \A j \in Keys : said[j] = Silent =>
            said'[j] = Silent /\ (reg'[j] = reg[j] \/ reg'[j] = NoEntry)
      BY <1>1, <1>5, <1>11, TranscriptsDiffer
    <2> QED BY <2>1, InboxKept DEF DaemonInv
  <1>16. LaneInv'
    <2>1. /\ Distinct(queue')
          /\ \A x \in ToSet(queue') : said'[x] = Started /\ req'[x] \in Requests[x]
      BY <1>1, <1>4 DEF DaemonInv, LaneInv
    <2>2. ASSUME NEW j \in Occupied'
          PROVE  /\ lanes'[j].key \in Keys /\ lanes'[j].key \notin ToSet(queue')
                 /\ lanes'[j].gen < gen'
                 /\ req[lanes'[j].key] \in Requests[lanes'[j].key] /\ req[lanes'[j].key].cohort = cohort'
                 /\ said'[lanes'[j].key] = IF lanes'[j].phase = "running" THEN Started ELSE Ready
                 /\ \A l \in Occupied' : lanes'[l].key = lanes'[j].key => l = j
      <3>1. CASE j = i
        <4>1. gen < gen'
          BY <1>1, <1>3
        <4>2. \A l \in Occupied' : lanes'[l].key = k => l = i
          BY <1>7, <1>9, <1>10
        <4> QED BY <1>1, <1>4, <1>5, <1>8, <1>9, <1>13, <3>1, <4>1, <4>2
      <3>2. CASE j # i
        <4>1. j \in Occupied /\ lanes'[j] = lanes[j] /\ lanes[j].key # k
          BY <1>7, <1>9, <1>10, <3>2
        <4>2. lanes[j].gen \in Nat /\ lanes[j].gen < gen
          BY <1>3, <1>7, <4>1 DEF DaemonInv, LaneInv, Lanes
        <4>3. lanes'[j].gen < gen'
          BY <1>1, <1>3, <4>1, <4>2
        <4>4. cohort' = cohort
          BY <1>12, <1>13, <4>1
        <4>5. \A l \in Occupied' : lanes'[l].key = lanes'[j].key => l = j
          <5> SUFFICES ASSUME NEW l \in Occupied', lanes'[l].key = lanes'[j].key PROVE l = j
            OBVIOUS
          <5>1. l # i
            BY <1>8, <1>9, <4>1
          <5>2. l \in Occupied /\ lanes'[l] = lanes[l]
            BY <1>7, <1>9, <1>10, <5>1
          <5> QED BY <4>1, <5>2 DEF DaemonInv, LaneInv
        <4> QED BY <1>1, <1>4, <4>1, <4>3, <4>4, <4>5 DEF DaemonInv, LaneInv
      <3> QED BY <3>1, <3>2
    <2> QED BY <2>1, <2>2 DEF LaneInv
  <1>17. RegInv'
    <2>1. \A j \in Keys :
            /\ reg'[j].state = "absent" => reg'[j] = NoEntry
            /\ reg'[j].state \notin {"active", "ready"} => reg'[j].owner = 0
            /\ reg'[j].commit => reg'[j].state = "ready"
            /\ reg'[j].state = "queued" => j \in ToSet(queue')
      BY <1>4, <1>11, EntriesAt DEF DaemonInv, RegInv
    <2>2. ASSUME NEW x \in Keys, reg'[x].state \in {"active", "ready"}
          PROVE  \E j \in Occupied' :
                   /\ lanes'[j].key = x /\ reg'[x].owner = lanes'[j].gen
                   /\ reg'[x].state = IF lanes'[j].phase = "running" THEN "active" ELSE "ready"
      <3>1. CASE x = k
        <4>1. reg'[k].state = "active" /\ reg'[k].owner = gen
          BY <1>11, <2>2, <3>1, EntriesAt
        <4> QED BY <1>8, <1>9, <1>10, <3>1, <4>1
      <3>2. CASE x # k
        <4>1. PICK j \in Occupied :
                /\ lanes[j].key = x /\ reg[x].owner = lanes[j].gen
                /\ reg[x].state = IF lanes[j].phase = "running" THEN "active" ELSE "ready"
          BY <1>11, <2>2, <3>2 DEF DaemonInv, RegInv
        <4> QED BY <1>7, <1>9, <1>10, <1>11, <3>2, <4>1
      <3> QED BY <3>1, <3>2
    <2>3. \A j \in ToSet(queue') : reg'[j].state \in {"absent", "queued"}
      <3>1. ToSet(queue) \subseteq Keys
        BY BatchKeys
      <3> QED BY <1>4, <1>11, <3>1 DEF DaemonInv, RegInv
    <2>4. \A j \in Occupied' : reg'[lanes'[j].key].state \in {"absent", "active", "ready"}
      <3>1. reg'[lanes'[i].key].state \in {"absent", "active", "ready"}
        BY <1>8, <1>9, <1>11, EntriesAt
      <3>2. \A j \in Occupied : reg'[lanes'[j].key].state \in {"absent", "active", "ready"}
        BY <1>7, <1>9, <1>11 DEF DaemonInv, RegInv
      <3> QED BY <1>10, <3>1, <3>2
    <2> QED BY <2>1, <2>2, <2>3, <2>4 DEF RegInv
  <1>18. PhaseInv' /\ MainInv'
    BY <1>1 DEF DaemonInv, PhaseInv, MainInv
  <1>19. ClientInv'
    <2>1. \A j \in Keys : reg'[j].commit => reg[j].commit
      BY <1>11, EntriesAt
    <2> QED BY <1>1, <2>1, ClientKept DEF DaemonInv
  <1> QED BY <1>14, <1>15, <1>16, <1>17, <1>18, <1>19 DEF DaemonInv

(* The lanes are filled as far as they can be. *)
LEMMA FillLanesKeeps ==
  ASSUME DaemonInv, FillLanes
  PROVE  DaemonInv'
  <1>1. pc = "assign" /\ UNCHANGED << req, wire, half, chan, backlog, cur, heard, cl >>
    BY DEF FillLanes, inbox, clients
  <1>2. CASE Assign
    BY <1>1, <1>2, AssignKeeps
  <1>3. CASE FailAll
    BY <1>1, <1>3, FailAllKeeps
  <1>4. CASE Assigned
    <2>1. /\ UNCHANGED << reg, lanes, queue, cohort, gen, said, doomed, agreed, ended >>
          /\ \/ Occupied = {} /\ queue = << >> /\ pc' = "outer" /\ single' = Vacant
             \/ pc' \in {"poll", "step"} /\ single' = single
      BY <1>4 DEF Assigned, LeaveDriver, Goto, sched, picked
    <2>2. /\ QueueTypes' /\ MapTypes' /\ InboxInv' /\ LaneInv' /\ RegInv' /\ ClientInv'
          /\ Occupied' = Occupied
          /\ single' \in [key : Keys \cup {NoKey}, ready : BOOLEAN, decision : {"none", "abort", "commit"}]
      BY <1>1, <2>1, DriverMoves
    <2>3. CellTypes' /\ PhaseInv' /\ MainInv'
      BY <1>1, <2>1, <2>2 DEF DaemonInv, CellTypes, PhaseInv, MainInv
    <2> QED BY <2>2, <2>3 DEF DaemonInv
  <1> QED BY <1>2, <1>3, <1>4 DEF FillLanes

(* Lanes that keep phase, key and ticket. *)
LEMMA LanesAlike ==
  ASSUME DaemonInv, lanes' \in [LaneIds -> Lanes],
         \A i \in LaneIds : /\ lanes'[i].phase = lanes[i].phase /\ lanes'[i].key = lanes[i].key
                            /\ lanes'[i].gen = lanes[i].gen,
         UNCHANGED << req, wire, half, chan, backlog, reg, single, queue, cohort, gen, said, heard, cl >>
  PROVE  /\ QueueTypes' /\ MapTypes' /\ InboxInv' /\ LaneInv' /\ RegInv' /\ ClientInv'
         /\ In("running")' = In("running") /\ In("awaiting")' = In("awaiting") /\ Occupied' = Occupied
  <1>1. In("running")' = In("running") /\ In("awaiting")' = In("awaiting") /\ Occupied' = Occupied
        /\ Occupied \subseteq LaneIds
    BY DEF In, Occupied
  <1>2. QueueTypes' /\ MapTypes'
    BY DEF DaemonInv, QueueTypes, MapTypes
  <1>3. InboxInv'
    BY DEF DaemonInv, InboxInv, OnWire, InInbox
  <1>4. LaneInv'
    BY <1>1 DEF DaemonInv, LaneInv
  <1>5. RegInv'
    BY <1>1 DEF DaemonInv, RegInv
  <1>6. ClientInv'
    BY ClientKept DEF DaemonInv
  <1> QED BY <1>1, <1>2, <1>3, <1>4, <1>5, <1>6

(* One forward for all running lanes. *)
LEMMA ForwardKeeps ==
  ASSUME DaemonInv, pc = "step", Forward,
         UNCHANGED << req, wire, half, chan, backlog, cur, heard, cl >>
  PROVE  DaemonInv'
  <1> DEFINE G == {i \in In("running") : ~ batch_check_abort(lanes[i].key)}
  <1>1. /\ doomed' = {i \in In("running") : batch_check_abort(lanes[i].key)}
        /\ ended' = {i \in In("running") : ~ batch_check_abort(lanes[i].key) /\ lanes[i].left = 1}
        /\ lanes' = [i \in LaneIds |-> IF i \in G THEN [lanes[i] EXCEPT !.left = @ - 1] ELSE lanes[i]]
        /\ pc' = "emit"
        /\ UNCHANGED << reg, single, queue, cohort, gen, agreed, said >>
    <2>1. \A i : i \in G <=> i \in In("running") /\ ~ batch_check_abort(lanes[i].key)
      OBVIOUS
    <2> QED BY <2>1 DEF Forward, Goto, control
  <1>2. doomed' \subseteq In("running") /\ ended' \subseteq In("running") /\ doomed' \cap ended' = {}
    BY <1>1
  <1> HIDE DEF G
  <1>3. /\ lanes' \in [LaneIds -> Lanes]
        /\ \A i \in LaneIds : /\ lanes'[i].phase = lanes[i].phase /\ lanes'[i].key = lanes[i].key
                              /\ lanes'[i].gen = lanes[i].gen
    <2>1. lanes \in [LaneIds -> Lanes]
      BY DEF DaemonInv, MapTypes
    <2>2. \A l \in Lanes : LET m == [l EXCEPT !.left = @ - 1] IN
            m \in Lanes /\ m.phase = l.phase /\ m.key = l.key /\ m.gen = l.gen
      BY DEF Lanes
    <2> QED BY <1>1, <2>1, <2>2
  <1>4. /\ QueueTypes' /\ MapTypes' /\ InboxInv' /\ LaneInv' /\ RegInv' /\ ClientInv'
        /\ In("running")' = In("running")
    BY <1>1, <1>3, LanesAlike
  <1>5. In("running") \subseteq LaneIds
    BY DEF In
  <1>6. CellTypes'
    BY <1>1, <1>2, <1>5 DEF DaemonInv, CellTypes
  <1>7. PhaseInv' /\ MainInv'
    BY <1>1, <1>2, <1>4 DEF DaemonInv, PhaseInv, MainInv
  <1> QED BY <1>4, <1>6, <1>7 DEF DaemonInv

(* A step of the batch. *)
LEMMA DecodeStepKeeps ==
  ASSUME DaemonInv, DecodeStep
  PROVE  DaemonInv'
  <1>1. /\ pc = "step" /\ UNCHANGED << req, wire, half, chan, backlog, cur, heard, cl >>
        /\ Forward \/ OpenThink \/ FailAll
    BY DEF DecodeStep, inbox, clients
  <1> QED BY <1>1, ForwardKeeps, OpenThinkKeeps, FailAllKeeps

(* The lanes that ended wait for their clients, and the registry knows it  *)
(* before the clients do.                                                  *)
LEMMA PublishKeeps ==
  ASSUME DaemonInv, pc = "emit", Publish,
         UNCHANGED << req, wire, half, chan, backlog, cur, heard, cl >>
  PROVE  DaemonInv'
  <1> DEFINE K == KeysOf(ended)
             lane(k) == CHOOSE j \in ended : lanes[j].key = k
  <1>1. /\ doomed = {}
        /\ lanes' = [i \in LaneIds |-> IF i \in ended THEN [lanes[i] EXCEPT !.phase = "awaiting"]
                                       ELSE lanes[i]]
        /\ reg' = [k \in Keys |-> IF k \in K THEN batch_mark_ready(reg, k, lanes[lane(k)].gen)[k]
                                  ELSE reg[k]]
        /\ Say(K, << "ready" >>) /\ ended' = {} /\ pc' \in {"poll", "sample"}
        /\ UNCHANGED << single, queue, cohort, gen, doomed, agreed >>
    BY DEF Publish, Goto
  <1>2. /\ ended \subseteq In("running") /\ ended \subseteq Occupied /\ ended \subseteq LaneIds
        /\ Occupied \subseteq LaneIds
    BY PhasesAt DEF DaemonInv, PhaseInv
  <1>3. /\ lanes \in [LaneIds -> Lanes] /\ reg \in [Keys -> Entries] /\ said \in [Keys -> Transcripts]
    BY DEF DaemonInv, MapTypes
  <1>4. \A i \in ended : lanes[i].phase = "running" /\ lanes[i].key \in Keys \cap K
                         /\ said[lanes[i].key] = Started
    <2>1. \A i \in ended : lanes[i].key \in K
      BY DEF KeysOf
    <2> QED BY <1>2, <2>1, PhasesAt DEF DaemonInv, LaneInv
  <1>5. \A k \in K : lane(k) \in ended /\ lanes[lane(k)].key = k
    BY DEF KeysOf
  <1>6. \A k \in K : k \in Keys /\ said[k] = Started
    BY <1>4, <1>5
  <1>7. \A i \in Occupied \ ended : lanes[i].key \in Keys \ K
    <2>1. \A i, j \in Occupied : lanes[i].key = lanes[j].key => i = j
      BY DEF DaemonInv, LaneInv
    <2> QED BY <1>2, <1>5, <2>1, BatchKeys
  <1> HIDE DEF K, lane
  <1>8. \A k \in K :
          \/ reg[k] = NoEntry
          \/ reg[k].state = "active" /\ reg[k].owner = lanes[lane(k)].gen /\ ~ reg[k].commit
    <2> SUFFICES ASSUME NEW k \in K, reg[k] # NoEntry
                 PROVE  reg[k].state = "active" /\ reg[k].owner = lanes[lane(k)].gen /\ ~ reg[k].commit
      OBVIOUS
    <2>1. lane(k) \in Occupied /\ lanes[lane(k)].key = k /\ k \in Keys /\ lanes[lane(k)].phase = "running"
      BY <1>2, <1>4, <1>5, <1>6
    <2>2. reg[k].state \in {"active", "ready"}
      BY <2>1 DEF DaemonInv, RegInv
    <2>3. PICK j \in Occupied :
            /\ lanes[j].key = k /\ reg[k].owner = lanes[j].gen
            /\ reg[k].state = IF lanes[j].phase = "running" THEN "active" ELSE "ready"
      BY <2>1, <2>2 DEF DaemonInv, RegInv
    <2>4. j = lane(k)
      BY <2>1, <2>3 DEF DaemonInv, LaneInv
    <2>5. reg[k].commit => reg[k].state = "ready"
      BY <2>1 DEF DaemonInv, RegInv
    <2> QED BY <2>1, <2>3, <2>4, <2>5
  <1>9. /\ reg' \in [Keys -> Entries] /\ \A k \in Keys \ K : reg'[k] = reg[k]
        /\ \A k \in K :
             \/ reg[k] = NoEntry /\ reg'[k] = NoEntry
             \/ /\ reg'[k].state = "ready" /\ reg'[k].owner = lanes[lane(k)].gen /\ ~ reg'[k].commit
    <2>1. \A k \in K : lanes[lane(k)].gen \in Nat
      <3>1. \A l \in Lanes : l.gen \in Nat
        BY DEF Lanes
      <3> QED BY <1>2, <1>3, <1>5, <3>1
    <2>2. ASSUME NEW k \in K
          PROVE  /\ batch_mark_ready(reg, k, lanes[lane(k)].gen)[k] \in Entries
                 /\ LET e == batch_mark_ready(reg, k, lanes[lane(k)].gen)[k] IN
                    \/ reg[k] = NoEntry /\ e = NoEntry
                    \/ e.state = "ready" /\ e.owner = lanes[lane(k)].gen /\ ~ e.commit
      BY <1>3, <1>6, <1>8, <2>1, MarkedAt, EntriesAt
    <2> QED BY <1>1, <1>3, <1>6, <2>2
  <1>10. /\ said' \in [Keys -> Transcripts] /\ \A k \in Keys \ K : said'[k] = said[k]
         /\ \A k \in K : said'[k] = Ready
    <2>1. \A k \in K : said[k] \o << "ready" >> = Ready
      BY <1>6, TranscriptsGrow
    <2>2. Ready \in Transcripts
      BY DEF Transcripts
    <2>3. Say(K, << "ready" >>) /\ \A k \in Keys \cap K : said[k] \o << "ready" >> \in Transcripts
      BY <1>1, <2>1, <2>2
    <2>4. /\ said' \in [Keys -> Transcripts]
          /\ \A k \in Keys \ K : said'[k] = said[k]
          /\ \A k \in Keys \cap K : said'[k] = said[k] \o << "ready" >>
      BY <1>3, <2>3, SayStep
    <2> QED BY <1>6, <2>1, <2>4
  <1>11. /\ lanes' \in [LaneIds -> Lanes]
         /\ \A i \in LaneIds \ ended : lanes'[i] = lanes[i]
         /\ \A i \in ended : lanes'[i].phase = "awaiting" /\ lanes'[i].key = lanes[i].key
                             /\ lanes'[i].gen = lanes[i].gen
    <2>1. \A l \in Lanes : LET m == [l EXCEPT !.phase = "awaiting"] IN
            m \in Lanes /\ m.phase = "awaiting" /\ m.key = l.key /\ m.gen = l.gen
      BY DEF Lanes
    <2> QED BY <1>1, <1>2, <1>3, <2>1
  <1>12. Occupied' = Occupied
    <2>1. \A i \in ended : i \in Occupied /\ i \in Occupied'
      BY <1>2, <1>11 DEF Occupied, In
    <2>2. \A i \in LaneIds \ ended : i \in Occupied' <=> i \in Occupied
      BY <1>11 DEF Occupied, In
    <2>3. Occupied' \subseteq LaneIds
      BY DEF Occupied, In
    <2> QED BY <1>2, <2>1, <2>2, <2>3
  <1>13. QueueTypes' /\ MapTypes' /\ CellTypes'
    <2>1. QueueTypes'
      BY <1>1 DEF DaemonInv, QueueTypes
    <2>2. MapTypes'
      BY <1>1, <1>9, <1>10, <1>11 DEF DaemonInv, MapTypes
    <2>3. CellTypes'
      BY <1>1 DEF DaemonInv, CellTypes
    <2> QED BY <2>1, <2>2, <2>3
  <1>14. InboxInv'
    <2>1. \A j \in Keys : said[j] = Silent =>
            said'[j] = Silent /\ (reg'[j] = reg[j] \/ reg'[j] = NoEntry)
      BY <1>6, <1>9, <1>10, TranscriptsDiffer
    <2> QED BY <2>1, InboxKept DEF DaemonInv
  <1>15. \A x \in ToSet(queue) : x \in Keys \ K
    <2>1. \A i \in Occupied : lanes[i].key \notin ToSet(queue)
      BY DEF DaemonInv, LaneInv
    <2> QED BY <1>2, <1>5, <2>1, BatchKeys
  <1>16. \A i \in Occupied : lanes'[i].key = lanes[i].key /\ lanes'[i].gen = lanes[i].gen
    BY <1>2, <1>11
  <1>17. LaneInv'
    <2>1. /\ Distinct(queue)
          /\ \A x \in ToSet(queue) : said'[x] = Started /\ req[x] \in Requests[x]
      BY <1>10, <1>15 DEF DaemonInv, LaneInv
    <2>2. ASSUME NEW j \in Occupied
          PROVE  said'[lanes[j].key] = IF lanes'[j].phase = "running" THEN Started ELSE Ready
      <3>1. CASE j \in ended
        BY <1>4, <1>10, <1>11, <3>1
      <3>2. CASE j \notin ended
        <4>1. lanes'[j] = lanes[j] /\ said'[lanes[j].key] = said[lanes[j].key]
          BY <1>2, <1>7, <1>10, <1>11, <3>2
        <4> QED BY <4>1 DEF DaemonInv, LaneInv
      <3> QED BY <3>1, <3>2
    <2>3. ASSUME NEW j \in Occupied
          PROVE  /\ lanes'[j].key \in Keys /\ lanes'[j].key \notin ToSet(queue)
                 /\ lanes'[j].gen < gen
                 /\ req[lanes'[j].key] \in Requests[lanes'[j].key] /\ req[lanes'[j].key].cohort = cohort
                 /\ said'[lanes'[j].key] = IF lanes'[j].phase = "running" THEN Started ELSE Ready
                 /\ \A l \in Occupied : lanes'[l].key = lanes'[j].key => l = j
      <3>1. lanes'[j].key = lanes[j].key /\ lanes'[j].gen = lanes[j].gen
        BY <1>16
      <3>2. \A l \in Occupied : lanes'[l].key = lanes'[j].key => l = j
        BY <1>16 DEF DaemonInv, LaneInv
      <3> QED BY <2>2, <3>1, <3>2 DEF DaemonInv, LaneInv
    <2> QED BY <1>1, <1>12, <2>1, <2>3 DEF LaneInv
  <1>18. RegInv'
    <2>1. \A x \in Keys :
            /\ reg'[x].state = "absent" => reg'[x] = NoEntry
            /\ reg'[x].state \notin {"active", "ready"} => reg'[x].owner = 0
            /\ reg'[x].commit => reg'[x].state = "ready"
            /\ reg'[x].state = "queued" => x \in ToSet(queue)
      BY <1>9, EntriesAt DEF DaemonInv, RegInv
    <2>2. ASSUME NEW x \in Keys, reg'[x].state \in {"active", "ready"}
          PROVE  \E j \in Occupied :
                   /\ lanes'[j].key = x /\ reg'[x].owner = lanes'[j].gen
                   /\ reg'[x].state = IF lanes'[j].phase = "running" THEN "active" ELSE "ready"
      <3>1. CASE x \in K
        <4>1. reg'[x].state = "ready" /\ reg'[x].owner = lanes[lane(x)].gen
          BY <1>9, <2>2, <3>1, EntriesAt
        <4>2. lane(x) \in ended /\ lane(x) \in Occupied /\ lanes[lane(x)].key = x
          BY <1>2, <1>5, <3>1
        <4> QED BY <1>11, <4>1, <4>2
      <3>2. CASE x \notin K
        <4>1. PICK j \in Occupied :
                /\ lanes[j].key = x /\ reg[x].owner = lanes[j].gen
                /\ reg[x].state = IF lanes[j].phase = "running" THEN "active" ELSE "ready"
          BY <1>9, <2>2, <3>2 DEF DaemonInv, RegInv
        <4>2. j \notin ended
          BY <1>4, <3>2, <4>1
        <4> QED BY <1>2, <1>9, <1>11, <3>2, <4>1, <4>2
      <3> QED BY <3>1, <3>2
    <2>3. \A x \in ToSet(queue) : reg'[x].state \in {"absent", "queued"}
      BY <1>9, <1>15 DEF DaemonInv, RegInv
    <2>4. \A j \in Occupied : reg'[lanes[j].key].state \in {"absent", "active", "ready"}
      <3>1. \A j \in ended : reg'[lanes[j].key].state \in {"absent", "active", "ready"}
        BY <1>4, <1>9, EntriesAt
      <3>2. \A j \in Occupied \ ended : reg'[lanes[j].key].state \in {"absent", "active", "ready"}
        BY <1>7, <1>9 DEF DaemonInv, RegInv
      <3> QED BY <3>1, <3>2
    <2> QED BY <1>1, <1>12, <1>16, <2>1, <2>2, <2>3, <2>4 DEF RegInv
  <1>19. PhaseInv' /\ MainInv'
    BY <1>1 DEF DaemonInv, PhaseInv, MainInv
  <1>20. ClientInv'
    <2>1. \A j \in Keys : reg'[j].commit => reg[j].commit
      BY <1>9, EntriesAt
    <2>2. \A j \in Keys : said[j] \in Ended => said'[j] \in Ended
      BY <1>6, <1>10, TranscriptsDiffer
    <2>3. \A j \in Keys : said'[j] = Done => said[j] = Done
      BY <1>10, TranscriptsDiffer
    <2> QED BY <1>1, <2>1, <2>2, <2>3, ClientKept DEF DaemonInv
  <1> QED BY <1>13, <1>14, <1>17, <1>18, <1>19, <1>20 DEF DaemonInv

(* What a forward has produced is carried out. *)
LEMMA EmitKeeps ==
  ASSUME DaemonInv, Emit
  PROVE  DaemonInv'
  <1>1. UNCHANGED << req, wire, half, chan, backlog, cur, heard, cl >>
    BY DEF Emit, inbox, clients
  <1>2. CASE pc = "emit" /\ CancelLane
    BY <1>1, <1>2, CancelLaneKeeps
  <1>3. CASE pc = "emit" /\ Publish
    BY <1>1, <1>3, PublishKeeps
  <1>4. CASE FailAll
    BY <1>1, <1>4, FailAllKeeps
  <1>5. CASE /\ pc = "sample" /\ Goto("poll")
             /\ UNCHANGED << control, sched, model, picked, said, swept, faults >>
    <2>1. /\ UNCHANGED << reg, single, lanes, queue, cohort, gen, said, doomed, agreed, ended >>
          /\ pc = "sample" /\ pc' = "poll"
      BY <1>5 DEF Goto, control, sched, picked
    <2>2. /\ QueueTypes' /\ MapTypes' /\ InboxInv' /\ LaneInv' /\ RegInv' /\ ClientInv'
      BY <1>1, <2>1, DriverMoves
    <2>3. CellTypes' /\ PhaseInv' /\ MainInv'
      BY <1>1, <2>1 DEF DaemonInv, CellTypes, PhaseInv, MainInv
    <2> QED BY <2>2, <2>3 DEF DaemonInv
  <1> QED BY <1>2, <1>3, <1>4, <1>5 DEF Emit

(* A deadline passes. *)
LEMMA LateKeeps ==
  ASSUME DaemonInv, NEW i \in LaneIds, Late(i)
  PROVE  DaemonInv'
  <1>1. /\ lanes' = [lanes EXCEPT ![i].late = TRUE]
        /\ UNCHANGED << req, wire, half, chan, backlog, reg, single, queue, cohort, gen, said, heard, cl, pc, cur,
                        doomed, agreed, ended >>
    BY DEF Late, inbox, control, clients, picked
  <1>2. /\ lanes' \in [LaneIds -> Lanes]
        /\ \A j \in LaneIds : /\ lanes'[j].phase = lanes[j].phase /\ lanes'[j].key = lanes[j].key
                              /\ lanes'[j].gen = lanes[j].gen
    <2>1. lanes \in [LaneIds -> Lanes]
      BY DEF DaemonInv, MapTypes
    <2>2. \A l \in Lanes : LET m == [l EXCEPT !.late = TRUE] IN
            m \in Lanes /\ m.phase = l.phase /\ m.key = l.key /\ m.gen = l.gen
      BY DEF Lanes
    <2> QED BY <1>1, <2>1, <2>2
  <1>3. /\ QueueTypes' /\ MapTypes' /\ InboxInv' /\ LaneInv' /\ RegInv' /\ ClientInv'
        /\ In("running")' = In("running") /\ In("awaiting")' = In("awaiting") /\ Occupied' = Occupied
    BY <1>1, <1>2, LanesAlike
  <1>4. CellTypes' /\ PhaseInv' /\ MainInv'
    <2>1. OnWire' = OnWire /\ InInbox' = InInbox
      BY <1>1 DEF OnWire, InInbox
    <2> QED BY <1>1, <1>3, <2>1 DEF DaemonInv, CellTypes, PhaseInv, MainInv
  <1> QED BY <1>3, <1>4 DEF DaemonInv

(* Nothing the invariant speaks of changes when the process dies. *)
LEMMA StillKeeps ==
  ASSUME DaemonInv,
         UNCHANGED << req, wire, half, chan, backlog, reg, single, lanes, queue, cohort, gen, pc, cur, doomed,
                      agreed, ended, said, heard, cl >>
  PROVE  DaemonInv'
  <1>1. /\ QueueTypes' /\ MapTypes' /\ InboxInv' /\ LaneInv' /\ RegInv' /\ ClientInv'
        /\ In("running")' = In("running") /\ In("awaiting")' = In("awaiting") /\ Occupied' = Occupied
    BY DriverMoves
  <1>2. CellTypes' /\ PhaseInv' /\ MainInv'
    <2>1. OnWire' = OnWire /\ InInbox' = InInbox
      BY DEF OnWire, InInbox
    <2> QED BY <1>1, <2>1 DEF DaemonInv, CellTypes, PhaseInv, MainInv
  <1> QED BY <1>1, <1>2 DEF DaemonInv

-----------------------------------------------------------------------------
(* The theorems *)

(* Every step of clients, reader and main thread, every failure and every  *)
(* deadline preserves the invariant.                                       *)
THEOREM DaemonInvariant == Spec => []DaemonInv
  <1>1. Init => DaemonInv
    BY InitInv
  <1>2. DaemonInv /\ [Next]_vars => DaemonInv'
    <2> SUFFICES ASSUME DaemonInv, [Next]_vars PROVE DaemonInv'
      OBVIOUS
    <2>1. ASSUME NEW k \in Keys, Client(k) \/ GiveUp(k) PROVE DaemonInv'
      BY <2>1, SubmitKeeps, HearKeeps, ClosedKeeps, GiveUpKeeps DEF Client
    <2>2. CASE Reader
      BY <2>2, ReaderKeeps
    <2>3. CASE Main
      BY <2>3, OuterKeeps, CheckLatchKeeps, TransferKeeps, SeqStepKeeps, SeqDecideKeeps, PollKeeps,
         SettleKeeps, CullKeeps, DrainKeeps, FillLanesKeeps, DecodeStepKeeps, EmitKeeps DEF Main
    <2>4. ASSUME NEW i \in LaneIds, Late(i) PROVE DaemonInv'
      BY <2>4, LateKeeps
    <2>5. CASE Die \/ UNCHANGED vars
      BY <2>5, StillKeeps DEF Die, vars, inbox, control, sched, picked, clients
    <2> QED BY <2>1, <2>2, <2>3, <2>4, <2>5 DEF Next
  <1> QED BY <1>1, <1>2, PTL DEF Spec

(* The variables keep their types: every ticket in the registry was given  *)
(* out, and what the driver picks out are occupied lanes.                  *)
THEOREM TypeCorrect == Spec => []TypeOK
  <1>1. ASSUME DaemonInv PROVE TypeOK
    <2> USE <1>1
    <2>1. ToSet(Waiting) \cup ToSet(queue) \subseteq Keys
      <3>1. Waiting \in Seq(Keys) /\ queue \in Seq(Keys)
        BY ConcatProperties DEF DaemonInv, QueueTypes, Waiting
      <3> QED BY <3>1, ToSetAt
    <2>2. \A i \in LaneIds : lanes[i].phase # "empty" => i \in Occupied
      BY DEF DaemonInv, MapTypes, Lanes, Occupied, In
    <2>3. \A i \in LaneIds : lanes[i].phase # "empty" => lanes[i].key \in Keys /\ lanes[i].gen < gen
      BY <2>2 DEF DaemonInv, LaneInv
    <2>4. \A k \in Keys : reg[k].owner \in 0 .. gen
      <3> SUFFICES ASSUME NEW k \in Keys PROVE reg[k].owner \in 0 .. gen
        OBVIOUS
      <3>1. reg[k].owner \in Nat /\ gen \in Nat
        BY DEF DaemonInv, MapTypes, CellTypes, Entries
      <3>2. reg[k].owner = 0 \/ \E i \in Occupied : reg[k].owner = lanes[i].gen
        BY DEF DaemonInv, RegInv
      <3>3. reg[k].owner = 0 \/ reg[k].owner < gen
        BY <3>2 DEF DaemonInv, LaneInv
      <3> QED BY <3>1, <3>3
    <2>5. reg \in [Keys -> [state : {"absent", "announced", "queued", "active", "ready"},
                            owner : 0 .. gen, abort : BOOLEAN, commit : BOOLEAN]]
      <3>1. reg \in [Keys -> Entries]
        BY DEF DaemonInv, MapTypes
      <3>2. \A e \in Entries : e.owner \in 0 .. gen =>
              e \in [state : {"absent", "announced", "queued", "active", "ready"},
                     owner : 0 .. gen, abort : BOOLEAN, commit : BOOLEAN]
        BY DEF Entries
      <3> QED BY <2>4, <3>1, <3>2
    <2>6. doomed \cup agreed \cup ended \subseteq Occupied
      BY PhasesAt DEF DaemonInv, PhaseInv
    <2>7. \A k \in Keys : req[k] \in Requests[k] \cup {NoRequest}
      BY DEF DaemonInv, MapTypes
    <2>8. single \in [key : Keys \cup {NoKey}, ready : BOOLEAN, decision : {"none", "abort", "commit"}]
      BY DEF DaemonInv, CellTypes
    <2>9. half \in {NoLine} \cup {Line(what, k) : what \in {"abort", "commit"}, k \in Keys}
      BY DEF DaemonInv, ClientInv, Halves, Line
    <2> QED BY <2>1, <2>3, <2>5, <2>6, <2>7, <2>8, <2>9 DEF TypeOK
  <1> QED BY <1>1, DaemonInvariant, PTL

(* Whatever routes, lanes and failures speak, a client is told one start,  *)
(* then one commit_ready, then one terminal event, and nothing after it.   *)
THEOREM TranscriptHolds == Spec => []Transcript
  <1>1. ASSUME DaemonInv PROVE Transcript
    <2> SUFFICES ASSUME NEW k \in Keys, NEW n \in DOMAIN said[k]
                 PROVE  /\ said[k][n] \in {"start"} => n = 1
                        /\ said[k][n] \in {"ready"} => n = 2 /\ said[k][1] = "start"
                        /\ said[k][n] \in Terminals => n = Len(said[k])
                        /\ said[k][n] \in {"done"} => n = 3 /\ said[k][2] = "ready"
      BY DEF Transcript
    <2>1. said[k] \in Transcripts
      BY <1>1 DEF DaemonInv, MapTypes
    <2>2. said[k] \in Seq(Events)
      BY <2>1, TranscriptsAt
    <2>3. n \in 1 .. Len(said[k])
      BY <2>2, LenProperties
    <2> QED BY <2>1, <2>3, TranscriptsAt
  <1> QED BY <1>1, DaemonInvariant, PTL

(* done is written only to a client that has sent its commit: neither a    *)
(* late abort, nor a deadline, nor a commit meant for another attempt      *)
(* ends a request as done.                                                 *)
THEOREM DoneMeansCommittedHolds == Spec => []DoneMeansCommitted
  <1>1. ASSUME DaemonInv PROVE DoneMeansCommitted
    <2> SUFFICES ASSUME NEW k \in Keys, "done" \in ToSet(said[k])
                 PROVE  cl[k] \in {"committed", "done", "closed"}
      BY DEF DoneMeansCommitted
    <2>1. said[k] \in Transcripts
      BY <1>1 DEF DaemonInv, MapTypes
    <2>2. said[k] \in Seq(Events)
      BY <2>1, TranscriptsAt
    <2>3. PICK n \in 1 .. Len(said[k]) : said[k][n] = "done"
      BY <2>2, ToSetAt
    <2>4. said[k] = Done
      BY <2>1, <2>3, TranscriptsAt
    <2> QED BY <1>1, <2>4 DEF DaemonInv, ClientInv
  <1> QED BY <1>1, DaemonInvariant, PTL

(* Lanes and registry agree by ticket, and no key is in two places. *)
THEOREM LanesOwnTheirKeysHolds == Spec => []LanesOwnTheirKeys
  <1>1. ASSUME DaemonInv PROVE LanesOwnTheirKeys
    <2> USE <1>1
    <2>1. ASSUME NEW i \in Occupied, reg[lanes[i].key] # NoEntry
          PROVE  /\ reg[lanes[i].key].owner = lanes[i].gen
                 /\ reg[lanes[i].key].state = IF lanes[i].phase = "running" THEN "active" ELSE "ready"
      <3>1. lanes[i].key \in Keys
        BY DEF DaemonInv, LaneInv
      <3>2. reg[lanes[i].key].state \in {"active", "ready"}
        BY <2>1, <3>1 DEF DaemonInv, RegInv
      <3>3. PICK j \in Occupied :
              /\ lanes[j].key = lanes[i].key /\ reg[lanes[i].key].owner = lanes[j].gen
              /\ reg[lanes[i].key].state = IF lanes[j].phase = "running" THEN "active" ELSE "ready"
        BY <3>1, <3>2 DEF DaemonInv, RegInv
      <3>4. j = i
        BY <3>3 DEF DaemonInv, LaneInv
      <3> QED BY <3>3, <3>4
    <2>2. \A i \in Occupied :
            /\ lanes[i].key \notin ToSet(queue)
            /\ \A j \in Occupied \ {i} : lanes[j].key # lanes[i].key
      BY DEF DaemonInv, LaneInv
    <2>3. \A k \in Keys : reg[k].state \in {"active", "ready"} => k \in KeysOf(Occupied)
      BY DEF DaemonInv, RegInv, KeysOf
    <2>4. \A k \in Keys : reg[k].state = "queued" => k \in ToSet(queue)
      BY DEF DaemonInv, RegInv
    <2> QED BY <2>1, <2>2, <2>3, <2>4 DEF LanesOwnTheirKeys
  <1> QED BY <1>1, DaemonInvariant, PTL

(* All running lanes were asked for with the same sampling parameters. *)
THEOREM OneCohortHolds == Spec => []OneCohort
  <1>1. ASSUME DaemonInv PROVE OneCohort
    BY <1>1, PhasesAt DEF DaemonInv, LaneInv, OneCohort
  <1> QED BY <1>1, DaemonInvariant, PTL

(* The main loop and the sequential route run only when the batch is empty. *)
THEOREM BarrierWaitsHolds == Spec => []BarrierWaits
  <1>1. ASSUME DaemonInv PROVE BarrierWaits
    BY <1>1 DEF DaemonInv, MainInv, BarrierWaits, Starting
  <1> QED BY <1>1, DaemonInvariant, PTL

-----------------------------------------------------------------------------
(* An abort that comes first *)

\* Transcripts that end before a commit_ready.
Cut == {<< "ack" >>, << "error" >>, << "start", "cancelled" >>, << "start", "error" >>}

\* A command on the wire is one.
WireInv ==
  \A n \in 1 .. Len(wire) : wire[n].kind = "command" => req[wire[n].key].kind \in Commands

\* A generate in the inbox can be aborted: the registry knows it.
Known(k) == req[k].kind \in Commands \/ reg[k].state = "announced"

\* The sequential route has taken the request and said nothing yet.
Begun(k) == pc \in Starting /\ cur.key = k

\* The abort is in one of the planes at the place where the route will still look.
Held(k) ==
  /\ Begun(k)
  /\ \/ pc = "transfer" \/ single.decision = "abort"
     \/ pc = "check" /\ reg[k].abort = TRUE

\* The sequential route is about to see the abort.
Stopping(k) ==
  pc = "seq" /\ cur.key = k /\ cur.left > 0 /\ single.key = k /\ single.decision = "abort"

\* What became of a request with an early abort: it waits with its abort latched, it was
\* dropped or cut short, or it is about to be.
Fate(k) ==
  \/ k \in InInbox /\ (req[k].kind \in Commands \/ reg[k].abort = TRUE)
  \/ k \notin InInbox /\ ~ Begun(k) /\ said[k] \in {Silent} \cup Cut
  \/ Held(k)
  \/ Stopping(k)

EarlyInv ==
  /\ WireInv
  /\ \A k \in early : k \in Keys /\ cl[k] # "new" /\ k \notin OnWire
  /\ \A k \in InInbox \ swept : Known(k)
  /\ \A k \in early \ swept : Fate(k)
  /\ pc \in Starting => cur.left > 0 /\ ~ single.ready /\ single.decision # "commit"

(* What a cut transcript looks like, and how it comes about. *)
LEMMA CutAt ==
  /\ Silent \notin Cut /\ Started \notin Cut /\ Ready \notin Cut
  /\ Silent \o << "ack" >> \in Cut /\ Silent \o << "error" >> \in Cut
  /\ Silent \o << "start", "cancelled" >> \in Cut
  /\ Started \o << "cancelled" >> \in Cut /\ Started \o << "error" >> \in Cut
  /\ \A s \in Cut \cup {Silent, Started} : "ready" \notin ToSet(s)
  <1>1. \A e \in Events : Silent \o << e >> = << e >>
    BY ConcatNone DEF Silent, Events
  <1>2. \A e \in Events : Started \o << e >> = << "start", e >>
    BY ConcatPair DEF Started, Events
  <1>3. Silent \o << "start", "cancelled" >> = << "start", "cancelled" >>
    <2>1. << "start", "cancelled" >> \in Seq(Events)
      BY DEF Events
    <2> QED BY <2>1, ConcatEmptySeq DEF Silent
  <1>4. /\ Silent \o << "ack" >> \in Cut /\ Silent \o << "error" >> \in Cut
        /\ Silent \o << "start", "cancelled" >> \in Cut
    BY <1>1, <1>3 DEF Cut, Events
  <1>5. Started \o << "cancelled" >> \in Cut /\ Started \o << "error" >> \in Cut
    BY <1>2 DEF Cut, Events
  <1>6. Silent \notin Cut /\ Started \notin Cut /\ Ready \notin Cut
    BY DEF Silent, Started, Ready, Cut
  <1>7. ASSUME NEW s \in Cut \cup {Silent, Started}
        PROVE  "ready" \notin ToSet(s)
    <2>0. /\ \A e \in Events : << e >> \in Seq(Events) /\ Len(<< e >>) = 1 /\ << e >>[1] = e
          /\ \A e \in Events : /\ << "start", e >> \in Seq(Events) /\ Len(<< "start", e >>) = 2
                                /\ << "start", e >>[1] = "start" /\ << "start", e >>[2] = e
          /\ << >> \in Seq(Events) /\ Len(<< >>) = 0
      BY TuplesAt, EmptySeq DEF Events
    <2>1. \/ s = << >>
          \/ \E e \in Events \ {"ready"} : s = << e >> \/ s = << "start", e >>
      BY DEF Cut, Silent, Started, Events
    <2>2. s \in Seq(Events) /\ \A i \in 1 .. Len(s) : s[i] # "ready"
      <3>1. CASE s = << >>
        BY <2>0, <3>1
      <3>2. ASSUME NEW e \in Events \ {"ready"}, s = << e >>
            PROVE  s \in Seq(Events) /\ \A i \in 1 .. Len(s) : s[i] # "ready"
        <4>1. s \in Seq(Events) /\ Len(s) = 1 /\ s[1] = e
          BY <2>0, <3>2
        <4> QED BY <4>1
      <3>3. ASSUME NEW e \in Events \ {"ready"}, s = << "start", e >>
            PROVE  s \in Seq(Events) /\ \A i \in 1 .. Len(s) : s[i] # "ready"
        <4>1. s \in Seq(Events) /\ Len(s) = 2 /\ s[1] = "start" /\ s[2] = e
          BY <2>0, <3>3
        <4>2. \A i \in 1 .. Len(s) : i = 1 \/ i = 2
          BY <4>1
        <4> QED BY <4>1, <4>2
      <3> QED BY <2>1, <3>1, <3>2, <3>3
    <2> QED BY <2>2, ToSetAt
  <1> QED BY <1>4, <1>5, <1>6, <1>7

(* Every line on the wire has a key. *)
LEMMA WireKeys ==
  ASSUME QueueTypes
  PROVE  \A n \in 1 .. Len(wire) : wire[n] \in Lines /\ wire[n].key \in Keys
  <1>1. wire \in Seq(Lines)
    BY DEF QueueTypes
  <1>2. \A n \in 1 .. Len(wire) : wire[n] \in Lines
    BY <1>1, ElementOfSeq
  <1> QED BY <1>2 DEF Lines

(* A step that writes nothing on the wire: it keeps what is known of the inbox, and what    *)
(* became of the requests that were aborted early.                                          *)
LEMMA EarlyStill ==
  ASSUME DaemonInv, EarlyInv, UNCHANGED << wire, cl, req, early >>, swept \subseteq swept',
         \A k \in InInbox' \ swept' : k \in InInbox /\ (Known(k) => Known(k)'),
         \A k \in early \ swept' : Fate(k) => Fate(k)',
         pc' \in Starting => cur'.left > 0 /\ ~ single'.ready /\ single'.decision # "commit"
  PROVE  EarlyInv'
  <1>1. OnWire' = OnWire
    BY DEF OnWire
  <1>2. Starting' = Starting
    BY DEF Starting
  <1>3. WireInv'
    BY DEF EarlyInv, WireInv
  <1>4. \A k \in InInbox' \ swept' : Known(k)'
    BY DEF EarlyInv
  <1>5. \A k \in early' \ swept' : Fate(k)'
    BY DEF EarlyInv
  <1>6. \A k \in early' : k \in Keys /\ cl'[k] # "new" /\ k \notin OnWire'
    BY <1>1 DEF EarlyInv
  <1> QED BY <1>2, <1>3, <1>4, <1>5, <1>6 DEF EarlyInv

(* A step of the driver speaks to, and forgets, only keys it works on.  None of them was    *)
(* aborted early, none waits in the inbox.  If it clears the registry, it sweeps the inbox. *)
LEMMA DriverStill ==
  ASSUME DaemonInv, EarlyInv, pc \notin Starting \cup {"seq"}, pc' \notin Starting,
         UNCHANGED << wire, cl, req, early, chan, backlog >>, swept \subseteq swept',
         \A k \in Keys : k \notin KeysOf(Occupied) \cup ToSet(queue) =>
           said'[k] = said[k] /\ (reg'[k] = reg[k] \/ InInbox \subseteq swept')
  PROVE  EarlyInv'
  <1>1. InInbox' = InInbox /\ InInbox \subseteq Keys /\ \A k \in InInbox : said[k] = Silent
    BY InboxKeys DEF InInbox, DaemonInv, InboxInv
  <1>2. \A k \in Keys : said[k] \in {Silent} \cup Cut => k \notin KeysOf(Occupied) \cup ToSet(queue)
    BY BatchKeys, CutAt, TranscriptsDiffer
  <1>3. \A k \in InInbox' \ swept' : k \in InInbox /\ (Known(k) => Known(k)')
    BY <1>1, <1>2 DEF Known
  <1>4. ASSUME NEW k \in early \ swept', Fate(k)
        PROVE  Fate(k)'
    <2>1. k \in Keys /\ ~ Stopping(k) /\ ~ Held(k) /\ ~ Begun(k)'
      BY DEF Stopping, Held, Begun, EarlyInv, Starting
    <2>2. CASE k \in InInbox
      BY <1>1, <1>2, <1>4, <2>1, <2>2 DEF Fate
    <2>3. CASE k \notin InInbox
      BY <1>1, <1>2, <1>4, <2>1, <2>3 DEF Fate
    <2> QED BY <2>2, <2>3
  <1> QED BY <1>3, <1>4, EarlyStill

(* A message is taken from the inbox. *)
LEMMA TakenStill ==
  ASSUME DaemonInv, EarlyInv, pc \notin Starting \cup {"seq"}, UNCHANGED << wire, cl, req, early >>,
         Waiting # << >>, TakeMsg, NEW k, k = Head(Waiting), swept \subseteq swept',
         pc' \in Starting => cur'.key = k /\ cur'.left > 0 /\ ~ single'.ready /\ single'.decision # "commit",
         \A j \in Keys \ {k} : said'[j] = said[j] /\ (reg'[j] = reg[j] \/ InInbox \subseteq swept'),
         k \in early \ swept' /\ Fate(k) => Fate(k)'
  PROVE  EarlyInv'
  <1>1. k \in InInbox /\ k \in Keys /\ InInbox' = InInbox \ {k}
    BY TakeStep DEF DaemonInv
  <1>2. InInbox \subseteq Keys /\ \A j \in InInbox : said[j] = Silent
    BY InboxKeys DEF DaemonInv, InboxInv
  <1>3. \A j \in InInbox' \ swept' : j \in InInbox /\ (Known(j) => Known(j)')
    BY <1>1, <1>2 DEF Known
  <1>4. ASSUME NEW j \in early \ swept', Fate(j)
        PROVE  Fate(j)'
    <2>1. CASE j = k
      BY <1>4, <2>1
    <2>2. CASE j # k
      <3>1. /\ ~ Stopping(j) /\ ~ Held(j) /\ ~ Begun(j)' /\ said'[j] = said[j]
            /\ (j \in InInbox' <=> j \in InInbox) /\ (j \in InInbox => reg'[j] = reg[j])
        BY <1>1, <2>2 DEF Stopping, Held, Begun, EarlyInv, Starting
      <3> QED BY <1>4, <3>1 DEF Fate
    <2> QED BY <2>1, <2>2
  <1> QED BY <1>3, <1>4, EarlyStill

-----------------------------------------------------------------------------
(* The driver leaves the others alone *)

\* Only keys in lanes or in the queue are spoken to or forgotten; or the registry is cleared
\* and all that wait are swept.
Works ==
  /\ swept \subseteq swept'
  /\ \A k \in Keys : k \notin KeysOf(Occupied) \cup ToSet(queue) =>
       said'[k] = said[k] /\ (reg'[k] = reg[k] \/ InInbox \subseteq swept')

(* Nothing said, nothing forgotten. *)
LEMMA WorksSilently ==
  ASSUME UNCHANGED << said, reg, swept >>
  PROVE  Works
  BY DEF Works

(* A lane's key is told something, and the lane freed. *)
LEMMA ReleaseWorks ==
  ASSUME NEW i \in Occupied, NEW e, Say({lanes[i].key}, << e >>), Release({i}), swept' = swept
  PROVE  Works
  <1>1. lanes[i].key \in KeysOf(Occupied) /\ KeysOf({j \in {i} : owned(j)}) \subseteq KeysOf(Occupied)
    BY DEF KeysOf
  <1>2. reg' = batch_clear_terminal(reg, KeysOf({j \in {i} : owned(j)}))
    BY DEF Release
  <1>3. \A k \in Keys : k \notin KeysOf(Occupied) => reg'[k] = reg[k] /\ said'[k] = said[k]
    BY <1>1, <1>2 DEF batch_clear_terminal, Say
  <1> QED BY <1>3 DEF Works

(* A lane is cancelled. *)
LEMMA CancelWorks ==
  ASSUME DaemonInv, CancelLane
  PROVE  Works
  <1>1. Lowest(doomed) \in Occupied
    <2>1. doomed \in SUBSET LaneIds /\ doomed # {} /\ doomed \subseteq Occupied
      BY PhasesAt DEF DaemonInv, PhaseInv, CellTypes, CancelLane
    <2> QED BY <2>1, LowestIn
  <1>2. PICK i : i = Lowest(doomed)
    OBVIOUS
  <1>3. Say({lanes[i].key}, << "cancelled" >>) /\ Release({i}) /\ swept' = swept
    BY <1>2 DEF CancelLane
  <1> QED BY <1>1, <1>2, <1>3, ReleaseWorks

(* A lane is committed. *)
LEMMA CommitWorks ==
  ASSUME DaemonInv, CommitLane
  PROVE  Works
  <1>1. Lowest(agreed) \in Occupied
    <2>1. agreed \in SUBSET LaneIds /\ agreed # {} /\ agreed \subseteq Occupied
      BY PhasesAt DEF DaemonInv, PhaseInv, CellTypes, CommitLane
    <2> QED BY <2>1, LowestIn
  <1>2. PICK i : i = Lowest(agreed)
    OBVIOUS
  <1>3. \E e : Say({lanes[i].key}, << e >>)
    BY <1>2 DEF CommitLane
  <1>4. Release({i}) /\ swept' = swept
    BY <1>2 DEF CommitLane
  <1> QED BY <1>1, <1>2, <1>3, <1>4, ReleaseWorks

(* Who waits in the inbox. *)
LEMMA WaitingSet ==
  ASSUME QueueTypes
  PROVE  ToSet(Waiting) = InInbox
  <1>1. /\ backlog \in Seq(Keys) /\ chan \in Seq(Keys) /\ Len(backlog) \in Nat /\ Len(chan) \in Nat
        /\ Waiting \in Seq(Keys) /\ Len(Waiting) = Len(backlog) + Len(chan)
        /\ \A i \in 1 .. Len(Waiting) :
             Waiting[i] = IF i <= Len(backlog) THEN backlog[i] ELSE chan[i - Len(backlog)]
    BY ConcatProperties, LenProperties DEF QueueTypes, Waiting
  <1>2. ASSUME NEW e PROVE e \in ToSet(Waiting) <=> e \in InInbox
    <2>1. /\ e \in ToSet(Waiting) <=> \E i \in 1 .. Len(Waiting) : Waiting[i] = e
          /\ e \in ToSet(backlog) <=> \E i \in 1 .. Len(backlog) : backlog[i] = e
          /\ e \in ToSet(chan) <=> \E i \in 1 .. Len(chan) : chan[i] = e
      BY <1>1, ToSetAt
    <2>2. ASSUME NEW i \in 1 .. Len(Waiting), Waiting[i] = e PROVE e \in InInbox
      <3>1. CASE i <= Len(backlog)
        BY <1>1, <2>1, <2>2, <3>1 DEF InInbox
      <3>2. CASE ~ i <= Len(backlog)
        <4>1. i - Len(backlog) \in 1 .. Len(chan)
          BY <1>1, <3>2
        <4> QED BY <1>1, <2>1, <2>2, <3>2, <4>1 DEF InInbox
      <3> QED BY <3>1, <3>2
    <2>3. ASSUME NEW i \in 1 .. Len(backlog), backlog[i] = e PROVE e \in ToSet(Waiting)
      <3>1. i \in 1 .. Len(Waiting) /\ i <= Len(backlog)
        BY <1>1
      <3> QED BY <1>1, <2>1, <2>3, <3>1
    <2>4. ASSUME NEW i \in 1 .. Len(chan), chan[i] = e PROVE e \in ToSet(Waiting)
      <3>1. /\ i + Len(backlog) \in 1 .. Len(Waiting) /\ ~ i + Len(backlog) <= Len(backlog)
            /\ (i + Len(backlog)) - Len(backlog) = i
        BY <1>1
      <3> QED BY <1>1, <2>1, <2>4, <3>1
    <2> QED BY <2>1, <2>2, <2>3, <2>4 DEF InInbox
  <1> QED BY <1>2

(* Everything the driver works on is answered with an error. *)
LEMMA FailAllWorks ==
  ASSUME DaemonInv, FailAll
  PROVE  Works
  <1> DEFINE K == KeysOf(Occupied) \cup ToSet(queue)
  <1>1. Say(K, << "error" >>)
    BY DEF FailAll
  <1>2. \A k \in Keys : k \notin K => said'[k] = said[k]
    BY <1>1 DEF Say
  <1>3. CASE reg' = batch_clear_terminal(reg, K) /\ swept' = swept
    BY <1>2, <1>3 DEF Works, batch_clear_terminal
  <1>4. CASE ClearAll
    BY <1>2, <1>4, WaitingSet DEF Works, ClearAll, DaemonInv
  <1> QED BY <1>3, <1>4 DEF FailAll

(* The queue is swept. *)
LEMMA SweepWorks ==
  ASSUME Sweep
  PROVE  Works
  <1>1. PICK Q : Q = {k \in ToSet(queue) : batch_check_abort(k)}
    OBVIOUS
  <1>2. Say(Q, << "cancelled" >>) /\ reg' = batch_clear_terminal(reg, Q) /\ swept' = swept
    BY <1>1 DEF Sweep
  <1>3. \A k \in Keys : k \notin ToSet(queue) => reg'[k] = reg[k] /\ said'[k] = said[k]
    BY <1>1, <1>2 DEF batch_clear_terminal, Say
  <1> QED BY <1>2, <1>3 DEF Works

(* A lane is filled. *)
LEMMA AssignWorks ==
  ASSUME DaemonInv, Assign
  PROVE  Works
  <1>1. PICK k : k = Head(queue)
    OBVIOUS
  <1>2. queue \in Seq(Keys) /\ Distinct(queue) /\ reg \in [Keys -> Entries] /\ gen \in Nat
    BY DEF DaemonInv, QueueTypes, MapTypes, CellTypes, LaneInv
  <1>3. k \in ToSet(queue) /\ k \in Keys
    BY <1>1, <1>2, TailSet, TailAt DEF Assign
  <1>4. PICK r : r = batch_transition_to_queued(reg, k)
    OBVIOUS
  <1>5. r \in [Keys -> Entries] /\ \A j \in Keys \ {k} : r[j] = reg[j]
    BY <1>2, <1>3, <1>4, QueuedAt
  <1>6. reg' = batch_bind_active(r, k, gen) /\ said' = said /\ swept' = swept
    BY <1>1, <1>4 DEF Assign
  <1>7. \A j \in Keys \ {k} : reg'[j] = reg[j]
    BY <1>2, <1>3, <1>5, <1>6, BoundAt
  <1> QED BY <1>3, <1>6, <1>7 DEF Works

(* A lane ends inside a think span. *)
LEMMA OpenThinkWorks ==
  ASSUME DaemonInv, OpenThink
  PROVE  Works
  <1>1. PICK i \in In("running") : Say({lanes[i].key}, << "error" >>) /\ Release({i})
    BY DEF OpenThink
  <1>2. i \in Occupied /\ swept' = swept
    BY PhasesAt DEF OpenThink
  <1> QED BY <1>1, <1>2, ReleaseWorks

(* The handshake begins. *)
LEMMA PublishWorks ==
  ASSUME DaemonInv, Publish, pc = "emit"
  PROVE  Works
  <1>1. KeysOf(ended) \subseteq KeysOf(Occupied)
    BY PhasesAt DEF DaemonInv, PhaseInv, KeysOf
  <1>2. Say(KeysOf(ended), << "ready" >>) /\ swept' = swept
    BY DEF Publish
  <1>3. \A k \in Keys : k \notin KeysOf(ended) => reg'[k] = reg[k]
    BY DEF Publish
  <1>4. \A k \in Keys : k \notin KeysOf(Occupied) => said'[k] = said[k]
    BY <1>1, <1>2 DEF Say
  <1> QED BY <1>1, <1>2, <1>3, <1>4 DEF Works

(* Every step of the driver but the reading of its inbox. *)
LEMMA DriverEarly ==
  ASSUME DaemonInv, EarlyInv, Poll \/ Settle \/ Cull \/ FillLanes \/ DecodeStep \/ Emit
  PROVE  EarlyInv'
  <1>1. pc \notin Starting \cup {"seq"} /\ UNCHANGED << wire, cl, req, early, chan, backlog >>
    BY DEF Poll, Settle, Cull, FillLanes, DecodeStep, Emit, inbox, clients, Starting
  <1>2. Works
    <2>1. CASE Poll
      BY <2>1, WorksSilently DEF Poll, control
    <2>2. CASE Settle
      BY <2>2, CancelWorks, CommitWorks, SweepWorks, FailAllWorks DEF Settle
    <2>3. CASE Cull
      BY <2>3, CancelWorks, FailAllWorks, WorksSilently DEF Cull, control
    <2>4. CASE FillLanes
      BY <2>4, AssignWorks, FailAllWorks, WorksSilently DEF FillLanes, Assigned
    <2>5. CASE DecodeStep
      BY <2>5, OpenThinkWorks, FailAllWorks, WorksSilently DEF DecodeStep, Forward, control
    <2>6. CASE Emit
      BY <2>6, CancelWorks, PublishWorks, FailAllWorks, WorksSilently DEF Emit, control
    <2> QED BY <2>1, <2>2, <2>3, <2>4, <2>5, <2>6
  <1>3. pc' \notin Starting
    <2>0. \A place \in {"settle", "cull", "drain", "poll", "step", "emit", "sample", "outer"} :
            place \notin Starting
      BY DEF Starting
    <2>1. CASE Poll
      BY <2>0, <2>1 DEF Poll, Goto
    <2>2. CASE Settle
      BY <1>1, <2>0, <2>2 DEF Settle, CancelLane, CommitLane, Sweep, FailAll, LeaveDriver, Goto
    <2>3. CASE Cull
      BY <1>1, <2>0, <2>3 DEF Cull, CancelLane, FailAll, LeaveDriver, Goto
    <2>4. CASE FillLanes
      BY <1>1, <2>0, <2>4 DEF FillLanes, Assign, Assigned, FailAll, LeaveDriver, Goto
    <2>5. CASE DecodeStep
      BY <1>1, <2>0, <2>5 DEF DecodeStep, Forward, OpenThink, FailAll, LeaveDriver, Goto
    <2>6. CASE Emit
      BY <1>1, <2>0, <2>6 DEF Emit, CancelLane, Publish, FailAll, LeaveDriver, Goto
    <2> QED BY <2>1, <2>2, <2>3, <2>4, <2>5, <2>6
  <1> QED BY <1>1, <1>2, <1>3, DriverStill DEF Works

-----------------------------------------------------------------------------
(* The main thread takes a request *)

(* What is left of an early abort once its request is taken: it was latched, or the request *)
(* is a command.                                                                            *)
LEMMA TakenFate ==
  ASSUME DaemonInv, NEW k \in InInbox, Fate(k)
  PROVE  req[k].kind \in Commands \/ batch_check_abort(k)
  <1>1. said[k] = Silent
    BY DEF DaemonInv, InboxInv
  <1>2. ~ Stopping(k) /\ ~ Held(k)
    BY <1>1, TranscriptsDiffer DEF Stopping, Held, Begun, Starting, DaemonInv, MainInv
  <1> QED BY <1>2 DEF Fate, batch_check_abort

(* One request is taken by the main loop. *)
LEMMA OuterEarly ==
  ASSUME DaemonInv, EarlyInv, Outer
  PROVE  EarlyInv'
  <1>1. PICK k : k = Head(Waiting)
    OBVIOUS
  <1>2. /\ pc = "outer" /\ Waiting # << >> /\ TakeMsg /\ UNCHANGED << wire, cl, req, early >>
        /\ \/ Load(k) \/ Reset(k) \/ Unload(k) \/ Refuse(k) \/ CancelEarly(k) \/ RefuseLong(k)
           \/ StartBatch(k) \/ StartSequential(k)
    BY <1>1 DEF Outer, clients
  <1>3. /\ k \in InInbox /\ k \in Keys /\ InInbox' = InInbox \ {k}
        /\ reg \in [Keys -> Entries] /\ said \in [Keys -> Transcripts]
        /\ pc \notin Starting \cup {"seq"} /\ "poll" \notin Starting
    BY <1>1, <1>2, TakeStep DEF DaemonInv, MapTypes, Starting
  <1>4. said[k] = Silent /\ req[k] \in Requests[k]
    BY <1>3 DEF DaemonInv, InboxInv
  <1>5. \A j \in Keys \ {k} : said'[j] = said[j]
    BY <1>2 DEF Load, Reset, Unload, Refuse, CancelEarly, RefuseLong, StartBatch, StartSequential, Say
  <1>6. /\ swept \subseteq swept'
        /\ \A j \in Keys \ {k} : reg'[j] = reg[j] \/ InInbox \subseteq swept'
    <2>1. \/ swept' = swept /\ reg' = reg
          \/ swept' = swept /\ reg' = batch_clear_terminal(reg, {k})
          \/ swept' = swept /\ reg' = batch_transition_to_queued(reg, k)
          \/ ClearAll
      BY <1>2 DEF Load, Reset, Unload, Refuse, CancelEarly, RefuseLong, StartBatch, StartSequential,
                  control
    <2>2. CASE swept' = swept /\ reg' = reg
      BY <2>2
    <2>3. CASE swept' = swept /\ reg' = batch_clear_terminal(reg, {k})
      BY <1>3, <2>3, ClearedAt
    <2>4. CASE swept' = swept /\ reg' = batch_transition_to_queued(reg, k)
      BY <1>3, <2>4, QueuedAt
    <2>5. CASE ClearAll
      BY <2>5, WaitingSet DEF ClearAll, DaemonInv
    <2> QED BY <2>1, <2>2, <2>3, <2>4, <2>5
  <1>7. ASSUME StartSequential(k)
        PROVE  /\ pc' = "check" /\ cur'.key = k /\ cur'.left > 0 /\ UNCHANGED << reg, said >>
               /\ ~ single'.ready /\ single'.decision # "commit" /\ req[k].kind \notin Commands
    <2>1. /\ cur' = [key |-> k, left |-> req[k].work] /\ single' = activate_terminal_control(k)
          /\ pc' = "check" /\ UNCHANGED << reg, said >>
      BY <1>7 DEF StartSequential, Goto
    <2>2. req[k].work > 0
      BY <1>3, <1>4, DaemonAssumption
    <2>3. req[k].kind \notin Commands
      BY <1>7 DEF StartSequential, Commands
    <2> QED BY <2>1, <2>2, <2>3 DEF activate_terminal_control, Vacant
  <1>8. ~ StartSequential(k) => pc' \notin Starting
    BY <1>2, <1>3 DEF Load, Reset, Unload, Refuse, CancelEarly, RefuseLong, StartBatch, Goto
  <1>9. ASSUME Fate(k)
        PROVE  Fate(k)'
    <2>0. req[k].kind \in Commands \/ batch_check_abort(k)
      BY <1>3, <1>9, TakenFate
    <2>1. CASE ~ StartSequential(k) /\ said'[k] \in {Silent} \cup Cut
      BY <1>3, <1>8, <2>1 DEF Fate, Begun, Starting
    <2>2. CASE Load(k) \/ Reset(k) \/ Unload(k) \/ Refuse(k) \/ CancelEarly(k)
      <3>1. \E evs \in {<< "ack" >>, << "error" >>, << "start", "cancelled" >>} : said'[k] = said[k] \o evs
        BY <1>3, <2>2 DEF Load, Reset, Unload, Refuse, CancelEarly, Say
      <3>2. ~ StartSequential(k)
        BY <2>0, <2>2 DEF Load, Reset, Unload, Refuse, CancelEarly, StartSequential, Commands, Eligible
      <3> QED BY <1>4, <2>1, <3>1, <3>2, CutAt
    <2>3. CASE RefuseLong(k)
      BY <1>4, <2>1, <2>3 DEF RefuseLong, StartSequential
    <2>4. CASE StartBatch(k)
      BY <2>0, <2>4 DEF StartBatch, Commands
    <2>6. CASE StartSequential(k)
      <3>1. reg[k].abort = TRUE
        <4>1. batch_check_abort(k)
          BY <1>7, <2>0, <2>6
        <4>2. reg[k].abort \in BOOLEAN
          BY <1>3 DEF Entries
        <4> QED BY <4>1, <4>2 DEF batch_check_abort
      <3> QED BY <1>7, <2>6, <3>1 DEF Fate, Held, Begun, Starting
    <2> QED BY <1>2, <2>2, <2>3, <2>4, <2>6
  <1>10. pc' \in Starting => cur'.key = k /\ cur'.left > 0 /\ ~ single'.ready /\ single'.decision # "commit"
    BY <1>7, <1>8
  <1> QED BY <1>1, <1>2, <1>3, <1>5, <1>6, <1>9, <1>10, TakenStill

(* A barrier waits where it was; a held-back think request loses its entry. *)
LEMMA BarrierEarly ==
  ASSUME DaemonInv, EarlyInv, pc = "drain", Waiting # << >>, NEW k, k = Head(Waiting), Barrier(k),
         UNCHANGED << wire, cl, req, early >>
  PROVE  EarlyInv'
  <1>1. /\ reg' = barrier_registry(k) /\ UNCHANGED said
        /\ k \in Keys /\ InInbox' = InInbox /\ k \in InInbox
        /\ reg \in [Keys -> Entries] /\ early \subseteq Keys /\ InInbox \subseteq Keys
    BY BarrierInbox, InboxKeys DEF Barrier, DaemonInv, MapTypes, EarlyInv
  <1>2. /\ \A j \in Keys \ {k} : reg'[j] = reg[j]
        /\ req[k].kind \in Commands => reg'[k] = reg[k]
        /\ reg[k] # NoEntry /\ req[k].kind # "think" => reg'[k] = reg[k]
    <2>1. CASE req[k].kind \in Commands
      BY <1>1, <2>1, BarrierRegistryAt DEF Commands
    <2>2. CASE req[k].kind = "think"
      <3>1. reg' = batch_clear_terminal(reg, {k})
        BY <1>1, <2>2, BarrierRegistryAt
      <3> QED BY <1>1, <2>2, <3>1, ClearedAt DEF Commands
    <2>3. CASE req[k].kind \notin Commands \cup {"think"}
      <3>1. reg' = batch_announce_terminal(reg, k)
        BY <1>1, <2>3, BarrierRegistryAt
      <3> QED BY <1>1, <2>3, <3>1, AnnounceAt
    <2> QED BY <2>1, <2>2, <2>3
  <1>3. swept \subseteq swept' /\ (req[k].kind = "think" => k \in swept')
    BY DEF Barrier
  <1>4. pc' \notin Starting
    BY DEF Barrier, LeaveDriver, Goto, Starting
  <1>5. \A j \in InInbox' \ swept' : j \in InInbox /\ (Known(j) => Known(j)')
    BY <1>1, <1>2, <1>3, EntriesAt DEF Known
  <1>6. ASSUME NEW j \in early \ swept', Fate(j)
        PROVE  Fate(j)'
    <2>1. CASE j = k
      <3>1. req[k].kind \in Commands \/ batch_check_abort(k)
        BY <1>1, <1>6, <2>1, TakenFate
      <3>2. req[k].kind \in Commands
        BY <3>1 DEF Barrier
      <3> QED BY <1>1, <2>1, <3>2 DEF Fate
    <2>2. CASE j # k
      <3>1. ~ Stopping(j) /\ ~ Held(j) /\ ~ Begun(j)' /\ reg'[j] = reg[j] /\ said' = said
        BY <1>1, <1>2, <1>4, <2>2 DEF Stopping, Held, Begun, Starting
      <3> QED BY <1>1, <1>6, <3>1 DEF Fate
    <2> QED BY <2>1, <2>2
  <1> QED BY <1>3, <1>4, <1>5, <1>6, EarlyStill

(* One request is taken, or held back, while lanes run. *)
LEMMA DrainEarly ==
  ASSUME DaemonInv, EarlyInv, Drain
  PROVE  EarlyInv'
  <1>0. /\ pc = "drain" /\ UNCHANGED << wire, cl, req, early >> /\ pc \notin Starting \cup {"seq"}
        /\ "assign" \notin Starting
    BY DEF Drain, clients, Starting
  <1>1. CASE Waiting = << >>
    BY <1>0, <1>1, WorksSilently, DriverStill DEF Drain, Works, inbox, control, Goto
  <1>2. ASSUME NEW k, k = Head(Waiting), Waiting # << >>, TakeCancelled(k) \/ TakeLong(k) \/ TakeBatch(k)
        PROVE  EarlyInv'
    <2>0. TakeMsg /\ pc' = pc /\ swept' = swept
      BY <1>2 DEF TakeCancelled, TakeLong, TakeBatch
    <2>1. /\ k \in InInbox /\ k \in Keys /\ InInbox' = InInbox \ {k}
          /\ reg \in [Keys -> Entries] /\ said \in [Keys -> Transcripts]
      BY <1>2, <2>0, TakeStep DEF DaemonInv, MapTypes
    <2>2. said[k] = Silent
      BY <2>1 DEF DaemonInv, InboxInv
    <2>3. \A j \in Keys \ {k} : said'[j] = said[j]
      BY <1>2 DEF TakeCancelled, TakeLong, TakeBatch, Say
    <2>4. \A j \in Keys \ {k} : reg'[j] = reg[j]
      <3>1. CASE reg' = batch_clear_terminal(reg, {k})
        BY <2>1, <3>1, ClearedAt
      <3>2. CASE reg' = batch_transition_to_queued(batch_announce_terminal(reg, k), k)
        <4>1. PICK r : r = batch_announce_terminal(reg, k)
          OBVIOUS
        <4>2. r \in [Keys -> Entries] /\ \A j \in Keys \ {k} : r[j] = reg[j]
          BY <2>1, <4>1, AnnounceAt
        <4> QED BY <2>1, <3>2, <4>1, <4>2, QueuedAt
      <3> QED BY <1>2, <3>1, <3>2 DEF TakeCancelled, TakeLong, TakeBatch
    <2>5. ASSUME Fate(k)
          PROVE  Fate(k)'
      <3>0. req[k].kind \in Commands \/ batch_check_abort(k)
        BY <2>1, <2>5, TakenFate
      <3>9. ~ Begun(k)'
        BY <1>0, <2>0 DEF Begun, Starting
      <3>1. CASE TakeCancelled(k)
        <4>1. said'[k] = said[k] \o << "start", "cancelled" >>
          BY <2>1, <3>1 DEF TakeCancelled, Say
        <4> QED BY <2>1, <2>2, <3>9, <4>1, CutAt DEF Fate
      <3>2. CASE TakeLong(k)
        BY <2>1, <2>2, <3>2, <3>9 DEF TakeLong, Fate
      <3>3. CASE TakeBatch(k)
        BY <3>0, <3>3 DEF TakeBatch, Commands
      <3> QED BY <1>2, <3>1, <3>2, <3>3
    <2> QED BY <1>0, <1>2, <2>0, <2>3, <2>4, <2>5, TakenStill
  <1>3. CASE Waiting # << >>
    <2>1. PICK k : k = Head(Waiting)
      OBVIOUS
    <2>2. TakeCancelled(k) \/ TakeLong(k) \/ TakeBatch(k) \/ Barrier(k)
      BY <1>3, <2>1 DEF Drain
    <2>3. CASE Barrier(k)
      BY <1>0, <1>3, <2>1, <2>3, BarrierEarly
    <2> QED BY <1>2, <1>3, <2>1, <2>2, <2>3
  <1> QED BY <1>1, <1>3

-----------------------------------------------------------------------------
(* The sequential route, the reader and the clients *)

(* The route has taken a key out of the inbox, and works on no other. *)
LEMMA RouteAway ==
  ASSUME DaemonInv, pc \in Starting \cup {"seq", "seq_wait"}
  PROVE  cur.key \in Keys /\ cur.key \notin InInbox
  <1>1. \A j \in InInbox : said[j] = Silent
    BY DEF DaemonInv, InboxInv
  <1> QED BY <1>1, TranscriptsDiffer DEF DaemonInv, MainInv, Starting

(* What the route does to its key leaves the others as they are. *)
LEMMA RouteStill ==
  ASSUME DaemonInv, EarlyInv, pc \in Starting \cup {"seq", "seq_wait"},
         UNCHANGED << wire, cl, req, early, swept, chan, backlog >>,
         pc' = "outer" \/ cur'.key = cur.key,
         \A j \in Keys \ {cur.key} : said'[j] = said[j] /\ reg'[j] = reg[j],
         \A c : c = cur.key /\ Fate(c) => Fate(c)',
         pc' \in Starting => cur'.left > 0 /\ ~ single'.ready /\ single'.decision # "commit"
  PROVE  EarlyInv'
  <1>1. /\ InInbox' = InInbox /\ cur.key \notin InInbox /\ InInbox \subseteq Keys
        /\ cur.key \in Keys /\ early \subseteq Keys
    BY RouteAway, InboxKeys DEF InInbox, DaemonInv, EarlyInv
  <1>2. \A j \in InInbox' \ swept' : j \in InInbox /\ (Known(j) => Known(j)')
    BY <1>1 DEF Known
  <1>3. ASSUME NEW j \in early \ swept', Fate(j)
        PROVE  Fate(j)'
    <2>1. CASE j = cur.key
      BY <1>3, <2>1
    <2>2. CASE j # cur.key
      <3>1. ~ Stopping(j) /\ ~ Held(j) /\ ~ Begun(j)' /\ said'[j] = said[j] /\ reg'[j] = reg[j]
        BY <1>1, <2>2 DEF Stopping, Held, Begun, Starting
      <3> QED BY <1>1, <1>3, <3>1 DEF Fate
    <2> QED BY <2>1, <2>2
  <1> QED BY <1>2, <1>3, EarlyStill

(* A latched abort is found, or it is in the singleton. *)
LEMMA CheckLatchEarly ==
  ASSUME DaemonInv, EarlyInv, CheckLatch
  PROVE  EarlyInv'
  <1>1. /\ pc = "check" /\ pc \in Starting /\ UNCHANGED << wire, cl, req, early, swept, chan, backlog >>
        /\ UNCHANGED << reg, single, cur, said >>
        /\ pc' = IF batch_check_abort(cur.key) THEN "transfer" ELSE "clear"
    BY DEF CheckLatch, Goto, inbox, control, clients, Starting
  <1>2. cur.left > 0 /\ ~ single.ready /\ single.decision # "commit"
    BY <1>1 DEF EarlyInv
  <1>3. cur.key \notin InInbox
    BY <1>1, RouteAway
  <1>4. ASSUME NEW c, c = cur.key, Fate(c) PROVE Fate(c)'
    <2>1. Held(c)
      BY <1>1, <1>3, <1>4 DEF Fate, Begun, Stopping
    <2>2. Held(c)'
      BY <1>1, <1>4, <2>1 DEF Held, Begun, Starting, batch_check_abort
    <2> QED BY <2>2 DEF Fate
  <1> QED BY <1>1, <1>2, <1>4, RouteStill

(* Wherever the abort was, the sequential route starts with it. *)
LEMMA TransferEarly ==
  ASSUME DaemonInv, EarlyInv, Transfer
  PROVE  EarlyInv'
  <1>1. /\ pc \in {"clear", "transfer"} /\ pc \in Starting
        /\ UNCHANGED << wire, cl, req, early, swept, chan, backlog, cur >>
        /\ pc' = "seq" /\ reg' = batch_clear_terminal(reg, {cur.key})
        /\ single' = transfer_abort(single, cur.key) /\ Say({cur.key}, << "start" >>)
    BY DEF Transfer, Goto, inbox, clients, Starting
  <1>2. /\ cur.key \in Keys /\ cur.key \notin InInbox /\ single.key = cur.key
        /\ cur.left > 0
    BY <1>1, RouteAway DEF DaemonInv, MainInv, EarlyInv
  <1>3. \A j \in Keys \ {cur.key} : said'[j] = said[j] /\ reg'[j] = reg[j]
    BY <1>1 DEF Say, batch_clear_terminal
  <1>4. ASSUME NEW c, c = cur.key, Fate(c) PROVE Fate(c)'
    <2>1. pc = "transfer" \/ single.decision = "abort"
      BY <1>1, <1>2, <1>4 DEF Fate, Held, Begun, Stopping
    <2>2. single'.key = c /\ single'.decision = "abort"
      <3>1. CASE pc = "transfer"
        BY <1>1, <1>4, <3>1 DEF transfer_abort, activate_terminal_control, Vacant
      <3>2. CASE pc # "transfer"
        BY <1>1, <1>2, <1>4, <2>1, <3>2 DEF transfer_abort
      <3> QED BY <3>1, <3>2
    <2> QED BY <1>1, <1>2, <1>4, <2>2 DEF Fate, Stopping
  <1>5. pc' \notin Starting
    BY <1>1 DEF Starting
  <1> QED BY <1>1, <1>3, <1>4, <1>5, RouteStill

(* The sequential route sees the abort before its next token. *)
LEMMA SeqStepEarly ==
  ASSUME DaemonInv, EarlyInv, SeqStep
  PROVE  EarlyInv'
  <1>1. /\ pc = "seq" /\ UNCHANGED << wire, cl, req, early, swept, reg, chan, backlog >>
    BY DEF SeqStep, inbox, clients
  <1>2. /\ cur.key \in Keys /\ said[cur.key] = Started /\ cur.left \in Int
        /\ said \in [Keys -> Transcripts] /\ cur.key \notin InInbox
        /\ cur \in [key : Keys \cup {NoKey}, left : Int]
    BY <1>1, RouteAway DEF DaemonInv, MainInv, MapTypes, CellTypes
  <1>3. pc' \in {"outer", "seq", "seq_wait"} /\ (pc' = "outer" \/ cur'.key = cur.key)
    BY <1>1, <1>2 DEF SeqStep, LeaveSequential, Goto
  <1>4. \A j \in Keys \ {cur.key} : said'[j] = said[j]
    BY DEF SeqStep, Say
  <1>5. pc' \notin Starting
    BY <1>3 DEF Starting
  <1>6. ASSUME NEW c, c = cur.key, Fate(c) PROVE Fate(c)'
    <2>1. Stopping(c)
      BY <1>1, <1>2, <1>6, CutAt, TranscriptsDiffer DEF Fate, Held, Begun, Starting
    <2>2. check_abort(c) /\ cur.left # 0
      BY <1>2, <2>1 DEF Stopping, check_abort
    <2>3. said'[c] = said[c] \o << "cancelled" >>
      BY <1>2, <1>6, <2>2 DEF SeqStep, Say
    <2>4. said'[c] \in Cut
      BY <1>2, <1>6, <2>3, CutAt
    <2>5. c \notin InInbox'
      BY <1>1, <1>2, <1>6 DEF InInbox
    <2> QED BY <1>5, <2>4, <2>5 DEF Fate, Begun, Starting
  <1> QED BY <1>1, <1>3, <1>4, <1>5, <1>6, RouteStill

(* Whoever is at the handshake was not aborted early. *)
LEMMA SeqDecideEarly ==
  ASSUME DaemonInv, EarlyInv, SeqDecide
  PROVE  EarlyInv'
  <1>1. /\ pc = "seq_wait" /\ UNCHANGED << wire, cl, req, early, swept, reg, chan, backlog >>
        /\ pc' = "outer"
    BY DEF SeqDecide, inbox, clients, LeaveSequential, Goto
  <1>2. said[cur.key] = Ready /\ cur.key \notin InInbox
    BY <1>1, RouteAway DEF DaemonInv, MainInv
  <1>3. \A j \in Keys \ {cur.key} : said'[j] = said[j]
    BY DEF SeqDecide, Say
  <1>4. \A c : c = cur.key => ~ Fate(c)
    BY <1>1, <1>2, CutAt, TranscriptsDiffer DEF Fate, Held, Begun, Starting, Stopping
  <1>5. pc' \notin Starting
    BY <1>1 DEF Starting
  <1> QED BY <1>1, <1>3, <1>4, <1>5, RouteStill

(* The lines that follow the one that is read. *)
LEMMA WireRead ==
  ASSUME DaemonInv, EarlyInv, wire # << >>, wire' = Tail(wire), UNCHANGED req
  PROVE  WireInv'
  <1>1. \A n \in 1 .. Len(wire') : wire'[n] = wire[n + 1] /\ n + 1 \in 1 .. Len(wire)
    BY WireTail DEF DaemonInv
  <1> QED BY <1>1 DEF EarlyInv, WireInv

(* An abort finds the singleton activated for its request: the first decision stands. *)
LEMMA ReadControlEarly ==
  ASSUME DaemonInv, EarlyInv, Read, Head(wire).kind \in {"abort", "commit"}
  PROVE  EarlyInv'
  <1>1. PICK k, kind : k = Head(wire).key /\ kind = Head(wire).kind
    OBVIOUS
  <1>2. /\ wire # << >> /\ wire' = Tail(wire) /\ kind \in {"abort", "commit"}
        /\ single' = apply_terminal_control(kind, k)
        /\ early' = IF kind = "abort" /\ pc \in Starting /\ cur.key = k THEN early \cup {k} ELSE early
        /\ UNCHANGED << reg, chan, req, backlog, pc, cur, said, cl, swept >>
    BY <1>1 DEF Read, clients
  <1>3. OnWire' = OnWire /\ InInbox' = InInbox
    <2>1. kind \notin Asks
      BY <1>2 DEF Asks
    <2> QED BY <1>1, <1>2, <2>1, WireTail DEF DaemonInv, InInbox
  <1>4. single \in [key : Keys \cup {NoKey}, ready : BOOLEAN, decision : {"none", "abort", "commit"}]
    BY DEF DaemonInv, CellTypes
  <1>5. /\ single'.key = single.key /\ single'.ready = single.ready
        /\ single.decision = "abort" => single'.decision = "abort"
        /\ single'.decision = "commit" => single.decision = "commit" \/ single.ready
        /\ kind = "abort" /\ single.key = k /\ single.decision # "commit" => single'.decision = "abort"
    BY <1>2, <1>4 DEF apply_terminal_control
  <1>6. pc' \in Starting => cur'.left > 0 /\ ~ single'.ready /\ single'.decision # "commit"
    BY <1>2, <1>5 DEF EarlyInv
  <1>7. \A j \in InInbox : Known(j) => Known(j)'
    BY <1>2 DEF Known
  <1>8. \A j : Fate(j) => Fate(j)'
    BY <1>2, <1>3, <1>5 DEF Fate, Held, Begun, Stopping
  <1>9. ASSUME kind = "abort", pc \in Starting, cur.key = k
        PROVE  Fate(k)' /\ k \in Keys /\ cl[k] # "new" /\ k \notin OnWire
    <2>1. k \in Keys /\ cl[k] # "new" /\ k \notin OnWire /\ single.key = k
      BY <1>9 DEF DaemonInv, MainInv, Starting
    <2>2. single'.decision = "abort"
      BY <1>5, <1>9, <2>1 DEF EarlyInv
    <2>3. Held(k)'
      BY <1>2, <1>9, <2>2 DEF Held, Begun, Starting
    <2> QED BY <2>1, <2>3 DEF Fate
  <1>10. \A j \in early' : j \in Keys /\ cl'[j] # "new" /\ j \notin OnWire'
    BY <1>2, <1>3, <1>9 DEF EarlyInv
  <1>11. \A j \in early' \ swept' : Fate(j)'
    BY <1>2, <1>8, <1>9 DEF EarlyInv
  <1>12. WireInv'
    BY <1>2, WireRead
  <1>13. \A j \in InInbox' \ swept' : Known(j)'
    BY <1>2, <1>3, <1>7 DEF EarlyInv
  <1>14. Starting' = Starting
    BY DEF Starting
  <1> QED BY <1>6, <1>10, <1>11, <1>12, <1>13, <1>14 DEF EarlyInv

(* An abort finds the request that waits known to the registry, and is latched. *)
LEMMA LatchEarly ==
  ASSUME DaemonInv, EarlyInv, Latch
  PROVE  EarlyInv'
  <1>1. PICK k, kind : k = half.key /\ kind = half.kind
    OBVIOUS
  <1>2. /\ reg' = batch_apply_terminal_control(kind, k)
        /\ early' = IF kind = "abort" /\ k \in InInbox THEN early \cup {k} ELSE early
        /\ UNCHANGED << wire, single, chan, req, backlog, pc, cur, said, cl, swept >>
    BY <1>1, WaitingSet DEF Latch, inbox, clients, DaemonInv
  <1>3. /\ k \in Keys /\ kind \in {"abort", "commit"} /\ reg \in [Keys -> Entries]
        /\ OnWire' = OnWire /\ InInbox' = InInbox /\ InInbox \subseteq Keys /\ Starting' = Starting
    BY <1>1, <1>2, InboxKeys
       DEF DaemonInv, ClientInv, Halves, Latch, NoLine, Line, MapTypes, OnWire, InInbox, Starting
  <1>4. /\ \A j \in Keys : reg'[j].state = reg[j].state
        /\ \A j \in Keys : reg[j].abort = TRUE => reg'[j].abort = TRUE
        /\ kind = "abort" /\ reg[k] # NoEntry => reg'[k].abort = TRUE
    BY <1>2, <1>3 DEF batch_apply_terminal_control, Entries
  <1>5. \A j \in InInbox : Known(j) => Known(j)'
    BY <1>2, <1>3, <1>4 DEF Known
  <1>6. ASSUME NEW j \in Keys, Fate(j) PROVE Fate(j)'
    <2>1. Begun(j)' = Begun(j) /\ Stopping(j)' = Stopping(j)
      BY <1>2 DEF Begun, Stopping, Starting
    <2>2. Held(j) => Held(j)'
      BY <1>2, <1>4, <2>1 DEF Held
    <2> QED BY <1>2, <1>3, <1>4, <1>6, <2>1, <2>2 DEF Fate
  <1>7. ASSUME kind = "abort", k \in InInbox, k \notin swept
        PROVE  Fate(k)'
    <2>1. Known(k)
      BY <1>7 DEF EarlyInv
    <2>2. req[k].kind \in Commands \/ reg'[k].abort = TRUE
      BY <1>4, <1>7, <2>1, EntriesAt DEF Known
    <2> QED BY <1>2, <1>3, <1>7, <2>2 DEF Fate
  <1>8. ASSUME kind = "abort", k \in InInbox
        PROVE  cl[k] # "new" /\ k \notin OnWire
    BY <1>3, <1>8 DEF DaemonInv, InboxInv
  <1>9. \A j \in early' : j \in Keys /\ cl'[j] # "new" /\ j \notin OnWire'
    BY <1>2, <1>3, <1>8 DEF EarlyInv
  <1>10. \A j \in early' \ swept' : Fate(j)'
    BY <1>2, <1>3, <1>6, <1>7 DEF EarlyInv
  <1>11. \A j \in InInbox' \ swept' : Known(j)'
    BY <1>2, <1>3, <1>5 DEF EarlyInv
  <1>12. WireInv'
    BY <1>2 DEF EarlyInv, WireInv
  <1> QED BY <1>2, <1>3, <1>9, <1>10, <1>11, <1>12 DEF EarlyInv

(* A request reaches the inbox known to the registry. *)
LEMMA ReadAskEarly ==
  ASSUME DaemonInv, EarlyInv, Read, Head(wire).kind \in Asks
  PROVE  EarlyInv'
  <1>1. PICK k : k = Head(wire).key
    OBVIOUS
  <1>2. /\ wire # << >> /\ wire' = Tail(wire)
        /\ UNCHANGED << single, req, backlog, pc, cur, said, cl, swept, early >>
    BY DEF Read, clients, control, Asks
  <1>3. /\ 1 \in 1 .. Len(wire) /\ Head(wire) = wire[1] /\ OnWire' = OnWire \ {k}
        /\ k \in OnWire /\ wire[1].key = k
    BY <1>1, <1>2, WireTail DEF DaemonInv
  <1>4. /\ k \in Keys /\ reg[k] = NoEntry /\ k \notin InInbox
        /\ reg \in [Keys -> Entries] /\ InInbox \subseteq Keys /\ early \subseteq Keys
        /\ k \notin early /\ chan \in Seq(Keys) /\ (pc \in Starting => cur.key # k)
    BY <1>3, InboxKeys DEF DaemonInv, InboxInv, EarlyInv, MapTypes, QueueTypes, MainInv, Starting
  <1>5. chan' = Append(chan, k)
    BY <1>1, <1>4 DEF Read, Asks
  <1>6. InInbox' = InInbox \cup {k}
    BY <1>2, <1>4, <1>5, AppendSet DEF InInbox
  <1>7. \/ reg' = batch_announce_terminal(reg, k)
        \/ reg' = reg /\ req[k].kind \in Commands
    BY <1>1, <1>3 DEF Read, control, Asks, EarlyInv, WireInv
  <1>8. /\ \A j \in Keys \ {k} : reg'[j] = reg[j]
        /\ req[k].kind \in Commands \/ reg'[k].state = "announced"
    <2>1. CASE reg' = batch_announce_terminal(reg, k)
      BY <1>4, <2>1, AnnounceAt, EntriesAt
    <2> QED BY <1>7, <2>1
  <1>9. \A j \in InInbox' \ swept' : Known(j)'
    BY <1>2, <1>4, <1>6, <1>8 DEF EarlyInv, Known
  <1>10. ASSUME NEW j \in early, Fate(j) PROVE Fate(j)'
    <2>1. j # k /\ reg'[j] = reg[j] /\ (j \in InInbox' <=> j \in InInbox)
      BY <1>4, <1>6, <1>8
    <2> QED BY <1>2, <1>10, <2>1 DEF Fate, Held, Begun, Stopping, Starting
  <1>11. WireInv'
    BY <1>2, WireRead
  <1>12. Starting' = Starting
    BY DEF Starting
  <1> QED BY <1>2, <1>3, <1>9, <1>10, <1>11, <1>12 DEF EarlyInv

(* What the clients do leaves the daemon's side of it as it is. *)
LEMMA ClientStill ==
  ASSUME DaemonInv, EarlyInv, UNCHANGED << chan, backlog, reg, single, pc, cur, said, early, swept >>,
         WireInv', \A k \in early : cl'[k] # "new" /\ k \notin OnWire',
         \A k \in early \cup InInbox : req'[k] = req[k]
  PROVE  EarlyInv'
  <1>1. InInbox' = InInbox /\ Starting' = Starting
    BY DEF InInbox, Starting
  <1>2. \A k \in InInbox : Known(k) => Known(k)'
    BY DEF Known
  <1>3. \A k \in early : Fate(k) => Fate(k)'
    BY <1>1 DEF Fate, Held, Begun, Stopping
  <1> QED BY <1>1, <1>2, <1>3 DEF EarlyInv

(* A commit or an abort is sent. *)
LEMMA LineEarly ==
  ASSUME DaemonInv, EarlyInv, NEW k \in Keys, NEW kind \in {"commit", "abort"},
         wire' = Append(wire, Line(kind, k)),
         \A j \in Keys : cl'[j] = "new" => cl[j] = "new",
         UNCHANGED << req, chan, backlog, reg, single, pc, cur, said, early, swept >>
  PROVE  EarlyInv'
  <1>1. QueueTypes /\ kind \in Asks \cup {"commit", "abort"} /\ kind \notin Asks /\ kind # "command"
    BY DEF DaemonInv, Asks
  <1>2. /\ Len(wire) \in Nat /\ Len(wire') = Len(wire) + 1
        /\ \A n \in 1 .. Len(wire) : wire'[n] = wire[n]
        /\ wire'[Len(wire) + 1].kind = kind
        /\ OnWire' = OnWire
    BY <1>1, WireAppend
  <1>3. \A n \in 1 .. Len(wire') : n \in 1 .. Len(wire) \/ n = Len(wire) + 1
    BY <1>2
  <1>4. WireInv'
    BY <1>1, <1>2, <1>3 DEF EarlyInv, WireInv
  <1>5. \A j \in early : cl'[j] # "new" /\ j \notin OnWire'
    BY <1>2 DEF EarlyInv
  <1> QED BY <1>4, <1>5, ClientStill

(* A client moves on without a line. *)
LEMMA MoveEarly ==
  ASSUME DaemonInv, EarlyInv, \A j \in Keys : cl'[j] = "new" => cl[j] = "new",
         UNCHANGED << wire, req, chan, backlog, reg, single, pc, cur, said, early, swept >>
  PROVE  EarlyInv'
  <1>1. OnWire' = OnWire
    BY DEF OnWire
  <1>2. WireInv'
    BY DEF EarlyInv, WireInv
  <1>3. \A j \in early : cl'[j] # "new" /\ j \notin OnWire'
    BY <1>1 DEF EarlyInv
  <1> QED BY <1>2, <1>3, ClientStill

(* A request is asked for. *)
LEMMA SubmitEarly ==
  ASSUME DaemonInv, EarlyInv, NEW k \in Keys, Submit(k)
  PROVE  EarlyInv'
  <1>0. /\ cl[k] = "new" /\ UNCHANGED << chan, backlog, reg, single, pc, cur, said, early, swept >>
        /\ cl \in [Keys -> {"new", "waiting", "committed", "aborting", "done", "failed", "closed"}]
        /\ req \in [Keys -> AllRequests \cup {NoRequest}]
    BY DEF Submit, inbox, control, DaemonInv, MapTypes
  <1>1. CASE ~ alive
    <2>1. UNCHANGED << wire, req >> /\ cl' = [cl EXCEPT ![k] = "closed"]
      BY <1>1 DEF Submit, Move
    <2> QED BY <1>0, <2>1, MoveEarly
  <1>2. CASE alive
    <2>1. PICK r \in Requests[k] :
            /\ req' = [req EXCEPT ![k] = r]
            /\ wire' = Append(wire, Line(IF r.kind \in Commands THEN "command" ELSE "generate", k))
            /\ cl' = [cl EXCEPT ![k] = "waiting"]
      BY <1>2 DEF Submit, Move
    <2>2. PICK kind \in Asks :
            wire' = Append(wire, Line(kind, k)) /\ (kind = "command" => r.kind \in Commands)
      BY <2>1 DEF Asks
    <2>3. /\ Len(wire) \in Nat /\ Len(wire') = Len(wire) + 1
          /\ \A n \in 1 .. Len(wire) : wire'[n] = wire[n]
          /\ wire'[Len(wire) + 1].kind = kind /\ wire'[Len(wire) + 1].key = k
          /\ OnWire' = OnWire \cup {k}
      BY <2>2, WireAppend DEF DaemonInv
    <2>4. \A n \in 1 .. Len(wire') : n \in 1 .. Len(wire) \/ n = Len(wire) + 1
      BY <2>3
    <2>5. \A n \in 1 .. Len(wire) : wire[n].kind \in Asks => wire[n].key \in Keys \ {k}
      <3>1. k \notin OnWire
        BY <1>0 DEF DaemonInv, InboxInv
      <3> QED BY <3>1, WireKeys DEF DaemonInv, OnWire
    <2>6. /\ \A j \in Keys \ {k} : req'[j] = req[j] /\ cl'[j] = cl[j]
          /\ req'[k] = r /\ cl'[k] = "waiting"
      BY <1>0, <2>1
    <2>7. WireInv'
      BY <2>2, <2>3, <2>4, <2>5, <2>6 DEF EarlyInv, WireInv, Asks
    <2>11. k \notin early \cup InInbox /\ early \cup InInbox \subseteq Keys
      BY <1>0, InboxKeys DEF DaemonInv, InboxInv, EarlyInv
    <2>12. \A j \in early : cl'[j] # "new" /\ j \notin OnWire'
      BY <2>3, <2>6, <2>11 DEF EarlyInv
    <2>13. \A j \in early \cup InInbox : req'[j] = req[j]
      BY <2>6, <2>11
    <2> QED BY <1>0, <2>7, <2>12, <2>13, ClientStill
  <1> QED BY <1>1, <1>2

(* The other steps of a client. *)
LEMMA ClientEarly ==
  ASSUME DaemonInv, EarlyInv, NEW k \in Keys, Hear(k) \/ GiveUp(k) \/ Closed(k)
  PROVE  EarlyInv'
  <1>1. /\ UNCHANGED << req, chan, backlog, reg, single, pc, cur, said, early, swept >>
        /\ cl \in [Keys -> {"new", "waiting", "committed", "aborting", "done", "failed", "closed"}]
    BY DEF Hear, GiveUp, Closed, inbox, control, DaemonInv, MapTypes
  <1>2. \A j \in Keys : cl'[j] = "new" => cl[j] = "new"
    <2>1. cl' = cl \/ \E place \in {"committed", "aborting", "done", "failed", "closed"} :
                        cl' = [cl EXCEPT ![k] = place]
      BY DEF Hear, GiveUp, Closed, SendAbort, Move
    <2> QED BY <1>1, <2>1
  <1>3. CASE UNCHANGED wire
    BY <1>1, <1>2, <1>3, MoveEarly
  <1>4. ASSUME NEW kind \in {"commit", "abort"}, wire' = Append(wire, Line(kind, k)) PROVE EarlyInv'
    BY <1>1, <1>2, <1>4, LineEarly
  <1>5. UNCHANGED wire \/ \E kind \in {"commit", "abort"} : wire' = Append(wire, Line(kind, k))
    BY DEF Hear, Closed, GiveUp, SendAbort
  <1> QED BY <1>3, <1>4, <1>5

-----------------------------------------------------------------------------
(* An early abort stops its request *)

(* The first state. *)
LEMMA InitEarly == Init => EarlyInv
  <1> SUFFICES ASSUME Init
               PROVE  EarlyInv
    OBVIOUS
  <1>1. Len(wire) = 0 /\ early = {} /\ InInbox = {} /\ pc = "outer" /\ pc \notin Starting
    BY EmptySet, EmptySeq DEF Init, InInbox, Starting
  <1> QED BY <1>1 DEF EarlyInv, WireInv

(* Every step. *)
LEMMA EarlyStep ==
  ASSUME DaemonInv, EarlyInv, [Next]_vars
  PROVE  EarlyInv'
  <1>1. ASSUME NEW k \in Keys, Client(k) \/ GiveUp(k)
        PROVE  EarlyInv'
    BY <1>1, SubmitEarly, ClientEarly DEF Client
  <1>2. CASE Reader
    BY <1>2, ReadControlEarly, ReadAskEarly, LatchEarly DEF Reader, Read, Asks
  <1>3. CASE Main
    BY <1>3, OuterEarly, CheckLatchEarly, TransferEarly, SeqStepEarly, SeqDecideEarly, DriverEarly,
       DrainEarly DEF Main
  <1>4. CASE (\E i \in LaneIds : Late(i)) \/ Die \/ UNCHANGED vars
    <2>1. UNCHANGED << wire, req, chan, backlog, reg, single, pc, cur, said, early, swept, cl >>
      BY <1>4 DEF Late, Die, vars, inbox, control, clients
    <2> QED BY <2>1, MoveEarly
  <1> QED BY <1>1, <1>2, <1>3, <1>4 DEF Next

(* The invariant holds in every reachable state. *)
LEMMA EarlyHolds == Spec => []EarlyInv
  <1>1. DaemonInv /\ EarlyInv /\ [Next]_vars => EarlyInv'
    BY EarlyStep
  <1> QED BY InitEarly, <1>1, DaemonInvariant, PTL DEF Spec

(* What the invariant says of the transcripts. *)
LEMMA EarlySaid ==
  ASSUME DaemonInv, EarlyInv, NEW k \in early \ swept
  PROVE  "ready" \notin ToSet(said[k])
  <1>1. Fate(k)
    BY DEF EarlyInv
  <1>2. said[k] \in {Silent, Started} \cup Cut
    <2>1. CASE k \in InInbox
      BY <2>1 DEF DaemonInv, InboxInv
    <2>2. CASE Stopping(k) \/ Held(k)
      BY <2>2 DEF Stopping, Held, Begun, Starting, DaemonInv, MainInv
    <2> QED BY <1>1, <2>1, <2>2 DEF Fate
  <1> QED BY <1>2, CutAt

(* An abort that was latched in the registry while its request waited there announced, or   *)
(* that reached the singleton after the sequential route had activated it and before        *)
(* gen_start, stops the request: it never reaches its commit_ready, whichever of the checks, *)
(* clears and transfers of the main thread runs between the reader's two critical sections. *)
(* An abort the reader carried across the moment the request was taken, and requests whose  *)
(* entry was cleared while they waited, are not among them: those the code may lose.        *)
THEOREM EarlyAbortStopsHolds == Spec => []EarlyAbortStops
  <1>1. DaemonInv /\ EarlyInv => EarlyAbortStops
    BY EarlySaid DEF EarlyAbortStops
  <1> QED BY <1>1, DaemonInvariant, EarlyHolds, PTL
=============================================================================
