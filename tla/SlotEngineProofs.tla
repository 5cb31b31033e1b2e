-------------------------- MODULE SlotEngineProofs --------------------------
(***************************************************************************)
(* Proofs about SlotEngine for any number of slots, sessions and requests, *)
(* any prompts and any faults: types, slot ownership, the budget and one   *)
(* answer per request.                                                     *)
(***************************************************************************)
EXTENDS SlotEngine, QueueFacts

-----------------------------------------------------------------------------
(* The inductive invariant *)

Fields == {"used", "len", "arena", "dn", "sess", "clock", "next_id", "admitted", "snaps"}
Residencies == {"Closed", "Resident", "Swapped", "Cold"}
Histories == {Convo[q] : q \in Requests} \cup {<< >>}
Sessions == [slot : Slots \cup {NoSlot}, tokens : Seq(Tokens), convo : Histories,
             residency : Residencies, last_used : Nat]

(* The shape of a rig; no stamp is ahead of the clock. *)
RigTypes(r) ==
  /\ DOMAIN r = Fields
  /\ r.used \in [Slots -> BOOLEAN]
  /\ r.len \in [Slots -> 0 .. SlabCap]
  /\ r.sess \in [Ids -> Sessions]
  /\ \A i \in Ids : r.sess[i].last_used <= r.clock
  /\ DOMAIN r.snaps = Ids
  /\ \A i \in Ids : r.snaps[i].present \in BOOLEAN /\ Len(r.snaps[i].kv) \in 0 .. SlabCap
  /\ r.clock \in Nat /\ r.next_id \in 0 .. MaxSessions /\ r.admitted \in Nat

(* Used slots and Resident sessions are matched one to one, and ids not    *)
(* handed out yet are closed.                                              *)
Owned(r) ==
  /\ \A s \in Slots : r.used[s] => \E i \in Ids : r.sess[i].slot = s
  /\ \A i \in Ids : r.sess[i].slot # NoSlot => r.used[r.sess[i].slot]
  /\ \A i \in Ids : r.sess[i].slot # NoSlot <=> r.sess[i].residency = "Resident"
  /\ \A i, j \in Ids : r.sess[i].slot = r.sess[j].slot /\ r.sess[i].slot # NoSlot => i = j
  /\ \A i \in Ids : i >= r.next_id => r.sess[i].residency = "Closed"

(* Exactly the Swapped sessions have a snapshot. *)
Snapped(r) == \A i \in Ids : r.snaps[i].present <=> r.sess[i].residency = "Swapped"

(* One charge per open session, within the budget. *)
Charged(r) ==
  /\ r.admitted = Cardinality(Live(r))
  /\ r.admitted > 0 => WeightBytes + r.admitted * KvBytes < BudgetBytes

RigOK(r) == RigTypes(r) /\ Owned(r) /\ Snapped(r) /\ Charged(r)

(* Every session in flight holds the slot it runs in. *)
Flying(r) == \A s \in InFlight : /\ slots[s].session \in Ids
                                 /\ r.sess[slots[s].session].slot = s

Replies == {"none", "Accepted"} \cup Terminal
Clients == {"idle", "waiting", "gone", "ok", "failed"}
Flights == [session : Ids \cup {NoId}, req : Requests \cup {"none"}, produced : Nat]

EngineTypes ==
  /\ slots \in [Slots -> Flights]
  /\ \A s \in InFlight : slots[s].req \in Requests
  /\ work \in [Slots -> [remaining : Seq(Tokens), next_pos : Nat]]
  /\ queue \in Seq(Requests) /\ Distinct(queue)
  /\ sender \in BOOLEAN
  /\ engine \in {"running", "exited", "panicked"}
  /\ reply \in [Requests -> Replies]
  /\ DOMAIN stream = Requests
  /\ client \in [Requests -> Clients]
  /\ faults \in 0 .. MaxFaults

(* Where a request can be: not submitted, queued with no answer, in flight *)
(* in one slot with "Accepted", or answered.                               *)
AnswerInv ==
  /\ \A q \in ToSet(queue) : reply[q] = "none" /\ client[q] # "idle"
  /\ \A q \in Requests : reply[q] # "none" => client[q] # "idle"
  /\ \A s \in InFlight : reply[slots[s].req] = "Accepted"
  /\ \A s, t \in InFlight : slots[s].req = slots[t].req => s = t
  /\ \A q \in Requests : reply[q] = "Accepted" => Gone(q) \/ \E s \in InFlight : slots[s].req = q

EngineInv == RigOK(rig) /\ Flying(rig) /\ EngineTypes /\ AnswerInv

-----------------------------------------------------------------------------
(* Constants and operators *)

(* The constants, as the provers use them. *)
LEMMA Consts ==
  /\ NSlots \in Nat \ {0} /\ MaxSessions \in Nat \ {0} /\ SlabCap \in Nat
  /\ CapTokens \in Nat \ {0} /\ WeightBytes \in Nat /\ KvBytes \in Nat /\ BudgetBytes \in Nat
  /\ MaxFaults \in Nat
  /\ WeightBytes + NSlots * KvBytes < BudgetBytes
  BY RigAssumption, RequestAssumption DEF RigAssumption, RequestAssumption

(* Slots and ids are natural numbers and the marks are neither. *)
LEMMA Numbers ==
  /\ Slots \subseteq Nat /\ Ids \subseteq Nat
  /\ NoSlot \notin Slots /\ NoId \notin Ids
  /\ IsFiniteSet(Slots) /\ IsFiniteSet(Ids)
  /\ \A n \in 0 .. MaxSessions : n < MaxSessions => n \in Ids /\ n + 1 \in 0 .. MaxSessions
  <1>1. NSlots - 1 \in Int /\ MaxSessions - 1 \in Int
    BY Consts
  <1>2. IsFiniteSet(Slots) /\ IsFiniteSet(Ids)
    BY <1>1, FS_Interval DEF Slots, Ids
  <1> QED BY <1>2, Consts DEF Slots, Ids, NoSlot, NoId

(* Prompts and continuations are sequences of tokens. *)
LEMMA Texts ==
  ASSUME NEW q \in Requests
  PROVE  Prompt[q] \in Seq(Tokens) /\ Continuation[q] \in Seq(Tokens) /\ Convo[q] \in Histories
  <1>1. Prompt \in [Requests -> Seq(Tokens)] /\ Continuation \in [Requests -> Seq(Tokens)]
    BY RequestAssumption DEF RequestAssumption
  <1> QED BY <1>1 DEF Histories

(* A free slot is found when there is one. *)
LEMMA FreeSlot ==
  ASSUME NEW r, free_slots(r) # {}
  PROVE  Min(free_slots(r)) \in Slots /\ ~ r.used[Min(free_slots(r))]
  <1>1. free_slots(r) \in SUBSET Nat
    BY Numbers DEF free_slots
  <1>2. Min(free_slots(r)) \in free_slots(r)
    BY <1>1, MinIs
  <1> QED BY <1>2 DEF free_slots

(* The common prefix of two sequences is not longer than either. *)
LEMMA LcpType ==
  ASSUME NEW a \in Seq(Tokens), NEW b \in Seq(Tokens)
  PROVE  lcp(a, b) \in Nat /\ lcp(a, b) <= Len(a) /\ lcp(a, b) <= Len(b)
  <1> DEFINE n == Min({Len(a), Len(b)})
             T == {k \in 0 .. n : \A i \in 1 .. k : a[i] = b[i]}
  <1>1. Len(a) \in Nat /\ Len(b) \in Nat
    OBVIOUS
  <1>2. n \in {Len(a), Len(b)} /\ \A y \in {Len(a), Len(b)} : n <= y
    BY <1>1, MinIs
  <1>3. n \in Nat /\ n <= Len(a) /\ n <= Len(b)
    BY <1>1, <1>2
  <1> HIDE DEF n
  <1>4. T \in SUBSET Nat /\ 0 \in T /\ \A y \in T : y <= n
    BY <1>3
  <1> HIDE DEF T
  <1>5. Max(T) \in T
    BY <1>3, <1>4, MaxIs
  <1>6. lcp(a, b) = Max(T)
    BY DEF lcp, T, n
  <1>7. Max(T) \in Nat /\ Max(T) <= n
    BY <1>4, <1>5
  <1>8. Max(T) <= Len(a) /\ Max(T) <= Len(b)
    BY <1>1, <1>3, <1>7
  <1> QED BY <1>6, <1>7, <1>8

(* A turn reuses no more than the slot holds. *)
LEMMA PlanType ==
  ASSUME NEW a \in Seq(Tokens), NEW b \in Seq(Tokens), NEW n \in Nat
  PROVE  plan_turn(a, n, b) \in Nat /\ plan_turn(a, n, b) <= n
  <1> DEFINE T == {lcp(a, b), n, IF b = << >> THEN 0 ELSE Len(b) - 1}
  <1>1. lcp(a, b) \in Nat
    BY LcpType
  <1>2. (IF b = << >> THEN 0 ELSE Len(b) - 1) \in Nat
    BY EmptySeq, LenProperties
  <1>3. T \in SUBSET Nat /\ n \in T
    BY <1>1, <1>2
  <1>4. Min(T) \in T /\ Min(T) <= n
    BY <1>3, MinIs
  <1>5. plan_turn(a, n, b) = Min(T)
    BY DEF plan_turn
  <1> HIDE DEF T
  <1> QED BY <1>3, <1>4, <1>5

-----------------------------------------------------------------------------
(* The operations of the rig *)

(* A step that moves no session between slots and residencies. *)
LEMMA Unmoved ==
  ASSUME NEW r, RigOK(r), NEW e, RigTypes(e), e.used = r.used,
         \A i \in Ids : /\ e.sess[i].slot = r.sess[i].slot
                        /\ e.sess[i].residency = r.sess[i].residency
                        /\ e.snaps[i].present = r.snaps[i].present,
         e.next_id = r.next_id, e.admitted = r.admitted
  PROVE  RigOK(e)
  <1>1. Live(e) = Live(r)
    BY DEF Live
  <1>2. Charged(e)
    BY <1>1 DEF RigOK, Charged
  <1>3. Owned(e)
    BY DEF RigOK, Owned
  <1>4. Snapped(e)
    BY DEF RigOK, Snapped
  <1> QED BY <1>2, <1>3, <1>4 DEF RigOK

(* The set of open sessions is finite. *)
LEMMA LiveFinite ==
  ASSUME NEW r
  PROVE  IsFiniteSet(Live(r)) /\ Live(r) \subseteq Ids
  BY Numbers, FS_Subset DEF Live

(* From r to e, session v moves to slot s and residency res. *)
Moved(r, e, v, s, res) ==
  /\ e.sess \in [Ids -> Sessions]
  /\ e.sess[v].slot = s /\ e.sess[v].residency = res
  /\ e.sess[v].tokens = r.sess[v].tokens
  /\ e.sess[v].last_used = r.sess[v].last_used
  /\ \A i \in Ids \ {v} : e.sess[i] = r.sess[i]

Marked(x, v, res) == [give_up_slot(x, v) EXCEPT !.sess[v].residency = res]

(* mark_swapped and mark_cold: the session's slot goes back to the pool. *)
LEMMA GiveUp ==
  ASSUME NEW x, DOMAIN x = Fields, NEW v \in Ids, x.sess \in [Ids -> Sessions],
         NEW s, x.sess[v].slot = s, s # NoSlot, NEW res \in Residencies,
         NEW e, e = Marked(x, v, res)
  PROVE  /\ DOMAIN e = Fields
         /\ e.used = [x.used EXCEPT ![s] = FALSE]
         /\ e.len = [x.len EXCEPT ![s] = 0]
         /\ e.clock = x.clock /\ e.next_id = x.next_id /\ e.admitted = x.admitted
         /\ Moved(x, e, v, NoSlot, res)
         /\ e.snaps = x.snaps
  <1>1. give_up_slot(x, v) = [pool_release(x, s) EXCEPT !.sess[v].slot = NoSlot]
    BY DEF give_up_slot
  <1> DEFINE y == pool_release(x, s)
             z == give_up_slot(x, v)
  <1>2. /\ DOMAIN y = Fields
        /\ y.used = [x.used EXCEPT ![s] = FALSE] /\ y.len = [x.len EXCEPT ![s] = 0]
        /\ y.clock = x.clock /\ y.next_id = x.next_id /\ y.admitted = x.admitted
        /\ y.sess = x.sess /\ y.snaps = x.snaps
    BY DEF pool_release, Fields
  <1> HIDE DEF y
  <1>3. z = [y EXCEPT !.sess[v].slot = NoSlot]
    BY <1>1 DEF y
  <1>4. /\ DOMAIN z = Fields
        /\ z.used = [x.used EXCEPT ![s] = FALSE] /\ z.len = [x.len EXCEPT ![s] = 0]
        /\ z.clock = x.clock /\ z.next_id = x.next_id /\ z.admitted = x.admitted
        /\ z.sess = [x.sess EXCEPT ![v].slot = NoSlot] /\ z.snaps = x.snaps
    BY <1>2, <1>3 DEF Fields
  <1> HIDE DEF z
  <1>5. e = [z EXCEPT !.sess[v].residency = res]
    BY DEF z, Marked
  <1>6. /\ DOMAIN e = Fields
        /\ e.used = z.used /\ e.len = z.len /\ e.clock = z.clock /\ e.next_id = z.next_id
        /\ e.admitted = z.admitted /\ e.snaps = z.snaps
        /\ e.sess = [z.sess EXCEPT ![v].residency = res]
    BY <1>4, <1>5 DEF Fields
  <1>7. \A y1 \in Sessions : [y1 EXCEPT !.slot = NoSlot] \in Sessions
    BY DEF Sessions
  <1>8. \A y1 \in Sessions : [y1 EXCEPT !.residency = res] \in Sessions
    BY DEF Sessions
  <1> DEFINE a == x.sess[v]
             b == [a EXCEPT !.slot = NoSlot]
             c == [b EXCEPT !.residency = res]
  <1>9. a \in Sessions /\ b \in Sessions /\ c \in Sessions
    BY <1>7, <1>8
  <1>10. /\ c.slot = NoSlot /\ c.residency = res
         /\ c.tokens = x.sess[v].tokens /\ c.last_used = x.sess[v].last_used
    BY <1>9 DEF Sessions
  <1>11. z.sess = [x.sess EXCEPT ![v] = b] /\ z.sess[v] = b
    BY <1>4
  <1>12. e.sess = [z.sess EXCEPT ![v] = c]
    BY <1>6, <1>11
  <1> HIDE DEF a, b, c
  <1>13. e.sess \in [Ids -> Sessions] /\ e.sess[v] = c
         /\ \A i \in Ids \ {v} : e.sess[i] = x.sess[i]
    BY <1>9, <1>11, <1>12
  <1>14. Moved(x, e, v, NoSlot, res)
    BY <1>10, <1>13 DEF Moved
  <1> QED BY <1>4, <1>6, <1>14

(* An evicted session gives up its slot, and is Swapped with a snapshot or *)
(* Cold without one.                                                       *)
LEMMA EvictFields ==
  ASSUME NEW r, RigOK(r), NEW v \in Ids, NEW s, r.sess[v].slot = s, s # NoSlot,
         NEW o \in EvictOutcomes, NEW e, e = evict(r, v, o)
  PROVE  /\ s \in Slots
         /\ DOMAIN e = Fields
         /\ e.used = [r.used EXCEPT ![s] = FALSE]
         /\ e.len = [r.len EXCEPT ![s] = 0]
         /\ e.clock = r.clock /\ e.next_id = r.next_id /\ e.admitted = r.admitted
         /\ \/ /\ Moved(r, e, v, NoSlot, "Swapped")
               /\ e.snaps = [r.snaps EXCEPT ![v] = capture_slot(r, s)]
            \/ /\ Moved(r, e, v, NoSlot, "Cold")
               /\ e.snaps \in {[r.snaps EXCEPT ![v] = NoSnap], r.snaps}
  <1>0. "Swapped" \in Residencies /\ "Cold" \in Residencies
    BY DEF Residencies
  <1>1. s \in Slots /\ r.sess \in [Ids -> Sessions] /\ DOMAIN r.snaps = Ids /\ DOMAIN r = Fields
    BY DEF RigOK, RigTypes, Sessions
  <1>2. ASSUME NEW c
        PROVE  LET x == [r EXCEPT !.snaps[v] = c]
               IN  /\ DOMAIN x = Fields /\ x.sess = r.sess
                   /\ x.used = r.used /\ x.len = r.len /\ x.clock = r.clock
                   /\ x.next_id = r.next_id /\ x.admitted = r.admitted
                   /\ x.snaps = [r.snaps EXCEPT ![v] = c]
    BY <1>1 DEF Fields
  <1>3. CASE o = "ok"
    <2> DEFINE x == [r EXCEPT !.snaps[v] = capture_slot(r, s)]
    <2>1. /\ DOMAIN x = Fields /\ x.sess = r.sess
          /\ x.used = r.used /\ x.len = r.len /\ x.clock = r.clock
          /\ x.next_id = r.next_id /\ x.admitted = r.admitted
          /\ x.snaps = [r.snaps EXCEPT ![v] = capture_slot(r, s)]
      BY <1>2
    <2>2. e = Marked(x, v, "Swapped")
      BY <1>3 DEF evict, mark_swapped, Marked
    <2> HIDE DEF x
    <2>3. /\ DOMAIN e = Fields
          /\ e.used = [x.used EXCEPT ![s] = FALSE]
          /\ e.len = [x.len EXCEPT ![s] = 0]
          /\ e.clock = x.clock /\ e.next_id = x.next_id /\ e.admitted = x.admitted
          /\ Moved(x, e, v, NoSlot, "Swapped")
          /\ e.snaps = x.snaps
      BY <1>1, <2>1, <2>2, <1>0, GiveUp
    <2> QED BY <1>1, <1>3, <2>1, <2>3 DEF Moved
  <1>4. CASE o = "capture_failed"
    <2>1. e = Marked(r, v, "Cold")
      BY <1>4 DEF evict, mark_cold, Marked
    <2>2. /\ DOMAIN e = Fields
          /\ e.used = [r.used EXCEPT ![s] = FALSE]
          /\ e.len = [r.len EXCEPT ![s] = 0]
          /\ e.clock = r.clock /\ e.next_id = r.next_id /\ e.admitted = r.admitted
          /\ Moved(r, e, v, NoSlot, "Cold")
          /\ e.snaps = r.snaps
      BY <1>1, <2>1, <1>0, GiveUp
    <2> QED BY <1>1, <1>4, <2>2
  <1>5. CASE o = "park_failed"
    <2> DEFINE x == [r EXCEPT !.snaps[v] = NoSnap]
    <2>1. /\ DOMAIN x = Fields /\ x.sess = r.sess
          /\ x.used = r.used /\ x.len = r.len /\ x.clock = r.clock
          /\ x.next_id = r.next_id /\ x.admitted = r.admitted
          /\ x.snaps = [r.snaps EXCEPT ![v] = NoSnap]
      BY <1>2
    <2>2. e = Marked(x, v, "Cold")
      BY <1>5 DEF evict, mark_cold, Marked
    <2> HIDE DEF x
    <2>3. /\ DOMAIN e = Fields
          /\ e.used = [x.used EXCEPT ![s] = FALSE]
          /\ e.len = [x.len EXCEPT ![s] = 0]
          /\ e.clock = x.clock /\ e.next_id = x.next_id /\ e.admitted = x.admitted
          /\ Moved(x, e, v, NoSlot, "Cold")
          /\ e.snaps = x.snaps
      BY <1>1, <2>1, <2>2, <1>0, GiveUp
    <2> QED BY <1>1, <1>5, <2>1, <2>3 DEF Moved
  <1> QED BY <1>3, <1>4, <1>5 DEF EvictOutcomes

(* A captured prefix has the length the slot had. *)
LEMMA CaptureLen ==
  ASSUME NEW r, NEW s, r.len[s] \in 0 .. SlabCap
  PROVE  capture_slot(r, s).present = TRUE /\ Len(capture_slot(r, s).kv) \in 0 .. SlabCap
  <1>1. r.len[s] \in Nat
    BY Consts
  <1>2. DOMAIN ReadSlab(r, s, r.len[s]) = 1 .. r.len[s]
    BY DEF ReadSlab
  <1>3. capture_slot(r, s).kv = ReadSlab(r, s, r.len[s]) /\ capture_slot(r, s).present = TRUE
    BY DEF capture_slot
  <1>4. Len(ReadSlab(r, s, r.len[s])) = r.len[s]
    <2> DEFINE n == r.len[s]
               c(i) == LET a == s * SlabCap + i - 1
                       IN  IF a \in DOMAIN r.arena THEN r.arena[a] ELSE "junk"
    <2>1. ReadSlab(r, s, r.len[s]) = [i \in 1 .. n |-> c(i)]
      BY DEF ReadSlab
    <2>2. n \in Nat
      BY <1>1
    <2> HIDE DEF n, c
    <2>3. Len([i \in 1 .. n |-> c(i)]) = n
      BY <2>2
    <2> QED BY <2>1, <2>3 DEF n
  <1> QED BY <1>3, <1>4

(* No snapshot. *)
LEMMA NoSnapLen == NoSnap.present = FALSE /\ Len(NoSnap.kv) \in 0 .. SlabCap
  <1>1. NoSnap.kv = << >> /\ NoSnap.present = FALSE
    BY DEF NoSnap
  <1> QED BY <1>1, Consts, EmptySeq

(* evict keeps the rig in order and moves no session but the victim. *)
LEMMA EvictKeeps ==
  ASSUME NEW r, RigOK(r), NEW v \in Ids, r.sess[v].slot # NoSlot,
         NEW o \in EvictOutcomes, NEW e, e = evict(r, v, o)
  PROVE  /\ RigOK(e)
         /\ e.next_id = r.next_id
         /\ \A i \in Ids \ {v} : e.sess[i] = r.sess[i]
         /\ e.sess[v].slot = NoSlot
         /\ e.sess[v].residency \in {"Swapped", "Cold"}
  <1> DEFINE s == r.sess[v].slot
  <1>1. /\ s \in Slots
        /\ DOMAIN e = Fields
        /\ e.used = [r.used EXCEPT ![s] = FALSE]
        /\ e.len = [r.len EXCEPT ![s] = 0]
        /\ e.clock = r.clock /\ e.next_id = r.next_id /\ e.admitted = r.admitted
        /\ \/ /\ Moved(r, e, v, NoSlot, "Swapped")
              /\ e.snaps = [r.snaps EXCEPT ![v] = capture_slot(r, s)]
           \/ /\ Moved(r, e, v, NoSlot, "Cold")
              /\ e.snaps \in {[r.snaps EXCEPT ![v] = NoSnap], r.snaps}
    BY EvictFields
  <1>2. /\ r.sess \in [Ids -> Sessions] /\ r.used \in [Slots -> BOOLEAN]
        /\ r.len \in [Slots -> 0 .. SlabCap] /\ DOMAIN r.snaps = Ids
        /\ \A i \in Ids : r.snaps[i].present \in BOOLEAN /\ Len(r.snaps[i].kv) \in 0 .. SlabCap
        /\ \A i \in Ids : r.sess[i].last_used <= r.clock
        /\ r.clock \in Nat /\ r.next_id \in 0 .. MaxSessions /\ r.admitted \in Nat
    BY DEF RigOK, RigTypes
  <1>3. /\ r.sess[v].residency = "Resident"
        /\ ~ r.snaps[v].present
    BY <1>2 DEF RigOK, Owned, Snapped
  <1> HIDE DEF s
  <1>5. /\ e.sess \in [Ids -> Sessions]
        /\ e.sess[v].slot = NoSlot /\ e.sess[v].residency \in {"Swapped", "Cold"}
        /\ e.sess[v].last_used = r.sess[v].last_used
        /\ \A i \in Ids \ {v} : e.sess[i] = r.sess[i]
    BY <1>1 DEF Moved
  <1>6. /\ DOMAIN e.snaps = Ids
        /\ \A i \in Ids \ {v} : e.snaps[i] = r.snaps[i]
        /\ e.snaps[v].present \in BOOLEAN
        /\ e.snaps[v].present <=> e.sess[v].residency = "Swapped"
        /\ Len(e.snaps[v].kv) \in 0 .. SlabCap
    <2>1. CASE Moved(r, e, v, NoSlot, "Swapped") /\ e.snaps = [r.snaps EXCEPT ![v] = capture_slot(r, s)]
      <3>1. r.len[s] \in 0 .. SlabCap
        BY <1>1, <1>2
      <3>2. capture_slot(r, s).present = TRUE /\ Len(capture_slot(r, s).kv) \in 0 .. SlabCap
        BY <3>1, CaptureLen
      <3> QED BY <1>2, <2>1, <3>2 DEF Moved
    <2>2. CASE Moved(r, e, v, NoSlot, "Cold") /\ e.snaps \in {[r.snaps EXCEPT ![v] = NoSnap], r.snaps}
      BY <1>2, <1>3, <2>2, NoSnapLen DEF Moved
    <2> QED BY <1>1, <2>1, <2>2
  <1>7. RigTypes(e)
    <2>1. e.used \in [Slots -> BOOLEAN] /\ e.len \in [Slots -> 0 .. SlabCap]
      BY <1>1, <1>2, Consts
    <2>2. \A i \in Ids : e.sess[i].last_used <= e.clock
      BY <1>1, <1>2, <1>5
    <2>3. \A i \in Ids : e.snaps[i].present \in BOOLEAN /\ Len(e.snaps[i].kv) \in 0 .. SlabCap
      BY <1>2, <1>6
    <2> QED BY <1>1, <1>2, <1>5, <1>6, <2>1, <2>2, <2>3 DEF RigTypes
  <1>8. Owned(e)
    <2>0. Owned(r)
      BY DEF RigOK
    <2>1. \A t \in Slots : e.used[t] <=> r.used[t] /\ t # s
      BY <1>1, <1>2
    <2>2. \A t \in Slots : e.used[t] => \E i \in Ids : e.sess[i].slot = t
      BY <1>5, <2>0, <2>1 DEF Owned, s
    <2>3. \A i \in Ids : e.sess[i].slot # NoSlot => e.used[e.sess[i].slot]
      <3> SUFFICES ASSUME NEW i \in Ids, e.sess[i].slot # NoSlot PROVE e.used[e.sess[i].slot]
        OBVIOUS
      <3>1. i # v /\ e.sess[i].slot = r.sess[i].slot
        BY <1>5
      <3>2. r.sess[i].slot # s /\ r.sess[i].slot \in Slots
        BY <1>2, <3>1, <2>0 DEF Owned, s, Sessions
      <3> QED BY <2>0, <2>1, <3>1, <3>2 DEF Owned
    <2>4. \A i \in Ids : e.sess[i].slot # NoSlot <=> e.sess[i].residency = "Resident"
      BY <1>5, <2>0 DEF Owned
    <2>5. \A i, j \in Ids : e.sess[i].slot = e.sess[j].slot /\ e.sess[i].slot # NoSlot => i = j
      BY <1>5, <2>0 DEF Owned
    <2>6. \A i \in Ids : i >= e.next_id => e.sess[i].residency = "Closed"
      BY <1>1, <1>3, <1>5, <2>0 DEF Owned
    <2> QED BY <2>2, <2>3, <2>4, <2>5, <2>6 DEF Owned
  <1>9. Snapped(e)
    <2>1. Snapped(r)
      BY DEF RigOK
    <2> QED BY <1>5, <1>6, <2>1 DEF Snapped
  <1>10. Live(e) = Live(r)
    BY <1>3, <1>5 DEF Live
  <1>11. Charged(e)
    BY <1>1, <1>10 DEF RigOK, Charged
  <1> QED BY <1>1, <1>5, <1>7, <1>8, <1>9, <1>11 DEF RigOK

(* The victim lru_idle_victim picks holds a slot and is not busy. *)
LEMMA Victim ==
  ASSUME NEW r, RigTypes(r), NEW busy
  PROVE  \/ lru_idle_victim(r, busy) = NoId
         \/ /\ lru_idle_victim(r, busy) \in Live(r) \ busy
            /\ r.sess[lru_idle_victim(r, busy)].slot # NoSlot
  <1> DEFINE idle == {i \in Live(r) \ busy : r.sess[i].slot # NoSlot}
             T == {r.sess[i].last_used : i \in idle}
  <1> SUFFICES ASSUME idle # {} PROVE lru_idle_victim(r, busy) \in idle
    BY DEF lru_idle_victim
  <1>1. \A i \in idle : r.sess[i].last_used \in Nat
    BY DEF RigTypes, Live, Sessions
  <1>2. T \in SUBSET Nat /\ T # {}
    BY <1>1
  <1>3. \A i \in idle : r.sess[i].last_used \in T
    OBVIOUS
  <1>4. lru_idle_victim(r, busy)
          = CHOOSE i \in idle : \A j \in idle : r.sess[i].last_used <= r.sess[j].last_used
    BY DEF lru_idle_victim
  <1>5. \A x \in T : \E i \in idle : x = r.sess[i].last_used
    OBVIOUS
  <1> HIDE DEF idle, T
  <1>6. PICK x \in T : \A y \in T : x <= y
    BY <1>2, NatMin
  <1>7. PICK i \in idle : x = r.sess[i].last_used
    BY <1>5
  <1>8. \A j \in idle : r.sess[i].last_used <= r.sess[j].last_used
    BY <1>3, <1>6, <1>7
  <1>9. \E k \in idle : \A j \in idle : r.sess[k].last_used <= r.sess[j].last_used
    BY <1>7, <1>8
  <1> QED BY <1>4, <1>9

(* The session find_continuation picks is open, idle and not Cold, and     *)
(* has answered all user turns but the last.                               *)
LEMMA Continues ==
  ASSUME NEW r, RigTypes(r), NEW want, NEW busy
  PROVE  \/ find_continuation(r, want, busy) = NoId
         \/ /\ find_continuation(r, want, busy) \in Live(r) \ busy
            /\ r.sess[find_continuation(r, want, busy)].residency # "Cold"
            /\ r.sess[find_continuation(r, want, busy)].convo = SubSeq(want, 1, Len(want) - 1)
            /\ r.sess[find_continuation(r, want, busy)].tokens # << >>
  <1> DEFINE matches == {i \in Live(r) \ busy :
                           /\ r.sess[i].residency # "Cold"
                           /\ r.sess[i].convo = SubSeq(want, 1, Len(want) - 1)
                           /\ r.sess[i].tokens # << >>}
             T == {r.sess[i].last_used : i \in matches}
             c == find_continuation(r, want, busy)
  <1> SUFFICES ASSUME matches # {}, ~ Len(want) < 2 PROVE c \in matches
    BY DEF find_continuation
  <1>1. \A i \in matches : r.sess[i].last_used \in Nat /\ r.sess[i].last_used <= r.clock
    BY DEF RigTypes, Live, Sessions
  <1>2. T \in SUBSET Nat /\ T # {} /\ \A y \in T : y <= r.clock
    BY <1>1
  <1>3. \A i \in matches : r.sess[i].last_used \in T
    OBVIOUS
  <1>4. c = CHOOSE i \in matches : \A j \in matches : r.sess[j].last_used <= r.sess[i].last_used
    BY DEF find_continuation
  <1>5. \A x \in T : \E i \in matches : x = r.sess[i].last_used
    OBVIOUS
  <1>6. r.clock \in Nat
    BY DEF RigTypes
  <1> HIDE DEF matches, T, c
  <1>7. PICK x \in T : \A y \in T : y <= x
    BY <1>2, <1>6, NatMax
  <1>8. PICK i \in matches : x = r.sess[i].last_used
    BY <1>5
  <1>9. \E k \in matches : \A j \in matches : r.sess[j].last_used <= r.sess[k].last_used
    BY <1>3, <1>7, <1>8
  <1> QED BY <1>4, <1>9

(* One more charge fits when adm_fits says so. *)
LEMMA Fits ==
  ASSUME NEW r, RigOK(r), adm_fits(r)
  PROVE  WeightBytes + (r.admitted + 1) * KvBytes < BudgetBytes
  <1>1. r.admitted \in Nat
    BY DEF RigOK, RigTypes
  <1>2. CASE r.admitted = 0
    <2>1. KvBytes + WeightBytes < BudgetBytes - 0
      BY <1>2, Consts DEF adm_fits, used_bytes
    <2>2. (r.admitted + 1) * KvBytes = KvBytes
      BY <1>2, Consts
    <2> QED BY <2>1, <2>2, Consts
  <1>3. CASE r.admitted # 0
    <2> DEFINE m == r.admitted * KvBytes
    <2>1. m \in Nat /\ (r.admitted + 1) * KvBytes = m + KvBytes
      BY <1>1, Consts
    <2>2. WeightBytes + m < BudgetBytes
      BY <1>1, <1>3 DEF RigOK, Charged
    <2>3. used_bytes(r) = WeightBytes + m
      BY <1>3 DEF used_bytes
    <2> HIDE DEF m
    <2>4. KvBytes + 0 < BudgetBytes - (WeightBytes + m)
      BY <1>3, <2>1, <2>2, <2>3, Consts DEF adm_fits
    <2> QED BY <2>1, <2>4, Consts
  <1> QED BY <1>2, <1>3

Refused(r) == adm_release(adm_admit(r))
Opened(r) ==
  [acquire(adm_admit(r)) EXCEPT
     !.next_id = @ + 1, !.clock = @ + 1,
     !.sess[r.next_id] = [slot |-> Min(free_slots(r)), tokens |-> << >>, convo |-> << >>,
                          residency |-> "Resident", last_used |-> r.clock + 1]]

(* A refusal hands the charge back. *)
LEMMA RefusedKeeps ==
  ASSUME NEW r, RigOK(r)
  PROVE  RigOK(Refused(r)) /\ Refused(r).sess = r.sess /\ Refused(r).next_id = r.next_id
  <1> DEFINE a == adm_admit(r)
             e == Refused(r)
  <1>1. DOMAIN r = Fields /\ r.admitted \in Nat
    BY DEF RigOK, RigTypes
  <1>2. /\ DOMAIN a = Fields /\ a.admitted = r.admitted + 1
        /\ a.used = r.used /\ a.len = r.len /\ a.sess = r.sess /\ a.snaps = r.snaps
        /\ a.clock = r.clock /\ a.next_id = r.next_id
    BY <1>1 DEF adm_admit, Fields
  <1>3. e = [a EXCEPT !.admitted = IF @ = 0 THEN 0 ELSE @ - 1]
    BY DEF Refused, adm_release
  <1> HIDE DEF a, e
  <1>4. /\ DOMAIN e = Fields /\ e.admitted = r.admitted
        /\ e.used = r.used /\ e.len = r.len /\ e.sess = r.sess /\ e.snaps = r.snaps
        /\ e.clock = r.clock /\ e.next_id = r.next_id
    BY <1>1, <1>2, <1>3 DEF Fields
  <1>5. RigTypes(e)
    BY <1>4 DEF RigOK, RigTypes
  <1>6. RigOK(e)
    BY <1>4, <1>5, Unmoved
  <1> QED BY <1>4, <1>6 DEF e

(* A new session has the next id, a slot that was free and one charge. *)
LEMMA OpenedKeeps ==
  ASSUME NEW r, RigOK(r), r.next_id < MaxSessions, adm_fits(r), free_slots(r) # {},
         NEW e, e = Opened(r), NEW id, id = r.next_id
  PROVE  /\ RigOK(e)
         /\ id \in Ids /\ r.sess[id].residency = "Closed"
         /\ e.sess[id].slot \in Slots /\ ~ r.used[e.sess[id].slot]
         /\ e.sess[id].residency = "Resident"
         /\ \A i \in Ids \ {id} : e.sess[i] = r.sess[i]
  <1> DEFINE a == adm_admit(r)
             b == acquire(a)
             s == Min(free_slots(r))
             n == [slot |-> s, tokens |-> << >>, convo |-> << >>,
                   residency |-> "Resident", last_used |-> r.clock + 1]
  <1>1. /\ DOMAIN r = Fields /\ r.admitted \in Nat /\ r.clock \in Nat
        /\ r.next_id \in 0 .. MaxSessions /\ r.sess \in [Ids -> Sessions]
        /\ r.used \in [Slots -> BOOLEAN] /\ r.len \in [Slots -> 0 .. SlabCap]
        /\ \A i \in Ids : r.sess[i].last_used <= r.clock /\ r.sess[i].last_used \in Nat
        /\ DOMAIN r.snaps = Ids
        /\ \A i \in Ids : r.snaps[i].present \in BOOLEAN /\ Len(r.snaps[i].kv) \in 0 .. SlabCap
    BY DEF RigOK, RigTypes, Sessions
  <1>2. s \in Slots /\ ~ r.used[s]
    BY FreeSlot
  <1>3. id \in Ids /\ id + 1 \in 0 .. MaxSessions
    BY <1>1, Numbers
  <1>4. /\ DOMAIN a = Fields /\ a.admitted = r.admitted + 1
        /\ a.used = r.used /\ a.len = r.len /\ a.sess = r.sess /\ a.snaps = r.snaps
        /\ a.clock = r.clock /\ a.next_id = r.next_id
    BY <1>1 DEF adm_admit, Fields
  <1>5. free_slots(a) = free_slots(r)
    BY <1>4 DEF free_slots
  <1> HIDE DEF a
  <1>6. b = [a EXCEPT !.used[s] = TRUE, !.len[s] = 0]
    BY <1>5 DEF acquire
  <1> HIDE DEF s, b
  <1>7. /\ DOMAIN b = Fields /\ b.admitted = r.admitted + 1
        /\ b.used = [r.used EXCEPT ![s] = TRUE] /\ b.len = [r.len EXCEPT ![s] = 0]
        /\ b.sess = r.sess /\ b.snaps = r.snaps
        /\ b.clock = r.clock /\ b.next_id = r.next_id
    BY <1>4, <1>6 DEF Fields
  <1>8. e = [b EXCEPT !.next_id = @ + 1, !.clock = @ + 1, !.sess[id] = n]
    BY DEF Opened, b, s, a
  <1>9. n \in Sessions /\ n.slot = s /\ n.residency = "Resident" /\ n.last_used = r.clock + 1
    BY <1>1, <1>2, EmptySeq DEF Sessions, Residencies, Histories
  <1> HIDE DEF n
  <1>10. /\ DOMAIN e = Fields /\ e.admitted = r.admitted + 1
         /\ e.used = [r.used EXCEPT ![s] = TRUE] /\ e.len = [r.len EXCEPT ![s] = 0]
         /\ e.sess = [r.sess EXCEPT ![id] = n] /\ e.snaps = r.snaps
         /\ e.clock = r.clock + 1 /\ e.next_id = id + 1
    BY <1>7, <1>8 DEF Fields
  <1>11. /\ e.sess \in [Ids -> Sessions] /\ e.sess[id] = n
         /\ \A i \in Ids \ {id} : e.sess[i] = r.sess[i]
    BY <1>1, <1>3, <1>9, <1>10
  <1>12. /\ e.used \in [Slots -> BOOLEAN] /\ e.len \in [Slots -> 0 .. SlabCap]
         /\ \A t \in Slots : e.used[t] <=> r.used[t] \/ t = s
    BY <1>1, <1>2, <1>10, Consts
  <1>13. \A i \in Ids : e.sess[i].last_used <= e.clock
    BY <1>1, <1>9, <1>10, <1>11
  <1>14. RigTypes(e)
    BY <1>1, <1>3, <1>10, <1>11, <1>12, <1>13 DEF RigTypes
  <1>15. /\ r.sess[id].residency = "Closed" /\ r.sess[id].slot = NoSlot
         /\ ~ r.snaps[id].present
    BY <1>1, <1>3 DEF RigOK, Owned, Snapped, Ids
  <1>16. Owned(e)
    <2>0. Owned(r)
      BY DEF RigOK
    <2>1. \A t \in Slots : e.used[t] => \E i \in Ids : e.sess[i].slot = t
      <3> SUFFICES ASSUME NEW t \in Slots, e.used[t] PROVE \E i \in Ids : e.sess[i].slot = t
        OBVIOUS
      <3>1. CASE t = s
        BY <1>3, <1>9, <1>11, <3>1
      <3>2. CASE t # s
        <4>1. PICK i \in Ids : r.sess[i].slot = t
          BY <1>12, <2>0, <3>2 DEF Owned
        <4>2. i # id
          BY <1>15, <4>1, Numbers
        <4> QED BY <1>11, <4>1, <4>2
      <3> QED BY <3>1, <3>2
    <2>2. \A i \in Ids : e.sess[i].slot # NoSlot => e.used[e.sess[i].slot]
      <3> SUFFICES ASSUME NEW i \in Ids, e.sess[i].slot # NoSlot PROVE e.used[e.sess[i].slot]
        OBVIOUS
      <3>1. CASE i = id
        BY <1>2, <1>9, <1>11, <1>12, <3>1
      <3>2. CASE i # id
        <4>1. r.sess[i].slot \in Slots /\ e.sess[i] = r.sess[i]
          BY <1>1, <1>11, <3>2 DEF Sessions
        <4> QED BY <1>12, <2>0, <4>1 DEF Owned
      <3> QED BY <3>1, <3>2
    <2>3. \A i \in Ids : e.sess[i].slot # NoSlot <=> e.sess[i].residency = "Resident"
      BY <1>2, <1>9, <1>11, <2>0, Numbers DEF Owned
    <2>4. \A i \in Ids \ {id} : e.sess[i].slot # s
      <3> SUFFICES ASSUME NEW i \in Ids \ {id}, r.sess[i].slot = s PROVE FALSE
        BY <1>11
      <3> QED BY <1>2, <2>0, Numbers DEF Owned
    <2>5. \A i, j \in Ids : e.sess[i].slot = e.sess[j].slot /\ e.sess[i].slot # NoSlot => i = j
      BY <1>9, <1>11, <2>0, <2>4 DEF Owned
    <2>6. \A i \in Ids : i >= e.next_id => e.sess[i].residency = "Closed"
      <3> SUFFICES ASSUME NEW i \in Ids, i >= id + 1 PROVE e.sess[i].residency = "Closed"
        BY <1>10
      <3>1. i # id /\ i >= r.next_id
        BY <1>3, Numbers
      <3> QED BY <1>11, <2>0, <3>1 DEF Owned
    <2> QED BY <2>1, <2>2, <2>3, <2>5, <2>6 DEF Owned
  <1>17. Snapped(e)
    <2>1. Snapped(r)
      BY DEF RigOK
    <2> QED BY <1>9, <1>10, <1>11, <1>15, <2>1 DEF Snapped
  <1>18. Charged(e)
    <2>1. Live(e) = Live(r) \cup {id} /\ id \notin Live(r)
      BY <1>3, <1>9, <1>11, <1>15 DEF Live
    <2>2. Cardinality(Live(e)) = Cardinality(Live(r)) + 1
      BY <2>1, LiveFinite, FS_AddElement
    <2>3. r.admitted = Cardinality(Live(r))
      BY DEF RigOK, Charged
    <2>4. WeightBytes + (r.admitted + 1) * KvBytes < BudgetBytes
      BY Fits
    <2> QED BY <1>10, <2>2, <2>3, <2>4 DEF Charged
  <1>19. RigOK(e)
    BY <1>14, <1>16, <1>17, <1>18 DEF RigOK
  <1> QED BY <1>2, <1>3, <1>9, <1>11, <1>15, <1>19

(* open: refused with nothing changed, or a new session as above. *)
LEMMA OpenKeeps ==
  ASSUME NEW r, RigOK(r), r.next_id < MaxSessions, NEW x, x = open(r)
  PROVE  /\ RigOK(x.rig)
         /\ \/ x.id = NoId /\ x.rig.sess = r.sess /\ x.rig.next_id = r.next_id
            \/ /\ x.id \in Ids /\ r.sess[x.id].residency = "Closed"
               /\ x.rig.sess[x.id].slot \in Slots /\ ~ r.used[x.rig.sess[x.id].slot]
               /\ x.rig.sess[x.id].residency = "Resident"
               /\ \A i \in Ids \ {x.id} : x.rig.sess[i] = r.sess[i]
  <1>1. CASE ~ adm_fits(r)
    <2>1. x = [id |-> NoId, rig |-> r]
      BY <1>1 DEF open
    <2> QED BY <2>1
  <1>2. CASE adm_fits(r) /\ free_slots(r) = {}
    <2>1. x = [id |-> NoId, rig |-> Refused(r)]
      BY <1>2 DEF open, Refused
    <2> QED BY <2>1, RefusedKeeps
  <1>3. CASE adm_fits(r) /\ free_slots(r) # {}
    <2>1. x = [id |-> r.next_id, rig |-> Opened(r)]
      BY <1>3 DEF open, Opened
    <2>2. x.id = r.next_id /\ x.rig = Opened(r)
      BY <2>1
    <2> QED BY <1>3, <2>2, OpenedKeeps
  <1> QED BY <1>1, <1>2, <1>3

(* Fewer charges fit too. *)
LEMMA FewerFit ==
  ASSUME NEW m \in Nat, NEW n \in Nat, n <= m, n > 0,
         m > 0 => WeightBytes + m * KvBytes < BudgetBytes
  PROVE  WeightBytes + n * KvBytes < BudgetBytes
  <1>1. PICK d \in Nat : m = n + d
    <2>1. m - n \in Nat /\ m = n + (m - n)
      OBVIOUS
    <2> QED BY <2>1
  <1>2. m * KvBytes = n * KvBytes + d * KvBytes
    BY <1>1, Consts
  <1>3. n * KvBytes \in Nat /\ d * KvBytes \in Nat /\ m > 0
    BY <1>1, Consts
  <1> QED BY <1>2, <1>3, Consts

(* A closed session. *)
LEMMA NoSessionType ==
  /\ NoSession \in Sessions /\ NoSession.slot = NoSlot
  /\ NoSession.residency = "Closed" /\ NoSession.last_used = 0
  BY EmptySeq DEF NoSession, Sessions, Residencies, Histories

(* Closing sessions: what close and close_all come to. *)
LEMMA ClosedKeeps ==
  ASSUME NEW r, RigOK(r), NEW ids, ids \subseteq Live(r), NEW e,
         \A i \in ids : r.sess[i].residency = "Resident",
         DOMAIN e = Fields,
         e.used \in [Slots -> BOOLEAN],
         \A s \in Slots : e.used[s] <=> r.used[s] /\ \A i \in ids : r.sess[i].slot # s,
         e.len \in [Slots -> 0 .. SlabCap],
         \A i \in ids : e.sess[i] = NoSession,
         \A i \in Ids \ ids : e.sess[i] = r.sess[i],
         e.sess \in [Ids -> Sessions],
         e.admitted = r.admitted - Cardinality(ids),
         e.clock = r.clock, e.next_id = r.next_id, e.snaps = r.snaps
  PROVE  RigOK(e)
  <1>1. /\ r.admitted \in Nat /\ r.clock \in Nat
        /\ r.next_id \in 0 .. MaxSessions /\ r.sess \in [Ids -> Sessions]
        /\ \A i \in Ids : r.sess[i].last_used <= r.clock
        /\ DOMAIN r.snaps = Ids
        /\ \A i \in Ids : r.snaps[i].present \in BOOLEAN /\ Len(r.snaps[i].kv) \in 0 .. SlabCap
    BY DEF RigOK, RigTypes
  <1>2. /\ NoSession \in Sessions /\ NoSession.slot = NoSlot
        /\ NoSession.residency = "Closed" /\ NoSession.last_used = 0
    BY NoSessionType
  <1>3. ids \subseteq Ids
    BY LiveFinite
  <1>4. /\ \A i \in ids : e.sess[i] = NoSession
        /\ \A i \in Ids \ ids : e.sess[i] = r.sess[i]
        /\ e.sess \in [Ids -> Sessions]
    BY <1>1, <1>2, <1>3
  <1>5. Live(e) = Live(r) \ ids
    BY <1>2, <1>4 DEF Live
  <1>6. /\ Cardinality(Live(e)) = Cardinality(Live(r)) - Cardinality(ids)
        /\ Cardinality(Live(e)) \in Nat /\ Cardinality(ids) \in Nat
    <2>1. IsFiniteSet(ids) /\ IsFiniteSet(Live(e)) /\ Live(r) \cap ids = ids
      BY LiveFinite, FS_Subset
    <2>2. Cardinality(Live(r) \ ids) = Cardinality(Live(r)) - Cardinality(Live(r) \cap ids)
      <3> DEFINE L == Live(r)
      <3>1. IsFiniteSet(L)
        BY LiveFinite
      <3> HIDE DEF L
      <3>2. Cardinality(L \ ids) = Cardinality(L) - Cardinality(L \cap ids)
        BY ONLY <3>1, FS_Difference
      <3> QED BY <3>2 DEF L
    <2> QED BY <1>5, <2>1, <2>2, FS_CardinalityType
  <1>7. RigTypes(e)
    <2>1. \A i \in Ids : e.sess[i].last_used <= e.clock
      BY <1>1, <1>2, <1>4
    <2>2. e.admitted \in Nat
      BY <1>6 DEF RigOK, Charged
    <2> QED BY <1>1, <1>4, <2>1, <2>2 DEF RigTypes
  <1>8. Owned(e)
    <2>0. Owned(r)
      BY DEF RigOK
    <2>1. \A t \in Slots : e.used[t] => \E i \in Ids : e.sess[i].slot = t
      <3> SUFFICES ASSUME NEW t \in Slots, e.used[t] PROVE \E i \in Ids : e.sess[i].slot = t
        OBVIOUS
      <3>1. PICK i \in Ids : r.sess[i].slot = t
        BY <2>0 DEF Owned
      <3>2. i \notin ids
        BY <3>1
      <3> QED BY <1>4, <3>1, <3>2
    <2>2. \A i \in Ids : e.sess[i].slot # NoSlot => e.used[e.sess[i].slot]
      <3> SUFFICES ASSUME NEW i \in Ids, e.sess[i].slot # NoSlot PROVE e.used[e.sess[i].slot]
        OBVIOUS
      <3>1. i \notin ids /\ e.sess[i] = r.sess[i]
        BY <1>2, <1>4
      <3>2. r.sess[i].slot \in Slots
        BY <1>1, <3>1 DEF Sessions
      <3>3. \A j \in ids : r.sess[j].slot # r.sess[i].slot
        BY <1>3, <2>0, <3>1 DEF Owned
      <3> QED BY <2>0, <3>1, <3>2, <3>3 DEF Owned
    <2>3. \A i \in Ids : e.sess[i].slot # NoSlot <=> e.sess[i].residency = "Resident"
      BY <1>2, <1>4, <2>0 DEF Owned
    <2>4. \A i, j \in Ids : e.sess[i].slot = e.sess[j].slot /\ e.sess[i].slot # NoSlot => i = j
      BY <1>2, <1>4, <2>0 DEF Owned
    <2>5. \A i \in Ids : i >= e.next_id => e.sess[i].residency = "Closed"
      BY <1>2, <1>4, <2>0 DEF Owned
    <2> QED BY <2>1, <2>2, <2>3, <2>4, <2>5 DEF Owned
  <1>9. Snapped(e)
    <2>1. Snapped(r)
      BY DEF RigOK
    <2> QED BY <1>2, <1>3, <1>4, <2>1 DEF Snapped
  <1>10. Charged(e)
    <2>1. /\ r.admitted = Cardinality(Live(r))
          /\ r.admitted > 0 => WeightBytes + r.admitted * KvBytes < BudgetBytes
      BY DEF RigOK, Charged
    <2>2. e.admitted = Cardinality(Live(e)) /\ e.admitted \in Nat /\ e.admitted <= r.admitted
      BY <1>1, <1>6, <2>1
    <2> QED BY <1>1, <2>1, <2>2, FewerFit DEF Charged
  <1> QED BY <1>7, <1>8, <1>9, <1>10 DEF RigOK

(* close_all closes Resident sessions. *)
LEMMA CloseAllKeeps ==
  ASSUME NEW r, RigOK(r), NEW ids, ids \subseteq Live(r),
         \A i \in ids : r.sess[i].residency = "Resident",
         NEW e, e = close_all(r, ids)
  PROVE  RigOK(e) /\ \A i \in Ids \ ids : e.sess[i] = r.sess[i]
  <1>1. /\ DOMAIN r = Fields /\ r.used \in [Slots -> BOOLEAN]
        /\ r.len \in [Slots -> 0 .. SlabCap] /\ r.sess \in [Ids -> Sessions]
    BY DEF RigOK, RigTypes
  <1>2. /\ DOMAIN e = Fields
        /\ e.used = [s \in Slots |-> r.used[s] /\ \A i \in ids : r.sess[i].slot # s]
        /\ e.len = [s \in Slots |-> IF \E i \in ids : r.sess[i].slot = s THEN 0 ELSE r.len[s]]
        /\ e.sess = [i \in Ids |-> IF i \in ids THEN NoSession ELSE r.sess[i]]
        /\ e.admitted = r.admitted - Cardinality(ids)
        /\ e.clock = r.clock /\ e.next_id = r.next_id /\ e.snaps = r.snaps
    BY <1>1 DEF close_all, Fields
  <1>3. e.len \in [Slots -> 0 .. SlabCap]
    BY <1>1, <1>2, Consts
  <1>4. /\ e.used \in [Slots -> BOOLEAN]
        /\ \A s \in Slots : e.used[s] <=> r.used[s] /\ \A i \in ids : r.sess[i].slot # s
    BY <1>1, <1>2
  <1>5. /\ \A i \in ids : e.sess[i] = NoSession
        /\ \A i \in Ids \ ids : e.sess[i] = r.sess[i]
        /\ e.sess \in [Ids -> Sessions]
    BY <1>1, <1>2, LiveFinite, NoSessionType
  <1>6. /\ DOMAIN e = Fields /\ e.admitted = r.admitted - Cardinality(ids)
        /\ e.clock = r.clock /\ e.next_id = r.next_id /\ e.snaps = r.snaps
    BY <1>2
  <1>7. RigOK(e)
    BY <1>3, <1>4, <1>5, <1>6, ClosedKeeps
  <1> QED BY <1>5, <1>7

(* close of a Resident session, whose recurrent state may be anything. *)
LEMMA CloseKeeps ==
  ASSUME NEW r, RigOK(r), NEW id \in Ids, r.sess[id].residency = "Resident",
         NEW e, e = close(r, id)
  PROVE  RigOK(e) /\ \A i \in Ids \ {id} : e.sess[i] = r.sess[i]
  <1> DEFINE s == r.sess[id].slot
             y == pool_release(r, s)
             z == [y EXCEPT !.sess[id] = NoSession]
  <1>1. /\ DOMAIN r = Fields /\ r.used \in [Slots -> BOOLEAN]
        /\ r.len \in [Slots -> 0 .. SlabCap] /\ r.sess \in [Ids -> Sessions]
        /\ r.admitted \in Nat
    BY DEF RigOK, RigTypes
  <1>2. s # NoSlot /\ s \in Slots /\ id \in Live(r)
    BY <1>1 DEF RigOK, Owned, Live, Sessions
  <1>3. e = adm_release(z)
    BY <1>2 DEF close
  <1>4. /\ DOMAIN y = Fields
        /\ y.used = [r.used EXCEPT ![s] = FALSE] /\ y.len = [r.len EXCEPT ![s] = 0]
        /\ y.clock = r.clock /\ y.next_id = r.next_id /\ y.admitted = r.admitted
        /\ y.sess = r.sess /\ y.snaps = r.snaps
    BY <1>1 DEF pool_release, Fields
  <1> HIDE DEF y, s
  <1>5. /\ DOMAIN z = Fields
        /\ z.used = y.used /\ z.len = y.len
        /\ z.clock = y.clock /\ z.next_id = y.next_id /\ z.admitted = y.admitted
        /\ z.sess = [r.sess EXCEPT ![id] = NoSession] /\ z.snaps = y.snaps
    BY <1>4 DEF Fields
  <1> HIDE DEF z
  <1>6. /\ Cardinality({id}) = 1 /\ r.admitted >= 1
    <2>1. r.admitted = Cardinality(Live(r)) /\ Live(r) # {}
      BY <1>2 DEF RigOK, Charged
    <2>2. r.admitted # 0
      BY <2>1, LiveFinite, FS_EmptySet
    <2>3. Cardinality({id}) = 1
      BY FS_Singleton, Zenon
    <2> QED BY <1>1, <2>2, <2>3
  <1>7. /\ DOMAIN e = Fields
        /\ e.used = y.used /\ e.len = y.len
        /\ e.clock = r.clock /\ e.next_id = r.next_id /\ e.admitted = r.admitted - 1
        /\ e.sess = [r.sess EXCEPT ![id] = NoSession] /\ e.snaps = r.snaps
    BY <1>1, <1>3, <1>4, <1>5, <1>6 DEF adm_release, Fields
  <1>8. /\ \A i \in {id} : e.sess[i] = NoSession
        /\ \A i \in Ids \ {id} : e.sess[i] = r.sess[i]
        /\ e.sess \in [Ids -> Sessions]
    BY <1>1, <1>7, NoSessionType
  <1>9. e.len \in [Slots -> 0 .. SlabCap]
    BY <1>1, <1>2, <1>4, <1>7, Consts
  <1>10. /\ e.used \in [Slots -> BOOLEAN]
         /\ \A t \in Slots : e.used[t] <=> r.used[t] /\ \A i \in {id} : r.sess[i].slot # t
    BY <1>1, <1>2, <1>4, <1>7 DEF s
  <1>11. {id} \subseteq Live(r) /\ (\A i \in {id} : r.sess[i].residency = "Resident")
         /\ e.admitted = r.admitted - Cardinality({id})
    BY <1>2, <1>6, <1>7
  <1>12. RigOK(e)
    BY <1>7, <1>8, <1>9, <1>10, <1>11, ClosedKeeps
  <1> QED BY <1>8, <1>12

(* Two rigs whose sessions are in the same slots and residencies. *)
SamePlaces(r, e) ==
  /\ \A i \in Ids : e.sess[i].slot = r.sess[i].slot /\ e.sess[i].residency = r.sess[i].residency
  /\ e.used = r.used

(* begin_turn rewinds the slot and moves no session. *)
LEMMA BeginKeeps ==
  ASSUME NEW r, RigOK(r), NEW id \in Ids, r.sess[id].slot \in Slots,
         NEW prompt \in Seq(Tokens), NEW convo \in Histories,
         NEW x, x = begin_turn(r, id, prompt, convo)
  PROVE  RigOK(x.rig) /\ x.reused \in Nat /\ SamePlaces(r, x.rig)
  <1> DEFINE s == r.sess[id].slot
             n == plan_turn(r.sess[id].tokens, r.len[s], prompt)
             y == set_seq_len(r, s, n)
             e == [y EXCEPT !.sess[id].tokens = prompt, !.sess[id].convo = convo]
             a == r.sess[id]
             b == [a EXCEPT !.tokens = prompt]
             c == [b EXCEPT !.convo = convo]
  <1>1. /\ DOMAIN r = Fields /\ r.used \in [Slots -> BOOLEAN]
        /\ r.len \in [Slots -> 0 .. SlabCap] /\ r.sess \in [Ids -> Sessions]
        /\ \A i \in Ids : r.sess[i].last_used <= r.clock
        /\ DOMAIN r.snaps = Ids
        /\ \A i \in Ids : r.snaps[i].present \in BOOLEAN /\ Len(r.snaps[i].kv) \in 0 .. SlabCap
        /\ r.clock \in Nat /\ r.next_id \in 0 .. MaxSessions /\ r.admitted \in Nat
    BY DEF RigOK, RigTypes
  <1>2. x.reused = n /\ x.rig = e
    BY DEF begin_turn
  <1>3. n \in Nat /\ n \in 0 .. SlabCap
    <2>1. r.sess[id].tokens \in Seq(Tokens) /\ r.len[s] \in Nat /\ r.len[s] <= SlabCap
      BY <1>1, Consts DEF Sessions
    <2>2. n \in Nat /\ n <= r.len[s]
      BY <2>1, PlanType
    <2> HIDE DEF n, s
    <2> QED BY <2>1, <2>2, Consts
  <1>4. a \in Sessions /\ b \in Sessions /\ c \in Sessions
        /\ c.slot = a.slot /\ c.residency = a.residency /\ c.last_used = a.last_used
    <2>1. a \in Sessions
      BY <1>1
    <2> HIDE DEF a
    <2>2. b \in Sessions /\ b.slot = a.slot /\ b.residency = a.residency
          /\ b.last_used = a.last_used
      BY <2>1 DEF Sessions
    <2> HIDE DEF b
    <2> QED BY <2>1, <2>2 DEF Sessions
  <1> HIDE DEF n
  <1>5. /\ DOMAIN y = Fields
        /\ y.used = r.used /\ y.len = [r.len EXCEPT ![s] = n]
        /\ y.clock = r.clock /\ y.next_id = r.next_id /\ y.admitted = r.admitted
        /\ y.sess = r.sess /\ y.snaps = r.snaps
    BY <1>1 DEF set_seq_len, Fields
  <1> HIDE DEF y
  <1>6. /\ DOMAIN e = Fields
        /\ e.used = r.used /\ e.len = [r.len EXCEPT ![s] = n]
        /\ e.clock = r.clock /\ e.next_id = r.next_id /\ e.admitted = r.admitted
        /\ e.snaps = r.snaps
        /\ e.sess = [y.sess EXCEPT ![id].tokens = prompt, ![id].convo = convo]
    BY <1>5 DEF Fields
  <1>7. e.sess = [r.sess EXCEPT ![id] = c]
    BY <1>1, <1>5, <1>6
  <1> HIDE DEF a, b, c, e
  <1>8. e.sess \in [Ids -> Sessions] /\ e.sess[id] = c /\ \A i \in Ids \ {id} : e.sess[i] = r.sess[i]
    BY <1>1, <1>4, <1>7
  <1>9. /\ \A i \in Ids : /\ e.sess[i].slot = r.sess[i].slot
                          /\ e.sess[i].residency = r.sess[i].residency
                          /\ e.sess[i].last_used = r.sess[i].last_used
    BY <1>4, <1>8 DEF a
  <1>10. e.len \in [Slots -> 0 .. SlabCap]
    BY <1>1, <1>3, <1>6
  <1>11. RigTypes(e)
    BY <1>1, <1>6, <1>8, <1>9, <1>10 DEF RigTypes
  <1>12. RigOK(e)
    BY <1>6, <1>9, <1>11, Unmoved
  <1> QED BY <1>2, <1>3, <1>6, <1>9, <1>12 DEF SamePlaces

(* touch stamps a session. *)
LEMMA TouchKeeps ==
  ASSUME NEW r, RigOK(r), NEW id \in Ids, NEW e, e = touch(r, id)
  PROVE  RigOK(e) /\ SamePlaces(r, e)
  <1> DEFINE a == r.sess[id]
             b == [a EXCEPT !.last_used = r.clock + 1]
  <1>1. /\ DOMAIN r = Fields /\ r.used \in [Slots -> BOOLEAN]
        /\ r.len \in [Slots -> 0 .. SlabCap] /\ r.sess \in [Ids -> Sessions]
        /\ \A i \in Ids : r.sess[i].last_used <= r.clock /\ r.sess[i].last_used \in Nat
        /\ DOMAIN r.snaps = Ids
        /\ \A i \in Ids : r.snaps[i].present \in BOOLEAN /\ Len(r.snaps[i].kv) \in 0 .. SlabCap
        /\ r.clock \in Nat /\ r.next_id \in 0 .. MaxSessions /\ r.admitted \in Nat
    BY DEF RigOK, RigTypes, Sessions
  <1>2. /\ DOMAIN e = Fields
        /\ e.used = r.used /\ e.len = r.len
        /\ e.clock = r.clock + 1 /\ e.next_id = r.next_id /\ e.admitted = r.admitted
        /\ e.snaps = r.snaps
        /\ e.sess = [r.sess EXCEPT ![id] = b]
    BY <1>1 DEF touch, Fields
  <1>3. b \in Sessions /\ b.slot = a.slot /\ b.residency = a.residency
        /\ b.last_used = r.clock + 1
    <2>1. a \in Sessions /\ r.clock + 1 \in Nat
      BY <1>1
    <2> HIDE DEF a
    <2> QED BY <2>1 DEF Sessions
  <1> HIDE DEF b
  <1>4. e.sess \in [Ids -> Sessions] /\ e.sess[id] = b /\ \A i \in Ids \ {id} : e.sess[i] = r.sess[i]
    BY <1>1, <1>2, <1>3
  <1>5. \A i \in Ids : e.sess[i].slot = r.sess[i].slot /\ e.sess[i].residency = r.sess[i].residency
    BY <1>3, <1>4
  <1>6. \A i \in Ids : e.sess[i].last_used <= e.clock
    BY <1>1, <1>2, <1>3, <1>4
  <1>7. RigTypes(e)
    BY <1>1, <1>2, <1>4, <1>6 DEF RigTypes
  <1>8. RigOK(e)
    BY <1>2, <1>5, <1>7, Unmoved
  <1> QED BY <1>2, <1>5, <1>8 DEF SamePlaces

(* The lengths and the caches may change under the sessions. *)
LEMMA CachesKeep ==
  ASSUME NEW r, RigOK(r), NEW e, DOMAIN e = Fields, e.used = r.used,
         e.len \in [Slots -> 0 .. SlabCap], e.sess = r.sess, e.snaps = r.snaps,
         e.clock = r.clock, e.next_id = r.next_id, e.admitted = r.admitted
  PROVE  RigOK(e)
  <1>1. RigTypes(e)
    BY DEF RigOK, RigTypes
  <1> QED BY <1>1, Unmoved

(* A slotless session restored into the free slot s is its only owner. *)
LEMMA ResidentKeeps ==
  ASSUME NEW r, RigOK(r), NEW id \in Live(r), r.sess[id].slot = NoSlot,
         NEW s \in Slots, ~ r.used[s], NEW e, DOMAIN e = Fields,
         e.used \in [Slots -> BOOLEAN], \A t \in Slots : e.used[t] <=> r.used[t] \/ t = s,
         e.len \in [Slots -> 0 .. SlabCap],
         DOMAIN e.snaps = Ids, e.snaps[id] = NoSnap,
         \A i \in Ids \ {id} : e.snaps[i] = r.snaps[i],
         e.clock = r.clock + 1, e.next_id = r.next_id, e.admitted = r.admitted,
         e.sess \in [Ids -> Sessions], e.sess[id].slot = s,
         e.sess[id].residency = "Resident", e.sess[id].last_used = r.clock + 1,
         \A i \in Ids \ {id} : e.sess[i] = r.sess[i]
  PROVE  RigOK(e)
  <1>1. /\ r.used \in [Slots -> BOOLEAN] /\ r.sess \in [Ids -> Sessions]
        /\ \A i \in Ids : r.sess[i].last_used <= r.clock /\ r.sess[i].last_used \in Nat
        /\ DOMAIN r.snaps = Ids
        /\ \A i \in Ids : r.snaps[i].present \in BOOLEAN /\ Len(r.snaps[i].kv) \in 0 .. SlabCap
        /\ r.clock \in Nat /\ r.next_id \in 0 .. MaxSessions /\ r.admitted \in Nat
    BY DEF RigOK, RigTypes, Sessions
  <1>2. id \in Ids /\ r.sess[id].residency # "Closed" /\ s # NoSlot
    BY Numbers DEF Live
  <1>3. /\ e.sess \in [Ids -> Sessions] /\ e.sess[id].slot = s
        /\ e.sess[id].residency = "Resident" /\ e.sess[id].last_used = r.clock + 1
        /\ \A i \in Ids \ {id} : e.sess[i] = r.sess[i]
    OBVIOUS
  <1>4. /\ e.used \in [Slots -> BOOLEAN] /\ \A t \in Slots : e.used[t] <=> r.used[t] \/ t = s
    OBVIOUS
  <1>5. /\ DOMAIN e.snaps = Ids /\ e.snaps[id] = NoSnap
        /\ \A i \in Ids \ {id} : e.snaps[i] = r.snaps[i]
    OBVIOUS
  <1>6. RigTypes(e)
    <2>1. \A i \in Ids : e.sess[i].last_used <= e.clock
      BY <1>1, <1>3
    <2>2. \A i \in Ids : e.snaps[i].present \in BOOLEAN /\ Len(e.snaps[i].kv) \in 0 .. SlabCap
      BY <1>1, <1>5, NoSnapLen
    <2> QED BY <1>1, <1>3, <1>4, <1>5, <2>1, <2>2 DEF RigTypes
  <1>7. Owned(e)
    <2>0. Owned(r)
      BY DEF RigOK
    <2>1. \A t \in Slots : e.used[t] => \E i \in Ids : e.sess[i].slot = t
      <3> SUFFICES ASSUME NEW t \in Slots, e.used[t] PROVE \E i \in Ids : e.sess[i].slot = t
        OBVIOUS
      <3>1. CASE t = s
        BY <1>2, <1>3, <3>1
      <3>2. CASE t # s
        <4>1. PICK i \in Ids : r.sess[i].slot = t
          BY <1>4, <2>0, <3>2 DEF Owned
        <4>2. i # id
          BY <4>1, Numbers
        <4> QED BY <1>3, <4>1, <4>2
      <3> QED BY <3>1, <3>2
    <2>2. \A i \in Ids : e.sess[i].slot # NoSlot => e.used[e.sess[i].slot]
      <3> SUFFICES ASSUME NEW i \in Ids, e.sess[i].slot # NoSlot PROVE e.used[e.sess[i].slot]
        OBVIOUS
      <3>1. CASE i = id
        BY <1>3, <1>4, <3>1
      <3>2. CASE i # id
        <4>1. r.sess[i].slot \in Slots /\ e.sess[i] = r.sess[i]
          BY <1>1, <1>3, <3>2 DEF Sessions
        <4> QED BY <1>4, <2>0, <4>1 DEF Owned
      <3> QED BY <3>1, <3>2
    <2>3. \A i \in Ids : e.sess[i].slot # NoSlot <=> e.sess[i].residency = "Resident"
      BY <1>2, <1>3, <2>0 DEF Owned
    <2>4. \A i \in Ids \ {id} : e.sess[i].slot # s
      BY <1>2, <1>3, <2>0 DEF Owned
    <2>5. \A i, j \in Ids : e.sess[i].slot = e.sess[j].slot /\ e.sess[i].slot # NoSlot => i = j
      BY <1>3, <2>0, <2>4 DEF Owned
    <2>6. \A i \in Ids : i >= e.next_id => e.sess[i].residency = "Closed"
      BY <1>2, <1>3, <2>0 DEF Owned
    <2> QED BY <2>1, <2>2, <2>3, <2>5, <2>6 DEF Owned
  <1>8. Snapped(e)
    <2>1. Snapped(r)
      BY DEF RigOK
    <2> QED BY <1>2, <1>3, <1>5, <2>1, NoSnapLen DEF Snapped
  <1>9. Charged(e)
    <2>1. Live(e) = Live(r)
      BY <1>2, <1>3 DEF Live
    <2> QED BY <2>1 DEF RigOK, Charged
  <1> QED BY <1>3, <1>6, <1>7, <1>8, <1>9 DEF RigOK

(* A slotless session whose snapshot is gone becomes Cold. *)
LEMMA ColdKeeps ==
  ASSUME NEW r, RigOK(r), NEW id \in Live(r), r.sess[id].slot = NoSlot,
         NEW e, DOMAIN e = Fields, e.used = r.used,
         e.len \in [Slots -> 0 .. SlabCap],
         DOMAIN e.snaps = Ids, e.snaps[id] = NoSnap,
         \A i \in Ids \ {id} : e.snaps[i] = r.snaps[i],
         e.clock = r.clock, e.next_id = r.next_id, e.admitted = r.admitted,
         e.sess \in [Ids -> Sessions], e.sess[id].slot = NoSlot,
         e.sess[id].residency = "Cold", e.sess[id].last_used = r.sess[id].last_used,
         \A i \in Ids \ {id} : e.sess[i] = r.sess[i]
  PROVE  RigOK(e)
  <1>1. /\ r.used \in [Slots -> BOOLEAN] /\ r.sess \in [Ids -> Sessions]
        /\ \A i \in Ids : r.sess[i].last_used <= r.clock
        /\ DOMAIN r.snaps = Ids
        /\ \A i \in Ids : r.snaps[i].present \in BOOLEAN /\ Len(r.snaps[i].kv) \in 0 .. SlabCap
        /\ r.clock \in Nat /\ r.next_id \in 0 .. MaxSessions /\ r.admitted \in Nat
    BY DEF RigOK, RigTypes
  <1>2. id \in Ids /\ r.sess[id].residency # "Closed"
    BY DEF Live
  <1>3. /\ e.sess \in [Ids -> Sessions] /\ e.sess[id].slot = NoSlot
        /\ e.sess[id].residency = "Cold" /\ e.sess[id].last_used = r.sess[id].last_used
        /\ \A i \in Ids \ {id} : e.sess[i] = r.sess[i]
    OBVIOUS
  <1>5. /\ DOMAIN e.snaps = Ids /\ e.snaps[id] = NoSnap
        /\ \A i \in Ids \ {id} : e.snaps[i] = r.snaps[i]
    OBVIOUS
  <1>6. RigTypes(e)
    <2>1. \A i \in Ids : e.sess[i].last_used <= e.clock
      BY <1>1, <1>3
    <2>2. \A i \in Ids : e.snaps[i].present \in BOOLEAN /\ Len(e.snaps[i].kv) \in 0 .. SlabCap
      BY <1>1, <1>5, NoSnapLen
    <2> QED BY <1>1, <1>3, <1>5, <2>1, <2>2 DEF RigTypes
  <1>7. Owned(e)
    <2>0. Owned(r)
      BY DEF RigOK
    <2>1. \A i \in Ids : e.sess[i].slot = r.sess[i].slot
      BY <1>3
    <2>2. \A i \in Ids : e.sess[i].slot # NoSlot <=> e.sess[i].residency = "Resident"
      BY <1>2, <1>3, <2>0 DEF Owned
    <2>3. \A i \in Ids : i >= e.next_id => e.sess[i].residency = "Closed"
      BY <1>2, <1>3, <2>0 DEF Owned
    <2> QED BY <2>0, <2>1, <2>2, <2>3 DEF Owned
  <1>8. Snapped(e)
    <2>1. Snapped(r)
      BY DEF RigOK
    <2> QED BY <1>2, <1>3, <1>5, <2>1, NoSnapLen DEF Snapped
  <1>9. Charged(e)
    <2>1. Live(e) = Live(r)
      BY <1>2, <1>3 DEF Live
    <2> QED BY <2>1 DEF RigOK, Charged
  <1> QED BY <1>3, <1>6, <1>7, <1>8, <1>9 DEF RigOK

(* restore into the slot just acquired: Resident in it, or Cold with the   *)
(* slot given back by the caller (resume).                                 *)
LEMMA RestoreKeeps ==
  ASSUME NEW r, RigOK(r), free_slots(r) # {}, NEW id \in Live(r), r.sess[id].slot = NoSlot,
         NEW s, s = Min(free_slots(r)), NEW o \in RestoreOutcomes,
         NEW x, x = restore(acquire(r), id, s, o)
  PROVE  \/ /\ x.sess[id].residency = "Resident" /\ x.sess[id].slot = s /\ s \in Slots
            /\ RigOK(x) /\ x.next_id = r.next_id
            /\ \A i \in Ids \ {id} : x.sess[i] = r.sess[i]
         \/ /\ x.sess[id].residency = "Cold"
            /\ RigOK(pool_release(x, s)) /\ pool_release(x, s).next_id = r.next_id
            /\ \A i \in Ids \ {id} : pool_release(x, s).sess[i] = r.sess[i]
            /\ pool_release(x, s).sess[id].slot = NoSlot
  <1> DEFINE q == acquire(r)
             snap == q.snaps[id]
             tk == [q EXCEPT !.snaps[id] = NoSnap]
             a == r.sess[id]
  <1>1. /\ DOMAIN r = Fields /\ r.used \in [Slots -> BOOLEAN] /\ r.sess \in [Ids -> Sessions]
        /\ r.len \in [Slots -> 0 .. SlabCap] /\ r.clock \in Nat
        /\ DOMAIN r.snaps = Ids
        /\ \A i \in Ids : r.snaps[i].present \in BOOLEAN /\ Len(r.snaps[i].kv) \in 0 .. SlabCap
    BY DEF RigOK, RigTypes
  <1>2. s \in Slots /\ ~ r.used[s] /\ id \in Ids
    BY FreeSlot DEF Live
  <1>3. a \in Sessions /\ a.slot = NoSlot
    BY <1>1, <1>2
  <1>4. /\ DOMAIN q = Fields
        /\ q.used = [r.used EXCEPT ![s] = TRUE] /\ q.len = [r.len EXCEPT ![s] = 0]
        /\ q.sess = r.sess /\ q.snaps = r.snaps /\ q.clock = r.clock
        /\ q.next_id = r.next_id /\ q.admitted = r.admitted
    BY <1>1 DEF acquire, Fields
  <1> HIDE DEF q
  <1>5. /\ DOMAIN tk = Fields
        /\ tk.used = [r.used EXCEPT ![s] = TRUE] /\ tk.len = [r.len EXCEPT ![s] = 0]
        /\ tk.sess = r.sess /\ tk.snaps = [r.snaps EXCEPT ![id] = NoSnap] /\ tk.clock = r.clock
        /\ tk.next_id = r.next_id /\ tk.admitted = r.admitted
    BY <1>1, <1>4 DEF Fields
  <1>6. Len(snap.kv) \in 0 .. SlabCap
    BY <1>1, <1>2, <1>4
  <1>7. CASE o = "ok" /\ snap.present
    <2> DEFINE y == restore_slot(tk, s, snap)
               z == touch(y, id)
               b == [a EXCEPT !.last_used = r.clock + 1]
               d == [b EXCEPT !.slot = s]
               c == [d EXCEPT !.residency = "Resident"]
    <2>1. x = mark_resident(y, id, s)
      BY <1>7 DEF restore, q
    <2> HIDE DEF tk, snap
    <2>2. /\ DOMAIN y = Fields
          /\ y.used = tk.used /\ y.len = [tk.len EXCEPT ![s] = Len(snap.kv)]
          /\ y.sess = tk.sess /\ y.snaps = tk.snaps /\ y.clock = tk.clock
          /\ y.next_id = tk.next_id /\ y.admitted = tk.admitted
      BY <1>5 DEF restore_slot, Fields
    <2> HIDE DEF y
    <2>3. /\ DOMAIN z = Fields
          /\ z.used = y.used /\ z.len = y.len
          /\ z.sess = [y.sess EXCEPT ![id].last_used = y.clock + 1]
          /\ z.snaps = y.snaps /\ z.clock = y.clock + 1
          /\ z.next_id = y.next_id /\ z.admitted = y.admitted
      BY <2>2 DEF touch, Fields
    <2>4. x = [z EXCEPT !.sess[id].slot = s, !.sess[id].residency = "Resident"]
      BY <2>1 DEF mark_resident
    <2> HIDE DEF z
    <2>5. /\ DOMAIN x = Fields
          /\ x.used = z.used /\ x.len = z.len
          /\ x.sess = [z.sess EXCEPT ![id].slot = s, ![id].residency = "Resident"]
          /\ x.snaps = z.snaps /\ x.clock = z.clock
          /\ x.next_id = z.next_id /\ x.admitted = z.admitted
      BY <2>3, <2>4 DEF Fields
    <2>6. z.sess = [r.sess EXCEPT ![id] = b]
      BY <1>1, <1>2, <1>5, <2>2, <2>3
    <2>7. x.sess = [r.sess EXCEPT ![id] = c]
      BY <1>1, <1>2, <2>5, <2>6
    <2>8. c \in Sessions /\ c.slot = s /\ c.residency = "Resident" /\ c.last_used = r.clock + 1
      <3>0. r.clock + 1 \in Nat
        BY <1>1
      <3> HIDE DEF a
      <3>1. b \in Sessions /\ b.last_used = r.clock + 1
        BY <1>3, <3>0 DEF Sessions
      <3> HIDE DEF b
      <3>2. d \in Sessions /\ d.last_used = r.clock + 1 /\ d.slot = s
        BY <1>2, <3>1 DEF Sessions
      <3> HIDE DEF d
      <3> QED BY <3>2 DEF Sessions, Residencies
    <2>9. x.len \in [Slots -> 0 .. SlabCap]
      <3>1. tk.len \in [Slots -> 0 .. SlabCap]
        BY <1>1, <1>2, <1>5, Consts
      <3> QED BY <1>2, <1>6, <2>2, <2>3, <2>5, <3>1
    <2>10. /\ x.used = [r.used EXCEPT ![s] = TRUE] /\ x.snaps = [r.snaps EXCEPT ![id] = NoSnap]
           /\ x.clock = r.clock + 1 /\ x.next_id = r.next_id /\ x.admitted = r.admitted
      BY <1>5, <2>2, <2>3, <2>5
    <2> HIDE DEF c
    <2>11. RigOK(x) /\ x.sess[id] = c /\ \A i \in Ids \ {id} : x.sess[i] = r.sess[i]
      <3>1. DOMAIN x = Fields
        BY <2>5
      <3>2. /\ x.used \in [Slots -> BOOLEAN] /\ \A t \in Slots : x.used[t] <=> r.used[t] \/ t = s
        BY <1>1, <1>2, <2>10
      <3>3. /\ DOMAIN x.snaps = Ids /\ x.snaps[id] = NoSnap
            /\ \A i \in Ids \ {id} : x.snaps[i] = r.snaps[i]
        BY <1>1, <1>2, <2>10
      <3>4. /\ x.sess \in [Ids -> Sessions] /\ x.sess[id] = c
            /\ \A i \in Ids \ {id} : x.sess[i] = r.sess[i]
        BY <1>1, <1>2, <2>7, <2>8
      <3>5. x.sess[id].slot = s /\ x.sess[id].residency = "Resident"
            /\ x.sess[id].last_used = r.clock + 1
        BY <2>8, <3>4
      <3>6. x.clock = r.clock + 1 /\ x.next_id = r.next_id /\ x.admitted = r.admitted
        BY <2>10
      <3> HIDE DEF snap, q, a
      <3>7. RigOK(x)
        BY <1>2, <3>1, <2>9, <3>2, <3>3, <3>4, <3>5, <3>6, ResidentKeeps
      <3> QED BY <3>4, <3>7
    <2> QED BY <1>2, <2>8, <2>10, <2>11
  <1>8. CASE ~ (o = "ok" /\ snap.present)
    <2> DEFINE b == [a EXCEPT !.slot = NoSlot]
               c == [b EXCEPT !.residency = "Cold"]
               e == pool_release(x, s)
    <2>1. PICK y : /\ x = mark_cold(y, id)
                   /\ DOMAIN y = Fields
                   /\ y.used = tk.used /\ y.len = tk.len
                   /\ y.sess = tk.sess /\ y.snaps = tk.snaps /\ y.clock = tk.clock
                   /\ y.next_id = tk.next_id /\ y.admitted = tk.admitted
      <3>1. CASE o = "unpark_failed" \/ ~ snap.present
        <4>1. x = mark_cold(tk, id)
          BY <3>1 DEF restore, q
        <4> QED BY <1>5, <4>1
      <3>2. CASE o = "copy_failed" /\ snap.present
        <4> DEFINE y == restore_slot_fails(tk, s, snap)
        <4>1. x = mark_cold(y, id)
          BY <3>2 DEF restore, q
        <4> HIDE DEF tk, snap
        <4>2. /\ DOMAIN y = Fields
              /\ y.used = tk.used /\ y.len = tk.len
              /\ y.sess = tk.sess /\ y.snaps = tk.snaps /\ y.clock = tk.clock
              /\ y.next_id = tk.next_id /\ y.admitted = tk.admitted
          BY <1>5 DEF restore_slot_fails, Fields
        <4> QED BY <4>1, <4>2
      <3> QED BY <1>8, <3>1, <3>2 DEF RestoreOutcomes
    <2> HIDE DEF tk, snap
    <2>2. y.sess = r.sess /\ y.sess[id].slot = NoSlot
      BY <1>5, <2>1
    <2>3. x = [[y EXCEPT !.sess[id].slot = NoSlot] EXCEPT !.sess[id].residency = "Cold"]
      BY <2>1, <2>2 DEF mark_cold, give_up_slot
    <2> DEFINE w == [y EXCEPT !.sess[id].slot = NoSlot]
    <2>4. /\ DOMAIN w = Fields
          /\ w.used = tk.used /\ w.len = tk.len
          /\ w.sess = [r.sess EXCEPT ![id] = b] /\ w.snaps = tk.snaps /\ w.clock = tk.clock
          /\ w.next_id = tk.next_id /\ w.admitted = tk.admitted
      BY <2>1, <2>2 DEF Fields
    <2>5. x = [w EXCEPT !.sess[id].residency = "Cold"]
      BY <2>3
    <2> HIDE DEF w, b
    <2>6. /\ DOMAIN x = Fields
          /\ x.used = tk.used /\ x.len = tk.len
          /\ x.sess = [w.sess EXCEPT ![id].residency = "Cold"] /\ x.snaps = tk.snaps
          /\ x.clock = tk.clock /\ x.next_id = tk.next_id /\ x.admitted = tk.admitted
      BY <2>4, <2>5 DEF Fields
    <2>7. x.sess = [r.sess EXCEPT ![id] = c]
      BY <1>1, <1>2, <2>4, <2>6
    <2>8. c \in Sessions /\ c.slot = NoSlot /\ c.residency = "Cold"
          /\ c.last_used = r.sess[id].last_used
      <3>1. b \in Sessions /\ b.slot = NoSlot /\ b.last_used = a.last_used
        <4> HIDE DEF a
        <4> QED BY <1>3 DEF Sessions, b
      <3> QED BY <3>1 DEF Sessions, Residencies
    <2> HIDE DEF c
    <2>9. /\ DOMAIN e = Fields
          /\ e.used = [x.used EXCEPT ![s] = FALSE] /\ e.len = [x.len EXCEPT ![s] = 0]
          /\ e.sess = x.sess /\ e.snaps = x.snaps /\ e.clock = x.clock
          /\ e.next_id = x.next_id /\ e.admitted = x.admitted
      BY <2>6 DEF pool_release, Fields
    <2> HIDE DEF e
    <2>10. e.used = r.used
      BY <1>1, <1>2, <1>5, <2>6, <2>9
    <2>11. e.len \in [Slots -> 0 .. SlabCap]
      <3>1. tk.len \in [Slots -> 0 .. SlabCap]
        BY <1>1, <1>2, <1>5, Consts
      <3> QED BY <1>2, <2>6, <2>9, <3>1, Consts
    <2>12. /\ e.snaps = [r.snaps EXCEPT ![id] = NoSnap] /\ e.sess = [r.sess EXCEPT ![id] = c]
           /\ e.clock = r.clock /\ e.next_id = r.next_id /\ e.admitted = r.admitted
      BY <1>5, <2>6, <2>7, <2>9
    <2>13. RigOK(e) /\ e.sess[id] = c /\ \A i \in Ids \ {id} : e.sess[i] = r.sess[i]
      <3>1. DOMAIN e = Fields
        BY <2>9
      <3>3. /\ DOMAIN e.snaps = Ids /\ e.snaps[id] = NoSnap
            /\ \A i \in Ids \ {id} : e.snaps[i] = r.snaps[i]
        BY <1>1, <1>2, <2>12
      <3>4. /\ e.sess \in [Ids -> Sessions] /\ e.sess[id] = c
            /\ \A i \in Ids \ {id} : e.sess[i] = r.sess[i]
        BY <1>1, <1>2, <2>8, <2>12
      <3>5. e.sess[id].slot = NoSlot /\ e.sess[id].residency = "Cold"
            /\ e.sess[id].last_used = r.sess[id].last_used
        BY <2>8, <3>4
      <3>6. e.clock = r.clock /\ e.next_id = r.next_id /\ e.admitted = r.admitted
        BY <2>12
      <3> HIDE DEF snap, q, a
      <3>7. RigOK(e)
        BY <3>1, <2>10, <2>11, <3>3, <3>4, <3>5, <3>6, ColdKeeps
      <3> QED BY <3>4, <3>7
    <2>14. x.sess[id].residency = "Cold"
      BY <2>8, <2>9, <2>13
    <2> QED BY <2>8, <2>12, <2>13, <2>14 DEF e
  <1> QED BY <1>7, <1>8

(* A reset of a slot's recurrent state. *)
Reset(r, s, v) == [r EXCEPT !.dn[s] = v]

(* It moves no session. *)
LEMMA ResetKeeps ==
  ASSUME NEW r, RigOK(r), NEW s, NEW v, NEW e, e = Reset(r, s, v)
  PROVE  RigOK(e) /\ e.sess = r.sess /\ e.used = r.used
  <1>1. DOMAIN r = Fields /\ r.len \in [Slots -> 0 .. SlabCap]
    BY DEF RigOK, RigTypes
  <1>2. /\ DOMAIN e = Fields /\ e.used = r.used /\ e.len = r.len /\ e.sess = r.sess
        /\ e.snaps = r.snaps /\ e.clock = r.clock /\ e.next_id = r.next_id
        /\ e.admitted = r.admitted
    BY <1>1 DEF Fields, Reset
  <1>3. RigOK(e)
    BY <1>1, <1>2, CachesKeep
  <1> QED BY <1>2, <1>3

-----------------------------------------------------------------------------
(* admit *)

(* From rig r to rig e, no session in flight changes its slot. *)
Spares(r, e) == \A i \in Busy : e.sess[i].slot = r.sess[i].slot

(* The sessions in flight are Resident. *)
LEMMA BusyResident ==
  ASSUME NEW r, RigOK(r), Flying(r)
  PROVE  /\ Busy \subseteq Live(r)
         /\ \A i \in Busy : r.sess[i].slot \in Slots /\ r.sess[i].residency = "Resident"
  <1>1. \A i \in Busy : i \in Ids /\ r.sess[i].slot \in Slots
    BY DEF Busy, Flying, InFlight
  <1>2. \A i \in Busy : r.sess[i].residency = "Resident"
    BY <1>1, Numbers DEF RigOK, Owned
  <1> QED BY <1>1, <1>2 DEF Live

(* Who spares the sessions in flight keeps the flights in their slots. *)
LEMMA SparesFly ==
  ASSUME NEW r, NEW e, Flying(r), Spares(r, e)
  PROVE  Flying(e)
  BY DEF Flying, Spares, Busy

(* Sparing composes. *)
LEMMA SparesChain ==
  ASSUME NEW r, NEW x, NEW e, Spares(r, x), Spares(x, e)
  PROVE  Spares(r, e)
  BY DEF Spares

(* Moving nobody spares them. *)
LEMMA SamePlacesSpare ==
  ASSUME NEW r, RigOK(r), Flying(r), NEW e, SamePlaces(r, e)
  PROVE  Spares(r, e)
  <1>1. Busy \subseteq Ids
    BY BusyResident, LiveFinite
  <1> QED BY <1>1 DEF SamePlaces, Spares

(* So does moving one session that is not in flight. *)
LEMMA OthersSpare ==
  ASSUME NEW r, RigOK(r), Flying(r), NEW e, NEW v, v \notin Busy,
         \A i \in Ids \ {v} : e.sess[i] = r.sess[i]
  PROVE  Spares(r, e)
  <1>1. Busy \subseteq Ids
    BY BusyResident, LiveFinite
  <1> QED BY <1>1 DEF Spares

(* Making room evicts an idle session or does nothing. *)
LEMMA MakeRoomKeeps ==
  ASSUME NEW r, RigOK(r), Flying(r), NEW o \in EvictOutcomes, NEW e, e = make_room(r, o)
  PROVE  /\ RigOK(e) /\ e.next_id = r.next_id /\ Spares(r, e)
         /\ \A i \in Ids : r.sess[i].slot = NoSlot => e.sess[i] = r.sess[i]
  <1> DEFINE v == lru_idle_victim(r, Busy)
  <1>1. CASE free_slots(r) = {} /\ v # NoId
    <2>1. e = evict(r, v, o)
      BY <1>1 DEF make_room
    <2>2. v \in Ids \ Busy /\ r.sess[v].slot # NoSlot
      <3>1. RigTypes(r)
        BY DEF RigOK
      <3> QED BY <1>1, <3>1, Victim DEF Live
    <2> HIDE DEF v
    <2>3. /\ RigOK(e) /\ e.next_id = r.next_id /\ \A i \in Ids \ {v} : e.sess[i] = r.sess[i]
      BY <2>1, <2>2, EvictKeeps
    <2>4. Spares(r, e)
      BY <2>2, <2>3, OthersSpare
    <2> QED BY <2>2, <2>3, <2>4
  <1>2. CASE ~ (free_slots(r) = {} /\ v # NoId)
    <2>1. e = r
      BY <1>2 DEF make_room
    <2> QED BY <2>1 DEF Spares
  <1> QED BY <1>1, <1>2

(* resume: nothing to continue, or an idle session Resident in a slot. *)
LEMMA ResumeKeeps ==
  ASSUME RigOK(rig), Flying(rig), NEW q \in Requests, NEW o \in AdmitOutcomes,
         NEW c, c = resume(q, o)
  PROVE  /\ RigOK(c.rig) /\ c.rig.next_id = rig.next_id /\ Spares(rig, c.rig)
         /\ c.slot # NoSlot => /\ c.id \in Ids \ Busy
                               /\ c.rig.sess[c.id].slot = c.slot /\ c.slot \in Slots
  <1> DEFINE id == IF Continuation[q] = << >> THEN NoId
                   ELSE find_continuation(rig, Convo[q], Busy)
             r1 == make_room(rig, o.evict1)
             s  == Min(free_slots(r1))
             r2 == restore(acquire(r1), id, s, o.restore)
  <1>1. o.evict1 \in EvictOutcomes /\ o.restore \in RestoreOutcomes
    BY DEF AdmitOutcomes
  <1>2. c = IF id = NoId THEN [id |-> NoId, slot |-> NoSlot, rig |-> rig]
            ELSE IF rig.sess[id].slot # NoSlot
                 THEN [id |-> id, slot |-> rig.sess[id].slot, rig |-> rig]
            ELSE IF free_slots(r1) = {} THEN [id |-> id, slot |-> NoSlot, rig |-> r1]
            ELSE IF r2.sess[id].residency = "Resident" THEN [id |-> id, slot |-> s, rig |-> r2]
            ELSE [id |-> id, slot |-> NoSlot, rig |-> pool_release(r2, s)]
    BY DEF resume
  <1>3. RigTypes(rig) /\ rig.sess \in [Ids -> Sessions]
    BY DEF RigOK, RigTypes
  <1>4. id = NoId \/ (id \in Live(rig) \ Busy)
    BY <1>3, Continues
  <1>5. /\ RigOK(r1) /\ r1.next_id = rig.next_id /\ Spares(rig, r1)
        /\ \A i \in Ids : rig.sess[i].slot = NoSlot => r1.sess[i] = rig.sess[i]
    BY <1>1, MakeRoomKeeps
  <1>6. RigOK(rig) /\ Spares(rig, rig)
    BY DEF Spares
  <1> HIDE DEF id, r1
  <1>7. CASE id = NoId
    BY <1>2, <1>6, <1>7
  <1>8. CASE id # NoId /\ rig.sess[id].slot # NoSlot
    <2>1. c = [id |-> id, slot |-> rig.sess[id].slot, rig |-> rig]
      BY <1>2, <1>8
    <2>2. id \in Ids \ Busy /\ rig.sess[id].slot \in Slots
      BY <1>3, <1>4, <1>8 DEF Live, Sessions
    <2> QED BY <1>6, <2>1, <2>2
  <1>9. CASE id # NoId /\ rig.sess[id].slot = NoSlot /\ free_slots(r1) = {}
    <2>1. c = [id |-> id, slot |-> NoSlot, rig |-> r1]
      BY <1>2, <1>9
    <2> QED BY <1>5, <2>1
  <1>10. CASE id # NoId /\ rig.sess[id].slot = NoSlot /\ free_slots(r1) # {}
    <2>1. id \in Ids \ Busy /\ id \in Live(r1) /\ r1.sess[id].slot = NoSlot
      BY <1>4, <1>5, <1>10 DEF Live
    <2>2. c = IF r2.sess[id].residency = "Resident" THEN [id |-> id, slot |-> s, rig |-> r2]
              ELSE [id |-> id, slot |-> NoSlot, rig |-> pool_release(r2, s)]
      BY <1>2, <1>10
    <2>3. \/ /\ r2.sess[id].residency = "Resident" /\ r2.sess[id].slot = s /\ s \in Slots
             /\ RigOK(r2) /\ r2.next_id = r1.next_id
             /\ \A i \in Ids \ {id} : r2.sess[i] = r1.sess[i]
          \/ /\ r2.sess[id].residency = "Cold"
             /\ RigOK(pool_release(r2, s)) /\ pool_release(r2, s).next_id = r1.next_id
             /\ \A i \in Ids \ {id} : pool_release(r2, s).sess[i] = r1.sess[i]
      BY <1>1, <1>5, <1>10, <2>1, RestoreKeeps
    <2>4. Flying(r1)
      BY <1>5, SparesFly
    <2> HIDE DEF r2, s
    <2>5. CASE r2.sess[id].residency = "Resident"
      <3>1. c.id = id /\ c.slot = s /\ c.rig = r2
        BY <2>2, <2>5
      <3>2. Spares(r1, r2)
        BY <1>5, <2>1, <2>3, <2>4, <2>5, OthersSpare
      <3>3. Spares(rig, r2)
        BY <1>5, <3>2, SparesChain
      <3> QED BY <1>5, <2>1, <2>3, <2>5, <3>1, <3>3
    <2>6. CASE r2.sess[id].residency # "Resident"
      <3> DEFINE p == pool_release(r2, s)
      <3>1. c.slot = NoSlot /\ c.rig = p
        BY <2>2, <2>6
      <3>2. RigOK(p) /\ p.next_id = r1.next_id /\ \A i \in Ids \ {id} : p.sess[i] = r1.sess[i]
        BY <2>3, <2>6
      <3> HIDE DEF p
      <3>3. Spares(r1, p)
        BY <1>5, <2>1, <2>4, <3>2, OthersSpare
      <3>4. Spares(rig, p)
        BY <1>5, <3>3, SparesChain
      <3> QED BY <1>5, <3>1, <3>2, <3>4
    <2> QED BY <2>5, <2>6
  <1> QED BY <1>7, <1>8, <1>9, <1>10

(* How a turn ends: started in a slot of its own, or not.                  *)
Started(q) ==
  /\ ~ Gone(q)
  /\ reply' = [reply EXCEPT ![q] = "Accepted"]
  /\ \E id \in Ids \ Busy, s \in Slots, rest \in Seq(Tokens), n \in Nat :
       /\ rig'.sess[id].slot = s
       /\ work' = [work EXCEPT ![s] = [remaining |-> rest, next_pos |-> n]]
       /\ slots' = [slots EXCEPT ![s] = [session |-> id, req |-> q, produced |-> 0]]

TurnedAway(q) ==
  /\ slots' = slots /\ work' = work
  /\ \/ Gone(q) /\ reply' = reply
     \/ \E e \in Terminal : reply' = [reply EXCEPT ![q] = e]

Admitted(q) == RigOK(rig') /\ Spares(rig, rig') /\ (Started(q) \/ TurnedAway(q))

(* The part of a prompt that is left to feed. *)
LEMMA RestType ==
  ASSUME NEW p \in Seq(Tokens), NEW n \in Nat
  PROVE  SubSeq(p, n + 1, Len(p)) \in Seq(Tokens)
  <1>1. \A i \in n + 1 .. Len(p) : p[i] \in Tokens
    BY ElementOfSeq
  <1> QED BY <1>1, SubSeqProperties

(* A continued session goes on in its slot. *)
LEMMA ContinueKeeps ==
  ASSUME RigOK(rig), Flying(rig), NEW q \in Requests, NEW c,
         RigOK(c.rig), Spares(rig, c.rig), c.id \in Ids \ Busy,
         c.rig.sess[c.id].slot = c.slot, c.slot \in Slots, ContinueTurn(q, c)
  PROVE  Admitted(q)
  <1> DEFINE x == c.rig.sess[c.id].tokens \o Continuation[q]
             turn == begin_turn(c.rig, c.id, x, Convo[q])
  <1>1. /\ Post(q, "Accepted")
        /\ IF Gone(q)
           THEN rig' = turn.rig /\ UNCHANGED << slots, work >>
           ELSE /\ rig' = touch(turn.rig, c.id)
                /\ StartTurn(q, c.id, c.slot, x, turn.reused)
    BY DEF ContinueTurn
  <1>2. x \in Seq(Tokens)
    <2>1. c.rig.sess[c.id].tokens \in Seq(Tokens)
      BY DEF RigOK, RigTypes, Sessions
    <2> QED BY <2>1, Texts, ConcatProperties
  <1> HIDE DEF x
  <1>3. RigOK(turn.rig) /\ turn.reused \in Nat /\ SamePlaces(c.rig, turn.rig)
    BY <1>2, Texts, BeginKeeps
  <1> HIDE DEF turn
  <1>4. Flying(c.rig) /\ Spares(rig, turn.rig)
    BY <1>3, SparesFly, SamePlacesSpare, SparesChain
  <1>5. Flying(turn.rig)
    BY <1>4, SparesFly
  <1>6. CASE Gone(q)
    <2>1. rig' = turn.rig /\ slots' = slots /\ work' = work /\ reply' = reply
      BY <1>1, <1>6 DEF Post
    <2> QED BY <1>3, <1>4, <1>6, <2>1 DEF Admitted, TurnedAway
  <1>7. CASE ~ Gone(q)
    <2> DEFINE t == touch(turn.rig, c.id)
    <2>1. /\ rig' = t /\ reply' = [reply EXCEPT ![q] = "Accepted"]
          /\ StartTurn(q, c.id, c.slot, x, turn.reused)
      BY <1>1, <1>7 DEF Post
    <2>2. RigOK(t) /\ SamePlaces(turn.rig, t)
      BY <1>3, TouchKeeps
    <2> HIDE DEF t
    <2>3. Spares(rig, t)
      BY <1>3, <1>4, <1>5, <2>2, SamePlacesSpare, SparesChain
    <2>4. t.sess[c.id].slot = c.slot
      BY <1>3, <2>2 DEF SamePlaces
    <2>5. SubSeq(x, turn.reused + 1, Len(x)) \in Seq(Tokens)
      BY <1>2, <1>3, RestType
    <2>6. Started(q)
      BY <1>3, <1>7, <2>1, <2>4, <2>5 DEF Started, StartTurn
    <2> QED BY <2>1, <2>2, <2>3, <2>6 DEF Admitted
  <1> QED BY <1>6, <1>7

(* A new session starts cold, or is closed again. *)
LEMMA ColdTurnKeeps ==
  ASSUME RigOK(rig), Flying(rig), NEW q \in Requests, NEW x, NEW o,
         RigOK(x.rig), Spares(rig, x.rig), x.id \in Ids \ Busy,
         x.rig.sess[x.id].slot \in Slots, x.rig.sess[x.id].residency = "Resident",
         ColdTurn(q, x, o)
  PROVE  Admitted(q)
  <1> DEFINE s == x.rig.sess[x.id].slot
             d == Reset(x.rig, s, << >>)
             j == Reset(x.rig, s, << "junk" >>)
             turn == begin_turn(d, x.id, Prompt[q], Convo[q])
  <1>1. IF o.reset # "ok"
        THEN /\ Post(q, "reset failed")
             /\ rig' = close(j, x.id)
             /\ UNCHANGED << slots, work >>
        ELSE /\ Post(q, "Accepted")
             /\ IF Gone(q)
                THEN rig' = close(turn.rig, x.id) /\ UNCHANGED << slots, work >>
                ELSE /\ rig' = turn.rig
                     /\ StartTurn(q, x.id, s, Prompt[q], turn.reused)
    BY DEF ColdTurn, Reset
  <1>2. /\ RigOK(d) /\ d.sess = x.rig.sess /\ d.used = x.rig.used
        /\ RigOK(j) /\ j.sess = x.rig.sess /\ j.used = x.rig.used
    BY ResetKeeps
  <1> HIDE DEF d, j
  <1>3. Spares(rig, d) /\ Spares(rig, j)
    BY <1>2 DEF Spares
  <1>4. RigOK(turn.rig) /\ turn.reused \in Nat /\ SamePlaces(d, turn.rig)
    BY <1>2, Texts, BeginKeeps
  <1> HIDE DEF turn
  <1>5. Flying(d) /\ Flying(j)
    BY <1>3, SparesFly
  <1>6. Spares(rig, turn.rig)
    BY <1>2, <1>3, <1>4, <1>5, SamePlacesSpare, SparesChain
  <1>7. Flying(turn.rig)
    BY <1>6, SparesFly
  <1>8. CASE o.reset # "ok"
    <2> DEFINE k == close(j, x.id)
    <2>1. rig' = k /\ slots' = slots /\ work' = work /\ Post(q, "reset failed")
      BY <1>1, <1>8
    <2>2. RigOK(k) /\ \A i \in Ids \ {x.id} : k.sess[i] = j.sess[i]
      BY <1>2, CloseKeeps
    <2> HIDE DEF k
    <2>3. Spares(rig, k)
      BY <1>2, <1>3, <1>5, <2>2, OthersSpare, SparesChain
    <2>4. TurnedAway(q)
      BY <2>1 DEF TurnedAway, Post, Terminal
    <2> QED BY <2>1, <2>2, <2>3, <2>4 DEF Admitted
  <1>9. CASE o.reset = "ok" /\ Gone(q)
    <2> DEFINE k == close(turn.rig, x.id)
    <2>1. rig' = k /\ slots' = slots /\ work' = work /\ reply' = reply
      BY <1>1, <1>9 DEF Post
    <2>2. turn.rig.sess[x.id].residency = "Resident"
      BY <1>2, <1>4 DEF SamePlaces
    <2>3. RigOK(k) /\ \A i \in Ids \ {x.id} : k.sess[i] = turn.rig.sess[i]
      BY <1>4, <2>2, CloseKeeps
    <2> HIDE DEF k
    <2>4. Spares(rig, k)
      BY <1>4, <1>6, <1>7, <2>3, OthersSpare, SparesChain
    <2>5. TurnedAway(q)
      BY <1>9, <2>1 DEF TurnedAway
    <2> QED BY <2>1, <2>3, <2>4, <2>5 DEF Admitted
  <1>10. CASE o.reset = "ok" /\ ~ Gone(q)
    <2>1. /\ rig' = turn.rig /\ reply' = [reply EXCEPT ![q] = "Accepted"]
          /\ StartTurn(q, x.id, s, Prompt[q], turn.reused)
      BY <1>1, <1>10 DEF Post
    <2>2. turn.rig.sess[x.id].slot = s
      BY <1>2, <1>4 DEF SamePlaces
    <2>3. SubSeq(Prompt[q], turn.reused + 1, Len(Prompt[q])) \in Seq(Tokens)
      BY <1>4, Texts, RestType
    <2> HIDE DEF s
    <2>4. s \in Slots
      BY DEF s
    <2>5. Started(q)
      BY <1>4, <1>10, <2>1, <2>2, <2>3, <2>4 DEF Started, StartTurn
    <2> QED BY <1>4, <1>6, <2>1, <2>5 DEF Admitted
  <1> QED BY <1>8, <1>9, <1>10

(* A session opened for a turn is not in flight. *)
LEMMA OpenForTurn ==
  ASSUME RigOK(rig), Flying(rig), NEW r, RigOK(r), Spares(rig, r), r.next_id < MaxSessions,
         NEW x, x = open(r)
  PROVE  /\ RigOK(x.rig) /\ Spares(rig, x.rig)
         /\ \/ x.id = NoId /\ x.rig.next_id = r.next_id
            \/ /\ x.id \in Ids \ Busy /\ x.rig.sess[x.id].slot \in Slots
               /\ x.rig.sess[x.id].residency = "Resident"
  <1>1. Flying(r)
    BY SparesFly
  <1>2. /\ RigOK(x.rig)
        /\ \/ x.id = NoId /\ x.rig.sess = r.sess /\ x.rig.next_id = r.next_id
           \/ /\ x.id \in Ids /\ r.sess[x.id].residency = "Closed"
              /\ x.rig.sess[x.id].slot \in Slots
              /\ x.rig.sess[x.id].residency = "Resident"
              /\ \A i \in Ids \ {x.id} : x.rig.sess[i] = r.sess[i]
    BY OpenKeeps
  <1>3. CASE x.id = NoId /\ x.rig.sess = r.sess /\ x.rig.next_id = r.next_id
    BY <1>2, <1>3 DEF Spares
  <1>4. CASE /\ x.id \in Ids /\ r.sess[x.id].residency = "Closed"
             /\ x.rig.sess[x.id].slot \in Slots
             /\ x.rig.sess[x.id].residency = "Resident"
             /\ \A i \in Ids \ {x.id} : x.rig.sess[i] = r.sess[i]
    <2>1. x.id \notin Busy
      BY <1>1, <1>4, BusyResident
    <2>2. Spares(rig, x.rig)
      BY <1>1, <1>4, <2>1, OthersSpare, SparesChain
    <2> QED BY <1>2, <1>4, <2>1, <2>2
  <1> QED BY <1>2, <1>3, <1>4

(* A turn without a session to continue. *)
LEMMA OpenTurnKeeps ==
  ASSUME RigOK(rig), Flying(rig), NEW q \in Requests, NEW o \in AdmitOutcomes,
         NEW r, RigOK(r), Spares(rig, r), r.next_id < MaxSessions, OpenTurn(q, r, o)
  PROVE  Admitted(q)
  <1> DEFINE first == open(r)
             v == lru_idle_victim(first.rig, Busy)
             w == evict(first.rig, v, o.evict2)
             second == open(w)
  <1>1. IF first.id # NoId THEN ColdTurn(q, first, o)
        ELSE IF v = NoId THEN Reject(q, first.rig, "all slots busy")
        ELSE IF second.id # NoId THEN ColdTurn(q, second, o)
             ELSE Reject(q, second.rig, "no budget")
    BY DEF OpenTurn
  <1>2. /\ RigOK(first.rig) /\ Spares(rig, first.rig)
        /\ \/ first.id = NoId /\ first.rig.next_id = r.next_id
           \/ /\ first.id \in Ids \ Busy /\ first.rig.sess[first.id].slot \in Slots
              /\ first.rig.sess[first.id].residency = "Resident"
    BY OpenForTurn
  <1> HIDE DEF first
  <1>3. CASE first.id # NoId
    BY <1>1, <1>2, <1>3, ColdTurnKeeps
  <1>4. CASE first.id = NoId /\ v = NoId
    <2>1. Post(q, "all slots busy") /\ rig' = first.rig /\ slots' = slots /\ work' = work
      BY <1>1, <1>4 DEF Reject
    <2>2. TurnedAway(q)
      BY <2>1 DEF TurnedAway, Post, Terminal
    <2> QED BY <1>2, <2>1, <2>2 DEF Admitted
  <1>5. CASE first.id = NoId /\ v # NoId
    <2>1. v \in Ids \ Busy /\ first.rig.sess[v].slot # NoSlot
      <3>1. RigTypes(first.rig)
        BY <1>2 DEF RigOK
      <3> QED BY <1>5, <3>1, Victim DEF Live
    <2>2. o.evict2 \in EvictOutcomes
      BY DEF AdmitOutcomes
    <2> HIDE DEF v
    <2>3. RigOK(w) /\ w.next_id = first.rig.next_id
          /\ \A i \in Ids \ {v} : w.sess[i] = first.rig.sess[i]
      BY <1>2, <2>1, <2>2, EvictKeeps
    <2> HIDE DEF w
    <2>4. Flying(first.rig)
      BY <1>2, SparesFly
    <2>5. Spares(rig, w)
      BY <1>2, <2>1, <2>3, <2>4, OthersSpare, SparesChain
    <2>6. w.next_id < MaxSessions
      BY <1>2, <1>5, <2>3, Numbers
    <2>7. /\ RigOK(second.rig) /\ Spares(rig, second.rig)
          /\ \/ second.id = NoId /\ second.rig.next_id = w.next_id
             \/ /\ second.id \in Ids \ Busy /\ second.rig.sess[second.id].slot \in Slots
                /\ second.rig.sess[second.id].residency = "Resident"
      BY <2>3, <2>5, <2>6, OpenForTurn
    <2> HIDE DEF second
    <2>8. CASE second.id # NoId
      <3>1. ColdTurn(q, second, o)
        BY <1>1, <1>5, <2>8
      <3> QED BY <2>7, <2>8, <3>1, ColdTurnKeeps
    <2>9. CASE second.id = NoId
      <3>1. Post(q, "no budget") /\ rig' = second.rig /\ slots' = slots /\ work' = work
        BY <1>1, <1>5, <2>9 DEF Reject
      <3>2. TurnedAway(q)
        BY <3>1 DEF TurnedAway, Post, Terminal
      <3> QED BY <2>7, <3>1, <3>2 DEF Admitted
    <2> QED BY <2>8, <2>9
  <1> QED BY <1>3, <1>4, <1>5

(* What AnswersOnce says of one step. *)
AnswerStep ==
  \A q \in Requests :
    /\ reply[q] \in Terminal => reply'[q] = reply[q] /\ stream'[q] = stream[q]
    /\ reply[q] = "Accepted" /\ reply'[q] \notin Terminal =>
         \/ Gone(q)
         \/ \E s \in InFlight : slots[s].req = q /\ slots'[s].req = q

(* Finitely many operations of an admit can fail. *)
LEMMA FailedFinite ==
  ASSUME NEW o \in AdmitOutcomes
  PROVE  Cardinality(Failed(o)) \in Nat
  <1> DEFINE D == {"evict1", "restore", "evict2", "reset"}
  <1>1. IsFiniteSet(D)
    <2>1. IsFiniteSet({"evict1"})
      BY FS_Singleton
    <2>2. IsFiniteSet({"evict1"} \cup {"restore"})
      BY <2>1, FS_AddElement
    <2>3. IsFiniteSet(({"evict1"} \cup {"restore"}) \cup {"evict2"})
      BY <2>2, FS_AddElement
    <2>4. IsFiniteSet((({"evict1"} \cup {"restore"}) \cup {"evict2"}) \cup {"reset"})
      BY <2>3, FS_AddElement
    <2>5. D = (({"evict1"} \cup {"restore"}) \cup {"evict2"}) \cup {"reset"}
      OBVIOUS
    <2> QED BY <2>4, <2>5
  <1>2. Failed(o) \subseteq D
    BY DEF Failed, AdmitOutcomes
  <1> QED BY <1>1, <1>2, FS_Subset, FS_CardinalityType

(* The marks on replies. *)
LEMMA Marks ==
  /\ "none" \notin Terminal /\ "Accepted" \notin Terminal
  /\ Terminal \subseteq Replies /\ "none" \in Replies /\ "Accepted" \in Replies
  BY DEF Terminal, Replies

(* A request leaves the channel into a slot or with an answer. *)
LEMMA AdmitKeeps ==
  ASSUME EngineInv, admit
  PROVE  EngineInv' /\ AnswerStep
  <1> DEFINE q == Head(queue)
  <1>1. RigOK(rig) /\ Flying(rig) /\ EngineTypes /\ AnswerInv
    BY DEF EngineInv
  <1>2. /\ queue \in Seq(Requests) /\ Distinct(queue) /\ reply \in [Requests -> Replies]
        /\ slots \in [Slots -> Flights] /\ client \in [Requests -> Clients]
        /\ work \in [Slots -> [remaining : Seq(Tokens), next_pos : Nat]]
        /\ \A s \in InFlight : slots[s].req \in Requests
        /\ faults \in 0 .. MaxFaults
    BY <1>1 DEF EngineTypes
  <1>3. /\ queue # << >> /\ queue' = Tail(queue) /\ rig.next_id < MaxSessions
        /\ logits' = logits /\ graph' = graph /\ sender' = sender /\ engine' = engine
        /\ stream' = stream /\ client' = client
    BY DEF admit
  <1>4. /\ q \in Requests /\ queue' \in Seq(Requests) /\ Distinct(queue')
        /\ ToSet(queue') = ToSet(queue) \ {q} /\ q \in ToSet(queue)
    BY <1>2, <1>3, TailAt, TailSet
  <1>5. reply[q] = "none" /\ client[q] # "idle"
    BY <1>1, <1>4 DEF AnswerInv
  <1>6. PICK o \in AdmitOutcomes :
          /\ MayFail(o)
          /\ faults' = faults + Cardinality(Failed(o))
          /\ \E c \in {resume(q, o)} :
               IF c.slot # NoSlot THEN ContinueTurn(q, c) ELSE OpenTurn(q, c.rig, o)
    BY DEF admit
  <1> HIDE DEF q
  <1>7. faults' \in 0 .. MaxFaults
    BY <1>2, <1>6, FailedFinite, Consts DEF MayFail
  <1>8. Admitted(q)
    <2>1. PICK c : /\ c = resume(q, o)
                   /\ IF c.slot # NoSlot THEN ContinueTurn(q, c) ELSE OpenTurn(q, c.rig, o)
      BY <1>6
    <2>2. /\ RigOK(c.rig) /\ c.rig.next_id = rig.next_id /\ Spares(rig, c.rig)
          /\ c.slot # NoSlot => /\ c.id \in Ids \ Busy
                                /\ c.rig.sess[c.id].slot = c.slot /\ c.slot \in Slots
      BY <1>1, <1>4, <2>1, ResumeKeeps
    <2>3. CASE c.slot # NoSlot
      BY <1>1, <1>4, <2>1, <2>2, <2>3, ContinueKeeps
    <2>4. CASE c.slot = NoSlot
      BY <1>1, <1>3, <1>4, <2>1, <2>2, <2>4, OpenTurnKeeps
    <2> QED BY <2>3, <2>4
  <1>9. RigOK(rig') /\ Spares(rig, rig') /\ (Started(q) \/ TurnedAway(q))
    BY <1>8 DEF Admitted
  <1>10. /\ \A p \in Requests \ {q} : reply'[p] = reply[p]
         /\ reply' \in [Requests -> Replies]
    BY <1>2, <1>9, Marks DEF Started, TurnedAway
  <1>11. CASE TurnedAway(q)
    <2>1. /\ slots' = slots /\ work' = work
          /\ (reply' = reply /\ Gone(q)) \/ reply'[q] \in Terminal
      BY <1>2, <1>4, <1>11 DEF TurnedAway
    <2>2. InFlight' = InFlight /\ \A s \in InFlight : slots[s].req # q
      BY <1>1, <1>5, <2>1 DEF InFlight, AnswerInv
    <2>3. Flying(rig)'
      <3>1. Flying(rig')
        BY <1>1, <1>9, SparesFly
      <3> QED BY <2>1, <2>2, <3>1 DEF Flying
    <2>4. EngineTypes'
      BY <1>1, <1>3, <1>4, <1>7, <1>10, <2>1, <2>2 DEF EngineTypes
    <2>5. AnswerInv'
      <3>1. \A p \in ToSet(queue)' : reply'[p] = "none" /\ client'[p] # "idle"
        BY <1>1, <1>2, <1>3, <1>4, <1>10, ToSetAt DEF AnswerInv
      <3>2. \A p \in Requests : reply'[p] # "none" => client'[p] # "idle"
        BY <1>1, <1>3, <1>5, <1>10 DEF AnswerInv
      <3>3. \A s \in InFlight' : reply'[slots'[s].req] = "Accepted"
        BY <1>1, <1>2, <1>10, <2>1, <2>2 DEF AnswerInv
      <3>4. \A s, t \in InFlight' : slots'[s].req = slots'[t].req => s = t
        BY <1>1, <2>1, <2>2 DEF AnswerInv
      <3>5. \A p \in Requests : reply'[p] = "Accepted" =>
              Gone(p)' \/ \E s \in InFlight' : slots'[s].req = p
        BY <1>1, <1>3, <1>5, <1>10, <2>1, <2>2, Marks DEF AnswerInv, Gone
      <3> QED BY <3>1, <3>2, <3>3, <3>4, <3>5 DEF AnswerInv
    <2>6. AnswerStep
      BY <1>1, <1>3, <1>5, <1>10, <2>1, <2>2, Marks DEF AnswerStep, AnswerInv
    <2> QED BY <1>9, <2>3, <2>4, <2>5, <2>6 DEF EngineInv
  <1>12. CASE Started(q)
    <2>1. PICK id \in Ids \ Busy, s \in Slots, rest \in Seq(Tokens), n \in Nat :
            /\ rig'.sess[id].slot = s
            /\ work' = [work EXCEPT ![s] = [remaining |-> rest, next_pos |-> n]]
            /\ slots' = [slots EXCEPT ![s] = [session |-> id, req |-> q, produced |-> 0]]
      BY <1>12 DEF Started
    <2>2. ~ Gone(q) /\ reply'[q] = "Accepted"
      BY <1>2, <1>4, <1>12 DEF Started
    <2>3. s \notin InFlight
      <3> SUFFICES ASSUME s \in InFlight PROVE FALSE
        OBVIOUS
      <3>1. slots[s].session \in Busy /\ slots[s].session \in Ids
            /\ rig.sess[slots[s].session].slot = s
        BY <1>1 DEF Flying, Busy
      <3>2. rig'.sess[slots[s].session].slot = s
        BY <1>9, <3>1 DEF Spares
      <3>3. slots[s].session = id
        BY <1>9, <2>1, <3>1, <3>2, Numbers DEF RigOK, Owned
      <3> QED BY <2>1, <3>1, <3>3
    <2>4. /\ slots'[s] = [session |-> id, req |-> q, produced |-> 0]
          /\ \A t \in Slots \ {s} : slots'[t] = slots[t]
          /\ slots' \in [Slots -> Flights]
      <3>1. [session |-> id, req |-> q, produced |-> 0] \in Flights
        BY <1>4 DEF Flights
      <3> QED BY <1>2, <2>1, <3>1
    <2>5. slots'[s].session = id /\ slots'[s].req = q
      BY <2>4
    <2>6. InFlight' = InFlight \cup {s}
      BY <2>4, <2>5, Numbers DEF InFlight
    <2>7. \A t \in InFlight : t # s /\ t \in Slots /\ slots'[t] = slots[t] /\ slots[t].req # q
      BY <1>1, <1>5, <2>3, <2>4 DEF InFlight, AnswerInv
    <2>8. Flying(rig)'
      <3>1. Flying(rig')
        BY <1>1, <1>9, SparesFly
      <3>2. \A t \in InFlight' : slots'[t].session \in Ids /\ rig'.sess[slots'[t].session].slot = t
        BY <2>1, <2>5, <2>6, <2>7, <3>1 DEF Flying
      <3> QED BY <3>2 DEF Flying
    <2>9. EngineTypes'
      <3>1. \A t \in InFlight' : slots'[t].req \in Requests
        BY <1>2, <1>4, <2>5, <2>6, <2>7
      <3>2. work' \in [Slots -> [remaining : Seq(Tokens), next_pos : Nat]]
        BY <1>2, <2>1
      <3> QED BY <1>1, <1>3, <1>4, <1>7, <1>10, <2>4, <3>1, <3>2 DEF EngineTypes
    <2>10. AnswerInv'
      <3>1. \A p \in ToSet(queue)' : reply'[p] = "none" /\ client'[p] # "idle"
        BY <1>1, <1>2, <1>3, <1>4, <1>10, ToSetAt DEF AnswerInv
      <3>2. \A p \in Requests : reply'[p] # "none" => client'[p] # "idle"
        BY <1>1, <1>3, <1>5, <1>10 DEF AnswerInv
      <3>3. \A t \in InFlight' : reply'[slots'[t].req] = "Accepted"
        BY <1>1, <1>2, <1>10, <2>2, <2>5, <2>6, <2>7 DEF AnswerInv
      <3>4. \A t, u \in InFlight' : slots'[t].req = slots'[u].req => t = u
        BY <1>1, <2>5, <2>6, <2>7 DEF AnswerInv
      <3>5. \A p \in Requests : reply'[p] = "Accepted" =>
              Gone(p)' \/ \E t \in InFlight' : slots'[t].req = p
        <4> SUFFICES ASSUME NEW p \in Requests, reply'[p] = "Accepted", ~ Gone(p)'
                     PROVE  \E t \in InFlight' : slots'[t].req = p
          OBVIOUS
        <4>1. CASE p = q
          BY <2>5, <2>6, <4>1
        <4>2. CASE p # q
          <5>1. PICK t \in InFlight : slots[t].req = p
            BY <1>1, <1>3, <1>10, <4>2 DEF AnswerInv, Gone
          <5> QED BY <2>6, <2>7, <5>1
        <4> QED BY <4>1, <4>2
      <3> QED BY <3>1, <3>2, <3>3, <3>4, <3>5 DEF AnswerInv
    <2>11. AnswerStep
      <3> SUFFICES ASSUME NEW p \in Requests
                   PROVE  /\ reply[p] \in Terminal => reply'[p] = reply[p] /\ stream'[p] = stream[p]
                          /\ reply[p] = "Accepted" /\ reply'[p] \notin Terminal =>
                               \/ Gone(p)
                               \/ \E t \in InFlight : slots[t].req = p /\ slots'[t].req = p
        BY DEF AnswerStep
      <3>1. reply[p] # "none" => p # q /\ reply'[p] = reply[p]
        BY <1>5, <1>10
      <3>2. reply[p] = "Accepted" => Gone(p) \/ \E t \in InFlight : slots[t].req = p
        BY <1>1 DEF AnswerInv
      <3> QED BY <1>3, <2>7, <3>1, <3>2, Marks
    <2> QED BY <1>9, <2>8, <2>9, <2>10, <2>11 DEF EngineInv
  <1> QED BY <1>9, <1>11, <1>12

-----------------------------------------------------------------------------
(* Clients *)

(* The flights, as functions of slots alone. *)
LEMMA SlotsSame ==
  ASSUME slots' = slots
  PROVE  InFlight' = InFlight /\ Busy' = Busy
  BY DEF InFlight, Busy

(* A client that moves on, with the engine standing still. *)
LEMMA ClientKeeps ==
  ASSUME EngineInv, NEW q \in Requests, rig' = rig, slots' = slots, work' = work,
         sender' = sender, engine' = engine, reply' = reply, stream' = stream, faults' = faults,
         queue' \in Seq(Requests), Distinct(queue'),
         \A p \in ToSet(queue') : p \in ToSet(queue) \/ (p = q /\ reply[q] = "none"),
         client' \in [Requests -> Clients], \A p \in Requests \ {q} : client'[p] = client[p],
         client'[q] # "idle", ~ Gone(q)
  PROVE  EngineInv' /\ AnswerStep
  <1>1. RigOK(rig) /\ Flying(rig) /\ EngineTypes /\ AnswerInv
    BY DEF EngineInv
  <1>2. InFlight' = InFlight
    BY SlotsSame
  <1>3. RigOK(rig)' /\ Flying(rig)'
    <2>1. \A s \in InFlight' : slots'[s].session \in Ids /\ rig'.sess[slots'[s].session].slot = s
      BY <1>1, <1>2 DEF Flying
    <2> QED BY <1>1, <2>1 DEF Flying
  <1>4. EngineTypes'
    BY <1>1, <1>2 DEF EngineTypes
  <1>5. AnswerInv'
    <2>1. \A p \in ToSet(queue)' : reply'[p] = "none" /\ client'[p] # "idle"
      <3> SUFFICES ASSUME NEW p \in ToSet(queue') PROVE reply'[p] = "none" /\ client'[p] # "idle"
        OBVIOUS
      <3>1. p \in Requests
        BY ToSetAt
      <3> QED BY <1>1, <3>1 DEF AnswerInv
    <2>2. \A p \in Requests : reply'[p] # "none" => client'[p] # "idle"
      BY <1>1 DEF AnswerInv
    <2>3. \A p \in Requests : reply'[p] = "Accepted" =>
            Gone(p)' \/ \E s \in InFlight' : slots'[s].req = p
      BY <1>1, <1>2 DEF AnswerInv, Gone
    <2> QED BY <1>1, <1>2, <2>1, <2>2, <2>3 DEF AnswerInv
  <1>6. AnswerStep
    BY <1>1 DEF AnswerStep, AnswerInv
  <1> QED BY <1>3, <1>4, <1>5, <1>6 DEF EngineInv

(* Submit puts a request without an answer behind the others. *)
LEMMA SubmitKeeps ==
  ASSUME EngineInv, NEW q \in Requests, Submit(q)
  PROVE  EngineInv' /\ AnswerStep
  <1>1. EngineTypes /\ AnswerInv
    BY DEF EngineInv
  <1>2. /\ queue \in Seq(Requests) /\ Distinct(queue) /\ client \in [Requests -> Clients]
    BY <1>1 DEF EngineTypes
  <1>3. /\ client[q] = "idle" /\ rig' = rig /\ slots' = slots /\ work' = work
        /\ sender' = sender /\ engine' = engine /\ reply' = reply /\ stream' = stream
        /\ faults' = faults
    BY DEF Submit
  <1>4. q \notin ToSet(queue) /\ reply[q] = "none" /\ ~ Gone(q)
    BY <1>1, <1>3 DEF AnswerInv, Gone
  <1>5. /\ client' \in [Requests -> Clients] /\ client'[q] # "idle"
        /\ \A p \in Requests \ {q} : client'[p] = client[p]
    BY <1>2 DEF Submit, Clients
  <1>6. /\ queue' \in Seq(Requests) /\ Distinct(queue')
        /\ \A p \in ToSet(queue') : p \in ToSet(queue) \/ (p = q /\ reply[q] = "none")
    <2>1. CASE queue' = queue
      BY <1>2, <2>1
    <2>2. CASE queue' = Append(queue, q)
      <3>1. ToSet(queue') = ToSet(queue) \cup {q} /\ Distinct(queue')
        BY <1>2, <1>4, <2>2, AppendSet
      <3>2. queue' \in Seq(Requests)
        BY <1>2, <2>2, AppendAt
      <3> QED BY <1>4, <3>1, <3>2
    <2> QED BY <2>1, <2>2 DEF Submit
  <1> QED BY <1>3, <1>4, <1>5, <1>6, ClientKeeps

(* Vanish and Return move a waiting client. *)
LEMMA VanishKeeps ==
  ASSUME EngineInv, NEW q \in Requests, Vanish(q) \/ Return(q)
  PROVE  EngineInv' /\ AnswerStep
  <1>1. EngineTypes
    BY DEF EngineInv
  <1>2. /\ queue \in Seq(Requests) /\ Distinct(queue) /\ client \in [Requests -> Clients]
    BY <1>1 DEF EngineTypes
  <1>3. /\ client[q] = "waiting" /\ rig' = rig /\ slots' = slots /\ work' = work
        /\ sender' = sender /\ engine' = engine /\ reply' = reply /\ stream' = stream
        /\ faults' = faults /\ queue' = queue
    BY DEF Vanish, Return, engineVars
  <1>4. /\ client' \in [Requests -> Clients] /\ client'[q] # "idle"
        /\ \A p \in Requests \ {q} : client'[p] = client[p]
    BY <1>2 DEF Vanish, Return, Clients
  <1>5. ~ Gone(q)
    BY <1>3 DEF Gone
  <1> QED BY <1>2, <1>3, <1>4, <1>5, ClientKeeps

(* Steps that leave the flights and the answers alone. *)
LEMMA StillKeeps ==
  ASSUME EngineInv, RigOK(rig'), Spares(rig, rig'), slots' = slots,
         work' \in [Slots -> [remaining : Seq(Tokens), next_pos : Nat]], queue' = queue,
         reply' = reply, stream' = stream, client' = client, faults' \in 0 .. MaxFaults,
         sender' \in BOOLEAN, engine' \in {"running", "exited", "panicked"}
  PROVE  EngineInv' /\ AnswerStep
  <1>1. RigOK(rig) /\ Flying(rig) /\ EngineTypes /\ AnswerInv
    BY DEF EngineInv
  <1>2. InFlight' = InFlight
    BY SlotsSame
  <1>3. Flying(rig)'
    <2>1. Flying(rig')
      BY <1>1, SparesFly
    <2> QED BY <1>2, <2>1 DEF Flying
  <1>4. EngineTypes'
    BY <1>1, <1>2 DEF EngineTypes
  <1>5. AnswerInv'
    BY <1>1, <1>2 DEF AnswerInv, Gone
  <1>6. AnswerStep
    BY <1>1 DEF AnswerStep, AnswerInv
  <1> QED BY <1>3, <1>4, <1>5, <1>6 DEF EngineInv

(* Dropping the engine, its exit, and stuttering. *)
LEMMA IdleKeeps ==
  ASSUME EngineInv, DropEngine \/ Exit \/ UNCHANGED vars
  PROVE  EngineInv' /\ AnswerStep
  <1>1. RigOK(rig) /\ EngineTypes
    BY DEF EngineInv
  <1>2. /\ rig' = rig /\ slots' = slots /\ work' = work /\ queue' = queue
        /\ reply' = reply /\ stream' = stream /\ client' = client /\ faults' = faults
        /\ sender' \in {sender, FALSE} /\ engine' \in {engine, "exited"}
    BY DEF DropEngine, Exit, vars, engineVars
  <1>3. /\ work' \in [Slots -> [remaining : Seq(Tokens), next_pos : Nat]]
        /\ faults' \in 0 .. MaxFaults /\ sender' \in BOOLEAN
        /\ engine' \in {"running", "exited", "panicked"}
    BY <1>1, <1>2 DEF EngineTypes
  <1>4. RigOK(rig') /\ Spares(rig, rig')
    BY <1>1, <1>2 DEF Spares
  <1> QED BY <1>2, <1>3, <1>4, StillKeeps

(* Every flight ends at once: Panic and FailInFlight.  A request that was  *)
(* in flight is answered, unless its client has gone.                      *)
LEMMA GroundedKeeps ==
  ASSUME EngineInv, RigOK(rig'), slots' = [s \in Slots |-> NoFlight],
         work' \in [Slots -> [remaining : Seq(Tokens), next_pos : Nat]],
         sender' = sender, stream' = stream, client' = client,
         engine' \in {"running", "exited", "panicked"}, faults' \in 0 .. MaxFaults,
         queue' \in Seq(Requests), Distinct(queue'), ToSet(queue') \subseteq ToSet(queue),
         reply' \in [Requests -> Replies],
         \A q \in Requests : reply'[q] # reply[q] =>
           /\ reply[q] \notin Terminal /\ reply'[q] \in Terminal /\ q \notin ToSet(queue')
           /\ client[q] # "idle",
         \A s \in InFlight : Gone(slots[s].req) \/ reply'[slots[s].req] \in Terminal
  PROVE  EngineInv' /\ AnswerStep
  <1>1. RigOK(rig) /\ Flying(rig) /\ EngineTypes /\ AnswerInv
    BY DEF EngineInv
  <1>2. InFlight' = {}
    BY DEF InFlight, NoFlight
  <1>3. Flying(rig)'
    BY <1>2 DEF Flying
  <1>4. slots' \in [Slots -> Flights]
    BY DEF NoFlight, Flights
  <1>5. EngineTypes'
    BY <1>1, <1>2, <1>4 DEF EngineTypes
  <1>6. \A q \in Requests : reply'[q] = "Accepted" => Gone(q)
    BY <1>1, Marks DEF AnswerInv
  <1>7. AnswerInv'
    <2>1. \A p \in ToSet(queue)' : reply'[p] = "none" /\ client'[p] # "idle"
      BY <1>1, ToSetAt DEF AnswerInv, EngineTypes
    <2>2. \A p \in Requests : reply'[p] # "none" => client'[p] # "idle"
      BY <1>1 DEF AnswerInv
    <2>3. \A p \in Requests : reply'[p] = "Accepted" =>
            Gone(p)' \/ \E s \in InFlight' : slots'[s].req = p
      BY <1>6 DEF Gone
    <2> QED BY <1>2, <2>1, <2>2, <2>3 DEF AnswerInv
  <1>8. AnswerStep
    BY <1>1, <1>6 DEF AnswerStep, AnswerInv
  <1> QED BY <1>3, <1>5, <1>7, <1>8 DEF EngineInv

(* A panic drops every channel. *)
LEMMA PanicKeeps ==
  ASSUME EngineInv, Panic
  PROVE  EngineInv' /\ AnswerStep
  <1>1. RigOK(rig) /\ EngineTypes /\ AnswerInv
    BY DEF EngineInv
  <1>2. /\ work \in [Slots -> [remaining : Seq(Tokens), next_pos : Nat]]
        /\ reply \in [Requests -> Replies] /\ faults \in 0 .. MaxFaults
        /\ queue \in Seq(Requests)
        /\ \A s \in InFlight : slots[s].req \in Requests
    BY <1>1 DEF EngineTypes
  <1>3. /\ engine' = "panicked" /\ queue' = << >> /\ slots' = [s \in Slots |-> NoFlight]
        /\ rig' = rig /\ work' = work /\ sender' = sender /\ stream' = stream
        /\ client' = client /\ faults' = faults
        /\ reply' = [q \in Requests |->
             IF (\E s \in InFlight : slots[s].req = q)
                \/ (\E i \in DOMAIN queue : queue[i] = q)
             THEN "dropped" ELSE reply[q]]
    BY DEF Panic
  <1>4. queue' \in Seq(Requests) /\ Distinct(queue') /\ ToSet(queue') = {}
    BY <1>3, EmptySet, EmptySeq
  <1>5. "dropped" \in Terminal /\ "dropped" \in Replies
    BY DEF Terminal, Replies
  <1>6. reply' \in [Requests -> Replies]
    BY <1>2, <1>3, <1>5
  <1>7. \A q \in Requests : (\E i \in DOMAIN queue : queue[i] = q) => q \in ToSet(queue)
    BY <1>2, ToSetAt, LenProperties
  <1>8. \A q \in Requests : reply'[q] # reply[q] =>
           /\ reply[q] \notin Terminal /\ reply'[q] \in Terminal /\ q \notin ToSet(queue')
           /\ client[q] # "idle"
    <2> SUFFICES ASSUME NEW q \in Requests, reply'[q] # reply[q]
                 PROVE  /\ reply[q] \notin Terminal /\ reply'[q] \in Terminal
                        /\ client[q] # "idle"
      BY <1>4
    <2>1. reply'[q] = "dropped"
      BY <1>3
    <2>2. (\E s \in InFlight : slots[s].req = q) \/ q \in ToSet(queue)
      BY <1>3, <1>7
    <2>3. reply[q] \in {"none", "Accepted"} /\ client[q] # "idle"
      BY <1>1, <2>2 DEF AnswerInv
    <2> QED BY <1>5, <2>1, <2>3, Marks
  <1>9. \A s \in InFlight : Gone(slots[s].req) \/ reply'[slots[s].req] \in Terminal
    BY <1>2, <1>3, <1>5
  <1>10. ToSet(queue') \subseteq ToSet(queue)
    BY <1>4
  <1>11. RigOK(rig')
    BY <1>1, <1>3
  <1>12. engine' \in {"running", "exited", "panicked"}
    BY <1>3
  <1> QED BY <1>2, <1>3, <1>4, <1>6, <1>8, <1>9, <1>10, <1>11, <1>12, GroundedKeeps

-----------------------------------------------------------------------------
(* Steps of run_loop *)

(* What a step takes from a slot's work, and what it leaves. *)
LEMMA TakeType ==
  ASSUME EngineTypes, NEW s \in Slots
  PROVE  /\ Take(s) \in Seq(Tokens) /\ Len(Take(s)) \in Nat /\ Rest(s) \in Seq(Tokens)
         /\ work[s].next_pos \in Nat /\ EndPos(s) \in Nat
         /\ Drained[s] \in [remaining : Seq(Tokens), next_pos : Nat]
         /\ Drained[s].next_pos \in Nat
  <1> DEFINE w == work[s].remaining
             n == Min({Len(w), CapTokens})
  <1>1. w \in Seq(Tokens) /\ work[s].next_pos \in Nat
    BY DEF EngineTypes
  <1>2. Len(w) \in Nat /\ CapTokens \in Nat
    BY <1>1, Consts
  <1> HIDE DEF w
  <1>3. n \in {Len(w), CapTokens} /\ \A y \in {Len(w), CapTokens} : n <= y
    BY <1>2, MinIs
  <1>4. n \in Nat /\ n <= Len(w)
    BY <1>2, <1>3
  <1> HIDE DEF n
  <1>5. Take(s) = SubSeq(w, 1, n) /\ Rest(s) = SubSeq(w, Len(Take(s)) + 1, Len(w))
    BY DEF Take, Rest, n, w
  <1>6. Take(s) \in Seq(Tokens) /\ Len(Take(s)) \in Nat
    <2>1. \A i \in 1 .. n : w[i] \in Tokens
      BY <1>1, <1>2, <1>4, ElementOfSeq
    <2>2. Take(s) \in Seq(Tokens)
      BY <1>1, <1>4, <1>5, <2>1, SubSeqProperties
    <2> QED BY <2>2, LenProperties
  <1>7. Rest(s) \in Seq(Tokens)
    BY <1>1, <1>5, <1>6, RestType
  <1>8. EndPos(s) \in Nat
    BY <1>1, <1>6 DEF EndPos
  <1>9. Drained[s] = [remaining |-> Rest(s), next_pos |-> EndPos(s)]
    BY DEF Drained, EndPos
  <1> QED BY <1>1, <1>6, <1>7, <1>8, <1>9

(* The sessions of a rig whose caches alone were written. *)
Cached(r) ==
  /\ DOMAIN r = Fields /\ r.used = rig.used /\ r.sess = rig.sess /\ r.snaps = rig.snaps
  /\ r.len \in [Slots -> 0 .. SlabCap]
  /\ r.clock = rig.clock /\ r.next_id = rig.next_id /\ r.admitted = rig.admitted

(* Such a rig is in order when rig is. *)
LEMMA CachedKeeps ==
  ASSUME RigOK(rig), Flying(rig), NEW r, Cached(r)
  PROVE  RigOK(r) /\ Flying(r) /\ Spares(rig, r)
  <1>1. RigOK(r)
    BY CachesKeep DEF Cached
  <1>2. Spares(rig, r)
    BY DEF Cached, Spares
  <1> QED BY <1>1, <1>2, SparesFly

(* A failed step rejects what is in flight and closes its sessions. *)
LEMMA FailKeeps ==
  ASSUME EngineInv, NEW r, Cached(r), FailInFlight(r), faults' \in 0 .. MaxFaults
  PROVE  EngineInv' /\ AnswerStep
  <1>1. RigOK(rig) /\ Flying(rig) /\ EngineTypes /\ AnswerInv
    BY DEF EngineInv
  <1>2. /\ reply \in [Requests -> Replies] /\ queue \in Seq(Requests) /\ Distinct(queue)
        /\ engine \in {"running", "exited", "panicked"}
        /\ \A s \in InFlight : slots[s].req \in Requests
    BY <1>1 DEF EngineTypes
  <1>3. /\ rig' = close_all(r, Busy) /\ slots' = [s \in Slots |-> NoFlight]
        /\ reply' = [q \in Requests |->
                       IF ~ Gone(q) /\ \E s \in InFlight : slots[s].req = q
                       THEN "forward failed" ELSE reply[q]]
        /\ work' = [s \in Slots |-> [remaining |-> IF s \in InFlight THEN << >> ELSE Rest(s),
                                     next_pos  |-> Drained[s].next_pos]]
        /\ queue' = queue /\ sender' = sender /\ engine' = engine
        /\ stream' = stream /\ client' = client
    BY DEF FailInFlight
  <1>4. RigOK(r) /\ Flying(r)
    BY <1>1, CachedKeeps
  <1>5. RigOK(rig')
    BY <1>3, <1>4, BusyResident, CloseAllKeeps
  <1>6. work' \in [Slots -> [remaining : Seq(Tokens), next_pos : Nat]]
    BY <1>1, <1>3, TakeType, EmptySeq
  <1>7. "forward failed" \in Terminal /\ "forward failed" \in Replies
    BY DEF Terminal, Replies
  <1>8. reply' \in [Requests -> Replies]
    BY <1>2, <1>3, <1>7
  <1>9. \A q \in Requests : reply'[q] # reply[q] =>
           /\ reply[q] \notin Terminal /\ reply'[q] \in Terminal /\ q \notin ToSet(queue')
           /\ client[q] # "idle"
    <2> SUFFICES ASSUME NEW q \in Requests, reply'[q] # reply[q]
                 PROVE  /\ reply[q] \notin Terminal /\ reply'[q] \in Terminal
                        /\ q \notin ToSet(queue) /\ client[q] # "idle"
      BY <1>3
    <2>1. reply'[q] = "forward failed" /\ \E s \in InFlight : slots[s].req = q
      BY <1>3
    <2>2. reply[q] = "Accepted"
      BY <1>1, <2>1 DEF AnswerInv
    <2> QED BY <1>1, <1>7, <2>1, <2>2, Marks DEF AnswerInv
  <1>10. \A s \in InFlight : Gone(slots[s].req) \/ reply'[slots[s].req] \in Terminal
    BY <1>2, <1>3, <1>7
  <1>11. /\ queue' \in Seq(Requests) /\ Distinct(queue') /\ ToSet(queue') \subseteq ToSet(queue)
         /\ engine' \in {"running", "exited", "panicked"}
    BY <1>2, <1>3
  <1> QED BY <1>3, <1>5, <1>6, <1>8, <1>9, <1>10, <1>11, GroundedKeeps

(* A step past the slab's end, or whose forward fails. *)
LEMMA ForwardKeeps ==
  ASSUME EngineInv, ForwardOverflows \/ ForwardFails
  PROVE  EngineInv' /\ AnswerStep
  <1>1. /\ DOMAIN rig = Fields /\ rig.len \in [Slots -> 0 .. SlabCap] /\ faults \in 0 .. MaxFaults
    BY DEF EngineInv, RigOK, RigTypes, EngineTypes
  <1>2. CASE ForwardOverflows
    <2>1. PICK top \in Batch :
            FailInFlight([rig EXCEPT !.arena = Written(@, top), !.dn = Fed(@)])
      BY <1>2 DEF ForwardOverflows
    <2> DEFINE r == [rig EXCEPT !.arena = Written(@, top), !.dn = Fed(@)]
    <2>2. FailInFlight(r)
      BY <2>1
    <2>3. Cached(r)
      BY <1>1 DEF Cached, Fields
    <2>4. faults' = faults
      BY <1>2 DEF ForwardOverflows
    <2> HIDE DEF r
    <2> QED BY <1>1, <2>2, <2>3, <2>4, FailKeeps
  <1>3. CASE ForwardFails
    <2> DEFINE r == [rig EXCEPT
                       !.arena = [a \in DOMAIN @ |-> IF Hits(a) = {} THEN @[a] ELSE "junk"],
                       !.dn    = [s \in Slots |-> IF s \in Batch THEN << "junk" >> ELSE @[s]]]
    <2>1. FailInFlight(r) /\ faults' = faults + 1 /\ faults < MaxFaults
      BY <1>3 DEF ForwardFails
    <2>2. Cached(r)
      BY <1>1 DEF Cached, Fields
    <2>3. faults' \in 0 .. MaxFaults
      BY <1>1, <2>1, Consts
    <2> HIDE DEF r
    <2> QED BY <2>1, <2>2, <2>3, FailKeeps
  <1> QED BY <1>2, <1>3

(* A forward within the slabs. *)
LEMMA ForwardedCached ==
  ASSUME RigOK(rig), EngineTypes, ~ Overflow, NEW top, NEW r, r = Forwarded(top)
  PROVE  Cached(r)
  <1>1. DOMAIN rig = Fields /\ rig.len \in [Slots -> 0 .. SlabCap]
    BY DEF RigOK, RigTypes
  <1> DEFINE l == [s \in Slots |-> IF s \in Batch THEN EndPos(s) ELSE rig.len[s]]
  <1>2. \A s \in Batch : s \in Slots /\ EndPos(s) \in 0 .. SlabCap
    BY TakeType, Consts DEF Overflow, Batch
  <1>3. l \in [Slots -> 0 .. SlabCap]
    BY <1>1, <1>2
  <1>4. r = [rig EXCEPT !.arena = Written(@, top), !.dn = Fed(@), !.len = l]
    BY DEF Forwarded
  <1> HIDE DEF l
  <1> QED BY <1>1, <1>3, <1>4 DEF Cached, Fields

(* A step whose sampling fails loses the work and answers nobody. *)
LEMMA SampleFailsKeeps ==
  ASSUME EngineInv, SampleFails
  PROVE  EngineInv' /\ AnswerStep
  <1>1. RigOK(rig) /\ Flying(rig) /\ EngineTypes
    BY DEF EngineInv
  <1>2. /\ ~ Overflow /\ faults' = faults + 1 /\ faults < MaxFaults /\ work' = Drained
        /\ slots' = slots /\ queue' = queue /\ sender' = sender /\ engine' = engine
        /\ reply' = reply /\ stream' = stream /\ client' = client
    BY DEF SampleFails
  <1>3. PICK top \in Batch : rig' = Forwarded(top)
    BY DEF SampleFails
  <1>4. Cached(rig')
    BY <1>1, <1>2, <1>3, ForwardedCached
  <1>5. RigOK(rig') /\ Spares(rig, rig')
    BY <1>1, <1>4, CachedKeeps
  <1>6. work' \in [Slots -> [remaining : Seq(Tokens), next_pos : Nat]]
    <2>1. DOMAIN Drained = Slots /\ Drained = [s \in Slots |-> Drained[s]]
      BY DEF Drained
    <2> QED BY <1>1, <1>2, <2>1, TakeType
  <1>7. /\ faults' \in 0 .. MaxFaults /\ sender' \in BOOLEAN
        /\ engine' \in {"running", "exited", "panicked"}
    BY <1>1, <1>2, Consts DEF EngineTypes
  <1> QED BY <1>2, <1>5, <1>6, <1>7, StillKeeps

(* The parts of Sample, by name. *)
TokGone(tok, s) == tok[s] # Eos /\ Gone(slots[s].req)
TokEnds(tok, s) == \/ TokGone(tok, s) \/ tok[s] = Eos
                   \/ slots[s].produced + 1 >= Limit(slots[s].req)
Touched(tok) == {s \in Sampled : ~ TokGone(tok, s)}
SlotOf(i) == CHOOSE s \in Sampled : slots[s].session = i
ReqSlot(q) == CHOOSE s \in Sampled : slots[s].req = q
Told(tok, q) == \E s \in Touched(tok) : slots[s].req = q /\ ~ Gone(q)
Mine(tok, i) == \E s \in Touched(tok) : slots[s].session = i
Left(tok) == {slots[s].session : s \in {t \in Sampled : TokGone(tok, t)}}
UpTo(tok, s) == {t \in Touched(tok) : t <= s}
Stamp(r, tok, s) == r.clock + Cardinality(UpTo(tok, s))
Stamped(r, tok) ==
  [r EXCEPT
     !.clock = @ + Cardinality(Touched(tok)),
     !.sess = [i \in Ids |->
        IF ~ Mine(tok, i) THEN r.sess[i]
        ELSE [r.sess[i] EXCEPT
                !.last_used = Stamp(r, tok, SlotOf(i)),
                !.tokens = IF TokEnds(tok, SlotOf(i)) THEN r.sess[i].tokens
                           ELSE Append(r.sess[i].tokens, tok[SlotOf(i)])]]]

(* Sample, in these terms. *)
LEMMA SampleParts ==
  ASSUME NEW r, NEW tok, Sample(r, tok)
  PROVE  /\ rig' = close_all(Stamped(r, tok), Left(tok))
         /\ reply' = [q \in Requests |->
              IF ~ Told(tok, q) \/ ~ TokEnds(tok, ReqSlot(q)) THEN reply[q]
              ELSE IF tok[ReqSlot(q)] = Eos THEN "Eos" ELSE "MaxTokens"]
         /\ stream' = [q \in Requests |->
              IF Told(tok, q) /\ tok[ReqSlot(q)] # Eos
              THEN Append(stream[q], tok[ReqSlot(q)]) ELSE stream[q]]
         /\ slots' = [s \in Slots |->
              IF s \notin Sampled THEN slots[s]
              ELSE IF TokEnds(tok, s) THEN NoFlight
              ELSE [slots[s] EXCEPT !.produced = @ + 1]]
         /\ work' = [s \in Slots |->
              IF s \in Sampled /\ ~ TokEnds(tok, s)
              THEN [Drained[s] EXCEPT !.remaining = << tok[s] >>] ELSE Drained[s]]
  BY DEF Sample, TokGone, TokEnds, Touched, SlotOf, ReqSlot, Told, Mine, Left,
         UpTo, Stamp, Stamped

(* The sampled slots are in flight, and a stamp is within the new clock. *)
LEMMA SampledFinite ==
  ASSUME NEW tok
  PROVE  /\ Sampled \subseteq InFlight /\ InFlight \subseteq Slots
         /\ Cardinality(Touched(tok)) \in Nat
         /\ \A s : /\ Cardinality(UpTo(tok, s)) \in Nat
                   /\ Cardinality(UpTo(tok, s)) <= Cardinality(Touched(tok))
  <1>1. Sampled \subseteq InFlight /\ InFlight \subseteq Slots
    BY DEF Sampled, InFlight
  <1>2. IsFiniteSet(Touched(tok))
    <2>1. Touched(tok) \subseteq Slots
      BY <1>1 DEF Touched
    <2> QED BY <2>1, Numbers, FS_Subset
  <1>3. Cardinality(Touched(tok)) \in Nat
    BY <1>2, FS_CardinalityType
  <1>4. ASSUME NEW s
        PROVE  /\ Cardinality(UpTo(tok, s)) \in Nat
               /\ Cardinality(UpTo(tok, s)) <= Cardinality(Touched(tok))
    <2>1. UpTo(tok, s) \subseteq Touched(tok)
      BY DEF UpTo
    <2>2. IsFiniteSet(UpTo(tok, s)) /\ Cardinality(UpTo(tok, s)) <= Cardinality(Touched(tok))
      BY <1>2, <2>1, FS_Subset
    <2>3. Cardinality(UpTo(tok, s)) \in Nat
      BY <2>2, FS_CardinalityType
    <2> QED BY <2>2, <2>3
  <1> QED BY <1>1, <1>3, <1>4

(* Stamping the sampled sessions and growing their tokens moves none. *)
LEMMA StampedKeeps ==
  ASSUME EngineTypes, NEW r, RigOK(r), NEW tok \in [Sampled -> Vocab \cup {Eos}],
         NEW a, a = Stamped(r, tok)
  PROVE  RigOK(a) /\ SamePlaces(r, a)
  <1> DEFINE n == Cardinality(Touched(tok))
             m(s) == Stamp(r, tok, s)
             f == [i \in Ids |->
                     IF ~ Mine(tok, i) THEN r.sess[i]
                     ELSE [r.sess[i] EXCEPT
                             !.last_used = Stamp(r, tok, SlotOf(i)),
                             !.tokens = IF TokEnds(tok, SlotOf(i)) THEN r.sess[i].tokens
                                        ELSE Append(r.sess[i].tokens, tok[SlotOf(i)])]]
  <1>1. /\ DOMAIN r = Fields /\ r.used \in [Slots -> BOOLEAN]
        /\ r.len \in [Slots -> 0 .. SlabCap] /\ r.sess \in [Ids -> Sessions]
        /\ \A i \in Ids : r.sess[i].last_used <= r.clock /\ r.sess[i].last_used \in Nat
        /\ DOMAIN r.snaps = Ids
        /\ \A i \in Ids : r.snaps[i].present \in BOOLEAN /\ Len(r.snaps[i].kv) \in 0 .. SlabCap
        /\ r.clock \in Nat /\ r.next_id \in 0 .. MaxSessions /\ r.admitted \in Nat
    BY DEF RigOK, RigTypes, Sessions
  <1>2. a = [r EXCEPT !.clock = r.clock + n, !.sess = f]
    BY <1>1 DEF Stamped, Fields
  <1>3. n \in Nat /\ \A s : Stamp(r, tok, s) \in Nat /\ Stamp(r, tok, s) <= r.clock + n
    <2>1. n \in Nat
      BY SampledFinite
    <2>2. ASSUME NEW s PROVE Stamp(r, tok, s) \in Nat /\ Stamp(r, tok, s) <= r.clock + n
      <3> DEFINE u == Cardinality(UpTo(tok, s))
      <3>1. u \in Nat /\ u <= n
        BY SampledFinite
      <3>2. Stamp(r, tok, s) = r.clock + u
        BY DEF Stamp
      <3> HIDE DEF u, n
      <3> QED BY <1>1, <2>1, <3>1, <3>2
    <2> QED BY <2>1, <2>2
  <1> HIDE DEF n
  <1>4. ASSUME NEW i \in Ids
        PROVE  /\ f[i] \in Sessions /\ f[i].slot = r.sess[i].slot
               /\ f[i].residency = r.sess[i].residency /\ f[i].last_used <= r.clock + n
    <2> DEFINE x == r.sess[i]
    <2>0. x \in Sessions /\ x.last_used <= r.clock /\ x.last_used \in Nat
      BY <1>1
    <2>1. CASE ~ Mine(tok, i)
      <3>1. f[i] = x
        BY <2>1
      <3> QED BY <1>1, <1>3, <2>0, <3>1
    <2>2. CASE Mine(tok, i)
      <3> DEFINE k == SlotOf(i)
                 u == Stamp(r, tok, k)
                 v == IF TokEnds(tok, k) THEN x.tokens ELSE Append(x.tokens, tok[k])
                 y == [x EXCEPT !.last_used = u]
                 z == [y EXCEPT !.tokens = v]
      <3>1. k \in Sampled
        BY <2>2 DEF Mine, Touched, SlotOf
      <3> HIDE DEF k
      <3>2. u \in Nat /\ u <= r.clock + n
        BY <1>3
      <3>3. v \in Seq(Tokens)
        <4>1. x.tokens \in Seq(Tokens)
          BY <2>0 DEF Sessions
        <4>2. CASE TokEnds(tok, k)
          BY <4>1, <4>2
        <4>3. CASE ~ TokEnds(tok, k)
          <5>1. tok[k] \in Tokens
            BY <3>1, <4>3 DEF TokEnds, Tokens
          <5> QED BY <4>1, <4>3, <5>1
        <4> QED BY <4>2, <4>3
      <3>4. f[i] = [x EXCEPT !.last_used = u, !.tokens = v]
        BY <2>0, <2>2 DEF k, Sessions
      <3> HIDE DEF u, v, x
      <3>5. y \in Sessions /\ y.slot = x.slot /\ y.residency = x.residency /\ y.last_used = u
        BY <2>0, <3>2 DEF Sessions
      <3>6. f[i] = z
        BY <3>4
      <3> HIDE DEF y, f
      <3>7. z \in Sessions /\ z.slot = y.slot /\ z.residency = y.residency /\ z.last_used = u
        BY <3>3, <3>5 DEF Sessions
      <3> HIDE DEF z
      <3> QED BY <3>2, <3>5, <3>6, <3>7 DEF x
    <2> QED BY <2>1, <2>2
  <1>5. f \in [Ids -> Sessions]
    <2>1. DOMAIN f = Ids /\ f = [i \in Ids |-> f[i]]
      OBVIOUS
    <2> HIDE DEF f
    <2> QED BY <1>4, <2>1
  <1> HIDE DEF f
  <1>6. /\ DOMAIN a = Fields /\ a.clock = r.clock + n /\ a.sess = f
        /\ a.used = r.used /\ a.len = r.len /\ a.snaps = r.snaps
        /\ a.next_id = r.next_id /\ a.admitted = r.admitted
    BY <1>1, <1>2 DEF Fields
  <1>7. a.clock \in Nat
    BY <1>1, <1>3, <1>6
  <1>8. RigTypes(a)
    BY <1>1, <1>4, <1>5, <1>6, <1>7 DEF RigTypes
  <1>9. \A i \in Ids : a.sess[i].slot = r.sess[i].slot /\ a.sess[i].residency = r.sess[i].residency
    BY <1>4, <1>6
  <1>10. RigOK(a)
    BY <1>6, <1>8, <1>9, Unmoved
  <1> QED BY <1>6, <1>9, <1>10 DEF SamePlaces

(* The flights after a step: the sampled slots whose reply ended are free. *)
LEMMA StepFlights ==
  ASSUME EngineTypes, NEW tok \in [Sampled -> Vocab \cup {Eos}],
         slots' = [s \in Slots |->
                     IF s \notin Sampled THEN slots[s]
                     ELSE IF TokEnds(tok, s) THEN NoFlight
                     ELSE [slots[s] EXCEPT !.produced = @ + 1]],
         work' = [s \in Slots |->
                    IF s \in Sampled /\ ~ TokEnds(tok, s)
                    THEN [Drained[s] EXCEPT !.remaining = << tok[s] >>] ELSE Drained[s]]
  PROVE  /\ slots' \in [Slots -> Flights]
         /\ work' \in [Slots -> [remaining : Seq(Tokens), next_pos : Nat]]
         /\ InFlight' = {s \in InFlight : ~ (s \in Sampled /\ TokEnds(tok, s))}
         /\ \A s \in InFlight' : /\ slots'[s].session = slots[s].session
                                 /\ slots'[s].req = slots[s].req
  <1>1. slots \in [Slots -> Flights]
    BY DEF EngineTypes
  <1>2. Sampled \subseteq InFlight /\ InFlight \subseteq Slots
    BY SampledFinite
  <1>3. NoFlight \in Flights /\ NoFlight.session = NoId
    BY DEF NoFlight, Flights
  <1>4. ASSUME NEW s \in Slots
        PROVE  /\ slots'[s] \in Flights
               /\ s \in Sampled /\ TokEnds(tok, s) => slots'[s].session = NoId
               /\ ~ (s \in Sampled /\ TokEnds(tok, s)) =>
                    slots'[s].session = slots[s].session /\ slots'[s].req = slots[s].req
    <2> DEFINE x == slots[s]
    <2>0. x \in Flights /\ x.produced + 1 \in Nat
      BY <1>1 DEF Flights
    <2>1. CASE s \notin Sampled
      BY <2>0, <2>1
    <2>2. CASE s \in Sampled /\ TokEnds(tok, s)
      <3>1. slots'[s] = NoFlight
        BY <2>2
      <3> QED BY <1>3, <2>2, <3>1
    <2>3. CASE s \in Sampled /\ ~ TokEnds(tok, s)
      <3>1. slots'[s] = [x EXCEPT !.produced = x.produced + 1]
        BY <2>3
      <3> HIDE DEF x
      <3>2. slots'[s] \in Flights /\ slots'[s].session = x.session /\ slots'[s].req = x.req
        BY <2>0, <3>1 DEF Flights
      <3> QED BY <2>3, <3>2 DEF x
    <2> QED BY <2>1, <2>2, <2>3
  <1>5. slots' \in [Slots -> Flights]
    BY <1>4
  <1>6. InFlight' = {s \in InFlight : ~ (s \in Sampled /\ TokEnds(tok, s))}
    BY <1>4 DEF InFlight
  <1>7. ASSUME NEW s \in Slots
        PROVE  work'[s] \in [remaining : Seq(Tokens), next_pos : Nat]
    <2> DEFINE d == Drained[s]
    <2>0. d \in [remaining : Seq(Tokens), next_pos : Nat]
      BY TakeType
    <2>1. CASE ~ (s \in Sampled /\ ~ TokEnds(tok, s))
      BY <2>0, <2>1
    <2>2. CASE s \in Sampled /\ ~ TokEnds(tok, s)
      <3>1. work'[s] = [d EXCEPT !.remaining = << tok[s] >>]
        BY <2>2
      <3>2. tok[s] \in Tokens
        BY <2>2 DEF TokEnds, Tokens
      <3>3. << tok[s] >> \in Seq(Tokens)
        BY <3>2, OneSet
      <3> HIDE DEF d
      <3> QED BY <2>0, <3>1, <3>3
    <2> QED BY <2>1, <2>2
  <1>8. work' \in [Slots -> [remaining : Seq(Tokens), next_pos : Nat]]
    BY <1>7
  <1>9. \A s \in InFlight' : /\ slots'[s].session = slots[s].session
                             /\ slots'[s].req = slots[s].req
    BY <1>2, <1>4, <1>6
  <1> QED BY <1>5, <1>6, <1>8, <1>9

(* Who is told, and of what. *)
LEMMA StepAnswers ==
  ASSUME EngineTypes, AnswerInv, NEW tok,
         reply' = [q \in Requests |->
              IF ~ Told(tok, q) \/ ~ TokEnds(tok, ReqSlot(q)) THEN reply[q]
              ELSE IF tok[ReqSlot(q)] = Eos THEN "Eos" ELSE "MaxTokens"],
         stream' = [q \in Requests |->
              IF Told(tok, q) /\ tok[ReqSlot(q)] # Eos
              THEN Append(stream[q], tok[ReqSlot(q)]) ELSE stream[q]]
  PROVE  /\ reply' \in [Requests -> Replies] /\ DOMAIN stream' = Requests
         /\ \A q \in Requests : reply[q] # "Accepted" => reply'[q] = reply[q] /\ stream'[q] = stream[q]
         /\ \A q \in Requests : reply'[q] # reply[q] => reply'[q] \in Terminal
         /\ \A s \in InFlight : ~ (s \in Sampled /\ TokEnds(tok, s)) =>
                                  reply'[slots[s].req] = "Accepted"
         /\ \A s \in Sampled : TokEnds(tok, s) =>
                                 Gone(slots[s].req) \/ reply'[slots[s].req] \in Terminal
  <1>1. reply \in [Requests -> Replies] /\ \A s \in InFlight : slots[s].req \in Requests
    BY DEF EngineTypes
  <1>2. Sampled \subseteq InFlight
    BY SampledFinite
  <1>3. /\ \A s \in InFlight : reply[slots[s].req] = "Accepted"
        /\ \A s, t \in InFlight : slots[s].req = slots[t].req => s = t
    BY DEF AnswerInv
  <1>4. \A s \in Sampled : ReqSlot(slots[s].req) = s
    BY <1>2, <1>3 DEF ReqSlot
  <1>5. "Eos" \in Terminal /\ "MaxTokens" \in Terminal /\ Terminal \subseteq Replies
    BY DEF Terminal, Replies
  <1>6. reply' \in [Requests -> Replies] /\ DOMAIN stream' = Requests
    BY <1>1, <1>5
  <1>7. \A q \in Requests : Told(tok, q) => reply[q] = "Accepted"
    BY <1>2, <1>3 DEF Told, Touched
  <1>8. \A q \in Requests : reply'[q] # reply[q] => reply'[q] \in Terminal
    BY <1>5
  <1>9. ASSUME NEW s \in InFlight, ~ (s \in Sampled /\ TokEnds(tok, s))
        PROVE  reply'[slots[s].req] = "Accepted"
    <2> DEFINE q == slots[s].req
    <2>1. q \in Requests /\ reply[q] = "Accepted"
      BY <1>1, <1>3
    <2>2. CASE ~ Told(tok, q)
      BY <2>1, <2>2
    <2>3. CASE Told(tok, q)
      <3>1. PICK t \in Touched(tok) : slots[t].req = q
        BY <2>3 DEF Told
      <3>2. t = s /\ s \in Sampled
        BY <1>2, <1>3, <3>1 DEF Touched
      <3>3. ReqSlot(q) = s
        BY <1>4, <3>2
      <3> QED BY <1>9, <2>1, <3>2, <3>3
    <2> QED BY <2>2, <2>3
  <1>10. ASSUME NEW s \in Sampled, TokEnds(tok, s), ~ Gone(slots[s].req)
         PROVE  reply'[slots[s].req] \in Terminal
    <2> DEFINE q == slots[s].req
    <2>1. q \in Requests /\ ReqSlot(q) = s
      BY <1>1, <1>2, <1>4
    <2>2. Told(tok, q)
      BY <1>10 DEF Told, Touched, TokGone
    <2> HIDE DEF q
    <2>3. reply'[q] \in {"Eos", "MaxTokens"}
      BY <1>10, <2>1, <2>2
    <2> QED BY <1>5, <2>3 DEF q
  <1> QED BY <1>6, <1>7, <1>8, <1>9, <1>10

(* One step: tokens are sent, replies end, sessions of gone clients close. *)
LEMMA StepKeeps ==
  ASSUME EngineInv, Step
  PROVE  EngineInv' /\ AnswerStep
  <1>1. RigOK(rig) /\ Flying(rig) /\ EngineTypes /\ AnswerInv
    BY DEF EngineInv
  <1>2. /\ ~ Overflow /\ queue' = queue /\ sender' = sender /\ engine' = engine
        /\ client' = client /\ faults' = faults
    BY DEF Step
  <1>3. PICK top \in Batch, tok \in [Sampled -> Vocab \cup {Eos}] : Sample(Forwarded(top), tok)
    BY DEF Step
  <1> DEFINE r == Forwarded(top)
             a == Stamped(r, tok)
  <1>4. /\ rig' = close_all(a, Left(tok))
        /\ reply' = [q \in Requests |->
             IF ~ Told(tok, q) \/ ~ TokEnds(tok, ReqSlot(q)) THEN reply[q]
             ELSE IF tok[ReqSlot(q)] = Eos THEN "Eos" ELSE "MaxTokens"]
        /\ stream' = [q \in Requests |->
             IF Told(tok, q) /\ tok[ReqSlot(q)] # Eos
             THEN Append(stream[q], tok[ReqSlot(q)]) ELSE stream[q]]
        /\ slots' = [s \in Slots |->
             IF s \notin Sampled THEN slots[s]
             ELSE IF TokEnds(tok, s) THEN NoFlight
             ELSE [slots[s] EXCEPT !.produced = @ + 1]]
        /\ work' = [s \in Slots |->
             IF s \in Sampled /\ ~ TokEnds(tok, s)
             THEN [Drained[s] EXCEPT !.remaining = << tok[s] >>] ELSE Drained[s]]
    BY <1>3, SampleParts
  <1>5. RigOK(r) /\ Flying(r) /\ Spares(rig, r)
    BY <1>1, <1>2, ForwardedCached, CachedKeeps
  <1> HIDE DEF r
  <1>6. RigOK(a) /\ SamePlaces(r, a)
    BY <1>1, <1>5, StampedKeeps
  <1> HIDE DEF a
  <1>7. Spares(rig, a)
    BY <1>5, <1>6, SamePlacesSpare, SparesChain
  <1>8. Flying(a)
    BY <1>1, <1>7, SparesFly
  <1>9. Sampled \subseteq InFlight /\ InFlight \subseteq Slots
    BY SampledFinite
  <1>10. Left(tok) \subseteq Busy
    BY <1>9 DEF Left, Busy
  <1>11. RigOK(rig') /\ \A i \in Ids \ Left(tok) : rig'.sess[i] = a.sess[i]
    BY <1>4, <1>6, <1>8, <1>10, BusyResident, CloseAllKeeps
  <1>12. /\ slots' \in [Slots -> Flights]
         /\ work' \in [Slots -> [remaining : Seq(Tokens), next_pos : Nat]]
         /\ InFlight' = {s \in InFlight : ~ (s \in Sampled /\ TokEnds(tok, s))}
         /\ \A s \in InFlight' : /\ slots'[s].session = slots[s].session
                                 /\ slots'[s].req = slots[s].req
    BY <1>1, <1>4, StepFlights
  <1>13. /\ reply' \in [Requests -> Replies] /\ DOMAIN stream' = Requests
         /\ \A q \in Requests : reply[q] # "Accepted" => reply'[q] = reply[q] /\ stream'[q] = stream[q]
         /\ \A q \in Requests : reply'[q] # reply[q] => reply'[q] \in Terminal
         /\ \A s \in InFlight : ~ (s \in Sampled /\ TokEnds(tok, s)) =>
                                  reply'[slots[s].req] = "Accepted"
         /\ \A s \in Sampled : TokEnds(tok, s) =>
                                 Gone(slots[s].req) \/ reply'[slots[s].req] \in Terminal
    BY <1>1, <1>4, StepAnswers
  <1>14. Flying(rig)'
    <2>1. ASSUME NEW s \in InFlight'
          PROVE  slots'[s].session \in Ids /\ rig'.sess[slots'[s].session].slot = s
      <3> DEFINE i == slots[s].session
      <3>1. s \in InFlight /\ ~ (s \in Sampled /\ TokEnds(tok, s)) /\ slots'[s].session = i
        BY <1>12, <2>1
      <3>2. i \in Ids /\ a.sess[i].slot = s
        BY <1>8, <3>1 DEF Flying
      <3>3. i \notin Left(tok)
        <4> SUFFICES ASSUME i \in Left(tok) PROVE FALSE
          OBVIOUS
        <4>1. PICK t \in Sampled : TokGone(tok, t) /\ slots[t].session = i
          BY DEF Left
        <4>2. a.sess[i].slot = t
          BY <1>8, <1>9, <4>1 DEF Flying
        <4> QED BY <3>1, <3>2, <4>1, <4>2 DEF TokEnds
      <3> QED BY <1>11, <3>1, <3>2, <3>3
    <2> QED BY <2>1 DEF Flying
  <1>15. EngineTypes'
    <2>1. \A s \in InFlight' : slots'[s].req \in Requests
      BY <1>1, <1>12 DEF EngineTypes
    <2> QED BY <1>1, <1>2, <1>12, <1>13, <2>1 DEF EngineTypes
  <1>16. ASSUME NEW q \in Requests, reply'[q] = "Accepted", ~ Gone(q)
         PROVE  \E s \in InFlight' : s \in InFlight /\ slots[s].req = q /\ slots'[s].req = q
    <2>1. reply[q] = "Accepted"
      BY <1>13, <1>16, Marks
    <2>2. PICK s \in InFlight : slots[s].req = q
      BY <1>1, <1>16, <2>1 DEF AnswerInv
    <2>3. ~ (s \in Sampled /\ TokEnds(tok, s))
      BY <1>13, <1>16, <2>2, Marks
    <2> QED BY <1>12, <2>2, <2>3
  <1>17. AnswerInv'
    <2>1. \A p \in ToSet(queue)' : reply'[p] = "none" /\ client'[p] # "idle"
      BY <1>1, <1>2, <1>13, ToSetAt DEF AnswerInv, EngineTypes
    <2>2. \A p \in Requests : reply'[p] # "none" => client'[p] # "idle"
      BY <1>1, <1>2, <1>13 DEF AnswerInv
    <2>3. \A s \in InFlight' : reply'[slots'[s].req] = "Accepted"
      BY <1>12, <1>13
    <2>4. \A s, t \in InFlight' : slots'[s].req = slots'[t].req => s = t
      BY <1>1, <1>12 DEF AnswerInv
    <2>5. \A p \in Requests : reply'[p] = "Accepted" =>
            Gone(p)' \/ \E s \in InFlight' : slots'[s].req = p
      BY <1>2, <1>16 DEF Gone
    <2> QED BY <2>1, <2>2, <2>3, <2>4, <2>5 DEF AnswerInv
  <1>18. AnswerStep
    <2> SUFFICES ASSUME NEW p \in Requests
                 PROVE  /\ reply[p] \in Terminal => reply'[p] = reply[p] /\ stream'[p] = stream[p]
                        /\ reply[p] = "Accepted" /\ reply'[p] \notin Terminal =>
                             \/ Gone(p)
                             \/ \E s \in InFlight : slots[s].req = p /\ slots'[s].req = p
      BY DEF AnswerStep
    <2>1. reply[p] \in Terminal => reply'[p] = reply[p] /\ stream'[p] = stream[p]
      BY <1>13, Marks
    <2>2. reply[p] = "Accepted" /\ reply'[p] \notin Terminal => reply'[p] = "Accepted"
      BY <1>13
    <2> QED BY <1>16, <2>1, <2>2
  <1> QED BY <1>11, <1>14, <1>15, <1>17, <1>18 DEF EngineInv

-----------------------------------------------------------------------------
(* The theorems *)

(* The engine starts with every slot free and nobody served. *)
LEMMA InitInv ==
  ASSUME Init
  PROVE  EngineInv
  <1>1. /\ rig = InitRig /\ slots = [s \in Slots |-> NoFlight]
        /\ work = [s \in Slots |-> [remaining |-> << >>, next_pos |-> 0]]
        /\ queue = << >> /\ sender = TRUE /\ engine = "running"
        /\ reply = [q \in Requests |-> "none"] /\ stream = [q \in Requests |-> << >>]
        /\ client = [q \in Requests |-> "idle"] /\ faults = 0
    BY DEF Init
  <1>2. InFlight = {}
    BY <1>1 DEF InFlight, NoFlight
  <1>3. /\ DOMAIN rig = Fields
        /\ rig.used = [s \in Slots |-> FALSE] /\ rig.len = [s \in Slots |-> 0]
        /\ rig.sess = [i \in Ids |-> NoSession] /\ rig.clock = 0 /\ rig.next_id = 0
        /\ rig.admitted = 0 /\ rig.snaps = [i \in Ids |-> NoSnap]
    BY <1>1 DEF InitRig, Fields
  <1>4. RigTypes(rig)
    <2>1. /\ rig.used \in [Slots -> BOOLEAN] /\ rig.len \in [Slots -> 0 .. SlabCap]
          /\ rig.sess \in [Ids -> Sessions] /\ DOMAIN rig.snaps = Ids
      BY <1>3, NoSessionType, Consts
    <2>2. \A i \in Ids : rig.sess[i].last_used <= rig.clock
      BY <1>3, NoSessionType
    <2>3. \A i \in Ids : rig.snaps[i].present \in BOOLEAN /\ Len(rig.snaps[i].kv) \in 0 .. SlabCap
      BY <1>3, NoSnapLen
    <2>4. rig.clock \in Nat /\ rig.next_id \in 0 .. MaxSessions /\ rig.admitted \in Nat
      BY <1>3, Consts
    <2> QED BY <1>3, <2>1, <2>2, <2>3, <2>4 DEF RigTypes
  <1>5. Owned(rig)
    BY <1>3, NoSessionType DEF Owned
  <1>6. Snapped(rig)
    BY <1>3, NoSessionType, NoSnapLen DEF Snapped
  <1>7. Charged(rig)
    <2>1. Live(rig) = {}
      BY <1>3, NoSessionType DEF Live
    <2> QED BY <1>3, <2>1, FS_EmptySet DEF Charged
  <1>8. Flying(rig)
    BY <1>2 DEF Flying
  <1>9. EngineTypes
    <2>1. slots \in [Slots -> Flights]
      BY <1>1 DEF NoFlight, Flights
    <2>2. work \in [Slots -> [remaining : Seq(Tokens), next_pos : Nat]]
      BY <1>1, EmptySeq
    <2>3. queue \in Seq(Requests) /\ Distinct(queue)
      BY <1>1, EmptySeq, EmptySet
    <2>4. /\ sender \in BOOLEAN /\ engine \in {"running", "exited", "panicked"}
          /\ reply \in [Requests -> Replies] /\ DOMAIN stream = Requests
          /\ client \in [Requests -> Clients] /\ faults \in 0 .. MaxFaults
      BY <1>1, Consts DEF Replies, Clients
    <2> QED BY <1>2, <2>1, <2>2, <2>3, <2>4 DEF EngineTypes
  <1>10. AnswerInv
    BY <1>1, <1>2, EmptySet DEF AnswerInv
  <1> QED BY <1>4, <1>5, <1>6, <1>7, <1>8, <1>9, <1>10 DEF EngineInv, RigOK

(* Every step keeps the invariant and answers nobody twice. *)
LEMMA NextKeeps ==
  ASSUME EngineInv, [Next]_vars
  PROVE  EngineInv' /\ AnswerStep
  <1>1. CASE admit
    BY <1>1, AdmitKeeps
  <1>2. CASE Panic
    BY <1>2, PanicKeeps
  <1>3. CASE ForwardOverflows \/ ForwardFails
    BY <1>3, ForwardKeeps
  <1>4. CASE SampleFails
    BY <1>4, SampleFailsKeeps
  <1>5. CASE Step
    BY <1>5, StepKeeps
  <1>6. CASE DropEngine \/ Exit \/ UNCHANGED vars
    BY <1>6, IdleKeeps
  <1>7. ASSUME NEW q \in Requests, Client(q)
        PROVE  EngineInv' /\ AnswerStep
    BY <1>7, SubmitKeeps, VanishKeeps DEF Client
  <1> QED BY <1>1, <1>2, <1>3, <1>4, <1>5, <1>6, <1>7 DEF Next, Engine

(* EngineInv is an invariant of the engine and its clients (run_loop,      *)
(* admit, evict, restore, complete_request_slots).                         *)
THEOREM EngineInvariant == Spec => []EngineInv
  <1>1. Init => EngineInv
    BY InitInv
  <1>2. EngineInv /\ [Next]_vars => EngineInv'
    BY NextKeeps
  <1> QED BY <1>1, <1>2, PTL DEF Spec

(* The engine's state keeps its shape: in particular no length the engine  *)
(* records passes the slab, though a forward's writes may.                 *)
THEOREM TypeCorrect == Spec => []TypeOK
  <1>1. EngineInv => TypeOK
    <2> SUFFICES ASSUME EngineInv PROVE TypeOK
      OBVIOUS
    <2>1. RigTypes(rig) /\ EngineTypes
      BY DEF EngineInv, RigOK
    <2>2. DOMAIN rig.sess = Ids /\ \A i \in Ids : SessionRecord(rig.sess[i])
      BY <2>1 DEF RigTypes, SessionRecord, Sessions, Residencies
    <2>3. DOMAIN slots = Slots /\ \A s \in Slots : slots[s].session \in Ids \cup {NoId}
      BY <2>1 DEF EngineTypes, Flights
    <2> QED BY <2>1, <2>2, <2>3 DEF TypeOK, RigTypes, EngineTypes
  <1> QED BY <1>1, EngineInvariant, PTL

(* Slots, sessions and flights agree after any eviction, restore, close or *)
(* failure: no two sessions share a slot, and nobody generating loses it.  *)
THEOREM SlotOwnershipHolds == Spec => []SlotOwnership
  <1>1. EngineInv => SlotOwnership
    <2> SUFFICES ASSUME EngineInv PROVE SlotOwnership
      OBVIOUS
    <2>1. RigTypes(rig) /\ Owned(rig) /\ Flying(rig) /\ RigOK(rig)
      BY DEF EngineInv, RigOK
    <2>2. \A i \in Ids : rig.sess[i].slot # NoSlot => i \in Live(rig)
      BY <2>1 DEF Owned, Live
    <2>3. \A s \in Slots : rig.used[s] <=> \E i \in Live(rig) : rig.sess[i].slot = s
      BY <2>1, <2>2, Numbers DEF Owned, Live
    <2>4. \A s \in InFlight : slots[s].session \in Live(rig) /\ rig.sess[slots[s].session].slot = s
      BY <2>1, BusyResident DEF Flying, Busy
    <2>5. \A i \in Live(rig) : i \in Ids
      BY DEF Live
    <2> QED BY <2>1, <2>3, <2>4, <2>5 DEF SlotOwnership, Owned
  <1> QED BY <1>1, EngineInvariant, PTL

(* The budget is charged once per open session and never to its last byte, *)
(* after any refused open, close, eviction and failure (admission.rs).     *)
THEOREM BudgetMatchesSessionsHolds == Spec => []BudgetMatchesSessions
  <1>1. EngineInv => BudgetMatchesSessions
    <2> SUFFICES ASSUME EngineInv PROVE BudgetMatchesSessions
      OBVIOUS
    <2>1. Charged(rig) /\ rig.admitted \in Nat
      BY DEF EngineInv, RigOK, RigTypes
    <2> QED BY <2>1 DEF BudgetMatchesSessions, Charged, used_bytes
  <1> QED BY <1>1, EngineInvariant, PTL

(* One answer per request and none of them after it; a request that is     *)
(* generating keeps its slot until it is answered or its client has gone.  *)
THEOREM AnswersOnceHolds == Spec => AnswersOnce
  <1>1. EngineInv /\ [Next]_vars => [AnswerStep]_vars
    BY NextKeeps
  <1>2. [AnswerStep]_vars => [\A q \in Requests :
       /\ reply[q] \in Terminal => reply'[q] = reply[q] /\ stream'[q] = stream[q]
       /\ reply[q] = "Accepted" /\ reply'[q] \notin Terminal =>
            \/ Gone(q)
            \/ \E s \in InFlight : slots[s].req = q /\ slots'[s].req = q]_vars
    BY DEF AnswerStep
  <1> QED BY <1>1, <1>2, EngineInvariant, PTL DEF Spec, AnswersOnce
=============================================================================
