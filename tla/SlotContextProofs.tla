------------------------- MODULE SlotContextProofs -------------------------
(***************************************************************************)
(* Proofs about what the slots of SlotEngine hold: a session's KV and      *)
(* recurrent state, its snapshot and the logits it is sampled from are     *)
(* those of its own tokens, as long as no step runs past a slab's end.     *)
(***************************************************************************)
EXTENDS SlotEngineProofs

-----------------------------------------------------------------------------
(* The inductive invariant *)

(* No step about to be taken runs past the end of a slab. *)
Within == engine = "running" => ~ Overflow

(* Position k of slot s in the arena. *)
Addr(s, k) == s * SlabCap + k - 1

(* Slot s holds a prefix of the tokens ts, in the arena and in its         *)
(* recurrent state.                                                        *)
SlotHolds(r, s, ts) ==
  /\ r.len[s] <= Len(ts)
  /\ \A k \in 1 .. r.len[s] : r.arena[Addr(s, k)] = ts[k]
  /\ r.dn[s] = SubSeq(ts, 1, r.len[s])

(* A rig whose Resident sessions, those of X apart, are held by their      *)
(* slots and whose snapshots are of their sessions' tokens.                *)
HeldBut(r, X) ==
  /\ DOMAIN r.arena = 0 .. NSlots * SlabCap - 1 /\ DOMAIN r.dn = Slots
  /\ \A i \in Ids \ X : r.sess[i].residency = "Resident" =>
                          SlotHolds(r, r.sess[i].slot, r.sess[i].tokens)
  /\ \A i \in Ids : r.snaps[i].present =>
                      Caches(r.snaps[i].kv, r.snaps[i].dn, r.sess[i].tokens)

Held(r) == HeldBut(r, {})

TokensOf(s) == rig.sess[slots[s].session].tokens

(* The work of a slot is what its session's tokens have beyond the slot's  *)
(* length, and a slot with no work left has the logits of all of them.     *)
Feeding(w, n, ts, row) ==
  /\ w.next_pos = n
  /\ w.remaining = SubSeq(ts, n + 1, Len(ts))
  /\ w.remaining = << >> => row.kv = ts /\ row.dn = ts

FeedInv ==
  /\ \A s \in Slots \ InFlight : work[s].remaining = << >>
  /\ \A s \in InFlight : Feeding(work[s], rig.len[s], TokensOf(s), logits[s])

(* A capture has every slot in it. *)
GraphInv == graph.ctx # 0 => graph.slots = Slots

ContextInv == Held(rig) /\ (engine = "running" => FeedInv) /\ GraphInv

-----------------------------------------------------------------------------
(* Sequences and addresses *)

(* The first n tokens. *)
LEMMA PrefixAt ==
  ASSUME NEW ts \in Seq(Tokens), NEW n \in Nat, n <= Len(ts)
  PROVE  /\ SubSeq(ts, 1, n) \in Seq(Tokens) /\ Len(SubSeq(ts, 1, n)) = n
         /\ \A k \in 1 .. n : SubSeq(ts, 1, n)[k] = ts[k]
  <1>1. \A k \in 1 .. n : ts[k] \in Tokens
    BY ElementOfSeq, LenProperties
  <1> QED BY <1>1, SubSeqProperties

(* The tokens after the first n. *)
LEMMA RestAt ==
  ASSUME NEW ts \in Seq(Tokens), NEW n \in Nat, n <= Len(ts)
  PROVE  /\ SubSeq(ts, n + 1, Len(ts)) \in Seq(Tokens)
         /\ Len(SubSeq(ts, n + 1, Len(ts))) = Len(ts) - n
         /\ \A k \in 1 .. Len(ts) - n : SubSeq(ts, n + 1, Len(ts))[k] = ts[n + k]
  <1>0. Len(ts) \in Nat
    OBVIOUS
  <1>1. \A k \in n + 1 .. Len(ts) : ts[k] \in Tokens
    BY ElementOfSeq
  <1>2. /\ SubSeq(ts, n + 1, Len(ts)) \in Seq(Tokens)
        /\ Len(SubSeq(ts, n + 1, Len(ts)))
             = IF n + 1 <= Len(ts) THEN Len(ts) - (n + 1) + 1 ELSE 0
        /\ \A i \in 1 .. Len(ts) - (n + 1) + 1 :
             SubSeq(ts, n + 1, Len(ts))[i] = ts[n + 1 + i - 1]
    BY <1>0, <1>1, SubSeqProperties
  <1> QED BY <1>0, <1>2

(* The slabs lie end to end in the arena and do not meet. *)
LEMMA AddrApart ==
  ASSUME NEW s \in Slots, NEW k \in 1 .. SlabCap, NEW t \in Slots, NEW j \in 1 .. SlabCap,
         Addr(s, k) = Addr(t, j)
  PROVE  s = t /\ k = j
  <1>1. s \in Nat /\ t \in Nat /\ SlabCap \in Nat /\ s * SlabCap \in Nat /\ t * SlabCap \in Nat
    BY Numbers, Consts
  <1>2. s * SlabCap + k = t * SlabCap + j
    BY <1>1 DEF Addr
  <1>3. ~ s < t
    <2> SUFFICES ASSUME s < t PROVE FALSE
      OBVIOUS
    <2>1. PICK d \in Nat : t = s + 1 + d
      <3>1. t - s - 1 \in Nat /\ t = s + 1 + (t - s - 1)
        BY <1>1
      <3> QED BY <3>1
    <2>2. t * SlabCap = s * SlabCap + SlabCap + d * SlabCap /\ d * SlabCap \in Nat
      BY <1>1, <2>1
    <2> QED BY <1>1, <1>2, <2>2
  <1>4. ~ t < s
    <2> SUFFICES ASSUME t < s PROVE FALSE
      OBVIOUS
    <2>1. PICK d \in Nat : s = t + 1 + d
      <3>1. s - t - 1 \in Nat /\ s = t + 1 + (s - t - 1)
        BY <1>1
      <3> QED BY <3>1
    <2>2. s * SlabCap = t * SlabCap + SlabCap + d * SlabCap /\ d * SlabCap \in Nat
      BY <1>1, <2>1
    <2> QED BY <1>1, <1>2, <2>2
  <1>5. s = t
    BY <1>1, <1>3, <1>4
  <1> QED BY <1>1, <1>2, <1>5

(* Every position of a slab is in the arena. *)
LEMMA AddrIn ==
  ASSUME NEW s \in Slots, NEW k \in 1 .. SlabCap
  PROVE  Addr(s, k) \in 0 .. NSlots * SlabCap - 1
  <1>1. s \in Nat /\ NSlots \in Nat /\ SlabCap \in Nat /\ s * SlabCap \in Nat /\ s < NSlots
    BY Numbers, Consts DEF Slots
  <1>2. PICK d \in Nat : NSlots = s + 1 + d
    <2>1. NSlots - s - 1 \in Nat /\ NSlots = s + 1 + (NSlots - s - 1)
      BY <1>1
    <2> QED BY <2>1
  <1>3. NSlots * SlabCap = s * SlabCap + SlabCap + d * SlabCap /\ d * SlabCap \in Nat
    BY <1>1, <1>2
  <1> QED BY <1>1, <1>3 DEF Addr

(* Reading a slab that holds tokens gives these tokens. *)
LEMMA Reads ==
  ASSUME NEW r, DOMAIN r.arena = 0 .. NSlots * SlabCap - 1, NEW s \in Slots,
         NEW n \in 0 .. SlabCap, NEW ts \in Seq(Tokens), n <= Len(ts),
         \A k \in 1 .. n : r.arena[Addr(s, k)] = ts[k]
  PROVE  ReadSlab(r, s, n) = SubSeq(ts, 1, n)
  <1> DEFINE x == ReadSlab(r, s, n)
             p == SubSeq(ts, 1, n)
  <1>0. n \in Nat /\ SlabCap \in Nat
    BY Consts
  <1>1. p \in Seq(Tokens) /\ Len(p) = n /\ \A k \in 1 .. n : p[k] = ts[k]
    BY <1>0, PrefixAt
  <1>2. \A k \in 1 .. n : Addr(s, k) \in DOMAIN r.arena
    BY <1>0, AddrIn
  <1>3. x = [k \in 1 .. n |-> ts[k]]
    BY <1>2 DEF ReadSlab, Addr
  <1>4. p = [k \in 1 .. n |-> p[k]]
    BY <1>1
  <1> HIDE DEF x, p
  <1>5. \A k \in 1 .. n : ts[k] = p[k]
    BY <1>1
  <1> QED BY <1>3, <1>4, <1>5 DEF x, p

(* What a slot holds, as a kernel or a capture reads it. *)
LEMMA HoldsReads ==
  ASSUME NEW r, RigTypes(r), DOMAIN r.arena = 0 .. NSlots * SlabCap - 1, NEW s \in Slots,
         NEW ts \in Seq(Tokens), SlotHolds(r, s, ts)
  PROVE  Caches(ReadSlab(r, s, r.len[s]), r.dn[s], ts)
  <1>1. r.len[s] \in 0 .. SlabCap /\ r.len[s] \in Nat
    BY Consts DEF RigTypes
  <1>2. ReadSlab(r, s, r.len[s]) = SubSeq(ts, 1, r.len[s])
    BY <1>1, Reads DEF SlotHolds
  <1>3. Len(SubSeq(ts, 1, r.len[s])) = r.len[s]
    BY <1>1, PrefixAt DEF SlotHolds
  <1> QED BY <1>2, <1>3 DEF SlotHolds, Caches

-----------------------------------------------------------------------------
(* The operations of the rig *)

(* A slot nobody wrote holds what it held. *)
LEMMA HoldsFrame ==
  ASSUME NEW r, NEW e, NEW s, NEW ts, r.len[s] \in 0 .. SlabCap, SlotHolds(r, s, ts),
         e.len[s] = r.len[s], e.dn[s] = r.dn[s],
         \A k \in 1 .. SlabCap : e.arena[Addr(s, k)] = r.arena[Addr(s, k)]
  PROVE  SlotHolds(e, s, ts)
  <1>1. \A k \in 1 .. r.len[s] : k \in 1 .. SlabCap
    BY Consts
  <1> QED BY <1>1 DEF SlotHolds

(* Two sessions that hold slots hold different ones. *)
LEMMA OtherSlot ==
  ASSUME NEW r, RigOK(r), NEW i \in Ids, r.sess[i].residency = "Resident"
  PROVE  /\ r.sess[i].slot \in Slots /\ r.sess[i].tokens \in Seq(Tokens)
         /\ r.len[r.sess[i].slot] \in 0 .. SlabCap
         /\ \A j \in Ids : j # i => r.sess[j].slot # r.sess[i].slot
  <1>1. r.sess[i].slot # NoSlot
    BY DEF RigOK, Owned
  <1>2. r.sess[i] \in Sessions
    BY DEF RigOK, RigTypes
  <1>3. r.sess[i].slot \in Slots /\ r.sess[i].tokens \in Seq(Tokens)
    BY <1>1, <1>2 DEF Sessions
  <1>4. r.len[r.sess[i].slot] \in 0 .. SlabCap
    BY <1>3 DEF RigOK, RigTypes
  <1> QED BY <1>1, <1>3, <1>4 DEF RigOK, Owned

(* From r to e, no session but v changes its slot, the slot's length or    *)
(* its tokens.                                                             *)
Steady(r, e, v) ==
  \A i \in Ids \ {v} :
    r.sess[i].residency = "Resident" =>
      /\ e.sess[i].slot = r.sess[i].slot /\ e.sess[i].tokens = r.sess[i].tokens
      /\ e.len[r.sess[i].slot] = r.len[r.sess[i].slot]

(* So it is when only v's slot, or one that was free, changes its length. *)
LEMMA SteadySlot ==
  ASSUME NEW r, RigOK(r), NEW e, NEW v, NEW s, \A i \in Ids \ {v} : e.sess[i] = r.sess[i],
         \A t \in Slots \ {s} : e.len[t] = r.len[t],
         \A i \in Ids \ {v} : r.sess[i].residency = "Resident" => r.sess[i].slot # s
  PROVE  Steady(r, e, v)
  BY OtherSlot DEF Steady

(* Giving up a slot writes nothing on the device. *)
LEMMA MarkedCaches ==
  ASSUME NEW x, DOMAIN x = Fields, NEW v, NEW res
  PROVE  Marked(x, v, res).arena = x.arena /\ Marked(x, v, res).dn = x.dn
  <1> DEFINE s == x.sess[v].slot
             y == IF s = NoSlot THEN x ELSE pool_release(x, s)
             z == give_up_slot(x, v)
  <1>1. DOMAIN y = Fields /\ y.arena = x.arena /\ y.dn = x.dn
    BY DEF pool_release, Fields
  <1>2. z = [y EXCEPT !.sess[v].slot = NoSlot]
    BY DEF give_up_slot
  <1> HIDE DEF y
  <1>3. DOMAIN z = Fields /\ z.arena = x.arena /\ z.dn = x.dn
    BY <1>1, <1>2 DEF Fields
  <1>4. Marked(x, v, res) = [z EXCEPT !.sess[v].residency = res]
    BY DEF Marked
  <1> HIDE DEF z
  <1> QED BY <1>3, <1>4 DEF Fields

(* An eviction leaves the arena and the recurrent states alone. *)
LEMMA EvictCaches ==
  ASSUME NEW r, DOMAIN r = Fields, NEW v, NEW o \in EvictOutcomes, NEW e, e = evict(r, v, o)
  PROVE  e.arena = r.arena /\ e.dn = r.dn
  <1> DEFINE x(c) == [r EXCEPT !.snaps[v] = c]
             cap == capture_slot(r, r.sess[v].slot)
  <1>1. \A c : DOMAIN x(c) = Fields /\ x(c).arena = r.arena /\ x(c).dn = r.dn
    BY DEF Fields
  <1>2. CASE o = "ok"
    <2>1. e = Marked(x(cap), v, "Swapped")
      BY <1>2 DEF evict, mark_swapped, Marked
    <2> HIDE DEF x
    <2> QED BY <1>1, <2>1, MarkedCaches
  <1>3. CASE o = "capture_failed"
    <2>1. e = Marked(r, v, "Cold")
      BY <1>3 DEF evict, mark_cold, Marked
    <2> QED BY <2>1, MarkedCaches
  <1>4. CASE o = "park_failed"
    <2>1. e = Marked(x(NoSnap), v, "Cold")
      BY <1>4 DEF evict, mark_cold, Marked
    <2> HIDE DEF x
    <2> QED BY <1>1, <2>1, MarkedCaches
  <1> QED BY <1>2, <1>3, <1>4 DEF EvictOutcomes

(* An evicted session's snapshot is of its own tokens. *)
LEMMA EvictHeld ==
  ASSUME NEW r, RigOK(r), Held(r), NEW v \in Ids, r.sess[v].slot # NoSlot,
         NEW o \in EvictOutcomes, NEW e, e = evict(r, v, o)
  PROVE  Held(e) /\ Steady(r, e, v)
  <1> DEFINE s == r.sess[v].slot
  <1>1. /\ s \in Slots
        /\ DOMAIN e = Fields
        /\ e.used = [r.used EXCEPT ![s] = FALSE]
        /\ e.len = [r.len EXCEPT ![s] = 0]
        /\ e.clock = r.clock /\ e.next_id = r.next_id /\ e.admitted = r.admitted
        /\ \/ /\ Moved(r, e, v, NoSlot, "Swapped")
              /\ e.snaps = [r.snaps EXCEPT ![v] = capture_slot(r, s)]
           \/ /\ Moved(r, e, v, NoSlot, "Cold")
              /\ e.snaps \in {[r.snaps EXCEPT ![v] = NoSnap], r.snaps}
    BY EvictFields
  <1>2. RigTypes(r) /\ DOMAIN r = Fields /\ DOMAIN r.snaps = Ids
        /\ r.len \in [Slots -> 0 .. SlabCap]
    BY DEF RigOK, RigTypes
  <1>3. e.arena = r.arena /\ e.dn = r.dn
    BY <1>2, EvictCaches
  <1>4. r.sess[v].residency = "Resident" /\ ~ r.snaps[v].present
    BY DEF RigOK, Owned, Snapped
  <1>5. /\ e.sess[v].slot = NoSlot /\ e.sess[v].residency \in {"Swapped", "Cold"}
        /\ e.sess[v].tokens = r.sess[v].tokens
        /\ \A i \in Ids \ {v} : e.sess[i] = r.sess[i]
    BY <1>1 DEF Moved
  <1>6. /\ e.snaps[v] \in {capture_slot(r, s), NoSnap, r.snaps[v]}
        /\ \A i \in Ids \ {v} : e.snaps[i] = r.snaps[i]
    BY <1>1, <1>2
  <1> HIDE DEF s
  <1>7. DOMAIN e.arena = 0 .. NSlots * SlabCap - 1 /\ DOMAIN e.dn = Slots
    BY <1>3 DEF Held, HeldBut
  <1>8. ASSUME NEW i \in Ids, e.sess[i].residency = "Resident"
        PROVE  SlotHolds(e, e.sess[i].slot, e.sess[i].tokens)
    <2> DEFINE t == r.sess[i].slot
    <2>1. i # v /\ e.sess[i] = r.sess[i] /\ r.sess[i].residency = "Resident"
      BY <1>5, <1>8
    <2>2. t \in Slots /\ t # s /\ r.len[t] \in 0 .. SlabCap
      BY <2>1, OtherSlot DEF s
    <2>3. SlotHolds(r, t, r.sess[i].tokens)
      BY <2>1 DEF Held, HeldBut
    <2>4. e.len[t] = r.len[t]
      BY <1>1, <1>2, <2>2
    <2> HIDE DEF t
    <2>5. SlotHolds(e, t, r.sess[i].tokens)
      BY <1>3, <2>2, <2>3, <2>4, HoldsFrame
    <2> QED BY <2>1, <2>5 DEF t
  <1>9. ASSUME NEW i \in Ids, e.snaps[i].present
        PROVE  Caches(e.snaps[i].kv, e.snaps[i].dn, e.sess[i].tokens)
    <2>1. CASE i # v
      BY <1>5, <1>6, <1>9, <2>1 DEF Held, HeldBut
    <2>2. CASE i = v
      <3>1. e.snaps[v] = capture_slot(r, s)
        BY <1>4, <1>6, <1>9, <2>2, NoSnapLen
      <3>2. e.snaps[v].kv = ReadSlab(r, s, r.len[s]) /\ e.snaps[v].dn = r.dn[s]
        BY <3>1 DEF capture_slot
      <3>3. r.sess[v].tokens \in Seq(Tokens)
        BY <1>4, OtherSlot
      <3>4. SlotHolds(r, s, r.sess[v].tokens) /\ DOMAIN r.arena = 0 .. NSlots * SlabCap - 1
        BY <1>4 DEF Held, HeldBut, s
      <3>5. Caches(ReadSlab(r, s, r.len[s]), r.dn[s], r.sess[v].tokens)
        BY <1>1, <1>2, <3>3, <3>4, HoldsReads
      <3> QED BY <1>5, <2>2, <3>2, <3>5
    <2> QED BY <2>1, <2>2
  <1>10. Steady(r, e, v)
    <2>1. \A t \in Slots \ {s} : e.len[t] = r.len[t]
      BY <1>1, <1>2
    <2>2. \A i \in Ids \ {v} : r.sess[i].residency = "Resident" => r.sess[i].slot # s
      BY OtherSlot DEF s
    <2> QED BY <1>5, <2>1, <2>2, SteadySlot
  <1> QED BY <1>7, <1>8, <1>9, <1>10 DEF Held, HeldBut

(* From r to e, the sessions X give up their slots for good. *)
Dropped(r, X, e) ==
  /\ \A i \in X : r.sess[i].residency = "Resident" /\ e.sess[i].residency = "Closed"
  /\ e.arena = r.arena /\ e.dn = r.dn /\ e.snaps = r.snaps
  /\ \A i \in Ids \ X : e.sess[i] = r.sess[i]
  /\ \A s \in Slots : (\A i \in X : r.sess[i].slot # s) => e.len[s] = r.len[s]

(* Whatever the slots of X held, nothing of it is left. *)
LEMMA DroppedHeld ==
  ASSUME NEW r, RigOK(r), NEW X \in SUBSET Ids, HeldBut(r, X), NEW e, Dropped(r, X, e)
  PROVE  Held(e)
  <1>0. /\ \A i \in X : r.sess[i].residency = "Resident" /\ e.sess[i].residency = "Closed"
        /\ e.arena = r.arena /\ e.dn = r.dn /\ e.snaps = r.snaps
        /\ \A i \in Ids \ X : e.sess[i] = r.sess[i]
        /\ \A s \in Slots : (\A i \in X : r.sess[i].slot # s) => e.len[s] = r.len[s]
    BY DEF Dropped
  <1>1. ASSUME NEW i \in Ids, e.sess[i].residency = "Resident"
        PROVE  SlotHolds(e, e.sess[i].slot, e.sess[i].tokens)
    <2> DEFINE t == r.sess[i].slot
    <2>1. i \notin X /\ e.sess[i] = r.sess[i] /\ r.sess[i].residency = "Resident"
      BY <1>0, <1>1
    <2>2. t \in Slots /\ r.len[t] \in 0 .. SlabCap /\ \A j \in X : r.sess[j].slot # t
      BY <2>1, OtherSlot
    <2>3. SlotHolds(r, t, r.sess[i].tokens)
      BY <2>1 DEF HeldBut
    <2>4. e.len[t] = r.len[t]
      BY <1>0, <2>2
    <2> HIDE DEF t
    <2>5. SlotHolds(e, t, r.sess[i].tokens)
      BY <1>0, <2>2, <2>3, <2>4, HoldsFrame
    <2> QED BY <2>1, <2>5 DEF t
  <1>2. ASSUME NEW i \in Ids, e.snaps[i].present
        PROVE  Caches(e.snaps[i].kv, e.snaps[i].dn, e.sess[i].tokens)
    <2>1. i \notin X
      BY <1>0, <1>2 DEF RigOK, Snapped
    <2> QED BY <1>0, <1>2, <2>1 DEF HeldBut
  <1> QED BY <1>0, <1>1, <1>2 DEF Held, HeldBut

(* close, of a session whose slot may hold anything. *)
LEMMA CloseHeld ==
  ASSUME NEW r, RigOK(r), NEW id \in Ids, HeldBut(r, {id}), r.sess[id].residency = "Resident",
         NEW e, e = close(r, id)
  PROVE  Held(e) /\ Steady(r, e, id)
  <1> DEFINE s == r.sess[id].slot
             y == pool_release(r, s)
             z == [y EXCEPT !.sess[id] = NoSession]
  <1>1. /\ DOMAIN r = Fields /\ r.len \in [Slots -> 0 .. SlabCap] /\ r.sess \in [Ids -> Sessions]
    BY DEF RigOK, RigTypes
  <1>2. s # NoSlot /\ s \in Slots
    BY OtherSlot, Numbers
  <1>3. e = adm_release(z)
    BY <1>2 DEF close
  <1>4. /\ DOMAIN y = Fields /\ y.len = [r.len EXCEPT ![s] = 0]
        /\ y.sess = r.sess /\ y.snaps = r.snaps /\ y.arena = r.arena /\ y.dn = r.dn
    BY <1>1 DEF pool_release, Fields
  <1> HIDE DEF y, s
  <1>5. /\ DOMAIN z = Fields /\ z.len = y.len /\ z.arena = y.arena /\ z.dn = y.dn
        /\ z.sess = [r.sess EXCEPT ![id] = NoSession] /\ z.snaps = y.snaps
    BY <1>4 DEF Fields
  <1> HIDE DEF z
  <1>6. /\ e.len = y.len /\ e.arena = r.arena /\ e.dn = r.dn
        /\ e.sess = [r.sess EXCEPT ![id] = NoSession] /\ e.snaps = r.snaps
    BY <1>3, <1>4, <1>5 DEF adm_release, Fields
  <1>7. e.sess[id].residency = "Closed" /\ \A i \in Ids \ {id} : e.sess[i] = r.sess[i]
    BY <1>1, <1>6, NoSessionType
  <1>8. \A t \in Slots : t # s => e.len[t] = r.len[t]
    BY <1>1, <1>4, <1>6
  <1> DEFINE X == {id}
  <1>9. X \in SUBSET Ids /\ HeldBut(r, X)
    OBVIOUS
  <1>10. Dropped(r, X, e)
    BY <1>6, <1>7, <1>8 DEF s, Dropped
  <1>11. Steady(r, e, id)
    <2>1. \A i \in Ids \ {id} : r.sess[i].residency = "Resident" => r.sess[i].slot # s
      BY OtherSlot DEF s
    <2> QED BY <1>7, <1>8, <2>1, SteadySlot
  <1> HIDE DEF X
  <1> QED BY <1>9, <1>10, <1>11, DroppedHeld

(* close_all, likewise. *)
LEMMA CloseAllHeld ==
  ASSUME NEW r, RigOK(r), NEW ids \in SUBSET Ids, HeldBut(r, ids),
         \A i \in ids : r.sess[i].residency = "Resident", NEW e, e = close_all(r, ids)
  PROVE  Held(e) /\ \A s \in Slots : (\A i \in ids : r.sess[i].slot # s) => e.len[s] = r.len[s]
  <1>1. /\ DOMAIN r = Fields /\ r.len \in [Slots -> 0 .. SlabCap]
    BY DEF RigOK, RigTypes
  <1>2. /\ e.len = [s \in Slots |-> IF \E i \in ids : r.sess[i].slot = s THEN 0 ELSE r.len[s]]
        /\ e.sess = [i \in Ids |-> IF i \in ids THEN NoSession ELSE r.sess[i]]
        /\ e.arena = r.arena /\ e.dn = r.dn /\ e.snaps = r.snaps
    BY <1>1 DEF close_all, Fields
  <1>3. /\ \A i \in ids : r.sess[i].residency = "Resident" /\ e.sess[i].residency = "Closed"
        /\ \A i \in Ids \ ids : e.sess[i] = r.sess[i]
    BY <1>2, NoSessionType
  <1>4. \A s \in Slots : (\A i \in ids : r.sess[i].slot # s) => e.len[s] = r.len[s]
    BY <1>2
  <1>5. Dropped(r, ids, e)
    BY <1>2, <1>3, <1>4 DEF Dropped
  <1>6. Held(e)
    BY <1>5, DroppedHeld
  <1> QED BY <1>4, <1>6

(* From r to e, the slots, tokens and snapshots of all but X are as they   *)
(* were.                                                                   *)
Kept(r, e, X) ==
  /\ DOMAIN e.arena = DOMAIN r.arena /\ DOMAIN e.dn = DOMAIN r.dn
  /\ \A i \in Ids \ X :
       e.sess[i].residency = "Resident" =>
         /\ r.sess[i].residency = "Resident" /\ e.sess[i].slot = r.sess[i].slot
         /\ e.sess[i].tokens = r.sess[i].tokens
         /\ e.len[r.sess[i].slot] = r.len[r.sess[i].slot]
         /\ e.dn[r.sess[i].slot] = r.dn[r.sess[i].slot]
         /\ \A k \in 1 .. SlabCap :
              e.arena[Addr(r.sess[i].slot, k)] = r.arena[Addr(r.sess[i].slot, k)]
  /\ \A i \in Ids : e.snaps[i].present =>
       e.snaps[i] = r.snaps[i] /\ e.sess[i].tokens = r.sess[i].tokens

(* What the others' slots hold stays so. *)
LEMMA KeptBut ==
  ASSUME NEW r, RigOK(r), NEW X, HeldBut(r, X), NEW e, Kept(r, e, X)
  PROVE  HeldBut(e, X)
  <1>1. ASSUME NEW i \in Ids \ X, e.sess[i].residency = "Resident"
        PROVE  SlotHolds(e, e.sess[i].slot, e.sess[i].tokens)
    <2> DEFINE t == r.sess[i].slot
    <2>1. /\ r.sess[i].residency = "Resident" /\ e.sess[i].slot = t
          /\ e.sess[i].tokens = r.sess[i].tokens
          /\ e.len[t] = r.len[t] /\ e.dn[t] = r.dn[t]
          /\ \A k \in 1 .. SlabCap : e.arena[Addr(t, k)] = r.arena[Addr(t, k)]
      BY <1>1 DEF Kept
    <2>2. r.len[t] \in 0 .. SlabCap
      BY <2>1, OtherSlot
    <2>3. SlotHolds(r, t, r.sess[i].tokens)
      BY <2>1 DEF HeldBut
    <2> HIDE DEF t
    <2>4. SlotHolds(e, t, r.sess[i].tokens)
      BY <2>1, <2>2, <2>3, HoldsFrame
    <2> QED BY <2>1, <2>4
  <1>2. ASSUME NEW i \in Ids, e.snaps[i].present
        PROVE  Caches(e.snaps[i].kv, e.snaps[i].dn, e.sess[i].tokens)
    BY <1>2 DEF Kept, HeldBut
  <1>3. DOMAIN e.arena = 0 .. NSlots * SlabCap - 1 /\ DOMAIN e.dn = Slots
    BY DEF Kept, HeldBut
  <1> QED BY <1>1, <1>2, <1>3 DEF HeldBut

(* What a step keeps stays held. *)
LEMMA KeptHeld ==
  ASSUME NEW r, RigOK(r), NEW X, Held(r), NEW e, Kept(r, e, X)
  PROVE  HeldBut(e, X)
  <1>1. HeldBut(r, X)
    BY DEF Held, HeldBut
  <1> QED BY <1>1, KeptBut

(* The slot left out holds its session's tokens too. *)
LEMMA AlsoHeld ==
  ASSUME NEW e, NEW id \in Ids, HeldBut(e, {id}),
         e.sess[id].residency = "Resident" => SlotHolds(e, e.sess[id].slot, e.sess[id].tokens)
  PROVE  Held(e)
  BY DEF Held, HeldBut

(* open: the new session has no tokens, and its slot an old state. *)
LEMMA OpenHeld ==
  ASSUME NEW r, RigOK(r), Held(r), r.next_id < MaxSessions, NEW x, x = open(r)
  PROVE  /\ Steady(r, x.rig, x.id)
         /\ x.id = NoId => Held(x.rig)
         /\ x.id # NoId => /\ HeldBut(x.rig, {x.id})
                           /\ x.rig.sess[x.id].tokens = << >>
                           /\ x.rig.len[x.rig.sess[x.id].slot] = 0
  <1>0. /\ DOMAIN r = Fields /\ r.used \in [Slots -> BOOLEAN] /\ r.len \in [Slots -> 0 .. SlabCap]
        /\ r.sess \in [Ids -> Sessions] /\ r.next_id \in 0 .. MaxSessions
    BY DEF RigOK, RigTypes
  <1>1. CASE ~ adm_fits(r)
    <2>1. x = [id |-> NoId, rig |-> r]
      BY <1>1 DEF open
    <2>2. x.id = NoId /\ x.rig = r
      BY <2>1
    <2> QED BY <2>2 DEF Steady
  <1>2. CASE adm_fits(r) /\ free_slots(r) = {}
    <2> DEFINE a == adm_admit(r)
               e == Refused(r)
    <2>1. x.id = NoId /\ x.rig = e
      BY <1>2 DEF open, Refused
    <2>2. /\ DOMAIN a = Fields /\ a.len = r.len /\ a.sess = r.sess /\ a.snaps = r.snaps
          /\ a.arena = r.arena /\ a.dn = r.dn
      BY <1>0 DEF adm_admit, Fields
    <2>3. e = [a EXCEPT !.admitted = IF @ = 0 THEN 0 ELSE @ - 1]
      BY DEF Refused, adm_release
    <2> HIDE DEF a, e
    <2>4. /\ e.len = r.len /\ e.sess = r.sess /\ e.snaps = r.snaps
          /\ e.arena = r.arena /\ e.dn = r.dn
      BY <2>2, <2>3 DEF Fields
    <2>5. Kept(r, e, {})
      BY <2>4 DEF Kept
    <2>6. HeldBut(e, {})
      BY <2>5, KeptHeld
    <2>7. Steady(r, e, NoId)
      BY <2>4 DEF Steady
    <2> QED BY <2>1, <2>6, <2>7 DEF Held
  <1>3. CASE adm_fits(r) /\ free_slots(r) # {}
    <2> DEFINE a == adm_admit(r)
               b == acquire(a)
               s == Min(free_slots(r))
               id == r.next_id
               n == [slot |-> s, tokens |-> << >>, convo |-> << >>,
                     residency |-> "Resident", last_used |-> r.clock + 1]
               e == Opened(r)
    <2>1. x.id = id /\ x.rig = e
      BY <1>3 DEF open, Opened
    <2>2. s \in Slots /\ ~ r.used[s] /\ id \in Ids
      BY <1>0, <1>3, FreeSlot, Numbers
    <2>3. /\ DOMAIN a = Fields /\ a.len = r.len /\ a.sess = r.sess /\ a.snaps = r.snaps
          /\ a.used = r.used /\ a.arena = r.arena /\ a.dn = r.dn
      BY <1>0 DEF adm_admit, Fields
    <2>4. free_slots(a) = free_slots(r)
      BY <2>3 DEF free_slots
    <2> HIDE DEF a
    <2>5. b = [a EXCEPT !.used[s] = TRUE, !.len[s] = 0]
      BY <2>4 DEF acquire
    <2> HIDE DEF s, b
    <2>6. /\ DOMAIN b = Fields /\ b.len = [r.len EXCEPT ![s] = 0]
          /\ b.sess = r.sess /\ b.snaps = r.snaps /\ b.arena = r.arena /\ b.dn = r.dn
      BY <2>3, <2>5 DEF Fields
    <2>7. e = [b EXCEPT !.next_id = @ + 1, !.clock = @ + 1, !.sess[id] = n]
      BY DEF Opened, b, s, a
    <2>8. n.slot = s /\ n.tokens = << >>
      OBVIOUS
    <2> HIDE DEF n, e
    <2>9. /\ e.len = [r.len EXCEPT ![s] = 0] /\ e.sess = [r.sess EXCEPT ![id] = n]
          /\ e.snaps = r.snaps /\ e.arena = r.arena /\ e.dn = r.dn
      BY <2>6, <2>7 DEF Fields
    <2>10. e.sess[id] = n /\ \A i \in Ids \ {id} : e.sess[i] = r.sess[i]
      BY <1>0, <2>2, <2>9
    <2>11. \A i \in Ids \ {id} : r.sess[i].residency = "Resident" => e.len[r.sess[i].slot] = r.len[r.sess[i].slot]
      <3> SUFFICES ASSUME NEW i \in Ids \ {id}, r.sess[i].residency = "Resident"
                   PROVE  e.len[r.sess[i].slot] = r.len[r.sess[i].slot]
        OBVIOUS
      <3>1. r.sess[i].slot \in Slots /\ r.used[r.sess[i].slot]
        BY OtherSlot, Numbers DEF RigOK, Owned
      <3> QED BY <1>0, <2>2, <2>9, <3>1
    <2>12. ~ r.snaps[id].present
      BY <1>0, <2>2, Numbers DEF RigOK, Owned, Snapped
    <2>13. Kept(r, e, {id})
      BY <2>9, <2>10, <2>11, <2>12 DEF Kept
    <2>14. HeldBut(e, {id})
      BY <2>13, KeptHeld
    <2>15. e.sess[id].tokens = << >> /\ e.len[e.sess[id].slot] = 0
      BY <1>0, <2>2, <2>8, <2>9, <2>10
    <2>16. Steady(r, e, id)
      BY <2>10, <2>11 DEF Steady
    <2> QED BY <2>1, <2>2, <2>14, <2>15, <2>16, Numbers
  <1> QED BY <1>1, <1>2, <1>3

(* Writing at the start of a slab reaches no other slab. *)
LEMMA WriteIn ==
  ASSUME NEW arena, DOMAIN arena = 0 .. NSlots * SlabCap - 1, NEW s \in Slots,
         NEW n \in 0 .. SlabCap, NEW ts, DOMAIN ts = 1 .. n, NEW e, e = WriteSlab(arena, s, 0, ts)
  PROVE  /\ DOMAIN e = DOMAIN arena
         /\ \A k \in 1 .. n : e[Addr(s, k)] = ts[k]
         /\ \A t \in Slots \ {s} : \A k \in 1 .. SlabCap : e[Addr(t, k)] = arena[Addr(t, k)]
  <1>0. SlabCap \in Nat /\ n \in Nat /\ n <= SlabCap /\ s * SlabCap \in Nat
    BY Consts, Numbers
  <1> DEFINE b == s * SlabCap
  <1>1. /\ DOMAIN e = DOMAIN arena
        /\ \A a \in DOMAIN arena : e[a] = IF a - (b + 0) + 1 \in 1 .. n THEN ts[a - (b + 0) + 1]
                                          ELSE arena[a]
    BY DEF WriteSlab
  <1>2. ASSUME NEW k \in 1 .. n
        PROVE  e[Addr(s, k)] = ts[k]
    <2>1. k \in 1 .. SlabCap /\ k \in Int
      BY <1>0
    <2>2. Addr(s, k) \in DOMAIN arena
      BY <2>1, AddrIn
    <2>3. Addr(s, k) = b + k - 1
      BY DEF Addr
    <2> HIDE DEF b
    <2>4. b \in Nat
      BY <1>0 DEF b
    <2>5. Addr(s, k) - (b + 0) + 1 = k
      BY <2>1, <2>3, <2>4
    <2> QED BY <1>1, <2>2, <2>5
  <1>3. ASSUME NEW t \in Slots \ {s}, NEW k \in 1 .. SlabCap
        PROVE  e[Addr(t, k)] = arena[Addr(t, k)]
    <2> DEFINE a == Addr(t, k)
               j == a - (b + 0) + 1
    <2>1. a \in DOMAIN arena /\ a \in Int
      BY AddrIn
    <2>2. b \in Nat /\ j \in Int /\ a = b + j - 1
      BY <1>0, <2>1
    <2>3. j \notin 1 .. n
      <3> SUFFICES ASSUME j \in 1 .. n PROVE FALSE
        OBVIOUS
      <3>1. j \in 1 .. SlabCap
        BY <1>0
      <3>2. Addr(s, j) = Addr(t, k)
        BY <2>2 DEF Addr
      <3> HIDE DEF j, a
      <3> QED BY <3>1, <3>2, AddrApart
    <2> HIDE DEF b
    <2> QED BY <1>1, <2>1, <2>3
  <1> QED BY <1>1, <1>2, <1>3

(* From r to e, session id had no slot and s has been written for it. *)
Taken(r, e, id, s) ==
  /\ DOMAIN e.arena = DOMAIN r.arena /\ DOMAIN e.dn = DOMAIN r.dn
  /\ \A t \in Slots \ {s} : /\ e.len[t] = r.len[t] /\ e.dn[t] = r.dn[t]
                            /\ \A k \in 1 .. SlabCap : e.arena[Addr(t, k)] = r.arena[Addr(t, k)]
  /\ \A i \in Ids \ {id} : e.sess[i] = r.sess[i] /\ e.snaps[i] = r.snaps[i]
  /\ ~ e.snaps[id].present

(* Nobody else's slot is s. *)
LEMMA TakenHeld ==
  ASSUME NEW r, RigOK(r), Held(r), NEW id \in Ids, NEW s \in Slots, ~ r.used[s],
         NEW e, Taken(r, e, id, s)
  PROVE  HeldBut(e, {id}) /\ Steady(r, e, id)
  <1>1. \A i \in Ids \ {id} : r.sess[i].residency = "Resident" => r.sess[i].slot \in Slots \ {s}
    BY OtherSlot, Numbers DEF RigOK, Owned
  <1>2. Kept(r, e, {id})
    BY <1>1 DEF Kept, Taken
  <1>3. Steady(r, e, id)
    BY <1>1 DEF Steady, Taken
  <1> QED BY <1>2, <1>3, KeptHeld

(* restore: the snapshot was of the session's tokens, and so is the slot. *)
LEMMA RestoreHeld ==
  ASSUME NEW r, RigOK(r), Held(r), free_slots(r) # {}, NEW id \in Live(r), r.sess[id].slot = NoSlot,
         NEW s, s = Min(free_slots(r)), NEW o \in RestoreOutcomes,
         NEW x, x = restore(acquire(r), id, s, o)
  PROVE  /\ x.sess[id].residency = "Resident" => Held(x) /\ Steady(r, x, id)
         /\ x.sess[id].residency # "Resident" =>
              Held(pool_release(x, s)) /\ Steady(r, pool_release(x, s), id)
  <1> DEFINE q == acquire(r)
             snap == q.snaps[id]
             tk == [q EXCEPT !.snaps[id] = NoSnap]
  <1>1. /\ DOMAIN r = Fields /\ r.sess \in [Ids -> Sessions]
        /\ r.len \in [Slots -> 0 .. SlabCap] /\ DOMAIN r.snaps = Ids
        /\ \A i \in Ids : Len(r.snaps[i].kv) \in 0 .. SlabCap
    BY DEF RigOK, RigTypes
  <1>2. s \in Slots /\ ~ r.used[s] /\ id \in Ids /\ r.sess[id].tokens \in Seq(Tokens)
    BY <1>1, FreeSlot DEF Live, Sessions
  <1>3. DOMAIN r.arena = 0 .. NSlots * SlabCap - 1 /\ DOMAIN r.dn = Slots
    BY DEF Held, HeldBut
  <1>4. /\ DOMAIN q = Fields /\ q.len = [r.len EXCEPT ![s] = 0]
        /\ q.sess = r.sess /\ q.snaps = r.snaps /\ q.arena = r.arena /\ q.dn = r.dn
    BY <1>1 DEF acquire, Fields
  <1> HIDE DEF q
  <1>5. /\ DOMAIN tk = Fields /\ tk.len = [r.len EXCEPT ![s] = 0]
        /\ tk.sess = r.sess /\ tk.snaps = [r.snaps EXCEPT ![id] = NoSnap]
        /\ tk.arena = r.arena /\ tk.dn = r.dn
    BY <1>1, <1>4 DEF Fields
  <1>6. snap.present => /\ Caches(snap.kv, snap.dn, r.sess[id].tokens)
                        /\ Len(snap.kv) \in 0 .. SlabCap
                        /\ DOMAIN snap.kv = 1 .. Len(snap.kv)
    <2> SUFFICES ASSUME snap.present
                 PROVE  /\ Caches(snap.kv, snap.dn, r.sess[id].tokens)
                        /\ Len(snap.kv) \in 0 .. SlabCap /\ DOMAIN snap.kv = 1 .. Len(snap.kv)
      OBVIOUS
    <2>1. snap = r.snaps[id]
      BY <1>4
    <2>2. Caches(snap.kv, snap.dn, r.sess[id].tokens) /\ Len(snap.kv) \in 0 .. SlabCap
      BY <1>1, <1>2, <2>1 DEF Held, HeldBut
    <2> HIDE DEF snap
    <2>3. Len(snap.kv) \in Nat
      BY <2>2, Consts
    <2>4. snap.kv = SubSeq(r.sess[id].tokens, 1, Len(snap.kv)) /\ Len(snap.kv) <= Len(r.sess[id].tokens)
      BY <2>2 DEF Caches
    <2>5. snap.kv \in Seq(Tokens)
      BY <1>2, <2>3, <2>4, PrefixAt
    <2> QED BY <2>2, <2>5, LenProperties
  <1>7. CASE o = "ok" /\ snap.present
    <2> DEFINE y == restore_slot(tk, s, snap)
               z == touch(y, id)
               n == Len(snap.kv)
    <2>1. x = mark_resident(y, id, s)
      BY <1>7 DEF restore, q
    <2>2. /\ Caches(snap.kv, snap.dn, r.sess[id].tokens) /\ n \in 0 .. SlabCap
          /\ DOMAIN snap.kv = 1 .. n
      BY <1>6, <1>7
    <2> HIDE DEF tk, snap
    <2>3. /\ DOMAIN y = Fields /\ y.len = [tk.len EXCEPT ![s] = n]
          /\ y.arena = WriteSlab(tk.arena, s, 0, snap.kv) /\ y.dn = [tk.dn EXCEPT ![s] = snap.dn]
          /\ y.sess = tk.sess /\ y.snaps = tk.snaps
      BY <1>5 DEF restore_slot, Fields
    <2> HIDE DEF y, n
    <2>4. /\ DOMAIN z = Fields /\ z.len = y.len /\ z.arena = y.arena /\ z.dn = y.dn
          /\ z.sess = [y.sess EXCEPT ![id].last_used = y.clock + 1] /\ z.snaps = y.snaps
      BY <2>3 DEF touch, Fields
    <2>5. x = [z EXCEPT !.sess[id].slot = s, !.sess[id].residency = "Resident"]
      BY <2>1 DEF mark_resident
    <2> HIDE DEF z
    <2>6. /\ x.len = z.len /\ x.arena = z.arena /\ x.dn = z.dn
          /\ x.sess = [z.sess EXCEPT ![id].slot = s, ![id].residency = "Resident"]
          /\ x.snaps = z.snaps
      BY <2>4, <2>5 DEF Fields
    <2>7. /\ x.sess[id].slot = s /\ x.sess[id].tokens = r.sess[id].tokens
          /\ x.sess[id].residency = "Resident"
          /\ \A i \in Ids \ {id} : x.sess[i] = r.sess[i]
      <3> DEFINE f == z.sess
                 g == x.sess
      <3>1. f = [r.sess EXCEPT ![id].last_used = y.clock + 1]
        BY <1>5, <2>3, <2>4
      <3>2. r.sess[id] \in Sessions
        BY <1>1, <1>2
      <3>3. DOMAIN f = Ids /\ DOMAIN f[id] = DOMAIN r.sess[id] /\ f[id].tokens = r.sess[id].tokens
            /\ \A i \in Ids \ {id} : f[i] = r.sess[i]
        BY <1>1, <1>2, <3>1, <3>2 DEF Sessions
      <3>4. DOMAIN f[id] = {"slot", "tokens", "convo", "residency", "last_used"}
        BY <3>2, <3>3 DEF Sessions
      <3>5. g = [f EXCEPT ![id].slot = s, ![id].residency = "Resident"]
        BY <2>6
      <3> HIDE DEF f, g
      <3>6. /\ g[id].slot = s /\ g[id].tokens = f[id].tokens /\ g[id].residency = "Resident"
            /\ \A i \in Ids \ {id} : g[i] = f[i]
        BY <1>2, <3>3, <3>4, <3>5
      <3> QED BY <3>3, <3>6 DEF g
    <2> DEFINE w == x.arena
    <2>8. w = WriteSlab(r.arena, s, 0, snap.kv)
      BY <1>5, <2>3, <2>4, <2>6
    <2> HIDE DEF w
    <2>9. /\ DOMAIN w = DOMAIN r.arena
          /\ \A k \in 1 .. n : w[Addr(s, k)] = snap.kv[k]
          /\ \A t \in Slots \ {s} : \A k \in 1 .. SlabCap : w[Addr(t, k)] = r.arena[Addr(t, k)]
      BY <1>2, <1>3, <2>2, <2>8, WriteIn
    <2>10. /\ x.len[s] = n /\ x.dn[s] = snap.dn /\ DOMAIN x.dn = DOMAIN r.dn
           /\ \A t \in Slots \ {s} : x.len[t] = r.len[t] /\ x.dn[t] = r.dn[t]
      BY <1>1, <1>2, <1>3, <1>5, <2>3, <2>4, <2>6
    <2>11. ~ x.snaps[id].present /\ \A i \in Ids \ {id} : x.snaps[i] = r.snaps[i]
      BY <1>1, <1>2, <1>5, <2>3, <2>4, <2>6, NoSnapLen
    <2>12. Taken(r, x, id, s)
      BY <2>7, <2>9, <2>10, <2>11 DEF Taken, w
    <2>13. HeldBut(x, {id}) /\ Steady(r, x, id)
      BY <1>2, <2>12, TakenHeld
    <2>14. SlotHolds(x, s, r.sess[id].tokens)
      <3> DEFINE ts == r.sess[id].tokens
      <3>1. n <= Len(ts) /\ snap.kv = SubSeq(ts, 1, n) /\ snap.dn = snap.kv
        BY <2>2 DEF Caches, n
      <3>2. n \in Nat
        BY <2>2, Consts
      <3>3. \A k \in 1 .. n : snap.kv[k] = ts[k]
        BY <1>2, <3>1, <3>2, PrefixAt
      <3> QED BY <2>9, <2>10, <3>1, <3>3 DEF SlotHolds, w
    <2>15. Held(x)
      BY <1>2, <2>7, <2>13, <2>14, AlsoHeld
    <2> QED BY <2>7, <2>13, <2>15
  <1>8. CASE ~ (o = "ok" /\ snap.present)
    <2> DEFINE e == pool_release(x, s)
    <2>1. PICK y : /\ x = mark_cold(y, id)
                   /\ DOMAIN y = Fields /\ y.len = tk.len /\ y.sess = tk.sess /\ y.snaps = tk.snaps
                   /\ DOMAIN y.arena = DOMAIN r.arena /\ DOMAIN y.dn = DOMAIN r.dn
                   /\ \A t \in Slots \ {s} :
                        /\ y.dn[t] = r.dn[t]
                        /\ \A k \in 1 .. SlabCap : y.arena[Addr(t, k)] = r.arena[Addr(t, k)]
      <3>1. CASE o = "unpark_failed" \/ ~ snap.present
        <4>1. x = mark_cold(tk, id)
          BY <3>1 DEF restore, q
        <4> HIDE DEF tk
        <4>2. /\ DOMAIN tk.arena = DOMAIN r.arena /\ DOMAIN tk.dn = DOMAIN r.dn
              /\ \A t \in Slots \ {s} :
                   /\ tk.dn[t] = r.dn[t]
                   /\ \A k \in 1 .. SlabCap : tk.arena[Addr(t, k)] = r.arena[Addr(t, k)]
          BY <1>5
        <4> QED BY <1>5, <4>1, <4>2
      <3>2. CASE o = "copy_failed" /\ snap.present
        <4> DEFINE y == restore_slot_fails(tk, s, snap)
                   j == [i \in DOMAIN snap.kv |-> "junk"]
                   n == Len(snap.kv)
                   w == y.arena
        <4>1. x = mark_cold(y, id)
          BY <3>2 DEF restore, q
        <4>2. n \in 0 .. SlabCap /\ DOMAIN j = 1 .. n
          BY <1>6, <3>2
        <4> HIDE DEF tk, snap
        <4>3. /\ DOMAIN y = Fields /\ y.len = tk.len /\ y.sess = tk.sess /\ y.snaps = tk.snaps
              /\ w = WriteSlab(tk.arena, s, 0, j) /\ y.dn = [tk.dn EXCEPT ![s] = << "junk" >>]
          BY <1>5 DEF restore_slot_fails, Fields
        <4> HIDE DEF y, j, w, n
        <4>4. /\ DOMAIN w = DOMAIN r.arena
              /\ \A t \in Slots \ {s} : \A k \in 1 .. SlabCap : w[Addr(t, k)] = r.arena[Addr(t, k)]
          BY <1>2, <1>3, <1>5, <4>2, <4>3, WriteIn
        <4>5. DOMAIN y.dn = DOMAIN r.dn /\ \A t \in Slots \ {s} : y.dn[t] = r.dn[t]
          BY <1>3, <1>5, <4>3
        <4>6. DOMAIN y.arena = DOMAIN r.arena
              /\ \A t \in Slots \ {s} :
                   /\ y.dn[t] = r.dn[t]
                   /\ \A k \in 1 .. SlabCap : y.arena[Addr(t, k)] = r.arena[Addr(t, k)]
          BY <4>4, <4>5 DEF w
        <4>7. /\ x = mark_cold(y, id)
              /\ DOMAIN y = Fields /\ y.len = tk.len /\ y.sess = tk.sess /\ y.snaps = tk.snaps
              /\ DOMAIN y.arena = DOMAIN r.arena /\ DOMAIN y.dn = DOMAIN r.dn
              /\ \A t \in Slots \ {s} :
                   /\ y.dn[t] = r.dn[t]
                   /\ \A k \in 1 .. SlabCap : y.arena[Addr(t, k)] = r.arena[Addr(t, k)]
          BY <4>1, <4>3, <4>5, <4>6
        <4> QED BY ONLY <4>7
      <3> QED BY <1>8, <3>1, <3>2 DEF RestoreOutcomes
    <2> HIDE DEF tk, snap
    <2> DEFINE w == [y EXCEPT !.sess[id].slot = NoSlot]
    <2>2. x = [w EXCEPT !.sess[id].residency = "Cold"]
      BY <1>5, <2>1 DEF mark_cold, give_up_slot
    <2>3. /\ DOMAIN w = Fields /\ w.len = y.len /\ w.arena = y.arena /\ w.dn = y.dn
          /\ w.sess = [y.sess EXCEPT ![id].slot = NoSlot] /\ w.snaps = y.snaps
      BY <2>1 DEF Fields
    <2> HIDE DEF w
    <2>4. /\ DOMAIN x = Fields /\ x.len = y.len /\ x.arena = y.arena /\ x.dn = y.dn
          /\ x.sess = [w.sess EXCEPT ![id].residency = "Cold"] /\ x.snaps = y.snaps
      BY <2>2, <2>3 DEF Fields
    <2>5. x.sess[id].residency = "Cold" /\ \A i \in Ids \ {id} : x.sess[i] = r.sess[i]
      <3>1. w.sess = [r.sess EXCEPT ![id].slot = NoSlot] /\ r.sess[id] \in Sessions
        BY <1>1, <1>2, <1>5, <2>1, <2>3
      <3>2. /\ DOMAIN w.sess = Ids /\ "residency" \in DOMAIN w.sess[id]
            /\ \A i \in Ids \ {id} : w.sess[i] = r.sess[i]
        BY <1>1, <1>2, <3>1 DEF Sessions
      <3> QED BY <1>2, <2>4, <3>2
    <2>6. /\ e.len = [x.len EXCEPT ![s] = 0] /\ e.arena = x.arena /\ e.dn = x.dn
          /\ e.sess = x.sess /\ e.snaps = x.snaps
      BY <2>4 DEF pool_release, Fields
    <2> HIDE DEF e
    <2>7. \A t \in Slots \ {s} : e.len[t] = r.len[t]
      BY <1>1, <1>2, <1>5, <2>1, <2>4, <2>6
    <2>8. ~ e.snaps[id].present /\ \A i \in Ids \ {id} : e.snaps[i] = r.snaps[i]
      BY <1>1, <1>2, <1>5, <2>1, <2>4, <2>6, NoSnapLen
    <2>9. Taken(r, e, id, s)
      BY <2>1, <2>4, <2>5, <2>6, <2>7, <2>8 DEF Taken
    <2>10. HeldBut(e, {id}) /\ Steady(r, e, id)
      BY <1>2, <2>9, TakenHeld
    <2>11. Held(e)
      BY <1>2, <2>5, <2>6, <2>10, AlsoHeld
    <2> QED BY <2>5, <2>10, <2>11 DEF e
  <1> QED BY <1>7, <1>8

(* All of a sequence is its common prefix with an extension of it. *)
LEMMA LcpExtend ==
  ASSUME NEW a \in Seq(Tokens), NEW c \in Seq(Tokens)
  PROVE  lcp(a, a \o c) = Len(a)
  <1> DEFINE b == a \o c
             n == Min({Len(a), Len(b)})
             T == {k \in 0 .. n : \A i \in 1 .. k : a[i] = b[i]}
  <1>1. /\ b \in Seq(Tokens) /\ Len(a) \in Nat /\ Len(b) \in Nat /\ Len(a) <= Len(b)
        /\ \A i \in 1 .. Len(a) : b[i] = a[i]
    BY ConcatProperties, LenProperties
  <1> HIDE DEF b
  <1>2. n \in {Len(a), Len(b)} /\ \A y \in {Len(a), Len(b)} : n <= y
    BY <1>1, MinIs
  <1>3. n = Len(a)
    BY <1>1, <1>2
  <1> HIDE DEF n
  <1>4. T \in SUBSET Nat /\ Len(a) \in T /\ \A y \in T : y <= Len(a)
    BY <1>1, <1>3
  <1> HIDE DEF T
  <1>5. Max(T) \in T /\ \A y \in T : y <= Max(T)
    BY <1>1, <1>4, MaxIs
  <1>6. lcp(a, b) = Max(T)
    BY DEF lcp, T, n
  <1>7. Max(T) \in Nat /\ Max(T) <= Len(a) /\ Len(a) <= Max(T)
    BY <1>4, <1>5
  <1>8. Max(T) = Len(a)
    BY <1>1, <1>7
  <1> QED BY <1>6, <1>8 DEF b

(* A continued turn reuses everything the slot holds. *)
LEMMA PlanExtend ==
  ASSUME NEW a \in Seq(Tokens), NEW c \in Seq(Tokens), c # << >>, NEW n \in Nat, n <= Len(a)
  PROVE  plan_turn(a, n, a \o c) = n
  <1> DEFINE b == a \o c
             m == IF b = << >> THEN 0 ELSE Len(b) - 1
             T == {lcp(a, b), n, m}
  <1>1. Len(a) \in Nat /\ Len(c) \in Nat /\ Len(c) # 0 /\ Len(b) = Len(a) + Len(c) /\ b \in Seq(Tokens)
    BY ConcatProperties, LenProperties, EmptySeq
  <1>2. b # << >>
    BY <1>1, EmptySeq
  <1> HIDE DEF b
  <1>3. m \in Nat /\ n <= m
    BY <1>1, <1>2
  <1>4. lcp(a, b) = Len(a)
    BY LcpExtend DEF b
  <1> HIDE DEF m
  <1>5. T \in SUBSET Nat /\ n \in T /\ \A y \in T : n <= y
    BY <1>1, <1>3, <1>4
  <1>6. plan_turn(a, n, b) = Min(T)
    BY DEF plan_turn, m
  <1> HIDE DEF T
  <1>7. Min(T) \in T /\ \A y \in T : Min(T) <= y
    BY <1>5, MinIs
  <1>8. Min(T) = n
    <2>1. Min(T) \in Nat /\ Min(T) <= n /\ n <= Min(T)
      BY <1>5, <1>7
    <2> QED BY ONLY <2>1, n \in Nat
  <1> QED BY <1>6, <1>8 DEF b

(* begin_turn, when all the slot holds is a prefix of the new prompt. *)
LEMMA BeginHeld ==
  ASSUME NEW r, RigOK(r), NEW id \in Ids, HeldBut(r, {id}), r.sess[id].residency = "Resident",
         NEW prompt, NEW convo, SlotHolds(r, r.sess[id].slot, prompt),
         plan_turn(r.sess[id].tokens, r.len[r.sess[id].slot], prompt) = r.len[r.sess[id].slot],
         NEW x, x = begin_turn(r, id, prompt, convo)
  PROVE  /\ Held(x.rig) /\ x.rig.sess[id].tokens = prompt /\ x.rig.len = r.len
         /\ x.reused = r.len[r.sess[id].slot]
         /\ \A i \in Ids \ {id} : x.rig.sess[i] = r.sess[i]
  <1> DEFINE s == r.sess[id].slot
             n == plan_turn(r.sess[id].tokens, r.len[s], prompt)
             y == set_seq_len(r, s, n)
             e == [y EXCEPT !.sess[id].tokens = prompt, !.sess[id].convo = convo]
             a == r.sess[id]
             b == [a EXCEPT !.tokens = prompt]
             c == [b EXCEPT !.convo = convo]
  <1>1. /\ DOMAIN r = Fields /\ r.len \in [Slots -> 0 .. SlabCap] /\ r.sess \in [Ids -> Sessions]
    BY DEF RigOK, RigTypes
  <1>2. x.reused = n /\ x.rig = e /\ n = r.len[s]
    BY DEF begin_turn
  <1>3. s \in Slots
    BY OtherSlot
  <1>4. c.slot = a.slot /\ c.residency = a.residency /\ c.tokens = prompt
    <2>1. a \in Sessions
      BY <1>1
    <2> HIDE DEF a
    <2> QED BY <2>1 DEF Sessions
  <1> HIDE DEF n
  <1>5. /\ DOMAIN y = Fields /\ y.len = [r.len EXCEPT ![s] = n]
        /\ y.arena = r.arena /\ y.dn = r.dn /\ y.sess = r.sess /\ y.snaps = r.snaps
    BY <1>1 DEF set_seq_len, Fields
  <1> HIDE DEF y
  <1>6. /\ DOMAIN e = Fields /\ e.len = [r.len EXCEPT ![s] = n]
        /\ e.arena = r.arena /\ e.dn = r.dn /\ e.snaps = r.snaps
        /\ e.sess = [y.sess EXCEPT ![id].tokens = prompt, ![id].convo = convo]
    BY <1>5 DEF Fields
  <1>7. e.sess = [r.sess EXCEPT ![id] = c]
    BY <1>1, <1>5, <1>6
  <1> HIDE DEF c, e, b
  <1>8. e.sess[id] = c /\ \A i \in Ids \ {id} : e.sess[i] = r.sess[i]
    BY <1>1, <1>7
  <1>9. e.len = r.len
    BY <1>1, <1>2, <1>3, <1>6
  <1>10. ~ r.snaps[id].present
    BY DEF RigOK, Snapped
  <1>11. Kept(r, e, {id})
    BY <1>6, <1>8, <1>9, <1>10 DEF Kept
  <1>12. HeldBut(e, {id})
    BY <1>11, KeptBut
  <1>13. SlotHolds(e, s, prompt)
    BY <1>6, <1>9 DEF SlotHolds
  <1>14. Held(e)
    BY <1>4, <1>8, <1>12, <1>13, AlsoHeld
  <1> QED BY <1>2, <1>4, <1>8, <1>9, <1>14

(* The turn of a session that continues. *)
Extended(r, id, c) == r.sess[id].tokens \o c

(* The session of a continuation is held with its longer tokens. *)
LEMMA ContinuedHeld ==
  ASSUME NEW r, RigOK(r), NEW id \in Ids, Held(r), r.sess[id].residency = "Resident",
         NEW c \in Seq(Tokens), c # << >>, NEW convo, NEW t, t = Extended(r, id, c),
         NEW x, x = begin_turn(r, id, t, convo)
  PROVE  /\ Held(x.rig) /\ x.rig.sess[id].tokens = t /\ x.rig.len = r.len
         /\ x.reused = r.len[r.sess[id].slot]
         /\ \A i \in Ids \ {id} : x.rig.sess[i] = r.sess[i]
  <1> DEFINE a == r.sess[id].tokens
             s == r.sess[id].slot
             n == r.len[s]
  <1>0. t = a \o c
    BY DEF Extended
  <1>1. a \in Seq(Tokens) /\ n \in Nat
    BY OtherSlot, Consts
  <1>2. SlotHolds(r, s, a) /\ HeldBut(r, {id})
    BY DEF Held, HeldBut
  <1>3. /\ n <= Len(a) /\ r.dn[s] = SubSeq(a, 1, n)
        /\ \A k \in 1 .. n : r.arena[Addr(s, k)] = a[k]
    BY <1>2 DEF SlotHolds
  <1> HIDE DEF a, s, n
  <1>4. plan_turn(a, n, t) = n
    BY <1>0, <1>1, <1>3, PlanExtend
  <1>5. /\ t \in Seq(Tokens) /\ Len(t) = Len(a) + Len(c) /\ Len(a) \in Nat /\ Len(c) \in Nat
        /\ \A k \in 1 .. Len(a) : t[k] = a[k]
    BY <1>0, <1>1, ConcatProperties, LenProperties
  <1>6. n <= Len(t) /\ \A k \in 1 .. n : t[k] = a[k]
    BY <1>1, <1>3, <1>5
  <1>7. SubSeq(t, 1, n) = SubSeq(a, 1, n)
    <2>1. \A k \in 1 .. n : a[k] \in Tokens
      BY <1>1, <1>3, ElementOfSeq, LenProperties
    <2>2. SubSeq(t, 1, n) = [k \in 1 .. n |-> t[k]] /\ SubSeq(a, 1, n) = [k \in 1 .. n |-> a[k]]
      BY <1>1, <1>3, <1>5, <1>6
    <2> QED BY <1>6, <2>2
  <1>8. r.len[s] = n /\ r.sess[id].tokens = a /\ r.sess[id].slot = s
    BY DEF a, s, n
  <1>9. SlotHolds(r, s, t)
    <2>1. \A k \in 1 .. n : r.arena[Addr(s, k)] = t[k]
      BY <1>3, <1>6
    <2> QED BY <1>3, <1>6, <1>7, <1>8, <2>1 DEF SlotHolds
  <1>10. /\ SlotHolds(r, r.sess[id].slot, t)
         /\ plan_turn(r.sess[id].tokens, r.len[r.sess[id].slot], t) = r.len[r.sess[id].slot]
    BY <1>4, <1>8, <1>9
  <1>11. RigOK(r) /\ id \in Ids /\ HeldBut(r, {id}) /\ r.sess[id].residency = "Resident"
         /\ x = begin_turn(r, id, t, convo)
    BY <1>2
  <1> QED BY ONLY <1>10, <1>11, BeginHeld

(* touch changes a stamp. *)
LEMMA TouchHeld ==
  ASSUME NEW r, RigOK(r), Held(r), NEW id \in Ids, NEW e, e = touch(r, id)
  PROVE  /\ Held(e) /\ e.len = r.len
         /\ \A i \in Ids : e.sess[i].tokens = r.sess[i].tokens /\ e.sess[i].slot = r.sess[i].slot
  <1> DEFINE a == r.sess[id]
             b == [a EXCEPT !.last_used = r.clock + 1]
  <1>1. DOMAIN r = Fields /\ r.sess \in [Ids -> Sessions]
    BY DEF RigOK, RigTypes
  <1>2. /\ e.len = r.len /\ e.arena = r.arena /\ e.dn = r.dn /\ e.snaps = r.snaps
        /\ e.sess = [r.sess EXCEPT ![id] = b]
    BY <1>1 DEF touch, Fields
  <1>3. b.slot = a.slot /\ b.residency = a.residency /\ b.tokens = a.tokens
    <2>1. a \in Sessions
      BY <1>1
    <2> HIDE DEF a
    <2> QED BY <2>1 DEF Sessions
  <1> HIDE DEF b
  <1>4. \A i \in Ids : /\ e.sess[i].slot = r.sess[i].slot /\ e.sess[i].tokens = r.sess[i].tokens
                       /\ e.sess[i].residency = r.sess[i].residency
    BY <1>1, <1>2, <1>3
  <1>5. Kept(r, e, {})
    BY <1>2, <1>4 DEF Kept
  <1>6. Held(e)
    BY <1>5, KeptHeld DEF Held
  <1> QED BY <1>2, <1>4, <1>6

(* A reset reaches one slot. *)
LEMMA ResetHeld ==
  ASSUME NEW r, RigOK(r), NEW id \in Ids, HeldBut(r, {id}), r.sess[id].residency = "Resident",
         NEW s, s = r.sess[id].slot, NEW v, NEW e, e = Reset(r, s, v)
  PROVE  /\ HeldBut(e, {id}) /\ e.dn[s] = v
         /\ e.len = r.len /\ e.sess = r.sess
  <1>1. DOMAIN r = Fields /\ DOMAIN r.dn = Slots /\ s \in Slots
    BY OtherSlot DEF RigOK, RigTypes, HeldBut
  <1>2. /\ e.len = r.len /\ e.arena = r.arena /\ e.dn = [r.dn EXCEPT ![s] = v]
        /\ e.snaps = r.snaps /\ e.sess = r.sess
    BY <1>1 DEF Reset, Fields
  <1>3. \A i \in Ids \ {id} : r.sess[i].residency = "Resident" =>
          r.sess[i].slot \in Slots /\ r.sess[i].slot # s
    BY OtherSlot
  <1>4. \A t \in Slots : t # s => e.dn[t] = r.dn[t]
    BY <1>1, <1>2
  <1>5. Kept(r, e, {id})
    BY <1>1, <1>2, <1>3, <1>4 DEF Kept
  <1>6. HeldBut(e, {id})
    BY <1>5, KeptBut
  <1> QED BY <1>1, <1>2, <1>6

-----------------------------------------------------------------------------
(* admit *)

(* From r to e, nothing that a session in flight works on changes. *)
Undisturbed(r, e) ==
  \A i \in Busy : /\ e.sess[i].slot = r.sess[i].slot /\ e.sess[i].tokens = r.sess[i].tokens
                  /\ e.len[r.sess[i].slot] = r.len[r.sess[i].slot]

(* What spares all but one idle session disturbs no session in flight. *)
LEMMA SteadyBusy ==
  ASSUME NEW r, RigOK(r), Flying(r), NEW v, v \notin Busy, NEW e, Steady(r, e, v)
  PROVE  Undisturbed(r, e)
  <1>1. \A i \in Busy : i \in Ids /\ i # v /\ r.sess[i].residency = "Resident"
    BY BusyResident, LiveFinite
  <1> QED BY <1>1 DEF Undisturbed, Steady

(* Two such changes in a row are one. *)
LEMMA UndisturbedChain ==
  ASSUME NEW r, NEW x, NEW e, Undisturbed(r, x), Undisturbed(x, e)
  PROVE  Undisturbed(r, e)
  BY DEF Undisturbed

(* The requests in flight keep their sessions and slots over one. *)
LEMMA UndisturbedFly ==
  ASSUME NEW r, NEW e, Flying(r), Undisturbed(r, e)
  PROVE  Flying(e)
  <1>1. Spares(r, e)
    BY DEF Undisturbed, Spares
  <1> QED BY <1>1, SparesFly

(* make_room *)
LEMMA MakeRoomHeld ==
  ASSUME NEW r, RigOK(r), Flying(r), Held(r), NEW o \in EvictOutcomes, NEW e, e = make_room(r, o)
  PROVE  Held(e) /\ Undisturbed(r, e)
  <1> DEFINE v == lru_idle_victim(r, Busy)
  <1>1. CASE free_slots(r) = {} /\ v # NoId
    <2>1. e = evict(r, v, o)
      BY <1>1 DEF make_room
    <2>2. v \in Ids \ Busy /\ r.sess[v].slot # NoSlot
      <3>1. RigTypes(r)
        BY DEF RigOK
      <3> QED BY <1>1, <3>1, Victim DEF Live
    <2> HIDE DEF v
    <2>3. Held(e) /\ Steady(r, e, v)
      BY <2>1, <2>2, EvictHeld
    <2> QED BY <2>2, <2>3, SteadyBusy
  <1>2. CASE ~ (free_slots(r) = {} /\ v # NoId)
    <2>1. e = r
      BY <1>2 DEF make_room
    <2> QED BY <2>1 DEF Undisturbed
  <1> QED BY <1>1, <1>2

(* resume: a session to continue has its context in its slot. *)
LEMMA ResumeHeld ==
  ASSUME RigOK(rig), Flying(rig), Held(rig), NEW q \in Requests, NEW o \in AdmitOutcomes,
         NEW c, c = resume(q, o)
  PROVE  Held(c.rig) /\ Undisturbed(rig, c.rig) /\ (c.slot # NoSlot => Continuation[q] # << >>)
  <1> DEFINE id == IF Continuation[q] = << >> THEN NoId
                   ELSE find_continuation(rig, Convo[q], Busy)
             r1 == make_room(rig, o.evict1)
             s  == Min(free_slots(r1))
             r2 == restore(acquire(r1), id, s, o.restore)
  <1>1. o.evict1 \in EvictOutcomes /\ o.restore \in RestoreOutcomes
    BY DEF AdmitOutcomes
  <1>2. c = IF id = NoId THEN [id |-> NoId, slot |-> NoSlot, rig |-> rig]
            ELSE IF rig.sess[id].slot # NoSlot
                 THEN [id |-> id, slot |-> rig.sess[id].slot, rig |-> rig]
            ELSE IF free_slots(r1) = {} THEN [id |-> id, slot |-> NoSlot, rig |-> r1]
            ELSE IF r2.sess[id].residency = "Resident" THEN [id |-> id, slot |-> s, rig |-> r2]
            ELSE [id |-> id, slot |-> NoSlot, rig |-> pool_release(r2, s)]
    BY DEF resume
  <1>3. RigTypes(rig)
    BY DEF RigOK
  <1>4. id = NoId \/ (id \in Live(rig) \ Busy)
    BY <1>3, Continues
  <1>5. /\ RigOK(r1) /\ Held(r1) /\ Undisturbed(rig, r1)
        /\ \A i \in Ids : rig.sess[i].slot = NoSlot => r1.sess[i] = rig.sess[i]
    BY <1>1, MakeRoomKeeps, MakeRoomHeld
  <1>6. Undisturbed(rig, rig)
    BY DEF Undisturbed
  <1>7. id # NoId => Continuation[q] # << >>
    OBVIOUS
  <1>8. c.slot # NoSlot => Continuation[q] # << >>
    BY <1>2, <1>7
  <1> HIDE DEF id, r1
  <1>9. CASE id = NoId \/ rig.sess[id].slot # NoSlot
    <2>1. c.rig = rig
      BY <1>2, <1>9
    <2> QED BY <1>6, <1>8, <2>1
  <1>10. CASE id # NoId /\ rig.sess[id].slot = NoSlot /\ free_slots(r1) = {}
    <2>1. c.rig = r1
      BY <1>2, <1>10
    <2> QED BY <1>5, <1>8, <2>1
  <1>11. CASE id # NoId /\ rig.sess[id].slot = NoSlot /\ free_slots(r1) # {}
    <2>1. id \in Ids \ Busy /\ id \in Live(r1) /\ r1.sess[id].slot = NoSlot
      BY <1>4, <1>5, <1>11 DEF Live
    <2>2. c.rig = IF r2.sess[id].residency = "Resident" THEN r2 ELSE pool_release(r2, s)
      BY <1>2, <1>11
    <2>3. /\ r2.sess[id].residency = "Resident" => Held(r2) /\ Steady(r1, r2, id)
          /\ r2.sess[id].residency # "Resident" =>
               Held(pool_release(r2, s)) /\ Steady(r1, pool_release(r2, s), id)
      BY <1>1, <1>5, <1>11, <2>1, RestoreHeld
    <2>4. Held(c.rig) /\ Steady(r1, c.rig, id)
      BY <2>2, <2>3
    <2>5. Flying(r1)
      BY <1>5, UndisturbedFly
    <2> HIDE DEF r2, s
    <2>6. Undisturbed(r1, c.rig)
      BY <1>5, <2>1, <2>4, <2>5, SteadyBusy
    <2> QED BY <1>5, <1>8, <2>4, <2>6, UndisturbedChain
  <1> QED BY <1>9, <1>10, <1>11

(* How a turn begins: with what its session's tokens have beyond the slot. *)
Seeded(q) ==
  \/ slots' = slots /\ work' = work
  \/ \E id \in Ids \ Busy, s \in Slots, ts \in Seq(Tokens) :
       /\ rig'.sess[id].slot = s /\ rig'.sess[id].tokens = ts /\ rig'.len[s] < Len(ts)
       /\ StartTurn(q, id, s, ts, rig'.len[s])

Turned(q) == Held(rig') /\ Undisturbed(rig, rig') /\ Seeded(q)

(* A continued session: the continuation is what is left to feed. *)
LEMMA ContinueHeld ==
  ASSUME RigOK(rig), Flying(rig), NEW q \in Requests, NEW c,
         NEW g, g = c.rig, NEW k, k = c.id, NEW s, s = c.slot,
         RigOK(g), Held(g), Undisturbed(rig, g), k \in Ids \ Busy,
         g.sess[k].slot = s, s \in Slots, Continuation[q] # << >>,
         ContinueTurn(q, c)
  PROVE  Turned(q)
  <1> DEFINE a == g.sess[k].tokens
             x == a \o Continuation[q]
             turn == begin_turn(g, k, x, Convo[q])
             n == g.len[s]
  <1>1. IF Gone(q)
        THEN rig' = turn.rig /\ slots' = slots /\ work' = work
        ELSE /\ rig' = touch(turn.rig, k)
             /\ StartTurn(q, k, s, x, turn.reused)
    BY DEF ContinueTurn
  <1>2. g.sess[k].residency = "Resident" /\ Continuation[q] \in Seq(Tokens)
    <2>1. Owned(g) /\ k \in Ids /\ g.sess[k].slot # NoSlot
      BY Numbers DEF RigOK
    <2>2. g.sess[k].residency = "Resident"
      BY ONLY <2>1 DEF Owned
    <2> QED BY <2>2, Texts
  <1>3. a \in Seq(Tokens) /\ n \in Nat
    BY <1>2, OtherSlot, Consts
  <1>4. n <= Len(a)
    BY <1>2 DEF Held, HeldBut, SlotHolds
  <1>5. x \in Seq(Tokens) /\ n < Len(x)
    <2>1. x \in Seq(Tokens) /\ Len(x) = Len(a) + Len(Continuation[q])
      BY <1>2, <1>3, ConcatProperties
    <2>2. Len(a) \in Nat /\ Len(Continuation[q]) \in Nat \ {0}
      BY <1>2, <1>3, LenProperties, EmptySeq
    <2> HIDE DEF x, a, n
    <2> QED BY <1>3, <1>4, <2>1, <2>2
  <1>6. RigOK(turn.rig) /\ SamePlaces(g, turn.rig)
    BY <1>5, Texts, BeginKeeps
  <1> HIDE DEF x
  <1>7. x = Extended(g, k, Continuation[q])
    BY DEF x, Extended
  <1> HIDE DEF a
  <1>8. /\ Held(turn.rig) /\ turn.rig.sess[k].tokens = x /\ turn.rig.len = g.len
        /\ turn.reused = n
        /\ \A i \in Ids \ {k} : turn.rig.sess[i] = g.sess[i]
    <2>1. turn = begin_turn(g, k, x, Convo[q])
      OBVIOUS
    <2> HIDE DEF turn
    <2> QED BY <1>2, <1>7, <2>1, ContinuedHeld
  <1> HIDE DEF turn, n
  <1>9. Undisturbed(g, turn.rig)
    <2>1. Flying(g)
      BY UndisturbedFly
    <2>2. Steady(g, turn.rig, k)
      BY <1>8 DEF Steady
    <2> QED BY <2>1, <2>2, SteadyBusy
  <1>10. Undisturbed(rig, turn.rig)
    BY <1>9, UndisturbedChain
  <1>11. CASE Gone(q)
    BY <1>1, <1>8, <1>10, <1>11 DEF Turned, Seeded
  <1>12. CASE ~ Gone(q)
    <2> DEFINE t == touch(turn.rig, k)
    <2>1. /\ rig' = t /\ StartTurn(q, k, s, x, n)
      BY <1>1, <1>8, <1>12
    <2>2. /\ Held(t) /\ t.len = turn.rig.len
          /\ \A i \in Ids : /\ t.sess[i].tokens = turn.rig.sess[i].tokens
                            /\ t.sess[i].slot = turn.rig.sess[i].slot
      BY <1>6, <1>8, TouchHeld
    <2> HIDE DEF t
    <2>3. Undisturbed(turn.rig, t)
      <3>1. Busy \subseteq Ids
        BY BusyResident, LiveFinite
      <3> QED BY <2>2, <3>1 DEF Undisturbed
    <2>4. Undisturbed(rig, t)
      BY <1>10, <2>3, UndisturbedChain
    <2>5. t.sess[k].slot = s /\ t.sess[k].tokens = x /\ t.len[s] = n
      BY <1>6, <1>8, <2>2 DEF SamePlaces, n
    <2>6. Seeded(q)
      <3>1. /\ rig'.sess[k].slot = s /\ rig'.sess[k].tokens = x /\ rig'.len[s] < Len(x)
            /\ StartTurn(q, k, s, x, rig'.len[s]) /\ k \in Ids \ Busy /\ s \in Slots
        BY <1>5, <2>1, <2>5
      <3> QED BY ONLY <1>5, <3>1 DEF Seeded
    <2> QED BY <2>1, <2>2, <2>4, <2>6 DEF Turned
  <1> QED BY <1>11, <1>12

(* A new session: its whole prompt is left to feed. *)
LEMMA ColdTurnHeld ==
  ASSUME RigOK(rig), Flying(rig), NEW q \in Requests, NEW x, NEW o,
         NEW g, g = x.rig, NEW k, k = x.id,
         RigOK(g), HeldBut(g, {k}), Undisturbed(rig, g), k \in Ids \ Busy,
         g.sess[k].slot \in Slots, g.sess[k].residency = "Resident",
         g.sess[k].tokens = << >>, g.len[g.sess[k].slot] = 0,
         ColdTurn(q, x, o)
  PROVE  Turned(q)
  <1> DEFINE s == g.sess[k].slot
             d == Reset(g, s, << >>)
             j == Reset(g, s, << "junk" >>)
             p == Prompt[q]
             turn == begin_turn(d, k, p, Convo[q])
  <1>1. IF o.reset # "ok"
        THEN rig' = close(j, k) /\ slots' = slots /\ work' = work
        ELSE IF Gone(q)
             THEN rig' = close(turn.rig, k) /\ slots' = slots /\ work' = work
             ELSE rig' = turn.rig /\ StartTurn(q, k, s, p, turn.reused)
    BY DEF ColdTurn, Reset
  <1>2. RigOK(d) /\ RigOK(j)
    BY ResetKeeps
  <1>3. /\ HeldBut(d, {k}) /\ d.dn[s] = << >> /\ d.len = g.len /\ d.sess = g.sess
        /\ HeldBut(j, {k}) /\ j.len = g.len /\ j.sess = g.sess
    <2> DEFINE u == << >>
               v == << "junk" >>
    <2>1. d = Reset(g, s, u) /\ j = Reset(g, s, v) /\ k \in Ids /\ s = g.sess[k].slot
      OBVIOUS
    <2> HIDE DEF d, j, u, v, s
    <2>2. RigOK(g) /\ HeldBut(g, {k}) /\ g.sess[k].residency = "Resident"
      OBVIOUS
    <2>3. HeldBut(d, {k}) /\ d.dn[s] = u /\ d.len = g.len /\ d.sess = g.sess
      BY ONLY <2>1, <2>2, ResetHeld
    <2>4. HeldBut(j, {k}) /\ j.dn[s] = v /\ j.len = g.len /\ j.sess = g.sess
      BY ONLY <2>1, <2>2, ResetHeld
    <2> QED BY <2>3, <2>4 DEF u
  <1>4. p \in Seq(Tokens) /\ p # << >> /\ Convo[q] \in Histories
    BY Texts, RequestAssumption DEF RequestAssumption
  <1>5. Len(p) \in Nat \ {0}
    BY <1>4, LenProperties, EmptySeq
  <1> HIDE DEF d, j, p
  <1>6. Undisturbed(rig, d) /\ Undisturbed(rig, j)
    BY <1>3 DEF Undisturbed
  <1>7. Flying(d) /\ Flying(j)
    BY <1>6, UndisturbedFly
  <1>8. d.sess[k].residency = "Resident" /\ d.sess[k].slot = s /\ d.len[s] = 0
        /\ d.sess[k].tokens = << >>
    BY <1>3
  <1>9. SlotHolds(d, s, p)
    <2>1. SubSeq(p, 1, 0) = << >>
      BY <1>4
    <2>2. 0 <= Len(p)
      BY <1>5
    <2> QED BY <1>3, <1>8, <2>1, <2>2 DEF SlotHolds
  <1>10. plan_turn(d.sess[k].tokens, d.len[s], p) = 0
    <2> DEFINE z == d.sess[k].tokens
               m == d.len[s]
    <2>1. z \in Seq(Tokens) /\ m \in Nat /\ m = 0
      BY <1>8, EmptySeq
    <2> HIDE DEF z, m
    <2>2. plan_turn(z, m, p) \in Nat /\ plan_turn(z, m, p) <= m
      BY <1>4, <2>1, PlanType
    <2>3. plan_turn(z, m, p) = 0
      BY ONLY <2>1, <2>2
    <2> QED BY <2>3 DEF z, m
  <1> HIDE DEF s
  <1>11. /\ SlotHolds(d, d.sess[k].slot, p)
         /\ plan_turn(d.sess[k].tokens, d.len[d.sess[k].slot], p) = d.len[d.sess[k].slot]
    BY <1>8, <1>9, <1>10
  <1>12. /\ Held(turn.rig) /\ turn.rig.sess[k].tokens = p /\ turn.rig.len = d.len
         /\ turn.reused = d.len[d.sess[k].slot]
         /\ \A i \in Ids \ {k} : turn.rig.sess[i] = d.sess[i]
    BY <1>2, <1>3, <1>8, <1>11, BeginHeld
  <1>13. RigOK(turn.rig) /\ SamePlaces(d, turn.rig)
    <2>1. d.sess[k].slot \in Slots
      BY <1>8 DEF s
    <2> QED BY <1>2, <1>4, <2>1, BeginKeeps
  <1> HIDE DEF turn
  <1>14. Undisturbed(d, turn.rig)
    <2>1. Steady(d, turn.rig, k)
      BY <1>12 DEF Steady
    <2> QED BY <1>2, <1>7, <2>1, SteadyBusy
  <1>15. Undisturbed(rig, turn.rig)
    BY <1>6, <1>14, UndisturbedChain
  <1>16. Flying(turn.rig)
    BY <1>15, UndisturbedFly
  <1>17. CASE o.reset # "ok"
    <2> DEFINE z == close(j, k)
    <2>1. rig' = z /\ slots' = slots /\ work' = work
      BY <1>1, <1>17
    <2>2. j.sess[k].residency = "Resident"
      BY <1>3
    <2>3. Held(z) /\ Steady(j, z, k)
      BY <1>2, <1>3, <2>2, CloseHeld
    <2> HIDE DEF z
    <2>4. Undisturbed(rig, z)
      BY <1>2, <1>6, <1>7, <2>3, SteadyBusy, UndisturbedChain
    <2> QED BY <2>1, <2>3, <2>4 DEF Turned, Seeded
  <1>18. CASE o.reset = "ok" /\ Gone(q)
    <2> DEFINE z == close(turn.rig, k)
    <2>1. rig' = z /\ slots' = slots /\ work' = work
      BY <1>1, <1>18
    <2>2. turn.rig.sess[k].residency = "Resident" /\ HeldBut(turn.rig, {k})
      BY <1>8, <1>12, <1>13 DEF SamePlaces, Held, HeldBut
    <2>3. Held(z) /\ Steady(turn.rig, z, k)
      BY <1>13, <2>2, CloseHeld
    <2> HIDE DEF z
    <2>4. Undisturbed(rig, z)
      BY <1>13, <1>15, <1>16, <2>3, SteadyBusy, UndisturbedChain
    <2> QED BY <2>1, <2>3, <2>4 DEF Turned, Seeded
  <1>19. CASE o.reset = "ok" /\ ~ Gone(q)
    <2> DEFINE e == turn.rig
    <2>1. rig' = e /\ StartTurn(q, k, s, p, turn.reused)
      BY <1>1, <1>19
    <2>2. e.sess[k].slot = s /\ e.sess[k].tokens = p /\ e.len[s] = 0 /\ turn.reused = 0
      BY <1>8, <1>12, <1>13 DEF SamePlaces
    <2>3. s \in Slots
      BY DEF s
    <2>4. Seeded(q)
      <3>1. /\ rig'.sess[k].slot = s /\ rig'.sess[k].tokens = p /\ rig'.len[s] < Len(p)
            /\ StartTurn(q, k, s, p, rig'.len[s]) /\ k \in Ids \ Busy /\ s \in Slots
        BY <1>5, <2>1, <2>2, <2>3
      <3> QED BY ONLY <1>4, <3>1 DEF Seeded
    <2> QED BY <1>12, <1>15, <2>1, <2>4 DEF Turned, e
  <1> QED BY <1>17, <1>18, <1>19

(* A turn without a session to continue. *)
LEMMA OpenTurnHeld ==
  ASSUME RigOK(rig), Flying(rig), NEW q \in Requests, NEW o \in AdmitOutcomes,
         NEW r, RigOK(r), Held(r), Undisturbed(rig, r), r.next_id < MaxSessions, OpenTurn(q, r, o)
  PROVE  Turned(q)
  <1> DEFINE first == open(r)
             v == lru_idle_victim(first.rig, Busy)
             w == evict(first.rig, v, o.evict2)
             second == open(w)
  <1>1. IF first.id # NoId THEN ColdTurn(q, first, o)
        ELSE IF v = NoId THEN Reject(q, first.rig, "all slots busy")
        ELSE IF second.id # NoId THEN ColdTurn(q, second, o)
             ELSE Reject(q, second.rig, "no budget")
    BY DEF OpenTurn
  <1>2. ASSUME NEW e, RigOK(e), Held(e), Undisturbed(rig, e), e.next_id < MaxSessions,
               NEW x, x = open(e)
        PROVE  /\ RigOK(x.rig) /\ Undisturbed(rig, x.rig)
               /\ \/ x.id = NoId /\ x.rig.next_id = e.next_id /\ Held(x.rig)
                  \/ /\ x.id \in Ids \ Busy /\ x.rig.sess[x.id].slot \in Slots
                     /\ x.rig.sess[x.id].residency = "Resident"
                     /\ HeldBut(x.rig, {x.id}) /\ x.rig.sess[x.id].tokens = << >>
                     /\ x.rig.len[x.rig.sess[x.id].slot] = 0
    <2>1. Flying(e) /\ Spares(rig, e)
      BY <1>2, UndisturbedFly DEF Undisturbed, Spares
    <2>2. /\ RigOK(x.rig)
          /\ \/ x.id = NoId /\ x.rig.next_id = e.next_id
             \/ /\ x.id \in Ids \ Busy /\ x.rig.sess[x.id].slot \in Slots
                /\ x.rig.sess[x.id].residency = "Resident"
      BY <1>2, <2>1, OpenForTurn
    <2>3. /\ Steady(e, x.rig, x.id)
          /\ x.id = NoId => Held(x.rig)
          /\ x.id # NoId => /\ HeldBut(x.rig, {x.id})
                            /\ x.rig.sess[x.id].tokens = << >>
                            /\ x.rig.len[x.rig.sess[x.id].slot] = 0
      BY <1>2, OpenHeld
    <2>4. x.id \notin Busy
      <3>1. Busy \subseteq Ids
        BY BusyResident, LiveFinite
      <3> QED BY <2>2, <3>1, Numbers
    <2>5. Undisturbed(rig, x.rig)
      BY <1>2, <2>1, <2>3, <2>4, SteadyBusy, UndisturbedChain
    <2> QED BY <2>2, <2>3, <2>5, Numbers
  <1>3. /\ RigOK(first.rig) /\ Undisturbed(rig, first.rig)
        /\ \/ first.id = NoId /\ first.rig.next_id = r.next_id /\ Held(first.rig)
           \/ /\ first.id \in Ids \ Busy /\ first.rig.sess[first.id].slot \in Slots
              /\ first.rig.sess[first.id].residency = "Resident"
              /\ HeldBut(first.rig, {first.id}) /\ first.rig.sess[first.id].tokens = << >>
              /\ first.rig.len[first.rig.sess[first.id].slot] = 0
    BY <1>2
  <1> HIDE DEF first
  <1>4. CASE first.id # NoId
    BY <1>1, <1>3, <1>4, ColdTurnHeld
  <1>5. CASE first.id = NoId /\ v = NoId
    <2>1. rig' = first.rig /\ slots' = slots /\ work' = work
      BY <1>1, <1>5 DEF Reject
    <2> QED BY <1>3, <1>5, <2>1, Numbers DEF Turned, Seeded
  <1>6. CASE first.id = NoId /\ v # NoId
    <2>0. Held(first.rig) /\ first.rig.next_id = r.next_id
      BY <1>3, <1>6, Numbers
    <2>1. v \in Ids \ Busy /\ first.rig.sess[v].slot # NoSlot
      <3>1. RigTypes(first.rig)
        BY <1>3 DEF RigOK
      <3> QED BY <1>6, <3>1, Victim DEF Live
    <2>2. o.evict2 \in EvictOutcomes
      BY DEF AdmitOutcomes
    <2> HIDE DEF v
    <2>3. RigOK(w) /\ w.next_id = first.rig.next_id
      BY <1>3, <2>1, <2>2, EvictKeeps
    <2>4. Held(w) /\ Steady(first.rig, w, v)
      BY <1>3, <2>0, <2>1, <2>2, EvictHeld
    <2> HIDE DEF w
    <2>5. Flying(first.rig)
      BY <1>3, UndisturbedFly
    <2>6. Undisturbed(rig, w)
      BY <1>3, <2>1, <2>4, <2>5, SteadyBusy, UndisturbedChain
    <2>7. w.next_id < MaxSessions
      BY <2>0, <2>3
    <2>8. /\ RigOK(second.rig) /\ Undisturbed(rig, second.rig)
          /\ \/ second.id = NoId /\ second.rig.next_id = w.next_id /\ Held(second.rig)
             \/ /\ second.id \in Ids \ Busy /\ second.rig.sess[second.id].slot \in Slots
                /\ second.rig.sess[second.id].residency = "Resident"
                /\ HeldBut(second.rig, {second.id}) /\ second.rig.sess[second.id].tokens = << >>
                /\ second.rig.len[second.rig.sess[second.id].slot] = 0
      BY <1>2, <2>3, <2>4, <2>6, <2>7
    <2> HIDE DEF second
    <2>9. CASE second.id # NoId
      <3>1. ColdTurn(q, second, o)
        BY <1>1, <1>6, <2>9
      <3> QED BY <2>8, <2>9, <3>1, ColdTurnHeld
    <2>10. CASE second.id = NoId
      <3>1. rig' = second.rig /\ slots' = slots /\ work' = work
        BY <1>1, <1>6, <2>10 DEF Reject
      <3>2. Held(second.rig)
        BY <2>8, <2>10, Numbers
      <3> QED BY <2>8, <3>1, <3>2 DEF Turned, Seeded
    <2> QED BY <2>9, <2>10
  <1> QED BY <1>4, <1>5, <1>6

(* What the flights have to feed, after a turn began or did not. *)
LEMMA TurnedFeeds ==
  ASSUME EngineInv, RigTypes(rig'), FeedInv, NEW q, Turned(q), logits' = logits
  PROVE  FeedInv'
  <1>1. /\ slots \in [Slots -> Flights] /\ Flying(rig)
        /\ work \in [Slots -> [remaining : Seq(Tokens), next_pos : Nat]]
    BY DEF EngineInv, EngineTypes
  <1>2. Undisturbed(rig, rig') /\ Seeded(q)
    BY DEF Turned
  <1>3. ASSUME NEW s \in InFlight, slots'[s] = slots[s], work'[s] = work[s]
        PROVE  Feeding(work'[s], rig'.len[s], TokensOf(s)', logits'[s])
    <2> DEFINE i == slots[s].session
    <2>1. i \in Busy /\ rig.sess[i].slot = s
      BY <1>1 DEF Busy, Flying
    <2>2. rig'.sess[i].tokens = rig.sess[i].tokens /\ rig'.len[s] = rig.len[s]
      BY <1>2, <2>1 DEF Undisturbed
    <2>3. TokensOf(s)' = TokensOf(s)
      BY <1>3, <2>2 DEF TokensOf
    <2>4. Feeding(work[s], rig.len[s], TokensOf(s), logits[s])
      BY DEF FeedInv
    <2> HIDE DEF i
    <2> QED BY <1>3, <2>2, <2>3, <2>4
  <1>4. CASE slots' = slots /\ work' = work
    <2>1. InFlight' = InFlight
      BY <1>4, SlotsSame
    <2>2. \A s \in InFlight : Feeding(work'[s], rig'.len[s], TokensOf(s)', logits'[s])
      BY <1>3, <1>4
    <2>3. \A s \in Slots \ InFlight : work'[s].remaining = << >>
      BY <1>4 DEF FeedInv
    <2> QED BY <2>1, <2>2, <2>3 DEF FeedInv
  <1>5. ASSUME NEW id \in Ids \ Busy, NEW z \in Slots, NEW ts \in Seq(Tokens),
               rig'.sess[id].slot = z, rig'.sess[id].tokens = ts, rig'.len[z] < Len(ts),
               StartTurn(q, id, z, ts, rig'.len[z])
        PROVE  FeedInv'
    <2> DEFINE n == rig'.len[z]
    <2>0. n \in Nat /\ Len(ts) \in Nat
      BY Consts, LenProperties DEF RigTypes
    <2>1. /\ slots' = [slots EXCEPT ![z] = [session |-> id, req |-> q, produced |-> 0]]
          /\ work' = [work EXCEPT ![z] = [remaining |-> SubSeq(ts, n + 1, Len(ts)), next_pos |-> n]]
      BY <1>5 DEF StartTurn
    <2>2. /\ slots'[z].session = id /\ \A s \in Slots \ {z} : slots'[s] = slots[s]
          /\ work'[z].next_pos = n /\ work'[z].remaining = SubSeq(ts, n + 1, Len(ts))
          /\ \A s \in Slots \ {z} : work'[s] = work[s]
      BY <1>1, <2>1
    <2>3. InFlight' = InFlight \cup {z}
      BY <2>2, Numbers DEF InFlight
    <2>4. TokensOf(z)' = ts
      BY <1>5, <2>2 DEF TokensOf
    <2>5. work'[z].remaining # << >>
      <3>1. Len(SubSeq(ts, n + 1, Len(ts))) = Len(ts) - n /\ SubSeq(ts, n + 1, Len(ts)) \in Seq(Tokens)
        BY <1>5, <2>0, RestAt
      <3>2. Len(SubSeq(ts, n + 1, Len(ts))) # 0
        BY <1>5, <2>0, <3>1
      <3> QED BY <2>2, <3>1, <3>2, EmptySeq
    <2>6. Feeding(work'[z], rig'.len[z], TokensOf(z)', logits'[z])
      BY <2>2, <2>4, <2>5 DEF Feeding
    <2>7. \A s \in InFlight' : Feeding(work'[s], rig'.len[s], TokensOf(s)', logits'[s])
      <3> SUFFICES ASSUME NEW s \in InFlight', s # z
                   PROVE  Feeding(work'[s], rig'.len[s], TokensOf(s)', logits'[s])
        BY <2>6
      <3>1. s \in InFlight /\ s \in Slots
        BY <2>3 DEF InFlight
      <3>2. slots'[s] = slots[s] /\ work'[s] = work[s]
        BY <2>2, <3>1
      <3> QED BY <1>3, <3>1, <3>2
    <2>8. \A s \in Slots \ InFlight' : work'[s].remaining = << >>
      BY <2>2, <2>3 DEF FeedInv
    <2> QED BY <2>7, <2>8 DEF FeedInv
  <1>6. CASE ~ (slots' = slots /\ work' = work)
    <2>1. PICK id \in Ids \ Busy, z \in Slots, ts \in Seq(Tokens) :
            /\ rig'.sess[id].slot = z /\ rig'.sess[id].tokens = ts /\ rig'.len[z] < Len(ts)
            /\ StartTurn(q, id, z, ts, rig'.len[z])
      BY <1>2, <1>6 DEF Seeded
    <2> QED BY <1>5, <2>1
  <1> QED BY <1>4, <1>6

(* admit *)
LEMMA AdmitContext ==
  ASSUME EngineInv, EngineInv', ContextInv, admit
  PROVE  ContextInv'
  <1> DEFINE q == Head(queue)
  <1>1. RigOK(rig) /\ Flying(rig) /\ queue \in Seq(Requests) /\ RigTypes(rig')
    BY DEF EngineInv, EngineTypes, RigOK
  <1>2. /\ queue # << >> /\ rig.next_id < MaxSessions /\ engine = "running"
        /\ logits' = logits /\ graph' = graph
    BY DEF admit
  <1>3. q \in Requests
    BY <1>1, <1>2, TailAt
  <1>4. PICK o \in AdmitOutcomes :
          \E c \in {resume(q, o)} :
            IF c.slot # NoSlot THEN ContinueTurn(q, c) ELSE OpenTurn(q, c.rig, o)
    BY DEF admit
  <1> HIDE DEF q
  <1>5. PICK c : /\ c = resume(q, o)
                 /\ IF c.slot # NoSlot THEN ContinueTurn(q, c) ELSE OpenTurn(q, c.rig, o)
    BY <1>4
  <1>6. Held(rig) /\ FeedInv /\ GraphInv
    BY <1>2 DEF ContextInv
  <1>7. /\ RigOK(c.rig) /\ c.rig.next_id = rig.next_id
        /\ c.slot # NoSlot => /\ c.id \in Ids \ Busy
                              /\ c.rig.sess[c.id].slot = c.slot /\ c.slot \in Slots
    BY <1>1, <1>3, <1>5, ResumeKeeps
  <1>8. Held(c.rig) /\ Undisturbed(rig, c.rig) /\ (c.slot # NoSlot => Continuation[q] # << >>)
    BY <1>1, <1>3, <1>5, <1>6, ResumeHeld
  <1>9. Turned(q)
    <2>1. CASE c.slot # NoSlot
      BY <1>1, <1>3, <1>5, <1>7, <1>8, <2>1, ContinueHeld
    <2>2. CASE c.slot = NoSlot
      BY <1>1, <1>2, <1>3, <1>5, <1>7, <1>8, <2>2, OpenTurnHeld
    <2> QED BY <2>1, <2>2
  <1>10. FeedInv'
    BY <1>1, <1>2, <1>6, <1>9, TurnedFeeds
  <1>11. GraphInv'
    BY <1>2, <1>6 DEF GraphInv
  <1>12. Held(rig')
    BY <1>9 DEF Turned
  <1> QED BY <1>10, <1>11, <1>12 DEF ContextInv

-----------------------------------------------------------------------------
(* The forward of a step *)

(* A session in flight: its tokens, and its slot that holds some of them. *)
LEMMA FlightHolds ==
  ASSUME RigOK(rig), Flying(rig), Held(rig), NEW s \in InFlight
  PROVE  /\ s \in Slots /\ TokensOf(s) \in Seq(Tokens) /\ SlotHolds(rig, s, TokensOf(s))
         /\ rig.len[s] \in 0 .. SlabCap /\ rig.len[s] \in Nat /\ rig.len[s] <= Len(TokensOf(s))
         /\ slots[s].session \in Ids /\ rig.sess[slots[s].session].slot = s
         /\ rig.sess[slots[s].session].residency = "Resident"
  <1> DEFINE i == slots[s].session
  <1>1. i \in Ids /\ rig.sess[i].slot = s /\ s \in Slots
    BY DEF Flying, InFlight
  <1>2. rig.sess[i].residency = "Resident"
    BY <1>1, Numbers DEF RigOK, Owned
  <1>3. rig.sess[i].tokens \in Seq(Tokens) /\ rig.len[s] \in 0 .. SlabCap
    BY <1>1, <1>2, OtherSlot
  <1>4. SlotHolds(rig, s, rig.sess[i].tokens)
    BY <1>1, <1>2 DEF Held, HeldBut
  <1>5. rig.len[s] \in Nat
    BY <1>3, Consts
  <1> QED BY <1>1, <1>2, <1>3, <1>4, <1>5 DEF TokensOf, SlotHolds

(* What a step feeds to a slot is what comes next of its session's tokens. *)
LEMMA TakeNext ==
  ASSUME EngineTypes, RigOK(rig), Flying(rig), Held(rig), FeedInv, NEW s \in InFlight
  PROVE  /\ work[s].next_pos = rig.len[s] /\ EndPos(s) = rig.len[s] + Len(Take(s))
         /\ EndPos(s) \in Nat /\ EndPos(s) <= Len(TokensOf(s))
         /\ (Take(s) = << >> => work[s].remaining = << >>)
         /\ Rest(s) = SubSeq(TokensOf(s), EndPos(s) + 1, Len(TokensOf(s)))
         /\ \A k \in 1 .. Len(Take(s)) : Take(s)[k] = TokensOf(s)[rig.len[s] + k]
  <1> DEFINE ts == TokensOf(s)
             n == rig.len[s]
             w == work[s].remaining
             m == Min({Len(w), CapTokens})
  <1>1. ts \in Seq(Tokens) /\ n \in Nat /\ n <= Len(ts) /\ s \in Slots /\ Len(ts) \in Nat
    BY FlightHolds, LenProperties
  <1>2. work[s].next_pos = n /\ w = SubSeq(ts, n + 1, Len(ts))
    BY DEF FeedInv, Feeding
  <1> HIDE DEF ts, n, w
  <1>3. w \in Seq(Tokens) /\ Len(w) = Len(ts) - n /\ \A k \in 1 .. Len(ts) - n : w[k] = ts[n + k]
    BY <1>1, <1>2, RestAt
  <1>4. Len(w) \in Nat /\ CapTokens \in Nat /\ CapTokens # 0
    BY <1>1, <1>3, Consts
  <1>5. m \in {Len(w), CapTokens} /\ \A y \in {Len(w), CapTokens} : m <= y
    BY <1>4, MinIs
  <1>6. m \in Nat /\ m <= Len(w) /\ (m = 0 => Len(w) = 0)
    BY <1>4, <1>5
  <1> HIDE DEF m
  <1>7. Take(s) = SubSeq(w, 1, m)
    BY DEF Take, m, w
  <1>8. Take(s) \in Seq(Tokens) /\ Len(Take(s)) = m /\ \A k \in 1 .. m : Take(s)[k] = w[k]
    BY <1>3, <1>6, <1>7, PrefixAt
  <1>9. EndPos(s) = n + m
    BY <1>2, <1>8 DEF EndPos, n
  <1>10. n + m \in Nat /\ n + m <= Len(ts)
    BY <1>1, <1>3, <1>6
  <1>11. Take(s) = << >> => w = << >>
    <2>1. Take(s) = << >> => m = 0
      BY <1>8, EmptySeq
    <2> QED BY <1>3, <1>6, <2>1, EmptySeq
  <1>12. \A k \in 1 .. m : Take(s)[k] = ts[n + k]
    <2>1. \A k \in 1 .. m : k \in 1 .. Len(ts) - n
      BY <1>1, <1>3, <1>6
    <2> QED BY <1>3, <1>8, <2>1
  <1>13. Rest(s) = SubSeq(ts, n + m + 1, Len(ts))
    <2> DEFINE x == SubSeq(w, m + 1, Len(w))
               y == SubSeq(ts, n + m + 1, Len(ts))
    <2>1. x \in Seq(Tokens) /\ Len(x) = Len(w) - m /\ \A k \in 1 .. Len(w) - m : x[k] = w[m + k]
      BY <1>3, <1>6, RestAt
    <2>2. /\ y \in Seq(Tokens) /\ Len(y) = Len(ts) - (n + m)
          /\ \A k \in 1 .. Len(ts) - (n + m) : y[k] = ts[n + m + k]
      BY <1>1, <1>10, RestAt
    <2>3. Rest(s) = x
      BY <1>8 DEF Rest, w
    <2> HIDE DEF x, y
    <2>4. Len(x) = Len(y) /\ Len(x) \in Nat
      BY <1>1, <1>3, <1>6, <2>1, <2>2
    <2>5. \A k \in 1 .. Len(x) : x[k] = y[k]
      <3> SUFFICES ASSUME NEW k \in 1 .. Len(x) PROVE x[k] = y[k]
        OBVIOUS
      <3>1. /\ k \in 1 .. Len(w) - m /\ k \in 1 .. Len(ts) - (n + m) /\ m + k \in 1 .. Len(ts) - n
            /\ n + (m + k) = n + m + k
        BY <1>1, <1>3, <1>6, <2>1, <2>2, <2>4
      <3>2. x[k] = w[m + k] /\ y[k] = ts[n + m + k]
        BY <2>1, <2>2, <3>1
      <3>3. w[m + k] = ts[n + (m + k)]
        BY <1>3, <3>1
      <3> QED BY <3>1, <3>2, <3>3
    <2>6. x = y
      BY <2>1, <2>2, <2>4, <2>5, SeqEqual
    <2> QED BY <2>3, <2>6 DEF y
  <1> QED BY <1>2, <1>8, <1>9, <1>10, <1>11, <1>12, <1>13 DEF ts, n, w

(* A slot with no work takes nothing and has nothing left. *)
LEMMA IdleTakes ==
  ASSUME NEW s \in Slots, work[s].remaining = << >>
  PROVE  Take(s) = << >> /\ Len(Take(s)) = 0 /\ Rest(s) = << >>
  <1> DEFINE e == << >>
             m == Min({Len(e), CapTokens})
  <1>1. e \in Seq(Tokens) /\ Len(e) = 0 /\ CapTokens \in Nat /\ Len(e) \in Nat
    BY EmptySeq, Consts
  <1>2. work[s].remaining = e
    OBVIOUS
  <1> HIDE DEF e
  <1>3. m \in {Len(e), CapTokens} /\ \A y \in {Len(e), CapTokens} : m <= y
    BY <1>1, MinIs
  <1>4. m = 0
    BY <1>1, <1>3
  <1> HIDE DEF m
  <1>5. Take(s) = SubSeq(e, 1, m)
    BY <1>2 DEF Take, m
  <1>6. Take(s) \in Seq(Tokens) /\ Len(Take(s)) = m
    BY <1>1, <1>4, <1>5, PrefixAt
  <1>7. Take(s) = << >> /\ Len(Take(s)) = 0
    BY <1>4, <1>6, EmptySeq
  <1>8. Rest(s) = SubSeq(e, 0 + 1, Len(e))
    BY <1>2, <1>7 DEF Rest
  <1>9. Rest(s) \in Seq(Tokens) /\ Len(Rest(s)) = Len(e) - 0
    BY <1>1, <1>8, RestAt
  <1> QED BY <1>1, <1>7, <1>9, EmptySeq

(* Only slots in flight are in a batch, and of the others none has work. *)
LEMMA BatchFlies ==
  ASSUME FeedInv
  PROVE  /\ Batch \subseteq InFlight /\ InFlight \subseteq Slots
         /\ \A s \in Slots \ InFlight : Len(Take(s)) = 0 /\ Rest(s) = << >>
         /\ \A s \in Slots \ Batch : Len(Take(s)) = 0
  <1>1. \A s \in Slots \ InFlight : Take(s) = << >> /\ Len(Take(s)) = 0 /\ Rest(s) = << >>
    BY IdleTakes DEF FeedInv
  <1>2. \A s \in Slots \ Batch : Len(Take(s)) = 0
    BY EmptySeq DEF Batch
  <1> QED BY <1>1, <1>2 DEF Batch, InFlight

(* Row i of a slot in a batch goes where the slot's tokens end. *)
LEMMA CellAt ==
  ASSUME EngineTypes, RigOK(rig), Flying(rig), Held(rig), FeedInv, ~ Overflow, NEW s \in Batch
  PROVE  /\ s \in Slots /\ s \in InFlight /\ DOMAIN Take(s) = 1 .. Len(Take(s))
         /\ rig.len[s] \in Nat /\ EndPos(s) \in 0 .. SlabCap /\ EndPos(s) = rig.len[s] + Len(Take(s))
         /\ Len(Take(s)) \in Nat /\ Len(Take(s)) > 0
         /\ \A i \in 1 .. Len(Take(s)) : /\ Cell(s, i) = Addr(s, rig.len[s] + i)
                                         /\ rig.len[s] + i \in 1 .. SlabCap
  <1>1. s \in Slots /\ s \in InFlight /\ Take(s) # << >>
    BY BatchFlies DEF Batch
  <1>2. Take(s) \in Seq(Tokens) /\ Len(Take(s)) \in Nat /\ work[s].next_pos \in Nat
    BY <1>1, TakeType
  <1>3. DOMAIN Take(s) = 1 .. Len(Take(s)) /\ Len(Take(s)) > 0
    BY <1>1, <1>2, EmptySeq, LenProperties
  <1>4. work[s].next_pos = rig.len[s] /\ EndPos(s) = rig.len[s] + Len(Take(s)) /\ EndPos(s) \in Nat
    BY <1>1, TakeNext
  <1>5. EndPos(s) <= SlabCap /\ SlabCap \in Nat
    BY <1>4, Consts DEF Overflow
  <1>6. s * SlabCap \in Nat
    BY <1>1, <1>5, Numbers
  <1>7. ASSUME NEW i \in 1 .. Len(Take(s))
        PROVE  Cell(s, i) = Addr(s, rig.len[s] + i) /\ rig.len[s] + i \in 1 .. SlabCap
    <2> DEFINE b == s * SlabCap
               n == rig.len[s]
    <2>1. n \in Nat /\ i \in Nat /\ b \in Nat /\ work[s].next_pos = n /\ EndPos(s) = n + Len(Take(s))
      BY <1>2, <1>4, <1>6
    <2>2. Cell(s, i) = b + n + i - 1 /\ Addr(s, n + i) = b + (n + i) - 1
      BY <2>1 DEF Cell, Addr
    <2> HIDE DEF b, n
    <2>3. n + i \in 1 .. SlabCap
      BY <1>2, <1>5, <2>1
    <2>4. b + n + i - 1 = b + (n + i) - 1
      BY <2>1
    <2> QED BY <2>2, <2>3, <2>4 DEF n
  <1> QED BY <1>1, <1>2, <1>3, <1>4, <1>5, <1>7

(* Position k of slot t is one the step writes. *)
Fresh(t, k) == t \in Batch /\ k \in rig.len[t] + 1 .. EndPos(t)

(* Within the slabs, only a slot's own rows reach its positions. *)
LEMMA HitsAt ==
  ASSUME EngineTypes, RigOK(rig), Flying(rig), Held(rig), FeedInv, ~ Overflow,
         NEW t \in Slots, NEW k \in 1 .. SlabCap
  PROVE  Hits(Addr(t, k)) = IF Fresh(t, k) THEN {t} ELSE {}
  <1>1. ASSUME NEW s \in Hits(Addr(t, k))
        PROVE  s = t /\ Fresh(t, k)
    <2>1. s \in Batch
      BY <1>1 DEF Hits
    <2>2. PICK i \in DOMAIN Take(s) : Cell(s, i) = Addr(t, k)
      BY <1>1 DEF Hits
    <2> DEFINE j == rig.len[s] + i
    <2>3. /\ s \in Slots /\ i \in 1 .. Len(Take(s)) /\ Cell(s, i) = Addr(s, j) /\ j \in 1 .. SlabCap
          /\ rig.len[s] \in Nat /\ EndPos(s) = rig.len[s] + Len(Take(s)) /\ Len(Take(s)) \in Nat
      BY <2>1, <2>2, CellAt
    <2>4. j \in rig.len[s] + 1 .. EndPos(s)
      BY <2>3
    <2> HIDE DEF j
    <2>5. s = t /\ j = k
      BY <2>2, <2>3, AddrApart
    <2> QED BY <2>1, <2>4, <2>5 DEF Fresh
  <1>2. ASSUME Fresh(t, k)
        PROVE  t \in Hits(Addr(t, k))
    <2> DEFINE i == k - rig.len[t]
    <2>1. t \in Batch /\ k \in rig.len[t] + 1 .. EndPos(t)
      BY <1>2 DEF Fresh
    <2>2. /\ DOMAIN Take(t) = 1 .. Len(Take(t)) /\ Len(Take(t)) \in Nat
          /\ rig.len[t] \in Nat /\ EndPos(t) = rig.len[t] + Len(Take(t))
          /\ \A x \in 1 .. Len(Take(t)) : Cell(t, x) = Addr(t, rig.len[t] + x)
      BY <2>1, CellAt
    <2>3. i \in 1 .. Len(Take(t)) /\ rig.len[t] + i = k
      BY <2>1, <2>2
    <2> HIDE DEF i
    <2>4. Cell(t, i) = Addr(t, k) /\ i \in DOMAIN Take(t)
      BY <2>2, <2>3
    <2> QED BY <2>1, <2>4 DEF Hits
  <1> QED BY <1>1, <1>2

(* What a step leaves in the arena. *)
LEMMA WrittenAt ==
  ASSUME EngineTypes, RigOK(rig), Flying(rig), Held(rig), FeedInv, ~ Overflow,
         NEW top, NEW a, DOMAIN a = 0 .. NSlots * SlabCap - 1,
         NEW t \in Slots, NEW k \in 1 .. SlabCap
  PROVE  Written(a, top)[Addr(t, k)] = IF Fresh(t, k) THEN TokensOf(t)[k] ELSE a[Addr(t, k)]
  <1> DEFINE c == Addr(t, k)
             h == Hits(c)
             s == IF top \in h THEN top ELSE Min(h)
  <1>1. c \in DOMAIN a
    BY AddrIn
  <1>2. h = IF Fresh(t, k) THEN {t} ELSE {}
    BY HitsAt
  <1>3. Written(a, top)[c] = IF h = {} THEN a[c] ELSE Take(s)[c - Cell(s, 1) + 1]
    BY <1>1 DEF Written
  <1> HIDE DEF h, c
  <1>4. CASE ~ Fresh(t, k)
    BY <1>2, <1>3, <1>4 DEF c
  <1>5. CASE Fresh(t, k)
    <2>1. h = {t} /\ t \in Nat
      BY <1>2, <1>5, Numbers
    <2>2. Min(h) \in h
      BY <2>1, MinIs
    <2>3. s = t
      BY <2>1, <2>2
    <2>4. t \in Batch /\ k \in rig.len[t] + 1 .. EndPos(t)
      BY <1>5 DEF Fresh
    <2>5. /\ Len(Take(t)) \in Nat /\ t \in InFlight /\ Len(Take(t)) > 0
          /\ rig.len[t] \in Nat /\ EndPos(t) = rig.len[t] + Len(Take(t))
          /\ \A x \in 1 .. Len(Take(t)) : Cell(t, x) = Addr(t, rig.len[t] + x)
      BY <2>4, CellAt
    <2>6. 1 \in 1 .. Len(Take(t)) /\ k - rig.len[t] \in 1 .. Len(Take(t))
          /\ rig.len[t] + (k - rig.len[t]) = k
      BY <2>4, <2>5
    <2>7. Cell(t, 1) = Addr(t, rig.len[t] + 1)
      BY <2>5, <2>6
    <2>8. t * SlabCap \in Nat
      BY <2>1, Consts
    <2>9. c - Cell(t, 1) + 1 = k - rig.len[t]
      BY <2>5, <2>7, <2>8 DEF Addr, c
    <2>10. Take(t)[k - rig.len[t]] = TokensOf(t)[rig.len[t] + (k - rig.len[t])]
      BY <2>5, <2>6, TakeNext
    <2> HIDE DEF s
    <2>11. Written(a, top)[c] = Take(t)[k - rig.len[t]]
      BY <1>3, <2>1, <2>3, <2>9
    <2> QED BY <1>5, <2>6, <2>10, <2>11 DEF c
  <1> QED BY <1>4, <1>5

(* Rounding up to a multiple does not go down. *)
LEMMA RoundsUp ==
  ASSUME NEW x \in Nat, NEW b \in Nat \ {0}
  PROVE  /\ ((x + b - 1) \div b) * b \in Nat /\ x <= ((x + b - 1) \div b) * b
  <1> DEFINE y == x + b - 1
             d == y \div b
  <1>1. y \in Nat
    OBVIOUS
  <1> HIDE DEF y
  <1>2. d \in Nat /\ y = d * b + (y % b) /\ y % b \in 0 .. b - 1
    BY <1>1
  <1> HIDE DEF d
  <1>3. d * b \in Nat
    BY <1>2
  <1>4. x <= d * b
    BY <1>2, <1>3 DEF y
  <1> QED BY <1>3, <1>4 DEF d, y

(* The bucket of a step covers the context of each of its slots. *)
LEMMA BucketCovers ==
  ASSUME EngineTypes, RigOK(rig), Flying(rig), Held(rig), FeedInv, ~ Overflow, Batch # {}
  PROVE  ctx_bucket \in Nat /\ ctx_bucket # 0 /\ \A s \in Batch : EndPos(s) <= ctx_bucket
  <1> DEFINE T == {EndPos(s) : s \in Batch}
             x == Max(T)
             y == ((x + CtxBucket - 1) \div CtxBucket) * CtxBucket
  <1>0. SlabCap \in Nat /\ CtxBucket \in Nat \ {0}
    BY Consts, RequestAssumption DEF RequestAssumption
  <1>1. \A s \in Batch : EndPos(s) \in Nat /\ EndPos(s) <= SlabCap /\ EndPos(s) > 0
    <2> SUFFICES ASSUME NEW s \in Batch
                 PROVE  EndPos(s) \in Nat /\ EndPos(s) <= SlabCap /\ EndPos(s) > 0
      OBVIOUS
    <2>1. /\ EndPos(s) \in 0 .. SlabCap /\ rig.len[s] \in Nat /\ EndPos(s) = rig.len[s] + Len(Take(s))
          /\ Len(Take(s)) \in Nat /\ Len(Take(s)) > 0
      BY CellAt
    <2> QED BY <1>0, <2>1
  <1>2. T \in SUBSET Nat /\ T # {} /\ \A z \in T : z <= SlabCap
    BY <1>1
  <1>3. \A s \in Batch : EndPos(s) \in T
    OBVIOUS
  <1> HIDE DEF T
  <1>4. x \in T /\ \A z \in T : z <= x
    BY <1>0, <1>2, MaxIs
  <1>5. x \in Nat
    BY <1>2, <1>4
  <1> HIDE DEF x
  <1>6. y \in Nat /\ x <= y
    BY <1>0, <1>5, RoundsUp
  <1>7. ctx_bucket = Min({y, SlabCap})
    BY DEF ctx_bucket, x, T
  <1> HIDE DEF y
  <1>8. ctx_bucket \in {y, SlabCap}
    BY <1>0, <1>6, <1>7, MinIs
  <1>9. \A s \in Batch : EndPos(s) <= ctx_bucket
    <2> SUFFICES ASSUME NEW s \in Batch PROVE EndPos(s) <= ctx_bucket
      OBVIOUS
    <2>1. EndPos(s) <= x /\ EndPos(s) \in Nat /\ EndPos(s) <= SlabCap
      BY <1>1, <1>3, <1>4
    <2> QED BY <1>0, <1>5, <1>6, <1>8, <2>1
  <1>10. ctx_bucket \in Nat
    BY <1>0, <1>6, <1>8
  <1>11. ctx_bucket # 0
    <2>1. PICK s \in Batch : TRUE
      OBVIOUS
    <2>2. EndPos(s) > 0 /\ EndPos(s) \in Nat /\ EndPos(s) <= ctx_bucket
      BY <1>1, <1>9
    <2> QED BY <1>10, <2>2
  <1> QED BY <1>9, <1>10, <1>11

(* A graph is replayed or captured with every slot of the pool in it. *)
LEMMA GraphedAll ==
  ASSUME Graphed
  PROVE  Batch = Slots
  BY EmptySeq DEF Graphed, pure_decode, Batch

(* Every slot of a batch is at its own place in it. *)
LEMMA RowIsOwn ==
  ASSUME Baked = Batch, NEW s \in Batch
  PROVE  RowOf(s) = s
  <1> DEFINE under(t) == {u \in Batch : u < t}
  <1>0. Batch \subseteq Slots /\ Batch \subseteq Nat /\ IsFiniteSet(Batch)
    BY Numbers, FS_Subset DEF Batch
  <1>1. \A t, v \in Batch : t < v => Cardinality(under(t)) # Cardinality(under(v))
    <2> SUFFICES ASSUME NEW t \in Batch, NEW v \in Batch, t < v
                 PROVE  Cardinality(under(t)) # Cardinality(under(v))
      OBVIOUS
    <2>1. under(v) \in SUBSET Batch /\ under(t) \in SUBSET under(v) /\ t \in under(v) /\ t \notin under(t)
      <3>1. t \in Nat /\ v \in Nat /\ \A u \in Batch : u \in Nat
        BY <1>0
      <3>2. \A u \in Batch : u < t => u < v
        BY <3>1
      <3>3. ~ (t < t)
        BY <3>1
      <3>4. under(v) \subseteq Batch /\ under(t) \subseteq under(v) /\ t \in under(v) /\ t \notin under(t)
        BY <3>2, <3>3, Zenon
      <3> QED BY <3>4
    <2> HIDE DEF under
    <2>2. IsFiniteSet(under(v))
      BY <1>0, <2>1, FS_Subset
    <2>3. Cardinality(under(v)) = Cardinality(under(t)) => under(v) = under(t)
      BY <2>1, <2>2, FS_Subset
    <2> QED BY <2>1, <2>3
  <1>2. RowOf(s) = CHOOSE t \in Batch : Cardinality(under(t)) = Cardinality(under(s))
    BY DEF RowOf
  <1> HIDE DEF under
  <1>3. RowOf(s) \in Batch /\ Cardinality(under(RowOf(s))) = Cardinality(under(s))
    BY <1>2
  <1>4. ~ (RowOf(s) < s) /\ ~ (s < RowOf(s))
    BY <1>1, <1>3
  <1>5. RowOf(s) \in Nat /\ s \in Nat
    BY <1>0, <1>3
  <1> QED BY <1>4, <1>5

(* With every capture over all slots, a replay works on each slot's own    *)
(* state and reads its whole context.                                      *)
LEMMA ReplayIsOwn ==
  ASSUME EngineTypes, RigOK(rig), Flying(rig), Held(rig), FeedInv, GraphInv, ~ Overflow, Batch # {}
  PROVE  /\ Baked = Batch /\ Fed(rig.dn) = [s \in Slots |-> IF s \in Batch THEN rig.dn[s] \o Take(s)
                                                            ELSE rig.dn[s]]
         /\ \A s \in Batch : RowOf(s) = s /\ Scanned(s) = EndPos(s)
         /\ Captured.ctx # 0 => Captured.slots = Slots
         /\ CaptureLost.ctx # 0 => CaptureLost.slots = Slots
  <1>1. ctx_bucket \in Nat /\ ctx_bucket # 0 /\ \A s \in Batch : EndPos(s) <= ctx_bucket
    BY BucketCovers
  <1>2. Baked = Batch
    <2>1. CASE Replays
      <3>1. graph.ctx = ctx_bucket /\ Batch = Slots
        BY <2>1, GraphedAll DEF Replays
      <3> QED BY <1>1, <2>1, <3>1 DEF Baked, GraphInv
    <2>2. CASE ~ Replays
      BY <2>2 DEF Baked
    <2> QED BY <2>1, <2>2
  <1>3. \A s \in Batch : RowOf(s) = s
    BY <1>2, RowIsOwn
  <1>4. ASSUME NEW s \in Batch PROVE Scanned(s) = EndPos(s)
    <2> DEFINE c == IF Replays THEN graph.ctx ELSE ctx_bucket
               T == {EndPos(s), c}
    <2>1. c = ctx_bucket
      BY DEF Replays
    <2>2. EndPos(s) \in Nat /\ EndPos(s) <= c /\ c \in Nat
      <3>1. EndPos(s) \in 0 .. SlabCap
        BY CellAt
      <3> QED BY <1>1, <2>1, <3>1, Consts
    <2> HIDE DEF c
    <2>3. Min(T) \in T /\ \A y \in T : Min(T) <= y
      BY <2>2, MinIs
    <2>4. Min(T) = EndPos(s)
      BY <2>2, <2>3
    <2> QED BY <2>4 DEF Scanned, c
  <1>5. Fed(rig.dn) = [s \in Slots |-> IF s \in Batch THEN rig.dn[s] \o Take(s) ELSE rig.dn[s]]
    BY <1>2, <1>3 DEF Fed
  <1>6. Captured.ctx # 0 => Captured.slots = Slots
    BY GraphedAll DEF Captured, GraphInv
  <1>7. CaptureLost.ctx # 0 => CaptureLost.slots = Slots
    BY DEF CaptureLost, NoGraph, GraphInv
  <1> QED BY <1>2, <1>3, <1>4, <1>5, <1>6, <1>7

(* A prefix and what comes next of it make a longer prefix. *)
LEMMA PrefixGrows ==
  ASSUME NEW ts \in Seq(Tokens), NEW n \in Nat, NEW x \in Seq(Tokens), n + Len(x) <= Len(ts),
         \A k \in 1 .. Len(x) : x[k] = ts[n + k]
  PROVE  SubSeq(ts, 1, n) \o x = SubSeq(ts, 1, n + Len(x))
  <1> DEFINE p == SubSeq(ts, 1, n)
             m == n + Len(x)
             e == SubSeq(ts, 1, m)
  <1>0. Len(x) \in Nat /\ m \in Nat /\ m <= Len(ts) /\ n <= Len(ts) /\ Len(ts) \in Nat
    BY LenProperties
  <1>1. p \in Seq(Tokens) /\ Len(p) = n /\ \A k \in 1 .. n : p[k] = ts[k]
    BY <1>0, PrefixAt
  <1>2. m = n + Len(x)
    OBVIOUS
  <1> HIDE DEF m
  <1>3. e \in Seq(Tokens) /\ Len(e) = m /\ \A k \in 1 .. m : e[k] = ts[k]
    BY <1>0, PrefixAt
  <1> HIDE DEF p, e
  <1> DEFINE c == p \o x
  <1>4. /\ c \in Seq(Tokens) /\ Len(c) = Len(p) + Len(x)
        /\ \A k \in 1 .. Len(p) + Len(x) : c[k] = IF k <= Len(p) THEN p[k] ELSE x[k - Len(p)]
    BY <1>1, ConcatProperties
  <1> HIDE DEF c
  <1>5. Len(c) = m
    BY <1>1, <1>2, <1>4
  <1>6. ASSUME NEW k \in 1 .. m
        PROVE  c[k] = e[k]
    <2>1. c[k] = IF k <= n THEN p[k] ELSE x[k - n]
      BY <1>1, <1>2, <1>4
    <2>2. CASE k <= n
      <3>1. k \in 1 .. n
        BY <1>0, <2>2
      <3> QED BY <1>1, <1>3, <2>1, <2>2, <3>1
    <2>3. CASE ~ k <= n
      <3>1. k - n \in 1 .. Len(x) /\ n + (k - n) = k
        BY <1>0, <1>2, <2>3
      <3>2. x[k - n] = ts[n + (k - n)]
        BY <3>1
      <3>3. x[k - n] = ts[k]
        BY <3>1, <3>2
      <3> QED BY <1>3, <2>1, <2>3, <3>3
    <2> QED BY <2>2, <2>3
  <1>7. c = e
    BY <1>3, <1>4, <1>5, <1>6, SeqEqual
  <1> QED BY <1>7 DEF c, e, p, m

(* What the rig has after a forward within the slabs. *)
Advanced(r, top) ==
  /\ Cached(r) /\ r.arena = Written(rig.arena, top)
  /\ \A s \in Slots : r.len[s] = IF s \in Batch THEN EndPos(s) ELSE rig.len[s]
  /\ DOMAIN r.dn = Slots
  /\ \A s \in Slots : r.dn[s] = IF s \in Batch THEN rig.dn[s] \o Take(s) ELSE rig.dn[s]

(* The forward feeds each slot of the batch its tokens and no other slot. *)
LEMMA ForwardAdvances ==
  ASSUME EngineTypes, RigOK(rig), Flying(rig), Held(rig), FeedInv, GraphInv, ~ Overflow, Batch # {},
         NEW top, NEW r, r = Forwarded(top)
  PROVE  Advanced(r, top)
  <1>1. Cached(r)
    BY ForwardedCached
  <1>2. DOMAIN rig = Fields
    BY DEF RigOK, RigTypes
  <1>3. /\ r.arena = Written(rig.arena, top) /\ r.dn = Fed(rig.dn)
        /\ r.len = [s \in Slots |-> IF s \in Batch THEN EndPos(s) ELSE rig.len[s]]
    BY <1>2 DEF Forwarded, Fields
  <1>4. Fed(rig.dn) = [s \in Slots |-> IF s \in Batch THEN rig.dn[s] \o Take(s) ELSE rig.dn[s]]
    BY ReplayIsOwn
  <1> QED BY <1>1, <1>3, <1>4 DEF Advanced

(* A slot in flight then holds what was fed to it as well. *)
LEMMA AdvancedHolds ==
  ASSUME EngineTypes, RigOK(rig), Flying(rig), Held(rig), FeedInv, ~ Overflow,
         NEW top, NEW r, Advanced(r, top), NEW s \in InFlight
  PROVE  SlotHolds(r, s, TokensOf(s)) /\ r.len[s] = EndPos(s)
  <1> DEFINE ts == TokensOf(s)
             n == rig.len[s]
  <1>1. /\ s \in Slots /\ ts \in Seq(Tokens) /\ SlotHolds(rig, s, ts) /\ n \in 0 .. SlabCap
        /\ n \in Nat
    BY FlightHolds
  <1>2. /\ EndPos(s) = n + Len(Take(s)) /\ EndPos(s) \in Nat /\ EndPos(s) <= Len(ts)
        /\ \A k \in 1 .. Len(Take(s)) : Take(s)[k] = ts[n + k]
    BY TakeNext
  <1>3. Take(s) \in Seq(Tokens) /\ Len(Take(s)) \in Nat
    BY <1>1, TakeType
  <1>4. DOMAIN rig.arena = 0 .. NSlots * SlabCap - 1
    BY DEF Held, HeldBut
  <1>5. /\ r.arena = Written(rig.arena, top)
        /\ r.len[s] = IF s \in Batch THEN EndPos(s) ELSE n
        /\ r.dn[s] = IF s \in Batch THEN rig.dn[s] \o Take(s) ELSE rig.dn[s]
    BY <1>1 DEF Advanced
  <1>6. /\ \A k \in 1 .. n : rig.arena[Addr(s, k)] = ts[k]
        /\ rig.dn[s] = SubSeq(ts, 1, n)
    BY <1>1 DEF SlotHolds
  <1> HIDE DEF ts, n
  <1>7. CASE s \in Batch
    <2>1. EndPos(s) \in 0 .. SlabCap
      BY <1>7, CellAt
    <2>2. ASSUME NEW k \in 1 .. EndPos(s)
          PROVE  r.arena[Addr(s, k)] = ts[k]
      <3>1. k \in 1 .. SlabCap
        BY <1>2, <2>1, Consts
      <3>2. r.arena[Addr(s, k)] = IF Fresh(s, k) THEN TokensOf(s)[k] ELSE rig.arena[Addr(s, k)]
        BY <1>1, <1>4, <1>5, <3>1, WrittenAt
      <3>3. ~ Fresh(s, k) => k \in 1 .. n
        BY <1>1, <1>2, <1>7 DEF Fresh, n
      <3> QED BY <1>6, <3>2, <3>3 DEF ts
    <2>3. SubSeq(ts, 1, n) \o Take(s) = SubSeq(ts, 1, n + Len(Take(s)))
      BY <1>1, <1>2, <1>3, PrefixGrows
    <2>4. r.dn[s] = SubSeq(ts, 1, EndPos(s))
      BY <1>2, <1>5, <1>6, <1>7, <2>3
    <2>5. r.len[s] = EndPos(s)
      BY <1>5, <1>7
    <2>6. SlotHolds(r, s, ts)
      BY <1>2, <2>2, <2>4, <2>5 DEF SlotHolds
    <2> QED BY <2>5, <2>6 DEF ts
  <1>8. CASE s \notin Batch
    <2>1. Len(Take(s)) = 0
      BY <1>1, <1>8, BatchFlies
    <2>2. r.len[s] = n /\ r.dn[s] = rig.dn[s] /\ EndPos(s) = n
      BY <1>1, <1>2, <1>5, <1>8, <2>1
    <2>3. ASSUME NEW k \in 1 .. SlabCap
          PROVE  r.arena[Addr(s, k)] = rig.arena[Addr(s, k)]
      <3>1. r.arena[Addr(s, k)] = IF Fresh(s, k) THEN TokensOf(s)[k] ELSE rig.arena[Addr(s, k)]
        BY <1>1, <1>4, <1>5, WrittenAt
      <3> QED BY <1>8, <3>1 DEF Fresh
    <2>4. SlotHolds(r, s, ts)
      BY <1>1, <2>2, <2>3, HoldsFrame DEF n
    <2> QED BY <2>2, <2>4 DEF ts
  <1> QED BY <1>7, <1>8

(* A slot outside the flights is left alone. *)
LEMMA AdvancedElsewhere ==
  ASSUME EngineTypes, RigOK(rig), Flying(rig), Held(rig), FeedInv, ~ Overflow,
         NEW top, NEW r, Advanced(r, top), NEW s \in Slots \ InFlight
  PROVE  /\ r.len[s] = rig.len[s] /\ r.dn[s] = rig.dn[s]
         /\ \A k \in 1 .. SlabCap : r.arena[Addr(s, k)] = rig.arena[Addr(s, k)]
  <1>1. s \notin Batch
    BY BatchFlies
  <1>2. DOMAIN rig.arena = 0 .. NSlots * SlabCap - 1
    BY DEF Held, HeldBut
  <1>3. r.arena = Written(rig.arena, top) /\ r.len[s] = rig.len[s] /\ r.dn[s] = rig.dn[s]
    BY <1>1 DEF Advanced
  <1>4. ASSUME NEW k \in 1 .. SlabCap
        PROVE  r.arena[Addr(s, k)] = rig.arena[Addr(s, k)]
    <2>1. r.arena[Addr(s, k)] = IF Fresh(s, k) THEN TokensOf(s)[k] ELSE rig.arena[Addr(s, k)]
      BY <1>2, <1>3, WrittenAt
    <2> QED BY <1>1, <2>1 DEF Fresh
  <1> QED BY <1>3, <1>4

(* So every slot holds a prefix of its session's tokens after a forward. *)
LEMMA AdvancedHeld ==
  ASSUME EngineTypes, RigOK(rig), Flying(rig), Held(rig), FeedInv, ~ Overflow,
         NEW top, NEW r, Advanced(r, top)
  PROVE  Held(r)
  <1>1. r.sess = rig.sess /\ r.snaps = rig.snaps /\ DOMAIN r.dn = Slots
    BY DEF Advanced, Cached
  <1>2. DOMAIN r.arena = 0 .. NSlots * SlabCap - 1
    BY DEF Advanced, Written, Held, HeldBut
  <1>3. ASSUME NEW i \in Ids, rig.sess[i].residency = "Resident"
        PROVE  SlotHolds(r, rig.sess[i].slot, rig.sess[i].tokens)
    <2> DEFINE s == rig.sess[i].slot
               ts == rig.sess[i].tokens
    <2>1. s \in Slots /\ rig.len[s] \in 0 .. SlabCap /\ \A j \in Ids : j # i => rig.sess[j].slot # s
      BY <1>3, OtherSlot
    <2>2. SlotHolds(rig, s, ts)
      BY <1>3 DEF Held, HeldBut
    <2>3. CASE s \in InFlight
      <3>1. slots[s].session \in Ids /\ rig.sess[slots[s].session].slot = s
        BY <2>3 DEF Flying
      <3>2. TokensOf(s) = ts
        BY <2>1, <3>1 DEF TokensOf
      <3> HIDE DEF s, ts
      <3> QED BY <2>3, <3>2, AdvancedHolds DEF s, ts
    <2>4. CASE s \notin InFlight
      <3> HIDE DEF s, ts
      <3>1. /\ r.len[s] = rig.len[s] /\ r.dn[s] = rig.dn[s]
            /\ \A k \in 1 .. SlabCap : r.arena[Addr(s, k)] = rig.arena[Addr(s, k)]
        BY <2>1, <2>4, AdvancedElsewhere
      <3>2. SlotHolds(r, s, ts)
        BY <2>1, <2>2, <3>1, HoldsFrame
      <3> QED BY <3>2 DEF s, ts
    <2> QED BY <2>3, <2>4
  <1> QED BY <1>1, <1>2, <1>3 DEF Held, HeldBut

(* The whole of a sequence is its longest prefix. *)
LEMMA WholePrefix ==
  ASSUME NEW ts \in Seq(Tokens)
  PROVE  SubSeq(ts, 1, Len(ts)) = ts
  <1>1. Len(ts) \in Nat
    OBVIOUS
  <1>2. /\ SubSeq(ts, 1, Len(ts)) \in Seq(Tokens) /\ Len(SubSeq(ts, 1, Len(ts))) = Len(ts)
        /\ \A k \in 1 .. Len(ts) : SubSeq(ts, 1, Len(ts))[k] = ts[k]
    BY <1>1, PrefixAt
  <1> QED BY <1>2, SeqEqual

(* Nothing is left after n tokens only when there are n. *)
LEMMA NoRest ==
  ASSUME NEW ts \in Seq(Tokens), NEW n \in Nat, n <= Len(ts)
  PROVE  (SubSeq(ts, n + 1, Len(ts)) = << >>) <=> n = Len(ts)
  <1>1. SubSeq(ts, n + 1, Len(ts)) \in Seq(Tokens) /\ Len(SubSeq(ts, n + 1, Len(ts))) = Len(ts) - n
    BY RestAt
  <1>2. Len(ts) \in Nat
    OBVIOUS
  <1>3. (SubSeq(ts, n + 1, Len(ts)) = << >>) <=> Len(SubSeq(ts, n + 1, Len(ts))) = 0
    BY <1>1, EmptySeq
  <1>4. Len(ts) - n = 0 <=> n = Len(ts)
    BY <1>2
  <1> QED BY <1>1, <1>3, <1>4

(* And its work goes on from there; with no work left its logits are those *)
(* of all of its tokens.                                                   *)
LEMMA AdvancedFeeds ==
  ASSUME EngineTypes, RigOK(rig), Flying(rig), Held(rig), FeedInv, GraphInv, ~ Overflow, Batch # {},
         NEW top, NEW r, Advanced(r, top), NEW s \in InFlight
  PROVE  Feeding(Drained[s], r.len[s], TokensOf(s), NewLogits(r)[s])
  <1> DEFINE ts == TokensOf(s)
             n == EndPos(s)
             row == NewLogits(r)[s]
  <1>1. /\ s \in Slots /\ ts \in Seq(Tokens)
    BY FlightHolds
  <1>2. /\ n \in Nat /\ n <= Len(ts) /\ Rest(s) = SubSeq(ts, n + 1, Len(ts))
        /\ (Take(s) = << >> => work[s].remaining = << >>)
    BY TakeNext
  <1>3. SlotHolds(r, s, ts) /\ r.len[s] = n
    BY AdvancedHolds
  <1>4. Drained[s].remaining = Rest(s) /\ Drained[s].next_pos = n
    BY <1>1 DEF Drained, EndPos
  <1>5. row = IF s \in Batch THEN [kv |-> ReadSlab(r, RowOf(s), Scanned(RowOf(s))), dn |-> r.dn[s]]
              ELSE logits[s]
    BY <1>1, ReplayIsOwn DEF NewLogits
  <1> HIDE DEF row, ts, n
  <1>6. ASSUME Rest(s) = << >>
        PROVE  row.kv = ts /\ row.dn = ts
    <2>1. n = Len(ts)
      BY <1>1, <1>2, <1>6, NoRest
    <2>2. CASE s \in Batch
      <3>1. RowOf(s) = s /\ Scanned(s) = n
        BY <2>2, ReplayIsOwn DEF n
      <3>2. row.kv = ReadSlab(r, s, n) /\ row.dn = r.dn[s]
        BY <1>5, <2>2, <3>1
      <3>3. RigTypes(r) /\ DOMAIN r.arena = 0 .. NSlots * SlabCap - 1
        BY CachedKeeps, AdvancedHeld DEF Advanced, RigOK, Held, HeldBut
      <3>4. Caches(ReadSlab(r, s, r.len[s]), r.dn[s], ts)
        BY <1>1, <1>3, <3>3, HoldsReads
      <3>5. r.dn[s] = SubSeq(ts, 1, n) /\ SubSeq(ts, 1, n) = ts
        BY <1>1, <1>3, <2>1, WholePrefix DEF SlotHolds
      <3> QED BY <1>3, <3>2, <3>4, <3>5 DEF Caches
    <2>3. CASE s \notin Batch
      <3>1. work[s].remaining = << >>
        BY <1>1, <1>2, <2>3 DEF Batch
      <3>2. logits[s].kv = ts /\ logits[s].dn = ts
        BY <3>1 DEF FeedInv, Feeding, ts
      <3> QED BY <1>5, <2>3, <3>2
    <2> QED BY <2>2, <2>3
  <1> QED BY <1>2, <1>3, <1>4, <1>6 DEF Feeding, ts, n, row

(* A step whose sampling fails: the work is gone from the queue and the    *)
(* tokens are in the slots.                                                *)
LEMMA SampleFailsContext ==
  ASSUME EngineInv, ContextInv, SampleFails
  PROVE  ContextInv'
  <1>1. RigOK(rig) /\ Flying(rig) /\ EngineTypes
    BY DEF EngineInv
  <1>2. /\ engine = "running" /\ engine' = engine /\ Batch # {} /\ ~ Overflow
        /\ work' = Drained /\ graph' = Captured /\ slots' = slots
    BY DEF SampleFails, Stepping
  <1>3. Held(rig) /\ FeedInv /\ GraphInv
    BY <1>2 DEF ContextInv
  <1>4. PICK top \in Batch : rig' = Forwarded(top) /\ logits' = NewLogits(rig')
    BY DEF SampleFails
  <1> DEFINE r == rig'
  <1>5. r = rig'
    OBVIOUS
  <1> HIDE DEF r
  <1>6. Advanced(r, top)
    BY <1>1, <1>2, <1>3, <1>4, <1>5, ForwardAdvances
  <1>7. Held(r)
    BY <1>1, <1>2, <1>3, <1>6, AdvancedHeld
  <1>8. r.sess = rig.sess
    BY <1>6 DEF Advanced, Cached
  <1>9. InFlight' = InFlight /\ \A s \in InFlight : TokensOf(s)' = TokensOf(s)
    BY <1>2, <1>5, <1>8, SlotsSame DEF TokensOf
  <1>10. ASSUME NEW s \in InFlight
         PROVE  Feeding(work'[s], rig'.len[s], TokensOf(s)', logits'[s])
    <2>1. Feeding(Drained[s], r.len[s], TokensOf(s), NewLogits(r)[s])
      BY <1>1, <1>2, <1>3, <1>6, AdvancedFeeds
    <2> QED BY <1>2, <1>4, <1>5, <1>9, <2>1
  <1>11. ASSUME NEW s \in Slots \ InFlight
         PROVE  work'[s].remaining = << >>
    BY <1>2, <1>3, BatchFlies DEF Drained
  <1>12. GraphInv'
    BY <1>1, <1>2, <1>3, ReplayIsOwn DEF GraphInv
  <1>13. FeedInv'
    BY <1>9, <1>10, <1>11 DEF FeedInv
  <1> QED BY <1>5, <1>7, <1>12, <1>13 DEF ContextInv

(* A failed forward writes nothing but the slots of the sessions it closes. *)
LEMMA ForwardFailsContext ==
  ASSUME EngineInv, ContextInv, ~ Overflow, ForwardFails
  PROVE  ContextInv'
  <1>1. RigOK(rig) /\ Flying(rig) /\ EngineTypes
    BY DEF EngineInv
  <1>2. engine = "running" /\ Batch # {}
    BY DEF ForwardFails, Stepping
  <1>3. Held(rig) /\ FeedInv /\ GraphInv
    BY <1>2 DEF ContextInv
  <1> DEFINE r == [rig EXCEPT
                     !.arena = [a \in DOMAIN @ |-> IF Hits(a) = {} THEN @[a] ELSE "junk"],
                     !.dn    = [s \in Slots |-> IF s \in Batch THEN << "junk" >> ELSE @[s]]]
  <1>4. FailInFlight(r)
    BY DEF ForwardFails
  <1>5. DOMAIN rig = Fields /\ rig.len \in [Slots -> 0 .. SlabCap]
    BY <1>1 DEF RigOK, RigTypes
  <1>6. DOMAIN rig.arena = 0 .. NSlots * SlabCap - 1 /\ DOMAIN rig.dn = Slots
    BY <1>3 DEF Held, HeldBut
  <1>7. /\ Cached(r) /\ r.len = rig.len
        /\ r.arena = [a \in DOMAIN rig.arena |-> IF Hits(a) = {} THEN rig.arena[a] ELSE "junk"]
        /\ r.dn = [s \in Slots |-> IF s \in Batch THEN << "junk" >> ELSE rig.dn[s]]
    BY <1>5 DEF Cached, Fields
  <1>8. /\ rig' = close_all(r, Busy) /\ slots' = [s \in Slots |-> NoFlight] /\ graph' = CaptureLost
        /\ work' = [s \in Slots |-> [remaining |-> IF s \in InFlight THEN << >> ELSE Rest(s),
                                     next_pos  |-> Drained[s].next_pos]]
    BY <1>4 DEF FailInFlight
  <1> HIDE DEF r
  <1>9. RigOK(r) /\ Flying(r) /\ r.sess = rig.sess /\ r.snaps = rig.snaps
    BY <1>1, <1>7, CachedKeeps DEF Cached
  <1>10. ASSUME NEW s \in Slots \ InFlight
         PROVE  /\ r.dn[s] = rig.dn[s]
                /\ \A k \in 1 .. SlabCap : r.arena[Addr(s, k)] = rig.arena[Addr(s, k)]
    <2>1. s \notin Batch
      BY <1>3, BatchFlies
    <2>2. ASSUME NEW k \in 1 .. SlabCap
          PROVE  r.arena[Addr(s, k)] = rig.arena[Addr(s, k)]
      <3>1. Hits(Addr(s, k)) = {}
        BY <1>1, <1>3, <2>1, HitsAt DEF Fresh
      <3>2. Addr(s, k) \in DOMAIN rig.arena
        BY <1>6, AddrIn
      <3> QED BY <1>7, <3>1, <3>2
    <2> QED BY <1>7, <2>1, <2>2
  <1>11. Kept(rig, r, Busy)
    <2>1. ASSUME NEW i \in Ids \ Busy, r.sess[i].residency = "Resident"
          PROVE  rig.sess[i].slot \in Slots \ InFlight
      <3>1. rig.sess[i].slot \in Slots /\ \A j \in Ids : j # i => rig.sess[j].slot # rig.sess[i].slot
        BY <1>1, <1>9, <2>1, OtherSlot
      <3>2. \A s \in InFlight : slots[s].session \in Busy /\ slots[s].session \in Ids
                                /\ rig.sess[slots[s].session].slot = s
        BY <1>1 DEF Flying, Busy
      <3> QED BY <2>1, <3>1, <3>2
    <2>2. DOMAIN r.arena = DOMAIN rig.arena /\ DOMAIN r.dn = DOMAIN rig.dn
      BY <1>6, <1>7
    <2> QED BY <1>7, <1>9, <1>10, <2>1, <2>2 DEF Kept
  <1>12. HeldBut(r, Busy)
    BY <1>1, <1>3, <1>11, KeptHeld
  <1>13. Busy \in SUBSET Ids /\ \A i \in Busy : r.sess[i].residency = "Resident"
    BY <1>9, BusyResident DEF Live
  <1>14. Held(rig')
    BY <1>8, <1>9, <1>12, <1>13, CloseAllHeld
  <1>15. InFlight' = {}
    BY <1>8 DEF InFlight, NoFlight
  <1>16. \A s \in Slots : work'[s].remaining = << >>
    BY <1>3, <1>8, BatchFlies
  <1>17. FeedInv'
    BY <1>15, <1>16 DEF FeedInv
  <1>18. GraphInv'
    BY <1>1, <1>2, <1>3, <1>8, ReplayIsOwn DEF GraphInv
  <1> QED BY <1>14, <1>17, <1>18 DEF ContextInv

(* Steps that leave the rig, the graph and the flights as they are, or end *)
(* the engine.                                                             *)
LEMMA StillContext ==
  ASSUME ContextInv, rig' = rig, graph' = graph,
         \/ engine' # "running"
         \/ engine' = engine /\ slots' = slots /\ work' = work /\ logits' = logits
  PROVE  ContextInv'
  <1>1. Held(rig') /\ GraphInv'
    BY DEF ContextInv, GraphInv
  <1>2. CASE engine' # "running"
    BY <1>1, <1>2 DEF ContextInv
  <1>3. CASE engine' = engine /\ slots' = slots /\ work' = work /\ logits' = logits
    <2>1. InFlight' = InFlight /\ \A s : TokensOf(s)' = TokensOf(s)
      BY <1>3, SlotsSame DEF TokensOf
    <2>2. FeedInv => FeedInv'
      BY <1>3, <2>1 DEF FeedInv
    <2> QED BY <1>1, <1>3, <2>2 DEF ContextInv
  <1> QED BY <1>2, <1>3

(* The steps that touch neither rig nor work keep the invariant. *)
LEMMA IdleContext ==
  ASSUME ContextInv,
         Panic \/ Exit \/ DropEngine \/ UNCHANGED vars \/ \E q \in Requests : Client(q)
  PROVE  ContextInv'
  <1>1. /\ rig' = rig /\ graph' = graph
        /\ \/ engine' # "running"
           \/ engine' = engine /\ slots' = slots /\ work' = work /\ logits' = logits
    <2>1. CASE Panic
      BY <2>1 DEF Panic
    <2>2. CASE Exit
      BY <2>2 DEF Exit
    <2>3. CASE DropEngine \/ UNCHANGED vars
      BY <2>3 DEF DropEngine, vars, engineVars
    <2>4. ASSUME NEW q \in Requests, Client(q)
          PROVE  /\ rig' = rig /\ graph' = graph
                 /\ engine' = engine /\ slots' = slots /\ work' = work /\ logits' = logits
      BY <2>4 DEF Client, Submit, Vanish, Return, engineVars
    <2> QED BY <2>1, <2>2, <2>3, <2>4
  <1> QED BY <1>1, StillContext

-----------------------------------------------------------------------------
(* The sampling of a step *)

(* A slot that holds a prefix of some tokens holds one of more tokens too. *)
LEMMA HoldsLonger ==
  ASSUME NEW r, NEW s, r.len[s] \in Nat, NEW ts \in Seq(Tokens), NEW t \in Tokens,
         SlotHolds(r, s, ts)
  PROVE  SlotHolds(r, s, Append(ts, t))
  <1> DEFINE x == Append(ts, t)
             n == r.len[s]
  <1>1. /\ x \in Seq(Tokens) /\ Len(x) = Len(ts) + 1 /\ Len(ts) \in Nat
        /\ \A i \in 1 .. Len(ts) : x[i] = ts[i]
    BY AppendAt
  <1>2. n <= Len(ts) /\ r.dn[s] = SubSeq(ts, 1, n) /\ \A k \in 1 .. n : r.arena[Addr(s, k)] = ts[k]
    BY DEF SlotHolds
  <1> HIDE DEF x
  <1>3. n <= Len(x)
    BY <1>1, <1>2
  <1>4. \A k \in 1 .. n : k \in 1 .. Len(ts)
    BY <1>1, <1>2
  <1>5. /\ SubSeq(ts, 1, n) \in Seq(Tokens) /\ Len(SubSeq(ts, 1, n)) = n
        /\ \A k \in 1 .. n : SubSeq(ts, 1, n)[k] = ts[k]
    BY <1>2, PrefixAt
  <1>6. /\ SubSeq(x, 1, n) \in Seq(Tokens) /\ Len(SubSeq(x, 1, n)) = n
        /\ \A k \in 1 .. n : SubSeq(x, 1, n)[k] = x[k]
    BY <1>1, <1>3, PrefixAt
  <1>7. SubSeq(x, 1, n) = SubSeq(ts, 1, n)
    BY <1>1, <1>4, <1>5, <1>6, SeqEqual
  <1>8. \A k \in 1 .. n : r.arena[Addr(s, k)] = x[k]
    BY <1>1, <1>2, <1>4
  <1>9. SlotHolds(r, s, x)
    BY <1>2, <1>3, <1>7, <1>8 DEF SlotHolds
  <1> QED BY <1>9 DEF x

(* The tokens of the sessions once the sampled ones are recorded. *)
Recorded(r, tok, a) ==
  /\ a.arena = r.arena /\ a.dn = r.dn /\ a.len = r.len /\ a.snaps = r.snaps
  /\ \A i \in Ids : (\A s \in Sampled : slots[s].session = i => TokEnds(tok, s)) =>
                      a.sess[i].tokens = r.sess[i].tokens
  /\ \A s \in Sampled :
       ~ TokEnds(tok, s) => a.sess[slots[s].session].tokens
                              = Append(r.sess[slots[s].session].tokens, tok[s])

(* Recording the sampled tokens adds each to its own session only. *)
LEMMA StampedTokens ==
  ASSUME Flying(rig), NEW r, RigOK(r), NEW tok, NEW a, a = Stamped(r, tok)
  PROVE  Recorded(r, tok, a)
  <1>1. DOMAIN r = Fields /\ r.sess \in [Ids -> Sessions]
    BY DEF RigOK, RigTypes
  <1> DEFINE g(i) == [r.sess[i] EXCEPT
                        !.last_used = Stamp(r, tok, SlotOf(i)),
                        !.tokens = IF TokEnds(tok, SlotOf(i)) THEN r.sess[i].tokens
                                   ELSE Append(r.sess[i].tokens, tok[SlotOf(i)])]
             f == [i \in Ids |-> IF ~ Mine(tok, i) THEN r.sess[i] ELSE g(i)]
  <1>2. a = [r EXCEPT !.clock = @ + Cardinality(Touched(tok)), !.sess = f]
    BY DEF Stamped
  <1>3. \A i \in Ids : f[i] = IF ~ Mine(tok, i) THEN r.sess[i] ELSE g(i)
    OBVIOUS
  <1> HIDE DEF f
  <1>4. /\ a.arena = r.arena /\ a.dn = r.dn /\ a.len = r.len /\ a.snaps = r.snaps /\ a.sess = f
    BY <1>1, <1>2 DEF Fields
  <1>5. \A i \in Ids : g(i).tokens = IF TokEnds(tok, SlotOf(i)) THEN r.sess[i].tokens
                                     ELSE Append(r.sess[i].tokens, tok[SlotOf(i)])
    BY <1>1 DEF Sessions
  <1> HIDE DEF g
  <1>6. ASSUME NEW s \in Sampled
        PROVE  slots[s].session \in Ids /\ SlotOf(slots[s].session) = s
    BY SampledFinite DEF Flying, SlotOf
  <1>7. ASSUME NEW i \in Ids, \A s \in Sampled : slots[s].session = i => TokEnds(tok, s)
        PROVE  a.sess[i].tokens = r.sess[i].tokens
    <2>1. CASE ~ Mine(tok, i)
      BY <1>3, <1>4, <2>1
    <2>2. CASE Mine(tok, i)
      <3>1. PICK s \in Sampled : slots[s].session = i
        BY <2>2 DEF Mine, Touched
      <3>2. TokEnds(tok, SlotOf(i))
        BY <1>6, <1>7, <3>1
      <3> QED BY <1>3, <1>4, <1>5, <2>2, <3>2
    <2> QED BY <2>1, <2>2
  <1>8. ASSUME NEW s \in Sampled, ~ TokEnds(tok, s)
        PROVE  a.sess[slots[s].session].tokens = Append(r.sess[slots[s].session].tokens, tok[s])
    <2>1. Mine(tok, slots[s].session)
      BY <1>8 DEF Mine, Touched, TokEnds
    <2> QED BY <1>3, <1>4, <1>5, <1>6, <1>8, <2>1
  <1> QED BY <1>4, <1>7, <1>8 DEF Recorded

(* A recorded token makes the slot one token short of its session. *)
LEMMA StampedHeld ==
  ASSUME RigOK(rig), Flying(rig), NEW r, RigOK(r), r.sess = rig.sess, Held(r),
         NEW tok \in [Sampled -> Vocab \cup {Eos}],
         NEW a, Recorded(r, tok, a), SamePlaces(r, a)
  PROVE  Held(a)
  <1>1. /\ a.arena = r.arena /\ a.dn = r.dn /\ a.len = r.len /\ a.snaps = r.snaps
        /\ \A i \in Ids :
             (\A s \in Sampled : slots[s].session = i => TokEnds(tok, s)) =>
               a.sess[i].tokens = r.sess[i].tokens
        /\ \A s \in Sampled :
             ~ TokEnds(tok, s) => a.sess[slots[s].session].tokens
                                    = Append(r.sess[slots[s].session].tokens, tok[s])
    BY DEF Recorded
  <1>2. \A i \in Ids : a.sess[i].slot = r.sess[i].slot /\ a.sess[i].residency = r.sess[i].residency
    BY DEF SamePlaces
  <1>3. ASSUME NEW i \in Ids, a.sess[i].residency = "Resident"
        PROVE  SlotHolds(a, a.sess[i].slot, a.sess[i].tokens)
    <2> DEFINE z == r.sess[i].slot
               ts == r.sess[i].tokens
    <2>1. /\ r.sess[i].residency = "Resident" /\ z \in Slots /\ ts \in Seq(Tokens)
          /\ r.len[z] \in 0 .. SlabCap
      BY <1>2, <1>3, OtherSlot
    <2>2. SlotHolds(r, z, ts)
      BY <2>1 DEF Held, HeldBut
    <2> HIDE DEF z, ts
    <2>3. SlotHolds(a, z, ts) /\ a.len[z] \in Nat
      BY <1>1, <2>1, <2>2, Consts DEF SlotHolds
    <2>4. CASE \A s \in Sampled : slots[s].session = i => TokEnds(tok, s)
      BY <1>1, <1>2, <2>3, <2>4 DEF z, ts
    <2>5. ASSUME NEW s \in Sampled, slots[s].session = i, ~ TokEnds(tok, s)
          PROVE  SlotHolds(a, a.sess[i].slot, a.sess[i].tokens)
      <3>1. tok[s] \in Tokens
        BY <2>5 DEF TokEnds, Tokens
      <3>2. SlotHolds(a, z, Append(ts, tok[s]))
        BY <2>1, <2>3, <3>1, HoldsLonger
      <3>3. a.sess[i].tokens = Append(ts, tok[s])
        BY <1>1, <2>5 DEF ts
      <3> QED BY <1>2, <3>2, <3>3 DEF z
    <2> QED BY <2>4, <2>5
  <1>4. ASSUME NEW i \in Ids, a.snaps[i].present
        PROVE  Caches(a.snaps[i].kv, a.snaps[i].dn, a.sess[i].tokens)
    <2>1. r.sess[i].residency # "Resident" /\ r.snaps[i].present
      BY <1>1, <1>4 DEF RigOK, Snapped
    <2>2. \A s \in Sampled : slots[s].session # i
      BY <2>1, BusyResident, SampledFinite DEF Busy
    <2>3. a.sess[i].tokens = r.sess[i].tokens
      BY <1>1, <2>2
    <2>4. Caches(r.snaps[i].kv, r.snaps[i].dn, r.sess[i].tokens)
      BY <2>1 DEF Held, HeldBut
    <2> QED BY <1>1, <2>3, <2>4
  <1>5. DOMAIN a.arena = 0 .. NSlots * SlabCap - 1 /\ DOMAIN a.dn = Slots
    BY <1>1 DEF Held, HeldBut
  <1> QED BY <1>3, <1>4, <1>5 DEF Held, HeldBut

(* The token that is left to feed. *)
LEMMA LastIsRest ==
  ASSUME NEW ts \in Seq(Tokens), NEW t \in Tokens
  PROVE  SubSeq(Append(ts, t), Len(ts) + 1, Len(Append(ts, t))) = << t >>
  <1> DEFINE x == Append(ts, t)
             n == Len(ts)
             y == SubSeq(x, n + 1, Len(x))
             o == << t >>
  <1>1. x \in Seq(Tokens) /\ Len(x) = n + 1 /\ n \in Nat /\ x[n + 1] = t
    BY AppendProperties, LenProperties
  <1>2. o \in Seq(Tokens) /\ Len(o) = 1 /\ o[1] = t
    BY TuplesAt
  <1> HIDE DEF x, n, o
  <1>3. n <= Len(x)
    BY <1>1
  <1>4. y \in Seq(Tokens) /\ Len(y) = Len(x) - n /\ \A k \in 1 .. Len(x) - n : y[k] = x[n + k]
    BY <1>1, <1>3, RestAt
  <1> HIDE DEF y
  <1>5. Len(x) - n = 1
    BY <1>1
  <1>6. Len(y) = Len(o) /\ y[1] = o[1]
    BY <1>1, <1>2, <1>4, <1>5
  <1>7. \A k \in 1 .. Len(y) : y[k] = o[k]
    BY <1>2, <1>6
  <1>8. y = o
    BY <1>2, <1>4, <1>6, <1>7, SeqEqual
  <1> QED BY <1>8 DEF x, n, o, y

(* What one step of run_loop does, as the context sees it: r is the rig    *)
(* after the forward and a the one with the tokens recorded.               *)
Stepped(r, top, tok, a) ==
  /\ Advanced(r, top) /\ RigOK(r) /\ Held(r) /\ logits' = NewLogits(r)
  /\ Recorded(r, tok, a) /\ SamePlaces(r, a) /\ RigOK(a) /\ Flying(a)
  /\ rig' = close_all(a, Left(tok))
  /\ InFlight' = {s \in InFlight : ~ (s \in Sampled /\ TokEnds(tok, s))}
  /\ \A s \in InFlight' : slots'[s].session = slots[s].session
  /\ \A s \in Slots : work'[s] = IF s \in Sampled /\ ~ TokEnds(tok, s)
                                 THEN [remaining |-> << tok[s] >>, next_pos |-> EndPos(s)]
                                 ELSE Drained[s]
  /\ stream' = [q \in Requests |->
                  IF Told(tok, q) /\ tok[ReqSlot(q)] # Eos
                  THEN Append(stream[q], tok[ReqSlot(q)]) ELSE stream[q]]

(* A step of the loop is a forward followed by the recording. *)
LEMMA StepParts ==
  ASSUME EngineInv, ContextInv, Step
  PROVE  \E top \in Batch, tok \in [Sampled -> Vocab \cup {Eos}] : \E r, a : Stepped(r, top, tok, a)
  <1>1. RigOK(rig) /\ Flying(rig) /\ EngineTypes
    BY DEF EngineInv
  <1>2. engine = "running" /\ Batch # {} /\ ~ Overflow
    BY DEF Step, Stepping
  <1>3. Held(rig) /\ FeedInv /\ GraphInv
    BY <1>2 DEF ContextInv
  <1>4. PICK top \in Batch, tok \in [Sampled -> Vocab \cup {Eos}] :
          Sample(Forwarded(top), tok) /\ logits' = NewLogits(Forwarded(top))
    BY DEF Step
  <1> DEFINE r == Forwarded(top)
             a == Stamped(r, tok)
  <1>5. /\ rig' = close_all(a, Left(tok)) /\ logits' = NewLogits(r)
        /\ stream' = [q \in Requests |->
             IF Told(tok, q) /\ tok[ReqSlot(q)] # Eos
             THEN Append(stream[q], tok[ReqSlot(q)]) ELSE stream[q]]
        /\ slots' = [s \in Slots |->
             IF s \notin Sampled THEN slots[s]
             ELSE IF TokEnds(tok, s) THEN NoFlight
             ELSE [slots[s] EXCEPT !.produced = @ + 1]]
        /\ work' = [s \in Slots |->
             IF s \in Sampled /\ ~ TokEnds(tok, s)
             THEN [Drained[s] EXCEPT !.remaining = << tok[s] >>] ELSE Drained[s]]
    BY <1>4, SampleParts
  <1>6. Advanced(r, top)
    BY <1>1, <1>2, <1>3, ForwardAdvances
  <1> HIDE DEF r
  <1>7. RigOK(r) /\ Flying(r) /\ Spares(rig, r)
    BY <1>1, <1>6, CachedKeeps DEF Advanced
  <1>8. Held(r)
    BY <1>1, <1>2, <1>3, <1>6, AdvancedHeld
  <1>9. RigOK(a) /\ SamePlaces(r, a)
    BY <1>1, <1>7, StampedKeeps
  <1>10. Recorded(r, tok, a)
    BY <1>1, <1>7, StampedTokens
  <1> HIDE DEF a
  <1>11. Flying(a)
    <2>1. Spares(rig, a)
      BY <1>7, <1>9, SamePlacesSpare, SparesChain
    <2> QED BY <1>1, <2>1, SparesFly
  <1>12. /\ InFlight' = {s \in InFlight : ~ (s \in Sampled /\ TokEnds(tok, s))}
         /\ \A s \in InFlight' : /\ slots'[s].session = slots[s].session
                                 /\ slots'[s].req = slots[s].req
    BY <1>1, <1>5, StepFlights
  <1>13. ASSUME NEW s \in Slots
         PROVE  work'[s] = IF s \in Sampled /\ ~ TokEnds(tok, s)
                           THEN [remaining |-> << tok[s] >>, next_pos |-> EndPos(s)]
                           ELSE Drained[s]
    <2>1. Drained[s] = [remaining |-> Rest(s), next_pos |-> EndPos(s)]
      BY DEF Drained, EndPos
    <2> QED BY <1>5, <2>1
  <1>14. Stepped(r, top, tok, a)
    BY <1>5, <1>6, <1>7, <1>8, <1>9, <1>10, <1>11, <1>12, <1>13 DEF Stepped
  <1> QED BY <1>14

(* One step: every flight goes on with its own token. *)
LEMMA StepContext ==
  ASSUME EngineInv, ContextInv, Step
  PROVE  ContextInv'
  <1>1. RigOK(rig) /\ Flying(rig) /\ EngineTypes
    BY DEF EngineInv
  <1>2. engine = "running" /\ Batch # {} /\ ~ Overflow /\ graph' = Captured
    BY DEF Step, Stepping
  <1>3. Held(rig) /\ FeedInv /\ GraphInv
    BY <1>2 DEF ContextInv
  <1>0. PICK top \in Batch, tok \in [Sampled -> Vocab \cup {Eos}] : \E r, a : Stepped(r, top, tok, a)
    BY StepParts
  <1>4. PICK r, a : Stepped(r, top, tok, a)
    BY <1>0
  <1>5. /\ Advanced(r, top) /\ RigOK(r) /\ Held(r) /\ logits' = NewLogits(r)
        /\ Recorded(r, tok, a) /\ SamePlaces(r, a) /\ RigOK(a) /\ Flying(a)
        /\ rig' = close_all(a, Left(tok))
    BY <1>4 DEF Stepped
  <1>6. /\ InFlight' = {s \in InFlight : ~ (s \in Sampled /\ TokEnds(tok, s))}
        /\ \A s \in InFlight' : slots'[s].session = slots[s].session
        /\ \A s \in Slots : work'[s] = IF s \in Sampled /\ ~ TokEnds(tok, s)
                                       THEN [remaining |-> << tok[s] >>, next_pos |-> EndPos(s)]
                                       ELSE Drained[s]
    BY <1>4 DEF Stepped
  <1>7. r.sess = rig.sess /\ a.len = r.len
    BY <1>5 DEF Advanced, Cached, Recorded
  <1>8. Held(a)
    BY <1>1, <1>5, <1>7, StampedHeld
  <1>9. Sampled \subseteq InFlight /\ InFlight \subseteq Slots
    BY SampledFinite
  <1>10. Left(tok) \subseteq Busy /\ Busy \subseteq Ids
    BY <1>1, <1>9 DEF Left, Busy, Flying
  <1>11. Left(tok) \subseteq Live(a) /\ \A i \in Left(tok) : a.sess[i].residency = "Resident"
    BY <1>5, <1>10, BusyResident
  <1>12. HeldBut(a, Left(tok))
    BY <1>8 DEF Held, HeldBut
  <1>13. /\ Held(rig')
         /\ \A s \in Slots : (\A i \in Left(tok) : a.sess[i].slot # s) => rig'.len[s] = a.len[s]
    BY <1>5, <1>10, <1>11, <1>12, CloseAllHeld
  <1>14. \A i \in Ids \ Left(tok) : rig'.sess[i] = a.sess[i]
    BY <1>5, <1>11, CloseAllKeeps
  <1>15. ASSUME NEW s \in InFlight'
         PROVE  Feeding(work'[s], rig'.len[s], TokensOf(s)', logits'[s])
    <2> DEFINE i == slots[s].session
               ts == TokensOf(s)
    <2>1. s \in InFlight /\ s \in Slots /\ ~ (s \in Sampled /\ TokEnds(tok, s)) /\ slots'[s].session = i
      BY <1>6, <1>9, <1>15
    <2>2. i \in Ids /\ a.sess[i].slot = s
      BY <1>5, <2>1 DEF Flying
    <2>3. \A j \in Left(tok) : a.sess[j].slot # s
      <3> SUFFICES ASSUME NEW j \in Left(tok), a.sess[j].slot = s PROVE FALSE
        OBVIOUS
      <3>1. PICK t \in Sampled : TokGone(tok, t) /\ slots[t].session = j
        BY DEF Left
      <3>2. a.sess[j].slot = t
        BY <1>5, <1>9, <3>1 DEF Flying
      <3> QED BY <2>1, <3>1, <3>2 DEF TokEnds
    <2>4. rig'.len[s] = r.len[s] /\ rig'.sess[i] = a.sess[i]
      BY <1>7, <1>13, <1>14, <2>1, <2>2, <2>3
    <2>5. TokensOf(s)' = a.sess[i].tokens /\ ts = r.sess[i].tokens
      BY <1>7, <2>1, <2>4 DEF TokensOf
    <2>6. Feeding(Drained[s], r.len[s], ts, logits'[s])
      BY <1>1, <1>2, <1>3, <1>5, <2>1, AdvancedFeeds
    <2>7. CASE s \notin Sampled
      <3>1. \A t \in Sampled : slots[t].session # i
        BY <1>1, <1>9, <2>1, <2>7 DEF Flying
      <3>2. a.sess[i].tokens = r.sess[i].tokens
        BY <1>5, <2>2, <3>1 DEF Recorded
      <3>3. work'[s] = Drained[s]
        BY <1>6, <2>1, <2>7
      <3> QED BY <2>4, <2>5, <2>6, <3>2, <3>3
    <2>8. CASE s \in Sampled
      <3> DEFINE t == tok[s]
                 x == Append(ts, t)
                 n == Len(ts)
      <3>1. ~ TokEnds(tok, s) /\ Rest(s) = << >>
        BY <2>1, <2>8 DEF Sampled
      <3>2. t \in Tokens
        BY <2>8, <3>1 DEF TokEnds, Tokens
      <3>3. ts \in Seq(Tokens)
        BY <1>1, <1>3, <2>1, FlightHolds
      <3>4. a.sess[i].tokens = x
        BY <1>5, <2>5, <2>8, <3>1 DEF Recorded
      <3>5. /\ EndPos(s) \in Nat /\ EndPos(s) <= Len(ts)
            /\ Rest(s) = SubSeq(ts, EndPos(s) + 1, Len(ts))
        BY <1>1, <1>3, <2>1, TakeNext
      <3>6. EndPos(s) = n
        BY <3>1, <3>3, <3>5, NoRest
      <3>7. r.len[s] = n
        BY <1>1, <1>2, <1>3, <1>5, <2>1, <3>6, AdvancedHolds
      <3>8. work'[s].remaining = << t >> /\ work'[s].next_pos = n
        <4> DEFINE o == << t >>
        <4>1. work'[s] = [remaining |-> o, next_pos |-> EndPos(s)]
          BY <1>6, <2>1, <2>8, <3>1
        <4> HIDE DEF o, n
        <4>2. work'[s].remaining = o /\ work'[s].next_pos = EndPos(s)
          BY <4>1
        <4> QED BY <3>6, <4>2 DEF o
      <3>9. SubSeq(x, n + 1, Len(x)) = << t >> /\ << t >> # << >>
        <4>1. Len(<< t >>) = 1 /\ << t >> \in Seq(Tokens)
          BY <3>2, TuplesAt
        <4>2. << t >> # << >>
          BY <4>1, EmptySeq
        <4>3. SubSeq(x, n + 1, Len(x)) = << t >>
          BY <3>2, <3>3, LastIsRest
        <4> QED BY <4>2, <4>3
      <3>10. rig'.len[s] = n /\ TokensOf(s)' = x
        BY <2>4, <2>5, <3>4, <3>7
      <3> HIDE DEF x, n, t
      <3> QED BY <3>8, <3>9, <3>10 DEF Feeding
    <2> QED BY <2>7, <2>8
  <1>16. ASSUME NEW s \in Slots, s \notin InFlight'
         PROVE  work'[s].remaining = << >>
    <2>1. Drained[s].remaining = Rest(s)
      BY DEF Drained
    <2>2. CASE s \notin InFlight
      BY <1>3, <1>6, <1>9, <2>1, <2>2, BatchFlies
    <2>3. CASE s \in InFlight
      <3>1. s \in Sampled /\ TokEnds(tok, s)
        BY <1>6, <1>16, <2>3
      <3>2. Rest(s) = << >>
        BY <3>1 DEF Sampled
      <3> QED BY <1>6, <2>1, <3>1, <3>2
    <2> QED BY <2>2, <2>3
  <1>17. FeedInv'
    BY <1>15, <1>16 DEF FeedInv
  <1>18. GraphInv'
    BY <1>1, <1>2, <1>3, ReplayIsOwn DEF GraphInv
  <1> QED BY <1>13, <1>17, <1>18 DEF ContextInv

(* A token is sent only from the logits of all of its session's tokens. *)
EmitStep ==
  \A s \in InFlight :
    stream'[slots[s].req] # stream[slots[s].req] =>
      logits'[s].kv = TokensOf(s) /\ logits'[s].dn = TokensOf(s)

(* What a step sends was sampled from all of its session's tokens. *)
LEMMA StepEmits ==
  ASSUME EngineInv, ContextInv, Step
  PROVE  EmitStep
  <1>1. RigOK(rig) /\ Flying(rig) /\ EngineTypes /\ AnswerInv
    BY DEF EngineInv
  <1>2. engine = "running" /\ Batch # {} /\ ~ Overflow
    BY DEF Step, Stepping
  <1>3. Held(rig) /\ FeedInv /\ GraphInv
    BY <1>2 DEF ContextInv
  <1>0. PICK top \in Batch, tok \in [Sampled -> Vocab \cup {Eos}] : \E r, a : Stepped(r, top, tok, a)
    BY StepParts
  <1>4. PICK r, a : Stepped(r, top, tok, a)
    BY <1>0
  <1>5. /\ Advanced(r, top) /\ logits' = NewLogits(r)
        /\ stream' = [q \in Requests |->
             IF Told(tok, q) /\ tok[ReqSlot(q)] # Eos
             THEN Append(stream[q], tok[ReqSlot(q)]) ELSE stream[q]]
    BY <1>4 DEF Stepped
  <1>6. Sampled \subseteq InFlight
    BY SampledFinite
  <1>7. ASSUME NEW s \in InFlight, stream'[slots[s].req] # stream[slots[s].req]
        PROVE  logits'[s].kv = TokensOf(s) /\ logits'[s].dn = TokensOf(s)
    <2> DEFINE q == slots[s].req
    <2>1. q \in Requests
      BY <1>1 DEF EngineTypes
    <2>2. Told(tok, q)
      BY <1>5, <1>7, <2>1
    <2>3. PICK t \in Sampled : slots[t].req = q
      BY <2>2 DEF Told, Touched
    <2>4. t = s
      BY <1>1, <1>6, <2>3 DEF AnswerInv
    <2>5. Drained[s].remaining = << >>
      BY <2>3, <2>4 DEF Sampled, InFlight, Drained
    <2>6. Feeding(Drained[s], r.len[s], TokensOf(s), logits'[s])
      BY <1>1, <1>2, <1>3, <1>5, AdvancedFeeds
    <2> QED BY <2>5, <2>6 DEF Feeding
  <1> QED BY <1>7 DEF EmitStep

-----------------------------------------------------------------------------
(* The theorems *)

(* The engine starts with no session. *)
LEMMA InitContext ==
  ASSUME Init
  PROVE  ContextInv
  <1>1. /\ rig = InitRig /\ slots = [s \in Slots |-> NoFlight]
        /\ work = [s \in Slots |-> [remaining |-> << >>, next_pos |-> 0]]
        /\ graph = NoGraph
    BY DEF Init
  <1>2. /\ DOMAIN rig.arena = 0 .. NSlots * SlabCap - 1 /\ DOMAIN rig.dn = Slots
        /\ rig.sess = [i \in Ids |-> NoSession] /\ rig.snaps = [i \in Ids |-> NoSnap]
    BY <1>1 DEF InitRig
  <1>3. \A i \in Ids : rig.sess[i].residency # "Resident" /\ ~ rig.snaps[i].present
    BY <1>2 DEF NoSession, NoSnap
  <1>4. Held(rig)
    BY <1>2, <1>3 DEF Held, HeldBut
  <1>5. InFlight = {}
    BY <1>1 DEF InFlight, NoFlight
  <1>6. FeedInv
    BY <1>1, <1>5 DEF FeedInv
  <1>7. GraphInv
    BY <1>1 DEF GraphInv, NoGraph
  <1> QED BY <1>4, <1>6, <1>7 DEF ContextInv

(* Every step within the slabs keeps the context. *)
LEMMA NextContext ==
  ASSUME EngineInv, EngineInv', ContextInv, Within, [Next]_vars
  PROVE  ContextInv'
  <1>1. CASE admit
    BY <1>1, AdmitContext
  <1>2. CASE ForwardOverflows
    BY <1>2 DEF ForwardOverflows, Stepping, Within
  <1>3. CASE ForwardFails
    <2>1. ~ Overflow
      BY <1>3 DEF ForwardFails, Stepping, Within
    <2> QED BY <1>3, <2>1, ForwardFailsContext
  <1>4. CASE SampleFails
    BY <1>4, SampleFailsContext
  <1>5. CASE Step
    BY <1>5, StepContext
  <1>6. CASE Panic \/ Exit \/ DropEngine \/ UNCHANGED vars \/ \E q \in Requests : Client(q)
    BY <1>6, IdleContext
  <1> QED BY <1>1, <1>2, <1>3, <1>4, <1>5, <1>6 DEF Next, Engine

(* No other handler sends a token. *)
LEMMA NextEmits ==
  ASSUME EngineInv, ContextInv, [Next]_vars
  PROVE  EmitStep
  <1>1. CASE Step
    BY <1>1, StepEmits
  <1>2. CASE ~ Step
    <2>1. CASE admit
      BY <2>1 DEF admit, EmitStep
    <2>2. CASE Panic \/ SampleFails \/ Exit
      BY <2>2 DEF Panic, SampleFails, Exit, EmitStep
    <2>3. CASE ForwardOverflows \/ ForwardFails
      <3>1. stream' = stream
        BY <2>3 DEF ForwardOverflows, ForwardFails, FailInFlight
      <3> QED BY <3>1 DEF EmitStep
    <2>4. CASE DropEngine \/ UNCHANGED vars
      BY <2>4 DEF DropEngine, vars, engineVars, EmitStep
    <2>5. ASSUME NEW q \in Requests, Client(q)
          PROVE  stream' = stream
      BY <2>5 DEF Client, Submit, Vanish, Return, engineVars
    <2> QED BY <1>2, <2>1, <2>2, <2>3, <2>4, <2>5 DEF Next, Engine, EmitStep
  <1> QED BY <1>1, <1>2

(* As long as no step runs past a slab's end, ContextInv holds: whatever   *)
(* admit, evict, restore and run_loop's steps do, failures included.       *)
THEOREM ContextInvariant == Spec /\ []Within => []ContextInv
  <1>1. Init => ContextInv
    BY InitContext
  <1>2. EngineInv /\ EngineInv' /\ ContextInv /\ Within /\ [Next]_vars => ContextInv'
    BY NextContext
  <1> QED BY <1>1, <1>2, EngineInvariant, PTL DEF Spec

(* What the invariant says of a session's slot. *)
LEMMA FaithfulContext ==
  ASSUME EngineInv, ContextInv
  PROVE  ContextFaithful
  <1>1. RigOK(rig) /\ Flying(rig) /\ EngineTypes /\ RigTypes(rig)
    BY DEF EngineInv, RigOK
  <1>2. Held(rig) /\ DOMAIN rig.arena = 0 .. NSlots * SlabCap - 1
    BY DEF ContextInv, Held, HeldBut
  <1>3. ASSUME engine = "running", NEW i \in Live(rig), rig.sess[i].residency = "Resident"
        PROVE  LET s == rig.sess[i].slot
               IN  /\ Caches(ReadSlab(rig, s, rig.len[s]), rig.dn[s], rig.sess[i].tokens)
                   /\ slots[s].session = i =>
                        /\ work[s].next_pos = rig.len[s]
                        /\ rig.sess[i].tokens =
                             SubSeq(rig.sess[i].tokens, 1, rig.len[s]) \o work[s].remaining
    <2> DEFINE s == rig.sess[i].slot
               ts == rig.sess[i].tokens
               n == rig.len[s]
    <2>1. i \in Ids /\ s \in Slots /\ ts \in Seq(Tokens) /\ n \in 0 .. SlabCap
      BY <1>1, <1>3, OtherSlot DEF Live
    <2>2. SlotHolds(rig, s, ts)
      BY <1>2, <1>3, <2>1 DEF Held, HeldBut
    <2>3. n <= Len(ts) /\ n \in Nat
      BY <2>1, <2>2, Consts DEF SlotHolds
    <2> HIDE DEF s, ts, n
    <2>4. Caches(ReadSlab(rig, s, rig.len[s]), rig.dn[s], ts)
      BY <1>1, <1>2, <2>1, <2>2, HoldsReads
    <2>5. ASSUME slots[s].session = i
          PROVE  work[s].next_pos = n /\ ts = SubSeq(ts, 1, n) \o work[s].remaining
      <3>1. s \in InFlight /\ TokensOf(s) = ts
        BY <2>1, <2>5, Numbers DEF InFlight, TokensOf, ts
      <3>2. Feeding(work[s], n, ts, logits[s])
        BY <1>3, <3>1 DEF ContextInv, FeedInv, n
      <3> DEFINE x == SubSeq(ts, n + 1, Len(ts))
      <3>3. /\ x \in Seq(Tokens) /\ Len(x) = Len(ts) - n
            /\ \A k \in 1 .. Len(ts) - n : x[k] = ts[n + k]
        BY <2>1, <2>3, RestAt
      <3>4. work[s].next_pos = n /\ work[s].remaining = x
        BY <3>2 DEF Feeding
      <3> HIDE DEF x
      <3>5. n + Len(x) <= Len(ts) /\ n + Len(x) = Len(ts) /\ Len(ts) \in Nat
        BY <2>1, <2>3, <3>3, LenProperties
      <3>6. SubSeq(ts, 1, n) \o x = SubSeq(ts, 1, n + Len(x))
        BY <2>1, <2>3, <3>3, <3>5, PrefixGrows
      <3>7. SubSeq(ts, 1, n) \o x = ts
        BY <2>1, <3>5, <3>6, WholePrefix
      <3> QED BY <3>4, <3>7
    <2> QED BY <2>4, <2>5 DEF s, ts, n
  <1> QED BY <1>3 DEF ContextFaithful

(* As long as no step runs past a slab's end, a resident session's slot    *)
(* holds KV and recurrent state of one prefix of its own tokens, and what  *)
(* it has yet to feed is the rest (serve_engine.rs, swap/mod.rs).          *)
THEOREM ContextFaithfulHolds == Spec /\ []Within => []ContextFaithful
  <1>1. EngineInv /\ ContextInv => ContextFaithful
    BY FaithfulContext
  <1> QED BY <1>1, EngineInvariant, ContextInvariant, PTL

(* Likewise exactly the Swapped sessions have a snapshot, and it is of     *)
(* their own tokens: what restore brings back is what evict took away.     *)
THEOREM SnapshotFaithfulHolds == Spec /\ []Within => []SnapshotFaithful
  <1>1. EngineInv /\ ContextInv => SnapshotFaithful
    BY DEF EngineInv, RigOK, Snapped, ContextInv, Held, HeldBut, SnapshotFaithful
  <1> QED BY <1>1, EngineInvariant, ContextInvariant, PTL

(* And a token is sent to a client only from logits computed over exactly  *)
(* the tokens of its own session (run_loop's sampling loop).               *)
THEOREM EmitsFromOwnContextHolds == Spec /\ []Within => EmitsFromOwnContext
  <1>1. EngineInv /\ ContextInv /\ [Next]_vars => [EmitStep]_vars
    BY NextEmits
  <1>2. [EmitStep]_vars =>
          [\A s \in InFlight :
             stream'[slots[s].req] # stream[slots[s].req] =>
               LET tokens == rig.sess[slots[s].session].tokens
               IN  logits'[s].kv = tokens /\ logits'[s].dn = tokens]_vars
    BY DEF EmitStep, TokensOf
  <1> QED BY <1>1, <1>2, EngineInvariant, ContextInvariant, PTL DEF Spec, EmitsFromOwnContext

-----------------------------------------------------------------------------
(* Conversations that fit their slabs.  W[q] bounds the tokens a session   *)
(* has when the turn of request q is over: a cold turn is the prompt and   *)
(* the reply, a continued one adds to what the turn before may have left.  *)
(* The last token of a reply is sent and not fed, hence the - 1.           *)

Roomy(W) ==
  /\ W \in [Requests -> 0 .. SlabCap]
  /\ \A q \in Requests : Len(Prompt[q]) + Limit(q) - 1 <= W[q]
  /\ \A p, q \in Requests :
       Continuation[q] # << >> /\ Convo[p] = SubSeq(Convo[q], 1, Len(Convo[q]) - 1) =>
         W[p] + Len(Continuation[q]) + Limit(q) - 1 <= W[q]

ConversationsFit == \E W : Roomy(W)

(* Every session's tokens are within the bound of the turn it is at. *)
Bounded(r, W) ==
  \A i \in Ids : r.sess[i].tokens # << >> =>
    \E p \in Requests : r.sess[i].convo = Convo[p] /\ Len(r.sess[i].tokens) <= W[p]

(* A session with tokens ts has room for the rest of request q's reply. *)
RoomLeft(ts, q, made, W) ==
  /\ q \in Requests /\ made < Limit(q)
  /\ Len(ts) + Limit(q) <= W[q] + made + 1

Replying(W) ==
  \A s \in InFlight : /\ rig.sess[slots[s].session].convo = Convo[slots[s].req]
                      /\ RoomLeft(TokensOf(s), slots[s].req, slots[s].produced, W)

RoomInv(W) == Bounded(rig, W) /\ Replying(W)

(* From r to e, session i keeps its tokens and its place in the conversation. *)
SameText(r, e, i) ==
  e.sess[i].tokens = r.sess[i].tokens /\ e.sess[i].convo = r.sess[i].convo

(* mark_swapped and mark_cold keep them. *)
LEMMA MarkedText ==
  ASSUME NEW x, DOMAIN x = Fields, NEW v \in Ids, x.sess \in [Ids -> Sessions], NEW res,
         NEW e, e = Marked(x, v, res)
  PROVE  \A i \in Ids : SameText(x, e, i)
  <1> DEFINE s == x.sess[v].slot
             y == IF s = NoSlot THEN x ELSE pool_release(x, s)
             z == give_up_slot(x, v)
             a == x.sess[v]
             b == [a EXCEPT !.slot = NoSlot]
             c == [b EXCEPT !.residency = res]
  <1>1. DOMAIN y = Fields /\ y.sess = x.sess
    BY DEF pool_release, Fields
  <1>2. z = [y EXCEPT !.sess[v].slot = NoSlot]
    BY DEF give_up_slot
  <1> HIDE DEF y
  <1>3. DOMAIN z = Fields /\ z.sess = [x.sess EXCEPT ![v] = b]
    BY <1>1, <1>2 DEF Fields
  <1>4. e = [z EXCEPT !.sess[v].residency = res]
    BY DEF Marked
  <1> HIDE DEF z
  <1>5. e.sess = [z.sess EXCEPT ![v].residency = res]
    BY <1>3, <1>4 DEF Fields
  <1>6. c.tokens = a.tokens /\ c.convo = a.convo
    BY DEF Sessions
  <1> HIDE DEF b
  <1>7. e.sess = [z.sess EXCEPT ![v] = c] /\ z.sess[v] = b
    BY <1>3, <1>5
  <1> HIDE DEF c
  <1>8. e.sess[v] = c /\ \A i \in Ids \ {v} : e.sess[i] = x.sess[i]
    BY <1>3, <1>7
  <1> QED BY <1>6, <1>8 DEF SameText

(* An eviction keeps them. *)
LEMMA EvictText ==
  ASSUME NEW r, RigOK(r), NEW v \in Ids, NEW o \in EvictOutcomes, NEW e, e = evict(r, v, o)
  PROVE  \A i \in Ids : SameText(r, e, i)
  <1> DEFINE x(c) == [r EXCEPT !.snaps[v] = c]
             cap == capture_slot(r, r.sess[v].slot)
  <1>1. DOMAIN r = Fields /\ r.sess \in [Ids -> Sessions]
    BY DEF RigOK, RigTypes
  <1>2. \A c : DOMAIN x(c) = Fields /\ x(c).sess = r.sess
    BY <1>1 DEF Fields
  <1>3. \/ e = Marked(x(cap), v, "Swapped") \/ e = Marked(x(NoSnap), v, "Cold")
        \/ e = Marked(r, v, "Cold")
    BY DEF evict, mark_swapped, mark_cold, Marked, EvictOutcomes
  <1> HIDE DEF x, cap
  <1>4. PICK y, res : e = Marked(y, v, res) /\ DOMAIN y = Fields /\ y.sess = r.sess
    BY <1>1, <1>2, <1>3
  <1>5. \A i \in Ids : SameText(y, e, i)
    BY <1>1, <1>4, MarkedText
  <1> QED BY <1>4, <1>5 DEF SameText

(* acquire, restore_slot and pool_release leave the sessions alone. *)
LEMMA RestoreText ==
  ASSUME NEW r, RigOK(r), NEW id \in Ids, NEW s, NEW o \in RestoreOutcomes,
         NEW x, x = restore(acquire(r), id, s, o), NEW e, e \in {x, pool_release(x, s)}
  PROVE  \A i \in Ids : SameText(r, e, i)
  <1> DEFINE g == acquire(r)
             snap == g.snaps[id]
             taken == [g EXCEPT !.snaps[id] = NoSnap]
             ok == restore_slot(taken, s, snap)
             bad == restore_slot_fails(taken, s, snap)
  <1>1. DOMAIN r = Fields /\ r.sess \in [Ids -> Sessions]
    BY DEF RigOK, RigTypes
  <1>2. DOMAIN g = Fields /\ g.sess = r.sess
    BY <1>1 DEF acquire, Fields
  <1>3. x = CASE o = "unpark_failed" \/ ~ snap.present -> mark_cold(taken, id)
              [] o = "copy_failed" /\ snap.present -> mark_cold(bad, id)
              [] o = "ok" /\ snap.present -> mark_resident(ok, id, s)
    BY DEF restore
  <1> HIDE DEF g
  <1>4. DOMAIN taken = Fields /\ taken.sess = r.sess
    BY <1>2 DEF Fields
  <1> HIDE DEF taken, snap
  <1>5. DOMAIN ok = Fields /\ ok.sess = r.sess /\ DOMAIN bad = Fields /\ bad.sess = r.sess
    BY <1>4 DEF Fields, restore_slot, restore_slot_fails
  <1> HIDE DEF ok, bad
  <1>6. (DOMAIN x = Fields /\ \A i \in Ids : SameText(r, x, i)) \/ x = mark_resident(ok, id, s)
    <2>1. \A y : mark_cold(y, id) = Marked(y, id, "Cold")
      BY DEF mark_cold, Marked
    <2>2. x \in {Marked(taken, id, "Cold"), Marked(bad, id, "Cold")} \/ x = mark_resident(ok, id, s)
      BY <1>3, <2>1 DEF RestoreOutcomes
    <2>3. ASSUME NEW y, DOMAIN y = Fields, y.sess = r.sess, x = Marked(y, id, "Cold")
          PROVE  DOMAIN x = Fields /\ \A i \in Ids : SameText(r, x, i)
      <3>1. DOMAIN x = Fields
        BY <2>3 DEF Marked, give_up_slot, pool_release, Fields
      <3>2. \A i \in Ids : SameText(y, x, i)
        BY <1>1, <2>3, MarkedText
      <3> QED BY <2>3, <3>1, <3>2 DEF SameText
    <2> QED BY <1>4, <1>5, <2>2, <2>3
  <1>7. ASSUME x = mark_resident(ok, id, s)
        PROVE  DOMAIN x = Fields /\ \A i \in Ids : SameText(r, x, i)
    <2> DEFINE t == touch(ok, id)
               a == r.sess[id]
               b == [a EXCEPT !.last_used = ok.clock + 1]
               c == [b EXCEPT !.slot = s]
               d == [c EXCEPT !.residency = "Resident"]
    <2>1. DOMAIN t = Fields /\ t.sess = [r.sess EXCEPT ![id] = b]
      BY <1>1, <1>5 DEF touch, Fields
    <2>2. x = [t EXCEPT !.sess[id].slot = s, !.sess[id].residency = "Resident"]
      BY <1>7 DEF mark_resident
    <2> HIDE DEF t
    <2>3. d.tokens = a.tokens /\ d.convo = a.convo
      BY <1>1 DEF Sessions
    <2> HIDE DEF b
    <2>4. t.sess[id] = b /\ \A i \in Ids \ {id} : t.sess[i] = r.sess[i]
      BY <1>1, <2>1
    <2>5. DOMAIN x = Fields
          /\ x.sess = [[t.sess EXCEPT ![id].slot = s] EXCEPT ![id].residency = "Resident"]
      BY <2>1, <2>2 DEF Fields
    <2>6. DOMAIN t.sess = Ids
      BY <1>1, <2>1
    <2>7. x.sess[id] = d /\ \A i \in Ids \ {id} : x.sess[i] = r.sess[i]
      BY <2>4, <2>5, <2>6
    <2> QED BY <2>3, <2>5, <2>7 DEF SameText
  <1>8. DOMAIN x = Fields /\ \A i \in Ids : SameText(r, x, i)
    BY <1>6, <1>7
  <1>9. pool_release(x, s).sess = x.sess
    BY <1>8 DEF pool_release, Fields
  <1> QED BY <1>8, <1>9 DEF SameText

(* make_room keeps them. *)
LEMMA MakeRoomText ==
  ASSUME NEW r, RigOK(r), NEW o \in EvictOutcomes, NEW e, e = make_room(r, o)
  PROVE  \A i \in Ids : SameText(r, e, i)
  <1> DEFINE v == lru_idle_victim(r, Busy)
  <1>1. CASE free_slots(r) = {} /\ v # NoId
    <2>1. e = evict(r, v, o) /\ RigTypes(r)
      BY <1>1 DEF make_room, RigOK
    <2>2. v \in Ids
      BY <1>1, <2>1, Victim DEF Live
    <2> HIDE DEF v
    <2> QED BY <2>1, <2>2, EvictText
  <1>2. CASE ~ (free_slots(r) = {} /\ v # NoId)
    <2>1. e = r
      BY <1>2 DEF make_room
    <2> QED BY <2>1 DEF SameText
  <1> QED BY <1>1, <1>2

(* resume keeps them, and what it continues is at the turn before.  *)
LEMMA ResumeText ==
  ASSUME RigOK(rig), Flying(rig), NEW q \in Requests, NEW o \in AdmitOutcomes,
         NEW c, c = resume(q, o)
  PROVE  /\ \A i \in Ids : SameText(rig, c.rig, i)
         /\ c.slot # NoSlot =>
              /\ Continuation[q] # << >> /\ rig.sess[c.id].tokens # << >>
              /\ rig.sess[c.id].convo = SubSeq(Convo[q], 1, Len(Convo[q]) - 1)
  <1> DEFINE id == IF Continuation[q] = << >> THEN NoId
                   ELSE find_continuation(rig, Convo[q], Busy)
             r1 == make_room(rig, o.evict1)
             s  == Min(free_slots(r1))
             r2 == restore(acquire(r1), id, s, o.restore)
  <1>1. o.evict1 \in EvictOutcomes /\ o.restore \in RestoreOutcomes
    BY DEF AdmitOutcomes
  <1>2. c = IF id = NoId THEN [id |-> NoId, slot |-> NoSlot, rig |-> rig]
            ELSE IF rig.sess[id].slot # NoSlot
                 THEN [id |-> id, slot |-> rig.sess[id].slot, rig |-> rig]
            ELSE IF free_slots(r1) = {} THEN [id |-> id, slot |-> NoSlot, rig |-> r1]
            ELSE IF r2.sess[id].residency = "Resident" THEN [id |-> id, slot |-> s, rig |-> r2]
            ELSE [id |-> id, slot |-> NoSlot, rig |-> pool_release(r2, s)]
    BY DEF resume
  <1>3. RigTypes(rig)
    BY DEF RigOK
  <1>4. \/ id = NoId
        \/ /\ id \in Live(rig) /\ rig.sess[id].tokens # << >> /\ Continuation[q] # << >>
           /\ rig.sess[id].convo = SubSeq(Convo[q], 1, Len(Convo[q]) - 1)
    BY <1>3, Continues
  <1>5. RigOK(r1) /\ \A i \in Ids : SameText(rig, r1, i)
    BY <1>1, MakeRoomKeeps, MakeRoomText
  <1>6. \A i \in Ids : SameText(rig, rig, i)
    BY DEF SameText
  <1> HIDE DEF id, r1
  <1>7. c.slot # NoSlot => id # NoId /\ c.id = id
    BY <1>2
  <1>8. id # NoId => id \in Ids
    BY <1>4 DEF Live
  <1>9. id # NoId => \A e \in {r2, pool_release(r2, s)} : \A i \in Ids : SameText(r1, e, i)
    <2>1. r2 = restore(acquire(r1), id, s, o.restore)
      OBVIOUS
    <2> HIDE DEF r2, s
    <2> QED BY <1>1, <1>5, <1>8, <2>1, RestoreText
  <1> HIDE DEF r2, s
  <1>10. \/ c.rig \in {rig, r1}
         \/ id # NoId /\ c.rig \in {r2, pool_release(r2, s)}
    BY <1>2
  <1>11. \A i \in Ids : SameText(rig, c.rig, i)
    BY <1>5, <1>6, <1>9, <1>10 DEF SameText
  <1> QED BY <1>4, <1>7, <1>11

(* A reply has at least one token. *)
LEMMA LimitType ==
  ASSUME NEW q \in Requests
  PROVE  Limit(q) \in Nat /\ Limit(q) >= 1
  BY RequestAssumption DEF RequestAssumption, Limit

(* begin_turn gives its session the tokens and the turn. *)
LEMMA BeginText ==
  ASSUME NEW r, RigOK(r), NEW id \in Ids, NEW prompt, NEW convo,
         NEW x, x = begin_turn(r, id, prompt, convo)
  PROVE  /\ x.rig.sess[id].tokens = prompt /\ x.rig.sess[id].convo = convo
         /\ \A i \in Ids \ {id} : SameText(r, x.rig, i)
  <1> DEFINE n == plan_turn(r.sess[id].tokens, r.len[r.sess[id].slot], prompt)
             y == set_seq_len(r, r.sess[id].slot, n)
             a == r.sess[id]
             b == [[a EXCEPT !.tokens = prompt] EXCEPT !.convo = convo]
  <1>1. DOMAIN r = Fields /\ r.sess \in [Ids -> Sessions]
    BY DEF RigOK, RigTypes
  <1>2. x.rig = [y EXCEPT !.sess[id].tokens = prompt, !.sess[id].convo = convo]
    BY DEF begin_turn
  <1> HIDE DEF n
  <1>3. DOMAIN y = Fields /\ y.sess = r.sess
    BY <1>1 DEF set_seq_len, Fields
  <1> HIDE DEF y
  <1>4. x.rig.sess = [[r.sess EXCEPT ![id].tokens = prompt] EXCEPT ![id].convo = convo]
    BY <1>2, <1>3 DEF Fields
  <1>5. b.tokens = prompt /\ b.convo = convo
    BY <1>1 DEF Sessions
  <1>6. x.rig.sess[id] = b /\ \A i \in Ids \ {id} : x.rig.sess[i] = r.sess[i]
    BY <1>1, <1>4
  <1> QED BY <1>5, <1>6 DEF SameText

(* touch keeps tokens and turn. *)
LEMMA TouchText ==
  ASSUME NEW r, RigOK(r), NEW id \in Ids, NEW e, e = touch(r, id)
  PROVE  \A i \in Ids : SameText(r, e, i)
  <1> DEFINE a == r.sess[id]
             b == [a EXCEPT !.last_used = r.clock + 1]
  <1>1. DOMAIN r = Fields /\ r.sess \in [Ids -> Sessions]
    BY DEF RigOK, RigTypes
  <1>2. e.sess = [r.sess EXCEPT ![id] = b]
    BY <1>1 DEF touch, Fields
  <1>3. b.tokens = a.tokens /\ b.convo = a.convo
    BY <1>1 DEF Sessions
  <1> HIDE DEF b
  <1>4. e.sess[id] = b /\ \A i \in Ids \ {id} : e.sess[i] = r.sess[i]
    BY <1>1, <1>2
  <1> QED BY <1>3, <1>4 DEF SameText

(* A closed session has no tokens. *)
LEMMA CloseText ==
  ASSUME NEW r, RigOK(r), NEW id \in Ids, r.sess[id].residency = "Resident",
         NEW e, e = close(r, id)
  PROVE  e.sess[id].tokens = << >> /\ \A i \in Ids \ {id} : SameText(r, e, i)
  <1> DEFINE s == r.sess[id].slot
             y == IF s = NoSlot THEN r ELSE pool_release(r, s)
             z == [y EXCEPT !.sess[id] = NoSession]
  <1>1. DOMAIN r = Fields /\ r.sess \in [Ids -> Sessions]
    BY DEF RigOK, RigTypes
  <1>2. e = adm_release(z)
    BY DEF close
  <1>3. DOMAIN y = Fields /\ y.sess = r.sess
    BY <1>1 DEF pool_release, Fields
  <1> HIDE DEF y
  <1>4. DOMAIN z = Fields /\ z.sess = [r.sess EXCEPT ![id] = NoSession]
    BY <1>3 DEF Fields
  <1> HIDE DEF z
  <1>5. e.sess = z.sess
    BY <1>2, <1>4 DEF adm_release, Fields
  <1>6. e.sess[id] = NoSession /\ \A i \in Ids \ {id} : e.sess[i] = r.sess[i]
    BY <1>1, <1>4, <1>5
  <1> QED BY <1>6 DEF SameText, NoSession

(* open keeps tokens and turn of every other session. *)
LEMMA OpenText ==
  ASSUME NEW r, RigOK(r), r.next_id < MaxSessions, NEW x, x = open(r)
  PROVE  \/ x.id = NoId /\ \A i \in Ids : SameText(r, x.rig, i)
         \/ x.id \in Ids /\ \A i \in Ids \ {x.id} : SameText(r, x.rig, i)
  BY OpenKeeps DEF SameText

(* What admit does to tokens and turns: at most one idle session changes,  *)
(* and it is left without tokens or with room for the reply to q.          *)
Spoken(q, W) ==
  \/ slots' = slots /\ \A i \in Ids : SameText(rig, rig', i)
  \/ \E k \in Ids \ Busy :
       /\ \A i \in Ids \ {k} : SameText(rig, rig', i)
       /\ \/ slots' = slots /\ rig'.sess[k].tokens = << >>
          \/ /\ rig'.sess[k].convo = Convo[q] /\ RoomLeft(rig'.sess[k].tokens, q, 0, W)
             /\ \/ slots' = slots
                \/ \E s \in Slots :
                     slots' = [slots EXCEPT ![s] = [session |-> k, req |-> q, produced |-> 0]]

(* A continued session has room for the continuation and the reply. *)
LEMMA ContinueText ==
  ASSUME RigOK(rig), Flying(rig), NEW W, Roomy(W), Bounded(rig, W), NEW q \in Requests, NEW c,
         NEW g, g = c.rig, NEW k, k = c.id, RigOK(g), k \in Ids \ Busy,
         g.sess[k].slot = c.slot, c.slot \in Slots,
         \A i \in Ids : SameText(rig, g, i), Continuation[q] # << >>,
         rig.sess[k].tokens # << >>,
         rig.sess[k].convo = SubSeq(Convo[q], 1, Len(Convo[q]) - 1),
         ContinueTurn(q, c)
  PROVE  Spoken(q, W)
  <1> DEFINE a == rig.sess[k].tokens
             x == a \o Continuation[q]
             turn == begin_turn(g, k, x, Convo[q])
  <1>1. a = g.sess[k].tokens
    BY DEF SameText
  <1>2. IF Gone(q)
        THEN rig' = turn.rig /\ slots' = slots
        ELSE rig' = touch(turn.rig, k) /\ StartTurn(q, k, c.slot, x, turn.reused)
    BY <1>1 DEF ContinueTurn
  <1>3. a \in Seq(Tokens) /\ Continuation[q] \in Seq(Tokens) /\ Convo[q] \in Histories
    BY Texts DEF RigOK, RigTypes, Sessions
  <1>4. x \in Seq(Tokens) /\ Len(x) = Len(a) + Len(Continuation[q])
    BY <1>3, ConcatProperties
  <1>5. RoomLeft(x, q, 0, W)
    <2>1. PICK p \in Requests : rig.sess[k].convo = Convo[p] /\ Len(a) <= W[p]
      BY DEF Bounded
    <2>2. W[p] + Len(Continuation[q]) + Limit(q) - 1 <= W[q]
      BY <2>1 DEF Roomy
    <2>3. /\ W[p] \in Nat /\ W[q] \in Nat /\ Limit(q) \in Nat /\ Limit(q) >= 1
          /\ Len(a) \in Nat /\ Len(Continuation[q]) \in Nat
      <3>1. W \in [Requests -> 0 .. SlabCap]
        BY DEF Roomy
      <3> QED BY <1>3, <3>1, LimitType, LenProperties, Consts
    <2> HIDE DEF x, a
    <2>4. Len(x) + Limit(q) <= W[q] + 0 + 1
      BY <1>4, <2>1, <2>2, <2>3
    <2> QED BY <2>3, <2>4 DEF RoomLeft
  <1> HIDE DEF x, a
  <1>6. RigOK(turn.rig)
    BY <1>3, <1>4, BeginKeeps
  <1>7. /\ turn.rig.sess[k].tokens = x /\ turn.rig.sess[k].convo = Convo[q]
        /\ \A i \in Ids \ {k} : SameText(g, turn.rig, i)
    BY BeginText
  <1> HIDE DEF turn
  <1>8. \A i \in Ids : SameText(turn.rig, rig', i)
    <2>1. CASE Gone(q)
      BY <1>2, <2>1 DEF SameText
    <2>2. CASE ~ Gone(q)
      BY <1>2, <1>6, <2>2, TouchText
    <2> QED BY <2>1, <2>2
  <1>9. /\ rig'.sess[k].tokens = x /\ rig'.sess[k].convo = Convo[q]
        /\ \A i \in Ids \ {k} : SameText(rig, rig', i)
    BY <1>7, <1>8 DEF SameText
  <1>10. \/ slots' = slots
         \/ slots' = [slots EXCEPT ![c.slot] = [session |-> k, req |-> q, produced |-> 0]]
    BY <1>2 DEF StartTurn
  <1>11. /\ \A i \in Ids \ {k} : SameText(rig, rig', i)
         /\ rig'.sess[k].convo = Convo[q] /\ RoomLeft(rig'.sess[k].tokens, q, 0, W)
         /\ \/ slots' = slots
            \/ \E s \in Slots :
                 slots' = [slots EXCEPT ![s] = [session |-> k, req |-> q, produced |-> 0]]
    BY <1>5, <1>9, <1>10
  <1>12. k \in Ids \ Busy
    OBVIOUS
  <1> QED BY ONLY <1>11, <1>12 DEF Spoken

(* A new session has room for its prompt and the reply. *)
LEMMA ColdText ==
  ASSUME RigOK(rig), Flying(rig), NEW W, Roomy(W), NEW q \in Requests, NEW x, NEW o,
         NEW g, g = x.rig, NEW k, k = x.id, RigOK(g), k \in Ids \ Busy,
         g.sess[k].slot \in Slots, g.sess[k].residency = "Resident",
         \A i \in Ids \ {k} : SameText(rig, g, i),
         ColdTurn(q, x, o)
  PROVE  Spoken(q, W)
  <1> DEFINE s == g.sess[k].slot
             d == Reset(g, s, << >>)
             j == Reset(g, s, << "junk" >>)
             p == Prompt[q]
             turn == begin_turn(d, k, p, Convo[q])
  <1>1. IF o.reset # "ok"
        THEN rig' = close(j, k) /\ slots' = slots
        ELSE IF Gone(q)
             THEN rig' = close(turn.rig, k) /\ slots' = slots
             ELSE rig' = turn.rig /\ StartTurn(q, k, s, p, turn.reused)
    BY DEF ColdTurn, Reset
  <1>2. RigOK(d) /\ RigOK(j) /\ d.sess = g.sess /\ j.sess = g.sess
    BY ResetKeeps
  <1>3. p \in Seq(Tokens) /\ Convo[q] \in Histories
    BY Texts
  <1>4. RoomLeft(p, q, 0, W)
    <2>1. Len(p) + Limit(q) - 1 <= W[q]
      BY DEF Roomy
    <2>2. W[q] \in Nat /\ Limit(q) \in Nat /\ Limit(q) >= 1 /\ Len(p) \in Nat
      <3>1. W \in [Requests -> 0 .. SlabCap]
        BY DEF Roomy
      <3> QED BY <1>3, <3>1, LimitType, LenProperties, Consts
    <2> HIDE DEF p
    <2>3. Len(p) + Limit(q) <= W[q] + 0 + 1
      BY <2>1, <2>2
    <2> QED BY <2>2, <2>3 DEF RoomLeft
  <1> HIDE DEF d, j, p
  <1>5. RigOK(turn.rig) /\ SamePlaces(d, turn.rig)
    <2>1. d.sess[k].slot \in Slots
      BY <1>2
    <2> QED BY <1>2, <1>3, <2>1, BeginKeeps
  <1>6. /\ turn.rig.sess[k].tokens = p /\ turn.rig.sess[k].convo = Convo[q]
        /\ \A i \in Ids \ {k} : SameText(d, turn.rig, i)
    BY <1>2, BeginText
  <1> HIDE DEF turn
  <1>7. turn.rig.sess[k].residency = "Resident" /\ j.sess[k].residency = "Resident"
    BY <1>2, <1>5 DEF SamePlaces
  <1>8. CASE rig' = close(j, k) /\ slots' = slots
    <2>1. rig'.sess[k].tokens = << >> /\ \A i \in Ids \ {k} : SameText(j, rig', i)
      BY <1>2, <1>7, <1>8, CloseText
    <2>2. \A i \in Ids \ {k} : SameText(rig, rig', i)
      BY <1>2, <2>1 DEF SameText
    <2> QED BY <1>8, <2>1, <2>2 DEF Spoken
  <1>9. CASE rig' = close(turn.rig, k) /\ slots' = slots
    <2>1. rig'.sess[k].tokens = << >> /\ \A i \in Ids \ {k} : SameText(turn.rig, rig', i)
      BY <1>5, <1>7, <1>9, CloseText
    <2>2. \A i \in Ids \ {k} : SameText(rig, rig', i)
      BY <1>2, <1>6, <2>1 DEF SameText
    <2> QED BY <1>9, <2>1, <2>2 DEF Spoken
  <1>10. CASE rig' = turn.rig /\ StartTurn(q, k, s, p, turn.reused)
    <2>1. \A i \in Ids \ {k} : SameText(rig, rig', i)
      BY <1>2, <1>6, <1>10 DEF SameText
    <2>2. slots' = [slots EXCEPT ![s] = [session |-> k, req |-> q, produced |-> 0]] /\ s \in Slots
      BY <1>10 DEF StartTurn
    <2>3. rig'.sess[k].convo = Convo[q] /\ RoomLeft(rig'.sess[k].tokens, q, 0, W)
      BY <1>4, <1>6, <1>10
    <2> HIDE DEF s
    <2> QED BY <2>1, <2>2, <2>3 DEF Spoken
  <1> QED BY <1>1, <1>8, <1>9, <1>10

(* A turn without a session to continue. *)
LEMMA OpenTurnText ==
  ASSUME RigOK(rig), Flying(rig), NEW W, Roomy(W), NEW q \in Requests, NEW o \in AdmitOutcomes,
         NEW r, RigOK(r), Spares(rig, r), r.next_id < MaxSessions,
         \A i \in Ids : SameText(rig, r, i), OpenTurn(q, r, o)
  PROVE  Spoken(q, W)
  <1> DEFINE first == open(r)
             v == lru_idle_victim(first.rig, Busy)
             w == evict(first.rig, v, o.evict2)
             second == open(w)
  <1>1. IF first.id # NoId THEN ColdTurn(q, first, o)
        ELSE IF v = NoId THEN Reject(q, first.rig, "all slots busy")
        ELSE IF second.id # NoId THEN ColdTurn(q, second, o)
             ELSE Reject(q, second.rig, "no budget")
    BY DEF OpenTurn
  <1>2. /\ RigOK(first.rig) /\ Spares(rig, first.rig)
        /\ \/ first.id = NoId /\ first.rig.next_id = r.next_id
           \/ /\ first.id \in Ids \ Busy /\ first.rig.sess[first.id].slot \in Slots
              /\ first.rig.sess[first.id].residency = "Resident"
    BY OpenForTurn
  <1>3. \/ first.id = NoId /\ \A i \in Ids : SameText(r, first.rig, i)
        \/ first.id \in Ids /\ \A i \in Ids \ {first.id} : SameText(r, first.rig, i)
    BY OpenText
  <1> HIDE DEF first
  <1>4. CASE first.id # NoId
    <2>1. \A i \in Ids \ {first.id} : SameText(rig, first.rig, i)
      BY <1>3, <1>4 DEF SameText
    <2> QED BY <1>1, <1>2, <1>4, <2>1, ColdText
  <1>5. ASSUME first.id = NoId PROVE \A i \in Ids : SameText(rig, first.rig, i)
    BY <1>3, <1>5, Numbers DEF SameText
  <1>6. CASE first.id = NoId /\ v = NoId
    <2>1. rig' = first.rig /\ slots' = slots
      BY <1>1, <1>6 DEF Reject
    <2> QED BY <1>5, <1>6, <2>1 DEF Spoken
  <1>7. CASE first.id = NoId /\ v # NoId
    <2>1. v \in Ids \ Busy /\ first.rig.sess[v].slot # NoSlot
      <3>1. RigTypes(first.rig)
        BY <1>2 DEF RigOK
      <3> QED BY <1>7, <3>1, Victim DEF Live
    <2>2. o.evict2 \in EvictOutcomes
      BY DEF AdmitOutcomes
    <2> HIDE DEF v
    <2>3. RigOK(w) /\ w.next_id = first.rig.next_id
          /\ \A i \in Ids \ {v} : w.sess[i] = first.rig.sess[i]
      BY <1>2, <2>1, <2>2, EvictKeeps
    <2>4. \A i \in Ids : SameText(first.rig, w, i)
      BY <1>2, <2>1, <2>2, EvictText
    <2> HIDE DEF w
    <2>5. Spares(rig, w)
      <3>1. Flying(first.rig)
        BY <1>2, SparesFly
      <3> QED BY <1>2, <2>1, <2>3, <3>1, OthersSpare, SparesChain
    <2>6. w.next_id < MaxSessions
      BY <1>2, <1>7, <2>3, Numbers
    <2>7. /\ RigOK(second.rig)
          /\ \/ second.id = NoId /\ second.rig.next_id = w.next_id
             \/ /\ second.id \in Ids \ Busy /\ second.rig.sess[second.id].slot \in Slots
                /\ second.rig.sess[second.id].residency = "Resident"
      BY <2>3, <2>5, <2>6, OpenForTurn
    <2>8. \/ second.id = NoId /\ \A i \in Ids : SameText(w, second.rig, i)
          \/ second.id \in Ids /\ \A i \in Ids \ {second.id} : SameText(w, second.rig, i)
      BY <2>3, <2>6, OpenText
    <2> HIDE DEF second
    <2>9. \A i \in Ids : SameText(rig, w, i)
      BY <1>5, <1>7, <2>4 DEF SameText
    <2>10. CASE second.id # NoId
      <3>1. ColdTurn(q, second, o)
        BY <1>1, <1>7, <2>10
      <3>2. \A i \in Ids \ {second.id} : SameText(rig, second.rig, i)
        BY <2>8, <2>9, <2>10 DEF SameText
      <3> QED BY <2>7, <2>10, <3>1, <3>2, ColdText
    <2>11. CASE second.id = NoId
      <3>1. rig' = second.rig /\ slots' = slots
        BY <1>1, <1>7, <2>11 DEF Reject
      <3>2. \A i \in Ids : SameText(rig, second.rig, i)
        BY <2>8, <2>9, <2>11, Numbers DEF SameText
      <3> QED BY <3>1, <3>2 DEF Spoken
    <2> QED BY <2>10, <2>11
  <1> QED BY <1>4, <1>6, <1>7

(* A session with room for a reply is within its bound. *)
LEMMA RoomBounds ==
  ASSUME NEW W, Roomy(W), NEW ts \in Seq(Tokens), NEW q, NEW made \in Nat, RoomLeft(ts, q, made, W)
  PROVE  Len(ts) <= W[q] /\ q \in Requests /\ W[q] \in Nat /\ W[q] <= SlabCap
  <1>1. /\ q \in Requests /\ made < Limit(q) /\ Len(ts) + Limit(q) <= W[q] + made + 1
    BY DEF RoomLeft
  <1>2. W[q] \in 0 .. SlabCap
    BY <1>1 DEF Roomy
  <1>3. Limit(q) \in Nat /\ Len(ts) \in Nat /\ SlabCap \in Nat
    BY <1>1, LimitType, LenProperties, Consts
  <1> QED BY <1>1, <1>2, <1>3

(* admit keeps the sessions within their bounds. *)
LEMMA SpokenRoom ==
  ASSUME NEW W, Roomy(W), RoomInv(W), EngineInv, EngineInv', NEW q \in Requests, Spoken(q, W)
  PROVE  RoomInv(W)'
  <1>1. slots \in [Slots -> Flights] /\ Flying(rig)
    BY DEF EngineInv, EngineTypes
  <1>2. \A s \in InFlight : s \in Slots /\ slots[s].session \in Ids /\ slots[s].session \in Busy
    BY <1>1 DEF Flying, Busy, InFlight
  <1>3. \A i \in Ids : rig'.sess[i].tokens \in Seq(Tokens)
    BY DEF EngineInv, RigOK, RigTypes, Sessions
  <1>4. ASSUME NEW i \in Ids, SameText(rig, rig', i), rig'.sess[i].tokens # << >>
        PROVE  \E p \in Requests : /\ rig'.sess[i].convo = Convo[p]
                                   /\ Len(rig'.sess[i].tokens) <= W[p]
    BY <1>4 DEF RoomInv, Bounded, SameText
  <1>5. ASSUME NEW s \in InFlight, slots'[s] = slots[s], SameText(rig, rig', slots[s].session)
        PROVE  /\ rig'.sess[slots'[s].session].convo = Convo[slots'[s].req]
               /\ RoomLeft(TokensOf(s)', slots'[s].req, slots'[s].produced, W)
    <2>1. TokensOf(s)' = TokensOf(s)
      BY <1>5 DEF TokensOf, SameText
    <2> QED BY <1>5, <2>1 DEF RoomInv, Replying, SameText
  <1>6. CASE slots' = slots /\ \A i \in Ids : SameText(rig, rig', i)
    <2>1. InFlight' = InFlight
      BY <1>6, SlotsSame
    <2>2. Bounded(rig', W)
      BY <1>4, <1>6 DEF Bounded
    <2>3. Replying(W)'
      BY <1>2, <1>5, <1>6, <2>1 DEF Replying
    <2> QED BY <2>2, <2>3 DEF RoomInv, Bounded
  <1>7. ASSUME NEW k \in Ids \ Busy, \A i \in Ids \ {k} : SameText(rig, rig', i),
               \/ slots' = slots /\ rig'.sess[k].tokens = << >>
               \/ /\ rig'.sess[k].convo = Convo[q] /\ RoomLeft(rig'.sess[k].tokens, q, 0, W)
                  /\ \/ slots' = slots
                     \/ \E s \in Slots :
                          slots' = [slots EXCEPT ![s] = [session |-> k, req |-> q, produced |-> 0]]
        PROVE  RoomInv(W)'
    <2>1. Bounded(rig', W)
      <3>1. rig'.sess[k].tokens = << >> \/ (rig'.sess[k].convo = Convo[q]
                                             /\ Len(rig'.sess[k].tokens) <= W[q])
        BY <1>3, <1>7, RoomBounds
      <3> QED BY <1>4, <1>7, <3>1 DEF Bounded
    <2>2. CASE slots' = slots
      <3>1. InFlight' = InFlight
        BY <2>2, SlotsSame
      <3>2. Replying(W)'
        BY <1>2, <1>5, <1>7, <2>2, <3>1 DEF Replying
      <3> QED BY <2>1, <3>2 DEF RoomInv, Bounded
    <2>3. ASSUME NEW s \in Slots, rig'.sess[k].convo = Convo[q], RoomLeft(rig'.sess[k].tokens, q, 0, W),
                 slots' = [slots EXCEPT ![s] = [session |-> k, req |-> q, produced |-> 0]]
          PROVE  RoomInv(W)'
      <3>1. /\ slots'[s] = [session |-> k, req |-> q, produced |-> 0]
            /\ \A t \in Slots \ {s} : slots'[t] = slots[t]
        BY <1>1, <2>3
      <3>2. \A t \in InFlight' : t = s \/ (t \in InFlight /\ t \in Slots \ {s})
        BY <3>1 DEF InFlight
      <3>3. ASSUME NEW t \in InFlight'
            PROVE  /\ rig'.sess[slots'[t].session].convo = Convo[slots'[t].req]
                   /\ RoomLeft(TokensOf(t)', slots'[t].req, slots'[t].produced, W)
        <4>1. CASE t = s
          BY <2>3, <3>1, <4>1 DEF TokensOf
        <4>2. CASE t # s
          <5>1. t \in InFlight /\ slots'[t] = slots[t]
            BY <3>1, <3>2, <3>3, <4>2
          <5>2. SameText(rig, rig', slots[t].session)
            BY <1>2, <1>7, <5>1
          <5> QED BY <1>5, <5>1, <5>2
        <4> QED BY <4>1, <4>2
      <3>4. Replying(W)'
        BY <3>3 DEF Replying
      <3> QED BY <2>1, <3>4 DEF RoomInv, Bounded
    <2> QED BY <1>7, <2>2, <2>3
  <1> QED BY <1>6, <1>7 DEF Spoken

(* admit *)
LEMMA AdmitRoom ==
  ASSUME NEW W, Roomy(W), RoomInv(W), EngineInv, EngineInv', admit
  PROVE  RoomInv(W)'
  <1> DEFINE q == Head(queue)
  <1>1. RigOK(rig) /\ Flying(rig) /\ queue \in Seq(Requests)
    BY DEF EngineInv, EngineTypes
  <1>2. queue # << >> /\ rig.next_id < MaxSessions
    BY DEF admit
  <1>3. q \in Requests
    BY <1>1, <1>2, TailAt
  <1>4. PICK o \in AdmitOutcomes :
          \E c \in {resume(q, o)} :
            IF c.slot # NoSlot THEN ContinueTurn(q, c) ELSE OpenTurn(q, c.rig, o)
    BY DEF admit
  <1> HIDE DEF q
  <1>5. PICK c : /\ c = resume(q, o)
                 /\ IF c.slot # NoSlot THEN ContinueTurn(q, c) ELSE OpenTurn(q, c.rig, o)
    BY <1>4
  <1>6. /\ RigOK(c.rig) /\ c.rig.next_id = rig.next_id /\ Spares(rig, c.rig)
        /\ c.slot # NoSlot => /\ c.id \in Ids \ Busy
                              /\ c.rig.sess[c.id].slot = c.slot /\ c.slot \in Slots
    BY <1>1, <1>3, <1>5, ResumeKeeps
  <1>7. /\ \A i \in Ids : SameText(rig, c.rig, i)
        /\ c.slot # NoSlot =>
             /\ Continuation[q] # << >> /\ rig.sess[c.id].tokens # << >>
             /\ rig.sess[c.id].convo = SubSeq(Convo[q], 1, Len(Convo[q]) - 1)
    BY <1>1, <1>3, <1>5, ResumeText
  <1>8. CASE c.slot # NoSlot
    <2>1. Bounded(rig, W)
      BY DEF RoomInv
    <2>2. Spoken(q, W)
      BY <1>1, <1>3, <1>5, <1>6, <1>7, <1>8, <2>1, ContinueText
    <2> QED BY <1>3, <2>2, SpokenRoom
  <1>9. CASE c.slot = NoSlot
    <2>1. Spoken(q, W)
      BY <1>1, <1>2, <1>3, <1>5, <1>6, <1>7, <1>9, OpenTurnText
    <2> QED BY <1>3, <2>1, SpokenRoom
  <1> QED BY <1>8, <1>9

(* Closed sessions have no tokens, the others keep theirs. *)
LEMMA CloseAllText ==
  ASSUME NEW r, RigOK(r), NEW ids, NEW e, e = close_all(r, ids)
  PROVE  \A i \in Ids : e.sess[i] = IF i \in ids THEN NoSession ELSE r.sess[i]
  <1>1. DOMAIN r = Fields /\ r.sess \in [Ids -> Sessions]
    BY DEF RigOK, RigTypes
  <1>2. e.sess = [i \in Ids |-> IF i \in ids THEN NoSession ELSE r.sess[i]]
    BY <1>1 DEF close_all, Fields
  <1> QED BY <1>2

(* Recording the sampled tokens changes no session's turn. *)
LEMMA StampedTurn ==
  ASSUME NEW r, RigOK(r), NEW tok, NEW a, a = Stamped(r, tok)
  PROVE  \A i \in Ids : a.sess[i].convo = r.sess[i].convo
  <1>1. DOMAIN r = Fields /\ r.sess \in [Ids -> Sessions]
    BY DEF RigOK, RigTypes
  <1> DEFINE g(i) == [r.sess[i] EXCEPT
                        !.last_used = Stamp(r, tok, SlotOf(i)),
                        !.tokens = IF TokEnds(tok, SlotOf(i)) THEN r.sess[i].tokens
                                   ELSE Append(r.sess[i].tokens, tok[SlotOf(i)])]
             f == [i \in Ids |-> IF ~ Mine(tok, i) THEN r.sess[i] ELSE g(i)]
  <1>2. a = [r EXCEPT !.clock = @ + Cardinality(Touched(tok)), !.sess = f]
    BY DEF Stamped
  <1>3. \A i \in Ids : f[i] = IF ~ Mine(tok, i) THEN r.sess[i] ELSE g(i)
    OBVIOUS
  <1> HIDE DEF f
  <1>4. a.sess = f
    BY <1>1, <1>2 DEF Fields
  <1>5. \A i \in Ids : g(i).convo = r.sess[i].convo
    BY <1>1 DEF Sessions
  <1> HIDE DEF g
  <1> QED BY <1>3, <1>4, <1>5

(* One more token of a reply that is not over has room. *)
LEMMA RoomForOne ==
  ASSUME NEW W, Roomy(W), NEW ts \in Seq(Tokens), NEW q, NEW made \in Nat, RoomLeft(ts, q, made, W),
         ~ made + 1 >= Limit(q), NEW t \in Tokens
  PROVE  RoomLeft(Append(ts, t), q, made + 1, W)
  <1>1. /\ q \in Requests /\ made < Limit(q) /\ Len(ts) + Limit(q) <= W[q] + made + 1
    BY DEF RoomLeft
  <1>2. W[q] \in 0 .. SlabCap
    BY <1>1 DEF Roomy
  <1>3. Limit(q) \in Nat /\ Len(ts) \in Nat /\ SlabCap \in Nat
    BY <1>1, LimitType, LenProperties, Consts
  <1>4. Len(Append(ts, t)) = Len(ts) + 1
    BY AppendProperties
  <1>5. /\ made + 1 < Limit(q)
        /\ Len(Append(ts, t)) + Limit(q) <= W[q] + (made + 1) + 1
    BY <1>1, <1>2, <1>3, <1>4
  <1> QED BY <1>1, <1>5 DEF RoomLeft

(* A step adds at most one token to a session, one of the reply it makes. *)
LEMMA StepRoom ==
  ASSUME NEW W, Roomy(W), RoomInv(W), EngineInv, EngineInv', Step
  PROVE  RoomInv(W)'
  <1>1. RigOK(rig) /\ Flying(rig) /\ EngineTypes /\ slots \in [Slots -> Flights] /\ ~ Overflow
    BY DEF EngineInv, EngineTypes, Step
  <1>2. PICK top \in Batch, tok \in [Sampled -> Vocab \cup {Eos}] : Sample(Forwarded(top), tok)
    BY DEF Step
  <1> DEFINE r == Forwarded(top)
             a == Stamped(r, tok)
  <1>3. /\ rig' = close_all(a, Left(tok))
        /\ slots' = [s \in Slots |->
             IF s \notin Sampled THEN slots[s]
             ELSE IF TokEnds(tok, s) THEN NoFlight
             ELSE [slots[s] EXCEPT !.produced = @ + 1]]
    BY <1>2, SampleParts
  <1>4. RigOK(r) /\ r.sess = rig.sess
    BY <1>1, ForwardedCached, CachedKeeps DEF Cached
  <1> HIDE DEF r
  <1>5. RigOK(a) /\ Recorded(r, tok, a) /\ \A i \in Ids : a.sess[i].convo = r.sess[i].convo
    BY <1>1, <1>4, StampedKeeps, StampedTokens, StampedTurn
  <1> HIDE DEF a
  <1>6. \A i \in Ids : rig'.sess[i] = IF i \in Left(tok) THEN NoSession ELSE a.sess[i]
    BY <1>3, <1>5, CloseAllText
  <1>7. ASSUME NEW s \in Sampled
        PROVE  /\ s \in InFlight /\ s \in Slots /\ slots[s].session \in Ids
               /\ rig.sess[slots[s].session].slot = s /\ slots[s].produced \in Nat
               /\ TokensOf(s) \in Seq(Tokens)
    <2>1. s \in InFlight /\ s \in Slots
      BY SampledFinite
    <2>2. slots[s].session \in Ids /\ rig.sess[slots[s].session].slot = s
      BY <1>1, <2>1 DEF Flying
    <2>3. slots[s].produced \in Nat
      BY <1>1, <2>1 DEF Flights
    <2>4. TokensOf(s) \in Seq(Tokens)
      BY <1>1, <2>2 DEF TokensOf, RigOK, RigTypes, Sessions
    <2> QED BY <2>1, <2>2, <2>3, <2>4
  <1>8. ASSUME NEW s \in Sampled, ~ TokEnds(tok, s)
        PROVE  /\ a.sess[slots[s].session].tokens = Append(TokensOf(s), tok[s])
               /\ RoomLeft(Append(TokensOf(s), tok[s]), slots[s].req, slots[s].produced + 1, W)
               /\ rig.sess[slots[s].session].convo = Convo[slots[s].req]
               /\ slots[s].session \notin Left(tok)
    <2>1. RoomLeft(TokensOf(s), slots[s].req, slots[s].produced, W)
          /\ rig.sess[slots[s].session].convo = Convo[slots[s].req]
      BY <1>7 DEF RoomInv, Replying
    <2>2. tok[s] \in Tokens /\ ~ slots[s].produced + 1 >= Limit(slots[s].req)
      BY <1>8 DEF TokEnds, Tokens
    <2>3. RoomLeft(Append(TokensOf(s), tok[s]), slots[s].req, slots[s].produced + 1, W)
      BY <1>7, <2>1, <2>2, RoomForOne
    <2>4. slots[s].session \notin Left(tok)
      <3>1. \A t \in Sampled : slots[t].session = slots[s].session => t = s
        BY <1>7
      <3> QED BY <1>8, <3>1 DEF Left, TokEnds
    <2> QED BY <1>4, <1>5, <1>8, <2>1, <2>3, <2>4 DEF Recorded, TokensOf
  <1>9. ASSUME NEW i \in Ids, \A s \in Sampled : slots[s].session = i => TokEnds(tok, s),
               i \notin Left(tok)
        PROVE  SameText(rig, rig', i)
    BY <1>4, <1>5, <1>6, <1>9 DEF Recorded, SameText
  <1>10. ASSUME NEW i \in Ids, rig'.sess[i].tokens # << >>
         PROVE  \E p \in Requests : /\ rig'.sess[i].convo = Convo[p]
                                    /\ Len(rig'.sess[i].tokens) <= W[p]
    <2>1. i \notin Left(tok)
      BY <1>6, <1>10 DEF NoSession
    <2>2. CASE \A s \in Sampled : slots[s].session = i => TokEnds(tok, s)
      BY <1>9, <1>10, <2>1, <2>2 DEF RoomInv, Bounded, SameText
    <2>3. ASSUME NEW s \in Sampled, slots[s].session = i, ~ TokEnds(tok, s)
          PROVE  slots[s].req \in Requests /\ rig'.sess[i].convo = Convo[slots[s].req]
                 /\ Len(rig'.sess[i].tokens) <= W[slots[s].req]
      <3> DEFINE x == Append(TokensOf(s), tok[s])
                 m == slots[s].produced + 1
      <3>1. rig'.sess[i].tokens = x /\ RoomLeft(x, slots[s].req, m, W)
            /\ rig'.sess[i].convo = Convo[slots[s].req]
        BY <1>4, <1>5, <1>6, <1>8, <2>1, <2>3
      <3>2. m \in Nat
        BY <1>7
      <3>3. x \in Seq(Tokens)
        <4>1. tok[s] \in Tokens
          BY <2>3 DEF TokEnds, Tokens
        <4> QED BY <1>7, <4>1, AppendProperties
      <3> HIDE DEF x, m
      <3> QED BY <3>1, <3>2, <3>3, RoomBounds
    <2> QED BY <2>2, <2>3
  <1>11. ASSUME NEW s \in InFlight'
         PROVE  /\ rig'.sess[slots'[s].session].convo = Convo[slots'[s].req]
                /\ RoomLeft(TokensOf(s)', slots'[s].req, slots'[s].produced, W)
    <2>1. s \in Slots /\ slots'[s].session # NoId
      BY <1>11 DEF InFlight
    <2>2. CASE s \notin Sampled
      <3>1. slots'[s] = slots[s] /\ s \in InFlight
        BY <1>3, <2>1, <2>2 DEF InFlight
      <3>2. slots[s].session \in Ids /\ rig.sess[slots[s].session].slot = s
        BY <1>1, <3>1 DEF Flying
      <3>3. \A t \in Sampled : slots[t].session # slots[s].session
        BY <1>7, <2>2, <3>2
      <3>4. slots[s].session \notin Left(tok)
        BY <3>3 DEF Left
      <3>5. SameText(rig, rig', slots[s].session)
        BY <1>9, <3>2, <3>3, <3>4
      <3>6. TokensOf(s)' = TokensOf(s)
        BY <3>1, <3>5 DEF TokensOf, SameText
      <3> QED BY <3>1, <3>5, <3>6 DEF RoomInv, Replying, SameText
    <2>3. CASE s \in Sampled
      <3>1. ~ TokEnds(tok, s)
        BY <1>3, <2>1, <2>3 DEF NoFlight
      <3>2. slots'[s] = [slots[s] EXCEPT !.produced = @ + 1] /\ slots[s] \in Flights
        BY <1>1, <1>3, <2>1, <2>3, <3>1
      <3>3. /\ slots'[s].session = slots[s].session /\ slots'[s].req = slots[s].req
            /\ slots'[s].produced = slots[s].produced + 1
        BY <3>2 DEF Flights
      <3>4. TokensOf(s)' = Append(TokensOf(s), tok[s])
        <4>1. rig'.sess[slots[s].session].tokens = Append(TokensOf(s), tok[s])
          BY <1>6, <1>7, <1>8, <2>3, <3>1
        <4>2. TokensOf(s)' = rig'.sess[slots'[s].session].tokens
          BY DEF TokensOf
        <4> QED BY <3>3, <4>1, <4>2
      <3>5. rig'.sess[slots[s].session].convo = Convo[slots[s].req]
        BY <1>4, <1>5, <1>6, <1>7, <1>8, <2>3, <3>1
      <3> QED BY <1>8, <2>3, <3>1, <3>3, <3>4, <3>5
    <2> QED BY <2>2, <2>3
  <1>12. Bounded(rig', W) /\ Replying(W)'
    BY <1>10, <1>11 DEF Bounded, Replying
  <1> QED BY <1>12 DEF RoomInv, Bounded

(* The other handlers and the clients add no token. *)
LEMMA NextRoom ==
  ASSUME NEW W, Roomy(W), RoomInv(W), EngineInv, EngineInv', [Next]_vars
  PROVE  RoomInv(W)'
  <1>1. ASSUME slots' = slots, \A i \in Ids : SameText(rig, rig', i)
        PROVE  RoomInv(W)'
    <2>1. InFlight' = InFlight
      BY <1>1, SlotsSame
    <2>2. \A s \in InFlight : slots[s].session \in Ids
      BY DEF EngineInv, Flying
    <2>3. \A s \in InFlight : TokensOf(s)' = TokensOf(s)
      BY <1>1, <2>2 DEF TokensOf, SameText
    <2>4. Replying(W)'
      BY <1>1, <2>1, <2>2, <2>3 DEF RoomInv, Replying, SameText
    <2>5. Bounded(rig', W)
      BY <1>1 DEF RoomInv, Bounded, SameText
    <2> QED BY <2>4, <2>5 DEF RoomInv, Bounded
  <1>2. ASSUME slots' = [s \in Slots |-> NoFlight],
               \A i \in Ids : rig'.sess[i] = NoSession \/ rig'.sess[i] = rig.sess[i]
        PROVE  RoomInv(W)'
    <2>1. InFlight' = {}
      BY <1>2 DEF InFlight, NoFlight
    <2>2. Replying(W)'
      BY <2>1 DEF Replying
    <2>3. Bounded(rig', W)
      BY <1>2 DEF RoomInv, Bounded, NoSession
    <2> QED BY <2>2, <2>3 DEF RoomInv, Bounded
  <1>3. ASSUME rig' = rig, slots' = slots
        PROVE  RoomInv(W)'
    <2>1. \A i \in Ids : SameText(rig, rig', i)
      BY <1>3 DEF SameText
    <2> QED BY <1>1, <1>3, <2>1
  <1>4. RigOK(rig) /\ Flying(rig) /\ EngineTypes
    BY DEF EngineInv
  <1>5. CASE admit
    BY <1>5, AdmitRoom
  <1>6. CASE Step
    BY <1>6, StepRoom
  <1>7. CASE Panic
    <2>1. rig' = rig /\ slots' = [s \in Slots |-> NoFlight]
      BY <1>7 DEF Panic
    <2> QED BY <1>2, <2>1
  <1>8. CASE ForwardOverflows \/ ForwardFails
    <2>1. PICK arena, dn : FailInFlight([rig EXCEPT !.arena = arena, !.dn = dn])
      BY <1>8 DEF ForwardOverflows, ForwardFails
    <2> DEFINE r == [rig EXCEPT !.arena = arena, !.dn = dn]
    <2>2. rig' = close_all(r, Busy) /\ slots' = [s \in Slots |-> NoFlight]
      BY <2>1 DEF FailInFlight
    <2>3. DOMAIN rig = Fields
      BY <1>4 DEF RigOK, RigTypes
    <2>4. r.sess = rig.sess /\ DOMAIN r = Fields
      BY <2>3 DEF Fields
    <2> HIDE DEF r
    <2>5. rig'.sess = [i \in Ids |-> IF i \in Busy THEN NoSession ELSE r.sess[i]]
      BY <2>2, <2>4 DEF close_all, Fields
    <2> QED BY <1>2, <2>2, <2>4, <2>5
  <1>9. CASE SampleFails
    <2>1. PICK top \in Batch : rig' = Forwarded(top)
      BY <1>9 DEF SampleFails
    <2>2. slots' = slots /\ ~ Overflow
      BY <1>9 DEF SampleFails
    <2>3. rig'.sess = rig.sess
      BY <1>4, <2>1, <2>2, ForwardedCached DEF Cached
    <2>4. \A i \in Ids : SameText(rig, rig', i)
      BY <2>3 DEF SameText
    <2> QED BY <1>1, <2>2, <2>4
  <1>10. CASE Exit \/ DropEngine \/ UNCHANGED vars
    BY <1>3, <1>10 DEF Exit, DropEngine, vars, engineVars
  <1>11. ASSUME NEW q \in Requests, Client(q)
         PROVE  RoomInv(W)'
    BY <1>3, <1>11 DEF Client, Submit, Vanish, Return, engineVars
  <1> QED BY <1>5, <1>6, <1>7, <1>8, <1>9, <1>10, <1>11 DEF Next, Engine

(* Nothing is open at the start. *)
LEMMA InitRoom ==
  ASSUME NEW W, Init
  PROVE  RoomInv(W)
  <1>1. rig.sess = [i \in Ids |-> NoSession] /\ slots = [s \in Slots |-> NoFlight]
    BY DEF Init, InitRig
  <1>2. InFlight = {}
    BY <1>1 DEF InFlight, NoFlight
  <1>3. \A i \in Ids : rig.sess[i].tokens = << >>
    BY <1>1 DEF NoSession
  <1> QED BY <1>2, <1>3 DEF RoomInv, Bounded, Replying

(* A step feeds no more than the session's tokens, so none leaves a slab. *)
LEMMA RoomWithin ==
  ASSUME NEW W, Roomy(W), RoomInv(W), EngineInv, ContextInv
  PROVE  Within
  <1> SUFFICES ASSUME engine = "running", NEW s \in Batch
               PROVE  ~ EndPos(s) > SlabCap
    BY DEF Within, Overflow
  <1>1. RigOK(rig) /\ Flying(rig) /\ EngineTypes /\ slots \in [Slots -> Flights]
    BY DEF EngineInv, EngineTypes
  <1>2. Held(rig) /\ FeedInv
    BY DEF ContextInv
  <1>3. s \in InFlight /\ s \in Slots
    BY <1>2, BatchFlies
  <1>4. EndPos(s) \in Nat /\ EndPos(s) <= Len(TokensOf(s))
    BY <1>1, <1>2, <1>3, TakeNext
  <1>5. TokensOf(s) \in Seq(Tokens) /\ slots[s].produced \in Nat
    BY <1>1, <1>2, <1>3, FlightHolds DEF Flights
  <1>6. RoomLeft(TokensOf(s), slots[s].req, slots[s].produced, W)
    BY <1>3 DEF RoomInv, Replying
  <1>7. Len(TokensOf(s)) <= W[slots[s].req] /\ W[slots[s].req] \in Nat /\ W[slots[s].req] <= SlabCap
    BY <1>5, <1>6, RoomBounds
  <1>8. Len(TokensOf(s)) \in Nat /\ SlabCap \in Nat
    BY <1>5, LenProperties, Consts
  <1> QED BY <1>4, <1>7, <1>8

(* When every conversation fits its slab, prompts, continuations and       *)
(* replies together, no step of run_loop runs past the end of one, whoever *)
(* is evicted, restored, rejected or gone in between.                      *)
THEOREM NothingOverflows ==
  ASSUME ConversationsFit
  PROVE  Spec => []Within
  <1>1. PICK W : Roomy(W)
    BY DEF ConversationsFit
  <1>2. Init => ContextInv /\ RoomInv(W)
    BY InitContext, InitRoom
  <1>3. /\ EngineInv /\ EngineInv' /\ ContextInv /\ RoomInv(W) /\ [Next]_vars
        => ContextInv' /\ RoomInv(W)'
    BY <1>1, RoomWithin, NextContext, NextRoom
  <1>4. EngineInv /\ ContextInv /\ RoomInv(W) => Within
    BY <1>1, RoomWithin
  <1> QED BY <1>2, <1>3, <1>4, EngineInvariant, PTL DEF Spec

(* Then the context of every session is its own, always. *)
THEOREM FittingContextFaithful ==
  ASSUME ConversationsFit
  PROVE  Spec => []ContextFaithful /\ []SnapshotFaithful
  BY NothingOverflows, ContextFaithfulHolds, SnapshotFaithfulHolds, PTL

(* And every token sent was sampled from it. *)
THEOREM FittingEmitsFromOwnContext ==
  ASSUME ConversationsFit
  PROVE  Spec => EmitsFromOwnContext
  BY NothingOverflows, EmitsFromOwnContextHolds, PTL
=============================================================================
