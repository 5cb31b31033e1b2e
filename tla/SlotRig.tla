------------------------------ MODULE SlotRig ------------------------------
(***************************************************************************)
(* The state the slot engine's thread owns (struct Rig in                  *)
(* hipfire-arch-qwen35/src/serve_engine.rs) and the operations of the      *)
(* parts it is made of, as functions from one rig value to the next:       *)
(*                                                                         *)
(*   SlotPool             used, len            (rdna-compute slot_pool.rs) *)
(*   KV arenas            arena                (slabs laid end to end)     *)
(*   DeltaNetState        dn                                               *)
(*   SessionTable         sess, clock, next_id (session_table.rs)          *)
(*   AdmissionController  admitted             (admission.rs)              *)
(*   SwapManager          snaps                (swap/mod.rs, snapshot.rs)  *)
(*                                                                         *)
(* The engine thread runs these operations one after the other inside one  *)
(* handler, so they compose as functions; module SlotEngine supplies the   *)
(* handlers, the clients and the failures.                                 *)
(*                                                                         *)
(* Data.  A cell of the KV arena is the token that was written there.  A   *)
(* slot's recurrent (DeltaNet) state is the sequence of tokens folded into *)
(* it since its last reset: two different histories are two different      *)
(* states.  "junk" is what a failed device copy leaves behind.             *)
(***************************************************************************)
EXTENDS Integers, Sequences, FiniteSets, FiniteSetsExt, Functions

CONSTANTS
  NSlots,       \* EngineConfig::n_slots
  CapTokens,    \* EngineConfig::cap_tokens, also the scheduler's chunk size
  SlabCap,      \* cap_tokens rounded up to PAGE_TOKENS: positions in one slab
  MaxSessions,  \* bound: session ids handed out in one behaviour
  WeightBytes,  \* ModelFootprint::weights_bytes
  KvBytes,      \* KV bytes charged for one session of cap_tokens
  BudgetBytes   \* AdmissionController::budget_bytes

ASSUME RigAssumption ==
  /\ NSlots \in Nat \ {0}
  /\ CapTokens \in Nat \ {0}
  /\ SlabCap \in Nat /\ SlabCap >= CapTokens
  /\ MaxSessions \in Nat \ {0}
  /\ WeightBytes \in Nat /\ KvBytes \in Nat /\ BudgetBytes \in Nat
  \* Rig::build's preflight refuses a configuration that does not fit.
  /\ WeightBytes + NSlots * KvBytes < BudgetBytes

Slots == 0 .. NSlots - 1
Ids == 0 .. MaxSessions - 1
NoSlot == -1
NoId == -1

NoSession == [slot |-> NoSlot, tokens |-> << >>, convo |-> << >>,
              residency |-> "Closed", last_used |-> 0]
NoSnap == [present |-> FALSE, kv |-> << >>, dn |-> << >>]

Live(r) == {i \in Ids : r.sess[i].residency # "Closed"}

-----------------------------------------------------------------------------
(* SlotPool *)

free_slots(r) == {s \in Slots : ~ r.used[s]}

\* Take the lowest free slot; its logical length starts at zero.
acquire(r) ==
  LET s == Min(free_slots(r))
  IN  [r EXCEPT !.used[s] = TRUE, !.len[s] = 0]

pool_release(r, s) == [r EXCEPT !.len[s] = 0, !.used[s] = FALSE]

set_seq_len(r, s, n) == [r EXCEPT !.len[s] = n]

\* The first n positions of slot s, as a kernel or a device copy reads them.
ReadSlab(r, s, n) ==
  [i \in 1 .. n |-> LET a == s * SlabCap + i - 1
                    IN  IF a \in DOMAIN r.arena THEN r.arena[a] ELSE "junk"]

\* Write ts at positions pos, pos + 1, ... of slot s.  The kernels compute
\* base + pos * stride and check no bound, so a position past the slab's end
\* lands in the next slab, and past the last slab outside the arena.
WriteSlab(arena, s, pos, ts) ==
  [a \in DOMAIN arena |->
     LET i == a - (s * SlabCap + pos) + 1
     IN  IF i \in DOMAIN ts THEN ts[i] ELSE arena[a]]

-----------------------------------------------------------------------------
(* AdmissionController.  The engine asks for cap_tokens every time, so the *)
(* vector of granted contexts is a number of equal grants.                 *)

used_bytes(r) ==
  IF r.admitted = 0 THEN 0 ELSE WeightBytes + r.admitted * KvBytes

adm_fits(r) ==
  LET need == KvBytes + (IF r.admitted = 0 THEN WeightBytes ELSE 0)
      used == used_bytes(r)
      available == IF used > BudgetBytes THEN 0 ELSE BudgetBytes - used
  IN  need < available

adm_admit(r) == [r EXCEPT !.admitted = @ + 1]

adm_release(r) == [r EXCEPT !.admitted = IF @ = 0 THEN 0 ELSE @ - 1]

-----------------------------------------------------------------------------
(* prefix.rs *)

lcp(a, b) ==
  LET n == Min({Len(a), Len(b)})
  IN  Max({k \in 0 .. n : \A i \in 1 .. k : a[i] = b[i]})

\* plan_turn(...).reused: never more than the slot holds, and always one
\* token short of the prompt, so that the forward produces logits.
plan_turn(cached, seq_len, prompt) ==
  Min({lcp(cached, prompt), seq_len, IF prompt = << >> THEN 0 ELSE Len(prompt) - 1})

-----------------------------------------------------------------------------
(* SessionTable *)

touch(r, id) ==
  [r EXCEPT !.clock = @ + 1, !.sess[id].last_used = r.clock + 1]

\* Budget first, then a slot; a full pool hands the budget straight back.
\* The result's id is NoId when the session was refused.
open(r) ==
  IF ~ adm_fits(r) THEN [id |-> NoId, rig |-> r]
  ELSE IF free_slots(r) = {} THEN [id |-> NoId, rig |-> adm_release(adm_admit(r))]
  ELSE LET s  == Min(free_slots(r))
           r1 == acquire(adm_admit(r))
       IN  [id  |-> r.next_id,
            rig |-> [r1 EXCEPT
                       !.next_id = @ + 1,
                       !.clock = @ + 1,
                       !.sess[r.next_id] =
                          [slot |-> s, tokens |-> << >>, convo |-> << >>,
                           residency |-> "Resident", last_used |-> r.clock + 1]]]

\* Mutant of close: the slot goes back and the budget does not.
close_keeping_budget(r, id) ==
  LET s  == r.sess[id].slot
      r1 == IF s = NoSlot THEN r ELSE pool_release(r, s)
  IN  IF r.sess[id].residency = "Closed" THEN r
      ELSE [r1 EXCEPT !.sess[id] = NoSession]

\* The slot (if the session holds one) and the budget go back together.
close(r, id) ==
  LET s  == r.sess[id].slot
      r1 == IF s = NoSlot THEN r ELSE pool_release(r, s)
  IN  IF r.sess[id].residency = "Closed" THEN r
      ELSE adm_release([r1 EXCEPT !.sess[id] = NoSession])

\* Rewind the slot to the reusable prefix; the caller (admit) then records
\* the turn's whole prompt as the session's tokens and its user turns as convo.
begin_turn(r, id, prompt, convo) ==
  LET s == r.sess[id].slot
      n == plan_turn(r.sess[id].tokens, r.len[s], prompt)
  IN  [reused |-> n,
       rig    |-> [set_seq_len(r, s, n) EXCEPT !.sess[id].tokens = prompt,
                                               !.sess[id].convo = convo]]

\* The most recently used idle session exactly one user turn behind `want`.
find_continuation(r, want, busy) ==
  LET matches == {i \in Live(r) \ busy :
                    /\ r.sess[i].residency # "Cold"
                    /\ r.sess[i].convo = SubSeq(want, 1, Len(want) - 1)
                    /\ r.sess[i].tokens # << >>}
  IN  IF Len(want) < 2 \/ matches = {} THEN NoId
      ELSE CHOOSE i \in matches :
             \A j \in matches : r.sess[j].last_used <= r.sess[i].last_used

\* Mutant of lru_idle_victim: a generating session may be preempted.
lru_victim(r, busy) ==
  LET held == {i \in Live(r) : r.sess[i].slot # NoSlot}
  IN  IF held = {} THEN NoId
      ELSE CHOOSE i \in held :
             \A j \in held : r.sess[i].last_used <= r.sess[j].last_used

\* The least recently used session that holds a slot and is not generating.
lru_idle_victim(r, busy) ==
  LET idle == {i \in Live(r) \ busy : r.sess[i].slot # NoSlot}
  IN  IF idle = {} THEN NoId
      ELSE CHOOSE i \in idle :
             \A j \in idle : r.sess[i].last_used <= r.sess[j].last_used

\* Mutant of give_up_slot: the session forgets its slot, the pool does not.
forget_slot(r, id) == [r EXCEPT !.sess[id].slot = NoSlot]

\* What mark_swapped and mark_cold have in common.
give_up_slot(r, id) ==
  LET s == r.sess[id].slot
  IN  [(IF s = NoSlot THEN r ELSE pool_release(r, s)) EXCEPT !.sess[id].slot = NoSlot]

mark_swapped(r, id) == [give_up_slot(r, id) EXCEPT !.sess[id].residency = "Swapped"]

mark_cold(r, id) == [give_up_slot(r, id) EXCEPT !.sess[id].residency = "Cold"]

mark_resident(r, id, s) ==
  [touch(r, id) EXCEPT !.sess[id].slot = s, !.sess[id].residency = "Resident"]

-----------------------------------------------------------------------------
(* Swap: evict and restore, with the outcome of their device copies and    *)
(* file operations as a parameter.                                         *)

\* Mutant of capture_slot: the KV alone, without the recurrent state.
capture_kv(r, s) ==
  [present |-> TRUE, kv |-> ReadSlab(r, s, r.len[s]), dn |-> << >>]

capture_slot(r, s) ==
  [present |-> TRUE, kv |-> ReadSlab(r, s, r.len[s]), dn |-> r.dn[s]]

EvictOutcomes == {"ok", "capture_failed", "park_failed"}

\* Whatever fails, the slot is given up: the session is Swapped or Cold.
evict(r, victim, outcome) ==
  CASE outcome = "ok" ->
         mark_swapped([r EXCEPT !.snaps[victim] = capture_slot(r, r.sess[victim].slot)],
                      victim)
    [] outcome = "capture_failed" -> mark_cold(r, victim)
    [] outcome = "park_failed" ->
         mark_cold([r EXCEPT !.snaps[victim] = NoSnap], victim)

\* Mutant of restore_slot: the recurrent state is not copied back.
restore_kv(r, s, snap) ==
  [r EXCEPT !.arena = WriteSlab(@, s, 0, snap.kv), !.len[s] = Len(snap.kv)]

restore_slot(r, s, snap) ==
  [r EXCEPT !.arena = WriteSlab(@, s, 0, snap.kv),
            !.dn[s] = snap.dn,
            !.len[s] = Len(snap.kv)]

\* A device copy of restore_slot fails: the slot is half written.
restore_slot_fails(r, s, snap) ==
  [r EXCEPT !.arena = WriteSlab(@, s, 0, [i \in DOMAIN snap.kv |-> "junk"]),
            !.dn[s] = << "junk" >>]

RestoreOutcomes == {"ok", "unpark_failed", "copy_failed"}

\* Bring session id back into the acquired slot s.  Taking the snapshot removes
\* it whatever happens next.
restore(r, id, s, outcome) ==
  LET snap  == r.snaps[id]
      taken == [r EXCEPT !.snaps[id] = NoSnap]
  IN  CASE outcome = "unpark_failed" \/ ~ snap.present -> mark_cold(taken, id)
        [] outcome = "copy_failed" /\ snap.present ->
             mark_cold(restore_slot_fails(taken, s, snap), id)
        [] outcome = "ok" /\ snap.present ->
             mark_resident(restore_slot(taken, s, snap), id, s)

-----------------------------------------------------------------------------
InitRig ==
  [used     |-> [s \in Slots |-> FALSE],
   len      |-> [s \in Slots |-> 0],
   arena    |-> [a \in 0 .. NSlots * SlabCap - 1 |-> "zero"],
   dn       |-> [s \in Slots |-> << >>],
   sess     |-> [i \in Ids |-> NoSession],
   clock    |-> 0,
   next_id  |-> 0,
   admitted |-> 0,
   snaps    |-> [i \in Ids |-> NoSnap]]
=============================================================================
