--------------------------- MODULE SnapshotStore ---------------------------
(***************************************************************************)
(* What the engine relies on when it parks a session's state: under each   *)
(* key a process finds the snapshot it last parked there, once, or         *)
(* nothing.  Any operation may fail, and then the key is empty: the        *)
(* session is re-prefilled, slowly and never wrongly.  SwapStore           *)
(* implements this specification as long as its directory is its own.      *)
(***************************************************************************)
CONSTANTS Procs, Keys, Snaps, Nothing, Failed

VARIABLES
  parked,  \* [Procs -> [Keys -> Snaps \cup {Nothing}]]
  result   \* the snapshot the last operation stored or returned, or how it ended

vars == << parked, result >>

Init ==
  /\ parked = [p \in Procs |-> [k \in Keys |-> Nothing]]
  /\ result = Nothing

Set(p, k, x) == parked' = [parked EXCEPT ![p][k] = x]

Park(p, k, s) == Set(p, k, s) /\ result' = s

Unpark(p, k) ==
  /\ parked[p][k] # Nothing
  /\ Set(p, k, Nothing)
  /\ result' = parked[p][k]

\* A failed operation on k, or the loss of what was parked under it.
Fail(p, k) == Set(p, k, Nothing) /\ result' = Failed

Forget(p, k) == Set(p, k, Nothing) /\ result' = Nothing

\* A process that starts or stops has nothing parked.
Restart(p) ==
  /\ parked' = [parked EXCEPT ![p] = [k \in Keys |-> Nothing]]
  /\ result' \in {Nothing, Failed}

Next ==
  \E p \in Procs :
    \/ Restart(p)
    \/ \E k \in Keys : \/ \E s \in Snaps : Park(p, k, s)
                       \/ Unpark(p, k) \/ Fail(p, k) \/ Forget(p, k)

Spec == Init /\ [][Next]_vars
=============================================================================
