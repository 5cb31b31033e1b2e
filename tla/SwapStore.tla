----------------------------- MODULE SwapStore -----------------------------
(***************************************************************************)
(* Where a swapped-out session's snapshot lives: struct SwapStore of       *)
(* hipfire-runtime/src/swap/store.rs (host memory up to a budget, then one *)
(* scratch file per key) under SwapManager of swap/mod.rs.                 *)
(*                                                                         *)
(* Procs are the processes that use one scratch directory.  serve passes   *)
(* the fixed path <tmp>/hipfire-serve-swap, so two servers on one machine  *)
(* share it.  A process owns its SwapStore and runs one operation at a     *)
(* time; another process's operation may come between any two.  Files      *)
(* survive a crash.  At most MaxFaults filesystem operations fail.         *)
(***************************************************************************)
EXTENDS Integers, FiniteSets, Functions

CONSTANTS
  Procs,
  Keys,        \* session ids: every process counts them from zero
  Sizes,       \* payload sizes a snapshot may have
  HostBudget,  \* host_budget_bytes
  MaxPuts,     \* bound: snapshots made in one behaviour
  FaultKinds,  \* which filesystem operations may fail
  MaxFaults    \* bound: filesystem failures in one behaviour

ASSUME StoreAssumption ==
  /\ Sizes \subseteq Nat
  /\ Procs \cap {"no file", "torn", "nothing", "failed", "previous run"} = {}
  /\ HostBudget \in Nat /\ MaxPuts \in Nat /\ MaxFaults \in Nat

VARIABLES
  alive,      \* which processes have a SwapStore
  entries,    \* the HashMap: key to [tier, snap]; a disk entry's snap is what
              \* was written, while take returns what the file holds
  host_used,
  files,      \* the directory: key to a whole snapshot, a torn one, or no file
  result,     \* the snapshot the last operation stored or returned, or how it ended
  puts, faults

vars == << alive, entries, host_used, files, result, puts, faults >>

\* A snapshot, told apart by the process and put it comes from.
Snaps == [owner : Procs \cup {"previous run"}, num : 0 .. MaxPuts, size : Sizes]

\* Values that are not snapshots, in the shape of one.
Mark(what) == [owner |-> what, num |-> 0, size |-> 0]
NoFile == Mark("no file")
Torn == Mark("torn")
Nothing == Mark("nothing")
Failed == Mark("failed")
NoEntry == [tier |-> "none", snap |-> Nothing]
Host(s) == [tier |-> "host", snap |-> s]
Disk(s) == [tier |-> "disk", snap |-> s]
Empty == [k \in Keys |-> NoEntry]
Without(gone) == [k \in Keys |-> IF k \in gone THEN NoFile ELSE files[k]]

Leftovers == {NoFile, Torn} \cup [owner : {"previous run"}, num : {0}, size : Sizes]

Init ==
  /\ alive = [p \in Procs |-> FALSE]
  /\ entries = [p \in Procs |-> Empty]
  /\ host_used = [p \in Procs |-> 0]
  /\ files \in [Keys -> Leftovers]
  /\ result = Nothing
  /\ puts = 0 /\ faults = 0

Fault(kind) == kind \in FaultKinds /\ faults < MaxFaults /\ faults' = faults + 1
NoFault == UNCHANGED faults

\* remove_file, whose result is ignored wherever it is called.
remove_file(k) ==
  \/ files' = [files EXCEPT ![k] = NoFile] /\ NoFault
  \/ UNCHANGED files /\ Fault("remove")

\* The map entry of key k is replaced, or removed (NoEntry).
SetEntry(p, k, x) == entries' = [entries EXCEPT ![p][k] = x]

\* Mutant of freed: an old snapshot's bytes come off host_used whatever its tier.
freed_any_tier(p, k) == host_used[p] - entries[p][k].snap.size

\* Mutant of freed: the old snapshot's bytes are not given back.
freed_nothing(p, k) == host_used[p]

\* host_used once whatever the key holds is gone.
freed(p, k) ==
  IF entries[p][k].tier # "host" THEN host_used[p]
  ELSE IF entries[p][k].snap.size > host_used[p] THEN 0
  ELSE host_used[p] - entries[p][k].snap.size

-----------------------------------------------------------------------------
\* Clear the directory, then start with nothing.  A failure leaves no store and
\* any part of the directory cleared.
new(p) ==
  /\ ~ alive[p]
  /\ \/ /\ alive' = [alive EXCEPT ![p] = TRUE]
        /\ files' = Without(Keys)
        /\ result' = Nothing
        /\ NoFault
     \/ /\ \E gone \in SUBSET Keys : files' = Without(gone)
        /\ result' = Failed
        /\ Fault("new")
        /\ UNCHANGED alive
  /\ UNCHANGED << entries, host_used, puts >>

\* Mutant of put_host: an entry that is there is kept (entry().or_insert).
put_host_if_absent(p, k, s) ==
  /\ freed(p, k) + s.size <= HostBudget
  /\ IF entries[p][k] = NoEntry
     THEN /\ host_used' = [host_used EXCEPT ![p] = @ + s.size]
          /\ SetEntry(p, k, Host(s))
     ELSE UNCHANGED << host_used, entries >>
  /\ result' = s
  /\ UNCHANGED << files, faults >>

\* The new snapshot fits the host tier once the key's old one is gone.
put_host(p, k, s) ==
  /\ freed(p, k) + s.size <= HostBudget
  /\ host_used' = [host_used EXCEPT ![p] = freed(p, k) + s.size]
  /\ SetEntry(p, k, Host(s))
  /\ result' = s
  /\ IF entries[p][k].tier = "disk" THEN remove_file(k) ELSE UNCHANGED << files, faults >>

\* Mutant of put_disk: the result of the write is ignored.
put_disk_unchecked(p, k, s) ==
  /\ freed(p, k) + s.size > HostBudget
  /\ host_used' = [host_used EXCEPT ![p] = freed(p, k)]
  /\ SetEntry(p, k, Disk(s))
  /\ result' = s
  /\ \/ files' = [files EXCEPT ![k] = s] /\ NoFault
     \/ UNCHANGED files /\ Fault("write")

\* It does not: write the file.  A failed write leaves a torn file, no file, or
\* what was there (nothing opened, the old file not removed); the key is empty.
put_disk(p, k, s) ==
  /\ freed(p, k) + s.size > HostBudget
  /\ host_used' = [host_used EXCEPT ![p] = freed(p, k)]
  /\ \/ /\ files' = [files EXCEPT ![k] = s]
        /\ SetEntry(p, k, Disk(s))
        /\ result' = s
        /\ NoFault
     \/ /\ \/ files' = [files EXCEPT ![k] = Torn]
           \/ entries[p][k].tier = "disk" /\ files' = [files EXCEPT ![k] = NoFile]
           \/ UNCHANGED files
        /\ SetEntry(p, k, NoEntry)
        /\ result' = Failed
        /\ Fault("write")

put(p, k) ==
  /\ alive[p]
  /\ puts < MaxPuts
  /\ puts' = puts + 1
  /\ \E size \in Sizes :
     \E s \in {[owner |-> p, num |-> puts + 1, size |-> size]} :
       put_host(p, k, s) \/ put_disk(p, k, s)
  /\ UNCHANGED alive

\* take, through unpark.  The entry goes first, whatever the file then does: it
\* may be unreadable (and is then left where it is), torn, or whole.
take(p, k) ==
  /\ alive[p]
  /\ SetEntry(p, k, NoEntry)
  /\ host_used' = [host_used EXCEPT ![p] = freed(p, k)]
  /\ CASE entries[p][k].tier = "none" ->
            result' = Failed /\ UNCHANGED << files, faults >>
       [] entries[p][k].tier = "host" ->
            result' = entries[p][k].snap /\ UNCHANGED << files, faults >>
       [] entries[p][k].tier = "disk" ->
            \/ /\ files[k] # NoFile
               /\ result' = IF files[k] = Torn THEN Failed ELSE files[k]
               /\ remove_file(k)
            \/ /\ files[k] = NoFile
               /\ result' = Failed
               /\ UNCHANGED << files, faults >>
            \/ /\ Fault("read")
               /\ result' = Failed
               /\ UNCHANGED files
  /\ UNCHANGED << alive, puts >>

drop_key(p, k) ==
  /\ alive[p]
  /\ SetEntry(p, k, NoEntry)
  /\ host_used' = [host_used EXCEPT ![p] = freed(p, k)]
  /\ result' = Nothing
  /\ IF entries[p][k].tier = "disk" THEN remove_file(k) ELSE UNCHANGED << files, faults >>
  /\ UNCHANGED << alive, puts >>

\* The process ends: by Drop, which removes the directory, or with no destructor
\* run (serve's signal handler calls process::exit, or it crashes), or half way.
Stop(p) ==
  /\ alive[p]
  /\ alive' = [alive EXCEPT ![p] = FALSE]
  /\ entries' = [entries EXCEPT ![p] = Empty]
  /\ host_used' = [host_used EXCEPT ![p] = 0]
  /\ result' = Nothing
  /\ \E gone \in SUBSET Keys : files' = Without(gone)
  /\ UNCHANGED << puts, faults >>

\* A file of the directory, which lies under the system's temporary directory,
\* is damaged or removed from outside.
Damage(k) ==
  /\ files[k] # NoFile
  /\ \E x \in {Torn, NoFile} : files' = [files EXCEPT ![k] = x]
  /\ Fault("damage")
  /\ UNCHANGED << alive, entries, host_used, result, puts >>

Next ==
  \/ \E p \in Procs :
       \/ new(p) \/ Stop(p)
       \/ \E k \in Keys : put(p, k) \/ take(p, k) \/ drop_key(p, k)
  \/ \E k \in Keys : Damage(k)

Spec == Init /\ [][Next]_vars

-----------------------------------------------------------------------------
(* Properties *)

Entry == {NoEntry} \cup [tier : {"host", "disk"}, snap : Snaps]

\* Type invariant; a process without a store has no entries.
TypeOK ==
  /\ alive \in [Procs -> BOOLEAN]
  /\ entries \in [Procs -> [Keys -> Entry]]
  /\ \A p \in Procs : ~ alive[p] => entries[p] = Empty
  /\ host_used \in [Procs -> Nat]
  /\ files \in [Keys -> Snaps \cup {NoFile, Torn}]
  /\ result \in Snaps \cup {Nothing, Failed}
  /\ puts \in 0 .. MaxPuts /\ faults \in Nat

HostEntries(p) == {k \in Keys : entries[p][k].tier = "host"}
SnapSizes(p) == [k \in Keys |-> entries[p][k].snap.size]

\* host_used is the memory the host tier holds, never more than the budget, over
\* replaced keys, spills, takes and failures (put, take and drop_key).
HostUsedExact ==
  \A p \in Procs :
    /\ host_used[p] = SumFunctionOnSet(SnapSizes(p), HostEntries(p))
    /\ host_used[p] <= HostBudget

\* A disk entry's file is the one written for it, or take will find it damaged or
\* gone and refuse it: the entry never names another snapshot's file.
DiskEntryBacked ==
  \A p \in Procs, k \in Keys :
    entries[p][k].tier = "disk" => files[k] \in {entries[p][k].snap, Torn, NoFile}

Parked == [p \in Procs |-> [k \in Keys |-> entries[p][k].snap]]

Abstract == INSTANCE SnapshotStore WITH parked <- Parked

\* take returns the snapshot this process last put under the key, once, or fails:
\* never a leftover file, an older put or "plausible bytes, wrong conversation"
\* (store.rs), across spills, failed writes and reads, restarts and damage.
ImplementsStore == Abstract!Spec
=============================================================================
