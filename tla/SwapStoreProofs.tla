-------------------------- MODULE SwapStoreProofs --------------------------
(***************************************************************************)
(* Proofs about SwapStore for any set of keys and snapshot sizes, any      *)
(* budget and any number of puts and failures.  The results about memory   *)
(* are for any number of processes; those about files are for a directory  *)
(* used by one process, which is what they need.                           *)
(***************************************************************************)
EXTENDS SwapStore, FiniteSetTheorems, TLAPS

-----------------------------------------------------------------------------
(* Sums over finite sets.  The library's induction theorems take an        *)
(* operator, which no prover here can instantiate; WFMin takes a set, so   *)
(* the inductions below go by a least counterexample.                      *)

(* f gives every subset of S the sum of w over it. *)
Additive(f, w, S) ==
  /\ f \in [SUBSET S -> Nat]
  /\ f[{}] = 0
  /\ \A s \in SUBSET S : \A x \in s : f[s] = w[x] + f[s \ {x}]

Pick(s) == CHOOSE x \in s : TRUE
(* f is a solution of the recursion SumFunctionOnSet is defined by. *)
Sums(f, w, S) == f = [s \in SUBSET S |-> IF s = {} THEN 0 ELSE w[Pick(s)] + f[s \ {Pick(s)}]]

(* SumFunctionOnSet takes a solution of that recursion. *)
LEMMA SumUnfolds ==
  ASSUME NEW w, NEW S
  PROVE  SumFunctionOnSet(w, S) = (CHOOSE f : Sums(f, w, S))[S]
  BY DEF SumFunctionOnSet, FoldFunctionOnSet, MapThenFoldSet, Sums, Pick

(* A nonempty set of subsets of a finite set has a least one. *)
LEMMA SubsetMin ==
  ASSUME NEW K, IsFiniteSet(K), NEW T, T \subseteq SUBSET K, T # {}
  PROVE  \E s \in T : \A r \in T : ~ (r \subseteq s /\ r # s)
  <1>1. T \subseteq FiniteSubsetsOf(K)
    BY FS_FiniteSubsetsOfFinite
  <1>2. PICK s \in T : \A r \in T : ~ (<< r, s >> \in StrictSubsetOrdering(K))
    BY <1>1, WFMin, FS_StrictSubsetOrderingWellFounded
  <1>3. ASSUME NEW r \in T, r \subseteq s, r # s PROVE FALSE
    <2>1. << r, s >> \in (SUBSET K) \X (SUBSET K)
      OBVIOUS
    <2>2. << r, s >> \in StrictSubsetOrdering(K)
      BY <1>3, <2>1 DEF StrictSubsetOrdering
    <2> QED BY <1>2, <2>2
  <1> QED BY <1>2, <1>3

(* An additive function for S gives one for S with another element. *)
LEMMA AdditiveExtends ==
  ASSUME NEW S, NEW a, a \notin S, NEW w, \A x \in S \cup {a} : w[x] \in Nat,
         NEW f, Additive(f, w, S)
  PROVE  \E g : Additive(g, w, S \cup {a})
  <1> DEFINE A == S \cup {a}
             g == [s \in SUBSET A |-> IF a \in s THEN w[a] + f[s \ {a}] ELSE f[s]]
  <1>1. \A s \in SUBSET A : s \ {a} \in SUBSET S /\ (a \notin s => s \in SUBSET S)
    OBVIOUS
  <1>2. \A s \in SUBSET S : f[s] \in Nat
    BY DEF Additive
  <1>3. g \in [SUBSET A -> Nat]
    BY <1>1, <1>2
  <1>4. g[{}] = 0
    BY DEF Additive
  <1>5. ASSUME NEW s \in SUBSET A, NEW x \in s
        PROVE  g[s] = w[x] + g[s \ {x}]
    <2>0. s \ {x} \in SUBSET A /\ s \ {a} \in SUBSET S
      OBVIOUS
    <2>1. CASE x = a
      <3>1. g[s] = w[a] + f[s \ {a}]
        BY <2>1
      <3>2. g[s \ {a}] = f[s \ {a}]
        BY <2>0, <2>1
      <3> QED BY <2>1, <3>1, <3>2
    <2>2. CASE x # a /\ a \in s
      <3>1. g[s] = w[a] + f[s \ {a}]
        BY <2>2
      <3>2. x \in s \ {a}
        BY <2>2
      <3>3. f[s \ {a}] = w[x] + f[(s \ {a}) \ {x}]
        BY <2>0, <3>2 DEF Additive
      <3>4. (s \ {a}) \ {x} = (s \ {x}) \ {a} /\ a \in s \ {x}
        BY <2>2
      <3>5. g[s \ {x}] = w[a] + f[(s \ {a}) \ {x}]
        BY <2>0, <3>4
      <3>6. w[a] \in Nat /\ w[x] \in Nat /\ f[(s \ {a}) \ {x}] \in Nat
        BY <1>2
      <3> HIDE DEF g
      <3> QED BY <3>1, <3>3, <3>5, <3>6
    <2>3. CASE a \notin s
      <3>1. s \in SUBSET S /\ a \notin s \ {x}
        BY <2>3
      <3>2. g[s] = f[s] /\ g[s \ {x}] = f[s \ {x}]
        BY <2>0, <2>3, <3>1
      <3> QED BY <3>1, <3>2 DEF Additive
    <2> QED BY <2>1, <2>2, <2>3
  <1>6. Additive(g, w, A)
    <2> HIDE DEF g
    <2> QED BY <1>3, <1>4, <1>5 DEF Additive
  <1> QED BY <1>6

(* Every finite set has an additive function. *)
LEMMA AdditiveExists ==
  ASSUME NEW K, IsFiniteSet(K), NEW w, \A x \in K : w[x] \in Nat
  PROVE  \A S \in SUBSET K : \E f : Additive(f, w, S)
  <1> DEFINE T == {S \in SUBSET K : ~ \E f : Additive(f, w, S)}
  <1> SUFFICES ASSUME T # {} PROVE FALSE
    OBVIOUS
  <1>1. PICK S \in T : \A r \in T : ~ (r \subseteq S /\ r # S)
    <2>1. T \subseteq SUBSET K
      OBVIOUS
    <2> HIDE DEF T
    <2> QED BY <2>1, SubsetMin
  <1>2. S # {}
    <2>1. Additive([s \in SUBSET {} |-> 0], w, {})
      BY DEF Additive
    <2> QED BY <2>1
  <1>3. PICK a : a \in S
    BY <1>2
  <1>4. S \ {a} \in SUBSET K /\ S \ {a} \notin T
    BY <1>1, <1>3
  <1>5. PICK f : Additive(f, w, S \ {a})
    BY <1>4
  <1>6. (S \ {a}) \cup {a} = S /\ \A x \in S : w[x] \in Nat
    BY <1>3
  <1>7. \E g : Additive(g, w, (S \ {a}) \cup {a})
    BY <1>5, <1>6, AdditiveExtends
  <1> QED BY <1>6, <1>7

(* The recursion has no other solution than the additive function. *)
LEMMA SumsAreAdditive ==
  ASSUME NEW S, IsFiniteSet(S), NEW w, NEW f, Additive(f, w, S), NEW g, Sums(g, w, S)
  PROVE  g = f
  <1>1. g = [s \in SUBSET S |-> IF s = {} THEN 0 ELSE w[Pick(s)] + g[s \ {Pick(s)}]]
    BY DEF Sums
  <1>2. ASSUME NEW s \in SUBSET S, s # {}
        PROVE  /\ Pick(s) \in s
               /\ g[s] = w[Pick(s)] + g[s \ {Pick(s)}]
    BY <1>1, <1>2 DEF Pick
  <1>3. g[{}] = 0
    BY <1>1
  <1> DEFINE T == {s \in SUBSET S : g[s] # f[s]}
  <1>4. ASSUME T # {} PROVE FALSE
    <2>1. PICK s \in T : \A r \in T : ~ (r \subseteq s /\ r # s)
      <3>1. T \subseteq SUBSET S
        OBVIOUS
      <3> HIDE DEF T
      <3> QED BY <1>4, <3>1, SubsetMin
    <2>2. s # {}
      BY <1>3 DEF Additive
    <2>3. s \ {Pick(s)} \notin T /\ s \ {Pick(s)} \in SUBSET S
      BY <1>2, <2>1, <2>2
    <2>4. f[s] = w[Pick(s)] + f[s \ {Pick(s)}]
      BY <1>2, <2>2 DEF Additive
    <2> QED BY <1>2, <2>2, <2>3, <2>4
  <1>5. \A s \in SUBSET S : g[s] = f[s]
    BY <1>4
  <1>6. DOMAIN g = SUBSET S /\ g = [s \in DOMAIN g |-> g[s]]
    BY <1>1
  <1> QED BY <1>5, <1>6 DEF Additive

(* SumFunctionOnSet is the additive function, whatever order it adds in. *)
LEMMA SumOfAdditive ==
  ASSUME NEW S, IsFiniteSet(S), NEW w, NEW f, Additive(f, w, S)
  PROVE  SumFunctionOnSet(w, S) = f[S]
  <1>1. Sums(f, w, S)
    <2>1. ASSUME NEW s \in SUBSET S
          PROVE f[s] = IF s = {} THEN 0 ELSE w[Pick(s)] + f[s \ {Pick(s)}]
      <3>1. s # {} => Pick(s) \in s
        BY DEF Pick
      <3> QED BY <3>1 DEF Additive
    <2>2. f = [s \in SUBSET S |-> f[s]]
      BY DEF Additive
    <2> QED BY <2>1, <2>2 DEF Sums
  <1>2. Sums(CHOOSE g : Sums(g, w, S), w, S)
    BY <1>1
  <1>3. (CHOOSE g : Sums(g, w, S)) = f
    BY <1>2, SumsAreAdditive
  <1> QED BY <1>3, SumUnfolds

(* The sum over no keys. *)
LEMMA SumEmpty == ASSUME NEW w PROVE SumFunctionOnSet(w, {}) = 0
  <1>1. Additive([s \in SUBSET {} |-> 0], w, {})
    BY DEF Additive
  <1> QED BY <1>1, SumOfAdditive, FS_EmptySet

(* One more key adds its own value to the sum. *)
LEMMA SumAdd ==
  ASSUME NEW S, IsFiniteSet(S), NEW a, a \notin S, NEW w, \A x \in S \cup {a} : w[x] \in Nat
  PROVE  /\ SumFunctionOnSet(w, S) \in Nat
         /\ SumFunctionOnSet(w, S \cup {a}) = w[a] + SumFunctionOnSet(w, S)
  <1>1. IsFiniteSet(S \cup {a})
    BY FS_AddElement
  <1>2. PICK f : Additive(f, w, S \cup {a})
    BY <1>1, AdditiveExists
  <1> DEFINE g == [s \in SUBSET S |-> f[s]]
  <1>3. Additive(g, w, S)
    BY <1>2 DEF Additive
  <1>4. SumFunctionOnSet(w, S \cup {a}) = f[S \cup {a}]
    BY <1>1, <1>2, SumOfAdditive
  <1>5. SumFunctionOnSet(w, S) = f[S]
    BY <1>3, SumOfAdditive
  <1>6. f[S \cup {a}] = w[a] + f[(S \cup {a}) \ {a}] /\ f[S] \in Nat
    BY <1>2 DEF Additive
  <1>7. (S \cup {a}) \ {a} = S
    OBVIOUS
  <1> QED BY <1>4, <1>5, <1>6, <1>7

(* The sum depends only on the values of the keys it is over. *)
LEMMA SumSame ==
  ASSUME NEW S, IsFiniteSet(S), NEW v, NEW w, \A x \in S : v[x] \in Nat /\ w[x] = v[x]
  PROVE  SumFunctionOnSet(w, S) = SumFunctionOnSet(v, S)
  <1>1. PICK f : Additive(f, v, S)
    BY AdditiveExists
  <1>2. Additive(f, w, S)
    BY <1>1 DEF Additive
  <1> QED BY <1>1, <1>2, SumOfAdditive

-----------------------------------------------------------------------------
(* Entries *)

(* No mark is a snapshot, and the marks differ. *)
LEMMA MarksDiffer ==
  /\ NoFile \notin Snaps /\ Torn \notin Snaps /\ Nothing \notin Snaps /\ Failed \notin Snaps
  /\ NoFile # Torn /\ Nothing # Failed
  <1>1. \A s \in Snaps : s.owner \in Procs \cup {"previous run"}
    BY DEF Snaps
  <1>2. NoFile.owner = "no file" /\ Torn.owner = "torn" /\ Nothing.owner = "nothing"
        /\ Failed.owner = "failed"
    BY DEF NoFile, Torn, Nothing, Failed, Mark
  <1> QED BY <1>1, <1>2, StoreAssumption DEF StoreAssumption

(* The entry of one key changes and no other. *)
LEMMA EntryChange ==
  ASSUME TypeOK, NEW p \in Procs, NEW k \in Keys, NEW x \in Entry,
         SetEntry(p, k, x)
  PROVE  /\ entries' \in [Procs -> [Keys -> Entry]]
         /\ entries'[p][k] = x
         /\ \A q \in Procs, j \in Keys : q # p \/ j # k => entries'[q][j] = entries[q][j]
         /\ \A q \in Procs \ {p} : entries'[q] = entries[q]
         /\ Parked' = [Parked EXCEPT ![p][k] = x.snap]
  <1>1. entries \in [Procs -> [Keys -> Entry]]
    BY DEF TypeOK
  <1> USE DEF SetEntry
  <1>2. entries' \in [Procs -> [Keys -> Entry]]
    BY <1>1
  <1>3. entries'[p][k] = x
    BY <1>1
  <1>4. \A q \in Procs, j \in Keys : q # p \/ j # k => entries'[q][j] = entries[q][j]
    BY <1>1
  <1>5. \A q \in Procs \ {p} : entries'[q] = entries[q]
    BY <1>1
  <1>6. Parked' = [Parked EXCEPT ![p][k] = x.snap]
    BY <1>1, <1>3, <1>4 DEF Parked
  <1> QED BY <1>2, <1>3, <1>4, <1>5, <1>6

(* Entries by tier. *)
LEMMA EntryKinds ==
  /\ NoEntry \in Entry /\ NoEntry.tier = "none" /\ NoEntry.snap = Nothing
  /\ \A s \in Snaps : /\ Host(s) \in Entry /\ Host(s).tier = "host" /\ Host(s).snap = s
                      /\ Disk(s) \in Entry /\ Disk(s).tier = "disk" /\ Disk(s).snap = s
  /\ \A x \in Entry : /\ x.tier \in {"none", "host", "disk"}
                      /\ x.tier = "none" => x = NoEntry
                      /\ x.tier # "none" => x.snap \in Snaps
  BY DEF Entry, NoEntry, Host, Disk

(* An emptied key has nothing parked. *)
LEMMA KeyEmptied ==
  ASSUME TypeOK, NEW p \in Procs, NEW k \in Keys,
         SetEntry(p, k, NoEntry)
  PROVE  Parked' = [Parked EXCEPT ![p][k] = Nothing]
  <1>1. NoEntry \in Entry /\ NoEntry.snap = Nothing
    BY EntryKinds
  <1>2. Parked' = [Parked EXCEPT ![p][k] = NoEntry.snap]
    BY <1>1, EntryChange
  <1> QED BY <1>1, <1>2

(* The snapshot a put makes, and what freeing its key leaves. *)
LEMMA PutSnap ==
  ASSUME TypeOK, NEW p \in Procs, NEW size \in Sizes, puts < MaxPuts
  PROVE  [owner |-> p, num |-> puts + 1, size |-> size] \in Snaps /\ size \in Nat
  <1>1. puts \in 0 .. MaxPuts
    BY DEF TypeOK
  <1>2. MaxPuts \in Nat /\ size \in Nat
    BY StoreAssumption DEF StoreAssumption
  <1>3. puts + 1 \in 0 .. MaxPuts
    BY <1>1, <1>2
  <1> QED BY <1>2, <1>3 DEF Snaps

(* What freeing a key leaves of host_used is a number of bytes. *)
LEMMA FreedType ==
  ASSUME TypeOK, NEW p \in Procs, NEW k \in Keys
  PROVE  freed(p, k) \in Nat
  <1>1. CASE entries[p][k].tier # "host"
    BY <1>1 DEF freed, TypeOK
  <1>2. CASE entries[p][k].tier = "host"
    <2>1. entries[p][k].snap \in Snaps
      BY <1>2, EntryKinds DEF TypeOK
    <2>2. entries[p][k].snap.size \in Nat
      BY <2>1, StoreAssumption DEF Snaps, StoreAssumption
    <2> QED BY <1>2, <2>2 DEF freed, TypeOK
  <1> QED BY <1>1, <1>2

-----------------------------------------------------------------------------
(* What put, take and drop_key have in common: one key's entry and file    *)
(* change, and a disk entry left behind has its own file, a torn or none.  *)
LEMMA KeyStep ==
  ASSUME TypeOK, DiskEntryBacked, NEW p \in Procs, Procs = {p}, NEW k \in Keys,
         NEW x \in Entry, alive[p], alive' = alive,
         SetEntry(p, k, x),
         NEW n \in Nat, host_used' = [host_used EXCEPT ![p] = n],
         files' \in [Keys -> Snaps \cup {NoFile, Torn}],
         \A j \in Keys \ {k} : files'[j] = files[j],
         x.tier = "disk" => files'[k] \in {x.snap, Torn, NoFile},
         result' \in Snaps \cup {Nothing, Failed},
         puts' \in 0 .. MaxPuts, faults' \in Nat
  PROVE  TypeOK' /\ DiskEntryBacked'
  <1>0. /\ entries' \in [Procs -> [Keys -> Entry]]
        /\ entries'[p][k] = x
        /\ \A q \in Procs, j \in Keys : q # p \/ j # k => entries'[q][j] = entries[q][j]
    BY EntryChange
  <1>1. /\ entries' \in [Procs -> [Keys -> Entry]]
        /\ entries'[p][k] = x
        /\ \A j \in Keys \ {k} : entries'[p][j] = entries[p][j]
    BY <1>0
  <1>2. host_used' \in [Procs -> Nat] /\ alive' \in [Procs -> BOOLEAN]
    BY DEF TypeOK
  <1>3. \A q \in Procs : alive'[q]
    OBVIOUS
  <1>4. TypeOK'
    BY <1>1, <1>2, <1>3 DEF TypeOK
  <1>5. ASSUME NEW j \in Keys, entries'[p][j].tier = "disk"
        PROVE  files'[j] \in {entries'[p][j].snap, Torn, NoFile}
    <2>1. CASE j = k
      BY <1>1, <1>5, <2>1
    <2>2. CASE j # k
      BY <1>1, <1>5, <2>2 DEF DiskEntryBacked
    <2> QED BY <2>1, <2>2
  <1> QED BY <1>4, <1>5 DEF DiskEntryBacked

(* remove_file touches one file and may fail. *)
LEMMA RemoveFile ==
  ASSUME TypeOK, NEW k \in Keys, remove_file(k) \/ UNCHANGED << files, faults >>
  PROVE  /\ files' \in [Keys -> Snaps \cup {NoFile, Torn}]
         /\ \A j \in Keys \ {k} : files'[j] = files[j]
         /\ faults' \in Nat
  BY DEF TypeOK, remove_file, Fault, NoFault

(* put parks the snapshot it was given, or fails and empties the key. *)
LEMMA PutStep ==
  ASSUME TypeOK, DiskEntryBacked, NEW p \in Procs, Procs = {p}, NEW k \in Keys, put(p, k)
  PROVE  TypeOK' /\ DiskEntryBacked' /\ Abstract!Next
  <1>1. PICK size \in Sizes :
          put_host(p, k, [owner |-> p, num |-> puts + 1, size |-> size])
          \/ put_disk(p, k, [owner |-> p, num |-> puts + 1, size |-> size])
    BY DEF put
  <1> DEFINE s == [owner |-> p, num |-> puts + 1, size |-> size]
  <1>2. s \in Snaps /\ s.size \in Nat
    BY PutSnap DEF put
  <1>3. /\ alive[p] /\ alive' = alive /\ puts' \in 0 .. MaxPuts
        /\ freed(p, k) \in Nat
    BY FreedType, StoreAssumption DEF put, TypeOK, StoreAssumption
  <1> HIDE DEF s
  <1>4. CASE put_host(p, k, s)
    <2>1. /\ SetEntry(p, k, Host(s))
          /\ host_used' = [host_used EXCEPT ![p] = freed(p, k) + s.size]
          /\ result' = s
          /\ remove_file(k) \/ UNCHANGED << files, faults >>
      BY <1>4 DEF put_host
    <2>2. freed(p, k) + s.size \in Nat /\ Host(s) \in Entry
          /\ Host(s).tier = "host" /\ Host(s).snap = s
      BY <1>2, <1>3, EntryKinds
    <2>3. TypeOK' /\ DiskEntryBacked'
      BY <1>2, <1>3, <2>1, <2>2, RemoveFile, KeyStep
    <2>4. Parked' = [Parked EXCEPT ![p][k] = Host(s).snap]
      BY <2>1, <2>2, EntryChange
    <2>5. Abstract!Park(p, k, s)
      BY <2>1, <2>2, <2>4 DEF Abstract!Park, Abstract!Set
    <2> QED BY <1>2, <2>3, <2>5 DEF Abstract!Next
  <1>5. CASE /\ put_disk(p, k, s)
             /\ files' = [files EXCEPT ![k] = s]
             /\ SetEntry(p, k, Disk(s))
             /\ result' = s
             /\ NoFault
    <2>1. Disk(s) \in Entry /\ Disk(s).snap = s
      BY <1>2, EntryKinds
    <2>2. /\ files' \in [Keys -> Snaps \cup {NoFile, Torn}] /\ files'[k] = s
          /\ \A j \in Keys \ {k} : files'[j] = files[j]
          /\ faults' \in Nat
          /\ host_used' = [host_used EXCEPT ![p] = freed(p, k)]
      BY <1>2, <1>5 DEF TypeOK, NoFault, put_disk
    <2>3. TypeOK' /\ DiskEntryBacked'
      BY <1>2, <1>3, <1>5, <2>1, <2>2, KeyStep
    <2>4. Parked' = [Parked EXCEPT ![p][k] = Disk(s).snap]
      BY <1>5, <2>1, EntryChange
    <2>5. Abstract!Park(p, k, s)
      BY <1>5, <2>1, <2>4 DEF Abstract!Park, Abstract!Set
    <2> QED BY <1>2, <2>3, <2>5 DEF Abstract!Next
  <1>6. CASE /\ put_disk(p, k, s)
             /\ \/ files' = [files EXCEPT ![k] = Torn]
                \/ files' = [files EXCEPT ![k] = NoFile]
                \/ UNCHANGED files
             /\ SetEntry(p, k, NoEntry)
             /\ result' = Failed
             /\ Fault("write")
    <2>1. /\ files' \in [Keys -> Snaps \cup {NoFile, Torn}]
          /\ \A j \in Keys \ {k} : files'[j] = files[j]
          /\ faults' \in Nat
          /\ host_used' = [host_used EXCEPT ![p] = freed(p, k)]
      BY <1>6 DEF TypeOK, Fault, put_disk
    <2>2. TypeOK' /\ DiskEntryBacked'
      BY <1>3, <1>6, <2>1, EntryKinds, KeyStep
    <2>3. Abstract!Fail(p, k)
      BY <1>6, EntryKinds, EntryChange DEF Abstract!Fail, Abstract!Set
    <2> QED BY <2>2, <2>3 DEF Abstract!Next
  <1>8. put_host(p, k, s) \/ put_disk(p, k, s)
    BY <1>1 DEF s
  <1> QED BY <1>4, <1>5, <1>6, <1>8 DEF put_disk

(* take returns what was parked under the key and empties it, or fails. *)
LEMMA TakeStep ==
  ASSUME TypeOK, DiskEntryBacked, NEW p \in Procs, Procs = {p}, NEW k \in Keys, take(p, k)
  PROVE  TypeOK' /\ DiskEntryBacked' /\ Abstract!Next
  <1>1. /\ alive[p] /\ alive' = alive /\ puts' \in 0 .. MaxPuts
        /\ SetEntry(p, k, NoEntry)
        /\ host_used' = [host_used EXCEPT ![p] = freed(p, k)]
        /\ freed(p, k) \in Nat
    BY FreedType DEF take, TypeOK
  <1>2. entries[p][k] \in Entry /\ entries[p][k].tier \in {"none", "host", "disk"}
    BY EntryKinds DEF TypeOK
  <1>3. Parked' = [Parked EXCEPT ![p][k] = Nothing] /\ Parked[p][k] = entries[p][k].snap
    BY <1>1, KeyEmptied DEF Parked
  <1>4. /\ files' \in [Keys -> Snaps \cup {NoFile, Torn}]
        /\ \A j \in Keys \ {k} : files'[j] = files[j]
        /\ faults' \in Nat
    <2>1. CASE remove_file(k) \/ UNCHANGED << files, faults >>
      BY <2>1, RemoveFile
    <2>2. CASE Fault("read") /\ UNCHANGED files
      BY <2>2 DEF Fault, TypeOK
    <2> QED BY <1>2, <2>1, <2>2 DEF take
  <1>5. \/ result' = Failed
        \/ entries[p][k].tier # "none" /\ result' = entries[p][k].snap
    <2>1. CASE entries[p][k].tier = "none"
      BY <2>1 DEF take
    <2>2. CASE entries[p][k].tier = "host"
      BY <2>2 DEF take
    <2>3. CASE entries[p][k].tier = "disk"
      <3>1. files[k] \in {entries[p][k].snap, Torn, NoFile}
        BY <2>3 DEF DiskEntryBacked
      <3> QED BY <2>3, <3>1 DEF take
    <2> QED BY <1>2, <2>1, <2>2, <2>3
  <1>6. result' \in Snaps \cup {Nothing, Failed}
    BY <1>2, <1>5, EntryKinds
  <1>7. TypeOK' /\ DiskEntryBacked'
    BY <1>1, <1>4, <1>6, EntryKinds, KeyStep
  <1>8. CASE result' = Failed
    <2>1. Abstract!Fail(p, k)
      BY <1>3, <1>8 DEF Abstract!Fail, Abstract!Set
    <2> QED BY <1>7, <2>1 DEF Abstract!Next
  <1>9. CASE entries[p][k].tier # "none" /\ result' = entries[p][k].snap
    <2>1. Parked[p][k] # Nothing
      BY <1>2, <1>3, <1>9, EntryKinds, MarksDiffer
    <2>2. Abstract!Unpark(p, k)
      BY <1>3, <1>9, <2>1 DEF Abstract!Unpark, Abstract!Set
    <2> QED BY <1>7, <2>2 DEF Abstract!Next
  <1> QED BY <1>5, <1>8, <1>9

(* drop_key forgets what was parked under the key. *)
LEMMA DropKeyStep ==
  ASSUME TypeOK, DiskEntryBacked, NEW p \in Procs, Procs = {p}, NEW k \in Keys, drop_key(p, k)
  PROVE  TypeOK' /\ DiskEntryBacked' /\ Abstract!Next
  <1>1. /\ alive[p] /\ alive' = alive /\ puts' \in 0 .. MaxPuts
        /\ SetEntry(p, k, NoEntry)
        /\ host_used' = [host_used EXCEPT ![p] = freed(p, k)]
        /\ freed(p, k) \in Nat
        /\ result' = Nothing
        /\ remove_file(k) \/ UNCHANGED << files, faults >>
    BY FreedType DEF drop_key, TypeOK
  <1>2. TypeOK' /\ DiskEntryBacked'
    BY <1>1, RemoveFile, EntryKinds, KeyStep
  <1>3. Parked' = [Parked EXCEPT ![p][k] = Nothing]
    BY <1>1, KeyEmptied
  <1>4. Abstract!Forget(p, k)
    BY <1>1, <1>3 DEF Abstract!Forget, Abstract!Set
  <1> QED BY <1>2, <1>4 DEF Abstract!Next

(* A process starts, or stops: it has nothing parked. *)
LEMMA RestartStep ==
  ASSUME TypeOK, DiskEntryBacked, NEW p \in Procs, Procs = {p}, new(p) \/ Stop(p)
  PROVE  TypeOK' /\ DiskEntryBacked' /\ Abstract!Next
  <1>1. entries'[p] = Empty /\ entries' \in [Procs -> [Keys -> Entry]]
    BY EntryKinds DEF new, Stop, TypeOK, Empty
  <1>2. files' \in [Keys -> Snaps \cup {NoFile, Torn}]
    BY DEF new, Stop, TypeOK, Without
  <1>3. /\ alive' \in [Procs -> BOOLEAN] /\ host_used' \in [Procs -> Nat]
        /\ result' \in {Nothing, Failed}
        /\ puts' \in 0 .. MaxPuts /\ faults' \in Nat
    <2>1. alive' \in [Procs -> BOOLEAN]
      BY DEF new, Stop, TypeOK
    <2>2. host_used' \in [Procs -> Nat]
      BY DEF new, Stop, TypeOK
    <2>3. result' \in {Nothing, Failed}
      BY DEF new, Stop
    <2>4. puts' = puts /\ faults' \in {faults, faults + 1}
      BY DEF new, Stop, Fault, NoFault
    <2>5. puts \in 0 .. MaxPuts /\ faults \in Nat
      BY DEF TypeOK
    <2> QED BY <2>1, <2>2, <2>3, <2>4, <2>5
  <1>4. \A k \in Keys : entries'[p][k] = NoEntry
    BY <1>1 DEF Empty
  <1>5. TypeOK' /\ DiskEntryBacked'
    BY <1>1, <1>2, <1>3, <1>4, EntryKinds DEF TypeOK, DiskEntryBacked
  <1>6. Parked' = [Parked EXCEPT ![p] = [k \in Keys |-> Nothing]]
    BY <1>4, EntryKinds DEF Parked
  <1>7. Abstract!Restart(p)
    BY <1>3, <1>6 DEF Abstract!Restart
  <1> QED BY <1>5, <1>7 DEF Abstract!Next

(* Damage is seen by nobody until the file is taken. *)
LEMMA DamageStep ==
  ASSUME TypeOK, DiskEntryBacked, NEW k \in Keys, Damage(k)
  PROVE  TypeOK' /\ DiskEntryBacked' /\ UNCHANGED << Parked, result >>
  <1>1. files' \in [Keys -> Snaps \cup {NoFile, Torn}] /\ faults' \in Nat
    BY DEF Damage, Fault, TypeOK
  <1>2. TypeOK'
    BY <1>1 DEF Damage, TypeOK
  <1>3. \A j \in Keys : files'[j] \in {files[j], Torn, NoFile}
    BY DEF Damage, TypeOK
  <1>4. DiskEntryBacked'
    BY <1>3 DEF Damage, DiskEntryBacked
  <1> QED BY <1>2, <1>4 DEF Damage, Parked

(* Whatever files an earlier run left, nothing is parked at first. *)
LEMMA StoreInit == Init => TypeOK /\ DiskEntryBacked /\ Abstract!Init
  <1> SUFFICES ASSUME Init PROVE TypeOK /\ DiskEntryBacked /\ Abstract!Init
    OBVIOUS
  <1>1. \A p \in Procs, k \in Keys : entries[p][k] = NoEntry
    BY DEF Init, Empty
  <1>2. entries \in [Procs -> [Keys -> Entry]]
    BY EntryKinds DEF Init, Empty
  <1>3. files \in [Keys -> Snaps \cup {NoFile, Torn}]
    <2>1. MaxPuts \in Nat
      BY StoreAssumption DEF StoreAssumption
    <2>2. 0 \in 0 .. MaxPuts
      BY <2>1
    <2>3. [owner : {"previous run"}, num : {0}, size : Sizes] \subseteq Snaps
      BY <2>2 DEF Snaps
    <2>4. Leftovers \subseteq Snaps \cup {NoFile, Torn}
      BY <2>3 DEF Leftovers
    <2> QED BY <2>4 DEF Init
  <1>4. puts \in 0 .. MaxPuts /\ faults \in Nat
    <2>1. MaxPuts \in Nat
      BY StoreAssumption DEF StoreAssumption
    <2>2. puts = 0 /\ faults = 0
      BY DEF Init
    <2> QED BY <2>1, <2>2
  <1>5. TypeOK
    BY <1>2, <1>3, <1>4 DEF Init, TypeOK
  <1>6. DiskEntryBacked
    BY <1>1, EntryKinds DEF DiskEntryBacked
  <1>7. Abstract!Init
    BY <1>1, EntryKinds DEF Abstract!Init, Parked, Init
  <1> QED BY <1>5, <1>6, <1>7

(* Every step of the only process preserves the invariant and is abstract. *)
LEMMA StoreNext ==
  ASSUME NEW p, Procs = {p}, TypeOK, DiskEntryBacked, [Next]_vars
  PROVE  TypeOK' /\ DiskEntryBacked' /\ (Abstract!Next \/ UNCHANGED << Parked, result >>)
  <1>1. CASE UNCHANGED vars
    BY <1>1 DEF vars, TypeOK, DiskEntryBacked, Parked
  <1>2. CASE Next
    <2>1. CASE \E q \in Procs : new(q) \/ Stop(q)
      BY <2>1, RestartStep
    <2>2. CASE \E q \in Procs, k \in Keys : put(q, k)
      BY <2>2, PutStep
    <2>3. CASE \E q \in Procs, k \in Keys : take(q, k)
      BY <2>3, TakeStep
    <2>4. CASE \E q \in Procs, k \in Keys : drop_key(q, k)
      BY <2>4, DropKeyStep
    <2>5. CASE \E k \in Keys : Damage(k)
      BY <2>5, DamageStep
    <2> QED BY <1>2, <2>1, <2>2, <2>3, <2>4, <2>5 DEF Next
  <1> QED BY <1>1, <1>2

(* With a directory of its own, a disk entry never names another           *)
(* snapshot's file, however many keys, puts, restarts and failures.        *)
THEOREM EntriesKeepTheirFiles ==
  ASSUME NEW p, Procs = {p}
  PROVE  Spec => [](TypeOK /\ DiskEntryBacked)
  <1>1. Init => TypeOK /\ DiskEntryBacked
    BY StoreInit
  <1>2. TypeOK /\ DiskEntryBacked /\ [Next]_vars => (TypeOK /\ DiskEntryBacked)'
    BY StoreNext
  <1> QED BY <1>1, <1>2, PTL DEF Spec

(* With a directory of its own, the two-tier store implements              *)
(* SnapshotStore: a take returns the snapshot last put under the key,      *)
(* once, or fails.                                                         *)
THEOREM StoreImplementsSnapshots ==
  ASSUME NEW p, Procs = {p}
  PROVE  Spec => ImplementsStore
  <1>1. Init => Abstract!Init
    BY StoreInit
  <1>2. TypeOK /\ DiskEntryBacked /\ [Next]_vars => [Abstract!Next]_(Abstract!vars)
    BY StoreNext DEF Abstract!vars
  <1>3. Spec => [](TypeOK /\ DiskEntryBacked)
    BY EntriesKeepTheirFiles
  <1> QED BY <1>1, <1>2, <1>3, PTL DEF Spec, ImplementsStore, Abstract!Spec

-----------------------------------------------------------------------------
(* Memory, for any number of processes                                     *)

HostSize(x) == IF x.tier = "host" THEN x.snap.size ELSE 0

(* What put, take and drop_key do to the memory of process p: the key's    *)
(* entry becomes x, its old bytes are freed and x's charged.               *)
KeyOp(p, k, x) ==
  /\ alive[p] /\ alive' = alive
  /\ SetEntry(p, k, x)
  /\ host_used' = [host_used EXCEPT ![p] = freed(p, k) + HostSize(x)]
  /\ x.tier = "host" => freed(p, k) + HostSize(x) <= HostBudget
  /\ files' \in [Keys -> Snaps \cup {NoFile, Torn}]
  /\ result' \in Snaps \cup {Nothing, Failed}
  /\ puts' \in 0 .. MaxPuts /\ faults' \in Nat

(* An entry's bytes. *)
LEMMA EntrySize ==
  ASSUME NEW x \in Entry
  PROVE  HostSize(x) \in Nat /\ x.snap.size \in Nat
  <1>1. CASE x = NoEntry
    BY <1>1 DEF NoEntry, Nothing, Mark, HostSize
  <1>2. CASE x # NoEntry
    <2>1. x.snap \in Snaps
      BY <1>2, EntryKinds
    <2>2. x.snap.size \in Nat
      BY <2>1, StoreAssumption DEF Snaps, StoreAssumption
    <2> QED BY <2>2 DEF HostSize
  <1> QED BY <1>1, <1>2

(* put is a KeyOp, of the entry it makes or, when the write fails, of none. *)
LEMMA PutIsKeyOp ==
  ASSUME TypeOK, NEW p \in Procs, NEW k \in Keys, put(p, k)
  PROVE  \E x \in Entry : KeyOp(p, k, x)
  <1>1. PICK size \in Sizes :
          put_host(p, k, [owner |-> p, num |-> puts + 1, size |-> size])
          \/ put_disk(p, k, [owner |-> p, num |-> puts + 1, size |-> size])
    BY DEF put
  <1> DEFINE s == [owner |-> p, num |-> puts + 1, size |-> size]
  <1>2. s \in Snaps /\ s.size \in Nat
    BY PutSnap DEF put
  <1>3. /\ alive[p] /\ alive' = alive /\ puts' \in 0 .. MaxPuts
        /\ freed(p, k) \in Nat
    <2>1. puts \in 0 .. MaxPuts /\ puts < MaxPuts /\ puts' = puts + 1 /\ MaxPuts \in Nat
      BY StoreAssumption DEF put, TypeOK, StoreAssumption
    <2>2. puts' \in 0 .. MaxPuts
      BY <2>1
    <2> QED BY <2>2, FreedType DEF put
  <1>4. put_host(p, k, s) \/ put_disk(p, k, s)
    BY <1>1
  <1> HIDE DEF s
  <1>5. /\ Host(s) \in Entry /\ HostSize(Host(s)) = s.size /\ Host(s).tier = "host"
        /\ Disk(s) \in Entry /\ HostSize(Disk(s)) = 0 /\ Disk(s).tier = "disk"
        /\ NoEntry \in Entry /\ HostSize(NoEntry) = 0 /\ NoEntry.tier = "none"
    BY <1>2, EntryKinds DEF HostSize
  <1>6. freed(p, k) + 0 = freed(p, k)
    BY <1>3
  <1>7. CASE put_host(p, k, s)
    <2>1. remove_file(k) \/ UNCHANGED << files, faults >>
      BY <1>7 DEF put_host
    <2>2. files' \in [Keys -> Snaps \cup {NoFile, Torn}] /\ faults' \in Nat
      BY <2>1, RemoveFile
    <2>3. KeyOp(p, k, Host(s))
      BY <1>2, <1>3, <1>5, <1>7, <2>2 DEF KeyOp, put_host
    <2> QED BY <1>5, <2>3
  <1>8. CASE put_disk(p, k, s) /\ result' = s /\ files' = [files EXCEPT ![k] = s]
             /\ SetEntry(p, k, Disk(s)) /\ NoFault
    <2>1. files' \in [Keys -> Snaps \cup {NoFile, Torn}] /\ faults' \in Nat
      BY <1>2, <1>8 DEF TypeOK, NoFault
    <2>2. KeyOp(p, k, Disk(s))
      BY <1>2, <1>3, <1>5, <1>6, <1>8, <2>1 DEF KeyOp, put_disk
    <2> QED BY <1>5, <2>2
  <1>9. CASE /\ put_disk(p, k, s)
             /\ \/ files' = [files EXCEPT ![k] = Torn]
                \/ files' = [files EXCEPT ![k] = NoFile]
                \/ UNCHANGED files
             /\ SetEntry(p, k, NoEntry) /\ result' = Failed /\ Fault("write")
    <2>1. files' \in [Keys -> Snaps \cup {NoFile, Torn}] /\ faults' \in Nat
      BY <1>9 DEF TypeOK, Fault
    <2>2. KeyOp(p, k, NoEntry)
      BY <1>3, <1>5, <1>6, <1>9, <2>1 DEF KeyOp, put_disk
    <2> QED BY <1>5, <2>2
  <1> QED BY <1>4, <1>7, <1>8, <1>9 DEF put_disk

(* take and drop_key are the KeyOp that empties the key, whatever another  *)
(* process has done to the file.                                           *)
LEMMA RemovalIsKeyOp ==
  ASSUME TypeOK, NEW p \in Procs, NEW k \in Keys, take(p, k) \/ drop_key(p, k)
  PROVE  KeyOp(p, k, NoEntry)
  <1>1. /\ alive[p] /\ alive' = alive /\ puts' \in 0 .. MaxPuts
        /\ SetEntry(p, k, NoEntry)
        /\ host_used' = [host_used EXCEPT ![p] = freed(p, k)]
        /\ freed(p, k) \in Nat
    BY FreedType DEF take, drop_key, TypeOK
  <1>2. HostSize(NoEntry) = 0 /\ NoEntry.tier = "none" /\ freed(p, k) + 0 = freed(p, k)
    BY <1>1, EntryKinds DEF HostSize
  <1>3. entries[p][k] \in Entry /\ entries[p][k].tier \in {"none", "host", "disk"}
    BY EntryKinds DEF TypeOK
  <1>4. files' \in [Keys -> Snaps \cup {NoFile, Torn}] /\ faults' \in Nat
    <2>1. CASE remove_file(k) \/ UNCHANGED << files, faults >>
      BY <2>1, RemoveFile
    <2>2. CASE Fault("read") /\ UNCHANGED files
      BY <2>2 DEF Fault, TypeOK
    <2> QED BY <1>3, <2>1, <2>2 DEF take, drop_key
  <1>5. result' \in Snaps \cup {Nothing, Failed}
    <2>1. files[k] \in Snaps \cup {NoFile, Torn}
      BY DEF TypeOK
    <2>2. CASE drop_key(p, k)
      BY <2>2 DEF drop_key
    <2>3. CASE take(p, k) /\ entries[p][k].tier = "none"
      BY <2>3 DEF take
    <2>4. CASE take(p, k) /\ entries[p][k].tier = "host"
      BY <1>3, <2>4, EntryKinds DEF take
    <2>5. CASE take(p, k) /\ entries[p][k].tier = "disk"
      BY <2>1, <2>5 DEF take
    <2> QED BY <1>3, <2>2, <2>3, <2>4, <2>5
  <1> QED BY <1>1, <1>2, <1>4, <1>5 DEF KeyOp

(* A KeyOp keeps the types. *)
LEMMA KeyOpTypes ==
  ASSUME TypeOK, NEW p \in Procs, NEW k \in Keys, NEW x \in Entry, KeyOp(p, k, x)
  PROVE  TypeOK'
  <1>1. /\ entries' \in [Procs -> [Keys -> Entry]]
        /\ \A q \in Procs \ {p} : entries'[q] = entries[q]
    BY EntryChange DEF KeyOp
  <1>2. freed(p, k) + HostSize(x) \in Nat
    BY FreedType, EntrySize
  <1>3. host_used' \in [Procs -> Nat]
    BY <1>2 DEF KeyOp, TypeOK
  <1>4. \A q \in Procs : ~ alive'[q] => entries'[q] = Empty
    BY <1>1 DEF KeyOp, TypeOK
  <1> QED BY <1>1, <1>3, <1>4 DEF KeyOp, TypeOK

(* freed is the host tier without the key: the clamp at zero never bites.  *)
LEMMA FreedIsTheRest ==
  ASSUME TypeOK, HostUsedExact, IsFiniteSet(Keys), NEW p \in Procs, NEW k \in Keys
  PROVE  /\ freed(p, k) = SumFunctionOnSet(SnapSizes(p), HostEntries(p) \ {k})
         /\ freed(p, k) <= HostBudget
  <1> DEFINE R == HostEntries(p) \ {k}
  <1>1. HostEntries(p) \subseteq Keys /\ IsFiniteSet(R)
    BY FS_Subset DEF HostEntries
  <1>2. \A j \in Keys : SnapSizes(p)[j] = entries[p][j].snap.size /\ SnapSizes(p)[j] \in Nat
    BY EntrySize DEF SnapSizes, TypeOK
  <1>3. /\ host_used[p] = SumFunctionOnSet(SnapSizes(p), HostEntries(p))
        /\ host_used[p] <= HostBudget
    BY DEF HostUsedExact
  <1>4. HostBudget \in Nat /\ host_used[p] \in Nat
    BY StoreAssumption DEF StoreAssumption, TypeOK
  <1>5. CASE entries[p][k].tier = "host"
    <2>1. k \in HostEntries(p) /\ HostEntries(p) = R \cup {k} /\ k \notin R
      BY <1>5 DEF HostEntries
    <2> HIDE DEF R
    <2>2. \A j \in R \cup {k} : SnapSizes(p)[j] \in Nat
      BY <1>1, <1>2, <2>1
    <2>3. /\ SumFunctionOnSet(SnapSizes(p), R) \in Nat
          /\ SumFunctionOnSet(SnapSizes(p), R \cup {k})
               = SnapSizes(p)[k] + SumFunctionOnSet(SnapSizes(p), R)
      BY <1>1, <2>1, <2>2, SumAdd
    <2>4. host_used[p] = entries[p][k].snap.size + SumFunctionOnSet(SnapSizes(p), R)
          /\ entries[p][k].snap.size \in Nat
      BY <1>2, <1>3, <2>1, <2>3
    <2>5. freed(p, k) = host_used[p] - entries[p][k].snap.size
      BY <1>4, <1>5, <2>3, <2>4 DEF freed
    <2>6. freed(p, k) = SumFunctionOnSet(SnapSizes(p), R) /\ freed(p, k) <= HostBudget
      BY <1>3, <1>4, <2>3, <2>4, <2>5
    <2> QED BY <2>6 DEF R
  <1>6. CASE entries[p][k].tier # "host"
    <2>1. R = HostEntries(p)
      BY <1>6 DEF HostEntries
    <2> QED BY <1>3, <1>6, <2>1 DEF freed
  <1> QED BY <1>5, <1>6

(* A KeyOp keeps the account exact, in its process and in the others. *)
LEMMA KeyOpAccount ==
  ASSUME TypeOK, HostUsedExact, IsFiniteSet(Keys),
         NEW p \in Procs, NEW k \in Keys, NEW x \in Entry, KeyOp(p, k, x)
  PROVE  HostUsedExact'
  <1> DEFINE R == HostEntries(p) \ {k}
             n == freed(p, k) + HostSize(x)
  <1>1. /\ entries' \in [Procs -> [Keys -> Entry]]
        /\ entries'[p][k] = x
        /\ \A q \in Procs, j \in Keys : q # p \/ j # k => entries'[q][j] = entries[q][j]
        /\ \A q \in Procs \ {p} : entries'[q] = entries[q]
    BY EntryChange DEF KeyOp
  <1>2. /\ freed(p, k) = SumFunctionOnSet(SnapSizes(p), R)
        /\ freed(p, k) <= HostBudget
    BY FreedIsTheRest
  <1>3. freed(p, k) \in Nat /\ HostSize(x) \in Nat /\ x.snap.size \in Nat
    BY FreedType, EntrySize
  <1>4. host_used'[p] = n /\ \A q \in Procs \ {p} : host_used'[q] = host_used[q]
    BY DEF KeyOp, TypeOK
  <1>5. R \subseteq Keys /\ IsFiniteSet(R) /\ k \notin R
    BY FS_Subset DEF HostEntries
  <1>6. \A j \in R : SnapSizes(p)[j] \in Nat /\ SnapSizes(p)'[j] = SnapSizes(p)[j]
    BY <1>1, EntrySize DEF SnapSizes, TypeOK, HostEntries
  <1>7. SnapSizes(p)'[k] = x.snap.size
    BY <1>1 DEF SnapSizes
  <1>8. HostEntries(p)' = IF x.tier = "host" THEN R \cup {k} ELSE R
    BY <1>1 DEF HostEntries
  <1>9. n <= HostBudget
    BY <1>2, <1>3 DEF KeyOp, HostSize
  <1> HIDE DEF R
  <1>10. SumFunctionOnSet(SnapSizes(p)', R) = freed(p, k)
    <2> DEFINE v == SnapSizes(p)
               w == SnapSizes(p)'
    <2>1. \A j \in R : v[j] \in Nat /\ w[j] = v[j]
      BY <1>6
    <2> HIDE DEF v, w
    <2>2. SumFunctionOnSet(w, R) = SumFunctionOnSet(v, R)
      BY <1>5, <2>1, SumSame
    <2> QED BY <1>2, <2>2 DEF v, w
  <1>11. host_used'[p] = SumFunctionOnSet(SnapSizes(p)', HostEntries(p)')
    <2>1. CASE x.tier = "host"
      <3> DEFINE w == SnapSizes(p)'
      <3>1. \A j \in R \cup {k} : w[j] \in Nat
        BY <1>3, <1>6, <1>7
      <3>2. w[k] = x.snap.size /\ SumFunctionOnSet(w, R) = freed(p, k)
        BY <1>7, <1>10
      <3> HIDE DEF w
      <3>3. SumFunctionOnSet(w, R \cup {k}) = w[k] + SumFunctionOnSet(w, R)
        BY <1>5, <3>1, SumAdd
      <3>4. n = x.snap.size + freed(p, k)
        BY <1>3, <2>1 DEF HostSize
      <3>5. n = SumFunctionOnSet(w, R \cup {k})
        BY <3>2, <3>3, <3>4
      <3> QED BY <1>4, <1>8, <2>1, <3>5 DEF w
    <2>2. CASE x.tier # "host"
      <3>1. n = freed(p, k)
        BY <1>3, <2>2 DEF HostSize
      <3> QED BY <1>4, <1>8, <1>10, <2>2, <3>1
    <2> QED BY <2>1, <2>2
  <1>12. ASSUME NEW q \in Procs \ {p}
         PROVE  /\ host_used'[q] = SumFunctionOnSet(SnapSizes(q)', HostEntries(q)')
                /\ host_used'[q] <= HostBudget
    <2>1. SnapSizes(q)' = SnapSizes(q) /\ HostEntries(q)' = HostEntries(q)
      BY <1>1, <1>12 DEF SnapSizes, HostEntries
    <2>2. /\ host_used[q] = SumFunctionOnSet(SnapSizes(q), HostEntries(q))
          /\ host_used[q] <= HostBudget
      BY DEF HostUsedExact
    <2> QED BY <1>4, <1>12, <2>1, <2>2
  <1> QED BY <1>4, <1>9, <1>11, <1>12 DEF HostUsedExact

(* An empty host tier is within the budget. *)
LEMMA BudgetIsNat == HostBudget \in Nat /\ 0 <= HostBudget
  <1>1. HostBudget \in Nat
    BY StoreAssumption DEF StoreAssumption
  <1> QED BY <1>1

(* A process that starts or stops has an empty host tier. *)
LEMMA RestartAccount ==
  ASSUME TypeOK, HostUsedExact, NEW p \in Procs, new(p) \/ Stop(p)
  PROVE  TypeOK' /\ HostUsedExact'
  <1>1. CASE new(p)
    <2>1. UNCHANGED << entries, host_used, puts >>
      BY <1>1 DEF new
    <2>2. HostUsedExact'
      BY <2>1 DEF HostUsedExact, SnapSizes, HostEntries
    <2>3. files' \in [Keys -> Snaps \cup {NoFile, Torn}]
      BY <1>1 DEF new, TypeOK, Without
    <2>4. result' \in {Nothing, Failed} /\ faults' \in {faults, faults + 1}
      BY <1>1 DEF new, Fault, NoFault
    <2>5. alive' = [alive EXCEPT ![p] = TRUE] \/ alive' = alive
      BY <1>1 DEF new
    <2>6. faults' \in Nat
      BY <2>4 DEF TypeOK
    <2>7. alive' \in [Procs -> BOOLEAN] /\ \A q \in Procs : ~ alive'[q] => ~ alive[q]
      BY <2>5 DEF TypeOK
    <2> QED BY <2>1, <2>2, <2>3, <2>4, <2>6, <2>7 DEF TypeOK
  <1>2. CASE Stop(p)
    <2>1. /\ entries' = [entries EXCEPT ![p] = Empty]
          /\ host_used' = [host_used EXCEPT ![p] = 0]
          /\ alive' = [alive EXCEPT ![p] = FALSE]
      BY <1>2 DEF Stop
    <2>2. Empty \in [Keys -> Entry]
      BY EntryKinds DEF Empty
    <2>3. files' \in [Keys -> Snaps \cup {NoFile, Torn}]
      BY <1>2 DEF Stop, TypeOK, Without
    <2>4. TypeOK'
      BY <1>2, <2>1, <2>2, <2>3 DEF Stop, TypeOK
    <2>5. HostEntries(p)' = {} /\ host_used'[p] = 0
      BY <2>1, EntryKinds DEF HostEntries, Empty, TypeOK
    <2>6. SumFunctionOnSet(SnapSizes(p)', {}) = 0 /\ 0 <= HostBudget
      <3> DEFINE w == SnapSizes(p)'
      <3>1. SumFunctionOnSet(w, {}) = 0
        BY SumEmpty
      <3>2. 0 <= HostBudget
        BY BudgetIsNat
      <3> QED BY <3>1, <3>2
    <2>7. ASSUME NEW q \in Procs \ {p}
          PROVE  /\ host_used'[q] = SumFunctionOnSet(SnapSizes(q)', HostEntries(q)')
                 /\ host_used'[q] <= HostBudget
      <3>1. entries'[q] = entries[q] /\ host_used'[q] = host_used[q]
        BY <2>1, <2>7 DEF TypeOK
      <3>2. SnapSizes(q)' = SnapSizes(q) /\ HostEntries(q)' = HostEntries(q)
        BY <3>1 DEF SnapSizes, HostEntries
      <3> QED BY <3>1, <3>2 DEF HostUsedExact
    <2> QED BY <2>4, <2>5, <2>6, <2>7 DEF HostUsedExact
  <1> QED BY <1>1, <1>2

(* Every step keeps the types and the account. *)
LEMMA MemoryNext ==
  ASSUME TypeOK, HostUsedExact, IsFiniteSet(Keys), [Next]_vars
  PROVE  TypeOK' /\ HostUsedExact'
  <1>1. CASE \E p \in Procs, k \in Keys : put(p, k)
    <2>1. PICK p \in Procs, k \in Keys : put(p, k)
      BY <1>1
    <2>2. PICK x \in Entry : KeyOp(p, k, x)
      BY <2>1, PutIsKeyOp
    <2> QED BY <2>2, KeyOpTypes, KeyOpAccount
  <1>2. CASE \E p \in Procs, k \in Keys : take(p, k) \/ drop_key(p, k)
    <2>1. PICK p \in Procs, k \in Keys : take(p, k) \/ drop_key(p, k)
      BY <1>2
    <2>2. KeyOp(p, k, NoEntry) /\ NoEntry \in Entry
      BY <2>1, RemovalIsKeyOp, EntryKinds
    <2> QED BY <2>2, KeyOpTypes, KeyOpAccount
  <1>3. CASE \E p \in Procs : new(p) \/ Stop(p)
    BY <1>3, RestartAccount
  <1>4. CASE \E k \in Keys : Damage(k)
    <2>1. UNCHANGED << entries, host_used >>
      BY <1>4 DEF Damage
    <2>2. HostUsedExact'
      BY <2>1 DEF HostUsedExact, SnapSizes, HostEntries
    <2>3. files' \in [Keys -> Snaps \cup {NoFile, Torn}] /\ faults' \in Nat
      BY <1>4 DEF Damage, Fault, TypeOK
    <2> QED BY <1>4, <2>2, <2>3 DEF Damage, TypeOK
  <1>5. CASE UNCHANGED vars
    BY <1>5 DEF vars, TypeOK, HostUsedExact, SnapSizes, HostEntries
  <1> QED BY <1>1, <1>2, <1>3, <1>4, <1>5 DEF Next

(* Nothing is held at first. *)
LEMMA MemoryInit == Init => TypeOK /\ HostUsedExact
  <1> SUFFICES ASSUME Init PROVE TypeOK /\ HostUsedExact
    OBVIOUS
  <1>1. TypeOK
    BY StoreInit
  <1>2. ASSUME NEW p \in Procs
        PROVE  /\ host_used[p] = SumFunctionOnSet(SnapSizes(p), HostEntries(p))
               /\ host_used[p] <= HostBudget
    <2>1. HostEntries(p) = {} /\ host_used[p] = 0
      BY EntryKinds DEF Init, Empty, HostEntries
    <2>2. SumFunctionOnSet(SnapSizes(p), {}) = 0
      BY SumEmpty
    <2>3. 0 <= HostBudget
      BY BudgetIsNat
    <2> QED BY <2>1, <2>2, <2>3
  <1> QED BY <1>1, <1>2 DEF HostUsedExact

(* However many processes share the directory, host_used is the sum of the *)
(* sizes of what the host tier holds and within the budget: replaced keys, *)
(* spills, failed writes, takes and restarts neither leak a byte of it nor *)
(* give one back twice, so the clamp of freed never hides an error.        *)
THEOREM HostUsedExactHolds ==
  ASSUME IsFiniteSet(Keys)
  PROVE  Spec => []HostUsedExact
  <1>1. Init => TypeOK /\ HostUsedExact
    BY MemoryInit
  <1>2. TypeOK /\ HostUsedExact /\ [Next]_vars => (TypeOK /\ HostUsedExact)'
    BY MemoryNext
  <1> QED BY <1>1, <1>2, PTL DEF Spec

(* The types, with the same argument. *)
THEOREM TypeCorrect ==
  ASSUME IsFiniteSet(Keys)
  PROVE  Spec => []TypeOK
  <1>1. Init => TypeOK /\ HostUsedExact
    BY MemoryInit
  <1>2. TypeOK /\ HostUsedExact /\ [Next]_vars => (TypeOK /\ HostUsedExact)'
    BY MemoryNext
  <1> QED BY <1>1, <1>2, PTL DEF Spec
=============================================================================
