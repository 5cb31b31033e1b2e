----------------------------- MODULE QueueFacts -----------------------------
(***************************************************************************)
(* What Append, Head, Tail and concatenation do to a queue, position by    *)
(* position: the facts the proofs about channels and lines rest on.        *)
(***************************************************************************)
EXTENDS Integers, Sequences, FiniteSets, SequencesExt, SequenceTheorems, FiniteSetTheorems,
        WellFoundedInduction, TLAPS

(* Append, position by position. *)
LEMMA AppendAt ==
  ASSUME NEW S, NEW s \in Seq(S), NEW e \in S
  PROVE  /\ Append(s, e) \in Seq(S)
         /\ Len(Append(s, e)) = Len(s) + 1 /\ Len(s) \in Nat
         /\ \A i \in 1 .. Len(s) : Append(s, e)[i] = s[i]
         /\ Append(s, e)[Len(s) + 1] = e
         /\ Append(s, e) # << >>
  BY AppendProperties, LenProperties

(* Head and Tail, position by position. *)
LEMMA TailAt ==
  ASSUME NEW S, NEW s \in Seq(S), s # << >>
  PROVE  /\ Head(s) = s[1] /\ Head(s) \in S /\ Len(s) \in Nat \ {0} /\ 1 \in 1 .. Len(s)
         /\ Tail(s) \in Seq(S)
         /\ Len(Tail(s)) = Len(s) - 1
         /\ \A i \in 1 .. Len(Tail(s)) : Tail(s)[i] = s[i + 1] /\ i + 1 \in 1 .. Len(s)
  <1>1. Len(s) \in Nat \ {0}
    BY EmptySeq
  <1>2. Head(s) = s[1] /\ Head(s) \in S /\ Tail(s) \in Seq(S) /\ Len(Tail(s)) = Len(s) - 1
    BY HeadTailProperties
  <1>3. \A i \in 1 .. Len(Tail(s)) : Tail(s)[i] = s[i + 1] /\ i + 1 \in 1 .. Len(s)
    BY <1>1, <1>2, HeadTailProperties
  <1> QED BY <1>1, <1>2, <1>3

(* One element put behind others. *)
LEMMA ConcatOne ==
  ASSUME NEW S, NEW s \in Seq(S), NEW e \in S
  PROVE  s \o << e >> = Append(s, e)
  BY AppendIsConcat

(* Two one-element sequences. *)
LEMMA ConcatPair ==
  ASSUME NEW S, NEW e \in S, NEW f \in S
  PROVE  << e >> \o << f >> = << e, f >>
  <1> DEFINE u == << e, f >>
             v == << e >> \o << f >>
  <1>0. << e >> \in Seq(S) /\ << f >> \in Seq(S) /\ << e, f >> \in Seq(S)
    OBVIOUS
  <1>1. v \in Seq(S) /\ Len(v) = 2 /\ v[1] = e /\ v[2] = f
    BY <1>0, ConcatProperties
  <1>2. u \in Seq(S) /\ Len(u) = 2 /\ u[1] = e /\ u[2] = f
    BY <1>0
  <1> HIDE DEF u, v
  <1>3. \A i \in 1 .. Len(u) : u[i] = v[i]
    BY <1>1, <1>2
  <1>4. u = v
    BY <1>1, <1>2, <1>3, SeqEqual
  <1> QED BY <1>4 DEF u, v

(* An element put behind a pair. *)
LEMMA ConcatThird ==
  ASSUME NEW S, NEW e \in S, NEW f \in S, NEW g \in S
  PROVE  << e, f >> \o << g >> = << e, f, g >>
  <1> DEFINE u == << e, f, g >>
             v == << e, f >> \o << g >>
  <1>0. << e, f >> \in Seq(S) /\ << g >> \in Seq(S) /\ << e, f, g >> \in Seq(S)
    OBVIOUS
  <1>1. v \in Seq(S) /\ Len(v) = 3 /\ v[1] = e /\ v[2] = f /\ v[3] = g
    BY <1>0, ConcatProperties
  <1>2. u \in Seq(S) /\ Len(u) = 3 /\ u[1] = e /\ u[2] = f /\ u[3] = g
    BY <1>0
  <1> HIDE DEF u, v
  <1>3. \A i \in 1 .. Len(u) : u[i] = v[i]
    BY <1>1, <1>2
  <1>4. u = v
    BY <1>1, <1>2, <1>3, SeqEqual
  <1> QED BY <1>4 DEF u, v

(* Nothing put before an element. *)
LEMMA ConcatNone ==
  ASSUME NEW S, NEW e \in S
  PROVE  << >> \o << e >> = << e >>
  <1>1. << e >> \in Seq(S)
    OBVIOUS
  <1> QED BY <1>1, ConcatEmptySeq

(* Two elements put behind others. *)
LEMMA ConcatTwo ==
  ASSUME NEW S, NEW s \in Seq(S), NEW e \in S, NEW f \in S
  PROVE  s \o << e, f >> = Append(Append(s, e), f)
  <1>1. << e >> \o << f >> = << e, f >>
    BY ConcatPair
  <1>2. << e >> \in Seq(S) /\ << f >> \in Seq(S)
    OBVIOUS
  <1>3. s \o (<< e >> \o << f >>) = (s \o << e >>) \o << f >>
    BY <1>2, ConcatAssociative
  <1>4. s \o << e >> \in Seq(S)
    BY <1>2, ConcatProperties
  <1> QED BY <1>1, <1>3, <1>4, ConcatOne

(* Short tuples. *)
LEMMA TuplesAt ==
  ASSUME NEW S, NEW e \in S, NEW f \in S, NEW g \in S
  PROVE  /\ << e >> \in Seq(S) /\ Len(<< e >>) = 1 /\ << e >>[1] = e
         /\ << e, f >> \in Seq(S) /\ Len(<< e, f >>) = 2 /\ << e, f >>[1] = e /\ << e, f >>[2] = f
         /\ << e, f, g >> \in Seq(S) /\ Len(<< e, f, g >>) = 3
         /\ << e, f, g >>[1] = e /\ << e, f, g >>[2] = f /\ << e, f, g >>[3] = g
  OBVIOUS

(* The elements of a sequence are its set. *)
LEMMA ToSetAt ==
  ASSUME NEW S, NEW s \in Seq(S)
  PROVE  /\ ToSet(s) \subseteq S
         /\ \A e : e \in ToSet(s) <=> \E i \in 1 .. Len(s) : s[i] = e
  BY LenProperties, ElementOfSeq DEF ToSet

-----------------------------------------------------------------------------
(* Queues in which nothing occurs twice *)

Distinct(s) == \A m, n \in 1 .. Len(s) : s[m] = s[n] => m = n

(* An element is put behind those of a queue. *)
LEMMA AppendSet ==
  ASSUME NEW S, NEW s \in Seq(S), NEW e \in S
  PROVE  /\ ToSet(Append(s, e)) = ToSet(s) \cup {e}
         /\ Distinct(s) /\ e \notin ToSet(s) => Distinct(Append(s, e))
  <1>1. /\ Append(s, e) \in Seq(S)
        /\ Len(Append(s, e)) = Len(s) + 1 /\ Len(s) \in Nat
        /\ \A i \in 1 .. Len(s) : Append(s, e)[i] = s[i]
        /\ Append(s, e)[Len(s) + 1] = e
    BY AppendAt
  <1> DEFINE t == Append(s, e)
  <1> HIDE DEF t
  <1>2. /\ t \in Seq(S) /\ Len(t) = Len(s) + 1 /\ Len(s) \in Nat
        /\ \A i \in 1 .. Len(s) : t[i] = s[i]
        /\ t[Len(s) + 1] = e
    BY <1>1 DEF t
  <1>3. \A i \in 1 .. Len(t) : i \in 1 .. Len(s) \/ i = Len(s) + 1
    BY <1>2
  <1>4. \A x : x \in ToSet(s) <=> \E i \in 1 .. Len(s) : s[i] = x
    BY ToSetAt
  <1>5. \A x : x \in ToSet(t) <=> \E i \in 1 .. Len(t) : t[i] = x
    BY <1>2, ToSetAt
  <1>6. ASSUME NEW x PROVE x \in ToSet(t) <=> x \in ToSet(s) \cup {e}
    <2>1. ASSUME x \in ToSet(t) PROVE x \in ToSet(s) \cup {e}
      BY <1>2, <1>3, <1>4, <1>5, <2>1
    <2>2. ASSUME x \in ToSet(s) PROVE x \in ToSet(t)
      <3>1. PICK i \in 1 .. Len(s) : s[i] = x
        BY <1>4, <2>2
      <3>2. i \in 1 .. Len(t) /\ t[i] = x
        BY <1>2, <3>1
      <3> QED BY <1>5, <3>2
    <2>3. e \in ToSet(t)
      <3>1. Len(s) + 1 \in 1 .. Len(t)
        BY <1>2
      <3> QED BY <1>2, <1>5, <3>1
    <2> QED BY <2>1, <2>2, <2>3
  <1>7. ASSUME Distinct(s), e \notin ToSet(s) PROVE Distinct(t)
    <2>1. \A i \in 1 .. Len(s) : s[i] # e
      BY <1>4, <1>7
    <2> QED BY <1>2, <1>3, <1>7, <2>1 DEF Distinct
  <1>8. ToSet(t) = ToSet(s) \cup {e}
    BY <1>6
  <1> QED BY <1>7, <1>8 DEF t

(* The first element leaves a queue. *)
LEMMA TailSet ==
  ASSUME NEW S, NEW s \in Seq(S), s # << >>, Distinct(s)
  PROVE  /\ ToSet(Tail(s)) = ToSet(s) \ {Head(s)}
         /\ Head(s) \in ToSet(s)
         /\ Distinct(Tail(s))
  <1> DEFINE t == Tail(s)
  <1>1. /\ Head(s) = s[1] /\ Len(s) \in Nat \ {0} /\ 1 \in 1 .. Len(s)
        /\ t \in Seq(S) /\ Len(t) = Len(s) - 1
        /\ \A i \in 1 .. Len(t) : t[i] = s[i + 1] /\ i + 1 \in 1 .. Len(s)
    BY TailAt
  <1> HIDE DEF t
  <1>2. \A x : x \in ToSet(s) <=> \E i \in 1 .. Len(s) : s[i] = x
    BY ToSetAt
  <1>3. \A x : x \in ToSet(t) <=> \E i \in 1 .. Len(t) : t[i] = x
    BY <1>1, ToSetAt
  <1>4. ASSUME NEW x PROVE x \in ToSet(t) <=> x \in ToSet(s) \ {s[1]}
    <2>1. ASSUME x \in ToSet(t) PROVE x \in ToSet(s) /\ x # s[1]
      <3>1. PICK i \in 1 .. Len(t) : t[i] = x
        BY <1>3, <2>1
      <3>2. s[i + 1] = x /\ i + 1 \in 1 .. Len(s) /\ i + 1 # 1
        BY <1>1, <3>1
      <3> QED BY <1>1, <1>2, <3>2 DEF Distinct
    <2>2. ASSUME x \in ToSet(s), x # s[1] PROVE x \in ToSet(t)
      <3>1. PICK i \in 1 .. Len(s) : s[i] = x
        BY <1>2, <2>2
      <3>2. i - 1 \in 1 .. Len(t)
        BY <1>1, <2>2, <3>1
      <3>3. t[i - 1] = s[(i - 1) + 1]
        BY <1>1, <3>2
      <3>4. (i - 1) + 1 = i
        BY <3>1
      <3> QED BY <1>3, <3>1, <3>2, <3>3, <3>4
    <2> QED BY <2>1, <2>2
  <1>5. Distinct(t)
    <2>1. SUFFICES ASSUME NEW m \in 1 .. Len(t), NEW n \in 1 .. Len(t), t[m] = t[n]
                   PROVE  m = n
      BY DEF Distinct
    <2>2. s[m + 1] = s[n + 1] /\ m + 1 \in 1 .. Len(s) /\ n + 1 \in 1 .. Len(s)
      BY <1>1, <2>1
    <2>3. m + 1 = n + 1
      BY <2>2 DEF Distinct
    <2> QED BY <2>3
  <1>6. ToSet(t) = ToSet(s) \ {s[1]} /\ s[1] \in ToSet(s)
    BY <1>1, <1>2, <1>4
  <1> QED BY <1>1, <1>5, <1>6 DEF t

(* The empty queue. *)
LEMMA EmptySet ==
  /\ ToSet(<< >>) = {} /\ Distinct(<< >>)
  /\ \A S : \A s \in Seq(S) : ToSet(s) = {} => s = << >>
  <1>1. << >> \in Seq({}) /\ Len(<< >>) = 0
    BY EmptySeq
  <1>2. ToSet(<< >>) = {}
    <2> DEFINE s == << >>
    <2>1. s \in Seq({}) /\ Len(s) = 0
      BY <1>1
    <2> HIDE DEF s
    <2>2. \A e : e \in ToSet(s) <=> \E i \in 1 .. Len(s) : s[i] = e
      BY <2>1, ToSetAt, Zenon
    <2>3. \A e : e \notin ToSet(s)
      BY <2>1, <2>2
    <2>4. ToSet(s) = {}
      BY <2>3
    <2> QED BY <2>4 DEF s
  <1>3. Distinct(<< >>)
    BY <1>1 DEF Distinct
  <1>4. ASSUME NEW S, NEW s \in Seq(S), s # << >> PROVE ToSet(s) # {}
    <2>1. 1 \in 1 .. Len(s)
      BY <1>4, TailAt
    <2> QED BY <2>1, ToSetAt
  <1> QED BY <1>2, <1>3, <1>4

(* A queue of one. *)
LEMMA OneSet ==
  ASSUME NEW S, NEW e \in S
  PROVE  << e >> \in Seq(S) /\ Len(<< e >>) = 1 /\ ToSet(<< e >>) = {e}
  <1>1. << e >> \in Seq(S) /\ Len(<< e >>) = 1
    BY TuplesAt
  <1> DEFINE v == << e >>
  <1>2. \A x : x \in ToSet(v) <=> \E i \in 1 .. Len(v) : v[i] = x
    BY <1>1, ToSetAt
  <1>3. Len(v) = 1 /\ v[1] = e
    BY TuplesAt
  <1> HIDE DEF v
  <1>4. \A i : i \in 1 .. Len(v) <=> i = 1
    BY <1>3
  <1>5. \A x : x \in ToSet(v) <=> x = e
    BY <1>2, <1>3, <1>4, Zenon
  <1>6. ToSet(v) = {e}
    BY <1>5
  <1> QED BY <1>1, <1>6 DEF v

-----------------------------------------------------------------------------
(* Finite sets of numbers *)

(* A set of naturals has a least element. *)
LEMMA NatMin ==
  ASSUME NEW T \in SUBSET Nat, T # {}
  PROVE  \E x \in T : \A y \in T : x <= y
  <1> DEFINE R == OpToRel(<, Nat)
  <1>1. IsWellFoundedOn(R, Nat)
    BY NatLessThanWellFounded, Zenon
  <1>2. \A x, y \in Nat : x < y => << x, y >> \in R
    BY DEF OpToRel
  <1> HIDE DEF R
  <1>3. PICK x \in T : \A y \in T : ~ (<< y, x >> \in R)
    BY <1>1, WFMin, Zenon
  <1>4. \A y \in T : ~ (y < x)
    BY <1>2, <1>3
  <1>5. x \in Nat /\ \A y \in T : y \in Nat
    OBVIOUS
  <1>6. \A y \in T : x <= y
    BY <1>4, <1>5
  <1> QED BY <1>6

(* A bounded set of naturals has a greatest element. *)
LEMMA NatMax ==
  ASSUME NEW T \in SUBSET Nat, T # {}, NEW b \in Nat, \A y \in T : y <= b
  PROVE  \E x \in T : \A y \in T : y <= x
  <1> DEFINE U == {b - y : y \in T}
  <1>0. \A y \in T : b - y \in Nat
    OBVIOUS
  <1>1. U \in SUBSET Nat /\ U # {}
    BY <1>0
  <1> HIDE DEF U
  <1>2. PICK u \in U : \A v \in U : u <= v
    BY <1>1, NatMin
  <1>3. PICK x \in T : u = b - x
    BY <1>2 DEF U
  <1>4. \A y \in T : b - y \in U
    BY DEF U
  <1>5. \A y \in T : b - x <= b - y /\ x \in Nat /\ y \in Nat
    BY <1>2, <1>3, <1>4
  <1>6. \A y \in T : y <= x
    BY <1>5
  <1> QED BY <1>6

(* What Min returns. *)
LEMMA MinIs ==
  ASSUME NEW T \in SUBSET Nat, T # {}
  PROVE  Min(T) \in T /\ \A y \in T : Min(T) <= y
  <1>1. \E x \in T : \A y \in T : x <= y
    BY NatMin
  <1> QED BY <1>1 DEF Min

(* What Max returns. *)
LEMMA MaxIs ==
  ASSUME NEW T \in SUBSET Nat, T # {}, NEW b \in Nat, \A y \in T : y <= b
  PROVE  Max(T) \in T /\ \A y \in T : y <= Max(T)
  <1>1. \E x \in T : \A y \in T : y <= x
    BY NatMax
  <1>2. \A x, y \in T : y <= x <=> x >= y
    OBVIOUS
  <1>3. \E x \in T : \A y \in T : x >= y
    BY <1>1, <1>2
  <1>4. Max(T) \in T /\ \A y \in T : Max(T) >= y
    BY <1>3 DEF Max
  <1> QED BY <1>2, <1>4
=============================================================================
