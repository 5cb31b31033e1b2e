--------------------------- MODULE BackendLease ---------------------------
(***************************************************************************)
(* What the serve layer's admission gate promises, with no queue, counter  *)
(* or condition variable: the backend is lent either to one request alone  *)
(* or to at most Capacity requests that agree on the model.                *)
(* HttpAdmission implements this specification.                            *)
(***************************************************************************)
EXTENDS Integers, FiniteSets

CONSTANTS Threads, Models, NoModel, Capacity

VARIABLE lease  \* [Threads -> Leases]: what each request thread holds

Free == [class |-> "free", model |-> NoModel]
Leases == [class : {"free", "shared", "exclusive"}, model : Models \cup {NoModel}]

Holders == {t \in Threads : lease[t] # Free}

\* A request that names no model goes along with any.
Agree(m, n) == m = NoModel \/ n = NoModel \/ m = n

Init == lease = [t \in Threads |-> Free]

GrantExclusive(t) ==
  /\ Holders = {}
  /\ lease' = [lease EXCEPT ![t] = [class |-> "exclusive", model |-> NoModel]]

GrantShared(t, m) ==
  /\ lease[t] = Free
  /\ Cardinality(Holders) < Capacity
  /\ \A u \in Holders : lease[u].class = "shared" /\ Agree(lease[u].model, m)
  /\ lease' = [lease EXCEPT ![t] = [class |-> "shared", model |-> m]]

GiveBack(t) ==
  /\ lease[t] # Free
  /\ lease' = [lease EXCEPT ![t] = Free]

Next ==
  \E t \in Threads : \/ GrantExclusive(t)
                     \/ \E m \in Models \cup {NoModel} : GrantShared(t, m)
                     \/ GiveBack(t)

Spec == Init /\ [][Next]_lease

\* The gate protects the backend (Admission in hipfire-cli/src/main.rs): a
\* request that holds it exclusively is alone, never more than Capacity requests
\* hold it, and requests that share it and name a model name the same one.
BackendProtected ==
  /\ \A t, u \in Holders : lease[t].class = "exclusive" => t = u
  /\ Cardinality(Holders) <= Capacity
  /\ \A t, u \in Holders : Agree(lease[t].model, lease[u].model)
=============================================================================
