-------------------------- MODULE MCServeRuntime --------------------------
(* Small instances of ServeRuntime.  Model "a" batches and keeps a prompt  *)
(* cache, model "b" does neither.  t3 names b, the others a; t2 needs the  *)
(* larger max_seq and the budget of t4 is refused.                         *)
EXTENDS ServeRuntime

MCModelOf == [t \in Threads |-> IF t = "t3" THEN "b" ELSE "a"]
MCNeeds == [t \in Threads |-> CASE t = "t2" -> 2 [] t = "t4" -> 0 [] OTHER -> 1]
=============================================================================
