-------------------------- MODULE MCHttpAdmission --------------------------
(* Four request threads: two name model m1, one m2, one names none.        *)
EXTENDS HttpAdmission

MCModelOf == [t \in Threads |-> CASE t = "t3" -> "m2" [] t = "t4" -> NoModel [] OTHER -> "m1"]
=============================================================================
