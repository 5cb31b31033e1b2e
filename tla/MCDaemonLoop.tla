--------------------------- MODULE MCDaemonLoop ---------------------------
(* Small instances of DaemonLoop.  b1 and b2 are batch requests, b2 longer *)
(* than b1, which may also be a request the batch does not take.  x is     *)
(* what a driver in full swing has to hold back or refuse, g one it        *)
(* refuses, y a request of any kind but the refused and the bring-up one.  *)
EXTENDS DaemonLoop

Ask(what, params, n) == [kind |-> what, cohort |-> params, work |-> n]
MCRequests ==
  [k \in Keys |->
     CASE k = "b1" -> {Ask("batch", "warm", 1), Ask("plain", "warm", 1)}
       [] k = "b2" -> {Ask("batch", "warm", 2)}
       [] k = "x" -> {Ask("batch", "cold", 1)}
            \cup {Ask(what, "warm", 1) : what \in {"think", "quiet", "long"} \cup Commands}
       [] k = "g" -> {Ask("long", "warm", 1)}
       [] k = "y" -> {Ask("batch", "warm", 2)}
            \cup {Ask(what, "cold", 1) : what \in {"batch", "plain", "think"} \cup Commands}]
=============================================================================
