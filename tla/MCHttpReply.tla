---------------------------- MODULE MCHttpReply ----------------------------
(* A reply of at most two tokens or tool-call lines per attempt.           *)
EXTENDS HttpReply
=============================================================================
