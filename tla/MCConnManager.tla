---------------------------- MODULE MCConnManager ----------------------------
(* Bounds for ConnManager: three goroutines race for one host; three      *)
(* connection objects are enough for one published and two being dialled.  *)
EXTENDS ConnManager
=============================================================================
