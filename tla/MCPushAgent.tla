----------------------------- MODULE MCPushAgent -----------------------------
(* A small instance: two suffixes, two ports, two generations.              *)
EXTENDS PushAgent
=============================================================================
