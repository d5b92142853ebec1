----------------------------- MODULE MCSession -----------------------------
(***************************************************************************)
(* Session on small instances: an account that exists, of either type, and *)
(* one that has yet to sign up.                                            *)
(***************************************************************************)
EXTENDS Session
=============================================================================
