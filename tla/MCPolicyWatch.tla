---------------------------- MODULE MCPolicyWatch -----------------------------
(* Two policy files, with the history variable of PolicyWatch. *)
EXTENDS PolicyWatch, MCPolicyService
=============================================================================
