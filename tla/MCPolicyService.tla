--------------------------- MODULE MCPolicyService ----------------------------
(* Instances of PolicyService for model checking. *)
EXTENDS PolicyService
MCStems == <<"a", "b">>
OneStem == <<"a">>
=============================================================================
