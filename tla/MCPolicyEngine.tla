--------------------------- MODULE MCPolicyEngine ---------------------------
(* PolicyEngine for TLC: the operations that are safe to use.              *)
EXTENDS PolicyEngine

SafeKinds == AllKinds \ {"unsafe"}
=============================================================================
