---------------------------- MODULE MCAuditChain ----------------------------
(* Instances of AuditChain.                                                *)
EXTENDS AuditChain, TLC

Interchangeable == Permutations(Writers)
=============================================================================
