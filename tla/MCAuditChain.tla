---------------------------- MODULE MCAuditChain ----------------------------
(* TLC instance of AuditChain: two organizations, entries that differ.     *)
EXTENDS AuditChain
=============================================================================
