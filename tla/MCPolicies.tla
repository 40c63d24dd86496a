----------------------------- MODULE MCPolicies -----------------------------
(* Policies with lists of up to three entries and two threads.             *)
EXTENDS Policies

MCErrors == {AlreadyExists, NotFound, Failed}

=============================================================================
