-------------------------- MODULE MCSampleService --------------------------
(* SampleService in both roles. *)
EXTENDS SampleService

MCRoles == {"SERVER", "CLIENT"}
=============================================================================
