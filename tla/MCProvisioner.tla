--------------------------- MODULE MCProvisioner ---------------------------
(* Provisioner for TLC. *)
EXTENDS Provisioner

\* Two tenants with names and priorities of their own.
Apart == [t \in Tenants |-> t]
=============================================================================
