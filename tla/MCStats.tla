------------------------------ MODULE MCStats ------------------------------
(* The statistics on small instances. *)
EXTENDS Stats
=============================================================================
