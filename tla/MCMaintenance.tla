---------------------------- MODULE MCMaintenance ----------------------------
(***************************************************************************)
(* A fresh installation and a bundle of another one with a single source.  *)
(***************************************************************************)
EXTENDS Maintenance

MCBundle == [sources |-> {"s1"}, runs |-> 1, files |-> {"s1"}, refs |-> {"s1"}]
=============================================================================
