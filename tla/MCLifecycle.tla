---------------------------- MODULE MCLifecycle ----------------------------
(***************************************************************************)
(* Instances of Lifecycle for TLC: every command line, over two            *)
(* connections.                                                            *)
(***************************************************************************)
EXTENDS Lifecycle

AllFlags ==
  [opa : BOOLEAN, embed : BOOLEAN, params : BOOLEAN, schema : BOOLEAN,
   names : BOOLEAN, admin : BOOLEAN, rate : BOOLEAN, upstream : BOOLEAN,
   metrics : BOOLEAN, maxBodyMB : {-1, 1}]

OneCommandLine ==
  {f \in AllFlags : /\ f.opa /\ ~f.embed /\ ~f.params /\ ~f.schema /\ ~f.names
                    /\ ~f.admin /\ ~f.metrics /\ f.rate /\ f.upstream /\ f.maxBodyMB > 0}

=============================================================================
