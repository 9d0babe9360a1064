--------------------------- MODULE MCAdminServer ---------------------------
(* Small instances of AdminServer.  Connections are interchangeable.       *)
EXTENDS AdminServer

Symmetry == Permutations(Conns)
=============================================================================
