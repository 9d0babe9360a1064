---------------------------- MODULE MCSocksProxy ----------------------------
(* Small instances of SocksProxy.  The goroutines are interchangeable      *)
(* within their kind.                                                      *)
EXTENDS SocksProxy, TLC

Symmetry == Permutations(Clients) \cup Permutations(Listeners)
=============================================================================
