----------------------------- MODULE MCDiscovery -----------------------------
(***************************************************************************)
(* Two directories and a server, and the kinds of "collections" options.   *)
(***************************************************************************)
EXTENDS Discovery, TLC

CONSTANTS n1, n2, dir, dir2, server

MCConfigs ==
  {[a |-> dir, b |-> server, collections |-> <<From("a"), From("b")>>, implicit |-> TRUE],
   [a |-> dir2, b |-> server, collections |-> <<Named(n1, n1, n2)>>, implicit |-> FALSE],
   [a |-> dir, b |-> server, collections |-> <<From("a"), Named(n2, None, n1)>>, implicit |-> FALSE],
   [a |-> dir, b |-> server, collections |-> <<From("b"), Named(n1, n1, n2)>>, implicit |-> FALSE],
   [a |-> dir, b |-> server, collections |-> None, implicit |-> FALSE]}

Symmetry == Permutations(Procs)
=============================================================================
