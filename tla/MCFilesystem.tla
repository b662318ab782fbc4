---------------------------- MODULE MCFilesystem ----------------------------
(* Instances of Filesystem for TLC.                                        *)
EXTENDS Filesystem, TLC

CONSTANTS i1, i2, h1, h2

MCHrefOf == [i \in Idents |-> IF i = i1 THEN h1 ELSE h2]

(* Which etag is new, which name mkstemp makes up, and which contents are  *)
(* written makes no difference.                                            *)
Symmetry == Permutations(Etags) \cup Permutations(TempNames) \cup Permutations(Hashes)
=============================================================================
