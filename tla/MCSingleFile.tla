---------------------------- MODULE MCSingleFile ----------------------------
(* Instances of SingleFile for TLC.                                        *)
EXTENDS SingleFile, TLC

(* Items, contents and etags are only compared.                            *)
Symmetry == Permutations(Idents) \cup Permutations(Hashes) \cup Permutations(Etags)
=============================================================================
