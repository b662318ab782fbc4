-------------------------------- MODULE MCSync --------------------------------
(***************************************************************************)
(* Instances of Sync for TLC: one or two items, and two places to keep     *)
(* them at.                                                                *)
(***************************************************************************)
EXTENDS Sync

CONSTANTS i1, i2, h1, h2

OneIdent == {i1}
TwoIdents == {i1, i2}
TwoHrefs == {h1, h2}
MCHrefOf == [i \in Idents |-> IF i = i1 THEN h1 ELSE h2]

(* Every version in a storage and in both tables, and a fresh one.         *)
MCEtags == 1 .. Cardinality(Hrefs) + 2 * Cardinality(Idents) + 1
MCFirstEtag == [i \in Idents |-> IF i = i1 THEN 1 ELSE 2]
=============================================================================
