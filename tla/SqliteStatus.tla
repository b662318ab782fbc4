----------------------------- MODULE SqliteStatus -----------------------------
(***************************************************************************)
(* The status database (sync/status.py).  It has two tables of the same    *)
(* shape, "status" (what the last successful sync left) and "new_status"   *)
(* (what the running sync is writing); a row has, for each side, an href,  *)
(* a hash and an etag, which are all NULL while the side is unknown.       *)
(*                                                                         *)
(* A table is a value of Tables: t[s][i] is side s of the row of ident i,  *)
(* None when those columns are NULL.  A row exists when one side does: no  *)
(* statement of the code ever writes a row with two NULL hashes.           *)
(***************************************************************************)
EXTENDS Storage

(* ItemMetadata: a side of a row.  Its href and etag are NULL when the     *)
(* sync wrote the row without writing to a (read-only) storage.            *)
Meta == [href : Hrefs \cup {None}, hash : Hashes, etag : Etags \cup {None}]

Tables == [Sides -> [Idents -> Meta \cup {None}]]
EmptyTable == [s \in Sides |-> [i \in Idents |-> None]]

ASSUME NoneIsNoMeta == None \notin Meta

HasRow(t, i) == \E s \in Sides : t[s][i] # None

(* get_by_href: the rows of a side that are kept at an href.               *)
ByHref(t, s, h) == {i \in Idents : t[s][i] # None /\ t[s][i].href = h}

SetSide(t, s, i, m) == [t EXCEPT ![s] = [t[s] EXCEPT ![i] = m]]

RemoveIdent(t, i) == [s \in Sides |-> [t[s] EXCEPT ![i] = None]]

(* Mutants: only side a of the row is restored; the row is always dropped. *)
RollbackSideA(new, old, i) == SetSide(new, "a", i, old["a"][i])
RollbackForgets(new, old, i) == RemoveIdent(new, i)

(* rollback: the row of "status" again, or no row if it has none.          *)
Rollback(new, old, i) == [s \in Sides |-> [new[s] EXCEPT ![i] = old[s][i]]]

(* The constraints of the table "status": hash_a and hash_b NOT NULL, and  *)
(* the unique indices by_href_a and by_href_b (NULLs are all different).   *)
TwoSided(t) == \A i \in Idents : (t["a"][i] = None) = (t["b"][i] = None)
HrefsUnique(t) ==
  \A s \in Sides : \A h \in Hrefs : \A i, j \in ByHref(t, s, h) : i = j

(* INSERT INTO status SELECT * FROM new_status is accepted.                *)
Committable(t) == TwoSided(t) /\ HrefsUnique(t)
=============================================================================
