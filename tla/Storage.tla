------------------------------- MODULE Storage -------------------------------
(***************************************************************************)
(* A storage as vdirsyncer sees it: a flat collection of items, each kept  *)
(* under an href and carrying an etag that changes whenever the item does  *)
(* (storage/base.py).  The operators below are the operations of           *)
(* storage/memory.py, the reference implementation the test-suite of the   *)
(* sync algorithm uses.                                                    *)
(*                                                                         *)
(* An item is abstracted to its ident (the UID) and its hash: the          *)
(* algorithm never looks at anything else.                                 *)
(***************************************************************************)
EXTENDS Naturals, FiniteSets

CONSTANTS
  Idents,   \* idents (UIDs) of items
  Hrefs,    \* places in a storage an item can be kept at
  Hashes,   \* contents of an item, named by their hash
  Etags,    \* versions a storage hands out
  HrefOf,   \* the href a storage chooses for a new item, from its ident
  None      \* Python's None

Sides == {"a", "b"}
Other(s) == IF s = "a" THEN "b" ELSE "a"

Item == [ident : Idents, hash : Hashes, etag : Etags]

(* Distinct idents get distinct hrefs: ident + fileext, made safe.         *)
ASSUME HrefOfAssumption ==
  /\ HrefOf \in [Idents -> Hrefs]
  /\ \A i, j \in Idents : HrefOf[i] = HrefOf[j] => i = j

ASSUME NoneAssumption ==
  /\ None \notin Hrefs
  /\ None \notin Etags
  /\ None \notin Hashes
  /\ None \notin Item

Storages == [Hrefs -> Item \cup {None}]
EmptyStorage == [h \in Hrefs |-> None]

Listed(st) == {h \in Hrefs : st[h] # None}

(* Mutant: the etag is not compared.                                       *)
HoldsAnyVersion(st, h, e) == h \in Hrefs /\ st[h] # None

(* The precondition of update and delete: the item is there, and is still  *)
(* the version the caller knows.                                           *)
Holds(st, h, e) == h \in Hrefs /\ st[h] # None /\ st[h].etag = e

Put(st, h, i, c, e) ==
  [st EXCEPT ![h] = [ident |-> i, hash |-> c, etag |-> e]]

Removed(st, h) == [st EXCEPT ![h] = None]

(* What a user sees in a storage: which item has which content.            *)
Contents(st) == {<<st[h].ident, st[h].hash>> : h \in Listed(st)}
=============================================================================
