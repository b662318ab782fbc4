------------------------------ MODULE SingleFile ------------------------------
(***************************************************************************)
(* A storage that keeps all items in one file (storage/singlefile.py).     *)
(* Items are read together by list(), changed in memory, and written       *)
(* together by _write(): after every single operation, or at the end of an *)
(* at_once() block.  Other programs may write the file at any moment.      *)
(*                                                                         *)
(* The href of an item is its ident, its etag the hash of its content; the *)
(* etag of the file is new whenever it is written.                         *)
(***************************************************************************)
EXTENDS Naturals, Sequences

CONSTANTS
  Idents, Hashes, Etags,
  None,          \* Python's None
  ReadOnly,      \* the storage is read_only
  MaxSame,       \* bound: items of the same ident in the file
  MaxEdits,      \* bound: changes made by other programs
  MaxFaults      \* bound: failed writes and errors that end a block

ASSUME NoneAssumption == None \notin Hashes /\ None \notin Etags
ASSUME OptionsAssumption ==
  ReadOnly \in BOOLEAN /\ MaxSame \in Nat \ {0} /\ MaxEdits \in Nat /\ MaxFaults \in Nat

VARIABLES
  file,      \* the file, None if there is none
  items,     \* _items
  lastEtag,  \* _last_etag
  atOnce,    \* _at_once
  pc,        \* "idle", "stat", "read", "buffer", "write" or "rename"
  why,       \* what list() is called for: "list", "get_multi", "block", "single"
  rows,      \* the etags the caller knows, of the items it knows
  before,    \* history: rows when the running call, or block, began
  late,      \* history: the file was changed between check and rename
  edits, faults  \* counters for MaxEdits and MaxFaults

vars == <<file, items, lastEtag, atOnce, pc, why, rows, before, late, edits, faults>>
call == <<atOnce, why, before, late>>
bounds == <<edits, faults>>

(* For every ident the items the file has of it, in their order.  Several  *)
(* ones are VCARDs with the same UID: split_collection groups all others.  *)
Cards == [Idents -> UNION {[1 .. n -> Hashes] : n \in 0 .. MaxSame}]
File == [cards : Cards, etag : Etags]

ASSUME NoneIsNoFile == None \notin File

(* What is in memory: an etag, that is, a content for each ident.          *)
Items == [Idents -> Hashes \cup {None}]
NoItems == [i \in Idents |-> None]

(* split_collection, and the loop over it: later items replace earlier     *)
(* ones of the same ident.                                                 *)
Parsed(f) ==
  IF f = None THEN NoItems
  ELSE [i \in Idents |->
          IF f.cards[i] = <<>> THEN None ELSE f.cards[i][Len(f.cards[i])]]

(* Mutant: what was deleted in memory is still written.                    *)
JoinedWithOld(its) ==
  [i \in Idents |-> IF its[i] = None
                      THEN (IF before[i] = None THEN <<>> ELSE <<before[i]>>)
                      ELSE <<its[i]>>]

(* join_collection                                                         *)
Joined(its) == [i \in Idents |-> IF its[i] = None THEN <<>> ELSE <<its[i]>>]

InUse == (IF file = None THEN {} ELSE {file.etag}) \cup {lastEtag}
FreshEtag == CHOOSE e \in Etags : e \notin InUse
HasFreshEtag == Etags \ InUse # {}

-----------------------------------------------------------------------------
(* The call, or the at_once() block, is over.                              *)
End ==
  /\ pc' = "idle"
  /\ why' = "list"
  /\ atOnce' = FALSE
  /\ before' = NoItems
  /\ late' = FALSE

(* An error leaves it: nothing of it is written, and the caller does not   *)
(* keep what it was told.                                                  *)
Raise == End /\ rows' = before

(* list(), called by itself or by the other operations.                    *)
Start(w) ==
  /\ pc = "idle"
  /\ w = "single" => ~ReadOnly
  /\ why' = w
  /\ items' = NoItems
  /\ before' = rows
  /\ pc' = "stat"
  /\ UNCHANGED <<file, lastEtag, atOnce, rows, late, bounds>>

(* list() has been consumed, and its caller goes on.                       *)
Listed(its) ==
  /\ items' = its
  /\ IF why = "list"
       THEN rows' = its /\ End
       ELSE /\ pc' = "buffer"
            /\ atOnce' = (why # "single")
            /\ UNCHANGED <<rows, why, before, late>>
  /\ UNCHANGED <<file, lastEtag, bounds>>

(* First the etag of the file, then its content.                           *)
Stat ==
  /\ pc = "stat"
  /\ file # None
  /\ lastEtag' = file.etag
  /\ pc' = "read"
  /\ UNCHANGED <<file, items, rows, call, bounds>>

(* There is no file: _last_etag stays as it was.                           *)
StatMisses ==
  /\ pc = "stat"
  /\ file = None
  /\ Listed(NoItems)

Read ==
  /\ pc = "read"
  /\ Listed(Parsed(file))

-----------------------------------------------------------------------------
(* Operations on the items in memory.                                      *)

(* A single operation is written at once.                                  *)
Buffered(i, c) ==
  /\ pc = "buffer"
  /\ why \in {"single", "block"}
  /\ ~ReadOnly
  /\ items' = [items EXCEPT ![i] = c]
  /\ rows' = [rows EXCEPT ![i] = c]
  /\ pc' = IF atOnce THEN "buffer" ELSE "write"
  /\ UNCHANGED <<file, lastEtag, call, bounds>>

(* AlreadyExistingError unless the ident is new.                           *)
Upload(i, c) ==
  /\ rows[i] = None
  /\ items[i] = None
  /\ Buffered(i, c)

(* NotFoundError or WrongEtagError unless it is the item the caller knows. *)
IsCurrent(i) == items[i] # None /\ items[i] = rows[i]

Update(i, c) ==
  /\ rows[i] # None
  /\ IsCurrent(i)
  /\ Buffered(i, c)

Delete(i) ==
  /\ rows[i] # None
  /\ IsCurrent(i)
  /\ Buffered(i, None)

(* get_multi() yields items; NotFoundError when one is gone is AbortBlock. *)
GetMulti(some) ==
  /\ pc = "buffer"
  /\ why = "get_multi"
  /\ \A i \in some : items[i] # None
  /\ rows' = [i \in Idents |-> IF i \in some THEN items[i] ELSE rows[i]]
  /\ pc' = "write"
  /\ UNCHANGED <<file, items, lastEtag, call, bounds>>

EndBlock ==
  /\ pc = "buffer"
  /\ why = "block"
  /\ pc' = "write"
  /\ UNCHANGED <<file, items, lastEtag, rows, call, bounds>>

(* An operation raises, and its caller lets the error out of the block.    *)
AbortBlock ==
  /\ pc = "buffer"
  /\ faults < MaxFaults
  /\ faults' = faults + 1
  /\ Raise
  /\ UNCHANGED <<file, items, lastEtag, edits>>

-----------------------------------------------------------------------------
(* _write()                                                                *)

(* Mutant: the check is left out.                                          *)
NoCheck == TRUE

(* The file is still the one that was read, if there was one.              *)
Unmodified == lastEtag = None \/ (file # None /\ file.etag = lastEtag)

WriteCheck ==
  /\ pc = "write"
  /\ Unmodified
  /\ pc' = "rename"
  /\ late' = FALSE
  /\ UNCHANGED <<file, items, lastEtag, atOnce, why, rows, before, bounds>>

(* PreconditionFailed, or FileNotFoundError: _items and _last_etag stay.   *)
WriteRefused ==
  /\ pc = "write"
  /\ ~Unmodified
  /\ Raise
  /\ UNCHANGED <<file, items, lastEtag, bounds>>

(* atomic_write                                                            *)
Rename ==
  /\ pc = "rename"
  /\ HasFreshEtag
  /\ file' = [cards |-> Joined(items), etag |-> FreshEtag]
  /\ items' = NoItems
  /\ lastEtag' = None
  /\ End
  /\ UNCHANGED <<rows, bounds>>

WriteFails ==
  /\ pc = "rename"
  /\ faults < MaxFaults
  /\ faults' = faults + 1
  /\ items' = NoItems
  /\ lastEtag' = None
  /\ Raise
  /\ UNCHANGED <<file, edits>>

-----------------------------------------------------------------------------
(* Other programs.                                                         *)

Changed ==
  /\ edits < MaxEdits
  /\ edits' = edits + 1
  /\ late' = (pc = "rename")
  /\ UNCHANGED <<items, lastEtag, atOnce, pc, why, rows, before, faults>>

OtherWrites(cards) ==
  /\ HasFreshEtag
  /\ file' = [cards |-> cards, etag |-> FreshEtag]
  /\ Changed

OtherRemoves ==
  /\ file # None
  /\ file' = None
  /\ Changed

-----------------------------------------------------------------------------
Init ==
  /\ file = None
  /\ items = NoItems
  /\ lastEtag = None
  /\ atOnce = FALSE
  /\ pc = "idle"
  /\ why = "list"
  /\ rows = NoItems
  /\ before = NoItems
  /\ late = FALSE
  /\ edits = 0
  /\ faults = 0

Operation ==
  \/ \E w \in {"list", "get_multi", "single", "block"} : Start(w)
  \/ Stat \/ StatMisses \/ Read
  \/ \E i \in Idents, c \in Hashes : Upload(i, c) \/ Update(i, c)
  \/ \E i \in Idents : Delete(i)
  \/ \E some \in SUBSET Idents : GetMulti(some)
  \/ EndBlock \/ AbortBlock
  \/ WriteCheck \/ WriteRefused \/ Rename \/ WriteFails

Others ==
  \/ \E cards \in Cards : OtherWrites(cards)
  \/ OtherRemoves

Next == Operation \/ Others

Spec == Init /\ [][Next]_vars

-----------------------------------------------------------------------------
(* Properties.                                                             *)

(* The type invariant.                                                     *)
TypeOK ==
  /\ file \in File \cup {None}
  /\ items \in Items
  /\ lastEtag \in Etags \cup {None}
  /\ atOnce \in BOOLEAN
  /\ pc \in {"idle", "stat", "read", "buffer", "write", "rename"}
  /\ why \in {"list", "get_multi", "single", "block"}
  /\ rows \in Items
  /\ before \in Items
  /\ late \in BOOLEAN
  /\ edits \in 0 .. MaxEdits
  /\ faults \in 0 .. MaxFaults

ByStorage == edits' = edits

(* The write at the end of a block replaces or drops only items the caller *)
(* knew when it began, although the file is read twice, and the caller     *)
(* never says what else is in it.  Two gaps are the code's: there was no   *)
(* file when it was to be read, or it changed between check and rename.    *)
NoBlindOverwrite ==
  [][ByStorage /\ file' # file =>
       \/ lastEtag = None \/ late
       \/ \A i \in Idents : Parsed(file')[i] # Parsed(file)[i] =>
            Parsed(file)[i] = before[i]]_vars

(* What the operations of a block told the caller is what the file holds   *)
(* when the block has ended without an error.                              *)
AcceptedIsWritten ==
  [][ByStorage /\ file' # file =>
       \A i \in Idents : rows[i] # before[i] => Parsed(file')[i] = rows[i]]_vars

=============================================================================
