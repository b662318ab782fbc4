------------------------------- MODULE Repair -------------------------------
(***************************************************************************)
(* "vdirsyncer repair" (repair.py): each item of a collection gets a UID   *)
(* of its own, one item after the other.  An item that needs another UID   *)
(* is uploaded again with it, and the old one deleted; in between, people  *)
(* change the collection, requests fail and the process is killed.  The    *)
(* user repeats the command.                                               *)
(*                                                                         *)
(*   repair_storage  Start, Get, Keep, Upload, Delete, Rewrite, Finish     *)
(*   repair_item     IsIrreparable, NeedsUid                               *)
(***************************************************************************)
EXTENDS Naturals, FiniteSets

CONSTANTS
  Hrefs,      \* places in the collection
  Uids,       \* UIDs
  Unsafe,     \* UIDs and places with characters that are not href_safe
  Bodies,     \* items, but for their UID
  Broken,     \* those that cannot be parsed
  Masked,     \* those that show the same UID whatever UID with_uid() gives them
  Bare,       \* of these, those with no component that it gives a UID to
  Etags,      \* versions of an item at a place: the last, the one read, a new one
  None,       \* no item, no UID
  Crowded,    \* the UIDs that items have from people, and may share
  First,      \* the items that are there in the beginning, and where
  MaxEdits,   \* bound: changes made by people
  MaxFaults   \* bound: failed requests and killed commands

ASSUME UidsAssumption == Unsafe \subseteq Uids \cup Hrefs
ASSUME BodiesAssumption ==
  Broken \subseteq Bodies /\ Masked \subseteq Bodies \ Broken /\ Bare \subseteq Masked
ASSUME CrowdedAssumption == Crowded \subseteq Uids \cup {None}
ASSUME FirstAssumption ==
  /\ DOMAIN First \subseteq Bodies
  /\ \A b \in DOMAIN First : First[b] \in Hrefs
  /\ \A b, c \in DOMAIN First : First[b] = First[c] => b = c
ASSUME NoneAssumption == None \notin Uids
ASSUME EtagsAssumption == \E e, f, g \in Etags : e # f /\ f # g /\ g # e
ASSUME BoundsAssumption == MaxEdits \in Nat /\ MaxFaults \in Nat

Item == [uid : Uids \cup {None}, body : Bodies, etag : Etags]
ASSUME NoItemAssumption == None \notin Item

VARIABLES
  items,        \* the collection
  pc,           \* "idle", "next", "repair" or "delete"
  unsafeToo,    \* --repair-unsafe-uid
  todo,         \* hrefs that were listed and are still to be processed
  seen,         \* seen_uids
  href, item,   \* the item being processed, as get() returned it
  kept,         \* history: bodies people have put there and not taken away
  before,       \* history: UIDs that were there when the command began
  calm,         \* history: nothing has disturbed the command
  repaired,     \* history: such a command has ended, and nothing has changed
  cut,          \* history: a command ended between upload and delete
  edits, faults

vars == <<items, pc, unsafeToo, todo, seen, href, item, kept, before, calm,
          repaired, cut, edits, faults>>

Listed == {h \in Hrefs : items[h] # None}
Copies(b) == {h \in Listed : items[h].body = b}
UidsOf(hs) == {items[h].uid : h \in hs} \ {None}

(* Item.uid is the first UID in the text.  with_uid() replaces those of    *)
(* events, tasks, journals and contacts: one that comes before all of      *)
(* them, as a calendar's own does, still shows afterwards.                 *)
TakesUid(i) == i.body \notin Broken \cup Masked

Repairable == {h \in Listed : TakesUid(items[h])}

Init ==
  /\ \E uid \in [DOMAIN First -> Crowded] :
       items = [h \in Hrefs |->
         IF \E b \in DOMAIN First : First[b] = h
         THEN LET b == CHOOSE b \in DOMAIN First : First[b] = h
              IN  [uid |-> uid[b], body |-> b, etag |-> CHOOSE e \in Etags : TRUE]
         ELSE None]
  /\ pc = "idle" /\ unsafeToo = FALSE
  /\ todo = {} /\ seen = {}
  /\ href = None /\ item = None
  /\ kept = {items[h].body : h \in Listed}
  /\ before = {}
  /\ calm = FALSE /\ repaired = FALSE /\ cut = FALSE
  /\ edits = 0 /\ faults = 0

-----------------------------------------------------------------------------
(* People.                                                                 *)
EtagsAt(h) ==
  {i.etag : i \in {items[h], item} \ {None}}
FreshEtag(h) == CHOOSE e \in Etags : e \notin EtagsAt(h)

Edited ==
  /\ edits < MaxEdits
  /\ edits' = edits + 1
  /\ calm' = FALSE /\ repaired' = FALSE
  /\ UNCHANGED <<pc, unsafeToo, todo, seen, href, item, before, cut, faults>>

(* Who changes or removes the only copy takes that body away; the one that *)
(* the command is about to delete does not count.                          *)
Taken(h) ==
  LET doomed == IF pc = "delete" THEN {href} ELSE {}
  IN  IF Copies(items[h].body) \ doomed \subseteq {h} THEN {items[h].body} ELSE {}

EditItem(h, u, b) ==
  /\ items[h] # None
  /\ items[h].uid # u \/ items[h].body # b
  /\ b = items[h].body \/ (Copies(b) = {} /\ b \notin kept)
  /\ items' = [items EXCEPT ![h] = [uid |-> u, body |-> b, etag |-> FreshEtag(h)]]
  /\ kept' = (kept \ Taken(h)) \cup {b}
  /\ Edited

Remove(h) ==
  /\ items[h] # None
  /\ items' = [items EXCEPT ![h] = None]
  /\ kept' = kept \ Taken(h)
  /\ Edited

-----------------------------------------------------------------------------
(* The command.                                                            *)
Start(u) ==
  /\ pc = "idle"
  /\ unsafeToo' = u
  /\ pc' = "next"
  /\ todo' = Listed
  /\ seen' = {}
  /\ before' = UidsOf(Listed)
  /\ calm' = TRUE /\ repaired' = FALSE
  /\ UNCHANGED <<items, href, item, kept, cut, edits, faults>>

Done == /\ href' = None /\ item' = None
        /\ UNCHANGED <<unsafeToo, kept, before, edits>>

(* The command ends, at an exception or for other reasons.                 *)
Abort ==
  /\ pc' = "idle"
  /\ todo' = {} /\ seen' = {}
  /\ calm' = FALSE
  /\ Done
  /\ UNCHANGED <<items, repaired>>

Get(h) ==
  /\ pc = "next"
  /\ h \in todo
  /\ items[h] # None
  /\ pc' = "repair"
  /\ todo' = todo \ {h}
  /\ href' = h /\ item' = items[h]
  /\ UNCHANGED <<items, unsafeToo, seen, kept, before, calm, repaired, cut, edits, faults>>

(* NotFoundError                                                           *)
GetFails(h) ==
  /\ pc = "next"
  /\ h \in todo
  /\ items[h] = None
  /\ Abort
  /\ UNCHANGED <<cut, faults>>

(* Mutant: only missing UIDs are replaced.                                 *)
LacksUid == item.uid = None

(* Mutant: unsafe UIDs are replaced without being asked to.                *)
NeedsSafeUid ==
  item.uid = None \/ item.uid \in seen \/ {item.uid, href} \cap Unsafe # {}

NeedsUid ==
  \/ item.uid = None
  \/ item.uid \in seen
  \/ unsafeToo /\ {item.uid, href} \cap Unsafe # {}

(* It cannot be parsed, or still shows no UID when it was given one.       *)
IsIrreparable ==
  item.body \in Broken \/ (item.body \in Masked /\ item.uid = None)

(* The item is beyond repair, or its text is as it was: it needs no other  *)
(* UID, or with_uid() has found no component to give one to.               *)
Keep ==
  /\ pc = "repair"
  /\ \/ IsIrreparable /\ seen' = seen
     \/ /\ ~ IsIrreparable
        /\ NeedsUid => item.body \in Bare
        /\ seen' = seen \cup {item.uid}
  /\ pc' = "next"
  /\ Done
  /\ UNCHANGED <<items, todo, calm, repaired, cut, faults>>

(* generate_href() makes up a UID, and the storage an href for it.         *)
NewUids == (Uids \ Unsafe) \ (UidsOf(Listed) \cup seen \cup before \cup {item.uid})
NewHrefs == (Hrefs \ Unsafe) \ (Listed \cup todo \cup {href})

(* Mutant: only an item whose UID is taken is deleted.                     *)
DeleteIfNamed == IF item.uid = None THEN "next" ELSE "delete"

AfterUpload == "delete"

(* The item shows another UID than before: it is uploaded as a new one.    *)
Upload ==
  /\ pc = "repair"
  /\ NeedsUid
  /\ TakesUid(item)
  /\ NewUids # {} /\ NewHrefs # {}
  /\ LET u == CHOOSE u \in NewUids : TRUE
         h == CHOOSE h \in NewHrefs : TRUE
     IN  /\ items' = [items EXCEPT ![h] =
              [uid |-> u, body |-> item.body, etag |-> FreshEtag(h)]]
         /\ seen' = seen \cup {u}
  /\ pc' = AfterUpload
  /\ UNCHANGED <<unsafeToo, todo, href, item, kept, before, calm, repaired, cut, edits,
                 faults>>

(* Mutant: the old item is deleted whatever has become of it.              *)
IsThere == items[href] # None

IsAsRead == items[href] # None /\ items[href].etag = item.etag

(* The text differs from what was read, but not in the UID it shows: it is *)
(* written back (update), and the UID stays as it is.                      *)
IsRewrite == pc = "repair" /\ NeedsUid /\ item.body \in Masked /\ item.uid # None

Rewrite ==
  /\ IsRewrite
  /\ IsAsRead
  /\ items' = [items EXCEPT ![href].etag = FreshEtag(href)]
  /\ seen' = seen \cup {item.uid}
  /\ pc' = "next"
  /\ Done
  /\ UNCHANGED <<todo, calm, repaired, cut, faults>>

Delete ==
  /\ pc = "delete"
  /\ IsAsRead
  /\ items' = [items EXCEPT ![href] = None]
  /\ pc' = "next"
  /\ Done
  /\ UNCHANGED <<todo, seen, calm, repaired, cut, faults>>

(* WrongEtagError or NotFoundError, of delete or update.  The item that    *)
(* was uploaded stays.                                                     *)
Refused ==
  /\ \/ pc = "delete" /\ cut' = TRUE
     \/ IsRewrite /\ cut' = cut
  /\ ~ IsAsRead
  /\ Abort
  /\ UNCHANGED faults

Finish ==
  /\ pc = "next"
  /\ todo = {}
  /\ pc' = "idle"
  /\ seen' = {}
  /\ repaired' = calm
  /\ Done
  /\ UNCHANGED <<items, todo, calm, cut, faults>>

(* A request fails, or the process is killed.                              *)
Kill ==
  /\ pc # "idle"
  /\ faults < MaxFaults
  /\ faults' = faults + 1
  /\ cut' = (cut \/ pc = "delete")
  /\ Abort

Run ==
  \/ Keep \/ Upload \/ Rewrite \/ Delete \/ Refused \/ Finish
  \/ \E u \in BOOLEAN : Start(u)
  \/ \E h \in Hrefs : Get(h) \/ GetFails(h)

Next ==
  \/ Run \/ Kill
  \/ \E h \in Hrefs :
       \/ Remove(h)
       \/ \E u \in Crowded, b \in Bodies : EditItem(h, u, b)

Spec == Init /\ [][Next]_vars

(* Users repeat the command.                                               *)
FairSpec == Spec /\ WF_vars(Run)
-----------------------------------------------------------------------------
(* Types and bounds; while an item is in hand, its place is known, and the *)
(* UIDs seen are those of items that were processed.                       *)
TypeOK ==
  /\ items \in [Hrefs -> Item \cup {None}]
  /\ pc \in {"idle", "next", "repair", "delete"}
  /\ todo \subseteq Hrefs
  /\ seen \subseteq Uids
  /\ before \subseteq Uids /\ kept \subseteq Bodies
  /\ {unsafeToo, calm, repaired, cut} \subseteq BOOLEAN
  /\ IF pc \in {"repair", "delete"} THEN href \in Hrefs \ todo /\ item \in Item
                                    ELSE href = None /\ item = None
  /\ edits \in 0..MaxEdits /\ faults \in 0..MaxFaults

(* repair.py:39-40 uploads before it deletes, and deletes what it has      *)
(* read: an item that somebody put in the collection and nobody took away  *)
(* is there, in one copy or another, whoever changes it meanwhile and      *)
(* wherever the command ends.                                              *)
NoItemLost == \A b \in kept : Copies(b) # {}

(* repair.py:36-67 decides on one item at a time: still, a command that    *)
(* nobody disturbed leaves every item whose UID with_uid() can change with *)
(* a UID no other of them has, whatever happens to the rest; each UID that *)
(* was there is there still, but for those it was asked to replace, and    *)
(* then these items have no unsafe one left.                               *)
RepairedWell ==
  repaired =>
    /\ \A h \in Repairable : items[h].uid # None
    /\ \A g, h \in Repairable : g # h => items[g].uid # items[h].uid
    /\ unsafeToo => UidsOf(Repairable) \cap Unsafe = {}
    /\ ~ unsafeToo => before \subseteq UidsOf(Listed)

(* An item is there twice only while it is being replaced, or because a    *)
(* command ended before it could delete the old one: repeating the command *)
(* does not multiply items.                                                *)
CopiesExplained ==
  \A b \in Bodies : Cardinality(Copies(b)) > 1 => pc = "delete" \/ cut

(* Repeating the command ends with distinct UIDs, once people and failures *)
(* leave the collection alone, on the items whose UID with_uid() can       *)
(* change: rewriting the others over and over does not keep it from that.  *)
HasDistinctUids ==
  \A g, h \in Repairable : items[g].uid # None
                           /\ (g # h => items[g].uid # items[h].uid)

EventuallyDistinct == <>[]HasDistinctUids
=============================================================================
