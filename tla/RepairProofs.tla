---------------------------- MODULE RepairProofs ----------------------------
(***************************************************************************)
(* No item is lost or multiplied by a repair, whatever people do meanwhile *)
(* and wherever the command ends, and one that is left alone repairs what  *)
(* it can: for any number of items, UIDs, edits and failures.              *)
(***************************************************************************)
EXTENDS Repair, FiniteSetTheorems, TLAPS

(* What is at the place in hand is what get() returned, as long as it has  *)
(* the etag that was returned.                                             *)
EtagTells == pc \in {"repair", "delete"} /\ IsAsRead => items[href] = item

(* What the command deletes is nobody's only copy.                         *)
HasOtherCopy ==
  pc = "delete" /\ IsAsRead /\ item.body \in kept =>
    \E h \in Hrefs \ {href} : items[h] # None /\ items[h].body = item.body

RepairInv == TypeOK /\ EtagTells /\ HasOtherCopy /\ NoItemLost

-----------------------------------------------------------------------------
LEMMA CopiesMeans ==
  ASSUME NEW b
  PROVE  Copies(b) = {h \in Hrefs : items[h] # None /\ items[h].body = b}
BY DEF Copies, Listed

LEMMA NoItemLostMeans ==
  NoItemLost <=> \A b \in kept : \E h \in Hrefs : items[h] # None /\ items[h].body = b
BY CopiesMeans DEF NoItemLost

(* A fresh etag is neither the one that is there nor the one that was read. *)
LEMMA FreshEtagIsFresh ==
  ASSUME TypeOK, NEW h \in Hrefs
  PROVE  /\ FreshEtag(h) \in Etags
         /\ items[h] # None => FreshEtag(h) # items[h].etag
         /\ item # None => FreshEtag(h) # item.etag
<1> DEFINE old == {i.etag : i \in {items[h], item} \ {None}}
<1>1. PICK e \in Etags, f \in Etags, g \in Etags : e # f /\ f # g /\ g # e
  BY EtagsAssumption
<1>2. ~ (e \in old /\ f \in old /\ g \in old)
  BY <1>1
<1>3. \E x \in Etags : x \notin old
  BY <1>1, <1>2
<1>4. FreshEtag(h) \in Etags /\ FreshEtag(h) \notin old
  BY <1>3 DEF FreshEtag, EtagsAt
<1> QED
  BY <1>4

LEMMA InitImpliesInv == Init => RepairInv
<1> SUFFICES ASSUME Init PROVE RepairInv
  OBVIOUS
<1>1. PICK uid \in [DOMAIN First -> Crowded] :
        items = [h \in Hrefs |->
          IF \E b \in DOMAIN First : First[b] = h
          THEN LET b == CHOOSE b \in DOMAIN First : First[b] = h
               IN  [uid |-> uid[b], body |-> b, etag |-> CHOOSE e \in Etags : TRUE]
          ELSE None]
  BY DEF Init
<1>2. (CHOOSE e \in Etags : TRUE) \in Etags
  BY EtagsAssumption
<1>3. ASSUME NEW h \in Hrefs PROVE items[h] \in Item \cup {None}
  <2>1. CASE \E b \in DOMAIN First : First[b] = h
    <3> DEFINE b == CHOOSE b \in DOMAIN First : First[b] = h
    <3>1. b \in DOMAIN First
      BY <2>1
    <3>2. items[h] = [uid |-> uid[b], body |-> b, etag |-> CHOOSE e \in Etags : TRUE]
      BY <1>1, <2>1
    <3>3. uid[b] \in Uids \cup {None} /\ b \in Bodies
      BY <3>1, CrowdedAssumption, FirstAssumption
    <3> HIDE DEF b
    <3> QED
      BY <3>2, <3>3, <1>2 DEF Item
  <2>2. CASE ~ \E b \in DOMAIN First : First[b] = h
    BY <1>1, <2>2
  <2> QED
    BY <2>1, <2>2
<1>4. items \in [Hrefs -> Item \cup {None}]
  BY <1>1, <1>3
<1>5. kept = {items[h].body : h \in {g \in Hrefs : items[g] # None}}
  BY DEF Init, Listed
<1>6. kept \subseteq Bodies
  BY <1>3, <1>5 DEF Item
<1>7. NoItemLost
  BY <1>5, NoItemLostMeans
<1>8. TypeOK
  <2>1. /\ pc = "idle" /\ todo = {} /\ seen = {} /\ href = None /\ item = None
        /\ before = {} /\ edits = 0 /\ faults = 0
        /\ ~ unsafeToo /\ ~ calm /\ ~ repaired /\ ~ cut
        /\ {unsafeToo, calm, repaired, cut} \subseteq BOOLEAN
    BY DEF Init
  <2> QED
    BY <1>4, <1>6, <2>1, BoundsAssumption DEF TypeOK
<1> QED
  BY <1>7, <1>8 DEF Init, RepairInv, EtagTells, HasOtherCopy

-----------------------------------------------------------------------------
(* Steps that leave the collection and what people know of it alone.       *)
LEMMA OtherSteps ==
  ASSUME TypeOK, NoItemLost, TypeOK', UNCHANGED <<items, kept>>, pc' \in {"idle", "next"}
  PROVE  RepairInv'
BY NoItemLostMeans, NoItemLostMeans' DEF RepairInv, EtagTells, HasOtherCopy, NoItemLost,
   Copies, Listed

(* The end of the command.                                                *)
LEMMA EndSparesItems ==
  ASSUME RepairInv, Abort, {cut'} \subseteq BOOLEAN, faults' \in 0..MaxFaults
  PROVE  RepairInv'
<1>1. TypeOK'
  BY DEF RepairInv, TypeOK, Abort, Done
<1> QED
  BY <1>1, OtherSteps DEF RepairInv, Abort, Done

(* People.                                                                 *)
LEMMA EditsSpareItems ==
  ASSUME RepairInv, NEW h \in Hrefs, items[h] # None, Edited,
         NEW new \in Item \cup {None}, items' = [items EXCEPT ![h] = new],
         new # None => new.etag = FreshEtag(h),
         kept' = (kept \ Taken(h)) \cup (IF new = None THEN {} ELSE {new.body})
  PROVE  RepairInv'
<1> USE DEF RepairInv
<1>1. UNCHANGED <<pc, href, item>>
  BY DEF Edited
<1>2. \A g \in Hrefs : items'[g] = IF g = h THEN new ELSE items[g]
  BY DEF TypeOK
<1>3. TypeOK'
  <2>1. edits' \in 0..MaxEdits
    BY BoundsAssumption DEF Edited, TypeOK
  <2>2. kept' \subseteq Bodies
    BY DEF TypeOK, Item
  <2>3. items' \in [Hrefs -> Item \cup {None}]
    BY DEF TypeOK
  <2> QED
    BY <2>1, <2>2, <2>3 DEF Edited, TypeOK
<1>4. pc \in {"repair", "delete"} /\ IsAsRead' => href # h
  <2> SUFFICES ASSUME pc \in {"repair", "delete"}, new # None, new.etag = item.etag
               PROVE  FALSE
    BY <1>1, <1>2 DEF IsAsRead, TypeOK
  <2>1. item # None
    BY NoItemAssumption DEF TypeOK
  <2> QED
    BY <2>1, FreshEtagIsFresh
<1>5. ASSUME NEW b \in kept \ Taken(h)
      PROVE  \E g \in Hrefs :
               /\ g # h /\ items[g] # None /\ items[g].body = b
               /\ (pc = "delete" /\ items[h].body = b) => g # href
  <2>1. CASE items[h].body = b
    BY <2>1, CopiesMeans DEF Taken
  <2>2. CASE items[h].body # b
    BY <2>2, NoItemLostMeans
  <2> QED
    BY <2>1, <2>2
<1>6. EtagTells'
  BY <1>1, <1>2, <1>4 DEF EtagTells, IsAsRead, TypeOK
<1>7. NoItemLost'
  <2> SUFFICES ASSUME NEW b \in kept'
               PROVE  \E g \in Hrefs : items'[g] # None /\ items'[g].body = b
    BY NoItemLostMeans DEF NoItemLost, Copies, Listed
  <2>1. CASE new # None /\ b = new.body
    BY <1>2, <2>1
  <2>2. CASE b \in kept \ Taken(h)
    <3>1. PICK g \in Hrefs : g # h /\ items[g] # None /\ items[g].body = b
      BY <1>5, <2>2
    <3> QED
      BY <1>2, <3>1
  <2> QED
    BY <2>1, <2>2
<1>8. HasOtherCopy'
  <2> SUFFICES ASSUME pc = "delete", IsAsRead', item.body \in kept'
               PROVE  \E g \in Hrefs \ {href} : items'[g] # None /\ items'[g].body = item.body
    BY <1>1 DEF HasOtherCopy
  <2>1. href \in Hrefs /\ href # h /\ IsAsRead
    BY <1>1, <1>2, <1>4 DEF IsAsRead, TypeOK
  <2>2. CASE new # None /\ item.body = new.body
    BY <1>2, <2>1, <2>2
  <2>3. CASE item.body \in kept \ Taken(h) /\ items[h].body = item.body
    <3>1. PICK g \in Hrefs :
                 g # h /\ items[g] # None /\ items[g].body = item.body /\ g # href
      BY <1>5, <2>3
    <3> QED
      BY <1>2, <3>1
  <2>4. CASE item.body \in kept \ Taken(h) /\ items[h].body # item.body
    BY <1>2, <2>1, <2>4 DEF HasOtherCopy
  <2> QED
    BY <2>2, <2>3, <2>4
<1> QED
  BY <1>3, <1>6, <1>7, <1>8

-----------------------------------------------------------------------------
(* The command.                                                            *)
LEMMA UploadSparesItems ==
  ASSUME RepairInv, Upload
  PROVE  RepairInv'
<1> USE DEF RepairInv
<1> DEFINE u == CHOOSE u \in NewUids : TRUE
           h == CHOOSE h \in NewHrefs : TRUE
           new == [uid |-> u, body |-> item.body, etag |-> FreshEtag(h)]
<1>1. /\ u \in Uids
      /\ h \in Hrefs /\ items[h] = None /\ h # href
  BY DEF Upload, NewUids, NewHrefs, Listed
<1>2. item \in Item /\ href \in Hrefs
  BY DEF Upload, TypeOK
<1>3. items' = [items EXCEPT ![h] = new] /\ seen' = seen \cup {u}
  BY DEF Upload
<1> HIDE DEF u, h
<1>4. new \in Item /\ new # None
  BY <1>1, <1>2, FreshEtagIsFresh, NoItemAssumption DEF Item
<1>5. UNCHANGED <<href, item, kept>> /\ new.body = item.body
  BY DEF Upload
<1> HIDE DEF new
<1>6. \A g \in Hrefs : items'[g] = IF g = h THEN new ELSE items[g]
  BY <1>3 DEF TypeOK
<1>7. TypeOK'
  BY <1>1, <1>3, <1>4 DEF Upload, AfterUpload, TypeOK
<1>8. EtagTells'
  BY <1>1, <1>2, <1>5, <1>6 DEF EtagTells, IsAsRead, Upload
<1>9. NoItemLost'
  <2> SUFFICES ASSUME NEW b \in kept
               PROVE  \E g \in Hrefs : items'[g] # None /\ items'[g].body = b
    BY <1>5 DEF NoItemLost, Copies, Listed
  <2> QED
    BY <1>1, <1>6, NoItemLostMeans
<1>10. HasOtherCopy'
  BY <1>1, <1>4, <1>5, <1>6 DEF HasOtherCopy
<1> QED
  BY <1>7, <1>8, <1>9, <1>10

LEMMA DeleteSparesItems ==
  ASSUME RepairInv, Delete
  PROVE  RepairInv'
<1> USE DEF RepairInv
<1>1. href \in Hrefs /\ items[href] = item
  BY DEF Delete, EtagTells, TypeOK
<1>2. \A g \in Hrefs : items'[g] = IF g = href THEN None ELSE items[g]
  BY DEF Delete, TypeOK
<1>3. TypeOK'
  BY DEF Delete, Done, TypeOK
<1>4. NoItemLost'
  <2> SUFFICES ASSUME NEW b \in kept
               PROVE  \E g \in Hrefs : items'[g] # None /\ items'[g].body = b
    BY DEF NoItemLost, Copies, Listed, Delete, Done
  <2>1. CASE item.body = b
    BY <1>2, <2>1 DEF HasOtherCopy, Delete
  <2>2. CASE item.body # b
    BY <1>1, <1>2, <2>2, NoItemLostMeans
  <2> QED
    BY <2>1, <2>2
<1> QED
  BY <1>3, <1>4 DEF Delete, EtagTells, HasOtherCopy

LEMMA RewriteSparesItems ==
  ASSUME RepairInv, Rewrite
  PROVE  RepairInv'
<1> USE DEF RepairInv
<1>1. href \in Hrefs /\ items[href] \in Item
  BY DEF Rewrite, IsRewrite, IsAsRead, TypeOK
<1> DEFINE new == [items[href] EXCEPT !.etag = FreshEtag(href)]
<1>2. new \in Item /\ new # None /\ new.body = items[href].body
  BY <1>1, FreshEtagIsFresh, NoItemAssumption DEF Item
<1>3. items' = [items EXCEPT ![href] = new]
  BY DEF Rewrite, IsRewrite
<1> HIDE DEF new
<1>4. \A g \in Hrefs : items'[g] = IF g = href THEN new ELSE items[g]
  BY <1>3 DEF TypeOK
<1>5. item.uid \in Uids
  BY DEF Rewrite, IsRewrite, TypeOK, Item
<1>6. TypeOK'
  BY <1>1, <1>2, <1>3, <1>5 DEF Rewrite, IsRewrite, Done, TypeOK
<1>7. NoItemLost'
  <2> SUFFICES ASSUME NEW b \in kept
               PROVE  \E g \in Hrefs : items'[g] # None /\ items'[g].body = b
    BY DEF NoItemLost, Copies, Listed, Rewrite, IsRewrite, Done
  <2> QED
    BY <1>2, <1>4, NoItemLostMeans
<1> QED
  BY <1>6, <1>7 DEF Rewrite, IsRewrite, EtagTells, HasOtherCopy

LEMMA NextPreservesInv == RepairInv /\ [Next]_vars => RepairInv'
<1> SUFFICES ASSUME RepairInv, [Next]_vars
             PROVE  RepairInv'
  OBVIOUS
<1> USE DEF RepairInv
<1>1. ASSUME Abort, {cut'} \subseteq BOOLEAN, faults' \in 0..MaxFaults
      PROVE  RepairInv'
  BY <1>1, EndSparesItems
<1>2. ASSUME NEW u \in BOOLEAN, Start(u) PROVE RepairInv'
  <2>1. before' \subseteq Uids
    BY <1>2 DEF Start, UidsOf, Listed, TypeOK, Item
  <2>2. TypeOK'
    BY <1>2, <2>1 DEF Start, TypeOK, Listed
  <2> QED
    BY <1>2, <2>2, OtherSteps DEF Start
<1>3. ASSUME NEW h \in Hrefs, Get(h) PROVE RepairInv'
  <2>1. TypeOK'
    BY <1>3 DEF Get, TypeOK
  <2> QED
    BY <1>3, <2>1 DEF Get, EtagTells, HasOtherCopy, IsAsRead, NoItemLost, Copies, Listed
<1>4. ASSUME NEW h \in Hrefs, GetFails(h) PROVE RepairInv'
  BY <1>1, <1>4 DEF GetFails, TypeOK
<1>5. CASE Keep
  <2>1. IsIrreparable \/ item.uid \in Uids
    BY <1>5, BodiesAssumption DEF Keep, NeedsUid, IsIrreparable, TypeOK, Item
  <2>2. TypeOK'
    BY <1>5, <2>1 DEF Keep, Done, TypeOK
  <2> QED
    BY <1>5, <2>2, OtherSteps DEF Keep, Done
<1>6. CASE Refused
  BY <1>1, <1>6 DEF Refused, TypeOK
<1>7. CASE Finish
  <2>1. TypeOK'
    BY <1>7 DEF Finish, Done, TypeOK
  <2> QED
    BY <1>7, <2>1, OtherSteps DEF Finish, Done
<1>8. CASE Kill
  <2>1. faults' \in 0..MaxFaults
    BY <1>8, BoundsAssumption DEF Kill, TypeOK
  <2>2. {cut'} \subseteq BOOLEAN
    BY <1>8 DEF Kill, TypeOK
  <2> QED
    BY <1>1, <1>8, <2>1, <2>2 DEF Kill
<1>9. ASSUME NEW h \in Hrefs, Remove(h) PROVE RepairInv'
  BY <1>9, EditsSpareItems DEF Remove
<1>10. ASSUME NEW h \in Hrefs, NEW u \in Crowded, NEW b \in Bodies, EditItem(h, u, b)
       PROVE  RepairInv'
  <2> DEFINE new == [uid |-> u, body |-> b, etag |-> FreshEtag(h)]
  <2>1. new \in Item
    BY CrowdedAssumption, FreshEtagIsFresh DEF Item
  <2>2. new # None /\ new.etag = FreshEtag(h) /\ new.body = b
    BY <2>1, NoItemAssumption
  <2>3. items' = [items EXCEPT ![h] = new] /\ kept' = (kept \ Taken(h)) \cup {b}
    BY <1>10 DEF EditItem
  <2> HIDE DEF new
  <2> QED
    BY <1>10, <2>1, <2>2, <2>3, EditsSpareItems DEF EditItem
<1>11. CASE UNCHANGED vars
  BY <1>11 DEF vars, TypeOK, EtagTells, HasOtherCopy, IsAsRead, NoItemLost, Copies, Listed
<1> QED
  BY <1>2, <1>3, <1>4, <1>5, <1>6, <1>7, <1>8, <1>9, <1>10, <1>11, UploadSparesItems,
     DeleteSparesItems, RewriteSparesItems DEF Next, Run

(* Variables keep their types.                                             *)
THEOREM RepairTypeCorrect == Spec => []TypeOK
<1> QED
  BY InitImpliesInv, NextPreservesInv, PTL DEF Spec, RepairInv

(* repair.py:39-40 uploads before it deletes, and deletes only what it has *)
(* read: no item is lost.                                                  *)
THEOREM ItemsNeverLost == Spec => []NoItemLost
<1>1. RepairInv => NoItemLost
  BY DEF RepairInv
<1> QED
  BY <1>1, InitImpliesInv, NextPreservesInv, PTL DEF Spec

-----------------------------------------------------------------------------
(* Copies.                                                                 *)

(* Two places hold the same item: one of them is the one to be deleted,    *)
(* unless somebody has changed that one.                                   *)
SameItem(g, h) ==
  items[g] # None /\ items[h] # None /\ items[g].body = items[h].body

TwinsInv ==
  \A g, h \in Hrefs : g # h /\ SameItem(g, h) =>
    cut \/ (pc = "delete" /\ (IsAsRead => href \in {g, h}))

CopiesInv == RepairInv /\ TwinsInv

(* Whoever changes an item makes no copy of another one.                   *)
LEMMA EditsMakeNoTwins ==
  ASSUME CopiesInv, NEW h \in Hrefs, items[h] # None, Edited,
         NEW new \in Item \cup {None}, items' = [items EXCEPT ![h] = new],
         new # None => /\ new.etag = FreshEtag(h)
                       /\ new.body = items[h].body \/ Copies(new.body) = {}
  PROVE  TwinsInv'
<1> USE DEF CopiesInv, RepairInv
<1>1. UNCHANGED <<pc, href, item, cut>>
  BY DEF Edited
<1>2. \A g \in Hrefs : items'[g] = IF g = h THEN new ELSE items[g]
  BY DEF TypeOK
<1>3. pc = "delete" /\ IsAsRead' => href # h /\ IsAsRead
  <2>1. pc = "delete" => href \in Hrefs /\ item # None
    BY NoItemAssumption DEF TypeOK
  <2>2. pc = "delete" /\ href = h /\ new # None => new.etag # item.etag
    BY <2>1, FreshEtagIsFresh
  <2> QED
    BY <1>1, <1>2, <2>1, <2>2 DEF IsAsRead
<1>4. ASSUME NEW g, NEW k, g \in Hrefs, k \in Hrefs, g # k, SameItem(g, k)'
      PROVE  SameItem(g, k)
  <2>1. new # None => \A j \in Hrefs : items[j] # None /\ items[j].body = new.body =>
                        items[h].body = new.body
    BY CopiesMeans
  <2> QED
    BY <1>2, <1>4, <2>1 DEF SameItem
<1> QED
  BY <1>1, <1>3, <1>4 DEF TwinsInv

LEMMA UploadMakesTwins ==
  ASSUME CopiesInv, Upload
  PROVE  TwinsInv'
<1> USE DEF CopiesInv, RepairInv
<1> DEFINE u == CHOOSE u \in NewUids : TRUE
           h == CHOOSE h \in NewHrefs : TRUE
           new == [uid |-> u, body |-> item.body, etag |-> FreshEtag(h)]
<1>1. h \in Hrefs /\ items[h] = None /\ h # href
  BY DEF Upload, NewHrefs, Listed
<1>2. items' = [items EXCEPT ![h] = new]
  BY DEF Upload
<1>3. new.body = item.body
  OBVIOUS
<1>4. pc = "repair" /\ pc' = "delete" /\ UNCHANGED <<href, item, cut>> /\ href \in Hrefs
  BY DEF Upload, AfterUpload, TypeOK
<1> HIDE DEF u, h, new
<1>5. \A g \in Hrefs : items'[g] = IF g = h THEN new ELSE items[g]
  BY <1>2 DEF TypeOK
<1>6. IsAsRead' => IsAsRead /\ items[href].body = item.body
  BY <1>1, <1>4, <1>5 DEF IsAsRead, EtagTells
<1> SUFFICES ASSUME NEW g \in Hrefs, NEW k \in Hrefs, g # k, SameItem(g, k)', ~ cut,
                    IsAsRead'
             PROVE  href \in {g, k}
  BY <1>4 DEF TwinsInv
<1>7. \A i, j \in Hrefs : i # j => ~ SameItem(i, j)
  BY <1>4 DEF TwinsInv
<1>8. items[href] # None
  BY <1>6 DEF IsAsRead
<1> QED
  BY <1>1, <1>3, <1>4, <1>5, <1>6, <1>7, <1>8 DEF SameItem

LEMMA NextPreservesTwins == CopiesInv /\ [Next]_vars => CopiesInv'
<1> SUFFICES ASSUME CopiesInv, [Next]_vars
             PROVE  TwinsInv'
  BY NextPreservesInv DEF CopiesInv
<1> USE DEF CopiesInv, RepairInv
<1>1. ASSUME UNCHANGED items, pc # "delete" \/ cut', cut => cut' PROVE TwinsInv'
  BY <1>1 DEF TwinsInv, SameItem
<1>2. CASE Delete
  <2>1. href \in Hrefs /\ \A g \in Hrefs : items'[g] = IF g = href THEN None ELSE items[g]
    BY <1>2 DEF Delete, TypeOK
  <2> QED
    BY <1>2, <2>1 DEF Delete, TwinsInv, SameItem
<1>3. CASE Rewrite
  <2> DEFINE new == [items[href] EXCEPT !.etag = FreshEtag(href)]
  <2>1. href \in Hrefs /\ items[href] \in Item /\ items[href] # None
    BY <1>3 DEF Rewrite, IsRewrite, IsAsRead, TypeOK
  <2>2. new.body = items[href].body /\ items' = [items EXCEPT ![href] = new]
    BY <1>3, <2>1 DEF Rewrite, IsRewrite, Item
  <2> HIDE DEF new
  <2>3. \A g \in Hrefs : items'[g] = IF g = href THEN new ELSE items[g]
    BY <2>2 DEF TypeOK
  <2> QED
    BY <1>3, <2>1, <2>2, <2>3 DEF Rewrite, IsRewrite, TwinsInv, SameItem
<1>4. ASSUME NEW h \in Hrefs, Remove(h) PROVE TwinsInv'
  BY <1>4, EditsMakeNoTwins DEF Remove
<1>5. ASSUME NEW h \in Hrefs, NEW u \in Crowded, NEW b \in Bodies, EditItem(h, u, b)
      PROVE  TwinsInv'
  <2> DEFINE new == [uid |-> u, body |-> b, etag |-> FreshEtag(h)]
  <2>1. new \in Item /\ new.etag = FreshEtag(h) /\ new.body = b
    BY CrowdedAssumption, FreshEtagIsFresh DEF Item
  <2>2. items' = [items EXCEPT ![h] = new]
    BY <1>5 DEF EditItem
  <2> HIDE DEF new
  <2> QED
    BY <1>5, <2>1, <2>2, EditsMakeNoTwins DEF EditItem
<1>6. CASE Keep \/ Finish \/ (\E u \in BOOLEAN : Start(u))
           \/ (\E h \in Hrefs : Get(h) \/ GetFails(h))
  BY <1>1, <1>6 DEF Keep, Finish, Start, Get, GetFails, Abort, Done
<1>7. CASE Refused \/ Kill
  BY <1>1, <1>7 DEF Refused, IsRewrite, Kill, Abort, Done
<1>8. CASE UNCHANGED vars
  BY <1>8 DEF vars, TwinsInv, SameItem, IsAsRead
<1> QED
  BY <1>2, <1>3, <1>4, <1>5, <1>6, <1>7, <1>8, UploadMakesTwins DEF Next, Run

(* An item is there twice only while it is being replaced, or because a    *)
(* command ended between upload and delete (repair.py:39-40): repeating    *)
(* the command does not multiply items.                                    *)
THEOREM CopiesAlwaysExplained == Spec => []CopiesExplained
<1>1. Init => CopiesInv
  <2> SUFFICES ASSUME Init PROVE TwinsInv
    BY InitImpliesInv DEF CopiesInv
  <2>1. \A h \in Hrefs : items[h] # None =>
          items[h].body \in DOMAIN First /\ First[items[h].body] = h
    <3>1. PICK uid \in [DOMAIN First -> Crowded] :
            items = [h \in Hrefs |->
              IF \E b \in DOMAIN First : First[b] = h
              THEN LET b == CHOOSE b \in DOMAIN First : First[b] = h
                   IN  [uid |-> uid[b], body |-> b, etag |-> CHOOSE e \in Etags : TRUE]
              ELSE None]
      BY DEF Init
    <3> SUFFICES ASSUME NEW h \in Hrefs, items[h] # None
                 PROVE  items[h].body \in DOMAIN First /\ First[items[h].body] = h
      OBVIOUS
    <3> DEFINE b == CHOOSE b \in DOMAIN First : First[b] = h
    <3>2. \E c \in DOMAIN First : First[c] = h
      BY <3>1
    <3>3. items[h] = [uid |-> uid[b], body |-> b, etag |-> CHOOSE e \in Etags : TRUE]
      BY <3>1, <3>2
    <3>4. b \in DOMAIN First /\ First[b] = h
      BY <3>2
    <3> HIDE DEF b
    <3> QED
      BY <3>3, <3>4
  <2> QED
    BY <2>1 DEF TwinsInv, SameItem
<1>2. CopiesInv => CopiesExplained
  <2> SUFFICES ASSUME CopiesInv, NEW b \in Bodies, Cardinality(Copies(b)) > 1, ~ cut,
                      pc # "delete"
               PROVE  FALSE
    BY DEF CopiesExplained
  <2>1. \A g, h \in Copies(b) : g = h
    BY CopiesMeans DEF CopiesInv, TwinsInv, SameItem
  <2>2. CASE Copies(b) = {}
    BY <2>2, FS_EmptySet
  <2>3. CASE Copies(b) # {}
    <3>1. PICK x : Copies(b) = {x}
      BY <2>1, <2>3
    <3>2. Cardinality(Copies(b)) = 1
      BY <3>1, FS_Singleton, Zenon
    <3> QED
      BY <3>2
  <2> QED
    BY <2>2, <2>3
<1> QED
  BY <1>1, <1>2, NextPreservesTwins, PTL DEF Spec

-----------------------------------------------------------------------------
(* What a repair achieves.                                                 *)

(* The items the command is done with, and those of them it can repair.    *)
Processed(h) ==
  /\ items[h] # None
  /\ h \notin todo
  /\ pc \in {"repair", "delete"} => h # href

Fixed(h) == Processed(h) /\ TakesUid(items[h])

(* seen_uids are the UIDs of processed items, and no two of the repaired   *)
(* ones share one.                                                         *)
SeenInv ==
  /\ \A u \in seen : \E h \in Hrefs : Processed(h) /\ items[h].uid = u
  /\ \A h \in Hrefs : Fixed(h) =>
       items[h].uid \in seen /\ (unsafeToo => items[h].uid \notin Unsafe)
  /\ \A g, h \in Hrefs : g # h /\ Fixed(g) /\ Fixed(h) => items[g].uid # items[h].uid

(* A UID that was there is there still; the one of the item that is about  *)
(* to be deleted is another item's too.                                    *)
BeforeInv ==
  ~ unsafeToo =>
    /\ \A u \in before : \E h \in Hrefs : items[h] # None /\ items[h].uid = u
    /\ pc = "delete" => item.uid \in seen \cup {None}

(* While nobody disturbs the command, what was listed is there and what is *)
(* in hand is as it was read.                                              *)
CalmInv ==
  calm /\ pc # "idle" =>
    /\ \A h \in todo : items[h] # None
    /\ pc \in {"repair", "delete"} => items[href] = item
    /\ SeenInv
    /\ BeforeInv

ProgressInv == RepairInv /\ CalmInv /\ (repaired => pc = "idle") /\ RepairedWell

(* An item whose UID with_uid() can change.                                *)
Good(h) == items[h] # None /\ TakesUid(items[h])

IsWell ==
  /\ \A h \in Hrefs : Good(h) =>
       items[h].uid # None /\ (unsafeToo => items[h].uid \notin Unsafe)
  /\ \A g, h \in Hrefs : g # h /\ Good(g) /\ Good(h) => items[g].uid # items[h].uid
  /\ ~ unsafeToo => \A u \in before : \E h \in Hrefs : items[h] # None /\ items[h].uid = u

LEMMA RepairedWellMeans == TypeOK => (RepairedWell <=> (repaired => IsWell))
<1> SUFFICES ASSUME TypeOK
             PROVE  RepairedWell <=> (repaired => IsWell)
  OBVIOUS
<1>1. Repairable = {h \in Hrefs : Good(h)}
  BY DEF Repairable, Listed, Good
<1>2. \A u : u \in UidsOf(Repairable) <=> u # None /\ \E h \in Hrefs : Good(h) /\ items[h].uid = u
  BY <1>1 DEF UidsOf
<1>3. \A u : u \in UidsOf(Listed) <=>
        u # None /\ \E h \in Hrefs : items[h] # None /\ items[h].uid = u
  BY DEF UidsOf, Listed
<1>4. \A u \in before : u # None
  BY NoneAssumption DEF TypeOK
<1>5. (\A h \in Repairable : items[h].uid # None)
      /\ (unsafeToo => UidsOf(Repairable) \cap Unsafe = {})
      <=> \A h \in Hrefs : Good(h) =>
            items[h].uid # None /\ (unsafeToo => items[h].uid \notin Unsafe)
  BY <1>1, <1>2
<1>6. (\A g, h \in Repairable : g # h => items[g].uid # items[h].uid)
      <=> \A g, h \in Hrefs : g # h /\ Good(g) /\ Good(h) => items[g].uid # items[h].uid
  BY <1>1
<1>7. before \subseteq UidsOf(Listed)
      <=> \A u \in before : \E h \in Hrefs : items[h] # None /\ items[h].uid = u
  BY <1>3, <1>4
<1> QED
  BY <1>5, <1>6, <1>7 DEF RepairedWell, IsWell

(* The command begins.                                                     *)
LEMMA StartIsCalm ==
  ASSUME RepairInv, NEW u \in BOOLEAN, Start(u)
  PROVE  CalmInv'
<1>1. /\ todo' = {h \in Hrefs : items[h] # None} /\ seen' = {} /\ pc' = "next"
      /\ items' = items
  BY DEF Start, Listed
<1>2. \A v \in before' : \E h \in Hrefs : items[h] # None /\ items[h].uid = v
  BY DEF Start, UidsOf, Listed
<1>3. \A h \in Hrefs : ~ Processed(h)'
  BY <1>1 DEF Processed
<1> QED
  BY <1>1, <1>2, <1>3 DEF CalmInv, SeenInv, BeforeInv, Fixed

(* One item more is processed, and its UID is seen: if it can be repaired  *)
(* it is the first with that UID, and the UID is one to be kept.           *)
LEMMA OneMoreProcessed ==
  ASSUME SeenInv, NEW h \in Hrefs, NEW u,
         ~ Processed(h), Processed(h)',
         \A g \in Hrefs \ {h} : (Processed(g)' <=> Processed(g)) /\ items'[g] = items[g],
         seen' \in {seen, seen \cup {u}}, u \in seen' => items'[h].uid = u,
         UNCHANGED unsafeToo,
         Fixed(h)' => /\ items'[h].uid = u
                      /\ u \notin seen
                      /\ seen' = seen \cup {u}
                      /\ unsafeToo => u \notin Unsafe
  PROVE  SeenInv'
<1>1. \A v \in seen' : \E g \in Hrefs : (Processed(g) /\ items[g].uid = v)'
  <2> SUFFICES ASSUME NEW v \in seen'
               PROVE  \E g \in Hrefs : (Processed(g) /\ items[g].uid = v)'
    OBVIOUS
  <2>1. CASE v = u
    BY <2>1
  <2>2. CASE v # u
    <3>1. v \in seen
      BY <2>2
    <3>2. PICK g \in Hrefs : Processed(g) /\ items[g].uid = v
      BY <3>1 DEF SeenInv
    <3> QED
      BY <3>2
  <2> QED
    BY <2>1, <2>2
<1>2. \A g \in Hrefs \ {h} : Fixed(g)' => Fixed(g)
  BY DEF Fixed
<1>3. \A g \in Hrefs \ {h} : Fixed(g)' => items'[g].uid \in seen
  BY <1>2 DEF SeenInv
<1>4. \A g \in Hrefs : Fixed(g)' =>
        items'[g].uid \in seen' /\ (unsafeToo' => items'[g].uid \notin Unsafe)
  BY <1>2 DEF SeenInv
<1>5. \A f, g \in Hrefs : f # g /\ Fixed(f)' /\ Fixed(g)' => items'[f].uid # items'[g].uid
  BY <1>2, <1>3 DEF SeenInv
<1> QED
  BY <1>1, <1>4, <1>5 DEF SeenInv

LEMMA KeepIsCalm ==
  ASSUME ProgressInv, Keep
  PROVE  CalmInv'
<1> USE DEF ProgressInv, RepairInv
<1> SUFFICES ASSUME calm
             PROVE  /\ \A h \in todo : items[h] # None
                    /\ SeenInv' /\ BeforeInv'
  BY DEF Keep, Done, CalmInv
<1>1. SeenInv /\ BeforeInv /\ items[href] = item /\ (\A h \in todo : items[h] # None)
  BY DEF Keep, CalmInv
<1>2. href \in Hrefs \ todo /\ item \in Item /\ item # None
  BY NoItemAssumption DEF Keep, TypeOK
<1>3. pc = "repair" /\ pc' = "next" /\ UNCHANGED <<items, todo, unsafeToo, before>>
  BY DEF Keep, Done
<1>4. SeenInv'
  <2> PICK k \in Hrefs : k = href
    BY <1>2
  <2>1. ~ Processed(k) /\ Processed(k)'
    BY <1>1, <1>2, <1>3 DEF Processed
  <2>2. \A g \in Hrefs \ {k} : (Processed(g)' <=> Processed(g)) /\ items'[g] = items[g]
    BY <1>3 DEF Processed
  <2>3. CASE IsIrreparable /\ seen' = seen
    <3>1. ~ Fixed(k)'
      BY <1>1, <1>3, <2>3 DEF Fixed, IsIrreparable, TakesUid
    <3>2. \A g \in Hrefs : Fixed(g)' => g # k /\ Fixed(g)
      BY <1>3, <2>2, <3>1 DEF Fixed
    <3>3. \A g \in Hrefs : Processed(g) => Processed(g)'
      BY <2>1, <2>2
    <3> QED
      BY <1>1, <1>3, <2>3, <3>2, <3>3 DEF SeenInv
  <2>4. CASE /\ ~ IsIrreparable
             /\ NeedsUid => item.body \in Bare
             /\ seen' = seen \cup {item.uid}
    <3>1. Fixed(k)' => /\ item.uid \notin seen
                       /\ unsafeToo => item.uid \notin Unsafe
      BY <1>1, <1>3, <2>4, BodiesAssumption DEF Fixed, NeedsUid, TakesUid
    <3>2. items'[k].uid = item.uid
      BY <1>1, <1>3
    <3> QED
      BY <1>1, <1>3, <2>1, <2>2, <2>4, <3>1, <3>2, OneMoreProcessed
  <2> QED
    BY <2>3, <2>4 DEF Keep
<1> QED
  BY <1>1, <1>3, <1>4 DEF BeforeInv

LEMMA UploadIsCalm ==
  ASSUME ProgressInv, Upload
  PROVE  CalmInv'
<1> USE DEF ProgressInv, RepairInv
<1> SUFFICES ASSUME calm
             PROVE  /\ \A h \in todo : items'[h] # None
                    /\ items'[href] = item
                    /\ SeenInv' /\ BeforeInv'
  BY DEF Upload, AfterUpload, CalmInv
<1>1. PICK u \in NewUids, h \in NewHrefs :
             /\ items' = [items EXCEPT ![h] =
                  [uid |-> u, body |-> item.body, etag |-> FreshEtag(h)]]
             /\ seen' = seen \cup {u}
  BY DEF Upload
<1> DEFINE new == [uid |-> u, body |-> item.body, etag |-> FreshEtag(h)]
<1>2. items' = [items EXCEPT ![h] = new] /\ seen' = seen \cup {u}
  BY <1>1
<1>3. new \in Item /\ new # None
  <2>1. u \in Uids /\ h \in Hrefs /\ item \in Item
    BY <1>1 DEF NewUids, NewHrefs, Upload, TypeOK
  <2> QED
    BY <2>1, FreshEtagIsFresh, NoItemAssumption DEF Item
<1>4. new.uid = u
  OBVIOUS
<1> HIDE DEF new
<1>5. SeenInv /\ BeforeInv /\ items[href] = item /\ (\A g \in todo : items[g] # None)
  BY DEF Upload, CalmInv
<1>6. h \in Hrefs /\ items[h] = None /\ h \notin todo /\ h # href
  BY <1>1 DEF NewHrefs, Listed
<1>7. u \notin seen /\ u \notin Unsafe
  BY <1>1 DEF NewUids
<1>8. \A g \in Hrefs : items'[g] = IF g = h THEN new ELSE items[g]
  BY <1>2 DEF TypeOK
<1>9. /\ pc = "repair" /\ pc' = "delete" /\ NeedsUid /\ href \in Hrefs
      /\ UNCHANGED <<todo, unsafeToo, before, href, item>>
  BY DEF Upload, AfterUpload, TypeOK
<1>10. SeenInv'
  <2>1. ~ Processed(h) /\ Processed(h)'
    BY <1>3, <1>6, <1>8, <1>9 DEF Processed
  <2>2. \A g \in Hrefs \ {h} : (Processed(g)' <=> Processed(g)) /\ items'[g] = items[g]
    BY <1>8, <1>9 DEF Processed
  <2>3. items'[h].uid = u
    BY <1>4, <1>6, <1>8
  <2> QED
    BY <1>2, <1>5, <1>6, <1>7, <1>9, <2>1, <2>2, <2>3, OneMoreProcessed
<1>11. BeforeInv'
  <2> SUFFICES ASSUME ~ unsafeToo
               PROVE  /\ \A v \in before : \E g \in Hrefs : items'[g] # None /\ items'[g].uid = v
                      /\ item.uid \in seen' \cup {None}
    BY <1>9 DEF BeforeInv
  <2>1. item.uid \in seen \cup {None}
    BY <1>9 DEF NeedsUid
  <2>2. ASSUME NEW v \in before
        PROVE  \E g \in Hrefs : items'[g] # None /\ items'[g].uid = v
    <3>1. PICK g \in Hrefs : items[g] # None /\ items[g].uid = v
      BY <1>5 DEF BeforeInv
    <3> QED
      BY <1>6, <1>8, <3>1
  <2> QED
    BY <1>2, <2>1, <2>2
<1>12. \A g \in todo : g \in Hrefs
  BY DEF TypeOK
<1> QED
  BY <1>3, <1>5, <1>6, <1>8, <1>9, <1>10, <1>11, <1>12

LEMMA DeleteIsCalm ==
  ASSUME ProgressInv, Delete
  PROVE  CalmInv'
<1> USE DEF ProgressInv, RepairInv
<1>1. /\ pc = "delete" /\ pc' = "next" /\ href \in Hrefs \ todo
      /\ UNCHANGED <<todo, unsafeToo, before, seen, calm>>
  BY DEF Delete, Done, TypeOK
<1>2. \A g \in Hrefs : items'[g] = IF g = href THEN None ELSE items[g]
  BY DEF Delete, TypeOK
<1> SUFFICES ASSUME calm
             PROVE  /\ \A h \in todo : items'[h] # None
                    /\ SeenInv' /\ BeforeInv'
  BY <1>1 DEF CalmInv
<1>3. SeenInv /\ BeforeInv /\ items[href] = item /\ (\A g \in todo : items[g] # None)
  BY <1>1 DEF CalmInv
<1>4. \A g \in Hrefs : /\ Processed(g)' <=> Processed(g)
                       /\ Processed(g) => items'[g] = items[g]
  BY <1>1, <1>2 DEF Processed
<1>5. SeenInv'
  <2>1. \A g \in Hrefs : Fixed(g)' <=> Fixed(g)
    BY <1>4 DEF Fixed
  <2>2. \A g \in Hrefs : Fixed(g) => items'[g] = items[g]
    BY <1>4 DEF Fixed
  <2> QED
    BY <1>1, <1>3, <1>4, <2>1, <2>2 DEF SeenInv
<1>6. BeforeInv'
  <2> SUFFICES ASSUME ~ unsafeToo, NEW v \in before
               PROVE  \E g \in Hrefs : items'[g] # None /\ items'[g].uid = v
    BY <1>1 DEF BeforeInv
  <2>1. PICK g \in Hrefs : items[g] # None /\ items[g].uid = v
    BY <1>3 DEF BeforeInv
  <2>2. CASE g # href
    BY <1>2, <2>1, <2>2
  <2>3. CASE g = href
    <3>1. v \in seen
      BY <1>1, <1>3, <2>1, <2>3, NoneAssumption DEF BeforeInv, TypeOK
    <3>2. PICK k \in Hrefs : Processed(k) /\ items[k].uid = v
      BY <1>3, <3>1 DEF SeenInv
    <3> QED
      BY <1>1, <1>2, <3>2 DEF Processed
  <2> QED
    BY <2>2, <2>3
<1>7. \A g \in todo : g \in Hrefs
  BY DEF TypeOK
<1> QED
  BY <1>1, <1>2, <1>3, <1>5, <1>6, <1>7

LEMMA RewriteIsCalm ==
  ASSUME ProgressInv, Rewrite
  PROVE  CalmInv'
<1> USE DEF ProgressInv, RepairInv
<1>1. /\ pc = "repair" /\ pc' = "next" /\ href \in Hrefs \ todo
      /\ items[href] \in Item /\ items[href] # None
      /\ item.body \in Masked /\ seen' = seen \cup {item.uid}
      /\ UNCHANGED <<todo, unsafeToo, before, calm>>
  BY DEF Rewrite, IsRewrite, IsAsRead, Done, TypeOK
<1> DEFINE new == [items[href] EXCEPT !.etag = FreshEtag(href)]
<1>2. new \in Item /\ new # None
      /\ new.body = items[href].body /\ new.uid = items[href].uid
  BY <1>1, FreshEtagIsFresh, NoItemAssumption DEF Item
<1>3. items' = [items EXCEPT ![href] = new]
  BY DEF Rewrite, IsRewrite
<1> HIDE DEF new
<1>4. \A g \in Hrefs : items'[g] = IF g = href THEN new ELSE items[g]
  BY <1>3 DEF TypeOK
<1> SUFFICES ASSUME calm
             PROVE  /\ \A h \in todo : items'[h] # None
                    /\ SeenInv' /\ BeforeInv'
  BY <1>1 DEF CalmInv
<1>5. SeenInv /\ BeforeInv /\ items[href] = item /\ (\A g \in todo : items[g] # None)
  BY <1>1 DEF CalmInv
<1>6. SeenInv'
  <2> PICK k \in Hrefs : k = href
    BY <1>1
  <2>1. ~ Processed(k) /\ Processed(k)' /\ ~ Fixed(k)'
    BY <1>1, <1>2, <1>4, <1>5 DEF Processed, Fixed, TakesUid
  <2>2. \A g \in Hrefs \ {k} : (Processed(g)' <=> Processed(g)) /\ items'[g] = items[g]
    BY <1>1, <1>4 DEF Processed
  <2>3. items'[k].uid = item.uid
    BY <1>1, <1>2, <1>4, <1>5
  <2> QED
    BY <1>1, <1>5, <2>1, <2>2, <2>3, OneMoreProcessed
<1>7. BeforeInv'
  <2> SUFFICES ASSUME ~ unsafeToo, NEW v \in before
               PROVE  \E g \in Hrefs : items'[g] # None /\ items'[g].uid = v
    BY <1>1 DEF BeforeInv
  <2> QED
    BY <1>1, <1>2, <1>4, <1>5 DEF BeforeInv
<1>8. \A g \in todo : g \in Hrefs
  BY DEF TypeOK
<1> QED
  BY <1>2, <1>4, <1>5, <1>6, <1>7, <1>8

LEMMA GetIsCalm ==
  ASSUME ProgressInv, NEW h \in Hrefs, Get(h)
  PROVE  CalmInv'
<1> USE DEF ProgressInv, RepairInv
<1>1. /\ pc = "next" /\ pc' = "repair" /\ href' = h /\ item' = items[h]
      /\ h \in todo /\ todo' = todo \ {h}
      /\ UNCHANGED <<items, unsafeToo, before, seen, calm>>
  BY DEF Get
<1>2. \A g \in Hrefs : Processed(g)' <=> Processed(g)
  BY <1>1 DEF Processed
<1>3. \A g \in Hrefs : Fixed(g)' <=> Fixed(g)
  BY <1>1, <1>2 DEF Fixed
<1>4. calm => SeenInv'
  BY <1>1, <1>2, <1>3 DEF SeenInv, CalmInv
<1>5. calm => BeforeInv'
  BY <1>1 DEF BeforeInv, CalmInv
<1> QED
  BY <1>1, <1>4, <1>5 DEF CalmInv

LEMMA FinishRepairsWell ==
  ASSUME ProgressInv, Finish
  PROVE  RepairedWell'
<1> USE DEF ProgressInv, RepairInv
<1>1. /\ pc = "next" /\ todo = {} /\ repaired' = calm
      /\ UNCHANGED <<items, unsafeToo, before>>
  BY DEF Finish, Done
<1>2. calm => SeenInv /\ BeforeInv
  BY <1>1 DEF CalmInv
<1>3. \A h \in Hrefs : Good(h) => Fixed(h)
  BY <1>1 DEF Fixed, Processed, Good
<1>4. None \notin seen
  BY NoneAssumption DEF TypeOK
<1>5. calm => IsWell
  BY <1>2, <1>3, <1>4 DEF IsWell, SeenInv, BeforeInv
<1>6. repaired' => IsWell'
  BY <1>1, <1>5 DEF IsWell, Good
<1>7. TypeOK'
  BY NextPreservesInv DEF Next, Run
<1>8. TypeOK' => (RepairedWell' <=> (repaired' => IsWell'))
  BY RepairedWellMeans, PTL
<1> QED
  BY <1>6, <1>7, <1>8

LEMMA NextPreservesProgress == ProgressInv /\ [Next]_vars => ProgressInv'
<1> SUFFICES ASSUME ProgressInv, [Next]_vars
             PROVE  CalmInv' /\ (repaired => pc = "idle")' /\ RepairedWell'
  BY NextPreservesInv DEF ProgressInv
<1> USE DEF ProgressInv
<1>1. ASSUME ~ repaired' PROVE (repaired => pc = "idle")' /\ RepairedWell'
  BY <1>1 DEF RepairedWell
<1>2. ASSUME ~ repaired', ~ calm' PROVE CalmInv' /\ (repaired => pc = "idle")' /\ RepairedWell'
  BY <1>1, <1>2 DEF CalmInv
<1>3. pc # "idle" => ~ repaired
  OBVIOUS
<1>4. CASE Keep
  BY <1>1, <1>3, <1>4, KeepIsCalm DEF Keep
<1>5. CASE Upload
  BY <1>1, <1>3, <1>5, UploadIsCalm DEF Upload
<1>6. CASE Rewrite
  BY <1>1, <1>3, <1>6, RewriteIsCalm DEF Rewrite, IsRewrite
<1>7. CASE Delete
  BY <1>1, <1>3, <1>7, DeleteIsCalm DEF Delete
<1>8. CASE Finish
  BY <1>8, FinishRepairsWell DEF Finish, CalmInv
<1>9. CASE Refused
  BY <1>2, <1>3, <1>9 DEF Refused, IsRewrite, Abort
<1>10. CASE Kill
  BY <1>2, <1>3, <1>10 DEF Kill, Abort
<1>11. ASSUME NEW u \in BOOLEAN, Start(u)
       PROVE  CalmInv' /\ (repaired => pc = "idle")' /\ RepairedWell'
  BY <1>1, <1>11, StartIsCalm DEF Start
<1>12. ASSUME NEW h \in Hrefs, Get(h)
       PROVE  CalmInv' /\ (repaired => pc = "idle")' /\ RepairedWell'
  BY <1>1, <1>3, <1>12, GetIsCalm DEF Get
<1>13. ASSUME NEW h \in Hrefs, GetFails(h)
       PROVE  CalmInv' /\ (repaired => pc = "idle")' /\ RepairedWell'
  BY <1>2, <1>3, <1>13 DEF GetFails, Abort
<1>14. CASE \E h \in Hrefs : Remove(h) \/ (\E u \in Crowded, b \in Bodies : EditItem(h, u, b))
  BY <1>2, <1>14 DEF Remove, EditItem, Edited
<1>15. CASE UNCHANGED vars
  BY <1>15 DEF vars, CalmInv, SeenInv, BeforeInv, Fixed, Processed, RepairedWell,
     Repairable, Listed, UidsOf
<1> QED
  BY <1>4, <1>5, <1>6, <1>7, <1>8, <1>9, <1>10, <1>11, <1>12, <1>13, <1>14, <1>15
  DEF Next, Run

(* repair.py:36-67 decides on one item at a time: a command that nobody    *)
(* disturbs leaves every item whose UID with_uid() can change with a UID   *)
(* of its own, a safe one if that was asked for; otherwise no UID that was *)
(* there is gone.                                                          *)
THEOREM RepairsWell == Spec => []RepairedWell
<1>1. Init => ProgressInv
  BY InitImpliesInv DEF Init, ProgressInv, CalmInv, RepairedWell
<1>2. ProgressInv => RepairedWell
  BY DEF ProgressInv
<1> QED
  BY <1>1, <1>2, NextPreservesProgress, PTL DEF Spec
=============================================================================
