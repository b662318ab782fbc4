------------------------------ MODULE SyncProofs ------------------------------
(***************************************************************************)
(* Proofs about Sync, for every set of items, hrefs and etags, every       *)
(* configuration of the pair and any number of edits and failures.         *)
(***************************************************************************)
EXTENDS Sync, TLAPS

-----------------------------------------------------------------------------
(* Lemmas about storages and tables.                                       *)

LEMMA SidesLemma == \A s \in Sides : Other(s) \in Sides /\ Other(s) # s
BY DEF Sides, Other

(* A written, emptied or renamed place leaves a storage a storage.         *)
LEMMA StorageTypes ==
  ASSUME NEW st \in Storages, NEW h \in Hrefs
  PROVE  /\ \A i \in Idents, c \in Hashes, e \in Etags : Put(st, h, i, c, e) \in Storages
         /\ Removed(st, h) \in Storages
         /\ \A h2 \in Hrefs : [st EXCEPT ![h] = None, ![h2] = st[h]] \in Storages
<1>1. \A i \in Idents, c \in Hashes, e \in Etags : Put(st, h, i, c, e) \in Storages
  BY DEF Put, Storages, Item
<1>2. Removed(st, h) \in Storages
  BY DEF Removed, Storages
<1>3. \A h2 \in Hrefs : [st EXCEPT ![h] = None, ![h2] = st[h]] \in Storages
  BY DEF Storages
<1> QED BY <1>1, <1>2, <1>3

LEMMA EmptyTableType == EmptyTable \in Tables
BY DEF EmptyTable, Tables

(* The statements on new_status keep it a table.                           *)
LEMMA TableTypes ==
  ASSUME NEW t \in Tables, NEW i \in Idents
  PROVE  /\ \A s \in Sides, m \in Meta \cup {None} : SetSide(t, s, i, m) \in Tables
         /\ RemoveIdent(t, i) \in Tables
         /\ \A old \in Tables : Rollback(t, old, i) \in Tables
<1>1. \A s \in Sides, m \in Meta \cup {None} : SetSide(t, s, i, m) \in Tables
  BY DEF SetSide, Tables
<1>2. RemoveIdent(t, i) \in Tables
  BY DEF RemoveIdent, Tables
<1>3. \A old \in Tables : Rollback(t, old, i) \in Tables
  BY DEF Rollback, Tables
<1> QED BY <1>1, <1>2, <1>3

(* A fresh etag is an etag, and is not in use.                             *)
LEMMA FreshEtagLemma ==
  ASSUME NEW s \in Sides, HasFreshEtag(s)
  PROVE  /\ FreshEtag(s) \in Etags
         /\ FreshEtag(s) \notin EtagsInUse(s)
BY DEF HasFreshEtag, FreshEtag

-----------------------------------------------------------------------------
(* Type correctness.                                                       *)

LEMMA InitTyped == Init => TypeOK
<1> SUFFICES ASSUME Init PROVE TypeOK
  OBVIOUS
<1>1. store \in [Sides -> Storages]
  <2>1. ASSUME NEW h \in Hrefs, \E i \in InitialItems : HrefOf[i] = h
        PROVE  LET i == CHOOSE i \in InitialItems : HrefOf[i] = h
               IN  [ident |-> i, hash |-> FirstHash, etag |-> FirstEtag[i]] \in Item
    <3> DEFINE i == CHOOSE i \in InitialItems : HrefOf[i] = h
    <3>1. i \in InitialItems
      BY <2>1
    <3>2. i \in Idents /\ FirstEtag[i] \in Etags
      BY <3>1, InitialAssumption
    <3> QED BY <3>2, InitialAssumption DEF Item
  <2> QED BY <2>1 DEF Init, Storages
<1>2. status \in Tables
  <2>1. ASSUME NEW i \in InitialItems
        PROVE  [href |-> HrefOf[i], hash |-> FirstHash, etag |-> FirstEtag[i]] \in Meta
    BY InitialAssumption, HrefOfAssumption DEF Meta
  <2> QED BY <2>1 DEF Init, Tables
<1>3. newst \in Tables
  BY DEF Init, EmptyTable, Tables
<1>4. known \in [Sides -> [Idents -> SUBSET Hashes]]
  BY InitialAssumption DEF Init
<1>5. agreed \in [Idents -> Hashes \cup {None}]
  BY InitialAssumption DEF Init
<1>6. plan \in [Idents -> Action \cup {None}]
  BY DEF Init, NoPlan
<1>7. /\ pc \in {"idle", "list", "fetch", "run"} /\ cur \in Sides /\ todo \subseteq Hrefs
      /\ statusNonempty \in BOOLEAN /\ force \in BOOLEAN
      /\ partial \in {"error", "ignore", "revert"}
      /\ errors \subseteq Idents /\ clean \in BOOLEAN
  BY DEF Init, Sides
<1>8. nonempty \in [Sides -> BOOLEAN] /\ cached \in [Sides -> SUBSET Idents]
  BY DEF Init
<1>9. quiet \in 0 .. 3 /\ edits \in 0 .. MaxEdits /\ faults \in 0 .. MaxFaults
  <2>1. quiet = 0 /\ edits = 0 /\ faults = 0
    BY DEF Init
  <2> QED BY <2>1, BoundsAssumption
<1> QED BY <1>1, <1>2, <1>3, <1>4, <1>5, <1>6, <1>7, <1>8, <1>9 DEF TypeOK

(* The parts of TypeOK that only sync() itself touches.                    *)
SyncTyped ==
  /\ status \in Tables
  /\ newst \in Tables
  /\ pc \in {"idle", "list", "fetch", "run"}
  /\ cur \in Sides
  /\ todo \subseteq Hrefs
  /\ nonempty \in [Sides -> BOOLEAN]
  /\ statusNonempty \in BOOLEAN
  /\ force \in BOOLEAN
  /\ partial \in {"error", "ignore", "revert"}
  /\ cached \in [Sides -> SUBSET Idents]
  /\ plan \in [Idents -> Action \cup {None}]
  /\ errors \subseteq Idents
  /\ clean \in BOOLEAN
  /\ quiet \in 0 .. 3

StoreTyped ==
  /\ store \in [Sides -> Storages]
  /\ known \in [Sides -> [Idents -> SUBSET Hashes]]
  /\ agreed \in [Idents -> Hashes \cup {None}]

BoundsTyped ==
  /\ edits \in 0 .. MaxEdits
  /\ faults \in 0 .. MaxFaults

LEMMA TypeParts == TypeOK <=> SyncTyped /\ StoreTyped /\ BoundsTyped
BY DEF TypeOK, SyncTyped, StoreTyped, BoundsTyped

LEMMA EndOfSyncTyped ==
  ASSUME EndOfSync, status' \in Tables, quiet' \in 0 .. 3
  PROVE  SyncTyped'
<1>1. newst' \in Tables
  BY EmptyTableType DEF EndOfSync
<1>2. plan' \in [Idents -> Action \cup {None}]
  BY DEF EndOfSync, NoPlan
<1>3. nonempty' \in [Sides -> BOOLEAN]
  BY DEF EndOfSync
<1>4. cached' \in [Sides -> SUBSET Idents]
  BY DEF EndOfSync
<1>5. /\ pc' \in {"idle", "list", "fetch", "run"} /\ cur' \in Sides /\ todo' \subseteq Hrefs
      /\ statusNonempty' \in BOOLEAN /\ force' \in BOOLEAN
      /\ partial' \in {"error", "ignore", "revert"}
      /\ errors' \subseteq Idents /\ clean' \in BOOLEAN
  BY DEF EndOfSync, Sides
<1> QED BY <1>1, <1>2, <1>3, <1>4, <1>5 DEF SyncTyped

LEMMA AbortTyped ==
  ASSUME TypeOK, Abort
  PROVE  SyncTyped'
<1>1. status' \in Tables /\ quiet' \in 0 .. 3
  BY DEF TypeOK, Abort
<1> QED BY <1>1, EndOfSyncTyped DEF Abort

LEMMA FailTyped ==
  ASSUME TypeOK, NEW i \in Idents, Fail(i)
  PROVE  SyncTyped'
<1>1. CASE HasErrorCallback
  <2>1. newst' \in Tables
    BY <1>1, TableTypes DEF TypeOK, Fail
  <2>2. plan' \in [Idents -> Action \cup {None}]
    BY <1>1 DEF TypeOK, Fail
  <2>3. errors' \subseteq Idents
    BY <1>1 DEF TypeOK, Fail
  <2> QED BY <1>1, <2>1, <2>2, <2>3 DEF TypeOK, SyncTyped, Fail, prepVars
<1>2. CASE ~HasErrorCallback
  BY <1>2, AbortTyped DEF Fail
<1> QED BY <1>1, <1>2

LEMMA WriteTyped ==
  ASSUME TypeOK, NEW s \in Sides, NEW h \in Hrefs, NEW i \in Idents, NEW c \in Hashes,
         HasFreshEtag(s), Write(s, h, i, c)
  PROVE  /\ store' \in [Sides -> Storages]
         /\ known' \in [Sides -> [Idents -> SUBSET Hashes]]
<1>1. FreshEtag(s) \in Etags
  BY FreshEtagLemma
<1>2. store[s] \in Storages
  BY DEF TypeOK
<1>3. Put(store[s], h, i, c, FreshEtag(s)) \in Storages
  BY <1>1, <1>2, StorageTypes
<1> QED BY <1>3 DEF TypeOK, Write

LEMMA AdvanceTyped ==
  ASSUME TypeOK, NEW i \in Idents, plan[i] # None, newst' \in Tables, Advance(i)
  PROVE  SyncTyped'
<1>1. Remaining(i) \in Action \cup {None}
  <2>1. plan[i] \in Action
    BY DEF TypeOK
  <2> QED BY <2>1 DEF Remaining, Act, Action, Ops, UpdateOps, Sides
<1>2. plan' \in [Idents -> Action \cup {None}]
  BY <1>1 DEF TypeOK, Advance
<1> QED BY <1>2 DEF TypeOK, SyncTyped, Advance, prepVars

(* The row written for a read-only destination.                            *)
LEMMA RevertTyped ==
  ASSUME TypeOK, NEW i \in Idents, plan[i] # None, Advance(i),
         newst' = SetSide(newst, plan[i].dest, i,
                    [href |-> None, hash |-> plan[i].hash, etag |-> None])
  PROVE  SyncTyped'
<1>1. plan[i] \in Action
  BY DEF TypeOK
<1>2. [href |-> None, hash |-> plan[i].hash, etag |-> None] \in Meta
  BY <1>1 DEF Action, Meta
<1>3. newst' \in Tables
  BY <1>1, <1>2, TableTypes DEF TypeOK, Action
<1> QED BY <1>3, AdvanceTyped

LEMMA PlanTyped == TypeOK => \A i \in Idents : ActionFor(i) \in Action \cup {None}
<1> SUFFICES ASSUME TypeOK, NEW i \in Idents
             PROVE  ActionFor(i) \in Action \cup {None}
  OBVIOUS
<1> DEFINE there   == {s \in Sides : newst[s][i] # None}
           changed == {s \in there : IsChanged(s, i)}
           src     == CHOOSE s \in changed : TRUE
           alone   == CHOOSE s \in there : TRUE
<1>1. ASSUME NEW s \in there
      PROVE  s \in Sides /\ Other(s) \in Sides /\ newst[s][i].hash \in Hashes
  BY SidesLemma DEF TypeOK, Tables, Meta
<1>2. changed # {} => src \in there
  OBVIOUS
<1>3. there # {} => alone \in there
  OBVIOUS
<1>4. ASSUME NEW op \in Ops, NEW d \in Sides, NEW c \in Hashes
      PROVE  Act(op, d, c) \in Action
  BY DEF Act, Action
<1>5. {"upload", "delete", "resolve", "update"} \subseteq Ops
  BY DEF Ops, UpdateOps
<1> HIDE DEF there, changed, src, alone
<1>6. ActionFor(i) =
        IF there = {} THEN None
        ELSE IF there = Sides
          THEN IF changed = Sides THEN Act("resolve", "a", newst["a"][i].hash)
               ELSE IF changed = {} THEN None
               ELSE Act("update", Other(src), newst[src][i].hash)
        ELSE IF changed = there
          THEN Act("upload", Other(alone), newst[alone][i].hash)
          ELSE Act("delete", alone, newst[alone][i].hash)
  BY DEF ActionFor, there, changed, src, alone
<1>7. CASE there = {}
  BY <1>6, <1>7
<1>8. CASE there = Sides
  <2>1. "a" \in there
    BY <1>8 DEF Sides
  <2>2. Act("resolve", "a", newst["a"][i].hash) \in Action
    BY <2>1, <1>1, <1>4, <1>5
  <2>3. changed # {} => Act("update", Other(src), newst[src][i].hash) \in Action
    BY <1>1, <1>2, <1>4, <1>5
  <2> QED BY <1>6, <1>8, <2>1, <2>2, <2>3
<1>9. CASE there # {} /\ there # Sides
  <2>1. Act("upload", Other(alone), newst[alone][i].hash) \in Action
    BY <1>9, <1>1, <1>3, <1>4, <1>5
  <2>2. Act("delete", alone, newst[alone][i].hash) \in Action
    BY <1>9, <1>1, <1>3, <1>4, <1>5
  <2> QED BY <1>6, <1>9, <2>1, <2>2
<1> QED BY <1>7, <1>8, <1>9

LEMMA EditorTyped ==
  ASSUME TypeOK, Editor
  PROVE  TypeOK'
<1>1. PICK s \in Sides, h \in Hrefs :
        \/ \E i \in Idents, c \in Hashes : EditorPut(s, h, i, c)
        \/ EditorRemove(s, h)
        \/ \E h2 \in Hrefs : EditorMove(s, h, h2)
  BY DEF Editor
<1>2. ASSUME Edited PROVE SyncTyped' /\ BoundsTyped'
  <2>1. edits' \in 0 .. MaxEdits
    BY <1>2, BoundsAssumption DEF TypeOK, Edited
  <2>2. quiet' \in 0 .. 3
    BY <1>2 DEF Edited
  <2> QED BY <1>2, <2>1, <2>2 DEF TypeOK, Edited, SyncTyped, BoundsTyped, prepVars
<1>3. store[s] \in Storages
  BY DEF TypeOK
<1>4. ASSUME NEW i \in Idents, NEW c \in Hashes, EditorPut(s, h, i, c)
      PROVE  TypeOK'
  <2>1. StoreTyped'
    BY <1>4, WriteTyped DEF EditorPut, StoreTyped, TypeOK
  <2> QED BY <1>2, <1>4, <2>1, TypeParts DEF EditorPut, TypeOK, SyncTyped, StoreTyped, BoundsTyped
<1>5. CASE EditorRemove(s, h)
  <2>1. Removed(store[s], h) \in Storages
    BY <1>3, StorageTypes
  <2>2. StoreTyped'
    BY <1>5, <2>1 DEF EditorRemove, StoreTyped, TypeOK
  <2> QED BY <1>2, <1>5, <2>2 DEF EditorRemove, TypeOK, SyncTyped, StoreTyped, BoundsTyped
<1>6. ASSUME NEW h2 \in Hrefs, EditorMove(s, h, h2)
      PROVE  TypeOK'
  <2>1. [store[s] EXCEPT ![h] = None, ![h2] = store[s][h]] \in Storages
    BY <1>3, StorageTypes
  <2>2. StoreTyped'
    BY <1>6, <2>1 DEF EditorMove, StoreTyped, TypeOK
  <2> QED BY <1>2, <1>6, <2>2 DEF EditorMove, TypeOK, SyncTyped, StoreTyped, BoundsTyped
<1> QED BY <1>1, <1>4, <1>5, <1>6

LEMMA PrepareTyped ==
  ASSUME TypeOK, Prepare
  PROVE  SyncTyped' /\ UNCHANGED <<storeVars, boundVars>>
<1>1. CASE List
  <2>1. newst' \in Tables
    <3>1. [i \in Idents |-> IF Unmodified(cur, i) THEN status[cur][i] ELSE None]
            \in [Idents -> Meta \cup {None}]
      BY DEF TypeOK, Tables
    <3> QED BY <1>1, <3>1 DEF List, TypeOK, Tables
  <2>2. todo' \subseteq Hrefs
    BY <1>1 DEF List, Listed
  <2>3. nonempty' \in [Sides -> BOOLEAN]
    BY <1>1 DEF List, TypeOK
  <2> QED BY <1>1, <2>1, <2>2, <2>3 DEF List, TypeOK, SyncTyped
<1>2. ASSUME NEW h \in Hrefs, Fetch(h)
      PROVE  SyncTyped' /\ UNCHANGED <<storeVars, boundVars>>
  <2>1. store[cur][h] \in Item
    BY <1>2 DEF Fetch, TypeOK, Storages
  <2>2. [href |-> h, hash |-> store[cur][h].hash, etag |-> store[cur][h].etag] \in Meta
    BY <2>1 DEF Item, Meta
  <2>3. store[cur][h].ident \in Idents
    BY <2>1 DEF Item
  <2>4. newst' \in Tables
    BY <1>2, <2>2, <2>3, TableTypes DEF Fetch, TypeOK
  <2>5. cached' \in [Sides -> SUBSET Idents]
    BY <1>2, <2>3 DEF Fetch, TypeOK
  <2> QED BY <1>2, <2>4, <2>5 DEF Fetch, TypeOK, SyncTyped
<1>3. ASSUME NEW h \in Hrefs, FetchFails(h)
      PROVE  SyncTyped' /\ UNCHANGED <<storeVars, boundVars>>
  BY <1>3, AbortTyped DEF FetchFails
<1>4. CASE NextSide
  BY <1>4 DEF NextSide, TypeOK, SyncTyped, Sides
<1>5. CASE RefuseEmpty
  BY <1>5, AbortTyped DEF RefuseEmpty
<1>6. CASE Plan
  <2>1. plan' \in [Idents -> Action \cup {None}]
    BY <1>6, PlanTyped DEF Plan
  <2> QED BY <1>6, <2>1 DEF Plan, TypeOK, SyncTyped, prepVars
<1> QED BY <1>1, <1>2, <1>3, <1>4, <1>5, <1>6 DEF Prepare

LEMMA PendingTyped ==
  ASSUME TypeOK, NEW i \in Idents, NEW ops, Pending(i, ops)
  PROVE  /\ plan[i] # None
         /\ plan[i] \in Action
         /\ plan[i].dest \in Sides
         /\ plan[i].hash \in Hashes
BY DEF TypeOK, Pending, Action

LEMMA UpdateRowTyped ==
  ASSUME NEW m \in Meta, NEW e \in Etags \cup {None}
  PROVE  UpdateRow(m, e) \in Meta
BY DEF UpdateRow, Meta

LEMMA ReturnedEtagTyped ==
  ASSUME NEW s \in Sides, NEW e \in Etags
  PROVE  ReturnedEtag(s, e) \in Etags \cup {None}
BY DEF ReturnedEtag

(* The row an update finds current names a place of the storage.           *)
LEMMA CurrentTyped ==
  ASSUME TypeOK, NEW i \in Idents, NEW ops, Pending(i, ops), Current(i)
  PROVE  /\ newst[plan[i].dest][i] \in Meta
         /\ newst[plan[i].dest][i].href \in Hrefs
<1>1. plan[i].dest \in Sides
  BY PendingTyped
<1> QED BY <1>1 DEF TypeOK, Tables, Current, Holds

LEMMA RunActionTyped ==
  ASSUME TypeOK, NEW i \in Idents, RunAction(i)
  PROVE  SyncTyped' /\ StoreTyped' /\ UNCHANGED boundVars
<1> DEFINE d == plan[i].dest
<1>0. UNCHANGED storeVars => StoreTyped'
  BY DEF TypeOK, StoreTyped, storeVars
<1>1. CASE RejectReadOnly(i) \/ UploadRefused(i) \/ UpdateRefused(i)
            \/ DeleteRefused(i) \/ ResolveUnsettled(i)
  BY <1>0, <1>1, FailTyped
     DEF RejectReadOnly, UploadRefused, UpdateRefused, DeleteRefused, ResolveUnsettled
<1>2. CASE SkipReadOnly(i)
  <2>1. newst' \in Tables
    BY <1>2, TableTypes DEF SkipReadOnly, TypeOK
  <2>2. plan[i] # None
    BY <1>2 DEF SkipReadOnly, Pending
  <2> QED BY <1>0, <1>2, <2>1, <2>2, AdvanceTyped DEF SkipReadOnly
<1>3. CASE RevertUpload(i) \/ RevertUpdate(i)
  <2>1. plan[i] # None
    BY <1>3 DEF RevertUpload, RevertUpdate, Pending
  <2>2. SyncTyped'
    BY <1>3, <2>1, RevertTyped DEF RevertUpload, RevertUpdate
  <2> QED BY <1>0, <1>3, <2>2 DEF RevertUpload, RevertUpdate
<1>4. CASE UploadAccepted(i)
  <2>1. plan[i] # None /\ plan[i] \in Action /\ d \in Sides /\ plan[i].hash \in Hashes
    BY <1>4, PendingTyped DEF UploadAccepted
  <2>2. HrefOf[i] \in Hrefs
    BY HrefOfAssumption
  <2>3. FreshEtag(d) \in Etags
    BY <1>4, <2>1, FreshEtagLemma DEF UploadAccepted
  <2>4. [href |-> HrefOf[i], hash |-> plan[i].hash, etag |-> ReturnedEtag(d, FreshEtag(d))]
          \in Meta
    BY <2>1, <2>2, <2>3, ReturnedEtagTyped DEF Meta
  <2>5. newst' \in Tables
    BY <1>4, <2>1, <2>4, TableTypes DEF UploadAccepted, TypeOK
  <2>6. /\ store' \in [Sides -> Storages]
        /\ known' \in [Sides -> [Idents -> SUBSET Hashes]]
    BY <1>4, <2>1, <2>2, WriteTyped DEF UploadAccepted
  <2>7. agreed' \in [Idents -> Hashes \cup {None}]
    BY <1>4, <2>1 DEF UploadAccepted, TypeOK
  <2>8. SyncTyped'
    BY <1>4, <2>1, <2>5, AdvanceTyped DEF UploadAccepted
  <2> QED BY <1>4, <2>6, <2>7, <2>8 DEF UploadAccepted, StoreTyped
<1>5. CASE UpdateAccepted(i)
  <2>1. plan[i] # None /\ plan[i] \in Action /\ d \in Sides /\ plan[i].hash \in Hashes
    BY <1>5, PendingTyped DEF UpdateAccepted
  <2>2. newst[d][i] \in Meta /\ newst[d][i].href \in Hrefs
    BY <1>5, CurrentTyped DEF UpdateAccepted
  <2>3. FreshEtag(d) \in Etags
    BY <1>5, <2>1, FreshEtagLemma DEF UpdateAccepted
  <2>4. UpdateRow(newst[d][i], ReturnedEtag(d, FreshEtag(d))) \in Meta
    BY <2>1, <2>2, <2>3, ReturnedEtagTyped, UpdateRowTyped
  <2>5. newst' \in Tables
    BY <1>5, <2>1, <2>4, TableTypes DEF UpdateAccepted, TypeOK
  <2>6. /\ store' \in [Sides -> Storages]
        /\ known' \in [Sides -> [Idents -> SUBSET Hashes]]
    BY <1>5, <2>1, <2>2, WriteTyped DEF UpdateAccepted
  <2>7. agreed' \in [Idents -> Hashes \cup {None}]
    BY <1>5, <2>1 DEF UpdateAccepted, TypeOK
  <2>8. SyncTyped'
    BY <1>5, <2>1, <2>5, AdvanceTyped DEF UpdateAccepted
  <2> QED BY <1>5, <2>6, <2>7, <2>8 DEF UpdateAccepted, StoreTyped
<1>6. CASE DeleteSkipped(i)
  <2>1. newst' \in Tables
    BY <1>6, TableTypes DEF DeleteSkipped, TypeOK
  <2>2. plan[i] # None
    BY <1>6 DEF DeleteSkipped, Pending
  <2> QED BY <1>0, <1>6, <2>1, <2>2, AdvanceTyped DEF DeleteSkipped
<1>7. CASE DeleteAccepted(i)
  <2>1. plan[i] # None /\ d \in Sides
    BY <1>7, PendingTyped DEF DeleteAccepted
  <2>2. newst[d][i].href \in Hrefs
    BY <1>7, CurrentTyped DEF DeleteAccepted
  <2>3. newst' \in Tables
    BY <1>7, TableTypes DEF DeleteAccepted, TypeOK
  <2>4. Removed(store[d], newst[d][i].href) \in Storages
    BY <2>1, <2>2, StorageTypes DEF TypeOK
  <2>5. StoreTyped'
    BY <1>7, <2>1, <2>4 DEF DeleteAccepted, StoreTyped, TypeOK
  <2> QED BY <1>7, <2>1, <2>3, <2>5, AdvanceTyped DEF DeleteAccepted
<1>8. CASE ResolveSame(i)
  <2>1. plan' \in [Idents -> Action \cup {None}]
    BY <1>8 DEF ResolveSame, TypeOK
  <2>2. plan[i].hash \in Hashes
    BY <1>8, PendingTyped DEF ResolveSame
  <2>3. agreed' \in [Idents -> Hashes \cup {None}]
    BY <1>8, <2>2 DEF ResolveSame, TypeOK
  <2> QED BY <1>8, <2>1, <2>3 DEF ResolveSame, TypeOK, SyncTyped, StoreTyped, prepVars
<1>9. ASSUME NEW c \in Hashes, ResolveTo(i, c)
      PROVE  SyncTyped' /\ StoreTyped' /\ UNCHANGED boundVars
  <2>1. plan'[i] \in Action /\ plan' \in [Idents -> Action \cup {None}]
    BY <1>9 DEF ResolveTo, TypeOK, Act, Action, Ops, UpdateOps, Sides
  <2> QED BY <1>0, <1>9, <2>1 DEF ResolveTo, TypeOK, SyncTyped, prepVars
<1> QED BY <1>1, <1>2, <1>3, <1>4, <1>5, <1>6, <1>7, <1>8, <1>9 DEF RunAction

LEMMA FaultsTyped ==
  ASSUME TypeOK, Faults
  PROVE  TypeOK'
<1>0. faults < MaxFaults /\ faults' = faults + 1 => faults' \in 0 .. MaxFaults
  BY BoundsAssumption DEF TypeOK
<1>1. ASSUME NEW i \in Idents, NEW effect \in BOOLEAN, RequestFails(i, effect)
      PROVE  TypeOK'
  <2> DEFINE d == plan[i].dest
  <2>1. SyncTyped'
    BY <1>1, FailTyped DEF RequestFails
  <2>2. /\ store' \in [Sides -> Storages]
        /\ known' \in [Sides -> [Idents -> SUBSET Hashes]]
    <3>1. HasFreshEtag(d)
      BY <1>1 DEF RequestFails
    <3>2. UNCHANGED <<store, known>> =>
            /\ store' \in [Sides -> Storages]
            /\ known' \in [Sides -> [Idents -> SUBSET Hashes]]
      BY DEF TypeOK
    <3>3. CASE /\ Pending(i, {"upload"})
               /\ IF effect THEN Write(d, HrefOf[i], i, plan[i].hash)
                            ELSE UNCHANGED <<store, known>>
      <4>1. d \in Sides /\ plan[i].hash \in Hashes /\ HrefOf[i] \in Hrefs
        BY <3>3, PendingTyped, HrefOfAssumption
      <4> QED BY <3>1, <3>2, <3>3, <4>1, WriteTyped
    <3>4. CASE /\ Pending(i, UpdateOps) /\ Current(i)
               /\ IF effect THEN Write(d, newst[d][i].href, i, plan[i].hash)
                            ELSE UNCHANGED <<store, known>>
      <4>1. d \in Sides /\ plan[i].hash \in Hashes
        BY <3>4, PendingTyped
      <4>2. newst[d][i].href \in Hrefs
        BY <3>4, CurrentTyped
      <4> QED BY <3>1, <3>2, <3>4, <4>1, <4>2, WriteTyped
    <3>5. CASE /\ Pending(i, {"delete"}) /\ Current(i)
               /\ store' = IF effect
                             THEN [store EXCEPT ![d] = Removed(store[d], newst[d][i].href)]
                             ELSE store
               /\ UNCHANGED known
      <4>1. d \in Sides /\ newst[d][i].href \in Hrefs
        BY <3>5, PendingTyped, CurrentTyped
      <4>2. Removed(store[d], newst[d][i].href) \in Storages
        BY <4>1, StorageTypes DEF TypeOK
      <4> QED BY <3>5, <4>1, <4>2 DEF TypeOK
    <3> QED BY <1>1, <3>3, <3>4, <3>5 DEF RequestFails
  <2>3. agreed' = agreed /\ edits' = edits
    BY <1>1 DEF RequestFails
  <2>4. faults' \in 0 .. MaxFaults
    BY <1>0, <1>1 DEF RequestFails
  <2> QED BY <2>1, <2>2, <2>3, <2>4 DEF TypeOK, SyncTyped
<1>2. CASE Interrupted
  <2>1. SyncTyped'
    BY <1>2, AbortTyped DEF Interrupted
  <2> QED BY <1>0, <1>2, <2>1 DEF Interrupted, TypeOK, SyncTyped, storeVars
<1> QED BY <1>1, <1>2 DEF Faults

LEMMA StepTyped == TypeOK /\ [Next]_vars => TypeOK'
<1> SUFFICES ASSUME TypeOK, [Next]_vars PROVE TypeOK'
  OBVIOUS
<1>0. ASSUME UNCHANGED <<storeVars, boundVars>> PROVE StoreTyped' /\ BoundsTyped'
  BY <1>0 DEF TypeOK, StoreTyped, BoundsTyped, storeVars, boundVars
<1>1. CASE Editor
  BY <1>1, EditorTyped
<1>2. ASSUME NEW f \in BOOLEAN, NEW p \in PartialSync, StartSync(f, p) PROVE TypeOK'
  <2>1. SyncTyped'
    BY <1>2, OptionsAssumption DEF StartSync, TypeOK, SyncTyped
  <2> QED BY <1>0, <1>2, <2>1, TypeParts DEF StartSync, SyncTyped, StoreTyped, BoundsTyped, TypeOK
<1>3. CASE Prepare
  BY <1>0, <1>3, PrepareTyped DEF SyncTyped, StoreTyped, BoundsTyped, TypeOK
<1>4. ASSUME NEW i \in Idents, RunAction(i) PROVE TypeOK'
  <2>1. SyncTyped' /\ StoreTyped' /\ UNCHANGED boundVars
    BY <1>4, RunActionTyped
  <2> QED BY <2>1 DEF SyncTyped, StoreTyped, boundVars, TypeOK
<1>5. CASE Commit
  <2>1. status' \in Tables /\ quiet' \in 0 .. 3
    BY <1>5 DEF Commit, TypeOK
  <2>2. SyncTyped'
    BY <1>5, <2>1, EndOfSyncTyped DEF Commit
  <2> QED BY <1>0, <1>5, <2>2 DEF Commit, SyncTyped, StoreTyped, BoundsTyped, TypeOK
<1>6. CASE CommitRejected
  <2>1. SyncTyped'
    BY <1>6, AbortTyped DEF CommitRejected
  <2> QED BY <1>0, <1>6, <2>1 DEF CommitRejected, SyncTyped, StoreTyped, BoundsTyped, TypeOK
<1>7. CASE Faults
  BY <1>7, FaultsTyped
<1>8. CASE UNCHANGED vars
  BY <1>8 DEF vars, TypeOK
<1> QED BY <1>1, <1>2, <1>3, <1>4, <1>5, <1>6, <1>7, <1>8 DEF Next, Progress

(* Every variable keeps its type, whatever people, failures and sync() do. *)
THEOREM TypeCorrect == Spec => []TypeOK
<1>1. TypeOK /\ [Next]_vars => TypeOK'
  BY StepTyped
<1> QED BY InitTyped, <1>1, PTL DEF Spec

-----------------------------------------------------------------------------
(* The rows of the new status.                                             *)

(* What the statements on new_status do to the rows of every ident.        *)
LEMMA SetSideEffect ==
  ASSUME NEW t \in Tables, NEW i \in Idents, NEW d \in Sides, NEW m
  PROVE  \A s \in Sides, j \in Idents :
           SetSide(t, d, i, m)[s][j] = IF s = d /\ j = i THEN m ELSE t[s][j]
BY DEF SetSide, Tables

LEMMA RemoveEffect ==
  ASSUME NEW t \in Tables, NEW i \in Idents
  PROVE  \A s \in Sides, j \in Idents :
           RemoveIdent(t, i)[s][j] = IF j = i THEN None ELSE t[s][j]
BY DEF RemoveIdent, Tables

LEMMA RollbackEffect ==
  ASSUME NEW t \in Tables, NEW old \in Tables, NEW i \in Idents
  PROVE  \A s \in Sides, j \in Idents :
           Rollback(t, old, i)[s][j] = IF j = i THEN old[s][j] ELSE t[s][j]
BY DEF Rollback, Tables

LEMMA RowsInit == Init => RowsInv
<1> SUFFICES ASSUME Init PROVE RowsInv
  OBVIOUS
<1>1. TwoSided(status)
  <2>1. \A i \in Idents :
          [href |-> HrefOf[i], hash |-> FirstHash, etag |-> FirstEtag[i]] # None
              \/ i \notin InitialItems
    BY NoneIsNoMeta, InitialAssumption, HrefOfAssumption DEF Meta
  <2> QED BY <2>1 DEF Init, TwoSided, Sides
<1>2. PrepareInv
  BY DEF Init, PrepareInv
<1>3. pc # "run"
  BY DEF Init
<1> QED BY <1>1, <1>2, <1>3 DEF RowsInv

LEMMA AbortKeepsRows ==
  ASSUME RowsInv, Abort
  PROVE  RowsInv'
<1>1. PrepareInv'
  BY DEF Abort, EndOfSync, PrepareInv
<1>2. TwoSided(status)'
  BY DEF RowsInv, Abort, TwoSided
<1> QED BY <1>1, <1>2 DEF RowsInv, Abort, EndOfSync

(* An action disturbs the row of its own ident only.                       *)
LEMMA ActionKeepsRows ==
  ASSUME TypeOK, RowsInv, NEW i \in Idents, pc = "run",
         UNCHANGED <<status, pc, prepVars>>,
         \A j \in Idents \ {i} : plan'[j] = plan[j],
         \A j \in Idents \ {i}, s \in Sides : newst'[s][j] = newst[s][j],
         errors' \subseteq errors \cup {i},
         RunInv(i)'
  PROVE  RowsInv'
<1>1. ASSUME NEW j \in Idents \ {i} PROVE RunInv(j)'
  <2>1. RunInv(j)
    BY DEF RowsInv
  <2>2. plan'[j] = plan[j] /\ (j \in errors' => j \in errors)
    OBVIOUS
  <2>3. \A ops : Pending(j, ops)' <=> Pending(j, ops)
    BY <2>2 DEF Pending
  <2>4. plan[j] # None => plan[j].dest \in Sides
    BY DEF TypeOK, Action
  <2> QED BY <2>1, <2>2, <2>3, <2>4, SidesLemma
          DEF RunInv, BothRows, NoRows, prepVars, Pending
<1>2. TwoSided(status)'
  BY DEF RowsInv, TwoSided
<1>3. PrepareInv'
  BY DEF RowsInv, PrepareInv, prepVars
<1> QED BY <1>1, <1>2, <1>3 DEF RowsInv

LEMMA FailKeepsRows ==
  ASSUME TypeOK, RowsInv, NEW i \in Idents, pc = "run", Fail(i)
  PROVE  RowsInv'
<1>1. CASE HasErrorCallback
  <2>1. \A s \in Sides, j \in Idents :
          newst'[s][j] = IF j = i THEN status[s][j] ELSE newst[s][j]
    BY <1>1, RollbackEffect DEF Fail, TypeOK
  <2>2. plan'[i] = None /\ \A j \in Idents \ {i} : plan'[j] = plan[j]
    BY <1>1 DEF Fail, TypeOK
  <2>3. UNCHANGED <<status, pc, prepVars>> /\ errors' = errors \cup {i}
    BY <1>1 DEF Fail
  <2>4. (status["a"][i] = None) = (status["b"][i] = None)
    BY DEF RowsInv, TwoSided
  <2>5. RunInv(i)'
    BY <2>1, <2>2, <2>3, <2>4 DEF RunInv, BothRows, NoRows, Pending, Sides
  <2> QED BY <2>1, <2>2, <2>3, <2>5, ActionKeepsRows
<1>2. CASE ~HasErrorCallback
  BY <1>2, AbortKeepsRows DEF Fail
<1> QED BY <1>1, <1>2

(* An action that went well: what it left behind fits what remains.        *)
LEMMA AdvanceKeepsRows ==
  ASSUME TypeOK, RowsInv, NEW i \in Idents, pc = "run", plan[i] # None, Advance(i),
         \A j \in Idents \ {i}, s \in Sides : newst'[s][j] = newst[s][j],
         plan[i].op # "merge" => BothRows(i)' \/ NoRows(i)',
         plan[i].op = "merge" => BothRows(i)' \/ (NoRows(i)' /\ partial = "ignore")
  PROVE  RowsInv'
<1>1. plan'[i] = Remaining(i) /\ \A j \in Idents \ {i} : plan'[j] = plan[j]
  BY DEF Advance, TypeOK
<1>2. UNCHANGED <<status, pc, prepVars>> /\ errors' = errors
  BY DEF Advance
<1>3. i \notin errors
  BY DEF RowsInv, RunInv
<1>4. RunInv(i)'
  <2>1. CASE plan[i].op = "merge"
    <3>1. plan'[i] = Act("settle", "b", plan[i].hash)
      BY <1>1, <2>1 DEF Remaining
    <3>2. plan'[i] # None /\ plan'[i].op = "settle"
      BY <3>1, NoneIsNoAction, PendingTyped DEF Act, Action, Ops, UpdateOps, Sides, TypeOK
    <3> QED BY <1>2, <1>3, <2>1, <3>2 DEF RunInv, Pending, BothRows, NoRows, prepVars
  <2>2. CASE plan[i].op # "merge"
    <3>1. plan'[i] = None
      BY <1>1, <2>2 DEF Remaining
    <3> QED BY <1>2, <1>3, <2>2, <3>1 DEF RunInv, Pending, BothRows, NoRows
  <2> QED BY <2>1, <2>2
<1> QED BY <1>1, <1>2, <1>4, ActionKeepsRows

LEMMA RunActionKeepsRows ==
  ASSUME TypeOK, RowsInv, NEW i \in Idents, RunAction(i)
  PROVE  RowsInv'
<1> DEFINE d == plan[i].dest
<1>0. pc = "run" /\ plan[i] # None /\ plan[i] \in Action /\ d \in Sides /\ RunInv(i)
  <2>1. pc = "run" /\ plan[i] # None
    BY DEF RunAction, Pending, RejectReadOnly, SkipReadOnly, RevertUpload, UploadAccepted,
           UploadRefused, RevertUpdate, UpdateAccepted, UpdateRefused, DeleteSkipped,
           DeleteAccepted, DeleteRefused, ResolveSame, ResolveUnsettled, ResolveTo
  <2> QED BY <2>1 DEF TypeOK, Action, RowsInv
<1>1. CASE RejectReadOnly(i) \/ UploadRefused(i) \/ UpdateRefused(i)
            \/ DeleteRefused(i) \/ ResolveUnsettled(i)
  BY <1>0, <1>1, FailKeepsRows
     DEF RejectReadOnly, UploadRefused, UpdateRefused, DeleteRefused, ResolveUnsettled
<1>2. CASE SkipReadOnly(i)
  <2>1. \A s \in Sides, j \in Idents :
          newst'[s][j] = IF j = i THEN status[s][j] ELSE newst[s][j]
    BY <1>2, RollbackEffect DEF SkipReadOnly, TypeOK
  <2>2. BothRows(i)' \/ NoRows(i)'
    BY <2>1 DEF BothRows, NoRows, RowsInv, TwoSided, Sides
  <2>3. partial = "ignore" /\ Advance(i)
    BY <1>2 DEF SkipReadOnly
  <2> QED BY <1>0, <2>1, <2>2, <2>3, AdvanceKeepsRows
<1>3. CASE RevertUpload(i) \/ UploadAccepted(i)
  <2>1. PICK m \in Meta \cup {None} : newst' = SetSide(newst, d, i, m) /\ m # None
    <3>1. \A h, c, e : [href |-> h, hash |-> c, etag |-> e] \in Meta
             => [href |-> h, hash |-> c, etag |-> e] # None
      BY NoneIsNoMeta
    <3>2. HrefOf[i] \in Hrefs /\ plan[i].hash \in Hashes
      BY <1>0, HrefOfAssumption DEF Action
    <3>3. CASE RevertUpload(i)
      <4>1. [href |-> None, hash |-> plan[i].hash, etag |-> None] \in Meta
        BY <3>2 DEF Meta
      <4> QED BY <3>1, <3>3, <4>1 DEF RevertUpload
    <3>4. CASE UploadAccepted(i)
      <4>1. ReturnedEtag(d, FreshEtag(d)) \in Etags \cup {None}
        BY <1>0, <3>4, FreshEtagLemma, ReturnedEtagTyped DEF UploadAccepted
      <4>2. [href |-> HrefOf[i], hash |-> plan[i].hash,
             etag |-> ReturnedEtag(d, FreshEtag(d))] \in Meta
        BY <3>2, <4>1 DEF Meta
      <4> QED BY <3>1, <3>4, <4>2 DEF UploadAccepted
    <3> QED BY <1>3, <3>3, <3>4
  <2>2. \A s \in Sides, j \in Idents :
          newst'[s][j] = IF s = d /\ j = i THEN m ELSE newst[s][j]
    BY <1>0, <2>1, SetSideEffect DEF TypeOK
  <2>3. Pending(i, {"upload"}) /\ Advance(i)
    BY <1>3 DEF RevertUpload, UploadAccepted
  <2>4. newst[Other(d)][i] # None
    BY <1>0, <2>3 DEF RunInv
  <2>5. BothRows(i)'
    BY <1>0, <2>1, <2>2, <2>4 DEF BothRows, Sides, Other
  <2> QED BY <1>0, <2>2, <2>3, <2>5, AdvanceKeepsRows DEF Pending
<1>4. CASE RevertUpdate(i) \/ UpdateAccepted(i)
  <2>1. PICK m \in Meta \cup {None} : newst' = SetSide(newst, d, i, m) /\ m # None
    <3>1. CASE RevertUpdate(i)
      <4>1. [href |-> None, hash |-> plan[i].hash, etag |-> None] \in Meta
        BY <1>0 DEF Meta, Action
      <4> QED BY <3>1, <4>1, NoneIsNoMeta DEF RevertUpdate
    <3>2. CASE UpdateAccepted(i)
      <4>1. newst[d][i] \in Meta
        BY <1>0, <3>2, CurrentTyped DEF UpdateAccepted
      <4>2. ReturnedEtag(d, FreshEtag(d)) \in Etags \cup {None}
        BY <1>0, <3>2, FreshEtagLemma, ReturnedEtagTyped DEF UpdateAccepted
      <4>3. UpdateRow(newst[d][i], ReturnedEtag(d, FreshEtag(d))) \in Meta
        BY <4>1, <4>2, UpdateRowTyped
      <4> QED BY <3>2, <4>3, NoneIsNoMeta DEF UpdateAccepted
    <3> QED BY <1>4, <3>1, <3>2
  <2>2. \A s \in Sides, j \in Idents :
          newst'[s][j] = IF s = d /\ j = i THEN m ELSE newst[s][j]
    BY <1>0, <2>1, SetSideEffect DEF TypeOK
  <2>3. Pending(i, UpdateOps) /\ Advance(i)
    BY <1>4 DEF RevertUpdate, UpdateAccepted
  <2>4. BothRows(i)
    <3>1. CASE RevertUpdate(i)
      <4>1. partial = "revert"
        BY <3>1 DEF RevertUpdate, Runs
      <4> QED BY <1>0, <2>3, <4>1 DEF RunInv, Pending, UpdateOps
    <3>2. CASE UpdateAccepted(i)
      <4>1. newst[d][i] # None
        BY <3>2 DEF UpdateAccepted, Current
      <4> QED BY <1>0, <2>3, <4>1 DEF RunInv, Pending, UpdateOps, NoRows
    <3> QED BY <1>4, <3>1, <3>2
  <2>5. BothRows(i)'
    BY <1>0, <2>1, <2>2, <2>4 DEF BothRows
  <2> QED BY <1>0, <2>2, <2>3, <2>5, AdvanceKeepsRows
<1>5. CASE DeleteSkipped(i) \/ DeleteAccepted(i)
  <2>1. newst' = RemoveIdent(newst, i) /\ Advance(i) /\ plan[i].op = "delete"
    BY <1>5 DEF DeleteSkipped, DeleteAccepted, Pending
  <2>2. \A s \in Sides, j \in Idents :
          newst'[s][j] = IF j = i THEN None ELSE newst[s][j]
    BY <2>1, RemoveEffect DEF TypeOK
  <2>3. NoRows(i)'
    BY <2>2 DEF NoRows
  <2> QED BY <1>0, <2>1, <2>2, <2>3, AdvanceKeepsRows
<1>6. CASE ResolveSame(i)
  <2>1. plan'[i] = None /\ \A j \in Idents \ {i} : plan'[j] = plan[j]
    BY <1>6 DEF ResolveSame, TypeOK
  <2>2. UNCHANGED <<status, newst, pc, prepVars, errors>>
    BY <1>6 DEF ResolveSame
  <2>3. BothRows(i) /\ i \notin errors
    BY <1>0, <1>6 DEF RunInv, ResolveSame, Pending
  <2>4. RunInv(i)'
    BY <2>1, <2>2, <2>3 DEF RunInv, BothRows, Pending
  <2> QED BY <1>0, <2>1, <2>2, <2>4, ActionKeepsRows
<1>7. ASSUME NEW c \in Hashes, ResolveTo(i, c)
      PROVE  RowsInv'
  <2>1. plan'[i] \in Action /\ plan'[i].op \in {"settle", "merge"}
    BY <1>7 DEF ResolveTo, TypeOK, Act, Action, Ops, UpdateOps, Sides
  <2>2. \A j \in Idents \ {i} : plan'[j] = plan[j]
    BY <1>7 DEF ResolveTo, TypeOK
  <2>3. UNCHANGED <<status, newst, pc, prepVars, errors>>
    BY <1>7 DEF ResolveTo
  <2>4. BothRows(i) /\ i \notin errors
    BY <1>0, <1>7 DEF RunInv, ResolveTo, Pending
  <2>5. RunInv(i)'
    BY <2>1, <2>3, <2>4, NoneIsNoAction DEF RunInv, BothRows, Pending
  <2> QED BY <1>0, <2>2, <2>3, <2>5, ActionKeepsRows
<1> QED BY <1>1, <1>2, <1>3, <1>4, <1>5, <1>6, <1>7 DEF RunAction

(* What is planned for an ident, by the sides that have it and the sides   *)
(* that changed it.                                                        *)
LEMMA PlannedAction ==
  ASSUME NEW i \in Idents
  PROVE  /\ ActionFor(i) = None \/ ActionFor(i).op \in {"upload", "delete", "resolve", "update"}
         /\ NoRows(i) => ActionFor(i) = None
         /\ \A s \in Sides :
              newst[s][i] # None /\ newst[Other(s)][i] = None =>
                ActionFor(i) = IF IsChanged(s, i)
                                 THEN Act("upload", Other(s), newst[s][i].hash)
                                 ELSE Act("delete", s, newst[s][i].hash)
         /\ BothRows(i) =>
              /\ (\A s \in Sides : IsChanged(s, i)) =>
                   ActionFor(i) = Act("resolve", "a", newst["a"][i].hash)
              /\ (\A s \in Sides : ~IsChanged(s, i)) => ActionFor(i) = None
              /\ \A s \in Sides : IsChanged(s, i) /\ ~IsChanged(Other(s), i) =>
                   ActionFor(i) = Act("update", Other(s), newst[s][i].hash)
<1> DEFINE there   == {s \in Sides : newst[s][i] # None}
           changed == {s \in there : IsChanged(s, i)}
           src     == CHOOSE s \in changed : TRUE
           alone   == CHOOSE s \in there : TRUE
<1>1. ActionFor(i) =
        IF there = {} THEN None
        ELSE IF there = Sides
          THEN IF changed = Sides THEN Act("resolve", "a", newst["a"][i].hash)
               ELSE IF changed = {} THEN None
               ELSE Act("update", Other(src), newst[src][i].hash)
        ELSE IF changed = there
          THEN Act("upload", Other(alone), newst[alone][i].hash)
          ELSE Act("delete", alone, newst[alone][i].hash)
  BY DEF ActionFor
<1>2. NoRows(i) => ActionFor(i) = None
  <2>1. NoRows(i) => there = {}
    BY DEF NoRows
  <2> QED BY <1>1, <2>1
<1>3. ASSUME NEW s \in Sides, newst[s][i] # None, newst[Other(s)][i] = None
      PROVE  ActionFor(i) = IF IsChanged(s, i)
                              THEN Act("upload", Other(s), newst[s][i].hash)
                              ELSE Act("delete", s, newst[s][i].hash)
  <2>1. there = {s} /\ there # Sides
    BY <1>3, SidesLemma DEF Sides, Other
  <2>2. alone = s
    BY <2>1
  <2>3. changed = IF IsChanged(s, i) THEN {s} ELSE {}
    BY <2>1
  <2> QED BY <1>1, <2>1, <2>2, <2>3
<1>4. ASSUME BothRows(i) PROVE there = Sides /\ there # {}
  BY <1>4 DEF BothRows, Sides
<1>5. ASSUME BothRows(i), \A s \in Sides : IsChanged(s, i)
      PROVE  ActionFor(i) = Act("resolve", "a", newst["a"][i].hash)
  <2>1. changed = Sides
    BY <1>4, <1>5
  <2> QED BY <1>1, <1>4, <1>5, <2>1
<1>6. ASSUME BothRows(i), \A s \in Sides : ~IsChanged(s, i)
      PROVE  ActionFor(i) = None
  <2>1. changed = {}
    BY <1>4, <1>6
  <2> QED BY <1>1, <1>4, <1>6, <2>1
<1>7. ASSUME BothRows(i), NEW s \in Sides, IsChanged(s, i), ~IsChanged(Other(s), i)
      PROVE  ActionFor(i) = Act("update", Other(s), newst[s][i].hash)
  <2>1. changed = {s}
    BY <1>4, <1>7 DEF Sides, Other
  <2>2. src = s /\ changed # Sides /\ changed # {}
    BY <2>1, SidesLemma
  <2> QED BY <1>1, <1>4, <1>7, <2>2
<1>8. ActionFor(i) = None \/ ActionFor(i).op \in {"upload", "delete", "resolve", "update"}
  BY <1>1 DEF Act
<1> QED BY <1>2, <1>3, <1>5, <1>6, <1>7, <1>8

LEMMA PlanKeepsRows ==
  ASSUME TypeOK, RowsInv, Plan
  PROVE  RowsInv'
<1>1. pc = "fetch" /\ PrepareInv /\ pc' = "run" /\ UNCHANGED <<status, newst, prepVars, errors>>
  BY DEF Plan, Prepared, RowsInv
<1>2. ASSUME NEW i \in Idents PROVE RunInv(i)'
  <2>0. plan'[i] = ActionFor(i) /\ errors' = {}
    BY <1>1 DEF Plan, PrepareInv
  <2>1. \A s \in Sides : newst[s][i] # None /\ IsChanged(s, i) => i \in cached[s]
    <3> SUFFICES ASSUME NEW s \in Sides, newst[s][i] # None, newst[s][i] = status[s][i],
                        IsChanged(s, i)
                 PROVE  FALSE
      BY <1>1 DEF PrepareInv
    <3> QED BY DEF IsChanged
  <2>2. CASE NoRows(i)
    <3>1. ActionFor(i) = None
      BY <2>2, PlannedAction
    <3> QED BY <1>1, <2>0, <2>2, <3>1 DEF RunInv, Pending, NoRows
  <2>3. CASE BothRows(i)
    <3>1. BothRows(i)'
      BY <1>1, <2>3 DEF BothRows
    <3>2. CASE \A s \in Sides : IsChanged(s, i)
      <4>1. ActionFor(i) = Act("resolve", "a", newst["a"][i].hash)
        BY <2>3, <3>2, PlannedAction
      <4>2. \A s \in Sides : i \in cached'[s]
        BY <1>1, <2>1, <2>3, <3>2 DEF BothRows, prepVars
      <4>3. plan'[i] # None /\ plan'[i].op = "resolve"
        <5>1. "a" \in Sides
          BY DEF Sides
        <5>2. newst["a"][i].hash \in Hashes
          BY <2>3, <5>1 DEF BothRows, TypeOK, Tables, Meta
        <5> QED BY <2>0, <4>1, <5>1, <5>2, NoneIsNoAction DEF Act, Action, Ops
      <4> QED BY <2>0, <3>1, <4>2, <4>3 DEF RunInv, Pending
    <3>3. CASE \A s \in Sides : ~IsChanged(s, i)
      <4>1. ActionFor(i) = None
        BY <2>3, <3>3, PlannedAction
      <4> QED BY <2>0, <3>1, <4>1 DEF RunInv, Pending
    <3>4. ASSUME NEW s \in Sides, IsChanged(s, i), ~IsChanged(Other(s), i)
          PROVE  RunInv(i)'
      <4>1. ActionFor(i) = Act("update", Other(s), newst[s][i].hash)
        BY <2>3, <3>4, PlannedAction
      <4>2. plan'[i].op = "update"
        BY <2>0, <4>1 DEF Act
      <4>3. plan'[i] # None
        BY <2>3, <2>0, <4>1, SidesLemma, NoneIsNoAction
           DEF Act, Action, Ops, UpdateOps, BothRows, TypeOK, Tables, Meta
      <4> QED BY <2>0, <3>1, <4>2, <4>3 DEF RunInv, Pending
    <3> QED BY <3>2, <3>3, <3>4 DEF Sides, Other
  <2>4. ASSUME NEW s \in Sides, newst[s][i] # None, newst[Other(s)][i] = None
        PROVE  RunInv(i)'
    <3>1. newst'[s][i] # None /\ newst'[Other(s)][i] = None
      BY <1>1, <2>4
    <3>2. newst[s][i].hash \in Hashes
      BY <2>4 DEF TypeOK, Tables, Meta
    <3>3. CASE IsChanged(s, i)
      <4>1. plan'[i] = Act("upload", Other(s), newst[s][i].hash)
        BY <2>0, <2>4, <3>3, PlannedAction
      <4>2. plan'[i] # None /\ plan'[i].op = "upload" /\ plan'[i].dest = Other(s)
        BY <3>2, <4>1, SidesLemma, NoneIsNoAction DEF Act, Action, Ops
      <4>3. Other(Other(s)) = s
        BY DEF Sides, Other
      <4> QED BY <2>0, <3>1, <4>2, <4>3 DEF RunInv, Pending
    <3>4. CASE ~IsChanged(s, i)
      <4>1. plan'[i] = Act("delete", s, newst[s][i].hash)
        BY <2>0, <2>4, <3>4, PlannedAction
      <4>2. plan'[i] # None /\ plan'[i].op = "delete" /\ plan'[i].dest = s
        BY <3>2, <4>1, NoneIsNoAction DEF Act, Action, Ops
      <4>3. status[s][i] # None
        BY <3>4 DEF IsChanged
      <4>4. statusNonempty /\ nonempty[s]
        BY <1>1, <2>4, <4>3 DEF PrepareInv, HasRow
      <4>5. ~MustRefuse
        BY DEF Plan
      <4>6. force' \/ nonempty'[Other(s)]
        BY <1>1, <4>4, <4>5 DEF MustRefuse, OneSideListedEmpty, prepVars, Sides, Other
      <4> QED BY <2>0, <3>1, <4>2, <4>6 DEF RunInv, Pending
    <3> QED BY <3>3, <3>4
  <2> QED BY <2>2, <2>3, <2>4 DEF BothRows, NoRows, Sides, Other
<1>3. TwoSided(status)'
  BY <1>1 DEF RowsInv, TwoSided
<1>4. PrepareInv'
  BY <1>1 DEF PrepareInv, prepVars
<1> QED BY <1>2, <1>3, <1>4 DEF RowsInv

LEMMA PrepareKeepsRows ==
  ASSUME TypeOK, RowsInv, Prepare
  PROVE  RowsInv'
<1>0. PrepareInv
  BY DEF RowsInv
<1>1. CASE List
  <2>1. /\ \A i \in Idents : newst'[cur][i] = IF Unmodified(cur, i) THEN status[cur][i] ELSE None
        /\ \A i \in Idents : newst'[Other(cur)][i] = newst[Other(cur)][i]
    BY <1>1, SidesLemma DEF List, TypeOK, Tables
  <2>2. /\ nonempty'[cur] = (Listed(store[cur]) # {})
        /\ nonempty'[Other(cur)] = nonempty[Other(cur)]
    BY <1>1, SidesLemma DEF List, TypeOK
  <2>3. \A i \in Idents : newst'[cur][i] # None =>
          nonempty'[cur] /\ newst'[cur][i] = status[cur][i]
    BY <2>1, <2>2 DEF Unmodified, Holds, Listed
  <2>4. todo' # {} => nonempty'[cur]
    BY <1>1, <2>2 DEF List
  <2>5. pc = "list" /\ pc' = "fetch" /\ UNCHANGED <<cur, status, cached, plan, errors, statusNonempty, partial>>
    BY <1>1 DEF List
  <2>6. \A s \in Sides : s = cur \/ s = Other(cur)
    BY DEF TypeOK, Sides, Other
  <2>7. PrepareInv'
    BY <1>0, <2>1, <2>2, <2>3, <2>4, <2>5, <2>6 DEF PrepareInv, HasRow, Other, TypeOK, Sides
  <2> QED BY <2>5, <2>7 DEF RowsInv, TwoSided
<1>2. ASSUME NEW h \in Hrefs, Fetch(h) PROVE RowsInv'
  <2> DEFINE j == store[cur][h].ident
             m == [href |-> h, hash |-> store[cur][h].hash, etag |-> store[cur][h].etag]
  <2>1. j \in Idents
    BY <1>2 DEF Fetch, TypeOK, Storages, Item
  <2>2. \A s \in Sides, i \in Idents :
          newst'[s][i] = IF s = cur /\ i = j THEN m ELSE newst[s][i]
    BY <1>2, <2>1, SetSideEffect DEF Fetch, TypeOK
  <2>3. j \in cached'[cur] /\ \A s \in Sides : cached[s] \subseteq cached'[s]
    BY <1>2 DEF Fetch, TypeOK
  <2>4. nonempty[cur]
    BY <1>0, <1>2 DEF Fetch, PrepareInv
  <2>5. /\ pc = "fetch" /\ pc' = "fetch" /\ todo' \subseteq todo
        /\ UNCHANGED <<cur, status, nonempty, plan, errors, statusNonempty, partial>>
    BY <1>2 DEF Fetch
  <2> HIDE DEF j, m
  <2>6. PrepareInv'
    BY <1>0, <2>2, <2>3, <2>4, <2>5 DEF PrepareInv, HasRow, Sides
  <2> QED BY <2>5, <2>6 DEF RowsInv, TwoSided
<1>3. ASSUME NEW h \in Hrefs, FetchFails(h) PROVE RowsInv'
  BY <1>3, AbortKeepsRows DEF FetchFails
<1>4. CASE NextSide
  <2>1. PrepareInv'
    BY <1>0, <1>4 DEF NextSide, PrepareInv, HasRow
  <2> QED BY <1>4, <2>1 DEF NextSide, RowsInv, TwoSided
<1>5. CASE RefuseEmpty
  BY <1>5, AbortKeepsRows DEF RefuseEmpty
<1>6. CASE Plan
  BY <1>6, PlanKeepsRows
<1> QED BY <1>1, <1>2, <1>3, <1>4, <1>5, <1>6 DEF Prepare

LEMMA RowsStep == TypeOK /\ RowsInv /\ [Next]_vars => RowsInv'
<1> SUFFICES ASSUME TypeOK, RowsInv, [Next]_vars PROVE RowsInv'
  OBVIOUS
<1>0. ASSUME UNCHANGED <<status, newst, pc, prepVars, plan, errors>> PROVE RowsInv'
  <2>1. PrepareInv'
    BY <1>0 DEF RowsInv, PrepareInv, HasRow, prepVars
  <2>2. ASSUME NEW i \in Idents, RunInv(i) PROVE RunInv(i)'
    BY <1>0, <2>2 DEF RunInv, BothRows, NoRows, Pending, prepVars
  <2>3. TwoSided(status)'
    BY <1>0 DEF RowsInv, TwoSided
  <2> QED BY <1>0, <2>1, <2>2, <2>3 DEF RowsInv
<1>1. CASE Editor
  BY <1>0, <1>1 DEF Editor, EditorPut, EditorRemove, EditorMove, Edited
<1>2. ASSUME NEW f \in BOOLEAN, NEW p \in PartialSync, StartSync(f, p) PROVE RowsInv'
  <2>1. PrepareInv'
    BY <1>2 DEF StartSync, RowsInv, PrepareInv, HasRow, EmptyTable, Sides
  <2> QED BY <1>2, <2>1 DEF StartSync, RowsInv, TwoSided
<1>3. CASE Prepare
  BY <1>3, PrepareKeepsRows
<1>4. ASSUME NEW i \in Idents, RunAction(i) PROVE RowsInv'
  BY <1>4, RunActionKeepsRows
<1>5. CASE Commit
  <2>1. TwoSided(status)'
    BY <1>5 DEF Commit, Committable, TwoSided
  <2>2. PrepareInv'
    BY <1>5 DEF Commit, EndOfSync, PrepareInv
  <2> QED BY <1>5, <2>1, <2>2 DEF Commit, EndOfSync, RowsInv
<1>6. CASE CommitRejected
  BY <1>6, AbortKeepsRows DEF CommitRejected
<1>7. CASE Faults
  <2>1. ASSUME NEW i \in Idents, NEW effect \in BOOLEAN, RequestFails(i, effect) PROVE RowsInv'
    BY <2>1, FailKeepsRows DEF RequestFails, Pending
  <2> QED BY <1>7, <2>1, AbortKeepsRows DEF Faults, Interrupted
<1>8. CASE UNCHANGED vars
  BY <1>0, <1>8 DEF vars, prepVars
<1> QED BY <1>1, <1>2, <1>3, <1>4, <1>5, <1>6, <1>7, <1>8 DEF Next, Progress

LEMMA RowsAlways == Spec => [](TypeOK /\ RowsInv)
<1>1. Init => TypeOK /\ RowsInv
  BY InitTyped, RowsInit
<1>2. (TypeOK /\ RowsInv) /\ [Next]_vars => (TypeOK /\ RowsInv)'
  BY StepTyped, RowsStep
<1> QED BY <1>1, <1>2, PTL DEF Spec

(* Both sides of every row survive failures, skips and interruptions: the  *)
(* assertion in rollback() and the NOT NULL constraints always hold.       *)
THEOREM StatusStaysTwoSided == Spec => []StatusTwoSided
<1>1. TypeOK /\ RowsInv => StatusTwoSided
  <2> SUFFICES ASSUME RowsInv PROVE StatusTwoSided
    OBVIOUS
  <2>1. ASSUME AllRun, NEW i \in Idents PROVE (newst["a"][i] = None) = (newst["b"][i] = None)
    <3>1. plan[i] = None /\ RunInv(i)
      BY <2>1 DEF AllRun, NoPlan, RowsInv
    <3> QED BY <3>1 DEF RunInv, BothRows, NoRows, Sides
  <2> QED BY <2>1 DEF StatusTwoSided, RowsInv, TwoSided
<1> QED BY <1>1, RowsAlways, PTL

(* The rows and cached items an action reads are there when it runs, so    *)
(* none of the lookups and assertions of the actions fails.                *)
THEOREM RowsAndCacheAlwaysAgree == Spec => []RowsAndCacheAgree
<1>1. TypeOK /\ RowsInv => RowsAndCacheAgree
  <2> SUFFICES ASSUME TypeOK, RowsInv PROVE RowsAndCacheAgree
    OBVIOUS
  <2>1. ASSUME Prepared, NEW s \in Sides, NEW i \in Idents, newst[s][i] # None, IsChanged(s, i)
        PROVE  i \in cached[s]
    <3>1. newst[s][i] # status[s][i]
      BY <2>1 DEF IsChanged
    <3> QED BY <2>1, <3>1 DEF Prepared, RowsInv, PrepareInv
  <2>2. ASSUME NEW i \in Idents, NEW ops, Pending(i, ops)
        PROVE  RunInv(i) /\ plan[i].dest \in Sides
    BY <2>2, PendingTyped DEF RowsInv, Pending
  <2> QED BY <2>1, <2>2 DEF RowsAndCacheAgree, RunInv, BothRows, Pending
<1> QED BY <1>1, RowsAlways, PTL

(* A failed action leaves the row of its ident as the last sync left it.   *)
THEOREM FailedAlwaysKeepsStatus == Spec => []FailedKeepsStatus
<1>1. TypeOK /\ RowsInv => FailedKeepsStatus
  BY DEF TypeOK, RowsInv, RunInv, FailedKeepsStatus
<1> QED BY <1>1, RowsAlways, PTL

-----------------------------------------------------------------------------
(* How sync() changes a storage: by the action of an ident, at one place   *)
(* of a writable destination, which is empty or has the version listed.    *)

LEMMA StoreChanges ==
  ASSUME TypeOK, [Next]_vars, BySync,
         NEW s \in Sides, NEW h \in Hrefs, store'[s][h] # store[s][h]
  PROVE  \E i \in Idents :
           /\ plan[i] # None /\ pc = "run" /\ s = plan[i].dest /\ s \notin ReadOnly
           /\ \/ plan[i].op = "upload" /\ store[s][h] = None
              \/ /\ plan[i].op \in UpdateOps /\ store'[s][h] # None
                 /\ Current(i) /\ h = newst[s][i].href
              \/ /\ plan[i].op = "delete"
                 /\ Current(i) /\ h = newst[s][i].href
<1>1. ~Editor
  <2>1. Editor => edits' = edits + 1
    BY DEF Editor, EditorPut, EditorRemove, EditorMove, Edited
  <2> QED BY <2>1 DEF BySync, TypeOK
<1>2. ASSUME NEW i \in Idents, NEW ops, Pending(i, ops), NEW h2 \in Hrefs,
             HasFreshEtag(plan[i].dest), Write(plan[i].dest, h2, i, plan[i].hash)
      PROVE  s = plan[i].dest /\ h = h2 /\ store'[s][h] # None
  <2>1. plan[i].dest \in Sides /\ plan[i].hash \in Hashes
    BY <1>2, PendingTyped
  <2>2. FreshEtag(plan[i].dest) \in Etags
    BY <1>2, <2>1, FreshEtagLemma
  <2> DEFINE new == [ident |-> i, hash |-> plan[i].hash, etag |-> FreshEtag(plan[i].dest)]
  <2>3. new # None
    BY <2>1, <2>2, NoneAssumption DEF Item
  <2>4. store'[s][h] = IF s = plan[i].dest /\ h = h2 THEN new ELSE store[s][h]
    BY <1>2, <2>1 DEF Write, Put, TypeOK, Storages
  <2> QED BY <2>3, <2>4
<1>3. ASSUME NEW i \in Idents, NEW h2 \in Hrefs, plan[i].dest \in Sides,
             store' = [store EXCEPT ![plan[i].dest] = Removed(store[plan[i].dest], h2)]
      PROVE  s = plan[i].dest /\ h = h2
  BY <1>3 DEF Removed, TypeOK, Storages
<1>4. ASSUME NEW i \in Idents,
             \/ /\ Pending(i, {"upload"}) /\ plan[i].dest \notin ReadOnly
                /\ store[plan[i].dest][HrefOf[i]] = None
                /\ HasFreshEtag(plan[i].dest)
                /\ Write(plan[i].dest, HrefOf[i], i, plan[i].hash)
             \/ /\ Pending(i, UpdateOps) /\ plan[i].dest \notin ReadOnly
                /\ Current(i)
                /\ HasFreshEtag(plan[i].dest)
                /\ Write(plan[i].dest, newst[plan[i].dest][i].href, i, plan[i].hash)
             \/ /\ Pending(i, {"delete"}) /\ ~Keeps(plan[i].dest)
                /\ Current(i)
                /\ store' = [store EXCEPT ![plan[i].dest] =
                               Removed(store[plan[i].dest], newst[plan[i].dest][i].href)]
      PROVE  /\ plan[i] # None /\ pc = "run" /\ s = plan[i].dest /\ s \notin ReadOnly
             /\ \/ plan[i].op = "upload" /\ store[s][h] = None
                \/ /\ plan[i].op \in UpdateOps /\ store'[s][h] # None
                   /\ Current(i) /\ h = newst[s][i].href
                \/ /\ plan[i].op = "delete"
                   /\ Current(i) /\ h = newst[s][i].href
  <2>1. HrefOf[i] \in Hrefs
    BY HrefOfAssumption
  <2>2. pc = "run" /\ plan[i] # None /\ plan[i].dest \in Sides
    BY <1>4, PendingTyped DEF Pending
  <2>3. Current(i) => newst[plan[i].dest][i].href \in Hrefs
    BY DEF Current, Holds
  <2>4. CASE Pending(i, {"upload"}) /\ Write(plan[i].dest, HrefOf[i], i, plan[i].hash)
    BY <1>2, <1>4, <2>1, <2>2, <2>4 DEF Pending, Ops, UpdateOps
  <2>5. CASE Pending(i, UpdateOps)
    <3>1. Pending(i, UpdateOps) /\ ~Pending(i, {"upload"}) /\ ~Pending(i, {"delete"})
      BY <2>5 DEF Pending, UpdateOps
    <3> QED BY <1>2, <1>4, <2>2, <2>3, <3>1 DEF Pending
  <2>6. CASE Pending(i, {"delete"})
    <3>1. ~Pending(i, UpdateOps) /\ ~Pending(i, {"upload"}) /\ plan[i].op = "delete"
      BY <2>6 DEF Pending, UpdateOps
    <3> QED BY <1>3, <1>4, <2>2, <2>3, <3>1 DEF Keeps
  <2> QED BY <1>4, <2>4, <2>5, <2>6
<1>5. CASE \E i \in Idents : RunAction(i)
  <2>1. PICK i \in Idents : UploadAccepted(i) \/ UpdateAccepted(i) \/ DeleteAccepted(i)
    BY <1>5 DEF RunAction, RejectReadOnly, SkipReadOnly, RevertUpload, UploadRefused,
       RevertUpdate, UpdateRefused, DeleteSkipped, DeleteRefused, ResolveSame,
       ResolveUnsettled, ResolveTo, storeVars
  <2> QED BY <1>4, <2>1 DEF UploadAccepted, UpdateAccepted, DeleteAccepted
<1>6. CASE \E i \in Idents, effect \in BOOLEAN : RequestFails(i, effect)
  <2>1. PICK i \in Idents, effect \in BOOLEAN : RequestFails(i, effect)
    BY <1>6
  <2>2. effect = TRUE
    BY <2>1 DEF RequestFails
  <2> QED BY <1>4, <2>1, <2>2 DEF RequestFails
<1> QED
  BY <1>1, <1>5, <1>6 DEF Next, Progress, StartSync, Prepare, List, Fetch, FetchFails, NextSide,
     RefuseEmpty, Plan, Commit, CommitRejected, Faults, Interrupted, storeVars, vars

(* A read-only storage is never written to.                                *)
THEOREM ReadOnlyAlwaysUntouched == Spec => ReadOnlyUntouched
<1>1. TypeOK /\ [Next]_vars => [BySync => \A s \in ReadOnly : store'[s] = store[s]]_vars
  <2> SUFFICES ASSUME TypeOK, [Next]_vars, BySync, NEW s \in ReadOnly
               PROVE  store'[s] = store[s]
    OBVIOUS
  <2>1. s \in Sides /\ store[s] \in Storages /\ store'[s] \in Storages
    BY StepTyped, OptionsAssumption DEF TypeOK
  <2>2. \A h \in Hrefs : store'[s][h] = store[s][h]
    BY <2>1, StoreChanges
  <2> QED BY <2>1, <2>2 DEF Storages
<1> QED BY <1>1, TypeCorrect, PTL DEF Spec, ReadOnlyUntouched

(* sync() does not empty a side because it found the other one empty.      *)
THEOREM EmptySideAlwaysSpared == Spec => EmptySideSpared
<1>1. TypeOK /\ RowsInv /\ [Next]_vars =>
        [\A s \in Sides : \A h \in Hrefs :
           BySync /\ store[s][h] # None /\ store'[s][h] = None =>
             force \/ nonempty[Other(s)]]_vars
  <2> SUFFICES ASSUME TypeOK, RowsInv, [Next]_vars, NEW s \in Sides, NEW h \in Hrefs,
                      BySync, store[s][h] # None, store'[s][h] = None
               PROVE  force \/ nonempty[Other(s)]
    OBVIOUS
  <2>1. PICK i \in Idents : plan[i] # None /\ pc = "run" /\ plan[i].dest = s
                            /\ plan[i].op = "delete"
    BY StoreChanges
  <2>2. RunInv(i) /\ Pending(i, {"delete"})
    BY <2>1 DEF RowsInv, Pending
  <2> QED BY <2>1, <2>2 DEF RunInv
<1> QED BY <1>1, RowsAlways, PTL DEF Spec, EmptySideSpared

-----------------------------------------------------------------------------
(***************************************************************************)
(* No edit is lost: the proof of NoLostEdit by way of the inductive        *)
(* invariant VersionsInv, whether conflicts are left to the user or are    *)
(* resolved.                                                               *)
(***************************************************************************)

(* When conflicts are resolved, what a resolution decided against must not *)
(* come back: the row of its side keeps its hash, and would take it for    *)
(* unchanged.  A merge moreover needs one item per UID to write to, and    *)
(* must not be skipped on the side it starts with.                         *)
DecisionsHold ==
  Settling =>
    /\ "undo" \notin EditorMay
    /\ ConflictResolution = "merge" =>
         /\ "duplicate" \notin EditorMay
         /\ "a" \in ReadOnly => "ignore" \notin PartialSync

(* Brings, Read and IsVersion after a step, for a row m from before it.    *)
IsVersionNext(s, m, h) == store'[s][h] # None /\ store'[s][h].etag = m.etag
AnsweredNext(s, i, c) ==
  /\ Settling /\ s \in Covered
  /\ c \in known'[s][i]
  /\ \A h \in Hrefs : store'[s][h] # None /\ store'[s][h].ident = i =>
       store'[s][h].hash # c
BringsNext(s, i, m, cs) ==
  /\ m.hash \in known'[Other(s)][i] \cup cs \/ AnsweredNext(s, i, m.hash)
  /\ \A h \in Hrefs : IsVersionNext(s, m, h) =>
       /\ store'[s][h].ident = i
       /\ store'[s][h].hash \in known'[Other(s)][i] \cup cs
CarriedNext(s, i, m) == BringsNext(s, i, m, {})
ReadNext(s, i, m) ==
  /\ m.hash \in known'[s][i]
  /\ \A h \in Hrefs : IsVersionNext(s, m, h) =>
       store'[s][h].ident = i /\ store'[s][h].hash = m.hash

(* Storages are only ever changed by moving, removing and adding versions, *)
(* and the added ones have fresh etags.                                    *)
OldOrFresh ==
  \A s \in Sides, h \in Hrefs : store'[s][h] # None =>
    \/ \E h2 \in Hrefs : store'[s][h] = store[s][h2]
    \/ store'[s][h].etag \notin EtagsInUse(s)
Grows == \A s \in Sides, i \in Idents : known[s][i] \subseteq known'[s][i]

(* What a resolution decided against does not come back, unless the other  *)
(* side has had it.                                                        *)
AnswersKept ==
  \A s \in Sides, i \in Idents : \A c \in known[s][i] :
    Answered(s, i, c) => AnsweredNext(s, i, c) \/ c \in known'[Other(s)][i]

StoreStep ==
  /\ OldOrFresh
  /\ Grows
  /\ AnswersKept
  /\ DistinctVersions'
  /\ OwnContents'
  /\ DistinctContents'

(* Content c, written at h, was on the other side, is new, or is there.    *)
Introduces(s, h, i, c) ==
  Settling /\ s \in Covered =>
    \/ c \in known[Other(s)][i]
    \/ c \notin known[s][i]
    \/ store[s][h] # None /\ store[s][h].ident = i /\ store[s][h].hash = c

(* Side a got no new content of item i, or no older version of i is left.  *)
Undisputed(i) ==
  \/ known'["a"][i] = known["a"][i]
  \/ \A h \in Hrefs : store'["a"][h] # None /\ store'["a"][h].ident = i =>
       store'["a"][h].etag \notin EtagsInUse("a")

LEMMA CoveredSides == Covered \subseteq Sides
BY DEF Covered

LEMMA InUse ==
  ASSUME NEW s \in Sides
  PROVE  /\ \A i \in Idents : status[s][i] # None => status[s][i].etag \in EtagsInUse(s)
         /\ \A i \in Idents : newst[s][i] # None => newst[s][i].etag \in EtagsInUse(s)
         /\ \A h \in Hrefs : store[s][h] # None => store[s][h].etag \in EtagsInUse(s)
BY DEF EtagsInUse, Listed

LEMMA VersionsKept ==
  ASSUME TypeOK, TypeOK', OldOrFresh, Grows, NEW s \in Sides, NEW i \in Idents,
         NEW m, m.etag \in EtagsInUse(s), AnswersKept
  PROVE  /\ \A cs : Brings(s, i, m, cs) => BringsNext(s, i, m, cs)
         /\ Carried(s, i, m) => CarriedNext(s, i, m)
         /\ Read(s, i, m) => ReadNext(s, i, m)
<1>1. ASSUME NEW h \in Hrefs, IsVersionNext(s, m, h)
      PROVE  \E h2 \in Hrefs : store'[s][h] = store[s][h2] /\ IsVersion(s, m, h2)
  BY <1>1 DEF IsVersionNext, IsVersion, OldOrFresh
<1>2. Other(s) \in Sides
  BY SidesLemma
<1>3. known[s][i] \subseteq known'[s][i] /\ known[Other(s)][i] \subseteq known'[Other(s)][i]
  BY <1>2 DEF Grows
<1>4. ASSUME NEW cs, Brings(s, i, m, cs) PROVE BringsNext(s, i, m, cs)
  <2>1. m.hash \in known'[Other(s)][i] \cup cs \/ AnsweredNext(s, i, m.hash)
    <3>1. CASE m.hash \in known[Other(s)][i] \cup cs
      BY <1>3, <3>1
    <3>2. CASE Answered(s, i, m.hash)
      BY <3>2 DEF AnswersKept, Answered
    <3> QED BY <1>4, <3>1, <3>2 DEF Brings
  <2>2. ASSUME NEW h \in Hrefs, IsVersionNext(s, m, h)
        PROVE  /\ store'[s][h].ident = i
               /\ store'[s][h].hash \in known'[Other(s)][i] \cup cs
    BY <1>1, <1>3, <1>4, <2>2 DEF Brings
  <2> QED BY <2>1, <2>2 DEF BringsNext
<1>5. Read(s, i, m) => ReadNext(s, i, m)
  BY <1>1, <1>3 DEF Read, ReadNext
<1> QED BY <1>4, <1>5 DEF Carried, CarriedNext

(* A row carries once the other side has what it waits for.                *)
LEMMA BringsAll ==
  ASSUME NEW s \in Sides, NEW i \in Idents, NEW m, NEW cs, BringsNext(s, i, m, cs),
         cs \subseteq known'[Other(s)][i]
  PROVE  CarriedNext(s, i, m)
<1>1. known'[Other(s)][i] \cup cs = known'[Other(s)][i] \cup {}
  OBVIOUS
<1> QED BY <1>1 DEF CarriedNext, BringsNext

(* A row that was read waits for its content to be on the other side.      *)
LEMMA ReadBrings ==
  ASSUME NEW s, NEW i, NEW m, NEW cs, m.hash \in cs
  PROVE  /\ Read(s, i, m) => Brings(s, i, m, cs)
         /\ ReadNext(s, i, m) => BringsNext(s, i, m, cs)
BY DEF Read, Brings, ReadNext, BringsNext

(* No item has the etag None.                                              *)
LEMMA NoVersion ==
  ASSUME TypeOK', NEW s \in Sides, NEW i \in Idents, NEW m, m.etag = None, NEW cs,
         m.hash \in known'[Other(s)][i] \cup cs \/ AnsweredNext(s, i, m.hash)
  PROVE  BringsNext(s, i, m, cs)
<1>1. \A h \in Hrefs : ~IsVersionNext(s, m, h)
  BY NoneAssumption DEF IsVersionNext, TypeOK, Storages, Item
<1> QED BY <1>1 DEF BringsNext

LEMMA SameStore ==
  ASSUME VersionsInv, UNCHANGED <<store, known>>
  PROVE  StoreStep
<1>1. AnswersKept
  BY DEF AnswersKept, Answered, AnsweredNext, Listed
<1>2. DistinctContents'
  BY DEF VersionsInv, DistinctContents, Listed
<1> QED BY <1>1, <1>2
      DEF VersionsInv, StoreStep, OldOrFresh, Grows, DistinctVersions, OwnContents

LEMMA WriteStep ==
  ASSUME TypeOK, VersionsInv, NEW s \in Sides, NEW h \in Hrefs, NEW i \in Idents,
         NEW c \in Hashes, HasFreshEtag(s), Write(s, h, i, c), Introduces(s, h, i, c)
  PROVE  /\ StoreStep
         /\ store'[s][h] = [ident |-> i, hash |-> c, etag |-> FreshEtag(s)]
         /\ c \in known'[s][i]
         /\ \A h2 \in Hrefs : store'[s][h2] # None /\ store'[s][h2].etag = FreshEtag(s) => h2 = h
<1> DEFINE new == [ident |-> i, hash |-> c, etag |-> FreshEtag(s)]
<1>1. FreshEtag(s) \in Etags /\ FreshEtag(s) \notin EtagsInUse(s)
  BY FreshEtagLemma
<1>2. new \in Item /\ new # None
  BY <1>1, NoneAssumption DEF Item
<1>3. \A s2 \in Sides, h2 \in Hrefs :
        store'[s2][h2] = IF s2 = s /\ h2 = h THEN new ELSE store[s2][h2]
  BY DEF Write, Put, TypeOK, Storages
<1>4. \A s2 \in Sides, j \in Idents :
        known'[s2][j] = IF s2 = s /\ j = i THEN known[s2][j] \cup {c} ELSE known[s2][j]
  BY DEF Write, TypeOK
<1>5. \A h2 \in Hrefs : store[s][h2] # None => store[s][h2].etag # FreshEtag(s)
  BY <1>1, InUse
<1>6. OldOrFresh
  BY <1>1, <1>3 DEF OldOrFresh
<1>7. Grows
  BY <1>4 DEF Grows
<1>8. DistinctVersions'
  <2> SUFFICES ASSUME NEW s2 \in Sides, NEW h1 \in Hrefs, NEW h2 \in Hrefs,
                      store'[s2][h1] # None, store'[s2][h2] # None,
                      store'[s2][h1].etag = store'[s2][h2].etag
               PROVE  h1 = h2
    BY DEF DistinctVersions, Listed
  <2> QED BY <1>3, <1>5 DEF VersionsInv, DistinctVersions, Listed
<1>9. OwnContents'
  <2> SUFFICES ASSUME NEW s2 \in Sides, NEW h2 \in Hrefs, store'[s2][h2] # None
               PROVE  store'[s2][h2].hash \in known'[s2][store'[s2][h2].ident]
    BY DEF OwnContents, Listed
  <2>1. CASE s2 = s /\ h2 = h
    <3>1. store'[s2][h2].ident = i /\ store'[s2][h2].hash = c
      BY <1>3, <2>1
    <3>2. c \in known'[s][i]
      BY <1>4
    <3> QED BY <2>1, <3>1, <3>2
  <2>2. CASE ~(s2 = s /\ h2 = h)
    <3>1. store'[s2][h2] = store[s2][h2] /\ store[s2][h2].ident \in Idents
      BY <1>3, <2>2 DEF TypeOK, Storages, Item
    <3>2. store[s2][h2].hash \in known[s2][store[s2][h2].ident]
      BY <3>1 DEF VersionsInv, OwnContents, Listed
    <3>3. known[s2][store[s2][h2].ident] \subseteq known'[s2][store[s2][h2].ident]
      BY <1>7, <3>1 DEF Grows
    <3> QED BY <3>1, <3>2, <3>3
  <2> QED BY <2>1, <2>2
<1>10. AnswersKept
  <2> SUFFICES ASSUME NEW s2 \in Sides, NEW j \in Idents, NEW c2 \in known[s2][j],
                      Answered(s2, j, c2), c2 \notin known'[Other(s2)][j]
               PROVE  AnsweredNext(s2, j, c2)
    BY DEF AnswersKept
  <2>1. known[Other(s2)][j] \subseteq known'[Other(s2)][j] /\ c2 \in known'[s2][j]
    BY <1>7, SidesLemma DEF Grows
  <2>2. ~(s2 = s /\ j = i /\ c2 = c)
    BY <2>1 DEF Introduces, Answered, Listed
  <2>3. ASSUME NEW h2 \in Hrefs, store'[s2][h2] # None, store'[s2][h2].ident = j
        PROVE  store'[s2][h2].hash # c2
    <3>1. CASE s2 = s /\ h2 = h
      <4>1. store'[s2][h2].ident = i /\ store'[s2][h2].hash = c
        BY <1>3, <3>1
      <4> QED BY <2>2, <2>3, <3>1, <4>1
    <3>2. CASE ~(s2 = s /\ h2 = h)
      BY <1>3, <2>3, <3>2 DEF Answered, Listed
    <3> QED BY <3>1, <3>2
  <2> QED BY <2>1, <2>3 DEF Answered, AnsweredNext
<1>11. DistinctContents'
  <2> SUFFICES ASSUME Settling, NEW s2 \in Covered, NEW h1 \in Hrefs, NEW h2 \in Hrefs,
                      store'[s2][h1] # None, store'[s2][h2] # None,
                      store'[s2][h1].ident = store'[s2][h2].ident,
                      store'[s2][h1].hash = store'[s2][h2].hash, h1 # h2
               PROVE  store'[s2][h1].hash \in known'[Other(s2)][store'[s2][h1].ident]
    BY DEF DistinctContents, Listed
  <2>0. s2 \in Sides /\ Other(s2) \in Sides
    BY CoveredSides, SidesLemma
  <2>1. ASSUME NEW h3 \in Hrefs, s2 = s, h3 # h, store[s][h3] # None,
               store[s][h3].ident = i, store[s][h3].hash = c
        PROVE  c \in known'[Other(s)][i]
    <3>1. c \in known[s][i]
      BY <2>1 DEF VersionsInv, OwnContents, Listed
    <3>2. c \in known[Other(s)][i]
      BY <2>1, <3>1 DEF Introduces, VersionsInv, DistinctContents, Listed
    <3> QED BY <1>7, <2>0, <2>1, <3>2 DEF Grows
  <2>2. CASE s2 = s /\ (h1 = h \/ h2 = h)
    <3>1. store'[s][h].ident = i /\ store'[s][h].hash = c
      BY <1>3
    <3> QED BY <1>3, <2>1, <2>2, <3>1
  <2>3. CASE ~(s2 = s /\ (h1 = h \/ h2 = h))
    <3>1. store'[s2][h1] = store[s2][h1] /\ store'[s2][h2] = store[s2][h2]
      BY <1>3, <2>0, <2>3
    <3>2. store[s2][h1].ident \in Idents
      BY <2>0, <3>1 DEF TypeOK, Storages, Item
    <3>3. store[s2][h1].hash \in known[Other(s2)][store[s2][h1].ident]
      BY <3>1 DEF VersionsInv, DistinctContents, Listed
    <3>4. known[Other(s2)][store[s2][h1].ident] \subseteq known'[Other(s2)][store[s2][h1].ident]
      BY <1>7, <2>0, <3>2 DEF Grows
    <3> QED BY <3>1, <3>3, <3>4
  <2> QED BY <2>2, <2>3
<1> QED BY <1>3, <1>4, <1>5, <1>6, <1>7, <1>8, <1>9, <1>10, <1>11 DEF StoreStep

(* An item was taken away from a place, and perhaps put to an empty one.   *)
LEMMA MoveStep ==
  ASSUME TypeOK, VersionsInv, NEW s \in Sides, NEW h \in Hrefs, UNCHANGED known,
         \/ store' = [store EXCEPT ![s] = Removed(store[s], h)]
         \/ \E h2 \in Hrefs :
              /\ store[s][h2] = None
              /\ store' = [store EXCEPT ![s] = [store[s] EXCEPT ![h] = None,
                                                               ![h2] = store[s][h]]]
  PROVE  StoreStep
<1>1. Grows
  BY DEF Grows
<1>2. CASE store' = [store EXCEPT ![s] = Removed(store[s], h)]
  <2>1. \A s2 \in Sides, h2 \in Hrefs :
          store'[s2][h2] = IF s2 = s /\ h2 = h THEN None ELSE store[s2][h2]
    BY <1>2 DEF Removed, TypeOK, Storages
  <2>2. AnswersKept
    BY <2>1 DEF AnswersKept, Answered, AnsweredNext, Listed
  <2>3. DistinctContents'
    BY <2>1, CoveredSides DEF VersionsInv, DistinctContents, Listed
  <2> QED BY <1>1, <2>1, <2>2, <2>3 DEF StoreStep, VersionsInv, OldOrFresh, DistinctVersions,
            OwnContents, Listed
<1>3. ASSUME NEW to \in Hrefs, store[s][to] = None,
             store' = [store EXCEPT ![s] = [store[s] EXCEPT ![h] = None, ![to] = store[s][h]]]
      PROVE  StoreStep
  <2>1. \A s2 \in Sides, h2 \in Hrefs :
          store'[s2][h2] = IF s2 = s /\ h2 = to THEN store[s][h]
                           ELSE IF s2 = s /\ h2 = h THEN None ELSE store[s2][h2]
    BY <1>3 DEF TypeOK, Storages
  <2>2. OldOrFresh
    BY <2>1 DEF OldOrFresh
  <2>3. DistinctVersions'
    <3> SUFFICES ASSUME NEW s2 \in Sides, NEW h1 \in Hrefs, NEW h2 \in Hrefs,
                        store'[s2][h1] # None, store'[s2][h2] # None,
                        store'[s2][h1].etag = store'[s2][h2].etag
                 PROVE  h1 = h2
      BY DEF DistinctVersions, Listed
    <3> QED BY <1>3, <2>1 DEF VersionsInv, DistinctVersions, Listed
  <2>4. OwnContents'
    BY <2>1 DEF VersionsInv, OwnContents, Listed
  <2>5. AnswersKept
    BY <2>1 DEF AnswersKept, Answered, AnsweredNext, Listed
  <2>6. DistinctContents'
    <3> SUFFICES ASSUME Settling, NEW s2 \in Covered, NEW h1 \in Hrefs, NEW h2 \in Hrefs,
                        store'[s2][h1] # None, store'[s2][h2] # None,
                        store'[s2][h1].ident = store'[s2][h2].ident,
                        store'[s2][h1].hash = store'[s2][h2].hash, h1 # h2
                 PROVE  store'[s2][h1].hash \in known'[Other(s2)][store'[s2][h1].ident]
      BY DEF DistinctContents, Listed
    <3>1. s2 \in Sides
      BY CoveredSides
    <3> DEFINE from(x) == IF s2 = s /\ x = to THEN h ELSE x
    <3>2. /\ store'[s2][h1] = store[s2][from(h1)] /\ store'[s2][h2] = store[s2][from(h2)]
          /\ from(h1) # from(h2) /\ from(h1) \in Hrefs /\ from(h2) \in Hrefs
      BY <1>3, <2>1, <3>1
    <3> HIDE DEF from
    <3> QED BY <3>2 DEF VersionsInv, DistinctContents, Listed
  <2> QED BY <1>1, <2>2, <2>3, <2>4, <2>5, <2>6 DEF StoreStep
<1> QED BY <1>2, <1>3

-----------------------------------------------------------------------------
(* The parts of VersionsInv after a step, in terms of the lemmas above.    *)

LEMMA RowsNext ==
  ASSUME NEW s, NEW i
  PROVE  /\ \A cs : BringsNext(s, i, status'[s][i], cs) <=> Brings(s, i, status[s][i], cs)'
         /\ \A cs : BringsNext(s, i, newst'[s][i], cs) <=> Brings(s, i, newst[s][i], cs)'
         /\ CarriedNext(s, i, status'[s][i]) <=> Carried(s, i, status[s][i])'
         /\ CarriedNext(s, i, newst'[s][i]) <=> Carried(s, i, newst[s][i])'
         /\ ReadNext(s, i, newst'[s][i]) <=> Read(s, i, newst[s][i])'
<1>1. \A c : AnsweredNext(s, i, c) <=> Answered(s, i, c)'
  BY DEF Answered, AnsweredNext, Listed
<1> QED BY <1>1 DEF Brings, Carried, Read, IsVersion, BringsNext, CarriedNext, ReadNext,
                    IsVersionNext

LEMMA StatusCarriedNext ==
  ASSUME \A s \in Covered, i \in Idents :
           status'[s][i] # None => CarriedNext(s, i, status'[s][i])
  PROVE  StatusCarried'
BY RowsNext DEF StatusCarried

LEMMA PreparedReadNext ==
  ASSUME \A s \in Sides, i \in Idents :
           newst'[s][i] # None /\ newst'[s][i] # status'[s][i] =>
             /\ ReadNext(s, i, newst'[s][i])
             /\ s \in Covered /\ status'[s][i] # None
                  /\ newst'[s][i].etag = status'[s][i].etag =>
                  newst'[s][i].hash \in known'[Other(s)][i]
  PROVE  PreparedRead'
BY RowsNext DEF PreparedRead

LEMMA DoneNext ==
  ASSUME NEW i \in Idents, plan'[i] = None,
         \A s \in Covered : newst'[s][i] # None => CarriedNext(s, i, newst'[s][i])
  PROVE  RunVersions(i)'
<1>1. \A ops : ~Pending(i, ops)'
  BY DEF Pending
<1>2. \A s \in Covered : newst'[s][i] # None => Carried(s, i, newst[s][i])'
  BY RowsNext
<1> QED BY <1>1, <1>2 DEF RunVersions

(* The status is only written by Commit.                                   *)
LEMMA StatusKept ==
  ASSUME TypeOK, TypeOK', VersionsInv, StoreStep, status' = status
  PROVE  StatusCarried' /\ DistinctVersions' /\ OwnContents' /\ DistinctContents'
<1>1. ASSUME NEW s \in Covered, NEW i \in Idents, status'[s][i] # None
      PROVE  CarriedNext(s, i, status'[s][i])
  <2>1. s \in Sides /\ Carried(s, i, status[s][i])
    BY <1>1, CoveredSides DEF VersionsInv, StatusCarried
  <2>2. status[s][i].etag \in EtagsInUse(s)
    BY <1>1, <2>1, InUse
  <2> QED BY <2>1, <2>2, VersionsKept DEF StoreStep
<1>2. StatusCarried'
  BY <1>1, StatusCarriedNext
<1> QED BY <1>2 DEF StoreStep

LEMMA AbortVersions ==
  ASSUME TypeOK, TypeOK', VersionsInv, StoreStep, Abort
  PROVE  VersionsInv'
<1>1. pc' = "idle" /\ status' = status
  BY DEF Abort, EndOfSync
<1>2. StatusCarried' /\ DistinctVersions' /\ OwnContents' /\ DistinctContents'
  BY <1>1, StatusKept
<1>3. pc' \notin {"list", "fetch"} /\ pc' # "run"
  BY <1>1
<1> QED BY <1>2, <1>3 DEF VersionsInv

(* A row that is not touched stays what it was.                            *)
LEMMA RowKept ==
  ASSUME TypeOK, TypeOK', StoreStep, NEW s \in Sides, NEW i \in Idents,
         newst[s][i] # None, newst'[s][i] = newst[s][i]
  PROVE  /\ \A cs : Brings(s, i, newst[s][i], cs) => BringsNext(s, i, newst'[s][i], cs)
         /\ Carried(s, i, newst[s][i]) => CarriedNext(s, i, newst'[s][i])
         /\ Read(s, i, newst[s][i]) => ReadNext(s, i, newst'[s][i])
<1>1. newst[s][i].etag \in EtagsInUse(s)
  BY InUse
<1> QED BY <1>1, VersionsKept DEF StoreStep

(* The version a merge is about to write over is still without its result. *)
LEMMA MergeKept ==
  ASSUME TypeOK, TypeOK', StoreStep, NEW i \in Idents, Undisputed(i), NEW c,
         newst["a"][i] # None, newst'["a"][i] = newst["a"][i], Read("a", i, newst["a"][i]),
         \A h \in Hrefs : IsVersion("a", newst["a"][i], h) => c \notin known["a"][i],
         NEW h \in Hrefs, IsVersionNext("a", newst'["a"][i], h)
  PROVE  c \notin known'["a"][i]
<1>1. "a" \in Sides
  BY DEF Sides
<1>2. newst[ "a"][i].etag \in EtagsInUse("a")
  BY <1>1, InUse
<1>3. store'["a"][h].ident = i
  BY <1>1, RowKept DEF ReadNext
<1>4. known'["a"][i] = known["a"][i]
  BY <1>2, <1>3 DEF Undisputed, IsVersionNext
<1>5. \E h2 \in Hrefs : IsVersion("a", newst["a"][i], h2)
  BY <1>1, <1>2 DEF IsVersion, IsVersionNext, StoreStep, OldOrFresh
<1> QED BY <1>4, <1>5

(* Actions of other idents, and edits, leave RunVersions of an ident.      *)
LEMMA OthersKept ==
  ASSUME TypeOK, TypeOK', RowsInv, StoreStep, NEW i \in Idents, RunVersions(i),
         pc = "run", pc' = pc, plan'[i] = plan[i],
         \A s \in Sides : newst'[s][i] = newst[s][i],
         ConflictResolution = "merge" => Undisputed(i)
  PROVE  RunVersions(i)'
<1>0. RunInv(i) /\ \A s \in Sides : Other(s) \in Sides
  BY SidesLemma DEF RowsInv
<1>1. \A ops : Pending(i, ops)' <=> Pending(i, ops)
  BY DEF Pending
<1>2. \A s \in Sides : newst[s][i] # None =>
        /\ \A cs : Brings(s, i, newst[s][i], cs) => BringsNext(s, i, newst'[s][i], cs)
        /\ Carried(s, i, newst[s][i]) => CarriedNext(s, i, newst'[s][i])
        /\ Read(s, i, newst[s][i]) => ReadNext(s, i, newst'[s][i])
  BY RowKept
<1>4. CASE plan[i] = None
  BY <1>2, <1>4, CoveredSides, DoneNext DEF RunVersions
<1>5. CASE plan[i] # None
  <2> DEFINE d == plan[i].dest
             c == plan[i].hash
  <2>0. d \in Sides /\ Other(d) \in Sides /\ plan'[i] # None
    BY <1>0, <1>5 DEF TypeOK, Action
  <2>1. Pending(i, {"update", "delete"}) /\ d \in Covered => Carried(d, i, newst[d][i])'
    <3> SUFFICES ASSUME Pending(i, {"update", "delete"}), d \in Covered
                 PROVE  Carried(d, i, newst[d][i])'
      OBVIOUS
    <3>1. newst[d][i] # None
      BY <1>0, <2>0 DEF RunInv, Pending, BothRows
    <3>2. CarriedNext(d, i, newst'[d][i])
      BY <1>2, <2>0, <3>1 DEF RunVersions
    <3> QED BY <1>5, <3>2, RowsNext
  <2>2. Pending(i, {"update", "upload", "settle"}) =>
          /\ d \in Covered => c \in known'[Other(d)][i]
          /\ Other(d) \in Covered => Brings(Other(d), i, newst[Other(d)][i], {c})'
    <3> SUFFICES ASSUME Pending(i, {"update", "upload", "settle"})
                 PROVE  /\ d \in Covered => c \in known'[Other(d)][i]
                        /\ Other(d) \in Covered => Brings(Other(d), i, newst[Other(d)][i], {c})'
      OBVIOUS
    <3>1. newst[Other(d)][i] # None
      BY <1>0, <2>0 DEF RunInv, RunVersions, Pending, BothRows
    <3>2. known[Other(d)][i] \subseteq known'[Other(d)][i]
      BY <2>0 DEF StoreStep, Grows
    <3>3. Other(d) \in Covered => BringsNext(Other(d), i, newst'[Other(d)][i], {c})
      BY <1>2, <2>0, <3>1 DEF RunVersions
    <3>4. d \in Covered => c \in known[Other(d)][i]
      BY DEF RunVersions
    <3> QED BY <3>2, <3>3, <3>4, RowsNext
  <2>3. Pending(i, {"settle"}) => BothRows(i)' /\ (d \in Covered => Read(d, i, newst[d][i])')
    <3> SUFFICES ASSUME Pending(i, {"settle"})
                 PROVE  BothRows(i)' /\ (d \in Covered => Read(d, i, newst[d][i])')
      OBVIOUS
    <3>1. BothRows(i) /\ (d \in Covered => Read(d, i, newst[d][i]))
      BY DEF RunVersions
    <3>2. BothRows(i)'
      BY <3>1 DEF BothRows
    <3>3. d \in Covered => ReadNext(d, i, newst'[d][i])
      BY <1>2, <2>0, <3>1 DEF BothRows
    <3> QED BY <3>2, <3>3, RowsNext
  <2>4. Pending(i, {"resolve", "merge"}) => \A s \in Sides : Read(s, i, newst[s][i])'
    <3> SUFFICES ASSUME Pending(i, {"resolve", "merge"}), NEW s \in Sides
                 PROVE  Read(s, i, newst[s][i])'
      OBVIOUS
    <3>1. newst[s][i] # None /\ Read(s, i, newst[s][i])
      BY <1>0 DEF RunInv, BothRows, Pending, RunVersions
    <3> QED BY <1>2, <3>1, RowsNext
  <2>5. Pending(i, {"merge"}) =>
          /\ ConflictResolution = "merge" /\ d = "a"
          /\ \A h \in Hrefs : IsVersion("a", newst["a"][i], h)' => c \notin known'["a"][i]
    <3> SUFFICES ASSUME Pending(i, {"merge"})
                 PROVE  /\ ConflictResolution = "merge" /\ d = "a"
                        /\ \A h \in Hrefs : IsVersion("a", newst["a"][i], h)'
                             => c \notin known'["a"][i]
      OBVIOUS
    <3>0. "a" \in Sides
      BY DEF Sides
    <3>1. /\ ConflictResolution = "merge" /\ d = "a" /\ Read("a", i, newst["a"][i])
          /\ \A h \in Hrefs : IsVersion("a", newst["a"][i], h) => c \notin known["a"][i]
      BY <3>0 DEF RunVersions, Pending
    <3>2. newst["a"][i] # None
      BY <1>0, <3>0 DEF RunInv, Pending, BothRows
    <3>3. ASSUME NEW h \in Hrefs, IsVersionNext("a", newst'["a"][i], h)
          PROVE  c \notin known'["a"][i]
      BY <3>0, <3>1, <3>2, <3>3, MergeKept
    <3>4. \A h \in Hrefs : IsVersion("a", newst["a"][i], h)' => c \notin known'["a"][i]
      BY <3>3 DEF IsVersion, IsVersionNext
    <3> QED BY <3>1, <3>4
  <2>6. Pending(i, {"settle", "merge"}) => Settling
    BY DEF RunVersions
  <2>7. plan'[i] = plan[i] /\ plan[i] # None
    BY <1>5
  <2>8. Pending(i, {"merge"}) =>
          /\ ConflictResolution = "merge" /\ d' = "a"
          /\ \A h \in Hrefs : IsVersion(d, newst[d][i], h)' => c' \notin known'[d'][i]
    BY <2>5, <2>7
  <2>9. Pending(i, {"update", "upload", "settle"}) =>
          /\ d' \in Covered => c' \in known'[Other(d')][i]
          /\ Other(d') \in Covered => Brings(Other(d), i, newst[Other(d)][i], {c})'
    BY <2>2, <2>7
  <2>10. Pending(i, {"settle"}) => BothRows(i)' /\ (d' \in Covered => Read(d, i, newst[d][i])')
    BY <2>3, <2>7
  <2>11. Pending(i, {"update", "delete"}) /\ d' \in Covered => Carried(d, i, newst[d][i])'
    BY <2>1, <2>7
  <2>12. plan'[i] # None
    BY <2>7
  <2> QED BY <1>1, <2>4, <2>6, <2>8, <2>9, <2>10, <2>11, <2>12 DEF RunVersions
<1> QED BY <1>4, <1>5

(* An action whose ident is done: its rows must have been carried over.    *)
LEMMA DoneVersions ==
  ASSUME TypeOK, TypeOK', RowsInv, VersionsInv, StoreStep, NEW i \in Idents,
         pc = "run", pc' = pc, status' = status, plan'[i] = None,
         \A j \in Idents \ {i} : plan'[j] = plan[j],
         \A j \in Idents \ {i}, s \in Sides : newst'[s][j] = newst[s][j],
         \A s \in Covered : newst'[s][i] # None => CarriedNext(s, i, newst'[s][i]),
         \A j \in Idents \ {i} : known'["a"][j] = known["a"][j]
  PROVE  VersionsInv'
<1>1. RunVersions(i)'
  BY DoneNext
<1>2. ASSUME NEW j \in Idents \ {i} PROVE RunVersions(j)'
  <2>1. RunVersions(j) /\ j \in Idents /\ plan'[j] = plan[j]
    BY DEF VersionsInv
  <2>2. \A s \in Sides : newst'[s][j] = newst[s][j]
    OBVIOUS
  <2>3. Undisputed(j)
    BY DEF Undisputed
  <2> QED BY <2>1, <2>2, <2>3, OthersKept
<1>3. StatusCarried' /\ DistinctVersions' /\ OwnContents' /\ DistinctContents'
  BY StatusKept
<1> QED BY <1>1, <1>2, <1>3 DEF VersionsInv

(* Nothing but the storages, or what has no versions, changes.             *)
LEMMA UnchangedVersions ==
  ASSUME TypeOK, TypeOK', RowsInv, VersionsInv, StoreStep,
         UNCHANGED <<status, newst, plan>>,
         pc' = pc \/ (pc \in {"idle", "fetch"} /\ pc' = "list"),
         ConflictResolution = "merge" => \A i \in Idents : Undisputed(i)
  PROVE  VersionsInv'
<1>1. StatusCarried' /\ DistinctVersions' /\ OwnContents' /\ DistinctContents'
  BY StatusKept
<1>2. CASE pc' \in {"list", "fetch"} /\ pc # "idle"
  <2>1. PreparedRead
    BY <1>2 DEF VersionsInv
  <2>2. ASSUME NEW s \in Sides, NEW i \in Idents,
               newst'[s][i] # None, newst'[s][i] # status'[s][i]
        PROVE  /\ ReadNext(s, i, newst'[s][i])
               /\ s \in Covered /\ status'[s][i] # None
                    /\ newst'[s][i].etag = status'[s][i].etag =>
                    newst'[s][i].hash \in known'[Other(s)][i]
    <3>1. Read(s, i, newst[s][i])
      BY <2>1, <2>2 DEF PreparedRead
    <3>2. ReadNext(s, i, newst'[s][i])
      BY <2>2, <3>1, RowKept
    <3>3. known[Other(s)][i] \subseteq known'[Other(s)][i]
      BY SidesLemma DEF StoreStep, Grows
    <3> QED BY <2>1, <2>2, <3>2, <3>3 DEF PreparedRead
  <2>3. PreparedRead'
    BY <2>2, PreparedReadNext
  <2> QED BY <1>1, <1>2, <2>3 DEF VersionsInv
<1>3. CASE pc = "idle" /\ pc' = "list"
  <2>1. \A s \in Sides, i \in Idents : newst'[s][i] = None
    BY <1>3 DEF RowsInv, PrepareInv, EmptyTable
  <2>2. PreparedRead'
    BY <2>1, PreparedReadNext
  <2> QED BY <1>1, <1>3, <2>2 DEF VersionsInv
<1>4. CASE pc = "run" /\ pc' = pc
  <2>1. ASSUME NEW i \in Idents PROVE RunVersions(i)'
    BY <1>4, OthersKept DEF VersionsInv
  <2> QED BY <1>1, <1>4, <2>1 DEF VersionsInv
<1>5. CASE pc = "idle" /\ pc' = pc
  BY <1>1, <1>5 DEF VersionsInv
<1> QED BY <1>2, <1>3, <1>4, <1>5 DEF TypeOK

LEMMA UnchangedStore ==
  ASSUME TypeOK, TypeOK', RowsInv, VersionsInv, UNCHANGED <<store, known, status, newst, plan>>,
         pc' = pc \/ (pc \in {"idle", "fetch"} /\ pc' = "list")
  PROVE  VersionsInv'
<1>1. \A i \in Idents : Undisputed(i)
  BY DEF Undisputed
<1> QED BY <1>1, SameStore, UnchangedVersions

LEMMA EditorVersions ==
  ASSUME DecisionsHold, TypeOK, TypeOK', RowsInv, VersionsInv, Editor
  PROVE  VersionsInv'
<1>1. PICK s \in Sides, h \in Hrefs :
        \/ \E i \in Idents, c \in Hashes : EditorPut(s, h, i, c)
        \/ EditorRemove(s, h)
        \/ \E h2 \in Hrefs : EditorMove(s, h, h2)
  BY DEF Editor
<1>2. ASSUME NEW i \in Idents, NEW c \in Hashes, EditorPut(s, h, i, c)
      PROVE  StoreStep /\ (ConflictResolution = "merge" => \A j \in Idents : Undisputed(j))
  <2>1. HasFreshEtag(s) /\ Write(s, h, i, c)
    BY <1>2 DEF EditorPut
  <2>2. Introduces(s, h, i, c)
    BY <1>2 DEF EditorPut, Introduces, DecisionsHold
  <2>3. StoreStep
    BY <2>1, <2>2, WriteStep
  <2>4. ASSUME ConflictResolution = "merge", NEW j \in Idents PROVE Undisputed(j)
    <3>1. CASE s = "a" /\ j = i
      <4>1. \A h2 \in Hrefs : store[s][h2] # None /\ h2 # h => store[s][h2].ident # i
        BY <1>2, <2>4 DEF EditorPut, DecisionsHold, Settling, Listed
      <4>2. \A h2 \in Hrefs : h2 # h => store'[s][h2] = store[s][h2]
        BY <2>1 DEF Write, Put, TypeOK, Storages
      <4>3. store'[s][h].etag = FreshEtag(s) /\ FreshEtag(s) \notin EtagsInUse(s)
        <5>1. store'[s][h] = [ident |-> i, hash |-> c, etag |-> FreshEtag(s)]
          BY <2>1, <2>2, WriteStep
        <5> QED BY <2>1, <5>1, FreshEtagLemma
      <4> QED BY <3>1, <4>1, <4>2, <4>3 DEF Undisputed
    <3>2. CASE ~(s = "a" /\ j = i)
      <4>1. known'["a"][j] = known["a"][j]
        BY <2>1, <3>2 DEF Write, TypeOK, Sides
      <4> QED BY <4>1 DEF Undisputed
    <3> QED BY <3>1, <3>2
  <2> QED BY <2>3, <2>4
<1>3. ASSUME EditorRemove(s, h) \/ \E h2 \in Hrefs : EditorMove(s, h, h2)
      PROVE  StoreStep /\ \A j \in Idents : Undisputed(j)
  <2>1. UNCHANGED known
    BY <1>3 DEF EditorRemove, EditorMove
  <2>2. StoreStep
    BY <1>3, <2>1, MoveStep DEF EditorRemove, EditorMove
  <2> QED BY <2>1, <2>2 DEF Undisputed
<1>4. Edited
  BY <1>1 DEF EditorPut, EditorRemove, EditorMove
<1>5. UNCHANGED <<status, newst, plan>> /\ pc' = pc
  BY <1>4 DEF Edited
<1> QED BY <1>1, <1>2, <1>3, <1>5, UnchangedVersions

(* An action that failed, after a request that may have had its effect.    *)
LEMMA FailVersions ==
  ASSUME TypeOK, TypeOK', RowsInv, VersionsInv, StoreStep, NEW i \in Idents,
         pc = "run", Fail(i), \A j \in Idents \ {i} : known'["a"][j] = known["a"][j]
  PROVE  VersionsInv'
<1>1. CASE HasErrorCallback
  <2>1. \A s \in Sides, j \in Idents :
          newst'[s][j] = IF j = i THEN status[s][j] ELSE newst[s][j]
    BY <1>1, RollbackEffect DEF Fail, TypeOK
  <2>2. plan'[i] = None /\ \A j \in Idents \ {i} : plan'[j] = plan[j]
    BY <1>1 DEF Fail, TypeOK
  <2>3. pc' = pc /\ status' = status
    BY <1>1 DEF Fail
  <2>4. ASSUME NEW s \in Covered, newst'[s][i] # None
        PROVE  CarriedNext(s, i, newst'[s][i])
    <3>1. s \in Sides /\ newst'[s][i] = status[s][i] /\ status[s][i] # None
      BY <2>1, <2>4, CoveredSides
    <3>2. Carried(s, i, status[s][i])
      BY <3>1 DEF VersionsInv, StatusCarried
    <3>3. status[s][i].etag \in EtagsInUse(s)
      BY <3>1, InUse
    <3> QED BY <3>1, <3>2, <3>3, VersionsKept DEF StoreStep
  <2> QED BY <2>1, <2>2, <2>3, <2>4, DoneVersions
<1>2. CASE ~HasErrorCallback
  BY <1>2, AbortVersions DEF Fail
<1> QED BY <1>1, <1>2

LEMMA ActRecord ==
  ASSUME NEW op \in Ops, NEW d \in Sides, NEW c \in Hashes
  PROVE  /\ Act(op, d, c).op = op /\ Act(op, d, c).dest = d /\ Act(op, d, c).hash = c
         /\ Act(op, d, c) # None
<1>1. Act(op, d, c) \in Action
  BY DEF Act, Action
<1> QED BY <1>1, NoneIsNoAction DEF Act

LEMMA RowTyped ==
  ASSUME TypeOK, NEW s \in Sides, NEW i \in Idents, newst[s][i] # None
  PROVE  newst[s][i].hash \in Hashes
<1>1. newst[s][i] \in Meta
  BY DEF TypeOK, Tables
<1> QED BY <1>1 DEF Meta

(* The row of the destination after a write, when its etag is the one of   *)
(* the written version or None.                                            *)
LEMMA WrittenRow ==
  ASSUME TypeOK, TypeOK', VersionsInv, NEW d \in Sides, NEW h \in Hrefs, NEW i \in Idents,
         NEW c \in Hashes, HasFreshEtag(d), Write(d, h, i, c), Introduces(d, h, i, c),
         NEW m, m.etag = ReturnedEtag(d, FreshEtag(d)), NEW cs,
         m.hash \in known'[Other(d)][i] \cup cs \/ AnsweredNext(d, i, m.hash),
         c \in known'[Other(d)][i] \cup cs
  PROVE  BringsNext(d, i, m, cs)
<1>1. CASE m.etag = None
  BY <1>1, NoVersion
<1>0. /\ store'[d][h] = [ident |-> i, hash |-> c, etag |-> FreshEtag(d)]
      /\ \A h2 \in Hrefs : store'[d][h2] # None /\ store'[d][h2].etag = FreshEtag(d) => h2 = h
  BY WriteStep
<1>2. CASE m.etag = FreshEtag(d)
  <2>1. ASSUME NEW h2 \in Hrefs, IsVersionNext(d, m, h2)
        PROVE  store'[d][h2].ident = i /\ store'[d][h2].hash \in known'[Other(d)][i] \cup cs
    <3>1. h2 = h
      BY <1>0, <1>2, <2>1 DEF IsVersionNext
    <3>2. store'[d][h].ident = i /\ store'[d][h].hash = c
      BY <1>0
    <3> QED BY <3>1, <3>2
  <2> QED BY <2>1 DEF BringsNext
<1> QED BY <1>1, <1>2 DEF ReturnedEtag

(* A resolution writes over the version it was given: what the row of the  *)
(* side remembers is gone, or the other side has had it.                   *)
LEMMA Overwritten ==
  ASSUME TypeOK, TypeOK', VersionsInv, NEW i \in Idents, NEW d \in Covered, NEW c \in Hashes,
         NEW h \in Hrefs, Settling, HasFreshEtag(d), Write(d, h, i, c), Introduces(d, h, i, c),
         NEW m, Read(d, i, m), IsVersion(d, m, h), c # m.hash
  PROVE  m.hash \in known'[Other(d)][i] \/ AnsweredNext(d, i, m.hash)
<1>1. d \in Sides /\ Other(d) \in Sides
  BY CoveredSides, SidesLemma
<1>2. StoreStep /\ store'[d][h] = [ident |-> i, hash |-> c, etag |-> FreshEtag(d)]
  BY <1>1, WriteStep
<1>3. store[d][h].ident = i /\ store[d][h].hash = m.hash /\ store[d][h] # None
  BY DEF Read, IsVersion
<1>4. m.hash \in known'[d][i]
  BY <1>1, <1>2 DEF Read, StoreStep, Grows
<1>5. \A h2 \in Hrefs : h2 # h => store'[d][h2] = store[d][h2]
  BY <1>1 DEF Write, Put, TypeOK, Storages
<1>6. ASSUME NEW h2 \in Hrefs, store'[d][h2] # None, store'[d][h2].ident = i,
             store'[d][h2].hash = m.hash
      PROVE  m.hash \in known'[Other(d)][i]
  <2>1. store'[d][h].hash = c
    BY <1>2
  <2>2. h2 # h
    BY <1>6, <2>1
  <2>3. m.hash \in known[Other(d)][i]
    BY <1>3, <1>5, <1>6, <2>2 DEF VersionsInv, DistinctContents, Listed
  <2> QED BY <1>1, <1>2, <2>3 DEF StoreStep, Grows
<1> QED BY <1>4, <1>6 DEF AnsweredNext

(* What an upload or update takes from its source.                         *)
LEMMA FromSource ==
  ASSUME TypeOK, RowsInv, VersionsInv, NEW i \in Idents,
         Pending(i, {"update", "upload", "settle"})
  PROVE  /\ plan[i].dest \in Sides /\ Other(plan[i].dest) \in Sides
         /\ newst[Other(plan[i].dest)][i] # None
         /\ Other(plan[i].dest) \in Covered =>
              Brings(Other(plan[i].dest), i, newst[Other(plan[i].dest)][i], {plan[i].hash})
         /\ plan[i].dest \in Covered => plan[i].hash \in known[Other(plan[i].dest)][i]
         /\ plan[i].hash \in Hashes
<1>1. plan[i].dest \in Sides /\ Other(plan[i].dest) \in Sides /\ plan[i].hash \in Hashes
  BY PendingTyped, SidesLemma
<1>2. RunInv(i) /\ RunVersions(i)
  BY DEF Pending, RowsInv, VersionsInv
<1>3. newst[Other(plan[i].dest)][i] # None
  BY <1>1, <1>2 DEF RunInv, RunVersions, Pending, BothRows
<1> QED BY <1>1, <1>2, <1>3 DEF RunVersions

(* A merge writes to side a, where its result has not been yet.            *)
LEMMA FromMerge ==
  ASSUME TypeOK, RowsInv, VersionsInv, NEW i \in Idents, Pending(i, {"merge"})
  PROVE  /\ plan[i].dest = "a" /\ ConflictResolution = "merge" /\ Settling
         /\ plan[i].hash \in Hashes
         /\ \A s \in Sides : newst[s][i] # None /\ Read(s, i, newst[s][i])
         /\ Current(i) => /\ plan[i].hash \notin known["a"][i]
                          /\ IsVersion("a", newst["a"][i], newst["a"][i].href)
<1>1. RunInv(i) /\ RunVersions(i) /\ plan[i].hash \in Hashes
  BY PendingTyped DEF Pending, RowsInv, VersionsInv
<1>2. Pending(i, {"resolve", "merge"}) /\ Pending(i, {"resolve", "update", "merge"})
      /\ Pending(i, {"settle", "merge"})
  BY DEF Pending
<1>3. \A s \in Sides : newst[s][i] # None /\ Read(s, i, newst[s][i])
  BY <1>1, <1>2 DEF RunInv, RunVersions, BothRows
<1>4. plan[i].dest = "a" /\ ConflictResolution = "merge" /\ Settling
  BY <1>1, <1>2 DEF RunVersions
<1>5. ASSUME Current(i)
      PROVE  /\ plan[i].hash \notin known["a"][i]
             /\ IsVersion("a", newst["a"][i], newst["a"][i].href)
  BY <1>1, <1>4, <1>5 DEF RunVersions, Current, Holds, IsVersion
<1> QED BY <1>1, <1>3, <1>4, <1>5

(* What an action writes is a content its source has had, or a new one.    *)
LEMMA IntroducesOwn ==
  ASSUME TypeOK, RowsInv, VersionsInv, NEW i \in Idents, NEW h \in Hrefs,
         Pending(i, {"upload"}) \/ (Pending(i, UpdateOps) /\ Current(i))
  PROVE  Introduces(plan[i].dest, h, i, plan[i].hash)
<1>1. CASE Pending(i, {"update", "upload", "settle"})
  BY <1>1, FromSource DEF Introduces
<1>2. CASE Pending(i, {"merge"})
  <2>1. Current(i)
    BY <1>2 DEF Pending
  <2> QED BY <1>2, <2>1, FromMerge DEF Introduces
<1> QED BY <1>1, <1>2 DEF Pending, UpdateOps

(* An action that leaves one update of a conflict resolution to be done.   *)
LEMMA SettleVersions ==
  ASSUME TypeOK, TypeOK', RowsInv, VersionsInv, StoreStep, NEW i \in Idents, Settling,
         pc = "run", pc' = pc, status' = status,
         NEW d \in Sides, NEW c \in Hashes, plan'[i] = Act("settle", d, c),
         \A j \in Idents \ {i} : plan'[j] = plan[j],
         \A j \in Idents \ {i}, s \in Sides : newst'[s][j] = newst[s][j],
         \A j \in Idents \ {i} : known'["a"][j] = known["a"][j],
         \A s \in Sides : newst'[s][i] # None,
         d \in Covered => c \in known'[Other(d)][i] /\ ReadNext(d, i, newst'[d][i]),
         Other(d) \in Covered => BringsNext(Other(d), i, newst'[Other(d)][i], {c})
  PROVE  VersionsInv'
<1>1. /\ plan'[i].op = "settle" /\ plan'[i].dest = d /\ plan'[i].hash = c
      /\ plan'[i] # None
  BY ActRecord DEF Ops, UpdateOps
<1>2. RunVersions(i)'
  <2>1. /\ ~Pending(i, {"update", "delete"})' /\ ~Pending(i, {"resolve", "merge"})'
        /\ ~Pending(i, {"merge"})'
    BY <1>1 DEF Pending
  <2>2. BothRows(i)'
    BY DEF BothRows
  <2>3. /\ d \in Covered => Read(plan[i].dest, i, newst[plan[i].dest][i])'
        /\ Other(d) \in Covered =>
             Brings(Other(plan[i].dest), i, newst[Other(plan[i].dest)][i], {plan[i].hash})'
    <3>1. Other(d) \in Covered =>
            Brings(Other(plan[i].dest), i, newst[Other(plan[i].dest)][i], {c})'
      BY <1>1, RowsNext
    <3>2. d \in Covered => Read(plan[i].dest, i, newst[plan[i].dest][i])'
      BY <1>1, RowsNext
    <3> QED BY <1>1, <3>1, <3>2
  <2> QED BY <1>1, <2>1, <2>2, <2>3 DEF RunVersions
<1>3. ASSUME NEW j \in Idents \ {i} PROVE RunVersions(j)'
  <2>1. RunVersions(j) /\ j \in Idents /\ plan'[j] = plan[j]
    BY DEF VersionsInv
  <2>2. \A s \in Sides : newst'[s][j] = newst[s][j]
    OBVIOUS
  <2>3. Undisputed(j)
    BY DEF Undisputed
  <2> QED BY <2>1, <2>2, <2>3, OthersKept
<1>4. StatusCarried' /\ DistinctVersions' /\ OwnContents' /\ DistinctContents'
  BY StatusKept
<1> QED BY <1>2, <1>3, <1>4 DEF VersionsInv

(* The row of the destination d of an action is m now, and the action, or  *)
(* the first update of a merge, is over.                                   *)
AdvanceTo(i, d, m) ==
  /\ newst' = SetSide(newst, d, i, m)
  /\ Advance(i)

LEMMA AdvancedRows ==
  ASSUME TypeOK, NEW i \in Idents, NEW d \in Sides, NEW m, pc = "run", AdvanceTo(i, d, m)
  PROVE  /\ \A s \in Sides, j \in Idents :
              newst'[s][j] = IF s = d /\ j = i THEN m ELSE newst[s][j]
         /\ plan'[i] = Remaining(i) /\ \A j \in Idents \ {i} : plan'[j] = plan[j]
         /\ pc' = pc /\ status' = status
<1>1. newst' = SetSide(newst, d, i, m)
  BY DEF AdvanceTo
<1>2. \A s \in Sides, j \in Idents :
        newst'[s][j] = IF s = d /\ j = i THEN m ELSE newst[s][j]
  BY <1>1, SetSideEffect DEF TypeOK
<1> QED BY <1>2 DEF AdvanceTo, Advance, TypeOK

(* The destination has taken the last write for the ident, or its row says *)
(* so.                                                                     *)
LEMMA LastVersions ==
  ASSUME TypeOK, TypeOK', RowsInv, VersionsInv, StoreStep, NEW i \in Idents,
         Pending(i, {"update", "upload", "settle"}), NEW m,
         AdvanceTo(i, plan[i].dest, m),
         \A j \in Idents \ {i} : known'["a"][j] = known["a"][j],
         plan[i].dest \in Covered => CarriedNext(plan[i].dest, i, m),
         Other(plan[i].dest) \in Covered => plan[i].hash \in known'[plan[i].dest][i]
  PROVE  VersionsInv'
<1> DEFINE d == plan[i].dest
<1>1. /\ d \in Sides /\ Other(d) \in Sides /\ Other(d) # d /\ Other(Other(d)) = d
      /\ newst[Other(d)][i] # None
      /\ Other(d) \in Covered => Brings(Other(d), i, newst[Other(d)][i], {plan[i].hash})
  BY FromSource, SidesLemma DEF Sides, Other
<1>2. pc = "run" /\ plan[i].op # "merge"
  BY DEF Pending
<1>3. /\ \A s \in Sides, j \in Idents :
           newst'[s][j] = IF s = d /\ j = i THEN m ELSE newst[s][j]
      /\ plan'[i] = Remaining(i) /\ \A j \in Idents \ {i} : plan'[j] = plan[j]
      /\ pc' = pc /\ status' = status
  BY <1>1, <1>2, AdvancedRows
<1>4. ASSUME Other(d) \in Covered PROVE CarriedNext(Other(d), i, newst'[Other(d)][i])
  <2>1. newst'[Other(d)][i] = newst[Other(d)][i]
    BY <1>1, <1>3
  <2>2. BringsNext(Other(d), i, newst'[Other(d)][i], {plan[i].hash})
    BY <1>1, <1>4, <2>1, RowKept
  <2>3. {plan[i].hash} \subseteq known'[Other(Other(d))][i]
    BY <1>1, <1>4
  <2> QED BY <1>1, <2>2, <2>3, BringsAll
<1>5. ASSUME NEW s \in Covered, newst'[s][i] # None PROVE CarriedNext(s, i, newst'[s][i])
  <2>1. s = d \/ s = Other(d)
    BY <1>1, CoveredSides DEF Sides, Other
  <2>2. CASE s = d
    BY <1>1, <1>3, <2>2
  <2> QED BY <1>4, <1>5, <2>1, <2>2
<1>6. plan'[i] = None
  BY <1>2, <1>3 DEF Remaining
<1>7. \A j \in Idents \ {i}, s \in Sides : newst'[s][j] = newst[s][j]
  BY <1>3
<1> HIDE DEF d
<1> QED BY <1>2, <1>3, <1>5, <1>6, <1>7, DoneVersions

(* The first update of a merge is over: side b is left to be settled.      *)
LEMMA FirstVersions ==
  ASSUME TypeOK, TypeOK', RowsInv, VersionsInv, StoreStep, NEW i \in Idents,
         Pending(i, {"merge"}), NEW m, m # None, AdvanceTo(i, "a", m),
         \A j \in Idents \ {i} : known'["a"][j] = known["a"][j],
         "b" \in Covered => plan[i].hash \in known'["a"][i],
         "a" \in Covered => BringsNext("a", i, m, {plan[i].hash})
  PROVE  VersionsInv'
<1>1. /\ plan[i].op = "merge" /\ pc = "run" /\ Settling /\ plan[i].hash \in Hashes
      /\ \A s \in Sides : newst[s][i] # None /\ Read(s, i, newst[s][i])
  BY FromMerge DEF Pending
<1>2. "a" \in Sides /\ "b" \in Sides /\ Other("b") = "a"
  BY DEF Sides, Other
<1>3. /\ \A s \in Sides, j \in Idents :
           newst'[s][j] = IF s = "a" /\ j = i THEN m ELSE newst[s][j]
      /\ plan'[i] = Remaining(i) /\ \A j \in Idents \ {i} : plan'[j] = plan[j]
      /\ pc' = pc /\ status' = status
  BY <1>1, <1>2, AdvancedRows
<1>4. plan'[i] = Act("settle", "b", plan[i].hash)
  BY <1>1, <1>3 DEF Remaining
<1>5. ReadNext("b", i, newst'["b"][i])
  BY <1>1, <1>2, <1>3, RowKept
<1>6. /\ \A s \in Sides : newst'[s][i] # None
      /\ newst'["a"][i] = m
      /\ \A j \in Idents \ {i}, s \in Sides : newst'[s][j] = newst[s][j]
  BY <1>1, <1>2, <1>3
<1>7. "b" \in Covered => plan[i].hash \in known'[Other("b")][i] /\ ReadNext("b", i, newst'["b"][i])
  BY <1>2, <1>5
<1>8. Other("b") \in Covered => BringsNext(Other("b"), i, newst'[Other("b")][i], {plan[i].hash})
  BY <1>2, <1>6
<1> QED BY <1>1, <1>2, <1>3, <1>4, <1>6, <1>7, <1>8, SettleVersions

(* Pretending to write to a read-only destination.                         *)
LEMMA RevertVersions ==
  ASSUME TypeOK, TypeOK', RowsInv, VersionsInv, NEW i \in Idents,
         RevertUpload(i) \/ RevertUpdate(i)
  PROVE  VersionsInv'
<1> DEFINE d == plan[i].dest
           m == [href |-> None, hash |-> plan[i].hash, etag |-> None]
<1>1. Pending(i, {"upload"} \cup UpdateOps) /\ pc = "run"
  BY DEF RevertUpload, RevertUpdate, Pending
<1>2. /\ AdvanceTo(i, d, m) /\ d \in ReadOnly /\ Runs(i)
      /\ UNCHANGED <<store, known>>
  BY DEF RevertUpload, RevertUpdate, storeVars, AdvanceTo
<1>3. StoreStep /\ d \in Sides
  BY <1>1, <1>2, SameStore, PendingTyped
<1>4. Other(d) \notin Covered
  <2>1. partial = "revert" /\ partial \in PartialSync
    BY <1>1, <1>2 DEF Runs, RowsInv, PrepareInv
  <2>2. Other(Other(d)) = d
    BY <1>3 DEF Sides, Other
  <2> QED BY <1>2, <2>1, <2>2 DEF Covered
<1>5. m \in Meta /\ m # None /\ m.etag = None /\ m.hash = plan[i].hash
  BY <1>1, PendingTyped, NoneIsNoMeta DEF Meta
<1> HIDE DEF m
<1>6. CASE Pending(i, {"update", "upload", "settle"})
  <2>1. ASSUME d \in Covered PROVE CarriedNext(d, i, m)
    <3>1. m.hash \in known'[Other(d)][i] \cup {}
      BY <1>2, <1>5, <1>6, <2>1, FromSource
    <3> QED BY <1>3, <1>5, <3>1, NoVersion DEF CarriedNext
  <2> QED BY <1>2, <1>3, <1>4, <1>6, <2>1, LastVersions
<1>7. CASE Pending(i, {"merge"})
  <2>1. d = "a" /\ "a" \in Sides /\ Other("a") = "b"
    BY <1>7, FromMerge DEF Sides, Other
  <2>2. BringsNext("a", i, m, {plan[i].hash})
    BY <1>5, <2>1, NoVersion
  <2> QED BY <1>2, <1>3, <1>4, <1>5, <1>7, <2>1, <2>2, FirstVersions
<1> QED BY <1>1, <1>6, <1>7 DEF Pending, UpdateOps

(* The destination has taken a write.                                      *)
LEMMA AcceptedWrite ==
  ASSUME TypeOK, TypeOK', RowsInv, VersionsInv, NEW i \in Idents, NEW h \in Hrefs,
         Pending(i, {"upload"}) \/ (Pending(i, UpdateOps) /\ Current(i)),
         HasFreshEtag(plan[i].dest), Write(plan[i].dest, h, i, plan[i].hash)
  PROVE  /\ StoreStep /\ plan[i].hash \in known'[plan[i].dest][i]
         /\ plan[i].dest \in Sides /\ plan[i].hash \in Hashes
         /\ Introduces(plan[i].dest, h, i, plan[i].hash)
         /\ \A j \in Idents \ {i} : known'["a"][j] = known["a"][j]
<1>1. plan[i].dest \in Sides /\ plan[i].hash \in Hashes
  BY PendingTyped
<1>2. Introduces(plan[i].dest, h, i, plan[i].hash)
  BY IntroducesOwn
<1>3. StoreStep /\ plan[i].hash \in known'[plan[i].dest][i]
  BY <1>1, <1>2, WriteStep
<1>4. \A j \in Idents \ {i} : known'["a"][j] = known["a"][j]
  BY <1>1 DEF Write, TypeOK, Sides
<1> QED BY <1>1, <1>2, <1>3, <1>4

LEMMA UploadVersions ==
  ASSUME TypeOK, TypeOK', RowsInv, VersionsInv, NEW i \in Idents, UploadAccepted(i)
  PROVE  VersionsInv'
<1> DEFINE d == plan[i].dest
           m == [href |-> HrefOf[i], hash |-> plan[i].hash,
                 etag |-> ReturnedEtag(d, FreshEtag(d))]
<1>1. /\ Pending(i, {"upload"}) /\ Pending(i, {"update", "upload", "settle"})
      /\ HasFreshEtag(d) /\ Write(d, HrefOf[i], i, plan[i].hash)
      /\ AdvanceTo(i, d, m)
  BY DEF UploadAccepted, Pending, AdvanceTo
<1>2. HrefOf[i] \in Hrefs
  BY HrefOfAssumption
<1>3. /\ StoreStep /\ plan[i].hash \in known'[d][i] /\ d \in Sides /\ plan[i].hash \in Hashes
      /\ Introduces(d, HrefOf[i], i, plan[i].hash)
      /\ \A j \in Idents \ {i} : known'["a"][j] = known["a"][j]
  BY <1>1, <1>2, AcceptedWrite
<1>4. m.hash = plan[i].hash /\ m.etag = ReturnedEtag(d, FreshEtag(d))
  OBVIOUS
<1> HIDE DEF m
<1>5. ASSUME d \in Covered PROVE CarriedNext(d, i, m)
  <2>1. plan[i].hash \in known'[Other(d)][i] \cup {}
    <3>1. plan[i].hash \in known[Other(d)][i] /\ Other(d) \in Sides
      BY <1>1, <1>5, FromSource
    <3> QED BY <1>3, <3>1 DEF StoreStep, Grows
  <2> QED BY <1>1, <1>2, <1>3, <1>4, <2>1, WrittenRow DEF CarriedNext
<1> QED BY <1>1, <1>3, <1>5, LastVersions

(* The row of an updated item: the hash in it was carried over, or is what *)
(* the resolution decided against.                                         *)
LEMMA UpdatedRow ==
  ASSUME TypeOK, TypeOK', RowsInv, VersionsInv, NEW i \in Idents, NEW d \in Covered,
         d = plan[i].dest, Pending(i, UpdateOps), Current(i), HasFreshEtag(d),
         Write(d, newst[d][i].href, i, plan[i].hash)
  PROVE  \/ newst[d][i].hash \in known'[Other(d)][i] \cup {plan[i].hash}
         \/ AnsweredNext(d, i, newst[d][i].hash)
<1> DEFINE m == newst[d][i]
<1>1. m.href \in Hrefs /\ m # None /\ d \in Sides /\ Other(d) \in Sides /\ m \in Meta
  BY CoveredSides, SidesLemma DEF Current, Holds, TypeOK, Tables
<1>2. /\ StoreStep /\ plan[i].hash \in Hashes /\ Introduces(d, m.href, i, plan[i].hash)
  BY <1>1, AcceptedWrite
<1>3. RunVersions(i) /\ IsVersion(d, m, m.href)
  BY DEF VersionsInv, Pending, Current, Holds, IsVersion
<1>4. CASE Pending(i, {"update"})
  <2>1. Carried(d, i, m)
    BY <1>3, <1>4 DEF RunVersions, Pending
  <2>2. CarriedNext(d, i, m)
    <3>1. m.etag \in EtagsInUse(d)
      BY <1>1, InUse
    <3> QED BY <1>1, <1>2, <2>1, <3>1, VersionsKept DEF StoreStep
  <2> QED BY <2>2 DEF CarriedNext, BringsNext
<1>5. CASE Pending(i, {"settle", "merge"})
  <2>1. Settling /\ Read(d, i, m)
    BY <1>1, <1>3, <1>5 DEF RunVersions, Pending
  <2> HIDE DEF m
  <2> QED BY <1>1, <1>2, <1>3, <2>1, Overwritten DEF m
<1> QED BY <1>4, <1>5 DEF Pending, UpdateOps

LEMMA UpdateVersions ==
  ASSUME TypeOK, TypeOK', RowsInv, VersionsInv, NEW i \in Idents, UpdateAccepted(i)
  PROVE  VersionsInv'
<1> DEFINE d == plan[i].dest
           m == UpdateRow(newst[d][i], ReturnedEtag(d, FreshEtag(d)))
<1>1. /\ Pending(i, UpdateOps) /\ HasFreshEtag(d) /\ Current(i)
      /\ Write(d, newst[d][i].href, i, plan[i].hash)
      /\ AdvanceTo(i, d, m)
  BY DEF UpdateAccepted, AdvanceTo
<1>2. newst[d][i].href \in Hrefs
  BY <1>1 DEF Current, Holds
<1>3. /\ StoreStep /\ plan[i].hash \in known'[d][i] /\ d \in Sides /\ plan[i].hash \in Hashes
      /\ Introduces(d, newst[d][i].href, i, plan[i].hash)
      /\ \A j \in Idents \ {i} : known'["a"][j] = known["a"][j]
  BY <1>1, <1>2, AcceptedWrite
<1>4. newst[d][i] \in Meta
  BY <1>1, <1>3 DEF Current, Holds, TypeOK, Tables
<1>5. /\ m.hash = newst[d][i].hash /\ m.etag = ReturnedEtag(d, FreshEtag(d))
      /\ m \in Meta /\ m # None
  <2>1. m = [href |-> newst[d][i].href, hash |-> newst[d][i].hash,
             etag |-> ReturnedEtag(d, FreshEtag(d))]
    BY <1>4 DEF UpdateRow, Meta
  <2>2. ReturnedEtag(d, FreshEtag(d)) \in Etags \cup {None}
    BY <1>1, <1>3, FreshEtagLemma DEF ReturnedEtag
  <2> QED BY <1>4, <2>1, <2>2, NoneIsNoMeta DEF Meta
<1> HIDE DEF m
<1>6. ASSUME d \in Covered PROVE BringsNext(d, i, m, {plan[i].hash})
  <2>1. \/ m.hash \in known'[Other(d)][i] \cup {plan[i].hash}
        \/ AnsweredNext(d, i, m.hash)
    BY <1>1, <1>5, <1>6, UpdatedRow
  <2>2. plan[i].hash \in known'[Other(d)][i] \cup {plan[i].hash}
    OBVIOUS
  <2> QED BY <1>1, <1>2, <1>3, <1>5, <2>1, <2>2, WrittenRow
<1>7. CASE Pending(i, {"update", "upload", "settle"})
  <2>1. ASSUME d \in Covered PROVE CarriedNext(d, i, m)
    <3>1. plan[i].hash \in known[Other(d)][i] /\ Other(d) \in Sides
      BY <1>7, <2>1, FromSource
    <3>2. {plan[i].hash} \subseteq known'[Other(d)][i]
      BY <1>3, <3>1 DEF StoreStep, Grows
    <3> QED BY <1>3, <1>6, <2>1, <3>2, BringsAll
  <2> QED BY <1>1, <1>3, <1>7, <2>1, LastVersions
<1>8. CASE Pending(i, {"merge"})
  <2>1. d = "a"
    BY <1>8, FromMerge
  <2> QED BY <1>1, <1>3, <1>5, <1>6, <1>8, <2>1, FirstVersions
<1> QED BY <1>1, <1>7, <1>8 DEF Pending, UpdateOps

(* No row is left for the ident.                                           *)
LEMMA DroppedVersions ==
  ASSUME TypeOK, TypeOK', RowsInv, VersionsInv, StoreStep, NEW i \in Idents,
         Pending(i, {"delete"}), newst' = RemoveIdent(newst, i), Advance(i), UNCHANGED known
  PROVE  VersionsInv'
<1>1. \A s \in Sides, j \in Idents : newst'[s][j] = IF j = i THEN None ELSE newst[s][j]
  BY RemoveEffect DEF TypeOK
<1>2. pc = "run" /\ plan[i].op # "merge"
  BY DEF Pending
<1>3. /\ plan'[i] = None /\ \A j \in Idents \ {i} : plan'[j] = plan[j]
      /\ pc' = pc /\ status' = status
  BY <1>2 DEF Advance, Remaining, TypeOK
<1>4. /\ \A j \in Idents \ {i}, s \in Sides : newst'[s][j] = newst[s][j]
      /\ \A s \in Covered : newst'[s][i] = None
  BY <1>1, CoveredSides
<1> QED BY <1>2, <1>3, <1>4, DoneVersions

LEMMA SkipVersions ==
  ASSUME DecisionsHold, TypeOK, TypeOK', RowsInv, VersionsInv, NEW i \in Idents, SkipReadOnly(i)
  PROVE  VersionsInv'
<1>1. StoreStep /\ pc = "run"
  BY SameStore DEF SkipReadOnly, storeVars, Pending
<1>2. \A s \in Sides, j \in Idents :
        newst'[s][j] = IF j = i THEN status[s][j] ELSE newst[s][j]
  BY RollbackEffect DEF SkipReadOnly, TypeOK
<1>3. plan[i].op # "merge"
  <2> SUFFICES ASSUME plan[i].op = "merge" PROVE FALSE
    OBVIOUS
  <2>1. Pending(i, {"merge"}) /\ plan[i].dest \in ReadOnly /\ partial = "ignore"
    BY DEF SkipReadOnly, Pending
  <2>2. plan[i].dest = "a" /\ ConflictResolution = "merge" /\ Settling
    BY <2>1, FromMerge
  <2>3. partial \in PartialSync
    BY <1>1 DEF RowsInv, PrepareInv
  <2> QED BY <2>1, <2>2, <2>3 DEF DecisionsHold
<1>4. /\ plan'[i] = None /\ \A j \in Idents \ {i} : plan'[j] = plan[j]
      /\ pc' = pc /\ status' = status
  BY <1>3 DEF SkipReadOnly, Advance, Remaining, TypeOK
<1>5. ASSUME NEW s \in Covered, newst'[s][i] # None
      PROVE  CarriedNext(s, i, newst'[s][i])
  <2>1. s \in Sides /\ newst'[s][i] = status[s][i] /\ status[s][i] # None
    BY <1>2, <1>5, CoveredSides
  <2>2. Carried(s, i, status[s][i])
    BY <2>1 DEF VersionsInv, StatusCarried
  <2>3. status[s][i].etag \in EtagsInUse(s)
    BY <2>1, InUse
  <2> QED BY <1>1, <2>1, <2>2, <2>3, VersionsKept DEF StoreStep
<1>6. \A j \in Idents \ {i}, s \in Sides : newst'[s][j] = newst[s][j]
  BY <1>2
<1>7. UNCHANGED known
  BY DEF SkipReadOnly, storeVars
<1> QED BY <1>1, <1>4, <1>5, <1>6, <1>7, DoneVersions

(* Both sides hold the same content already.                               *)
LEMMA SameVersions ==
  ASSUME TypeOK, TypeOK', RowsInv, VersionsInv, NEW i \in Idents, ResolveSame(i)
  PROVE  VersionsInv'
<1>1. StoreStep /\ pc = "run" /\ Pending(i, {"resolve"})
  BY SameStore DEF ResolveSame, Pending
<1>2. /\ plan'[i] = None /\ \A j \in Idents \ {i} : plan'[j] = plan[j]
      /\ pc' = pc /\ status' = status /\ newst' = newst
  BY DEF ResolveSame, TypeOK
<1>3. \A s \in Sides : newst[s][i] # None /\ Read(s, i, newst[s][i])
  <2>1. RunInv(i) /\ RunVersions(i) /\ Pending(i, {"resolve", "update", "merge"})
    BY <1>1 DEF RowsInv, VersionsInv, Pending
  <2>2. \A s \in Sides : newst[s][i] # None
    BY <2>1 DEF RunInv, BothRows
  <2>3. \A s \in Sides : Read(s, i, newst[s][i])
    BY <1>1, <2>1 DEF RunVersions, Pending
  <2> QED BY <2>2, <2>3
<1>4. \A s \in Sides : newst[s][i].hash = newst[Other(s)][i].hash
  BY DEF ResolveSame, SameOnBothSides, Sides, Other
<1>5. ASSUME NEW s \in Covered PROVE CarriedNext(s, i, newst'[s][i])
  <2>1. s \in Sides /\ Other(s) \in Sides
    BY CoveredSides, SidesLemma
  <2>2. newst[s][i].hash \in known[Other(s)][i]
    BY <1>3, <1>4, <2>1 DEF Read
  <2>3. {newst[s][i].hash} \subseteq known'[Other(s)][i]
    BY <1>1, <2>1, <2>2 DEF StoreStep, Grows
  <2>4. newst'[s][i] = newst[s][i] /\ ReadNext(s, i, newst'[s][i])
    BY <1>1, <1>2, <1>3, <2>1, RowKept
  <2>5. BringsNext(s, i, newst'[s][i], {newst[s][i].hash})
    BY <2>4, ReadBrings
  <2> QED BY <2>1, <2>3, <2>5, BringsAll
<1>6. UNCHANGED known
  BY DEF ResolveSame
<1> QED BY <1>1, <1>2, <1>5, <1>6, DoneVersions

(* The conflict resolution has answered.                                   *)
LEMMA ResolvedVersions ==
  ASSUME TypeOK, TypeOK', RowsInv, VersionsInv, NEW i \in Idents, NEW c \in Hashes,
         ResolveTo(i, c)
  PROVE  VersionsInv'
<1> DEFINE ca == newst["a"][i].hash
           cb == newst["b"][i].hash
<1>1. /\ StoreStep /\ pc = "run" /\ Pending(i, {"resolve"})
      /\ UNCHANGED <<store, known, status, newst, pc>>
  BY SameStore DEF ResolveTo, Pending, storeVars
<1>2. /\ plan'[i] = IF c = ca THEN Act("settle", "b", c)
                    ELSE IF c = cb THEN Act("settle", "a", c)
                    ELSE Act("merge", "a", c)
      /\ \A j \in Idents \ {i} : plan'[j] = plan[j]
  BY DEF ResolveTo, TypeOK
<1>3. \A s \in Sides : newst[s][i] # None /\ Read(s, i, newst[s][i])
  <2>1. RunInv(i) /\ RunVersions(i) /\ Pending(i, {"resolve", "update", "merge"})
        /\ Pending(i, {"resolve", "merge"})
    BY <1>1 DEF RowsInv, VersionsInv, Pending
  <2> QED BY <2>1 DEF RunInv, BothRows, RunVersions
<1>4. Settling
  BY DEF ResolveTo, Resolutions, Settling
<1>5. \A s \in Sides : newst'[s][i] = newst[s][i] /\ ReadNext(s, i, newst'[s][i])
  BY <1>1, <1>3, RowKept
<1>6. ASSUME NEW d \in Sides, newst[Other(d)][i].hash = c, plan'[i] = Act("settle", d, c)
      PROVE  VersionsInv'
  <2>1. Other(d) \in Sides
    BY SidesLemma
  <2>2. c \in known'[Other(d)][i]
    BY <1>5, <1>6, <2>1 DEF ReadNext
  <2>3. BringsNext(Other(d), i, newst'[Other(d)][i], {c})
    BY <1>5, <1>6, <2>1, ReadBrings
  <2>4. /\ \A s \in Sides : newst'[s][i] # None
        /\ \A j \in Idents \ {i}, s \in Sides : newst'[s][j] = newst[s][j]
        /\ \A j \in Idents \ {i} : known'["a"][j] = known["a"][j]
        /\ ReadNext(d, i, newst'[d][i])
    BY <1>1, <1>3, <1>5
  <2> QED BY <1>1, <1>2, <1>4, <1>6, <2>2, <2>3, <2>4, SettleVersions
<1>7. CASE c # ca /\ c # cb
  <2>1. plan'[i] = Act("merge", "a", c)
    BY <1>2, <1>7
  <2>2. /\ plan'[i].op = "merge" /\ plan'[i].dest = "a" /\ plan'[i].hash = c
        /\ plan'[i] # None
    BY <2>1, ActRecord DEF Ops, UpdateOps, Sides
  <2>3. c \notin known'["a"][i] /\ ConflictResolution = "merge"
    BY <1>1, <1>7 DEF ResolveTo, Resolutions
  <2>4. \A s \in Sides : Read(s, i, newst[s][i])'
    BY <1>5, RowsNext
  <2>5. RunVersions(i)'
    BY <1>4, <2>2, <2>3, <2>4 DEF RunVersions, Pending
  <2>6. ASSUME NEW j \in Idents \ {i} PROVE RunVersions(j)'
    <3>1. RunVersions(j) /\ j \in Idents /\ plan'[j] = plan[j]
      BY <1>1, <1>2 DEF VersionsInv
    <3>2. (\A s \in Sides : newst'[s][j] = newst[s][j]) /\ Undisputed(j) /\ pc' = pc
      BY <1>1 DEF Undisputed
    <3> QED BY <1>1, <3>1, <3>2, OthersKept
  <2>7. StatusCarried' /\ DistinctVersions' /\ OwnContents' /\ DistinctContents'
    BY <1>1, StatusKept
  <2> QED BY <1>1, <2>5, <2>6, <2>7 DEF VersionsInv
<1>8. "a" \in Sides /\ "b" \in Sides /\ Other("b") = "a" /\ Other("a") = "b"
  BY DEF Sides, Other
<1>9. CASE c = ca
  BY <1>2, <1>6, <1>8, <1>9
<1>10. CASE c # ca /\ c = cb
  BY <1>2, <1>6, <1>8, <1>10
<1> QED BY <1>7, <1>9, <1>10

LEMMA RunActionVersions ==
  ASSUME DecisionsHold, TypeOK, TypeOK', RowsInv, VersionsInv,
         NEW i \in Idents, RunAction(i)
  PROVE  VersionsInv'
<1>1. CASE \/ RejectReadOnly(i) \/ UploadRefused(i) \/ UpdateRefused(i)
           \/ DeleteRefused(i) \/ ResolveUnsettled(i)
  <2>1. Fail(i) /\ pc = "run" /\ UNCHANGED <<store, known>>
    BY <1>1 DEF RejectReadOnly, UploadRefused, UpdateRefused, DeleteRefused,
                ResolveUnsettled, Pending, storeVars
  <2> QED BY <2>1, SameStore, FailVersions
<1>2. CASE SkipReadOnly(i)
  BY <1>2, SkipVersions
<1>3. CASE RevertUpload(i) \/ RevertUpdate(i)
  BY <1>3, RevertVersions
<1>4. CASE UploadAccepted(i)
  BY <1>4, UploadVersions
<1>5. CASE UpdateAccepted(i)
  BY <1>5, UpdateVersions
<1>6. CASE DeleteSkipped(i)
  <2>1. /\ Pending(i, {"delete"}) /\ newst' = RemoveIdent(newst, i) /\ Advance(i)
        /\ UNCHANGED <<store, known>>
    BY <1>6 DEF DeleteSkipped, storeVars
  <2> QED BY <2>1, SameStore, DroppedVersions
<1>7. CASE DeleteAccepted(i)
  <2> DEFINE d == plan[i].dest
  <2>1. /\ Pending(i, {"delete"}) /\ newst' = RemoveIdent(newst, i) /\ Advance(i)
        /\ Current(i) /\ UNCHANGED known
        /\ store' = [store EXCEPT ![d] = Removed(store[d], newst[d][i].href)]
    BY <1>7 DEF DeleteAccepted
  <2>2. d \in Sides /\ newst[d][i].href \in Hrefs
    BY <2>1, PendingTyped DEF Current, Holds
  <2>3. StoreStep
    BY <2>1, <2>2, MoveStep
  <2> QED BY <2>1, <2>3, DroppedVersions
<1>8. CASE ResolveSame(i)
  BY <1>8, SameVersions
<1>9. CASE \E c \in Hashes : ResolveTo(i, c)
  BY <1>9, ResolvedVersions
<1> QED BY <1>1, <1>2, <1>3, <1>4, <1>5, <1>6, <1>7, <1>8, <1>9 DEF RunAction

LEMMA FaultsVersions ==
  ASSUME TypeOK, TypeOK', RowsInv, VersionsInv, Faults
  PROVE  VersionsInv'
<1>1. ASSUME NEW i \in Idents, NEW effect \in BOOLEAN, RequestFails(i, effect)
      PROVE  VersionsInv'
  <2> DEFINE d == plan[i].dest
             m == newst[d][i]
  <2>1. Fail(i) /\ HasFreshEtag(d) /\ pc = "run" /\ plan[i] # None
    BY <1>1 DEF RequestFails, Pending
  <2>2. d \in Sides /\ plan[i].hash \in Hashes
    BY <2>1 DEF TypeOK, Action
  <2>3. \/ UNCHANGED <<store, known>>
        \/ \E h \in Hrefs :
             /\ Pending(i, {"upload"}) \/ (Pending(i, UpdateOps) /\ Current(i))
             /\ Write(d, h, i, plan[i].hash)
        \/ \E h \in Hrefs : store' = [store EXCEPT ![d] = Removed(store[d], h)] /\ UNCHANGED known
    BY <1>1, HrefOfAssumption DEF RequestFails, Current, Holds
  <2>4. StoreStep /\ \A j \in Idents \ {i} : known'["a"][j] = known["a"][j]
    <3>1. CASE UNCHANGED <<store, known>>
      BY <3>1, SameStore
    <3>2. ASSUME NEW h \in Hrefs, Write(d, h, i, plan[i].hash),
                 Pending(i, {"upload"}) \/ (Pending(i, UpdateOps) /\ Current(i))
          PROVE  StoreStep /\ \A j \in Idents \ {i} : known'["a"][j] = known["a"][j]
      BY <2>1, <3>2, AcceptedWrite
    <3>3. ASSUME NEW h \in Hrefs, UNCHANGED known,
                 store' = [store EXCEPT ![d] = Removed(store[d], h)]
          PROVE  StoreStep
      BY <2>2, <3>3, MoveStep
    <3> QED BY <2>3, <3>1, <3>2, <3>3
  <2> QED BY <2>1, <2>4, FailVersions
<1>2. CASE Interrupted
  BY <1>2, SameStore, AbortVersions DEF Interrupted, storeVars
<1> QED BY <1>1, <1>2 DEF Faults

-----------------------------------------------------------------------------
(* prepare_new_status and _get_actions.                                    *)

(* A new row that equals the old one, or was read before, needs no more.   *)
LEMMA PreparedVersions ==
  ASSUME TypeOK, TypeOK', VersionsInv, UNCHANGED <<store, known, status>>,
         pc \in {"list", "fetch"}, pc' \in {"list", "fetch"},
         \A s \in Sides, i \in Idents :
           \/ newst'[s][i] \in {newst[s][i], status[s][i], None}
           \/ /\ Read(s, i, newst'[s][i])
              /\ s \in Covered /\ status[s][i] # None
                   /\ newst'[s][i].etag = status[s][i].etag =>
                   newst'[s][i].hash \in known[Other(s)][i]
  PROVE  VersionsInv'
<1>1. StoreStep
  BY SameStore
<1>2. StatusCarried' /\ DistinctVersions' /\ OwnContents' /\ DistinctContents'
  BY <1>1, StatusKept
<1>3. \A s \in Sides, i \in Idents : \A m : Read(s, i, m) => ReadNext(s, i, m)
  BY DEF Read, ReadNext, IsVersion, IsVersionNext
<1>4. PreparedRead
  BY DEF VersionsInv
<1>5. ASSUME NEW s \in Sides, NEW i \in Idents,
             newst'[s][i] # None, newst'[s][i] # status'[s][i]
      PROVE  /\ ReadNext(s, i, newst'[s][i])
             /\ s \in Covered /\ status'[s][i] # None
                  /\ newst'[s][i].etag = status'[s][i].etag =>
                  newst'[s][i].hash \in known'[Other(s)][i]
  <2>1. /\ Read(s, i, newst'[s][i])
        /\ s \in Covered /\ status[s][i] # None
             /\ newst'[s][i].etag = status[s][i].etag =>
             newst'[s][i].hash \in known[Other(s)][i]
    BY <1>4, <1>5 DEF PreparedRead
  <2> QED BY <1>3, <2>1
<1>6. PreparedRead'
  BY <1>5, PreparedReadNext
<1> QED BY <1>2, <1>6 DEF VersionsInv

LEMMA ListVersions ==
  ASSUME TypeOK, TypeOK', VersionsInv, List
  PROVE  VersionsInv'
<1>1. /\ UNCHANGED <<store, known, status>> /\ pc \in {"list", "fetch"}
      /\ pc' \in {"list", "fetch"}
  BY DEF List, storeVars
<1>2. \A s \in Sides, i \in Idents : newst'[s][i] \in {newst[s][i], status[s][i], None}
  BY DEF List, TypeOK, Tables
<1> QED BY <1>1, <1>2, PreparedVersions

(* What was fetched is read, and is the only item with its etag.           *)
LEMMA FetchVersions ==
  ASSUME TypeOK, TypeOK', VersionsInv, NEW h \in Hrefs, Fetch(h)
  PROVE  VersionsInv'
<1> DEFINE item == store[cur][h]
           i == item.ident
           m == [href |-> h, hash |-> item.hash, etag |-> item.etag]
<1>1. /\ UNCHANGED <<store, known, status>> /\ pc \in {"list", "fetch"}
      /\ pc' \in {"list", "fetch"}
  BY DEF Fetch, storeVars
<1>2. item # None /\ item \in Item /\ cur \in Sides /\ Other(cur) \in Sides
  BY SidesLemma DEF Fetch, TypeOK, Storages
<1>3. i \in Idents /\ item.hash \in known[cur][i]
  BY <1>2 DEF Item, VersionsInv, OwnContents, Listed
<1>4. \A s \in Sides, j \in Idents :
        newst'[s][j] = IF s = cur /\ j = i THEN m ELSE newst[s][j]
  BY <1>2, <1>3, SetSideEffect DEF Fetch, TypeOK
<1>5. \A h2 \in Hrefs : store[cur][h2] # None /\ store[cur][h2].etag = item.etag => h2 = h
  BY <1>2 DEF VersionsInv, DistinctVersions, Listed
<1>6. Read(cur, i, m)
  BY <1>2, <1>3, <1>5 DEF Read, IsVersion
<1>7. ASSUME cur \in Covered, status[cur][i] # None, m.etag = status[cur][i].etag
      PROVE  m.hash \in known[Other(cur)][i]
  <2>1. Carried(cur, i, status[cur][i])
    BY <1>3, <1>7 DEF VersionsInv, StatusCarried
  <2>2. IsVersion(cur, status[cur][i], h)
    BY <1>2, <1>7 DEF IsVersion
  <2> QED BY <2>1, <2>2 DEF Carried, Brings
<1>8. \A s \in Sides, j \in Idents :
        \/ newst'[s][j] \in {newst[s][j], status[s][j], None}
        \/ /\ Read(s, j, newst'[s][j])
           /\ s \in Covered /\ status[s][j] # None
                /\ newst'[s][j].etag = status[s][j].etag =>
                newst'[s][j].hash \in known[Other(s)][j]
  <2> HIDE DEF m, i
  <2> QED BY <1>4, <1>6, <1>7
<1> HIDE DEF m, i, item
<1> QED BY <1>1, <1>8, PreparedVersions

(* The rows _get_actions finds: a changed one was read, an unchanged one   *)
(* carries what the other side has had.                                    *)
LEMMA RowsFound ==
  ASSUME TypeOK, VersionsInv, pc = "fetch", NEW s \in Sides, NEW i \in Idents,
         newst[s][i] # None
  PROVE  /\ IsChanged(s, i) => Read(s, i, newst[s][i])
         /\ s \in Covered /\ ~IsChanged(s, i) => Carried(s, i, newst[s][i])
<1>1. PreparedRead /\ StatusCarried
  BY DEF VersionsInv
<1>2. ASSUME IsChanged(s, i) PROVE Read(s, i, newst[s][i])
  <2>1. newst[s][i] # status[s][i]
    BY <1>2 DEF IsChanged
  <2> QED BY <1>1, <2>1 DEF PreparedRead
<1>3. ASSUME s \in Covered, ~IsChanged(s, i), newst[s][i] # status[s][i]
      PROVE  Carried(s, i, newst[s][i])
  <2>1. status[s][i] # None /\ Read(s, i, newst[s][i])
    BY <1>1, <1>3 DEF IsChanged, PreparedRead
  <2>2. newst[s][i].hash \in known[Other(s)][i] \/ Answered(s, i, newst[s][i].hash)
    <3>1. CASE newst[s][i].etag = status[s][i].etag
      BY <1>1, <1>3, <2>1, <3>1 DEF PreparedRead
    <3>2. CASE newst[s][i].hash = status[s][i].hash
      BY <1>1, <1>3, <2>1, <3>2 DEF StatusCarried, Carried, Brings
    <3> QED BY <1>3, <3>1, <3>2 DEF IsChanged
  <2>3. ASSUME NEW h \in Hrefs, IsVersion(s, newst[s][i], h)
        PROVE  store[s][h].ident = i /\ store[s][h].hash \in known[Other(s)][i]
    <3>1. store[s][h].ident = i /\ store[s][h].hash = newst[s][i].hash
      BY <2>1, <2>3 DEF Read
    <3> QED BY <2>2, <2>3, <3>1 DEF Answered, IsVersion, Listed
  <2> QED BY <2>2, <2>3 DEF Carried, Brings
<1>4. ASSUME s \in Covered, newst[s][i] = status[s][i] PROVE Carried(s, i, newst[s][i])
  BY <1>1, <1>4 DEF StatusCarried
<1> QED BY <1>2, <1>3, <1>4

(* The plan brings what was read from side s to the other one.             *)
LEMMA FromRead ==
  ASSUME NEW i \in Idents, NEW s \in Sides, plan'[i] # None,
         plan'[i].op \in {"update", "upload"}, plan'[i].dest = Other(s),
         plan'[i].hash = newst'[s][i].hash, ReadNext(s, i, newst'[s][i]),
         plan'[i].op = "update" /\ Other(s) \in Covered =>
           CarriedNext(Other(s), i, newst'[Other(s)][i])
  PROVE  RunVersions(i)'
<1>1. Other(Other(s)) = s
  BY DEF Sides, Other
<1>2. plan'[i].hash \in known'[s][i]
  BY DEF ReadNext
<1>3. BringsNext(s, i, newst'[s][i], {plan'[i].hash})
  BY ReadBrings
<1>4. Brings(Other(plan[i].dest), i, newst[Other(plan[i].dest)][i], {plan[i].hash})'
  BY <1>1, <1>3, RowsNext
<1>5. plan'[i].op = "update" /\ Other(s) \in Covered =>
        Carried(plan[i].dest, i, newst[plan[i].dest][i])'
  BY RowsNext
<1>6. /\ ~Pending(i, {"settle"})' /\ ~Pending(i, {"resolve", "merge"})'
      /\ ~Pending(i, {"merge"})' /\ ~Pending(i, {"settle", "merge"})'
      /\ Pending(i, {"update", "delete"})' => plan'[i].op = "update"
  BY DEF Pending
<1> QED BY <1>1, <1>2, <1>4, <1>5, <1>6 DEF RunVersions

LEMMA PlanVersions ==
  ASSUME TypeOK, TypeOK', VersionsInv, Plan
  PROVE  VersionsInv'
<1>1. /\ UNCHANGED <<store, known, status, newst>> /\ pc = "fetch" /\ pc' = "run"
      /\ \A i \in Idents : plan'[i] = ActionFor(i)
  BY DEF Plan, Prepared, storeVars
<1>2. StatusCarried' /\ DistinctVersions' /\ OwnContents' /\ DistinctContents'
  BY <1>1, SameStore, StatusKept
<1>3. \A s \in Sides, i \in Idents : newst[s][i] # None =>
        /\ Carried(s, i, newst[s][i]) => CarriedNext(s, i, newst'[s][i])
        /\ Read(s, i, newst[s][i]) => ReadNext(s, i, newst'[s][i])
  BY <1>1, SameStore, RowKept
<1>4. ASSUME NEW i \in Idents PROVE RunVersions(i)'
  <2>1. \A s \in Sides : newst[s][i] # None =>
          /\ IsChanged(s, i) => ReadNext(s, i, newst'[s][i])
          /\ s \in Covered /\ ~IsChanged(s, i) => CarriedNext(s, i, newst'[s][i])
    BY <1>1, <1>3, RowsFound
  <2>2. CASE NoRows(i)
    <3>1. plan'[i] = None /\ \A s \in Covered : newst'[s][i] = None
      BY <1>1, <2>2, PlannedAction, CoveredSides DEF NoRows
    <3> QED BY <3>1, DoneNext
  <2>3. ASSUME NEW s \in Sides, newst[s][i] # None, newst[Other(s)][i] = None
        PROVE  RunVersions(i)'
    <3>1. CASE IsChanged(s, i)
      <4>1. plan'[i] = Act("upload", Other(s), newst[s][i].hash)
        BY <1>1, <2>3, <3>1, PlannedAction
      <4>2. /\ plan'[i].op = "upload" /\ plan'[i].dest = Other(s)
            /\ plan'[i].hash = newst'[s][i].hash /\ plan'[i] # None
        BY <1>1, <2>3, <4>1, ActRecord, RowTyped, SidesLemma DEF Ops, UpdateOps
      <4>3. ReadNext(s, i, newst'[s][i])
        BY <2>1, <2>3, <3>1
      <4> QED BY <4>2, <4>3, FromRead
    <3>2. CASE ~IsChanged(s, i)
      <4>1. plan'[i] = Act("delete", s, newst[s][i].hash)
        BY <1>1, <2>3, <3>2, PlannedAction
      <4>2. plan'[i].op = "delete" /\ plan'[i].dest = s /\ plan'[i] # None
        BY <1>1, <2>3, <4>1, ActRecord, RowTyped, SidesLemma DEF Ops, UpdateOps
      <4>3. s \in Covered => CarriedNext(s, i, newst'[s][i])
        BY <2>1, <2>3, <3>2
      <4>4. s \in Covered => Carried(plan[i].dest, i, newst[plan[i].dest][i])'
        BY <4>2, <4>3, RowsNext
      <4> QED BY <4>2, <4>4 DEF RunVersions, Pending
    <3> QED BY <3>1, <3>2
  <2>4. ASSUME BothRows(i), \A s \in Sides : IsChanged(s, i) PROVE RunVersions(i)'
    <3>1. plan'[i] = Act("resolve", "a", newst["a"][i].hash)
      BY <1>1, <2>4, PlannedAction
    <3>2. plan'[i].op = "resolve" /\ plan'[i] # None
      BY <1>1, <2>4, <3>1, ActRecord, RowTyped DEF BothRows, Sides, Ops
    <3>3. \A s \in Sides : ReadNext(s, i, newst'[s][i])
      BY <2>1, <2>4 DEF BothRows
    <3>4. \A s \in Sides : Read(s, i, newst[s][i])'
      BY <3>3, RowsNext
    <3> QED BY <3>2, <3>4 DEF RunVersions, Pending
  <2>5. ASSUME BothRows(i), \A s \in Sides : ~IsChanged(s, i) PROVE RunVersions(i)'
    <3>1. plan'[i] = None
      BY <1>1, <2>5, PlannedAction
    <3>2. \A s \in Covered : CarriedNext(s, i, newst'[s][i])
      BY <2>1, <2>5, CoveredSides DEF BothRows
    <3> QED BY <3>1, <3>2, DoneNext
  <2>6. ASSUME BothRows(i), NEW s \in Sides, IsChanged(s, i), ~IsChanged(Other(s), i)
        PROVE  RunVersions(i)'
    <3>0. Other(s) \in Sides /\ Other(Other(s)) = s
      BY DEF Sides, Other
    <3>1. plan'[i] = Act("update", Other(s), newst[s][i].hash)
      BY <1>1, <2>6, PlannedAction
    <3>2. /\ plan'[i].op = "update" /\ plan'[i].dest = Other(s)
          /\ plan'[i].hash = newst'[s][i].hash /\ plan'[i] # None
      BY <1>1, <2>6, <3>0, <3>1, ActRecord, RowTyped DEF BothRows, Ops, UpdateOps
    <3>3. ReadNext(s, i, newst'[s][i])
      BY <2>1, <2>6 DEF BothRows
    <3>4. Other(s) \in Covered => CarriedNext(Other(s), i, newst'[Other(s)][i])
      BY <2>1, <2>6, <3>0 DEF BothRows
    <3> QED BY <3>0, <3>2, <3>3, <3>4, FromRead
  <2>7. \/ NoRows(i)
        \/ \E s \in Sides : newst[s][i] # None /\ newst[Other(s)][i] = None
        \/ BothRows(i) /\ \/ \A s \in Sides : IsChanged(s, i)
                          \/ \A s \in Sides : ~IsChanged(s, i)
                          \/ \E s \in Sides : IsChanged(s, i) /\ ~IsChanged(Other(s), i)
    BY DEF NoRows, BothRows, Sides, Other
  <2> QED BY <2>2, <2>3, <2>4, <2>5, <2>6, <2>7
<1> QED BY <1>1, <1>2, <1>4 DEF VersionsInv

LEMMA PrepareVersions ==
  ASSUME TypeOK, TypeOK', RowsInv, VersionsInv, Prepare
  PROVE  VersionsInv'
<1>1. CASE List
  BY <1>1, ListVersions
<1>2. ASSUME NEW h \in Hrefs, Fetch(h) PROVE VersionsInv'
  BY <1>2, FetchVersions
<1>3. CASE RefuseEmpty \/ \E h \in Hrefs : FetchFails(h)
  BY <1>3, SameStore, AbortVersions DEF RefuseEmpty, FetchFails, storeVars
<1>4. CASE NextSide
  BY <1>4, UnchangedStore DEF NextSide, storeVars
<1>5. CASE Plan
  BY <1>5, PlanVersions
<1> QED BY <1>1, <1>2, <1>3, <1>4, <1>5 DEF Prepare

-----------------------------------------------------------------------------

(* The new status is what the actions left.                                *)
LEMMA CommitVersions ==
  ASSUME TypeOK, TypeOK', VersionsInv, Commit
  PROVE  VersionsInv'
<1>1. /\ UNCHANGED <<store, known>> /\ status' = newst /\ pc = "run" /\ pc' = "idle"
      /\ \A i \in Idents : plan[i] = None
  BY DEF Commit, AllRun, EndOfSync, storeVars, NoPlan
<1>2. ASSUME NEW s \in Covered, NEW i \in Idents, status'[s][i] # None
      PROVE  CarriedNext(s, i, status'[s][i])
  <2>1. Carried(s, i, newst[s][i]) /\ s \in Sides /\ newst[s][i] # None
    BY <1>1, <1>2, CoveredSides DEF VersionsInv, RunVersions
  <2>2. newst[s][i].etag \in EtagsInUse(s)
    BY <2>1, InUse
  <2> QED BY <1>1, <2>1, <2>2, SameStore, VersionsKept DEF StoreStep
<1>3. StatusCarried' /\ DistinctVersions' /\ OwnContents' /\ DistinctContents'
  BY <1>1, <1>2, StatusCarriedNext, SameStore DEF StoreStep
<1> QED BY <1>1, <1>3 DEF VersionsInv

LEMMA VersionsInit == Init => VersionsInv
<1> SUFFICES ASSUME Init PROVE VersionsInv
  OBVIOUS
<1>1. ASSUME NEW s \in Sides, NEW h \in Hrefs, store[s][h] # None
      PROVE  \E i \in InitialItems :
               /\ HrefOf[i] = h
               /\ store[s][h].ident = i
               /\ store[s][h].hash = FirstHash
               /\ store[s][h].etag = FirstEtag[i]
  <2>1. \E i \in InitialItems : HrefOf[i] = h
    BY <1>1 DEF Init
  <2> DEFINE i == CHOOSE j \in InitialItems : HrefOf[j] = h
  <2>2. store[s][h] = [ident |-> i, hash |-> FirstHash, etag |-> FirstEtag[i]]
    BY <2>1 DEF Init
  <2>3. i \in InitialItems /\ HrefOf[i] = h
    BY <2>1
  <2> HIDE DEF i
  <2>4. store[s][h].ident = i /\ store[s][h].hash = FirstHash /\ store[s][h].etag = FirstEtag[i]
    BY <2>2
  <2> QED BY <2>3, <2>4
<1>2. ASSUME NEW s \in Sides, NEW i \in Idents, status[s][i] # None
      PROVE  /\ i \in InitialItems
             /\ status[s][i].hash = FirstHash /\ status[s][i].etag = FirstEtag[i]
  <2>1. /\ i \in InitialItems
        /\ status[s][i] = [href |-> HrefOf[i], hash |-> FirstHash, etag |-> FirstEtag[i]]
    BY <1>2 DEF Init
  <2> QED BY <2>1
<1>3. InitialItems \subseteq Idents
      /\ \A i, j \in Idents : FirstEtag[i] = FirstEtag[j] => i = j
  BY InitialAssumption
<1>4. \A s \in Sides, i \in InitialItems : known[s][i] = {FirstHash}
  BY <1>3 DEF Init
<1>5. DistinctVersions
  <2> SUFFICES ASSUME NEW s \in Sides, NEW h \in Hrefs, NEW h2 \in Hrefs,
                      store[s][h] # None, store[s][h2] # None,
                      store[s][h].etag = store[s][h2].etag
               PROVE  h = h2
    BY DEF DistinctVersions, Listed
  <2>1. \E i \in InitialItems : HrefOf[i] = h /\ store[s][h].etag = FirstEtag[i]
    BY <1>1
  <2>2. \E j \in InitialItems : HrefOf[j] = h2 /\ store[s][h2].etag = FirstEtag[j]
    BY <1>1
  <2> QED BY <1>3, <2>1, <2>2
<1>6. OwnContents
  <2> SUFFICES ASSUME NEW s \in Sides, NEW h \in Hrefs, store[s][h] # None
               PROVE  store[s][h].hash \in known[s][store[s][h].ident]
    BY DEF OwnContents, Listed
  <2>1. store[s][h].ident \in InitialItems /\ store[s][h].hash = FirstHash
    BY <1>1
  <2> QED BY <1>4, <2>1
<1>7. StatusCarried
  <2> SUFFICES ASSUME NEW s \in Covered, NEW i \in Idents, status[s][i] # None
               PROVE  Carried(s, i, status[s][i])
    BY DEF StatusCarried
  <2>1. s \in Sides /\ Other(s) \in Sides
    BY CoveredSides, SidesLemma
  <2>2. i \in InitialItems /\ status[s][i].hash = FirstHash /\ status[s][i].etag = FirstEtag[i]
    BY <1>2, <2>1
  <2>3. known[Other(s)][i] = {FirstHash}
    BY <1>4, <2>1, <2>2
  <2>4. ASSUME NEW h \in Hrefs, IsVersion(s, status[s][i], h)
        PROVE  store[s][h].ident = i /\ store[s][h].hash \in known[Other(s)][i]
    <3>1. PICK j \in InitialItems :
            /\ store[s][h].ident = j /\ store[s][h].hash = FirstHash
            /\ store[s][h].etag = FirstEtag[j]
      BY <1>1, <2>1, <2>4 DEF IsVersion
    <3>2. j = i
      BY <1>3, <2>2, <2>4, <3>1 DEF IsVersion
    <3> QED BY <2>3, <3>1, <3>2
  <2> QED BY <2>2, <2>3, <2>4 DEF Carried, Brings
<1>8. pc = "idle"
  BY DEF Init
<1>9. DistinctContents
  <2> SUFFICES ASSUME NEW s \in Covered, NEW h \in Hrefs, NEW h2 \in Hrefs,
                      store[s][h] # None, store[s][h2] # None,
                      store[s][h].ident = store[s][h2].ident
               PROVE  h = h2
    BY DEF DistinctContents, Listed
  <2> QED BY <1>1, CoveredSides
<1> QED BY <1>5, <1>6, <1>7, <1>8, <1>9 DEF VersionsInv

LEMMA VersionsStep ==
  ASSUME DecisionsHold, TypeOK, TypeOK', RowsInv, VersionsInv, [Next]_vars
  PROVE  VersionsInv'
<1>1. CASE Editor
  BY <1>1, EditorVersions
<1>2. ASSUME NEW f \in BOOLEAN, NEW p \in PartialSync, StartSync(f, p) PROVE VersionsInv'
  BY <1>2, UnchangedStore DEF StartSync, storeVars
<1>3. CASE Prepare
  BY <1>3, PrepareVersions
<1>4. ASSUME NEW i \in Idents, RunAction(i) PROVE VersionsInv'
  BY <1>4, RunActionVersions
<1>5. CASE Commit
  BY <1>5, CommitVersions
<1>6. CASE CommitRejected
  BY <1>6, SameStore, AbortVersions DEF CommitRejected, storeVars
<1>7. CASE Faults
  BY <1>7, FaultsVersions
<1>8. CASE UNCHANGED vars
  BY <1>8, UnchangedStore DEF vars
<1> QED BY <1>1, <1>2, <1>3, <1>4, <1>5, <1>6, <1>7, <1>8 DEF Next, Progress

(* sync() never overwrites or deletes a content which the other side has   *)
(* never held, unless it is the version a conflict resolution was given    *)
(* (sync/__init__.py), in any history of edits, failed requests and        *)
(* interruptions.                                                          *)
THEOREM EditsNeverLost == DecisionsHold => (Spec => NoLostEdit)
<1> SUFFICES ASSUME DecisionsHold PROVE Spec => NoLostEdit
  OBVIOUS
<1>1. Init => VersionsInv
  BY VersionsInit
<1>2. TypeOK /\ TypeOK' /\ RowsInv /\ VersionsInv /\ [Next]_vars => VersionsInv'
  BY VersionsStep
<1>3. ASSUME TypeOK, RowsInv, VersionsInv, [Next]_vars,
             NEW s \in Covered, NEW h \in Hrefs,
             BySync, store[s][h] # None, store'[s][h] # store[s][h]
      PROVE  \/ store[s][h].hash \in known[Other(s)][store[s][h].ident]
             \/ /\ Pending(store[s][h].ident, {"settle", "merge"})
                /\ store[s][h].hash = newst[s][store[s][h].ident].hash
  <2>0. s \in Sides
    BY CoveredSides
  <2>1. PICK i \in Idents :
          /\ plan[i] # None /\ pc = "run" /\ s = plan[i].dest
          /\ plan[i].op \in UpdateOps \cup {"delete"}
          /\ Current(i) /\ h = newst[s][i].href
    BY <1>3, <2>0, StoreChanges
  <2>2. RunVersions(i) /\ IsVersion(s, newst[s][i], h)
    BY <1>3, <2>1 DEF VersionsInv, Current, Holds, IsVersion
  <2>3. CASE Pending(i, {"update", "delete"})
    <3>1. Carried(s, i, newst[s][i])
      BY <2>1, <2>2, <2>3 DEF RunVersions
    <3> QED BY <2>2, <3>1 DEF Carried, Brings
  <2>4. CASE Pending(i, {"settle", "merge"})
    <3>1. Read(s, i, newst[s][i])
      BY <2>0, <2>1, <2>2, <2>4 DEF RunVersions, Pending
    <3> QED BY <2>2, <2>4, <3>1 DEF Read
  <2> QED BY <2>1, <2>3, <2>4 DEF Pending, UpdateOps
<1>4. TypeOK /\ RowsInv /\ VersionsInv /\ [Next]_vars =>
        [\A s \in Covered, h \in Hrefs :
           LET old == store[s][h] IN
           BySync /\ old # None /\ store'[s][h] # old =>
             \/ old.hash \in known[Other(s)][old.ident]
             \/ /\ Pending(old.ident, {"settle", "merge"})
                /\ old.hash = newst[s][old.ident].hash]_vars
  BY <1>3
<1> QED BY <1>1, <1>2, <1>4, RowsAlways, PTL DEF Spec, NoLostEdit

-----------------------------------------------------------------------------
(***************************************************************************)
(* What undisturbed syncs achieve (Converged, StatusDescribesItems and     *)
(* SettledStaysPut), and what the status knows of the last agreement       *)
(* (ConflictsAreGenuine and NoResurrection).  People leave items where      *)
(* storages put them, leave their UIDs alone and never bring an earlier    *)
(* content back (an update keeps the hash of the row it writes to, and     *)
(* what has that hash looks unchanged).  A storage takes every change, or  *)
(* is no_delete, or is read-only and its other side is reverted; there, no *)
(* merge may answer for both sides: what the read-only side has instead of *)
(* the answer would be remembered by a row that others can overwrite.      *)
(***************************************************************************)
TakesOrReverts ==
  /\ EditorMay \subseteq {"touch"}
  /\ ReadOnly # Sides
  /\ ReadOnly # {} => PartialSync = {"revert"} /\ ConflictResolution # "merge"

(* Two storages that take every change.                                    *)
PlainPair == ReadOnly = {} /\ NoDelete = {} /\ EditorMay \subseteq {"touch"}

LEMMA PlainTakes == PlainPair => TakesOrReverts
BY DEF PlainPair, TakesOrReverts, Sides

(* The item of ident i on side s.                                          *)
At(s, i) == store[s][HrefOf[i]]

(* A row that stands for a write to a read-only side (RevertUpload,        *)
(* RevertUpdate).                                                          *)
MadeUp(m) == m # None /\ m.href = None

(* Items are where storages put them, and what other rows remember of a    *)
(* side was there.                                                         *)
StorePlaced ==
  \A s \in Sides, h \in Hrefs : store[s][h] # None =>
    /\ h = HrefOf[store[s][h].ident]
    /\ store[s][h].hash \in known[s][store[s][h].ident]

RowsPlaced(t) ==
  \A s \in Sides, i \in Idents : t[s][i] # None =>
    IF MadeUp(t[s][i]) THEN s \in ReadOnly /\ t[s][i].etag = None
    ELSE t[s][i].href = HrefOf[i] /\ t[s][i].hash \in known[s][i]

PlacesInv == StorePlaced /\ RowsPlaced(status) /\ RowsPlaced(newst)

LEMMA AtFacts ==
  ASSUME TypeOK, NEW s \in Sides, NEW i \in Idents
  PROVE  /\ HrefOf[i] \in Hrefs
         /\ At(s, i) # None => /\ At(s, i) \in Item
                               /\ At(s, i).etag \in Etags /\ At(s, i).etag # None
                               /\ At(s, i).hash \in Hashes
                               /\ At(s, i).etag \in EtagsInUse(s)
<1>1. HrefOf[i] \in Hrefs
  BY HrefOfAssumption
<1>2. At(s, i) \in Item \cup {None}
  BY <1>1 DEF At, TypeOK, Storages
<1>3. At(s, i) # None => At(s, i).etag \in EtagsInUse(s)
  BY <1>1, InUse DEF At
<1> QED BY <1>1, <1>2, <1>3, NoneAssumption DEF Item

LEMMA AtPlaced ==
  ASSUME TypeOK, StorePlaced
  PROVE  /\ \A s \in Sides, i \in Idents : At(s, i) # None =>
              At(s, i).ident = i /\ At(s, i).hash \in known[s][i]
         /\ \A s \in Sides, h \in Hrefs : store[s][h] # None =>
              /\ store[s][h].ident \in Idents
              /\ h = HrefOf[store[s][h].ident]
              /\ store[s][h] = At(s, store[s][h].ident)
<1>1. ASSUME NEW s \in Sides, NEW h \in Hrefs, store[s][h] # None
      PROVE  store[s][h].ident \in Idents /\ h = HrefOf[store[s][h].ident]
  BY <1>1 DEF TypeOK, Storages, Item, StorePlaced
<1>2. ASSUME NEW s \in Sides, NEW i \in Idents, At(s, i) # None
      PROVE  At(s, i).ident = i /\ At(s, i).hash \in known[s][i]
  <2>1. HrefOf[i] \in Hrefs
    BY HrefOfAssumption
  <2>2. At(s, i).ident = i
    BY <1>1, <1>2, <2>1, HrefOfAssumption DEF At
  <2> QED BY <1>2, <2>1, <2>2 DEF At, StorePlaced
<1> QED BY <1>1, <1>2 DEF At

LEMMA AtTyped ==
  ASSUME TypeOK', NEW s \in Sides, NEW i \in Idents, At(s, i)' # None
  PROVE  At(s, i)'.etag \in Etags /\ At(s, i)'.etag # None /\ At(s, i)'.hash \in Hashes
<1>1. At(s, i)' \in Item
  BY HrefOfAssumption DEF At, TypeOK, Storages
<1> QED BY <1>1, NoneAssumption DEF Item

(* Rows of an ident that a step leaves alone.                              *)
Spared(s, i) == At(s, i)' = At(s, i) /\ known'[s][i] = known[s][i]

SparesOthers(d, i) ==
  \A s \in Sides, j \in Idents : s # d \/ j # i => Spared(s, j)

(* Ident i is written to side d, with content c; or is removed there.      *)
Written(d, i, c) ==
  /\ At(d, i)' # None
  /\ At(d, i)'.hash = c
  /\ At(d, i)'.etag \in Etags \ EtagsInUse(d)
  /\ known'[d][i] = known[d][i] \cup {c}
  /\ SparesOthers(d, i)

Emptied(d, i) ==
  /\ At(d, i)' = None
  /\ known'[d][i] = known[d][i]
  /\ SparesOthers(d, i)

LEMMA WritePlaced ==
  ASSUME TypeOK, StorePlaced, NEW s \in Sides, NEW i \in Idents, NEW c \in Hashes,
         HasFreshEtag(s), Write(s, HrefOf[i], i, c)
  PROVE  /\ Written(s, i, c)
         /\ At(s, i)'.etag = FreshEtag(s)
         /\ StorePlaced'
         /\ Grows
<1> DEFINE new == [ident |-> i, hash |-> c, etag |-> FreshEtag(s)]
<1>1. FreshEtag(s) \in Etags /\ FreshEtag(s) \notin EtagsInUse(s)
  BY FreshEtagLemma
<1>2. new \in Item /\ new # None
  BY <1>1, NoneAssumption DEF Item
<1>3. \A s2 \in Sides, h2 \in Hrefs :
        store'[s2][h2] = IF s2 = s /\ h2 = HrefOf[i] THEN new ELSE store[s2][h2]
  BY HrefOfAssumption DEF Write, Put, TypeOK, Storages
<1>4. \A s2 \in Sides, j \in Idents :
        known'[s2][j] = IF s2 = s /\ j = i THEN known[s2][j] \cup {c} ELSE known[s2][j]
  BY DEF Write, TypeOK
<1>5. new.ident = i /\ new.hash = c /\ new.etag = FreshEtag(s)
  OBVIOUS
<1> HIDE DEF new
<1>6. \A s2 \in Sides, j \in Idents :
        At(s2, j)' = IF s2 = s /\ j = i THEN new ELSE At(s2, j)
  BY <1>3, HrefOfAssumption DEF At
<1>7. SparesOthers(s, i)
  BY <1>4, <1>6 DEF SparesOthers, Spared
<1>8. Written(s, i, c) /\ At(s, i)'.etag = FreshEtag(s)
  <2>1. At(s, i)' = new /\ known'[s][i] = known[s][i] \cup {c}
    BY <1>4, <1>6
  <2> QED BY <1>1, <1>2, <1>5, <1>7, <2>1 DEF Written
<1>9. Grows
  BY <1>4 DEF Grows
<1>10. StorePlaced'
  <2> SUFFICES ASSUME NEW s2 \in Sides, NEW h2 \in Hrefs, store'[s2][h2] # None
               PROVE  /\ h2 = HrefOf[store'[s2][h2].ident]
                      /\ store'[s2][h2].hash \in known'[s2][store'[s2][h2].ident]
    BY DEF StorePlaced
  <2>1. CASE s2 = s /\ h2 = HrefOf[i]
    BY <1>3, <1>4, <1>5, <2>1
  <2>2. CASE ~ (s2 = s /\ h2 = HrefOf[i])
    <3>1. store'[s2][h2] = store[s2][h2]
      BY <1>3, <2>2
    <3>2. store[s2][h2].ident \in Idents
      BY <3>1, AtPlaced
    <3> QED BY <1>9, <3>1, <3>2 DEF StorePlaced, Grows
  <2> QED BY <2>1, <2>2
<1> QED BY <1>8, <1>9, <1>10

LEMMA RemovePlaced ==
  ASSUME TypeOK, StorePlaced, NEW s \in Sides, NEW i \in Idents, UNCHANGED known,
         store' = [store EXCEPT ![s] = Removed(store[s], HrefOf[i])]
  PROVE  Emptied(s, i) /\ StorePlaced' /\ Grows
<1>1. \A s2 \in Sides, h2 \in Hrefs :
        store'[s2][h2] = IF s2 = s /\ h2 = HrefOf[i] THEN None ELSE store[s2][h2]
  BY HrefOfAssumption DEF Removed, TypeOK, Storages
<1>2. \A s2 \in Sides, j \in Idents :
        At(s2, j)' = IF s2 = s /\ j = i THEN None ELSE At(s2, j)
  BY <1>1, HrefOfAssumption DEF At
<1>3. Emptied(s, i)
  BY <1>2 DEF Emptied, SparesOthers, Spared
<1> QED BY <1>1, <1>3 DEF StorePlaced, Grows

LEMMA SameStorePlaced ==
  ASSUME StorePlaced, UNCHANGED <<store, known>>
  PROVE  /\ StorePlaced' /\ Grows
         /\ \A s \in Sides, i \in Idents : Spared(s, i)
BY DEF StorePlaced, Grows, Spared, At

(* Rows that a step leaves alone.                                          *)
LEMMA RowsStayPlaced ==
  ASSUME Grows, NEW t, RowsPlaced(t)
  PROVE  \A s \in Sides, i \in Idents : t[s][i] # None =>
           IF MadeUp(t[s][i]) THEN s \in ReadOnly /\ t[s][i].etag = None
           ELSE t[s][i].href = HrefOf[i] /\ t[s][i].hash \in known'[s][i]
BY DEF Grows, RowsPlaced

-----------------------------------------------------------------------------
(* People.  An edit puts a new content at the place of an ident, or the    *)
(* same content again, or removes it.                                      *)
EditOf(s, i) ==
  /\ SparesOthers(s, i)
  /\ At(s, i)' # None =>
       /\ At(s, i)'.etag \in Etags \ EtagsInUse(s)
       /\ \/ At(s, i)'.hash \notin known[s][i]
          \/ "touch" \in EditorMay /\ At(s, i) # None /\ At(s, i)'.hash = At(s, i).hash
  /\ known[s][i] \subseteq known'[s][i]

EditStep ==
  /\ UNCHANGED <<status, newst, pc, cur, todo, plan, errors, agreed, faults>>
  /\ ~ clean' /\ quiet' = 0
  /\ \E s \in Sides, i \in Idents : EditOf(s, i)

LEMMA EditorPlain ==
  ASSUME TakesOrReverts, TypeOK, PlacesInv, Editor
  PROVE  PlacesInv' /\ EditStep /\ Grows
<1>1. UNCHANGED <<status, newst, pc, cur, todo, plan, errors, agreed, faults>>
      /\ ~ clean' /\ quiet' = 0
  BY DEF Editor, EditorPut, EditorRemove, EditorMove, Edited, prepVars
<1>2. PICK s \in Sides, h \in Hrefs :
        \/ \E i \in Idents, c \in Hashes : EditorPut(s, h, i, c)
        \/ EditorRemove(s, h)
  BY DEF Editor, EditorMove, TakesOrReverts
<1>3. ASSUME NEW i \in Idents, NEW c \in Hashes, EditorPut(s, h, i, c)
      PROVE  StorePlaced' /\ Grows /\ EditOf(s, i)
  <2>1. h = HrefOf[i]
    BY <1>3, AtPlaced DEF EditorPut, TakesOrReverts, PlacesInv
  <2>2. HasFreshEtag(s) /\ Write(s, HrefOf[i], i, c)
    BY <1>3, <2>1 DEF EditorPut
  <2>3. Written(s, i, c) /\ StorePlaced' /\ Grows
    BY <2>2, WritePlaced DEF PlacesInv
  <2>4. c \notin known[s][i] \/ ("touch" \in EditorMay /\ At(s, i) # None /\ At(s, i).hash = c)
    BY <1>3, <2>1 DEF EditorPut, TakesOrReverts, At
  <2> QED BY <2>3, <2>4 DEF EditOf, Written, Grows
<1>4. ASSUME EditorRemove(s, h)
      PROVE  StorePlaced' /\ Grows /\ \E i \in Idents : EditOf(s, i)
  <2>1. PICK i \in Idents : h = HrefOf[i]
    BY <1>4, AtPlaced DEF EditorRemove, PlacesInv
  <2>2. Emptied(s, i) /\ StorePlaced' /\ Grows
    BY <1>4, <2>1, RemovePlaced DEF EditorRemove, PlacesInv
  <2> QED BY <2>2 DEF EditOf, Emptied
<1>5. StorePlaced' /\ Grows /\ \E i \in Idents : EditOf(s, i)
  BY <1>2, <1>3, <1>4
<1>6. RowsPlaced(status)' /\ RowsPlaced(newst)'
  BY <1>1, <1>5, RowsStayPlaced DEF PlacesInv, RowsPlaced
<1> QED BY <1>1, <1>5, <1>6 DEF PlacesInv, EditStep

-----------------------------------------------------------------------------
(* What becomes of an ident when its action runs.                          *)
LeavesOthers(i) ==
  /\ UNCHANGED <<status, pc, cur, todo, clean, quiet>>
  /\ \A j \in Idents \ {i} :
       /\ plan'[j] = plan[j]
       /\ agreed'[j] = agreed[j]
       /\ \A s \in Sides : newst'[s][j] = newst[s][j] /\ Spared(s, j)

RowsKept(i) == \A s \in Sides : newst'[s][i] = newst[s][i] /\ Spared(s, i)

Failed(i) ==
  /\ LeavesOthers(i)
  /\ plan'[i] = None
  /\ agreed'[i] = agreed[i]
  /\ \A s \in Sides : newst'[s][i] = status[s][i]
  /\ errors' = errors \cup {i}

(* The row of the destination after a write: the content it remembers is   *)
(* m, the etag the one that was returned.                                  *)
RowAfter(d, i, m) ==
  /\ newst'[d][i] # None
  /\ newst'[d][i].href = HrefOf[i]
  /\ newst'[d][i].hash = m
  /\ newst'[d][i].etag = IF d \in EtagLost THEN None ELSE At(d, i)'.etag
  /\ newst'[Other(d)][i] = newst[Other(d)][i]

Uploaded(i, d, c) ==
  /\ Pending(i, {"upload"})
  /\ RowAfter(d, i, c)
  /\ plan'[i] = None /\ agreed'[i] = c

Updated(i, d, c) ==
  /\ Pending(i, {"update", "settle"})
  /\ newst[d][i] # None /\ ~ MadeUp(newst[d][i]) /\ At(d, i) # None
  /\ RowAfter(d, i, newst[d][i].hash)
  /\ plan'[i] = None /\ agreed'[i] = c

Merged(i, d, c) ==
  /\ Pending(i, {"merge"})
  /\ newst[d][i] # None /\ ~ MadeUp(newst[d][i]) /\ At(d, i) # None
  /\ RowAfter(d, i, newst[d][i].hash)
  /\ plan'[i] = Act("settle", "b", c) /\ agreed'[i] = agreed[i]

Wrote(i) ==
  /\ LeavesOthers(i)
  /\ errors' = errors
  /\ \E d \in Sides, c \in Hashes :
       /\ plan[i].dest = d /\ plan[i].hash = c /\ d \notin ReadOnly
       /\ Written(d, i, c)
       /\ Uploaded(i, d, c) \/ Updated(i, d, c) \/ Merged(i, d, c)

Deleted(i) ==
  /\ LeavesOthers(i)
  /\ Pending(i, {"delete"})
  /\ errors' = errors
  /\ plan'[i] = None /\ agreed'[i] = agreed[i]
  /\ \A s \in Sides : newst'[s][i] = None
  /\ \E d \in Sides : plan[i].dest = d /\ ~ Keeps(d) /\ Emptied(d, i)

(* A read-only side does not get what the row says it has.                 *)
TakenBack(i) ==
  /\ LeavesOthers(i)
  /\ Pending(i, {"upload"} \cup UpdateOps)
  /\ errors' = errors
  /\ agreed'[i] = agreed[i]
  /\ ~ Pending(i, {"merge"}) => plan'[i] = None
  /\ \A s \in Sides : Spared(s, i)
  /\ \E d \in ReadOnly :
       /\ plan[i].dest = d
       /\ MadeUp(newst'[d][i])
       /\ newst'[d][i].hash = plan[i].hash /\ newst'[d][i].etag = None
       /\ newst'[Other(d)][i] = newst[Other(d)][i]

(* A side that keeps an item is without a row.                             *)
Skipped(i) ==
  /\ LeavesOthers(i)
  /\ Pending(i, {"delete"})
  /\ errors' = errors
  /\ plan'[i] = None /\ agreed'[i] = agreed[i]
  /\ Keeps(plan[i].dest)
  /\ \A s \in Sides : newst'[s][i] = None /\ Spared(s, i)

Resolved(i) ==
  /\ LeavesOthers(i)
  /\ Pending(i, {"resolve"})
  /\ errors' = errors
  /\ RowsKept(i)
  /\ \/ SameOnBothSides(i) /\ plan'[i] = None /\ agreed'[i] = plan[i].hash
     \/ /\ ~ SameOnBothSides(i) /\ agreed'[i] = agreed[i]
        /\ \/ \E s \in Sides : plan'[i] = Act("settle", Other(s), newst[s][i].hash)
           \/ \E c \in Hashes : /\ plan'[i] = Act("merge", "a", c)
                                /\ ReadOnly = {}
                                /\ \A s \in Sides : c \notin known[s][i]

(* A request of the action failed, before or after it took effect.         *)
Effect(i) ==
  \/ \A s \in Sides : Spared(s, i)
  \/ \E d \in Sides :
       /\ plan[i].dest = d
       /\ \/ /\ Pending(i, {"upload"} \cup UpdateOps) /\ d \notin ReadOnly
             /\ Pending(i, {"upload"}) => At(d, i) = None
             /\ Pending(i, UpdateOps) => At(d, i) # None
             /\ \E c \in Hashes : plan[i].hash = c /\ Written(d, i, c)
          \/ Pending(i, {"delete"}) /\ ~ Keeps(d) /\ Emptied(d, i)

LEMMA SidesCases == \A d \in Sides : \A s \in Sides : s = d \/ s = Other(d)
BY DEF Sides, Other

LEMMA FailPlain ==
  ASSUME TypeOK, NEW i \in Idents, pc = "run", Fail(i), UNCHANGED agreed,
         \A s \in Sides, j \in Idents \ {i} : Spared(s, j)
  PROVE  Failed(i) \/ (~ HasErrorCallback /\ Abort)
<1>1. CASE HasErrorCallback
  <2>1. \A s \in Sides, j \in Idents :
          newst'[s][j] = IF j = i THEN status[s][j] ELSE newst[s][j]
    BY <1>1, RollbackEffect DEF Fail, TypeOK
  <2> QED BY <1>1, <2>1 DEF Fail, Failed, LeavesOthers, TypeOK, prepVars
<1> QED BY <1>1 DEF Fail

LEMMA CurrentPlaced ==
  ASSUME PlacesInv, NEW i \in Idents, Current(i), plan[i].dest \in Sides
  PROVE  /\ newst[plan[i].dest][i].href = HrefOf[i]
         /\ ~ MadeUp(newst[plan[i].dest][i])
         /\ At(plan[i].dest, i) # None
         /\ At(plan[i].dest, i).etag = newst[plan[i].dest][i].etag
<1>1. newst[plan[i].dest][i] # None /\ ~ MadeUp(newst[plan[i].dest][i])
  BY NoneAssumption DEF Current, Holds, MadeUp
<1>2. newst[plan[i].dest][i].href = HrefOf[i]
  BY <1>1 DEF PlacesInv, RowsPlaced
<1> QED BY <1>1, <1>2 DEF Current, Holds, At

LEMMA RunPlain ==
  ASSUME TakesOrReverts, TypeOK, RowsInv, PlacesInv, NEW i \in Idents, RunAction(i)
  PROVE  /\ StorePlaced' /\ Grows
         /\ pc = "run" /\ plan[i] # None
         /\ \/ /\ \A s \in Sides, j \in Idents : Spared(s, j)
               /\ UNCHANGED agreed
               /\ Failed(i) \/ (~ HasErrorCallback /\ Abort)
            \/ Wrote(i)
            \/ Deleted(i)
            \/ TakenBack(i)
            \/ Skipped(i)
            \/ Resolved(i)
<1>0. pc = "run" /\ plan[i] # None /\ plan[i] \in Action /\ plan[i].dest \in Sides
      /\ plan[i].hash \in Hashes
  <2>1. pc = "run" /\ plan[i] # None
    BY DEF RunAction, Pending, RejectReadOnly, SkipReadOnly, RevertUpload, UploadAccepted,
           UploadRefused, RevertUpdate, UpdateAccepted, UpdateRefused, DeleteSkipped,
           DeleteAccepted, DeleteRefused, ResolveSame, ResolveUnsettled, ResolveTo
  <2> QED BY <2>1 DEF TypeOK, Action
<1>1. CASE UploadRefused(i) \/ UpdateRefused(i) \/ DeleteRefused(i) \/ ResolveUnsettled(i)
  <2>1. UNCHANGED storeVars /\ Fail(i)
    BY <1>1 DEF UploadRefused, UpdateRefused, DeleteRefused, ResolveUnsettled
  <2> QED BY <1>0, <2>1, FailPlain, SameStorePlaced DEF storeVars, PlacesInv
<1> PICK d \in Sides : d = plan[i].dest
  BY <1>0
<1> PICK c \in Hashes : c = plan[i].hash
  BY <1>0
<1>2. ASSUME Advance(i), NEW m, newst' = SetSide(newst, d, i, m)
      PROVE  /\ UNCHANGED <<status, pc, cur, todo, clean, quiet, errors>>
             /\ plan'[i] = Remaining(i) /\ \A j \in Idents \ {i} : plan'[j] = plan[j]
             /\ \A s \in Sides, j \in Idents :
                  newst'[s][j] = IF s = d /\ j = i THEN m ELSE newst[s][j]
  BY <1>2, SetSideEffect DEF Advance, TypeOK, prepVars
<1>3. CASE UploadAccepted(i)
  <2>1. Pending(i, {"upload"}) /\ HasFreshEtag(d) /\ Write(d, HrefOf[i], i, c)
        /\ Advance(i) /\ agreed' = [agreed EXCEPT ![i] = c] /\ d \notin ReadOnly
    BY <1>3 DEF UploadAccepted
  <2> DEFINE m == [href |-> HrefOf[i], hash |-> c, etag |-> ReturnedEtag(d, FreshEtag(d))]
  <2>2. newst' = SetSide(newst, d, i, m)
    BY <1>3 DEF UploadAccepted
  <2>3. Written(d, i, c) /\ At(d, i)'.etag = FreshEtag(d) /\ StorePlaced' /\ Grows
    BY <2>1, WritePlaced DEF PlacesInv
  <2>4. m # None /\ m.href = HrefOf[i] /\ m.hash = c /\ m.etag = ReturnedEtag(d, FreshEtag(d))
    <3>1. m \in Meta
      BY <2>1, FreshEtagLemma, ReturnedEtagTyped, HrefOfAssumption DEF Meta
    <3> QED BY <3>1, NoneIsNoMeta
  <2> HIDE DEF m
  <2>5. RowAfter(d, i, c)
    BY <1>2, <2>1, <2>2, <2>3, <2>4, SidesLemma DEF RowAfter, ReturnedEtag
  <2>6. plan'[i] = None
    BY <1>2, <2>1, <2>2 DEF Remaining, Pending
  <2>7. agreed'[i] = c /\ \A j \in Idents \ {i} : agreed'[j] = agreed[j]
    BY <2>1 DEF TypeOK
  <2>8. LeavesOthers(i)
    BY <1>2, <2>1, <2>2, <2>3, <2>7 DEF LeavesOthers, Written, SparesOthers
  <2>9. errors' = errors
    BY <1>2, <2>1, <2>2
  <2>10. Wrote(i)
    BY <2>1, <2>3, <2>5, <2>6, <2>7, <2>8, <2>9 DEF Wrote, Uploaded
  <2> QED BY <1>0, <2>3, <2>10
<1>4. CASE UpdateAccepted(i)
  <2>0. newst[d][i] # None /\ newst[d][i] \in Meta /\ d \notin ReadOnly
        /\ newst[d][i].href = HrefOf[i] /\ ~ MadeUp(newst[d][i])
    BY <1>4, CurrentPlaced DEF UpdateAccepted, Current, TypeOK, Tables
  <2>1. Pending(i, UpdateOps) /\ HasFreshEtag(d) /\ Write(d, HrefOf[i], i, c) /\ Advance(i)
        /\ At(d, i) # None
        /\ agreed' = IF plan[i].op = "merge" THEN agreed ELSE [agreed EXCEPT ![i] = c]
    BY <1>4, CurrentPlaced DEF UpdateAccepted
  <2> DEFINE m == UpdateRow(newst[d][i], ReturnedEtag(d, FreshEtag(d)))
  <2>2. newst' = SetSide(newst, d, i, m)
    BY <1>4 DEF UpdateAccepted
  <2>3. Written(d, i, c) /\ At(d, i)'.etag = FreshEtag(d) /\ StorePlaced' /\ Grows
    BY <2>1, WritePlaced DEF PlacesInv
  <2>4. m # None /\ m.href = HrefOf[i] /\ m.hash = newst[d][i].hash
        /\ m.etag = ReturnedEtag(d, FreshEtag(d))
    <3>1. m \in Meta
      BY <2>0, <2>1, FreshEtagLemma, ReturnedEtagTyped, UpdateRowTyped
    <3> QED BY <2>0, <3>1, NoneIsNoMeta DEF UpdateRow, Meta
  <2> HIDE DEF m
  <2>5. RowAfter(d, i, newst[d][i].hash)
    BY <1>2, <2>1, <2>2, <2>3, <2>4, SidesLemma DEF RowAfter, ReturnedEtag
  <2>6. plan'[i] = IF plan[i].op = "merge" THEN Act("settle", "b", c) ELSE None
    BY <1>2, <2>1, <2>2 DEF Remaining
  <2>7. agreed'[i] = (IF plan[i].op = "merge" THEN agreed[i] ELSE c)
        /\ \A j \in Idents \ {i} : agreed'[j] = agreed[j]
    BY <2>1 DEF TypeOK
  <2>8. LeavesOthers(i)
    BY <1>2, <2>1, <2>2, <2>3, <2>7 DEF LeavesOthers, Written, SparesOthers
  <2>9. errors' = errors
    BY <1>2, <2>1, <2>2
  <2>10. Updated(i, d, c) \/ Merged(i, d, c)
    BY <2>0, <2>1, <2>5, <2>6, <2>7 DEF Updated, Merged, Pending, UpdateOps
  <2>11. Wrote(i)
    BY <2>0, <2>3, <2>8, <2>9, <2>10 DEF Wrote
  <2> QED BY <1>0, <2>3, <2>11
<1>5. CASE DeleteAccepted(i)
  <2>1. newst' = RemoveIdent(newst, i) /\ Advance(i) /\ Pending(i, {"delete"})
        /\ UNCHANGED <<known, agreed>> /\ ~ Keeps(d)
    BY <1>5 DEF DeleteAccepted
  <2>2. store' = [store EXCEPT ![d] = Removed(store[d], HrefOf[i])]
    BY <1>5, CurrentPlaced DEF DeleteAccepted
  <2>3. Emptied(d, i) /\ StorePlaced' /\ Grows
    BY <2>1, <2>2, RemovePlaced DEF PlacesInv
  <2>4. \A s \in Sides, j \in Idents :
          newst'[s][j] = IF j = i THEN None ELSE newst[s][j]
    BY <2>1, RemoveEffect DEF TypeOK
  <2>5. plan'[i] = None /\ \A j \in Idents \ {i} : plan'[j] = plan[j]
    BY <2>1 DEF Advance, Remaining, Pending, TypeOK
  <2>6. LeavesOthers(i)
    BY <2>1, <2>3, <2>4, <2>5 DEF LeavesOthers, Emptied, SparesOthers, Advance, prepVars
  <2>7. Deleted(i)
    BY <2>1, <2>3, <2>4, <2>5, <2>6 DEF Deleted, Advance
  <2> QED BY <1>0, <2>3, <2>7
<1>6. CASE ResolveSame(i)
  <2>1. UNCHANGED <<store, known, status, newst, pc, cur, todo, clean, quiet, errors>>
        /\ Pending(i, {"resolve"}) /\ SameOnBothSides(i)
    BY <1>6 DEF ResolveSame, prepVars
  <2>2. plan'[i] = None /\ \A j \in Idents \ {i} : plan'[j] = plan[j]
    BY <1>6 DEF ResolveSame, TypeOK
  <2>3. agreed'[i] = plan[i].hash /\ \A j \in Idents \ {i} : agreed'[j] = agreed[j]
    BY <1>6 DEF ResolveSame, TypeOK
  <2>4. StorePlaced' /\ Grows /\ \A s \in Sides, j \in Idents : Spared(s, j)
    BY <2>1, SameStorePlaced DEF PlacesInv
  <2>5. Resolved(i)
    BY <2>1, <2>2, <2>3, <2>4 DEF Resolved, LeavesOthers, RowsKept
  <2> QED BY <1>0, <2>4, <2>5
<1>7. ASSUME NEW r \in Hashes, ResolveTo(i, r)
      PROVE  StorePlaced' /\ Grows /\ Resolved(i)
  <2>1. UNCHANGED <<store, known, agreed, status, newst, pc, cur, todo, clean, quiet, errors>>
        /\ Pending(i, {"resolve"}) /\ ~ SameOnBothSides(i)
    BY <1>7 DEF ResolveTo, prepVars, storeVars
  <2>2. \A j \in Idents \ {i} : plan'[j] = plan[j]
    BY <1>7 DEF ResolveTo, TypeOK
  <2>3. \/ plan'[i] = Act("settle", "b", newst["a"][i].hash)
        \/ plan'[i] = Act("settle", "a", newst["b"][i].hash)
        \/ /\ plan'[i] = Act("merge", "a", r)
           /\ r \notin known["a"][i] \cup known["b"][i] /\ ReadOnly = {}
    BY <1>7 DEF ResolveTo, TypeOK, Resolutions, TakesOrReverts
  <2>4. StorePlaced' /\ Grows /\ \A s \in Sides, j \in Idents : Spared(s, j)
    BY <2>1, SameStorePlaced DEF PlacesInv
  <2>5. \/ \E s \in Sides : plan'[i] = Act("settle", Other(s), newst[s][i].hash)
        \/ \E c2 \in Hashes : /\ plan'[i] = Act("merge", "a", c2)
                              /\ ReadOnly = {}
                              /\ \A s \in Sides : c2 \notin known[s][i]
    BY <2>3 DEF Sides, Other
  <2>6. Resolved(i)
    BY <2>1, <2>2, <2>4, <2>5 DEF Resolved, LeavesOthers, RowsKept
  <2> QED BY <2>4, <2>6
<1>8. ~ RejectReadOnly(i) /\ ~ SkipReadOnly(i)
  <2>1. partial \in PartialSync
    BY <1>0 DEF RowsInv, PrepareInv
  <2> QED BY <2>1 DEF RejectReadOnly, SkipReadOnly, TakesOrReverts
<1>9. CASE RevertUpload(i) \/ RevertUpdate(i)
  <2>1. /\ Pending(i, {"upload"} \cup UpdateOps) /\ d \in ReadOnly /\ Advance(i)
        /\ UNCHANGED storeVars
    BY <1>9 DEF RevertUpload, RevertUpdate, Pending
  <2> DEFINE m == [href |-> None, hash |-> c, etag |-> None]
  <2>2. newst' = SetSide(newst, d, i, m)
    BY <1>9 DEF RevertUpload, RevertUpdate
  <2>3. m # None /\ m.href = None /\ m.hash = c /\ m.etag = None
    <3>1. m \in Meta
      BY DEF Meta
    <3> QED BY <3>1, NoneIsNoMeta
  <2> HIDE DEF m
  <2>4. StorePlaced' /\ Grows /\ \A s \in Sides, j \in Idents : Spared(s, j)
    BY <2>1, SameStorePlaced DEF PlacesInv, storeVars
  <2>5. LeavesOthers(i) /\ errors' = errors /\ agreed'[i] = agreed[i]
    BY <1>2, <2>1, <2>2, <2>4 DEF LeavesOthers, storeVars
  <2>6. ~ Pending(i, {"merge"}) => plan'[i] = None
    BY <1>0, <1>2, <2>1, <2>2 DEF Remaining, Pending
  <2>7. MadeUp(newst'[d][i]) /\ newst'[d][i].hash = c /\ newst'[d][i].etag = None
        /\ newst'[Other(d)][i] = newst[Other(d)][i]
    BY <1>2, <2>1, <2>2, <2>3, SidesLemma DEF MadeUp
  <2>8. TakenBack(i)
    BY <2>1, <2>4, <2>5, <2>6, <2>7 DEF TakenBack
  <2> QED BY <1>0, <2>4, <2>8
<1>10. CASE DeleteSkipped(i)
  <2>1. newst' = RemoveIdent(newst, i) /\ Advance(i) /\ Pending(i, {"delete"}) /\ Keeps(d)
        /\ UNCHANGED storeVars
    BY <1>10 DEF DeleteSkipped
  <2>2. StorePlaced' /\ Grows /\ \A s \in Sides, j \in Idents : Spared(s, j)
    BY <2>1, SameStorePlaced DEF PlacesInv, storeVars
  <2>3. \A s \in Sides, j \in Idents :
          newst'[s][j] = IF j = i THEN None ELSE newst[s][j]
    BY <2>1, RemoveEffect DEF TypeOK
  <2>4. plan'[i] = None /\ \A j \in Idents \ {i} : plan'[j] = plan[j]
    BY <2>1 DEF Advance, Remaining, Pending, TypeOK
  <2>5. LeavesOthers(i)
    BY <2>1, <2>2, <2>3, <2>4 DEF LeavesOthers, Advance, prepVars, storeVars
  <2>6. Skipped(i)
    BY <2>1, <2>2, <2>3, <2>4, <2>5 DEF Skipped, Advance, storeVars
  <2> QED BY <1>0, <2>2, <2>6
<1> QED BY <1>0, <1>1, <1>3, <1>4, <1>5, <1>6, <1>7, <1>8, <1>9, <1>10 DEF RunAction

LEMMA RequestPlain ==
  ASSUME TakesOrReverts, TypeOK, PlacesInv, NEW i \in Idents,
         NEW effect \in BOOLEAN, RequestFails(i, effect)
  PROVE  /\ StorePlaced' /\ Grows
         /\ pc = "run" /\ plan[i] # None
         /\ SparesOthers(plan[i].dest, i)
         /\ UNCHANGED agreed /\ faults' # 0
         /\ Effect(i)
         /\ Failed(i) \/ (~ HasErrorCallback /\ Abort)
<1>0. pc = "run" /\ plan[i] # None /\ plan[i].dest \in Sides /\ plan[i].hash \in Hashes
      /\ UNCHANGED agreed /\ Fail(i) /\ faults' # 0
  BY DEF RequestFails, Pending, TypeOK, Action
<1> PICK d \in Sides : d = plan[i].dest
  BY <1>0
<1> PICK c \in Hashes : c = plan[i].hash
  BY <1>0
<1>1. StorePlaced' /\ Grows /\ SparesOthers(d, i) /\ Effect(i)
  <2>1. CASE UNCHANGED <<store, known>>
    BY <2>1, SameStorePlaced DEF Effect, SparesOthers, PlacesInv
  <2>2. ASSUME Pending(i, {"upload"}), d \notin ReadOnly, At(d, i) = None, HasFreshEtag(d),
               Write(d, HrefOf[i], i, c)
        PROVE  StorePlaced' /\ Grows /\ SparesOthers(d, i) /\ Effect(i)
    <3>1. Written(d, i, c) /\ StorePlaced' /\ Grows
      BY <2>2, WritePlaced DEF PlacesInv
    <3> QED BY <2>2, <3>1 DEF Effect, Written, Pending, UpdateOps
  <2>3. ASSUME Pending(i, UpdateOps), d \notin ReadOnly, At(d, i) # None, HasFreshEtag(d),
               Write(d, HrefOf[i], i, c)
        PROVE  StorePlaced' /\ Grows /\ SparesOthers(d, i) /\ Effect(i)
    <3>1. Written(d, i, c) /\ StorePlaced' /\ Grows
      BY <2>3, WritePlaced DEF PlacesInv
    <3> QED BY <2>3, <3>1 DEF Effect, Written, Pending, UpdateOps
  <2>4. ASSUME Pending(i, {"delete"}), ~ Keeps(d), UNCHANGED known,
               store' = [store EXCEPT ![d] = Removed(store[d], HrefOf[i])]
        PROVE  StorePlaced' /\ Grows /\ SparesOthers(d, i) /\ Effect(i)
    <3>1. Emptied(d, i) /\ StorePlaced' /\ Grows
      BY <2>4, RemovePlaced DEF PlacesInv
    <3> QED BY <2>4, <3>1 DEF Effect, Emptied
  <2>5. Current(i) => newst[d][i].href = HrefOf[i] /\ At(d, i) # None
    BY CurrentPlaced
  <2> QED BY <2>1, <2>2, <2>3, <2>4, <2>5 DEF RequestFails, At
<1>2. \A s \in Sides, j \in Idents \ {i} : Spared(s, j)
  BY <1>1 DEF SparesOthers
<1> QED BY <1>0, <1>1, <1>2, FailPlain

-----------------------------------------------------------------------------
LEMMA InitPlaces ==
  ASSUME Init
  PROVE  /\ PlacesInv
         /\ \A s \in Sides, i \in Idents :
              IF i \in InitialItems
                THEN /\ At(s, i) # None /\ status[s][i] # None
                     /\ At(s, i).hash = FirstHash /\ At(s, i).etag = FirstEtag[i]
                     /\ status[s][i].hash = FirstHash /\ status[s][i].etag = FirstEtag[i]
                     /\ ~ MadeUp(status[s][i])
                ELSE At(s, i) = None /\ status[s][i] = None
         /\ newst = EmptyTable /\ pc = "idle" /\ quiet = 0 /\ ~ clean
<1>0. newst = EmptyTable /\ pc = "idle" /\ quiet = 0 /\ ~ clean
  BY DEF Init
<1>1. InitialItems \subseteq Idents /\ FirstHash \in Hashes /\ FirstEtag \in [Idents -> Etags]
  BY InitialAssumption
<1>2. ASSUME NEW s \in Sides, NEW h \in Hrefs,
             \E i \in InitialItems : HrefOf[i] = h
      PROVE  /\ store[s][h] # None
             /\ store[s][h].ident \in InitialItems /\ HrefOf[store[s][h].ident] = h
             /\ store[s][h].hash = FirstHash
             /\ store[s][h].etag = FirstEtag[store[s][h].ident]
  <2> DEFINE j == CHOOSE i \in InitialItems : HrefOf[i] = h
             new == [ident |-> j, hash |-> FirstHash, etag |-> FirstEtag[j]]
  <2>1. j \in InitialItems /\ HrefOf[j] = h
    BY <1>2
  <2>2. store[s][h] = new
    BY <1>2 DEF Init
  <2> HIDE DEF j
  <2>3. new \in Item /\ new # None
    BY <1>1, <2>1, NoneAssumption DEF Item
  <2> QED BY <2>1, <2>2, <2>3
<1>3. ASSUME NEW s \in Sides, NEW h \in Hrefs, ~ \E i \in InitialItems : HrefOf[i] = h
      PROVE  store[s][h] = None
  BY <1>3 DEF Init
<1>4. ASSUME NEW s \in Sides, NEW i \in Idents
      PROVE  IF i \in InitialItems
               THEN status[s][i] = [href |-> HrefOf[i], hash |-> FirstHash, etag |-> FirstEtag[i]]
               ELSE status[s][i] = None
  BY DEF Init
<1>5. ASSUME NEW s \in Sides, NEW i \in InitialItems
      PROVE  /\ status[s][i] # None /\ status[s][i].href = HrefOf[i]
             /\ status[s][i].hash = FirstHash /\ status[s][i].etag = FirstEtag[i]
             /\ ~ MadeUp(status[s][i]) /\ known[s][i] = {FirstHash}
  <2> DEFINE m == [href |-> HrefOf[i], hash |-> FirstHash, etag |-> FirstEtag[i]]
  <2>1. m \in Meta
    BY <1>1, HrefOfAssumption DEF Meta
  <2>2. status[s][i] = m
    BY <1>1, <1>4
  <2>3. known[s][i] = {FirstHash}
    BY <1>1 DEF Init
  <2> QED BY <1>1, <2>1, <2>2, <2>3, NoneIsNoMeta, NoneAssumption, HrefOfAssumption DEF MadeUp
<1>6. StorePlaced
  BY <1>2, <1>3, <1>5 DEF StorePlaced
<1>7. RowsPlaced(status)
  BY <1>4, <1>5 DEF RowsPlaced
<1>8. RowsPlaced(newst)
  BY <1>0 DEF RowsPlaced, EmptyTable
<1>9. ASSUME NEW s \in Sides, NEW i \in Idents
      PROVE  IF i \in InitialItems
               THEN /\ At(s, i) # None /\ At(s, i).hash = FirstHash
                    /\ At(s, i).etag = FirstEtag[i]
               ELSE At(s, i) = None
  <2>1. HrefOf[i] \in Hrefs /\ \A j \in InitialItems : HrefOf[j] = HrefOf[i] => j = i
    BY <1>1, HrefOfAssumption
  <2> QED BY <1>2, <1>3, <2>1 DEF At
<1> QED BY <1>0, <1>4, <1>5, <1>6, <1>7, <1>8, <1>9 DEF PlacesInv

LEMMA RowsMadePlaced ==
  ASSUME Grows, PlacesInv,
         \A s \in Sides, i \in Idents : newst'[s][i] # None =>
           \/ newst'[s][i] = newst[s][i]
           \/ newst'[s][i] = status[s][i]
           \/ MadeUp(newst'[s][i]) /\ s \in ReadOnly /\ newst'[s][i].etag = None
           \/ newst'[s][i].href = HrefOf[i] /\ newst'[s][i].hash \in known'[s][i]
  PROVE  RowsPlaced(newst)'
<1> SUFFICES ASSUME NEW s \in Sides, NEW i \in Idents, newst'[s][i] # None
             PROVE  IF MadeUp(newst'[s][i]) THEN s \in ReadOnly /\ newst'[s][i].etag = None
                    ELSE newst'[s][i].href = HrefOf[i] /\ newst'[s][i].hash \in known'[s][i]
  BY DEF RowsPlaced
<1>1. known[s][i] \subseteq known'[s][i]
  BY DEF Grows
<1>2. newst'[s][i].href = HrefOf[i] => ~ MadeUp(newst'[s][i])
  BY NoneAssumption, HrefOfAssumption DEF MadeUp
<1>3. CASE newst'[s][i] = newst[s][i]
  BY <1>1, <1>3 DEF PlacesInv, RowsPlaced
<1>4. CASE newst'[s][i] = status[s][i]
  BY <1>1, <1>4 DEF PlacesInv, RowsPlaced
<1> QED BY <1>2, <1>3, <1>4

LEMMA OutcomePlaced ==
  ASSUME PlacesInv, Grows, StorePlaced', NEW i \in Idents,
         Failed(i) \/ Wrote(i) \/ Deleted(i) \/ TakenBack(i) \/ Skipped(i) \/ Resolved(i)
  PROVE  PlacesInv'
<1>1. UNCHANGED status /\ LeavesOthers(i)
  BY DEF Failed, Wrote, Deleted, TakenBack, Skipped, Resolved, LeavesOthers
<1>2. RowsPlaced(status)'
  BY <1>1, RowsStayPlaced DEF PlacesInv, RowsPlaced
<1>3. ASSUME NEW s \in Sides, newst'[s][i] # None
      PROVE  \/ newst'[s][i] = newst[s][i]
             \/ newst'[s][i] = status[s][i]
             \/ MadeUp(newst'[s][i]) /\ s \in ReadOnly /\ newst'[s][i].etag = None
             \/ newst'[s][i].href = HrefOf[i] /\ newst'[s][i].hash \in known'[s][i]
  <2>1. CASE Failed(i) \/ Deleted(i) \/ Skipped(i) \/ Resolved(i)
    BY <1>3, <2>1 DEF Failed, Deleted, Skipped, Resolved, RowsKept
  <2>2. CASE Wrote(i)
    <3>1. PICK d \in Sides, c \in Hashes :
            /\ Written(d, i, c)
            /\ Uploaded(i, d, c) \/ Updated(i, d, c) \/ Merged(i, d, c)
      BY <2>2 DEF Wrote
    <3>2. newst'[Other(d)][i] = newst[Other(d)][i] /\ newst'[d][i].href = HrefOf[i]
      BY <3>1 DEF Uploaded, Updated, Merged, RowAfter
    <3>3. newst'[d][i].hash \in known'[d][i]
      <4>1. known'[d][i] = known[d][i] \cup {c}
        BY <3>1 DEF Written
      <4>2. newst[d][i] # None /\ ~ MadeUp(newst[d][i]) => newst[d][i].hash \in known[d][i]
        BY DEF PlacesInv, RowsPlaced
      <4> QED BY <3>1, <4>1, <4>2 DEF Uploaded, Updated, Merged, RowAfter
    <3>4. s = d \/ s = Other(d)
      BY SidesCases
    <3> QED BY <3>2, <3>3, <3>4
  <2>3. CASE TakenBack(i)
    <3>1. PICK d \in ReadOnly : MadeUp(newst'[d][i]) /\ newst'[d][i].etag = None
                                /\ newst'[Other(d)][i] = newst[Other(d)][i]
      BY <2>3 DEF TakenBack
    <3>2. s = d \/ s = Other(d)
      BY SidesCases, OptionsAssumption
    <3> QED BY <3>1, <3>2
  <2> QED BY <2>1, <2>2, <2>3
<1>4. RowsPlaced(newst)'
  BY <1>1, <1>3, RowsMadePlaced DEF LeavesOthers
<1> QED BY <1>2, <1>4 DEF PlacesInv

LEMMA AbortPlaced ==
  ASSUME PlacesInv, Grows, StorePlaced', Abort
  PROVE  PlacesInv'
<1>1. RowsPlaced(status)'
  BY RowsStayPlaced DEF PlacesInv, RowsPlaced, Abort
<1>2. RowsPlaced(newst)'
  BY DEF Abort, EndOfSync, RowsPlaced, EmptyTable
<1> QED BY <1>1, <1>2 DEF PlacesInv

(* The row get_multi() yields.                                             *)
LEMMA FetchPlaced ==
  ASSUME TypeOK, StorePlaced, NEW h \in Hrefs, Fetch(h)
  PROVE  \E j \in Idents :
           /\ h = HrefOf[j] /\ At(cur, j) # None
           /\ newst[cur][j] = None /\ newst'[cur][j] # None
           /\ newst'[cur][j].href = h
           /\ newst'[cur][j].hash = At(cur, j).hash
           /\ newst'[cur][j].etag = At(cur, j).etag
           /\ \A s \in Sides, i \in Idents : s # cur \/ i # j => newst'[s][i] = newst[s][i]
<1> DEFINE j == store[cur][h].ident
           m == [href |-> h, hash |-> store[cur][h].hash, etag |-> store[cur][h].etag]
<1>1. cur \in Sides /\ store[cur][h] # None /\ newst[cur][j] = None
  BY DEF Fetch, TypeOK
<1>2. j \in Idents /\ h = HrefOf[j] /\ store[cur][h] = At(cur, j)
  BY <1>1, AtPlaced
<1>3. m \in Meta /\ m # None
  BY <1>1, <1>2, AtFacts, NoneIsNoMeta DEF Meta, Item
<1>4. newst' = SetSide(newst, cur, j, m)
  BY DEF Fetch
<1>5. m.href = h /\ m.hash = At(cur, j).hash /\ m.etag = At(cur, j).etag
  BY <1>2
<1> HIDE DEF j, m
<1>6. \A s \in Sides, i \in Idents :
        newst'[s][i] = IF s = cur /\ i = j THEN m ELSE newst[s][i]
  BY <1>1, <1>2, <1>4, SetSideEffect DEF TypeOK
<1> QED BY <1>1, <1>2, <1>3, <1>5, <1>6

LEMMA ListRows ==
  ASSUME TypeOK, List
  PROVE  \A s \in Sides, i \in Idents :
           newst'[s][i] = IF s # cur THEN newst[s][i]
                          ELSE IF Unmodified(cur, i) THEN status[cur][i] ELSE None
BY DEF List, TypeOK, Tables

LEMMA PlacesStep ==
  ASSUME TakesOrReverts, TypeOK, RowsInv, PlacesInv, [Next]_vars
  PROVE  PlacesInv'
<1>0. ASSUME UNCHANGED <<store, known, status, newst>> PROVE PlacesInv'
  BY <1>0 DEF PlacesInv, StorePlaced, RowsPlaced
<1>1. CASE Editor
  BY <1>1, EditorPlain
<1>2. CASE \E f \in BOOLEAN, p \in PartialSync : StartSync(f, p)
  BY <1>0, <1>2 DEF StartSync, storeVars
<1>3. ASSUME UNCHANGED storeVars, Abort PROVE PlacesInv'
  BY <1>3, AbortPlaced, SameStorePlaced DEF storeVars, PlacesInv
<1>4. ASSUME UNCHANGED <<storeVars, status>>,
             \A s \in Sides, i \in Idents : newst'[s][i] # None =>
               \/ newst'[s][i] = newst[s][i]
               \/ newst'[s][i] = status[s][i]
               \/ newst'[s][i].href = HrefOf[i] /\ newst'[s][i].hash \in known[s][i]
      PROVE  PlacesInv'
  <2>1. StorePlaced' /\ Grows
    BY <1>4, SameStorePlaced DEF storeVars, PlacesInv
  <2>2. RowsPlaced(newst)'
    BY <1>4, <2>1, RowsMadePlaced DEF storeVars
  <2>3. RowsPlaced(status)'
    BY <1>4 DEF PlacesInv, RowsPlaced, storeVars
  <2> QED BY <2>1, <2>2, <2>3 DEF PlacesInv
<1>5. CASE Prepare
  <2>1. CASE List
    BY <1>4, <2>1, ListRows DEF List
  <2>2. ASSUME NEW h \in Hrefs, Fetch(h) PROVE PlacesInv'
    <3>1. PICK j \in Idents :
            /\ h = HrefOf[j] /\ At(cur, j) # None
            /\ newst'[cur][j].href = h /\ newst'[cur][j].hash = At(cur, j).hash
            /\ \A s \in Sides, i \in Idents : s # cur \/ i # j => newst'[s][i] = newst[s][i]
      BY <2>2, FetchPlaced DEF PlacesInv
    <3>2. At(cur, j).hash \in known[cur][j]
      BY <3>1, AtPlaced DEF PlacesInv, TypeOK
    <3>3. UNCHANGED <<storeVars, status>>
      BY <2>2 DEF Fetch
    <3> QED BY <1>4, <3>1, <3>2, <3>3
  <2>3. ASSUME NEW h \in Hrefs, FetchFails(h) PROVE PlacesInv'
    BY <1>3, <2>3 DEF FetchFails
  <2>4. CASE NextSide
    BY <1>0, <2>4 DEF NextSide, storeVars
  <2>5. CASE RefuseEmpty
    BY <1>3, <2>5 DEF RefuseEmpty
  <2>6. CASE Plan
    BY <1>0, <2>6 DEF Plan, storeVars
  <2> QED BY <1>5, <2>1, <2>2, <2>3, <2>4, <2>5, <2>6 DEF Prepare
<1>6. ASSUME NEW i \in Idents, RunAction(i) PROVE PlacesInv'
  BY <1>6, RunPlain, OutcomePlaced, AbortPlaced
<1>7. CASE Commit
  <2>1. StorePlaced' /\ RowsPlaced(status)' /\ RowsPlaced(newst)'
    BY <1>7 DEF Commit, EndOfSync, storeVars, PlacesInv, StorePlaced, RowsPlaced, EmptyTable
  <2> QED BY <2>1 DEF PlacesInv
<1>8. CASE CommitRejected
  BY <1>3, <1>8 DEF CommitRejected
<1>9. ASSUME NEW i \in Idents, NEW effect \in BOOLEAN, RequestFails(i, effect) PROVE PlacesInv'
  BY <1>9, RequestPlain, OutcomePlaced, AbortPlaced
<1>10. CASE Interrupted
  BY <1>3, <1>10 DEF Interrupted
<1>11. CASE UNCHANGED vars
  BY <1>0, <1>11 DEF vars
<1> QED BY <1>1, <1>2, <1>5, <1>6, <1>7, <1>8, <1>9, <1>10, <1>11 DEF Next, Progress, Faults

-----------------------------------------------------------------------------
(* A sync that compares the item with row m would call it unchanged.       *)
LooksSame(m, s, i) ==
  m # None /\ At(s, i) # None /\ (At(s, i).etag = m.etag \/ At(s, i).hash = m.hash)

SameHash(i) == At("a", i).hash = At("b", i).hash

(* The item row m describes holds content c, or looks changed.             *)
Holding(m, s, i, c) == LooksSame(m, s, i) => At(s, i).hash = c

(* A made up row says what the other side holds, or looks changed from.    *)
Mirrors(t, s, i) ==
  MadeUp(t[s][i]) =>
    LET m == t[Other(s)][i] IN
    m # None /\ m.hash = t[s][i].hash /\ Holding(m, Other(s), i, m.hash)

(* If both sides of an ident look unchanged, they hold the same content.   *)
Agree(t, i) ==
  /\ LooksSame(t["a"][i], "a", i) /\ LooksSame(t["b"][i], "b", i) => SameHash(i)
  /\ \A s \in Sides : Mirrors(t, s, i)

(* A change to content c is one for good: the side does not look unchanged *)
(* later on.  A made up row does, when the side is given its content.      *)
Differs(s, i, c) ==
  IF MadeUp(status[s][i]) THEN c # status[s][i].hash ELSE ~ LooksSame(status[s][i], s, i)

(* A row that was prefetched: its etag is a new one, and if its hash is    *)
(* new as well, the old row does not look unchanged.                       *)
ReadNow(s, i) ==
  \/ newst[s][i] = status[s][i]
  \/ /\ Holding(newst[s][i], s, i, newst[s][i].hash)
     /\ status[s][i] # None =>
          /\ newst[s][i].etag # status[s][i].etag
          /\ newst[s][i].hash # status[s][i].hash => Differs(s, i, newst[s][i].hash)

RunAgree(i) ==
  /\ plan[i] = None => Agree(newst, i)
  /\ plan[i] # None => \A s \in Sides : ~ MadeUp(newst[s][i])
  /\ Pending(i, {"update", "upload", "settle"}) =>
       \A s \in Sides : plan[i].dest = Other(s) =>
         /\ Differs(s, i, plan[i].hash)
         /\ Holding(newst[s][i], s, i, plan[i].hash)
         /\ ReadOnly # {} => newst[s][i].hash = plan[i].hash
  /\ Pending(i, {"resolve"}) =>
       \A s \in Sides : /\ Differs(s, i, newst[s][i].hash)
                        /\ Holding(newst[s][i], s, i, newst[s][i].hash)
  /\ Pending(i, {"merge"}) =>
       /\ ReadOnly = {} /\ plan[i].dest = "a"
       /\ \A s \in Sides : ~ LooksSame(status[s][i], s, i)
       /\ \A s \in Sides : status[s][i] # None => plan[i].hash # status[s][i].hash

(* What is still to be prefetched has not the etag of its row.             *)
ToFetch ==
  pc = "fetch" => \A i \in Idents :
    HrefOf[i] \in todo /\ At(cur, i) # None /\ status[cur][i] # None =>
      At(cur, i).etag # status[cur][i].etag

AgreeInv ==
  /\ \A i \in Idents : Agree(status, i)
  /\ ToFetch
  /\ pc \in {"list", "fetch"} => \A s \in Sides, i \in Idents :
       newst[s][i] # None => ReadNow(s, i) /\ ~ MadeUp(newst[s][i])
  /\ pc = "run" => \A i \in Idents : RunAgree(i)

(* LooksSame after a step, for a row m from before it.                     *)
LooksNext(m, s, i) ==
  /\ m # None /\ At(s, i)' # None
  /\ At(s, i)'.etag = m.etag \/ At(s, i)'.hash = m.hash

(* Agree after a step, for rows t from before it.                          *)
AgreeNext(t, i) ==
  /\ LooksNext(t["a"][i], "a", i) /\ LooksNext(t["b"][i], "b", i) =>
       At("a", i)'.hash = At("b", i)'.hash
  /\ \A s \in Sides : MadeUp(t[s][i]) =>
       LET m == t[Other(s)][i] IN
       /\ m # None /\ m.hash = t[s][i].hash
       /\ LooksNext(m, Other(s), i) => At(Other(s), i)'.hash = m.hash

(* The item of i on side s was not written by sync().                      *)
Calm(s, i) ==
  At(s, i)' # None =>
    \/ At(s, i)' = At(s, i)
    \/ /\ At(s, i)'.etag \notin EtagsInUse(s)
       /\ \/ At(s, i)'.hash \notin known[s][i]
          \/ At(s, i) # None /\ At(s, i)'.hash = At(s, i).hash

LEMMA CalmSteps ==
  /\ \A s \in Sides, i \in Idents : Spared(s, i) => Calm(s, i)
  /\ EditStep => \A s \in Sides, i \in Idents : Calm(s, i)
<1>1. ASSUME NEW s \in Sides, NEW i \in Idents, Spared(s, i) PROVE Calm(s, i)
  BY <1>1 DEF Spared, Calm
<1>2. ASSUME EditStep, NEW s \in Sides, NEW i \in Idents PROVE Calm(s, i)
  <2>1. PICK d \in Sides, j \in Idents : EditOf(d, j)
    BY <1>2 DEF EditStep
  <2>2. CASE s = d /\ i = j
    BY <2>1, <2>2 DEF EditOf, Calm
  <2>3. CASE ~ (s = d /\ i = j)
    BY <1>1, <2>1, <2>3 DEF EditOf, SparesOthers
  <2> QED BY <2>2, <2>3
<1> QED BY <1>1, <1>2

(* Rows of the two tables.                                                 *)
LEMMA TableRows ==
  ASSUME TypeOK, PlacesInv, NEW s \in Sides, NEW i \in Idents
  PROVE  /\ status[s][i] # None =>
              /\ status[s][i].etag \in EtagsInUse(s)
              /\ ~ MadeUp(status[s][i]) => status[s][i].hash \in known[s][i]
              /\ MadeUp(status[s][i]) => s \in ReadOnly /\ status[s][i].etag = None
         /\ newst[s][i] # None =>
              /\ newst[s][i].etag \in EtagsInUse(s)
              /\ ~ MadeUp(newst[s][i]) => newst[s][i].hash \in known[s][i]
              /\ MadeUp(newst[s][i]) => s \in ReadOnly /\ newst[s][i].etag = None
BY InUse DEF PlacesInv, RowsPlaced

(* At most one row of an ident is made up, and it agrees with the other.   *)
LEMMA MadeUpAgrees ==
  ASSUME TakesOrReverts, NEW t, RowsPlaced(t), NEW s \in Sides, NEW i \in Idents, MadeUp(t[s][i])
  PROVE  /\ s \in ReadOnly /\ t[s][i].etag = None
         /\ Other(s) \notin ReadOnly /\ ~ MadeUp(t[Other(s)][i])
<1>1. s \in ReadOnly /\ t[s][i].etag = None
  BY DEF RowsPlaced, MadeUp
<1>2. Other(s) \in Sides /\ Other(s) \notin ReadOnly
  BY <1>1, OptionsAssumption DEF TakesOrReverts, Sides, Other
<1>3. ~ MadeUp(t[Other(s)][i])
  BY <1>2 DEF RowsPlaced, MadeUp
<1> QED BY <1>1, <1>2, <1>3

LEMMA NoNewLooks ==
  ASSUME NEW s \in Sides, NEW i \in Idents, Calm(s, i), NEW m, LooksNext(m, s, i),
         m.etag \in EtagsInUse(s), m.hash \in known[s][i]
  PROVE  LooksSame(m, s, i) /\ At(s, i)'.hash = At(s, i).hash
BY DEF Calm, LooksNext, LooksSame

(* What the invariants say of an ident outlasts steps that leave it calm.  *)
LEMMA RowsCalm ==
  ASSUME TypeOK, NEW i \in Idents, \A s \in Sides : Calm(s, i), NEW t, RowsPlaced(t),
         \A s \in Sides : t[s][i] # None => t[s][i].etag \in EtagsInUse(s)
  PROVE  \A s \in Sides :
           ~ MadeUp(t[s][i]) /\ LooksNext(t[s][i], s, i) =>
             LooksSame(t[s][i], s, i) /\ At(s, i)'.hash = At(s, i).hash
<1> SUFFICES ASSUME NEW s \in Sides, ~ MadeUp(t[s][i]), LooksNext(t[s][i], s, i)
             PROVE  LooksSame(t[s][i], s, i) /\ At(s, i)'.hash = At(s, i).hash
  OBVIOUS
<1>1. t[s][i] # None
  BY DEF LooksNext
<1>2. t[s][i].hash \in known[s][i]
  BY <1>1 DEF RowsPlaced
<1> QED BY <1>1, <1>2, NoNewLooks

(* Where a row is made up, agreement follows from what the other one says. *)
LEMMA MirrorsAgree ==
  ASSUME TypeOK, TypeOK', NEW i \in Idents, NEW t, RowsPlaced(t), NEW s \in Sides, MadeUp(t[s][i]),
         LooksNext(t["a"][i], "a", i), LooksNext(t["b"][i], "b", i),
         t[Other(s)][i].hash = t[s][i].hash,
         LooksNext(t[Other(s)][i], Other(s), i) =>
           At(Other(s), i)'.hash = t[Other(s)][i].hash
  PROVE  At("a", i)'.hash = At("b", i)'.hash
<1>1. LooksNext(t[s][i], s, i) /\ LooksNext(t[Other(s)][i], Other(s), i)
  BY DEF Sides, Other
<1>2. t[s][i].etag = None
  BY DEF RowsPlaced, MadeUp
<1>3. At(s, i)'.etag # None
  BY <1>1, AtTyped DEF LooksNext
<1>4. At(s, i)'.hash = t[s][i].hash
  BY <1>1, <1>2, <1>3 DEF LooksNext
<1> QED BY <1>1, <1>4 DEF Sides, Other

LEMMA AgreeKept ==
  ASSUME TakesOrReverts, TypeOK, TypeOK', NEW i \in Idents, \A s \in Sides : Calm(s, i),
         NEW t, RowsPlaced(t),
         \A s \in Sides : t[s][i] # None => t[s][i].etag \in EtagsInUse(s),
         Agree(t, i)
  PROVE  AgreeNext(t, i)
<1>1. ASSUME NEW s \in Sides, MadeUp(t[s][i])
      PROVE  /\ t[Other(s)][i] # None /\ t[Other(s)][i].hash = t[s][i].hash
             /\ LooksNext(t[Other(s)][i], Other(s), i) =>
                  At(Other(s), i)'.hash = t[Other(s)][i].hash
  <2>1. Other(s) \in Sides /\ ~ MadeUp(t[Other(s)][i])
    BY <1>1, MadeUpAgrees, SidesLemma
  <2>2. Mirrors(t, s, i)
    BY DEF Agree
  <2> QED BY <1>1, <2>1, <2>2, RowsCalm DEF Mirrors, Holding
<1>2. ASSUME LooksNext(t["a"][i], "a", i), LooksNext(t["b"][i], "b", i)
      PROVE  At("a", i)'.hash = At("b", i)'.hash
  <2>1. CASE \E s \in Sides : MadeUp(t[s][i])
    BY <1>1, <1>2, <2>1, MirrorsAgree
  <2>2. CASE \A s \in Sides : ~ MadeUp(t[s][i])
    <3>1. \A s \in Sides : LooksSame(t[s][i], s, i) /\ At(s, i)'.hash = At(s, i).hash
      BY <1>2, <2>2, RowsCalm DEF Sides
    <3> QED BY <3>1 DEF Agree, SameHash, Sides
  <2> QED BY <2>1, <2>2
<1> QED BY <1>1, <1>2 DEF AgreeNext

LEMMA AgreeThen ==
  ASSUME NEW i \in Idents
  PROVE  /\ (\A s \in Sides : status'[s][i] = status[s][i]) =>
              (Agree(status, i)' <=> AgreeNext(status, i))
         /\ (\A s \in Sides : newst'[s][i] = newst[s][i]) =>
              (Agree(newst, i)' <=> AgreeNext(newst, i))
BY SidesLemma DEF Agree, AgreeNext, Mirrors, Holding, LooksSame, LooksNext, SameHash, Sides

LEMMA AgreeCalm ==
  ASSUME TakesOrReverts, TypeOK, TypeOK', PlacesInv, NEW i \in Idents,
         \A s \in Sides : Calm(s, i),
         \A s \in Sides : status'[s][i] = status[s][i], Agree(status, i)
  PROVE  Agree(status, i)'
<1>1. AgreeNext(status, i)
  BY AgreeKept, TableRows DEF PlacesInv
<1> QED BY <1>1, AgreeThen

LEMMA DiffersCalm ==
  ASSUME TypeOK, PlacesInv, NEW i \in Idents, NEW s \in Sides, Calm(s, i),
         \A s2 \in Sides : status'[s2][i] = status[s2][i]
  PROVE  ~ MadeUp(status[s][i]) /\ ~ LooksSame(status[s][i], s, i) =>
           ~ LooksSame(status[s][i], s, i)'
<1> SUFFICES ASSUME ~ MadeUp(status[s][i]), ~ LooksSame(status[s][i], s, i),
                    LooksNext(status[s][i], s, i)
             PROVE  FALSE
  BY DEF LooksSame, LooksNext
<1>1. status[s][i] # None
  BY DEF LooksNext
<1> QED BY <1>1, NoNewLooks, TableRows

LEMMA RunAgreeCalm ==
  ASSUME TakesOrReverts, TypeOK, TypeOK', PlacesInv, NEW i \in Idents, pc = "run",
         \A s \in Sides : Calm(s, i),
         \A s \in Sides : status'[s][i] = status[s][i] /\ newst'[s][i] = newst[s][i],
         plan'[i] = plan[i], RunAgree(i)
  PROVE  RunAgree(i)'
<1>1. ASSUME NEW s \in Sides
      PROVE  ~ MadeUp(status[s][i]) /\ ~ LooksSame(status[s][i], s, i) =>
               ~ LooksSame(status[s][i], s, i)'
  BY DiffersCalm
<1>2. ASSUME NEW s \in Sides, ~ MadeUp(newst[s][i]), LooksSame(newst[s][i], s, i)'
      PROVE  LooksSame(newst[s][i], s, i) /\ At(s, i)'.hash = At(s, i).hash
  <2>1. LooksNext(newst[s][i], s, i)
    BY <1>2 DEF LooksSame, LooksNext
  <2> QED BY <1>2, <2>1, RowsCalm, TableRows DEF PlacesInv
<1>3. plan[i] = None => Agree(newst, i)'
  BY AgreeKept, AgreeThen, TableRows DEF PlacesInv, RunAgree
<1>4. \A ops : Pending(i, ops)' => Pending(i, ops)
  BY DEF Pending
<1>5. ASSUME Pending(i, {"update", "upload", "settle"}), NEW s \in Sides, plan[i].dest = Other(s)
      PROVE  /\ Differs(s, i, plan[i].hash)'
             /\ Holding(newst[s][i], s, i, plan[i].hash)'
             /\ ReadOnly # {} => newst'[s][i].hash = plan'[i].hash
  <2>1. Differs(s, i, plan[i].hash) /\ Holding(newst[s][i], s, i, plan[i].hash)
        /\ ~ MadeUp(newst[s][i]) /\ (ReadOnly # {} => newst[s][i].hash = plan[i].hash)
    BY <1>5 DEF RunAgree, Pending
  <2>3. Differs(s, i, plan[i].hash)'
    BY <1>1, <2>1 DEF Differs
  <2>4. Holding(newst[s][i], s, i, plan[i].hash)'
    BY <1>2, <2>1 DEF Holding
  <2> QED BY <2>1, <2>3, <2>4
<1>6. ASSUME Pending(i, {"resolve"}), NEW s \in Sides
      PROVE  Differs(s, i, newst[s][i].hash)' /\ Holding(newst[s][i], s, i, newst[s][i].hash)'
  <2>1. Differs(s, i, newst[s][i].hash) /\ Holding(newst[s][i], s, i, newst[s][i].hash)
        /\ ~ MadeUp(newst[s][i])
    BY <1>6 DEF RunAgree, Pending
  <2>2. Differs(s, i, newst[s][i].hash)'
    BY <1>1, <2>1 DEF Differs
  <2> QED BY <1>2, <2>1, <2>2 DEF Holding
<1>7. ASSUME Pending(i, {"merge"})
      PROVE  /\ ReadOnly = {} /\ plan'[i].dest = "a"
             /\ \A s \in Sides : ~ LooksSame(status[s][i], s, i)'
             /\ \A s \in Sides : status'[s][i] # None => plan'[i].hash # status'[s][i].hash
  <2>1. ReadOnly = {} /\ \A s \in Sides : ~ MadeUp(status[s][i])
    BY <1>7, TableRows DEF RunAgree, MadeUp
  <2> QED BY <1>1, <1>7, <2>1 DEF RunAgree
<1> QED BY <1>3, <1>4, <1>5, <1>6, <1>7 DEF RunAgree, Pending

(* What is left of an ident when its action has run, or has failed.        *)
Touches(i) ==
  \/ \A s \in Sides : Spared(s, i)
  \/ \E d \in Sides \ ReadOnly :
       /\ plan[i].dest = d
       /\ \/ /\ Pending(i, {"upload"} \cup UpdateOps)
             /\ \E c \in Hashes : plan[i].hash = c /\ Written(d, i, c)
          \/ Emptied(d, i)

LEMMA TouchesAgrees ==
  ASSUME TakesOrReverts, TypeOK, TypeOK', PlacesInv, NEW i \in Idents, pc = "run", plan[i] # None,
         Agree(status, i), RunAgree(i), UNCHANGED status,
         Touches(i)
  PROVE  Agree(status, i)'
<1>1. CASE \A s \in Sides : Spared(s, i)
  BY <1>1, CalmSteps, AgreeCalm
<1>2. ASSUME NEW d \in Sides \ ReadOnly, plan[i].dest = d, Pending(i, {"upload"} \cup UpdateOps),
             NEW c \in Hashes, plan[i].hash = c, Written(d, i, c)
      PROVE  Agree(status, i)'
  <2> PICK s \in Sides : s = Other(d) /\ d = Other(s) /\ s # d
    BY DEF Sides, Other
  <2>1. ~ MadeUp(status[d][i])
    BY TableRows DEF MadeUp
  <2>2. Differs(s, i, c)
    <3>1. CASE Pending(i, {"merge"})
      <4>1. ~ MadeUp(status[s][i])
        BY <3>1, TableRows DEF RunAgree, MadeUp
      <4> QED BY <3>1, <4>1 DEF RunAgree, Differs
    <3>2. CASE ~ Pending(i, {"merge"})
      BY <1>2, <3>2 DEF RunAgree, Pending, UpdateOps
    <3> QED BY <3>1, <3>2
  <2>3. CASE ~ MadeUp(status[s][i])
    <3>1. ~ LooksSame(status[s][i], s, i)'
      <4>1. Calm(s, i)
        BY <1>2, CalmSteps DEF Written, SparesOthers
      <4> QED BY <2>2, <2>3, <4>1, DiffersCalm DEF Differs
    <3>2. \A s2 \in Sides : ~ MadeUp(status'[s2][i])
      BY <2>1, <2>3 DEF Sides, Other
    <3> QED BY <3>1, <3>2 DEF Agree, Mirrors, Sides, Other
  <2>4. CASE MadeUp(status[s][i])
    <3>1. status[d][i] # None /\ status[d][i].hash = status[s][i].hash
      BY <2>4 DEF Agree, Mirrors
    <3>2. c # status[s][i].hash
      BY <2>2, <2>4 DEF Differs
    <3>3. At(d, i)'.etag # status[d][i].etag /\ At(d, i)'.hash = c
      BY <1>2, <3>1, TableRows DEF Written
    <3>4. ~ LooksSame(status[d][i], d, i)'
      BY <3>1, <3>2, <3>3 DEF LooksSame
    <3> QED BY <2>1, <3>1, <3>4 DEF Agree, Mirrors, Holding, Sides, Other
  <2> QED BY <2>3, <2>4
<1>3. ASSUME NEW d \in Sides \ ReadOnly, Emptied(d, i) PROVE Agree(status, i)'
  <2>1. ~ LooksSame(status[d][i], d, i)' /\ ~ MadeUp(status[d][i])
    BY <1>3, TableRows DEF Emptied, LooksSame, MadeUp
  <2> QED BY <2>1 DEF Agree, Mirrors, Holding, Sides, Other
<1> QED BY <1>1, <1>2, <1>3 DEF Touches

LEMMA WroteAgrees ==
  ASSUME TakesOrReverts, TypeOK, TypeOK', PlacesInv, NEW i \in Idents, RunAgree(i), Wrote(i)
  PROVE  RunAgree(i)'
<1>0. pc = "run" /\ pc' = "run" /\ UNCHANGED status
  BY DEF Wrote, LeavesOthers, Uploaded, Updated, Merged, Pending
<1> PICK d \in Sides, c \in Hashes :
       /\ plan[i].dest = d /\ plan[i].hash = c /\ d \notin ReadOnly
       /\ Written(d, i, c)
       /\ Uploaded(i, d, c) \/ Updated(i, d, c) \/ Merged(i, d, c)
  BY DEF Wrote
<1> PICK s \in Sides : s = Other(d) /\ d = Other(s) /\ s # d
  BY DEF Sides, Other
<1>1. Spared(s, i) /\ Calm(s, i)
  BY CalmSteps DEF Written, SparesOthers
<1>2. /\ newst'[s][i] = newst[s][i] /\ ~ MadeUp(newst[s][i])
      /\ ~ MadeUp(newst'[d][i])
  <2>1. newst'[s][i] = newst[s][i] /\ newst'[d][i].href = HrefOf[i] /\ plan[i] # None
    BY DEF Uploaded, Updated, Merged, RowAfter, Pending
  <2> QED BY <2>1, NoneAssumption, HrefOfAssumption DEF RunAgree, MadeUp
<1>3. LooksSame(newst[s][i], s, i)' => LooksSame(newst[s][i], s, i) /\ At(s, i)'.hash = At(s, i).hash
  <2>1. LooksSame(newst[s][i], s, i)' => LooksNext(newst[s][i], s, i) /\ newst[s][i] # None
    BY <1>2 DEF LooksSame, LooksNext
  <2> QED BY <1>1, <1>2, <2>1, NoNewLooks, TableRows
<1>4. At(d, i)'.hash = c
  BY DEF Written
<1>5. CASE Uploaded(i, d, c) \/ Updated(i, d, c)
  <2>1. plan'[i] = None
    BY <1>5 DEF Uploaded, Updated
  <2>2. Holding(newst[s][i], s, i, c)
    BY <1>0, <1>5 DEF Uploaded, Updated, Pending, RunAgree
  <2>3. LooksSame(newst[s][i], s, i)' => At(s, i)'.hash = c
    BY <1>3, <2>2 DEF Holding
  <2>4. Agree(newst, i)'
    BY <1>2, <1>4, <2>3 DEF Agree, SameHash, Mirrors, Sides, Other
  <2> QED BY <2>1, <2>4 DEF RunAgree, Pending
<1>6. CASE Merged(i, d, c)
  <2>1. d = "a" /\ s = "b" /\ status[d][i] # None => c # status[d][i].hash
    BY <1>6 DEF Merged, RunAgree
  <2>2. plan'[i] # None /\ plan'[i].op = "settle" /\ plan'[i].dest = "b" /\ plan'[i].hash = c
    BY <1>6, ActRecord DEF Merged, Ops, UpdateOps, Sides
  <2>3. d = "a"
    BY <1>6 DEF Merged, RunAgree
  <2>4. ~ LooksSame(status[d][i], d, i)'
    <3>1. status[d][i] # None => status[d][i].etag # At(d, i)'.etag /\ c # status[d][i].hash
      BY <1>6, TableRows DEF Written, Merged, RunAgree
    <3> QED BY <1>0, <1>4, <3>1 DEF LooksSame
  <2>5. Holding(newst[d][i], d, i, plan[i].hash)'
    BY <1>4, <2>2 DEF Holding
  <2>6. \A s2 \in Sides : plan'[i].dest = Other(s2) => s2 = d
    BY <2>2, <2>3 DEF Sides, Other
  <2>7. ReadOnly = {} /\ ~ MadeUp(status'[d][i])
    BY <1>0, <1>6, TableRows DEF Merged, RunAgree, MadeUp
  <2>8. \A s2 \in Sides : ~ MadeUp(newst'[s2][i])
    BY <1>2 DEF Sides, Other
  <2> QED BY <2>2, <2>4, <2>5, <2>6, <2>7, <2>8 DEF RunAgree, Pending, Differs
<1> QED BY <1>5, <1>6

LEMMA ResolvedAgrees ==
  ASSUME TakesOrReverts, TypeOK, TypeOK', RowsInv, PlacesInv, NEW i \in Idents, RunAgree(i), Resolved(i)
  PROVE  RunAgree(i)'
<1>0. pc = "run" /\ pc' = "run" /\ UNCHANGED status /\ Pending(i, {"resolve"})
  BY DEF Resolved, LeavesOthers, Pending
<1>1. \A s \in Sides : newst[s][i] # None /\ newst[s][i].hash \in Hashes
  BY <1>0, RowTyped DEF RowsInv, RunInv, Pending, BothRows
<1>2. ASSUME NEW s \in Sides
      PROVE  /\ Differs(s, i, newst[s][i].hash)'
             /\ ~ MadeUp(newst[s][i])
             /\ LooksSame(newst[s][i], s, i)' => At(s, i)'.hash = newst[s][i].hash
             /\ newst'[s][i] = newst[s][i]
  <2>1. Calm(s, i) /\ newst'[s][i] = newst[s][i] /\ Spared(s, i)
    BY CalmSteps DEF Resolved, RowsKept
  <2>2. Differs(s, i, newst[s][i].hash) /\ Holding(newst[s][i], s, i, newst[s][i].hash)
        /\ ~ MadeUp(newst[s][i])
    BY <1>0 DEF RunAgree, Pending
  <2>3. Differs(s, i, newst[s][i].hash)'
    BY <1>0, <2>1, <2>2, DiffersCalm DEF Differs
  <2>4. LooksSame(newst[s][i], s, i)' => LooksSame(newst[s][i], s, i)
    BY <2>1 DEF LooksSame, Spared
  <2> QED BY <2>1, <2>2, <2>3, <2>4 DEF Holding, Spared
<1>3. CASE SameOnBothSides(i) /\ plan'[i] = None
  <2>1. Agree(newst, i)'
    BY <1>2, <1>3 DEF Agree, SameHash, Mirrors, SameOnBothSides, Sides
  <2> QED BY <1>3, <2>1 DEF RunAgree, Pending
<1>4. ASSUME NEW s \in Sides, plan'[i] = Act("settle", Other(s), newst[s][i].hash)
      PROVE  RunAgree(i)'
  <2>1. /\ plan'[i] # None /\ plan'[i].op = "settle" /\ plan'[i].dest = Other(s)
        /\ plan'[i].hash = newst[s][i].hash
    BY <1>1, <1>4, ActRecord, SidesLemma DEF Ops, UpdateOps
  <2>2. \A s2 \in Sides : Other(s) = Other(s2) => s2 = s
    BY DEF Sides, Other
  <2>3. Holding(newst[s][i], s, i, plan[i].hash)' /\ Differs(s, i, plan[i].hash)'
    BY <1>2, <2>1 DEF Holding, Differs
  <2> QED BY <1>2, <2>1, <2>2, <2>3 DEF RunAgree, Pending
<1>5. ASSUME NEW c \in Hashes, plan'[i] = Act("merge", "a", c),
             ReadOnly = {}, \A s \in Sides : c \notin known[s][i]
      PROVE  RunAgree(i)'
  <2>1. plan'[i] # None /\ plan'[i].op = "merge" /\ plan'[i].dest = "a" /\ plan'[i].hash = c
    BY <1>5, ActRecord DEF Ops, UpdateOps, Sides
  <2>2. \A s \in Sides : /\ status[s][i] # None => c # status[s][i].hash
                         /\ ~ MadeUp(status'[s][i])
    BY <1>0, <1>5, TableRows DEF MadeUp
  <2> QED BY <1>0, <1>2, <1>5, <2>1, <2>2 DEF RunAgree, Pending, Differs
<1> QED BY <1>3, <1>4, <1>5 DEF Resolved

(* A change that is taken back leaves a made up row.                       *)
LEMMA TakenBackAgrees ==
  ASSUME TakesOrReverts, TypeOK, TypeOK', RowsInv, PlacesInv, NEW i \in Idents, RunAgree(i),
         TakenBack(i)
  PROVE  RunAgree(i)'
<1> PICK d \in ReadOnly :
       /\ plan[i].dest = d
       /\ MadeUp(newst'[d][i])
       /\ newst'[d][i].hash = plan[i].hash /\ newst'[d][i].etag = None
       /\ newst'[Other(d)][i] = newst[Other(d)][i]
  BY DEF TakenBack
<1> PICK s \in Sides : s = Other(d) /\ d = Other(s) /\ s # d /\ d \in Sides
  BY OptionsAssumption DEF Sides, Other
<1>0. pc = "run" /\ partial = "revert" /\ Spared(s, i) /\ plan[i] # None
  <2>1. pc = "run" /\ Spared(s, i) /\ plan[i] # None
    BY DEF TakenBack, Pending
  <2> QED BY <2>1 DEF RowsInv, PrepareInv, TakesOrReverts
<1>1. Pending(i, {"upload", "update", "settle"}) /\ plan'[i] = None
  BY DEF TakenBack, RunAgree, Pending, UpdateOps
<1>2. newst[s][i] # None
  BY <1>0, <1>1 DEF RowsInv, RunInv, Pending, BothRows
<1>3. /\ ~ MadeUp(newst[s][i]) /\ newst[s][i].hash = plan[i].hash
      /\ Holding(newst[s][i], s, i, plan[i].hash)
  BY <1>0, <1>1 DEF RunAgree
<1>4. Holding(newst[s][i], s, i, newst[s][i].hash)'
  BY <1>0, <1>3 DEF Holding, LooksSame, Spared
<1>5. \A s2 \in Sides : Mirrors(newst, s2, i)'
  BY <1>2, <1>3, <1>4 DEF Mirrors, Sides, Other
<1>6. ASSUME LooksSame(newst["a"][i], "a", i)', LooksSame(newst["b"][i], "b", i)'
      PROVE  SameHash(i)'
  <2>1. LooksSame(newst[s][i], s, i)' /\ LooksSame(newst[d][i], d, i)'
    BY <1>6 DEF Sides, Other
  <2>2. At(d, i)'.hash = plan[i].hash
    BY <2>1, AtTyped DEF LooksSame
  <2>3. At(s, i)'.hash = plan[i].hash
    BY <1>3, <1>4, <2>1 DEF Holding
  <2> QED BY <2>2, <2>3 DEF SameHash, Sides, Other
<1> QED BY <1>1, <1>5, <1>6 DEF RunAgree, Agree, Pending

LEMMA OutcomeAgrees ==
  ASSUME TakesOrReverts, TypeOK, TypeOK', RowsInv, PlacesInv, AgreeInv,
         NEW i \in Idents, pc = "run", plan[i] # None,
         \/ Failed(i) /\ Effect(i)
         \/ Wrote(i) \/ Deleted(i) \/ TakenBack(i) \/ Skipped(i) \/ Resolved(i)
  PROVE  AgreeInv'
<1>0. LeavesOthers(i) /\ pc' = "run" /\ UNCHANGED status
  BY DEF Failed, Wrote, Deleted, TakenBack, Skipped, Resolved, LeavesOthers
<1>1. ASSUME NEW j \in Idents \ {i} PROVE Agree(status, j)' /\ RunAgree(j)'
  <2>1. \A s \in Sides : Calm(s, j) /\ newst'[s][j] = newst[s][j]
    BY <1>0, CalmSteps DEF LeavesOthers
  <2>2. plan'[j] = plan[j]
    BY <1>0 DEF LeavesOthers
  <2>3. Agree(status, j) /\ RunAgree(j)
    BY DEF AgreeInv
  <2>4. \A s \in Sides : status'[s][j] = status[s][j]
    BY <1>0
  <2> QED BY <2>1, <2>2, <2>3, <2>4, AgreeCalm, RunAgreeCalm
<1>2. RunAgree(i) /\ Agree(status, i)
  BY DEF AgreeInv
<1>3. Touches(i)
  <2>1. CASE Wrote(i)
    <3>1. Pending(i, {"upload"} \cup UpdateOps)
      BY <2>1 DEF Wrote, Uploaded, Updated, Merged, Pending, UpdateOps
    <3> QED BY <2>1, <3>1 DEF Wrote, Touches
  <2>2. CASE Deleted(i)
    BY <2>2 DEF Deleted, Touches, Keeps
  <2>3. CASE TakenBack(i) \/ Skipped(i) \/ Resolved(i)
    BY <2>3 DEF TakenBack, Skipped, Resolved, RowsKept, Touches
  <2>4. Effect(i) => Touches(i)
    BY DEF Effect, Touches, Keeps
  <2> QED BY <2>1, <2>2, <2>3, <2>4
<1>4. Agree(status, i)'
  BY <1>0, <1>2, <1>3, TouchesAgrees
<1>5. RunAgree(i)'
  <2>1. CASE Failed(i)
    <3>1. plan'[i] = None /\ \A s \in Sides : newst'[s][i] = status'[s][i]
      BY <1>0, <2>1 DEF Failed
    <3>2. Agree(newst, i)'
      BY <1>4, <3>1, SidesLemma DEF Agree, LooksSame, Mirrors, Holding, Sides
    <3> QED BY <3>1, <3>2 DEF RunAgree, Pending
  <2>2. CASE Deleted(i) \/ Skipped(i)
    <3>1. plan'[i] = None /\ \A s \in Sides : newst'[s][i] = None
      BY <2>2 DEF Deleted, Skipped
    <3>2. Agree(newst, i)'
      BY <3>1 DEF Agree, LooksSame, Mirrors, MadeUp, Sides
    <3> QED BY <3>1, <3>2 DEF RunAgree, Pending
  <2> QED BY <1>2, <2>1, <2>2, WroteAgrees, TakenBackAgrees, ResolvedAgrees
<1> QED BY <1>0, <1>1, <1>4, <1>5 DEF AgreeInv, ToFetch

LEMMA AbortAgrees ==
  ASSUME \A i \in Idents : Agree(status, i)', Abort
  PROVE  AgreeInv'
BY DEF Abort, EndOfSync, AgreeInv, ToFetch

LEMMA ListAgrees ==
  ASSUME TypeOK, PlacesInv, AgreeInv, List
  PROVE  AgreeInv'
<1>0. UNCHANGED <<store, known, status, cur>> /\ pc = "list" /\ pc' = "fetch" /\ cur \in Sides
  BY DEF List, storeVars, TypeOK
<1>1. \A s \in Sides, i \in Idents : newst'[s][i] # None =>
        newst'[s][i] = status[s][i] \/ newst'[s][i] = newst[s][i]
  BY ListRows
<1>2. \A i \in Idents : Agree(status, i)'
  BY <1>0 DEF AgreeInv, Agree, LooksSame, Mirrors, Holding, SameHash, At
<1>3. ASSUME NEW s \in Sides, NEW i \in Idents, newst'[s][i] # None
      PROVE  ReadNow(s, i)' /\ ~ MadeUp(newst'[s][i])
  <2>1. \/ newst'[s][i] = status[s][i] /\ Unmodified(s, i)
        \/ newst'[s][i] = newst[s][i] /\ newst[s][i] # None
    BY <1>3, ListRows
  <2>2. Unmodified(s, i) => ~ MadeUp(status[s][i])
    BY NoneAssumption DEF Unmodified, Holds, MadeUp
  <2> QED BY <1>0, <2>1, <2>2 DEF AgreeInv, ReadNow, Holding, LooksSame, Differs, At
<1>4. ASSUME NEW i \in Idents, HrefOf[i] \in todo', At(cur, i) # None, status[cur][i] # None
      PROVE  At(cur, i).etag # status[cur][i].etag
  <2>1. CASE MadeUp(status[cur][i])
    BY <1>0, <1>4, <2>1, TableRows, AtFacts
  <2>2. CASE ~ MadeUp(status[cur][i])
    <3>1. status[cur][i].href = HrefOf[i]
      BY <1>0, <1>4, <2>2 DEF PlacesInv, RowsPlaced
    <3>2. ~ Unmodified(cur, i)
      BY <1>4, <3>1 DEF List, ByHref
    <3> QED BY <1>4, <3>1, <3>2, HrefOfAssumption DEF Unmodified, Holds, At
  <2> QED BY <2>1, <2>2
<1>5. ToFetch'
  BY <1>0, <1>4 DEF ToFetch, At
<1> QED BY <1>0, <1>2, <1>3, <1>5 DEF AgreeInv

LEMMA FetchAgrees ==
  ASSUME TypeOK, PlacesInv, AgreeInv, NEW h \in Hrefs, Fetch(h)
  PROVE  AgreeInv'
<1>0. UNCHANGED <<store, known, status, cur, pc>> /\ pc = "fetch" /\ cur \in Sides
      /\ h \in todo /\ todo' \subseteq todo
  BY DEF Fetch, storeVars, TypeOK
<1> PICK s \in Sides : s = cur
  BY <1>0
<1> PICK j \in Idents :
      /\ h = HrefOf[j] /\ At(s, j) # None
      /\ newst'[s][j] # None /\ newst'[s][j].href = h
      /\ newst'[s][j].hash = At(s, j).hash /\ newst'[s][j].etag = At(s, j).etag
      /\ \A s2 \in Sides, i \in Idents : s2 # s \/ i # j => newst'[s2][i] = newst[s2][i]
  BY FetchPlaced DEF PlacesInv
<1>1. \A i \in Idents : Agree(status, i)'
  BY <1>0 DEF AgreeInv, Agree, LooksSame, Mirrors, Holding, SameHash, At
<1>2. status[s][j] # None => At(s, j).etag # status[s][j].etag
  BY <1>0 DEF AgreeInv, ToFetch
<1>3. ReadNow(s, j)' /\ ~ MadeUp(newst'[s][j])
  BY <1>0, <1>2, NoneAssumption DEF ReadNow, Holding, LooksSame, Differs, MadeUp, At
<1>4. ASSUME NEW s2 \in Sides, NEW i \in Idents, s2 # s \/ i # j, newst'[s2][i] # None
      PROVE  ReadNow(s2, i)' /\ ~ MadeUp(newst'[s2][i])
  BY <1>0, <1>4 DEF AgreeInv, ReadNow, Holding, LooksSame, Differs, At
<1>5. ToFetch'
  BY <1>0 DEF AgreeInv, ToFetch, At
<1> QED BY <1>0, <1>1, <1>3, <1>4, <1>5 DEF AgreeInv

(* What the rows tell when the actions are planned.                        *)
LEMMA ReadFound ==
  ASSUME AgreeInv, pc = "fetch", NEW s \in Sides, NEW i \in Idents, newst[s][i] # None
  PROVE  /\ ~ MadeUp(newst[s][i])
         /\ IsChanged(s, i) => /\ Differs(s, i, newst[s][i].hash)
                               /\ Holding(newst[s][i], s, i, newst[s][i].hash)
         /\ ~ IsChanged(s, i) /\ LooksSame(newst[s][i], s, i) => LooksSame(status[s][i], s, i)
<1>1. ReadNow(s, i) /\ ~ MadeUp(newst[s][i])
  BY DEF AgreeInv
<1> QED BY <1>1 DEF ReadNow, IsChanged, LooksSame, Holding, Differs, MadeUp

LEMMA PlanAgrees ==
  ASSUME TypeOK, PlacesInv, AgreeInv, Plan
  PROVE  AgreeInv'
<1>0. UNCHANGED <<store, known, status, newst>> /\ pc = "fetch" /\ pc' = "run"
      /\ \A i \in Idents : plan'[i] = ActionFor(i)
  BY DEF Plan, Prepared, storeVars
<1>1. \A i \in Idents : Agree(status, i)'
  BY <1>0 DEF AgreeInv, Agree, LooksSame, Mirrors, Holding, SameHash, At
<1>2. ASSUME NEW i \in Idents PROVE RunAgree(i)'
  <2>2. ASSUME NEW s \in Sides, newst[s][i] # None
        PROVE  /\ IsChanged(s, i) => /\ Differs(s, i, newst[s][i].hash)'
                                     /\ Holding(newst[s][i], s, i, newst[s][i].hash)'
               /\ ~ IsChanged(s, i) /\ LooksSame(newst[s][i], s, i)' =>
                    LooksSame(status[s][i], s, i)
    <3>1. /\ IsChanged(s, i) => /\ Differs(s, i, newst[s][i].hash)
                                /\ Holding(newst[s][i], s, i, newst[s][i].hash)
          /\ ~ IsChanged(s, i) /\ LooksSame(newst[s][i], s, i) => LooksSame(status[s][i], s, i)
      BY <1>0, <2>2, ReadFound
    <3>2. LooksSame(newst[s][i], s, i)' <=> LooksSame(newst[s][i], s, i)
      BY <1>0 DEF LooksSame, At
    <3>3. LooksSame(status[s][i], s, i)' <=> LooksSame(status[s][i], s, i)
      BY <1>0 DEF LooksSame, At
    <3>4. At(s, i)' = At(s, i) /\ newst'[s][i] = newst[s][i]
      BY <1>0 DEF At
    <3> QED BY <1>0, <3>1, <3>2, <3>3, <3>4 DEF Holding, Differs
  <2>1. \A s \in Sides : ~ MadeUp(newst'[s][i])
    BY <1>0, ReadFound DEF MadeUp
  <2>3. CASE \E s \in Sides : newst[s][i] = None
    <3>1. Agree(newst, i)'
      BY <1>0, <2>1, <2>3 DEF Agree, LooksSame, Mirrors, Sides
    <3>2. CASE NoRows(i)
      <4>1. plan'[i] = None
        BY <1>0, <3>2, PlannedAction
      <4> QED BY <3>1, <4>1 DEF RunAgree, Pending
    <3>3. ASSUME NEW s \in Sides, newst[s][i] # None, newst[Other(s)][i] = None
          PROVE  RunAgree(i)'
      <4>1. CASE IsChanged(s, i)
        <5>1. plan'[i] = Act("upload", Other(s), newst[s][i].hash)
          BY <1>0, <3>3, <4>1, PlannedAction
        <5>2. /\ plan'[i].op = "upload" /\ plan'[i].dest = Other(s)
              /\ plan'[i].hash = newst[s][i].hash /\ plan'[i] # None
          BY <3>3, <5>1, ActRecord, RowTyped, SidesLemma DEF Ops
        <5>3. \A s2 \in Sides : Other(s) = Other(s2) => s2 = s
          BY DEF Sides, Other
        <5>4. Holding(newst[s][i], s, i, plan[i].hash)' /\ Differs(s, i, plan[i].hash)'
              /\ newst'[s][i].hash = plan'[i].hash
          BY <1>0, <2>2, <3>3, <4>1, <5>2 DEF Holding, Differs
        <5> QED BY <2>1, <5>2, <5>3, <5>4 DEF RunAgree, Pending
      <4>2. CASE ~ IsChanged(s, i)
        <5>1. plan'[i] = Act("delete", s, newst[s][i].hash)
          BY <1>0, <3>3, <4>2, PlannedAction
        <5>2. plan'[i].op = "delete" /\ plan'[i] # None
          BY <3>3, <5>1, ActRecord, RowTyped DEF Ops
        <5> QED BY <2>1, <5>2 DEF RunAgree, Pending
      <4> QED BY <4>1, <4>2
    <3> QED BY <3>2, <3>3, <2>3 DEF NoRows, Sides, Other
  <2>4. ASSUME BothRows(i), \A s \in Sides : IsChanged(s, i) PROVE RunAgree(i)'
    <3>1. plan'[i] = Act("resolve", "a", newst["a"][i].hash)
      BY <1>0, <2>4, PlannedAction
    <3>2. plan'[i].op = "resolve" /\ plan'[i] # None
      BY <2>4, <3>1, ActRecord, RowTyped DEF BothRows, Sides, Ops
    <3>3. \A s \in Sides : /\ Differs(s, i, newst[s][i].hash)'
                           /\ Holding(newst[s][i], s, i, newst[s][i].hash)'
      BY <2>2, <2>4 DEF BothRows
    <3> QED BY <2>1, <3>2, <3>3 DEF RunAgree, Pending
  <2>5. ASSUME BothRows(i), \A s \in Sides : ~ IsChanged(s, i) PROVE RunAgree(i)'
    <3>1. plan'[i] = None
      BY <1>0, <2>5, PlannedAction
    <3>2. ASSUME \A s \in Sides : LooksSame(newst[s][i], s, i)' PROVE SameHash(i)'
      <4>1. \A s \in Sides : LooksSame(status[s][i], s, i)
        BY <2>2, <2>5, <3>2 DEF BothRows
      <4> QED BY <1>0, <4>1 DEF AgreeInv, Agree, SameHash, Sides, At
    <3>3. Agree(newst, i)'
      BY <2>1, <3>2 DEF Agree, Mirrors, Sides
    <3> QED BY <3>1, <3>3 DEF RunAgree, Pending
  <2>6. ASSUME BothRows(i), NEW s \in Sides, IsChanged(s, i), ~ IsChanged(Other(s), i)
        PROVE  RunAgree(i)'
    <3>1. plan'[i] = Act("update", Other(s), newst[s][i].hash)
      BY <1>0, <2>6, PlannedAction
    <3>2. /\ plan'[i].op = "update" /\ plan'[i].dest = Other(s)
          /\ plan'[i].hash = newst[s][i].hash /\ plan'[i] # None
      BY <2>6, <3>1, ActRecord, RowTyped, SidesLemma DEF BothRows, Ops, UpdateOps
    <3>3. \A s2 \in Sides : Other(s) = Other(s2) => s2 = s
      BY DEF Sides, Other
    <3>4. newst[s][i] # None
      BY <2>6 DEF BothRows
    <3>5. Holding(newst[s][i], s, i, plan[i].hash)' /\ Differs(s, i, plan[i].hash)'
          /\ newst'[s][i].hash = plan'[i].hash
      BY <1>0, <2>2, <2>6, <3>2, <3>4 DEF Holding, Differs
    <3> QED BY <2>1, <3>2, <3>3, <3>5 DEF RunAgree, Pending
  <2>7. \/ \E s \in Sides : newst[s][i] = None
        \/ BothRows(i) /\ \/ \A s \in Sides : IsChanged(s, i)
                          \/ \A s \in Sides : ~ IsChanged(s, i)
                          \/ \E s \in Sides : IsChanged(s, i) /\ ~ IsChanged(Other(s), i)
    BY DEF BothRows, Sides, Other
  <2> QED BY <2>3, <2>4, <2>5, <2>6, <2>7
<1> QED BY <1>0, <1>1, <1>2 DEF AgreeInv, ToFetch

LEMMA AgreeStep ==
  ASSUME TakesOrReverts, TypeOK, TypeOK', RowsInv, PlacesInv, AgreeInv, [Next]_vars
  PROVE  AgreeInv'
<1>0. ASSUME UNCHANGED status, \A s \in Sides, i \in Idents : Calm(s, i)
      PROVE  \A i \in Idents : Agree(status, i)'
  BY <1>0, AgreeCalm DEF AgreeInv
<1>1. CASE Editor
  <2>1. EditStep /\ \A s \in Sides, i \in Idents : Calm(s, i)
    BY <1>1, EditorPlain, CalmSteps
  <2>2. UNCHANGED <<status, newst, pc, cur, todo, plan>>
    BY <2>1 DEF EditStep
  <2>3. ToFetch'
    <3> SUFFICES ASSUME pc = "fetch", NEW i \in Idents, HrefOf[i] \in todo, NEW s \in Sides,
                        s = cur, At(s, i)' # None, status[s][i] # None
                 PROVE  At(s, i)'.etag # status[s][i].etag
      BY <2>2 DEF ToFetch, TypeOK, At
    <3>1. status[s][i].etag \in EtagsInUse(s)
      BY TableRows
    <3>2. At(s, i)' = At(s, i) \/ At(s, i)'.etag \notin EtagsInUse(s)
      BY <2>1 DEF Calm
    <3> QED BY <3>1, <3>2 DEF AgreeInv, ToFetch
  <2>4. ASSUME pc \in {"list", "fetch"}, NEW s \in Sides, NEW i \in Idents, newst[s][i] # None
        PROVE  ReadNow(s, i)'
    <3>1. ReadNow(s, i) /\ ~ MadeUp(newst[s][i])
      BY <2>4 DEF AgreeInv
    <3>2. LooksNext(newst[s][i], s, i) =>
            LooksSame(newst[s][i], s, i) /\ At(s, i)'.hash = At(s, i).hash
      BY <2>1, <3>1, RowsCalm, TableRows DEF PlacesInv
    <3>3. Holding(newst[s][i], s, i, newst[s][i].hash) =>
            Holding(newst[s][i], s, i, newst[s][i].hash)'
      BY <2>2, <3>2 DEF Holding, LooksSame, LooksNext
    <3>4. Differs(s, i, newst[s][i].hash) => Differs(s, i, newst[s][i].hash)'
      BY <2>1, <2>2, DiffersCalm DEF Differs
    <3> QED BY <2>2, <3>1, <3>3, <3>4 DEF ReadNow
  <2>5. ASSUME pc = "run", NEW i \in Idents PROVE RunAgree(i)'
    BY <2>1, <2>2, <2>5, RunAgreeCalm DEF AgreeInv
  <2>6. \A i \in Idents : Agree(status, i)'
    BY <1>0, <2>1, <2>2
  <2> QED BY <2>2, <2>3, <2>4, <2>5, <2>6 DEF AgreeInv
<1>2. ASSUME UNCHANGED <<store, known>>
      PROVE  \A s \in Sides, i \in Idents : Spared(s, i) /\ Calm(s, i)
  BY <1>2, CalmSteps DEF Spared, At
<1>3. ASSUME UNCHANGED storeVars, Abort PROVE AgreeInv'
  BY <1>0, <1>2, <1>3, AbortAgrees DEF storeVars, Abort
<1>4. CASE \E f \in BOOLEAN, p \in PartialSync : StartSync(f, p)
  <2>1. UNCHANGED <<store, known, status, newst>> /\ pc = "idle" /\ pc' = "list"
    BY <1>4 DEF StartSync, storeVars
  <2>2. \A s \in Sides, i \in Idents : newst'[s][i] = None
    BY <2>1 DEF RowsInv, PrepareInv, EmptyTable
  <2> QED BY <1>0, <1>2, <2>1, <2>2 DEF AgreeInv, ToFetch
<1>5. CASE Prepare
  <2>1. ASSUME NEW h \in Hrefs, FetchFails(h) PROVE AgreeInv'
    BY <1>3, <2>1 DEF FetchFails
  <2>2. CASE NextSide
    <3>1. UNCHANGED <<store, known, status, newst>> /\ pc = "fetch" /\ pc' = "list"
      BY <2>2 DEF NextSide, storeVars
    <3>2. \A s \in Sides, i \in Idents : newst'[s][i] # None =>
            ReadNow(s, i)' /\ ~ MadeUp(newst'[s][i])
      BY <3>1 DEF AgreeInv, ReadNow, Holding, LooksSame, Differs, At
    <3> QED BY <1>0, <1>2, <3>1, <3>2 DEF AgreeInv, ToFetch
  <2>3. CASE RefuseEmpty
    BY <1>3, <2>3 DEF RefuseEmpty
  <2> QED BY <1>5, <2>1, <2>2, <2>3, ListAgrees, FetchAgrees, PlanAgrees DEF Prepare
<1>6. ASSUME NEW i \in Idents, RunAction(i) PROVE AgreeInv'
  <2>1. /\ pc = "run" /\ plan[i] # None
        /\ \/ /\ \A s \in Sides, j \in Idents : Spared(s, j)
              /\ Failed(i) \/ Abort
           \/ Wrote(i) \/ Deleted(i) \/ TakenBack(i) \/ Skipped(i) \/ Resolved(i)
    BY <1>6, RunPlain
  <2>2. ASSUME Abort, \A s \in Sides, j \in Idents : Spared(s, j) PROVE AgreeInv'
    BY <1>0, <2>2, CalmSteps, AbortAgrees DEF Abort
  <2>3. (\A s \in Sides, j \in Idents : Spared(s, j)) => Effect(i)
    BY DEF Effect
  <2> QED BY <2>1, <2>2, <2>3, OutcomeAgrees
<1>7. ASSUME NEW i \in Idents, NEW effect \in BOOLEAN, RequestFails(i, effect) PROVE AgreeInv'
  <2>1. /\ pc = "run" /\ plan[i] # None
        /\ SparesOthers(plan[i].dest, i) /\ Effect(i)
        /\ Failed(i) \/ Abort
    BY <1>7, RequestPlain
  <2>2. CASE Abort
    <3>1. UNCHANGED status
      BY <2>2 DEF Abort
    <3>2. ASSUME NEW j \in Idents PROVE Agree(status, j)'
      <4>1. CASE j = i
        <5>1. Effect(i) => Touches(i)
          BY DEF Effect, Touches, Keeps
        <5> QED BY <2>1, <3>1, <4>1, <5>1, TouchesAgrees DEF AgreeInv
      <4>2. CASE j # i
        BY <2>1, <3>1, <4>2, CalmSteps, AgreeCalm DEF AgreeInv, SparesOthers
      <4> QED BY <4>1, <4>2
    <3> QED BY <2>2, <3>2, AbortAgrees
  <2> QED BY <2>1, <2>2, OutcomeAgrees
<1>8. CASE Commit
  <2>1. UNCHANGED <<store, known>> /\ status' = newst /\ plan = NoPlan /\ pc = "run" /\ pc' = "idle"
    BY <1>8 DEF Commit, EndOfSync, AllRun, storeVars
  <2>2. ASSUME NEW i \in Idents PROVE Agree(status, i)'
    <3>1. Agree(newst, i)
      BY <2>1 DEF AgreeInv, RunAgree, NoPlan
    <3> QED BY <2>1, <3>1 DEF Agree, LooksSame, Mirrors, Holding, SameHash, At
  <2> QED BY <2>1, <2>2 DEF AgreeInv, ToFetch
<1>9. CASE CommitRejected
  BY <1>3, <1>9 DEF CommitRejected
<1>10. CASE Interrupted
  BY <1>3, <1>10 DEF Interrupted
<1>11. CASE UNCHANGED vars
  <2>1. UNCHANGED <<store, status, newst, pc, cur, todo, plan>>
    BY <1>11 DEF vars
  <2> QED BY <2>1 DEF AgreeInv, Agree, SameHash, ToFetch, ReadNow, RunAgree, Pending,
                      Differs, Mirrors, Holding, LooksSame, At
<1> QED BY <1>1, <1>4, <1>5, <1>6, <1>7, <1>8, <1>9, <1>10, <1>11 DEF Next, Progress, Faults

LEMMA AgreeInit ==
  ASSUME Init
  PROVE  AgreeInv
<1>1. pc = "idle"
  BY DEF Init
<1>2. \A i \in Idents : Agree(status, i)
  <2>1. \A s \in Sides, i \in Idents : ~ MadeUp(status[s][i])
    BY InitPlaces DEF MadeUp
  <2> QED BY <2>1, InitPlaces DEF Agree, LooksSame, Mirrors, SameHash, Sides
<1> QED BY <1>1, <1>2 DEF AgreeInv, ToFetch

-----------------------------------------------------------------------------
(* A sync that nothing disturbs: the rows describe what is there.          *)
Describes(s, i) ==
  /\ newst[s][i] # None /\ At(s, i) # None
  /\ s \notin EtagLost => newst[s][i].etag = At(s, i).etag

Nothing(s, i) == newst[s][i] = None /\ At(s, i) = None

(* The row was read, and so has the etag that is there.                    *)
Seen(s, i) ==
  \/ Nothing(s, i)
  \/ newst[s][i] # None /\ At(s, i) # None /\ newst[s][i].etag = At(s, i).etag

(* What rows t say of an item that a side keeps although the other one     *)
(* does not have it, and of one that a read-only side does not take.       *)
KeptBack(t, s, i) ==
  /\ Keeps(s) /\ At(s, i) # None /\ At(Other(s), i) = None
  /\ \A s2 \in Sides : t[s2][i] = None

PutOff(t, s, i) ==
  LET o == Other(s) IN
  /\ MadeUp(t[s][i]) /\ t[o][i] # None
  /\ At(o, i) # None /\ At(o, i).hash = t[s][i].hash
  /\ o \notin EtagLost => t[o][i].etag = At(o, i).etag

RunClean(i) ==
  /\ plan[i] = None =>
       \/ \A s \in Sides : Nothing(s, i)
       \/ (\A s \in Sides : Describes(s, i)) /\ SameHash(i)
       \/ \E s \in Sides : KeptBack(newst, s, i) \/ PutOff(newst, s, i)
  /\ Pending(i, UpdateOps \cup {"resolve"}) => \A s \in Sides : Describes(s, i)
  /\ \A s \in Sides : plan[i] # None /\ plan[i].dest = Other(s) =>
       /\ Pending(i, {"upload", "update", "settle"}) => At(s, i).hash = plan[i].hash
       /\ Pending(i, {"upload"}) => Describes(s, i) /\ Nothing(Other(s), i)
       /\ Pending(i, {"delete"}) => Nothing(s, i) /\ Describes(Other(s), i)
  /\ Pending(i, {"resolve"}) => \A s \in Sides : At(s, i).hash = newst[s][i].hash
  /\ Pending(i, {"merge"}) => plan[i].dest = "a"

CleanInv ==
  /\ quiet > 0 /\ pc # "idle" => clean
  /\ clean /\ pc \in {"list", "fetch"} /\ cur = "b" => \A i \in Idents : Seen("a", i)
  /\ clean /\ pc = "fetch" => \A i \in Idents :
       Seen(cur, i) \/ (newst[cur][i] = None /\ HrefOf[i] \in todo)
  /\ clean /\ pc = "run" => \A i \in Idents \ errors : RunClean(i)

LEMMA RunCleanKept ==
  ASSUME NEW i \in Idents, pc' = pc, plan'[i] = plan[i], RunClean(i),
         \A s \in Sides : newst'[s][i] = newst[s][i] /\ At(s, i)' = At(s, i)
  PROVE  RunClean(i)'
<1>1. \A s \in Sides : /\ Describes(s, i) => Describes(s, i)'
                       /\ Nothing(s, i) => Nothing(s, i)'
                       /\ At(s, i)' = At(s, i)
  BY DEF Describes, Nothing
<1>2. SameHash(i) => SameHash(i)'
  BY <1>1 DEF SameHash, Sides
<1>5. \A s \in Sides : /\ KeptBack(newst, s, i) => KeptBack(newst, s, i)'
                       /\ PutOff(newst, s, i) => PutOff(newst, s, i)'
  BY SidesLemma DEF KeptBack, PutOff, MadeUp
<1>3. \A ops : Pending(i, ops)' <=> Pending(i, ops)
  BY DEF Pending
<1>4. \A s \in Sides : Other(s) \in Sides
  BY SidesLemma
<1> QED BY <1>1, <1>2, <1>3, <1>4, <1>5 DEF RunClean

LEMMA WroteClean ==
  ASSUME TypeOK, NEW i \in Idents, RunClean(i), Wrote(i)
  PROVE  RunClean(i)'
<1>0. pc = "run" /\ pc' = "run"
  BY DEF Wrote, LeavesOthers, Uploaded, Updated, Merged, Pending
<1> PICK d \in Sides, c \in Hashes :
       /\ plan[i].dest = d /\ plan[i].hash = c
       /\ Written(d, i, c)
       /\ Uploaded(i, d, c) \/ Updated(i, d, c) \/ Merged(i, d, c)
  BY DEF Wrote
<1> PICK s \in Sides : s = Other(d) /\ d = Other(s) /\ s # d
  BY DEF Sides, Other
<1>1. At(s, i)' = At(s, i) /\ newst'[s][i] = newst[s][i]
  BY DEF Written, SparesOthers, Spared, Uploaded, Updated, Merged, RowAfter
<1>2. Describes(s, i)
  BY <1>0 DEF RunClean, Uploaded, Updated, Merged, Pending, UpdateOps
<1>3. Describes(s, i)'
  BY <1>1, <1>2 DEF Describes
<1>4. Describes(d, i)'
  <2>1. newst'[d][i] # None /\ (d \notin EtagLost => newst'[d][i].etag = At(d, i)'.etag)
    BY DEF Uploaded, Updated, Merged, RowAfter
  <2> QED BY <2>1 DEF Describes, Written
<1>5. \A s2 \in Sides : Describes(s2, i)'
  BY <1>3, <1>4 DEF Sides, Other
<1>6. At(d, i)'.hash = c
  BY DEF Written
<1>7. CASE Uploaded(i, d, c) \/ Updated(i, d, c)
  <2>1. plan'[i] = None
    BY <1>7 DEF Uploaded, Updated
  <2>2. At(s, i).hash = c
    BY <1>0, <1>7 DEF RunClean, Uploaded, Updated, Pending
  <2>3. SameHash(i)'
    BY <1>1, <1>6, <2>2 DEF SameHash, Sides, Other
  <2> QED BY <1>5, <2>1, <2>3 DEF RunClean, Pending
<1>8. CASE Merged(i, d, c)
  <2>1. d = "a"
    BY <1>8 DEF Merged, RunClean
  <2>2. plan'[i] # None /\ plan'[i].op = "settle" /\ plan'[i].dest = "b" /\ plan'[i].hash = c
    BY <1>8, ActRecord DEF Merged, Ops, UpdateOps, Sides
  <2>3. \A s2 \in Sides : plan'[i].dest = Other(s2) => s2 = d
    BY <2>1, <2>2 DEF Sides, Other
  <2> QED BY <1>5, <1>6, <2>2, <2>3 DEF RunClean, Pending
<1> QED BY <1>7, <1>8

LEMMA DeletedClean ==
  ASSUME TypeOK, NEW i \in Idents, RunClean(i), Deleted(i)
  PROVE  RunClean(i)'
<1> PICK d \in Sides : plan[i].dest = d /\ Emptied(d, i)
  BY DEF Deleted
<1> PICK s \in Sides : s = Other(d) /\ d = Other(s) /\ s # d
  BY DEF Sides, Other
<1>1. plan'[i] = None /\ \A s2 \in Sides : newst'[s2][i] = None
  BY DEF Deleted
<1>2. At(d, i)' = None /\ At(s, i)' = At(s, i)
  BY DEF Emptied, SparesOthers, Spared
<1>3. At(s, i) = None
  BY DEF Deleted, RunClean, Pending, Nothing
<1>4. \A s2 \in Sides : Nothing(s2, i)'
  BY <1>1, <1>2, <1>3 DEF Nothing, Sides, Other
<1> QED BY <1>1, <1>4 DEF RunClean, Pending

LEMMA TakenBackClean ==
  ASSUME TypeOK, NEW i \in Idents, RunClean(i), RunAgree(i), TakenBack(i)
  PROVE  RunClean(i)'
<1> PICK d \in ReadOnly :
       /\ plan[i].dest = d
       /\ MadeUp(newst'[d][i])
       /\ newst'[d][i].hash = plan[i].hash
       /\ newst'[Other(d)][i] = newst[Other(d)][i]
  BY DEF TakenBack
<1> PICK s \in Sides : s = Other(d) /\ d = Other(s) /\ s # d /\ d \in Sides
  BY OptionsAssumption DEF Sides, Other
<1>1. Pending(i, {"upload", "update", "settle"}) /\ plan'[i] = None /\ At(s, i)' = At(s, i)
  BY DEF TakenBack, RunAgree, Pending, UpdateOps, Spared
<1>2. Describes(s, i) /\ At(s, i).hash = plan[i].hash
  BY <1>1 DEF RunClean, Pending, UpdateOps
<1>3. PutOff(newst, d, i)'
  BY <1>1, <1>2 DEF PutOff, Describes
<1> QED BY <1>1, <1>3 DEF RunClean, Pending

LEMMA SkippedClean ==
  ASSUME TypeOK, NEW i \in Idents, RunClean(i), Skipped(i)
  PROVE  RunClean(i)'
<1> PICK d \in Sides : plan[i].dest = d /\ Keeps(d)
  BY DEF Skipped, Pending, TypeOK, Action
<1> PICK s \in Sides : s = Other(d) /\ d = Other(s)
  BY DEF Sides, Other
<1>1. plan'[i] = None /\ \A s2 \in Sides : newst'[s2][i] = None /\ At(s2, i)' = At(s2, i)
  BY DEF Skipped, Spared
<1>2. At(s, i) = None /\ At(d, i) # None
  BY DEF Skipped, RunClean, Pending, Nothing, Describes
<1>3. KeptBack(newst, d, i)'
  BY <1>1, <1>2 DEF KeptBack
<1> QED BY <1>1, <1>3 DEF RunClean, Pending

LEMMA ResolvedClean ==
  ASSUME TypeOK, NEW i \in Idents, RunClean(i), Resolved(i)
  PROVE  RunClean(i)'
<1>0. Pending(i, {"resolve"}) /\ \A s \in Sides : newst'[s][i] = newst[s][i] /\ At(s, i)' = At(s, i)
  BY DEF Resolved, RowsKept, Spared
<1>1. \A s \in Sides : Describes(s, i) /\ At(s, i).hash = newst[s][i].hash
                       /\ newst[s][i].hash \in Hashes
  BY <1>0, RowTyped DEF RunClean, Pending, Describes
<1>2. \A s \in Sides : Describes(s, i)'
  BY <1>0, <1>1 DEF Describes
<1>3. CASE SameOnBothSides(i) /\ plan'[i] = None
  <2>1. SameHash(i)'
    BY <1>0, <1>1, <1>3 DEF SameHash, SameOnBothSides, Sides
  <2> QED BY <1>2, <1>3, <2>1 DEF RunClean, Pending
<1>4. ASSUME NEW s \in Sides, plan'[i] = Act("settle", Other(s), newst[s][i].hash)
      PROVE  RunClean(i)'
  <2>1. /\ plan'[i] # None /\ plan'[i].op = "settle" /\ plan'[i].dest = Other(s)
        /\ plan'[i].hash = newst[s][i].hash
    BY <1>1, <1>4, ActRecord, SidesLemma DEF Ops, UpdateOps
  <2>2. \A s2 \in Sides : Other(s) = Other(s2) => s2 = s
    BY DEF Sides, Other
  <2> QED BY <1>0, <1>1, <1>2, <2>1, <2>2 DEF RunClean, Pending
<1>5. ASSUME NEW c \in Hashes, plan'[i] = Act("merge", "a", c)
      PROVE  RunClean(i)'
  <2>1. plan'[i] # None /\ plan'[i].op = "merge" /\ plan'[i].dest = "a"
    BY <1>5, ActRecord DEF Ops, UpdateOps, Sides
  <2> QED BY <1>2, <2>1 DEF RunClean, Pending
<1> QED BY <1>3, <1>4, <1>5 DEF Resolved

LEMMA OutcomeClean ==
  ASSUME TypeOK, AgreeInv, CleanInv, NEW i \in Idents, pc = "run", plan[i] # None,
         i \notin errors,
         \/ Failed(i) \/ Wrote(i) \/ Deleted(i)
         \/ TakenBack(i) \/ Skipped(i) \/ Resolved(i)
  PROVE  CleanInv'
<1>0. LeavesOthers(i) /\ pc' = "run" /\ UNCHANGED <<clean, quiet>> /\ errors \subseteq errors'
  BY DEF Failed, Wrote, Deleted, TakenBack, Skipped, Resolved, LeavesOthers
<1>1. ASSUME clean, NEW j \in Idents \ errors', j # i PROVE RunClean(j)'
  <2>1. RunClean(j)
    BY <1>0, <1>1 DEF CleanInv
  <2> QED BY <1>0, <1>1, <2>1, RunCleanKept DEF LeavesOthers, Spared
<1>2. ASSUME clean, i \notin errors' PROVE RunClean(i)'
  <2>1. RunClean(i) /\ RunAgree(i) /\ ~ Failed(i)
    BY <1>2 DEF CleanInv, AgreeInv, Failed
  <2> QED BY <2>1, WroteClean, DeletedClean, TakenBackClean, SkippedClean, ResolvedClean
<1> QED BY <1>0, <1>1, <1>2 DEF CleanInv

LEMMA ListClean ==
  ASSUME TypeOK, RowsInv, PlacesInv, CleanInv, List
  PROVE  CleanInv'
<1>0. UNCHANGED <<store, status, cur, clean, quiet>> /\ pc = "list" /\ pc' = "fetch"
      /\ cur \in Sides
  BY DEF List, storeVars, TypeOK
<1> PICK s \in Sides : s = cur
  BY <1>0
<1>1. ASSUME NEW i \in Idents PROVE Seen(s, i)' \/ (newst'[s][i] = None /\ HrefOf[i] \in todo')
  <2>1. newst'[s][i] = IF Unmodified(s, i) THEN status[s][i] ELSE None
    BY ListRows
  <2>2. \A j \in Idents : status[s][j] # None /\ status[s][j].href \in Hrefs =>
          status[s][j].href = HrefOf[j]
    BY NoneAssumption DEF PlacesInv, RowsPlaced, MadeUp
  <2>3. CASE Unmodified(s, i)
    BY <1>0, <2>1, <2>2, <2>3 DEF Unmodified, Holds, Seen, At
  <2>4. CASE ~ Unmodified(s, i) /\ At(s, i) = None
    BY <1>0, <2>1, <2>4 DEF Seen, Nothing, At
  <2>5. CASE ~ Unmodified(s, i) /\ At(s, i) # None
    <3>1. HrefOf[i] \in Hrefs /\ \A j \in Idents : HrefOf[j] = HrefOf[i] => j = i
      BY HrefOfAssumption
    <3>2. \A j \in ByHref(status, s, HrefOf[i]) : j = i
      BY <2>2, <3>1 DEF ByHref
    <3> QED BY <2>1, <2>5, <3>1, <3>2 DEF List, Listed, At
  <2> QED BY <2>3, <2>4, <2>5
<1>2. ASSUME clean, cur = "b", NEW i \in Idents PROVE Seen("a", i)'
  <2>1. Seen("a", i) /\ newst'["a"][i] = newst["a"][i]
    BY <1>0, <1>2, ListRows DEF CleanInv, Sides
  <2> QED BY <1>0, <2>1 DEF Seen, Nothing, At
<1> QED BY <1>0, <1>1, <1>2 DEF CleanInv, Seen, Nothing

LEMMA FetchClean ==
  ASSUME TypeOK, PlacesInv, CleanInv, NEW h \in Hrefs, Fetch(h)
  PROVE  CleanInv'
<1>0. UNCHANGED <<store, known, status, cur, pc, clean, quiet>> /\ pc = "fetch" /\ cur \in Sides
      /\ todo' = todo \ {h}
  BY DEF Fetch, storeVars, TypeOK
<1> PICK s \in Sides : s = cur
  BY <1>0
<1> PICK j \in Idents :
      /\ h = HrefOf[j] /\ At(s, j) # None
      /\ newst'[s][j] # None /\ newst'[s][j].etag = At(s, j).etag
      /\ \A s2 \in Sides, i \in Idents : s2 # s \/ i # j => newst'[s2][i] = newst[s2][i]
  BY FetchPlaced DEF PlacesInv
<1>1. \A s2 \in Sides, i \in Idents : At(s2, i)' = At(s2, i)
  BY <1>0 DEF At
<1>2. \A s2 \in Sides, i \in Idents : (s2 # s \/ i # j) /\ Seen(s2, i) => Seen(s2, i)'
  BY <1>1 DEF Seen, Nothing
<1>3. Seen(s, j)'
  BY <1>1 DEF Seen
<1>4. ASSUME clean, NEW i \in Idents, ~ (Seen(s, i)')
      PROVE  newst'[s][i] = None /\ HrefOf[i] \in todo'
  <2>1. i # j /\ HrefOf[i] # h
    BY <1>3, <1>4, HrefOfAssumption
  <2> QED BY <1>0, <1>2, <1>4, <2>1 DEF CleanInv
<1>5. ASSUME clean, cur = "b", NEW i \in Idents PROVE Seen("a", i)'
  BY <1>0, <1>2, <1>5 DEF CleanInv, Sides
<1> QED BY <1>0, <1>4, <1>5 DEF CleanInv, Seen, Nothing

LEMMA PlanClean ==
  ASSUME TypeOK, PlacesInv, CleanInv, AgreeInv', Plan
  PROVE  CleanInv'
<1>0. UNCHANGED <<store, known, status, newst, clean, quiet, errors>> /\ pc = "fetch" /\ pc' = "run"
      /\ \A i \in Idents : plan'[i] = ActionFor(i)
  BY DEF Plan, Prepared, storeVars
<1>1. ASSUME clean, NEW i \in Idents PROVE RunClean(i)'
  <2>1. \A s \in Sides : Seen(s, i)
    BY <1>0, <1>1 DEF Plan, Prepared, CleanInv, Sides
  <2>2. \A s \in Sides : newst'[s][i] = newst[s][i] /\ At(s, i)' = At(s, i)
    BY <1>0 DEF At
  <2>3. \A s \in Sides : /\ newst[s][i] = None => Nothing(s, i)'
                         /\ newst[s][i] # None => Describes(s, i)' /\ LooksSame(newst[s][i], s, i)'
    BY <2>1, <2>2 DEF Seen, Nothing, Describes, LooksSame
  <2>4. RunAgree(i)'
    BY <1>0 DEF AgreeInv
  <2>5. CASE NoRows(i)
    <3>1. plan'[i] = None /\ \A s \in Sides : Nothing(s, i)'
      BY <1>0, <2>3, <2>5, PlannedAction DEF NoRows
    <3> QED BY <3>1 DEF RunClean, Pending
  <2>6. ASSUME NEW s \in Sides, newst[s][i] # None, newst[Other(s)][i] = None
        PROVE  RunClean(i)'
    <3>0. /\ Other(s) \in Sides /\ Other(Other(s)) = s
          /\ \A s2 \in Sides : (Other(s) = Other(s2) => s2 = s) /\ (s = Other(s2) => s2 = Other(s))
      BY DEF Sides, Other
    <3>1. Describes(s, i)' /\ LooksSame(newst[s][i], s, i)' /\ Nothing(Other(s), i)'
      BY <2>3, <2>6, <3>0
    <3>2. CASE IsChanged(s, i)
      <4>1. plan'[i] = Act("upload", Other(s), newst[s][i].hash)
        BY <1>0, <2>6, <3>2, PlannedAction
      <4>2. /\ plan'[i].op = "upload" /\ plan'[i].dest = Other(s) /\ plan'[i] # None
        BY <2>6, <4>1, ActRecord, RowTyped, SidesLemma DEF Ops
      <4>3. At(s, i)'.hash = plan'[i].hash
        BY <1>0, <2>4, <3>1, <4>2 DEF RunAgree, Pending, Holding
      <4> QED BY <3>0, <3>1, <4>2, <4>3 DEF RunClean, Pending, UpdateOps
    <3>3. CASE ~ IsChanged(s, i)
      <4>1. plan'[i] = Act("delete", s, newst[s][i].hash)
        BY <1>0, <2>6, <3>3, PlannedAction
      <4>2. plan'[i].op = "delete" /\ plan'[i].dest = s /\ plan'[i] # None
        BY <2>6, <4>1, ActRecord, RowTyped DEF Ops
      <4>3. \A s2 \in Sides : s = Other(s2) => Nothing(s2, i)' /\ Describes(Other(s2), i)'
        <5> SUFFICES ASSUME NEW s2 \in Sides, s = Other(s2)
                     PROVE  Nothing(s2, i)' /\ Describes(Other(s2), i)'
          OBVIOUS
        <5>1. s2 = Other(s)
          BY <3>0
        <5> QED BY <3>0, <3>1, <5>1
      <4> QED BY <4>2, <4>3 DEF RunClean, Pending, UpdateOps
    <3> QED BY <3>2, <3>3
  <2>7. CASE BothRows(i)
    <3>1. \A s \in Sides : Describes(s, i)' /\ LooksSame(newst[s][i], s, i)'
      BY <2>3, <2>7 DEF BothRows
    <3>2. CASE plan'[i] = None
      <4>1. SameHash(i)'
        BY <2>4, <3>1, <3>2 DEF RunAgree, Agree, Sides
      <4> QED BY <3>1, <3>2, <4>1 DEF RunClean, Pending
    <3>3. ASSUME NEW s \in Sides, plan'[i] = Act("update", Other(s), newst[s][i].hash)
          PROVE  RunClean(i)'
      <4>1. plan'[i].op = "update" /\ plan'[i].dest = Other(s) /\ plan'[i] # None
        BY <2>7, <3>3, ActRecord, RowTyped, SidesLemma DEF BothRows, Ops, UpdateOps
      <4>2. \A s2 \in Sides : Other(s) = Other(s2) => s2 = s
        BY DEF Sides, Other
      <4>3. At(s, i)'.hash = plan'[i].hash
        BY <1>0, <2>4, <3>1, <4>1 DEF RunAgree, Pending, Holding
      <4> QED BY <3>1, <4>1, <4>2, <4>3 DEF RunClean, Pending
    <3>4. CASE plan'[i] = Act("resolve", "a", newst["a"][i].hash)
      <4>1. plan'[i].op = "resolve" /\ plan'[i] # None
        BY <2>7, <3>4, ActRecord, RowTyped DEF BothRows, Sides, Ops
      <4>2. \A s \in Sides : At(s, i)'.hash = newst'[s][i].hash
        BY <1>0, <2>4, <3>1, <4>1 DEF RunAgree, Pending, Holding
      <4> QED BY <3>1, <4>1, <4>2 DEF RunClean, Pending
    <3>5. \/ plan'[i] = None
          \/ \E s \in Sides : plan'[i] = Act("update", Other(s), newst[s][i].hash)
          \/ plan'[i] = Act("resolve", "a", newst["a"][i].hash)
      BY <1>0, <2>7, PlannedAction DEF Sides, Other
    <3> QED BY <3>2, <3>3, <3>4, <3>5
  <2>8. \/ NoRows(i) \/ BothRows(i)
        \/ \E s \in Sides : newst[s][i] # None /\ newst[Other(s)][i] = None
    BY DEF BothRows, NoRows, Sides, Other
  <2> QED BY <2>5, <2>6, <2>7, <2>8
<1> QED BY <1>0, <1>1 DEF CleanInv

LEMMA CleanStep ==
  ASSUME TakesOrReverts, TypeOK, RowsInv, PlacesInv, AgreeInv, AgreeInv', CleanInv, [Next]_vars
  PROVE  CleanInv'
<1>1. CASE Editor
  BY <1>1, EditorPlain DEF EditStep, CleanInv
<1>2. ASSUME Abort PROVE CleanInv'
  BY <1>2 DEF Abort, EndOfSync, CleanInv
<1>3. CASE \E f \in BOOLEAN, p \in PartialSync : StartSync(f, p)
  <2>1. cur' = "a" /\ pc' = "list" /\ clean'
    BY <1>3 DEF StartSync, RowsInv, PrepareInv
  <2> QED BY <2>1 DEF CleanInv
<1>4. CASE NextSide
  <2>1. UNCHANGED <<store, newst, clean, quiet>> /\ pc' = "list" /\ pc = "fetch"
        /\ cur = "a" /\ todo = {}
    BY <1>4 DEF NextSide, storeVars
  <2>2. clean => \A i \in Idents : Seen("a", i)'
    BY <2>1 DEF CleanInv, Seen, Nothing, At
  <2> QED BY <2>1, <2>2 DEF CleanInv
<1>5. CASE Prepare
  BY <1>2, <1>4, <1>5, ListClean, FetchClean, PlanClean DEF Prepare, FetchFails, RefuseEmpty
<1>6. ASSUME NEW i \in Idents, RunAction(i) PROVE CleanInv'
  <2>1. pc = "run" /\ plan[i] # None
        /\ \/ Failed(i) \/ Abort \/ Wrote(i) \/ Deleted(i)
           \/ TakenBack(i) \/ Skipped(i) \/ Resolved(i)
    BY <1>6, RunPlain
  <2>2. i \notin errors
    BY <2>1 DEF RowsInv, RunInv
  <2> QED BY <1>2, <2>1, <2>2, OutcomeClean
<1>7. ASSUME NEW i \in Idents, NEW effect \in BOOLEAN, RequestFails(i, effect) PROVE CleanInv'
  <2>1. pc = "run" /\ plan[i] # None /\ (Failed(i) \/ Abort)
    BY <1>7, RequestPlain
  <2>2. i \notin errors
    BY <2>1 DEF RowsInv, RunInv
  <2> QED BY <1>2, <2>1, <2>2, OutcomeClean
<1>8. CASE Commit
  BY <1>8 DEF Commit, EndOfSync, CleanInv
<1>9. CASE CommitRejected
  BY <1>2, <1>9 DEF CommitRejected
<1>10. CASE Interrupted
  BY <1>2, <1>10 DEF Interrupted
<1>11. CASE UNCHANGED vars
  <2>1. UNCHANGED <<store, newst, pc, cur, todo, plan, errors, clean, quiet>>
    BY <1>11 DEF vars
  <2> QED BY <2>1 DEF CleanInv, RunClean, Seen, Nothing, Describes, KeptBack, PutOff, SameHash,
                      Pending, At
<1> QED BY <1>1, <1>3, <1>5, <1>6, <1>7, <1>8, <1>9, <1>10, <1>11 DEF Next, Progress, Faults

-----------------------------------------------------------------------------
(* What an undisturbed successful sync leaves, and the next ones keep.     *)
(* After the first one, the status knows what every change has come to;    *)
(* after the second one, the sides agree.                                  *)
Settles(i) ==
  \/ \A s \in Sides : status[s][i] = None /\ At(s, i) = None
  \/ SameHash(i) /\ \A s \in Sides : status[s][i] # None /\ At(s, i) # None
  \/ \E s \in Sides : KeptBack(status, s, i) \/ PutOff(status, s, i)

OwnItem(s, i) == KeepsItsOwn(s) /\ At(s, i) # None /\ At(Other(s), i) = None

Alike(i) ==
  \/ \A s \in Sides : At(s, i) = None
  \/ SameHash(i) /\ \A s \in Sides : At(s, i) # None
  \/ \E s \in Sides : OwnItem(s, i)

(* What is left to do in the second sync makes the sides agree.            *)
RunSettles(i) ==
  /\ plan[i] = None => Alike(i)
  /\ Pending(i, {"update", "settle"}) => SameHash(i) \/ plan[i].dest \notin ReadOnly
  /\ Pending(i, {"upload"}) => plan[i].dest \notin ReadOnly \/ KeepsItsOwn(Other(plan[i].dest))
  /\ Pending(i, {"delete"}) => ~ Keeps(plan[i].dest) \/ KeepsItsOwn(plan[i].dest)
  /\ Pending(i, {"resolve"}) => SameHash(i)
  /\ ~ Pending(i, {"merge"})

(* The rows of settled sides are those of the items that are there.        *)
Listing(i) ==
  \A s \in Sides :
    (\A x \in Sides : ~ KeepsItsOwn(x)) => (status[s][i] # None <=> At(s, i) # None)

SettledInv ==
  /\ quiet > 0 /\ pc # "run" => \A i \in Idents : Settles(i)
  /\ quiet > 0 /\ pc = "run" => \A i \in Idents \ errors : RunSettles(i)
  /\ Settled => \A i \in Idents : Alike(i) /\ Listing(i)

LEMMA SettledQuiet == TypeOK /\ Settled => quiet > 0
BY DEF TypeOK, Settled, SyncsNeeded

LEMMA SettledKept ==
  ASSUME NEW i \in Idents, \A s \in Sides : At(s, i)' = At(s, i)
  PROVE  /\ Alike(i) => Alike(i)'
         /\ (\A s \in Sides : status'[s][i] = status[s][i]) =>
              /\ Settles(i) => Settles(i)'
              /\ Listing(i) => Listing(i)'
         /\ pc' = pc /\ plan'[i] = plan[i] /\ RunSettles(i) => RunSettles(i)'
<1>1. \A s \in Sides : Other(s) \in Sides
  BY SidesLemma
<1>2. SameHash(i)' <=> SameHash(i)
  BY DEF SameHash, Sides
<1>3. Alike(i) <=> Alike(i)'
  BY <1>1, <1>2 DEF Alike, OwnItem
<1>4. ASSUME \A s \in Sides : status'[s][i] = status[s][i], Settles(i)
      PROVE  Settles(i)'
  <2>1. \A s \in Sides : /\ KeptBack(status, s, i) => KeptBack(status, s, i)'
                         /\ PutOff(status, s, i) => PutOff(status, s, i)'
    BY <1>1, <1>4 DEF KeptBack, PutOff
  <2> QED BY <1>2, <1>4, <2>1 DEF Settles
<1>5. ASSUME \A s \in Sides : status'[s][i] = status[s][i], Listing(i)
      PROVE  Listing(i)'
  BY <1>5 DEF Listing
<1>6. ASSUME pc' = pc, plan'[i] = plan[i], RunSettles(i)
      PROVE  RunSettles(i)'
  <2>1. \A ops : Pending(i, ops)' <=> Pending(i, ops)
    BY <1>6 DEF Pending
  <2> QED BY <1>2, <1>3, <1>6, <2>1 DEF RunSettles
<1> QED BY <1>3, <1>4, <1>5, <1>6

(* A write makes an ident alike on both sides; settled idents are only     *)
(* written to where they are.                                              *)
LEMMA WriteSettles ==
  ASSUME TypeOK, NEW i \in Idents, pc = "run", RunClean(i), RunSettles(i),
         NEW d \in Sides \ ReadOnly, NEW c \in Hashes, plan[i].dest = d, plan[i].hash = c,
         Pending(i, {"upload"} \cup UpdateOps), Written(d, i, c)
  PROVE  /\ SameHash(i)' /\ \A s \in Sides : At(s, i)' # None
         /\ Alike(i) => Pending(i, UpdateOps) /\ \A s \in Sides : At(s, i) # None
<1> PICK s \in Sides : s = Other(d) /\ d = Other(s) /\ s # d
  BY DEF Sides, Other
<1>1. At(s, i)' = At(s, i) /\ At(d, i)' # None /\ At(d, i)'.hash = c
  BY DEF Written, SparesOthers, Spared
<1>2. Pending(i, {"upload", "update", "settle"}) /\ plan[i] # None
  BY DEF RunSettles, Pending, UpdateOps
<1>3. At(s, i) # None /\ At(s, i).hash = c
  BY <1>2 DEF RunClean, Pending, UpdateOps, Describes
<1>4. SameHash(i)' /\ \A s2 \in Sides : At(s2, i)' # None
  BY <1>1, <1>3 DEF SameHash, Sides, Other
<1>5. CASE Pending(i, {"upload"})
  <2>1. At(d, i) = None
    BY <1>2, <1>5 DEF RunClean, Nothing
  <2>2. ~ OwnItem(s, i) /\ ~ OwnItem(d, i)
    BY <2>1 DEF OwnItem, KeepsItsOwn
  <2> QED BY <1>3, <1>4, <2>1, <2>2 DEF Alike, Sides, Other
<1>6. CASE ~ Pending(i, {"upload"})
  <2>1. Pending(i, UpdateOps)
    BY <1>6 DEF Pending, UpdateOps
  <2> QED BY <1>4, <2>1 DEF RunClean, Pending, Describes
<1> QED BY <1>5, <1>6

LEMMA RemovalSettles ==
  ASSUME TypeOK, NEW i \in Idents, pc = "run", RunClean(i),
         NEW d \in Sides, plan[i].dest = d, ~ Keeps(d), Pending(i, {"delete"}), Emptied(d, i)
  PROVE  ~ Alike(i) /\ \A s \in Sides : At(s, i)' = None
<1> PICK s \in Sides : s = Other(d) /\ d = Other(s) /\ s # d
  BY DEF Sides, Other
<1>1. At(s, i) = None /\ At(d, i) # None
  BY DEF RunClean, Pending, Nothing, Describes
<1>2. At(s, i)' = At(s, i) /\ At(d, i)' = None
  BY DEF Emptied, SparesOthers, Spared
<1>3. ~ OwnItem(s, i) /\ ~ OwnItem(d, i)
  BY <1>1 DEF OwnItem, KeepsItsOwn, Keeps
<1> QED BY <1>1, <1>2, <1>3 DEF Alike, Sides, Other

(* When an action of the second sync has run, its ident is settled.        *)
LEMMA RunSettled ==
  ASSUME TypeOK, NEW i \in Idents, pc = "run", RunClean(i), RunAgree(i), RunSettles(i),
         Wrote(i) \/ Deleted(i) \/ TakenBack(i) \/ Skipped(i) \/ Resolved(i)
  PROVE  RunSettles(i)'
<1> SUFFICES plan'[i] = None /\ Alike(i)'
  BY DEF RunSettles, Pending
<1>1. CASE Wrote(i)
  <2>1. plan'[i] = None
    BY <1>1 DEF Wrote, Uploaded, Updated, Merged, RunSettles, Pending
  <2>2. SameHash(i)' /\ \A s \in Sides : At(s, i)' # None
    BY <1>1, WriteSettles DEF Wrote, Uploaded, Updated, Merged, Pending, UpdateOps
  <2> QED BY <2>1, <2>2 DEF Alike
<1>2. CASE Deleted(i)
  BY <1>2, RemovalSettles DEF Deleted, Alike
<1>3. CASE TakenBack(i)
  <2>0. plan[i].dest \in ReadOnly /\ plan[i] # None /\ plan'[i] = None /\ \A s \in Sides : Spared(s, i)
    BY <1>3 DEF TakenBack, Pending, RunSettles
  <2> PICK d \in ReadOnly : d = plan[i].dest
    BY <2>0
  <2> PICK s \in Sides : s = Other(d) /\ d = Other(s) /\ s # d /\ d \in Sides
    BY OptionsAssumption DEF Sides, Other
  <2>1. Pending(i, {"upload", "update", "settle"})
    BY <1>3 DEF TakenBack, RunAgree, RunSettles, Pending, UpdateOps
  <2>2. CASE Pending(i, {"upload"})
    <3>1. KeepsItsOwn(s) /\ At(s, i) # None /\ At(Other(s), i) = None
      BY <2>0, <2>2 DEF RunSettles, RunClean, Describes, Nothing
    <3>2. Alike(i)
      BY <3>1 DEF Alike, OwnItem
    <3> QED BY <2>0, <3>2, SettledKept DEF Spared
  <2>3. CASE Pending(i, {"update", "settle"})
    <3>1. SameHash(i) /\ \A s2 \in Sides : At(s2, i) # None
      BY <2>0, <2>3 DEF RunSettles, RunClean, Describes, Pending, UpdateOps
    <3>2. Alike(i)
      BY <3>1 DEF Alike
    <3> QED BY <2>0, <3>2, SettledKept DEF Spared
  <2> QED BY <2>1, <2>2, <2>3 DEF Pending
<1>4. CASE Skipped(i)
  <2> PICK d \in Sides : d = plan[i].dest
    BY <1>4 DEF Skipped, Pending, TypeOK, Action
  <2> PICK s \in Sides : s = Other(d) /\ d = Other(s)
    BY DEF Sides, Other
  <2>1. KeepsItsOwn(d) /\ At(s, i) = None /\ At(d, i) # None
    BY <1>4 DEF Skipped, RunSettles, RunClean, Pending, Nothing, Describes
  <2>2. Alike(i)
    BY <2>1 DEF Alike, OwnItem
  <2> QED BY <1>4, <2>2, SettledKept DEF Skipped, Spared
<1>5. CASE Resolved(i)
  <2>1. SameHash(i) /\ \A s \in Sides : At(s, i) # None /\ At(s, i).hash = newst[s][i].hash
    BY <1>5 DEF Resolved, RunSettles, RunClean, Pending, Describes
  <2>2. SameOnBothSides(i) /\ Alike(i)
    BY <2>1 DEF SameHash, SameOnBothSides, Alike, Sides
  <2> QED BY <1>5, <2>2, SettledKept DEF Resolved, RowsKept, Spared
<1> QED BY <1>1, <1>2, <1>3, <1>4, <1>5

LEMMA OutcomeSettled ==
  ASSUME TypeOK, AgreeInv, CleanInv, SettledInv, NEW i \in Idents, pc = "run", plan[i] # None,
         i \notin errors,
         \/ Failed(i) /\ Effect(i)
         \/ Wrote(i) \/ Deleted(i) \/ TakenBack(i) \/ Skipped(i) \/ Resolved(i)
  PROVE  SettledInv'
<1>0. LeavesOthers(i) /\ UNCHANGED <<status, quiet, pc>> /\ errors \subseteq errors'
      /\ (Settled' <=> Settled)
  BY DEF Failed, Wrote, Deleted, TakenBack, Skipped, Resolved, LeavesOthers, Settled
<1> SUFFICES ASSUME quiet > 0 PROVE SettledInv'
  BY <1>0, SettledQuiet DEF SettledInv
<1>1. RunClean(i) /\ RunAgree(i) /\ RunSettles(i)
  BY DEF CleanInv, AgreeInv, SettledInv
<1>2. ASSUME NEW j \in Idents \ {i}
      PROVE  /\ j \notin errors' => RunSettles(j)'
             /\ Settled => Alike(j)' /\ Listing(j)'
  <2>1. plan'[j] = plan[j] /\ \A s \in Sides : At(s, j)' = At(s, j)
    BY <1>0 DEF LeavesOthers, Spared
  <2> QED BY <1>0, <1>2, <2>1, SettledKept DEF SettledInv
<1>3. i \notin errors' => RunSettles(i)'
  BY <1>1, RunSettled DEF Failed
<1>4. ASSUME Settled PROVE Alike(i)' /\ Listing(i)'
  <2>0. Alike(i) /\ Listing(i)
    BY <1>4 DEF SettledInv
  <2>1. ASSUME \A s \in Sides : Spared(s, i) PROVE Alike(i)' /\ Listing(i)'
    BY <1>0, <2>0, <2>1, SettledKept DEF Spared
  <2>2. ASSUME NEW d \in Sides \ ReadOnly, NEW c \in Hashes, plan[i].dest = d, plan[i].hash = c,
               Pending(i, {"upload"} \cup UpdateOps), Written(d, i, c)
        PROVE  Alike(i)' /\ Listing(i)'
    <3>1. SameHash(i)' /\ \A s \in Sides : At(s, i)' # None /\ At(s, i) # None
      BY <1>1, <2>0, <2>2, WriteSettles
    <3> QED BY <1>0, <2>0, <3>1 DEF Alike, Listing
  <2>3. ASSUME NEW d \in Sides, plan[i].dest = d, ~ Keeps(d), Pending(i, {"delete"}), Emptied(d, i)
        PROVE  FALSE
    BY <1>1, <2>0, <2>3, RemovalSettles
  <2>4. CASE Wrote(i)
    BY <2>2, <2>4 DEF Wrote, Uploaded, Updated, Merged, Pending, UpdateOps
  <2>5. CASE Effect(i)
    BY <2>1, <2>2, <2>3, <2>5 DEF Effect
  <2>6. CASE TakenBack(i) \/ Skipped(i) \/ Resolved(i)
    BY <2>1, <2>6 DEF TakenBack, Skipped, Resolved, RowsKept
  <2> QED BY <2>3, <2>4, <2>5, <2>6 DEF Deleted
<1> QED BY <1>0, <1>2, <1>3, <1>4 DEF SettledInv

(* The rows of settled sides as they are read again.                       *)
LEMMA ReadAgain ==
  ASSUME TypeOK, AgreeInv, pc = "fetch", NEW s \in Sides, NEW i \in Idents,
         Seen(s, i), At(s, i) # None, status[s][i] # None,
         Holding(status[s][i], s, i, status[s][i].hash) \/ At(s, i).hash = status[s][i].hash
  PROVE  At(s, i).hash = status[s][i].hash => newst[s][i] # None /\ ~ IsChanged(s, i)
<1> SUFFICES ASSUME At(s, i).hash = status[s][i].hash
             PROVE  newst[s][i] # None /\ ~ IsChanged(s, i)
  OBVIOUS
<1>1. newst[s][i] # None /\ newst[s][i].etag = At(s, i).etag
  BY DEF Seen, Nothing
<1>2. ReadNow(s, i) /\ LooksSame(newst[s][i], s, i)
  BY <1>1 DEF AgreeInv, LooksSame
<1>3. newst[s][i].hash = status[s][i].hash
  BY <1>2 DEF ReadNow, Holding
<1> QED BY <1>1, <1>3 DEF IsChanged

LEMMA PlanSettles ==
  ASSUME TakesOrReverts, TypeOK, PlacesInv, AgreeInv, Plan, NEW i \in Idents,
         \A s \in Sides : Seen(s, i), RunClean(i)', Settles(i)
  PROVE  RunSettles(i)'
<1>0. /\ UNCHANGED <<store, known, status, newst>> /\ pc = "fetch" /\ pc' = "run"
      /\ plan'[i] = ActionFor(i)
      /\ \A s \in Sides : At(s, i)' = At(s, i)
  BY DEF Plan, Prepared, storeVars, At
<1>1. SameHash(i)' <=> SameHash(i)
  BY <1>0 DEF SameHash, Sides
<1>2. \A s \in Sides : /\ newst[s][i] # None <=> At(s, i) # None
                       /\ ~ MadeUp(newst[s][i])
  BY <1>0, ReadFound DEF Seen, Nothing, MadeUp
<1>3. CASE NoRows(i)
  <2>1. plan'[i] = None
    BY <1>0, <1>3, PlannedAction
  <2>2. Alike(i)'
    BY <1>0, <1>2, <1>3 DEF NoRows, Alike
  <2> QED BY <2>1, <2>2 DEF RunSettles, Pending
<1>4. ASSUME BothRows(i), SameHash(i) PROVE RunSettles(i)'
  <2>1. Alike(i)'
    BY <1>0, <1>1, <1>2, <1>4 DEF BothRows, Alike
  <2>2. ASSUME NEW s \in Sides, plan'[i] = Act("update", Other(s), newst[s][i].hash)
        PROVE  RunSettles(i)'
    <3>1. plan'[i].op = "update" /\ plan'[i] # None
      BY <1>4, <2>2, ActRecord, RowTyped, SidesLemma DEF BothRows, Ops, UpdateOps
    <3> QED BY <1>1, <1>4, <3>1 DEF RunSettles, Pending
  <2>3. CASE plan'[i] = Act("resolve", "a", newst["a"][i].hash)
    <3>1. plan'[i].op = "resolve" /\ plan'[i] # None
      BY <1>4, <2>3, ActRecord, RowTyped DEF BothRows, Sides, Ops
    <3> QED BY <1>1, <1>4, <3>1 DEF RunSettles, Pending
  <2>4. \/ plan'[i] = None
        \/ \E s \in Sides : plan'[i] = Act("update", Other(s), newst[s][i].hash)
        \/ plan'[i] = Act("resolve", "a", newst["a"][i].hash)
    BY <1>0, <1>4, PlannedAction DEF Sides, Other
  <2> QED BY <2>1, <2>2, <2>3, <2>4 DEF RunSettles, Pending
<1>5. ASSUME NEW s \in Sides, KeptBack(status, s, i) PROVE RunSettles(i)'
  <2>0. Other(s) \in Sides /\ Other(Other(s)) = s
    BY DEF Sides, Other
  <2>1. newst[s][i] # None /\ newst[Other(s)][i] = None /\ IsChanged(s, i)
    BY <1>2, <1>5, <2>0 DEF KeptBack, IsChanged
  <2>2. plan'[i] = Act("upload", Other(s), newst[s][i].hash)
    BY <1>0, <2>1, PlannedAction
  <2>3. plan'[i].op = "upload" /\ plan'[i].dest = Other(s) /\ plan'[i] # None
    BY <2>0, <2>1, <2>2, ActRecord, RowTyped DEF Ops
  <2>4. Other(s) \notin ReadOnly \/ KeepsItsOwn(s)
    BY <1>5, OptionsAssumption DEF KeptBack, Keeps, KeepsItsOwn, TakesOrReverts, Sides, Other
  <2> QED BY <2>0, <2>3, <2>4 DEF RunSettles, Pending
<1>6. ASSUME NEW s \in Sides, PutOff(status, s, i) PROVE RunSettles(i)'
  <2> PICK o \in Sides : o = Other(s) /\ s = Other(o) /\ o # s
    BY DEF Sides, Other
  <2>0. s \in ReadOnly /\ o \notin ReadOnly
    BY <1>6, MadeUpAgrees DEF PutOff, PlacesInv
  <2>1. status[o][i] # None /\ At(o, i) # None /\ At(o, i).hash = status[o][i].hash
    BY <1>6 DEF PutOff, AgreeInv, Agree, Mirrors
  <2>2. newst[o][i] # None /\ ~ IsChanged(o, i)
    BY <1>0, <2>1, ReadAgain
  <2>3. CASE newst[s][i] = None
    <3>1. plan'[i] = Act("delete", o, newst[o][i].hash)
      BY <1>0, <2>2, <2>3, PlannedAction
    <3>2. plan'[i].op = "delete" /\ plan'[i].dest = o /\ plan'[i] # None
      <4>1. newst[o][i].hash \in Hashes /\ "delete" \in Ops
        BY <2>2, RowTyped DEF Ops
      <4>2. /\ plan'[i].op = "delete" /\ plan'[i].hash = newst[o][i].hash
            /\ plan'[i].dest = o /\ plan'[i] # None
        <5>1. o \in Sides
          OBVIOUS
        <5> QED BY ONLY <3>1, <4>1, <5>1, ActRecord
      <4> QED BY <4>2
    <3>3. ~ Keeps(o) \/ KeepsItsOwn(o)
      BY <2>0 DEF Keeps, KeepsItsOwn
    <3> QED BY <3>2, <3>3 DEF RunSettles, Pending
  <2>4. CASE newst[s][i] # None
    <3>1. BothRows(i)
      BY <2>2, <2>4 DEF BothRows, Sides, Other
    <3>2. CASE IsChanged(s, i)
      <4>1. plan'[i] = Act("update", o, newst[s][i].hash)
        BY <1>0, <2>2, <3>1, <3>2, PlannedAction
      <4>2. plan'[i].op = "update" /\ plan'[i].dest = o /\ plan'[i] # None
        <5>1. newst[s][i].hash \in Hashes /\ "update" \in Ops
          BY <2>4, RowTyped DEF Ops, UpdateOps
        <5>2. o \in Sides
          OBVIOUS
        <5> QED BY ONLY <4>1, <5>1, <5>2, ActRecord
      <4> QED BY <2>0, <4>2 DEF RunSettles, Pending
    <3>3. CASE ~ IsChanged(s, i)
      <4>1. plan'[i] = None
        BY <1>0, <2>2, <3>1, <3>3, PlannedAction DEF Sides, Other
      <4>2. SameHash(i)'
        BY <1>0, <1>2, <3>1, <4>1 DEF RunClean, Nothing, KeptBack, PutOff, BothRows, Sides
      <4> QED BY <1>1, <1>4, <3>1, <4>2
    <3> QED BY <3>2, <3>3
  <2> QED BY <2>3, <2>4
<1>7. CASE SameHash(i) /\ \A s \in Sides : At(s, i) # None
  BY <1>2, <1>4, <1>7 DEF BothRows
<1>8. CASE \A s \in Sides : At(s, i) = None
  BY <1>2, <1>3, <1>8 DEF NoRows
<1> QED BY <1>5, <1>6, <1>7, <1>8 DEF Settles

(* What Commit makes of an ident.                                          *)
LEMMA CommitSettles ==
  ASSUME TypeOK, PlacesInv, CleanInv, SettledInv, Commit, quiet' > 0, NEW i \in Idents
  PROVE  /\ Settles(i)'
         /\ Settled' => Alike(i)' /\ Listing(i)'
<1>1. /\ UNCHANGED store /\ status' = newst /\ pc' = "idle" /\ pc = "run" /\ plan = NoPlan
      /\ clean /\ errors = {}
      /\ quiet' = (IF quiet < 3 THEN quiet + 1 ELSE 3)
  BY DEF Commit, EndOfSync, AllRun, storeVars
<1>2. RunClean(i) /\ plan[i] = None /\ \A s \in Sides : At(s, i)' = At(s, i)
  BY <1>1 DEF CleanInv, NoPlan, At
<1>3. /\ SameHash(i) => SameHash(i)'
      /\ Alike(i) => Alike(i)'
  BY <1>2, SettledKept DEF SameHash, Sides
<1>4. \A s \in Sides : /\ KeptBack(newst, s, i) => KeptBack(status, s, i)'
                       /\ PutOff(newst, s, i) => PutOff(status, s, i)'
  BY <1>1, <1>2, SidesLemma DEF KeptBack, PutOff
<1>5. Settles(i)'
  BY <1>1, <1>2, <1>3, <1>4 DEF RunClean, Nothing, Describes, Settles
<1>6. ASSUME Settled' PROVE Alike(i)
  <2>1. CASE quiet > 0
    BY <1>1, <1>2, <2>1 DEF SettledInv, RunSettles
  <2>2. CASE ~ (quiet > 0)
    <3>1. quiet = 0 /\ quiet' = 1
      BY <1>1, <2>2 DEF TypeOK
    <3>2. ReadOnly \cup NoDelete = {}
      BY <1>6, <3>1 DEF Settled, SyncsNeeded
    <3>3. \A s \in Sides : ~ KeptBack(newst, s, i) /\ ~ PutOff(newst, s, i)
      BY <3>2, TableRows DEF KeptBack, PutOff, Keeps, MadeUp
    <3> QED BY <1>2, <3>3 DEF RunClean, Nothing, Describes, Alike
  <2> QED BY <2>1, <2>2
<1>7. ASSUME Settled' PROVE Listing(i)'
  <2> SUFFICES ASSUME \A x \in Sides : ~ KeepsItsOwn(x), NEW s \in Sides
               PROVE  newst[s][i] # None <=> At(s, i) # None
    BY <1>1, <1>2 DEF Listing
  <2>1. \/ \A x \in Sides : At(x, i) = None
        \/ \A x \in Sides : At(x, i) # None
    BY <1>6, <1>7 DEF Alike, OwnItem
  <2>2. \A x \in Sides : PutOff(newst, x, i) => \A y \in Sides : newst[y][i] # None
    BY DEF PutOff, MadeUp, Sides, Other
  <2>3. \A x \in Sides : ~ KeptBack(newst, x, i)
    BY <2>1, SidesLemma DEF KeptBack
  <2>4. \A x \in Sides : PutOff(newst, x, i) => At(Other(x), i) # None
    BY DEF PutOff
  <2> QED BY <1>2, <2>1, <2>2, <2>3, <2>4, SidesLemma DEF RunClean, Nothing, Describes
<1> QED BY <1>3, <1>5, <1>6, <1>7

LEMMA SettledStep ==
  ASSUME TakesOrReverts, TypeOK, TypeOK', RowsInv, PlacesInv, AgreeInv, CleanInv, CleanInv',
         SettledInv, [Next]_vars
  PROVE  SettledInv'
<1>0. ASSUME UNCHANGED <<store, status, quiet>>, pc \notin {"run"}, pc' \notin {"run"}
      PROVE  SettledInv'
  <2>1. \A s \in Sides, i \in Idents : At(s, i)' = At(s, i) /\ status'[s][i] = status[s][i]
    BY <1>0 DEF At
  <2>2. Settled' <=> Settled
    BY <1>0 DEF Settled
  <2> QED BY <1>0, <2>1, <2>2, SettledKept DEF SettledInv
<1>1. ASSUME quiet' = 0 PROVE SettledInv'
  <2>1. ~ Settled'
    BY <1>1, SettledQuiet DEF Settled, SyncsNeeded
  <2> QED BY <1>1, <2>1 DEF SettledInv
<1>2. CASE Editor
  BY <1>1, <1>2, EditorPlain DEF EditStep
<1>3. CASE (\E f \in BOOLEAN, p \in PartialSync : StartSync(f, p)) \/ NextSide \/ List
           \/ (\E h \in Hrefs : Fetch(h))
  <2>1. UNCHANGED <<store, status, quiet>> /\ pc # "run" /\ pc' # "run"
    BY <1>3 DEF StartSync, NextSide, List, Fetch, storeVars
  <2> QED BY <1>0, <2>1
<1>4. CASE Plan
  <2>1. UNCHANGED <<store, status, quiet, clean, errors>> /\ pc = "fetch" /\ pc' = "run"
        /\ cur = "b" /\ todo = {}
    BY <1>4 DEF Plan, Prepared, storeVars
  <2>2. ASSUME quiet > 0, NEW i \in Idents, i \notin errors' PROVE RunSettles(i)'
    <3>1. clean /\ clean'
      BY <2>1, <2>2 DEF CleanInv
    <3>2. \A s \in Sides : Seen(s, i)
      BY <2>1, <3>1 DEF CleanInv, Sides
    <3>3. RunClean(i)' /\ Settles(i)
      BY <2>1, <2>2, <3>1 DEF CleanInv, SettledInv
    <3> QED BY <1>4, <3>2, <3>3, PlanSettles
  <2>3. ASSUME Settled', NEW i \in Idents PROVE Alike(i)' /\ Listing(i)'
    <3>1. Settled /\ \A s \in Sides : At(s, i)' = At(s, i) /\ status'[s][i] = status[s][i]
      BY <2>1, <2>3 DEF Settled, At
    <3> QED BY <3>1, SettledKept DEF SettledInv
  <2> QED BY <2>1, <2>2, <2>3 DEF SettledInv
<1>5. CASE Prepare
  BY <1>1, <1>3, <1>4, <1>5 DEF Prepare, FetchFails, RefuseEmpty, Abort
<1>6. ASSUME NEW i \in Idents, RunAction(i) PROVE SettledInv'
  <2>1. /\ pc = "run" /\ plan[i] # None
        /\ \/ /\ \A s \in Sides, j \in Idents : Spared(s, j)
              /\ Failed(i) \/ Abort
           \/ Wrote(i) \/ Deleted(i) \/ TakenBack(i) \/ Skipped(i) \/ Resolved(i)
    BY <1>6, RunPlain
  <2>2. i \notin errors
    BY <2>1 DEF RowsInv, RunInv
  <2>3. (\A s \in Sides, j \in Idents : Spared(s, j)) => Effect(i)
    BY DEF Effect
  <2> QED BY <1>1, <2>1, <2>2, <2>3, OutcomeSettled DEF Abort
<1>7. ASSUME NEW i \in Idents, NEW effect \in BOOLEAN, RequestFails(i, effect) PROVE SettledInv'
  <2>1. pc = "run" /\ plan[i] # None /\ Effect(i) /\ (Failed(i) \/ Abort)
    BY <1>7, RequestPlain
  <2>2. i \notin errors
    BY <2>1 DEF RowsInv, RunInv
  <2> QED BY <1>1, <2>1, <2>2, OutcomeSettled DEF Abort
<1>8. CASE Commit
  <2>1. pc' = "idle"
    BY <1>8 DEF Commit, EndOfSync
  <2>2. Settled' => quiet' > 0
    BY SettledQuiet DEF Settled, TypeOK, SyncsNeeded
  <2> QED BY <1>8, <2>1, <2>2, CommitSettles DEF SettledInv
<1>9. CASE CommitRejected
  BY <1>1, <1>9 DEF CommitRejected, Abort
<1>10. CASE Interrupted
  BY <1>1, <1>10 DEF Interrupted, Abort
<1>11. CASE UNCHANGED vars
  <2>1. UNCHANGED <<store, status, pc, plan, errors, quiet>>
    BY <1>11 DEF vars
  <2>2. \A s \in Sides, i \in Idents : At(s, i)' = At(s, i) /\ status'[s][i] = status[s][i]
    BY <2>1 DEF At
  <2>3. Settled' <=> Settled
    BY <2>1 DEF Settled
  <2> QED BY <2>1, <2>2, <2>3, SettledKept DEF SettledInv
<1> QED BY <1>2, <1>3, <1>5, <1>6, <1>7, <1>8, <1>9, <1>10, <1>11 DEF Next, Progress, Faults

(* The inductive invariant of undisturbed syncs.                           *)
QuietInv == TypeOK /\ RowsInv /\ PlacesInv /\ AgreeInv /\ CleanInv /\ SettledInv

LEMMA QuietAlways == TakesOrReverts => (Spec => []QuietInv)
<1> SUFFICES ASSUME TakesOrReverts PROVE Spec => []QuietInv
  OBVIOUS
<1>1. Init => QuietInv
  <2> SUFFICES ASSUME Init PROVE QuietInv
    OBVIOUS
  <2>1. pc = "idle" /\ quiet = 0
    BY InitPlaces
  <2>2. ~ Settled
    BY <2>1 DEF Settled, SyncsNeeded
  <2> QED BY <2>1, <2>2, InitTyped, RowsInit, InitPlaces, AgreeInit
          DEF QuietInv, CleanInv, SettledInv
<1>2. QuietInv /\ [Next]_vars => QuietInv'
  <2> SUFFICES ASSUME QuietInv, [Next]_vars PROVE QuietInv'
    OBVIOUS
  <2>1. TypeOK' /\ RowsInv'
    BY StepTyped, RowsStep DEF QuietInv
  <2>2. PlacesInv' /\ AgreeInv'
    BY <2>1, PlacesStep, AgreeStep DEF QuietInv
  <2>3. CleanInv'
    BY <2>2, CleanStep DEF QuietInv
  <2>4. SettledInv'
    BY <2>1, <2>3, SettledStep DEF QuietInv
  <2> QED BY <2>1, <2>2, <2>3, <2>4 DEF QuietInv
<1> QED BY <1>1, <1>2, PTL DEF Spec

LEMMA SettledSays ==
  ASSUME QuietInv, Settled
  PROVE  /\ \A i \in Idents : Alike(i) /\ Listing(i)
         /\ \A s \in Sides, h \in Hrefs : store[s][h] # None =>
              /\ store[s][h].ident \in Idents
              /\ h = HrefOf[store[s][h].ident] /\ store[s][h] = At(s, store[s][h].ident)
         /\ \A s \in Sides, i \in Idents : At(s, i) # None =>
              HrefOf[i] \in Hrefs /\ At(s, i).ident = i
BY AtPlaced, HrefOfAssumption DEF QuietInv, SettledInv, PlacesInv

(* Undisturbed syncs whose actions all succeeded make both sides hold the  *)
(* same items, whatever failed or was edited before: one if both storages  *)
(* take every change, or else two, the first of which notes what a side    *)
(* does not take and the second of which takes it back on the other side   *)
(* (Upload, Update, Delete and the row of a read-only side).  People only  *)
(* put items where storages put them, with contents that are new to the    *)
(* side.                                                                   *)
THEOREM UndisturbedSyncConverges == TakesOrReverts => (Spec => []Converged)
<1> SUFFICES ASSUME TakesOrReverts PROVE Spec => []Converged
  OBVIOUS
<1>1. QuietInv => Converged
  <2> SUFFICES ASSUME QuietInv, Settled PROVE SameItems
    BY DEF Converged
  <2>1. ASSUME NEW s \in Sides, ~ KeepsItsOwn(s), NEW h \in Listed(store[s])
        PROVE  <<store[s][h].ident, store[s][h].hash>> \in Contents(store[Other(s)])
    <3>1. PICK i \in Idents : i = store[s][h].ident /\ h = HrefOf[i] /\ store[s][h] = At(s, i)
                              /\ store[s][h] # None
      BY <2>1, SettledSays DEF Listed
    <3>2. Alike(i)
      BY SettledSays
    <3>3. At(Other(s), i) # None /\ At(Other(s), i).hash = At(s, i).hash
      BY <2>1, <3>1, <3>2 DEF Alike, OwnItem, SameHash, Sides, Other
    <3>4. HrefOf[i] \in Listed(store[Other(s)]) /\ At(Other(s), i).ident = i
      BY <3>3, SettledSays, SidesLemma DEF Listed, At
    <3>5. <<At(Other(s), i).ident, At(Other(s), i).hash>> \in Contents(store[Other(s)])
      BY <3>4 DEF Contents, At
    <3> QED BY <3>1, <3>3, <3>4, <3>5
  <2>2. ASSUME NEW s \in Sides, ~ KeepsItsOwn(s)
        PROVE  Contents(store[s]) \subseteq Contents(store[Other(s)])
    BY <2>1, <2>2 DEF Contents
  <2> QED BY <2>2 DEF SameItems
<1>2. Spec => []QuietInv
  BY QuietAlways
<1> QED BY <1>1, <1>2, PTL

(* And the status it leaves lists exactly the items that are there, where  *)
(* they are, unless a side keeps items which the other one does not take:  *)
(* those are without rows.                                                 *)
THEOREM StatusAlwaysDescribesItems ==
  TakesOrReverts /\ (\A s \in Sides : ~ KeepsItsOwn(s)) => (Spec => []StatusDescribesItems)
<1> SUFFICES ASSUME TakesOrReverts, \A s \in Sides : ~ KeepsItsOwn(s)
             PROVE  Spec => []StatusDescribesItems
  OBVIOUS
<1>1. QuietInv => StatusDescribesItems
  <2> SUFFICES ASSUME QuietInv, Settled, NEW s \in Sides
               PROVE  /\ {i \in Idents : status[s][i] # None}
                           = {store[s][h].ident : h \in Listed(store[s])}
                      /\ \A i \in Idents : status[s][i] # None =>
                           LET h == status[s][i].href IN
                           s \notin ReadOnly => h # None /\ store[s][h].ident = i
    BY DEF StatusDescribesItems
  <2>0. \A i \in Idents : status[s][i] # None <=> At(s, i) # None
    BY SettledSays DEF Listing
  <2>1. ASSUME NEW i \in Idents, status[s][i] # None
        PROVE  HrefOf[i] \in Listed(store[s]) /\ store[s][HrefOf[i]].ident = i
    <3>1. At(s, i) # None
      BY <2>0, <2>1
    <3>2. HrefOf[i] \in Hrefs /\ At(s, i).ident = i
      BY <3>1, SettledSays
    <3> QED BY <3>1, <3>2 DEF At, Listed
  <2>2. ASSUME NEW h \in Listed(store[s])
        PROVE  store[s][h].ident \in Idents /\ status[s][store[s][h].ident] # None
    <3>1. PICK i \in Idents : i = store[s][h].ident /\ store[s][h] = At(s, i)
                              /\ store[s][h] # None
      BY <2>2, SettledSays DEF Listed
    <3> QED BY <2>0, <3>1
  <2>3. {i \in Idents : status[s][i] # None} = {store[s][h].ident : h \in Listed(store[s])}
    BY <2>1, <2>2
  <2>4. ASSUME NEW i \in Idents, status[s][i] # None, s \notin ReadOnly
        PROVE  status[s][i].href # None /\ store[s][status[s][i].href].ident = i
    <3>1. status[s][i].href = HrefOf[i]
      BY <2>4 DEF QuietInv, PlacesInv, RowsPlaced
    <3> QED BY <2>1, <2>4, <3>1, NoneAssumption, HrefOfAssumption
  <2> QED BY <2>3, <2>4
<1>2. Spec => []QuietInv
  BY QuietAlways
<1> QED BY <1>1, <1>2, PTL

(* A step that leaves every item where it is leaves the storages.          *)
LEMMA SparedStore ==
  ASSUME TypeOK, TypeOK', StorePlaced, StorePlaced',
         \A s \in Sides, i \in Idents : Spared(s, i)
  PROVE  store' = store
<1>1. ASSUME NEW s \in Sides, NEW h \in Hrefs PROVE store'[s][h] = store[s][h]
  <2>1. CASE \E i \in Idents : h = HrefOf[i]
    BY <2>1 DEF Spared, At
  <2>2. CASE \A i \in Idents : h # HrefOf[i]
    <3>1. store[s][h] # None => store[s][h].ident \in Idents
      BY AtPlaced
    <3>2. store'[s][h] # None => store'[s][h].ident \in Idents
      BY DEF TypeOK, Storages, Item
    <3> QED BY <2>2, <3>1, <3>2 DEF StorePlaced
  <2> QED BY <2>1, <2>2
<1>2. store \in [Sides -> Storages] /\ store' \in [Sides -> Storages]
  BY DEF TypeOK
<1>3. ASSUME NEW s \in Sides PROVE store'[s] = store[s]
  BY <1>1, <1>2 DEF Storages
<1> QED BY <1>2, <1>3

-----------------------------------------------------------------------------
(* If writes return etags, the status of settled storages has the etags    *)
(* that are there: the next syncs read again only what a side does not     *)
(* take, and have nothing to write.                                        *)
Remembers(s, i) == status[s][i] # None /\ ~ MadeUp(status[s][i])

StayInv ==
  Settled =>
    /\ \A s \in Sides, i \in Idents :
         Remembers(s, i) /\ At(s, i) # None => At(s, i).etag = status[s][i].etag
    /\ pc \in {"list", "fetch"} => \A s \in Sides, i \in Idents :
         Remembers(s, i) /\ newst[s][i] # None => newst[s][i] = status[s][i]
    /\ pc = "run" => \A i \in Idents : ~ Pending(i, UpdateOps \cup {"resolve"})

LEMMA FetchStays ==
  ASSUME QuietInv, StayInv, Settled, NEW h \in Hrefs, Fetch(h)
  PROVE  \A s \in Sides, i \in Idents :
           Remembers(s, i) /\ newst'[s][i] # None => newst'[s][i] = status[s][i]
<1>0. pc = "fetch" /\ h \in todo /\ cur \in Sides
  BY DEF Fetch, QuietInv, TypeOK
<1> PICK s \in Sides : s = cur
  BY <1>0
<1> PICK j \in Idents :
      /\ h = HrefOf[j] /\ At(s, j) # None
      /\ \A s2 \in Sides, i \in Idents : s2 # s \/ i # j => newst'[s2][i] = newst[s2][i]
  BY FetchPlaced DEF QuietInv, PlacesInv
<1>1. ~ Remembers(s, j)
  BY <1>0 DEF QuietInv, AgreeInv, ToFetch, StayInv, Remembers
<1> QED BY <1>0, <1>1 DEF StayInv

LEMMA PlanStays ==
  ASSUME TakesOrReverts, QuietInv, StayInv, Plan, Settled, NEW i \in Idents
  PROVE  ~ Pending(i, UpdateOps \cup {"resolve"})'
<1>1. pc = "fetch" /\ clean /\ todo = {} /\ cur = "b" /\ plan'[i] = ActionFor(i) /\ quiet > 0
  BY SettledQuiet DEF Plan, Prepared, QuietInv, CleanInv
<1>2. \A s \in Sides : Seen(s, i)
  BY <1>1 DEF QuietInv, CleanInv, Sides
<1>3. CASE NoRows(i)
  BY <1>1, <1>3, PlannedAction DEF Pending
<1>4. ASSUME NEW s \in Sides, newst[s][i] # None, newst[Other(s)][i] = None
      PROVE  ~ Pending(i, UpdateOps \cup {"resolve"})'
  <2>1. \/ plan'[i] = Act("upload", Other(s), newst[s][i].hash)
        \/ plan'[i] = Act("delete", s, newst[s][i].hash)
    BY <1>1, <1>4, PlannedAction
  <2>2. plan'[i].op \in {"upload", "delete"}
    BY <1>4, <2>1, ActRecord, RowTyped, SidesLemma DEF QuietInv, Ops
  <2> QED BY <2>2 DEF Pending, UpdateOps
<1>5. CASE BothRows(i)
  <2>1. \A s \in Sides : At(s, i) # None /\ newst[s][i] # None
    BY <1>2, <1>5 DEF BothRows, Seen, Nothing
  <2>2. SameHash(i)
    <3>1. Alike(i)
      BY SettledSays
    <3> QED BY <2>1, <3>1 DEF Alike, OwnItem, Sides, Other
  <2>3. \A s \in Sides : status[s][i] # None
    BY <1>1, <2>1, SidesLemma
       DEF QuietInv, SettledInv, Settles, KeptBack, PutOff, MadeUp, Sides, Other
  <2>4. ASSUME NEW s \in Sides, Remembers(s, i)
        PROVE  /\ ~ IsChanged(s, i)
               /\ LooksSame(status[s][i], s, i)
    BY <1>1, <2>1, <2>4 DEF StayInv, Remembers, IsChanged, LooksSame
  <2>5. ASSUME NEW s \in Sides, MadeUp(status[s][i]) PROVE ~ IsChanged(s, i)
    <3> PICK o \in Sides : o = Other(s) /\ s = Other(o) /\ o # s
      BY DEF Sides, Other
    <3>1. Remembers(o, i)
      BY <2>3, <2>5, MadeUpAgrees DEF Remembers, QuietInv, PlacesInv
    <3>2. At(o, i).hash = status[s][i].hash
      BY <2>4, <2>5, <3>1 DEF QuietInv, AgreeInv, Agree, Mirrors, Holding
    <3>3. At(s, i).hash = status[s][i].hash
      BY <2>2, <3>2 DEF SameHash, Sides, Other
    <3> QED BY <1>1, <1>2, <2>1, <2>3, <3>3, ReadAgain DEF QuietInv
  <2>6. \A s \in Sides : ~ IsChanged(s, i)
    BY <2>3, <2>4, <2>5 DEF Remembers
  <2>7. plan'[i] = None
    BY <1>1, <1>5, <2>6, PlannedAction
  <2> QED BY <2>7 DEF Pending
<1>6. NoRows(i) \/ BothRows(i) \/ \E s \in Sides : newst[s][i] # None /\ newst[Other(s)][i] = None
  BY DEF NoRows, BothRows, Sides, Other
<1> QED BY <1>3, <1>4, <1>5, <1>6

(* What still runs writes nothing, and leaves nothing else to run.         *)
LEMMA SettledRuns ==
  ASSUME QuietInv, StayInv, Settled, pc = "run", NEW i \in Idents, plan[i] # None
  PROVE  /\ ~ Wrote(i) /\ ~ Deleted(i)
         /\ Effect(i) => \A s \in Sides : Spared(s, i)
<1>1. i \notin errors /\ quiet > 0 /\ ~ Pending(i, UpdateOps)
  BY SettledQuiet DEF QuietInv, RowsInv, RunInv, StayInv, Pending
<1>2. RunClean(i) /\ RunSettles(i) /\ Alike(i)
  BY <1>1 DEF QuietInv, CleanInv, SettledInv
<1>3. ASSUME NEW d \in Sides \ ReadOnly, NEW c \in Hashes, plan[i].dest = d, plan[i].hash = c,
             Pending(i, {"upload"} \cup UpdateOps), Written(d, i, c)
      PROVE  FALSE
  BY <1>1, <1>2, <1>3, WriteSettles DEF QuietInv
<1>4. ASSUME NEW d \in Sides, plan[i].dest = d, ~ Keeps(d), Pending(i, {"delete"}), Emptied(d, i)
      PROVE  FALSE
  BY <1>2, <1>4, RemovalSettles DEF QuietInv
<1>5. ~ Wrote(i)
  BY <1>3 DEF Wrote, Uploaded, Updated, Merged, Pending, UpdateOps
<1>6. ~ Deleted(i)
  BY <1>4 DEF Deleted
<1>7. Effect(i) => \A s \in Sides : Spared(s, i)
  BY <1>3, <1>4 DEF Effect
<1> QED BY <1>5, <1>6, <1>7

LEMMA StayStep ==
  ASSUME TakesOrReverts, EtagLost = {}, QuietInv, QuietInv', StayInv, [Next]_vars
  PROVE  StayInv'
<1>0. ASSUME quiet' = quiet, UNCHANGED status, \A s \in Sides, i \in Idents : At(s, i)' = At(s, i)
      PROVE  /\ Settled' <=> Settled
             /\ Settled => \A s \in Sides, i \in Idents :
                  /\ Remembers(s, i)' <=> Remembers(s, i)
                  /\ Remembers(s, i)' /\ At(s, i)' # None => At(s, i)'.etag = status'[s][i].etag
  BY <1>0 DEF StayInv, Settled, Remembers
<1>1. ASSUME quiet' = 0 PROVE StayInv'
  BY <1>1 DEF StayInv, Settled, SyncsNeeded
<1>2. CASE Editor
  BY <1>1, <1>2, EditorPlain DEF EditStep, QuietInv
<1>3. ASSUME Abort PROVE StayInv'
  BY <1>1, <1>3 DEF Abort
<1>4. CASE \E f \in BOOLEAN, p \in PartialSync : StartSync(f, p)
  <2>1. UNCHANGED <<store, status, newst, quiet>> /\ pc = "idle" /\ pc' = "list"
    BY <1>4 DEF StartSync, storeVars
  <2>2. \A s \in Sides, i \in Idents : newst'[s][i] = None /\ At(s, i)' = At(s, i)
    BY <2>1 DEF QuietInv, RowsInv, PrepareInv, EmptyTable, At
  <2> QED BY <1>0, <2>1, <2>2 DEF StayInv
<1>5. CASE Prepare
  <2>0. ASSUME UNCHANGED <<store, status, quiet>>
        PROVE  \A s \in Sides, i \in Idents : At(s, i)' = At(s, i)
    BY <2>0 DEF At
  <2>1. CASE List
    <3>1. UNCHANGED <<store, status, quiet>> /\ pc = "list" /\ pc' = "fetch" /\ cur \in Sides
      BY <2>1 DEF List, storeVars, QuietInv, TypeOK
    <3>2. Settled => \A s \in Sides, i \in Idents :
            Remembers(s, i) /\ newst'[s][i] # None => newst'[s][i] = status[s][i]
      BY <2>1, <3>1, ListRows DEF QuietInv, StayInv
    <3> QED BY <1>0, <2>0, <3>1, <3>2 DEF StayInv
  <2>2. ASSUME NEW h \in Hrefs, Fetch(h) PROVE StayInv'
    <3>1. UNCHANGED <<store, status, quiet>> /\ pc' = "fetch"
      BY <2>2 DEF Fetch, storeVars
    <3>2. Settled => \A s \in Sides, i \in Idents :
            Remembers(s, i) /\ newst'[s][i] # None => newst'[s][i] = status[s][i]
      BY <2>2, FetchStays
    <3> QED BY <1>0, <2>0, <3>1, <3>2 DEF StayInv
  <2>3. CASE NextSide
    <3>1. UNCHANGED <<store, status, newst, quiet>> /\ pc = "fetch" /\ pc' = "list"
      BY <2>3 DEF NextSide, storeVars
    <3> QED BY <1>0, <2>0, <3>1 DEF StayInv
  <2>4. CASE Plan
    <3>1. UNCHANGED <<store, status, quiet>> /\ pc' = "run"
      BY <2>4 DEF Plan, storeVars
    <3> QED BY <1>0, <2>0, <2>4, <3>1, PlanStays DEF StayInv
  <2> QED BY <1>3, <1>5, <2>1, <2>2, <2>3, <2>4 DEF Prepare, FetchFails, RefuseEmpty
<1>6. ASSUME NEW i \in Idents, pc = "run", plan[i] # None, LeavesOthers(i),
             \A s \in Sides : Spared(s, i), ~ Pending(i, {"merge"}) => plan'[i] = None
      PROVE  StayInv'
  <2>1. UNCHANGED <<status, quiet, pc>> /\ \A s \in Sides, j \in Idents : At(s, j)' = At(s, j)
    BY <1>6 DEF LeavesOthers, Spared
  <2>2. Settled => \A j \in Idents : ~ Pending(j, UpdateOps \cup {"resolve"})'
    BY <1>6, <2>1 DEF StayInv, LeavesOthers, Pending, UpdateOps
  <2> QED BY <1>0, <1>6, <2>1, <2>2 DEF StayInv
<1>7. ASSUME NEW i \in Idents, RunAction(i) PROVE StayInv'
  <2>1. /\ pc = "run" /\ plan[i] # None
        /\ \/ (\A s \in Sides : Spared(s, i)) /\ Failed(i)
           \/ Abort
           \/ Wrote(i) \/ Deleted(i) \/ TakenBack(i) \/ Skipped(i) \/ Resolved(i)
    BY <1>7, RunPlain DEF QuietInv
  <2>2. Abort \/ quiet' = quiet
    BY <2>1 DEF Failed, Wrote, Deleted, TakenBack, Skipped, Resolved, LeavesOthers
  <2>3. CASE ~ Settled
    BY <1>3, <2>2, <2>3 DEF StayInv, Settled
  <2>4. CASE Settled
    <3>1. ~ Wrote(i) /\ ~ Deleted(i) /\ ~ Resolved(i)
      BY <2>1, <2>4, SettledRuns DEF StayInv, Resolved, Pending
    <3> QED BY <1>3, <1>6, <2>1, <3>1 DEF Failed, TakenBack, Skipped
  <2> QED BY <2>3, <2>4
<1>8. ASSUME NEW i \in Idents, NEW effect \in BOOLEAN, RequestFails(i, effect) PROVE StayInv'
  <2>1. pc = "run" /\ plan[i] # None /\ Effect(i) /\ (Failed(i) \/ Abort)
    BY <1>8, RequestPlain DEF QuietInv
  <2>2. CASE ~ Settled
    BY <1>3, <2>1, <2>2 DEF StayInv, Settled, Failed, LeavesOthers
  <2>3. CASE Settled
    BY <1>3, <1>6, <2>1, <2>3, SettledRuns DEF Failed
  <2> QED BY <2>2, <2>3
<1>9. CASE Commit
  <2>1. UNCHANGED store /\ status' = newst /\ pc' = "idle" /\ pc = "run" /\ plan = NoPlan
        /\ (quiet' > 0 => clean /\ errors = {})
    BY <1>9 DEF Commit, EndOfSync, AllRun, storeVars
  <2>2. ASSUME Settled', NEW s \in Sides, NEW i \in Idents, Remembers(s, i)', At(s, i)' # None
        PROVE  At(s, i)'.etag = status'[s][i].etag
    <3>0. quiet' > 0
      BY <2>2, SettledQuiet DEF QuietInv, Settled, TypeOK, SyncsNeeded
    <3>1. RunClean(i) /\ plan[i] = None /\ At(s, i)' = At(s, i)
      BY <2>1, <3>0 DEF QuietInv, CleanInv, NoPlan, At
    <3>2. newst[s][i] # None /\ ~ MadeUp(newst[s][i])
      BY <2>1, <2>2 DEF Remembers
    <3>3. \A x \in Sides : PutOff(newst, x, i) => s = Other(x)
      BY <3>2 DEF PutOff, Sides, Other
    <3> QED BY <2>1, <3>1, <3>2, <3>3 DEF RunClean, Describes, Nothing, KeptBack, PutOff
  <2> QED BY <2>1, <2>2 DEF StayInv
<1>10. CASE CommitRejected
  BY <1>3, <1>10 DEF CommitRejected
<1>11. CASE Interrupted
  BY <1>3, <1>11 DEF Interrupted
<1>12. CASE UNCHANGED vars
  <2>1. UNCHANGED <<store, status, newst, pc, plan, quiet>>
    BY <1>12 DEF vars
  <2> QED BY <2>1 DEF StayInv, Settled, Remembers, Pending, At
<1> QED BY <1>2, <1>4, <1>5, <1>7, <1>8, <1>9, <1>10, <1>11, <1>12 DEF Next, Progress, Faults

(* A sync of settled storages writes nothing, if they return the etags of  *)
(* what is written to them: what is not taken is only tried again (and     *)
(* noted in the status again), whatever is left to run.                    *)
THEOREM SettledAlwaysStaysPut ==
  TakesOrReverts /\ EtagLost = {} => (Spec => SettledStaysPut)
<1> SUFFICES ASSUME TakesOrReverts, EtagLost = {} PROVE Spec => SettledStaysPut
  OBVIOUS
<1>1. Init => StayInv
  BY InitPlaces DEF StayInv, Settled, SyncsNeeded
<1>2. QuietInv /\ QuietInv' /\ StayInv /\ [Next]_vars => StayInv'
  BY StayStep
<1>3. QuietInv /\ QuietInv' /\ StayInv /\ [Next]_vars => [BySync /\ Settled => store' = store]_vars
  <2> SUFFICES ASSUME QuietInv, QuietInv', StayInv, [Next]_vars, BySync, Settled PROVE store' = store
    OBVIOUS
  <2>1. ~ Editor
    BY DEF Editor, EditorPut, EditorRemove, EditorMove, Edited, BySync, QuietInv, TypeOK
  <2>2. CASE \E f \in BOOLEAN, p \in PartialSync : StartSync(f, p)
    BY <2>2 DEF StartSync, storeVars
  <2>3. CASE Prepare
    BY <2>3 DEF Prepare, List, Fetch, FetchFails, NextSide, RefuseEmpty, Plan, storeVars
  <2>4. CASE Commit \/ CommitRejected \/ Interrupted
    BY <2>4 DEF Commit, CommitRejected, Interrupted, storeVars
  <2>5. CASE UNCHANGED vars
    BY <2>5 DEF vars
  <2>6. ASSUME NEW i \in Idents, RunAction(i) PROVE store' = store
    <3>1. /\ pc = "run" /\ plan[i] # None
          /\ \/ \A s \in Sides, j \in Idents : Spared(s, j)
             \/ Wrote(i) \/ Deleted(i) \/ TakenBack(i) \/ Skipped(i) \/ Resolved(i)
      BY <2>6, RunPlain DEF QuietInv
    <3>2. \A s \in Sides, j \in Idents : Spared(s, j)
      BY <3>1, SettledRuns DEF TakenBack, Skipped, Resolved, RowsKept, LeavesOthers
    <3> QED BY <2>6, <3>2, SparedStore DEF QuietInv, PlacesInv
  <2>7. ASSUME NEW i \in Idents, NEW effect \in BOOLEAN, RequestFails(i, effect)
        PROVE  store' = store
    <3>1. /\ pc = "run" /\ plan[i] # None /\ Effect(i) /\ SparesOthers(plan[i].dest, i)
      BY <2>7, RequestPlain DEF QuietInv
    <3>2. \A s \in Sides, j \in Idents : Spared(s, j)
      BY <3>1, SettledRuns DEF SparesOthers
    <3> QED BY <2>7, <3>2, SparedStore DEF QuietInv, PlacesInv
  <2> QED BY <2>1, <2>2, <2>3, <2>4, <2>5, <2>6, <2>7 DEF Next, Progress, Faults
<1>4. Spec => []QuietInv
  BY QuietAlways
<1> QED BY <1>1, <1>2, <1>3, <1>4, PTL DEF Spec, SettledStaysPut

-----------------------------------------------------------------------------
(* What the status knows of the last agreement, while no request failed.   *)
(* People do not touch items, and all errors of actions go to a callback.  *)
HistoryKept == PlainPair /\ EditorMay = {} /\ EtagLost = {} /\ HasErrorCallback

LEMMA PlainRows ==
  ASSUME PlainPair, TypeOK, PlacesInv, NEW s \in Sides, NEW i \in Idents
  PROVE  /\ status[s][i] # None => /\ status[s][i].etag \in EtagsInUse(s)
                                   /\ status[s][i].hash \in known[s][i]
                                   /\ status[s][i].href = HrefOf[i]
         /\ newst[s][i] # None => /\ newst[s][i].etag \in EtagsInUse(s)
                                  /\ newst[s][i].hash \in known[s][i]
                                  /\ newst[s][i].href = HrefOf[i]
<1>1. /\ status[s][i] # None => ~ MadeUp(status[s][i])
      /\ newst[s][i] # None => ~ MadeUp(newst[s][i])
  BY TableRows DEF PlainPair
<1> QED BY <1>1, TableRows DEF PlacesInv, RowsPlaced

(* Every action either reaches a side that takes it or fails.              *)
LEMMA PlainOutcome == PlainPair => \A i \in Idents : ~ TakenBack(i) /\ ~ Skipped(i)
BY DEF PlainPair, TakenBack, Skipped, Keeps

(* The item has the etag of row m and content c, or contents that neither  *)
(* c is nor the row remembers.                                             *)
Track(m, s, i, c) ==
  At(s, i) # None =>
    IF m # None /\ At(s, i).etag = m.etag
      THEN At(s, i).hash = c
      ELSE At(s, i).hash # c /\ (m # None => At(s, i).hash # m.hash)

NotAgreed(s, i) == At(s, i) # None => At(s, i).hash # agreed[i]

(* An item of which no row was made: it is new, or changed.                *)
Unread(s, i) ==
  newst[s][i] = None =>
    /\ NotAgreed(s, i)
    /\ At(s, i) # None /\ status[s][i] # None => At(s, i).etag # status[s][i].etag

(* A row that was prefetched.                                              *)
News(s, i) ==
  newst[s][i] # None /\ newst[s][i] # status[s][i] =>
    /\ newst[s][i].hash # agreed[i]
    /\ Track(newst[s][i], s, i, newst[s][i].hash)
    /\ status[s][i] # None => /\ newst[s][i].etag # status[s][i].etag
                              /\ newst[s][i].hash # status[s][i].hash

RunTrack(i) ==
  /\ plan[i] = None => \A s \in Sides : Track(newst[s][i], s, i, agreed[i])
  /\ plan[i] # None => \A s \in Sides : Track(status[s][i], s, i, agreed[i])
  /\ Pending(i, {"upload", "merge"}) => plan[i].hash # agreed[i]
  /\ \A s \in Sides : plan[i] # None /\ plan[i].dest = Other(s) =>
       /\ Pending(i, {"upload", "update", "settle"}) =>
            plan[i].hash \in known[s][i] /\ Track(newst[s][i], s, i, plan[i].hash)
       /\ Pending(i, {"delete"}) => NotAgreed(s, i)
  /\ Pending(i, {"resolve"}) =>
       /\ plan[i].hash = newst["a"][i].hash
       /\ \A s \in Sides : /\ newst[s][i] # None /\ newst[s][i].hash # agreed[i]
                           /\ Track(newst[s][i], s, i, newst[s][i].hash)
  /\ Pending(i, {"merge"}) =>
       /\ plan[i].dest = "a"
       /\ \A s \in Sides : status[s][i] # None => plan[i].hash # status[s][i].hash

AgreedKnown(i) == \A s \in Sides : agreed[i] # None => agreed[i] \in known[s][i]

TrackInv ==
  faults = 0 =>
    /\ \A i \in Idents : AgreedKnown(i)
    /\ pc # "run" => \A s \in Sides, i \in Idents : Track(status[s][i], s, i, agreed[i])
    /\ pc = "fetch" => \A i \in Idents : Unread(cur, i)
    /\ pc \in {"list", "fetch"} /\ cur = "b" => \A i \in Idents : Unread("a", i)
    /\ pc \in {"list", "fetch"} => \A s \in Sides, i \in Idents : News(s, i)
    /\ pc = "run" => \A i \in Idents : RunTrack(i)

(* The item of i on side s is the same as before, gone or a new one.       *)
Novel(s, i) ==
  At(s, i)' # None =>
    \/ At(s, i)' = At(s, i)
    \/ At(s, i)'.etag \notin EtagsInUse(s) /\ At(s, i)'.hash \notin known[s][i]

LEMMA NovelSteps ==
  /\ \A s \in Sides, i \in Idents : Spared(s, i) => Novel(s, i)
  /\ EditorMay = {} /\ EditStep => \A s \in Sides, i \in Idents : Novel(s, i)
<1>1. ASSUME NEW s \in Sides, NEW i \in Idents, Spared(s, i) PROVE Novel(s, i)
  BY <1>1 DEF Spared, Novel
<1>2. ASSUME EditorMay = {}, EditStep, NEW s \in Sides, NEW i \in Idents PROVE Novel(s, i)
  <2>1. PICK d \in Sides, j \in Idents : EditOf(d, j)
    BY <1>2 DEF EditStep
  <2>2. CASE s = d /\ i = j
    BY <1>2, <2>1, <2>2 DEF EditOf, Novel
  <2>3. CASE ~ (s = d /\ i = j)
    BY <1>1, <2>1, <2>3 DEF EditOf, SparesOthers
  <2> QED BY <2>2, <2>3
<1> QED BY <1>1, <1>2

(* Track and NotAgreed after a step, for a row and a content from before.  *)
TrackNext(m, s, i, c) ==
  At(s, i)' # None =>
    IF m # None /\ At(s, i)'.etag = m.etag
      THEN At(s, i)'.hash = c
      ELSE At(s, i)'.hash # c /\ (m # None => At(s, i)'.hash # m.hash)

LEMMA TrackKept ==
  ASSUME TypeOK', NEW s \in Sides, NEW i \in Idents, Novel(s, i), NEW m, NEW c,
         m # None => m.etag \in EtagsInUse(s) /\ m.hash \in known[s][i],
         c # None => c \in known[s][i],
         Track(m, s, i, c)
  PROVE  TrackNext(m, s, i, c)
<1>1. At(s, i)' # None => At(s, i)'.hash \in Hashes /\ At(s, i)'.hash # None
  <2>1. HrefOf[i] \in Hrefs
    BY HrefOfAssumption
  <2>2. At(s, i)' \in Item \cup {None}
    BY <2>1 DEF TypeOK, Storages, At
  <2> QED BY <2>2, NoneAssumption DEF Item
<1> QED BY <1>1 DEF Novel, Track, TrackNext

LEMMA IdentTracked ==
  ASSUME PlainPair, TypeOK, TypeOK', PlacesInv, NEW i \in Idents, AgreedKnown(i),
         \A s \in Sides : /\ Novel(s, i) /\ known[s][i] \subseteq known'[s][i]
                          /\ status'[s][i] = status[s][i] /\ newst'[s][i] = newst[s][i],
         agreed'[i] = agreed[i]
  PROVE  /\ AgreedKnown(i)'
         /\ \A s \in Sides :
              /\ Track(status[s][i], s, i, agreed[i]) => Track(status[s][i], s, i, agreed[i])'
              /\ Track(newst[s][i], s, i, agreed[i]) => Track(newst[s][i], s, i, agreed[i])'
              /\ newst[s][i] # None /\ Track(newst[s][i], s, i, newst[s][i].hash)
                   => Track(newst[s][i], s, i, newst[s][i].hash)'
              /\ Unread(s, i) => Unread(s, i)'
              /\ News(s, i) => News(s, i)'
              /\ NotAgreed(s, i) => NotAgreed(s, i)'
              /\ plan[i] # None /\ plan'[i] = plan[i] /\ plan[i].hash \in known[s][i]
                   /\ Track(newst[s][i], s, i, plan[i].hash)
                   => Track(newst[s][i], s, i, plan[i].hash)'
<1>1. AgreedKnown(i)'
  BY DEF AgreedKnown
<1> SUFFICES ASSUME NEW s \in Sides
    PROVE  /\ Track(status[s][i], s, i, agreed[i]) => Track(status[s][i], s, i, agreed[i])'
           /\ Track(newst[s][i], s, i, agreed[i]) => Track(newst[s][i], s, i, agreed[i])'
           /\ newst[s][i] # None /\ Track(newst[s][i], s, i, newst[s][i].hash)
                => Track(newst[s][i], s, i, newst[s][i].hash)'
           /\ Unread(s, i) => Unread(s, i)'
           /\ News(s, i) => News(s, i)'
           /\ NotAgreed(s, i) => NotAgreed(s, i)'
           /\ plan[i] # None /\ plan'[i] = plan[i] /\ plan[i].hash \in known[s][i]
                /\ Track(newst[s][i], s, i, plan[i].hash)
                => Track(newst[s][i], s, i, plan[i].hash)'
  BY <1>1
<1>2. /\ status[s][i] # None => status[s][i].etag \in EtagsInUse(s) /\ status[s][i].hash \in known[s][i]
      /\ newst[s][i] # None => newst[s][i].etag \in EtagsInUse(s) /\ newst[s][i].hash \in known[s][i]
  BY PlainRows
<1>3. agreed[i] # None => agreed[i] \in known[s][i]
  BY DEF AgreedKnown
<1>4. Track(status[s][i], s, i, agreed[i]) => Track(status[s][i], s, i, agreed[i])'
  <2>1. Track(status[s][i], s, i, agreed[i]) => TrackNext(status[s][i], s, i, agreed[i])
    BY <1>2, <1>3, TrackKept
  <2> QED BY <2>1 DEF Track, TrackNext
<1>5. Track(newst[s][i], s, i, agreed[i]) => Track(newst[s][i], s, i, agreed[i])'
  <2>1. Track(newst[s][i], s, i, agreed[i]) => TrackNext(newst[s][i], s, i, agreed[i])
    BY <1>2, <1>3, TrackKept
  <2> QED BY <2>1 DEF Track, TrackNext
<1>6. newst[s][i] # None /\ Track(newst[s][i], s, i, newst[s][i].hash)
        => Track(newst[s][i], s, i, newst[s][i].hash)'
  <2>1. newst[s][i] # None /\ Track(newst[s][i], s, i, newst[s][i].hash)
          => TrackNext(newst[s][i], s, i, newst[s][i].hash)
    BY <1>2, TrackKept
  <2> QED BY <2>1 DEF Track, TrackNext
<1>7. plan[i] # None /\ plan'[i] = plan[i] /\ plan[i].hash \in known[s][i]
        /\ Track(newst[s][i], s, i, plan[i].hash)
        => Track(newst[s][i], s, i, plan[i].hash)'
  <2>1. plan[i] # None /\ plan[i].hash \in known[s][i] /\ Track(newst[s][i], s, i, plan[i].hash)
          => TrackNext(newst[s][i], s, i, plan[i].hash)
    BY <1>2, TrackKept
  <2> QED BY <2>1 DEF Track, TrackNext
<1>8. NotAgreed(s, i) => NotAgreed(s, i)'
  <2>1. NotAgreed(s, i) <=> Track(None, s, i, agreed[i])
    BY DEF NotAgreed, Track
  <2>2. Track(None, s, i, agreed[i]) => TrackNext(None, s, i, agreed[i])
    BY <1>3, TrackKept
  <2> QED BY <2>1, <2>2 DEF NotAgreed, TrackNext
<1>9. Unread(s, i) => Unread(s, i)'
  BY <1>2, <1>8 DEF Unread, Novel
<1>10. News(s, i) => News(s, i)'
  BY <1>6 DEF News
<1> QED BY <1>4, <1>5, <1>6, <1>7, <1>8, <1>9, <1>10

LEMMA RunTrackKept ==
  ASSUME PlainPair, TypeOK, TypeOK', PlacesInv, NEW i \in Idents, AgreedKnown(i), pc = "run",
         \A s \in Sides : /\ Novel(s, i) /\ known[s][i] \subseteq known'[s][i]
                          /\ status'[s][i] = status[s][i] /\ newst'[s][i] = newst[s][i],
         agreed'[i] = agreed[i], plan'[i] = plan[i], RunTrack(i)
  PROVE  RunTrack(i)'
<1>1. \A ops : Pending(i, ops)' => Pending(i, ops)
  BY DEF Pending
<1>2. plan[i] = None => \A s \in Sides : Track(newst[s][i], s, i, agreed[i])'
  BY IdentTracked DEF RunTrack
<1>3. plan[i] # None => \A s \in Sides : Track(status[s][i], s, i, agreed[i])'
  BY IdentTracked DEF RunTrack
<1>4. ASSUME NEW s \in Sides, plan[i] # None, plan[i].dest = Other(s)
      PROVE  /\ Pending(i, {"upload", "update", "settle"}) =>
                  plan[i].hash \in known'[s][i] /\ Track(newst[s][i], s, i, plan[i].hash)'
             /\ Pending(i, {"delete"}) => NotAgreed(s, i)'
  <2>1. known[s][i] \subseteq known'[s][i]
    OBVIOUS
  <2>2. Pending(i, {"upload", "update", "settle"}) =>
          plan[i].hash \in known[s][i] /\ Track(newst[s][i], s, i, plan[i].hash)
    BY <1>4 DEF RunTrack
  <2>3. Pending(i, {"delete"}) => NotAgreed(s, i)
    BY <1>4 DEF RunTrack
  <2> QED BY <1>4, <2>1, <2>2, <2>3, IdentTracked
<1>5. Pending(i, {"resolve"}) =>
        \A s \in Sides : newst[s][i] # None /\ Track(newst[s][i], s, i, newst[s][i].hash)'
  <2> SUFFICES ASSUME Pending(i, {"resolve"}), NEW s \in Sides
               PROVE  newst[s][i] # None /\ Track(newst[s][i], s, i, newst[s][i].hash)'
    OBVIOUS
  <2>1. newst[s][i] # None /\ Track(newst[s][i], s, i, newst[s][i].hash)
    BY DEF RunTrack
  <2>2. newst[s][i] # None /\ Track(newst[s][i], s, i, newst[s][i].hash)
          => Track(newst[s][i], s, i, newst[s][i].hash)'
    BY IdentTracked
  <2> QED BY <2>1, <2>2
<1>6. ASSUME NEW s \in Sides, plan'[i] # None, plan'[i].dest = Other(s)
      PROVE  /\ Pending(i, {"upload", "update", "settle"})' =>
                  plan'[i].hash \in known'[s][i] /\ Track(newst[s][i], s, i, plan[i].hash)'
             /\ Pending(i, {"delete"})' => NotAgreed(s, i)'
  BY <1>1, <1>4, <1>6
<1>7. Pending(i, {"upload", "merge"})' => plan'[i].hash # agreed'[i]
  BY <1>1 DEF RunTrack
<1>8. ASSUME Pending(i, {"resolve"})'
      PROVE  /\ plan'[i].hash = newst'["a"][i].hash
             /\ \A s \in Sides : /\ newst'[s][i] # None /\ newst'[s][i].hash # agreed'[i]
                                 /\ Track(newst[s][i], s, i, newst[s][i].hash)'
  <2>1. Pending(i, {"resolve"})
    BY <1>1, <1>8
  <2>2. "a" \in Sides
    BY DEF Sides
  <2> QED BY <1>5, <2>1, <2>2 DEF RunTrack
<1>9. Pending(i, {"merge"})' =>
        /\ plan'[i].dest = "a"
        /\ \A s \in Sides : status'[s][i] # None => plan'[i].hash # status'[s][i].hash
  BY <1>1 DEF RunTrack
<1> QED BY <1>2, <1>3, <1>6, <1>7, <1>8, <1>9 DEF RunTrack

LEMMA WroteTracked ==
  ASSUME HistoryKept, TypeOK, TypeOK', PlacesInv, NEW i \in Idents,
         AgreedKnown(i), RunTrack(i), Wrote(i), Grows
  PROVE  RunTrack(i)' /\ AgreedKnown(i)'
<1> PlainPair
  BY DEF HistoryKept
<1>0. pc = "run" /\ pc' = "run" /\ UNCHANGED status /\ plan[i] # None
  BY DEF Wrote, LeavesOthers, Uploaded, Updated, Merged, Pending
<1> PICK d \in Sides, c \in Hashes :
       /\ plan[i].dest = d /\ plan[i].hash = c
       /\ Written(d, i, c)
       /\ Uploaded(i, d, c) \/ Updated(i, d, c) \/ Merged(i, d, c)
  BY DEF Wrote
<1> PICK s \in Sides : s = Other(d) /\ d = Other(s) /\ s # d
  BY DEF Sides, Other
<1>1. At(s, i)' = At(s, i) /\ newst'[s][i] = newst[s][i] /\ known'[s][i] = known[s][i]
  BY DEF Written, SparesOthers, Spared, Uploaded, Updated, Merged, RowAfter
<1>2. At(d, i)'.hash = c /\ At(d, i)'.etag \notin EtagsInUse(d)
      /\ known'[d][i] = known[d][i] \cup {c}
  BY DEF Written
<1>3. newst'[d][i] # None /\ newst'[d][i].etag = At(d, i)'.etag
  BY DEF Uploaded, Updated, Merged, RowAfter, HistoryKept
<1>4. Track(newst[d][i], d, i, c)'
  BY <1>2, <1>3 DEF Track
<1>5. CASE Uploaded(i, d, c) \/ Updated(i, d, c)
  <2>1. plan'[i] = None /\ agreed'[i] = c
    BY <1>5 DEF Uploaded, Updated
  <2>2. c \in known[s][i] /\ Track(newst[s][i], s, i, c)
    BY <1>0, <1>5 DEF RunTrack, Uploaded, Updated, Pending
  <2>3. Track(newst[s][i], s, i, c)'
    BY <1>1, <2>2 DEF Track
  <2>4. \A s2 \in Sides : Track(newst[s2][i], s2, i, c)'
    BY <1>4, <2>3 DEF Sides, Other
  <2>5. \A s2 \in Sides : Track(newst[s2][i], s2, i, agreed[i])'
    BY <2>1, <2>4 DEF Track
  <2>6. \A s2 \in Sides : agreed'[i] \in known'[s2][i]
    BY <1>1, <1>2, <2>1, <2>2 DEF Sides, Other
  <2> QED BY <2>1, <2>5, <2>6 DEF RunTrack, AgreedKnown, Pending
<1>6. CASE Merged(i, d, c)
  <2>1. /\ d = "a" /\ c # agreed[i] /\ agreed'[i] = agreed[i]
        /\ status[d][i] # None => c # status[d][i].hash
    BY <1>0, <1>6 DEF Merged, RunTrack, Pending
  <2>2. plan'[i] # None /\ plan'[i].op = "settle" /\ plan'[i].dest = "b" /\ plan'[i].hash = c
    BY <1>6, ActRecord DEF Merged, Ops, UpdateOps, Sides
  <2>3. \A s2 \in Sides : plan'[i].dest = Other(s2) => s2 = d
    BY <2>1, <2>2 DEF Sides, Other
  <2>4. Track(status[d][i], d, i, agreed[i])'
    <3>1. status[d][i] # None => status[d][i].etag # At(d, i)'.etag
      BY <1>2, PlainRows
    <3> QED BY <1>0, <1>2, <2>1, <3>1 DEF Track
  <2>5. Track(status[s][i], s, i, agreed[i])'
    BY <1>0, <1>1, <2>1 DEF RunTrack, Track
  <2>6. \A s2 \in Sides : Track(status[s2][i], s2, i, agreed[i])'
    BY <2>4, <2>5 DEF Sides, Other
  <2>7. Track(newst[d][i], d, i, plan[i].hash)' /\ c \in known'[d][i]
    BY <1>2, <1>4, <2>2 DEF Track
  <2>8. AgreedKnown(i)'
    BY <1>1, <1>2, <2>1 DEF AgreedKnown, Sides, Other
  <2> QED BY <2>2, <2>3, <2>6, <2>7, <2>8 DEF RunTrack, Pending
<1> QED BY <1>5, <1>6

LEMMA DeletedTracked ==
  ASSUME TypeOK, NEW i \in Idents, AgreedKnown(i), RunTrack(i), Deleted(i), Grows
  PROVE  RunTrack(i)' /\ AgreedKnown(i)'
<1> PICK d \in Sides : plan[i].dest = d /\ Emptied(d, i)
  BY DEF Deleted
<1> PICK s \in Sides : s = Other(d) /\ d = Other(s) /\ s # d
  BY DEF Sides, Other
<1>1. plan'[i] = None /\ agreed'[i] = agreed[i] /\ \A s2 \in Sides : newst'[s2][i] = None
  BY DEF Deleted
<1>2. At(d, i)' = None /\ At(s, i)' = At(s, i)
  BY DEF Emptied, SparesOthers, Spared
<1>3. NotAgreed(s, i)
  BY DEF Deleted, RunTrack, Pending
<1>4. Track(newst[d][i], d, i, agreed[i])' /\ Track(newst[s][i], s, i, agreed[i])'
  BY <1>1, <1>2, <1>3 DEF Track, NotAgreed
<1>5. \A s2 \in Sides : Track(newst[s2][i], s2, i, agreed[i])'
  BY <1>4 DEF Sides, Other
<1>6. AgreedKnown(i)'
  BY <1>1 DEF AgreedKnown, Grows
<1> QED BY <1>1, <1>5, <1>6 DEF RunTrack, Pending

LEMMA ResolvedTracked ==
  ASSUME PlainPair, TypeOK, PlacesInv, NEW i \in Idents, AgreedKnown(i), RunTrack(i), Resolved(i)
  PROVE  RunTrack(i)' /\ AgreedKnown(i)'
<1>0. Pending(i, {"resolve"}) /\ UNCHANGED status
      /\ \A s \in Sides : newst'[s][i] = newst[s][i] /\ At(s, i)' = At(s, i)
                          /\ known'[s][i] = known[s][i]
  BY DEF Resolved, LeavesOthers, RowsKept, Spared
<1>1. ASSUME NEW s \in Sides
      PROVE  /\ newst[s][i] # None /\ newst[s][i].hash \in Hashes
             /\ newst[s][i].hash \in known[s][i]
             /\ Track(newst[s][i], s, i, newst[s][i].hash)
             /\ Track(status[s][i], s, i, agreed[i])
  <2>1. newst[s][i] # None /\ Track(newst[s][i], s, i, newst[s][i].hash)
        /\ Track(status[s][i], s, i, agreed[i])
    BY <1>0 DEF RunTrack, Pending
  <2> QED BY <2>1, RowTyped, PlainRows
<1>2. CASE SameOnBothSides(i) /\ plan'[i] = None /\ agreed'[i] = plan[i].hash
  <2>1. \A s \in Sides : agreed'[i] = newst[s][i].hash
    BY <1>0, <1>2 DEF RunTrack, SameOnBothSides, Sides
  <2>2. \A s \in Sides : Track(newst[s][i], s, i, agreed[i])'
    BY <1>0, <1>1, <2>1 DEF Track
  <2>3. AgreedKnown(i)'
    BY <1>0, <1>1, <2>1 DEF AgreedKnown
  <2> QED BY <1>2, <2>2, <2>3 DEF RunTrack, Pending
<1>3. ASSUME agreed'[i] = agreed[i]
      PROVE  AgreedKnown(i)' /\ \A s \in Sides : Track(status[s][i], s, i, agreed[i])'
  BY <1>0, <1>1, <1>3 DEF AgreedKnown, Track
<1>4. ASSUME agreed'[i] = agreed[i], NEW s \in Sides,
             plan'[i] = Act("settle", Other(s), newst[s][i].hash)
      PROVE  RunTrack(i)'
  <2>1. /\ plan'[i] # None /\ plan'[i].op = "settle" /\ plan'[i].dest = Other(s)
        /\ plan'[i].hash = newst[s][i].hash
    BY <1>1, <1>4, ActRecord, SidesLemma DEF Ops, UpdateOps
  <2>2. \A s2 \in Sides : Other(s) = Other(s2) => s2 = s
    BY DEF Sides, Other
  <2>3. Track(newst[s][i], s, i, plan[i].hash)' /\ plan'[i].hash \in known'[s][i]
    BY <1>0, <1>1, <2>1 DEF Track
  <2> QED BY <1>3, <1>4, <2>1, <2>2, <2>3 DEF RunTrack, Pending
<1>5. ASSUME agreed'[i] = agreed[i], NEW c \in Hashes, plan'[i] = Act("merge", "a", c),
             \A s \in Sides : c \notin known[s][i]
      PROVE  RunTrack(i)'
  <2>1. plan'[i] # None /\ plan'[i].op = "merge" /\ plan'[i].dest = "a" /\ plan'[i].hash = c
    BY <1>5, ActRecord DEF Ops, UpdateOps, Sides
  <2>2. c # agreed[i]
    BY <1>5, NoneAssumption DEF AgreedKnown, Sides
  <2>3. \A s \in Sides : status'[s][i] # None => c # status'[s][i].hash
    BY <1>0, <1>5, PlainRows
  <2> QED BY <1>3, <1>5, <2>1, <2>2, <2>3 DEF RunTrack, Pending
<1> QED BY <1>2, <1>3, <1>4, <1>5 DEF Resolved

LEMMA OutcomeTracked ==
  ASSUME HistoryKept, TypeOK, TypeOK', PlacesInv, TrackInv, NEW i \in Idents,
         pc = "run", plan[i] # None, Grows,
         \/ Failed(i) /\ \A s \in Sides : Spared(s, i)
         \/ Wrote(i) \/ Deleted(i) \/ Resolved(i),
         faults' = faults
  PROVE  TrackInv'
<1> PlainPair
  BY DEF HistoryKept
<1>0. LeavesOthers(i) /\ pc' = "run" /\ UNCHANGED status
  BY DEF Failed, Wrote, Deleted, Resolved, LeavesOthers
<1> SUFFICES ASSUME faults = 0 PROVE TrackInv'
  BY DEF TrackInv
<1>1. ASSUME NEW j \in Idents \ {i} PROVE RunTrack(j)' /\ AgreedKnown(j)'
  <2>1. \A s \in Sides : /\ Novel(s, j) /\ known[s][j] \subseteq known'[s][j]
                         /\ status'[s][j] = status[s][j] /\ newst'[s][j] = newst[s][j]
    BY <1>0, NovelSteps DEF LeavesOthers, Spared
  <2>2. agreed'[j] = agreed[j] /\ plan'[j] = plan[j]
    BY <1>0 DEF LeavesOthers
  <2>3. AgreedKnown(j) /\ RunTrack(j)
    BY DEF TrackInv
  <2> QED BY <2>1, <2>2, <2>3, IdentTracked, RunTrackKept
<1>2. AgreedKnown(i) /\ RunTrack(i)
  BY DEF TrackInv
<1>3. ASSUME Failed(i), \A s \in Sides : Spared(s, i) PROVE RunTrack(i)' /\ AgreedKnown(i)'
  <2>1. plan'[i] = None /\ agreed'[i] = agreed[i] /\ \A s \in Sides : newst'[s][i] = status[s][i]
    BY <1>3 DEF Failed
  <2>2. \A s \in Sides : Track(newst[s][i], s, i, agreed[i])'
    BY <1>2, <1>3, <2>1 DEF RunTrack, Track, Spared
  <2> QED BY <1>2, <1>3, <2>1, <2>2 DEF RunTrack, Pending, AgreedKnown, Spared
<1>4. RunTrack(i)' /\ AgreedKnown(i)'
  BY <1>2, <1>3, WroteTracked, DeletedTracked, ResolvedTracked
<1> QED BY <1>0, <1>1, <1>4 DEF TrackInv

(* The constraints of the status database hold at the end of every sync.   *)
LEMMA AlwaysCommittable ==
  ASSUME PlainPair, TypeOK, RowsInv, PlacesInv
  PROVE  ~ CommitRejected
<1> SUFFICES ASSUME AllRun PROVE Committable(newst)
  BY DEF CommitRejected
<1>1. ASSUME NEW i \in Idents PROVE (newst["a"][i] = None) = (newst["b"][i] = None)
  <2>1. plan[i] = None /\ RunInv(i)
    BY <1>1 DEF AllRun, NoPlan, RowsInv
  <2> QED BY <2>1 DEF RunInv, BothRows, NoRows, Sides
<1>2. HrefsUnique(newst)
  BY HrefOfAssumption, PlainRows DEF HrefsUnique, ByHref
<1> QED BY <1>1, <1>2 DEF Committable, TwoSided

(* Steps that leave the items, the status and the agreement alone.         *)
LEMMA SameTracked ==
  ASSUME UNCHANGED <<store, status, known, agreed>>
  PROVE  /\ \A i \in Idents : AgreedKnown(i) => AgreedKnown(i)'
         /\ \A s \in Sides, i \in Idents :
              /\ Track(status[s][i], s, i, agreed[i]) => Track(status[s][i], s, i, agreed[i])'
              /\ NotAgreed(s, i) => NotAgreed(s, i)'
              /\ newst'[s][i] = newst[s][i] /\ Unread(s, i) => Unread(s, i)'
              /\ newst'[s][i] = newst[s][i] /\ News(s, i) => News(s, i)'
BY DEF AgreedKnown, Track, NotAgreed, Unread, News, At

LEMMA ListTracked ==
  ASSUME PlainPair, TypeOK, PlacesInv, TrackInv, List, faults = 0
  PROVE  TrackInv'
<1>0. UNCHANGED <<store, status, known, agreed, cur>> /\ pc = "list" /\ pc' = "fetch"
      /\ cur \in Sides
  BY DEF List, storeVars, TypeOK
<1> PICK s \in Sides : s = cur
  BY <1>0
<1>1. \A s2 \in Sides, i \in Idents :
        newst'[s2][i] = IF s2 # s THEN newst[s2][i]
                        ELSE IF Unmodified(s, i) THEN status[s][i] ELSE None
  BY ListRows
<1>2. ASSUME NEW i \in Idents PROVE Unread(s, i)'
  <2> SUFFICES ASSUME newst'[s][i] = None
               PROVE  /\ NotAgreed(s, i)'
                      /\ At(s, i)' # None /\ status'[s][i] # None =>
                           At(s, i)'.etag # status'[s][i].etag
    BY DEF Unread
  <2>1. ~ Unmodified(s, i)
    BY <1>1 DEF Unmodified
  <2>2. At(s, i) # None /\ status[s][i] # None => At(s, i).etag # status[s][i].etag
    <3>1. HrefOf[i] \in Hrefs
      BY HrefOfAssumption
    <3> QED BY <2>1, <3>1, PlainRows DEF Unmodified, Holds, At
  <2>3. Track(status[s][i], s, i, agreed[i])
    BY <1>0 DEF TrackInv
  <2>4. NotAgreed(s, i)
    BY <2>2, <2>3 DEF Track, NotAgreed
  <2> QED BY <1>0, <2>2, <2>4 DEF NotAgreed, At
<1>3. ASSUME NEW s2 \in Sides, NEW i \in Idents PROVE News(s2, i)'
  <2>1. CASE s2 = s
    BY <1>0, <1>1, <2>1 DEF News
  <2>2. CASE s2 # s
    <3>1. newst'[s2][i] = newst[s2][i] /\ News(s2, i)
      BY <1>0, <1>1, <2>2 DEF TrackInv
    <3> QED BY <1>0, <3>1, SameTracked
  <2> QED BY <2>1, <2>2
<1>4. ASSUME cur = "b", NEW i \in Idents PROVE Unread("a", i)'
  <2>1. newst'["a"][i] = newst["a"][i] /\ Unread("a", i) /\ "a" \in Sides
    BY <1>0, <1>1, <1>4 DEF TrackInv, Sides
  <2> QED BY <1>0, <2>1, SameTracked
<1>5. \A i \in Idents : AgreedKnown(i)'
  BY <1>0, SameTracked DEF TrackInv
<1>6. \A s2 \in Sides, i \in Idents : Track(status[s2][i], s2, i, agreed[i])'
  BY <1>0, SameTracked DEF TrackInv
<1>7. \A i \in Idents : Unread(cur, i)'
  BY <1>0, <1>2 DEF Unread, NotAgreed
<1> QED BY <1>0, <1>3, <1>4, <1>5, <1>6, <1>7 DEF TrackInv

LEMMA FetchTracked ==
  ASSUME TypeOK, PlacesInv, TrackInv, NEW h \in Hrefs, Fetch(h), faults = 0
  PROVE  TrackInv'
<1>0. UNCHANGED <<store, status, known, agreed, cur, pc>> /\ pc = "fetch" /\ cur \in Sides
  BY DEF Fetch, storeVars, TypeOK
<1> PICK s \in Sides : s = cur
  BY <1>0
<1> PICK j \in Idents :
      /\ At(s, j) # None
      /\ newst[s][j] = None /\ newst'[s][j] # None
      /\ newst'[s][j].hash = At(s, j).hash /\ newst'[s][j].etag = At(s, j).etag
      /\ \A s2 \in Sides, i \in Idents : s2 # s \/ i # j => newst'[s2][i] = newst[s2][i]
  BY FetchPlaced DEF PlacesInv
<1>1. At(s, j)' = At(s, j)
  BY <1>0 DEF At
<1>2. Unread(s, j) /\ Track(status[s][j], s, j, agreed[j])
  BY <1>0 DEF TrackInv
<1>3. News(s, j)'
  <2>1. /\ At(s, j).hash # agreed[j]
        /\ status[s][j] # None => At(s, j).etag # status[s][j].etag
    BY <1>2 DEF Unread, NotAgreed
  <2>2. status[s][j] # None => At(s, j).hash # status[s][j].hash
    BY <1>2, <2>1 DEF Track
  <2>3. Track(newst[s][j], s, j, newst[s][j].hash)'
    BY <1>1 DEF Track
  <2> QED BY <1>0, <2>1, <2>2, <2>3 DEF News
<1>4. ASSUME NEW s2 \in Sides, NEW i \in Idents, s2 # s \/ i # j
      PROVE  News(s2, i)' /\ (Unread(s2, i) => Unread(s2, i)')
  <2>1. newst'[s2][i] = newst[s2][i] /\ News(s2, i)
    BY <1>0, <1>4 DEF TrackInv
  <2> QED BY <1>0, <2>1, SameTracked
<1>5. Unread(s, j)'
  BY DEF Unread
<1>6. \A s2 \in Sides, i \in Idents : Unread(s2, i) => Unread(s2, i)'
  BY <1>4, <1>5
<1>7. \A i \in Idents : Unread(cur, i)'
  <2>1. \A i \in Idents : Unread(s, i)'
    BY <1>0, <1>6 DEF TrackInv
  <2> QED BY <1>0, <2>1 DEF Unread, NotAgreed
<1>8. cur = "b" => \A i \in Idents : Unread("a", i)'
  BY <1>0, <1>6 DEF TrackInv, Sides
<1>9. \A i \in Idents : AgreedKnown(i)'
  BY <1>0, SameTracked DEF TrackInv
<1>10. \A s2 \in Sides, i \in Idents : Track(status[s2][i], s2, i, agreed[i])'
  BY <1>0, SameTracked DEF TrackInv
<1> QED BY <1>0, <1>3, <1>4, <1>7, <1>8, <1>9, <1>10 DEF TrackInv

(* The rows when the actions are planned.                                  *)
LEMMA TrackedFound ==
  ASSUME TrackInv, faults = 0, Prepared, NEW s \in Sides, NEW i \in Idents
  PROVE  /\ newst[s][i] = None => NotAgreed(s, i)
         /\ newst[s][i] # None /\ IsChanged(s, i) =>
              /\ newst[s][i].hash # agreed[i]
              /\ Track(newst[s][i], s, i, newst[s][i].hash)
         /\ newst[s][i] # None /\ ~ IsChanged(s, i) => Track(newst[s][i], s, i, agreed[i])
         /\ Track(status[s][i], s, i, agreed[i])
<1>1. Unread(s, i) /\ News(s, i) /\ Track(status[s][i], s, i, agreed[i])
  BY DEF TrackInv, Prepared, Sides
<1> QED BY <1>1 DEF Unread, News, IsChanged

LEMMA PlanTracked ==
  ASSUME PlainPair, TypeOK, PlacesInv, TrackInv, Plan, faults = 0
  PROVE  TrackInv'
<1>0. UNCHANGED <<store, known, status, newst, agreed>> /\ Prepared /\ pc' = "run"
      /\ \A i \in Idents : plan'[i] = ActionFor(i)
  BY DEF Plan, storeVars
<1>1. \A i \in Idents : AgreedKnown(i)'
  BY <1>0, SameTracked DEF TrackInv
<1>2. ASSUME NEW i \in Idents PROVE RunTrack(i)'
  <2>1. ASSUME NEW s \in Sides
        PROVE  /\ newst[s][i] = None =>
                    NotAgreed(s, i)' /\ Track(newst[s][i], s, i, agreed[i])'
               /\ newst[s][i] # None /\ IsChanged(s, i) =>
                    /\ newst'[s][i].hash # agreed'[i] /\ newst'[s][i].hash \in known'[s][i]
                    /\ Track(newst[s][i], s, i, newst[s][i].hash)'
               /\ newst[s][i] # None /\ ~ IsChanged(s, i) => Track(newst[s][i], s, i, agreed[i])'
               /\ Track(status[s][i], s, i, agreed[i])'
    <3>1. At(s, i)' = At(s, i)
      BY <1>0 DEF At
    <3> QED BY <1>0, <3>1, TrackedFound, PlainRows DEF NotAgreed, Track
  <2>2. CASE plan'[i] = None /\ \A s \in Sides : newst[s][i] # None => ~ IsChanged(s, i)
    <3>1. \A s \in Sides : Track(newst[s][i], s, i, agreed[i])'
      BY <2>1, <2>2
    <3> QED BY <2>2, <3>1 DEF RunTrack, Pending
  <2>3. ASSUME NEW s \in Sides, NEW op \in {"upload", "update"}, newst[s][i] # None,
               IsChanged(s, i), plan'[i] = Act(op, Other(s), newst[s][i].hash)
        PROVE  RunTrack(i)'
    <3>1. /\ plan'[i].op = op /\ plan'[i].dest = Other(s) /\ plan'[i] # None
          /\ plan'[i].hash = newst[s][i].hash
      BY <2>3, ActRecord, RowTyped, SidesLemma DEF Ops, UpdateOps
    <3>2. \A s2 \in Sides : Other(s) = Other(s2) => s2 = s
      BY DEF Sides, Other
    <3>3. Track(newst[s][i], s, i, plan[i].hash)' /\ plan'[i].hash \in known'[s][i]
          /\ plan'[i].hash # agreed'[i]
      BY <1>0, <2>1, <2>3, <3>1 DEF Track
    <3> QED BY <2>1, <2>3, <3>1, <3>2, <3>3 DEF RunTrack, Pending
  <2>4. ASSUME NEW s \in Sides, newst[s][i] # None, newst[Other(s)][i] = None,
               plan'[i] = Act("delete", s, newst[s][i].hash)
        PROVE  RunTrack(i)'
    <3>0. Other(s) \in Sides /\ \A s2 \in Sides : s = Other(s2) => s2 = Other(s)
      BY DEF Sides, Other
    <3>1. plan'[i].op = "delete" /\ plan'[i].dest = s /\ plan'[i] # None
      BY <2>4, ActRecord, RowTyped DEF Ops
    <3>2. NotAgreed(Other(s), i)'
      BY <2>1, <2>4, <3>0
    <3>3. \A s2 \in Sides : s = Other(s2) => NotAgreed(s2, i)'
      <4> SUFFICES ASSUME NEW s2 \in Sides, s = Other(s2) PROVE NotAgreed(s2, i)'
        OBVIOUS
      <4>1. s2 = Other(s)
        BY <3>0
      <4> QED BY <2>1, <2>4, <4>1
    <3> QED BY <2>1, <3>1, <3>3 DEF RunTrack, Pending
  <2>5. ASSUME BothRows(i), \A s \in Sides : IsChanged(s, i),
               plan'[i] = Act("resolve", "a", newst["a"][i].hash)
        PROVE  RunTrack(i)'
    <3>1. plan'[i].op = "resolve" /\ plan'[i] # None /\ plan'[i].hash = newst'["a"][i].hash
      BY <1>0, <2>5, ActRecord, RowTyped DEF BothRows, Sides, Ops
    <3>2. \A s \in Sides : /\ newst'[s][i] # None /\ newst'[s][i].hash # agreed'[i]
                           /\ Track(newst[s][i], s, i, newst[s][i].hash)'
      BY <1>0, <2>1, <2>5 DEF BothRows
    <3> QED BY <2>1, <3>1, <3>2 DEF RunTrack, Pending
  <2>6. CASE NoRows(i)
    <3>1. plan'[i] = None /\ \A s \in Sides : newst[s][i] = None
      BY <1>0, <2>6, PlannedAction DEF NoRows
    <3> QED BY <2>2, <3>1
  <2>7. ASSUME NEW s \in Sides, newst[s][i] # None, newst[Other(s)][i] = None
        PROVE  RunTrack(i)'
    <3>1. plan'[i] = IF IsChanged(s, i) THEN Act("upload", Other(s), newst[s][i].hash)
                                        ELSE Act("delete", s, newst[s][i].hash)
      BY <1>0, <2>7, PlannedAction
    <3> QED BY <2>3, <2>4, <2>7, <3>1
  <2>8. CASE BothRows(i) /\ \A s \in Sides : IsChanged(s, i)
    BY <1>0, <2>5, <2>8, PlannedAction
  <2>9. CASE BothRows(i) /\ \A s \in Sides : ~ IsChanged(s, i)
    BY <1>0, <2>2, <2>9, PlannedAction
  <2>10. ASSUME BothRows(i), NEW s \in Sides, IsChanged(s, i), ~ IsChanged(Other(s), i)
         PROVE  RunTrack(i)'
    <3>1. plan'[i] = Act("update", Other(s), newst[s][i].hash) /\ newst[s][i] # None
      BY <1>0, <2>10, PlannedAction DEF BothRows
    <3> QED BY <2>3, <2>10, <3>1
  <2>11. \/ NoRows(i)
         \/ \E s \in Sides : newst[s][i] # None /\ newst[Other(s)][i] = None
         \/ BothRows(i) /\ \/ \A s \in Sides : IsChanged(s, i)
                           \/ \A s \in Sides : ~ IsChanged(s, i)
                           \/ \E s \in Sides : IsChanged(s, i) /\ ~ IsChanged(Other(s), i)
    BY DEF NoRows, BothRows, Sides, Other
  <2> QED BY <2>6, <2>7, <2>8, <2>9, <2>10, <2>11
<1> QED BY <1>0, <1>1, <1>2 DEF TrackInv

LEMMA TrackStep ==
  ASSUME HistoryKept, TypeOK, TypeOK', RowsInv, PlacesInv, TrackInv, [Next]_vars
  PROVE  TrackInv'
<1>0. PlainPair /\ TakesOrReverts
  BY PlainTakes DEF HistoryKept
<1>1. ASSUME faults' # 0 PROVE TrackInv'
  BY <1>1 DEF TrackInv
<1>2. ASSUME Abort, UNCHANGED <<storeVars, faults>>, pc # "run" PROVE TrackInv'
  <2>1. UNCHANGED <<store, known, agreed, status, faults>> /\ pc' = "idle"
    BY <1>2 DEF Abort, EndOfSync, storeVars
  <2> QED BY <1>2, <2>1, SameTracked DEF TrackInv
<1>3. CASE Editor
  <2>1. EditStep /\ EditorMay = {} /\ Grows
    BY <1>0, <1>3, EditorPlain DEF HistoryKept
  <2>2. UNCHANGED <<status, newst, pc, cur, plan, agreed, faults>>
        /\ \A s \in Sides, i \in Idents : Novel(s, i)
    BY <2>1, NovelSteps DEF EditStep
  <2> SUFFICES ASSUME faults = 0 PROVE TrackInv'
    BY <2>2 DEF TrackInv
  <2>3. ASSUME NEW i \in Idents
        PROVE  /\ AgreedKnown(i)'
               /\ pc # "run" => \A s \in Sides : Track(status[s][i], s, i, agreed[i])'
               /\ \A s \in Sides : Unread(s, i) => Unread(s, i)'
               /\ pc \in {"list", "fetch"} => \A s \in Sides : News(s, i)'
               /\ pc = "run" => RunTrack(i)'
    <3>1. \A s \in Sides : /\ Novel(s, i) /\ known[s][i] \subseteq known'[s][i]
                           /\ status'[s][i] = status[s][i] /\ newst'[s][i] = newst[s][i]
      BY <2>1, <2>2 DEF Grows
    <3>2. AgreedKnown(i) /\ agreed'[i] = agreed[i] /\ plan'[i] = plan[i]
      BY <2>2 DEF TrackInv
    <3>3. pc = "run" => RunTrack(i)'
      BY <1>0, <3>1, <3>2, RunTrackKept DEF TrackInv
    <3>4. pc # "run" => \A s \in Sides : Track(status[s][i], s, i, agreed[i])'
      BY <1>0, <3>1, <3>2, IdentTracked DEF TrackInv
    <3>5. pc \in {"list", "fetch"} => \A s \in Sides : News(s, i)'
      BY <1>0, <3>1, <3>2, IdentTracked DEF TrackInv
    <3>6. AgreedKnown(i)' /\ \A s \in Sides : Unread(s, i) => Unread(s, i)'
      BY <1>0, <3>1, <3>2, IdentTracked
    <3> QED BY <3>3, <3>4, <3>5, <3>6
  <2>4. pc = "fetch" => \A i \in Idents : Unread(cur, i)'
    <3> PICK s \in Sides : s = cur
      BY DEF TypeOK
    <3>1. pc = "fetch" => \A i \in Idents : Unread(s, i)'
      BY <2>3 DEF TrackInv
    <3> QED BY <2>2, <3>1 DEF Unread, NotAgreed
  <2>5. pc \in {"list", "fetch"} /\ cur = "b" => \A i \in Idents : Unread("a", i)'
    BY <2>3 DEF TrackInv, Sides
  <2> QED BY <2>2, <2>3, <2>4, <2>5 DEF TrackInv
<1>4. CASE \E f \in BOOLEAN, p \in PartialSync : StartSync(f, p)
  <2>1. UNCHANGED <<store, known, agreed, status, newst, cur, faults>> /\ pc = "idle"
        /\ pc' = "list" /\ cur = "a"
    BY <1>4 DEF StartSync, storeVars, boundVars, RowsInv, PrepareInv
  <2>2. \A s \in Sides, i \in Idents : newst'[s][i] = None
    BY <2>1 DEF RowsInv, PrepareInv, EmptyTable
  <2>3. \A s \in Sides, i \in Idents : News(s, i)'
    BY <2>2 DEF News
  <2> QED BY <2>1, <2>3, SameTracked DEF TrackInv
<1>5. CASE Prepare
  <2>1. UNCHANGED faults
    BY <1>5 DEF Prepare, List, Fetch, FetchFails, NextSide, RefuseEmpty, Plan, boundVars
  <2> SUFFICES ASSUME faults = 0 PROVE TrackInv'
    BY <2>1 DEF TrackInv
  <2>2. ASSUME NEW h \in Hrefs, FetchFails(h) PROVE TrackInv'
    BY <1>2, <2>2 DEF FetchFails, boundVars
  <2>3. CASE RefuseEmpty
    BY <1>2, <2>3 DEF RefuseEmpty, Prepared, boundVars
  <2>4. CASE NextSide
    <3>1. UNCHANGED <<store, known, agreed, status, newst>> /\ pc = "fetch" /\ pc' = "list"
          /\ cur = "a"
      BY <2>4 DEF NextSide, storeVars
    <3>2. /\ \A i \in Idents : AgreedKnown(i)' /\ Unread("a", i)'
          /\ \A s \in Sides, i \in Idents : Track(status[s][i], s, i, agreed[i])' /\ News(s, i)'
      BY <3>1, SameTracked DEF TrackInv, Sides
    <3> QED BY <3>1, <3>2 DEF TrackInv
  <2> QED BY <1>5, <2>2, <2>3, <2>4, <1>0, ListTracked, FetchTracked, PlanTracked DEF Prepare
<1>6. ASSUME NEW i \in Idents, RunAction(i) PROVE TrackInv'
  <2>1. UNCHANGED faults
    BY <1>6 DEF RunAction, RejectReadOnly, SkipReadOnly, RevertUpload, UploadAccepted,
                UploadRefused, RevertUpdate, UpdateAccepted, UpdateRefused, DeleteSkipped,
                DeleteAccepted, DeleteRefused, ResolveSame, ResolveUnsettled, ResolveTo,
                boundVars
  <2> QED BY <1>0, <1>6, <2>1, RunPlain, PlainOutcome, OutcomeTracked DEF HistoryKept
<1>7. ASSUME NEW i \in Idents, NEW effect \in BOOLEAN, RequestFails(i, effect) PROVE TrackInv'
  BY <1>0, <1>1, <1>7, RequestPlain
<1>8. CASE Commit
  <2>1. UNCHANGED <<store, known, agreed, faults>> /\ status' = newst /\ pc' = "idle"
        /\ pc = "run" /\ plan = NoPlan
    BY <1>8 DEF Commit, EndOfSync, AllRun, storeVars, boundVars
  <2> SUFFICES ASSUME faults = 0 PROVE TrackInv'
    BY <2>1 DEF TrackInv
  <2>2. ASSUME NEW i \in Idents
        PROVE  AgreedKnown(i)' /\ \A s \in Sides : Track(status[s][i], s, i, agreed[i])'
    <3>1. AgreedKnown(i) /\ \A s \in Sides : Track(newst[s][i], s, i, agreed[i])
      BY <2>1 DEF TrackInv, RunTrack, NoPlan
    <3> QED BY <2>1, <3>1 DEF AgreedKnown, Track, At
  <2> QED BY <2>1, <2>2 DEF TrackInv
<1>9. CASE CommitRejected
  BY <1>0, <1>9, AlwaysCommittable
<1>10. CASE Interrupted
  <2>1. faults' # 0
    BY <1>10 DEF Interrupted, TypeOK
  <2> QED BY <1>1, <2>1
<1>11. CASE UNCHANGED vars
  <2>1. UNCHANGED <<store, status, newst, pc, cur, plan, known, agreed, faults>>
    BY <1>11 DEF vars
  <2> QED BY <2>1 DEF TrackInv, RunTrack, AgreedKnown, Track, NotAgreed, Unread, News,
                      Pending, At
<1> QED BY <1>3, <1>4, <1>5, <1>6, <1>7, <1>8, <1>9, <1>10, <1>11 DEF Next, Progress, Faults

LEMMA TrackInit ==
  ASSUME Init
  PROVE  TrackInv
<1>1. \A i \in Idents : AgreedKnown(i)
  BY DEF Init, AgreedKnown
<1>2. \A s \in Sides, i \in Idents : agreed[i] # None => i \in InitialItems /\ agreed[i] = FirstHash
  BY DEF Init
<1>3. \A i \in InitialItems : agreed[i] = FirstHash
  BY InitialAssumption DEF Init
<1>4. \A s \in Sides, i \in Idents : Track(status[s][i], s, i, agreed[i])
  BY <1>3, InitPlaces DEF Track
<1>5. pc = "idle"
  BY InitPlaces
<1> QED BY <1>1, <1>4, <1>5 DEF TrackInv

LEMMA TrackAlways == HistoryKept => (Spec => [](TypeOK /\ RowsInv /\ PlacesInv /\ TrackInv))
<1> SUFFICES ASSUME HistoryKept
             PROVE  Spec => [](TypeOK /\ RowsInv /\ PlacesInv /\ TrackInv)
  OBVIOUS
<1>0. TakesOrReverts
  BY PlainTakes DEF HistoryKept
<1>1. Init => TypeOK /\ RowsInv /\ PlacesInv /\ TrackInv
  BY InitTyped, RowsInit, InitPlaces, TrackInit
<1>2. TypeOK /\ RowsInv /\ PlacesInv /\ TrackInv /\ [Next]_vars
        => (TypeOK /\ RowsInv /\ PlacesInv /\ TrackInv)'
  <2> SUFFICES ASSUME TypeOK, RowsInv, PlacesInv, TrackInv, [Next]_vars
               PROVE  TypeOK' /\ RowsInv' /\ PlacesInv' /\ TrackInv'
    OBVIOUS
  <2>1. TypeOK' /\ RowsInv'
    BY StepTyped, RowsStep
  <2>2. PlacesInv'
    BY <1>0, PlacesStep
  <2>3. TrackInv'
    BY <2>1, TrackStep
  <2> QED BY <2>1, <2>2, <2>3
<1> QED BY <1>1, <1>2, PTL DEF Spec

(* sync() reports a conflict only about an item that was changed on both   *)
(* sides since it last brought the same content to them, if no request     *)
(* failed so far: neither side of a conflict is what both had agreed on.   *)
THEOREM ConflictsAlwaysGenuine == HistoryKept => (Spec => []ConflictsAreGenuine)
<1> SUFFICES ASSUME HistoryKept PROVE Spec => []ConflictsAreGenuine
  OBVIOUS
<1>1. TypeOK /\ RowsInv /\ PlacesInv /\ TrackInv => ConflictsAreGenuine
  BY DEF TrackInv, RunTrack, Pending, ConflictsAreGenuine
<1>2. Spec => [](TypeOK /\ RowsInv /\ PlacesInv /\ TrackInv)
  BY TrackAlways
<1> QED BY <1>1, <1>2, PTL

(* What sync() uploads to a side is never the content that both sides had  *)
(* agreed on: an item deleted on one side and left alone on the other is   *)
(* deleted there, and does not come back.                                  *)
THEOREM DeletedStaysDeleted == HistoryKept => (Spec => NoResurrection)
<1> SUFFICES ASSUME HistoryKept PROVE Spec => NoResurrection
  OBVIOUS
<1>0. PlainPair /\ TakesOrReverts
  BY PlainTakes DEF HistoryKept
<1>1. ASSUME TypeOK, RowsInv, PlacesInv, TrackInv, [Next]_vars, faults = 0, BySync,
             NEW s \in Sides, NEW h \in Hrefs, store[s][h] = None, store'[s][h] # None
      PROVE  store'[s][h].hash # agreed[store'[s][h].ident]
  <2>1. TypeOK' /\ PlacesInv'
    BY <1>0, <1>1, StepTyped, PlacesStep
  <2>2. store'[s][h].ident \in Idents /\ h = HrefOf[store'[s][h].ident]
    BY <1>1, <2>1 DEF PlacesInv, StorePlaced, TypeOK, Storages, Item
  <2> PICK i \in Idents : i = store'[s][h].ident
    BY <2>2
  <2>3. h = HrefOf[i] /\ At(s, i) = None /\ At(s, i)' # None /\ store'[s][h] = At(s, i)'
    BY <1>1, <2>2 DEF At
  <2>4. ASSUME NEW j \in Idents, NEW d \in Sides, NEW c \in Hashes, Written(d, j, c), pc = "run",
               plan[j].dest = d, plan[j].hash = c,
               Pending(j, {"upload"}) \/ At(d, j) # None
        PROVE  store'[s][h].hash # agreed[i]
    <3>1. s = d /\ i = j
      BY <2>3, <2>4 DEF Written, SparesOthers, Spared
    <3>2. At(s, i)'.hash = c
      BY <2>4, <3>1 DEF Written
    <3>3. Pending(i, {"upload", "merge"})
      BY <2>3, <2>4, <3>1 DEF Pending
    <3> QED BY <1>1, <2>3, <2>4, <3>1, <3>2, <3>3 DEF TrackInv, RunTrack
  <2>5. ASSUME NEW j \in Idents, RunAction(j) PROVE store'[s][h].hash # agreed[i]
    <3>1. ~ (\A s2 \in Sides, j2 \in Idents : Spared(s2, j2)) /\ ~ Resolved(j) /\ ~ Deleted(j)
          /\ ~ TakenBack(j) /\ ~ Skipped(j)
      <4>1. ~ Spared(s, i)
        BY <2>3 DEF Spared
      <4>2. ~ Emptied(s, i)
        BY <2>3 DEF Emptied
      <4>3. \A d \in Sides : ~ Emptied(d, j)
        BY <4>1, <4>2 DEF Emptied, SparesOthers
      <4> QED BY <1>0, <4>1, <4>3, PlainOutcome DEF Resolved, RowsKept, LeavesOthers, Deleted
    <3>2. Wrote(j) /\ pc = "run"
      BY <1>0, <1>1, <2>5, <3>1, RunPlain
    <3> QED BY <2>4, <3>2 DEF Wrote, Uploaded, Updated, Merged
  <2>6. ASSUME NEW j \in Idents, NEW effect \in BOOLEAN, RequestFails(j, effect)
        PROVE  store'[s][h].hash # agreed[i]
    <3>1. pc = "run" /\ Effect(j) /\ SparesOthers(plan[j].dest, j)
      BY <1>0, <1>1, <2>6, RequestPlain
    <3>2. ~ Spared(s, i) /\ ~ Emptied(s, i)
      BY <2>3 DEF Spared, Emptied
    <3>3. i = j
      BY <3>1, <3>2 DEF SparesOthers
    <3>4. \E d \in Sides, c \in Hashes :
            /\ plan[j].dest = d /\ plan[j].hash = c /\ Written(d, j, c)
            /\ Pending(j, {"upload"}) \/ At(d, j) # None
      BY <3>1, <3>2, <3>3 DEF Effect, Pending, UpdateOps, Emptied, SparesOthers
    <3> QED BY <2>4, <3>1, <3>4
  <2>7. ASSUME UNCHANGED store PROVE FALSE
    BY <1>1, <2>7
  <2>8. ~ Editor
    BY <1>1 DEF Editor, EditorPut, EditorRemove, EditorMove, Edited, BySync, TypeOK
  <2>9. CASE (\E f \in BOOLEAN, p \in PartialSync : StartSync(f, p)) \/ Prepare
             \/ Commit \/ CommitRejected \/ Interrupted \/ UNCHANGED vars
    <3>1. UNCHANGED store
      BY <2>9 DEF StartSync, Prepare, List, Fetch, FetchFails, NextSide, RefuseEmpty, Plan,
                  Commit, CommitRejected, Interrupted, storeVars, vars
    <3> QED BY <2>7, <3>1
  <2> QED BY <1>1, <2>5, <2>6, <2>8, <2>9 DEF Next, Progress, Faults
<1>2. TypeOK /\ RowsInv /\ PlacesInv /\ TrackInv /\ [Next]_vars =>
        [\A s \in Sides, h \in Hrefs :
           BySync /\ faults = 0 /\ store[s][h] = None /\ store'[s][h] # None =>
             store'[s][h].hash # agreed[store'[s][h].ident]]_vars
  BY <1>1
<1>3. Spec => [](TypeOK /\ RowsInv /\ PlacesInv /\ TrackInv)
  BY TrackAlways
<1> QED BY <1>2, <1>3, PTL DEF Spec, NoResurrection
=============================================================================
