--------------------------------- MODULE Sync ---------------------------------
(***************************************************************************)
(* The synchronization of two storages (sync/__init__.py): one call of     *)
(* sync() after another, interleaved at every await with people who change *)
(* the items on both sides, with requests that fail before or after they   *)
(* took effect, and with interruptions of the process.                     *)
(*                                                                         *)
(*   sync()              actions of this module                            *)
(*   ------------------  ------------------------------------------------- *)
(*   status_nonempty     StartSync                                         *)
(*   prepare_new_status  List, Fetch, FetchFails, NextSide                 *)
(*   StorageEmpty        RefuseEmpty                                       *)
(*   _get_actions        Plan                                              *)
(*   action.run          SkipReadOnly, RejectReadOnly, Revert*, Upload*,   *)
(*                       Update*, Delete*, Resolve*, RequestFails          *)
(*   end of transaction  Commit, CommitRejected                            *)
(***************************************************************************)
EXTENDS SqliteStatus

CONSTANTS
  ReadOnly,            \* the sides whose storage is read_only
  NoDelete,            \* the sides whose storage is no_delete
  EtagLost,            \* the sides whose writes return no etag
  PartialSync,         \* the modes in use: "error", "ignore", "revert"
  ConflictResolution,  \* "none", "a wins", "b wins" or "merge"
  HasErrorCallback,    \* errors of actions go to a callback
  MayForce,            \* a user may run a sync with force_delete
  EditorMay,           \* what people do to items, see EditorPut
  InitialItems,        \* idents both sides hold in the initial state
  FirstHash,           \* their content
  FirstEtag,           \* their etags
  MaxEdits,            \* bound: changes made by people
  MaxFaults            \* bound: failed requests and interruptions

ASSUME OptionsAssumption ==
  /\ ReadOnly \subseteq Sides
  /\ NoDelete \subseteq Sides
  /\ EtagLost \subseteq Sides
  /\ PartialSync \subseteq {"error", "ignore", "revert"}
  /\ ConflictResolution \in {"none", "a wins", "b wins", "merge"}
  /\ HasErrorCallback \in BOOLEAN
  /\ MayForce \in BOOLEAN
  /\ EditorMay \subseteq {"undo", "touch", "move", "retag", "duplicate"}

ASSUME InitialAssumption ==
  /\ InitialItems \subseteq Idents
  /\ FirstHash \in Hashes
  /\ FirstEtag \in [Idents -> Etags]
  /\ \A i, j \in Idents : FirstEtag[i] = FirstEtag[j] => i = j

ASSUME BoundsAssumption == MaxEdits \in Nat /\ MaxFaults \in Nat

VARIABLES
  store,           \* the two storages
  status,          \* table "status"
  newst,           \* table "new_status" of the open transaction
  pc,              \* where sync() is: "idle", "list", "fetch" or "run"
  cur,             \* the side prepare_new_status is working on
  todo,            \* hrefs still to be prefetched on that side
  nonempty,        \* what prepare_new_status returned, for each side
  statusNonempty,  \* the status had a row when sync() was called
  force,           \* force_delete
  partial,         \* partial_sync
  cached,          \* idents in the item cache of each side
  plan,            \* for each ident, the action that is still to be run
  errors,          \* idents whose action failed
  known,           \* history: contents each side has ever held of an ident
  agreed,          \* history: the content sync() last brought to both sides
  clean,           \* history: nothing disturbed the running sync so far
  quiet,           \* history: undisturbed successful syncs in a row (max 3)
  edits, faults    \* counters for MaxEdits and MaxFaults

storeVars == <<store, known, agreed>>
prepVars  == <<cur, todo, nonempty, statusNonempty, force, partial, cached>>
boundVars == <<edits, faults>>
vars == <<store, status, newst, pc, cur, todo, nonempty, statusNonempty, force,
          partial, cached, plan, errors, known, agreed, clean, quiet, edits, faults>>

(* Actions: Upload, Update, Delete and ResolveConflict, with the content   *)
(* they carry.  A resolved conflict becomes one or two updates: "settle"   *)
(* is an update of one side, "merge" the update of side a that is followed *)
(* by a "settle" of side b.                                                *)
UpdateOps == {"update", "settle", "merge"}
Ops == {"upload", "delete", "resolve"} \cup UpdateOps
Action == [op : Ops, dest : Sides, hash : Hashes]
NoPlan == [i \in Idents |-> None]

ASSUME NoneIsNoAction == None \notin Action

-----------------------------------------------------------------------------
(* Etags.  A storage never hands out an etag again that is still in use or *)
(* remembered in the status.                                               *)
EtagsInUse(s) ==
  {store[s][h].etag : h \in Listed(store[s])}
    \cup {m.etag : m \in {status[s][i] : i \in Idents} \ {None}}
    \cup {m.etag : m \in {newst[s][i] : i \in Idents} \ {None}}

HasFreshEtag(s) == Etags \ EtagsInUse(s) # {}
FreshEtag(s) == CHOOSE e \in Etags : e \notin EtagsInUse(s)

ReturnedEtag(s, e) == IF s \in EtagLost THEN None ELSE e

-----------------------------------------------------------------------------
(* People.                                                                 *)

(* Item i is written at h of side s, with content c and a fresh etag.      *)
Write(s, h, i, c) ==
  /\ store' = [store EXCEPT ![s] = Put(store[s], h, i, c, FreshEtag(s))]
  /\ known' = [known EXCEPT ![s][i] = @ \cup {c}]

Edited ==
  /\ edits < MaxEdits
  /\ edits' = edits + 1
  /\ clean' = FALSE
  /\ quiet' = 0
  /\ UNCHANGED <<status, newst, pc, prepVars, plan, errors, faults>>

(* Item i is written at h with content c.  Without further permissions,    *)
(* people put an item where storages would put it, leave its UID alone and *)
(* give it contents this side never held:                                  *)
(*   "undo"       an earlier content may come back;                        *)
(*   "touch"      the etag may change although the content does not;       *)
(*   "retag"      the UID of the item at an href may change;               *)
(*   "duplicate"  two hrefs may hold items of the same UID.                *)
EditorPut(s, h, i, c) ==
  /\ HasFreshEtag(s)
  /\ IF store[s][h] = None
       THEN h = HrefOf[i] \/ "move" \in EditorMay
       ELSE store[s][h].ident = i \/ "retag" \in EditorMay
  /\ IF store[s][h] # None /\ store[s][h].ident = i /\ store[s][h].hash = c
       THEN "touch" \in EditorMay
       ELSE c \notin known[s][i] \/ "undo" \in EditorMay
  /\ \/ \A h2 \in Listed(store[s]) \ {h} : store[s][h2].ident # i
     \/ "duplicate" \in EditorMay
  /\ Write(s, h, i, c)
  /\ UNCHANGED agreed
  /\ Edited

EditorRemove(s, h) ==
  /\ store[s][h] # None
  /\ store' = [store EXCEPT ![s] = Removed(store[s], h)]
  /\ UNCHANGED <<known, agreed>>
  /\ Edited

(* Renaming a file keeps its mtime and inode, which are its etag.          *)
EditorMove(s, h, h2) ==
  /\ "move" \in EditorMay
  /\ store[s][h] # None
  /\ store[s][h2] = None
  /\ store' = [store EXCEPT ![s] = [store[s] EXCEPT ![h] = None,
                                                    ![h2] = store[s][h]]]
  /\ UNCHANGED <<known, agreed>>
  /\ Edited

-----------------------------------------------------------------------------
(* The beginning and the end of sync().                                    *)

(* The transaction is over, its cursor and the _StorageInfo are gone.      *)
EndOfSync ==
  /\ newst' = EmptyTable
  /\ pc' = "idle"
  /\ cur' = "a"
  /\ todo' = {}
  /\ nonempty' = [s \in Sides |-> FALSE]
  /\ statusNonempty' = FALSE
  /\ force' = FALSE
  /\ partial' = "revert"
  /\ cached' = [s \in Sides |-> {}]
  /\ plan' = NoPlan
  /\ errors' = {}
  /\ clean' = FALSE

(* An exception leaves sync(): the transaction is rolled back.             *)
Abort ==
  /\ EndOfSync
  /\ quiet' = 0
  /\ UNCHANGED status

StartSync(f, p) ==
  /\ pc = "idle"
  /\ ReadOnly # Sides                                        \* BothReadOnly
  /\ f => MayForce
  /\ statusNonempty' = (\E i \in Idents : HasRow(status, i))
  /\ force' = f
  /\ partial' = p
  /\ pc' = "list"
  /\ clean' = TRUE
  /\ UNCHANGED <<storeVars, status, newst, cur, todo, nonempty, cached, plan,
                 errors, quiet, boundVars>>

-----------------------------------------------------------------------------
(* prepare_new_status                                                      *)

(* Mutant: the item is not looked for.                                     *)
UnmodifiedAlways(s, i) == status[s][i] # None

(* The item a row describes is listed with the same etag.                  *)
Unmodified(s, i) ==
  /\ status[s][i] # None
  /\ Holds(store[s], status[s][i].href, status[s][i].etag)

(* list(): unmodified items keep their row, the others are prefetched.     *)
List ==
  /\ pc = "list"
  /\ newst' = [newst EXCEPT ![cur] =
       [i \in Idents |-> IF Unmodified(cur, i) THEN status[cur][i] ELSE None]]
  /\ todo' = {h \in Listed(store[cur]) :
       \A i \in ByHref(status, cur, h) : ~Unmodified(cur, i)}
  /\ nonempty' = [nonempty EXCEPT ![cur] = Listed(store[cur]) # {}]
  /\ pc' = "fetch"
  /\ UNCHANGED <<storeVars, status, cur, statusNonempty, force, partial,
                 cached, plan, errors, clean, quiet, boundVars>>

(* get_multi() yields one of the prefetched items.                         *)
Fetch(h) ==
  LET item == store[cur][h] IN
  /\ pc = "fetch"
  /\ h \in todo
  /\ item # None
  /\ newst[cur][item.ident] = None
  /\ newst' = SetSide(newst, cur, item.ident,
                [href |-> h, hash |-> item.hash, etag |-> item.etag])
  /\ cached' = [cached EXCEPT ![cur] = @ \cup {item.ident}]
  /\ todo' = todo \ {h}
  /\ UNCHANGED <<storeVars, status, pc, cur, nonempty, statusNonempty, force,
                 partial, plan, errors, clean, quiet, boundVars>>

(* The item has vanished since list(): NotFoundError; or its ident was     *)
(* seen at another href already: IdentConflict.                            *)
FetchFails(h) ==
  LET item == store[cur][h] IN
  /\ pc = "fetch"
  /\ h \in todo
  /\ item # None => newst[cur][item.ident] # None
  /\ Abort
  /\ UNCHANGED <<storeVars, boundVars>>

NextSide ==
  /\ pc = "fetch"
  /\ todo = {}
  /\ cur = "a"
  /\ cur' = "b"
  /\ pc' = "list"
  /\ UNCHANGED <<storeVars, status, newst, todo, nonempty, statusNonempty,
                 force, partial, cached, plan, errors, clean, quiet, boundVars>>

Prepared == pc = "fetch" /\ todo = {} /\ cur = "b"

(* Mutant: an empty side b is not noticed.                                 *)
OnlyListedEmptyA == ~nonempty["a"] /\ nonempty["b"]

(* Exactly one side was listed empty.                                      *)
OneSideListedEmpty == nonempty["a"] # nonempty["b"]

MustRefuse == statusNonempty /\ ~force /\ OneSideListedEmpty

RefuseEmpty ==
  /\ Prepared
  /\ MustRefuse
  /\ Abort
  /\ UNCHANGED <<storeVars, boundVars>>

-----------------------------------------------------------------------------
(* _get_actions                                                            *)

IsChanged(s, i) ==
  \/ status[s][i] = None
  \/ /\ newst[s][i].etag # status[s][i].etag
     /\ newst[s][i].hash # status[s][i].hash

Act(op, d, c) == [op |-> op, dest |-> d, hash |-> c]

(* Mutant: an item that is missing on one side is always uploaded again.   *)
ActionForUploads(i) ==
  LET there == {s \in Sides : newst[s][i] # None}
      alone == CHOOSE s \in there : TRUE
  IN  IF Cardinality(there) # 1 THEN None
      ELSE Act("upload", Other(alone), newst[alone][i].hash)

ActionFor(i) ==
  LET there   == {s \in Sides : newst[s][i] # None}
      changed == {s \in there : IsChanged(s, i)}
      src     == CHOOSE s \in changed : TRUE
      alone   == CHOOSE s \in there : TRUE
  IN  IF there = {} THEN None
      ELSE IF there = Sides
        THEN IF changed = Sides
               THEN Act("resolve", "a", newst["a"][i].hash)
             ELSE IF changed = {} THEN None
               ELSE Act("update", Other(src), newst[src][i].hash)
      ELSE IF changed = there
        THEN Act("upload", Other(alone), newst[alone][i].hash)
        ELSE Act("delete", alone, newst[alone][i].hash)

Plan ==
  /\ Prepared
  /\ ~MustRefuse
  /\ plan' = [i \in Idents |-> ActionFor(i)]
  /\ pc' = "run"
  /\ UNCHANGED <<storeVars, status, newst, prepVars, errors, clean, quiet,
                 boundVars>>

-----------------------------------------------------------------------------
(* Running the actions.  Every action belongs to another ident; they are   *)
(* run one after another, in an order the model leaves open.               *)

Pending(i, ops) == pc = "run" /\ plan[i] # None /\ plan[i].op \in ops

(* Mutant: the second update of a merge is forgotten.                      *)
RemainingNothing(i) == None

(* What is left to do for an ident when one of its updates is over.        *)
Remaining(i) ==
  IF plan[i].op = "merge" THEN Act("settle", "b", plan[i].hash) ELSE None

Advance(i) ==
  /\ plan' = [plan EXCEPT ![i] = Remaining(i)]
  /\ UNCHANGED <<status, pc, prepVars, errors, clean, quiet>>

(* auto_rollback: the ident keeps the row the last sync left.  The error   *)
(* goes to error_callback, or else it ends the sync.                       *)
Fail(i) ==
  IF HasErrorCallback
    THEN /\ newst' = Rollback(newst, status, i)
         /\ plan' = [plan EXCEPT ![i] = None]
         /\ errors' = errors \cup {i}
         /\ UNCHANGED <<status, pc, prepVars, clean, quiet>>
    ELSE Abort

(* The action gets as far as its _run_impl.                                *)
Runs(i) == plan[i].dest \notin ReadOnly \/ partial = "revert"

RejectReadOnly(i) ==
  /\ Pending(i, Ops \ {"resolve"})
  /\ plan[i].dest \in ReadOnly
  /\ partial = "error"
  /\ Fail(i)
  /\ UNCHANGED <<storeVars, boundVars>>

SkipReadOnly(i) ==
  /\ Pending(i, Ops \ {"resolve"})
  /\ plan[i].dest \in ReadOnly
  /\ partial = "ignore"
  /\ newst' = Rollback(newst, status, i)
  /\ Advance(i)
  /\ UNCHANGED <<storeVars, boundVars>>

(* Upload *)
RevertUpload(i) ==
  LET d == plan[i].dest IN
  /\ Pending(i, {"upload"}) /\ Runs(i)
  /\ d \in ReadOnly
  /\ newst' = SetSide(newst, d, i,
                [href |-> None, hash |-> plan[i].hash, etag |-> None])
  /\ Advance(i)
  /\ UNCHANGED <<storeVars, boundVars>>

UploadAccepted(i) ==
  LET d == plan[i].dest
      h == HrefOf[i] IN
  /\ Pending(i, {"upload"})
  /\ d \notin ReadOnly
  /\ store[d][h] = None
  /\ HasFreshEtag(d)
  /\ Write(d, h, i, plan[i].hash)
  /\ agreed' = [agreed EXCEPT ![i] = plan[i].hash]
  /\ newst' = SetSide(newst, d, i,
                [href |-> h, hash |-> plan[i].hash,
                 etag |-> ReturnedEtag(d, FreshEtag(d))])
  /\ Advance(i)
  /\ UNCHANGED boundVars

(* AlreadyExistingError *)
UploadRefused(i) ==
  /\ Pending(i, {"upload"})
  /\ plan[i].dest \notin ReadOnly
  /\ store[plan[i].dest][HrefOf[i]] # None
  /\ Fail(i)
  /\ UNCHANGED <<storeVars, boundVars>>

(* Mutant: the row of the read-only side is left as it is.                 *)
RevertUpdateNothing(i) ==
  /\ Pending(i, UpdateOps) /\ Runs(i)
  /\ plan[i].dest \in ReadOnly
  /\ UNCHANGED newst
  /\ Advance(i)
  /\ UNCHANGED <<storeVars, boundVars>>

(* Update.  Only the etag of the destination's row is replaced; its hash   *)
(* stays what prepare_new_status read.                                     *)
RevertUpdate(i) ==
  LET d == plan[i].dest IN
  /\ Pending(i, UpdateOps) /\ Runs(i)
  /\ d \in ReadOnly
  /\ newst' = SetSide(newst, d, i,
                [href |-> None, hash |-> plan[i].hash, etag |-> None])
  /\ Advance(i)
  /\ UNCHANGED <<storeVars, boundVars>>

(* The destination still has the version that was listed.                  *)
Current(i) ==
  LET d == plan[i].dest IN
  /\ newst[d][i] # None
  /\ Holds(store[d], newst[d][i].href, newst[d][i].etag)

(* Mutant: the row keeps the old etag.                                     *)
UpdateRowOldEtag(m, e) == m

UpdateRow(m, e) == [m EXCEPT !.etag = e]

UpdateAccepted(i) ==
  LET d == plan[i].dest
      m == newst[d][i] IN
  /\ Pending(i, UpdateOps)
  /\ d \notin ReadOnly
  /\ Current(i)
  /\ HasFreshEtag(d)
  /\ Write(d, m.href, i, plan[i].hash)
  /\ agreed' = IF plan[i].op = "merge" THEN agreed
               ELSE [agreed EXCEPT ![i] = plan[i].hash]
  /\ newst' = SetSide(newst, d, i,
                UpdateRow(m, ReturnedEtag(d, FreshEtag(d))))
  /\ Advance(i)
  /\ UNCHANGED boundVars

(* WrongEtagError or NotFoundError (or, when the skipped first update of a *)
(* merge has dropped the row, AttributeError).                             *)
UpdateRefused(i) ==
  /\ Pending(i, UpdateOps)
  /\ plan[i].dest \notin ReadOnly
  /\ ~Current(i)
  /\ Fail(i)
  /\ UNCHANGED <<storeVars, boundVars>>

(* Delete *)

(* Mutant: only no_delete is looked at.                                    *)
KeepsNoDelete(s) == s \in NoDelete

Keeps(s) == s \in ReadOnly \cup NoDelete

(* Mutant: the row of a kept item is restored.                             *)
DeleteSkippedRestores(i) ==
  /\ Pending(i, {"delete"}) /\ Runs(i)
  /\ Keeps(plan[i].dest)
  /\ newst' = Rollback(newst, status, i)
  /\ Advance(i)
  /\ UNCHANGED <<storeVars, boundVars>>

DeleteSkipped(i) ==
  /\ Pending(i, {"delete"}) /\ Runs(i)
  /\ Keeps(plan[i].dest)
  /\ newst' = RemoveIdent(newst, i)
  /\ Advance(i)
  /\ UNCHANGED <<storeVars, boundVars>>

DeleteAccepted(i) ==
  LET d == plan[i].dest IN
  /\ Pending(i, {"delete"})
  /\ ~Keeps(d)
  /\ Current(i)
  /\ store' = [store EXCEPT ![d] = Removed(store[d], newst[d][i].href)]
  /\ newst' = RemoveIdent(newst, i)
  /\ Advance(i)
  /\ UNCHANGED <<known, agreed, boundVars>>

DeleteRefused(i) ==
  /\ Pending(i, {"delete"})
  /\ ~Keeps(plan[i].dest)
  /\ ~Current(i)
  /\ Fail(i)
  /\ UNCHANGED <<storeVars, boundVars>>

(* ResolveConflict *)
SameOnBothSides(i) == newst["a"][i].hash = newst["b"][i].hash

ResolveSame(i) ==
  /\ Pending(i, {"resolve"})
  /\ SameOnBothSides(i)
  /\ plan' = [plan EXCEPT ![i] = None]
  /\ agreed' = [agreed EXCEPT ![i] = plan[i].hash]
  /\ UNCHANGED <<store, known, status, newst, pc, prepVars, errors, clean,
                 quiet, boundVars>>

(* SyncConflict *)
ResolveUnsettled(i) ==
  /\ Pending(i, {"resolve"})
  /\ ~SameOnBothSides(i)
  /\ ConflictResolution = "none"
  /\ Fail(i)
  /\ UNCHANGED <<storeVars, boundVars>>

(* What the conflict resolution may answer.                                *)
Resolutions(ca, cb) ==
  CASE ConflictResolution = "a wins" -> {ca}
    [] ConflictResolution = "b wins" -> {cb}
    [] ConflictResolution = "merge"  -> Hashes
    [] OTHER                         -> {}

ResolveTo(i, c) ==
  LET ca == newst["a"][i].hash
      cb == newst["b"][i].hash IN
  /\ Pending(i, {"resolve"})
  /\ ~SameOnBothSides(i)
  /\ c \in Resolutions(ca, cb)
  /\ c \in {ca, cb} \/ c \notin known["a"][i] \cup known["b"][i]
  /\ plan' = [plan EXCEPT ![i] =
       IF c = ca THEN Act("settle", "b", c)
       ELSE IF c = cb THEN Act("settle", "a", c)
       ELSE Act("merge", "a", c)]
  /\ UNCHANGED <<storeVars, status, newst, pc, prepVars, errors, clean, quiet,
                 boundVars>>

(* A request to the storage of the action's destination fails although     *)
(* the storage would have accepted it: it never arrived (~effect), or only *)
(* the answer was lost (effect).  Writes are not retried (http.py).        *)
RequestFails(i, effect) ==
  LET d == plan[i].dest
      m == newst[d][i] IN
  /\ faults < MaxFaults
  /\ faults' = faults + 1
  /\ \/ /\ Pending(i, {"upload"}) /\ d \notin ReadOnly
        /\ store[d][HrefOf[i]] = None
        /\ IF effect THEN Write(d, HrefOf[i], i, plan[i].hash)
                     ELSE UNCHANGED <<store, known>>
     \/ /\ Pending(i, UpdateOps) /\ d \notin ReadOnly
        /\ Current(i)
        /\ IF effect THEN Write(d, m.href, i, plan[i].hash)
                     ELSE UNCHANGED <<store, known>>
     \/ /\ Pending(i, {"delete"}) /\ ~Keeps(d)
        /\ Current(i)
        /\ store' = IF effect
                      THEN [store EXCEPT ![d] = Removed(store[d], m.href)]
                      ELSE store
        /\ UNCHANGED known
  /\ HasFreshEtag(d)
  /\ Fail(i)
  /\ UNCHANGED <<agreed, edits>>

-----------------------------------------------------------------------------
(* The end of the transaction.                                             *)

AllRun == pc = "run" /\ plan = NoPlan

Commit ==
  /\ AllRun
  /\ Committable(newst)
  /\ status' = newst
  /\ quiet' = IF clean /\ errors = {}
                THEN (IF quiet < 3 THEN quiet + 1 ELSE 3)
                ELSE 0
  /\ EndOfSync
  /\ UNCHANGED <<storeVars, boundVars>>

(* sqlite3.IntegrityError *)
CommitRejected ==
  /\ AllRun
  /\ ~Committable(newst)
  /\ Abort
  /\ UNCHANGED <<storeVars, boundVars>>

(* The process is killed, or a listing or a download fails.                *)
Interrupted ==
  /\ pc # "idle"
  /\ faults < MaxFaults
  /\ faults' = faults + 1
  /\ Abort
  /\ UNCHANGED <<storeVars, edits>>

-----------------------------------------------------------------------------

(* Both sides hold the initial items, and the status knows it: what a      *)
(* first sync leaves.                                                      *)
Init ==
  /\ store = [s \in Sides |-> [h \in Hrefs |->
       IF \E i \in InitialItems : HrefOf[i] = h
         THEN LET i == CHOOSE i \in InitialItems : HrefOf[i] = h
              IN  [ident |-> i, hash |-> FirstHash, etag |-> FirstEtag[i]]
         ELSE None]]
  /\ status = [s \in Sides |-> [i \in Idents |->
       IF i \in InitialItems
         THEN [href |-> HrefOf[i], hash |-> FirstHash, etag |-> FirstEtag[i]]
         ELSE None]]
  /\ known = [s \in Sides |-> [i \in Idents |->
       IF i \in InitialItems THEN {FirstHash} ELSE {}]]
  /\ agreed = [i \in Idents |-> IF i \in InitialItems THEN FirstHash ELSE None]
  /\ newst = EmptyTable
  /\ pc = "idle"
  /\ cur = "a"
  /\ todo = {}
  /\ nonempty = [s \in Sides |-> FALSE]
  /\ statusNonempty = FALSE
  /\ force = FALSE
  /\ partial = "revert"
  /\ cached = [s \in Sides |-> {}]
  /\ plan = NoPlan
  /\ errors = {}
  /\ clean = FALSE
  /\ quiet = 0
  /\ edits = 0
  /\ faults = 0

Editor ==
  \E s \in Sides, h \in Hrefs :
    \/ \E i \in Idents, c \in Hashes : EditorPut(s, h, i, c)
    \/ EditorRemove(s, h)
    \/ \E h2 \in Hrefs : EditorMove(s, h, h2)

Prepare ==
  \/ List
  \/ \E h \in Hrefs : Fetch(h) \/ FetchFails(h)
  \/ NextSide
  \/ RefuseEmpty
  \/ Plan

RunAction(i) ==
  \/ RejectReadOnly(i) \/ SkipReadOnly(i)
  \/ RevertUpload(i) \/ UploadAccepted(i) \/ UploadRefused(i)
  \/ RevertUpdate(i) \/ UpdateAccepted(i) \/ UpdateRefused(i)
  \/ DeleteSkipped(i) \/ DeleteAccepted(i) \/ DeleteRefused(i)
  \/ ResolveSame(i) \/ ResolveUnsettled(i)
  \/ \E c \in Hashes : ResolveTo(i, c)

Faults ==
  \/ \E i \in Idents, effect \in BOOLEAN : RequestFails(i, effect)
  \/ Interrupted

(* The steps of a sync that is left alone.                                 *)
Progress ==
  \/ Prepare
  \/ \E i \in Idents : RunAction(i)
  \/ Commit
  \/ CommitRejected

Next ==
  \/ Editor
  \/ \E f \in BOOLEAN, p \in PartialSync : StartSync(f, p)
  \/ Progress
  \/ Faults

Spec == Init /\ [][Next]_vars

(* vdirsyncer is run again and again (contrib/vdirsyncer.timer), and a     *)
(* sync that is running goes on.  Nothing obliges people to edit or to use *)
(* --force-delete, and nothing obliges requests to fail.                   *)
Fairness ==
  /\ WF_vars(Progress)
  /\ WF_vars(\E f \in BOOLEAN, p \in PartialSync : StartSync(f, p))

FairSpec == Spec /\ Fairness

-----------------------------------------------------------------------------
(* Properties.                                                             *)

(* The type invariant.                                                     *)
TypeOK ==
  /\ store \in [Sides -> Storages]
  /\ status \in Tables
  /\ newst \in Tables
  /\ pc \in {"idle", "list", "fetch", "run"}
  /\ cur \in Sides
  /\ todo \subseteq Hrefs
  /\ nonempty \in [Sides -> BOOLEAN]
  /\ statusNonempty \in BOOLEAN
  /\ force \in BOOLEAN
  /\ partial \in {"error", "ignore", "revert"}
  /\ cached \in [Sides -> SUBSET Idents]
  /\ plan \in [Idents -> Action \cup {None}]
  /\ errors \subseteq Idents
  /\ known \in [Sides -> [Idents -> SUBSET Hashes]]
  /\ agreed \in [Idents -> Hashes \cup {None}]
  /\ clean \in BOOLEAN
  /\ quiet \in 0 .. 3
  /\ edits \in 0 .. MaxEdits
  /\ faults \in 0 .. MaxFaults

(* The status always has both sides of a row, whatever actions fail, are   *)
(* skipped or are interrupted: the assertion of rollback() holds, and the  *)
(* NOT NULL constraints accept the new status when all actions have run.   *)
StatusTwoSided ==
  /\ TwoSided(status)
  /\ AllRun => TwoSided(newst)

(* What the code takes for granted when it plans and runs actions: a       *)
(* changed item was prefetched and is in the item cache; an upload finds   *)
(* no row on its destination (else IdentAlreadyExists); updates, deletions *)
(* and conflict resolutions find the rows they read and write.  (The       *)
(* exception is a skipped merge, see UpdateRefused.)                       *)
RowsAndCacheAgree ==
  /\ Prepared => \A s \in Sides, i \in Idents :
       newst[s][i] # None /\ IsChanged(s, i) => i \in cached[s]
  /\ \A i \in Idents :
       /\ Pending(i, {"upload"}) =>
            /\ newst[plan[i].dest][i] = None
            /\ newst[Other(plan[i].dest)][i] # None
       /\ Pending(i, {"delete", "update", "merge"}) =>
            newst[plan[i].dest][i] # None
       /\ Pending(i, {"resolve"}) =>
            \A s \in Sides : newst[s][i] # None /\ i \in cached[s]

(* An action that failed leaves the ident as the last sync left it, so     *)
(* that the next sync sees the same change again and retries.              *)
FailedKeepsStatus ==
  pc = "run" =>
    \A i \in errors, s \in Sides : newst[s][i] = status[s][i]

(* Steps of people are exactly the ones that count as edits.               *)
BySync == edits' = edits

(* sync() never overwrites or deletes a content which the other side has   *)
(* never held: neither a change made while it is running, nor one made     *)
(* before a crash, is lost.  Two things lose contents on purpose: a        *)
(* configured conflict resolution, but only the version it was given, and  *)
(* reverting what a read-only storage does not take.                       *)
Covered == {s \in Sides : Other(s) \in ReadOnly => "revert" \notin PartialSync}

NoLostEdit ==
  [][\A s \in Covered, h \in Hrefs :
       LET old == store[s][h] IN
       BySync /\ old # None /\ store'[s][h] # old =>
         \/ old.hash \in known[Other(s)][old.ident]
         \/ /\ Pending(old.ident, {"settle", "merge"})
            /\ old.hash = newst[s][old.ident].hash]_vars

(* sync() only deletes an item from a side when it listed items on the     *)
(* other one, unless it was forced: an emptied (or vanished) storage does  *)
(* not empty the other one.                                                *)
EmptySideSpared ==
  [][\A s \in Sides : \A h \in Hrefs :
       BySync /\ store[s][h] # None /\ store'[s][h] = None =>
         force \/ nonempty[Other(s)]]_vars

(* A read-only storage is never written to, whichever action, failure or   *)
(* conflict resolution is on its way.                                      *)
ReadOnlyUntouched ==
  [][BySync => \A s \in ReadOnly : store'[s] = store[s]]_vars

(* An item that was deleted on one side and left alone on the other does   *)
(* not come back: what sync() uploads is never the content it had already  *)
(* brought to both sides, unless the status has missed what a sync did     *)
(* before it failed.                                                       *)
NoResurrection ==
  [][\A s \in Sides, h \in Hrefs :
       BySync /\ faults = 0 /\ store[s][h] = None /\ store'[s][h] # None =>
         store'[s][h].hash # agreed[store'[s][h].ident]]_vars

(* After how many undisturbed syncs the sides agree: changes that a side   *)
(* does not take are only reverted by the second one.                      *)
SyncsNeeded == IF ReadOnly \cup NoDelete = {} THEN 1 ELSE 2
Settled == quiet >= SyncsNeeded

(* A side that deletes nothing, when the other one takes nothing.          *)
KeepsItsOwn(s) == s \in NoDelete /\ Other(s) \in ReadOnly

SameItems ==
  \A s \in Sides : ~ KeepsItsOwn(s) => Contents(store[s]) \subseteq Contents(store[Other(s)])

(* Undisturbed successful syncs leave both sides with the same items; only *)
(* a no_delete side may have more, if the other side is read-only.         *)
Converged == Settled => SameItems

(* The status lists exactly the items that are there, and where they are.  *)
StatusDescribesItems ==
  Settled => \A s \in Sides :
    /\ {i \in Idents : status[s][i] # None}
         = {store[s][h].ident : h \in Listed(store[s])}
    /\ \A i \in Idents : status[s][i] # None =>
         LET h == status[s][i].href IN
         s \notin ReadOnly => h # None /\ store[s][h].ident = i

(* A sync of settled storages writes nothing.                              *)
SettledStaysPut ==
  [][BySync /\ Settled => store' = store]_vars

(* A conflict is only reported about an item whose content was changed on  *)
(* both sides: neither is what the last sync brought to both.  After a     *)
(* failure the status may have missed what a sync did itself.              *)
ConflictsAreGenuine ==
  faults = 0 => \A i \in Idents :
    Pending(i, {"resolve"}) /\ ~SameOnBothSides(i) =>
      \A s \in Sides : newst[s][i].hash # agreed[i]

(* When people and failures leave the storages alone, both end up with the *)
(* same items for good, unless the emptiness of one of them waits for a    *)
(* decision of the user (StorageEmpty).                                    *)
EventuallySame ==
  <>[](\/ SameItems
       \/ /\ \E i \in Idents : HasRow(status, i)
          /\ \E s \in Sides : Listed(store[s]) = {} /\ Listed(store[Other(s)]) # {})

-----------------------------------------------------------------------------
(* The inductive invariants behind StatusTwoSided, RowsAndCacheAgree,      *)
(* FailedKeepsStatus and EmptySideSpared (RowsInv), and behind NoLostEdit  *)
(* (VersionsInv); SyncProofs uses them.                                    *)

BothRows(i) == \A s \in Sides : newst[s][i] # None
NoRows(i)   == \A s \in Sides : newst[s][i] = None

(* Outside the transaction, and while the rows are prepared, side by side. *)
PrepareInv ==
  /\ pc = "idle" => newst = EmptyTable /\ cur = "a"
  /\ pc # "run" => plan = NoPlan /\ errors = {}
  /\ pc = "list" \/ (pc = "fetch" /\ cur = "a") =>
       \A i \in Idents : newst["b"][i] = None
  /\ pc = "list" /\ cur = "a" => \A i \in Idents : newst["a"][i] = None
  /\ pc = "fetch" /\ todo # {} => nonempty[cur]
  /\ pc \in {"list", "fetch"} =>
       \A s \in Sides, i \in Idents : newst[s][i] # None =>
         /\ i \in cached[s] \/ newst[s][i] = status[s][i]
         /\ nonempty[s]
  /\ pc # "idle" => /\ statusNonempty = (\E i \in Idents : HasRow(status, i))
                    /\ partial \in PartialSync

(* While the action of an ident is pending, and when it has run.           *)
RunInv(i) ==
  /\ plan[i] = None => BothRows(i) \/ NoRows(i)
  /\ Pending(i, {"upload"}) => /\ newst[plan[i].dest][i] = None
                               /\ newst[Other(plan[i].dest)][i] # None
  /\ Pending(i, {"delete"}) => /\ newst[plan[i].dest][i] # None
                               /\ force \/ nonempty[Other(plan[i].dest)]
  /\ Pending(i, {"resolve", "update", "merge"}) => BothRows(i)
  /\ Pending(i, {"resolve"}) => \A s \in Sides : i \in cached[s]
  /\ Pending(i, {"settle"}) => BothRows(i) \/ (NoRows(i) /\ partial = "ignore")
  /\ i \in errors => /\ plan[i] = None
                     /\ \A s \in Sides : newst[s][i] = status[s][i]

RowsInv ==
  /\ TwoSided(status)
  /\ PrepareInv
  /\ pc = "run" => \A i \in Idents : RunInv(i)

(* The item at h is the version a row remembers.                           *)
IsVersion(s, m, h) == store[s][h] # None /\ store[s][h].etag = m.etag

(* A conflict resolution decided against content c of side s, where it is  *)
(* no more: the row of the side still remembers it (see UpdateRow).        *)
Settling == ConflictResolution # "none"
Answered(s, i, c) ==
  /\ Settling /\ s \in Covered
  /\ c \in known[s][i]
  /\ \A h \in Listed(store[s]) : store[s][h].ident = i => store[s][h].hash # c

(* What a row remembers of side s has also been on the other side, or will *)
(* have been when that side has content c.                                 *)
Brings(s, i, m, cs) ==
  LET there == known[Other(s)][i] \cup cs IN
  /\ m.hash \in there \/ Answered(s, i, m.hash)
  /\ \A h \in Hrefs : IsVersion(s, m, h) =>
       store[s][h].ident = i /\ store[s][h].hash \in there
Carried(s, i, m) == Brings(s, i, m, {})

(* A row describes what prepare_new_status read from side s.               *)
Read(s, i, m) ==
  /\ m.hash \in known[s][i]
  /\ \A h \in Hrefs : IsVersion(s, m, h) =>
       store[s][h].ident = i /\ store[s][h].hash = m.hash

(* Etags tell the items of a side apart, and what is there is known.       *)
DistinctVersions ==
  \A s \in Sides : \A h, h2 \in Listed(store[s]) :
    store[s][h].etag = store[s][h2].etag => h = h2
OwnContents ==
  \A s \in Sides : \A h \in Listed(store[s]) :
    store[s][h].hash \in known[s][store[s][h].ident]

(* A content that only one side has had is there only once.                *)
DistinctContents ==
  Settling => \A s \in Covered : \A h, h2 \in Listed(store[s]) :
    store[s][h].ident = store[s][h2].ident /\ store[s][h].hash = store[s][h2].hash =>
      h = h2 \/ store[s][h].hash \in known[Other(s)][store[s][h].ident]

StatusCarried ==
  \A s \in Covered, i \in Idents :
    status[s][i] # None => Carried(s, i, status[s][i])

(* A new row is an old one, or was read; if only its href changed, its     *)
(* content has been on the other side too.                                 *)
PreparedRead ==
  \A s \in Sides, i \in Idents :
    newst[s][i] # None /\ newst[s][i] # status[s][i] =>
      /\ Read(s, i, newst[s][i])
      /\ s \in Covered /\ status[s][i] # None
           /\ newst[s][i].etag = status[s][i].etag =>
           newst[s][i].hash \in known[Other(s)][i]

(* What an action writes was on its source, and what it overwrites was     *)
(* carried over, or is the version the conflict resolution was given.      *)
RunVersions(i) ==
  LET d   == plan[i].dest
      src == Other(d)
      c   == plan[i].hash IN
  /\ plan[i] = None => \A s \in Covered :
       newst[s][i] # None => Carried(s, i, newst[s][i])
  /\ Pending(i, {"update", "delete"}) /\ d \in Covered => Carried(d, i, newst[d][i])
  /\ Pending(i, {"update", "upload", "settle"}) =>
       /\ d \in Covered => c \in known[src][i]
       /\ src \in Covered => Brings(src, i, newst[src][i], {c})
  /\ Pending(i, {"settle"}) =>
       BothRows(i) /\ (d \in Covered => Read(d, i, newst[d][i]))
  /\ Pending(i, {"resolve", "merge"}) => \A s \in Sides : Read(s, i, newst[s][i])
  /\ Pending(i, {"merge"}) =>
       /\ ConflictResolution = "merge" /\ d = "a"
       /\ \A h \in Hrefs : IsVersion(d, newst[d][i], h) => c \notin known[d][i]
  /\ Pending(i, {"settle", "merge"}) => Settling

VersionsInv ==
  /\ DistinctVersions
  /\ OwnContents
  /\ DistinctContents
  /\ StatusCarried
  /\ pc \in {"list", "fetch"} => PreparedRead
  /\ pc = "run" => \A i \in Idents : RunVersions(i)
=============================================================================
