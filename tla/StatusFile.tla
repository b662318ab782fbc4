----------------------------- MODULE StatusFile -----------------------------
(***************************************************************************)
(* The status file of one collection (manage_sync_status in cli/utils.py,  *)
(* SqliteStatus in sync/status.py), and the sync jobs of several processes *)
(* that use it: nothing but the file keeps two of them apart.  Files of    *)
(* earlier versions are renamed and converted first.  What a job does to   *)
(* the items (module Sync) is one step here, and a status is the set of    *)
(* the items it has a row for.                                             *)
(*                                                                         *)
(*   get_status_path          LookForOldName, Rename                       *)
(*   manage_sync_status       Inspect, Unlink, Connect                     *)
(*   SqliteStatus.__init__    CheckSchema, CreateSchema                    *)
(*   load_legacy_status       LoadLegacy                                   *)
(*   sync()                   Peek, Begin, List, Refuse, Act, Commit       *)
(***************************************************************************)
EXTENDS Naturals, FiniteSets

CONSTANTS
  Procs,     \* processes
  Idents,    \* items
  Inodes,    \* files: a removed one lives on for those who have it open
  None,      \* no file, or no process
  InitialStatuses,  \* what an old status may hold
  Forced,     \* processes run with --force-delete
  MaxEdits,  \* bound: changes made by people
  MaxFaults  \* bound: failures and killed processes

ASSUME ProcsAssumption == None \notin Procs \cup Inodes /\ Forced \subseteq Procs
ASSUME InodesAssumption == IsFiniteSet(Inodes) /\ Inodes # {}
ASSUME BoundsAssumption == MaxEdits \in Nat /\ MaxFaults \in Nat

Sides == {"a", "b"}
Status == SUBSET Idents
ASSUME InitialAssumption == InitialStatuses \subseteq Status
ASSUME NoStatusAssumption == \A rows \in Status : rows # None

VARIABLES
  items,     \* the items in both storages
  oldPath,   \* the file at "<pair>/<collection>", the name of old versions
  path,      \* the file at "<pair>/<collection>.items"
  data,      \* what is in the files
  lock,      \* who has an exclusive transaction on a file
  pc,        \* where each process is
  mem,       \* what it has in memory
  last,      \* history: the status committed last
  stale,     \* history: processes that peeked before another one's commit
  torn,      \* history: a conversion was interrupted, or not alone, and no
             \* sync has been alone since
  edits, faults

vars == <<items, oldPath, path, data, lock, pc, mem, last, stale, torn, edits, faults>>

(* A file holds JSON of an old version or a database, which has no tables  *)
(* (schema) when it is new.                                                *)
Content == [kind : {"json", "sqlite"}, schema : BOOLEAN, rows : Status]
NewFile == [kind |-> "sqlite", schema |-> FALSE, rows |-> {}]
Json(rows) == [kind |-> "json", schema |-> FALSE, rows |-> rows]

(* db: the file of the connection; legacy: the rows of an old status;      *)
(* nonempty: status_nonempty; listed: the items that were listed.          *)
Nothing == [db |-> None, legacy |-> None, nonempty |-> FALSE,
            listed |-> [s \in Sides |-> {}]]

Init ==
  /\ \E rows \in InitialStatuses :
       /\ items = [s \in Sides |-> rows]
       /\ last = rows
       /\ \E f \in Inodes :
            /\ data = [g \in Inodes |->
                 IF g = f /\ rows # {} THEN Json(rows) ELSE NewFile]
            /\ \/ oldPath = f /\ path = None /\ rows # {}
               \/ oldPath = None /\ path = f /\ rows # {}
               \/ oldPath = None /\ path = None /\ rows = {}
  /\ lock = [f \in Inodes |-> None]
  /\ pc = [p \in Procs |-> "idle"]
  /\ mem = [p \in Procs |-> Nothing]
  /\ stale = {}
  /\ torn = FALSE
  /\ edits = 0 /\ faults = 0

-----------------------------------------------------------------------------
(* People add and remove items, or empty a side.                           *)
Edit(s, new) ==
  /\ edits < MaxEdits
  /\ edits' = edits + 1
  /\ new # items[s]
  /\ items' = [items EXCEPT ![s] = new]
  /\ UNCHANGED <<oldPath, path, data, lock, pc, mem, last, stale, torn, faults>>

-----------------------------------------------------------------------------
(* Files and locks.                                                        *)
Unused == {f \in Inodes : f # path /\ f # oldPath /\ \A p \in Procs : mem[p].db # f}

(* Mutant: transactions are not exclusive.                                 *)
FreeAlways(f) == TRUE

Free(f) == lock[f] = None

Db(p) == mem[p].db
Rows(p) == data[Db(p)].rows

(* A process in the middle of a conversion: it has read the old status and *)
(* has not committed it to the database.                                   *)
Converting(p) == mem[p].legacy # None
Alone(p) == \A q \in Procs \ {p} : pc[q] = "idle"

Goto(p, from, to) == pc[p] = from /\ pc' = [pc EXCEPT ![p] = to]

Steady == UNCHANGED <<items, edits>>
KeepFiles == UNCHANGED <<oldPath, path, data, last>>
KeepLocks == UNCHANGED <<lock, stale>>

(* A removed file is gone when nobody has it open any more.                *)
Closed(p, d) ==
  IF Db(p) \in Inodes \ {path} /\ \A q \in Procs \ {p} : Db(q) # Db(p)
    THEN [d EXCEPT ![Db(p)] = NewFile]
    ELSE d

(* Mutant: a failed job leaves its transaction open.                       *)
NotReleased(p) == lock

Released(p) == [f \in Inodes |-> IF lock[f] = p THEN None ELSE lock[f]]

(* The job ends: handle_cli_error, contextlib.closing, or the end of the   *)
(* process.  An open transaction is rolled back.                           *)
End(p) ==
  /\ pc' = [pc EXCEPT ![p] = "idle"]
  /\ mem' = [mem EXCEPT ![p] = Nothing]
  /\ lock' = Released(p)
  /\ stale' = stale \ {p}
  /\ torn' = (torn \/ Converting(p))
  /\ data' = Closed(p, data)
  /\ UNCHANGED <<items, oldPath, path, last, edits>>

(* A job starts with os.path.isfile(path) of get_status_path.              *)
LookForOldName(p) ==
  /\ Goto(p, "idle", IF oldPath # None THEN "rename" ELSE "inspect")
  /\ Steady /\ KeepFiles /\ KeepLocks
  /\ UNCHANGED <<mem, torn, faults>>

Rename(p) ==
  /\ Goto(p, "rename", "inspect")
  /\ oldPath # None
  /\ path' = oldPath
  /\ oldPath' = None
  /\ Steady /\ KeepLocks
  /\ UNCHANGED <<data, last, mem, torn, faults>>

RenameFails(p) ==
  /\ pc[p] = "rename"
  /\ oldPath = None
  /\ End(p)
  /\ UNCHANGED faults

(* Only JSON begins with a brace.                                          *)
Inspect(p) ==
  LET isLegacy == path # None /\ data[path].kind = "json" IN
  /\ Goto(p, "inspect", IF isLegacy THEN "unlink" ELSE "connect")
  /\ mem' = [mem EXCEPT ![p].legacy = IF isLegacy THEN data[path].rows ELSE None]
  /\ torn' = (torn \/ (isLegacy /\ ~ Alone(p)) \/ \E q \in Procs : Converting(q))
  /\ Steady /\ KeepFiles /\ KeepLocks
  /\ UNCHANGED faults

Unlink(p) ==
  /\ Goto(p, "unlink", "connect")
  /\ path # None
  /\ path' = None
  /\ data' = [data EXCEPT ![path] =
       IF \E q \in Procs : Db(q) = path THEN @ ELSE NewFile]
  /\ Steady /\ KeepLocks
  /\ UNCHANGED <<oldPath, last, mem, torn, faults>>

UnlinkFails(p) ==
  /\ pc[p] = "unlink"
  /\ path = None
  /\ End(p)
  /\ UNCHANGED faults

(* sqlite3.connect opens the file, or creates it.                          *)
Connect(p) ==
  /\ Goto(p, "connect", "checkSchema")
  /\ path # None \/ Unused # {}
  /\ LET f == IF path = None THEN CHOOSE g \in Unused : TRUE ELSE path IN
     /\ path' = f
     /\ data' = [data EXCEPT ![f] = IF path = None THEN NewFile ELSE @]
     /\ mem' = [mem EXCEPT ![p].db = f]
  /\ Steady /\ KeepLocks
  /\ UNCHANGED <<oldPath, last, torn, faults>>

(* Mutant: an old status is not loaded into the database.                  *)
StraightOn(p) == "peek"

AfterSchema(p) == IF mem[p].legacy = None THEN "peek" ELSE "loadLegacy"

(* _is_latest_version: a locked database looks like one without tables.    *)
IsLatest(p) == data[Db(p)].schema /\ Free(Db(p))

CheckSchema(p) ==
  /\ Goto(p, "checkSchema", IF IsLatest(p) THEN AfterSchema(p) ELSE "createSchema")
  /\ Steady /\ KeepFiles /\ KeepLocks
  /\ UNCHANGED <<mem, torn, faults>>

CreateSchema(p) ==
  /\ Goto(p, "createSchema", AfterSchema(p))
  /\ Free(Db(p))
  /\ ~ data[Db(p)].schema
  /\ data' = [data EXCEPT ![Db(p)].schema = TRUE]
  /\ Steady /\ KeepLocks
  /\ UNCHANGED <<oldPath, path, last, mem, torn, faults>>

(* "table meta already exists"                                             *)
CreateSchemaFails(p) ==
  /\ pc[p] = "createSchema"
  /\ data[Db(p)].schema
  /\ End(p)
  /\ UNCHANGED faults

(* Those whose status_nonempty is out of date after a commit.              *)
Peeked == {q \in Procs : pc[q] = "begin"}

LoadLegacy(p) ==
  /\ Goto(p, "loadLegacy", "peek")
  /\ Free(Db(p))
  /\ data' = [data EXCEPT ![Db(p)].rows = mem[p].legacy]
  /\ mem' = [mem EXCEPT ![p].legacy = None]
  /\ stale' = stale \cup Peeked
  /\ Steady
  /\ UNCHANGED <<oldPath, path, last, lock, torn, faults>>

Peek(p) ==
  /\ Goto(p, "peek", "begin")
  /\ Free(Db(p))
  /\ mem' = [mem EXCEPT ![p].nonempty = Rows(p) # {}]
  /\ Steady /\ KeepFiles /\ KeepLocks
  /\ UNCHANGED <<torn, faults>>

Begin(p) ==
  /\ Goto(p, "begin", "list")
  /\ Free(Db(p))
  /\ lock' = [lock EXCEPT ![Db(p)] = p]
  /\ Steady /\ KeepFiles
  /\ UNCHANGED <<mem, stale, torn, faults>>

(* "database is locked", after the five seconds of sqlite3.connect.        *)
Waiting == {"createSchema", "loadLegacy", "peek", "begin"}
LockTimeout(p) ==
  /\ pc[p] \in Waiting
  /\ ~ Free(Db(p))
  /\ End(p)
  /\ UNCHANGED faults

(* prepare_new_status of both sides.                                       *)
List(p) ==
  /\ Goto(p, "list", "decide")
  /\ mem' = [mem EXCEPT ![p].listed = items]
  /\ Steady /\ KeepFiles /\ KeepLocks
  /\ UNCHANGED <<torn, faults>>

(* Mutant: only an empty side a is noticed.                                *)
SideAEmpty(p) == mem[p].listed["a"] = {} /\ mem[p].listed["b"] # {}

OneSideEmpty(p) == (mem[p].listed["a"] = {}) # (mem[p].listed["b"] = {})

Refused(p) == mem[p].nonempty /\ p \notin Forced /\ OneSideEmpty(p)

Refuse(p) ==
  /\ pc[p] = "decide"
  /\ Refused(p)
  /\ End(p)
  /\ UNCHANGED faults

(* An item one side lacks is new on the other, and copied, or was removed  *)
(* there, and is removed on the other as well.                             *)
Other(s) == IF s = "a" THEN "b" ELSE "a"
Removed(p, s) == (mem[p].listed[s] \ mem[p].listed[Other(s)]) \cap Rows(p)
Uploaded(p, s) == (mem[p].listed[Other(s)] \ mem[p].listed[s]) \ Rows(p)
Act(p) ==
  /\ Goto(p, "decide", "commit")
  /\ ~ Refused(p)
  /\ items' = [s \in Sides |-> (items[s] \ Removed(p, s)) \cup Uploaded(p, s)]
  /\ KeepFiles /\ KeepLocks
  /\ UNCHANGED <<mem, torn, edits, faults>>

NewStatus(p) ==
  (mem[p].listed["a"] \ Removed(p, "a")) \cup Uploaded(p, "a")

(* The end of the transaction, and of the job.                             *)
Commit(p) ==
  /\ pc[p] = "commit"
  /\ data' = Closed(p, [data EXCEPT ![Db(p)].rows = NewStatus(p)])
  /\ last' = NewStatus(p)
  /\ pc' = [pc EXCEPT ![p] = "idle"]
  /\ mem' = [mem EXCEPT ![p] = Nothing]
  /\ lock' = [lock EXCEPT ![Db(p)] = None]
  /\ stale' = (stale \cup Peeked) \ {p}
  /\ torn' = (torn /\ ~ (Alone(p) /\ Db(p) = path))
  /\ Steady
  /\ UNCHANGED <<oldPath, path, faults>>

(* A request fails, or the process is killed.                              *)
Kill(p) ==
  /\ pc[p] # "idle"
  /\ faults < MaxFaults
  /\ faults' = faults + 1
  /\ End(p)

Run(p) ==
  \/ LookForOldName(p) \/ Rename(p) \/ RenameFails(p)
  \/ Inspect(p) \/ Unlink(p) \/ UnlinkFails(p)
  \/ Connect(p) \/ CheckSchema(p) \/ CreateSchema(p) \/ CreateSchemaFails(p)
  \/ LoadLegacy(p) \/ Peek(p) \/ Begin(p) \/ LockTimeout(p)
  \/ List(p) \/ Refuse(p) \/ Act(p) \/ Commit(p)

Next ==
  \/ \E s \in Sides, new \in Status : Edit(s, new)
  \/ \E p \in Procs : Run(p) \/ Kill(p)

Spec == Init /\ [][Next]_vars

(* Syncs are started again and again, and run.                             *)
FairSpec == Spec /\ \A p \in Procs : WF_vars(Run(p))

-----------------------------------------------------------------------------
(* Properties.                                                             *)

Places == {"idle", "rename", "inspect", "unlink", "connect",
           "checkSchema", "createSchema", "loadLegacy", "peek", "begin", "list",
           "decide", "commit"}

(* The state stays within its types; who has a transaction, or is about to *)
(* use a table, has a database that has them.                              *)
TypeOK ==
  /\ items \in [Sides -> Status] /\ last \in Status
  /\ oldPath \in Inodes \cup {None} /\ path \in Inodes \cup {None}
  /\ data \in [Inodes -> Content]
  /\ lock \in [Inodes -> Procs \cup {None}]
  /\ pc \in [Procs -> Places]
  /\ mem \in [Procs -> [db : Inodes \cup {None}, legacy : Status \cup {None},
                      nonempty : BOOLEAN, listed : [Sides -> Status]]]
  /\ stale \subseteq Procs /\ torn \in BOOLEAN
  /\ edits \in 0 .. MaxEdits /\ faults \in 0 .. MaxFaults
  /\ \A p \in Procs :
       /\ pc[p] \in {"list", "decide", "commit"} => lock[Db(p)] = p
       /\ pc[p] \in Waiting \ {"createSchema"} => data[Db(p)].schema

(* What the next sync will find.                                           *)
StatusRows ==
  LET f == IF oldPath # None THEN oldPath ELSE path IN
  IF f = None THEN {} ELSE data[f].rows

(* Every sync works with the status that was committed last, by whatever   *)
(* process, and finds it in the file; the conversion of an old status      *)
(* loses none of it, unless it is interrupted between os.remove and the    *)
(* commit of load_legacy_status, or another process runs meanwhile         *)
(* (manage_sync_status).                                                   *)
InSync == {"peek", "begin", "list", "decide", "commit"}
StatusKept ==
  ~ torn =>
    /\ (\A p \in Procs : ~ Converting(p)) => StatusRows = last
    /\ \A p \in Procs : pc[p] \in InSync => Rows(p) = last

(* Two processes never change the items of one collection at a time, for   *)
(* the exclusive transaction spans the whole sync; a conversion that was   *)
(* not alone may have left them with two files.                            *)
OneAtATime ==
  \A p, q \in Procs :
    p # q /\ {pc[p], pc[q]} \subseteq {"list", "decide", "commit"} => torn

(* A side that was found empty does not empty the other one, unless forced;*)
(* the answer of status_nonempty is taken before the transaction, so that  *)
(* a commit of another process in between defeats this protection.         *)
EmptySideSpared ==
  [][\A p \in Procs \ (Forced \cup stale), s \in Sides :
       Goto(p, "decide", "commit") /\ mem[p].listed[Other(s)] = {}
         => items[s] \subseteq items'[s]]_vars

(* Once people and failures leave the collection alone, the storages come  *)
(* to agree with each other and with the status, for good, unless one of   *)
(* them is empty: processes that lock each other out, find a conversion    *)
(* half done, or a new database, give way or go on.                        *)
EventuallySettled ==
  <>[]( \/ items["a"] = items["b"] /\ StatusRows = items["a"]
        \/ \E s \in Sides : items[s] = {})
=============================================================================
