-------------------------- MODULE StatusFileProofs --------------------------
(***************************************************************************)
(* Processes that share a status file keep what was committed last, work   *)
(* with it one at a time, and spare the other side of an empty one, for    *)
(* any number of processes, files, items and failures.                     *)
(***************************************************************************)
EXTENDS StatusFile, TLAPS

HasDb == {"checkSchema", "createSchema", "loadLegacy", "peek", "begin", "list", "decide",
          "commit"}
MayConvert == {"unlink", "connect", "checkSchema", "createSchema", "loadLegacy"}

(* Where a process is tells what it has.                                   *)
PlaceTells(p) ==
  /\ pc[p] \in HasDb <=> Db(p) # None
  /\ Converting(p) => pc[p] \in MayConvert
  /\ pc[p] \in {"unlink", "loadLegacy"} => Converting(p)
  /\ oldPath # None => path = None /\ pc[p] \in {"idle", "rename"}

PlacesInv == \A p \in Procs : PlaceTells(p)

(* Unless a conversion went wrong, there is one database at a time, and a  *)
(* conversion is alone.                                                    *)
OneDatabase ==
  ~ torn => \A p \in Procs :
    /\ Db(p) # None => Db(p) = path
    /\ Converting(p) => /\ mem[p].legacy = last
                        /\ \A q \in Procs \ {p} : pc[q] \in {"idle", "rename", "inspect"}

(* The answer of status_nonempty holds, unless it is stale.                *)
PeekHolds ==
  \A p \in Procs \ stale :
    pc[p] \in {"begin", "list", "decide"} => mem[p].nonempty = (Rows(p) # {})

StatusFileInv == TypeOK /\ PlacesInv /\ OneDatabase /\ PeekHolds /\ StatusKept

-----------------------------------------------------------------------------
Mem == [db : Inodes \cup {None}, legacy : Status \cup {None},
        nonempty : BOOLEAN, listed : [Sides -> Status]]

LEMMA MemFields ==
  ASSUME TypeOK, NEW p \in Procs
  PROVE  /\ mem \in [Procs -> Mem]
         /\ mem[p].db \in Inodes \cup {None} /\ mem[p].legacy \in Status \cup {None}
         /\ mem[p].nonempty \in BOOLEAN /\ mem[p].listed \in [Sides -> Status]
         /\ DOMAIN mem[p] = {"db", "legacy", "nonempty", "listed"}
BY DEF TypeOK, Mem

LEMMA SetDb ==
  ASSUME TypeOK, NEW p \in Procs, NEW x \in Inodes \cup {None},
         mem' = [mem EXCEPT ![p].db = x]
  PROVE  /\ mem' \in [Procs -> Mem]
         /\ \A q \in Procs : /\ mem'[q].db = IF q = p THEN x ELSE mem[q].db
                             /\ mem'[q].legacy = mem[q].legacy
                             /\ mem'[q].nonempty = mem[q].nonempty
BY MemFields DEF Mem

LEMMA SetLegacy ==
  ASSUME TypeOK, NEW p \in Procs, NEW x \in Status \cup {None},
         mem' = [mem EXCEPT ![p].legacy = x]
  PROVE  /\ mem' \in [Procs -> Mem]
         /\ \A q \in Procs : /\ mem'[q].legacy = IF q = p THEN x ELSE mem[q].legacy
                             /\ mem'[q].db = mem[q].db
                             /\ mem'[q].nonempty = mem[q].nonempty
BY MemFields DEF Mem

LEMMA SetNonempty ==
  ASSUME TypeOK, NEW p \in Procs, NEW x \in BOOLEAN,
         mem' = [mem EXCEPT ![p].nonempty = x]
  PROVE  /\ mem' \in [Procs -> Mem]
         /\ \A q \in Procs : /\ mem'[q].nonempty = IF q = p THEN x ELSE mem[q].nonempty
                             /\ mem'[q].db = mem[q].db
                             /\ mem'[q].legacy = mem[q].legacy
<1>1. ASSUME NEW q \in Procs PROVE mem'[q] \in Mem
  BY MemFields, <1>1 DEF Mem
<1> QED
  BY MemFields, <1>1 DEF Mem

LEMMA SetRows ==
  ASSUME TypeOK, NEW f \in Inodes, NEW x \in Status,
         data' = [data EXCEPT ![f].rows = x]
  PROVE  /\ data' \in [Inodes -> Content]
         /\ \A g \in Inodes : /\ data'[g].rows = IF g = f THEN x ELSE data[g].rows
                              /\ data'[g].schema = data[g].schema
                              /\ data'[g].kind = data[g].kind
BY DEF TypeOK, Content

LEMMA SetSchema ==
  ASSUME TypeOK, NEW f \in Inodes, data' = [data EXCEPT ![f].schema = TRUE]
  PROVE  /\ data' \in [Inodes -> Content]
         /\ \A g \in Inodes : /\ data'[g].schema = IF g = f THEN TRUE ELSE data[g].schema
                              /\ data'[g].rows = data[g].rows
                              /\ data'[g].kind = data[g].kind
<1>1. data \in [Inodes -> Content]
  BY DEF TypeOK
<1>2. [data[f] EXCEPT !.schema = TRUE] \in Content
  BY <1>1 DEF Content
<1>3. data' \in [Inodes -> Content]
  BY <1>1, <1>2
<1>4. ASSUME NEW g \in Inodes, g # f PROVE data'[g] = data[g]
  BY <1>1, <1>4
<1>5. data'[f] = [data[f] EXCEPT !.schema = TRUE]
  BY <1>1
<1>6. /\ data'[f].schema = TRUE /\ data'[f].rows = data[f].rows
      /\ data'[f].kind = data[f].kind
  BY <1>1, <1>5 DEF Content
<1> QED
  BY <1>3, <1>4, <1>6

LEMMA Contents ==
  ASSUME TypeOK, NEW f \in Inodes
  PROVE  /\ data[f] \in Content /\ data[f].rows \in Status /\ data[f].schema \in BOOLEAN
         /\ NewFile \in Content
BY DEF TypeOK, Content, NewFile, Status

LEMMA LookForOldNamePreserves ==
  ASSUME StatusFileInv, NEW p \in Procs, LookForOldName(p)
  PROVE  StatusFileInv'
<1> USE DEF StatusFileInv, LookForOldName, Goto, Steady, KeepFiles, KeepLocks
<1>1. TypeOK'
  BY DEF TypeOK, Places, Waiting, Db
<1>2. PlacesInv'
  BY DEF PlacesInv, PlaceTells, HasDb, MayConvert, Db, Converting
<1>3. OneDatabase'
  BY DEF Db, Converting, OneDatabase
<1>4. PeekHolds'
  BY DEF Db, PeekHolds, Rows
<1>5. StatusKept'
  BY DEF Db, Converting, StatusKept, StatusRows, InSync, Rows
<1> QED
  BY <1>1, <1>2, <1>3, <1>4, <1>5

LEMMA RenamePreserves ==
  ASSUME StatusFileInv, NEW p \in Procs, Rename(p)
  PROVE  StatusFileInv'
<1> USE DEF StatusFileInv, Rename, Goto, Steady, KeepFiles, KeepLocks
<1>1. TypeOK'
  BY DEF TypeOK, Places, Waiting, Db
<1>2. PlacesInv'
  BY DEF PlacesInv, PlaceTells, HasDb, MayConvert, Db, Converting
<1>3. OneDatabase'
  BY DEF PlacesInv, PlaceTells, Db, Converting, OneDatabase
<1>4. PeekHolds'
  BY DEF Db, PeekHolds, Rows
<1>5. StatusKept'
  BY DEF Db, Converting, StatusKept, StatusRows, InSync, Rows
<1> QED
  BY <1>1, <1>2, <1>3, <1>4, <1>5

LEMMA InspectPreserves ==
  ASSUME StatusFileInv, NEW p \in Procs, Inspect(p)
  PROVE  StatusFileInv'
<1> DEFINE x == IF path # None /\ data[path].kind = "json" THEN data[path].rows ELSE None
<1>a. TypeOK /\ PlacesInv /\ OneDatabase /\ PeekHolds /\ StatusKept
  BY DEF StatusFileInv
<1>1. x \in Status \cup {None} /\ (x # None => path # None /\ x = data[path].rows)
  BY <1>a, Contents, NoStatusAssumption DEF TypeOK
<1>2. mem' = [mem EXCEPT ![p].legacy = x]
  BY DEF Inspect
<1>4. /\ pc[p] = "inspect" /\ pc' = [pc EXCEPT ![p] = IF x # None THEN "unlink" ELSE "connect"]
      /\ UNCHANGED <<items, edits, oldPath, path, data, last, lock, stale, faults>>
  BY <1>a, <1>1, Contents, NoStatusAssumption DEF Inspect, Goto, Steady, KeepFiles, KeepLocks, TypeOK
<1>5. /\ torn' \in BOOLEAN
      /\ ~ torn' => /\ ~ torn /\ (x # None => Alone(p)) /\ \A q \in Procs : ~ Converting(q)
  BY <1>a DEF Inspect, TypeOK
<1> HIDE DEF x
<1>3. /\ mem' \in [Procs -> Mem]
       /\ \A q \in Procs : /\ mem'[q].legacy = IF q = p THEN x ELSE mem[q].legacy
                           /\ mem'[q].db = mem[q].db
                           /\ mem'[q].nonempty = mem[q].nonempty
  BY <1>a, <1>1, <1>2, SetLegacy
<1>n. \A q \in Procs : Db(q)' = Db(q) /\ Rows(q)' = Rows(q) /\ (Converting(q)' <=> IF q = p THEN x # None ELSE Converting(q))
  BY <1>3, <1>4 DEF Db, Rows, Converting
<1>6. TypeOK'
  BY <1>a, <1>1, <1>3, <1>4, <1>5, <1>n, ProcsAssumption, NoStatusAssumption DEF TypeOK, Mem, Places, Waiting
<1>7. PlacesInv'
  BY <1>a, <1>1, <1>3, <1>4, <1>n, ProcsAssumption DEF TypeOK, PlacesInv, PlaceTells, HasDb, MayConvert, Places
<1>8. OneDatabase'
  <2>1. SUFFICES ASSUME ~ torn', NEW q \in Procs
        PROVE /\ Db(q)' # None => Db(q)' = path'
              /\ Converting(q)' => /\ mem'[q].legacy = last'
                        /\ \A r \in Procs \ {q} : pc'[r] \in {"idle", "rename", "inspect"}
    BY DEF OneDatabase
  <2>2. StatusRows = last
    BY <1>a, <1>5, <2>1 DEF StatusKept
  <2> QED
  BY <1>a, <1>1, <1>3, <1>4, <1>5, <1>n, <2>1, <2>2, ProcsAssumption DEF TypeOK, OneDatabase, PlacesInv, PlaceTells, HasDb, Alone, StatusRows
<1>9. PeekHolds'
  BY <1>a, <1>1, <1>3, <1>4, <1>n DEF TypeOK, PeekHolds
<1>10. StatusKept'
  BY <1>a, <1>1, <1>3, <1>4, <1>5, <1>n DEF TypeOK, StatusKept, InSync, StatusRows
<1> QED
  BY <1>6, <1>7, <1>8, <1>9, <1>10 DEF StatusFileInv

LEMMA UnlinkPreserves ==
  ASSUME StatusFileInv, NEW p \in Procs, Unlink(p)
  PROVE  StatusFileInv'
<1> USE DEF StatusFileInv, Unlink, Goto, Steady, KeepFiles, KeepLocks
<1>1. /\ data' \in [Inodes -> Content]
       /\ \A f \in Inodes : f # path \/ (\E q \in Procs : Db(q) = path) => data'[f] = data[f]
  BY Contents DEF TypeOK
<1>2. TypeOK'
  BY <1>1 DEF TypeOK, Places, Waiting, Db
<1>3. PlacesInv'
  BY DEF PlacesInv, PlaceTells, HasDb, MayConvert, Db, Converting
<1>4. OneDatabase'
  BY DEF PlacesInv, PlaceTells, HasDb, Db, Converting, OneDatabase
<1>5. PeekHolds'
  BY ProcsAssumption DEF Db, PeekHolds, Rows
<1>6. StatusKept'
  BY DEF PlacesInv, PlaceTells, Converting, OneDatabase, StatusKept, InSync
<1> QED
  BY <1>2, <1>3, <1>4, <1>5, <1>6

LEMMA ConnectPreserves ==
  ASSUME StatusFileInv, NEW p \in Procs, Connect(p)
  PROVE  StatusFileInv'
<1>a. TypeOK /\ PlacesInv /\ OneDatabase /\ PeekHolds /\ StatusKept
  BY DEF StatusFileInv
<1>1. /\ path' \in Inodes /\ (path # None => path' = path)
      /\ path = None => \A q \in Procs : mem[q].db # path'
      /\ path = None => path' # oldPath
  BY <1>a DEF Connect, Unused, TypeOK
<1>2. mem' = [mem EXCEPT ![p].db = path']
  BY DEF Connect
<1>3. /\ mem' \in [Procs -> Mem]
      /\ \A q \in Procs : /\ mem'[q].db = IF q = p THEN path' ELSE mem[q].db
                          /\ mem'[q].legacy = mem[q].legacy
                          /\ mem'[q].nonempty = mem[q].nonempty
  BY <1>a, <1>1, <1>2, SetDb
<1>4. /\ data' \in [Inodes -> Content]
      /\ \A f \in Inodes : f # path' \/ path # None => data'[f] = data[f]
      /\ path = None => data'[path'].rows = {}
  BY <1>a, <1>1, Contents DEF Connect, TypeOK, NewFile
<1>5. /\ pc[p] = "connect" /\ pc' = [pc EXCEPT ![p] = "checkSchema"]
      /\ UNCHANGED <<items, edits, lock, stale, oldPath, last, torn, faults>>
  BY DEF Connect, Goto, Steady, KeepLocks
<1>n. \A q \in Procs : /\ Db(q)' = IF q = p THEN path' ELSE Db(q)
                       /\ q # p /\ Db(q) \in Inodes => data'[Db(q)] = data[Db(q)]
                       /\ Converting(q)' <=> Converting(q)
  BY <1>1, <1>3, <1>4 DEF Db, Converting
<1>m. \A q \in Procs \ {p} : /\ Db(q)' = Db(q)
                             /\ Db(q) \in Inodes => Rows(q)' = Rows(q)
  BY <1>n DEF Rows
<1>o. \A q \in Procs : /\ pc[q] \in HasDb => Db(q) \in Inodes
                       /\ pc'[q] \in HasDb /\ pc'[q] # "checkSchema" => q # p /\ pc'[q] = pc[q]
  BY <1>a, <1>5, MemFields DEF PlacesInv, PlaceTells, Db, TypeOK
<1>6. TypeOK'
  <2>1. \A q \in Procs :
       /\ pc'[q] \in {"list", "decide", "commit"} => lock'[Db(q)'] = q
       /\ pc'[q] \in Waiting \ {"createSchema"} => data'[Db(q)'].schema
    BY <1>a, <1>4, <1>5, <1>n, <1>o DEF TypeOK, HasDb, Waiting
  <2> QED
    BY <2>1, <1>a, <1>1, <1>3, <1>4, <1>5 DEF TypeOK, Mem, Places
<1>7. PlacesInv'
  BY <1>a, <1>1, <1>3, <1>5, <1>n, ProcsAssumption DEF TypeOK, PlacesInv, PlaceTells, HasDb, MayConvert, Places
<1>8. OneDatabase'
  BY <1>a, <1>1, <1>3, <1>5, <1>n, ProcsAssumption DEF TypeOK, OneDatabase, PlacesInv, PlaceTells
<1>9. PeekHolds'
  BY <1>a, <1>3, <1>5, <1>m, <1>o DEF PeekHolds, HasDb
<1>10. StatusKept'
  <2>1. SUFFICES ASSUME ~ torn'
        PROVE /\ (\A q \in Procs : ~ Converting(q)') => StatusRows' = last'
              /\ \A q \in Procs : pc'[q] \in InSync => Rows(q)' = last'
    BY DEF StatusKept
  <2>2. ASSUME NEW q \in Procs, pc'[q] \in InSync PROVE Rows(q)' = last'
    BY <2>1, <2>2, <1>a, <1>5, <1>m, <1>o DEF StatusKept, InSync, HasDb
  <2>3. ASSUME \A q \in Procs : ~ Converting(q)' PROVE StatusRows' = last'
    <3>1. StatusRows = last
      BY <2>1, <2>3, <1>a, <1>5, <1>n DEF StatusKept
    <3>2. oldPath = None
      BY <1>a, <1>5 DEF PlacesInv, PlaceTells
    <3> QED
      BY <3>1, <3>2, <1>1, <1>4, <1>5, ProcsAssumption DEF StatusRows
  <2> QED
    BY <2>2, <2>3
<1> QED
  BY <1>6, <1>7, <1>8, <1>9, <1>10 DEF StatusFileInv

LEMMA CheckSchemaPreserves ==
  ASSUME StatusFileInv, NEW p \in Procs, CheckSchema(p)
  PROVE  StatusFileInv'
<1>a. TypeOK /\ PlacesInv /\ OneDatabase /\ PeekHolds /\ StatusKept
  BY DEF StatusFileInv
<1>1. PICK x \in {"createSchema", "loadLegacy", "peek"} :
        /\ pc' = [pc EXCEPT ![p] = x] /\ pc[p] = "checkSchema"
        /\ x = "loadLegacy" => Converting(p) /\ data[Db(p)].schema
        /\ x = "peek" => ~ Converting(p) /\ data[Db(p)].schema
  BY DEF CheckSchema, Goto, AfterSchema, IsLatest, Converting
<1>2. UNCHANGED <<items, edits, oldPath, path, data, last, lock, stale, mem, torn, faults>>
  BY DEF CheckSchema, Steady, KeepFiles, KeepLocks
<1>n. \A q \in Procs : Db(q)' = Db(q) /\ Rows(q)' = Rows(q) /\ (Converting(q)' <=> Converting(q))
  BY <1>2 DEF Db, Rows, Converting
<1>6. TypeOK'
  BY <1>a, <1>1, <1>2, <1>n DEF TypeOK, Places, Waiting
<1>7. PlacesInv'
  BY <1>a, <1>1, <1>2, <1>n, ProcsAssumption DEF TypeOK, PlacesInv, PlaceTells, HasDb, MayConvert, Places
<1>8. OneDatabase'
  BY <1>a, <1>1, <1>2, <1>n, ProcsAssumption DEF TypeOK, OneDatabase
<1>9. PeekHolds'
  BY <1>a, <1>1, <1>2, <1>n DEF TypeOK, PeekHolds
<1>10. StatusKept'
  <2>1. SUFFICES ASSUME ~ torn'
        PROVE /\ (\A q \in Procs : ~ Converting(q)') => StatusRows' = last'
              /\ \A q \in Procs : pc'[q] \in InSync => Rows(q)' = last'
    BY DEF StatusKept
  <2>2. StatusRows' = StatusRows
    BY <1>2 DEF StatusRows
  <2>3. ASSUME x = "peek" PROVE Rows(p) = last
    <3>1. Db(p) = path /\ Db(p) # None /\ oldPath = None
      BY <2>1, <1>a, <1>1, <1>2 DEF OneDatabase, PlacesInv, PlaceTells, HasDb
    <3>2. \A q \in Procs : ~ Converting(q)
      <4>1. ASSUME NEW q \in Procs \ {p}, Converting(q) PROVE FALSE
        BY <4>1, <2>1, <1>a, <1>1, <1>2 DEF OneDatabase
      <4> QED
        BY <4>1, <2>3, <1>1
    <3> QED
      BY <3>1, <3>2, <2>1, <1>a, <1>2 DEF StatusKept, StatusRows, Rows
  <2> QED
    BY <2>1, <2>2, <2>3, <1>a, <1>1, <1>2, <1>n DEF TypeOK, StatusKept, InSync
<1> QED
  BY <1>6, <1>7, <1>8, <1>9, <1>10 DEF StatusFileInv

LEMMA CreateSchemaPreserves ==
  ASSUME StatusFileInv, NEW p \in Procs, CreateSchema(p)
  PROVE  StatusFileInv'
<1>a. TypeOK /\ PlacesInv /\ OneDatabase /\ PeekHolds /\ StatusKept
  BY DEF StatusFileInv
<1>1. PICK x \in {"loadLegacy", "peek"} :
        /\ pc' = [pc EXCEPT ![p] = x] /\ pc[p] = "createSchema"
        /\ x = "loadLegacy" <=> Converting(p)
  BY DEF CreateSchema, Goto, AfterSchema, Converting
<1>2. Db(p) \in Inodes
  BY <1>a, <1>1, MemFields DEF PlacesInv, PlaceTells, HasDb, Db
<1>3. /\ data' \in [Inodes -> Content]
      /\ \A g \in Inodes : /\ data'[g].schema = IF g = Db(p) THEN TRUE ELSE data[g].schema
                           /\ data'[g].rows = data[g].rows
  BY <1>a, <1>2, SetSchema DEF CreateSchema
<1>4. UNCHANGED <<items, edits, lock, stale, oldPath, path, last, mem, torn, faults>>
  BY DEF CreateSchema, Steady, KeepLocks
<1>n. \A q \in Procs : /\ Db(q)' = Db(q) /\ (Db(q) \in Inodes => Rows(q)' = Rows(q))
                       /\ Converting(q)' <=> Converting(q)
  BY <1>3, <1>4 DEF Db, Rows, Converting
<1>m. \A q \in Procs : pc[q] \in HasDb => Db(q) \in Inodes
  BY <1>a, MemFields DEF PlacesInv, PlaceTells, Db
<1>6. TypeOK'
  <2>1. pc' \in [Procs -> Places]
    BY <1>a, <1>1 DEF TypeOK, Places, Waiting
  <2>2. ASSUME NEW q \in Procs, pc'[q] \in {"list", "decide", "commit"} PROVE lock'[Db(q)'] = q
    BY <1>a, <1>1, <1>4, <1>n, <2>2 DEF TypeOK
  <2>3. ASSUME NEW q \in Procs, pc'[q] \in Waiting \ {"createSchema"} PROVE data'[Db(q)'].schema
    <3>1. CASE q = p
      BY <1>2, <1>3, <1>n, <3>1
    <3>2. CASE q # p
      <4>1. pc[q] = pc'[q]
        BY <1>a, <1>1, <3>2 DEF TypeOK
      <4>2. data[Db(q)].schema /\ Db(q) \in Inodes
        BY <1>a, <1>m, <2>3, <4>1 DEF TypeOK, Waiting, HasDb
      <4> QED BY <1>3, <1>n, <4>2
    <3> QED BY <3>1, <3>2
  <2> QED BY <1>a, <1>3, <1>4, <2>1, <2>2, <2>3 DEF TypeOK
<1>7. PlacesInv'
  BY <1>a, <1>1, <1>4, <1>n, ProcsAssumption DEF TypeOK, PlacesInv, PlaceTells, HasDb, MayConvert, Places
<1>8. OneDatabase'
  BY <1>a, <1>1, <1>4, <1>n, ProcsAssumption DEF TypeOK, OneDatabase
<1>9. PeekHolds'
  BY <1>a, <1>1, <1>4, <1>n, <1>m DEF TypeOK, PeekHolds, HasDb
<1>10. StatusKept'
  <2>1. SUFFICES ASSUME ~ torn'
        PROVE /\ (\A q \in Procs : ~ Converting(q)') => StatusRows' = last'
              /\ \A q \in Procs : pc'[q] \in InSync => Rows(q)' = last'
    BY DEF StatusKept
  <2>2. StatusRows' = StatusRows
    BY <1>a, <1>3, <1>4 DEF StatusRows, TypeOK
  <2>3. ASSUME x = "peek" PROVE Rows(p) = last
    <3>1. Db(p) = path /\ Db(p) # None /\ oldPath = None
      BY <2>1, <1>a, <1>1, <1>4 DEF OneDatabase, PlacesInv, PlaceTells, HasDb
    <3>2. \A q \in Procs : ~ Converting(q)
      <4>1. ASSUME NEW q \in Procs \ {p}, Converting(q) PROVE FALSE
        BY <4>1, <2>1, <1>a, <1>1, <1>4 DEF OneDatabase
      <4> QED
        BY <4>1, <2>3, <1>1
    <3> QED
      BY <3>1, <3>2, <2>1, <1>a, <1>4 DEF StatusKept, StatusRows, Rows
  <2> QED
    BY <2>1, <2>2, <2>3, <1>a, <1>1, <1>2, <1>4, <1>n, <1>m DEF TypeOK, StatusKept, InSync, HasDb
<1> QED
  BY <1>6, <1>7, <1>8, <1>9, <1>10 DEF StatusFileInv

LEMMA LoadLegacyPreserves ==
  ASSUME StatusFileInv, NEW p \in Procs, LoadLegacy(p)
  PROVE  StatusFileInv'
<1>a. TypeOK /\ PlacesInv /\ OneDatabase /\ PeekHolds /\ StatusKept
  BY DEF StatusFileInv
<1>1. /\ pc[p] = "loadLegacy" /\ pc' = [pc EXCEPT ![p] = "peek"]
      /\ stale' = stale \cup Peeked /\ lock[Db(p)] = None
      /\ UNCHANGED <<items, edits, oldPath, path, last, lock, torn, faults>>
  BY DEF LoadLegacy, Goto, Free, Steady
<1>2. Db(p) \in Inodes /\ mem[p].legacy \in Status /\ Converting(p) /\ data[Db(p)].schema
  BY <1>a, <1>1, MemFields DEF PlacesInv, PlaceTells, HasDb, Db, Converting, TypeOK, Waiting
<1>3. /\ data' \in [Inodes -> Content]
      /\ \A g \in Inodes : /\ data'[g].rows = IF g = Db(p) THEN mem[p].legacy ELSE data[g].rows
                           /\ data'[g].schema = data[g].schema
  BY <1>a, <1>2, SetRows DEF LoadLegacy
<1>4. /\ mem' \in [Procs -> Mem]
      /\ \A q \in Procs : /\ mem'[q].legacy = IF q = p THEN None ELSE mem[q].legacy
                          /\ mem'[q].db = mem[q].db
                          /\ mem'[q].nonempty = mem[q].nonempty
  BY <1>a, SetLegacy DEF LoadLegacy
<1>n. \A q \in Procs : /\ Db(q)' = Db(q)
                       /\ Db(q) \in Inodes /\ Db(q) # Db(p) => Rows(q)' = Rows(q)
                       /\ Converting(q)' <=> q # p /\ Converting(q)
  BY <1>3, <1>4 DEF Db, Rows, Converting
<1>o. Rows(p)' = mem[p].legacy
  BY <1>2, <1>3, <1>n DEF Rows
<1>m. \A q \in Procs : pc[q] \in HasDb => Db(q) \in Inodes
  BY <1>a, MemFields DEF PlacesInv, PlaceTells, Db
<1>6. TypeOK'
  <2>1. \A q \in Procs :
       /\ pc'[q] \in {"list", "decide", "commit"} => lock'[Db(q)'] = q
       /\ pc'[q] \in Waiting \ {"createSchema"} => data'[Db(q)'].schema
    BY <1>a, <1>1, <1>2, <1>3, <1>n, <1>m DEF TypeOK, HasDb, Waiting
  <2>2. Peeked \subseteq Procs
    BY DEF Peeked
  <2> QED
    BY <2>1, <2>2, <1>a, <1>1, <1>3, <1>4 DEF TypeOK, Mem, Places
<1>7. PlacesInv'
  BY <1>a, <1>1, <1>n, ProcsAssumption DEF TypeOK, PlacesInv, PlaceTells, HasDb, MayConvert, Places
<1>8. OneDatabase'
  BY <1>a, <1>1, <1>4, <1>n, ProcsAssumption DEF TypeOK, OneDatabase
<1>9. PeekHolds'
  <2>1. SUFFICES ASSUME NEW q \in Procs \ stale', pc'[q] \in {"begin", "list", "decide"}
        PROVE mem'[q].nonempty = (Rows(q)' # {})
    BY DEF PeekHolds
  <2>2. q # p /\ pc[q] \in {"list", "decide"} /\ q \notin stale
    BY <2>1, <1>a, <1>1 DEF Peeked, TypeOK
  <2>3. Db(q) \in Inodes /\ Db(q) # Db(p)
    BY <2>2, <1>a, <1>1, <1>m, ProcsAssumption DEF TypeOK, HasDb
  <2> QED
    BY <2>1, <2>2, <2>3, <1>a, <1>4, <1>n DEF PeekHolds
<1>10. StatusKept'
  <2>1. SUFFICES ASSUME ~ torn'
        PROVE /\ (\A q \in Procs : ~ Converting(q)') => StatusRows' = last'
              /\ \A q \in Procs : pc'[q] \in InSync => Rows(q)' = last'
    BY DEF StatusKept
  <2>2. /\ mem[p].legacy = last /\ Db(p) = path /\ Db(p) # None /\ oldPath = None
        /\ \A q \in Procs \ {p} : pc[q] \in {"idle", "rename", "inspect"}
    BY <2>1, <1>a, <1>1, <1>2 DEF OneDatabase, PlacesInv, PlaceTells, HasDb
  <2>3. StatusRows' = last'
    BY <2>2, <1>1, <1>2, <1>3 DEF StatusRows
  <2>4. \A q \in Procs : pc'[q] \in InSync => q = p
    BY <2>2, <1>a, <1>1 DEF TypeOK, InSync
  <2> QED
    BY <2>2, <2>3, <2>4, <1>1, <1>o
<1> QED
  BY <1>6, <1>7, <1>8, <1>9, <1>10 DEF StatusFileInv

LEMMA PeekPreserves ==
  ASSUME StatusFileInv, NEW p \in Procs, Peek(p)
  PROVE  StatusFileInv'
<1> USE DEF StatusFileInv, Peek, Goto, Steady, KeepFiles, KeepLocks
<1>1. /\ mem' \in [Procs -> Mem]
       /\ \A q \in Procs : /\ mem'[q].nonempty = IF q = p THEN Rows(p) # {} ELSE mem[q].nonempty
                           /\ mem'[q].db = mem[q].db
                           /\ mem'[q].legacy = mem[q].legacy
  <2>1. (Rows(p) # {}) \in BOOLEAN /\ mem' = [mem EXCEPT ![p].nonempty = Rows(p) # {}]
    OBVIOUS
  <2> DEFINE x == Rows(p) # {}
  <2> HIDE DEF x, Goto, Steady, KeepFiles, KeepLocks
  <2> QED BY <2>1, SetNonempty DEF x
<1>2. TypeOK'
  BY <1>1 DEF TypeOK, Mem, Places, Waiting, Db
<1>3. PlacesInv'
  BY DEF PlacesInv, PlaceTells, HasDb, MayConvert, Db, Converting
<1>4. OneDatabase'
  BY DEF Db, Converting, OneDatabase
<1>5. PeekHolds'
  BY <1>1 DEF Db, PeekHolds, Rows
<1>6. StatusKept'
  BY DEF Db, Converting, StatusKept, StatusRows, InSync, Rows
<1> QED
  BY <1>2, <1>3, <1>4, <1>5, <1>6

LEMMA BeginPreserves ==
  ASSUME StatusFileInv, NEW p \in Procs, Begin(p)
  PROVE  StatusFileInv'
<1> USE DEF StatusFileInv, Begin, Goto, Steady, KeepFiles, KeepLocks
<1>1. mem[p].db \in Inodes /\ lock[mem[p].db] = None
  BY DEF Free, TypeOK, PlacesInv, PlaceTells, HasDb, Db
<1>2. TypeOK'
  BY <1>1, ProcsAssumption DEF TypeOK, Places, Waiting, Db
<1>3. PlacesInv'
  BY DEF PlacesInv, PlaceTells, HasDb, MayConvert, Db, Converting
<1>4. OneDatabase'
  BY DEF Db, Converting, OneDatabase
<1>5. PeekHolds'
  BY <1>1, NoStatusAssumption DEF TypeOK, PlacesInv, Db, PeekHolds, Rows
<1>6. StatusKept'
  BY DEF Db, Converting, StatusKept, StatusRows, InSync, Rows
<1> QED
  BY <1>2, <1>3, <1>4, <1>5, <1>6

LEMMA ListPreserves ==
  ASSUME StatusFileInv, NEW p \in Procs, List(p)
  PROVE  StatusFileInv'
<1> USE DEF StatusFileInv, List, Goto, Steady, KeepFiles, KeepLocks
<1>1. TypeOK'
  BY ProcsAssumption, NoStatusAssumption DEF TypeOK, Mem, Places, Waiting, Db, PlacesInv, PlaceTells, HasDb, Converting, Rows
<1>2. PlacesInv'
  BY DEF PlacesInv, PlaceTells, HasDb, MayConvert, Db, Converting
<1>3. OneDatabase'
  BY DEF Db, Converting, OneDatabase
<1>4. PeekHolds'
  BY DEF Db, PeekHolds, Rows
<1>5. StatusKept'
  BY DEF Db, Converting, StatusKept, StatusRows, InSync, Rows
<1> QED
  BY <1>1, <1>2, <1>3, <1>4, <1>5

LEMMA ActPreserves ==
  ASSUME StatusFileInv, NEW p \in Procs, Act(p)
  PROVE  StatusFileInv'
<1> USE DEF StatusFileInv, Act, Goto, Steady, KeepFiles, KeepLocks
<1>1. \A s \in Sides : mem[p].listed[s] \in Status /\ Removed(p, s) \in Status /\ Uploaded(p, s) \in Status
  BY MemFields DEF Removed, Uploaded, Other, Sides, Status
<1>2. items' \in [Sides -> Status]
  BY <1>1 DEF TypeOK, Status
<1>3. TypeOK'
  BY <1>2 DEF TypeOK, Places, Waiting, Db
<1>4. PlacesInv'
  BY DEF PlacesInv, PlaceTells, HasDb, MayConvert, Db, Converting
<1>5. OneDatabase'
  BY DEF Db, Converting, OneDatabase
<1>6. PeekHolds'
  BY DEF Db, PeekHolds, Rows
<1>7. StatusKept'
  BY DEF Db, Converting, StatusKept, StatusRows, InSync, Rows
<1> QED
  BY <1>3, <1>4, <1>5, <1>6, <1>7

(* A file that is closed, and removed before, has nobody's rows.           *)
LEMMA CloseFile ==
  ASSUME StatusFileInv, NEW p \in Procs, NEW d \in [Inodes -> Content], data' = Closed(p, d)
  PROVE  /\ data' \in [Inodes -> Content]
         /\ \A q \in Procs \ {p} : Db(q) \in Inodes => data'[Db(q)] = d[Db(q)]
         /\ path \in Inodes => data'[path] = d[path]
         /\ oldPath \in Inodes => data'[oldPath] = d[oldPath]
<1>1. NewFile \in Content
  BY DEF NewFile, Content, Status
<1>2. Db(p) \in Inodes => oldPath = None
  BY ProcsAssumption DEF StatusFileInv, PlacesInv, PlaceTells, HasDb
<1>3. CASE Db(p) \in Inodes \ {path} /\ \A q \in Procs \ {p} : Db(q) # Db(p)
  <2>1. data' = [d EXCEPT ![Db(p)] = NewFile]
    BY <1>3 DEF Closed
  <2> QED
    BY <2>1, <1>1, <1>2, <1>3, ProcsAssumption
<1>4. CASE ~ (Db(p) \in Inodes \ {path} /\ \A q \in Procs \ {p} : Db(q) # Db(p))
  <2>1. data' = d
    BY <1>4 DEF Closed
  <2> QED
    BY <2>1
<1> QED
  BY <1>3, <1>4

LEMMA ClearMem ==
  ASSUME TypeOK, NEW p \in Procs, mem' = [mem EXCEPT ![p] = Nothing]
  PROVE  /\ mem' \in [Procs -> Mem]
         /\ Db(p)' = None /\ ~ Converting(p)'
         /\ \A q \in Procs \ {p} : mem'[q] = mem[q] /\ Db(q)' = Db(q)
                                   /\ (Converting(q)' <=> Converting(q))
BY DEF TypeOK, Mem, Nothing, Db, Converting, Status

LEMMA EndPreserves ==
  ASSUME StatusFileInv, NEW p \in Procs, End(p), faults' \in 0 .. MaxFaults
  PROVE  StatusFileInv'
<1>a. TypeOK /\ PlacesInv /\ OneDatabase /\ PeekHolds /\ StatusKept
  BY DEF StatusFileInv
<1>1. /\ pc' = [pc EXCEPT ![p] = "idle"]
      /\ stale' = stale \ {p} /\ torn' = (torn \/ Converting(p))
      /\ UNCHANGED <<items, oldPath, path, last, edits>>
      /\ data' = Closed(p, data) /\ mem' = [mem EXCEPT ![p] = Nothing]
      /\ lock' = Released(p)
  BY DEF End
<1>2. /\ data' \in [Inodes -> Content]
      /\ \A q \in Procs \ {p} : Db(q) \in Inodes => data'[Db(q)] = data[Db(q)]
      /\ path \in Inodes => data'[path] = data[path]
      /\ oldPath \in Inodes => data'[oldPath] = data[oldPath]
  <2>1. data \in [Inodes -> Content]
    BY <1>a DEF TypeOK
  <2> QED
    BY <2>1, <1>1, CloseFile
<1>3. /\ mem' \in [Procs -> Mem]
      /\ Db(p)' = None /\ ~ Converting(p)'
      /\ \A q \in Procs \ {p} : mem'[q] = mem[q] /\ Db(q)' = Db(q)
                                /\ (Converting(q)' <=> Converting(q))
  BY <1>a, <1>1, ClearMem
<1>4. /\ lock' \in [Inodes -> Procs \cup {None}]
      /\ \A f \in Inodes, q \in Procs \ {p} : lock[f] = q => lock'[f] = q
  BY <1>a, <1>1 DEF Released, TypeOK
<1>5. pc' \in [Procs -> Places] /\ pc'[p] = "idle" /\ \A q \in Procs \ {p} : pc'[q] = pc[q]
  BY <1>a, <1>1 DEF TypeOK, Places
<1>m. \A q \in Procs : pc[q] \in HasDb => Db(q) \in Inodes
  BY <1>a, MemFields DEF PlacesInv, PlaceTells, Db
<1>n. \A q \in Procs \ {p} : pc[q] \in HasDb => Rows(q)' = Rows(q)
  BY <1>2, <1>3, <1>m DEF Rows
<1>6. TypeOK'
  <2>1. \A q \in Procs :
       /\ pc'[q] \in {"list", "decide", "commit"} => lock'[Db(q)'] = q
       /\ pc'[q] \in Waiting \ {"createSchema"} => data'[Db(q)'].schema
    BY <1>a, <1>2, <1>3, <1>4, <1>5, <1>m DEF TypeOK, HasDb, Waiting
  <2> QED
    BY <2>1, <1>a, <1>1, <1>2, <1>3, <1>4, <1>5 DEF TypeOK, Mem, Converting
<1>7. PlacesInv'
  BY <1>a, <1>1, <1>3, <1>5 DEF PlacesInv, PlaceTells, HasDb, MayConvert
<1>8. OneDatabase'
  BY <1>a, <1>1, <1>3, <1>5 DEF OneDatabase
<1>9. PeekHolds'
  BY <1>a, <1>1, <1>3, <1>5, <1>n DEF PeekHolds, HasDb
<1>10. StatusKept'
  <2>1. SUFFICES ASSUME ~ torn'
        PROVE /\ (\A q \in Procs : ~ Converting(q)') => StatusRows' = last'
              /\ \A q \in Procs : pc'[q] \in InSync => Rows(q)' = last'
    BY DEF StatusKept
  <2>2. StatusRows' = StatusRows
    BY <1>a, <1>1, <1>2 DEF StatusRows, TypeOK
  <2>3. ~ torn /\ ~ Converting(p)
    BY <2>1, <1>1
  <2> QED
    BY <2>1, <2>2, <2>3, <1>a, <1>1, <1>3, <1>5, <1>n DEF StatusKept, InSync, HasDb
<1> QED
  BY <1>6, <1>7, <1>8, <1>9, <1>10 DEF StatusFileInv

LEMMA NewStatusIsStatus ==
  ASSUME TypeOK, NEW p \in Procs
  PROVE  NewStatus(p) \in Status
BY MemFields DEF NewStatus, Removed, Uploaded, Other, Sides, Status

LEMMA CommitPreserves ==
  ASSUME StatusFileInv, NEW p \in Procs, Commit(p)
  PROVE  StatusFileInv'
<1>a. TypeOK /\ PlacesInv /\ OneDatabase /\ PeekHolds /\ StatusKept
  BY DEF StatusFileInv
<1> DEFINE d == [data EXCEPT ![Db(p)].rows = NewStatus(p)]
<1>1. /\ pc[p] = "commit" /\ pc' = [pc EXCEPT ![p] = "idle"]
      /\ data' = Closed(p, d) /\ last' = NewStatus(p)
      /\ mem' = [mem EXCEPT ![p] = Nothing]
      /\ lock' = [lock EXCEPT ![Db(p)] = None]
      /\ stale' = (stale \cup Peeked) \ {p}
      /\ torn' = (torn /\ ~ (Alone(p) /\ Db(p) = path))
      /\ UNCHANGED <<items, edits, oldPath, path, faults>>
  BY DEF Commit, Steady
<1>2. /\ d \in [Inodes -> Content]
      /\ \A f \in Inodes : /\ d[f].rows = IF f = Db(p) THEN NewStatus(p) ELSE data[f].rows
                           /\ d[f].schema = data[f].schema
  <2>1. data \in [Inodes -> Content] /\ NewStatus(p) \in Status
    BY <1>a, NewStatusIsStatus DEF TypeOK
  <2>2. ASSUME NEW f \in Inodes
        PROVE  /\ d[f] \in Content
               /\ d[f].rows = IF f = Db(p) THEN NewStatus(p) ELSE data[f].rows
               /\ d[f].schema = data[f].schema
    BY <2>1 DEF Content
  <2>3. d = [f \in Inodes |-> d[f]]
    BY <2>1
  <2> QED
    BY <2>2, <2>3
<1> HIDE DEF d
<1>3. /\ data' \in [Inodes -> Content]
      /\ \A q \in Procs \ {p} : Db(q) \in Inodes => data'[Db(q)] = d[Db(q)]
      /\ path \in Inodes => data'[path] = d[path]
  BY <1>1, <1>2, CloseFile
<1>4. /\ mem' \in [Procs -> Mem]
      /\ Db(p)' = None /\ ~ Converting(p)'
      /\ \A q \in Procs \ {p} : mem'[q] = mem[q] /\ Db(q)' = Db(q)
                                /\ (Converting(q)' <=> Converting(q))
  BY <1>a, <1>1, ClearMem
<1>5. pc' \in [Procs -> Places] /\ pc'[p] = "idle" /\ \A q \in Procs \ {p} : pc'[q] = pc[q]
  BY <1>a, <1>1 DEF TypeOK, Places
<1>m. \A q \in Procs : pc[q] \in HasDb => Db(q) \in Inodes
  BY <1>a, MemFields DEF PlacesInv, PlaceTells, Db
<1>n. Db(p) \in Inodes /\ oldPath = None /\ ~ Converting(p) /\ lock[Db(p)] = p
  BY <1>a, <1>1, <1>m DEF HasDb, MayConvert, PlacesInv, PlaceTells, TypeOK
<1>o. \A q \in Procs \ {p} :
        pc[q] \in HasDb => Rows(q)' = IF Db(q) = Db(p) THEN NewStatus(p) ELSE Rows(q)
  BY <1>2, <1>3, <1>4, <1>m DEF Rows
<1>b. \A q \in Procs \ {p} : pc[q] \in {"list", "decide", "commit"} => Db(q) # Db(p)
  BY <1>a, <1>n DEF TypeOK
<1>6. TypeOK'
  <2>1. \A q \in Procs :
       /\ pc'[q] \in {"list", "decide", "commit"} => lock'[Db(q)'] = q
       /\ pc'[q] \in Waiting \ {"createSchema"} => data'[Db(q)'].schema
    <3>1. \A q \in Procs \ {p} :
             pc[q] \in {"list", "decide", "commit"} => lock'[Db(q)] = q
      BY <1>a, <1>1, <1>m, <1>n, <1>b DEF TypeOK, HasDb
    <3>2. \A q \in Procs \ {p} :
             pc[q] \in Waiting \ {"createSchema"} => data'[Db(q)].schema
      BY <1>a, <1>2, <1>3, <1>m DEF TypeOK, HasDb, Waiting
    <3> QED
      BY <3>1, <3>2, <1>4, <1>5 DEF Waiting
  <2>2. Peeked \subseteq Procs
    BY DEF Peeked
  <2>3. /\ last' \in Status /\ torn' \in BOOLEAN /\ stale' \subseteq Procs
        /\ lock' \in [Inodes -> Procs \cup {None}]
    BY <2>2, <1>a, <1>1, NewStatusIsStatus DEF TypeOK
  <2> QED
    BY <2>1, <2>3, <1>a, <1>1, <1>3, <1>4, <1>5 DEF TypeOK, Mem
<1>7. PlacesInv'
  BY <1>a, <1>1, <1>4, <1>5 DEF PlacesInv, PlaceTells, HasDb, MayConvert
<1>c. ~ torn' => /\ Db(p) = path /\ \A q \in Procs : ~ Converting(q)
                 /\ \A q \in Procs \ {p} : Db(q) # None => Db(q) = path
  <2>1. CASE ~ torn
    <3>1. ASSUME NEW q \in Procs, Converting(q) PROVE FALSE
      BY <2>1, <3>1, <1>a, <1>1, <1>n DEF OneDatabase
    <3> QED
      BY <2>1, <3>1, <1>a, <1>n, ProcsAssumption DEF OneDatabase
  <2>2. CASE Alone(p) /\ Db(p) = path
    BY <2>2, <1>a, <1>n DEF Alone, PlacesInv, PlaceTells, HasDb, MayConvert
  <2> QED
    BY <2>1, <2>2, <1>1
<1>8. OneDatabase'
  BY <1>c, <1>1, <1>4 DEF OneDatabase
<1>9. PeekHolds'
  <2>1. SUFFICES ASSUME NEW q \in Procs \ stale', pc'[q] \in {"begin", "list", "decide"}
        PROVE mem'[q].nonempty = (Rows(q)' # {})
    BY DEF PeekHolds
  <2>2. q # p /\ pc[q] \in {"list", "decide"} /\ q \notin stale
    BY <2>1, <1>1, <1>5 DEF Peeked
  <2> QED
    BY <2>2, <1>a, <1>4, <1>o, <1>b DEF PeekHolds, HasDb
<1>10. StatusKept'
  <2>1. SUFFICES ASSUME ~ torn'
        PROVE /\ StatusRows' = last'
              /\ \A q \in Procs : pc'[q] \in InSync => Rows(q)' = last'
    BY DEF StatusKept
  <2>2. StatusRows' = last'
    BY <2>1, <1>c, <1>1, <1>2, <1>3, <1>n, ProcsAssumption DEF StatusRows
  <2>3. \A q \in Procs \ {p} : pc[q] \in InSync => Db(q) = Db(p)
    BY <2>1, <1>c, <1>m, ProcsAssumption DEF InSync, HasDb
  <2> QED
    BY <2>2, <2>3, <1>1, <1>5, <1>o DEF InSync, HasDb
<1> QED
  BY <1>6, <1>7, <1>8, <1>9, <1>10 DEF StatusFileInv

LEMMA EditPreserves ==
  ASSUME StatusFileInv, NEW s \in Sides, NEW new \in Status, Edit(s, new)
  PROVE  StatusFileInv'
<1>1. UNCHANGED <<oldPath, path, data, lock, pc, mem, last, stale, torn, faults>>
  BY DEF Edit
<1>2. items' \in [Sides -> Status] /\ edits' \in 0 .. MaxEdits
  BY BoundsAssumption DEF Edit, StatusFileInv, TypeOK
<1>3. TypeOK'
  BY <1>1, <1>2 DEF StatusFileInv, TypeOK, Db
<1> QED
  BY <1>1, <1>3
  DEF StatusFileInv, PlacesInv, PlaceTells, OneDatabase, PeekHolds, StatusKept, StatusRows,
      Converting, Db, Rows

LEMMA InitHolds == Init => StatusFileInv
<1> SUFFICES ASSUME Init PROVE StatusFileInv
  OBVIOUS
<1>1. PICK rows \in InitialStatuses, f \in Inodes :
        /\ items = [s \in Sides |-> rows] /\ last = rows
        /\ data = [g \in Inodes |-> IF g = f /\ rows # {} THEN Json(rows) ELSE NewFile]
        /\ \/ oldPath = f /\ path = None /\ rows # {}
           \/ oldPath = None /\ path = f /\ rows # {}
           \/ oldPath = None /\ path = None /\ rows = {}
  BY DEF Init
<1>2. rows \in Status
  BY <1>1, InitialAssumption
<1>3. /\ lock = [g \in Inodes |-> None] /\ pc = [p \in Procs |-> "idle"]
      /\ mem = [p \in Procs |-> Nothing] /\ stale = {} /\ torn = FALSE
      /\ edits = 0 /\ faults = 0
  BY DEF Init
<1>4. 0 \in 0 .. MaxEdits /\ 0 \in 0 .. MaxFaults
  BY BoundsAssumption
<1>5. TypeOK
  <2>1. data \in [Inodes -> Content]
    BY <1>1, <1>2 DEF Json, NewFile, Content, Status
  <2>2. mem \in [Procs -> Mem]
    BY <1>3 DEF Mem, Nothing, Status
  <2> QED
    BY <2>1, <2>2, <1>1, <1>2, <1>3, <1>4 DEF TypeOK, Mem, Places, Waiting
<1>6. \A p \in Procs : Db(p) = None /\ ~ Converting(p) /\ pc[p] = "idle"
  BY <1>3 DEF Db, Converting, Nothing
<1>7. StatusRows = last
  BY <1>1, ProcsAssumption DEF StatusRows, Json
<1> QED
  BY <1>1, <1>5, <1>6, <1>7, ProcsAssumption
  DEF StatusFileInv, PlacesInv, PlaceTells, HasDb, MayConvert, OneDatabase, PeekHolds,
      StatusKept, InSync

LEMMA NextPreserves == StatusFileInv /\ [Next]_vars => StatusFileInv'
<1> SUFFICES ASSUME StatusFileInv, [Next]_vars PROVE StatusFileInv'
  OBVIOUS
<1>1. CASE UNCHANGED vars
  BY <1>1
  DEF vars, StatusFileInv, TypeOK, PlacesInv, PlaceTells, OneDatabase, PeekHolds,
      StatusKept, StatusRows, Converting, Db, Rows
<1>2. CASE \E s \in Sides, new \in Status : Edit(s, new)
  BY <1>2, EditPreserves
<1>3. CASE \E p \in Procs : Run(p) \/ Kill(p)
  <2>1. PICK p \in Procs : Run(p) \/ Kill(p)
    BY <1>3
  <2>2. CASE End(p) /\ UNCHANGED faults
    BY <2>2, EndPreserves DEF StatusFileInv, TypeOK
  <2>3. CASE Kill(p)
    <3>1. End(p) /\ faults' \in 0 .. MaxFaults
      BY <2>3, BoundsAssumption DEF Kill, StatusFileInv, TypeOK
    <3> QED
      BY <3>1, EndPreserves
  <2>4. CASE LookForOldName(p)
    BY <2>4, LookForOldNamePreserves
  <2>5. CASE Rename(p)
    BY <2>5, RenamePreserves
  <2>6. CASE Inspect(p)
    BY <2>6, InspectPreserves
  <2>7. CASE Unlink(p)
    BY <2>7, UnlinkPreserves
  <2>8. CASE Connect(p)
    BY <2>8, ConnectPreserves
  <2>9. CASE CheckSchema(p)
    BY <2>9, CheckSchemaPreserves
  <2>10. CASE CreateSchema(p)
    BY <2>10, CreateSchemaPreserves
  <2>11. CASE LoadLegacy(p)
    BY <2>11, LoadLegacyPreserves
  <2>12. CASE Peek(p)
    BY <2>12, PeekPreserves
  <2>13. CASE Begin(p)
    BY <2>13, BeginPreserves
  <2>14. CASE List(p)
    BY <2>14, ListPreserves
  <2>15. CASE Act(p)
    BY <2>15, ActPreserves
  <2>16. CASE Commit(p)
    BY <2>16, CommitPreserves
  <2> QED
    BY <2>1, <2>2, <2>3, <2>4, <2>5, <2>6, <2>7, <2>8, <2>9, <2>10, <2>11, <2>12, <2>13,
       <2>14, <2>15, <2>16
    DEF Run, RenameFails, UnlinkFails, CreateSchemaFails, LockTimeout, Refuse
<1> QED
  BY <1>1, <1>2, <1>3 DEF Next

(* The files, the locks and the processes stay within their types.         *)
THEOREM StatusFileTypeCorrect == Spec => []TypeOK
<1>1. StatusFileInv => TypeOK
  BY DEF StatusFileInv
<1> QED
  BY <1>1, InitHolds, NextPreserves, PTL DEF Spec

(* A sync finds what was committed last, whatever the processes and their  *)
(* failures, unless a conversion went wrong (manage_sync_status).          *)
THEOREM StatusAlwaysKept == Spec => []StatusKept
<1>1. StatusFileInv => StatusKept
  BY DEF StatusFileInv
<1> QED
  BY <1>1, InitHolds, NextPreserves, PTL DEF Spec

(* The exclusive transaction of SqliteStatus.transaction keeps the syncs   *)
(* of one collection apart, for any number of processes.                   *)
THEOREM AlwaysOneAtATime == Spec => []OneAtATime
<1>1. StatusFileInv => OneAtATime
  <2> SUFFICES ASSUME StatusFileInv, NEW p \in Procs, NEW q \in Procs, p # q, ~ torn,
                      {pc[p], pc[q]} \subseteq {"list", "decide", "commit"}
               PROVE FALSE
    BY DEF OneAtATime
  <2>1. Db(p) = path /\ Db(q) = path
    BY DEF StatusFileInv, OneDatabase, PlacesInv, PlaceTells, HasDb
  <2>2. lock[Db(p)] = p /\ lock[Db(q)] = q
    BY DEF StatusFileInv, TypeOK
  <2> QED
    BY <2>1, <2>2
<1> QED
  BY <1>1, InitHolds, NextPreserves, PTL DEF Spec

LEMMA OnlyActCommits ==
  ASSUME StatusFileInv, [Next]_vars, NEW p \in Procs, Goto(p, "decide", "commit")
  PROVE  Act(p)
<1>1. pc[p] = "decide" /\ pc'[p] = "commit"
  BY DEF Goto, StatusFileInv, TypeOK
<1>2. ~ UNCHANGED vars /\ ~ \E s \in Sides, new \in Status : Edit(s, new)
  BY <1>1 DEF vars, Edit
<1>3. PICK q \in Procs : Run(q) \/ Kill(q)
  BY <1>2 DEF Next
<1>4. pc' = [pc EXCEPT ![q] = pc'[q]]
  BY <1>3
  DEF Run, Kill, End, Goto, LookForOldName, Rename, RenameFails, Inspect, Unlink, UnlinkFails,
      Connect, CheckSchema, CreateSchema, CreateSchemaFails, LoadLegacy, Peek, Begin,
      LockTimeout, List, Refuse, Act, Commit, StatusFileInv, TypeOK
<1>5. q = p
  BY <1>1, <1>4 DEF StatusFileInv, TypeOK
<1> QED
  BY <1>1, <1>3, <1>5
  DEF Run, Kill, End, Goto, LookForOldName, Rename, RenameFails, Inspect, Unlink, UnlinkFails,
      Connect, CheckSchema, CreateSchema, CreateSchemaFails, LoadLegacy, Peek, Begin,
      LockTimeout, List, Refuse, Commit, AfterSchema, StatusFileInv, TypeOK

(* A side found empty never empties the other one without --force-delete,  *)
(* as long as status_nonempty still held when the transaction began        *)
(* (sync).                                                                 *)
THEOREM EmptySideAlwaysSpared == Spec => EmptySideSpared
<1>1. ASSUME StatusFileInv, [Next]_vars, NEW p \in Procs \ (Forced \cup stale), NEW s \in Sides,
             Goto(p, "decide", "commit"), mem[p].listed[Other(s)] = {}
      PROVE  items[s] \subseteq items'[s]
  <2>1. Act(p)
    BY <1>1, OnlyActCommits
  <2>2. Removed(p, s) = {}
    <3>1. CASE mem[p].nonempty
      BY <1>1, <2>1, <3>1 DEF Act, Refused, OneSideEmpty, Removed, Other, Sides
    <3>2. CASE ~ mem[p].nonempty
      BY <1>1, <2>1, <3>2 DEF Act, Goto, StatusFileInv, PeekHolds, Removed
    <3> QED
      BY <3>1, <3>2
  <2> QED
    BY <2>1, <2>2 DEF Act
<1>2. StatusFileInv /\ [Next]_vars
        => [\A p \in Procs \ (Forced \cup stale), s \in Sides :
             Goto(p, "decide", "commit") /\ mem[p].listed[Other(s)] = {}
               => items[s] \subseteq items'[s]]_vars
  BY <1>1
<1> QED
  BY <1>2, InitHolds, NextPreserves, PTL DEF Spec, EmptySideSpared

=============================================================================
