------------------------------ MODULE Filesystem ------------------------------
(***************************************************************************)
(* A storage that keeps every item in a file of its own                    *)
(* (storage/filesystem.py), and atomic_write (utils.py) by which it writes *)
(* them.  Between two system calls of an operation other programs may      *)
(* change the directory, and the process may be killed.                    *)
(*                                                                         *)
(* The etag of a file is its mtime and its inode: here a value that is new *)
(* whenever the file is written to, and that renaming and linking keep.    *)
(***************************************************************************)
EXTENDS Storage

CONSTANTS
  SafeIdents,    \* idents that can be file names
  RandomHrefs,   \* names made up for the others
  MetaKeys,      \* names of metadata files ("color", "displayname", ...)
  TempNames,     \* names made by mkstemp: neither items nor metadata
  MaxEdits,      \* bound: changes made by other programs
  MaxCrashes     \* bound: interruptions of the process

ASSUME NamesAssumption ==
  /\ SafeIdents \subseteq Idents
  /\ RandomHrefs \subseteq Hrefs
  /\ Hrefs \cap MetaKeys = {} /\ Hrefs \cap TempNames = {} /\ MetaKeys \cap TempNames = {}
  /\ MaxEdits \in Nat /\ MaxCrashes \in Nat

Names == Hrefs \cup MetaKeys \cup TempNames

(* A file: its content, an item or a value, which is Torn until it has all *)
(* been written.                                                           *)
Torn == "torn"
File == [hash : Hashes \cup {Torn}, etag : Etags]

ASSUME TornAssumption == Torn \notin Hashes /\ None \notin File

(* A running operation; the etag is the one the caller passed.             *)
Call == [op : {"get", "upload", "update", "delete", "set_meta"}, name : Names,
         hash : Hashes, etag : Etags \cup {None}, temp : TempNames \cup {None}]

ASSUME NoneIsNoCall == None \notin Call /\ None \notin TempNames

VARIABLES
  dir,      \* the directory: what is kept under which name
  pc,       \* "idle", "list", "read", "checked", "temp", "written", "placed"
  call,     \* the running operation
  got,      \* the etag of the file that was written
  listed,   \* names that list() is still to yield
  seen,     \* what the caller remembers of an item: its content and etag,
            \* and whether it wrote ("write") or read ("read") them
  touched,  \* history: items changed since the caller last wrote them, by
            \* others or by a call that did not return
  raced,    \* history: items others changed since the running call began,
            \* or since it has put its file in place
  left,     \* history: temporary files of calls that were killed, or to which
            \* the system refused to finish the file or to put it in its place
  edits, crashes  \* counters for MaxEdits and MaxCrashes

bounds == <<edits, crashes>>
vars == <<dir, pc, call, got, listed, seen, touched, raced, left, bounds>>

Memory == [hash : Hashes, etag : Etags, by : {"read", "write"}]

ASSUME NoneIsNoMemory == None \notin Memory

-----------------------------------------------------------------------------
EtagsInUse ==
  {dir[n].etag : n \in {n \in Names : dir[n] # None}}
    \cup {seen[h].etag : h \in {h \in Hrefs : seen[h] # None}}
    \cup (IF call = None THEN {} ELSE {call.etag, got})

HasFreshEtag == Etags \ EtagsInUse # {}
FreshEtag == CHOOSE e \in Etags : e \notin EtagsInUse

Idle == pc = "idle"

Begin(op, n, c, e, t) ==
  /\ Idle
  /\ call' = [op |-> op, name |-> n, hash |-> c, etag |-> e, temp |-> t]

(* The operation returns, or raises.                                       *)
End ==
  /\ pc' = "idle"
  /\ call' = None
  /\ got' = None
  /\ raced' = {}

-----------------------------------------------------------------------------
(* Reading.                                                                *)

(* os.listdir(); the caller has no use for items that are gone.            *)
ListDir ==
  /\ Idle
  /\ listed' = {h \in Hrefs : dir[h] # None}
  /\ seen' = [h \in Hrefs |-> IF dir[h] = None THEN None ELSE seen[h]]
  /\ pc' = "list"
  /\ UNCHANGED <<dir, call, got, touched, raced, left, bounds>>

(* isfile() and stat(); the caller keeps what it knows of this version.    *)
Yield(h) ==
  /\ pc = "list"
  /\ h \in listed
  /\ listed' = listed \ {h}
  /\ seen' = [seen EXCEPT ![h] =
       IF seen[h] # None /\ dir[h] # None /\ seen[h].etag = dir[h].etag
         THEN seen[h] ELSE None]
  /\ UNCHANGED <<dir, pc, call, got, touched, raced, left, bounds>>

(* All is listed, or a file went away between isfile() and stat().         *)
ListEnds ==
  /\ pc = "list"
  /\ listed # {} => \E h \in listed : dir[h] = None
  /\ listed' = {}
  /\ pc' = "idle"
  /\ UNCHANGED <<dir, call, got, seen, touched, raced, left, bounds>>

(* get(): the file is read, ...                                            *)
GetRead(h) ==
  /\ dir[h] # None
  /\ Begin("get", h, dir[h].hash, None, None)
  /\ pc' = "read"
  /\ UNCHANGED <<dir, got, listed, seen, touched, raced, left, bounds>>

(* ... and then the etag of the path is taken, which may be missing now.   *)
GetStat ==
  LET h == call.name IN
  /\ pc = "read"
  /\ seen' = [seen EXCEPT ![h] =
       IF dir[h] = None THEN None
       ELSE [hash |-> call.hash, etag |-> dir[h].etag, by |-> "read"]]
  /\ End
  /\ UNCHANGED <<dir, listed, touched, left, bounds>>

-----------------------------------------------------------------------------
(* Writing.                                                                *)

UploadNames(i) == IF i \in SafeIdents THEN {HrefOf[i]} ELSE RandomHrefs

(* Mutant: the file is written in place.                                   *)
TempInPlace(n, t) == n

(* The file that is written: a new one beside its destination.             *)
TempFor(n, t) == t

(* mkstemp                                                                 *)
MakeTemp(n, t) ==
  /\ HasFreshEtag
  /\ dir[t] = None
  /\ dir' = [dir EXCEPT ![TempFor(n, t)] = [hash |-> Torn, etag |-> FreshEtag]]
  /\ pc' = "temp"

(* The caller uploads what it does not know to be there.                   *)
Upload(i, c, h, t) ==
  /\ seen[h] = None
  /\ h \in UploadNames(i)
  /\ Begin("upload", h, c, None, t)
  /\ MakeTemp(h, t)
  /\ UNCHANGED <<got, listed, seen, touched, raced, left, bounds>>

SetMeta(k, c, t) ==
  /\ Begin("set_meta", k, c, None, t)
  /\ MakeTemp(k, t)
  /\ UNCHANGED <<got, listed, seen, touched, raced, left, bounds>>

(* set_meta(key, None)                                                     *)
RemoveMeta(k) ==
  /\ Idle
  /\ dir[k] # None
  /\ dir' = [dir EXCEPT ![k] = None]
  /\ UNCHANGED <<pc, call, got, listed, seen, touched, raced, left, bounds>>

(* Mutant: the etag is not compared.                                       *)
IsThere(h) == dir[h] # None

(* The precondition of update() and delete().                              *)
IsCurrent(h) == dir[h] # None /\ dir[h].etag = seen[h].etag

(* update() and delete(): NotFoundError and WrongEtagError end them here,  *)
(* and leave everything as it is.                                          *)
Check(op, h, c) ==
  /\ seen[h] # None
  /\ IsCurrent(h)
  /\ Begin(op, h, c, seen[h].etag, None)
  /\ pc' = "checked"
  /\ UNCHANGED <<dir, got, listed, seen, touched, raced, left, bounds>>

UpdateTemp(t) ==
  /\ pc = "checked"
  /\ call.op = "update"
  /\ MakeTemp(call.name, t)
  /\ call' = [call EXCEPT !.temp = t]
  /\ UNCHANGED <<got, listed, seen, touched, raced, left, bounds>>

(* os.remove(); FileNotFoundError when the file is gone.                   *)
Remove ==
  /\ pc = "checked"
  /\ call.op = "delete"
  /\ dir' = [dir EXCEPT ![call.name] = None]
  /\ seen' = [seen EXCEPT ![call.name] = None]
  /\ End
  /\ UNCHANGED <<listed, touched, left, bounds>>

(* os.remove() or mkstemp() fails: nothing has been done yet.              *)
CheckedFails ==
  /\ pc = "checked"
  /\ End
  /\ UNCHANGED <<dir, listed, seen, touched, left, bounds>>

WriteTo(t) ==
  /\ pc = "temp"
  /\ HasFreshEtag
  /\ dir' = [dir EXCEPT ![t] = [hash |-> call.hash, etag |-> FreshEtag]]
  /\ pc' = "written"
  /\ UNCHANGED <<call, listed, seen, touched, raced, left, bounds>>

(* Mutant: the etag is taken before the content has reached the file.      *)
WriteTempUnflushed ==
  LET t == TempFor(call.name, call.temp) IN
  /\ WriteTo(t)
  /\ got' = dir[t].etag

(* The content is written and flushed, and the etag taken.                 *)
WriteTemp ==
  /\ WriteTo(TempFor(call.name, call.temp))
  /\ got' = FreshEtag

(* The call raises, and its temporary file stays behind.                   *)
TempStays ==
  /\ left' = left \cup {call.temp}
  /\ End
  /\ UNCHANGED <<dir, listed, seen, touched, bounds>>

(* Outside the handler: the content cannot be flushed, which for a value   *)
(* happens only here, the file not be closed, or not be renamed or linked: *)
(* because there is such a file (AlreadyExistingError), or for any reason. *)
PlaceFails ==
  /\ \/ pc = "written"
     \/ pc = "temp" /\ call.op = "set_meta"
  /\ TempStays

(* The temporary file cannot be unlinked: by the handler, or after the     *)
(* link, when the item is in place though upload() raises.                 *)
UnlinkFails ==
  /\ \/ pc = "temp"
     \/ pc = "placed" /\ call.op = "upload"
  /\ TempStays

(* Mutant: the temporary file is not removed.                              *)
WriteFailsLeavesTemp ==
  /\ pc = "temp"
  /\ End
  /\ UNCHANGED <<dir, listed, seen, touched, left, bounds>>

(* Inside the handler of atomic_write: it cannot be encoded, or the disk   *)
(* is full when an item is flushed for its etag or a value overflows the   *)
(* buffer.                                                                 *)
WriteFails ==
  /\ pc = "temp"
  /\ dir' = [dir EXCEPT ![TempFor(call.name, call.temp)] = None]
  /\ End
  /\ UNCHANGED <<listed, seen, touched, left, bounds>>

(* The file is in place; the call has still to return.                     *)
Placed ==
  /\ pc' = "placed"
  /\ touched' = touched \cup {call.name}
  /\ raced' = {}
  /\ UNCHANGED <<call, got, listed, seen, left, bounds>>

(* Mutant: an existing file is replaced.                                   *)
LinkOverwrites ==
  /\ pc = "written"
  /\ call.op = "upload"
  /\ dir' = [dir EXCEPT ![call.name] = dir[TempFor(call.name, call.temp)]]
  /\ Placed

(* os.link(), which fails when there is such a file (PlaceFails).          *)
Link ==
  /\ pc = "written"
  /\ call.op = "upload"
  /\ dir[call.name] = None
  /\ dir' = [dir EXCEPT ![call.name] = dir[TempFor(call.name, call.temp)]]
  /\ Placed

(* os.rename(), which replaces whatever is there.                          *)
Rename ==
  LET t == TempFor(call.name, call.temp) IN
  /\ pc = "written"
  /\ call.op \in {"update", "set_meta"}
  /\ dir' = [n \in Names |-> CASE n = call.name -> dir[t]
                               [] n = t /\ n # call.name -> None
                               [] OTHER -> dir[n]]
  /\ Placed

(* os.unlink() after os.link(); the caller gets the etag.                  *)
Return ==
  /\ pc = "placed"
  /\ dir' = [dir EXCEPT ![call.temp] = None]
  /\ IF call.op = "set_meta" THEN UNCHANGED <<seen, touched>>
     ELSE /\ seen' = [seen EXCEPT ![call.name] =
               [hash |-> call.hash, etag |-> got, by |-> "write"]]
          /\ touched' = touched \ ({call.name} \ raced)
  /\ End
  /\ UNCHANGED <<listed, left, bounds>>

-----------------------------------------------------------------------------
(* Everybody else.                                                         *)

Changed(h) ==
  /\ edits < MaxEdits
  /\ edits' = edits + 1
  /\ touched' = touched \cup {h}
  /\ raced' = IF call = None THEN {} ELSE raced \cup {h}
  /\ UNCHANGED <<pc, call, got, listed, seen, left, crashes>>

OtherWrites(h, c) ==
  /\ HasFreshEtag
  /\ dir' = [dir EXCEPT ![h] = [hash |-> c, etag |-> FreshEtag]]
  /\ Changed(h)

OtherRemoves(h) ==
  /\ dir[h] # None
  /\ dir' = [dir EXCEPT ![h] = None]
  /\ Changed(h)

(* The process is killed.                                                  *)
Kill ==
  /\ ~Idle
  /\ crashes < MaxCrashes
  /\ crashes' = crashes + 1
  /\ left' = left \cup (IF call = None THEN {} ELSE {call.temp} \ {None})
  /\ listed' = {}
  /\ End
  /\ UNCHANGED <<dir, seen, touched, edits>>

-----------------------------------------------------------------------------

Init ==
  /\ dir = [n \in Names |-> None]
  /\ pc = "idle"
  /\ call = None
  /\ got = None
  /\ listed = {}
  /\ seen = [h \in Hrefs |-> None]
  /\ touched = {}
  /\ raced = {}
  /\ left = {}
  /\ edits = 0
  /\ crashes = 0

Reading ==
  \/ ListDir
  \/ \E h \in Hrefs : Yield(h) \/ GetRead(h)
  \/ ListEnds
  \/ GetStat

Writing ==
  \/ \E i \in Idents, c \in Hashes, h \in Hrefs, t \in TempNames : Upload(i, c, h, t)
  \/ \E k \in MetaKeys, c \in Hashes, t \in TempNames : SetMeta(k, c, t)
  \/ \E h \in Hrefs, c \in Hashes : Check("update", h, c)
  \/ \E h \in Hrefs : seen[h] # None /\ Check("delete", h, seen[h].hash)
  \/ \E k \in MetaKeys : RemoveMeta(k)
  \/ \E t \in TempNames : UpdateTemp(t)
  \/ Remove \/ CheckedFails
  \/ WriteTemp \/ WriteFails \/ PlaceFails \/ UnlinkFails
  \/ Link \/ Rename
  \/ Return

Others ==
  \E h \in Hrefs :
    \/ \E c \in Hashes : OtherWrites(h, c)
    \/ OtherRemoves(h)

Next == Reading \/ Writing \/ Others \/ Kill

Spec == Init /\ [][Next]_vars

-----------------------------------------------------------------------------
(* Properties.                                                             *)

(* The type invariant.                                                     *)
TypeOK ==
  /\ dir \in [Names -> File \cup {None}]
  /\ pc \in {"idle", "list", "read", "checked", "temp", "written", "placed"}
  /\ call \in Call \cup {None}
  /\ got \in Etags \cup {None}
  /\ listed \subseteq Hrefs
  /\ seen \in [Hrefs -> Memory \cup {None}]
  /\ touched \subseteq Names
  /\ raced \subseteq Names
  /\ left \subseteq TempNames
  /\ edits \in 0 .. MaxEdits
  /\ crashes \in 0 .. MaxCrashes

(* Nobody ever finds a half-written item or value, whenever the process is *)
(* killed and whatever fails (atomic_write).                               *)
ItemsAreWhole ==
  \A n \in Hrefs \cup MetaKeys : dir[n] # None => dir[n].hash # Torn

IsMemoryOf(m, f) == f.hash = m.hash /\ f.etag = m.etag

(* The etag that upload() and update() return is the etag of what they     *)
(* have written: the next sync does not take its own write for a change,   *)
(* and a change of others never for its own write.                         *)
OwnWritesRecognized ==
  \A h \in Hrefs : seen[h] # None /\ seen[h].by = "write" =>
    IF h \in touched
      THEN (dir[h] # None /\ dir[h].etag = seen[h].etag) => IsMemoryOf(seen[h], dir[h])
      ELSE dir[h] # None /\ IsMemoryOf(seen[h], dir[h])

(* get() returns an item and the etag of that item (storage/base.py).      *)
ReadsRecognized ==
  \A h \in Hrefs :
    /\ seen[h] # None /\ seen[h].by = "read"
    /\ dir[h] # None /\ dir[h].etag = seen[h].etag
    => dir[h].hash = seen[h].hash

ByStorage == edits' = edits

(* upload() never replaces a file, not even one that appears while it is   *)
(* being executed.                                                         *)
UploadNeverReplaces ==
  [][ByStorage /\ call # None /\ call.op = "upload" =>
       \A h \in Hrefs : dir[h] # None => dir'[h] = dir[h]]_vars

(* What update() and delete() replace or remove is the version the caller  *)
(* knows, or was changed after they have checked that.                     *)
ReplacesOnlyChecked ==
  [][\A h \in Hrefs : ByStorage /\ dir[h] # None /\ dir'[h] # dir[h] =>
       /\ call # None /\ call.op \in {"update", "delete"} /\ call.name = h
       /\ dir[h].etag = call.etag \/ h \in raced]_vars

(* A temporary file stays behind only of a call that was killed, or to     *)
(* which the system refused to finish, place or unlink the file: never of  *)
(* one that returned, nor of one whose content could not be encoded or     *)
(* written while atomic_write still catches that.                          *)
LeftoversExplained ==
  Idle => {t \in TempNames : dir[t] # None} \subseteq left
=============================================================================
