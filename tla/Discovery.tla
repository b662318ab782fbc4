------------------------------ MODULE Discovery ------------------------------
(***************************************************************************)
(* Collections of one pair (cli/discover.py, cli/tasks.py, cli/utils.py).  *)
(* "vdirsyncer discover" finds the collections of both storages, creates   *)
(* the missing ones and saves them, with a key of the configuration; "sync"*)
(* and "metasync" (the same to this module) read them from there and open  *)
(* the storages.  Several commands may run at once; people edit the        *)
(* configuration, and add and remove collections, between any two steps.   *)
(*                                                                         *)
(*   collections_for_pair         ReadCache, CacheMiss, Save               *)
(*   expand_collections           Discover, Expand, Skip, Create, Resolve  *)
(*   _sanity_check_collections    Check                                    *)
(*   storage_instance_from_config Open                                     *)
(***************************************************************************)
EXTENDS Naturals, SequencesExt

CONSTANTS
  Procs,     \* processes that run commands
  Storages,  \* the storage sections of the configuration
  Dav,       \* those on a server; the others are directories
  Names,     \* names of collections
  InitialNames,  \* collections side a has in the initial state
  Configs,   \* what people may write into the section of the pair
  None,      \* Python's None
  MaxRuns,   \* bound: commands started
  MaxEdits,  \* bound: changes made by people
  MaxFaults  \* bound: failed requests and killed commands

Sides == {"a", "b"}

(* An element of the option "collections": "from a" or "from b", or the    *)
(* collection of a name and what it is called in either storage; a plain   *)
(* string is the same name thrice.                                         *)
From(s) == [from |-> s]
Named(n, x, y) == [a |-> x, b |-> y, name |-> n]
IsFrom(e) == "from" \in DOMAIN e
Elements == {From(s) : s \in Sides}
              \cup {Named(n, x, y) : n \in Names, x, y \in Names \cup {None}}

(* "collections = null" stands for one collection without a name.          *)
Shortcuts(c) ==
  IF c.collections = None THEN <<Named(None, None, None)>> ELSE c.collections

(* _validate_collections_param: a name occurs once.                        *)
ValidCollections(c) ==
  c.collections # None =>
    /\ c.collections \in Seq(Elements)
    /\ \A j, k \in DOMAIN c.collections : j # k =>
         LET e == c.collections[j]
             f == c.collections[k] IN
         /\ e # f
         /\ ~ IsFrom(e) /\ ~ IsFrom(f) => e.name # f.name

ASSUME StoragesAssumption == Dav \subseteq Storages /\ InitialNames \subseteq Names
ASSUME NamesAssumption == IsFiniteSet(Names) /\ None \notin Names \cup Configs
ASSUME ConfigsAssumption ==
  \A c \in Configs :
    /\ DOMAIN c = {"a", "b", "collections", "implicit"}
    /\ c.a \in Storages /\ c.b \in Storages
    /\ c.implicit \in BOOLEAN
    /\ ValidCollections(c)
ASSUME BoundsAssumption == MaxRuns \in Nat /\ MaxEdits \in Nat /\ MaxFaults \in Nat

(* A place that may hold a collection: a path below what a storage section *)
(* points to.  The arguments of a storage are the place they point to.     *)
Paths == {<<>>} \cup {<<n>> : n \in Names} \cup {<<n, n>> : n \in Names}
Places == [in : Storages, path : Paths]
ASSUME PlacesAssumption == None \notin Places

Root(st) == [in |-> st, path |-> <<>>]
Child(place, x) ==
  IF x = None THEN place ELSE [place EXCEPT !.path = Append(@, x)]
PlaceOf(c, s, x) == Child(Root(c[s]), x)

(* os.makedirs creates the missing parents as well.                        *)
WithParents(place) ==
  {q \in Places : q.in = place.in /\ IsPrefix(q.path, place.path)}

VARIABLES
  conf,      \* the section of the pair, and of its storages
  exist,     \* the places there are
  cache,     \* the status file of the pair, "<pair>.collections"
  pc,        \* "idle", "discover", "check", "sync" or "open", for each process
  run,       \* what the command of each process has in memory
  vanished,  \* history: places removed by people
  settled,   \* history: nobody changed anything since such a discovery
  runs, edits, faults

vars == <<conf, exist, cache, pc, run, vanished, settled, runs, edits, faults>>

(* conf: the configuration that was loaded; seen: DiscoverResult of both   *)
(* sides; made: names created; todo: elements still to be expanded; cols:  *)
(* the collections and their places; jobs: storages still to be opened;    *)
(* at: the places opened; calm (history): nobody changed anything since    *)
(* the command started, nor was a command left from before such a change.  *)
Fresh(c) ==
  [conf |-> c, seen |-> [s \in Sides |-> None], made |-> [s \in Sides |-> {}],
   todo |-> <<>>, cols |-> <<>>, jobs |-> {}, at |-> {},
   calm |-> TRUE]
Gone == Fresh(None)

Init ==
  /\ conf \in Configs
  /\ exist = {Root(st) : st \in Storages}
               \cup {Child(Root(conf.a), n) : n \in InitialNames}
  /\ cache = None
  /\ pc = [p \in Procs |-> "idle"]
  /\ run = [p \in Procs |-> Gone]
  /\ vanished = {}
  /\ settled = FALSE
  /\ runs = 0 /\ edits = 0 /\ faults = 0

-----------------------------------------------------------------------------
(* People.                                                                 *)
Edited ==
  /\ edits < MaxEdits
  /\ edits' = edits + 1
  /\ run' = [p \in Procs |-> [run[p] EXCEPT !.calm = pc[p] = "idle"]]
  /\ settled' = FALSE
  /\ UNCHANGED <<cache, pc, runs, faults>>

EditConfig(c) ==
  /\ c # conf
  /\ conf' = c
  /\ Edited
  /\ UNCHANGED <<exist, vanished>>

Add(st, n) ==
  LET place == Child(Root(st), n) IN
  /\ place \notin exist
  /\ exist' = exist \cup WithParents(place)
  /\ Edited
  /\ UNCHANGED <<conf, vanished>>

Vanish(place) ==
  /\ place \in exist
  /\ place.in \in Dav => place.path # <<>>
  /\ LET gone == {q \in exist : place \in WithParents(q)} IN
     /\ exist' = exist \ gone
     /\ vanished' = vanished \cup gone
  /\ Edited
  /\ UNCHANGED conf

-----------------------------------------------------------------------------
(* Commands.                                                               *)
Step(p, from, to) ==
  /\ pc[p] = from
  /\ pc' = [pc EXCEPT ![p] = to]
  /\ UNCHANGED <<conf, vanished, runs, edits>>

Quiet == UNCHANGED <<settled, faults>>

(* The process ends, and what it had in memory is gone.                    *)
End(p, from) == Step(p, from, "idle") /\ run' = [run EXCEPT ![p] = Gone]

(* A UserError, an exception of a request, or an interruption.             *)
Fault ==
  /\ faults < MaxFaults
  /\ faults' = faults + 1
  /\ UNCHANGED settled

Remember(p, r) == run' = [run EXCEPT ![p] = r]

Start(p, command) ==
  /\ pc[p] = "idle"
  /\ runs < MaxRuns
  /\ runs' = runs + 1
  /\ pc' = [pc EXCEPT ![p] = command]
  /\ run' = [run EXCEPT ![p] =
       [Fresh(conf) EXCEPT
          !.todo = IF command = "discover" THEN Shortcuts(conf) ELSE <<>>,
          !.calm = \A q \in Procs : run[q].calm]]
  /\ UNCHANGED <<conf, exist, cache, vanished, settled, edits, faults>>

(* DiscoverResult.get_self: the subdirectories of the path, none if there  *)
(* is no path, or the calendars or address books of the home set.          *)
Discovered(st) == {n \in Names : Child(Root(st), n) \in exist}

First(p) == Head(run[p].todo)
Expanding(p) == pc[p] = "discover" /\ run[p].todo # <<>>
IsHandled(p, e) == e.name \in DOMAIN run[p].cols

(* The names expand_collections has to look up on side s next.             *)
Needs(p, s) ==
  LET e == First(p) IN
  IF IsFrom(e) THEN e.from = s ELSE ~ IsHandled(p, e) /\ e[s] # None

(* Both sides are discovered first when they are to be printed (--list),   *)
(* and when they are needed otherwise.  An error while printing is ignored.*)
Discover(p, s) ==
  /\ Step(p, "discover", "discover")
  /\ run[p].seen[s] = None
  /\ Expanding(p)
  /\ Needs(p, s) \/ run[p].todo = Shortcuts(run[p].conf)
  /\ Remember(p, [run[p] EXCEPT !.seen[s] = Discovered(run[p].conf[s])])
  /\ Quiet
  /\ UNCHANGED <<exist, cache>>

DiscoverFails(p, s) ==
  /\ Expanding(p)
  /\ run[p].seen[s] = None
  /\ Needs(p, s)
  /\ End(p, "discover")
  /\ Fault
  /\ UNCHANGED <<exist, cache>>

Orders(S) == {q \in [1 .. Cardinality(S) -> S] : IsInjective(q)}
SameNames(q) == [k \in 1 .. Len(q) |-> Named(q[k], q[k], q[k])]

(* The collections come in the order of the directory or of the answer.    *)
Expand(p) ==
  /\ Expanding(p)
  /\ LET e == First(p) IN
     /\ IsFrom(e)
     /\ run[p].seen[e.from] # None
     /\ \E q \in Orders(run[p].seen[e.from]) :
          Remember(p, [run[p] EXCEPT !.todo = SameNames(q) \o Tail(@)])
  /\ Step(p, "discover", "discover")
  /\ Quiet
  /\ UNCHANGED <<exist, cache>>

Skip(p) ==
  /\ Expanding(p)
  /\ ~ IsFrom(First(p)) /\ IsHandled(p, First(p))
  /\ Remember(p, [run[p] EXCEPT !.todo = Tail(@)])
  /\ Step(p, "discover", "discover")
  /\ Quiet
  /\ UNCHANGED <<exist, cache>>

(* Mutant: what one side has is not created on the other.                  *)
FoundOnEitherSide(p, e, s) ==
  e[s] = None \/ \E s2 \in Sides : run[p].seen[s2] # None /\ e[s] \in run[p].seen[s2]

(* The arguments of the element's collection on side s are known.          *)
Found(p, e, s) ==
  \/ e[s] = None
  \/ run[p].seen[s] # None /\ e[s] \in run[p].seen[s]
  \/ e[s] \in run[p].made[s]

Missing(p, e, s) ==
  /\ ~ Found(p, e, s)
  /\ run[p].seen[s] # None
  /\ s = "b" => Found(p, e, "a")

(* handle_collection_not_found, for "implicit = create" or when the user   *)
(* agrees (so nothing depends on the option): create_collection of the     *)
(* storage class.                                                          *)
Create(p, s) ==
  /\ Expanding(p)
  /\ LET e == First(p) IN
     /\ ~ IsFrom(e) /\ ~ IsHandled(p, e)
     /\ Missing(p, e, s)
     /\ exist' = exist \cup WithParents(PlaceOf(run[p].conf, s, e[s]))
     /\ Remember(p, [run[p] EXCEPT !.made[s] = @ \cup {e[s]}])
  /\ Step(p, "discover", "discover")
  /\ Quiet
  /\ UNCHANGED cache

(* The user declines, or the collection cannot be created.                 *)
CreateFails(p, s) ==
  /\ Expanding(p)
  /\ LET e == First(p) IN
     /\ ~ IsFrom(e) /\ ~ IsHandled(p, e)
     /\ Missing(p, e, s)
  /\ End(p, "discover")
  /\ IF run[p].conf.implicit THEN Fault ELSE Quiet
  /\ UNCHANGED <<exist, cache>>

(* The function f, with x mapped to v.                                     *)
With(f, x, v) == [y \in {x} \cup DOMAIN f |-> IF y = x THEN v ELSE f[y]]

Resolve(p) ==
  /\ Expanding(p)
  /\ LET e == First(p) IN
     /\ ~ IsFrom(e) /\ ~ IsHandled(p, e)
     /\ \A s \in Sides : Found(p, e, s)
     /\ Remember(p, [run[p] EXCEPT
          !.todo = Tail(@),
          !.cols = With(@, e.name, [s \in Sides |-> PlaceOf(run[p].conf, s, e[s])])])
  /\ Step(p, "discover", "discover")
  /\ Quiet
  /\ UNCHANGED <<exist, cache>>

AllStorages(cols) == (DOMAIN cols) \X Sides

Expanded(p) ==
  /\ run[p].todo = <<>>
  /\ Remember(p, [run[p] EXCEPT !.jobs = AllStorages(run[p].cols)])
  /\ Step(p, "discover", "check")
  /\ Quiet
  /\ UNCHANGED <<exist, cache>>

(* storage_instance_from_config: the constructor of a directory refuses    *)
(* one that does not exist, and the collection is then created implicitly. *)
(* create_collection appends its name to a path that ends with it already. *)
IsDir(place) == place.in \notin Dav
Name(place) == IF place.path = <<>> THEN None ELSE Last(place.path)

(* Mutant: the collection is created again whenever it is opened.          *)
OpenedAnew(place) == IF IsDir(place) THEN Child(place, Name(place)) ELSE place

Opened(place) ==
  IF IsDir(place) /\ place \notin exist THEN Child(place, Name(place)) ELSE place

ExistAfter(place) ==
  IF IsDir(place) THEN exist \cup WithParents(Opened(place)) ELSE exist

OpenNext(p, n, s) ==
  LET place == run[p].cols[n][s] IN
  /\ <<n, s>> \in run[p].jobs
  /\ exist' = ExistAfter(place)
  /\ Remember(p, [run[p] EXCEPT !.jobs = @ \ {<<n, s>>},
                                !.at = @ \cup {<<n, s, Opened(place)>>}])
  /\ Quiet
  /\ UNCHANGED cache

Check(p, n, s) == OpenNext(p, n, s) /\ Step(p, "check", "check")

(* Mutant: a change of the option "collections" goes unnoticed.            *)
KeyOfStorages(c) == [a |-> c.a, b |-> c.b]

(* Everything that changes what a discovery finds is part of the key.      *)
Key(c) == [a |-> c.a, b |-> c.b, collections |-> c.collections]

(* Only what differs from the section of the storage is saved.             *)
Compressed(c, cols) ==
  [n \in DOMAIN cols |-> [s \in Sides |->
     IF cols[n][s] = Root(c[s]) THEN None ELSE cols[n][s]]]

Uncompressed(c, cols) ==
  [n \in DOMAIN cols |-> [s \in Sides |->
     IF cols[n][s] = None THEN Root(c[s]) ELSE cols[n][s]]]

(* What the status file holds.                                             *)
Caches ==
  [key : {Key(c) : c \in Configs},
   cols : UNION {[N -> [Sides -> Places \cup {None}]] : N \in SUBSET (Names \cup {None})}]
ASSUME NoneIsNoCache == None \notin Caches

Save(p) ==
  /\ pc[p] = "check" /\ run[p].jobs = {}
  /\ cache' = [key |-> Key(run[p].conf), cols |-> Compressed(run[p].conf, run[p].cols)]
  /\ settled' = run[p].calm
  /\ End(p, "check")
  /\ UNCHANGED <<exist, faults>>

(* prepare_pair, for all collections or for those of the command line.     *)
IsUsable(c) == cache # None /\ cache.key = Key(c)

ReadCache(p) ==
  /\ pc[p] = "sync"
  /\ IsUsable(run[p].conf)
  /\ \E chosen \in {DOMAIN cache.cols} \cup {{n} : n \in DOMAIN cache.cols} :
       LET cols == Uncompressed(run[p].conf, cache.cols) IN
       Remember(p, [run[p] EXCEPT !.cols = [n \in chosen |-> cols[n]],
                                  !.jobs = chosen \X Sides])
  /\ Step(p, "sync", "open")
  /\ Quiet
  /\ UNCHANGED <<exist, cache>>

(* "Please run `vdirsyncer discover`", or a collection that is not there.  *)
CacheMiss(p) ==
  /\ pc[p] = "sync"
  /\ IsUsable(run[p].conf) => \E n \in Names : n \notin DOMAIN cache.cols
  /\ End(p, "sync")
  /\ Quiet
  /\ UNCHANGED <<exist, cache>>

Open(p, n, s) == OpenNext(p, n, s) /\ Step(p, "open", "open")

(* The jobs are done, whatever has become of them.                         *)
Finish(p) ==
  /\ pc[p] = "open" /\ run[p].jobs = {}
  /\ End(p, "open")
  /\ Quiet
  /\ UNCHANGED <<exist, cache>>

Kill(p) ==
  /\ pc[p] # "idle"
  /\ End(p, pc[p])
  /\ Fault
  /\ UNCHANGED <<exist, cache>>

Next ==
  \/ \E c \in Configs : EditConfig(c)
  \/ \E st \in Storages, n \in Names : Add(st, n)
  \/ \E place \in Places : Vanish(place)
  \/ \E p \in Procs :
       \/ \E command \in {"discover", "sync"} : Start(p, command)
       \/ \E s \in Sides :
            \/ Discover(p, s) \/ DiscoverFails(p, s)
            \/ Create(p, s) \/ CreateFails(p, s)
       \/ Expand(p) \/ Skip(p) \/ Resolve(p) \/ Expanded(p)
       \/ \E n \in Names \cup {None}, s \in Sides : Check(p, n, s) \/ Open(p, n, s)
       \/ Save(p) \/ ReadCache(p) \/ CacheMiss(p) \/ Finish(p) \/ Kill(p)

Spec == Init /\ [][Next]_vars

-----------------------------------------------------------------------------
(* Properties.                                                             *)

(* The state stays within its types: what a process has in memory are      *)
(* elements, names and places, and a directory exists with its parents.    *)
TypeOK ==
  /\ conf \in Configs
  /\ exist \subseteq Places
  /\ \A q \in exist : WithParents(q) \subseteq exist
  /\ cache # None =>
       /\ cache.key \in {Key(c) : c \in Configs}
       /\ DOMAIN cache.cols \subseteq Names \cup {None}
       /\ cache.cols \in [DOMAIN cache.cols -> [Sides -> {None} \cup Places]]
  /\ pc \in [Procs -> {"idle", "discover", "check", "sync", "open"}]
  /\ \A p \in Procs :
       LET r == run[p] IN
       /\ r.conf = None <=> pc[p] = "idle"
       /\ r.conf \in Configs \cup {None}
       /\ r.seen \in [Sides -> {None} \cup SUBSET Names]
       /\ r.made \in [Sides -> SUBSET Names]
       /\ \A k \in DOMAIN r.todo :
            r.todo[k] \in Elements \cup {Named(None, None, None)}
       /\ DOMAIN r.cols \subseteq Names \cup {None}
       /\ r.calm \in BOOLEAN
       /\ r.cols \in [DOMAIN r.cols -> [Sides -> Places]]
       /\ r.jobs \subseteq AllStorages(r.cols)
       /\ \A j \in r.at : <<j[1], j[2]>> \in AllStorages(r.cols) /\ j[3] \in Places
  /\ vanished \subseteq Places /\ settled \in BOOLEAN
  /\ runs \in 0 .. MaxRuns /\ edits \in 0 .. MaxEdits /\ faults \in 0 .. MaxFaults

(* The configuration c asks for a collection called n, kept at places.     *)
Requested(c, n, places) ==
  \E k \in DOMAIN Shortcuts(c) :
    LET e == Shortcuts(c)[k] IN
    IF IsFrom(e)
      THEN n \in Names /\ \A s \in Sides : places[s] = PlaceOf(c, s, n)
      ELSE n = e.name /\ \A s \in Sides : places[s] = PlaceOf(c, s, e[s])

(* A sync or metasync works on collections its own configuration asks for, *)
(* at the places where this configuration keeps them, whatever has been    *)
(* discovered under earlier configurations, and whoever saved it last      *)
(* (collections_for_pair, _get_collections_cache_key).                     *)
SyncStaysInConfig ==
  \A p \in Procs : pc[p] = "open" =>
    \A n \in DOMAIN run[p].cols : Requested(run[p].conf, n, run[p].cols[n])

(* A storage is opened at the place that was discovered, unless the        *)
(* directory has been removed at some time; only then does                 *)
(* create_collection, whose path ends with the name of the collection      *)
(* already, add another directory of this name inside.                     *)
OpenedWhereDiscovered ==
  \A p \in Procs : \A j \in run[p].at :
    \/ j[3] = run[p].cols[j[1]][j[2]]
    \/ run[p].cols[j[1]][j[2]] \in vanished

(* The collections configuration c stands for, if nothing changes.         *)
Wanted(c) ==
  UNION {LET e == Shortcuts(c)[k] IN
         IF IsFrom(e) THEN Discovered(c[e.from]) ELSE {e.name} :
         k \in DOMAIN Shortcuts(c)}

(* A renamed collection is not found again under the name it was given.    *)
NamesFound(c) ==
  \A j, k \in DOMAIN Shortcuts(c), s \in Sides :
    LET from == Shortcuts(c)[j]
        e == Shortcuts(c)[k] IN
    IsFrom(from) /\ ~ IsFrom(e) /\ c[s] = c[from.from] => e[s] \in {e.name, None}

(* After a discovery that nobody disturbed (no change by people since it   *)
(* started, and no command left that started before such a change), and    *)
(* until the next change, the saved collections are valid for the          *)
(* configuration in use, exist on both sides, and are all of those it      *)
(* stands for, so that a sync neither creates nor misses one; interrupted  *)
(* and failed discoveries before it do not matter.  Two things do: a sync  *)
(* that has read what was saved before brings a removed directory back     *)
(* (storage_instance_from_config), and a list with "from b" and a name     *)
(* that is another one on b finds what it creates there only next time.    *)
DiscoveryIsComplete ==
  settled =>
    /\ IsUsable(conf)
    /\ DOMAIN cache.cols \subseteq Wanted(conf)
    /\ NamesFound(conf) =>
         \A n \in Wanted(conf) \ DOMAIN cache.cols :
           \E s \in Sides : PlaceOf(conf, s, n) \in vanished
    /\ \A n \in DOMAIN cache.cols, s \in Sides :
         Uncompressed(conf, cache.cols)[n][s] \in exist

=============================================================================
