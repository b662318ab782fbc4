------------------------------- MODULE Metasync -------------------------------
(***************************************************************************)
(* `vdirsyncer metasync` (metasync.py, metasync_collection of              *)
(* cli/tasks.py): the properties of a collection (its color, its name) are *)
(* copied between the two sides, one key after another.  What both sides   *)
(* last agreed on is kept in a JSON file that is loaded before the first   *)
(* key and written after the last one.  People change properties at any    *)
(* time, requests fail before or after they took effect, a side may refuse *)
(* a property without metasync noticing, and the process may be killed.    *)
(***************************************************************************)
EXTENDS Naturals, SequencesExt

CONSTANTS
  Keys,         \* names of properties
  KeyLists,     \* what "metadata" of the pair is configured to
  Words,        \* values that are not empty
  None, Empty,  \* no value, and the empty string
  Dav,          \* the sides on a CalDAV or CardDAV server
  MaxEdits,     \* bound: changes made by people
  MaxFaults     \* bound: failed or refused requests, killed processes

Sides == {"a", "b"}
Other(s) == IF s = "a" THEN "b" ELSE "a"
Values == Words \cup {None, Empty}

ASSUME ListsAssumption ==
  \A l \in KeyLists : l \in Seq(Keys) /\ IsInjective(l)
ASSUME SidesAssumption == Dav \subseteq Sides /\ None \notin Sides
ASSUME BoundsAssumption == MaxEdits \in Nat /\ MaxFaults \in Nat

VARIABLES
  conf,     \* conflict_resolution, the read_only sides, and metadata
  meta,     \* the properties of the collection on both sides
  saved,    \* the status file
  pc,       \* "idle", "get a", "get b", "set" or "save"
  todo,     \* keys still to be worked on, the current one first
  status,   \* the status in memory
  got,      \* what get_meta returned for the current key
  dest,     \* the side set_meta is called on
  fresh,    \* history: keys with a value given by people that neither the
            \* other side nor (but for a refused one) the status file knows
  raced,    \* history: sides changed by people after they were read
  refused,  \* history: keys whose record is of a value that was refused
  inStep,   \* history: keys that were brought in step, undisturbed since
  edits, faults

vars == <<conf, meta, saved, pc, todo, status, got, dest, fresh, raced,
          refused, inStep, edits, faults>>

Configured == ToSet(conf.metadata)
NoValues == [k \in Keys |-> None]
Nothing == [s \in Sides |-> None]

Resolutions == {"none", "command", "a wins", "b wins"}
Configurations ==
  [resolution : Resolutions, readOnly : {{}, {"a"}, {"b"}}, metadata : KeyLists]

Init ==
  /\ conf \in Configurations
  /\ meta = [s \in Sides |-> NoValues]
  /\ saved = NoValues
  /\ pc = "idle" /\ todo = <<>> /\ status = NoValues
  /\ got = Nothing /\ dest = None
  /\ fresh = [s \in Sides |-> {}]
  /\ raced = {} /\ refused = {} /\ inStep = {}
  /\ edits = 0 /\ faults = 0

-----------------------------------------------------------------------------
(* People.                                                                 *)

(* A server does not tell an empty property from a missing one; a file     *)
(* may be empty.                                                           *)
Stored(s, v) == IF s \in Dav /\ v = Empty THEN None ELSE v

HasRead(s) == pc = "set" \/ (pc = "get b" /\ s = "a")

(* A property of either side is changed, of a read-only one too.           *)
Edit(s, k, v) ==
  /\ edits < MaxEdits
  /\ edits' = edits + 1
  /\ Stored(s, v) # meta[s][k]
  /\ meta' = [meta EXCEPT ![s][k] = Stored(s, v)]
  /\ fresh' = [fresh EXCEPT ![s] =
                 IF Stored(s, v) = saved[k] THEN @ \ {k} ELSE @ \cup {k}]
  /\ raced' = IF HasRead(s) /\ k = Head(todo) THEN raced \cup {s} ELSE raced
  /\ inStep' = inStep \ {k}
  /\ UNCHANGED <<conf, saved, pc, todo, status, got, dest, refused, faults>>

(* The list of keys in the configuration is changed between two runs.      *)
Reconfigure(list) ==
  /\ edits < MaxEdits
  /\ edits' = edits + 1
  /\ pc = "idle" /\ list # conf.metadata
  /\ conf' = [conf EXCEPT !.metadata = list]
  /\ UNCHANGED <<meta, saved, pc, todo, status, got, dest, fresh, raced,
                 refused, inStep, faults>>

-----------------------------------------------------------------------------
(* One metasync: load_status, then key after key, then save_status.        *)

Start ==
  /\ pc = "idle"
  /\ pc' = IF conf.metadata = <<>> THEN "save" ELSE "get a"
  /\ todo' = conf.metadata
  /\ status' = saved
  /\ inStep' = {}
  /\ UNCHANGED <<conf, meta, saved, got, dest, fresh, raced, refused, edits,
                 faults>>

GetA ==
  /\ pc = "get a"
  /\ pc' = "get b"
  /\ got' = [got EXCEPT !["a"] = meta["a"][Head(todo)]]
  /\ UNCHANGED <<conf, meta, saved, todo, status, dest, fresh, raced, refused,
                 inStep, edits, faults>>

(* Mutant: a change of a is copied without a look at b.                    *)
EitherReadOnly(a, b, s) == conf.readOnly # {}

MustResolve(a, b, s) == (a # s /\ b # s) \/ conf.readOnly # {}

(* Mutant: a conflict is never resolved.                                   *)
LoserOfNoConflict(a, b, s) ==
  IF MustResolve(a, b, s) THEN None ELSE IF a # s THEN "b" ELSE "a"

(* The side to be written; None is a MetaSyncConflict.                     *)
Loser(a, b, s) ==
  IF ~MustResolve(a, b, s) THEN IF a # s THEN "b" ELSE "a"
  ELSE CASE conf.resolution = "a wins" -> "b"
         [] conf.resolution = "b wins" -> "a"
         [] OTHER                      -> None

(* status_set_key: both sides hold v, but for changes made meanwhile.      *)
Proceed(v) ==
  LET k == Head(todo) IN
  /\ status' = [status EXCEPT ![k] = v]
  /\ todo' = Tail(todo)
  /\ pc' = IF Tail(todo) = <<>> THEN "save" ELSE "get a"
  /\ got' = Nothing /\ dest' = None /\ raced' = {}
  /\ inStep' = IF raced = {} THEN inStep \cup {k} ELSE inStep

Copied(k) == [s \in Sides |-> IF s \in raced THEN fresh[s] ELSE fresh[s] \ {k}]

(* Both sides have the same value, or one is chosen to be written.         *)
GetB ==
  LET k == Head(todo)
      b == meta["b"][k] IN
  /\ pc = "get b"
  /\ IF got["a"] = b
       THEN /\ Proceed(b)
            /\ fresh' = Copied(k)
            /\ refused' = refused \ {k}
       ELSE /\ Loser(got["a"], b, status[k]) # None
            /\ pc' = "set"
            /\ got' = [got EXCEPT !["b"] = b]
            /\ dest' = Loser(got["a"], b, status[k])
            /\ UNCHANGED <<todo, status, fresh, raced, refused, inStep>>
  /\ UNCHANGED <<conf, meta, saved, edits, faults>>

(* An exception ends the run: what was recorded in memory is lost.         *)
Abort ==
  /\ pc' = "idle" /\ todo' = <<>> /\ status' = NoValues
  /\ got' = Nothing /\ dest' = None /\ raced' = {} /\ inStep' = {}
  /\ UNCHANGED <<conf, saved, refused, edits>>

Conflict ==
  LET b == meta["b"][Head(todo)] IN
  /\ pc = "get b"
  /\ got["a"] # b
  /\ Loser(got["a"], b, status[Head(todo)]) = None
  /\ Abort
  /\ UNCHANGED <<meta, fresh, faults>>

ReadOnlyError ==
  /\ pc = "set"
  /\ dest \in conf.readOnly
  /\ Abort
  /\ UNCHANGED <<meta, fresh, faults>>

Written == got[Other(dest)]
Put == [meta EXCEPT ![dest][Head(todo)] = Stored(dest, Written)]

Set ==
  LET k == Head(todo) IN
  /\ pc = "set"
  /\ dest \notin conf.readOnly
  /\ meta' = Put
  /\ fresh' = [Copied(k) EXCEPT ![dest] = @ \ {k}]
  /\ refused' = refused \ {k}
  /\ Proceed(Written)
  /\ UNCHANGED <<conf, saved, edits, faults>>

(* A refusal goes unnoticed, and the value is recorded: the answer to a    *)
(* PROPPATCH is not read, and a directory that cannot remove the file of a *)
(* property does not say so.                                               *)
SetRefused ==
  LET k == Head(todo) IN
  /\ faults < MaxFaults /\ faults' = faults + 1
  /\ pc = "set"
  /\ dest \notin conf.readOnly
  /\ dest \in Dav \/ Written = None
  /\ refused' = refused \cup {k}
  /\ status' = [status EXCEPT ![k] = Written]
  /\ todo' = Tail(todo)
  /\ pc' = IF Tail(todo) = <<>> THEN "save" ELSE "get a"
  /\ got' = Nothing /\ dest' = None /\ raced' = {}
  /\ UNCHANGED <<conf, meta, saved, fresh, inStep, edits>>

(* Mutant: the file is written back as it was loaded.                      *)
RecordedAsLoaded == [k \in Keys |-> IF k \in Configured THEN saved[k] ELSE None]

(* Irrelevant keys are dropped, and the file is replaced.                  *)
Recorded == [k \in Keys |-> IF k \in Configured THEN status[k] ELSE None]

Save ==
  /\ pc = "save"
  /\ pc' = "idle"
  /\ saved' = Recorded
  /\ status' = NoValues
  /\ fresh' = [s \in Sides |->
                {k \in fresh[s] : meta[s][k] # Recorded[k] \/ k \in refused}]
  /\ UNCHANGED <<conf, meta, todo, got, dest, raced, refused, inStep, edits,
                 faults>>

(* A request fails, with or without effect, or the process is killed.      *)
Fails(effect) ==
  /\ faults < MaxFaults /\ faults' = faults + 1
  /\ pc # "idle"
  /\ IF effect
       THEN /\ pc = "set" /\ dest \notin conf.readOnly
            /\ meta' = Put
            /\ fresh' = [Copied(Head(todo)) EXCEPT ![dest] = @ \ {Head(todo)}]
       ELSE UNCHANGED <<meta, fresh>>
  /\ Abort

Run == Start \/ GetA \/ GetB \/ Conflict \/ ReadOnlyError \/ Set \/ Save

Next ==
  \/ \E s \in Sides, k \in Keys, v \in Values : Edit(s, k, v)
  \/ \E list \in KeyLists : Reconfigure(list)
  \/ Run \/ SetRefused \/ \E effect \in BOOLEAN : Fails(effect)

Spec == Init /\ [][Next]_vars

(* metasync is run again and again (cron), and every request is answered.  *)
FairSpec == Spec /\ WF_vars(Run)

-----------------------------------------------------------------------------
TypeOK ==
  /\ conf \in Configurations
  /\ meta \in [Sides -> [Keys -> Values]]
  /\ saved \in [Keys -> Values]
  /\ pc \in {"idle", "get a", "get b", "set", "save"}
  /\ todo \in Seq(Keys)
  /\ status \in [Keys -> Values]
  /\ got \in [Sides -> Values]
  /\ dest \in Sides \cup {None}
  /\ fresh \in [Sides -> SUBSET Keys]
  /\ raced \subseteq Sides
  /\ refused \subseteq Keys /\ inStep \subseteq Keys
  /\ edits \in Nat /\ faults \in Nat

Wins == [a |-> "a wins", b |-> "b wins"]

(* A value that people gave a property is overwritten by metasync only if  *)
(* conflict_resolution lets the other side win, if it was given after the  *)
(* side was read (there is no etag to notice that), or if the other side   *)
(* refused it before without metasync noticing.                            *)
NoLostMetaEdit ==
  [][\A s \in Sides, k \in Keys :
       k \in fresh[s] /\ meta'[s][k] # meta[s][k] /\ edits' = edits =>
         \/ conf.resolution = Wins[Other(s)]
         \/ s \in raced
         \/ k \in refused]_vars

Alike(v, w) == v = w \/ {v, w} = {None, Empty}

(* After a metasync that ended well, both sides and the status file hold   *)
(* the same value of every property that nobody changed or refused since   *)
(* it was read.                                                            *)
MetaConverged ==
  pc = "idle" => \A k \in inStep : /\ Alike(meta["a"][k], meta["b"][k])
                                   /\ Alike(meta["a"][k], saved[k])

(* If one side wins and the other may be written, both sides end up with   *)
(* the same properties once people stop changing them.                     *)
EventuallyInStep ==
  (\E s \in Sides : conf.resolution = Wins[s] /\ Other(s) \notin conf.readOnly)
    => <>[](\A k \in Configured : Alike(meta["a"][k], meta["b"][k]))
=============================================================================
