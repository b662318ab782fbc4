-------------------------- MODULE FilesystemProofs --------------------------
(***************************************************************************)
(* Items are never half-written, nor replaced without having been checked, *)
(* for any number of items, programs and interruptions.                    *)
(***************************************************************************)
EXTENDS Filesystem, TLAPS

Targets == Hrefs \cup MetaKeys
HasTemp == pc \in {"temp", "written", "placed"}

(* What the operation at work has got so far.                              *)
CallFits ==
  /\ pc \in {"idle", "list"} <=> call = None
  /\ pc = "read" => call.name \in Hrefs
  /\ pc = "checked" => call.op \in {"update", "delete"} /\ call.name \in Hrefs
  /\ HasTemp =>
       /\ call.op \in {"upload", "update", "set_meta"} /\ call.temp \in TempNames
       /\ call.name \in IF call.op = "set_meta" THEN MetaKeys ELSE Hrefs
  /\ pc \in {"temp", "written"} => dir[call.temp] # None
  /\ pc = "written" => dir[call.temp].hash = call.hash
  /\ pc \in {"written", "placed"} => got \in Etags

(* What was checked is there, unless it was changed afterwards.            *)
StillChecked ==
  pc \in {"checked", "temp", "written"} /\ call.op \in {"update", "delete"} =>
    dir[call.name] = None \/ dir[call.name].etag = call.etag \/ call.name \in raced

(* A temporary file is the one being written, or is known to be left.      *)
TempsKnown ==
  \A t \in TempNames : dir[t] # None => t \in left \/ (HasTemp /\ call.temp = t)

FilesystemInv == TypeOK /\ ItemsAreWhole /\ CallFits /\ StillChecked /\ TempsKnown

-----------------------------------------------------------------------------
LEMMA NamesApart ==
  /\ Targets \subseteq Names /\ TempNames \subseteq Names
  /\ \A n \in Targets, t \in TempNames : n # t
  /\ \A h \in Hrefs, k \in MetaKeys : h # k
BY NamesAssumption DEF Targets, Names

LEMMA FreshEtagType == HasFreshEtag => FreshEtag \in Etags
BY DEF HasFreshEtag, FreshEtag

LEMMA InitImpliesInv == Init => FilesystemInv
<1>1. 0 \in 0 .. MaxEdits /\ 0 \in 0 .. MaxCrashes
  BY NamesAssumption
<1> QED
  BY <1>1, NamesApart
     DEF Init, FilesystemInv, TypeOK, ItemsAreWhole, CallFits, StillChecked, TempsKnown,
         HasTemp, Targets

-----------------------------------------------------------------------------
(* The file may change, but not its kind.                                  *)
LEMMA EndPreserves ==
  ASSUME FilesystemInv, End, dir' \in [Names -> File \cup {None}], ItemsAreWhole',
         seen' \in [Hrefs -> Memory \cup {None}], listed' \subseteq Hrefs,
         touched' \subseteq Names, left' \subseteq TempNames, edits' = edits,
         crashes' \in 0 .. MaxCrashes,
         \A t \in TempNames : dir'[t] # None => t \in left'
  PROVE  FilesystemInv'
BY DEF FilesystemInv, End, TypeOK, CallFits, StillChecked, TempsKnown, HasTemp

LEMMA BeginType ==
  ASSUME TypeOK, NEW op \in {"get", "upload", "update", "delete", "set_meta"},
         NEW n \in Names, NEW c \in Hashes, NEW e \in Etags \cup {None},
         NEW t \in TempNames \cup {None}, Begin(op, n, c, e, t)
  PROVE  /\ call' \in Call /\ call' # None
         /\ call' = [op |-> op, name |-> n, hash |-> c, etag |-> e, temp |-> t]
BY NoneIsNoCall DEF Begin, Call

(* mkstemp for an operation that has just begun, or was checked before.    *)
LEMMA MakeTempPreserves ==
  ASSUME FilesystemInv, NEW n \in Targets, NEW t \in TempNames, MakeTemp(n, t),
         call' \in Call, call'.temp = t, call'.name = n,
         call'.op \in {"upload", "update", "set_meta"},
         n \in IF call'.op = "set_meta" THEN MetaKeys ELSE Hrefs,
         call'.op = "update" =>
           dir[n] = None \/ dir[n].etag = call'.etag \/ n \in raced,
         pc \in {"idle", "checked"},
         UNCHANGED <<got, listed, seen, touched, raced, left, bounds>>
  PROVE  FilesystemInv'
<1> USE DEF FilesystemInv
<1>1. /\ dir' = [dir EXCEPT ![t] = [hash |-> Torn, etag |-> FreshEtag]]
      /\ pc' = "temp" /\ FreshEtag \in Etags
  BY FreshEtagType DEF MakeTemp, TempFor
<1>2. [hash |-> Torn, etag |-> FreshEtag] \in File
  BY <1>1 DEF File
<1>3. TypeOK'
  BY <1>1, <1>2, NamesApart DEF TypeOK, bounds
<1>4. ItemsAreWhole'
  BY <1>1, NamesApart DEF TypeOK, ItemsAreWhole, Targets
<1>5. dir'[t] # None /\ dir'[n] = dir[n]
  BY <1>1, <1>2, NamesApart, TornAssumption DEF TypeOK
<1>6. CallFits'
  BY <1>1, <1>5, NoneIsNoCall DEF CallFits, HasTemp
<1>7. StillChecked'
  BY <1>1, <1>5 DEF StillChecked
<1>8. TempsKnown'
  BY <1>1, NamesApart DEF TypeOK, TempsKnown, HasTemp
<1> QED
  BY <1>3, <1>4, <1>6, <1>7, <1>8

LEMMA ChangedPreserves ==
  ASSUME FilesystemInv, NEW h \in Hrefs, NEW f \in File \cup {None},
         f # None => f.hash # Torn, dir' = [dir EXCEPT ![h] = f], Changed(h)
  PROVE  FilesystemInv'
<1> USE DEF FilesystemInv
<1>1. edits' \in 0 .. MaxEdits
  BY NamesAssumption DEF Changed, TypeOK
<1>2. \A n \in Names : dir'[n] = IF n = h THEN f ELSE dir[n]
  BY DEF TypeOK
<1>3. h \in Names /\ \A t \in TempNames : dir'[t] = dir[t]
  BY <1>2, NamesApart DEF Targets
<1>4. TypeOK'
  BY <1>1, <1>3 DEF Changed, TypeOK
<1>5. ItemsAreWhole'
  BY <1>2, NamesApart DEF ItemsAreWhole, Targets
<1>6. CallFits'
  BY <1>3 DEF Changed, CallFits, HasTemp
<1>7. StillChecked'
  BY <1>2, NamesApart DEF Changed, StillChecked, CallFits, HasTemp, TypeOK, Call, Targets
<1>8. TempsKnown'
  BY <1>3 DEF Changed, TempsKnown, HasTemp
<1> QED
  BY <1>4, <1>5, <1>6, <1>7, <1>8

LEMMA ReadingPreserves ==
  ASSUME FilesystemInv, Reading
  PROVE  FilesystemInv'
<1> USE DEF FilesystemInv
<1>1. CASE ListDir
  BY <1>1 DEF ListDir, Idle, bounds, TypeOK, ItemsAreWhole, CallFits, StillChecked,
              TempsKnown, HasTemp
<1>2. ASSUME NEW h \in Hrefs, Yield(h) PROVE FilesystemInv'
  BY <1>2 DEF Yield, bounds, TypeOK, ItemsAreWhole, CallFits, StillChecked, TempsKnown,
              HasTemp
<1>3. ASSUME NEW h \in Hrefs, GetRead(h) PROVE FilesystemInv'
  <2>1. dir[h].hash \in Hashes /\ h \in Names
    BY <1>3, NamesApart DEF GetRead, TypeOK, ItemsAreWhole, File, Targets
  <2>2. call' \in Call /\ call' # None /\ call'.name = h
    BY <1>3, <2>1, BeginType DEF GetRead
  <2> QED
    BY <1>3, <2>2 DEF GetRead, Begin, Idle, bounds, TypeOK, ItemsAreWhole, CallFits,
                      StillChecked, TempsKnown, HasTemp
<1>4. CASE ListEnds
  BY <1>4 DEF ListEnds, bounds, TypeOK, ItemsAreWhole, CallFits, StillChecked, TempsKnown,
              HasTemp
<1>5. CASE GetStat
  <2>1. call.name \in Hrefs /\ call \in Call /\ call.name \in Names
    BY <1>5, NamesApart DEF GetStat, CallFits, TypeOK, Targets
  <2>2. dir[call.name] # None =>
          [hash |-> call.hash, etag |-> dir[call.name].etag, by |-> "read"] \in Memory
    BY <2>1 DEF TypeOK, Call, File, Memory
  <2>3. seen' \in [Hrefs -> Memory \cup {None}]
    BY <1>5, <2>1, <2>2 DEF GetStat, TypeOK
  <2> QED
    BY <1>5, <2>3, EndPreserves DEF GetStat, TypeOK, ItemsAreWhole, TempsKnown, HasTemp, bounds
<1> QED
  BY <1>1, <1>2, <1>3, <1>4, <1>5 DEF Reading

(* A link or a rename: the file is at its destination, and the temporary   *)
(* one may be gone.                                                        *)
LEMMA PlacedPreserves ==
  ASSUME FilesystemInv, Placed, pc = "written",
         dir' \in [Names -> File \cup {None}],
         \A n \in Targets : dir'[n] \in {dir[n], dir[call.temp]},
         \A t \in TempNames : dir'[t] \in {dir[t], None}
  PROVE  FilesystemInv'
<1> USE DEF FilesystemInv
<1>1. call \in Call /\ call.temp \in TempNames /\ dir[call.temp].hash \in Hashes
  BY DEF CallFits, HasTemp, TypeOK, Call
<1>2. call.name \in Names
  BY <1>1 DEF Call
<1>3. TypeOK'
  BY <1>2 DEF Placed, bounds, TypeOK
<1>4. ItemsAreWhole'
  BY <1>1, TornAssumption DEF ItemsAreWhole, Targets
<1> QED
  BY <1>3, <1>4 DEF Placed, CallFits, StillChecked, TempsKnown, HasTemp

LEMMA WritingPreserves ==
  ASSUME FilesystemInv, Writing
  PROVE  FilesystemInv'
<1> USE DEF FilesystemInv
<1>1. ASSUME NEW i \in Idents, NEW c \in Hashes, NEW h \in Hrefs, NEW t \in TempNames,
             Upload(i, c, h, t)
      PROVE  FilesystemInv'
  <2>1. h \in Targets /\ h \in Names
    BY NamesApart DEF Targets
  <2>2. call' \in Call /\ call'.temp = t /\ call'.name = h /\ call'.op = "upload"
    BY <1>1, <2>1, BeginType DEF Upload
  <2> QED
    BY <1>1, <2>1, <2>2, MakeTempPreserves DEF Upload, Begin, Idle
<1>2. ASSUME NEW k \in MetaKeys, NEW c \in Hashes, NEW t \in TempNames, SetMeta(k, c, t)
      PROVE  FilesystemInv'
  <2>1. k \in Targets /\ k \in Names
    BY NamesApart DEF Targets
  <2>2. call' \in Call /\ call'.temp = t /\ call'.name = k /\ call'.op = "set_meta"
    BY <1>2, <2>1, BeginType DEF SetMeta
  <2> QED
    BY <1>2, <2>1, <2>2, MakeTempPreserves DEF SetMeta, Begin, Idle
<1>3. ASSUME NEW op \in {"update", "delete"}, NEW h \in Hrefs, NEW c \in Hashes,
             Check(op, h, c)
      PROVE  FilesystemInv'
  <2>1. h \in Names /\ seen[h].etag \in Etags
    BY <1>3, NamesApart DEF Check, TypeOK, Memory, Targets
  <2>2. call' = [op |-> op, name |-> h, hash |-> c, etag |-> seen[h].etag, temp |-> None]
        /\ call' \in Call /\ call' # None
    BY <1>3, <2>1, BeginType DEF Check
  <2> QED
    BY <1>3, <2>2 DEF Check, IsCurrent, Begin, Idle, bounds, TypeOK, ItemsAreWhole,
                      CallFits, StillChecked, TempsKnown, HasTemp
<1>4. ASSUME NEW h \in Hrefs, seen[h] # None, Check("delete", h, seen[h].hash)
      PROVE  FilesystemInv'
  <2>1. seen[h].hash \in Hashes
    BY <1>4 DEF TypeOK, Memory
  <2> QED
    BY <1>3, <1>4, <2>1
<1>5. ASSUME NEW k \in MetaKeys, RemoveMeta(k) PROVE FilesystemInv'
  <2>1. \A n \in Names : dir'[n] = IF n = k THEN None ELSE dir[n]
    BY <1>5 DEF RemoveMeta, TypeOK
  <2> QED
    BY <1>5, <2>1, NamesApart
       DEF RemoveMeta, Idle, bounds, TypeOK, ItemsAreWhole, CallFits, StillChecked,
           TempsKnown, HasTemp, Targets
<1>6. ASSUME NEW t \in TempNames, UpdateTemp(t) PROVE FilesystemInv'
  <2>1. call \in Call /\ call.name \in Hrefs /\ call.name \in Targets
    BY <1>6 DEF UpdateTemp, CallFits, TypeOK, Targets
  <2>2. /\ call' \in Call /\ call'.temp = t /\ call'.name = call.name
        /\ call'.op = "update" /\ call'.etag = call.etag
    BY <1>6, <2>1 DEF UpdateTemp, Call
  <2>3. dir[call.name] = None \/ dir[call.name].etag = call.etag \/ call.name \in raced
    BY <1>6 DEF UpdateTemp, StillChecked
  <2> QED
    BY <1>6, <2>1, <2>2, <2>3, MakeTempPreserves DEF UpdateTemp
<1>7. CASE Remove
  <2>1. call.name \in Hrefs /\ call.name \in Names
    BY <1>7, NamesApart DEF Remove, CallFits, Targets
  <2>2. \A n \in Names : dir'[n] = IF n = call.name THEN None ELSE dir[n]
    BY <1>7 DEF Remove, TypeOK
  <2>3. dir' \in [Names -> File \cup {None}] /\ seen' \in [Hrefs -> Memory \cup {None}]
    BY <1>7 DEF Remove, TypeOK
  <2>4. ItemsAreWhole'
    BY <2>2, NamesApart DEF ItemsAreWhole, Targets
  <2>5. \A t \in TempNames : dir'[t] # None => t \in left'
    BY <1>7, <2>2, NamesApart DEF Remove, TempsKnown, HasTemp
  <2> QED
    BY <1>7, <2>3, <2>4, <2>5, EndPreserves DEF Remove, TypeOK, bounds
<1>8. CASE WriteTemp
  <2> DEFINE t == call.temp
  <2>1. /\ t \in TempNames /\ t \in Names /\ call \in Call
        /\ FreshEtag \in Etags /\ got' = FreshEtag
        /\ dir' = [dir EXCEPT ![t] = [hash |-> call.hash, etag |-> FreshEtag]]
    BY <1>8, NamesApart, FreshEtagType
       DEF WriteTemp, WriteTo, TempFor, CallFits, HasTemp, TypeOK
  <2>2. [hash |-> call.hash, etag |-> FreshEtag] \in File
    BY <2>1 DEF Call, File
  <2>3. /\ dir'[t] # None /\ dir'[t].hash = call.hash
        /\ \A n \in Names : n # t => dir'[n] = dir[n]
    BY <2>1, <2>2, TornAssumption DEF TypeOK
  <2>4. TypeOK'
    BY <1>8, <2>1, <2>2 DEF WriteTemp, WriteTo, bounds, TypeOK
  <2>5. ItemsAreWhole'
    BY <2>1, <2>3, NamesApart DEF ItemsAreWhole, Targets
  <2>6. CallFits'
    BY <1>8, <2>1, <2>3 DEF WriteTemp, WriteTo, CallFits, HasTemp
  <2>7. StillChecked'
    <3>1. call.name \in Names /\ call.name # t
      BY <1>8, <2>1, NamesApart DEF WriteTemp, WriteTo, CallFits, HasTemp, Targets
    <3> QED
      BY <1>8, <2>3, <3>1 DEF WriteTemp, WriteTo, StillChecked
  <2>8. TempsKnown'
    BY <1>8, <2>3, NamesApart DEF WriteTemp, WriteTo, TempsKnown, HasTemp
  <2> QED
    BY <2>4, <2>5, <2>6, <2>7, <2>8
<1>9. CASE WriteFails
  <2>1. call.temp \in TempNames /\ dir' = [dir EXCEPT ![call.temp] = None]
    BY <1>9 DEF WriteFails, TempFor, CallFits, HasTemp
  <2>2. dir' \in [Names -> File \cup {None}]
    BY <2>1 DEF TypeOK
  <2>3. ItemsAreWhole'
    BY <2>1, NamesApart DEF TypeOK, ItemsAreWhole, Targets
  <2>4. \A t \in TempNames : dir'[t] # None => t \in left'
    BY <1>9, <2>1, NamesApart DEF WriteFails, TypeOK, TempsKnown, HasTemp
  <2> QED
    BY <1>9, <2>2, <2>3, <2>4, EndPreserves DEF WriteFails, TypeOK, bounds
<1>10. ASSUME Link \/ Rename PROVE FilesystemInv'
  <2>1. call.temp \in TempNames /\ call.temp \in Names /\ call.name \in Targets
        /\ call.name \in Names
    BY <1>10, NamesApart DEF Link, Rename, CallFits, HasTemp, Targets
  <2>2. dir' \in [Names -> File \cup {None}]
    BY <1>10, <2>1 DEF Link, Rename, TempFor, TypeOK
  <2>3. \A n \in Targets : dir'[n] \in {dir[n], dir[call.temp]}
    BY <1>10, <2>1, NamesApart DEF Link, Rename, TempFor, TypeOK
  <2>4. \A t \in TempNames : dir'[t] \in {dir[t], None}
    BY <1>10, <2>1, NamesApart DEF Link, Rename, TempFor, TypeOK
  <2> QED
    BY <1>10, <2>2, <2>3, <2>4, PlacedPreserves DEF Link, Rename
<1>11. CASE PlaceFails \/ UnlinkFails
  BY <1>11, EndPreserves
     DEF PlaceFails, UnlinkFails, TempStays, TypeOK, CallFits, HasTemp, TempsKnown,
         ItemsAreWhole, bounds
<1>12. CASE CheckedFails
  BY <1>12, EndPreserves
     DEF CheckedFails, TypeOK, TempsKnown, HasTemp, ItemsAreWhole, bounds
<1>13. CASE Return
  <2>1. /\ call.temp \in TempNames /\ call \in Call /\ got \in Etags
        /\ dir' = [dir EXCEPT ![call.temp] = None]
    BY <1>13 DEF Return, CallFits, HasTemp, TypeOK
  <2>2. dir' \in [Names -> File \cup {None}]
    BY <2>1 DEF TypeOK
  <2>3. ItemsAreWhole'
    BY <2>1, NamesApart DEF TypeOK, ItemsAreWhole, Targets
  <2>4. \A t \in TempNames : dir'[t] # None => t \in left'
    BY <1>13, <2>1, NamesApart DEF Return, TypeOK, TempsKnown, HasTemp
  <2>5. [hash |-> call.hash, etag |-> got, by |-> "write"] \in Memory
    BY <2>1 DEF Call, Memory
  <2>6. seen' \in [Hrefs -> Memory \cup {None}] /\ touched' \subseteq Names
    BY <1>13, <2>5 DEF Return, TypeOK
  <2> QED
    BY <1>13, <2>2, <2>3, <2>4, <2>6, EndPreserves DEF Return, TypeOK, bounds
<1> QED
  BY <1>1, <1>2, <1>3, <1>4, <1>5, <1>6, <1>7, <1>8, <1>9, <1>10, <1>11, <1>12, <1>13
  DEF Writing

LEMMA NextPreservesInv == FilesystemInv /\ [Next]_vars => FilesystemInv'
<1> SUFFICES ASSUME FilesystemInv, [Next]_vars
             PROVE  FilesystemInv'
  OBVIOUS
<1> USE DEF FilesystemInv
<1>1. ASSUME NEW h \in Hrefs, NEW c \in Hashes, OtherWrites(h, c) PROVE FilesystemInv'
  <2>1. [hash |-> c, etag |-> FreshEtag] \in File /\ c # Torn
    BY <1>1, FreshEtagType, TornAssumption DEF OtherWrites, File
  <2> QED
    BY <1>1, <2>1, ChangedPreserves DEF OtherWrites
<1>2. ASSUME NEW h \in Hrefs, OtherRemoves(h) PROVE FilesystemInv'
  BY <1>2, ChangedPreserves DEF OtherRemoves
<1>3. CASE Kill
  <2>1. crashes' \in 0 .. MaxCrashes
    BY <1>3, NamesAssumption DEF Kill, TypeOK
  <2>2. left' \subseteq TempNames
    BY <1>3 DEF Kill, TypeOK, Call
  <2>3. \A t \in TempNames : dir'[t] # None => t \in left'
    BY <1>3, NoneIsNoCall DEF Kill, CallFits, TempsKnown, HasTemp
  <2> QED
    BY <1>3, <2>1, <2>2, <2>3, EndPreserves DEF Kill, TypeOK, ItemsAreWhole
<1>4. CASE UNCHANGED vars
  BY <1>4 DEF vars, bounds, TypeOK, ItemsAreWhole, CallFits, StillChecked, TempsKnown,
              HasTemp
<1> QED
  BY <1>1, <1>2, <1>3, <1>4, ReadingPreserves, WritingPreserves DEF Next, Others

-----------------------------------------------------------------------------
(* Variables keep their types.                                             *)
THEOREM FilesystemTypeCorrect == Spec => []TypeOK
<1>1. FilesystemInv => TypeOK
  BY DEF FilesystemInv
<1> QED
  BY <1>1, InitImpliesInv, NextPreservesInv, PTL DEF Spec

(* No item and no value is ever half-written (atomic_write).               *)
THEOREM ItemsAlwaysWhole == Spec => []ItemsAreWhole
<1>1. FilesystemInv => ItemsAreWhole
  BY DEF FilesystemInv
<1> QED
  BY <1>1, InitImpliesInv, NextPreservesInv, PTL DEF Spec

(* A temporary file stays behind only of a call that was killed, or to     *)
(* which the system refused to finish, place or unlink the file            *)
(* (atomic_write).                                                         *)
THEOREM LeftoversAlwaysExplained == Spec => []LeftoversExplained
<1>1. FilesystemInv => LeftoversExplained
  BY DEF FilesystemInv, LeftoversExplained, TempsKnown, HasTemp, Idle
<1> QED
  BY <1>1, InitImpliesInv, NextPreservesInv, PTL DEF Spec

(* The storage changes an item only by removing it, or by putting the file *)
(* it has written in its place.                                            *)
LEMMA OnlyPlacesOrRemoves ==
  ASSUME FilesystemInv, [Next]_vars, ByStorage, NEW h \in Hrefs, dir'[h] # dir[h]
  PROVE  /\ call # None /\ call.name = h
         /\ \/ pc = "checked" /\ call.op = "delete"
            \/ pc = "written" /\ call.op = "update"
            \/ pc = "written" /\ call.op = "upload" /\ dir[h] = None
<1> USE DEF FilesystemInv
<1>1. h \in Names /\ h \in Targets
  BY NamesApart DEF Targets
<1>2. ASSUME NEW n \in Names, NEW t \in TempNames, MakeTemp(n, t) PROVE FALSE
  BY <1>1, <1>2, NamesApart DEF MakeTemp, TempFor, TypeOK
<1>3. ~ Others
  BY NamesAssumption DEF Others, OtherWrites, OtherRemoves, Changed, ByStorage, TypeOK
<1>4. ~ Reading /\ ~ Kill /\ ~ UNCHANGED vars
  BY DEF Reading, ListDir, Yield, ListEnds, GetRead, GetStat, Kill, vars
<1>5. Writing
  BY <1>3, <1>4 DEF Next
<1>6. /\ \A i \in Idents, c \in Hashes, t \in TempNames, g \in Hrefs : ~ Upload(i, c, g, t)
      /\ \A k \in MetaKeys, c \in Hashes, t \in TempNames : ~ SetMeta(k, c, t)
      /\ \A t \in TempNames : ~ UpdateTemp(t)
  BY <1>2, NamesApart DEF Upload, SetMeta, UpdateTemp, CallFits, Targets
<1>7. /\ \A op \in {"update", "delete"}, g \in Hrefs : \A c : ~ Check(op, g, c)
      /\ \A k \in MetaKeys : ~ RemoveMeta(k)
  BY <1>1, NamesApart DEF Check, RemoveMeta, TypeOK
<1>8. call # None /\ HasTemp => call.temp \in TempNames /\ call.temp # h
  BY <1>1, NamesApart DEF CallFits
<1>9. ~ WriteTemp /\ ~ WriteFails /\ ~ PlaceFails /\ ~ UnlinkFails /\ ~ CheckedFails
      /\ ~ Return
  BY <1>1, <1>8 DEF WriteTemp, WriteTo, WriteFails, PlaceFails, UnlinkFails, TempStays,
                    CheckedFails, Return, TempFor, HasTemp, CallFits, TypeOK
<1>10. CASE Remove
  BY <1>1, <1>10 DEF Remove, CallFits, TypeOK
<1>11. CASE Link
  BY <1>1, <1>11 DEF Link, CallFits, TypeOK
<1>12. CASE Rename
  <2>1. call.name = h
    BY <1>1, <1>8, <1>12 DEF Rename, CallFits, HasTemp, TempFor
  <2> QED
    BY <1>12, <2>1, NamesApart DEF Rename, CallFits, HasTemp
<1> QED
  BY <1>5, <1>6, <1>7, <1>9, <1>10, <1>11, <1>12 DEF Writing

(* upload() replaces no file, however late it appears (os.link).           *)
THEOREM UploadsNeverReplace == Spec => UploadNeverReplaces
<1>1. FilesystemInv /\ [Next]_vars =>
        (ByStorage /\ call # None /\ call.op = "upload" =>
           \A h \in Hrefs : dir[h] # None => dir'[h] = dir[h])
  BY OnlyPlacesOrRemoves
<1> QED
  BY <1>1, InitImpliesInv, NextPreservesInv, PTL DEF Spec, UploadNeverReplaces

(* update() and delete() hit the version that was checked, or one that was *)
(* put in its place after the check.                                       *)
THEOREM OnlyCheckedReplaced == Spec => ReplacesOnlyChecked
<1>1. FilesystemInv /\ [Next]_vars =>
        (\A h \in Hrefs : ByStorage /\ dir[h] # None /\ dir'[h] # dir[h] =>
           /\ call # None /\ call.op \in {"update", "delete"} /\ call.name = h
           /\ dir[h].etag = call.etag \/ h \in raced)
  <2> SUFFICES ASSUME FilesystemInv, [Next]_vars, NEW h \in Hrefs, ByStorage,
                      dir[h] # None, dir'[h] # dir[h]
               PROVE  /\ call # None /\ call.op \in {"update", "delete"} /\ call.name = h
                      /\ dir[h].etag = call.etag \/ h \in raced
    OBVIOUS
  <2> QED
    BY OnlyPlacesOrRemoves DEF FilesystemInv, StillChecked
<1> QED
  BY <1>1, InitImpliesInv, NextPreservesInv, PTL DEF Spec, ReplacesOnlyChecked

-----------------------------------------------------------------------------
(* Own writes are recognized.                                              *)

(* An item that upload() or update() has put in place, until they return:  *)
(* the etag that was taken before is its etag, and nobody knows it yet.    *)
PlacedInv ==
  /\ pc = "written" => dir[call.temp].etag = got
  /\ pc \in {"written", "placed"} =>
       \A h \in Hrefs : seen[h] # None => seen[h].etag # got
  /\ pc = "placed" /\ call.op # "set_meta" =>
       LET f == dir[call.name] IN
       /\ call.name \in touched
       /\ f # None /\ f.etag = got => f.hash = call.hash
       /\ call.name \notin raced => f # None /\ f.etag = got

Recognized(h) ==
  seen[h] # None /\ seen[h].by = "write" =>
    IF h \in touched
      THEN (dir[h] # None /\ dir[h].etag = seen[h].etag) => IsMemoryOf(seen[h], dir[h])
      ELSE dir[h] # None /\ IsMemoryOf(seen[h], dir[h])

LEMMA RecognizedMeans == OwnWritesRecognized <=> \A h \in Hrefs : Recognized(h)
BY DEF OwnWritesRecognized, Recognized

OwnInv == FilesystemInv /\ PlacedInv /\ OwnWritesRecognized

(* An etag that is new is neither that of a file, nor remembered, nor the  *)
(* one of the file that is being written.                                  *)
LEMMA FreshEtagIsFresh ==
  ASSUME HasFreshEtag
  PROVE  /\ \A n \in Names : dir[n] # None => dir[n].etag # FreshEtag
         /\ \A h \in Hrefs : seen[h] # None => seen[h].etag # FreshEtag
         /\ call # None => got # FreshEtag
BY DEF HasFreshEtag, FreshEtag, EtagsInUse

(* The item is left alone, or what the caller knew of it is forgotten.     *)
LEMMA StillRecognized ==
  ASSUME OwnWritesRecognized, NEW h \in Hrefs, dir'[h] = dir[h],
         h \in touched' <=> h \in touched,
         seen'[h] = seen[h] \/ seen'[h] = None \/ seen'[h].by = "read"
  PROVE  Recognized(h)'
BY RecognizedMeans DEF Recognized, IsMemoryOf

(* Steps after which no file is on its way to its place.                   *)
LEMMA NothingOnItsWay ==
  ASSUME FilesystemInv', pc' \notin {"written", "placed"},
         \A h \in Hrefs : Recognized(h)'
  PROVE  OwnInv'
BY RecognizedMeans DEF OwnInv, PlacedInv, OwnWritesRecognized, Recognized

LEMMA ReadingRecognizes ==
  ASSUME OwnInv, Reading, FilesystemInv'
  PROVE  OwnInv'
<1> USE DEF OwnInv
<1>a. pc' \notin {"written", "placed"}
  BY DEF Reading, ListDir, Yield, GetRead, ListEnds, GetStat, End
<1> SUFFICES ASSUME NEW h \in Hrefs
             PROVE  Recognized(h)'
  BY <1>a, NothingOnItsWay
<1>1. CASE ListDir
  BY <1>1, StillRecognized DEF ListDir
<1>2. ASSUME NEW g \in Hrefs, Yield(g)
      PROVE  Recognized(h)'
  BY <1>2, StillRecognized DEF Yield, FilesystemInv, TypeOK
<1>3. ASSUME NEW g \in Hrefs, GetRead(g)
      PROVE  Recognized(h)'
  BY <1>3, StillRecognized DEF GetRead
<1>4. CASE ListEnds
  BY <1>4, StillRecognized DEF ListEnds
<1>5. CASE GetStat
  <2>1. seen'[h] = seen[h] \/ seen'[h] = None \/ seen'[h].by = "read"
    BY <1>5 DEF GetStat, FilesystemInv, TypeOK
  <2> QED
    BY <1>5, <2>1, StillRecognized DEF GetStat, End
<1> QED
  BY <1>1, <1>2, <1>3, <1>4, <1>5 DEF Reading

LEMMA BeforeWritingRecognizes ==
  ASSUME OwnInv, FilesystemInv',
         \/ \E i \in Idents, c \in Hashes, h \in Hrefs, t \in TempNames : Upload(i, c, h, t)
         \/ \E k \in MetaKeys, c \in Hashes, t \in TempNames : SetMeta(k, c, t)
         \/ \E op \in {"update", "delete"}, h \in Hrefs : \E c : Check(op, h, c)
         \/ \E k \in MetaKeys : RemoveMeta(k)
         \/ \E t \in TempNames : UpdateTemp(t)
         \/ Remove \/ CheckedFails \/ WriteFails \/ PlaceFails \/ UnlinkFails
  PROVE  OwnInv'
<1> USE DEF OwnInv
<1>a. pc' \notin {"written", "placed"}
  BY DEF Upload, SetMeta, MakeTemp, Check, RemoveMeta, Idle, UpdateTemp, Remove, WriteFails,
         CheckedFails, PlaceFails, UnlinkFails, TempStays, End
<1> SUFFICES ASSUME NEW h \in Hrefs
             PROVE  Recognized(h)'
  BY <1>a, NothingOnItsWay
<1>1. h \in Names /\ h \notin TempNames /\ h \notin MetaKeys
  BY NamesAssumption DEF Names
<1>2. ASSUME NEW n, NEW t \in TempNames, MakeTemp(n, t)
      PROVE  dir'[h] = dir[h]
  BY <1>1, <1>2 DEF MakeTemp, TempFor, FilesystemInv, TypeOK
<1>3. CASE \E i \in Idents, c \in Hashes, g \in Hrefs, t \in TempNames : Upload(i, c, g, t)
  BY <1>2, <1>3, StillRecognized DEF Upload
<1>4. CASE \E k \in MetaKeys, c \in Hashes, t \in TempNames : SetMeta(k, c, t)
  BY <1>2, <1>4, StillRecognized DEF SetMeta
<1>5. CASE \E op \in {"update", "delete"}, g \in Hrefs : \E c : Check(op, g, c)
  BY <1>5, StillRecognized DEF Check
<1>6. CASE \E k \in MetaKeys : RemoveMeta(k)
  BY <1>1, <1>6, StillRecognized DEF RemoveMeta, FilesystemInv, TypeOK
<1>7. CASE \E t \in TempNames : UpdateTemp(t)
  BY <1>2, <1>7, StillRecognized DEF UpdateTemp
<1>8. CASE Remove
  <2>1. dir'[h] = (IF h = call.name THEN None ELSE dir[h])
        /\ seen'[h] = (IF h = call.name THEN None ELSE seen[h])
    BY <1>1, <1>8 DEF Remove, FilesystemInv, TypeOK
  <2>2. touched' = touched
    BY <1>8 DEF Remove
  <2>3. CASE h = call.name
    BY <2>1, <2>2, <2>3 DEF Recognized
  <2>4. CASE h # call.name
    BY <2>1, <2>2, <2>4, StillRecognized
  <2> QED
    BY <2>3, <2>4
<1>9. CASE WriteFails
  BY <1>1, <1>9, StillRecognized
     DEF WriteFails, End, TempFor, FilesystemInv, CallFits, HasTemp, TypeOK
<1>10. CASE CheckedFails \/ PlaceFails \/ UnlinkFails
  BY <1>10, StillRecognized DEF CheckedFails, PlaceFails, UnlinkFails, TempStays, End
<1> QED
  BY <1>3, <1>4, <1>5, <1>6, <1>7, <1>8, <1>9, <1>10

LEMMA WriteTempRecognizes ==
  ASSUME OwnInv, WriteTemp, FilesystemInv'
  PROVE  OwnInv'
<1> USE DEF OwnInv
<1> DEFINE t == call.temp
<1>1. /\ t \in TempNames /\ t \in Names
      /\ got' = FreshEtag /\ pc' = "written" /\ HasFreshEtag
      /\ dir' = [dir EXCEPT ![t] = [hash |-> call.hash, etag |-> FreshEtag]]
      /\ UNCHANGED <<call, seen, touched, raced>>
  BY NamesApart DEF WriteTemp, WriteTo, TempFor, FilesystemInv, CallFits, HasTemp
<1>2. \A h \in Hrefs : h \in Names /\ h # t
  BY <1>1, NamesAssumption DEF Names
<1>3. dir'[t].etag = got'
  BY <1>1 DEF FilesystemInv, TypeOK
<1>4. PlacedInv'
  BY <1>1, <1>3, FreshEtagIsFresh DEF PlacedInv
<1>5. \A h \in Hrefs : Recognized(h)'
  BY <1>1, <1>2, StillRecognized DEF FilesystemInv, TypeOK
<1> QED
  BY <1>4, <1>5, RecognizedMeans DEF OwnWritesRecognized, Recognized

(* The item at its place is the one that was written.                      *)
LEMMA PlacedRecognizes ==
  ASSUME OwnInv, Placed, pc = "written", FilesystemInv',
         dir'[call.name] = dir[call.temp],
         \A n \in Hrefs : n # call.name => dir'[n] = dir[n]
  PROVE  OwnInv'
<1> USE DEF OwnInv
<1>1. /\ pc' = "placed" /\ touched' = touched \cup {call.name} /\ raced' = {}
      /\ UNCHANGED <<call, got, seen>>
  BY DEF Placed
<1>2. /\ dir[call.temp] # None /\ dir[call.temp].hash = call.hash
      /\ dir[call.temp].etag = got
  BY DEF FilesystemInv, CallFits, PlacedInv
<1>3. PlacedInv'
  BY <1>1, <1>2 DEF PlacedInv
<1>4. ASSUME NEW h \in Hrefs PROVE Recognized(h)'
  <2>1. CASE h = call.name
    BY <1>1, <1>2, <2>1 DEF Recognized, PlacedInv
  <2>2. CASE h # call.name
    BY <1>1, <2>2, StillRecognized
  <2> QED
    BY <2>1, <2>2
<1> QED
  BY <1>3, <1>4, RecognizedMeans DEF OwnWritesRecognized, Recognized

LEMMA ReturnRecognizes ==
  ASSUME OwnInv, Return, FilesystemInv'
  PROVE  OwnInv'
<1> USE DEF OwnInv
<1> SUFFICES ASSUME NEW h \in Hrefs
             PROVE  Recognized(h)'
  BY NothingOnItsWay DEF Return, End
<1>1. h \in Names /\ h \notin TempNames /\ h \notin MetaKeys
  BY NamesAssumption DEF Names
<1>2. dir'[h] = dir[h]
  BY <1>1 DEF Return, FilesystemInv, CallFits, HasTemp, TypeOK
<1>3. CASE call.op = "set_meta"
  BY <1>2, <1>3, StillRecognized DEF Return
<1>4. CASE call.op # "set_meta"
  <2> DEFINE m == [hash |-> call.hash, etag |-> got, by |-> "write"]
  <2>1. /\ pc = "placed"
        /\ seen' = [seen EXCEPT ![call.name] = m]
        /\ touched' = touched \ ({call.name} \ raced)
    BY <1>4 DEF Return
  <2>2. CASE h = call.name
    <3>1. seen'[h] = m
      BY <2>1, <2>2 DEF FilesystemInv, TypeOK
    <3>2. CASE h \in raced
      BY <1>2, <1>4, <2>1, <2>2, <3>1, <3>2 DEF Recognized, IsMemoryOf, PlacedInv
    <3>3. CASE h \notin raced
      BY <1>2, <1>4, <2>1, <2>2, <3>1, <3>3 DEF Recognized, IsMemoryOf, PlacedInv
    <3> QED
      BY <3>2, <3>3
  <2>3. CASE h # call.name
    BY <1>2, <2>1, <2>3, StillRecognized DEF FilesystemInv, TypeOK
  <2> QED
    BY <2>2, <2>3
<1> QED
  BY <1>3, <1>4

(* Others change an item: with a new etag, or by removing it.              *)
LEMMA ChangeRecognized ==
  ASSUME OwnInv, NEW g \in Hrefs, NEW f, f = None \/ (f.etag = FreshEtag /\ HasFreshEtag),
         dir' = [dir EXCEPT ![g] = f], Changed(g), FilesystemInv'
  PROVE  OwnInv'
<1> USE DEF OwnInv
<1>1. /\ touched' = touched \cup {g}
      /\ raced' = (IF call = None THEN {} ELSE raced \cup {g})
      /\ UNCHANGED <<pc, call, got, seen>>
  BY DEF Changed
<1>2. \A n \in Names : dir'[n] = IF n = g THEN f ELSE dir[n]
  BY DEF FilesystemInv, TypeOK
<1>3. \A h \in Hrefs : h \in Names
  BY DEF Names
<1>4. PlacedInv'
  <2>1. pc = "written" => call.temp \in Names /\ call.temp # g
    BY NamesApart, NamesAssumption DEF FilesystemInv, CallFits, HasTemp
  <2>2. pc = "placed" => call # None /\ (call.op # "set_meta" => call.name \in Hrefs)
    BY DEF FilesystemInv, CallFits, HasTemp
  <2>3. pc = "placed" /\ f # None => f.etag # got
    BY <2>2, FreshEtagIsFresh
  <2> QED
    BY <1>1, <1>2, <1>3, <2>1, <2>2, <2>3 DEF PlacedInv
<1>5. ASSUME NEW h \in Hrefs PROVE Recognized(h)'
  <2>1. CASE h = g
    BY <1>1, <1>2, <1>3, <2>1, FreshEtagIsFresh DEF Recognized
  <2>2. CASE h # g
    BY <1>1, <1>2, <1>3, <2>2, StillRecognized
  <2> QED
    BY <2>1, <2>2
<1> QED
  BY <1>4, <1>5, RecognizedMeans DEF OwnWritesRecognized, Recognized

LEMMA NextRecognizes == OwnInv /\ [Next]_vars => OwnInv'
<1> SUFFICES ASSUME OwnInv, [Next]_vars
             PROVE  OwnInv'
  OBVIOUS
<1> USE DEF OwnInv
<1>1. FilesystemInv'
  BY NextPreservesInv
<1>2. CASE Link \/ Rename
  <2>1. /\ pc = "written" /\ call.temp \in TempNames
        /\ call.name \in Targets /\ call.name \in Names
    BY <1>2, NamesApart DEF Link, Rename, FilesystemInv, CallFits, HasTemp, Targets
  <2>2. \A n \in Hrefs : n \in Names /\ n # call.temp
    BY <2>1, NamesAssumption DEF Names
  <2>3. /\ dir'[call.name] = dir[call.temp]
        /\ \A n \in Hrefs : n # call.name => dir'[n] = dir[n]
    BY <1>2, <2>1, <2>2 DEF Link, Rename, TempFor, FilesystemInv, TypeOK
  <2> QED
    BY <1>1, <1>2, <2>1, <2>3, PlacedRecognizes DEF Link, Rename
<1>3. CASE Writing
  BY <1>1, <1>2, <1>3, BeforeWritingRecognizes, WriteTempRecognizes, ReturnRecognizes
  DEF Writing
<1>4. CASE Others
  <2>1. ASSUME NEW h \in Hrefs, NEW c \in Hashes, OtherWrites(h, c) PROVE OwnInv'
    <3> DEFINE f == [hash |-> c, etag |-> FreshEtag]
    <3>1. f.etag = FreshEtag
      OBVIOUS
    <3>2. HasFreshEtag /\ dir' = [dir EXCEPT ![h] = f] /\ Changed(h)
      BY <2>1 DEF OtherWrites
    <3> HIDE DEF f
    <3> QED
      BY <1>1, <3>1, <3>2, ChangeRecognized
  <2>2. ASSUME NEW h \in Hrefs, OtherRemoves(h) PROVE OwnInv'
    <3>1. dir' = [dir EXCEPT ![h] = None] /\ Changed(h)
      BY <2>2 DEF OtherRemoves
    <3> QED
      BY <1>1, <3>1, ChangeRecognized
  <2> QED
    BY <1>4, <2>1, <2>2 DEF Others
<1>5. CASE Kill
  <2>1. pc' = "idle" /\ \A h \in Hrefs : Recognized(h)'
    BY <1>5, StillRecognized DEF Kill, End
  <2> QED
    BY <1>1, <2>1, NothingOnItsWay
<1>6. CASE UNCHANGED vars
  BY <1>1, <1>6 DEF vars, PlacedInv, OwnWritesRecognized, IsMemoryOf
<1> QED
  BY <1>1, <1>3, <1>4, <1>5, <1>6, ReadingRecognizes DEF Next

(* The etag upload() and update() return is the etag of what they have     *)
(* written: a storage neither takes its own writes for changes, nor a      *)
(* change of others for its own write.                                     *)
THEOREM OwnWritesAlwaysRecognized == Spec => []OwnWritesRecognized
<1>1. Init => OwnInv
  BY InitImpliesInv DEF Init, OwnInv, PlacedInv, OwnWritesRecognized
<1>2. OwnInv => OwnWritesRecognized
  BY DEF OwnInv
<1> QED
  BY <1>1, <1>2, NextRecognizes, PTL DEF Spec
=============================================================================
