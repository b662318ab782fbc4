-------------------------- MODULE SingleFileProofs --------------------------
(***************************************************************************)
(* What a block writes is what its caller was told, and it only replaces   *)
(* what its caller knew, for any number of items, versions and changes.    *)
(***************************************************************************)
EXTENDS SingleFile, TLAPS

HasList == pc \in {"buffer", "write", "rename"}

(* The file is the one that list() has taken the etag of.                  *)
IsAsListed == file # None /\ lastEtag # None /\ file.etag = lastEtag

(* Operations tell the caller what they have put in memory.                *)
TellsMemory ==
  /\ \A i \in Idents : HasList /\ rows[i] # before[i] => items[i] = rows[i]
  /\ pc \in {"stat", "read"} => rows = before

(* Memory differs from the file that was listed only where the caller knew *)
(* what the file holds.                                                    *)
ChangesKnown ==
  HasList /\ IsAsListed =>
    \A i \in Idents :
      \/ Parsed(file)[i] = before[i]
      \/ /\ items[i] = Parsed(file)[i]
         /\ rows[i] = before[i] \/ (why = "get_multi" /\ pc # "buffer")

(* Between check and rename the file is the one that was listed, or it was *)
(* changed too late to be noticed.                                         *)
CheckHolds == pc = "rename" => late \/ lastEtag = None \/ IsAsListed

SingleFileInv == TypeOK /\ TellsMemory /\ ChangesKnown /\ CheckHolds

-----------------------------------------------------------------------------
LEMMA ParsedType ==
  ASSUME NEW f \in File \cup {None}
  PROVE  Parsed(f) \in Items
<1>1. CASE f = None
  BY <1>1 DEF Parsed, NoItems, Items
<1>2. CASE f \in File
  <2>1. ASSUME NEW i \in Idents, f.cards[i] # <<>>
        PROVE  f.cards[i][Len(f.cards[i])] \in Hashes
    <3>1. PICK n \in 0 .. MaxSame : f.cards[i] \in [1 .. n -> Hashes]
      BY <1>2 DEF File, Cards
    <3>2. f.cards[i] \in Seq(Hashes) /\ Len(f.cards[i]) = n
      BY <3>1, OptionsAssumption
    <3>3. n # 0
      BY <2>1, <3>2
    <3> QED
      BY <3>1, <3>2, <3>3
  <2> QED
    BY <1>2, <2>1, NoneIsNoFile DEF Parsed, Items
<1> QED
  BY <1>1, <1>2

(* What is written is read again.                                          *)
LEMMA JoinedIsParsed ==
  ASSUME NEW its \in Items, NEW e \in Etags
  PROVE  /\ [cards |-> Joined(its), etag |-> e] \in File
         /\ Parsed([cards |-> Joined(its), etag |-> e]) = its
<1> DEFINE f == [cards |-> Joined(its), etag |-> e]
<1>1. ASSUME NEW i \in Idents
      PROVE  Joined(its)[i] \in UNION {[1 .. n -> Hashes] : n \in 0 .. MaxSame}
  <2>1. 0 \in 0 .. MaxSame /\ 1 \in 0 .. MaxSame
    BY OptionsAssumption
  <2>2. <<>> \in [1 .. 0 -> Hashes]
    OBVIOUS
  <2>3. its[i] # None => <<its[i]>> \in [1 .. 1 -> Hashes]
    BY DEF Items
  <2> QED
    BY <2>1, <2>2, <2>3 DEF Joined
<1>2. f \in File
  BY <1>1 DEF File, Cards, Joined
<1>3. ASSUME NEW i \in Idents PROVE Parsed(f)[i] = its[i]
  BY <1>2, NoneIsNoFile DEF Parsed, Joined
<1> QED
  BY <1>2, <1>3, ParsedType DEF Items

LEMMA FreshEtagType ==
  HasFreshEtag => FreshEtag \in Etags /\ FreshEtag \notin InUse
BY DEF HasFreshEtag, FreshEtag

LEMMA InitImpliesInv == Init => SingleFileInv
<1>1. NoItems \in Items
  BY DEF NoItems, Items
<1>2. Init => TypeOK
  <2>1. 0 \in 0 .. MaxEdits /\ 0 \in 0 .. MaxFaults
    BY OptionsAssumption
  <2>2. FALSE \in BOOLEAN
    OBVIOUS
  <2> QED
    BY <1>1, <2>1, <2>2 DEF Init, TypeOK
<1> QED
  BY <1>2 DEF Init, SingleFileInv, TellsMemory, ChangesKnown, CheckHolds, HasList

-----------------------------------------------------------------------------
(* A step after which no call is running.                                  *)
LEMMA EndPreserves ==
  ASSUME TypeOK, End, file' \in File \cup {None}, items' \in Items,
         lastEtag' \in Etags \cup {None}, rows' \in Items, edits' = edits,
         faults' \in 0 .. MaxFaults
  PROVE  SingleFileInv'
BY DEF End, SingleFileInv, TypeOK, TellsMemory, ChangesKnown, CheckHolds, HasList, NoItems,
       Items

LEMMA ListedPreserves ==
  ASSUME SingleFileInv, pc \in {"stat", "read"}, NEW its \in Items, Listed(its),
         file # None => its = Parsed(file)
  PROVE  SingleFileInv'
<1> USE DEF SingleFileInv
<1>1. CASE why = "list"
  BY <1>1, EndPreserves DEF Listed, TypeOK, bounds
<1>2. CASE why # "list"
  <2>1. /\ items' = its /\ pc' = "buffer"
        /\ UNCHANGED <<file, lastEtag, rows, why, before, late, edits, faults>>
    BY <1>2 DEF Listed, bounds
  <2>2. TypeOK'
    BY <1>2, <2>1 DEF Listed, TypeOK
  <2>3. rows = before
    BY DEF TellsMemory, HasList
  <2> QED
    BY <2>1, <2>2, <2>3 DEF TellsMemory, ChangesKnown, CheckHolds, HasList, IsAsListed
<1> QED
  BY <1>1, <1>2

(* An operation on an item that is in memory what the caller knows.        *)
LEMMA BufferedPreserves ==
  ASSUME SingleFileInv, NEW i \in Idents, NEW c \in Hashes \cup {None},
         items[i] = rows[i], Buffered(i, c)
  PROVE  SingleFileInv'
<1> USE DEF SingleFileInv
<1>1. /\ pc = "buffer" /\ why \in {"single", "block"} /\ pc' \in {"buffer", "write"}
      /\ UNCHANGED <<file, lastEtag, atOnce, why, before, late, edits, faults>>
      /\ items' = [items EXCEPT ![i] = c] /\ rows' = [rows EXCEPT ![i] = c]
  BY DEF Buffered, call, bounds
<1>2. \A j \in Idents : /\ items'[j] = IF j = i THEN c ELSE items[j]
                        /\ rows'[j] = IF j = i THEN c ELSE rows[j]
  BY <1>1 DEF TypeOK, Items
<1>3. TypeOK'
  BY <1>1 DEF TypeOK, Items
<1>4. TellsMemory'
  BY <1>1, <1>2 DEF TellsMemory, HasList
<1>5. ChangesKnown'
  BY <1>1, <1>2 DEF ChangesKnown, HasList, IsAsListed
<1> QED
  BY <1>1, <1>3, <1>4, <1>5 DEF CheckHolds

LEMMA ChangedPreserves ==
  ASSUME SingleFileInv, Changed, file' \in File \cup {None},
         file' # None => file'.etag # lastEtag
  PROVE  SingleFileInv'
<1> USE DEF SingleFileInv
<1>1. edits' \in 0 .. MaxEdits
  BY OptionsAssumption DEF Changed, TypeOK
<1>2. TypeOK'
  BY <1>1 DEF Changed, TypeOK
<1> QED
  BY <1>2 DEF Changed, TellsMemory, ChangesKnown, CheckHolds, HasList, IsAsListed

LEMMA NextPreservesInv == SingleFileInv /\ [Next]_vars => SingleFileInv'
<1> SUFFICES ASSUME SingleFileInv, [Next]_vars
             PROVE  SingleFileInv'
  OBVIOUS
<1> USE DEF SingleFileInv
<1>1. ASSUME NEW w \in {"list", "get_multi", "single", "block"}, Start(w)
      PROVE  SingleFileInv'
  BY <1>1 DEF Start, bounds, TypeOK, TellsMemory, ChangesKnown, CheckHolds, HasList, NoItems,
              Items
<1>2. CASE Stat
  BY <1>2 DEF Stat, call, bounds, TypeOK, File, TellsMemory, ChangesKnown, CheckHolds, HasList
<1>3. CASE StatMisses
  BY <1>3, ListedPreserves DEF StatMisses, NoItems, Items
<1>4. CASE Read
  BY <1>4, ListedPreserves, ParsedType DEF Read, TypeOK
<1>5. ASSUME NEW i \in Idents, NEW c \in Hashes, Upload(i, c) \/ Update(i, c)
      PROVE  SingleFileInv'
  BY <1>5, BufferedPreserves DEF Upload, Update, IsCurrent
<1>6. ASSUME NEW i \in Idents, Delete(i) PROVE SingleFileInv'
  BY <1>6, BufferedPreserves DEF Delete, IsCurrent
<1>7. ASSUME NEW some \in SUBSET Idents, GetMulti(some) PROVE SingleFileInv'
  BY <1>7 DEF GetMulti, call, bounds, TypeOK, Items, TellsMemory, ChangesKnown, CheckHolds,
              HasList, IsAsListed
<1>8. CASE EndBlock
  BY <1>8 DEF EndBlock, call, bounds, TypeOK, TellsMemory, ChangesKnown, CheckHolds, HasList,
              IsAsListed
<1>9. CASE AbortBlock
  <2>1. faults' \in 0 .. MaxFaults
    BY <1>9, OptionsAssumption DEF AbortBlock, TypeOK
  <2> QED
    BY <1>9, <2>1, EndPreserves DEF AbortBlock, Raise, TypeOK
<1>10. CASE WriteCheck
  BY <1>10 DEF WriteCheck, Unmodified, bounds, TypeOK, TellsMemory, ChangesKnown, CheckHolds,
               HasList, IsAsListed
<1>11. CASE WriteRefused
  BY <1>11, EndPreserves DEF WriteRefused, Raise, TypeOK, bounds
<1>12. CASE Rename
  <2>1. file' \in File /\ items' \in Items
    BY <1>12, FreshEtagType, JoinedIsParsed DEF Rename, TypeOK, NoItems, Items
  <2> QED
    BY <1>12, <2>1, EndPreserves DEF Rename, TypeOK, bounds
<1>13. CASE WriteFails
  <2>1. faults' \in 0 .. MaxFaults /\ items' \in Items
    BY <1>13, OptionsAssumption DEF WriteFails, TypeOK, NoItems, Items
  <2> QED
    BY <1>13, <2>1, EndPreserves DEF WriteFails, Raise, TypeOK
<1>14. ASSUME NEW cards \in Cards, OtherWrites(cards) PROVE SingleFileInv'
  BY <1>14, FreshEtagType, ChangedPreserves DEF OtherWrites, File, InUse
<1>15. CASE OtherRemoves
  BY <1>15, ChangedPreserves DEF OtherRemoves
<1>16. CASE UNCHANGED vars
  BY <1>16 DEF vars, TypeOK, TellsMemory, ChangesKnown, CheckHolds, HasList, IsAsListed
<1> QED
  BY <1>1, <1>2, <1>3, <1>4, <1>5, <1>6, <1>7, <1>8, <1>9, <1>10, <1>11, <1>12, <1>13,
     <1>14, <1>15, <1>16 DEF Next, Operation, Others

-----------------------------------------------------------------------------
(* The storage writes the file in no other step than Rename.               *)
LEMMA OnlyRenameWrites ==
  ASSUME TypeOK, [Next]_vars, ByStorage, file' # file
  PROVE  Rename
<1>1. ~Changed
  BY OptionsAssumption DEF Changed, ByStorage, TypeOK
<1> QED
  BY <1>1 DEF Next, Operation, Others, vars, Start, Stat, StatMisses, Read, Listed, Upload,
     Update, Delete, Buffered, GetMulti, EndBlock, AbortBlock, WriteCheck, WriteRefused,
     WriteFails, OtherWrites, OtherRemoves

(* Variables keep their types.                                             *)
THEOREM SingleFileTypeCorrect == Spec => []TypeOK
<1>1. SingleFileInv => TypeOK
  BY DEF SingleFileInv
<1> QED
  BY <1>1, InitImpliesInv, NextPreservesInv, PTL DEF Spec

(* _write() replaces or drops only items its caller knew (_last_etag).     *)
THEOREM NeverBlindlyOverwritten == Spec => NoBlindOverwrite
<1> DEFINE OK == ByStorage /\ file' # file =>
                   \/ lastEtag = None \/ late
                   \/ \A i \in Idents : Parsed(file')[i] # Parsed(file)[i] =>
                        Parsed(file)[i] = before[i]
<1>1. SingleFileInv /\ [Next]_vars => OK
  <2> SUFFICES ASSUME SingleFileInv, [Next]_vars, ByStorage, file' # file,
                      lastEtag # None, ~late
               PROVE  \A i \in Idents : Parsed(file')[i] # Parsed(file)[i] =>
                        Parsed(file)[i] = before[i]
    OBVIOUS
  <2> USE DEF SingleFileInv
  <2>1. Rename
    BY OnlyRenameWrites
  <2>2. IsAsListed
    BY <2>1 DEF Rename, CheckHolds
  <2>3. Parsed(file') = items
    BY <2>1, FreshEtagType, JoinedIsParsed DEF Rename, TypeOK
  <2> QED
    BY <2>1, <2>2, <2>3 DEF Rename, ChangesKnown, HasList
<1>2. OK <=> [OK]_vars
  BY DEF vars, ByStorage
<1> QED
  BY <1>1, InitImpliesInv, NextPreservesInv, PTL DEF Spec, NoBlindOverwrite

(* What at_once() told its caller is in the file it writes.                *)
THEOREM AcceptedAlwaysWritten == Spec => AcceptedIsWritten
<1>1. SingleFileInv /\ [Next]_vars =>
        (ByStorage /\ file' # file =>
           \A i \in Idents : rows[i] # before[i] => Parsed(file')[i] = rows[i])
  <2> SUFFICES ASSUME SingleFileInv, [Next]_vars, ByStorage, file' # file
               PROVE  \A i \in Idents : rows[i] # before[i] => Parsed(file')[i] = rows[i]
    OBVIOUS
  <2> USE DEF SingleFileInv
  <2>1. Rename
    BY OnlyRenameWrites
  <2>2. Parsed(file') = items
    BY <2>1, FreshEtagType, JoinedIsParsed DEF Rename, TypeOK
  <2> QED
    BY <2>1, <2>2 DEF Rename, TellsMemory, HasList
<1> QED
  BY <1>1, InitImpliesInv, NextPreservesInv, PTL DEF Spec, AcceptedIsWritten
=============================================================================
