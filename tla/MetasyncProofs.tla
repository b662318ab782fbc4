---------------------------- MODULE MetasyncProofs ----------------------------
(***************************************************************************)
(* For every set of properties and every number of changes and failures:   *)
(* metasync loses no change of a property but for the three reasons that   *)
(* NoLostMetaEdit names, and what it brought in step is in step with the   *)
(* status file.                                                            *)
(*                                                                         *)
(* The argument: a value in `fresh` differs from the one in the status     *)
(* file (FreshInv); the status in memory tells of the keys that are still  *)
(* to be worked on what the file tells (MemoryInv); and what was read of a *)
(* side that nobody changed since is still its value (ReadInv).  So a side *)
(* with a fresh value, not changed since it was read, differs from the     *)
(* status, and is written only when a conflict is resolved against it.     *)
(***************************************************************************)
EXTENDS Metasync, SequenceTheorems, TLAPS

Distinct(l) == \A i, j \in 1 .. Len(l) : l[i] = l[j] => i = j

(* Keys still to be worked on are there exactly while one is worked on.    *)
TodoInv ==
  /\ Distinct(todo)
  /\ pc \in {"get a", "get b", "set"} <=> todo # <<>>
  /\ pc \in {"idle", "save", "get a"} => raced = {}
  /\ pc = "get b" => raced \subseteq {"a"}

FreshInv ==
  \A s \in Sides, k \in Keys :
    k \in fresh[s] /\ k \notin refused => meta[s][k] # saved[k]

(* A value given after its side was read is fresh by the status file.      *)
RacedInv ==
  \A s \in raced : Head(todo) \in fresh[s] => meta[s][Head(todo)] # saved[Head(todo)]

MemoryInv ==
  \A i \in 1 .. Len(todo) : status[todo[i]] = saved[todo[i]]

ReadInv ==
  /\ pc \in {"get b", "set"} /\ "a" \notin raced => got["a"] = meta["a"][Head(todo)]
  /\ pc = "set" /\ "b" \notin raced => got["b"] = meta["b"][Head(todo)]

(* The side to be written was chosen by what was read.                     *)
ChoiceInv ==
  pc = "set" =>
    /\ got["a"] # got["b"]
    /\ dest = Loser(got["a"], got["b"], status[Head(todo)])
    /\ dest \in Sides

MetaInv == TypeOK /\ TodoInv /\ FreshInv /\ RacedInv /\ MemoryInv /\ ReadInv /\ ChoiceInv

-----------------------------------------------------------------------------
LEMMA HeadTail ==
  ASSUME NEW l \in Seq(Keys), l # <<>>, Distinct(l)
  PROVE  /\ Head(l) \in Keys /\ Head(l) = l[1] /\ 1 \in 1 .. Len(l)
         /\ Tail(l) \in Seq(Keys)
         /\ Len(Tail(l)) = Len(l) - 1
         /\ \A i \in 1 .. Len(Tail(l)) :
              i + 1 \in 1 .. Len(l) /\ Tail(l)[i] = l[i + 1] /\ Tail(l)[i] # Head(l)
         /\ Distinct(Tail(l))
  <1>1. Len(l) \in Nat /\ Len(l) >= 1 /\ l[1] \in Keys /\ Head(l) = l[1]
    BY EmptySeq, LenProperties, HeadTailProperties
  <1>2. /\ Tail(l) \in Seq(Keys) /\ Len(Tail(l)) = Len(l) - 1
        /\ \A i \in 1 .. Len(Tail(l)) : Tail(l)[i] = l[i + 1]
    BY HeadTailProperties
  <1>3. \A i \in 1 .. Len(Tail(l)) : i + 1 \in 1 .. Len(l) /\ i + 1 # 1
    BY <1>1, <1>2
  <1>4. \A i \in 1 .. Len(Tail(l)) : Tail(l)[i] # Head(l)
    BY <1>1, <1>2, <1>3 DEF Distinct
  <1>5. Distinct(Tail(l))
    <2> SUFFICES ASSUME NEW i \in 1 .. Len(Tail(l)), NEW j \in 1 .. Len(Tail(l)),
                        Tail(l)[i] = Tail(l)[j]
                 PROVE  i = j
      BY DEF Distinct
    <2>1. l[i + 1] = l[j + 1] /\ i + 1 \in 1 .. Len(l) /\ j + 1 \in 1 .. Len(l)
      BY <1>2, <1>3
    <2>2. i + 1 = j + 1
      BY <2>1 DEF Distinct
    <2> QED BY <2>2
  <1> QED
    BY <1>1, <1>2, <1>3, <1>4, <1>5

LEMMA ListsDistinct ==
  ASSUME NEW l \in KeyLists
  PROVE  l \in Seq(Keys) /\ Distinct(l)
  BY ListsAssumption, LenProperties DEF Distinct, IsInjective

LEMMA StoredIsValue == ASSUME NEW s \in Sides, NEW v \in Values PROVE Stored(s, v) \in Values
  BY DEF Stored, Values

LEMMA InitMeta == Init => MetaInv
  <1> SUFFICES ASSUME Init PROVE MetaInv
    OBVIOUS
  <1>1. TypeOK
    BY EmptySeq DEF Init, TypeOK, NoValues, Nothing, Values, Configurations
  <1>2. Len(todo) = 0 /\ todo = <<>>
    BY EmptySeq DEF Init
  <1> QED
    BY <1>1, <1>2 DEF Init, MetaInv, TodoInv, FreshInv, RacedInv, MemoryInv,
                      ReadInv, ChoiceInv, Distinct

-----------------------------------------------------------------------------
(* The actions, one by one.                                                *)

LEMMA EditStep ==
  ASSUME MetaInv, NEW s \in Sides, NEW k \in Keys, NEW v \in Values, Edit(s, k, v)
  PROVE  MetaInv'
  <1>0. Stored(s, v) \in Values
    BY StoredIsValue
  <1>1. TypeOK'
    <2>1. meta' \in [Sides -> [Keys -> Values]]
      BY <1>0 DEF MetaInv, TypeOK, Edit
    <2>3. edits' \in Nat
      <3>1. edits \in Nat /\ edits' = edits + 1
        BY DEF MetaInv, TypeOK, Edit
      <3> QED BY <3>1
    <2>2. fresh' \in [Sides -> SUBSET Keys] /\ raced' \subseteq Sides
          /\ inStep' \subseteq Keys
      BY DEF MetaInv, TypeOK, Edit
    <2> QED BY <2>1, <2>2, <2>3 DEF MetaInv, TypeOK, Edit
  <1>2. TodoInv'
    BY DEF MetaInv, TypeOK, TodoInv, Edit, HasRead, Sides
  <1>3. FreshInv'
    BY DEF MetaInv, TypeOK, FreshInv, Edit
  <1>4. RacedInv'
    BY DEF MetaInv, TypeOK, RacedInv, Edit
  <1>5. MemoryInv'
    BY DEF MetaInv, MemoryInv, Edit
  <1>6. ReadInv'
    <2>1. ASSUME NEW s2 \in Sides, HasRead(s2), s2 \notin raced'
          PROVE  /\ s2 \notin raced
                 /\ meta'[s2][Head(todo)] = meta[s2][Head(todo)]
      <3>1. ~(s2 = s /\ k = Head(todo)) /\ s2 \notin raced
        BY <2>1 DEF Edit, HasRead
      <3>2. meta' = [meta EXCEPT ![s][k] = Stored(s, v)]
        BY DEF Edit
      <3>3. meta \in [Sides -> [Keys -> Values]]
        BY DEF MetaInv, TypeOK
      <3> QED BY <3>1, <3>2, <3>3
    <2> QED BY <2>1 DEF MetaInv, ReadInv, Edit, HasRead, Sides
  <1>7. ChoiceInv'
    BY DEF MetaInv, ChoiceInv, Edit, Loser, MustResolve
  <1> QED BY <1>1, <1>2, <1>3, <1>4, <1>5, <1>6, <1>7 DEF MetaInv

LEMMA ReconfigureStep ==
  ASSUME MetaInv, NEW l \in KeyLists, Reconfigure(l)
  PROVE  MetaInv'
  <1>1. TypeOK'
    <2>1. conf' \in Configurations
      BY DEF MetaInv, TypeOK, Reconfigure, Configurations
    <2>2. edits' \in Nat
      BY DEF MetaInv, TypeOK, Reconfigure
    <2> QED
      BY <2>1, <2>2 DEF MetaInv, TypeOK, Reconfigure
  <1> QED
    BY <1>1 DEF MetaInv, Reconfigure, TodoInv, FreshInv, RacedInv, MemoryInv,
                ReadInv, ChoiceInv

LEMMA StartStep ==
  ASSUME MetaInv, Start
  PROVE  MetaInv'
  <1>1. conf.metadata \in Seq(Keys) /\ Distinct(conf.metadata)
    BY ListsDistinct DEF MetaInv, TypeOK, Configurations
  <1>2. TypeOK'
    BY <1>1 DEF MetaInv, TypeOK, Start
  <1>3. TodoInv' /\ raced' = {}
    BY <1>1 DEF MetaInv, TodoInv, Start, Distinct
  <1> QED
    BY <1>2, <1>3 DEF MetaInv, Start, FreshInv, RacedInv, MemoryInv, ReadInv, ChoiceInv

LEMMA GetAStep ==
  ASSUME MetaInv, GetA
  PROVE  MetaInv'
  <1>1. Head(todo) \in Keys
    BY HeadTail DEF MetaInv, TypeOK, TodoInv, GetA
  <1>2. TypeOK'
    BY <1>1 DEF MetaInv, TypeOK, GetA, Sides
  <1>3. ReadInv'
    BY DEF MetaInv, TypeOK, ReadInv, GetA, Sides
  <1> QED
    BY <1>2, <1>3 DEF MetaInv, GetA, TodoInv, FreshInv, RacedInv, MemoryInv, ChoiceInv

(* What going on to the next key needs; the rest is up to the action.      *)
LEMMA NextKey ==
  ASSUME MetaInv, todo # <<>>, NEW v \in Values,
         todo' = Tail(todo), raced' = {}, saved' = saved,
         pc' = IF Tail(todo) = <<>> THEN "save" ELSE "get a",
         status' = [status EXCEPT ![Head(todo)] = v],
         got' = Nothing, dest' = None
  PROVE  /\ Head(todo) \in Keys
         /\ todo' \in Seq(Keys) /\ status' \in [Keys -> Values]
         /\ got' \in [Sides -> Values] /\ dest' \in Sides \cup {None}
         /\ TodoInv' /\ RacedInv' /\ MemoryInv' /\ ReadInv' /\ ChoiceInv'
  <1>1. /\ Head(todo) \in Keys /\ Head(todo) = todo[1]
        /\ Tail(todo) \in Seq(Keys) /\ Distinct(Tail(todo))
        /\ \A i \in 1 .. Len(Tail(todo)) :
             i + 1 \in 1 .. Len(todo) /\ Tail(todo)[i] = todo[i + 1]
             /\ Tail(todo)[i] # Head(todo)
    BY HeadTail DEF MetaInv, TypeOK, TodoInv
  <1>2. status' \in [Keys -> Values] /\ got' \in [Sides -> Values]
    BY <1>1 DEF MetaInv, TypeOK, Nothing, Values
  <1>3. TodoInv'
    BY <1>1 DEF TodoInv
  <1>4. MemoryInv'
    <2> SUFFICES ASSUME NEW i \in 1 .. Len(Tail(todo))
                 PROVE  status'[Tail(todo)[i]] = saved[Tail(todo)[i]]
      BY DEF MemoryInv
    <2>1. status[Tail(todo)[i]] = saved[Tail(todo)[i]]
      BY <1>1 DEF MetaInv, MemoryInv
    <2>2. Tail(todo)[i] \in Keys /\ Tail(todo)[i] # Head(todo)
      BY <1>1, LenProperties
    <2> QED BY <2>1, <2>2 DEF MetaInv, TypeOK
  <1> QED
    BY <1>1, <1>2, <1>3, <1>4 DEF RacedInv, ReadInv, ChoiceInv

(* What stays fresh of the current key was given after its side was read.  *)
LEMMA CopiedFresh ==
  ASSUME MetaInv, Head(todo) \in Keys, fresh' = Copied(Head(todo)),
         UNCHANGED <<meta, saved>>, refused' = refused \ {Head(todo)}
  PROVE  FreshInv'
  <1> SUFFICES ASSUME NEW s \in Sides, NEW k \in Keys, k \in fresh'[s], k \notin refused'
               PROVE  meta[s][k] # saved[k]
    BY DEF FreshInv
  <1>1. k \in fresh[s] /\ (k = Head(todo) => s \in raced)
    BY DEF Copied
  <1>2. CASE k = Head(todo)
    BY <1>1, <1>2 DEF MetaInv, RacedInv
  <1>3. CASE k # Head(todo)
    BY <1>1, <1>3 DEF MetaInv, FreshInv
  <1> QED BY <1>2, <1>3

LEMMA EqualStep ==
  ASSUME MetaInv, GetB, got["a"] = meta["b"][Head(todo)]
  PROVE  MetaInv'
  <1>1. todo # <<>> /\ Head(todo) \in Keys /\ meta["b"][Head(todo)] \in Values
    <2>1. todo # <<>> /\ Head(todo) \in Keys
      BY HeadTail DEF MetaInv, TypeOK, TodoInv, GetB
    <2> QED BY <2>1 DEF MetaInv, TypeOK, Sides
  <1>2. /\ todo' \in Seq(Keys) /\ status' \in [Keys -> Values]
        /\ got' \in [Sides -> Values] /\ dest' \in Sides \cup {None}
        /\ TodoInv' /\ RacedInv' /\ MemoryInv' /\ ReadInv' /\ ChoiceInv'
    BY <1>1, NextKey DEF GetB, Proceed
  <1>3. TypeOK'
    <2>0. fresh' = Copied(Head(todo))
      BY DEF GetB
    <2>1. fresh' \in [Sides -> SUBSET Keys]
      BY <1>1, <2>0 DEF MetaInv, TypeOK, Copied
    <2>2. inStep' \subseteq Keys /\ refused' \subseteq Keys /\ raced' = {}
          /\ pc' \in {"save", "get a"}
      BY <1>1 DEF MetaInv, TypeOK, GetB, Proceed
    <2> QED BY <1>2, <2>1, <2>2 DEF MetaInv, TypeOK, GetB
  <1>4. FreshInv'
    BY <1>1, CopiedFresh DEF GetB, Proceed
  <1> QED BY <1>2, <1>3, <1>4 DEF MetaInv

LEMMA ChooseStep ==
  ASSUME MetaInv, GetB, got["a"] # meta["b"][Head(todo)]
  PROVE  MetaInv'
  <1>1. todo # <<>> /\ Head(todo) \in Keys /\ meta["b"][Head(todo)] \in Values
    <2>1. todo # <<>> /\ Head(todo) \in Keys
      BY HeadTail DEF MetaInv, TypeOK, TodoInv, GetB
    <2> QED BY <2>1 DEF MetaInv, TypeOK, Sides
  <1>2. dest' \in Sides
    BY DEF GetB, Loser, Sides
  <1>3. TypeOK'
    BY <1>1, <1>2 DEF MetaInv, TypeOK, GetB, Sides
  <1>4. ReadInv' /\ ChoiceInv'
    BY <1>1, <1>2 DEF MetaInv, TypeOK, TodoInv, GetB, ReadInv, ChoiceInv, Sides,
                      Loser, MustResolve
  <1> QED
    BY <1>1, <1>3, <1>4 DEF MetaInv, TypeOK, TodoInv, FreshInv, RacedInv,
                            MemoryInv, GetB

(* A run that ends with an exception, having written nothing.              *)
LEMMA AbortStep ==
  ASSUME MetaInv, Abort, UNCHANGED <<meta, fresh>>, faults' \in Nat
  PROVE  MetaInv'
  <1>1. TypeOK'
    BY EmptySeq DEF MetaInv, TypeOK, Abort, NoValues, Nothing, Values
  <1>2. TodoInv' /\ RacedInv' /\ MemoryInv' /\ ReadInv' /\ ChoiceInv'
    BY EmptySeq DEF Abort, TodoInv, RacedInv, MemoryInv, ReadInv, ChoiceInv, Distinct
  <1> QED BY <1>1, <1>2 DEF MetaInv, FreshInv, Abort

(* The value that is written, and what becomes of the fresh ones.          *)
LEMMA WriteStep ==
  ASSUME MetaInv, pc = "set", meta' = Put, saved' = saved,
         fresh' = [Copied(Head(todo)) EXCEPT ![dest] = @ \ {Head(todo)}],
         \/ refused' = refused
         \/ refused' = refused \ {Head(todo)}
  PROVE  /\ Written \in Values /\ FreshInv'
         /\ meta' \in [Sides -> [Keys -> Values]]
         /\ fresh' \in [Sides -> SUBSET Keys]
  <1>1. todo # <<>> /\ Head(todo) \in Keys /\ dest \in Sides
    BY HeadTail DEF MetaInv, TypeOK, TodoInv, ChoiceInv
  <1>2. Written \in Values /\ Stored(dest, Written) \in Values
    BY <1>1, StoredIsValue DEF MetaInv, TypeOK, Written, Other, Sides
  <1>3. meta' \in [Sides -> [Keys -> Values]] /\ fresh' \in [Sides -> SUBSET Keys]
    BY <1>1, <1>2 DEF MetaInv, TypeOK, Put, Copied
  <1>4. ASSUME NEW s \in Sides, NEW k \in Keys, k \in fresh'[s], k \notin refused'
        PROVE  meta'[s][k] # saved[k]
    <2>1. k \in fresh[s] /\ ~(s = dest /\ k = Head(todo))
      BY <1>1, <1>4 DEF MetaInv, TypeOK, Copied
    <2>2. meta'[s][k] = meta[s][k]
      BY <1>1, <2>1 DEF MetaInv, TypeOK, Put
    <2>3. CASE k = Head(todo)
      <3>1. s \in raced
        BY <1>1, <1>4, <2>1, <2>3 DEF MetaInv, TypeOK, Copied
      <3> QED BY <2>1, <2>2, <2>3, <3>1 DEF MetaInv, RacedInv
    <2>4. CASE k # Head(todo)
      BY <1>4, <2>1, <2>2, <2>4 DEF MetaInv, FreshInv
    <2> QED BY <2>3, <2>4
  <1> QED BY <1>2, <1>3, <1>4 DEF FreshInv

LEMMA SetStep ==
  ASSUME MetaInv, Set
  PROVE  MetaInv'
  <1>1. todo # <<>> /\ Head(todo) \in Keys
    BY HeadTail DEF MetaInv, TypeOK, TodoInv, Set
  <1>2. /\ Written \in Values /\ FreshInv'
        /\ meta' \in [Sides -> [Keys -> Values]]
        /\ fresh' \in [Sides -> SUBSET Keys]
    BY WriteStep DEF Set
  <1>3. /\ todo' \in Seq(Keys) /\ status' \in [Keys -> Values]
        /\ got' \in [Sides -> Values] /\ dest' \in Sides \cup {None}
        /\ TodoInv' /\ RacedInv' /\ MemoryInv' /\ ReadInv' /\ ChoiceInv'
    BY <1>1, <1>2, NextKey DEF Set, Proceed
  <1>4. TypeOK'
    BY <1>1, <1>2, <1>3 DEF MetaInv, TypeOK, Set, Proceed
  <1> QED BY <1>2, <1>3, <1>4 DEF MetaInv

LEMMA SetRefusedStep ==
  ASSUME MetaInv, SetRefused
  PROVE  MetaInv'
  <1>1. todo # <<>> /\ Head(todo) \in Keys /\ dest \in Sides
    BY HeadTail DEF MetaInv, TypeOK, TodoInv, SetRefused, ChoiceInv
  <1>2. Written \in Values
    BY <1>1 DEF MetaInv, TypeOK, Written, Other, Sides
  <1>3. /\ todo' \in Seq(Keys) /\ status' \in [Keys -> Values]
        /\ got' \in [Sides -> Values] /\ dest' \in Sides \cup {None}
        /\ TodoInv' /\ RacedInv' /\ MemoryInv' /\ ReadInv' /\ ChoiceInv'
    BY <1>1, <1>2, NextKey DEF SetRefused
  <1>4. TypeOK'
    <2>1. faults' \in Nat
      <3>1. faults \in Nat /\ faults' = faults + 1
        BY DEF MetaInv, TypeOK, SetRefused
      <3> QED BY <3>1
    <2>2. refused' \subseteq Keys
      BY <1>1 DEF MetaInv, TypeOK, SetRefused
    <2>3. pc' \in {"save", "get a"}
      BY DEF SetRefused
    <2> QED BY <1>3, <2>1, <2>2, <2>3 DEF MetaInv, TypeOK, SetRefused
  <1>5. FreshInv'
    BY DEF MetaInv, FreshInv, SetRefused
  <1> QED BY <1>3, <1>4, <1>5 DEF MetaInv

LEMMA SaveStep ==
  ASSUME MetaInv, Save
  PROVE  MetaInv'
  <1>1. Recorded \in [Keys -> Values]
    BY DEF MetaInv, TypeOK, Recorded, Values
  <1>2. TypeOK'
    BY <1>1 DEF MetaInv, TypeOK, Save, NoValues, Values
  <1>3. FreshInv'
    BY DEF MetaInv, FreshInv, Save
  <1>4. todo = <<>> /\ raced = {}
    BY DEF MetaInv, TodoInv, Save
  <1>5. TodoInv' /\ RacedInv' /\ MemoryInv' /\ ReadInv' /\ ChoiceInv'
    BY <1>4, EmptySeq DEF Save, TodoInv, RacedInv, MemoryInv, ReadInv, ChoiceInv, Distinct
  <1> QED BY <1>2, <1>3, <1>5 DEF MetaInv

LEMMA FailsStep ==
  ASSUME MetaInv, NEW effect \in BOOLEAN, Fails(effect)
  PROVE  MetaInv'
  <1>0. faults' \in Nat
    <2>1. faults \in Nat
      BY DEF MetaInv, TypeOK
    <2>2. faults' = faults + 1
      BY Zenon DEF Fails
    <2> QED BY <2>1, <2>2
  <1>1. CASE ~effect
    BY <1>0, <1>1, AbortStep DEF Fails
  <1>2. CASE effect
    <2>1. /\ FreshInv' /\ meta' \in [Sides -> [Keys -> Values]]
          /\ fresh' \in [Sides -> SUBSET Keys]
      BY <1>2, WriteStep DEF Fails, Abort
    <2>2. TypeOK'
      BY <1>0, <2>1, EmptySeq DEF MetaInv, TypeOK, Fails, Abort, NoValues, Nothing, Values
    <2>3. TodoInv' /\ RacedInv' /\ MemoryInv' /\ ReadInv' /\ ChoiceInv'
      BY EmptySeq DEF Fails, Abort, TodoInv, RacedInv, MemoryInv, ReadInv, ChoiceInv, Distinct
    <2> QED BY <2>1, <2>2, <2>3 DEF MetaInv
  <1> QED BY <1>1, <1>2

LEMMA MetaStep == MetaInv /\ [Next]_vars => MetaInv'
  <1> SUFFICES ASSUME MetaInv, [Next]_vars PROVE MetaInv'
    OBVIOUS
  <1>1. ASSUME NEW s \in Sides, NEW k \in Keys, NEW v \in Values, Edit(s, k, v)
        PROVE  MetaInv'
    BY <1>1, EditStep
  <1>2. ASSUME NEW l \in KeyLists, Reconfigure(l) PROVE MetaInv'
    BY <1>2, ReconfigureStep
  <1>3. CASE Start
    BY <1>3, StartStep
  <1>4. CASE GetA
    BY <1>4, GetAStep
  <1>5. CASE GetB
    BY <1>5, EqualStep, ChooseStep
  <1>6. CASE Conflict \/ ReadOnlyError
    BY <1>6, AbortStep DEF Conflict, ReadOnlyError, MetaInv, TypeOK
  <1>7. CASE Set
    BY <1>7, SetStep
  <1>8. CASE SetRefused
    BY <1>8, SetRefusedStep
  <1>9. CASE Save
    BY <1>9, SaveStep
  <1>10. ASSUME NEW effect \in BOOLEAN, Fails(effect) PROVE MetaInv'
    BY <1>10, FailsStep
  <1>11. CASE UNCHANGED vars
    BY <1>11 DEF vars, MetaInv, TypeOK, TodoInv, FreshInv, RacedInv, MemoryInv,
                 ReadInv, ChoiceInv, Loser, MustResolve
  <1> QED
    BY <1>1, <1>2, <1>3, <1>4, <1>5, <1>6, <1>7, <1>8, <1>9, <1>10, <1>11
       DEF Next, Run

-----------------------------------------------------------------------------
(* The side that is written was not chosen against a fresh value.          *)
LEMMA SetLosesNothing ==
  ASSUME MetaInv, pc = "set", meta' = Put, NEW s \in Sides, NEW k \in Keys,
         k \in fresh[s], meta'[s][k] # meta[s][k], s \notin raced, k \notin refused
  PROVE  conf.resolution = Wins[Other(s)]
  <1>1. todo # <<>> /\ Head(todo) \in Keys /\ dest \in Sides
        /\ Head(todo) = todo[1] /\ 1 \in 1 .. Len(todo)
    BY HeadTail DEF MetaInv, TypeOK, TodoInv, ChoiceInv
  <1>2. s = dest /\ k = Head(todo)
    BY <1>1 DEF MetaInv, TypeOK, Put
  <1>3. got[s] = meta[s][k]
    BY <1>2 DEF MetaInv, ReadInv, Sides
  <1>4. status[k] = saved[k]
    BY <1>1, <1>2 DEF MetaInv, MemoryInv
  <1>5. got[s] # status[k]
    BY <1>3, <1>4 DEF MetaInv, FreshInv
  <1>6. s = Loser(got["a"], got["b"], status[k]) /\ got["a"] # got["b"]
    BY <1>2 DEF MetaInv, ChoiceInv
  <1>7. MustResolve(got["a"], got["b"], status[k])
    <2> SUFFICES ASSUME ~MustResolve(got["a"], got["b"], status[k]) PROVE FALSE
      OBVIOUS
    <2>1. s = IF got["a"] # status[k] THEN "b" ELSE "a"
      BY <1>6 DEF Loser
    <2>2. got["a"] = status[k] \/ got["b"] = status[k]
      BY DEF MustResolve
    <2> QED BY <1>5, <2>1, <2>2
  <1> QED
    BY <1>6, <1>7, SidesAssumption DEF Loser, Wins, Other, Sides

(* Values keep their types.                                                *)
THEOREM MetaTypeCorrect == Spec => []TypeOK
  <1>1. MetaInv => TypeOK
    BY DEF MetaInv
  <1> QED BY <1>1, InitMeta, MetaStep, PTL DEF Spec

(* No change of a property is lost but by a conflict resolution, by a      *)
(* change after the side was read, or by a refusal nobody noticed.         *)
THEOREM MetaEditsKept == Spec => NoLostMetaEdit
  <1>1. ASSUME MetaInv, [Next]_vars, NEW s \in Sides, NEW k \in Keys,
               k \in fresh[s], meta'[s][k] # meta[s][k], edits' = edits,
               s \notin raced, k \notin refused
        PROVE  conf.resolution = Wins[Other(s)]
    <2>0. edits \in Nat
      BY <1>1 DEF MetaInv, TypeOK
    <2>1. CASE Set
      BY <1>1, <2>1, SetLosesNothing DEF Set
    <2>2. ASSUME NEW effect \in BOOLEAN, Fails(effect)
          PROVE  conf.resolution = Wins[Other(s)]
      BY <1>1, <2>2, SetLosesNothing DEF Fails
    <2>3. ASSUME NEW s2 \in Sides, NEW k2 \in Keys, NEW v \in Values, Edit(s2, k2, v)
          PROVE  FALSE
      BY <1>1, <2>0, <2>3 DEF Edit
    <2> QED
      BY <1>1, <2>1, <2>2, <2>3
         DEF Next, Run, vars, Reconfigure, Start, GetA, GetB, Conflict,
             ReadOnlyError, SetRefused, Save
  <1>2. MetaInv /\ [Next]_vars =>
          [\A s \in Sides, k \in Keys :
             k \in fresh[s] /\ meta'[s][k] # meta[s][k] /\ edits' = edits =>
               \/ conf.resolution = Wins[Other(s)]
               \/ s \in raced
               \/ k \in refused]_vars
    BY <1>1
  <1> QED BY <1>2, InitMeta, MetaStep, PTL DEF Spec, NoLostMetaEdit

-----------------------------------------------------------------------------
(* Keys that are in step.  While a run goes on its record is in memory; it *)
(* is written for the configured keys only, and each is worked on once.    *)
Agreed(k, record) ==
  Alike(meta["a"][k], meta["b"][k]) /\ Alike(meta["a"][k], record[k])

TodoConfigured ==
  pc # "idle" => \A i \in 1 .. Len(todo) : todo[i] \in Configured

InStepInv ==
  /\ pc = "idle" => \A k \in inStep : Agreed(k, saved)
  /\ pc # "idle" =>
       \A k \in inStep : /\ Agreed(k, status)
                         /\ k \in Configured
                         /\ \A i \in 1 .. Len(todo) : todo[i] # k

StepInv == MetaInv /\ TodoConfigured /\ InStepInv

LEMMA StoredAlike ==
  ASSUME NEW s, NEW v
  PROVE  /\ Alike(v, v) /\ Alike(v, Stored(s, v)) /\ Alike(Stored(s, v), v)
         /\ Alike(Stored(s, v), Stored(s, v))
  BY DEF Alike, Stored

LEMMA InitStep == Init => StepInv
  <1> SUFFICES ASSUME Init PROVE StepInv
    OBVIOUS
  <1>1. MetaInv
    BY InitMeta
  <1> QED
    BY <1>1 DEF StepInv, Init, TodoConfigured, InStepInv

(* Where a run goes on to the next key, the keys done before stay as they  *)
(* were, and those still to be done are among the ones there were.         *)
LEMMA KeyDone ==
  ASSUME StepInv, pc \in {"get b", "set"}, conf' = conf,
         NEW v \in Values, NEW h, h = Head(todo),
         pc' = IF Tail(todo) = <<>> THEN "save" ELSE "get a",
         todo' = Tail(todo), status' = [status EXCEPT ![h] = v],
         \A s \in Sides, k \in Keys \ {h} : meta'[s][k] = meta[s][k],
         inStep' \subseteq inStep \cup {h},
         h \in inStep' => Agreed(h, status)'
  PROVE  TodoConfigured' /\ InStepInv'
  <1>1. todo # <<>>
    BY DEF StepInv, MetaInv, TodoInv
  <1>0. todo \in Seq(Keys) /\ Distinct(todo)
    BY DEF StepInv, MetaInv, TypeOK, TodoInv
  <1>2. /\ h \in Keys /\ h = todo[1] /\ 1 \in 1 .. Len(todo)
        /\ \A i \in 1 .. Len(Tail(todo)) :
             i + 1 \in 1 .. Len(todo) /\ Tail(todo)[i] = todo[i + 1]
             /\ Tail(todo)[i] # h
    <2>1. /\ Head(todo) \in Keys /\ Head(todo) = todo[1]
          /\ 1 \in 1 .. Len(todo)
          /\ \A i \in 1 .. Len(Tail(todo)) :
               i + 1 \in 1 .. Len(todo) /\ Tail(todo)[i] = todo[i + 1]
               /\ Tail(todo)[i] # Head(todo)
      BY <1>0, <1>1, HeadTail
    <2> QED BY <2>1
  <1>3. \A i \in 1 .. Len(todo) : todo[i] \in Configured
    BY DEF StepInv, TodoConfigured
  <1>4. Configured' = Configured /\ pc' # "idle"
    BY DEF Configured
  <1>5. TodoConfigured'
    BY <1>2, <1>3, <1>4 DEF TodoConfigured
  <1>6. ASSUME NEW k \in inStep'
        PROVE  /\ Agreed(k, status)'
               /\ k \in Configured
               /\ \A i \in 1 .. Len(Tail(todo)) : Tail(todo)[i] # k
    <2>1. CASE k = h
      BY <1>2, <1>3, <2>1
    <2>2. CASE k # h
      <3>1. /\ k \in Keys /\ Agreed(k, status) /\ k \in Configured
            /\ \A i \in 1 .. Len(todo) : todo[i] # k
        BY <2>2 DEF StepInv, MetaInv, TypeOK, InStepInv
      <3>2. meta'["a"][k] = meta["a"][k] /\ meta'["b"][k] = meta["b"][k]
        BY <2>2, <3>1 DEF Sides
      <3>3. status \in [Keys -> Values]
        BY DEF StepInv, MetaInv, TypeOK
      <3>4. status'[k] = status[k]
        BY <2>2, <3>1, <3>3
      <3>5. Agreed(k, status)'
        BY <3>1, <3>2, <3>4 DEF Agreed
      <3>6. ASSUME NEW i \in 1 .. Len(Tail(todo)) PROVE Tail(todo)[i] # k
        <4>1. i + 1 \in 1 .. Len(todo) /\ Tail(todo)[i] = todo[i + 1]
          BY <1>2
        <4> DEFINE j == i + 1
        <4>2. j \in 1 .. Len(todo) /\ Tail(todo)[i] = todo[j]
          BY <4>1
        <4> HIDE DEF j
        <4> QED BY <3>1, <4>2
      <3> QED BY <3>1, <3>5, <3>6
    <2> QED BY <2>1, <2>2
  <1> QED BY <1>4, <1>5, <1>6 DEF InStepInv

(* The current key is not in step yet.                                     *)
LEMMA CurrentKey ==
  ASSUME StepInv, pc \in {"get b", "set"}
  PROVE  \E h \in Keys : h = Head(todo) /\ h \notin inStep
  <1>1. todo # <<>>
    BY DEF StepInv, MetaInv, TodoInv
  <1>0. todo \in Seq(Keys) /\ Distinct(todo)
    BY DEF StepInv, MetaInv, TypeOK, TodoInv
  <1>2. Head(todo) \in Keys /\ Head(todo) = todo[1] /\ 1 \in 1 .. Len(todo)
    <2>1. /\ Head(todo) \in Keys /\ Head(todo) = todo[1]
          /\ 1 \in 1 .. Len(todo)
      BY <1>0, <1>1, HeadTail
    <2> QED BY <2>1
  <1>3. Head(todo) \notin inStep
    BY <1>2 DEF StepInv, InStepInv
  <1> QED BY <1>2, <1>3

LEMMA EqualInStep ==
  ASSUME StepInv, GetB, got["a"] = meta["b"][Head(todo)]
  PROVE  TodoConfigured' /\ InStepInv'
  <1>1. PICK h \in Keys : h = Head(todo) /\ h \notin inStep
    BY CurrentKey DEF GetB
  <1>2. PICK v \in Values : v = meta["b"][h]
    BY DEF StepInv, MetaInv, TypeOK, Sides
  <1>3. Proceed(v) /\ got["a"] = v /\ meta' = meta /\ conf' = conf /\ pc = "get b"
    BY <1>1, <1>2 DEF GetB
  <1>4. ASSUME h \in inStep' PROVE Agreed(h, status)'
    <2>1. raced = {}
      BY <1>1, <1>3, <1>4 DEF Proceed
    <2>2. meta["a"][h] = v
      BY <1>1, <1>3, <2>1 DEF StepInv, MetaInv, ReadInv
    <2>3. status'[h] = v
      BY <1>1, <1>3 DEF Proceed, StepInv, MetaInv, TypeOK
    <2> QED BY <1>2, <1>3, <2>2, <2>3 DEF Agreed, Alike
  <1>5. /\ todo' = Tail(todo) /\ status' = [status EXCEPT ![h] = v]
        /\ inStep' \subseteq inStep \cup {h}
        /\ pc' = IF Tail(todo) = <<>> THEN "save" ELSE "get a"
    BY <1>1, <1>3 DEF Proceed
  <1> QED BY <1>1, <1>3, <1>4, <1>5, KeyDone

LEMMA SetInStep ==
  ASSUME StepInv, Set
  PROVE  TodoConfigured' /\ InStepInv'
  <1>1. PICK h \in Keys : h = Head(todo) /\ h \notin inStep
    BY CurrentKey DEF Set
  <1>2. PICK d \in Sides : d = dest
    BY DEF StepInv, MetaInv, ChoiceInv, Set
  <1>3. Other(d) \in Sides /\ Other(d) # d /\ \A s \in Sides : s \in {d, Other(d)}
    BY <1>2 DEF Other, Sides
  <1>4. PICK v \in Values : v = got[Other(d)]
    BY <1>3 DEF StepInv, MetaInv, TypeOK
  <1>5. Written = v
    BY <1>2, <1>4 DEF Written
  <1>6. /\ Proceed(v) /\ conf' = conf /\ pc = "set"
        /\ meta' = [meta EXCEPT ![d][h] = Stored(d, v)]
    BY <1>1, <1>2, <1>5 DEF Set, Put
  <1>7. /\ meta'[d][h] = Stored(d, v) /\ meta'[Other(d)][h] = meta[Other(d)][h]
        /\ \A s \in Sides, k \in Keys \ {h} : meta'[s][k] = meta[s][k]
    BY <1>1, <1>3, <1>6 DEF StepInv, MetaInv, TypeOK
  <1>8. ASSUME h \in inStep' PROVE Agreed(h, status)'
    <2>1. raced = {}
      BY <1>1, <1>6, <1>8 DEF Proceed
    <2>2. got["a"] = meta["a"][h] /\ got["b"] = meta["b"][h]
      BY <1>1, <1>6, <2>1 DEF StepInv, MetaInv, ReadInv
    <2>3. meta[Other(d)][h] = v
      BY <1>4, <2>2 DEF Other
    <2>4. status'[h] = v
      BY <1>1, <1>6 DEF Proceed, StepInv, MetaInv, TypeOK
    <2>5. \A s \in Sides : meta'[s][h] = v \/ meta'[s][h] = Stored(d, v)
      BY <1>3, <1>7, <2>3
    <2>6. /\ meta'["a"][h] = v \/ meta'["a"][h] = Stored(d, v)
          /\ meta'["b"][h] = v \/ meta'["b"][h] = Stored(d, v)
      BY <2>5 DEF Sides
    <2> QED BY <2>4, <2>6, StoredAlike DEF Agreed
  <1>9. /\ todo' = Tail(todo) /\ status' = [status EXCEPT ![h] = v]
        /\ inStep' \subseteq inStep \cup {h}
        /\ pc' = IF Tail(todo) = <<>> THEN "save" ELSE "get a"
    BY <1>1, <1>6 DEF Proceed
  <1> QED BY <1>1, <1>6, <1>7, <1>8, <1>9, KeyDone

LEMMA RefusedInStep ==
  ASSUME StepInv, SetRefused
  PROVE  TodoConfigured' /\ InStepInv'
  <1>1. PICK h \in Keys : h = Head(todo) /\ h \notin inStep
    BY CurrentKey DEF SetRefused
  <1>2. PICK v \in Values : v = Written
    BY DEF StepInv, MetaInv, TypeOK, ChoiceInv, SetRefused, Written, Other, Sides
  <1>3. /\ conf' = conf /\ meta' = meta /\ pc = "set" /\ inStep' = inStep
        /\ todo' = Tail(todo) /\ status' = [status EXCEPT ![h] = v]
        /\ pc' = IF Tail(todo) = <<>> THEN "save" ELSE "get a"
    BY <1>1, <1>2 DEF SetRefused
  <1> QED BY <1>1, <1>3, KeyDone

LEMMA EditInStep ==
  ASSUME StepInv, NEW s \in Sides, NEW k \in Keys, NEW v \in Values, Edit(s, k, v)
  PROVE  TodoConfigured' /\ InStepInv'
  <1>1. \A j \in inStep' : /\ j \in inStep
                           /\ meta'["a"][j] = meta["a"][j]
                           /\ meta'["b"][j] = meta["b"][j]
    BY DEF Edit, StepInv, MetaInv, TypeOK, Sides
  <1> QED
    BY <1>1 DEF Edit, StepInv, TodoConfigured, InStepInv, Agreed, Configured

LEMMA SaveInStep ==
  ASSUME StepInv, Save
  PROVE  TodoConfigured' /\ InStepInv'
  <1>1. \A k \in inStep : k \in Keys /\ Recorded[k] = status[k] /\ Agreed(k, status)
    BY DEF Save, StepInv, MetaInv, TypeOK, InStepInv, Recorded
  <1>2. \A k \in inStep : Recorded[k] = saved'[k]
    BY DEF Save
  <1> QED
    BY <1>1, <1>2 DEF Save, TodoConfigured, InStepInv, Agreed

LEMMA StepStep == StepInv /\ [Next]_vars => StepInv'
  <1> SUFFICES ASSUME StepInv, [Next]_vars PROVE StepInv'
    OBVIOUS
  <1> SUFFICES TodoConfigured' /\ InStepInv'
    BY MetaStep DEF StepInv
  <1>1. ASSUME NEW s \in Sides, NEW k \in Keys, NEW v \in Values, Edit(s, k, v)
        PROVE  TodoConfigured' /\ InStepInv'
    BY <1>1, EditInStep
  <1>2. ASSUME NEW l \in KeyLists, Reconfigure(l) PROVE TodoConfigured' /\ InStepInv'
    BY <1>2 DEF Reconfigure, StepInv, TodoConfigured, InStepInv, Agreed
  <1>3. CASE Start
    <2>1. /\ conf.metadata \in Seq(Keys) /\ conf' = conf /\ todo' = conf.metadata
          /\ inStep' = {}
      BY <1>3, ListsDistinct DEF Start, StepInv, MetaInv, TypeOK, Configurations
    <2>2. \A i \in 1 .. Len(conf.metadata) : conf.metadata[i] \in Configured
      BY <2>1, LenProperties DEF Configured, ToSet
    <2> QED BY <2>1, <2>2 DEF TodoConfigured, InStepInv, Configured
  <1>4. CASE GetA
    BY <1>4 DEF GetA, StepInv, TodoConfigured, InStepInv, Agreed, Configured
  <1>5. CASE GetB
    <2>1. CASE got["a"] = meta["b"][Head(todo)]
      BY <1>5, <2>1, EqualInStep
    <2>2. CASE got["a"] # meta["b"][Head(todo)]
      BY <1>5, <2>2 DEF GetB, StepInv, TodoConfigured, InStepInv, Agreed, Configured
    <2> QED BY <2>1, <2>2
  <1>6. CASE Abort
    BY <1>6 DEF Abort, TodoConfigured, InStepInv
  <1>7. CASE Set
    BY <1>7, SetInStep
  <1>8. CASE SetRefused
    BY <1>8, RefusedInStep
  <1>9. CASE Save
    BY <1>9, SaveInStep
  <1>10. CASE UNCHANGED vars
    BY <1>10 DEF vars, StepInv, TodoConfigured, InStepInv, Agreed, Configured
  <1> QED
    BY <1>1, <1>2, <1>3, <1>4, <1>5, <1>6, <1>7, <1>8, <1>9, <1>10
       DEF Next, Run, Conflict, ReadOnlyError, Fails

(* After a metasync that ended well both sides and the status file agree   *)
(* on every property that was copied and that nobody changed since it was  *)
(* read; a property that a side may have refused does not count, and one   *)
(* that is empty on one side and missing on the other does not differ.     *)
THEOREM MetasyncConverges == Spec => []MetaConverged
  <1>1. StepInv => MetaConverged
    BY DEF StepInv, InStepInv, Agreed, MetaConverged
  <1> QED BY <1>1, InitStep, StepStep, PTL DEF Spec
=============================================================================
