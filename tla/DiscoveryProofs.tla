--------------------------- MODULE DiscoveryProofs ---------------------------
(***************************************************************************)
(* A sync only works on what its own configuration asks for, storages are  *)
(* opened where they were discovered, and a discovery that nobody disturbed*)
(* saves all that is wanted: for any number of processes, storages, names, *)
(* configurations, changes and failures.  There are four invariants, each  *)
(* of which needs the one before it:                                       *)
(*   DiscoveryInv  whatever is between the configuration and the storages  *)
(*                 a sync opens is something a configuration asks for;     *)
(*   PlacesInv     whatever was discovered or made is among the places     *)
(*                 there have been;                                        *)
(*   CompleteInv   what an undisturbed discovery has done and has still to *)
(*                 do is together what its configuration stands for;       *)
(*   TypeInv       all of it has the form it should have.                  *)
(***************************************************************************)
EXTENDS Discovery, SequenceTheorems, FiniteSetTheorems, TLAPS

(* What remains to be expanded under configuration c.                      *)
AsNamed(c, e) == [s \in Sides |-> PlaceOf(c, s, e[s])]
Allowed(c) ==
  {e \in Elements \cup {Named(None, None, None)} :
     IF IsFrom(e) THEN \E k \in DOMAIN Shortcuts(c) : Shortcuts(c)[k] = e
                  ELSE Requested(c, e.name, AsNamed(c, e))}

AllRequested(c, cols) == \A n \in DOMAIN cols : Requested(c, n, cols[n])

(* The memory of a command holds nothing its configuration does not allow. *)
Fields == {"conf", "seen", "made", "todo", "cols", "jobs", "at", "calm"}
Sound(r) ==
  /\ DOMAIN r = Fields
  /\ DOMAIN r.seen = Sides
  /\ \A s \in Sides : r.seen[s] = None \/ r.seen[s] \subseteq Names
  /\ r.todo \in Seq(Allowed(r.conf))
  /\ AllRequested(r.conf, r.cols)

RunInv ==
  /\ DOMAIN run = Procs
  /\ DOMAIN pc = Procs
  /\ \A p \in Procs : Sound(run[p]) /\ (pc[p] # "idle" => run[p].conf \in Configs)

CacheInv ==
  cache # None =>
    \E c \in Configs :
      /\ cache.key = Key(c)
      /\ \A n \in DOMAIN cache.cols : Requested(c, n, Uncompressed(c, cache.cols)[n])

DiscoveryInv == conf \in Configs /\ RunInv /\ CacheInv

-----------------------------------------------------------------------------
(* Elements and places.                                                    *)

(* The places of an element are places.                                    *)
LEMMA NoPlaceIsNone ==
  ASSUME NEW c, NEW s, NEW x, c[s] \in Storages, x \in Names \cup {None}
  PROVE  PlaceOf(c, s, x) \in Places /\ PlaceOf(c, s, x) # None
<1>1. Root(c[s]) \in Places
  BY DEF Root, Places, Paths
<1>2. CASE x = None
  BY <1>1, <1>2, PlacesAssumption DEF PlaceOf, Child
<1>3. CASE x \in Names
  <2>1. Child(Root(c[s]), x) = [in |-> c[s], path |-> <<x>>] \/ x = None
    BY DEF Child, Root
  <2>2. [in |-> c[s], path |-> <<x>>] \in Places
    BY <1>3 DEF Places, Paths
  <2> QED BY <2>1, <2>2, <1>3, NamesAssumption, PlacesAssumption DEF PlaceOf
<1> QED BY <1>2, <1>3

(* The option "collections" is a list of elements.                         *)
LEMMA ShortcutsType ==
  ASSUME NEW c \in Configs
  PROVE  Shortcuts(c) \in Seq(Elements \cup {Named(None, None, None)})
<1> DEFINE S == Elements \cup {Named(None, None, None)}
<1>1. CASE c.collections = None
  <2>1. Named(None, None, None) \in S
    OBVIOUS
  <2>2. <<Named(None, None, None)>> \in Seq(S)
    BY <2>1
  <2> QED BY <1>1, <2>2 DEF Shortcuts
<1>2. CASE c.collections # None
  <2>1. c.collections \in Seq(Elements)
    BY <1>2, ConfigsAssumption DEF ValidCollections
  <2>2. Seq(Elements) \subseteq Seq(S)
    <3>1. Elements \subseteq S
      OBVIOUS
    <3> HIDE DEF S
    <3> QED BY <3>1
  <2> QED BY <1>2, <2>1, <2>2 DEF Shortcuts
<1> QED BY <1>1, <1>2

(* The name of an element in either storage is a name or None.             *)
LEMMA ElementNames ==
  ASSUME NEW e \in Elements \cup {Named(None, None, None)}
  PROVE  /\ IsFrom(e) => e.from \in Sides
         /\ ~ IsFrom(e) => \A s \in Sides : e[s] \in Names \cup {None}
<1>1. CASE \E s \in Sides : e = From(s)
  BY <1>1 DEF From, IsFrom
<1>2. CASE \E n \in Names \cup {None}, x, y \in Names \cup {None} : e = Named(n, x, y)
  BY <1>2 DEF Named, IsFrom, Sides
<1> QED BY <1>1, <1>2 DEF Elements

(* What a configuration keeps its collections at are places.               *)
LEMMA RequestedPlaces ==
  ASSUME NEW c \in Configs, NEW n, NEW places, Requested(c, n, places)
  PROVE  \A s \in Sides : places[s] \in Places /\ places[s] # None
<1> DEFINE Sc == Shortcuts(c)
<1>1. Sc \in Seq(Elements \cup {Named(None, None, None)})
  BY ShortcutsType
<1>2. \A s \in Sides : c[s] \in Storages
  BY ConfigsAssumption DEF Sides
<1>3. PICK k \in DOMAIN Sc :
        IF IsFrom(Sc[k])
          THEN n \in Names /\ \A s \in Sides : places[s] = PlaceOf(c, s, n)
          ELSE n = Sc[k].name /\ \A s \in Sides : places[s] = PlaceOf(c, s, Sc[k][s])
  BY DEF Requested
<1>4. Sc[k] \in Elements \cup {Named(None, None, None)}
  <2> HIDE DEF Sc
  <2> QED BY <1>1, <1>3
<1>5. CASE IsFrom(Sc[k])
  BY <1>2, <1>3, <1>5, NoPlaceIsNone
<1>6. CASE ~ IsFrom(Sc[k])
  <2>1. \A s \in Sides : Sc[k][s] \in Names \cup {None}
    BY <1>4, <1>6, ElementNames
  <2> QED BY <1>2, <1>3, <1>6, <2>1, NoPlaceIsNone
<1> QED BY <1>5, <1>6

-----------------------------------------------------------------------------
(* Elements and collections a configuration asks for.                      *)

(* Only the places on both sides matter.                                   *)
LEMMA RequestedSame ==
  ASSUME NEW c, NEW n, NEW places, NEW others, Requested(c, n, places),
         \A s \in Sides : others[s] = places[s]
  PROVE  Requested(c, n, others)
BY DEF Requested

(* Configurations with one key ask for the same collections.               *)
LEMMA SameKey ==
  ASSUME NEW c \in Configs, NEW d \in Configs, Key(c) = Key(d),
         NEW n, NEW places, Requested(c, n, places)
  PROVE  Requested(d, n, places)
<1>1. c.a = d.a /\ c.b = d.b /\ c.collections = d.collections
  BY DEF Key
<1>2. \A s \in Sides : c[s] = d[s]
  BY <1>1 DEF Sides
<1>3. Shortcuts(c) = Shortcuts(d)
  BY <1>1 DEF Shortcuts
<1>4. \A x : \A s \in Sides : PlaceOf(c, s, x) = PlaceOf(d, s, x)
  BY <1>2 DEF PlaceOf
<1> QED BY <1>3, <1>4 DEF Requested

(* Every element of the option is allowed.                                 *)
LEMMA ShortcutsAllowed ==
  ASSUME NEW c \in Configs
  PROVE  Shortcuts(c) \in Seq(Allowed(c))
<1> DEFINE Sc == Shortcuts(c)
<1>1. Sc \in Seq(Elements \cup {Named(None, None, None)})
  BY ShortcutsType
<1>2. ASSUME NEW k \in DOMAIN Sc
      PROVE  Sc[k] \in Allowed(c)
  <2>1. Sc[k] \in Elements \cup {Named(None, None, None)}
    <3> HIDE DEF Sc
    <3> QED BY <1>1
  <2>2. CASE IsFrom(Sc[k])
    BY <2>1, <2>2 DEF Allowed
  <2>3. CASE ~ IsFrom(Sc[k])
    <3>1. Requested(c, Sc[k].name, AsNamed(c, Sc[k]))
      BY <2>3 DEF Requested, AsNamed
    <3> QED BY <2>1, <2>3, <3>1 DEF Allowed
  <2> QED BY <2>2, <2>3
<1> HIDE DEF Sc
<1>3. Sc \in [1 .. Len(Sc) -> Allowed(c)]
  BY <1>1, <1>2
<1> QED BY <1>1, <1>3 DEF Sc

(* "from a" stands for collections of the same name on both sides.         *)
LEMMA ExpandedAllowed ==
  ASSUME NEW c \in Configs, NEW e \in Allowed(c), IsFrom(e),
         NEW S, S \subseteq Names, NEW q \in Orders(S)
  PROVE  SameNames(q) \in Seq(Allowed(c))
<1>1. IsFiniteSet(S) /\ Cardinality(S) \in Nat
  BY NamesAssumption, FS_Subset, FS_CardinalityType
<1>2. q \in [1 .. Cardinality(S) -> S]
  BY DEF Orders
<1>3. q \in Seq(S) /\ Len(q) \in Nat
  BY <1>1, <1>2
<1>4. ASSUME NEW n \in Names
      PROVE  Named(n, n, n) \in Allowed(c)
  <2>1. Named(n, n, n) \in Elements /\ ~ IsFrom(Named(n, n, n))
    BY DEF Elements, Named, IsFrom
  <2>2. PICK k \in DOMAIN Shortcuts(c) : Shortcuts(c)[k] = e
    BY DEF Allowed
  <2>3. \A s \in Sides : AsNamed(c, Named(n, n, n))[s] = PlaceOf(c, s, n)
    BY DEF AsNamed, Named, Sides
  <2>4. Requested(c, n, AsNamed(c, Named(n, n, n)))
    BY <2>2, <2>3 DEF Requested
  <2>5. Named(n, n, n).name = n
    BY DEF Named
  <2> QED BY <2>1, <2>4, <2>5 DEF Allowed
<1>5. \A k \in 1 .. Len(q) : q[k] \in Names
  BY <1>3
<1>6. SameNames(q) \in [1 .. Len(q) -> Allowed(c)]
  BY <1>4, <1>5 DEF SameNames
<1> QED BY <1>3, <1>6

(* What is saved is what is read again.                                    *)
LEMMA SavedBack ==
  ASSUME NEW c \in Configs, NEW cols, AllRequested(c, cols)
  PROVE  LET saved == Compressed(c, cols) IN
         /\ DOMAIN saved = DOMAIN cols
         /\ \A n \in DOMAIN cols, s \in Sides : Uncompressed(c, saved)[n][s] = cols[n][s]
<1> DEFINE saved == Compressed(c, cols)
           read == Uncompressed(c, saved)
<1>1. DOMAIN saved = DOMAIN cols
  BY DEF Compressed
<1>2. ASSUME NEW n \in DOMAIN cols, NEW s \in Sides
      PROVE  read[n][s] = cols[n][s]
  <2>1. cols[n][s] # None
    BY RequestedPlaces DEF AllRequested
  <2>2. saved[n][s] = IF cols[n][s] = Root(c[s]) THEN None ELSE cols[n][s]
    BY DEF Compressed
  <2>3. read[n][s] = IF saved[n][s] = None THEN Root(c[s]) ELSE saved[n][s]
    BY <1>1 DEF Uncompressed
  <2> QED BY <2>1, <2>2, <2>3
<1> QED BY <1>1, <1>2

LEMMA SavedIsRead ==
  ASSUME NEW c \in Configs, NEW cols, AllRequested(c, cols)
  PROVE  LET saved == Compressed(c, cols) IN
         /\ DOMAIN saved = DOMAIN cols
         /\ \A n \in DOMAIN saved : Requested(c, n, Uncompressed(c, saved)[n])
<1> DEFINE saved == Compressed(c, cols)
           read == Uncompressed(c, saved)
<1>1. DOMAIN saved = DOMAIN cols
  BY DEF Compressed
<1>2. ASSUME NEW n \in DOMAIN cols, NEW s \in Sides
      PROVE  read[n][s] = cols[n][s]
  BY SavedBack
<1>3. \A n \in DOMAIN saved : Requested(c, n, read[n])
  <2> SUFFICES ASSUME NEW n \in DOMAIN saved
               PROVE  Requested(c, n, read[n])
    OBVIOUS
  <2>1. Requested(c, n, cols[n])
    BY <1>1 DEF AllRequested
  <2>2. \A s \in Sides : read[n][s] = cols[n][s]
    BY <1>1, <1>2
  <2> HIDE DEF read, saved
  <2> QED BY <2>1, <2>2, RequestedSame
<1> QED BY <1>1, <1>3

-----------------------------------------------------------------------------
(* The invariant holds at the start, and every step keeps it.              *)

LEMMA GoneIsSound == Sound(Gone)
BY DEF Sound, Gone, Fresh, Fields, AllRequested, Sides

LEMMA InitInv == Init => DiscoveryInv
<1> SUFFICES ASSUME Init PROVE DiscoveryInv
  OBVIOUS
<1>1. RunInv
  BY GoneIsSound DEF Init, RunInv
<1> QED BY <1>1 DEF Init, DiscoveryInv, CacheInv

(* A step of one process that leaves its memory sound.                     *)
LEMMA OwnStep ==
  ASSUME RunInv, NEW p \in Procs, NEW r, NEW to, Sound(r),
         to # "idle" => r.conf \in Configs,
         run' = [run EXCEPT ![p] = r], pc' = [pc EXCEPT ![p] = to]
  PROVE  RunInv'
<1>1. \A q \in Procs : run'[q] = (IF q = p THEN r ELSE run[q])
                     /\ pc'[q] = (IF q = p THEN to ELSE pc[q])
  BY DEF RunInv
<1>2. DOMAIN run' = Procs /\ DOMAIN pc' = Procs
  BY DEF RunInv
<1> QED BY <1>1, <1>2 DEF RunInv, Sound

(* A command that ends leaves nothing behind but what it has saved.        *)
LEMMA EndInv ==
  ASSUME DiscoveryInv, NEW p \in Procs, NEW from, End(p, from), UNCHANGED cache
  PROVE  DiscoveryInv'
<1>1. RunInv'
  BY GoneIsSound, OwnStep DEF DiscoveryInv, End, Step
<1> QED BY <1>1 DEF DiscoveryInv, CacheInv, End, Step

(* A command that goes on, and leaves the saved file alone.                *)
LEMMA GoOnInv ==
  ASSUME DiscoveryInv, NEW p \in Procs, NEW from, NEW to, NEW r, from # "idle",
         Step(p, from, to), Remember(p, r), UNCHANGED cache,
         Sound(r), r.conf = run[p].conf
  PROVE  DiscoveryInv'
<1>1. r.conf \in Configs
  BY DEF DiscoveryInv, RunInv, Step
<1>2. RunInv'
  BY <1>1, OwnStep DEF DiscoveryInv, Step, Remember
<1> QED BY <1>2 DEF DiscoveryInv, CacheInv, Step

(* People change the configuration and the storages.                       *)
LEMMA PeopleInv ==
  ASSUME DiscoveryInv, Edited, conf' \in Configs
  PROVE  DiscoveryInv'
<1>1. RunInv'
  <2>1. \A q \in Procs : run'[q] = [run[q] EXCEPT !.calm = pc[q] = "idle"]
    BY DEF Edited
  <2>2. ASSUME NEW q \in Procs
        PROVE  Sound(run'[q]) /\ run'[q].conf = run[q].conf
    <3>1. Sound(run[q])
      BY DEF DiscoveryInv, RunInv
    <3>2. DOMAIN run'[q] = Fields /\ run'[q].conf = run[q].conf
          /\ run'[q].seen = run[q].seen /\ run'[q].todo = run[q].todo
          /\ run'[q].cols = run[q].cols
      BY <2>1, <3>1 DEF Sound, Fields
    <3> QED BY <3>1, <3>2 DEF Sound
  <2>3. DOMAIN run' = Procs /\ DOMAIN pc' = Procs /\ pc' = pc
    BY DEF Edited, DiscoveryInv, RunInv
  <2>4. \A q \in Procs : pc[q] # "idle" => run[q].conf \in Configs
    BY DEF DiscoveryInv, RunInv
  <2> QED BY <2>2, <2>3, <2>4 DEF RunInv
<1> QED BY <1>1 DEF DiscoveryInv, CacheInv, Edited

(* A command starts with the configuration of the moment.                  *)
LEMMA StartInv ==
  ASSUME DiscoveryInv, NEW p \in Procs, NEW command \in {"discover", "sync"},
         Start(p, command)
  PROVE  DiscoveryInv'
<1> DEFINE todo == IF command = "discover" THEN Shortcuts(conf) ELSE <<>>
           calm == \A q \in Procs : run[q].calm
           r == [Fresh(conf) EXCEPT !.todo = todo, !.calm = calm]
<1>1. conf \in Configs
  BY DEF DiscoveryInv
<1>2. todo \in Seq(Allowed(conf))
  <2>1. <<>> \in Seq(Allowed(conf))
    OBVIOUS
  <2> QED BY <1>1, <2>1, ShortcutsAllowed
<1>3. Sound(r) /\ r.conf = conf
  <2> HIDE DEF todo, calm
  <2> QED BY <1>2 DEF Sound, Fresh, Fields, AllRequested, Sides
<1>4. run' = [run EXCEPT ![p] = r] /\ pc' = [pc EXCEPT ![p] = command]
  BY DEF Start
<1>5. RunInv'
  <2> HIDE DEF r
  <2> QED BY <1>1, <1>3, <1>4, OwnStep DEF DiscoveryInv
<1> QED BY <1>5 DEF DiscoveryInv, CacheInv, Start

(* Elements that are taken off the list, or put before it, are allowed.    *)
LEMMA TodoType ==
  ASSUME DiscoveryInv, NEW p \in Procs, Expanding(p)
  PROVE  /\ run[p].conf \in Configs
         /\ Sound(run[p])
         /\ First(p) \in Allowed(run[p].conf)
         /\ Tail(run[p].todo) \in Seq(Allowed(run[p].conf))
<1>1. run[p].conf \in Configs /\ Sound(run[p])
  BY DEF DiscoveryInv, RunInv, Expanding
<1>2. run[p].todo \in Seq(Allowed(run[p].conf)) /\ run[p].todo # <<>>
  BY <1>1 DEF Sound, Expanding
<1> QED BY <1>1, <1>2, HeadTailProperties DEF First

LEMMA DiscoverInv ==
  ASSUME DiscoveryInv, NEW p \in Procs, NEW s \in Sides, Discover(p, s)
  PROVE  DiscoveryInv'
<1> DEFINE r == [run[p] EXCEPT !.seen[s] = Discovered(run[p].conf[s])]
<1>1. Sound(run[p])
  BY DEF DiscoveryInv, RunInv
<1>2. Discovered(run[p].conf[s]) \subseteq Names
  BY DEF Discovered
<1>3. /\ DOMAIN r = Fields /\ r.conf = run[p].conf /\ r.todo = run[p].todo
      /\ r.cols = run[p].cols
      /\ r.seen = [run[p].seen EXCEPT ![s] = Discovered(run[p].conf[s])]
  BY <1>1 DEF Sound, Fields
<1>4. Sound(r)
  <2>1. DOMAIN r.seen = Sides
    BY <1>1, <1>3 DEF Sound
  <2>2. \A s2 \in Sides : r.seen[s2] = None \/ r.seen[s2] \subseteq Names
    BY <1>1, <1>2, <1>3 DEF Sound
  <2> HIDE DEF r
  <2> QED BY <1>1, <1>3, <2>1, <2>2 DEF Sound
<1>5. Step(p, "discover", "discover") /\ Remember(p, r) /\ UNCHANGED cache
  BY DEF Discover
<1> HIDE DEF r
<1> QED BY <1>3, <1>4, <1>5, GoOnInv

(* A step that changes nothing of the memory but the elements still to be  *)
(* expanded and the collections resolved, and these to allowed ones.       *)
LEMMA SoundUpdate ==
  ASSUME NEW m, NEW r, Sound(m), DOMAIN r = Fields, r.conf = m.conf, r.seen = m.seen,
         r.todo \in Seq(Allowed(m.conf)), AllRequested(m.conf, r.cols)
  PROVE  Sound(r)
BY DEF Sound

LEMMA ExpandInv ==
  ASSUME DiscoveryInv, NEW p \in Procs, Expand(p)
  PROVE  DiscoveryInv'
<1> DEFINE e == First(p)
           c == run[p].conf
<1>1. c \in Configs /\ Sound(run[p]) /\ e \in Allowed(c)
      /\ Tail(run[p].todo) \in Seq(Allowed(c))
  BY TodoType DEF Expand
<1>2. IsFrom(e) /\ run[p].seen[e.from] # None
  BY DEF Expand
<1>3. PICK q \in Orders(run[p].seen[e.from]) :
        Remember(p, [run[p] EXCEPT !.todo = SameNames(q) \o Tail(@)])
  BY DEF Expand
<1>4. run[p].seen[e.from] \subseteq Names
  <2>1. e.from \in Sides
    BY <1>1, <1>2, ElementNames DEF Allowed
  <2> QED BY <1>1, <1>2, <2>1 DEF Sound
<1>5. SameNames(q) \in Seq(Allowed(c))
  BY <1>1, <1>2, <1>4, ExpandedAllowed
<1>6. SameNames(q) \o Tail(run[p].todo) \in Seq(Allowed(c))
  BY <1>1, <1>5, ConcatProperties
<1> DEFINE r == [run[p] EXCEPT !.todo = SameNames(q) \o Tail(@)]
<1>7. /\ DOMAIN r = Fields /\ r.conf = c /\ r.seen = run[p].seen
      /\ r.cols = run[p].cols /\ r.todo = SameNames(q) \o Tail(run[p].todo)
  BY <1>1 DEF Sound, Fields
<1>8. Step(p, "discover", "discover") /\ Remember(p, r) /\ UNCHANGED cache
  BY <1>3 DEF Expand
<1> HIDE DEF r
<1>9. Sound(r)
  BY <1>1, <1>6, <1>7, SoundUpdate DEF Sound
<1> QED BY <1>7, <1>8, <1>9, GoOnInv

LEMMA SkipInv ==
  ASSUME DiscoveryInv, NEW p \in Procs, Skip(p)
  PROVE  DiscoveryInv'
<1> DEFINE r == [run[p] EXCEPT !.todo = Tail(@)]
<1>1. Sound(run[p]) /\ Tail(run[p].todo) \in Seq(Allowed(run[p].conf))
  BY TodoType DEF Skip
<1>2. /\ DOMAIN r = Fields /\ r.conf = run[p].conf /\ r.seen = run[p].seen
      /\ r.cols = run[p].cols /\ r.todo = Tail(run[p].todo)
  BY <1>1 DEF Sound, Fields
<1>3. Step(p, "discover", "discover") /\ Remember(p, r) /\ UNCHANGED cache
  BY DEF Skip
<1> HIDE DEF r
<1>4. Sound(r)
  BY <1>1, <1>2, SoundUpdate DEF Sound
<1> QED BY <1>2, <1>3, <1>4, GoOnInv

LEMMA CreateInv ==
  ASSUME DiscoveryInv, NEW p \in Procs, NEW s \in Sides, Create(p, s)
  PROVE  DiscoveryInv'
<1> DEFINE r == [run[p] EXCEPT !.made[s] = @ \cup {First(p)[s]}]
<1>1. Sound(run[p])
  BY DEF DiscoveryInv, RunInv
<1>2. /\ DOMAIN r = Fields /\ r.conf = run[p].conf /\ r.seen = run[p].seen
      /\ r.cols = run[p].cols /\ r.todo = run[p].todo
  BY <1>1 DEF Sound, Fields
<1>3. Step(p, "discover", "discover") /\ Remember(p, r) /\ UNCHANGED cache
  BY DEF Create
<1> HIDE DEF r
<1>4. Sound(r)
  BY <1>1, <1>2, SoundUpdate DEF Sound
<1> QED BY <1>2, <1>3, <1>4, GoOnInv

(* An element that is resolved is a collection the configuration asks for. *)
LEMMA ResolveInv ==
  ASSUME DiscoveryInv, NEW p \in Procs, Resolve(p)
  PROVE  DiscoveryInv'
<1> DEFINE e == First(p)
           c == run[p].conf
           places == [s \in Sides |-> PlaceOf(c, s, e[s])]
           cols == With(run[p].cols, e.name, places)
           r == [run[p] EXCEPT !.todo = Tail(@), !.cols = cols]
<1>1. Sound(run[p]) /\ e \in Allowed(c) /\ Tail(run[p].todo) \in Seq(Allowed(c))
  BY TodoType DEF Resolve
<1>2. Requested(c, e.name, places)
  BY <1>1 DEF Resolve, Allowed, AsNamed
<1>3. AllRequested(c, cols)
  <2>1. AllRequested(c, run[p].cols)
    BY <1>1 DEF Sound
  <2>2. /\ DOMAIN cols = {e.name} \cup DOMAIN run[p].cols
        /\ \A n \in DOMAIN cols : cols[n] = IF n = e.name THEN places ELSE run[p].cols[n]
    BY DEF With
  <2> HIDE DEF cols, places
  <2> QED BY <1>2, <2>1, <2>2 DEF AllRequested
<1>4. Step(p, "discover", "discover") /\ UNCHANGED cache
  BY DEF Resolve
<1>5. Remember(p, r)
  BY DEF Resolve
<1> HIDE DEF cols
<1>6. /\ DOMAIN r = Fields /\ r.conf = c /\ r.seen = run[p].seen
      /\ r.cols = cols /\ r.todo = Tail(run[p].todo)
  BY <1>1 DEF Sound, Fields
<1> HIDE DEF r
<1>7. Sound(r)
  BY <1>1, <1>3, <1>6, SoundUpdate
<1> QED BY <1>4, <1>5, <1>6, <1>7, GoOnInv

LEMMA ExpandedInv ==
  ASSUME DiscoveryInv, NEW p \in Procs, Expanded(p)
  PROVE  DiscoveryInv'
<1> DEFINE r == [run[p] EXCEPT !.jobs = AllStorages(run[p].cols)]
<1>1. Sound(run[p])
  BY DEF DiscoveryInv, RunInv
<1>2. /\ DOMAIN r = Fields /\ r.conf = run[p].conf /\ r.seen = run[p].seen
      /\ r.cols = run[p].cols /\ r.todo = run[p].todo
  BY <1>1 DEF Sound, Fields
<1>3. Step(p, "discover", "check") /\ Remember(p, r) /\ UNCHANGED cache
  BY DEF Expanded
<1> HIDE DEF r
<1>4. Sound(r)
  BY <1>1, <1>2, SoundUpdate DEF Sound
<1> QED BY <1>2, <1>3, <1>4, GoOnInv

LEMMA OpenInv ==
  ASSUME DiscoveryInv, NEW p \in Procs, NEW n, NEW s, NEW from,
         OpenNext(p, n, s), from # "idle", Step(p, from, from)
  PROVE  DiscoveryInv'
<1> DEFINE r == [run[p] EXCEPT !.jobs = @ \ {<<n, s>>},
                               !.at = @ \cup {<<n, s, Opened(run[p].cols[n][s])>>}]
<1>1. Sound(run[p])
  BY DEF DiscoveryInv, RunInv
<1>2. /\ DOMAIN r = Fields /\ r.conf = run[p].conf /\ r.seen = run[p].seen
      /\ r.cols = run[p].cols /\ r.todo = run[p].todo
  BY <1>1 DEF Sound, Fields
<1>3. Remember(p, r) /\ UNCHANGED cache
  BY DEF OpenNext
<1> HIDE DEF r
<1>4. Sound(r)
  BY <1>1, <1>2, SoundUpdate DEF Sound
<1> QED BY <1>2, <1>3, <1>4, GoOnInv

(* What is saved is what the configuration that gave the key asks for.     *)
LEMMA SaveInv ==
  ASSUME DiscoveryInv, NEW p \in Procs, Save(p)
  PROVE  DiscoveryInv'
<1> DEFINE c == run[p].conf
<1>1. c \in Configs /\ AllRequested(c, run[p].cols)
  BY DEF DiscoveryInv, RunInv, Sound, Save
<1>2. RunInv'
  BY GoneIsSound, OwnStep DEF DiscoveryInv, Save, End, Step
<1>3. cache' = [key |-> Key(c), cols |-> Compressed(c, run[p].cols)]
  BY DEF Save
<1>4. cache'.key = Key(c) /\ cache'.cols = Compressed(c, run[p].cols)
  BY <1>3
<1>5. \A n \in DOMAIN cache'.cols : Requested(c, n, Uncompressed(c, cache'.cols)[n])
  BY <1>1, <1>4, SavedIsRead
<1>6. CacheInv'
  BY <1>1, <1>4, <1>5 DEF CacheInv
<1> QED BY <1>2, <1>6 DEF DiscoveryInv, Save, End, Step

(* What is read under its key is what the reader's configuration asks for. *)
LEMMA ReadCacheInv ==
  ASSUME DiscoveryInv, NEW p \in Procs, ReadCache(p)
  PROVE  DiscoveryInv'
<1> DEFINE c == run[p].conf
           all == Uncompressed(c, cache.cols)
<1>1. c \in Configs /\ Sound(run[p])
  BY DEF DiscoveryInv, RunInv, ReadCache
<1>2. cache # None /\ cache.key = Key(c)
  BY DEF ReadCache, IsUsable
<1>3. PICK chosen \in {DOMAIN cache.cols} \cup {{n} : n \in DOMAIN cache.cols} :
        Remember(p, [run[p] EXCEPT !.cols = [n \in chosen |-> all[n]],
                                   !.jobs = chosen \X Sides])
  BY DEF ReadCache
<1>4. chosen \subseteq DOMAIN cache.cols
  BY <1>3
<1>5. PICK d \in Configs :
        /\ Key(d) = Key(c)
        /\ \A n \in DOMAIN cache.cols : Requested(d, n, Uncompressed(d, cache.cols)[n])
  BY <1>2 DEF DiscoveryInv, CacheInv
<1>6. Uncompressed(d, cache.cols) = all
  <2>1. \A s \in Sides : Root(d[s]) = Root(c[s])
    BY <1>5 DEF Key, Sides
  <2> QED BY <2>1 DEF Uncompressed
<1>7. \A n \in DOMAIN cache.cols : Requested(c, n, all[n])
  <2> HIDE DEF all
  <2> QED BY <1>1, <1>5, <1>6, SameKey
<1> DEFINE cols == [n \in chosen |-> all[n]]
           r == [run[p] EXCEPT !.cols = cols, !.jobs = chosen \X Sides]
<1>8. AllRequested(c, cols)
  <2> HIDE DEF all
  <2> QED BY <1>4, <1>7 DEF AllRequested
<1>9. Remember(p, r) /\ Step(p, "sync", "open") /\ UNCHANGED cache
  BY <1>3 DEF ReadCache
<1> HIDE DEF cols
<1>10. /\ DOMAIN r = Fields /\ r.conf = c /\ r.seen = run[p].seen
       /\ r.cols = cols /\ r.todo = run[p].todo
  BY <1>1 DEF Sound, Fields
<1> HIDE DEF r
<1>11. Sound(r)
  BY <1>1, <1>8, <1>10, SoundUpdate DEF Sound
<1> QED BY <1>9, <1>10, <1>11, GoOnInv

LEMMA NextInv == DiscoveryInv /\ [Next]_vars => DiscoveryInv'
<1> SUFFICES ASSUME DiscoveryInv, [Next]_vars PROVE DiscoveryInv'
  OBVIOUS
<1>1. ASSUME NEW c \in Configs, EditConfig(c) PROVE DiscoveryInv'
  BY <1>1, PeopleInv DEF EditConfig
<1>2. ASSUME NEW st, NEW n, Add(st, n) PROVE DiscoveryInv'
  BY <1>2, PeopleInv DEF Add, DiscoveryInv
<1>3. ASSUME NEW place, Vanish(place) PROVE DiscoveryInv'
  BY <1>3, PeopleInv DEF Vanish, DiscoveryInv
<1>4. ASSUME NEW p \in Procs,
             \/ CacheMiss(p) \/ Finish(p) \/ Kill(p)
             \/ \E s \in Sides : DiscoverFails(p, s) \/ CreateFails(p, s)
      PROVE  DiscoveryInv'
  BY <1>4, EndInv DEF CacheMiss, Finish, Kill, DiscoverFails, CreateFails
<1>5. ASSUME NEW p \in Procs, NEW n, NEW s, Check(p, n, s) \/ Open(p, n, s)
      PROVE  DiscoveryInv'
  BY <1>5, OpenInv DEF Check, Open
<1>6. CASE UNCHANGED vars
  BY <1>6 DEF vars, DiscoveryInv, RunInv, CacheInv, Sound
<1> QED
  BY <1>1, <1>2, <1>3, <1>4, <1>5, <1>6, StartInv, DiscoverInv, CreateInv, ExpandInv,
     SkipInv, ResolveInv, ExpandedInv, SaveInv, ReadCacheInv DEF Next

-----------------------------------------------------------------------------
(* Whatever is saved, edited, removed or killed in between, a sync works   *)
(* on collections its own configuration asks for, where it keeps them      *)
(* (SyncStaysInConfig; collections_for_pair).                              *)
THEOREM SyncWithinConfig == Spec => []SyncStaysInConfig
<1>1. DiscoveryInv => SyncStaysInConfig
  BY DEF DiscoveryInv, RunInv, Sound, AllRequested, SyncStaysInConfig
<1> QED BY InitInv, NextInv, <1>1, PTL DEF Spec

-----------------------------------------------------------------------------
(* Directories and their parents.                                          *)

Top(st, m) == [in |-> st, path |-> <<m>>]
Nested(st, m) == [in |-> st, path |-> <<m, m>>]

LEMMA PlaceKinds ==
  ASSUME NEW q \in Places
  PROVE  /\ q.in \in Storages
         /\ \/ q = Root(q.in)
            \/ \E m \in Names : q = Top(q.in, m) \/ q = Nested(q.in, m)
BY DEF Places, Paths, Root, Top, Nested

LEMMA PlacesOfStorage ==
  ASSUME NEW st \in Storages, NEW m \in Names
  PROVE  /\ Root(st) \in Places /\ Top(st, m) \in Places /\ Nested(st, m) \in Places
         /\ Root(st).in = st /\ Top(st, m).in = st /\ Nested(st, m).in = st
         /\ Root(st).path = <<>> /\ Top(st, m).path = <<m>>
         /\ Nested(st, m).path = <<m, m>>
         /\ Top(st, m) # Root(st) /\ Nested(st, m) # Root(st)
         /\ \A k \in Names : Top(st, m) # Nested(st, k)
<1>1. Len(<<>>) = 0 /\ Len(<<m>>) = 1 /\ \A k : Len(<<k, k>>) = 2
  OBVIOUS
<1> QED BY <1>1 DEF Places, Paths, Root, Top, Nested

LEMMA PathPrefixes ==
  ASSUME NEW m \in Names, NEW k \in Names
  PROVE  /\ \A t \in {<<>>, <<m>>, <<m, m>>} : IsPrefix(<<>>, t) /\ IsPrefix(t, t)
         /\ IsPrefix(<<m>>, <<m, m>>)
         /\ ~ IsPrefix(<<m>>, <<>>) /\ ~ IsPrefix(<<m, m>>, <<>>)
         /\ ~ IsPrefix(<<k, k>>, <<m>>)
         /\ IsPrefix(<<k>>, <<m>>) => k = m
         /\ IsPrefix(<<k>>, <<m, m>>) => k = m
         /\ IsPrefix(<<k, k>>, <<m, m>>) => k = m
<1>1. /\ Len(<<>>) = 0 /\ Len(<<m>>) = 1 /\ Len(<<m, m>>) = 2
      /\ Len(<<k>>) = 1 /\ Len(<<k, k>>) = 2
  OBVIOUS
<1>2. \A t \in {<<>>, <<m>>, <<m, m>>} : SubSeq(t, 1, 0) = <<>>
  OBVIOUS
<1>3. ASSUME NEW n \in Names
      PROVE  /\ SubSeq(<<n>>, 1, 1) \in Seq(Names) /\ Len(SubSeq(<<n>>, 1, 1)) = 1
             /\ SubSeq(<<n>>, 1, 1)[1] = n
             /\ SubSeq(<<n, n>>, 1, 1) \in Seq(Names) /\ Len(SubSeq(<<n, n>>, 1, 1)) = 1
             /\ SubSeq(<<n, n>>, 1, 1)[1] = n
             /\ SubSeq(<<n, n>>, 1, 2)[1] = n
  <2>1. <<n>>[1] = n /\ <<n, n>>[1] = n /\ <<n, n>>[2] = n
    OBVIOUS
  <2>2. /\ \A i \in 1 .. 1 : <<n>>[i] \in Names /\ <<n, n>>[i] \in Names
        /\ \A i \in 1 .. 2 : <<n, n>>[i] \in Names
    BY <2>1
  <2>3. /\ SubSeq(<<n>>, 1, 1) \in Seq(Names) /\ Len(SubSeq(<<n>>, 1, 1)) = 1
        /\ SubSeq(<<n>>, 1, 1)[1] = <<n>>[1]
    BY <2>2, SubSeqProperties
  <2>4. /\ SubSeq(<<n, n>>, 1, 1) \in Seq(Names) /\ Len(SubSeq(<<n, n>>, 1, 1)) = 1
        /\ SubSeq(<<n, n>>, 1, 1)[1] = <<n, n>>[1]
    BY <2>2, SubSeqProperties
  <2>5. SubSeq(<<n, n>>, 1, 2)[1] = <<n, n>>[1]
    BY <2>2, SubSeqProperties
  <2> QED BY <2>1, <2>3, <2>4, <2>5
<1>4. SubSeq(<<m>>, 1, 1) = SubSeq(<<m, m>>, 1, 1)
  BY <1>3, SeqEqual
<1>6. \A t \in {<<>>, <<m>>, <<m, m>>} : IsPrefix(<<>>, t) /\ IsPrefix(t, t)
  BY <1>1, <1>2 DEF IsPrefix
<1>7. IsPrefix(<<m>>, <<m, m>>)
  BY <1>1, <1>4 DEF IsPrefix
<1>8. /\ ~ IsPrefix(<<m>>, <<>>) /\ ~ IsPrefix(<<m, m>>, <<>>)
      /\ ~ IsPrefix(<<k, k>>, <<m>>)
  BY <1>1 DEF IsPrefix
<1>9. /\ IsPrefix(<<k>>, <<m>>) => k = m
      /\ IsPrefix(<<k>>, <<m, m>>) => k = m
      /\ IsPrefix(<<k, k>>, <<m, m>>) => k = m
  BY <1>1, <1>3 DEF IsPrefix
<1> QED
  BY <1>6, <1>7, <1>8, <1>9

(* A directory, one in it, and one of the same name in this one.           *)
LEMMA Parents ==
  ASSUME NEW st \in Storages, NEW m \in Names
  PROVE  /\ WithParents(Root(st)) = {Root(st)}
         /\ WithParents(Top(st, m)) = {Root(st), Top(st, m)}
         /\ WithParents(Nested(st, m)) = {Root(st), Top(st, m), Nested(st, m)}
<1>1. /\ Root(st) \in Places /\ Top(st, m) \in Places /\ Nested(st, m) \in Places
      /\ Root(st).in = st /\ Top(st, m).in = st /\ Nested(st, m).in = st
      /\ Root(st).path = <<>> /\ Top(st, m).path = <<m>> /\ Nested(st, m).path = <<m, m>>
  BY PlacesOfStorage
<1>2. ASSUME NEW q \in Places, q.in = st
      PROVE  /\ IsPrefix(q.path, <<>>) <=> q = Root(st)
             /\ IsPrefix(q.path, <<m>>) <=> q \in {Root(st), Top(st, m)}
             /\ IsPrefix(q.path, <<m, m>>) <=> q \in {Root(st), Top(st, m), Nested(st, m)}
  <2>1. CASE q = Root(st)
    BY <1>1, <2>1, PathPrefixes
  <2>2. ASSUME NEW k \in Names, q = Top(st, k)
        PROVE  /\ IsPrefix(q.path, <<>>) <=> q = Root(st)
               /\ IsPrefix(q.path, <<m>>) <=> q \in {Root(st), Top(st, m)}
               /\ IsPrefix(q.path, <<m, m>>) <=> q \in {Root(st), Top(st, m), Nested(st, m)}
    <3>1. q.path = <<k>> /\ q # Root(st) /\ (\A j \in Names : q # Nested(st, j))
          /\ (q = Top(st, m) => k = m)
      BY <1>1, <2>2, PlacesOfStorage
    <3>2. k = m => q = Top(st, m)
      BY <2>2
    <3>3. /\ ~ IsPrefix(<<k>>, <<>>)
          /\ IsPrefix(<<k>>, <<m>>) <=> k = m
          /\ IsPrefix(<<k>>, <<m, m>>) <=> k = m
      BY PathPrefixes
    <3> QED BY <3>1, <3>2, <3>3
  <2>3. ASSUME NEW k \in Names, q = Nested(st, k)
        PROVE  /\ IsPrefix(q.path, <<>>) <=> q = Root(st)
               /\ IsPrefix(q.path, <<m>>) <=> q \in {Root(st), Top(st, m)}
               /\ IsPrefix(q.path, <<m, m>>) <=> q \in {Root(st), Top(st, m), Nested(st, m)}
    <3>1. q.path = <<k, k>> /\ q # Root(st) /\ q # Top(st, m)
          /\ (q = Nested(st, m) => k = m)
      BY <1>1, <2>3, PlacesOfStorage
    <3>2. k = m => q = Nested(st, m)
      BY <2>3
    <3>3. /\ ~ IsPrefix(<<k, k>>, <<>>)
          /\ ~ IsPrefix(<<k, k>>, <<m>>)
          /\ IsPrefix(<<k, k>>, <<m, m>>) <=> k = m
      BY PathPrefixes
    <3> QED BY <3>1, <3>2, <3>3
  <2> QED BY <1>2, <2>1, <2>2, <2>3, PlaceKinds
<1> QED BY <1>1, <1>2 DEF WithParents

LEMMA ParentsOfRoot ==
  ASSUME NEW st \in Storages
  PROVE  Root(st) \in Places /\ WithParents(Root(st)) = {Root(st)}
<1>1. Root(st) \in Places /\ Root(st).in = st /\ Root(st).path = <<>>
  BY DEF Root, Places, Paths
<1>2. IsPrefix(<<>>, <<>>)
  BY DEF IsPrefix
<1>3. ASSUME NEW q \in Places, q.in = st, IsPrefix(q.path, <<>>)
      PROVE  q = Root(st)
  <2>1. CASE \E m \in Names : q = Top(st, m) \/ q = Nested(st, m)
    BY <1>3, <2>1, Parents, PlacesOfStorage DEF WithParents
  <2> QED BY <1>3, <2>1, PlaceKinds
<1> QED BY <1>1, <1>2, <1>3 DEF WithParents

LEMMA OwnParent ==
  ASSUME NEW q \in Places
  PROVE  q \in WithParents(q)
BY PlaceKinds, Parents, ParentsOfRoot

(* The places a name or None leads to.                                     *)
LEMMA PlaceOfName ==
  ASSUME NEW c, NEW s, NEW x
  PROVE  PlaceOf(c, s, x) = IF x = None THEN Root(c[s]) ELSE Top(c[s], x)
BY DEF PlaceOf, Child, Root, Top

(* The directory create_collection makes when its path has the name of the *)
(* collection at its end already.                                          *)
LEMMA ChildOfPlace ==
  ASSUME NEW st \in Storages, NEW m \in Names
  PROVE  /\ Child(Root(st), Name(Root(st))) = Root(st)
         /\ Child(Top(st, m), Name(Top(st, m))) = Nested(st, m)
<1>1. Last(<<m>>) = m /\ Append(<<m>>, m) = <<m, m>> /\ <<m>> # <<>>
  <2>1. Len(<<m>>) = 1 /\ <<m>>[1] = m /\ <<m>> # <<>>
    OBVIOUS
  <2>2. Append(<<m>>, m) = <<m, m>>
    <3>1. /\ <<m>> \in Seq(Names) /\ <<m, m>> \in Seq(Names) /\ Len(<<m, m>>) = 2
          /\ <<m, m>>[1] = m /\ <<m, m>>[2] = m
      OBVIOUS
    <3>2. /\ Append(<<m>>, m) \in Seq(Names) /\ Len(Append(<<m>>, m)) = 2
          /\ Append(<<m>>, m)[1] = m /\ Append(<<m>>, m)[2] = m
      BY <2>1, <3>1, AppendProperties
    <3>3. \A i \in 1 .. Len(Append(<<m>>, m)) : Append(<<m>>, m)[i] = <<m, m>>[i]
      BY <3>1, <3>2
    <3> QED BY <3>1, <3>2, <3>3, SeqEqual
  <2>3. Last(<<m>>) = m
    BY <2>1 DEF Last
  <2> QED BY <2>1, <2>2, <2>3
<1> QED BY <1>1, NamesAssumption DEF Child, Name, Root, Top, Nested

(* A parent of a parent is a parent.                                       *)
LEMMA ParentsOfParents ==
  ASSUME NEW q \in Places, NEW r \in WithParents(q)
  PROVE  r \in Places /\ WithParents(r) \subseteq WithParents(q) /\ q \in WithParents(q)
<1>1. q.in \in Storages
  BY PlaceKinds
<1>2. CASE q = Root(q.in)
  <2>1. PICK st \in Storages : q = Root(st)
    BY <1>1, <1>2
  <2> QED BY <2>1, ParentsOfRoot
<1>3. ASSUME NEW m \in Names, q = Top(q.in, m)
      PROVE  r \in Places /\ WithParents(r) \subseteq WithParents(q) /\ q \in WithParents(q)
  <2>1. PICK st \in Storages : q = Top(st, m)
    BY <1>1, <1>3
  <2> QED BY <2>1, Parents, PlacesOfStorage
<1>4. ASSUME NEW m \in Names, q = Nested(q.in, m)
      PROVE  r \in Places /\ WithParents(r) \subseteq WithParents(q) /\ q \in WithParents(q)
  <2>1. PICK st \in Storages : q = Nested(st, m)
    BY <1>1, <1>4
  <2> QED BY <2>1, Parents, PlacesOfStorage
<1> QED BY <1>2, <1>3, <1>4, PlaceKinds

-----------------------------------------------------------------------------
(* A place that was discovered or made is there, or has been removed since *)
(* then.                                                                   *)

WorldInv ==
  /\ exist \subseteq Places
  /\ \A q \in exist : WithParents(q) \subseteq exist
  /\ \A st \in Storages : Root(st) \in exist \cup vanished
  /\ \A st \in Dav : Root(st) \in exist

(* What command r knows of is among the places there have been.            *)
Known(r, been) ==
  /\ DOMAIN r.made = Sides
  /\ \A s \in Sides :
       /\ r.seen[s] # None => \A n \in r.seen[s] : PlaceOf(r.conf, s, n) \in been
       /\ \A n \in r.made[s] : PlaceOf(r.conf, s, n) \in been
  /\ \A n \in DOMAIN r.cols, s \in Sides : r.cols[n][s] \in been

OpenedWell(r, gone) ==
  /\ r.jobs \subseteq AllStorages(r.cols)
  /\ \A j \in r.at : \/ j[3] = r.cols[j[1]][j[2]]
                      \/ r.cols[j[1]][j[2]] \in gone

CommandInv ==
  \A p \in Procs :
    /\ Known(run[p], exist \cup vanished)
    /\ OpenedWell(run[p], vanished)
    /\ pc[p] \in {"idle", "discover", "sync"} => run[p].at = {}

CachePlaces ==
  cache # None =>
    \A n \in DOMAIN cache.cols, s \in Sides :
      cache.cols[n][s] \in {None} \cup exist \cup vanished

OpenInvs == WorldInv /\ CommandInv /\ CachePlaces
PlacesInv == DiscoveryInv /\ OpenInvs

(* Nothing that has been there is forgotten.                               *)
Remembered ==
  /\ vanished \subseteq vanished'
  /\ exist \cup vanished \subseteq exist' \cup vanished'

LEMMA KnownStays ==
  ASSUME NEW r, NEW B, NEW C, B \subseteq C, Known(r, B)
  PROVE  Known(r, C)
BY DEF Known

LEMMA OpenedStays ==
  ASSUME NEW r, NEW B, NEW C, B \subseteq C, OpenedWell(r, B)
  PROVE  OpenedWell(r, C)
BY DEF OpenedWell

(* Nothing is wrong with what changes of a command's memory and leaves     *)
(* what it knows of, and what it opens, as it is.                          *)
LEMMA KnownSame ==
  ASSUME NEW r, NEW m, NEW B, Known(m, B), r.conf = m.conf, r.seen = m.seen,
         r.made = m.made, r.cols = m.cols
  PROVE  Known(r, B)
BY DEF Known

LEMMA FieldsOf ==
  ASSUME DiscoveryInv, NEW p \in Procs
  PROVE  DOMAIN run[p] = Fields /\ Sound(run[p]) /\ DOMAIN run = Procs /\ DOMAIN pc = Procs
BY DEF DiscoveryInv, RunInv, Sound

LEMMA OwnCommand ==
  ASSUME CommandInv, DiscoveryInv, Remembered, NEW p \in Procs, NEW r, NEW to,
         run' = [run EXCEPT ![p] = r], pc' = [pc EXCEPT ![p] = to],
         Known(r, exist' \cup vanished'), OpenedWell(r, vanished'),
         to \in {"idle", "discover", "sync"} => r.at = {}
  PROVE  CommandInv'
<1> SUFFICES ASSUME NEW q \in Procs
             PROVE  /\ Known(run'[q], exist' \cup vanished')
                    /\ OpenedWell(run'[q], vanished')
                    /\ pc'[q] \in {"idle", "discover", "sync"} => run'[q].at = {}
  BY DEF CommandInv
<1>1. DOMAIN run = Procs /\ DOMAIN pc = Procs
  BY FieldsOf
<1>2. CASE q = p
  BY <1>1, <1>2
<1>3. CASE q # p
  <2>1. run'[q] = run[q] /\ pc'[q] = pc[q]
    BY <1>1, <1>3
  <2>2. /\ Known(run[q], exist \cup vanished) /\ OpenedWell(run[q], vanished)
        /\ pc[q] \in {"idle", "discover", "sync"} => run[q].at = {}
    BY DEF CommandInv
  <2>3. Known(run[q], exist' \cup vanished') /\ OpenedWell(run[q], vanished')
    BY <2>2, KnownStays, OpenedStays DEF Remembered
  <2> QED BY <2>1, <2>2, <2>3
<1> QED BY <1>2, <1>3

LEMMA GoneKnown ==
  ASSUME NEW B
  PROVE  Known(Gone, B) /\ OpenedWell(Gone, B) /\ Gone.at = {}
BY DEF Known, OpenedWell, Gone, Fresh, AllStorages, Sides

(* Where places are made, and nobody removes one.                          *)
LEMMA Grown ==
  ASSUME WorldInv, NEW q \in Places, exist' = exist \cup WithParents(q),
         vanished' = vanished
  PROVE  WorldInv' /\ Remembered /\ q \in exist'
<1>1. /\ q \in WithParents(q)
      /\ \A x \in WithParents(q) : x \in Places /\ WithParents(x) \subseteq WithParents(q)
  <2>1. \A x \in WithParents(q) : x \in Places /\ WithParents(x) \subseteq WithParents(q)
    BY ParentsOfParents
  <2> QED BY <2>1, OwnParent
<1> QED BY <1>1 DEF WorldInv, Remembered

LEMMA SameWorld ==
  ASSUME WorldInv, UNCHANGED <<exist, vanished>>
  PROVE  WorldInv' /\ Remembered
BY DEF WorldInv, Remembered

LEMMA CacheStays ==
  ASSUME CachePlaces, Remembered, UNCHANGED cache
  PROVE  CachePlaces'
<1> SUFFICES ASSUME cache # None, NEW n \in DOMAIN cache.cols, NEW s \in Sides
             PROVE  cache.cols[n][s] \in {None} \cup exist' \cup vanished'
  BY DEF CachePlaces
<1> QED BY DEF CachePlaces, Remembered

(* The places of a collection are Root or Top of a storage.                *)
LEMMA RequestedKinds ==
  ASSUME NEW c \in Configs, NEW n, NEW places, Requested(c, n, places), NEW s \in Sides
  PROVE  /\ c[s] \in Storages
         /\ \E x \in Names \cup {None} : places[s] = PlaceOf(c, s, x)
<1>1. c[s] \in Storages
  BY ConfigsAssumption DEF Sides
<1>2. PICK k \in DOMAIN Shortcuts(c) :
        IF IsFrom(Shortcuts(c)[k])
          THEN n \in Names /\ places[s] = PlaceOf(c, s, n)
          ELSE n = Shortcuts(c)[k].name /\ places[s] = PlaceOf(c, s, Shortcuts(c)[k][s])
  BY DEF Requested
<1>3. Shortcuts(c)[k] \in Elements \cup {Named(None, None, None)}
  <2>1. Shortcuts(c) \in Seq(Elements \cup {Named(None, None, None)})
    BY ShortcutsType
  <2> QED BY <2>1
<1> QED BY <1>1, <1>2, <1>3, ElementNames

LEMMA PlaceIsPlace ==
  ASSUME NEW c \in Configs, NEW s \in Sides, NEW x \in Names \cup {None}
  PROVE  /\ PlaceOf(c, s, x) \in Places
         /\ PlaceOf(c, s, x).in = c[s] /\ c[s] \in Storages
         /\ Child(PlaceOf(c, s, x), Name(PlaceOf(c, s, x))) \in Places
         /\ PlaceOf(c, s, x)
              \in WithParents(Child(PlaceOf(c, s, x), Name(PlaceOf(c, s, x))))
<1>1. c[s] \in Storages
  BY ConfigsAssumption DEF Sides
<1>2. CASE x = None
  <2>1. Name(Root(c[s])) = None /\ Child(Root(c[s]), None) = Root(c[s])
    BY DEF Name, Root, Child
  <2>2. PlaceOf(c, s, x) = Root(c[s]) /\ Root(c[s]).in = c[s]
    BY <1>2, PlaceOfName DEF Root
  <2> QED BY <1>1, <2>1, <2>2, ParentsOfRoot
<1>3. CASE x # None
  <2>1. x \in Names /\ PlaceOf(c, s, x) = Top(c[s], x)
    BY <1>3, PlaceOfName
  <2>2. Child(Top(c[s], x), Name(Top(c[s], x))) = Nested(c[s], x)
    BY <1>1, <2>1, ChildOfPlace
  <2> QED BY <1>1, <2>1, <2>2, Parents, PlacesOfStorage
<1> QED BY <1>2, <1>3

LEMMA InitPlaces == Init => PlacesInv
<1> SUFFICES ASSUME Init PROVE PlacesInv
  OBVIOUS
<1>1. DiscoveryInv
  BY InitInv
<1>2. conf \in Configs /\ conf.a \in Storages /\ InitialNames \subseteq Names
  BY ConfigsAssumption, StoragesAssumption DEF Init
<1>3. \A n \in InitialNames : Child(Root(conf.a), n) = Top(conf.a, n)
  BY <1>2, NamesAssumption DEF Child, Root, Top
<1>4. ASSUME NEW q \in exist
      PROVE  q \in Places /\ WithParents(q) \subseteq exist
  <2>1. CASE q \in {Root(st) : st \in Storages}
    BY <2>1, ParentsOfRoot DEF Init
  <2>2. CASE q \in {Child(Root(conf.a), n) : n \in InitialNames}
    <3>1. PICK n \in InitialNames : q = Top(conf.a, n)
      BY <1>3, <2>2
    <3>2. n \in Names /\ WithParents(q) = {Root(conf.a), q} /\ q \in Places
      BY <1>2, <3>1, Parents, PlacesOfStorage
    <3> QED BY <1>2, <3>2 DEF Init
  <2> QED BY <2>1, <2>2 DEF Init
<1>5. WorldInv
  BY <1>4, StoragesAssumption DEF WorldInv, Init
<1>6. CommandInv
  BY GoneKnown DEF CommandInv, Init
<1> QED BY <1>1, <1>5, <1>6 DEF PlacesInv, OpenInvs, CachePlaces, Init

(* People change nothing of what a command knows.                          *)
LEMMA PeopleCommands ==
  ASSUME PlacesInv, Edited, Remembered
  PROVE  CommandInv' /\ CachePlaces'
<1>1. CachePlaces'
  BY CacheStays DEF PlacesInv, OpenInvs, Edited
<1>2. ASSUME NEW q \in Procs
      PROVE  /\ Known(run'[q], exist' \cup vanished')
             /\ OpenedWell(run'[q], vanished')
             /\ pc'[q] \in {"idle", "discover", "sync"} => run'[q].at = {}
  <2>1. DOMAIN run[q] = Fields
    BY FieldsOf DEF PlacesInv
  <2>2. run'[q] = [run[q] EXCEPT !.calm = pc[q] = "idle"] /\ pc' = pc
    BY DEF Edited
  <2>3. /\ run'[q].conf = run[q].conf /\ run'[q].seen = run[q].seen
        /\ run'[q].made = run[q].made /\ run'[q].cols = run[q].cols
        /\ run'[q].jobs = run[q].jobs /\ run'[q].at = run[q].at
    BY <2>1, <2>2 DEF Fields
  <2>4. /\ Known(run[q], exist' \cup vanished') /\ OpenedWell(run[q], vanished')
        /\ pc[q] \in {"idle", "discover", "sync"} => run[q].at = {}
    BY KnownStays, OpenedStays DEF PlacesInv, OpenInvs, CommandInv, Remembered
  <2>5. Known(run'[q], exist' \cup vanished')
    BY <2>3, <2>4, KnownSame
  <2>6. OpenedWell(run'[q], vanished')
    BY <2>3, <2>4 DEF OpenedWell
  <2> QED BY <2>2, <2>3, <2>4, <2>5, <2>6
<1> QED BY <1>1, <1>2 DEF CommandInv

LEMMA AddPlaces ==
  ASSUME PlacesInv, NEW st \in Storages, NEW n \in Names, Add(st, n)
  PROVE  OpenInvs'
<1>1. Child(Root(st), n) = Top(st, n) /\ Top(st, n) \in Places
  BY NamesAssumption, PlacesOfStorage DEF Child, Root, Top
<1>2. WorldInv' /\ Remembered
  BY <1>1, Grown DEF PlacesInv, OpenInvs, Add
<1> QED BY <1>2, PeopleCommands DEF Add, OpenInvs

LEMMA VanishPlaces ==
  ASSUME PlacesInv, NEW place \in Places, Vanish(place)
  PROVE  OpenInvs'
<1> DEFINE gone == {q \in exist : place \in WithParents(q)}
<1>1. exist' = exist \ gone /\ vanished' = vanished \cup gone
  BY DEF Vanish
<1>2. WorldInv
  BY DEF PlacesInv, OpenInvs
<1>3. Remembered
  BY <1>1 DEF Remembered
<1>4. ASSUME NEW q \in exist', NEW r \in WithParents(q)
      PROVE  r \in exist'
  <2>1. q \in exist /\ q \notin gone /\ r \in exist /\ q \in Places
    BY <1>1, <1>2 DEF WorldInv
  <2>2. r \in gone => place \in WithParents(q)
    BY <2>1, ParentsOfParents
  <2> QED BY <1>1, <2>1, <2>2
<1>5. ASSUME NEW st \in Dav PROVE Root(st) \in exist'
  <2>1. st \in Storages /\ Root(st) \in exist
    BY <1>2, StoragesAssumption DEF WorldInv
  <2>2. Root(st) \in gone => place = Root(st)
    BY <2>1, ParentsOfRoot
  <2>3. Root(st).in = st /\ Root(st).path = <<>>
    BY DEF Root
  <2>4. place.in \in Dav => place.path # <<>>
    BY DEF Vanish
  <2> QED BY <1>1, <2>1, <2>2, <2>3, <2>4
<1>6. WorldInv'
  <2>1. exist' \subseteq Places
    BY <1>1, <1>2 DEF WorldInv
  <2>2. \A st \in Storages : Root(st) \in exist' \cup vanished'
    BY <1>2, <1>3 DEF WorldInv, Remembered
  <2> QED BY <1>4, <1>5, <2>1, <2>2 DEF WorldInv
<1> QED BY <1>3, <1>6, PeopleCommands DEF Vanish, OpenInvs

LEMMA ConfigPlaces ==
  ASSUME PlacesInv, NEW c \in Configs, EditConfig(c)
  PROVE  OpenInvs'
<1>1. WorldInv' /\ Remembered
  BY SameWorld DEF PlacesInv, OpenInvs, EditConfig
<1> QED BY <1>1, PeopleCommands DEF EditConfig, OpenInvs

(* A step of a command that makes no place and saves nothing.              *)
LEMMA OwnPlaces ==
  ASSUME PlacesInv, NEW p \in Procs, NEW r, NEW from, NEW to,
         Step(p, from, to), Remember(p, r), UNCHANGED <<exist, cache>>,
         Known(r, exist \cup vanished), OpenedWell(r, vanished),
         to \in {"idle", "discover", "sync"} => r.at = {}
  PROVE  OpenInvs'
<1>1. WorldInv' /\ Remembered /\ vanished' = vanished /\ exist' = exist
  BY SameWorld DEF PlacesInv, OpenInvs, Step
<1>2. CommandInv'
  BY <1>1, OwnCommand DEF PlacesInv, OpenInvs, Step, Remember
<1>3. CachePlaces'
  BY <1>1, CacheStays DEF PlacesInv, OpenInvs
<1> QED BY <1>1, <1>2, <1>3 DEF OpenInvs

LEMMA EndPlaces ==
  ASSUME PlacesInv, NEW p \in Procs, NEW from, End(p, from), UNCHANGED <<exist, cache>>
  PROVE  OpenInvs'
<1>1. Step(p, from, "idle") /\ Remember(p, Gone)
  BY DEF End, Remember
<1> QED BY <1>1, GoneKnown, OwnPlaces

LEMMA KnownOf ==
  ASSUME PlacesInv, NEW p \in Procs
  PROVE  /\ Known(run[p], exist \cup vanished) /\ OpenedWell(run[p], vanished)
         /\ pc[p] \in {"idle", "discover", "sync"} => run[p].at = {}
         /\ DOMAIN run[p] = Fields /\ Sound(run[p])
         /\ pc[p] # "idle" => run[p].conf \in Configs
BY FieldsOf DEF PlacesInv, OpenInvs, CommandInv, DiscoveryInv, RunInv

LEMMA StartPlaces ==
  ASSUME PlacesInv, NEW p \in Procs, NEW command \in {"discover", "sync"},
         Start(p, command)
  PROVE  OpenInvs'
<1> DEFINE todo == IF command = "discover" THEN Shortcuts(conf) ELSE <<>>
           calm == \A q \in Procs : run[q].calm
           r == [Fresh(conf) EXCEPT !.todo = todo, !.calm = calm]
<1>1. /\ r.conf = conf /\ r.seen = [s \in Sides |-> None]
      /\ r.made = [s \in Sides |-> {}] /\ r.cols = <<>>
      /\ r.jobs = {} /\ r.at = {}
  <2> HIDE DEF todo, calm
  <2> QED BY DEF Fresh
<1>2. run' = [run EXCEPT ![p] = r] /\ pc' = [pc EXCEPT ![p] = command]
  BY DEF Start
<1> HIDE DEF r
<1>3. Known(r, exist \cup vanished) /\ OpenedWell(r, vanished)
  BY <1>1 DEF Known, OpenedWell
<1>4. WorldInv' /\ Remembered /\ vanished' = vanished /\ exist' = exist
  BY SameWorld DEF PlacesInv, OpenInvs, Start
<1>5. CommandInv'
  BY <1>1, <1>2, <1>3, <1>4, OwnCommand DEF PlacesInv, OpenInvs
<1>6. CachePlaces'
  BY <1>4, CacheStays DEF PlacesInv, OpenInvs, Start
<1> QED BY <1>4, <1>5, <1>6 DEF OpenInvs

LEMMA DiscoverPlaces ==
  ASSUME PlacesInv, NEW p \in Procs, NEW s \in Sides, Discover(p, s)
  PROVE  OpenInvs'
<1> DEFINE m == run[p]
           r == [run[p] EXCEPT !.seen[s] = Discovered(run[p].conf[s])]
<1>1. /\ Known(m, exist \cup vanished) /\ OpenedWell(m, vanished)
      /\ m.at = {} /\ DOMAIN m = Fields /\ DOMAIN m.seen = Sides
  BY KnownOf DEF Discover, Step, Sound
<1>2. /\ r.conf = m.conf /\ r.made = m.made /\ r.cols = m.cols
      /\ r.jobs = m.jobs /\ r.at = m.at
      /\ r.seen = [m.seen EXCEPT ![s] = Discovered(m.conf[s])]
  BY <1>1 DEF Fields
<1>3. \A n \in Discovered(m.conf[s]) : PlaceOf(m.conf, s, n) \in exist
  BY DEF Discovered, PlaceOf
<1>4. Step(p, "discover", "discover") /\ Remember(p, r) /\ UNCHANGED <<exist, cache>>
  BY DEF Discover
<1> HIDE DEF r, m
<1>5. \A t \in Sides :
        r.seen[t] = IF t = s THEN Discovered(m.conf[s]) ELSE m.seen[t]
  BY <1>1, <1>2
<1>6. Known(r, exist \cup vanished) /\ OpenedWell(r, vanished)
  BY <1>1, <1>2, <1>3, <1>5 DEF Known, OpenedWell
<1> QED BY <1>1, <1>2, <1>4, <1>6, OwnPlaces

(* A step that changes only what is still to be expanded.                  *)
LEMMA TodoPlaces ==
  ASSUME PlacesInv, NEW p \in Procs, NEW l,
         Step(p, "discover", "discover"), Remember(p, [run[p] EXCEPT !.todo = l]),
         UNCHANGED <<exist, cache>>
  PROVE  OpenInvs'
<1> DEFINE m == run[p]
           r == [run[p] EXCEPT !.todo = l]
<1>1. /\ Known(m, exist \cup vanished) /\ OpenedWell(m, vanished)
      /\ m.at = {} /\ DOMAIN m = Fields
  BY KnownOf DEF Step
<1>2. /\ r.conf = m.conf /\ r.seen = m.seen /\ r.made = m.made /\ r.cols = m.cols
      /\ r.jobs = m.jobs /\ r.at = m.at
  BY <1>1 DEF Fields
<1> HIDE DEF r, m
<1>3. Known(r, exist \cup vanished) /\ OpenedWell(r, vanished)
  BY <1>1, <1>2, KnownSame DEF OpenedWell
<1> QED BY <1>1, <1>2, <1>3, OwnPlaces DEF r

LEMMA ExpandPlaces ==
  ASSUME PlacesInv, NEW p \in Procs, Expand(p) \/ Skip(p)
  PROVE  OpenInvs'
<1>1. PICK l : Remember(p, [run[p] EXCEPT !.todo = l])
  BY DEF Expand, Skip
<1> QED BY <1>1, TodoPlaces DEF Expand, Skip

LEMMA ExpandedPlaces ==
  ASSUME PlacesInv, NEW p \in Procs, Expanded(p)
  PROVE  OpenInvs'
<1> DEFINE m == run[p]
           r == [run[p] EXCEPT !.jobs = AllStorages(run[p].cols)]
<1>1. /\ Known(m, exist \cup vanished) /\ OpenedWell(m, vanished)
      /\ m.at = {} /\ DOMAIN m = Fields
  BY KnownOf DEF Expanded, Step
<1>2. /\ r.conf = m.conf /\ r.seen = m.seen /\ r.made = m.made /\ r.cols = m.cols
      /\ r.jobs = AllStorages(m.cols) /\ r.at = m.at
  BY <1>1 DEF Fields
<1>3. Step(p, "discover", "check") /\ Remember(p, r) /\ UNCHANGED <<exist, cache>>
  BY DEF Expanded
<1> HIDE DEF r, m
<1>4. Known(r, exist \cup vanished) /\ OpenedWell(r, vanished)
  BY <1>1, <1>2, KnownSame DEF OpenedWell
<1> QED BY <1>1, <1>2, <1>3, <1>4, OwnPlaces

(* What is created is there from then on.                                  *)
LEMMA CreatePlaces ==
  ASSUME PlacesInv, NEW p \in Procs, NEW s \in Sides, Create(p, s)
  PROVE  OpenInvs'
<1> DEFINE m == run[p]
           x == First(p)[s]
           r == [run[p] EXCEPT !.made[s] = @ \cup {First(p)[s]}]
<1>1. /\ Known(m, exist \cup vanished) /\ OpenedWell(m, vanished)
      /\ m.at = {} /\ DOMAIN m = Fields /\ m.conf \in Configs
  BY KnownOf DEF Create, Step
<1>2. x \in Names \cup {None}
  <2>1. First(p) \in Elements \cup {Named(None, None, None)} /\ ~ IsFrom(First(p))
    BY TodoType DEF PlacesInv, Create, Allowed
  <2> QED BY <2>1, ElementNames
<1>3. PlaceOf(m.conf, s, x) \in Places
  BY <1>1, <1>2, PlaceIsPlace
<1>4. /\ exist' = exist \cup WithParents(PlaceOf(m.conf, s, x))
      /\ Remember(p, r) /\ vanished' = vanished /\ cache' = cache
      /\ pc' = [pc EXCEPT ![p] = "discover"]
  BY DEF Create, Step
<1>5. WorldInv' /\ Remembered /\ PlaceOf(m.conf, s, x) \in exist'
  BY <1>3, <1>4, Grown DEF PlacesInv, OpenInvs
<1>6. /\ r.conf = m.conf /\ r.seen = m.seen /\ r.cols = m.cols
      /\ r.jobs = m.jobs /\ r.at = m.at
      /\ r.made = [m.made EXCEPT ![s] = @ \cup {x}]
  BY <1>1 DEF Fields
<1> HIDE DEF r, m, x
<1>7. \A t \in Sides : \A n \in r.made[t] : n \in m.made[t] \/ (t = s /\ n = x)
  BY <1>1, <1>6 DEF Known
<1>8. Known(m, exist' \cup vanished') /\ OpenedWell(m, vanished')
  BY <1>1, <1>4, <1>5, KnownStays DEF Remembered
<1>9. Known(r, exist' \cup vanished') /\ OpenedWell(r, vanished')
  BY <1>5, <1>6, <1>7, <1>8 DEF Known, OpenedWell
<1>10. CommandInv'
  BY <1>1, <1>4, <1>5, <1>6, <1>9, OwnCommand DEF PlacesInv, OpenInvs, Remember
<1>11. CachePlaces'
  BY <1>4, <1>5, CacheStays DEF PlacesInv, OpenInvs
<1> QED BY <1>5, <1>10, <1>11 DEF OpenInvs

(* The places of an element that was found have been discovered or made.   *)
LEMMA ResolvePlaces ==
  ASSUME PlacesInv, NEW p \in Procs, Resolve(p)
  PROVE  OpenInvs'
<1> DEFINE m == run[p]
           e == First(p)
           places == [s \in Sides |-> PlaceOf(m.conf, s, e[s])]
           cols == With(m.cols, e.name, places)
           r == [run[p] EXCEPT !.todo = Tail(@), !.cols = cols]
<1>1. /\ Known(m, exist \cup vanished) /\ OpenedWell(m, vanished)
      /\ m.at = {} /\ DOMAIN m = Fields /\ m.conf \in Configs
  BY KnownOf DEF Resolve, Step
<1>2. ASSUME NEW s \in Sides
      PROVE  PlaceOf(m.conf, s, e[s]) \in exist \cup vanished
  <2>1. Found(p, e, s)
    BY DEF Resolve
  <2>2. CASE e[s] = None
    <3>1. PlaceOf(m.conf, s, e[s]) = Root(m.conf[s]) /\ m.conf[s] \in Storages
      BY <1>1, <2>2, PlaceOfName, ConfigsAssumption DEF Sides
    <3> QED BY <3>1 DEF PlacesInv, OpenInvs, WorldInv
  <2>3. CASE m.seen[s] # None /\ e[s] \in m.seen[s]
    BY <1>1, <2>3 DEF Known
  <2>4. CASE e[s] \in m.made[s]
    BY <1>1, <2>4 DEF Known
  <2> QED BY <2>1, <2>2, <2>3, <2>4 DEF Found
<1>3. \A s \in Sides : places[s] \in exist \cup vanished
  BY <1>2
<1>4. Step(p, "discover", "discover") /\ UNCHANGED <<exist, cache>>
  BY DEF Resolve
<1>5. Remember(p, r)
  BY DEF Resolve
<1> HIDE DEF places
<1>6. /\ DOMAIN cols = {e.name} \cup DOMAIN m.cols
      /\ \A n \in DOMAIN cols : cols[n] = IF n = e.name THEN places ELSE m.cols[n]
  BY DEF With
<1> HIDE DEF cols
<1>7. /\ r.conf = m.conf /\ r.seen = m.seen /\ r.made = m.made /\ r.cols = cols
      /\ r.jobs = m.jobs /\ r.at = m.at
  BY <1>1 DEF Fields
<1> HIDE DEF r, m, e
<1>8. \A n \in DOMAIN cols, s \in Sides : cols[n][s] \in exist \cup vanished
  BY <1>1, <1>3, <1>6 DEF Known
<1>9. Known(r, exist \cup vanished)
  BY <1>1, <1>7, <1>8 DEF Known
<1>10. OpenedWell(r, vanished)
  BY <1>1, <1>6, <1>7 DEF OpenedWell, AllStorages
<1> QED BY <1>1, <1>4, <1>5, <1>7, <1>9, <1>10, OwnPlaces

(* The place that a storage is opened at.                                  *)
LEMMA OpenedPlace ==
  ASSUME PlacesInv, NEW p \in Procs, pc[p] # "idle", NEW n, NEW s, <<n, s>> \in run[p].jobs
  PROVE  /\ n \in DOMAIN run[p].cols /\ s \in Sides
         /\ run[p].conf \in Configs
         /\ \E x \in Names \cup {None} : run[p].cols[n][s] = PlaceOf(run[p].conf, s, x)
         /\ run[p].cols[n][s] \in exist \cup vanished
<1>1. /\ Known(run[p], exist \cup vanished) /\ OpenedWell(run[p], vanished)
      /\ Sound(run[p]) /\ run[p].conf \in Configs
  BY KnownOf
<1>2. n \in DOMAIN run[p].cols /\ s \in Sides
  BY <1>1 DEF OpenedWell, AllStorages
<1>3. Requested(run[p].conf, n, run[p].cols[n])
  BY <1>1, <1>2 DEF Sound, AllRequested
<1> QED BY <1>1, <1>2, <1>3, RequestedKinds DEF Known

(* The directories there are after a storage was opened.                   *)
LEMMA OpenedWorld ==
  ASSUME PlacesInv, NEW c \in Configs, NEW s \in Sides, NEW x \in Names \cup {None},
         NEW place, place = PlaceOf(c, s, x), exist' = ExistAfter(place),
         vanished' = vanished
  PROVE  /\ WorldInv' /\ Remembered
         /\ IsDir(place) => place \in exist'
         /\ exist' = exist \/ (place \notin exist
                                /\ exist' = exist \cup WithParents(Child(place, Name(place))))
<1>1. /\ place \in Places /\ Child(place, Name(place)) \in Places
      /\ place \in WithParents(Child(place, Name(place)))
  BY PlaceIsPlace
<1>2. WorldInv
  BY DEF PlacesInv, OpenInvs
<1>3. CASE ~ IsDir(place)
  BY <1>2, <1>3, SameWorld DEF ExistAfter
<1>4. CASE IsDir(place) /\ place \in exist
  <2>1. WithParents(place) \subseteq exist /\ Opened(place) = place
    BY <1>2, <1>4 DEF WorldInv, Opened
  <2>2. exist' = exist
    BY <1>4, <2>1 DEF ExistAfter
  <2> QED BY <1>2, <1>4, <2>2, SameWorld
<1>5. CASE IsDir(place) /\ place \notin exist
  <2>1. exist' = exist \cup WithParents(Child(place, Name(place)))
    BY <1>5 DEF ExistAfter, Opened
  <2>2. WorldInv' /\ Remembered
    BY <1>1, <1>2, <2>1, Grown
  <2> QED BY <1>1, <1>5, <2>1, <2>2
<1> QED BY <1>3, <1>4, <1>5

LEMMA OpenPlaces ==
  ASSUME PlacesInv, NEW p \in Procs, NEW n, NEW s, NEW from \in {"check", "open"},
         OpenNext(p, n, s), Step(p, from, from)
  PROVE  OpenInvs'
<1> DEFINE m == run[p]
<1>0. <<n, s>> \in m.jobs /\ pc[p] # "idle"
  BY DEF OpenNext, Step
<1>1. PICK place : place = m.cols[n][s]
  OBVIOUS
<1>2. /\ Known(m, exist \cup vanished) /\ OpenedWell(m, vanished) /\ DOMAIN m = Fields
  BY KnownOf
<1>3. /\ m.conf \in Configs /\ s \in Sides
      /\ \E x \in Names \cup {None} : place = PlaceOf(m.conf, s, x)
      /\ place \in exist \cup vanished
  BY <1>0, <1>1, OpenedPlace
<1> DEFINE r == [run[p] EXCEPT !.jobs = @ \ {<<n, s>>},
                               !.at = @ \cup {<<n, s, Opened(place)>>}]
<1>4. /\ exist' = ExistAfter(place) /\ vanished' = vanished /\ cache' = cache
      /\ Remember(p, r) /\ pc' = [pc EXCEPT ![p] = from]
  BY <1>1 DEF OpenNext, Step
<1>5. WorldInv' /\ Remembered
  BY <1>3, <1>4, OpenedWorld
<1>6. Opened(place) = place \/ place \in vanished
  BY <1>3 DEF Opened
<1>7. PICK at : at = Opened(place)
  OBVIOUS
<1>8. /\ r.conf = m.conf /\ r.seen = m.seen /\ r.made = m.made /\ r.cols = m.cols
      /\ r.jobs = m.jobs \ {<<n, s>>} /\ r.at = m.at \cup {<<n, s, at>>}
  BY <1>2, <1>7 DEF Fields
<1> HIDE DEF r, m
<1>9. Known(r, exist' \cup vanished')
  <2>1. Known(m, exist' \cup vanished')
    BY <1>2, <1>5, KnownStays DEF Remembered
  <2> QED BY <1>8, <2>1, KnownSame
<1>10. OpenedWell(r, vanished')
  <2>1. r.jobs \subseteq AllStorages(r.cols)
    BY <1>2, <1>8 DEF OpenedWell
  <2>2. ASSUME NEW j \in r.at
        PROVE  j[3] = r.cols[j[1]][j[2]] \/ r.cols[j[1]][j[2]] \in vanished
    <3>1. CASE j \in m.at
      BY <1>2, <1>8, <3>1 DEF OpenedWell
    <3>2. CASE j = <<n, s, at>>
      <4>1. j[1] = n /\ j[2] = s /\ j[3] = at
        BY <3>2
      <4> QED BY <1>1, <1>6, <1>7, <1>8, <4>1 DEF m
    <3> QED BY <1>8, <3>1, <3>2
  <2> QED BY <1>4, <2>1, <2>2 DEF OpenedWell
<1>11. CommandInv'
  BY <1>4, <1>5, <1>9, <1>10, OwnCommand DEF PlacesInv, OpenInvs, Remember
<1>12. CachePlaces'
  BY <1>4, <1>5, CacheStays DEF PlacesInv, OpenInvs
<1> QED BY <1>5, <1>11, <1>12 DEF OpenInvs

(* What is saved has been discovered or made, and so has what is read.     *)
LEMMA SavePlaces ==
  ASSUME PlacesInv, NEW p \in Procs, Save(p)
  PROVE  OpenInvs'
<1> DEFINE m == run[p]
<1>1. Known(m, exist \cup vanished)
  BY KnownOf
<1>2. WorldInv' /\ Remembered /\ vanished' = vanished /\ exist' = exist
  BY SameWorld DEF PlacesInv, OpenInvs, Save, End, Step
<1>3. CommandInv'
  BY <1>2, GoneKnown, OwnCommand DEF PlacesInv, OpenInvs, Save, End, Step
<1>4. cache'.cols = Compressed(m.conf, m.cols)
  BY DEF Save
<1>5. ASSUME NEW n \in DOMAIN cache'.cols, NEW s \in Sides
      PROVE  cache'.cols[n][s] \in {None} \cup exist \cup vanished
  <2>1. n \in DOMAIN m.cols
        /\ cache'.cols[n][s] = IF m.cols[n][s] = Root(m.conf[s]) THEN None ELSE m.cols[n][s]
    BY <1>4 DEF Compressed
  <2> QED BY <1>1, <2>1 DEF Known
<1>6. CachePlaces'
  BY <1>2, <1>5 DEF CachePlaces
<1> QED BY <1>2, <1>3, <1>6 DEF OpenInvs

LEMMA ReadPlaces ==
  ASSUME PlacesInv, NEW p \in Procs, ReadCache(p)
  PROVE  OpenInvs'
<1> DEFINE m == run[p]
           all == Uncompressed(m.conf, cache.cols)
<1>1. /\ Known(m, exist \cup vanished) /\ m.at = {} /\ DOMAIN m = Fields
      /\ m.conf \in Configs
  BY KnownOf DEF ReadCache, Step
<1>2. PICK chosen \in {DOMAIN cache.cols} \cup {{n} : n \in DOMAIN cache.cols} :
        Remember(p, [run[p] EXCEPT !.cols = [n \in chosen |-> all[n]],
                                   !.jobs = chosen \X Sides])
  BY DEF ReadCache
<1>3. chosen \subseteq DOMAIN cache.cols /\ cache # None
  BY <1>2 DEF ReadCache, IsUsable
<1>4. ASSUME NEW n \in chosen, NEW s \in Sides
      PROVE  all[n][s] \in exist \cup vanished
  <2>1. all[n][s] = IF cache.cols[n][s] = None THEN Root(m.conf[s]) ELSE cache.cols[n][s]
    BY <1>3 DEF Uncompressed
  <2>2. Root(m.conf[s]) \in exist \cup vanished
    <3>1. m.conf[s] \in Storages
      BY <1>1, ConfigsAssumption DEF Sides
    <3> QED BY <3>1 DEF PlacesInv, OpenInvs, WorldInv
  <2>3. cache.cols[n][s] \in {None} \cup exist \cup vanished
    BY <1>3 DEF PlacesInv, OpenInvs, CachePlaces
  <2> QED BY <2>1, <2>2, <2>3
<1> DEFINE cols == [n \in chosen |-> all[n]]
           r == [run[p] EXCEPT !.cols = cols, !.jobs = chosen \X Sides]
<1>5. Remember(p, r) /\ Step(p, "sync", "open") /\ UNCHANGED <<exist, cache>>
  BY <1>2 DEF ReadCache
<1> HIDE DEF all
<1>6. DOMAIN cols = chosen /\ \A n \in chosen : cols[n] = all[n]
  OBVIOUS
<1> HIDE DEF cols
<1>7. /\ r.conf = m.conf /\ r.seen = m.seen /\ r.made = m.made /\ r.cols = cols
      /\ r.jobs = chosen \X Sides /\ r.at = m.at
  BY <1>1 DEF Fields
<1> HIDE DEF r, m
<1>8. Known(r, exist \cup vanished)
  BY <1>1, <1>4, <1>6, <1>7 DEF Known
<1>9. OpenedWell(r, vanished)
  BY <1>1, <1>6, <1>7 DEF OpenedWell, AllStorages
<1> QED BY <1>1, <1>5, <1>7, <1>8, <1>9, OwnPlaces

LEMMA NextPlaces == PlacesInv /\ [Next]_vars => PlacesInv'
<1> SUFFICES ASSUME PlacesInv, [Next]_vars PROVE OpenInvs'
  BY NextInv DEF PlacesInv
<1>1. ASSUME NEW p \in Procs,
             \/ CacheMiss(p) \/ Finish(p) \/ Kill(p)
             \/ \E s \in Sides : DiscoverFails(p, s) \/ CreateFails(p, s)
      PROVE  OpenInvs'
  BY <1>1, EndPlaces DEF CacheMiss, Finish, Kill, DiscoverFails, CreateFails
<1>2. ASSUME NEW p \in Procs, NEW n, NEW s, Check(p, n, s) \/ Open(p, n, s)
      PROVE  OpenInvs'
  BY <1>2, OpenPlaces DEF Check, Open
<1>3. CASE UNCHANGED vars
  BY <1>3 DEF vars, PlacesInv, OpenInvs, WorldInv, CommandInv, CachePlaces
<1> QED
  BY <1>1, <1>2, <1>3, ConfigPlaces, AddPlaces, VanishPlaces, StartPlaces,
     DiscoverPlaces, CreatePlaces, ExpandPlaces, ResolvePlaces, ExpandedPlaces,
     SavePlaces, ReadPlaces DEF Next

(* A storage is opened at the place discovery found or made, or else this  *)
(* place has been removed by people (OpenedWhereDiscovered; the constructor*)
(* and create_collection that storage_instance_from_config calls).         *)
THEOREM AlwaysOpenedWhereDiscovered == Spec => []OpenedWhereDiscovered
<1>1. PlacesInv => OpenedWhereDiscovered
  BY DEF PlacesInv, OpenInvs, CommandInv, OpenedWell, OpenedWhereDiscovered
<1> QED BY InitPlaces, NextPlaces, <1>1, PTL DEF Spec

-----------------------------------------------------------------------------
(* What an undisturbed discovery still has to do.  E and V are the places  *)
(* there are and those removed; other commands only add to E.              *)

Has(c, s, E) == {n \in Names : Child(Root(c[s]), n) \in E}

Wants(c, E, n) ==
  \E k \in DOMAIN Shortcuts(c) :
    LET e == Shortcuts(c)[k] IN
    IF IsFrom(e) THEN n \in Has(c, e.from, E) ELSE n = e.name

Revived(c, V, n) == \E s \in Sides : PlaceOf(c, s, n) \in V

(* Where all that is new has been there before.                            *)
Growth(c, E, F, V) ==
  /\ E \subseteq F
  /\ NamesFound(c) =>
       \A n \in Names \cup {None} : Wants(c, F, n) => Wants(c, E, n) \/ Revived(c, V, n)

Sight(r, s, E) == IF r.seen[s] = None THEN Has(r.conf, s, E) ELSE r.seen[s]

(* What was seen or made is still there.                                   *)
Sighted(r, E) ==
  \A s \in Sides :
    /\ r.seen[s] # None => r.seen[s] \subseteq Has(r.conf, s, E)
    /\ \A n \in r.made[s] : PlaceOf(r.conf, s, n) \in E

(* Only what the configuration stands for is worked on ...                 *)
Within(r, E) ==
  /\ \A k \in DOMAIN r.todo : ~ IsFrom(r.todo[k]) => Wants(r.conf, E, r.todo[k].name)
  /\ \A n \in DOMAIN r.cols : Wants(r.conf, E, n)

(* ... and nothing of it is forgotten.                                     *)
InTodo(r, E, n) ==
  \E k \in DOMAIN r.todo :
    IF IsFrom(r.todo[k]) THEN n \in Sight(r, r.todo[k].from, E) ELSE n = r.todo[k].name

Covered(r, E, V, n) == n \in DOMAIN r.cols \/ InTodo(r, E, n) \/ Revived(r.conf, V, n)

CoversAll(r, E, V) ==
  NamesFound(r.conf) =>
    \A n \in Names \cup {None} : Wants(r.conf, E, n) => Covered(r, E, V, n)

(* The places are there, but for a directory without a name, which is made *)
(* when it is opened.                                                      *)
Standing(r, at, E) ==
  \A n \in DOMAIN r.cols, s \in Sides :
    \/ r.cols[n][s] \in E
    \/ r.cols[n][s] = Root(r.conf[s]) /\ (at = "discover" \/ <<n, s>> \in r.jobs)

Doing(r, at, E, V) ==
  /\ Sighted(r, E)
  /\ Within(r, E)
  /\ CoversAll(r, E, V)
  /\ Standing(r, at, E)
  /\ at = "check" => r.todo = <<>>

(* Commands are calm all together, and work on the configuration in use.   *)
AllCalm == \A q \in Procs : run[q].calm

CalmInv ==
  /\ \A p \in Procs : pc[p] = "idle" => run[p] = Gone
  /\ \A p \in Procs : run[p].calm \in BOOLEAN
  /\ \A p \in Procs : pc[p] # "idle" /\ run[p].calm => run[p].conf = conf /\ AllCalm
  /\ settled => AllCalm

ProgressInv ==
  \A p \in Procs :
    pc[p] \in {"discover", "check"} /\ run[p].calm =>
      Doing(run[p], pc[p], exist, vanished)

SettledInv ==
  settled =>
    /\ cache # None /\ cache.key = Key(conf)
    /\ \A n \in DOMAIN cache.cols : Wants(conf, exist, n)
    /\ NamesFound(conf) =>
         \A n \in Names \cup {None} :
           Wants(conf, exist, n) => n \in DOMAIN cache.cols \/ Revived(conf, vanished, n)
    /\ \A n \in DOMAIN cache.cols, s \in Sides :
         Uncompressed(conf, cache.cols)[n][s] \in exist

CompleteInv == PlacesInv /\ CalmInv /\ ProgressInv /\ SettledInv

LEMMA WantedIs ==
  ASSUME NEW c, NEW n
  PROVE  n \in Wanted(c) <=> Wants(c, exist, n)
<1>1. \A s : Discovered(c[s]) = Has(c, s, exist)
  BY DEF Discovered, Has
<1> QED BY <1>1 DEF Wanted, Wants

LEMMA WantedNames ==
  ASSUME NEW c \in Configs, NEW E, NEW n, Wants(c, E, n)
  PROVE  n \in Names \cup {None}
<1> DEFINE Sc == Shortcuts(c)
<1>1. Sc \in Seq(Elements \cup {Named(None, None, None)})
  BY ShortcutsType
<1>2. PICK k \in DOMAIN Sc : IF IsFrom(Sc[k]) THEN n \in Has(c, Sc[k].from, E)
                                                ELSE n = Sc[k].name
  BY DEF Wants
<1>3. Sc[k] \in Elements \cup {Named(None, None, None)}
  <2> HIDE DEF Sc
  <2> QED BY <1>1
<1>4. ~ IsFrom(Sc[k]) => Sc[k].name \in Names \cup {None}
  <2> HIDE DEF Sc
  <2> QED BY <1>3 DEF Elements, Named, From, IsFrom
<1> QED BY <1>2, <1>4 DEF Has

LEMMA WantsMore ==
  ASSUME NEW c, NEW E, NEW F, E \subseteq F, NEW n, Wants(c, E, n)
  PROVE  Wants(c, F, n)
BY DEF Wants, Has

(* Names are discovered where their places are.                            *)
LEMMA HasPlace ==
  ASSUME NEW c, NEW s, NEW n \in Names, NEW E
  PROVE  n \in Has(c, s, E) <=> Top(c[s], n) \in E
<1>1. Child(Root(c[s]), n) = Top(c[s], n)
  BY NamesAssumption DEF Child, Root, Top
<1> QED BY <1>1 DEF Has

LEMMA SamePlace ==
  ASSUME NEW c, NEW d, NEW s, NEW t, NEW x, NEW n \in Names,
         PlaceOf(c, s, x) = Top(d[t], n)
  PROVE  c[s] = d[t] /\ x = n
<1>1. /\ Top(d[t], n).in = d[t] /\ Top(d[t], n).path = <<n>>
      /\ Root(c[s]).path = <<>> /\ Top(c[s], x).in = c[s] /\ Top(c[s], x).path = <<x>>
  BY DEF Top, Root
<1>2. <<n>> # <<>> /\ (<<x>> = <<n>> => x = n)
  OBVIOUS
<1> QED BY <1>1, <1>2, PlaceOfName

LEMMA DoingStays ==
  ASSUME NEW r, NEW at, NEW E, NEW F, NEW V, Doing(r, at, E, V), Growth(r.conf, E, F, V)
  PROVE  Doing(r, at, F, V)
<1>1. E \subseteq F
  BY DEF Growth
<1>2. \A s \in Sides : Has(r.conf, s, E) \subseteq Has(r.conf, s, F)
  BY <1>1 DEF Has
<1>3. Sighted(r, F)
  BY <1>1, <1>2 DEF Doing, Sighted
<1>4. Within(r, F)
  BY <1>1, WantsMore DEF Doing, Within
<1>5. CoversAll(r, F, V)
  <2> SUFFICES ASSUME NamesFound(r.conf), NEW n \in Names \cup {None}, Wants(r.conf, F, n)
               PROVE  Covered(r, F, V, n)
    BY DEF CoversAll
  <2>1. CASE Revived(r.conf, V, n)
    BY <2>1 DEF Covered
  <2>2. CASE Wants(r.conf, E, n)
    <3>1. Covered(r, E, V, n)
      BY <2>2 DEF Doing, CoversAll
    <3>2. ASSUME InTodo(r, E, n) PROVE InTodo(r, F, n)
      <4>1. PICK k \in DOMAIN r.todo :
              IF IsFrom(r.todo[k]) THEN n \in Sight(r, r.todo[k].from, E)
                                   ELSE n = r.todo[k].name
        BY <3>2 DEF InTodo
      <4>2. IsFrom(r.todo[k]) => n \in Sight(r, r.todo[k].from, F)
        BY <1>1, <4>1 DEF Sight, Has
      <4> QED BY <4>1, <4>2 DEF InTodo
    <3> QED BY <3>1, <3>2 DEF Covered
  <2> QED BY <2>1, <2>2 DEF Growth
<1>6. Standing(r, at, F)
  BY <1>1 DEF Doing, Standing
<1> QED BY <1>3, <1>4, <1>5, <1>6 DEF Doing

LEMMA NoGrowth == ASSUME NEW c, NEW E, NEW V PROVE Growth(c, E, E, V)
BY DEF Growth

(* What a calm command creates is wanted already.                          *)
LEMMA CreateGrows ==
  ASSUME NEW c \in Configs, NEW s \in Sides, NEW e \in Allowed(c), ~ IsFrom(e),
         NEW E, NEW V, Wants(c, E, e.name)
  PROVE  Growth(c, E, E \cup WithParents(PlaceOf(c, s, e[s])), V)
<1> DEFINE x == e[s]
           F == E \cup WithParents(PlaceOf(c, s, x))
           Sc == Shortcuts(c)
<1> SUFFICES ASSUME NamesFound(c), NEW n \in Names \cup {None}, Wants(c, F, n),
                    ~ Wants(c, E, n)
             PROVE  FALSE
  BY DEF Growth
<1>1. x \in Names \cup {None} /\ c[s] \in Storages
  BY ElementNames, ConfigsAssumption DEF Allowed, Sides
<1>2. PICK j \in DOMAIN Sc : IsFrom(Sc[j]) /\ n \in Has(c, Sc[j].from, F)
                             /\ n \notin Has(c, Sc[j].from, E)
  BY DEF Wants
<1>3. n \in Names /\ Top(c[Sc[j].from], n) \in WithParents(PlaceOf(c, s, x))
  BY <1>2, HasPlace DEF Has
<1>4. x \in Names /\ Top(c[Sc[j].from], n) \in {Root(c[s]), Top(c[s], x)}
  <2>1. CASE x = None
    <3>1. Top(c[Sc[j].from], n) = Root(c[s])
      BY <1>1, <1>3, <2>1, PlaceOfName, ParentsOfRoot
    <3>2. Top(c[Sc[j].from], n).path = <<n>> /\ Root(c[s]).path = <<>> /\ <<n>> # <<>>
      BY DEF Top, Root
    <3> QED BY <3>1, <3>2
  <2>2. CASE x # None
    BY <1>1, <1>3, <2>2, PlaceOfName, Parents
  <2> QED BY <2>1, <2>2
<1>5. c[Sc[j].from] = c[s] /\ n = x
  <2>1. /\ Top(c[Sc[j].from], n).path = <<n>> /\ Top(c[s], x).path = <<x>>
        /\ Top(c[Sc[j].from], n).in = c[Sc[j].from] /\ Top(c[s], x).in = c[s]
        /\ Root(c[s]).path = <<>>
    BY DEF Top, Root
  <2>2. <<n>> # <<>> /\ (<<x>> = <<n>> => x = n)
    OBVIOUS
  <2> QED BY <1>4, <2>1, <2>2
<1>6. Requested(c, e.name, AsNamed(c, e))
  BY DEF Allowed
<1>7. PICK k \in DOMAIN Sc :
        IF IsFrom(Sc[k])
          THEN e.name \in Names /\ \A t \in Sides : AsNamed(c, e)[t] = PlaceOf(c, t, e.name)
          ELSE e.name = Sc[k].name
               /\ \A t \in Sides : AsNamed(c, e)[t] = PlaceOf(c, t, Sc[k][t])
  BY <1>6 DEF Requested
<1>8. AsNamed(c, e)[s] = Top(c[s], x)
  BY <1>4, NamesAssumption, PlaceOfName DEF AsNamed
<1>9. CASE IsFrom(Sc[k])
  <2>1. PlaceOf(c, s, e.name) = Top(c[s], x)
    BY <1>7, <1>8, <1>9
  <2>2. e.name = x
    BY <1>4, <2>1, SamePlace
  <2> QED BY <1>5, <2>2
<1>10. CASE ~ IsFrom(Sc[k])
  <2>1. PlaceOf(c, s, Sc[k][s]) = Top(c[s], x)
    BY <1>7, <1>8, <1>10
  <2>2. Sc[k][s] = x
    BY <1>4, <2>1, SamePlace
  <2>3. Sc[k][s] \in {Sc[k].name, None}
    BY <1>2, <1>5, <1>10 DEF NamesFound
  <2>4. x = e.name
    BY <1>4, <1>7, <1>10, <2>2, <2>3, NamesAssumption
  <2> QED BY <1>5, <2>4
<1> QED BY <1>9, <1>10

(* A removed directory that comes back is the only one that may be new.    *)
LEMMA OpenGrows ==
  ASSUME NEW c, NEW d \in Configs, NEW s \in Sides, NEW x \in Names \cup {None},
         NEW E, NEW V, PlaceOf(d, s, x) \in V,
         \A st \in Sides : c[st] \in Storages,
         \A k \in DOMAIN Shortcuts(c) :
           IsFrom(Shortcuts(c)[k]) => Shortcuts(c)[k].from \in Sides
  PROVE  Growth(c, E, E \cup WithParents(Child(PlaceOf(d, s, x), Name(PlaceOf(d, s, x)))), V)
<1> DEFINE q == Child(PlaceOf(d, s, x), Name(PlaceOf(d, s, x)))
           F == E \cup WithParents(q)
           Sc == Shortcuts(c)
<1> SUFFICES ASSUME NEW n \in Names \cup {None}, Wants(c, F, n), ~ Wants(c, E, n)
             PROVE  Revived(c, V, n)
  BY DEF Growth
<1>1. d[s] \in Storages
  BY ConfigsAssumption DEF Sides
<1>2. PICK j \in DOMAIN Sc : IsFrom(Sc[j]) /\ n \in Has(c, Sc[j].from, F)
                             /\ n \notin Has(c, Sc[j].from, E)
  BY DEF Wants
<1>3. PICK f \in Sides : f = Sc[j].from
  BY <1>2
<1>4. n \in Names /\ Top(c[f], n) \in WithParents(q)
  BY <1>2, <1>3, HasPlace DEF Has
<1>5. Top(c[f], n) # Root(d[s])
  <2>1. Top(c[f], n).path = <<n>> /\ Root(d[s]).path = <<>> /\ <<n>> # <<>>
    BY DEF Top, Root
  <2> QED BY <2>1
<1>6. x \in Names
  <2> SUFFICES ASSUME x = None PROVE FALSE
    OBVIOUS
  <2>1. PlaceOf(d, s, x) = Root(d[s])
    BY PlaceOfName
  <2>2. q = Root(d[s])
    BY <2>1 DEF Name, Root, Child
  <2> QED BY <1>1, <1>4, <1>5, <2>2, ParentsOfRoot
<1>7. PlaceOf(d, s, x) = Top(d[s], x) /\ q = Nested(d[s], x)
  BY <1>1, <1>6, NamesAssumption, PlaceOfName, ChildOfPlace
<1>8. Top(c[f], n) \in {Top(d[s], x), Nested(d[s], x)}
  BY <1>1, <1>4, <1>5, <1>6, <1>7, Parents
<1>9. Top(c[f], n) # Nested(d[s], x)
  <2>1. Top(c[f], n).path = <<n>> /\ Nested(d[s], x).path = <<x, x>>
    BY DEF Top, Nested
  <2>2. Len(<<n>>) = 1 /\ Len(<<x, x>>) = 2
    OBVIOUS
  <2> QED BY <2>1, <2>2
<1>10. PlaceOf(c, f, n) = PlaceOf(d, s, x)
  BY <1>4, <1>7, <1>8, <1>9, NamesAssumption, PlaceOfName
<1> QED BY <1>10 DEF Revived

-----------------------------------------------------------------------------
(* Commands that go on, end and start.                                     *)

LEMMA CalmOf ==
  ASSUME CompleteInv, NEW p \in Procs, pc[p] # "idle", run[p].calm
  PROVE  run[p].conf = conf /\ AllCalm /\ conf \in Configs
BY DEF CompleteInv, CalmInv, PlacesInv, DiscoveryInv

(* The world grows under a command's step.                                 *)
Grows ==
  /\ conf' = conf /\ vanished' = vanished
  /\ AllCalm => Growth(conf, exist, exist', vanished)

LEMMA StillGrows == ASSUME UNCHANGED <<conf, vanished, exist>> PROVE Grows
BY NoGrowth DEF Grows

LEMMA OthersProgress ==
  ASSUME CompleteInv, Grows, NEW p \in Procs, NEW r, NEW to,
         run' = [run EXCEPT ![p] = r], pc' = [pc EXCEPT ![p] = to],
         to \in {"discover", "check"} /\ r.calm => Doing(r, to, exist', vanished)
  PROVE  ProgressInv'
<1> SUFFICES ASSUME NEW q \in Procs, pc'[q] \in {"discover", "check"}, run'[q].calm
             PROVE  Doing(run'[q], pc'[q], exist', vanished')
  BY DEF ProgressInv
<1>1. DOMAIN run = Procs /\ DOMAIN pc = Procs
  BY FieldsOf DEF CompleteInv, PlacesInv
<1>2. CASE q = p
  BY <1>1, <1>2 DEF Grows
<1>3. CASE q # p
  <2>1. run'[q] = run[q] /\ pc'[q] = pc[q]
    BY <1>1, <1>3
  <2>2. Doing(run[q], pc[q], exist, vanished)
    BY <2>1 DEF CompleteInv, ProgressInv
  <2>3. run[q].conf = conf /\ AllCalm
    BY <2>1, CalmOf
  <2>4. Growth(run[q].conf, exist, exist', vanished)
    BY <2>3 DEF Grows
  <2> QED BY <2>1, <2>2, <2>4, DoingStays DEF Grows
<1> QED BY <1>2, <1>3

LEMMA SettledStays ==
  ASSUME CompleteInv, Grows, UNCHANGED cache, settled' => settled
  PROVE  SettledInv'
<1> SUFFICES ASSUME settled
             PROVE  /\ cache # None /\ cache.key = Key(conf)
                    /\ \A n \in DOMAIN cache.cols : Wants(conf, exist', n)
                    /\ NamesFound(conf) =>
                         \A n \in Names \cup {None} :
                           Wants(conf, exist', n) =>
                             n \in DOMAIN cache.cols \/ Revived(conf, vanished, n)
                    /\ \A n \in DOMAIN cache.cols, s \in Sides :
                         Uncompressed(conf, cache.cols)[n][s] \in exist'
  BY DEF SettledInv, Grows
<1>1. Growth(conf, exist, exist', vanished) /\ exist \subseteq exist'
  BY DEF CompleteInv, CalmInv, Grows, Growth
<1>2. SettledInv
  BY DEF CompleteInv
<1>3. \A n \in DOMAIN cache.cols : Wants(conf, exist', n)
  BY <1>1, <1>2, WantsMore DEF SettledInv
<1>4. \A n \in DOMAIN cache.cols, s \in Sides : Uncompressed(conf, cache.cols)[n][s] \in exist'
  BY <1>1, <1>2 DEF SettledInv
<1>5. NamesFound(conf) =>
        \A n \in Names \cup {None} :
          Wants(conf, exist', n) => n \in DOMAIN cache.cols \/ Revived(conf, vanished, n)
  BY <1>1, <1>2 DEF SettledInv, Growth
<1> QED BY <1>2, <1>3, <1>4, <1>5 DEF SettledInv

(* A command that goes on is as calm as it was.                            *)
LEMMA GoOnCalm ==
  ASSUME CompleteInv, NEW p \in Procs, NEW r, NEW to, pc[p] # "idle", to # "idle",
         run' = [run EXCEPT ![p] = r], pc' = [pc EXCEPT ![p] = to],
         r.conf = run[p].conf, r.calm = run[p].calm, conf' = conf, settled' => settled
  PROVE  CalmInv'
<1>1. DOMAIN run = Procs /\ DOMAIN pc = Procs
  BY FieldsOf DEF CompleteInv, PlacesInv
<1>2. \A q \in Procs : /\ run'[q] = IF q = p THEN r ELSE run[q]
                       /\ pc'[q] = IF q = p THEN to ELSE pc[q]
  BY <1>1
<1>3. AllCalm => AllCalm'
  BY <1>2 DEF AllCalm
<1>4. CalmInv
  BY DEF CompleteInv
<1> QED BY <1>2, <1>3, <1>4 DEF CalmInv

LEMMA EndCalm ==
  ASSUME CompleteInv, NEW p \in Procs, pc[p] # "idle",
         run' = [run EXCEPT ![p] = Gone], pc' = [pc EXCEPT ![p] = "idle"],
         conf' = conf, settled' => settled \/ run[p].calm
  PROVE  CalmInv'
<1>1. DOMAIN run = Procs /\ DOMAIN pc = Procs
  BY FieldsOf DEF CompleteInv, PlacesInv
<1>2. \A q \in Procs : /\ run'[q] = IF q = p THEN Gone ELSE run[q]
                       /\ pc'[q] = IF q = p THEN "idle" ELSE pc[q]
  BY <1>1
<1>3. Gone.calm = TRUE
  BY DEF Gone, Fresh
<1>4. AllCalm => AllCalm'
  BY <1>2, <1>3 DEF AllCalm
<1>5. CalmInv
  BY DEF CompleteInv
<1>6. \A q \in Procs : pc'[q] # "idle" => q # p /\ pc'[q] = pc[q] /\ run'[q] = run[q]
  BY <1>2
<1>7. \A q \in Procs : pc'[q] = "idle" => run'[q] = Gone
  BY <1>2, <1>5 DEF CalmInv
<1>8. ASSUME NEW q \in Procs PROVE run'[q].calm \in BOOLEAN
  <2>1. run'[q] = Gone \/ run'[q] = run[q]
    BY <1>2
  <2>2. run[q].calm \in BOOLEAN
    BY <1>5 DEF CalmInv
  <2> QED BY <1>3, <2>1, <2>2
<1>9. \A q \in Procs : pc'[q] # "idle" /\ run'[q].calm => run'[q].conf = conf' /\ AllCalm'
  BY <1>4, <1>5, <1>6 DEF CalmInv
<1>10. settled' => AllCalm'
  <2>1. run[p].calm => AllCalm
    BY <1>5 DEF CalmInv
  <2> QED BY <1>4, <1>5, <2>1 DEF CalmInv
<1> QED BY <1>7, <1>8, <1>9, <1>10 DEF CalmInv

CalmInvs == CalmInv /\ ProgressInv /\ SettledInv

(* A step of a command that goes on.                                       *)
LEMMA GoOnComplete ==
  ASSUME CompleteInv, NEW p \in Procs, NEW from, NEW to, NEW r, Step(p, from, to),
         Remember(p, r), from # "idle", to # "idle", UNCHANGED cache, Grows,
         settled' => settled, r.conf = run[p].conf, r.calm = run[p].calm,
         to \in {"discover", "check"} /\ run[p].calm => Doing(r, to, exist', vanished)
  PROVE  CalmInvs'
<1>1. CalmInv'
  BY GoOnCalm DEF Step, Remember
<1>2. ProgressInv'
  BY OthersProgress DEF Step, Remember
<1>3. SettledInv'
  BY SettledStays
<1> QED BY <1>1, <1>2, <1>3 DEF CalmInvs

LEMMA EndComplete ==
  ASSUME CompleteInv, NEW p \in Procs, NEW from, from # "idle", End(p, from),
         UNCHANGED <<exist, cache, settled>>
  PROVE  CalmInvs'
<1>1. CalmInv'
  BY EndCalm DEF End, Step
<1>2. Grows
  BY StillGrows DEF End, Step
<1>3. ProgressInv'
  BY <1>2, OthersProgress DEF End, Step
<1>4. SettledInv'
  BY <1>2, SettledStays
<1> QED BY <1>1, <1>3, <1>4 DEF CalmInvs

LEMMA PeopleComplete ==
  ASSUME CompleteInv, Edited
  PROVE  CalmInvs'
<1>1. ASSUME NEW q \in Procs
      PROVE  /\ pc'[q] = pc[q]
             /\ run'[q].calm = (pc[q] = "idle")
             /\ pc[q] = "idle" => run'[q] = Gone
  <2>1. DOMAIN run[q] = Fields /\ run'[q] = [run[q] EXCEPT !.calm = pc[q] = "idle"]
        /\ pc' = pc
    BY FieldsOf DEF CompleteInv, PlacesInv, Edited
  <2>2. run'[q].calm = (pc[q] = "idle")
    BY <2>1 DEF Fields
  <2>3. ASSUME pc[q] = "idle" PROVE run'[q] = Gone
    <3>1. run[q] = Gone
      BY <2>3 DEF CompleteInv, CalmInv
    <3>2. [Gone EXCEPT !.calm = TRUE] = Gone
      <4>1. Gone = [f \in Fields |-> Gone[f]]
        BY DEF Gone, Fresh, Fields
      <4>2. Gone["calm"] = TRUE
        BY DEF Gone, Fresh
      <4> QED BY <4>1, <4>2
    <3>3. run'[q] = [Gone EXCEPT !.calm = TRUE]
      BY <2>1, <2>3, <3>1
    <3> QED BY <3>2, <3>3
  <2> QED BY <2>1, <2>2, <2>3
<1>2. settled' = FALSE
  BY DEF Edited
<1> QED BY <1>1, <1>2 DEF CalmInvs, CalmInv, ProgressInv, SettledInv

-----------------------------------------------------------------------------
(* Steps of a discovery.                                                   *)

LEMMA StartComplete ==
  ASSUME CompleteInv, NEW p \in Procs, NEW command \in {"discover", "sync"},
         Start(p, command)
  PROVE  CalmInvs'
<1> DEFINE todo == IF command = "discover" THEN Shortcuts(conf) ELSE <<>>
           r == [Fresh(conf) EXCEPT !.todo = todo, !.calm = AllCalm]
<1>1. /\ r.conf = conf /\ r.seen = [s \in Sides |-> None] /\ r.todo = todo
      /\ r.made = [s \in Sides |-> {}] /\ r.cols = <<>> /\ r.calm = AllCalm
  <2> HIDE DEF todo
  <2> QED BY DEF Fresh
<1>2. run' = [run EXCEPT ![p] = r] /\ pc' = [pc EXCEPT ![p] = command] /\ pc[p] = "idle"
  BY DEF Start, AllCalm
<1> HIDE DEF r
<1>3. DOMAIN run = Procs /\ DOMAIN pc = Procs
  BY FieldsOf DEF CompleteInv, PlacesInv
<1>4. \A q \in Procs : /\ run'[q] = IF q = p THEN r ELSE run[q]
                       /\ pc'[q] = IF q = p THEN command ELSE pc[q]
  BY <1>2, <1>3
<1>5. AllCalm => AllCalm'
  BY <1>1, <1>4 DEF AllCalm
<1>6. r.calm \in BOOLEAN
  BY <1>1 DEF AllCalm
<1>7. CalmInv'
  <2>1. CalmInv /\ conf' = conf /\ settled' = settled
    BY DEF CompleteInv, Start
  <2>2. \A q \in Procs : pc'[q] = "idle" => run'[q] = Gone
    BY <1>4, <2>1 DEF CalmInv
  <2>3. \A q \in Procs : run'[q].calm \in BOOLEAN
    BY <1>4, <1>6, <2>1 DEF CalmInv
  <2>4. \A q \in Procs : pc'[q] # "idle" /\ run'[q].calm => run'[q].conf = conf' /\ AllCalm'
    BY <1>1, <1>4, <1>5, <2>1 DEF CalmInv
  <2>5. settled' => AllCalm'
    BY <1>5, <2>1 DEF CalmInv
  <2> QED BY <2>2, <2>3, <2>4, <2>5 DEF CalmInv
<1>8. ASSUME command = "discover" PROVE Doing(r, command, exist, vanished)
  <2>1. Sighted(r, exist) /\ Standing(r, command, exist)
    BY <1>1 DEF Sighted, Standing
  <2>2. r.todo = Shortcuts(conf)
    BY <1>1, <1>8
  <2>3. Within(r, exist)
    BY <1>1, <2>2 DEF Within, Wants
  <2>4. \A n, s : s \in Sides => (n \in Has(conf, s, exist) <=> n \in Sight(r, s, exist))
    BY <1>1 DEF Sight
  <2>5. ASSUME NEW n, Wants(conf, exist, n) PROVE InTodo(r, exist, n)
    <3>1. PICK k \in DOMAIN Shortcuts(conf) :
            IF IsFrom(Shortcuts(conf)[k]) THEN n \in Has(conf, Shortcuts(conf)[k].from, exist)
                                          ELSE n = Shortcuts(conf)[k].name
      BY <2>5 DEF Wants
    <3>2. Shortcuts(conf)[k] \in Elements \cup {Named(None, None, None)}
      <4>1. Shortcuts(conf) \in Seq(Elements \cup {Named(None, None, None)})
        BY ShortcutsType DEF CompleteInv, PlacesInv, DiscoveryInv
      <4> QED BY <4>1
    <3>3. IsFrom(Shortcuts(conf)[k]) => Shortcuts(conf)[k].from \in Sides
      BY <3>2, ElementNames
    <3> QED BY <2>2, <2>4, <3>1, <3>3 DEF InTodo
  <2>6. CoversAll(r, exist, vanished)
    BY <1>1, <2>5 DEF CoversAll, Covered
  <2> QED BY <1>8, <2>1, <2>3, <2>6 DEF Doing
<1>9. Grows /\ exist' = exist
  BY StillGrows DEF Start
<1>10. ProgressInv'
  BY <1>2, <1>8, <1>9, OthersProgress
<1>11. SettledInv'
  BY <1>9, SettledStays DEF Start
<1> QED BY <1>7, <1>10, <1>11 DEF CalmInvs

LEMMA DoingOf ==
  ASSUME CompleteInv, NEW p \in Procs
  PROVE  /\ DOMAIN run[p] = Fields /\ Sound(run[p])
         /\ pc[p] \in {"discover", "check"} /\ run[p].calm =>
              Doing(run[p], pc[p], exist, vanished)
BY FieldsOf DEF CompleteInv, PlacesInv, ProgressInv

LEMMA TodoSides ==
  ASSUME NEW r, Sound(r), NEW k \in DOMAIN r.todo
  PROVE  /\ IsFrom(r.todo[k]) => r.todo[k].from \in Sides
         /\ r.todo[k] \in Allowed(r.conf)
<1>1. r.todo[k] \in Allowed(r.conf)
  <2>1. r.todo \in Seq(Allowed(r.conf))
    BY DEF Sound
  <2> QED BY <2>1
<1> QED BY <1>1, ElementNames DEF Allowed

LEMMA SameSight ==
  ASSUME NEW m, NEW r, NEW E, NEW V, Sound(m), CoversAll(m, E, V),
         r.conf = m.conf, r.todo = m.todo, r.cols = m.cols,
         \A t \in Sides : Sight(r, t, E) = Sight(m, t, E)
  PROVE  CoversAll(r, E, V)
<1>1. \A k \in DOMAIN m.todo : IsFrom(m.todo[k]) => m.todo[k].from \in Sides
  BY TodoSides
<1>2. ASSUME NEW n, InTodo(m, E, n) PROVE InTodo(r, E, n)
  BY <1>1, <1>2 DEF InTodo
<1> QED BY <1>2 DEF CoversAll, Covered

LEMMA DiscoverComplete ==
  ASSUME CompleteInv, NEW p \in Procs, NEW s \in Sides, Discover(p, s)
  PROVE  CalmInvs'
<1> DEFINE m == run[p]
           r == [run[p] EXCEPT !.seen[s] = Discovered(run[p].conf[s])]
<1>1. /\ DOMAIN m = Fields /\ DOMAIN m.seen = Sides /\ pc[p] = "discover"
      /\ m.seen[s] = None
      /\ m.calm => Doing(m, "discover", exist, vanished)
      /\ Sound(m)
  BY DoingOf DEF Discover, Step, Sound
<1>2. Discovered(m.conf[s]) = Has(m.conf, s, exist)
  BY DEF Discovered, Has
<1>3. /\ r.conf = m.conf /\ r.made = m.made /\ r.cols = m.cols /\ r.todo = m.todo
      /\ r.jobs = m.jobs /\ r.calm = m.calm
      /\ r.seen = [m.seen EXCEPT ![s] = Has(m.conf, s, exist)]
  BY <1>1, <1>2 DEF Fields
<1>4. Step(p, "discover", "discover") /\ Remember(p, r)
      /\ UNCHANGED <<exist, cache, settled>>
  BY DEF Discover, Quiet
<1> HIDE DEF r, m
<1>5. \A t \in Sides : r.seen[t] = IF t = s THEN Has(m.conf, s, exist) ELSE m.seen[t]
  BY <1>1, <1>3
<1>7. ASSUME m.calm PROVE Doing(r, "discover", exist, vanished)
  <2>1. \A t \in Sides : Sight(r, t, exist) = Sight(m, t, exist)
    BY <1>1, <1>3, <1>5 DEF Sight
  <2>2. Sighted(r, exist)
    BY <1>1, <1>3, <1>5, <1>7 DEF Doing, Sighted
  <2>3. Within(r, exist) /\ Standing(r, "discover", exist)
    BY <1>1, <1>3, <1>7 DEF Doing, Within, Standing
  <2>4. CoversAll(r, exist, vanished)
    BY <1>1, <1>3, <1>7, <2>1, SameSight DEF Doing
  <2> QED BY <2>2, <2>3, <2>4 DEF Doing
<1>8. Grows /\ exist' = exist
  BY <1>4, StillGrows DEF Step
<1> QED BY <1>1, <1>3, <1>4, <1>7, <1>8, GoOnComplete DEF m

(* A step that takes the first element off the list, or puts others in its *)
(* place: what these stand for is what it stood for.                       *)
LEMMA TodoComplete ==
  ASSUME CompleteInv, NEW p \in Procs, NEW r, NEW l,
         Step(p, "discover", "discover"), Remember(p, r),
         UNCHANGED <<exist, cache, settled>>,
         r.conf = run[p].conf, r.seen = run[p].seen, r.made = run[p].made,
         r.cols = run[p].cols, r.jobs = run[p].jobs, r.calm = run[p].calm,
         r.todo = l,
         run[p].calm => Within(r, exist),
         run[p].calm =>
           \A n : InTodo(run[p], exist, n) => InTodo(r, exist, n) \/ n \in DOMAIN r.cols
  PROVE  CalmInvs'
<1> DEFINE m == run[p]
<1>1. m.calm => Doing(m, "discover", exist, vanished)
  BY DoingOf DEF Step
<1>2. ASSUME m.calm PROVE Doing(r, "discover", exist, vanished)
  <2>1. Sighted(r, exist) /\ Standing(r, "discover", exist)
    BY <1>1, <1>2 DEF Doing, Sighted, Standing
  <2>2. CoversAll(r, exist, vanished)
    BY <1>1, <1>2 DEF Doing, CoversAll, Covered
  <2> QED BY <1>2, <2>1, <2>2 DEF Doing
<1>3. Grows /\ exist' = exist
  BY StillGrows DEF Step
<1> HIDE DEF m
<1> QED BY <1>2, <1>3, GoOnComplete DEF m

(* The places of a list of which the first element is taken off.           *)
LEMMA FirstAndRest ==
  ASSUME NEW S, NEW l \in Seq(S), l # <<>>
  PROVE  /\ Head(l) = l[1] /\ 1 \in DOMAIN l /\ DOMAIN l = 1 .. Len(l)
         /\ \A k \in DOMAIN l : k # 1 => k - 1 \in DOMAIN Tail(l) /\ Tail(l)[k - 1] = l[k]
         /\ \A k \in DOMAIN Tail(l) : k + 1 \in DOMAIN l /\ Tail(l)[k] = l[k + 1]
         /\ Tail(l) \in Seq(S) /\ Len(Tail(l)) = Len(l) - 1 /\ Len(l) \in Nat
<1>1. /\ Len(l) \in Nat /\ Len(l) >= 1 /\ DOMAIN l = 1 .. Len(l) /\ Head(l) = l[1]
  BY EmptySeq, LenProperties, HeadTailProperties
<1>2. /\ Tail(l) \in Seq(S) /\ Len(Tail(l)) = Len(l) - 1
      /\ \A k \in 1 .. Len(Tail(l)) : Tail(l)[k] = l[k + 1]
  BY HeadTailProperties
<1>3. DOMAIN Tail(l) = 1 .. Len(l) - 1
  BY <1>2, LenProperties
<1>4. ASSUME NEW k \in DOMAIN l, k # 1
      PROVE  k - 1 \in DOMAIN Tail(l) /\ Tail(l)[k - 1] = l[k]
  <2>1. k - 1 \in 1 .. Len(l) - 1 /\ (k - 1) + 1 = k
    BY <1>1, <1>4
  <2> QED BY <1>2, <1>3, <2>1
<1> QED BY <1>1, <1>2, <1>3, <1>4

LEMMA SkipComplete ==
  ASSUME CompleteInv, NEW p \in Procs, Skip(p)
  PROVE  CalmInvs'
<1> DEFINE m == run[p]
           r == [run[p] EXCEPT !.todo = Tail(@)]
<1>1. /\ DOMAIN m = Fields /\ Sound(m) /\ m.todo # <<>>
      /\ m.calm => Doing(m, "discover", exist, vanished)
  BY DoingOf DEF Skip, Expanding, Step
<1>2. /\ r.conf = m.conf /\ r.seen = m.seen /\ r.made = m.made /\ r.cols = m.cols
      /\ r.jobs = m.jobs /\ r.calm = m.calm /\ r.todo = Tail(m.todo)
  BY <1>1 DEF Fields
<1>3. Step(p, "discover", "discover") /\ Remember(p, r)
      /\ UNCHANGED <<exist, cache, settled>>
  BY DEF Skip, Quiet
<1>4. /\ ~ IsFrom(Head(m.todo)) /\ Head(m.todo).name \in DOMAIN m.cols
  BY DEF Skip, First, IsHandled
<1> HIDE DEF r, m
<1>5. /\ Head(m.todo) = m.todo[1]
      /\ \A k \in DOMAIN m.todo :
           k # 1 => k - 1 \in DOMAIN r.todo /\ r.todo[k - 1] = m.todo[k]
      /\ \A k \in DOMAIN r.todo : k + 1 \in DOMAIN m.todo /\ r.todo[k] = m.todo[k + 1]
  BY <1>1, <1>2, FirstAndRest DEF Sound
<1>6. m.calm => Within(r, exist)
  BY <1>1, <1>2, <1>5 DEF Doing, Within
<1>7. ASSUME NEW n, InTodo(m, exist, n) PROVE InTodo(r, exist, n) \/ n \in DOMAIN r.cols
  <2>1. PICK k \in DOMAIN m.todo :
          IF IsFrom(m.todo[k]) THEN n \in Sight(m, m.todo[k].from, exist)
                               ELSE n = m.todo[k].name
    BY <1>7 DEF InTodo
  <2>2. CASE k = 1
    BY <1>2, <1>4, <1>5, <2>1, <2>2
  <2>3. CASE k # 1
    <3>1. k - 1 \in DOMAIN r.todo /\ r.todo[k - 1] = m.todo[k]
      BY <1>5, <2>3
    <3>2. \A t : Sight(r, t, exist) = Sight(m, t, exist)
      BY <1>2 DEF Sight
    <3> QED BY <2>1, <3>1, <3>2 DEF InTodo
  <2> QED BY <2>2, <2>3
<1> QED BY <1>2, <1>3, <1>6, <1>7, TodoComplete DEF m

(* All names that were discovered are put on the list.                     *)
LEMMA OrdersAll ==
  ASSUME NEW S, S \subseteq Names, NEW q \in Orders(S)
  PROVE  /\ q \in Seq(S) /\ Len(q) \in Nat /\ DOMAIN q = 1 .. Len(q)
         /\ \A n \in S : \E k \in DOMAIN q : q[k] = n
<1>1. IsFiniteSet(S) /\ Cardinality(S) \in Nat
  BY NamesAssumption, FS_Subset, FS_CardinalityType
<1>2. q \in [1 .. Cardinality(S) -> S] /\ IsInjective(q)
  BY DEF Orders
<1>3. q \in Injection(1 .. Cardinality(S), S)
  BY <1>2 DEF Injection, IsInjective
<1>4. Cardinality(1 .. Cardinality(S)) = Cardinality(S)
  BY <1>1, FS_Interval
<1>5. q \in Surjection(1 .. Cardinality(S), S)
  BY <1>1, <1>3, <1>4, FS_Injection
<1>6. q \in Seq(S) /\ Len(q) = Cardinality(S)
  BY <1>1, <1>2
<1> QED BY <1>1, <1>2, <1>5, <1>6 DEF Surjection

LEMMA ExpandComplete ==
  ASSUME CompleteInv, NEW p \in Procs, Expand(p)
  PROVE  CalmInvs'
<1> DEFINE m == run[p]
           f == First(p).from
<1>1. /\ DOMAIN m = Fields /\ Sound(m) /\ m.todo # <<>> /\ m.conf \in Configs
      /\ m.calm => Doing(m, "discover", exist, vanished)
  BY DoingOf, FieldsOf DEF Expand, Expanding, Step, CompleteInv, PlacesInv, DiscoveryInv, RunInv
<1>2. PICK q \in Orders(m.seen[f]) :
        Remember(p, [run[p] EXCEPT !.todo = SameNames(q) \o Tail(@)])
  BY DEF Expand
<1>3. /\ First(p) = Head(m.todo) /\ IsFrom(Head(m.todo)) /\ m.seen[f] # None
      /\ f = Head(m.todo).from
  BY DEF Expand, First
<1> DEFINE new == SameNames(q)
           l == new \o Tail(m.todo)
           r == [run[p] EXCEPT !.todo = new \o Tail(@)]
<1>4. /\ r.conf = m.conf /\ r.seen = m.seen /\ r.made = m.made /\ r.cols = m.cols
      /\ r.jobs = m.jobs /\ r.calm = m.calm /\ r.todo = l
  BY <1>1 DEF Fields
<1>5. Step(p, "discover", "discover") /\ Remember(p, r)
      /\ UNCHANGED <<exist, cache, settled>>
  BY <1>2 DEF Expand, Quiet
<1> HIDE DEF r, m
<1>6. /\ Head(m.todo) = m.todo[1] /\ 1 \in DOMAIN m.todo /\ DOMAIN m.todo = 1 .. Len(m.todo)
      /\ \A k \in DOMAIN m.todo :
           k # 1 => k - 1 \in DOMAIN Tail(m.todo) /\ Tail(m.todo)[k - 1] = m.todo[k]
      /\ \A k \in DOMAIN Tail(m.todo) :
           k + 1 \in DOMAIN m.todo /\ Tail(m.todo)[k] = m.todo[k + 1]
      /\ Tail(m.todo) \in Seq(Allowed(m.conf))
  BY <1>1, FirstAndRest DEF Sound
<1>7. f \in Sides /\ Head(m.todo) \in Allowed(m.conf)
  BY <1>1, <1>3, <1>6, TodoSides
<1>8. m.seen[f] \subseteq Names
  BY <1>1, <1>3, <1>7 DEF Sound
<1>9. /\ q \in Seq(m.seen[f]) /\ Len(q) \in Nat /\ DOMAIN q = 1 .. Len(q)
      /\ \A n \in m.seen[f] : \E k \in DOMAIN q : q[k] = n
  BY <1>8, OrdersAll
<1>10. new \in Seq(Allowed(m.conf))
  BY <1>1, <1>3, <1>7, <1>8, ExpandedAllowed
<1>11. /\ Len(new) = Len(q) /\ DOMAIN new = 1 .. Len(q)
       /\ \A k \in DOMAIN q : new[k] = Named(q[k], q[k], q[k])
  BY <1>9 DEF SameNames
<1>12. \A k \in DOMAIN q : ~ IsFrom(new[k]) /\ new[k].name = q[k]
  <2>1. \A x : ~ IsFrom(Named(x, x, x)) /\ Named(x, x, x).name = x
    BY DEF Named, IsFrom
  <2> HIDE DEF new
  <2> QED BY <1>11, <2>1
<1> HIDE DEF new
<1>13. /\ l \in Seq(Allowed(m.conf)) /\ Len(l) = Len(new) + Len(Tail(m.todo))
       /\ \A k \in 1 .. Len(l) :
            l[k] = IF k <= Len(new) THEN new[k] ELSE Tail(m.todo)[k - Len(new)]
  BY <1>6, <1>10, ConcatProperties
<1>14. /\ DOMAIN l = 1 .. Len(l) /\ Len(Tail(m.todo)) \in Nat
       /\ DOMAIN Tail(m.todo) = 1 .. Len(Tail(m.todo))
  BY <1>6, <1>13, LenProperties
<1> HIDE DEF l
<1>15. \A k \in DOMAIN q : k \in DOMAIN l /\ l[k] = new[k]
  BY <1>9, <1>11, <1>13, <1>14
<1>16. \A k \in DOMAIN Tail(m.todo) :
         k + Len(q) \in DOMAIN l /\ l[k + Len(q)] = Tail(m.todo)[k]
  <2> SUFFICES ASSUME NEW k \in DOMAIN Tail(m.todo)
               PROVE  k + Len(q) \in DOMAIN l /\ l[k + Len(q)] = Tail(m.todo)[k]
    OBVIOUS
  <2>1. k \in 1 .. Len(Tail(m.todo)) /\ Len(Tail(m.todo)) \in Nat /\ Len(q) \in Nat
    BY <1>9, <1>14
  <2>2. Len(l) = Len(q) + Len(Tail(m.todo)) /\ Len(new) = Len(q)
    BY <1>11, <1>13
  <2>3. k + Len(q) \in 1 .. Len(l) /\ ~ (k + Len(q) <= Len(q)) /\ (k + Len(q)) - Len(q) = k
    BY <2>1, <2>2
  <2> QED BY <1>13, <1>14, <2>2, <2>3
<1>17. \A k \in DOMAIN l : \/ k \in DOMAIN q /\ l[k] = new[k]
                           \/ \E j \in DOMAIN Tail(m.todo) : l[k] = Tail(m.todo)[j]
  <2> SUFFICES ASSUME NEW k \in DOMAIN l, k \notin DOMAIN q
               PROVE  \E j \in DOMAIN Tail(m.todo) : l[k] = Tail(m.todo)[j]
    BY <1>15
  <2>1. Len(l) = Len(q) + Len(Tail(m.todo)) /\ Len(new) = Len(q)
    BY <1>11, <1>13
  <2>2. k \in 1 .. Len(l) /\ Len(Tail(m.todo)) \in Nat /\ Len(q) \in Nat
        /\ k \notin 1 .. Len(q)
    BY <1>9, <1>14
  <2>3. ~ (k <= Len(q)) /\ k - Len(q) \in 1 .. Len(Tail(m.todo))
    BY <2>1, <2>2
  <2> QED BY <1>13, <1>14, <2>1, <2>2, <2>3
<1>18. ASSUME m.calm PROVE Within(r, exist)
  <2>1. ASSUME NEW n \in m.seen[f] PROVE Wants(m.conf, exist, n)
    <3>1. n \in Has(m.conf, f, exist)
      BY <1>1, <1>3, <1>7, <1>18 DEF Doing, Sighted
    <3>2. \E k \in DOMAIN Shortcuts(m.conf) : Shortcuts(m.conf)[k] = Head(m.todo)
      BY <1>3, <1>7 DEF Allowed
    <3> QED BY <1>3, <3>1, <3>2 DEF Wants
  <2>2. ASSUME NEW k \in DOMAIN l, ~ IsFrom(l[k]) PROVE Wants(m.conf, exist, l[k].name)
    <3>1. CASE k \in DOMAIN q /\ l[k] = new[k]
      <4>1. q[k] \in m.seen[f] /\ l[k].name = q[k]
        BY <1>9, <1>12, <3>1
      <4> QED BY <2>1, <4>1
    <3>2. CASE \E j \in DOMAIN Tail(m.todo) : l[k] = Tail(m.todo)[j]
      <4>1. Within(m, exist)
        BY <1>1, <1>18 DEF Doing
      <4>2. PICK j \in DOMAIN Tail(m.todo) : l[k] = Tail(m.todo)[j]
        BY <3>2
      <4>3. \E j0 \in DOMAIN m.todo : l[k] = m.todo[j0]
        BY <1>6, <4>2
      <4> QED BY <2>2, <4>1, <4>3 DEF Within
    <3> QED BY <1>17, <3>1, <3>2
  <2> QED BY <1>1, <1>4, <1>18, <2>2 DEF Doing, Within
<1>19. ASSUME NEW n, InTodo(m, exist, n) PROVE InTodo(r, exist, n)
  <2>1. PICK k \in DOMAIN m.todo :
          IF IsFrom(m.todo[k]) THEN n \in Sight(m, m.todo[k].from, exist)
                               ELSE n = m.todo[k].name
    BY <1>19 DEF InTodo
  <2>2. CASE k = 1
    <3>1. n \in m.seen[f]
      BY <1>3, <1>6, <2>1, <2>2 DEF Sight
    <3>2. PICK j \in DOMAIN q : q[j] = n
      BY <1>9, <3>1
    <3>3. j \in DOMAIN l /\ l[j] = new[j] /\ ~ IsFrom(new[j]) /\ new[j].name = n
      BY <1>12, <1>15, <3>2
    <3> QED BY <1>4, <3>3 DEF InTodo
  <2>3. CASE k # 1
    <3>1. PICK j \in DOMAIN l : l[j] = m.todo[k]
      BY <1>6, <1>16, <2>3
    <3>2. \A t : Sight(r, t, exist) = Sight(m, t, exist)
      BY <1>4 DEF Sight
    <3> QED BY <1>4, <2>1, <3>1, <3>2 DEF InTodo
  <2> QED BY <2>2, <2>3
<1> QED BY <1>4, <1>5, <1>18, <1>19, TodoComplete DEF m

(* What is created is there, and is what the configuration stands for.     *)
LEMMA CreateComplete ==
  ASSUME CompleteInv, NEW p \in Procs, NEW s \in Sides, Create(p, s)
  PROVE  CalmInvs'
<1> DEFINE m == run[p]
           e == First(p)
           r == [run[p] EXCEPT !.made[s] = @ \cup {First(p)[s]}]
<1>1. /\ DOMAIN m = Fields /\ Sound(m) /\ m.todo # <<>> /\ m.conf \in Configs
      /\ pc[p] = "discover"
      /\ m.calm => Doing(m, "discover", exist, vanished)
      /\ DOMAIN m.made = Sides
  BY DoingOf, KnownOf
     DEF Create, Expanding, Step, CompleteInv, PlacesInv, DiscoveryInv, RunInv, Known
<1>2. /\ e \in Allowed(m.conf) /\ ~ IsFrom(e) /\ e = m.todo[1] /\ 1 \in DOMAIN m.todo
  <2>1. m.todo[1] = Head(m.todo) /\ 1 \in DOMAIN m.todo
    BY <1>1, FirstAndRest DEF Sound
  <2> QED BY <1>1, <2>1, TodoSides DEF Create, First
<1>3. /\ exist' = exist \cup WithParents(PlaceOf(m.conf, s, e[s]))
      /\ Remember(p, r) /\ Step(p, "discover", "discover")
      /\ UNCHANGED <<conf, vanished, cache, settled>>
  BY DEF Create, Quiet, Step
<1>4. PlaceOf(m.conf, s, e[s]) \in exist'
  <2>1. e[s] \in Names \cup {None}
    BY <1>2, ElementNames DEF Allowed
  <2>2. PlaceOf(m.conf, s, e[s]) \in WithParents(PlaceOf(m.conf, s, e[s]))
    BY <1>1, <2>1, PlaceIsPlace, OwnParent
  <2> QED BY <1>3, <2>2
<1>5. ASSUME AllCalm PROVE m.calm /\ m.conf = conf /\ Growth(conf, exist, exist', vanished)
  <2>1. m.calm /\ m.conf = conf
    BY <1>1, <1>5, CalmOf DEF AllCalm
  <2>2. Wants(m.conf, exist, e.name)
    BY <1>1, <1>2, <2>1 DEF Doing, Within
  <2> QED BY <1>1, <1>2, <1>3, <2>1, <2>2, CreateGrows
<1>6. Grows
  BY <1>3, <1>5 DEF Grows
<1>7. /\ r.conf = m.conf /\ r.seen = m.seen /\ r.cols = m.cols /\ r.todo = m.todo
      /\ r.jobs = m.jobs /\ r.calm = m.calm
      /\ r.made = [m.made EXCEPT ![s] = @ \cup {e[s]}]
  BY <1>1 DEF Fields
<1> HIDE DEF r, m, e
<1>8. ASSUME m.calm PROVE Doing(r, "discover", exist', vanished)
  <2>1. AllCalm /\ m.conf = conf
    BY <1>1, <1>8, CalmOf DEF m
  <2>2. Doing(m, "discover", exist', vanished)
    BY <1>1, <1>5, <1>8, <2>1, DoingStays
  <2>3. Sighted(r, exist')
    BY <1>1, <1>4, <1>7, <2>2 DEF Doing, Sighted
  <2>4. Within(r, exist') /\ Standing(r, "discover", exist')
    BY <1>7, <2>2 DEF Doing, Within, Standing
  <2>5. \A t \in Sides : Sight(r, t, exist') = Sight(m, t, exist')
    BY <1>7 DEF Sight
  <2>6. CoversAll(r, exist', vanished)
    BY <1>1, <1>7, <2>2, <2>5, SameSight DEF Doing
  <2> QED BY <2>3, <2>4, <2>6 DEF Doing
<1> QED BY <1>1, <1>3, <1>6, <1>7, <1>8, GoOnComplete DEF m

(* An element that is resolved is on the list of collections from then on. *)
LEMMA ResolveComplete ==
  ASSUME CompleteInv, NEW p \in Procs, Resolve(p)
  PROVE  CalmInvs'
<1> DEFINE m == run[p]
           e == First(p)
           places == [s \in Sides |-> PlaceOf(m.conf, s, e[s])]
           cols == With(m.cols, e.name, places)
           r == [run[p] EXCEPT !.todo = Tail(@), !.cols = cols]
<1>1. /\ DOMAIN m = Fields /\ Sound(m) /\ m.todo # <<>> /\ pc[p] = "discover"
      /\ m.calm => Doing(m, "discover", exist, vanished)
  BY DoingOf DEF Resolve, Expanding, Step
<1>2. Step(p, "discover", "discover") /\ Remember(p, r)
      /\ UNCHANGED <<exist, cache, settled>>
  BY DEF Resolve, Quiet
<1>3. e = Head(m.todo) /\ ~ IsFrom(e) /\ \A s \in Sides : Found(p, e, s)
  BY DEF Resolve, First
<1>4. ASSUME m.calm, NEW s \in Sides
      PROVE  places[s] \in exist \/ places[s] = Root(m.conf[s])
  <2>1. places[s] = PlaceOf(m.conf, s, e[s])
    OBVIOUS
  <2>2. CASE e[s] = None
    BY <2>1, <2>2, PlaceOfName
  <2>3. CASE m.seen[s] # None /\ e[s] \in m.seen[s]
    BY <1>1, <1>4, <2>1, <2>3 DEF Doing, Sighted, Has, PlaceOf
  <2>4. CASE e[s] \in m.made[s]
    BY <1>1, <1>4, <2>1, <2>4 DEF Doing, Sighted
  <2> QED BY <1>3, <2>2, <2>3, <2>4 DEF Found
<1> HIDE DEF places
<1>5. /\ DOMAIN cols = {e.name} \cup DOMAIN m.cols
      /\ \A n \in DOMAIN cols : cols[n] = IF n = e.name THEN places ELSE m.cols[n]
  BY DEF With
<1> HIDE DEF cols
<1>6. /\ r.conf = m.conf /\ r.seen = m.seen /\ r.made = m.made /\ r.cols = cols
      /\ r.jobs = m.jobs /\ r.calm = m.calm /\ r.todo = Tail(m.todo)
  BY <1>1 DEF Fields
<1> HIDE DEF r, m, e
<1>7. /\ Head(m.todo) = m.todo[1] /\ 1 \in DOMAIN m.todo
      /\ \A k \in DOMAIN m.todo :
           k # 1 => k - 1 \in DOMAIN r.todo /\ r.todo[k - 1] = m.todo[k]
      /\ \A k \in DOMAIN r.todo : k + 1 \in DOMAIN m.todo /\ r.todo[k] = m.todo[k + 1]
  BY <1>1, <1>6, FirstAndRest DEF Sound
<1>8. ASSUME m.calm PROVE Doing(r, "discover", exist, vanished)
  <2>1. Doing(m, "discover", exist, vanished)
    BY <1>1, <1>8
  <2>2. Sighted(r, exist)
    BY <1>6, <2>1 DEF Doing, Sighted
  <2>3. Within(r, exist)
    BY <1>3, <1>5, <1>6, <1>7, <2>1 DEF Doing, Within
  <2>4. Standing(r, "discover", exist)
    BY <1>4, <1>5, <1>6, <1>8, <2>1 DEF Doing, Standing
  <2>5. ASSUME NEW n, InTodo(m, exist, n) PROVE InTodo(r, exist, n) \/ n \in DOMAIN r.cols
    <3>1. PICK k \in DOMAIN m.todo :
            IF IsFrom(m.todo[k]) THEN n \in Sight(m, m.todo[k].from, exist)
                                 ELSE n = m.todo[k].name
      BY <2>5 DEF InTodo
    <3>2. CASE k = 1
      BY <1>3, <1>5, <1>6, <1>7, <3>1, <3>2
    <3>3. CASE k # 1
      <4>1. k - 1 \in DOMAIN r.todo /\ r.todo[k - 1] = m.todo[k]
        BY <1>7, <3>3
      <4>2. \A t : Sight(r, t, exist) = Sight(m, t, exist)
        BY <1>6 DEF Sight
      <4> QED BY <3>1, <4>1, <4>2 DEF InTodo
    <3> QED BY <3>2, <3>3
  <2>6. DOMAIN m.cols \subseteq DOMAIN r.cols
    BY <1>5, <1>6
  <2>7. CoversAll(r, exist, vanished)
    BY <1>6, <2>1, <2>5, <2>6 DEF Doing, CoversAll, Covered
  <2> QED BY <2>2, <2>3, <2>4, <2>7 DEF Doing
<1>9. Grows /\ exist' = exist
  BY <1>2, StillGrows DEF Step
<1> QED BY <1>1, <1>2, <1>6, <1>8, <1>9, GoOnComplete DEF m

(* All is resolved, and every storage is to be opened.                     *)
LEMMA ExpandedComplete ==
  ASSUME CompleteInv, NEW p \in Procs, Expanded(p)
  PROVE  CalmInvs'
<1> DEFINE m == run[p]
           r == [run[p] EXCEPT !.jobs = AllStorages(run[p].cols)]
<1>1. /\ DOMAIN m = Fields /\ Sound(m) /\ m.todo = <<>> /\ pc[p] = "discover"
      /\ m.calm => Doing(m, "discover", exist, vanished)
  BY DoingOf DEF Expanded, Step
<1>2. Step(p, "discover", "check") /\ Remember(p, r)
      /\ UNCHANGED <<exist, cache, settled>>
  BY DEF Expanded, Quiet
<1>3. /\ r.conf = m.conf /\ r.seen = m.seen /\ r.made = m.made /\ r.cols = m.cols
      /\ r.todo = m.todo /\ r.calm = m.calm /\ r.jobs = AllStorages(m.cols)
  BY <1>1 DEF Fields
<1> HIDE DEF r, m
<1>4. ASSUME m.calm PROVE Doing(r, "check", exist, vanished)
  <2>1. Doing(m, "discover", exist, vanished)
    BY <1>1, <1>4
  <2>2. Sighted(r, exist) /\ Within(r, exist)
    BY <1>3, <2>1 DEF Doing, Sighted, Within
  <2>3. \A t \in Sides : Sight(r, t, exist) = Sight(m, t, exist)
    BY <1>3 DEF Sight
  <2>4. CoversAll(r, exist, vanished)
    BY <1>1, <1>3, <2>1, <2>3, SameSight DEF Doing
  <2>5. Standing(r, "check", exist)
    BY <1>3, <2>1 DEF Doing, Standing, AllStorages
  <2> QED BY <1>1, <1>3, <2>2, <2>4, <2>5 DEF Doing
<1>5. Grows /\ exist' = exist
  BY <1>2, StillGrows DEF Step
<1> QED BY <1>1, <1>2, <1>3, <1>4, <1>5, GoOnComplete DEF m

(* Only a directory that was removed comes back when a storage is opened.  *)
LEMMA OpenedGrows ==
  ASSUME CompleteInv, NEW p \in Procs, pc[p] # "idle", NEW n, NEW s,
         <<n, s>> \in run[p].jobs, NEW place, place = run[p].cols[n][s],
         exist' = ExistAfter(place), UNCHANGED <<conf, vanished>>
  PROVE  /\ Grows /\ exist \subseteq exist'
         /\ IsDir(place) => place \in exist'
<1>1. PlacesInv /\ conf \in Configs
  BY DEF CompleteInv, PlacesInv, DiscoveryInv
<1>2. /\ s \in Sides /\ run[p].conf \in Configs
      /\ \E x \in Names \cup {None} : place = PlaceOf(run[p].conf, s, x)
      /\ place \in exist \cup vanished
  BY <1>1, OpenedPlace
<1>3. PICK x \in Names \cup {None} : place = PlaceOf(run[p].conf, s, x)
  BY <1>2
<1>4. /\ IsDir(place) => place \in exist'
      /\ exist' = exist \/ (place \notin exist
                             /\ exist' = exist \cup WithParents(Child(place, Name(place))))
  BY <1>1, <1>2, <1>3, OpenedWorld
<1>5. CASE exist' = exist
  BY <1>4, <1>5, StillGrows
<1>6. CASE place \notin exist
           /\ exist' = exist \cup WithParents(Child(place, Name(place)))
  <2>1. \A st \in Sides : conf[st] \in Storages
    BY <1>1, ConfigsAssumption DEF Sides
  <2>2. \A k \in DOMAIN Shortcuts(conf) :
          IsFrom(Shortcuts(conf)[k]) => Shortcuts(conf)[k].from \in Sides
    <3>1. Shortcuts(conf) \in Seq(Elements \cup {Named(None, None, None)})
      BY <1>1, ShortcutsType
    <3>2. \A k \in DOMAIN Shortcuts(conf) :
            Shortcuts(conf)[k] \in Elements \cup {Named(None, None, None)}
      BY <3>1
    <3> QED BY <3>2, ElementNames
  <2>3. place \in vanished
    BY <1>2, <1>6
  <2>4. Growth(conf, exist, exist \cup WithParents(Child(place, Name(place))), vanished)
    BY <1>2, <1>3, <2>1, <2>2, <2>3, OpenGrows
  <2> QED BY <1>4, <1>6, <2>4 DEF Grows
<1> QED BY <1>4, <1>5, <1>6

LEMMA OpenComplete ==
  ASSUME CompleteInv, NEW p \in Procs, NEW n, NEW s, NEW from \in {"check", "open"},
         OpenNext(p, n, s), Step(p, from, from)
  PROVE  CalmInvs'
<1> DEFINE m == run[p]
<1>1. PICK place : place = m.cols[n][s]
  OBVIOUS
<1>2. PICK at : at = m.at \cup {<<n, s, Opened(place)>>}
  OBVIOUS
<1> DEFINE r == [run[p] EXCEPT !.jobs = @ \ {<<n, s>>}, !.at = at]
<1>3. /\ <<n, s>> \in m.jobs /\ pc[p] = from /\ exist' = ExistAfter(place)
      /\ UNCHANGED <<conf, vanished, cache, settled>>
  BY <1>1 DEF OpenNext, Step, Quiet
<1>4. Remember(p, r)
  BY <1>1, <1>2 DEF OpenNext, Remember
<1>5. /\ DOMAIN m = Fields /\ Sound(m)
      /\ from = "check" /\ m.calm => Doing(m, from, exist, vanished)
  BY <1>3, DoingOf
<1>6. /\ Grows /\ exist \subseteq exist'
      /\ IsDir(place) => place \in exist'
      /\ s \in Sides /\ m.conf \in Configs
  BY <1>1, <1>3, OpenedGrows, OpenedPlace DEF CompleteInv
<1>7. /\ r.conf = m.conf /\ r.seen = m.seen /\ r.made = m.made /\ r.cols = m.cols
      /\ r.todo = m.todo /\ r.calm = m.calm /\ r.jobs = m.jobs \ {<<n, s>>}
  BY <1>5 DEF Fields
<1> HIDE DEF r
<1>8. ASSUME from = "check", m.calm PROVE Doing(r, from, exist', vanished)
  <2>1. AllCalm /\ m.conf = conf
    BY <1>3, <1>8, CalmOf
  <2>2. Growth(m.conf, exist, exist', vanished)
    BY <1>6, <2>1 DEF Grows
  <2> HIDE DEF m
  <2>3. Doing(m, from, exist', vanished)
    BY <1>5, <1>8, <2>2, DoingStays
  <2>4. Sighted(r, exist') /\ Within(r, exist')
    BY <1>7, <2>3 DEF Doing, Sighted, Within
  <2>5. \A t \in Sides : Sight(r, t, exist') = Sight(m, t, exist')
    BY <1>7 DEF Sight
  <2>6. CoversAll(r, exist', vanished)
    BY <1>5, <1>7, <2>3, <2>5, SameSight DEF Doing
  <2>7. Root(m.conf[s]).in = m.conf[s] /\ m.conf[s] \in Storages
    BY <1>6, ConfigsAssumption DEF Root, Sides
  <2>8. place = Root(m.conf[s]) => place \in exist'
    <3>1. \A st \in Dav : Root(st) \in exist
      BY DEF CompleteInv, PlacesInv, OpenInvs, WorldInv
    <3> QED BY <1>6, <2>7, <3>1 DEF IsDir
  <2>9. Standing(r, from, exist')
    <3> SUFFICES ASSUME NEW k \in DOMAIN r.cols, NEW t \in Sides, r.cols[k][t] \notin exist'
                 PROVE  r.cols[k][t] = Root(r.conf[t]) /\ <<k, t>> \in r.jobs
      BY DEF Standing
    <3>1. m.cols[k][t] = Root(m.conf[t]) /\ <<k, t>> \in m.jobs
      BY <1>7, <1>8, <2>3 DEF Doing, Standing
    <3>2. <<k, t>> # <<n, s>>
      BY <1>1, <1>7, <2>8, <3>1
    <3> QED BY <1>7, <3>1, <3>2
  <2> QED BY <1>7, <2>3, <2>4, <2>6, <2>9 DEF Doing
<1>9. from # "idle" /\ (from \in {"discover", "check"} => from = "check")
  OBVIOUS
<1> HIDE DEF m
<1> QED BY <1>3, <1>4, <1>6, <1>7, <1>8, <1>9, GoOnComplete DEF m

(* What a command that nobody disturbed saves is what people are told.     *)
LEMMA SaveComplete ==
  ASSUME CompleteInv, NEW p \in Procs, Save(p)
  PROVE  CalmInvs'
<1> DEFINE m == run[p]
<1>1. /\ pc[p] = "check" /\ m.jobs = {} /\ Sound(m) /\ m.conf \in Configs
      /\ m.calm => Doing(m, "check", exist, vanished)
  BY DoingOf DEF Save, CompleteInv, PlacesInv, DiscoveryInv, RunInv
<1>2. /\ UNCHANGED <<conf, vanished, exist>> /\ settled' = m.calm
      /\ run' = [run EXCEPT ![p] = Gone] /\ pc' = [pc EXCEPT ![p] = "idle"]
      /\ cache' = [key |-> Key(m.conf), cols |-> Compressed(m.conf, m.cols)]
  BY DEF Save, End, Step
<1>3. CalmInv'
  BY <1>1, <1>2, EndCalm
<1>4. Grows
  BY <1>2, StillGrows
<1>5. ProgressInv'
  BY <1>2, <1>4, OthersProgress
<1>6. ASSUME m.calm PROVE m.conf = conf
  BY <1>1, <1>6, CalmOf
<1>7. /\ cache'.key = Key(m.conf) /\ cache'.cols = Compressed(m.conf, m.cols)
      /\ DOMAIN cache'.cols = DOMAIN m.cols
      /\ \A n \in DOMAIN m.cols, s \in Sides :
           Uncompressed(m.conf, cache'.cols)[n][s] = m.cols[n][s]
  <2>1. cache'.key = Key(m.conf) /\ cache'.cols = Compressed(m.conf, m.cols)
    BY <1>2
  <2>2. AllRequested(m.conf, m.cols)
    BY <1>1 DEF Sound
  <2> QED BY <1>1, <2>1, <2>2, SavedBack
<1>8. ASSUME m.calm PROVE cache' # None
  <2>1. \A n \in DOMAIN m.cols : n \in Names \cup {None}
    BY <1>1, <1>8, WantedNames DEF Doing, Within
  <2>2. ASSUME NEW n \in DOMAIN m.cols
        PROVE  [s \in Sides |-> IF m.cols[n][s] = Root(m.conf[s]) THEN None ELSE m.cols[n][s]]
                 \in [Sides -> Places \cup {None}]
    <3>1. \A s \in Sides : m.cols[n][s] \in Places
      BY <1>1, RequestedPlaces DEF Sound, AllRequested
    <3> QED BY <3>1
  <2>3. Compressed(m.conf, m.cols) \in [DOMAIN m.cols -> [Sides -> Places \cup {None}]]
    BY <2>2 DEF Compressed
  <2>4. DOMAIN m.cols \in SUBSET (Names \cup {None}) /\ Key(m.conf) \in {Key(c) : c \in Configs}
    BY <1>1, <2>1
  <2>5. cache' \in Caches
    BY <1>2, <2>3, <2>4 DEF Caches
  <2> QED BY <2>5, NoneIsNoCache
<1> HIDE DEF m
<1>9. ASSUME m.calm
      PROVE  /\ cache' # None /\ cache'.key = Key(conf)
             /\ \A n \in DOMAIN cache'.cols : Wants(conf, exist, n)
             /\ NamesFound(conf) =>
                  \A n \in Names \cup {None} :
                    Wants(conf, exist, n) => n \in DOMAIN cache'.cols \/ Revived(conf, vanished, n)
             /\ \A n \in DOMAIN cache'.cols, s \in Sides :
                  Uncompressed(conf, cache'.cols)[n][s] \in exist
  <2>1. /\ Within(m, exist) /\ CoversAll(m, exist, vanished) /\ m.todo = <<>>
        /\ Standing(m, "check", exist)
    BY <1>1, <1>9 DEF Doing
  <2>2. \A n : ~ InTodo(m, exist, n)
    BY <2>1 DEF InTodo
  <2>3. \A n \in DOMAIN m.cols : Wants(m.conf, exist, n)
    BY <2>1 DEF Within
  <2>4. NamesFound(m.conf) =>
          \A n \in Names \cup {None} :
            Wants(m.conf, exist, n) => n \in DOMAIN m.cols \/ Revived(m.conf, vanished, n)
    BY <2>1, <2>2 DEF CoversAll, Covered
  <2>5. \A n \in DOMAIN m.cols, s \in Sides : m.cols[n][s] \in exist
    BY <1>1, <2>1 DEF Standing
  <2> QED BY <1>6, <1>7, <1>8, <1>9, <2>3, <2>4, <2>5
<1>10. SettledInv'
  BY <1>2, <1>9 DEF SettledInv
<1> QED BY <1>3, <1>5, <1>10 DEF CalmInvs

LEMMA ReadComplete ==
  ASSUME CompleteInv, NEW p \in Procs, ReadCache(p)
  PROVE  CalmInvs'
<1> DEFINE m == run[p]
<1>1. DOMAIN m = Fields
  BY DoingOf
<1>2. PICK cols, jobs : Remember(p, [run[p] EXCEPT !.cols = cols, !.jobs = jobs])
  BY DEF ReadCache
<1> DEFINE r == [run[p] EXCEPT !.cols = cols, !.jobs = jobs]
<1>3. r.conf = m.conf /\ r.calm = m.calm
  BY <1>1 DEF Fields
<1>4. /\ Step(p, "sync", "open") /\ Remember(p, r)
      /\ UNCHANGED <<exist, cache, settled>>
  BY <1>2 DEF ReadCache, Quiet
<1> HIDE DEF r, m
<1>5. Grows
  BY <1>4, StillGrows DEF Step
<1> QED BY <1>3, <1>4, <1>5, GoOnComplete DEF m

-----------------------------------------------------------------------------
(* The invariant holds at the start, and every step keeps it.              *)

LEMMA InitComplete == Init => CompleteInv
<1> SUFFICES ASSUME Init PROVE CompleteInv
  OBVIOUS
<1>1. \A p \in Procs : pc[p] = "idle" /\ run[p] = Gone
  BY DEF Init
<1>2. Gone.calm = TRUE
  BY DEF Gone, Fresh
<1>3. CalmInv /\ ProgressInv /\ SettledInv
  BY <1>1, <1>2 DEF Init, CalmInv, ProgressInv, SettledInv, AllCalm
<1> QED BY <1>3, InitPlaces DEF CompleteInv

LEMMA NextComplete == CompleteInv /\ [Next]_vars => CompleteInv'
<1> SUFFICES ASSUME CompleteInv, [Next]_vars PROVE CalmInvs'
  BY NextPlaces DEF CompleteInv, CalmInvs
<1>1. ASSUME NEW p \in Procs,
             \/ CacheMiss(p) \/ Finish(p) \/ Kill(p)
             \/ \E s \in Sides : DiscoverFails(p, s) \/ CreateFails(p, s)
      PROVE  CalmInvs'
  <2>1. \E from : from # "idle" /\ End(p, from) /\ UNCHANGED <<exist, cache, settled>>
    BY <1>1 DEF CacheMiss, Finish, Kill, DiscoverFails, CreateFails, Quiet, Fault
  <2> QED BY <2>1, EndComplete
<1>2. ASSUME NEW p \in Procs, NEW n, NEW s, Check(p, n, s) \/ Open(p, n, s)
      PROVE  CalmInvs'
  BY <1>2, OpenComplete DEF Check, Open
<1>3. ASSUME \/ \E c \in Configs : EditConfig(c)
             \/ \E st \in Storages, n \in Names : Add(st, n)
             \/ \E place \in Places : Vanish(place)
      PROVE  CalmInvs'
  <2>1. Edited
    BY <1>3 DEF EditConfig, Add, Vanish
  <2> QED BY <2>1, PeopleComplete
<1>4. CASE UNCHANGED vars
  <2>1. CalmInv /\ ProgressInv /\ SettledInv
    BY DEF CompleteInv
  <2> QED BY <1>4, <2>1 DEF vars, CalmInvs, CalmInv, ProgressInv, SettledInv, AllCalm
<1> QED
  BY <1>1, <1>2, <1>3, <1>4, StartComplete, DiscoverComplete, CreateComplete,
     ExpandComplete, SkipComplete, ResolveComplete, ExpandedComplete, SaveComplete,
     ReadComplete DEF Next

(* A discovery that nobody disturbed saves all collections that the        *)
(* configuration stands for, and no others, and they exist on both sides   *)
(* until people change something, however it runs with other commands and  *)
(* whatever of these is interrupted (DiscoveryIsComplete;                  *)
(* collections_for_pair and expand_collections).                           *)
THEOREM DiscoveryAlwaysComplete == Spec => []DiscoveryIsComplete
<1>1. CompleteInv => DiscoveryIsComplete
  <2> SUFFICES ASSUME CompleteInv, settled PROVE DiscoveryIsComplete
    BY DEF DiscoveryIsComplete
  <2>1. SettledInv /\ conf \in Configs
    BY DEF CompleteInv, PlacesInv, DiscoveryInv
  <2>2. IsUsable(conf)
    BY <2>1 DEF SettledInv, IsUsable
  <2>3. DOMAIN cache.cols \subseteq Wanted(conf)
    BY <2>1, WantedIs DEF SettledInv
  <2>4. \A n \in Wanted(conf) : n \in Names \cup {None} /\ Wants(conf, exist, n)
    BY <2>1, WantedIs, WantedNames
  <2>5. NamesFound(conf) =>
          \A n \in Wanted(conf) \ DOMAIN cache.cols :
            \E s \in Sides : PlaceOf(conf, s, n) \in vanished
    BY <2>1, <2>4 DEF SettledInv, Revived
  <2> QED BY <2>1, <2>2, <2>3, <2>5 DEF DiscoveryIsComplete, SettledInv
<1> QED BY InitComplete, NextComplete, <1>1, PTL DEF Spec

-----------------------------------------------------------------------------
(* Types.                                                                  *)

OpenedFormed(r) == \A j \in r.at : <<j[1], j[2]>> \in AllStorages(r.cols) /\ j[3] \in Places
Formed(r) ==
  /\ r.seen \in [Sides -> {None} \cup SUBSET Names]
  /\ r.made \in [Sides -> SUBSET Names]
  /\ r.cols \in [DOMAIN r.cols -> [Sides -> Places]]
  /\ OpenedFormed(r)

CacheFormed ==
  cache # None => cache.cols \in [DOMAIN cache.cols -> [Sides -> {None} \cup Places]]

CountersInv ==
  /\ pc \in [Procs -> {"idle", "discover", "check", "sync", "open"}]
  /\ vanished \subseteq Places /\ settled \in BOOLEAN
  /\ runs \in 0 .. MaxRuns /\ edits \in 0 .. MaxEdits /\ faults \in 0 .. MaxFaults

RunsFormed == \A p \in Procs : Formed(run[p])
FormInv == RunsFormed /\ CacheFormed /\ CountersInv
TypeInv == CompleteInv /\ FormInv

LEMMA FormedSame ==
  ASSUME NEW r, NEW m, Formed(m), r.seen = m.seen, r.made = m.made, r.cols = m.cols,
         r.at = m.at
  PROVE  Formed(r)
BY DEF Formed, OpenedFormed

LEMMA FreshFormed ==
  ASSUME NEW r, r.seen = [s \in Sides |-> None], r.made = [s \in Sides |-> {}],
         r.cols = <<>>, r.at = {}
  PROVE  Formed(r)
BY DEF Formed, OpenedFormed

LEMMA GoneFormed == Formed(Gone)
BY FreshFormed DEF Gone, Fresh

LEMMA OwnFormed ==
  ASSUME TypeInv, NEW p \in Procs, NEW r, Formed(r), run' = [run EXCEPT ![p] = r]
  PROVE  RunsFormed'
<1> SUFFICES ASSUME NEW q \in Procs PROVE Formed(run'[q])
  BY DEF RunsFormed
<1>1. DOMAIN run = Procs /\ Formed(run[q])
  BY FieldsOf DEF TypeInv, CompleteInv, PlacesInv, FormInv, RunsFormed
<1> QED BY <1>1

LEMMA StepCounters ==
  ASSUME TypeInv, NEW p, NEW from, NEW to, Step(p, from, to),
         to \in {"idle", "discover", "check", "sync", "open"},
         settled' \in BOOLEAN, faults' \in 0 .. MaxFaults
  PROVE  CountersInv'
BY DEF TypeInv, FormInv, CountersInv, Step

(* Of a command that goes on.                                              *)
LEMMA GoOnFormed ==
  ASSUME TypeInv, NEW p \in Procs, NEW from, NEW to, Step(p, from, to), to # "idle",
         to \in {"idle", "discover", "check", "sync", "open"},
         NEW r, Remember(p, r), Formed(r), Quiet, UNCHANGED cache
  PROVE  FormInv'
<1>1. RunsFormed'
  BY OwnFormed DEF Remember
<1>2. CountersInv'
  BY StepCounters DEF TypeInv, FormInv, CountersInv, Quiet
<1>3. CacheFormed'
  BY DEF TypeInv, FormInv, CacheFormed
<1> QED BY <1>1, <1>2, <1>3 DEF FormInv

LEMMA EndFormed ==
  ASSUME TypeInv, NEW p \in Procs, NEW from, End(p, from), Quiet \/ Fault,
         UNCHANGED cache
  PROVE  FormInv'
<1>1. RunsFormed'
  BY GoneFormed, OwnFormed DEF End
<1>2. settled' \in BOOLEAN /\ faults' \in 0 .. MaxFaults
  BY BoundsAssumption DEF TypeInv, FormInv, CountersInv, Quiet, Fault
<1>3. CountersInv'
  BY <1>2, StepCounters DEF End
<1>4. CacheFormed'
  BY DEF TypeInv, FormInv, CacheFormed
<1> QED BY <1>1, <1>3, <1>4 DEF FormInv

(* What is known of a command in any state.                                *)
LEMMA TypeOf ==
  ASSUME TypeInv, NEW p \in Procs
  PROVE  /\ DOMAIN run[p] = Fields /\ Sound(run[p]) /\ Formed(run[p])
         /\ pc[p] # "idle" => run[p].conf \in Configs
         /\ pc[p] \in {"idle", "discover", "sync"} => run[p].at = {}
         /\ OpenedWell(run[p], vanished)
BY FieldsOf DEF TypeInv, CompleteInv, PlacesInv, OpenInvs, CommandInv, DiscoveryInv,
                RunInv, FormInv, RunsFormed

LEMMA PeopleFormed ==
  ASSUME TypeInv, Edited, vanished' \subseteq Places
  PROVE  FormInv'
<1>1. RunsFormed'
  <2> SUFFICES ASSUME NEW q \in Procs PROVE Formed(run'[q])
    BY DEF RunsFormed
  <2> DEFINE m == run[q]
             r == [run[q] EXCEPT !.calm = pc[q] = "idle"]
  <2>1. DOMAIN m = Fields /\ Formed(m)
    BY TypeOf
  <2>2. run'[q] = r
    BY DEF Edited
  <2>3. r.seen = m.seen /\ r.made = m.made /\ r.cols = m.cols /\ r.at = m.at
    BY <2>1 DEF Fields
  <2> HIDE DEF r, m
  <2> QED BY <2>1, <2>2, <2>3, FormedSame
<1>2. CountersInv'
  <2>1. edits < MaxEdits /\ edits' = edits + 1
    BY Zenon DEF Edited
  <2>2. settled' \in BOOLEAN /\ UNCHANGED <<cache, pc, runs, faults>>
    BY Zenon DEF Edited
  <2> QED BY <2>1, <2>2, BoundsAssumption DEF TypeInv, FormInv, CountersInv
<1>3. CacheFormed'
  BY DEF TypeInv, FormInv, CacheFormed, Edited
<1> QED BY <1>1, <1>2, <1>3 DEF FormInv

LEMMA StartFormed ==
  ASSUME TypeInv, NEW p \in Procs, NEW command \in {"discover", "sync"}, Start(p, command)
  PROVE  FormInv'
<1> DEFINE todo == IF command = "discover" THEN Shortcuts(conf) ELSE <<>>
           r == [Fresh(conf) EXCEPT !.todo = todo, !.calm = AllCalm]
<1>1. /\ r.seen = [s \in Sides |-> None] /\ r.made = [s \in Sides |-> {}]
      /\ r.cols = <<>> /\ r.at = {}
  <2> HIDE DEF todo
  <2> QED BY DEF Fresh
<1>2. run' = [run EXCEPT ![p] = r]
  BY DEF Start, AllCalm
<1> HIDE DEF r
<1>3. RunsFormed'
  BY <1>1, <1>2, FreshFormed, OwnFormed
<1>4. CountersInv'
  BY BoundsAssumption DEF TypeInv, FormInv, CountersInv, Start
<1>5. CacheFormed'
  BY DEF TypeInv, FormInv, CacheFormed, Start
<1> QED BY <1>3, <1>4, <1>5 DEF FormInv

LEMMA DiscoverFormed ==
  ASSUME TypeInv, NEW p \in Procs, NEW s \in Sides, Discover(p, s)
  PROVE  FormInv'
<1> DEFINE m == run[p]
           r == [run[p] EXCEPT !.seen[s] = Discovered(run[p].conf[s])]
<1>1. DOMAIN m = Fields /\ Formed(m)
  BY TypeOf
<1>2. PICK found : found = Discovered(m.conf[s])
  OBVIOUS
<1>3. found \in SUBSET Names
  BY <1>2 DEF Discovered
<1>4. /\ r.made = m.made /\ r.cols = m.cols /\ r.at = m.at
      /\ r.seen = [m.seen EXCEPT ![s] = found]
  BY <1>1, <1>2 DEF Fields
<1>5. Step(p, "discover", "discover") /\ Remember(p, r) /\ Quiet /\ UNCHANGED cache
  BY DEF Discover
<1> HIDE DEF r, m
<1>6. Formed(r)
  BY <1>1, <1>3, <1>4 DEF Formed, OpenedFormed
<1> QED BY <1>5, <1>6, GoOnFormed

(* Elements come and go, or storages are to be opened.                     *)
LEMMA ListsFormed ==
  ASSUME TypeInv, NEW p \in Procs, Expand(p) \/ Skip(p) \/ Expanded(p)
  PROVE  FormInv'
<1> DEFINE m == run[p]
<1>1. DOMAIN m = Fields /\ Formed(m)
  BY TypeOf
<1>2. PICK todo, jobs : Remember(p, [run[p] EXCEPT !.todo = todo, !.jobs = jobs])
  <2>1. ASSUME NEW x PROVE [run[p] EXCEPT !.todo = x]
                             = [run[p] EXCEPT !.todo = x, !.jobs = run[p].jobs]
    BY <1>1 DEF Fields
  <2>2. ASSUME NEW x PROVE [run[p] EXCEPT !.jobs = x]
                             = [run[p] EXCEPT !.todo = run[p].todo, !.jobs = x]
    BY <1>1 DEF Fields
  <2>3. CASE Expand(p)
    <3>1. PICK x : Remember(p, [run[p] EXCEPT !.todo = x])
      BY <2>3 DEF Expand
    <3> QED BY <2>1, <3>1
  <2>4. CASE Skip(p)
    BY <2>1, <2>4 DEF Skip
  <2>5. CASE Expanded(p)
    BY <2>2, <2>5 DEF Expanded
  <2> QED BY <2>3, <2>4, <2>5
<1> DEFINE r == [run[p] EXCEPT !.todo = todo, !.jobs = jobs]
<1>3. r.seen = m.seen /\ r.made = m.made /\ r.cols = m.cols /\ r.at = m.at
  BY <1>1 DEF Fields
<1>4. /\ \E to \in {"discover", "check"} : Step(p, "discover", to)
      /\ Remember(p, r) /\ Quiet /\ UNCHANGED cache
  BY <1>2 DEF Expand, Skip, Expanded
<1> HIDE DEF r, m
<1>5. Formed(r)
  BY <1>1, <1>3, FormedSame
<1> QED BY <1>4, <1>5, GoOnFormed

LEMMA CreateFormed ==
  ASSUME TypeInv, NEW p \in Procs, NEW s \in Sides, Create(p, s)
  PROVE  FormInv'
<1> DEFINE m == run[p]
           e == First(p)
           r == [run[p] EXCEPT !.made[s] = @ \cup {First(p)[s]}]
<1>1. DOMAIN m = Fields /\ Formed(m) /\ Sound(m) /\ m.todo # <<>>
  BY TypeOf DEF Create, Expanding
<1>2. e[s] \in Names
  <2>1. m.todo[1] = Head(m.todo) /\ 1 \in DOMAIN m.todo
    BY <1>1, FirstAndRest DEF Sound
  <2>2. e \in Allowed(m.conf) /\ ~ IsFrom(e) /\ e[s] # None
    BY <1>1, <2>1, TodoSides DEF Create, First, Missing, Found
  <2> QED BY <2>2, ElementNames DEF Allowed
<1>3. PICK n : n = e[s]
  OBVIOUS
<1>4. /\ r.seen = m.seen /\ r.cols = m.cols /\ r.at = m.at
      /\ r.made = [m.made EXCEPT ![s] = @ \cup {n}]
  BY <1>1, <1>3 DEF Fields
<1>5. Step(p, "discover", "discover") /\ Remember(p, r) /\ Quiet /\ UNCHANGED cache
  BY DEF Create
<1> HIDE DEF r, m, e
<1>6. Formed(r)
  BY <1>1, <1>2, <1>3, <1>4 DEF Formed, OpenedFormed
<1> QED BY <1>5, <1>6, GoOnFormed

LEMMA ResolveFormed ==
  ASSUME TypeInv, NEW p \in Procs, Resolve(p)
  PROVE  FormInv'
<1> DEFINE m == run[p]
           e == First(p)
           places == [s \in Sides |-> PlaceOf(m.conf, s, e[s])]
<1>1. /\ DOMAIN m = Fields /\ Formed(m) /\ Sound(m) /\ m.todo # <<>> /\ m.at = {}
      /\ m.conf \in Configs
  BY TypeOf DEF Resolve, Expanding, Step
<1>2. places \in [Sides -> Places]
  <2>1. m.todo[1] = Head(m.todo) /\ 1 \in DOMAIN m.todo
    BY <1>1, FirstAndRest DEF Sound
  <2>2. e \in Allowed(m.conf) /\ ~ IsFrom(e)
    BY <1>1, <2>1, TodoSides DEF Resolve, First
  <2>3. \A s \in Sides : e[s] \in Names \cup {None}
    BY <2>2, ElementNames DEF Allowed
  <2>4. \A s \in Sides : m.conf[s] \in Storages
    BY <1>1, ConfigsAssumption DEF Sides
  <2>5. \A s \in Sides : PlaceOf(m.conf, s, e[s]) \in Places
    BY <2>3, <2>4, NoPlaceIsNone
  <2> HIDE DEF m, e
  <2> QED BY <2>5
<1>3. PICK new : new = places
  OBVIOUS
<1> DEFINE cols == With(m.cols, e.name, new)
           r == [run[p] EXCEPT !.todo = Tail(@), !.cols = cols]
<1>4. Step(p, "discover", "discover") /\ Remember(p, r) /\ Quiet /\ UNCHANGED cache
  BY <1>3 DEF Resolve
<1>5. cols \in [DOMAIN cols -> [Sides -> Places]]
  BY <1>1, <1>2, <1>3 DEF With, Formed
<1> HIDE DEF cols, places
<1>6. r.seen = m.seen /\ r.made = m.made /\ r.cols = cols /\ r.at = m.at
  BY <1>1 DEF Fields
<1> HIDE DEF r, m, e
<1>7. Formed(r)
  BY <1>1, <1>5, <1>6 DEF Formed, OpenedFormed
<1> QED BY <1>4, <1>7, GoOnFormed

LEMMA OpenFormed ==
  ASSUME TypeInv, NEW p \in Procs, NEW n, NEW s, NEW from \in {"check", "open"},
         OpenNext(p, n, s), Step(p, from, from)
  PROVE  FormInv'
<1> DEFINE m == run[p]
<1>0. <<n, s>> \in m.jobs /\ pc[p] = from /\ PlacesInv
  BY DEF OpenNext, Step, TypeInv, CompleteInv
<1>1. PICK place : place = m.cols[n][s]
  OBVIOUS
<1>2. /\ DOMAIN m = Fields /\ Formed(m) /\ OpenedWell(m, vanished)
      /\ m.conf \in Configs
  BY <1>0, TypeOf
<1>3. \E x \in Names \cup {None} : s \in Sides /\ place = PlaceOf(m.conf, s, x)
  BY <1>0, <1>1, OpenedPlace
<1>4. PICK at : at = Opened(place)
  OBVIOUS
<1>5. at \in Places
  BY <1>2, <1>3, <1>4, PlaceIsPlace DEF Opened
<1> DEFINE r == [run[p] EXCEPT !.jobs = @ \ {<<n, s>>}, !.at = @ \cup {<<n, s, at>>}]
<1>6. Remember(p, r) /\ Quiet /\ UNCHANGED cache
  BY <1>1, <1>4 DEF OpenNext
<1>7. /\ r.seen = m.seen /\ r.made = m.made /\ r.cols = m.cols
      /\ r.at = m.at \cup {<<n, s, at>>}
  BY <1>2 DEF Fields
<1> HIDE DEF r, m
<1>8. OpenedFormed(r)
  <2> SUFFICES ASSUME NEW j \in r.at
               PROVE  <<j[1], j[2]>> \in AllStorages(r.cols) /\ j[3] \in Places
    BY DEF OpenedFormed
  <2>1. CASE j \in m.at
    BY <1>2, <1>7, <2>1 DEF Formed, OpenedFormed
  <2>2. CASE j = <<n, s, at>>
    <3>1. j[1] = n /\ j[2] = s /\ j[3] = at
      BY <2>2
    <3> QED BY <1>0, <1>2, <1>5, <1>7, <3>1 DEF OpenedWell
  <2> QED BY <1>7, <2>1, <2>2
<1>9. Formed(r)
  BY <1>2, <1>7, <1>8 DEF Formed
<1> QED BY <1>6, <1>9, GoOnFormed

LEMMA SaveFormed ==
  ASSUME TypeInv, NEW p \in Procs, Save(p)
  PROVE  FormInv'
<1> DEFINE m == run[p]
<1>1. RunsFormed'
  BY GoneFormed, OwnFormed DEF Save, End
<1>2. CountersInv'
  <2>1. settled' \in BOOLEAN
    BY DEF Save, TypeInv, CompleteInv, CalmInv
  <2>2. faults' \in 0 .. MaxFaults
    BY DEF Save, TypeInv, FormInv, CountersInv
  <2> QED BY <2>1, <2>2, StepCounters DEF Save, End
<1>3. m.cols \in [DOMAIN m.cols -> [Sides -> Places]]
  BY TypeOf DEF Formed
<1>4. cache'.cols = Compressed(m.conf, m.cols)
  BY DEF Save
<1> HIDE DEF m
<1>5. cache'.cols \in [DOMAIN m.cols -> [Sides -> {None} \cup Places]]
  BY <1>3, <1>4 DEF Compressed
<1>6. CacheFormed'
  BY <1>5 DEF CacheFormed
<1> QED BY <1>1, <1>2, <1>6 DEF FormInv

LEMMA ReadFormed ==
  ASSUME TypeInv, NEW p \in Procs, ReadCache(p)
  PROVE  FormInv'
<1> DEFINE m == run[p]
           all == Uncompressed(m.conf, cache.cols)
<1>1. DOMAIN m = Fields /\ Formed(m) /\ m.at = {} /\ m.conf \in Configs
  BY TypeOf DEF ReadCache, Step
<1>2. PICK chosen \in {DOMAIN cache.cols} \cup {{n} : n \in DOMAIN cache.cols} :
        Remember(p, [run[p] EXCEPT !.cols = [n \in chosen |-> all[n]],
                                   !.jobs = chosen \X Sides])
  BY DEF ReadCache
<1>3. chosen \subseteq DOMAIN cache.cols
  BY <1>2
<1>4. cache.cols \in [DOMAIN cache.cols -> [Sides -> {None} \cup Places]]
  BY DEF ReadCache, IsUsable, TypeInv, FormInv, CacheFormed
<1>5. \A s \in Sides : Root(m.conf[s]) \in Places
  <2>1. \A s \in Sides : m.conf[s] \in Storages
    BY <1>1, ConfigsAssumption DEF Sides
  <2> QED BY <2>1 DEF Root, Places, Paths
<1>6. all \in [DOMAIN cache.cols -> [Sides -> Places]]
  BY <1>4, <1>5 DEF Uncompressed
<1> DEFINE cols == [n \in chosen |-> all[n]]
           r == [run[p] EXCEPT !.cols = cols, !.jobs = chosen \X Sides]
<1>7. Step(p, "sync", "open") /\ Remember(p, r) /\ Quiet /\ UNCHANGED cache
  BY <1>2 DEF ReadCache
<1> HIDE DEF all
<1>8. cols \in [chosen -> [Sides -> Places]]
  BY <1>3, <1>6
<1> HIDE DEF cols
<1>9. r.seen = m.seen /\ r.made = m.made /\ r.cols = cols /\ r.at = m.at
  BY <1>1 DEF Fields
<1> HIDE DEF r, m
<1>10. Formed(r)
  BY <1>1, <1>8, <1>9 DEF Formed, OpenedFormed
<1> QED BY <1>7, <1>10, GoOnFormed

LEMMA InitTypes == Init => TypeInv
<1> SUFFICES ASSUME Init PROVE TypeInv
  OBVIOUS
<1>1. RunsFormed
  BY GoneFormed DEF Init, RunsFormed
<1>2. CacheFormed
  BY DEF Init, CacheFormed
<1>3. CountersInv
  <2>1. pc = [p \in Procs |-> "idle"] /\ vanished = {} /\ settled \in BOOLEAN
    BY Zenon DEF Init
  <2>2. runs = 0 /\ edits = 0 /\ faults = 0
    BY DEF Init
  <2> QED BY <2>1, <2>2, BoundsAssumption DEF CountersInv
<1> QED BY <1>1, <1>2, <1>3, InitComplete DEF TypeInv, FormInv

LEMMA NextTypes == TypeInv /\ [Next]_vars => TypeInv'
<1> SUFFICES ASSUME TypeInv, [Next]_vars PROVE FormInv'
  BY NextComplete DEF TypeInv
<1>1. ASSUME NEW p \in Procs,
             \/ CacheMiss(p) \/ Finish(p) \/ Kill(p)
             \/ \E s \in Sides : DiscoverFails(p, s) \/ CreateFails(p, s)
      PROVE  FormInv'
  <2>1. (\E from : End(p, from)) /\ (Quiet \/ Fault) /\ UNCHANGED cache
    BY <1>1 DEF CacheMiss, Finish, Kill, DiscoverFails, CreateFails
  <2> QED BY <2>1, EndFormed
<1>2. ASSUME NEW p \in Procs, NEW n, NEW s, Check(p, n, s) \/ Open(p, n, s)
      PROVE  FormInv'
  BY <1>2, OpenFormed DEF Check, Open
<1>3. ASSUME \/ \E c \in Configs : EditConfig(c)
             \/ \E st \in Storages, n \in Names : Add(st, n)
             \/ \E place \in Places : Vanish(place)
      PROVE  FormInv'
  <2>1. Edited /\ vanished' \subseteq vanished \cup exist
    BY <1>3 DEF EditConfig, Add, Vanish
  <2>2. vanished' \subseteq Places
    BY <2>1 DEF TypeInv, FormInv, CountersInv, CompleteInv, PlacesInv, OpenInvs, WorldInv
  <2> QED BY <2>1, <2>2, PeopleFormed
<1>4. CASE UNCHANGED vars
  BY <1>4 DEF vars, TypeInv, FormInv, RunsFormed, CacheFormed, CountersInv
<1> QED
  BY <1>1, <1>2, <1>3, <1>4, StartFormed, DiscoverFormed, CreateFormed, ListsFormed,
     ResolveFormed, SaveFormed, ReadFormed DEF Next

(* A name a configuration asks for is the name of a collection.            *)
LEMMA RequestedNames ==
  ASSUME NEW c \in Configs, NEW n, NEW places, Requested(c, n, places)
  PROVE  n \in Names \cup {None}
<1> DEFINE Sc == Shortcuts(c)
<1>1. Sc \in Seq(Elements \cup {Named(None, None, None)})
  BY ShortcutsType
<1>2. PICK k \in DOMAIN Sc : IF IsFrom(Sc[k]) THEN n \in Names ELSE n = Sc[k].name
  BY DEF Requested
<1>3. Sc[k] \in Elements \cup {Named(None, None, None)}
  <2> HIDE DEF Sc
  <2> QED BY <1>1
<1> HIDE DEF Sc
<1>4. ~ IsFrom(Sc[k]) => Sc[k].name \in Names \cup {None}
  BY <1>3 DEF Elements, Named, From, IsFrom
<1> QED BY <1>2, <1>4

(* The state stays within its types: what is saved and remembered are      *)
(* elements, names and places, and directories exist with their parents    *)
(* (TypeOK; DiscoverResult, save_status and load_status).                  *)
THEOREM DiscoveryTypeCorrect == Spec => []TypeOK
<1>1. TypeInv => TypeOK
  <2> SUFFICES ASSUME TypeInv PROVE TypeOK
    OBVIOUS
  <2>1. /\ conf \in Configs /\ exist \subseteq Places
        /\ \A q \in exist : WithParents(q) \subseteq exist
    BY DEF TypeInv, CompleteInv, PlacesInv, DiscoveryInv, OpenInvs, WorldInv
  <2>2. ASSUME cache # None
        PROVE  /\ cache.key \in {Key(c) : c \in Configs}
               /\ DOMAIN cache.cols \subseteq Names \cup {None}
               /\ cache.cols \in [DOMAIN cache.cols -> [Sides -> {None} \cup Places]]
    <3>1. PICK c \in Configs :
            /\ cache.key = Key(c)
            /\ \A n \in DOMAIN cache.cols : Requested(c, n, Uncompressed(c, cache.cols)[n])
      BY <2>2 DEF TypeInv, CompleteInv, PlacesInv, DiscoveryInv, CacheInv
    <3>2. DOMAIN cache.cols \subseteq Names \cup {None}
      BY <3>1, RequestedNames
    <3> QED BY <2>2, <3>1, <3>2 DEF TypeInv, FormInv, CacheFormed
  <2>3. ASSUME NEW p \in Procs
        PROVE  LET r == run[p] IN
               /\ r.conf = None <=> pc[p] = "idle"
               /\ r.conf \in Configs \cup {None}
               /\ r.calm \in BOOLEAN
               /\ \A k \in DOMAIN r.todo :
                    r.todo[k] \in Elements \cup {Named(None, None, None)}
               /\ DOMAIN r.cols \subseteq Names \cup {None}
               /\ r.jobs \subseteq AllStorages(r.cols)
    <3>1. /\ Sound(run[p]) /\ Formed(run[p]) /\ OpenedWell(run[p], vanished)
          /\ pc[p] # "idle" => run[p].conf \in Configs
      BY TypeOf
    <3>2. (pc[p] = "idle" => run[p] = Gone) /\ run[p].calm \in BOOLEAN
      BY DEF TypeInv, CompleteInv, CalmInv
    <3>3. Gone.conf = None /\ Gone.cols = <<>>
      BY DEF Gone, Fresh
    <3>4. run[p].conf = None <=> pc[p] = "idle"
      BY <3>1, <3>2, <3>3, NamesAssumption
    <3>5. \A k \in DOMAIN run[p].todo :
            run[p].todo[k] \in Elements \cup {Named(None, None, None)}
      BY <3>1, TodoSides DEF Allowed
    <3>6. DOMAIN run[p].cols \subseteq Names \cup {None}
      BY <3>1, <3>2, <3>3, RequestedNames DEF Sound, AllRequested
    <3> QED BY <3>1, <3>2, <3>4, <3>5, <3>6 DEF OpenedWell
  <2>4. ASSUME NEW p \in Procs
        PROVE  LET r == run[p] IN
               /\ r.seen \in [Sides -> {None} \cup SUBSET Names]
               /\ r.made \in [Sides -> SUBSET Names]
               /\ r.cols \in [DOMAIN r.cols -> [Sides -> Places]]
               /\ \A j \in r.at : <<j[1], j[2]>> \in AllStorages(r.cols) /\ j[3] \in Places
    BY TypeOf DEF Formed, OpenedFormed
  <2>5. CountersInv
    BY DEF TypeInv, FormInv
  <2> QED BY <2>1, <2>2, <2>3, <2>4, <2>5 DEF TypeOK, CountersInv
<1> QED BY InitTypes, NextTypes, <1>1, PTL DEF Spec
=============================================================================
