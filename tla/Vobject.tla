------------------------------- MODULE Vobject -------------------------------
(***************************************************************************)
(* What vobject.py makes of the text of a collection: the parser of        *)
(* components, split_collection and join_collection, the UID and the hash  *)
(* of an item.  They are put to work by the two storages that use them: a  *)
(* single file that is read, changed and written again, and an HTTP        *)
(* resource that is read again and again.                                  *)
(*                                                                         *)
(* A text is a sequence of lines.  A line is the key it begins with, and   *)
(* the rest; " " begins the continuation of the line before it, and ""     *)
(* stands for a blank line.  A rest is a sequence, so that a folded value  *)
(* is the concatenation of its parts.                                      *)
(***************************************************************************)
EXTENDS Naturals, SequencesExt

CONSTANTS
  Texts,      \* what the file or the resource may hold
  Items,      \* items that other storages put into the file
  None,       \* nothing
  MaxEdits    \* bound: changes made by other storages and by people

Line(k, v) == [key |-> k, rest |-> v]
Begin(name) == Line("BEGIN", <<name>>)
End(name) == Line("END", <<name>>)
Component(name, props, sub) == [name |-> name, props |-> props, sub |-> sub]

Entries == {"VEVENT", "VTODO", "VJOURNAL"}
Collections == {"VCALENDAR", "VADDRESSBOOK"}
KnownNames == Entries \cup Collections \cup {"VCARD", "VTIMEZONE"}

IgnoreProps == {"PRODID", "METHOD", "X-RADICALE-NAME", "X-WR-CALNAME", "REV",
                "LAST-MODIFIED", "CREATED", "DTSTAMP", "UID"}

ASSUME EditsAssumption == MaxEdits \in Nat

-----------------------------------------------------------------------------
(* Components.                                                             *)

Concat(f) == FlattenSeq(f)

RECURSIVE Lines(_)
Lines(c) ==
  <<Begin(c.name)>> \o c.props
    \o Concat([k \in DOMAIN c.sub |-> Lines(c.sub[k])]) \o <<End(c.name)>>

LinesOf(cs) == Concat([k \in DOMAIN cs |-> Lines(cs[k])])

(* The property line k is of.                                              *)
Owner(props) ==
  LET f[k \in DOMAIN props] ==
        IF props[k].key = " " /\ k > 1 THEN f[k - 1] ELSE props[k].key
  IN  f

(* Mutant: continuation lines of a deleted property stay.                  *)
WithoutFirstLines(props, keys) == SelectSeq(props, LAMBDA l : l.key \notin keys)

(* __delitem__: the lines of a property go, with their continuations.      *)
Without(props, keys) ==
  LET kept == SelectSeq([k \in DOMAIN props |-> k],
                        LAMBDA k : Owner(props)[k] \notin keys)
  IN  [j \in DOMAIN kept |-> props[kept[j]]]

(* __getitem__: the first line of the property, and its continuations.     *)
Value(props, key) ==
  IF \A k \in DOMAIN props : props[k].key # key THEN <<>>
  ELSE LET first == CHOOSE k \in DOMAIN props :
             props[k].key = key /\ \A j \in 1 .. k - 1 : props[j].key # key
           folded == {k \in first .. Len(props) :
             \A j \in first + 1 .. k : props[j].key = " "}
       IN  Concat([k \in 1 .. Cardinality(folded) |-> props[first + k - 1].rest])

RECURSIVE WithUid(_, _)
WithUid(c, uid) ==
  LET rest == Without(c.props, {"UID"}) IN
  [c EXCEPT
     !.props = CASE c.name \notin Entries \cup {"VCARD"} -> @
                 [] uid = <<>> -> rest
                 [] OTHER      -> Append(rest, Line("UID", uid)),
     !.sub = [k \in DOMAIN @ |-> WithUid(@[k], uid)]]

-----------------------------------------------------------------------------
(* Items.                                                                  *)

(* The first UID of any component.                                         *)
Uid(item) == Value(Lines(item), "UID")

(* Mutant: timezones are part of what is hashed.                           *)
WithTimezones(item) == item

StripTimezones(item) ==
  IF item.name # "VCALENDAR" THEN item
  ELSE [item EXCEPT !.sub = SelectSeq(@, LAMBDA c : c.name # "VTIMEZONE")]

(* The lines that count, in whatever order.                                *)
Hash(item) == ToBag(Without(Lines(StripTimezones(item)), IgnoreProps))

Ident(item) ==
  IF Uid(item) # <<>> THEN <<"uid", Uid(item)>> ELSE <<"hash", Hash(item)>>

-----------------------------------------------------------------------------
(* split_collection                                                        *)

(* What is inside the calendars and address books, and in which of them.   *)
RECURSIVE Leaves(_, _)
Leaves(c, main) ==
  IF c.name \notin Collections THEN <<[main |-> main, item |-> c]>>
  ELSE LET here == IF c.name = "VCALENDAR"
                     THEN [c EXCEPT !.props = Without(@, {"METHOD"})] ELSE c
       IN  Concat([k \in DOMAIN c.sub |-> Leaves(c.sub[k], here)])

AllLeaves(cs) == Concat([k \in DOMAIN cs |-> Leaves(cs[k], cs[k])])

OwnUid(leaf) == Value(leaf.item.props, "UID")

(* Mutant: an event and its exceptions become items of their own.          *)
Ungrouped(leaf) == FALSE

IsGrouped(leaf) == leaf.item.name \in Entries /\ OwnUid(leaf) # <<>>

Wrapped(leaf, sub) == Component(leaf.main.name, leaf.main.props, sub)

Split(cs) ==
  LET leaves == AllLeaves(cs)
      inline == SelectSeq(leaves, LAMBDA l : l.item.name = "VTIMEZONE")
      grouped == SelectSeq(leaves, IsGrouped)
      group(uid) == SelectSeq(grouped, LAMBDA l : OwnUid(l) = uid)
      uids == [k \in DOMAIN grouped |-> OwnUid(grouped[k])]
      firsts == SelectSeq([k \in DOMAIN uids |-> k],
                          LAMBDA k : \A j \in 1 .. k - 1 : uids[j] # uids[k])
      others == SelectSeq(leaves, LAMBDA l :
                  l.item.name # "VTIMEZONE" /\ ~ IsGrouped(l))
      components(ls) == [k \in DOMAIN ls |-> ls[k].item]
      items == [k \in DOMAIN firsts |->
                  Wrapped(grouped[firsts[k]], components(group(uids[firsts[k]])))]
               \o [k \in DOMAIN others |->
                     IF others[k].item.name = "VCARD" THEN others[k].item
                     ELSE Wrapped(others[k], <<others[k].item>>)]
  IN  [k \in DOMAIN items |-> [items[k] EXCEPT !.sub = @ \o components(inline)]]

(* ValueError                                                              *)
IsUnknown(cs) == \E leaf \in ToSet(AllLeaves(cs)) : leaf.item.name \notin KnownNames

-----------------------------------------------------------------------------
(* join_collection                                                         *)

Uniq(s) ==
  FoldLeft(LAMBDA seen, x : IF Contains(seen, x) THEN seen ELSE Append(seen, x),
           <<>>, s)

Wrappers ==
  [name \in {"VCALENDAR", "VEVENT", "VTODO", "VCARD"} |->
     IF name = "VCARD" THEN "VADDRESSBOOK" ELSE "VCALENDAR"]

(* The items that tell what to put all of them into: when there is none,   *)
(* a ValueError ends _write() before it has changed anything.              *)
Telling(items) == SelectSeq(items, LAMBDA x : x.name \in DOMAIN Wrappers)
IsJoinable(items) == items = <<>> \/ Telling(items) # <<>>

WrapperOf(items) == Wrappers[Head(Telling(items)).name]

Join(items) ==
  IF items = <<>> THEN <<>>
  ELSE LET w == WrapperOf(items)
           props == Concat([k \in DOMAIN items |->
                       IF items[k].name = w THEN items[k].props ELSE <<>>])
           parts == Concat([k \in DOMAIN items |->
                       IF items[k].name = w THEN items[k].sub ELSE <<items[k]>>])
       IN  Lines(Component(w, Uniq(props), Uniq(parts)))

-----------------------------------------------------------------------------
(* The storages.                                                           *)

VARIABLES
  kind,      \* "singlefile" or "http"
  text,      \* the file, or what the server answers
  pc,        \* "idle", "parse", "split", "memory" or "failed"
  todo,      \* lines still to be parsed
  stack, rv, \* of the parser
  items,     \* _items
  asRead,    \* history: nothing was changed in memory since it was read
  expected,  \* history: the items that ought to be read next, if known
  edits

vars == <<kind, text, pc, todo, stack, rv, items, asRead, expected, edits>>

Init ==
  /\ kind \in {"singlefile", "http"}
  /\ text \in Texts
  /\ pc = "idle"
  /\ todo = <<>> /\ stack = <<>> /\ rv = <<>>
  /\ items = <<>>
  /\ asRead = FALSE /\ expected = None
  /\ edits = 0

(* list(): the file is read, or the resource downloaded.                   *)
Load ==
  /\ pc \in {"idle", "memory", "failed"}
  /\ pc' = "parse"
  /\ todo' = text /\ stack' = <<>> /\ rv' = <<>>
  /\ items' = <<>> /\ asRead' = FALSE
  /\ UNCHANGED <<kind, text, expected, edits>>

Unchanged == UNCHANGED <<kind, text, items, asRead, expected, edits>>

(* Mutant: the name after END is not compared.                             *)
AnyEnd(l) == stack # <<>>

Closes(l) == stack # <<>> /\ Last(stack).name = l.rest[1]

WithLast(s, x) == Append(Front(s), x)

Fits(l) ==
  CASE l.key = "BEGIN" -> TRUE
    [] l.key = "END"   -> Closes(l)
    [] l.key = ""      -> TRUE
    [] OTHER           -> stack # <<>>

ParseLine ==
  LET l == Head(todo)
      c == Last(stack)
      below == Front(stack) IN
  /\ pc = "parse"
  /\ todo # <<>>
  /\ Fits(l)
  /\ todo' = Tail(todo)
  /\ CASE l.key = "BEGIN" ->
            stack' = Append(stack, Component(l.rest[1], <<>>, <<>>)) /\ rv' = rv
       [] l.key = "END" ->
            IF below = <<>> THEN stack' = <<>> /\ rv' = Append(rv, c)
            ELSE /\ stack' = WithLast(below, [Last(below) EXCEPT !.sub = Append(@, c)])
                 /\ rv' = rv
       [] l.key = "" -> UNCHANGED <<stack, rv>>
       [] OTHER ->
            stack' = WithLast(stack, [c EXCEPT !.props = Append(@, l)]) /\ rv' = rv
  /\ UNCHANGED pc
  /\ Unchanged

ParseEnds ==
  /\ pc = "parse"
  /\ todo = <<>> /\ stack = <<>>
  /\ pc' = "split"
  /\ UNCHANGED <<todo, stack, rv>>
  /\ Unchanged

(* ValueError; the storage still has nothing in memory.                    *)
ParseFails ==
  /\ pc = "parse"
  /\ IF todo = <<>> THEN stack # <<>> ELSE ~ Fits(Head(todo))
  /\ pc' = "failed"
  /\ UNCHANGED <<todo, stack, rv>>
  /\ Unchanged

(* HttpStorage ignores the UIDs there are.                                 *)
Read(item) == IF kind = "http" THEN WithUid(item, <<"hash", Hash(item)>>) ELSE item

(* _items[item.ident] = item                                               *)
Store(its, item) ==
  IF \E k \in DOMAIN its : Ident(its[k]) = Ident(item)
    THEN [k \in DOMAIN its |-> IF Ident(its[k]) = Ident(item) THEN item ELSE its[k]]
    ELSE Append(its, item)

SplitAll ==
  /\ pc = "split"
  /\ IF IsUnknown(rv)
       THEN pc' = "failed" /\ UNCHANGED <<items, asRead>>
       ELSE /\ pc' = "memory"
            /\ items' = LET all == Split(rv) IN
                 FoldLeft(Store, <<>>, [k \in DOMAIN all |-> Read(all[k])])
            /\ asRead' = TRUE
  /\ UNCHANGED <<kind, text, todo, stack, rv, expected, edits>>

Changed ==
  /\ edits < MaxEdits
  /\ edits' = edits + 1
  /\ UNCHANGED <<kind, todo, stack, rv>>

(* The other side of the pair has cards if this one has.                   *)
AreAlike(x, y) == x.name = "VCARD" <=> y.name = "VCARD"

InMemory ==
  /\ kind = "singlefile"
  /\ pc = "memory"
  /\ asRead' = FALSE
  /\ UNCHANGED <<text, pc, expected>>
  /\ Changed

Upload(item) ==
  /\ \A k \in DOMAIN items : AreAlike(items[k], item) /\ Ident(items[k]) # Ident(item)
  /\ items' = Append(items, item)
  /\ InMemory

Update(k, item) ==
  /\ k \in DOMAIN items
  /\ AreAlike(items[k], item) /\ Ident(items[k]) = Ident(item)
  /\ items[k] # item
  /\ items' = [items EXCEPT ![k] = item]
  /\ InMemory

Delete(k) ==
  /\ k \in DOMAIN items
  /\ items' = RemoveAt(items, k)
  /\ InMemory

Write ==
  /\ kind = "singlefile"
  /\ pc = "memory"
  /\ IsJoinable(items)
  /\ text' = Join(items)
  /\ expected' = items
  /\ pc' = "idle"
  /\ items' = <<>> /\ asRead' = FALSE
  /\ UNCHANGED <<kind, todo, stack, rv, edits>>

(* Not sure how to join components: the block ends, the file is as it was. *)
WriteFails ==
  /\ kind = "singlefile"
  /\ pc = "memory"
  /\ ~ IsJoinable(items)
  /\ pc' = "idle"
  /\ items' = <<>> /\ asRead' = FALSE
  /\ UNCHANGED <<kind, text, todo, stack, rv, expected, edits>>

(* A download or a file is cut off; _write never overwrites a file that is *)
(* not the one in memory.                                                  *)
CutOff(n) ==
  /\ pc = "idle" \/ (pc = "memory" /\ kind = "http")
  /\ n \in 0 .. Len(text) - 1
  /\ text' = SubSeq(text, 1, n)
  /\ asRead' = FALSE /\ expected' = None
  /\ UNCHANGED <<pc, items>>
  /\ Changed

(* Servers that make up PRODID, DTSTAMP and UIDs for each request, and may *)
(* fold them elsewhere.                                                    *)
Anew(ls, k) ==
  CASE ls[k].key \in IgnoreProps ->
         <<Line(ls[k].key, <<"anew">> \o Value(SubSeq(ls, k, Len(ls)), ls[k].key))>>
    [] ls[k].key = " " /\ Owner(ls)[k] \in IgnoreProps -> <<>>
    [] OTHER -> <<ls[k]>>

Regenerate ==
  /\ kind = "http"
  /\ pc = "memory" /\ asRead
  /\ text' = Concat([k \in DOMAIN text |-> Anew(text, k)])
  /\ expected' = items
  /\ UNCHANGED <<pc, items, asRead>>
  /\ Changed

Next ==
  \/ Load \/ ParseLine \/ ParseEnds \/ ParseFails \/ SplitAll \/ Write \/ WriteFails
  \/ Regenerate
  \/ \E item \in Items : Upload(item)
  \/ \E k \in DOMAIN items : Delete(k) \/ \E item \in Items : Update(k, item)
  \/ \E n \in 0 .. Len(text) : CutOff(n)

Spec == Init /\ [][Next]_vars

-----------------------------------------------------------------------------
(* Properties.                                                             *)

NonBlank(ls) == SelectSeq(ls, LAMBDA l : l.key # "")
Frame(ls) == SelectSeq(ls, LAMBDA l : l.key \in {"BEGIN", "END"})

(* Every line is inside a component, and every component is closed by its  *)
(* own name: the END at j closes the last BEGIN before it that opened the  *)
(* depth it leaves.                                                        *)
WellFormed(ls) ==
  LET count(key, k) == Cardinality({j \in 1 .. k : ls[j].key = key})
      depth(k) == count("BEGIN", k) - count("END", k) IN
  /\ depth(Len(ls)) = 0
  /\ \A j \in DOMAIN ls :
       /\ ls[j].key # "BEGIN" => count("BEGIN", j - 1) > count("END", j - 1)
       /\ ls[j].key = "END" =>
            LET opened == {k \in 1 .. j - 1 : ls[k].key = "BEGIN" /\ depth(k - 1) = depth(j)}
            IN  \E k \in opened : /\ ls[k].rest = ls[j].rest
                                  /\ \A i \in opened : i <= k

(* The parser (_Component.parse) takes exactly the texts that are nested   *)
(* properly, and puts every line in the component it is in, so that one    *)
(* that was cut off is never read as a shorter collection, but for one     *)
(* that ends between two components.                                       *)
ParsesExactly ==
  /\ pc = "split" =>
       /\ WellFormed(NonBlank(text))
       /\ Frame(LinesOf(rv)) = Frame(text)
       /\ ToBag(LinesOf(rv)) = ToBag(NonBlank(text))
  /\ pc = "failed" => ~ WellFormed(NonBlank(text)) \/ IsUnknown(rv)

(* A calendar with a UID of its own (RFC 7986) gives it to all its items:  *)
(* Item.uid takes the first one it finds.                                  *)
HasCalendarUid(cs) ==
  \E c \in ToSet(cs) : c.name = "VCALENDAR" /\ \E l \in ToSet(c.props) : l.key = "UID"

IsEntry(leaf) == leaf.item.name \in Entries \cup {"VCARD"}
SameEntry(x, y) ==
  /\ {x.item.name, y.item.name} \subseteq Entries
  /\ OwnUid(x) = OwnUid(y) /\ OwnUid(x) # <<>>
Stem(leaf) == ToBag(Without(Lines(leaf.item), IgnoreProps))

(* Items with one name for two: cards with the same UID, equal ones        *)
(* without any, and, where UIDs are ignored, equal ones.                   *)
AreTwins(x, y) ==
  IF kind = "http" \/ {OwnUid(x), OwnUid(y)} = {<<>>} THEN Stem(x) = Stem(y)
  ELSE OwnUid(x) = OwnUid(y) /\ ~ SameEntry(x, y)

HasTwins(cs) ==
  LET leaves == AllLeaves(cs) IN
  \E j, k \in DOMAIN leaves :
    /\ j # k /\ IsEntry(leaves[j]) /\ IsEntry(leaves[k])
    /\ AreTwins(leaves[j], leaves[k])

AsStored(c) == IF kind = "http" THEN WithUid(c, <<>>) ELSE c
PartsOf(item) == IF item.name = "VCARD" THEN <<item>> ELSE item.sub

(* Every event, task, journal entry and card of the text is in one item,   *)
(* together with all others of its UID, and with all timezones, unless     *)
(* another one has the same name (split_collection, and list() of the      *)
(* storages).                                                              *)
ReadsAll ==
  pc = "memory" /\ asRead /\ ~ HasCalendarUid(rv) /\ ~ HasTwins(rv) =>
    LET leaves == AllLeaves(rv)
        parts == [k \in DOMAIN items |->
          LET p == PartsOf(items[k]) IN [j \in DOMAIN p |-> AsStored(p[j])]]
        holds(k, leaf) == Contains(parts[k], AsStored(leaf.item)) IN
    /\ \A leaf \in ToSet(leaves) :
         IF IsEntry(leaf)
           THEN Cardinality({k \in DOMAIN items : holds(k, leaf)}) = 1
           ELSE \A k \in DOMAIN items : items[k].name # "VCARD" => holds(k, leaf)
    /\ \A x, y \in ToSet(leaves) :
         SameEntry(x, y) => \A k \in DOMAIN items : holds(k, x) <=> holds(k, y)

Tell(its) == {<<Ident(x), Hash(x)>> : x \in ToSet(its)}

(* Items share one VCALENDAR in the file, and so its properties, and those *)
(* that are in none get into it; equal components are written once.        *)
MayShare(its) ==
  /\ ~ HasCalendarUid(its)
  /\ \A x \in ToSet(its) : x.name \notin Entries
  /\ \A x, y \in ToSet(its) :
       x.name = "VCALENDAR" =>
         ToSet(Without(x.props, IgnoreProps)) = ToSet(Without(y.props, IgnoreProps))
  /\ \A x \in ToSet(its) : IsInjective(x.sub)

(* What is written to a single file is what is read from it the next time: *)
(* every item has its ident and its hash, although they have got the       *)
(* timezones and properties of each other (join_collection and             *)
(* split_collection).                                                      *)
WrittenIsRead ==
  kind = "singlefile" /\ pc = "memory" /\ asRead /\ expected # None /\ MayShare(expected)
    => Tell(items) = Tell(expected)

(* A resource whose UIDs, DTSTAMPs and PRODIDs are made up for each        *)
(* request has the same items each time (HttpStorage.list, IGNORE_PROPS).  *)
FeedStaysSame ==
  kind = "http" /\ pc = "memory" /\ asRead /\ expected # None /\ ~ HasCalendarUid(rv)
    => Tell(items) = Tell(expected)
=============================================================================
