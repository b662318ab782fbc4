---------------------------- MODULE RemoteStorage ----------------------------
(***************************************************************************)
(* What a storage on a server promises the synchronization, whatever the   *)
(* network does: the abstract specification of Dav.  A write takes effect  *)
(* at most once, at one moment, and only on the version it was made for;   *)
(* it takes effect before a success is reported, and never when a refusal  *)
(* is.  Only after an error nobody knows: it may have taken effect, may do *)
(* so later, or never.                                                     *)
(***************************************************************************)
EXTENDS Naturals, Bags

CONSTANTS Hrefs, Hashes, Etags, None

VARIABLES
  items,    \* what the server holds
  running,  \* the write that is being executed, None if there is none
  done,     \* it has taken effect
  late,     \* writes given up after an error that may still take effect
  result    \* of the last call: "none", "ok", "refused" or "error"

vars == <<items, running, done, late, result>>

Version == [hash : Hashes, etag : Etags]

(* The etag of an update is the version it is for; a deletion may be for   *)
(* any version.                                                            *)
Write == [op : {"upload", "update", "delete"}, href : Hrefs,
          hash : Hashes \cup {None}, etag : Etags \cup {None}]

Applies(w) ==
  LET old == items[w.href] IN
  CASE w.op = "upload" -> old = None
    [] w.op = "update" -> old # None /\ old.etag = w.etag
    [] w.op = "delete" -> old # None /\ w.etag \in {old.etag, None}

(* Some version with that content, or none.                                *)
Effect(w) ==
  /\ Applies(w)
  /\ \/ /\ w.op = "delete"
        /\ items' = [items EXCEPT ![w.href] = None]
     \/ /\ w.op # "delete"
        /\ \E e \in Etags :
             items' = [items EXCEPT ![w.href] = [hash |-> w.hash, etag |-> e]]

Init ==
  /\ items = [h \in Hrefs |-> None]
  /\ running = None
  /\ done = FALSE
  /\ late = EmptyBag
  /\ result = "none"

Begin(w) ==
  /\ running = None
  /\ running' = w
  /\ done' = FALSE
  /\ result' = "none"
  /\ UNCHANGED <<items, late>>

TakeEffect ==
  /\ running # None
  /\ ~done
  /\ Effect(running)
  /\ done' = TRUE
  /\ UNCHANGED <<running, late, result>>

End(r) ==
  /\ running # None
  /\ running' = None
  /\ done' = FALSE
  /\ result' = r
  /\ UNCHANGED items

Succeed == done /\ End("ok") /\ UNCHANGED late
Refuse == ~done /\ End("refused") /\ UNCHANGED late

(* An error: a write that has not taken effect may still do so.            *)
GiveUp ==
  /\ End("error")
  /\ late' \in {late, IF done THEN late ELSE late (+) SetToBag({running})}

LateEffect(w) ==
  /\ BagIn(w, late)
  /\ Effect(w)
  /\ late' = late (-) SetToBag({w})
  /\ UNCHANGED <<running, done, result>>

Lost(w) ==
  /\ BagIn(w, late)
  /\ late' = late (-) SetToBag({w})
  /\ UNCHANGED <<items, running, done, result>>

(* Reading, by which nothing is changed.                                   *)
Reading ==
  /\ running = None
  /\ result' \in {"none", "ok", "refused", "error"}
  /\ UNCHANGED <<items, running, done, late>>

(* Other clients of the server.                                            *)
OtherChange(h) ==
  /\ items' \in {[items EXCEPT ![h] = v] : v \in Version \cup {None}}
  /\ UNCHANGED <<running, done, late, result>>

Next ==
  \/ \E w \in Write : Begin(w)
  \/ TakeEffect \/ Succeed \/ Refuse \/ GiveUp
  \/ \E w \in BagToSet(late) : LateEffect(w) \/ Lost(w)
  \/ Reading
  \/ \E h \in Hrefs : OtherChange(h)

Spec == Init /\ [][Next]_vars
=============================================================================
