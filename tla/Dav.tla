--------------------------------- MODULE Dav ---------------------------------
(***************************************************************************)
(* A collection on a CalDAV or CardDAV server (storage/dav.py), and        *)
(* request() (http.py), by which it is read and written: up to MaxTries    *)
(* tries of at most two rounds, the second one with an answer to the       *)
(* challenge of a digest authentication.                                   *)
(*                                                                         *)
(* The server and the network are external: other clients change items at  *)
(* any moment, requests and answers are lost, and a request the client has *)
(* given up may reach the server later.                                    *)
(***************************************************************************)
EXTENDS Naturals, Sequences, FiniteSets, Bags, SequencesExt

CONSTANTS
  Hrefs,         \* normalized hrefs
  Hashes,        \* contents
  Etags,
  Digest,        \* digest authentication is used
  None,
  MaxTries,      \* stop_after_attempt: 5
  MaxEdits,      \* bound: changes made by other clients
  MaxFaults      \* bound: lost requests and answers, and server errors

ASSUME NoneAssumption ==
  None \notin Hrefs /\ None \notin Hashes /\ None \notin Etags
ASSUME HrefsAssumption == IsFiniteSet(Hrefs)
ASSUME OptionsAssumption ==
  Digest \in BOOLEAN /\ MaxTries \in Nat \ {0} /\ MaxEdits \in Nat /\ MaxFaults \in Nat

VARIABLES
  server,     \* the items it holds
  valid,      \* where the nonce is one the server accepts: the challenge
              \* "kept" by _auth_helper, the one that was "sent", the one
              \* that is "offered"
  pc,         \* "idle", "send", "wait" or "answer"
  req,        \* the request of the running call
  tries,      \* attempt of tenacity's retry
  round,      \* _attempt: 0 or 1
  answer,     \* the response
  known,      \* the caller's knowledge: an etag, None, or NoEtag of an item
              \* that is there but has none
  got,        \* what get_multi() returned
  result,     \* of the last call, as the caller sees it
  late,       \* writes that were given up but have not reached the server
  done,       \* history: the running write has taken effect
  expired,    \* history: the nonce changed since the call, or a challenge
  edits, faults  \* counters for MaxEdits and MaxFaults

bounds == <<edits, faults>>
auth == <<valid, expired>>
caller == <<known, got, result>>
vars == <<server, valid, pc, req, tries, round, answer, known, got,
          result, late, done, expired, edits, faults>>

NoEtag == "no etag"

Version == [hash : Hashes, etag : Etags]
ASSUME NoneIsNoVersion == None \notin Version /\ NoEtag \notin Etags

Write == [op : {"upload", "update", "delete"}, href : Hrefs,
          hash : Hashes \cup {None}, etag : Etags \cup {None}]
Read == [op : {"list", "get_multi"}, hrefs : SUBSET Hrefs]
ASSUME NoneIsNoRequest == None \notin Write /\ None \notin Read

IsWrite(r) == r.op \in {"upload", "update", "delete"}

Held == {h \in Hrefs : server[h] # None}
EtagsInUse ==
  {server[h].etag : h \in Held} \cup {known[h] : h \in Hrefs}
    \cup {w.etag : w \in BagToSet(late)}
    \cup (IF pc # "idle" /\ IsWrite(req) THEN {req.etag} ELSE {})
HasFreshEtag == Etags \ EtagsInUse # {}
FreshEtag == CHOOSE e \in Etags : e \notin EtagsInUse

-----------------------------------------------------------------------------
(* The server's part (external).                                           *)

(* One response of a multistatus; None is a property that is missing.      *)
Responses == [href : Hrefs, etag : Etags \cup {None}, hash : Hashes \cup {None}]

Held1(h, wants) ==
  [href |-> h, etag |-> server[h].etag, hash |-> IF wants THEN server[h].hash ELSE None]

(* An answer: an etag comes with the answer to a PUT.                      *)
Answer == [status : {201, 207, 401, 404, 412, 429, 500}, etag : Etags \cup {NoEtag},
           body : Seq(Responses)]
ASSUME NoneIsNoAnswer == None \notin Answer

(* What servers are known to answer: the items that were asked for,        *)
(* possibly one of them twice, or without its etag or its content, or one  *)
(* nobody asked for.                                                       *)
Multistatus(r) ==
  LET wants == r.op = "get_multi"
      hs == IF wants THEN r.hrefs \cap Held ELSE Held
      whole == SetToSeq({Held1(h, wants) : h \in hs})
  IN {whole}
     \cup {Append(whole, Held1(h, wants)) : h \in Held}
     \cup {[whole EXCEPT ![i].etag = None] : i \in DOMAIN whole}
     \cup {[whole EXCEPT ![i].hash = None] : i \in DOMAIN whole}

(* If-None-Match: *, If-Match, or no condition at all.                     *)
Precondition(w) ==
  IF w.op = "upload" THEN server[w.href] = None
  ELSE /\ server[w.href] # None
       /\ w.etag \in {server[w.href].etag, None}

Written(w) ==
  IF w.op = "delete" THEN [server EXCEPT ![w.href] = None]
  ELSE [server EXCEPT ![w.href] = [hash |-> w.hash, etag |-> FreshEtag]]

Status(s) == [status |-> s, etag |-> NoEtag, body |-> <<>>]

Kept == valid \cap {"kept"}
Authorized == Digest => "sent" \in valid

(* It refuses the credentials, the moment, or the precondition, or fails.  *)
RefusesWith(s) ==
  \/ s = 401 /\ ~Authorized
  \/ s = 429
  \/ s \in {404, 412} /\ IsWrite(req) /\ ~Precondition(req)
  \/ s = 404 /\ ~IsWrite(req)
  \/ s = 500 /\ faults < MaxFaults

ServerRefuses ==
  /\ pc = "wait"
  /\ \E s \in {401, 404, 412, 429, 500} :
       /\ RefusesWith(s)
       /\ answer' = Status(s)
       /\ faults' = IF s = 500 THEN faults + 1 ELSE faults
       /\ expired' = IF s = 401 /\ round = 0 THEN FALSE ELSE expired
       /\ valid' = Kept \cup (IF s = 401 THEN {"offered"} ELSE {})
  /\ pc' = "answer"
  /\ UNCHANGED <<server, req, tries, round, caller, late, done, edits>>

(* A PUT may be answered without an etag (RFC 7231, 4.3.4).                *)
ServerWrites ==
  /\ pc = "wait"
  /\ IsWrite(req)
  /\ Authorized
  /\ Precondition(req)
  /\ HasFreshEtag
  /\ server' = Written(req)
  /\ answer' \in {[Status(201) EXCEPT !.etag = e] :
       e \in IF req.op = "delete" THEN {NoEtag} ELSE {NoEtag, FreshEtag}}
  /\ done' = TRUE
  /\ valid' = Kept
  /\ pc' = "answer"
  /\ UNCHANGED <<expired, req, tries, round, caller, late, bounds>>

ServerReads ==
  /\ pc = "wait"
  /\ ~IsWrite(req)
  /\ Authorized
  /\ answer' \in {[Status(207) EXCEPT !.body = ms] : ms \in Multistatus(req)}
  /\ valid' = Kept
  /\ pc' = "answer"
  /\ UNCHANGED <<server, expired, req, tries, round, caller, late, done, bounds>>

(* A write nobody waits for any more arrives, or is lost.                  *)
Arrives(w) ==
  /\ BagIn(w, late)
  /\ late' = late (-) SetToBag({w})
  /\ \/ UNCHANGED server
     \/ Precondition(w) /\ HasFreshEtag /\ server' = Written(w)
  /\ UNCHANGED <<auth, pc, req, tries, round, answer, caller, done, bounds>>

OtherChange(h) ==
  /\ edits < MaxEdits
  /\ HasFreshEtag
  /\ \/ server[h] # None /\ server' = [server EXCEPT ![h] = None]
     \/ \E c \in Hashes : server' = [server EXCEPT ![h] = [hash |-> c, etag |-> FreshEtag]]
  /\ edits' = edits + 1
  /\ UNCHANGED <<auth, pc, req, tries, round, answer, caller, late, done, faults>>

NonceExpires ==
  /\ valid # {}
  /\ valid' = {}
  /\ expired' = (pc # "idle")
  /\ UNCHANGED <<server, pc, req, tries, round, answer, caller, late, done, bounds>>

-----------------------------------------------------------------------------
(* The operations.                                                         *)

Call(r) ==
  /\ pc = "idle"
  /\ req' = r
  /\ pc' = "send"
  /\ tries' = 1
  /\ round' = 0
  /\ expired' = FALSE
  /\ done' = FALSE
  /\ got' = None
  /\ result' = "none"
  /\ UNCHANGED <<server, valid, answer, known, late, bounds>>

Upload(h, c) ==
  Call([op |-> "upload", href |-> h, hash |-> c, etag |-> None])

(* ValueError unless an etag is given.                                     *)
Update(h, c) ==
  /\ known[h] \in Etags
  /\ Call([op |-> "update", href |-> h, hash |-> c, etag |-> known[h]])

(* Without an etag, the deletion is unconditional.                         *)
Delete(h) ==
  /\ known[h] # None
  /\ Call([op |-> "delete", href |-> h, hash |-> None,
           etag |-> IF known[h] = NoEtag THEN None ELSE known[h]])

(* PROPFIND, or the multiget REPORT                                        *)
List == Call([op |-> "list", hrefs |-> {}])
GetMulti(hs) == hs # {} /\ Call([op |-> "get_multi", hrefs |-> hs])

-----------------------------------------------------------------------------
(* request()                                                               *)

Send ==
  /\ pc = "send"
  /\ valid' = IF "kept" \in valid THEN {"kept", "sent"} ELSE {}
  /\ pc' = "wait"
  /\ UNCHANGED <<server, expired, req, tries, round, answer, caller, late, done, bounds>>

(* The call is over; what a successful one tells its caller is said below. *)
Over(r) ==
  /\ pc' = "idle"
  /\ req' = None
  /\ tries' = 0
  /\ round' = 0
  /\ answer' = None
  /\ done' = FALSE
  /\ expired' = FALSE
  /\ result' = r

(* It raises: nothing is returned.                                         *)
Raise(r) == Over(r) /\ UNCHANGED <<known, got>>

(* Mutant: every request is repeated.                                      *)
AnyMethod(r) == TRUE

(* _is_safe_to_retry_method: PROPFIND and REPORT, but not PUT and DELETE.  *)
SafeToRetry(r) == ~IsWrite(r)

(* Mutant: the tries are not counted.                                      *)
NotCounted == tries

Counted == tries + 1

(* stop_after_attempt                                                      *)
AnotherTry == tries < MaxTries

(* The exceptions that are retried; the last one is raised.                *)
Retry(r) ==
  IF AnotherTry
    THEN /\ tries' = Counted
         /\ round' = 0
         /\ answer' = None
         /\ pc' = "send"
         /\ UNCHANGED <<req, done, expired, caller>>
    ELSE Raise(r)

(* ServerDisconnectedError or a timeout: the request or its answer is      *)
(* lost, or the request is still on its way.                               *)
Disconnected ==
  /\ pc \in {"wait", "answer"}
  /\ faults < MaxFaults
  /\ faults' = faults + 1
  /\ late' \in {late} \cup
       (IF pc = "wait" /\ IsWrite(req) THEN {late (+) SetToBag({req})} ELSE {})
  /\ IF SafeToRetry(req) THEN Retry("error") ELSE Raise("error")
  /\ valid' = Kept
  /\ UNCHANGED <<server, edits>>

(* Mutant: the challenge is forgotten.                                     *)
Ignored == Kept

(* handle_401                                                              *)
Challenged == IF "offered" \in valid THEN {"kept"} ELSE {}

(* 401: once more, with the challenge; then raise_for_status().            *)
HandleChallenge ==
  /\ pc = "answer"
  /\ answer.status = 401
  /\ valid' = Challenged
  /\ IF round = 0
       THEN /\ round' = 1
            /\ answer' = None
            /\ pc' = "send"
            /\ UNCHANGED <<req, tries, done, expired, caller>>
       ELSE Raise("unauthorized")
  /\ UNCHANGED <<server, late, bounds>>

(* 403 or 429: UsageLimitReached                                           *)
HandleLimit ==
  /\ pc = "answer"
  /\ answer.status = 429
  /\ Retry("refused")
  /\ UNCHANGED <<server, valid, late, bounds>>

(* PreconditionFailed, NotFoundError, or raise_for_status()                *)
HandleError ==
  /\ pc = "answer"
  /\ answer.status \in {404, 412, 500}
  /\ Raise(IF answer.status = 500 THEN "error" ELSE "refused")
  /\ UNCHANGED <<server, valid, late, bounds>>

-----------------------------------------------------------------------------
(* What is made of a successful response.                                  *)

Returns == pc = "answer" /\ answer.status \in {201, 207}

(* _put() and delete()                                                     *)
WriteReturns ==
  /\ Returns
  /\ IsWrite(req)
  /\ known' = [known EXCEPT ![req.href] =
       IF req.op = "delete" THEN None ELSE answer.etag]
  /\ got' = None
  /\ Over("ok")
  /\ UNCHANGED <<server, valid, late, bounds>>

(* _parse_prop_responses: of the responses that have an etag, the first    *)
(* one of each href.                                                       *)
Parsed(ms) ==
  LET HasEtag(i) == ms[i].etag # None IN
  {ms[i] : i \in {i \in DOMAIN ms :
     HasEtag(i) /\ \A j \in 1 .. i - 1 : HasEtag(j) => ms[j].href # ms[i].href}}

ListReturns ==
  LET rs == Parsed(answer.body) IN
  /\ Returns
  /\ req.op = "list"
  /\ known' = [h \in Hrefs |->
       IF \E r \in rs : r.href = h THEN (CHOOSE r \in rs : r.href = h).etag ELSE None]
  /\ got' = None
  /\ Over("ok")
  /\ UNCHANGED <<server, valid, late, bounds>>

(* Mutant: what the server did not send is left out.                       *)
SomeAnswered(rs) == TRUE

(* hrefs_left is empty.                                                    *)
AllAnswered(rs) == req.hrefs = {r.href : r \in rs}

(* Responses without content, and those nobody asked for, are skipped;     *)
(* NotFoundError when one is missing.                                      *)
GetMultiReturns ==
  LET rs == {r \in Parsed(answer.body) : r.hash # None /\ r.href \in req.hrefs} IN
  /\ Returns
  /\ req.op = "get_multi"
  /\ IF AllAnswered(rs)
       THEN got' = rs /\ UNCHANGED known /\ Over("ok")
       ELSE Raise("refused")
  /\ UNCHANGED <<server, valid, late, bounds>>

-----------------------------------------------------------------------------
Init ==
  /\ server = [h \in Hrefs |-> None]
  /\ valid = {}
  /\ pc = "idle"
  /\ req = None
  /\ tries = 0
  /\ round = 0
  /\ answer = None
  /\ known = [h \in Hrefs |-> None]
  /\ got = None
  /\ result = "none"
  /\ late = EmptyBag
  /\ done = FALSE
  /\ expired = FALSE
  /\ edits = 0
  /\ faults = 0

Calls ==
  \/ \E h \in Hrefs, c \in Hashes : Upload(h, c) \/ Update(h, c)
  \/ \E h \in Hrefs : Delete(h)
  \/ List
  \/ \E hs \in SUBSET Hrefs : GetMulti(hs)

Request ==
  \/ Send
  \/ HandleChallenge \/ HandleLimit \/ HandleError
  \/ WriteReturns \/ ListReturns \/ GetMultiReturns

Server == ServerRefuses \/ ServerWrites \/ ServerReads

Network ==
  \/ Disconnected
  \/ \E w \in BagToSet(late) : Arrives(w)

Others ==
  \/ \E h \in Hrefs : OtherChange(h)
  \/ NonceExpires

Next == Calls \/ Request \/ Server \/ Network \/ Others

Spec == Init /\ [][Next]_vars

(* The client goes on, and every request is answered or times out.         *)
FairSpec == Spec /\ WF_vars(Request) /\ WF_vars(Server \/ Disconnected)

-----------------------------------------------------------------------------
(* Properties.                                                             *)

(* The type invariant.                                                     *)
TypeOK ==
  /\ server \in [Hrefs -> Version \cup {None}]
  /\ valid \subseteq {"kept", "sent", "offered"}
  /\ pc \in {"idle", "send", "wait", "answer"}
  /\ IF pc = "idle" THEN req = None ELSE req \in Write \cup Read
  /\ tries \in 0 .. MaxTries
  /\ round \in {0, 1}
  /\ IF pc = "answer" THEN answer \in Answer ELSE answer = None
  /\ known \in [Hrefs -> Etags \cup {None, NoEtag}]
  /\ got = None \/ got \subseteq Responses
  /\ result \in {"none", "ok", "refused", "error", "unauthorized"}
  /\ IsABag(late) /\ BagToSet(late) \subseteq Write
  /\ {done, expired} \subseteq BOOLEAN
  /\ edits \in 0 .. MaxEdits
  /\ faults \in 0 .. MaxFaults

(* Retried, challenged and refused requests, lost and late ones included:  *)
(* every write takes effect at most once, on the version it was made for,  *)
(* and never after it was reported as refused.                             *)
Remote == INSTANCE RemoteStorage WITH
  items <- server,
  running <- IF pc # "idle" /\ IsWrite(req) THEN req ELSE None,
  done <- done,
  late <- late,
  result <- IF result = "unauthorized" THEN "refused" ELSE result

Contract == Remote!Spec

(* What get_multi() returns is all that was asked for, with the content:   *)
(* an item that is left out would be taken for deleted.                    *)
GetMultiComplete ==
  [][got' # got /\ got' # None =>
       /\ {r.href : r \in got'} = req.hrefs
       /\ \A r \in got' : r.etag # None /\ r.hash # None]_vars

(* Good credentials are refused only when the nonce expires while a        *)
(* challenge is being answered.                                            *)
RefusalExplained ==
  [][result' = "unauthorized" /\ result # result' => expired]_vars

(* Every call returns or raises, even if the server puts it off for good.  *)
EveryCallEnds == pc # "idle" ~> pc = "idle"
=============================================================================
