------------------------------ MODULE DavProofs ------------------------------
(***************************************************************************)
(* Whatever servers answer and networks lose, a storage on a server keeps  *)
(* the promises of RemoteStorage, for any number of items, versions,       *)
(* tries, edits and failures.                                              *)
(***************************************************************************)
EXTENDS Dav, SequenceTheorems, FiniteSetTheorems, TLAPS

(* An item is written with some content, and an update is for a version of *)
(* the item (update() raises ValueError otherwise); only a deletion may be *)
(* for any version.                                                        *)
WellMade(r) ==
  /\ r.op \in {"upload", "update"} => r.hash \in Hashes
  /\ r.op = "update" => r.etag \in Etags

(* How far the running request is: a write that was answered with success, *)
(* and no other, has taken effect.                                         *)
CallInv ==
  /\ pc = "idle" => round = 0
  /\ pc # "idle" => WellMade(req)
  /\ \A w \in BagToSet(late) : WellMade(w)
  /\ done <=> (pc = "answer" /\ answer.status = 201)
  /\ pc = "answer" /\ answer.status = 201 => IsWrite(req)
  /\ pc = "answer" /\ answer.status = 207 => ~ IsWrite(req)

(* Where the challenge of a digest authentication is, from the first       *)
(* refusal to the second round, unless the nonce expires on the way.       *)
ChallengeInv ==
  ~ expired =>
    /\ pc = "answer" /\ answer.status = 401 => round = 0 /\ "offered" \in valid
    /\ pc = "send" /\ round = 1 => "kept" \in valid
    /\ pc = "wait" /\ round = 1 => "sent" \in valid

DavInv == TypeOK /\ CallInv /\ ChallengeInv

-----------------------------------------------------------------------------
(* Bags, requests and answers.                                             *)

LEMMA BagWithOneMore ==
  ASSUME NEW B, IsABag(B), NEW x
  PROVE  LET C == B (+) SetToBag({x})
         IN  IsABag(C) /\ BagToSet(C) = BagToSet(B) \cup {x}
BY DEF IsABag, BagToSet, SetToBag, (+)

LEMMA BagWithOneLess ==
  ASSUME NEW B, IsABag(B), NEW x
  PROVE  LET C == B (-) SetToBag({x})
         IN  IsABag(C) /\ BagToSet(C) \subseteq BagToSet(B)
BY DEF IsABag, BagToSet, SetToBag, (-)

LEMMA RequestsApart ==
  ASSUME NEW r \in Write \cup Read
  PROVE  /\ r # None
         /\ IsWrite(r) <=> r \in Write
         /\ r \in Read => r.op \in {"list", "get_multi"} /\ r.hrefs \subseteq Hrefs
         /\ r \in Write => r.href \in Hrefs
BY NoneIsNoRequest DEF Write, Read, IsWrite

(* A version no other one is mistaken for.                                 *)
LEMMA FreshEtagIsFresh ==
  ASSUME HasFreshEtag
  PROVE  FreshEtag \in Etags \ EtagsInUse
BY DEF HasFreshEtag, FreshEtag

LEMMA SetToSeqIsSeq ==
  ASSUME NEW S, IsFiniteSet(S)
  PROVE  SetToSeq(S) \in Seq(S)
<1> DEFINE D == 1 .. Cardinality(S)
<1>1. Cardinality(S) \in Nat /\ ExistsBijection(D, S)
  BY FS_CardinalityType
<1>2. \E f \in [D -> S] : IsInjective(f)
  BY <1>1 DEF ExistsBijection, Bijection, Injection, IsInjective
<1>3. SetToSeq(S) \in [D -> S]
  BY <1>2 DEF SetToSeq
<1> QED
  BY <1>1, <1>3, SeqDef

(* What a server answers to a request for items is a sequence of           *)
(* responses.                                                              *)
LEMMA MultistatusIsTyped ==
  ASSUME TypeOK, NEW r \in Read, NEW ms \in Multistatus(r)
  PROVE  ms \in Seq(Responses)
<1> DEFINE wants == r.op = "get_multi"
           hs == IF wants THEN r.hrefs \cap Held ELSE Held
           S == {Held1(h, wants) : h \in hs}
           whole == SetToSeq(S)
<1>1. \A h \in Held : Held1(h, wants) \in Responses
  BY NoneAssumption DEF Held, Held1, Responses, TypeOK, Version
<1>2. hs \subseteq Held /\ hs \subseteq Hrefs
  BY DEF Held
<1>3. IsFiniteSet(S)
  <2> DEFINE f == [h \in hs |-> Held1(h, wants)]
  <2>1. f \in Surjection(hs, S)
    BY DEF Surjection
  <2>2. IsFiniteSet(hs)
    BY <1>2, HrefsAssumption, FS_Subset
  <2> QED
    BY <2>1, <2>2, FS_Surjection
<1>4. whole \in Seq(Responses)
  <2>1. whole \in Seq(S)
    BY <1>3, SetToSeqIsSeq
  <2>2. S \subseteq Responses
    BY <1>1, <1>2
  <2> HIDE DEF S, whole
  <2> QED
    BY <2>1, <2>2
<1>5. \/ ms = whole
      \/ \E h \in Held : ms = Append(whole, Held1(h, wants))
      \/ \E i \in DOMAIN whole : ms \in {[whole EXCEPT ![i].etag = None],
                                         [whole EXCEPT ![i].hash = None]}
  BY DEF Multistatus
<1> HIDE DEF wants, whole
<1>6. CASE \E h \in Held : ms = Append(whole, Held1(h, wants))
  BY <1>1, <1>4, <1>6
<1>7. ASSUME NEW i \in DOMAIN whole,
             ms \in {[whole EXCEPT ![i].etag = None], [whole EXCEPT ![i].hash = None]}
      PROVE  ms \in Seq(Responses)
  <2>1. whole[i] \in Responses
    BY <1>4
  <2>2. PICK new \in Responses : ms = [whole EXCEPT ![i] = new]
    BY <1>7, <2>1 DEF Responses
  <2> QED
    BY <1>4, <2>2
<1> QED
  BY <1>4, <1>5, <1>6, <1>7

LEMMA ParsedIsTyped ==
  ASSUME NEW ms \in Seq(Responses)
  PROVE  \A r \in Parsed(ms) : r \in Responses /\ r.etag # None
BY DEF Parsed

-----------------------------------------------------------------------------
(* The invariant.                                                          *)

Results == {"none", "ok", "refused", "error", "unauthorized"}
LateInv == /\ IsABag(late) /\ BagToSet(late) \subseteq Write
           /\ \A w \in BagToSet(late) : WellMade(w)

LEMMA InitImpliesInv == Init => DavInv
<1> SUFFICES ASSUME Init PROVE DavInv
  OBVIOUS
<1>1. IsABag(late) /\ BagToSet(late) = {}
  BY DEF Init, IsABag, BagToSet, EmptyBag, SetToBag
<1>2. {done, expired} \subseteq BOOLEAN
  BY DEF Init
<1>3. TypeOK
  BY <1>1, <1>2, OptionsAssumption DEF Init, TypeOK
<1> QED
  BY <1>1, <1>3 DEF Init, DavInv, CallInv, ChallengeInv

(* A call begins.                                                          *)
LEMMA CallKeepsInv ==
  ASSUME DavInv, NEW r \in Write \cup Read, WellMade(r), Call(r)
  PROVE  DavInv'
<1>1. {done', expired'} \subseteq BOOLEAN
  BY DEF Call
<1>2. TypeOK'
  BY <1>1, RequestsApart, OptionsAssumption DEF DavInv, TypeOK, Call, bounds
<1> QED
  BY <1>2 DEF DavInv, CallInv, ChallengeInv, Call, WellMade

LEMMA CallsMakeRequests ==
  ASSUME TypeOK, Calls
  PROVE  \E r \in Write \cup Read : WellMade(r) /\ Call(r)
<1>1. ASSUME NEW h \in Hrefs, NEW c \in Hashes, Upload(h, c) \/ Update(h, c)
      PROVE  \E r \in Write : WellMade(r) /\ Call(r)
  BY <1>1 DEF Upload, Update, Write, WellMade
<1>2. ASSUME NEW h \in Hrefs, Delete(h)
      PROVE  \E r \in Write : WellMade(r) /\ Call(r)
  <2> DEFINE e == IF known[h] = NoEtag THEN None ELSE known[h]
             r == [op |-> "delete", href |-> h, hash |-> None, etag |-> e]
  <2>1. e \in Etags \cup {None}
    BY <1>2 DEF TypeOK, Delete
  <2>2. r \in Write /\ WellMade(r)
    BY <2>1 DEF Write, WellMade
  <2>3. Call(r)
    BY <1>2 DEF Delete
  <2> HIDE DEF r
  <2> QED
    BY <2>2, <2>3
<1>3. ASSUME NEW hs \in SUBSET Hrefs, List \/ GetMulti(hs)
      PROVE  \E r \in Read : WellMade(r) /\ Call(r)
  BY <1>3 DEF List, GetMulti, Read, WellMade
<1> QED
  BY <1>1, <1>2, <1>3 DEF Calls

(* A call ends.                                                            *)
LEMMA OverKeepsInv ==
  ASSUME DavInv, NEW r \in Results, Over(r),
         known' \in [Hrefs -> Etags \cup {None, NoEtag}],
         got' = None \/ got' \subseteq Responses,
         valid' \subseteq {"kept", "sent", "offered"},
         LateInv', faults' \in 0 .. MaxFaults, UNCHANGED <<server, edits>>
  PROVE  DavInv'
<1>1. {done', expired'} \subseteq BOOLEAN
  BY DEF Over
<1>2. TypeOK'
  BY <1>1, OptionsAssumption DEF DavInv, TypeOK, Over, LateInv, Results
<1> QED
  BY <1>2 DEF DavInv, CallInv, ChallengeInv, Over, LateInv, WellMade

LEMMA RaiseKeepsInv ==
  ASSUME DavInv, NEW r \in Results, Raise(r),
         valid' \subseteq {"kept", "sent", "offered"},
         LateInv', faults' \in 0 .. MaxFaults, UNCHANGED <<server, edits>>
  PROVE  DavInv'
BY OverKeepsInv DEF Raise, DavInv, TypeOK

(* A request is repeated, or its error is raised.                          *)
LEMMA RetryKeepsInv ==
  ASSUME DavInv, NEW r \in Results, Retry(r), pc # "idle", ~ done,
         valid' \subseteq {"kept", "sent", "offered"},
         LateInv', faults' \in 0 .. MaxFaults, UNCHANGED <<server, edits>>
  PROVE  DavInv'
<1>1. CASE AnotherTry
  <2>1. tries' \in 0 .. MaxTries
    BY <1>1, OptionsAssumption DEF Retry, AnotherTry, Counted, DavInv, TypeOK
  <2>2. TypeOK'
    BY <1>1, <2>1, OptionsAssumption DEF Retry, DavInv, TypeOK, LateInv, caller
  <2> QED
    BY <1>1, <2>2 DEF Retry, DavInv, CallInv, ChallengeInv, LateInv, WellMade
<1>2. CASE ~ AnotherTry
  BY <1>2, RaiseKeepsInv DEF Retry
<1> QED
  BY <1>1, <1>2

LEMMA LateInvKept ==
  ASSUME DavInv, UNCHANGED late
  PROVE  LateInv'
BY DEF DavInv, TypeOK, CallInv, LateInv, WellMade

LEMMA RequestKeepsInv ==
  ASSUME DavInv, Request
  PROVE  DavInv'
<1> USE DEF DavInv
<1>1. CASE Send
  <2>1. TypeOK'
    BY <1>1 DEF Send, TypeOK, caller, bounds
  <2> QED
    BY <1>1, <2>1 DEF Send, CallInv, ChallengeInv, WellMade
<1>2. CASE HandleChallenge
  <2>1. valid' \subseteq {"kept", "sent", "offered"}
    BY <1>2 DEF HandleChallenge, Challenged
  <2>2. CASE round = 0
    <3>1. TypeOK'
      BY <1>2, <2>1, <2>2 DEF HandleChallenge, TypeOK, caller, bounds
    <3> QED
      BY <1>2, <2>2, <3>1 DEF HandleChallenge, Challenged, CallInv, ChallengeInv, WellMade
  <2>3. CASE round # 0
    BY <1>2, <2>1, <2>3, LateInvKept, RaiseKeepsInv DEF HandleChallenge, Results, TypeOK, bounds
  <2> QED
    BY <2>2, <2>3
<1>3. CASE HandleLimit
  <2>1. ~ done
    BY <1>3 DEF HandleLimit, CallInv
  <2> QED
    BY <1>3, <2>1, LateInvKept, RetryKeepsInv DEF HandleLimit, Results, TypeOK, bounds
<1>4. CASE HandleError
  BY <1>4, LateInvKept, RaiseKeepsInv DEF HandleError, Results, TypeOK, bounds
<1>5. CASE WriteReturns
  <2>1. known' \in [Hrefs -> Etags \cup {None, NoEtag}]
    <3>1. /\ known \in [Hrefs -> Etags \cup {None, NoEtag}]
          /\ answer.etag \in Etags \cup {NoEtag}
      BY <1>5 DEF WriteReturns, Returns, TypeOK, Answer
    <3>2. \E e \in Etags \cup {None, NoEtag} : known' = [known EXCEPT ![req.href] = e]
      BY <1>5, <3>1 DEF WriteReturns
    <3> QED BY <3>1, <3>2
  <2> QED
    BY <1>5, <2>1, LateInvKept, OverKeepsInv DEF WriteReturns, Results, TypeOK, bounds
<1>6. CASE ListReturns
  <2> DEFINE rs == Parsed(answer.body)
  <2>1. \A r \in rs : r.etag \in Etags
    <3>1. answer.body \in Seq(Responses)
      BY <1>6 DEF ListReturns, Returns, TypeOK, Answer
    <3> QED
      BY <3>1, ParsedIsTyped DEF Responses
  <2>2. known' = [h \in Hrefs |->
          IF \E r \in rs : r.href = h THEN (CHOOSE r \in rs : r.href = h).etag ELSE None]
    BY <1>6 DEF ListReturns
  <2> HIDE DEF rs
  <2>3. known' \in [Hrefs -> Etags \cup {None, NoEtag}]
    BY <2>1, <2>2
  <2> QED
    BY <1>6, <2>3, LateInvKept, OverKeepsInv DEF ListReturns, Results, TypeOK, bounds
<1>7. CASE GetMultiReturns
  <2> DEFINE rs == {r \in Parsed(answer.body) : r.hash # None /\ r.href \in req.hrefs}
  <2>1. rs \subseteq Responses
    BY <1>7, ParsedIsTyped DEF GetMultiReturns, Returns, TypeOK, Answer
  <2>2. CASE AllAnswered(rs)
    BY <1>7, <2>1, <2>2, LateInvKept, OverKeepsInv DEF GetMultiReturns, Results, TypeOK, bounds
  <2>3. CASE ~ AllAnswered(rs)
    BY <1>7, <2>3, LateInvKept, RaiseKeepsInv DEF GetMultiReturns, Results, TypeOK, bounds
  <2> QED
    BY <2>2, <2>3
<1> QED
  BY <1>1, <1>2, <1>3, <1>4, <1>5, <1>6, <1>7 DEF Request

LEMMA WrittenIsTyped ==
  ASSUME TypeOK, NEW w \in Write, WellMade(w), HasFreshEtag
  PROVE  Written(w) \in [Hrefs -> Version \cup {None}]
BY FreshEtagIsFresh DEF Written, WellMade, Write, Version, TypeOK

LEMMA ServerKeepsInv ==
  ASSUME DavInv, Server
  PROVE  DavInv'
<1> USE DEF DavInv
<1>1. \A n \in {401, 404, 412, 429, 500} : Status(n) \in Answer
  BY EmptySeq DEF Status, Answer
<1>2. CASE ServerRefuses
  <2>1. PICK n \in {401, 404, 412, 429, 500} :
          /\ RefusesWith(n)
          /\ answer' = Status(n)
          /\ faults' = IF n = 500 THEN faults + 1 ELSE faults
          /\ expired' = IF n = 401 /\ round = 0 THEN FALSE ELSE expired
          /\ valid' = Kept \cup (IF n = 401 THEN {"offered"} ELSE {})
    BY <1>2 DEF ServerRefuses
  <2>2. /\ pc = "wait" /\ pc' = "answer"
        /\ UNCHANGED <<server, req, tries, round, known, got, result, late, done, edits>>
    BY <1>2 DEF ServerRefuses, caller
  <2>3. faults' \in 0 .. MaxFaults
    BY <2>1, OptionsAssumption DEF RefusesWith, TypeOK
  <2>4. {done', expired'} \subseteq BOOLEAN
    <3>1. expired' \in {FALSE, expired} /\ done' = done
      BY <2>1, <2>2
    <3> QED BY <3>1 DEF TypeOK
  <2>5. TypeOK'
    <3>1. answer' \in Answer /\ valid' \subseteq {"kept", "sent", "offered"}
      BY <1>1, <2>1 DEF Kept
    <3> QED
      BY <2>2, <2>3, <2>4, <3>1 DEF TypeOK
  <2>6. answer'.status = n
    BY <2>1 DEF Status
  <2>7. CallInv'
    BY <2>2, <2>6 DEF CallInv, WellMade
  <2>8. ChallengeInv'
    BY <2>1, <2>2, <2>6 DEF ChallengeInv, RefusesWith, Authorized, Kept, TypeOK
  <2> QED
    BY <2>5, <2>7, <2>8
<1>3. CASE ServerWrites
  <2>1. /\ pc = "wait" /\ pc' = "answer" /\ IsWrite(req) /\ HasFreshEtag /\ done' = TRUE
        /\ server' = Written(req) /\ valid' = Kept
        /\ UNCHANGED <<expired, req, tries, round, known, got, result, late, edits, faults>>
    BY <1>3 DEF ServerWrites, caller, bounds
  <2>2. req \in Write
    BY <2>1, RequestsApart DEF TypeOK
  <2>3. server' \in [Hrefs -> Version \cup {None}]
    BY <2>1, <2>2, WrittenIsTyped DEF CallInv
  <2>4. PICK e \in {NoEtag, FreshEtag} : answer' = [Status(201) EXCEPT !.etag = e]
    BY <1>3 DEF ServerWrites
  <2>5. answer' \in Answer /\ answer'.status = 201
    <3>1. answer' = [status |-> 201, etag |-> e, body |-> <<>>]
      BY <2>4 DEF Status
    <3>2. e \in Etags \cup {NoEtag}
      BY <2>1, FreshEtagIsFresh
    <3> QED
      BY <3>1, <3>2, EmptySeq DEF Answer
  <2>6. {done', expired'} \subseteq BOOLEAN
    BY <2>1 DEF TypeOK
  <2>7. TypeOK'
    BY <2>1, <2>3, <2>5, <2>6 DEF TypeOK, Kept
  <2> QED
    BY <2>1, <2>5, <2>7 DEF CallInv, ChallengeInv, WellMade
<1>4. CASE ServerReads
  <2>1. /\ pc = "wait" /\ pc' = "answer" /\ ~ IsWrite(req) /\ valid' = Kept
        /\ UNCHANGED <<server, expired, req, tries, round, known, got, result, late, done,
                       edits, faults>>
    BY <1>4 DEF ServerReads, caller, bounds
  <2>2. req \in Read
    BY <2>1, RequestsApart DEF TypeOK
  <2>3. PICK ms \in Multistatus(req) : answer' = [Status(207) EXCEPT !.body = ms]
    BY <1>4 DEF ServerReads
  <2>4. ms \in Seq(Responses)
    BY <2>2, MultistatusIsTyped
  <2>5. answer' \in Answer /\ answer'.status = 207
    BY <2>3, <2>4 DEF Status, Answer
  <2>6. TypeOK'
    BY <2>1, <2>5 DEF TypeOK, Kept
  <2> QED
    BY <2>1, <2>5, <2>6 DEF CallInv, ChallengeInv, WellMade
<1> QED
  BY <1>2, <1>3, <1>4 DEF Server

LEMMA NetworkKeepsInv ==
  ASSUME DavInv, Network
  PROVE  DavInv'
<1> USE DEF DavInv
<1>1. CASE Disconnected
  <2>1. /\ pc \in {"wait", "answer"} /\ faults < MaxFaults /\ faults' = faults + 1
        /\ late' \in {late} \cup
             (IF pc = "wait" /\ IsWrite(req) THEN {late (+) SetToBag({req})} ELSE {})
        /\ IF SafeToRetry(req) THEN Retry("error") ELSE Raise("error")
        /\ valid' = Kept /\ UNCHANGED <<server, edits>>
    BY <1>1 DEF Disconnected
  <2>2. LateInv'
    <3>1. CASE late' = late
      BY <3>1, LateInvKept
    <3>2. CASE IsWrite(req) /\ late' = late (+) SetToBag({req})
      <4>1. req \in Write /\ WellMade(req)
        BY <2>1, <3>2, RequestsApart DEF TypeOK, CallInv
      <4>2. IsABag(late') /\ BagToSet(late') = BagToSet(late) \cup {req}
        BY <3>2, BagWithOneMore DEF TypeOK
      <4> QED
        BY <4>1, <4>2 DEF LateInv, TypeOK, CallInv, WellMade
    <3> QED
      BY <2>1, <3>1, <3>2
  <2>3. faults' \in 0 .. MaxFaults
    BY <2>1, OptionsAssumption DEF TypeOK
  <2>4. SafeToRetry(req) => ~ done
    BY DEF SafeToRetry, CallInv
  <2> QED
    BY <2>1, <2>2, <2>3, <2>4, RetryKeepsInv, RaiseKeepsInv DEF Kept, Results
<1>2. ASSUME NEW w \in BagToSet(late), Arrives(w)
      PROVE  DavInv'
  <2>1. /\ late' = late (-) SetToBag({w})
        /\ server' = server \/ (HasFreshEtag /\ server' = Written(w))
        /\ UNCHANGED <<valid, expired, pc, req, tries, round, answer, known, got, result,
                       done, edits, faults>>
    BY <1>2 DEF Arrives, auth, caller, bounds
  <2>2. w \in Write /\ WellMade(w)
    BY DEF TypeOK, CallInv
  <2>3. server' \in [Hrefs -> Version \cup {None}]
    BY <2>1, <2>2, WrittenIsTyped DEF TypeOK
  <2>4. IsABag(late') /\ BagToSet(late') \subseteq BagToSet(late)
    BY <2>1, BagWithOneLess DEF TypeOK
  <2>5. TypeOK'
    BY <2>1, <2>3, <2>4 DEF TypeOK
  <2> QED
    BY <2>1, <2>4, <2>5 DEF CallInv, ChallengeInv, WellMade
<1> QED
  BY <1>1, <1>2 DEF Network

LEMMA OthersKeepInv ==
  ASSUME DavInv, Others
  PROVE  DavInv'
<1> USE DEF DavInv
<1>1. ASSUME NEW h \in Hrefs, OtherChange(h)
      PROVE  DavInv'
  <2>1. server' \in [Hrefs -> Version \cup {None}]
    BY <1>1, FreshEtagIsFresh DEF OtherChange, TypeOK, Version
  <2>2. edits' \in 0 .. MaxEdits
    BY <1>1, OptionsAssumption DEF OtherChange, TypeOK
  <2>3. TypeOK'
    BY <1>1, <2>1, <2>2 DEF OtherChange, TypeOK, auth, caller
  <2> QED
    BY <1>1, <2>3 DEF OtherChange, auth, caller, CallInv, ChallengeInv, WellMade
<1>2. CASE NonceExpires
  <2>1. {done', expired'} \subseteq BOOLEAN
    BY <1>2 DEF NonceExpires, TypeOK
  <2>2. TypeOK'
    BY <1>2, <2>1 DEF NonceExpires, TypeOK, caller, bounds
  <2>3. CallInv'
    BY <1>2 DEF NonceExpires, caller, CallInv, WellMade
  <2>4. ChallengeInv'
    BY <1>2 DEF NonceExpires, caller, ChallengeInv
  <2> QED
    BY <2>2, <2>3, <2>4
<1> QED
  BY <1>1, <1>2 DEF Others

LEMMA NextPreservesInv == DavInv /\ [Next]_vars => DavInv'
<1> SUFFICES ASSUME DavInv, [Next]_vars
             PROVE  DavInv'
  OBVIOUS
<1>1. CASE UNCHANGED vars
  BY <1>1 DEF vars, DavInv, TypeOK, CallInv, ChallengeInv, WellMade
<1>2. CASE Calls
  BY <1>2, CallsMakeRequests, CallKeepsInv DEF DavInv
<1> QED
  BY <1>1, <1>2, RequestKeepsInv, ServerKeepsInv, NetworkKeepsInv, OthersKeepInv
  DEF Next

(* Variables keep their types, whatever the server answers.                *)
THEOREM DavTypeCorrect == Spec => []TypeOK
<1>1. DavInv => TypeOK
  BY DEF DavInv
<1> QED
  BY <1>1, InitImpliesInv, NextPreservesInv, PTL DEF Spec

-----------------------------------------------------------------------------
(* What a call reports.                                                    *)

(* What happens elsewhere tells the caller nothing.                        *)
LEMMA TellsNobody ==
  ASSUME Server \/ Others \/ \E w \in BagToSet(late) : Arrives(w)
  PROVE  UNCHANGED caller
<1>1. ASSUME ServerRefuses PROVE UNCHANGED caller
  <2>1. UNCHANGED <<known, got, result>>
    BY <1>1 DEF ServerRefuses, caller
  <2> QED BY <2>1 DEF caller
<1>2. ServerWrites => UNCHANGED caller
  BY Zenon DEF ServerWrites
<1>3. ServerReads => UNCHANGED caller
  BY Zenon DEF ServerReads
<1>4. Others => UNCHANGED caller
  BY Zenon DEF Others, OtherChange, NonceExpires
<1>5. ASSUME NEW w \in BagToSet(late), Arrives(w) PROVE UNCHANGED caller
  BY <1>5, Zenon DEF Arrives
<1> QED
  BY <1>1, <1>2, <1>3, <1>4, <1>5 DEF Server

(* Good credentials are refused only when the nonce expires while a        *)
(* challenge is being answered (handle_401): a refusal in the second round *)
(* means that the answer to the challenge was not accepted any more.       *)
THEOREM RefusalAlwaysExplained == Spec => RefusalExplained
<1> DEFINE Refusal == result' = "unauthorized" /\ result # result'
<1>1. ASSUME DavInv, Next, Refusal PROVE expired
  <2>1. ~ Calls
    BY <1>1 DEF Calls, Upload, Update, Delete, List, GetMulti, Call
  <2>2. ~ Server /\ ~ Others
    BY <1>1, TellsNobody DEF caller
  <2>3. ~ Disconnected
    BY <1>1 DEF Disconnected, Retry, Raise, Over, caller
  <2>4. ~ Network
    BY <1>1, <2>3, TellsNobody DEF Network, caller
  <2>5. ~ (Send \/ HandleLimit \/ HandleError)
    BY <1>1 DEF Send, HandleLimit, HandleError, Retry, Raise, Over, caller
  <2>6. ~ (WriteReturns \/ ListReturns \/ GetMultiReturns)
    BY <1>1 DEF WriteReturns, ListReturns, GetMultiReturns, Raise, Over
  <2>7. HandleChallenge
    BY <1>1, <2>1, <2>2, <2>4, <2>5, <2>6 DEF Next, Request
  <2>8. round # 0
    BY <1>1, <2>7 DEF HandleChallenge, caller
  <2> QED
    BY <1>1, <2>7, <2>8 DEF HandleChallenge, DavInv, ChallengeInv
<1>2. DavInv /\ [Next]_vars => [Refusal => expired]_vars
  BY <1>1
<1> QED
  BY <1>2, InitImpliesInv, NextPreservesInv, PTL DEF Spec, RefusalExplained

(* get_multi() returns all items that were asked for, with their content   *)
(* and etag, or raises.                                                    *)
THEOREM GetMultiAlwaysComplete == Spec => GetMultiComplete
<1> DEFINE Complete ==
      got' # got /\ got' # None =>
        /\ {r.href : r \in got'} = req.hrefs
        /\ \A r \in got' : r.etag # None /\ r.hash # None
<1>1. ASSUME DavInv, Next PROVE Complete
  <2> SUFFICES ASSUME got' # got, got' # None
               PROVE  /\ {r.href : r \in got'} = req.hrefs
                      /\ \A r \in got' : r.etag # None /\ r.hash # None
    OBVIOUS
  <2> DEFINE rs == {r \in Parsed(answer.body) : r.hash # None /\ r.href \in req.hrefs}
  <2>1. GetMultiReturns /\ AllAnswered(rs) /\ got' = rs
    <3>1. ~ Calls
      BY DEF Calls, Upload, Update, Delete, List, GetMulti, Call
    <3>2. ~ Server /\ ~ Others
      BY TellsNobody DEF caller
    <3>3. ~ Disconnected
      BY DEF Disconnected, Retry, Raise, caller
    <3>4. ~ Network
      BY <3>3, TellsNobody DEF Network, caller
    <3>5. ~ (Send \/ HandleChallenge \/ HandleLimit \/ HandleError)
      BY DEF Send, HandleChallenge, HandleLimit, HandleError, Retry, Raise, caller
    <3>6. ~ (WriteReturns \/ ListReturns)
      BY DEF WriteReturns, ListReturns
    <3>7. GetMultiReturns
      BY <1>1, <3>1, <3>2, <3>4, <3>5, <3>6 DEF Next, Request
    <3> QED
      BY <3>7 DEF GetMultiReturns, Raise
  <2>2. answer.body \in Seq(Responses)
    BY <1>1, <2>1 DEF GetMultiReturns, Returns, DavInv, TypeOK, Answer
  <2>3. \A r \in rs : r.etag # None /\ r.hash # None
    BY <2>2, ParsedIsTyped
  <2> QED
    BY <2>1, <2>3 DEF AllAnswered
<1>2. DavInv /\ [Next]_vars => [Complete]_vars
  BY <1>1
<1> QED
  BY <1>2, InitImpliesInv, NextPreservesInv, PTL DEF Spec, GetMultiComplete

-----------------------------------------------------------------------------
(* The contract: every step is one of RemoteStorage, or none.              *)

RemoteStep == Remote!Next \/ UNCHANGED Remote!vars

LEMMA InitIsRemote == Init => Remote!Init
BY DEF Init, Remote!Init, EmptyBag, Remote!EmptyBag, SetToBag, Remote!SetToBag

(* Of a call that has not been answered with success nothing is seen yet.  *)
LEMMA NotDone ==
  ASSUME DavInv, pc # "answer" \/ answer.status # 201
  PROVE  done = FALSE
BY Zenon DEF DavInv, TypeOK, CallInv

LEMMA CallIsRemote ==
  ASSUME DavInv, NEW r \in Write \cup Read, Call(r)
  PROVE  RemoteStep
<1>1. done = FALSE /\ done' = FALSE
  BY NotDone DEF Call
<1>2. /\ pc = "idle" /\ pc' = "send" /\ req' = r
      /\ result' = "none" /\ UNCHANGED <<server, late>>
  BY DEF Call, bounds
<1>3. CASE r \in Write
  <2>1. IsWrite(r) /\ r \in Remote!Write
    BY <1>3, RequestsApart DEF Write, Remote!Write
  <2>2. Remote!Begin(r)
    BY <1>1, <1>2, <2>1 DEF Remote!Begin
  <2> QED
    BY <2>1, <2>2 DEF RemoteStep, Remote!Next
<1>4. CASE r \in Read
  <2>1. ~ IsWrite(r)
    BY <1>4 DEF Read, IsWrite
  <2>2. Remote!Reading
    BY <1>1, <1>2, <2>1 DEF Remote!Reading
  <2> QED
    BY <2>2 DEF RemoteStep, Remote!Next
<1> QED
  BY <1>3, <1>4

(* The end of a call that reads.                                           *)
LEMMA ReadEndIsRemote ==
  ASSUME DavInv, pc # "idle", ~ IsWrite(req),
         NEW r \in Results, Over(r), UNCHANGED <<server, late>>
  PROVE  RemoteStep
<1>1. done = FALSE /\ done' = FALSE
  BY NotDone DEF DavInv, CallInv, Over
<1>2. Remote!Reading
  BY <1>1 DEF Remote!Reading, Over, Results
<1> QED
  BY <1>2 DEF RemoteStep, Remote!Next

(* The end of a write: success is reported of one that took effect, a      *)
(* refusal of one that did not.                                            *)
LEMMA WriteEndIsRemote ==
  ASSUME DavInv, pc # "idle", IsWrite(req), NEW r \in Results \ {"none"}, Over(r),
         r = "ok" => done, r \in {"refused", "unauthorized"} => ~ done,
         UNCHANGED <<server, late>>
  PROVE  RemoteStep
<1>1. req # None
  BY RequestsApart DEF DavInv, TypeOK
<1>2. pc' = "idle" /\ done' = FALSE /\ result' = r
  BY DEF Over
<1>3. Remote!End(IF r = "unauthorized" THEN "refused" ELSE r)
  BY <1>1, <1>2 DEF Remote!End
<1>4. CASE r = "ok"
  BY <1>3, <1>4 DEF RemoteStep, Remote!Next, Remote!Succeed
<1>5. CASE r \in {"refused", "unauthorized"}
  BY <1>3, <1>5 DEF RemoteStep, Remote!Next, Remote!Refuse
<1>6. CASE r = "error"
  BY <1>3, <1>6 DEF RemoteStep, Remote!Next, Remote!GiveUp
<1> QED
  BY <1>4, <1>5, <1>6 DEF Results

LEMMA EndIsRemote ==
  ASSUME DavInv, pc # "idle", NEW r \in Results \ {"none"}, Over(r),
         IsWrite(req) /\ r = "ok" => done,
         IsWrite(req) /\ r \in {"refused", "unauthorized"} => ~ done,
         UNCHANGED <<server, late>>
  PROVE  RemoteStep
BY ReadEndIsRemote, WriteEndIsRemote

(* A request that goes on, or is repeated.                                 *)
LEMMA GoingOnStutters ==
  ASSUME pc # "idle", pc' # "idle", UNCHANGED <<server, req, done, late, result>>
  PROVE  RemoteStep
BY DEF RemoteStep, Remote!vars

LEMMA RequestIsRemote ==
  ASSUME DavInv, Request
  PROVE  RemoteStep
<1>1. CASE Send
  BY <1>1, GoingOnStutters DEF Send, caller, bounds
<1>2. CASE HandleChallenge
  <2>1. CASE round = 0
    BY <1>2, <2>1, GoingOnStutters DEF HandleChallenge, caller
  <2>2. CASE round # 0
    BY <1>2, <2>2, EndIsRemote DEF HandleChallenge, Raise, Results, DavInv, CallInv
  <2> QED
    BY <2>1, <2>2
<1>3. CASE HandleLimit
  <2>1. CASE AnotherTry
    BY <1>3, <2>1, GoingOnStutters DEF HandleLimit, Retry, caller
  <2>2. CASE ~ AnotherTry
    BY <1>3, <2>2, EndIsRemote DEF HandleLimit, Retry, Raise, Results, DavInv, CallInv
  <2> QED
    BY <2>1, <2>2
<1>4. CASE HandleError
  BY <1>4, EndIsRemote DEF HandleError, Raise, Results, DavInv, CallInv
<1>5. CASE WriteReturns
  BY <1>5, EndIsRemote DEF WriteReturns, Returns, Results, DavInv, CallInv
<1>6. CASE ListReturns
  <2>1. ~ IsWrite(req)
    BY <1>6 DEF ListReturns, IsWrite
  <2> QED
    BY <1>6, <2>1, EndIsRemote DEF ListReturns, Returns, Results
<1>7. CASE GetMultiReturns
  <2>1. ~ IsWrite(req)
    BY <1>7 DEF GetMultiReturns, IsWrite
  <2>2. \E r \in {"ok", "refused"} : Over(r)
    BY <1>7 DEF GetMultiReturns, Raise
  <2> QED
    BY <1>7, <2>1, <2>2, EndIsRemote DEF GetMultiReturns, Returns, Results
<1> QED
  BY <1>1, <1>2, <1>3, <1>4, <1>5, <1>6, <1>7 DEF Request

(* A write takes effect as RemoteStorage says, when the server finds its   *)
(* precondition fulfilled.                                                 *)
LEMMA WrittenIsEffect ==
  ASSUME TypeOK, NEW w \in Write, WellMade(w), Precondition(w), HasFreshEtag,
         server' = Written(w)
  PROVE  Remote!Effect(w)
<1>1. FreshEtag \in Etags
  BY FreshEtagIsFresh
<1>2. w.op \in {"upload", "update", "delete"}
  BY DEF Write
<1>3. Remote!Applies(w)
  BY <1>2, NoneAssumption DEF Remote!Applies, Precondition, WellMade
<1> QED
  BY <1>1, <1>2, <1>3 DEF Remote!Effect, Written

LEMMA ServerIsRemote ==
  ASSUME DavInv, Server
  PROVE  RemoteStep
<1>1. CASE ServerRefuses
  BY <1>1, GoingOnStutters DEF ServerRefuses, caller
<1>2. CASE ServerWrites
  <2>1. done = FALSE
    BY <1>2, NotDone DEF ServerWrites
  <2>2. /\ pc = "wait" /\ pc' = "answer" /\ IsWrite(req) /\ Precondition(req)
        /\ HasFreshEtag /\ server' = Written(req) /\ done' = TRUE
        /\ UNCHANGED <<req, late, result>>
    BY <1>2 DEF ServerWrites, caller
  <2>3. req \in Write /\ req # None /\ WellMade(req)
    BY <2>2, RequestsApart DEF DavInv, TypeOK, CallInv
  <2>4. Remote!Effect(req)
    BY <2>2, <2>3, WrittenIsEffect DEF DavInv
  <2>5. Remote!TakeEffect
    BY <2>1, <2>2, <2>3, <2>4 DEF Remote!TakeEffect
  <2> QED
    BY <2>5 DEF RemoteStep, Remote!Next
<1>3. CASE ServerReads
  BY <1>3, GoingOnStutters DEF ServerReads, caller
<1> QED
  BY <1>1, <1>2, <1>3 DEF Server

LEMMA NetworkIsRemote ==
  ASSUME DavInv, Network
  PROVE  RemoteStep
<1>1. CASE Disconnected
  <2>1. CASE IsWrite(req)
    <3>1. /\ pc # "idle" /\ Over("error") /\ UNCHANGED server
          /\ late' \in {late, IF done THEN late ELSE late (+) SetToBag({req})}
      BY <1>1, <2>1 DEF Disconnected, SafeToRetry, Raise, DavInv, CallInv
    <3>2. req # None
      BY <3>1, RequestsApart DEF DavInv, TypeOK
    <3>3. late' \in {late, IF done THEN late
                          ELSE Remote!(+)(late, Remote!SetToBag({req}))}
      BY <3>1 DEF (+), Remote!(+), SetToBag, Remote!SetToBag
    <3>4. Remote!End("error")
      BY <2>1, <3>1, <3>2 DEF Remote!End, Over
    <3>5. Remote!GiveUp
      BY <2>1, <3>1, <3>3, <3>4 DEF Remote!GiveUp
    <3> QED
      BY <3>5 DEF RemoteStep, Remote!Next
  <2>2. CASE ~ IsWrite(req)
    <3>1. pc # "idle" /\ UNCHANGED <<server, late>> /\ Retry("error")
      BY <1>1, <2>2 DEF Disconnected, SafeToRetry
    <3>2. CASE AnotherTry
      BY <3>1, <3>2, GoingOnStutters DEF Retry, caller
    <3>3. CASE ~ AnotherTry
      BY <2>2, <3>1, <3>3, EndIsRemote DEF Retry, Raise, Results
    <3> QED
      BY <3>2, <3>3
  <2> QED
    BY <2>1, <2>2
<1>2. ASSUME NEW w \in BagToSet(late), Arrives(w)
      PROVE  RemoteStep
  <2>1. /\ w \in Write /\ WellMade(w)
        /\ w \in Remote!BagToSet(late) /\ Remote!BagIn(w, late)
    BY DEF DavInv, TypeOK, CallInv, BagToSet, Remote!BagToSet, Remote!BagIn
  <2>2. late' = Remote!(-)(late, Remote!SetToBag({w}))
    BY <1>2 DEF Arrives, (-), Remote!(-), SetToBag, Remote!SetToBag
  <2>3. UNCHANGED <<pc, req, done, result>>
    BY <1>2 DEF Arrives, caller
  <2>4. CASE UNCHANGED server
    <3>1. Remote!Lost(w)
      BY <2>1, <2>2, <2>3, <2>4 DEF Remote!Lost
    <3> QED
      BY <2>1, <3>1 DEF RemoteStep, Remote!Next
  <2>5. CASE Precondition(w) /\ HasFreshEtag /\ server' = Written(w)
    <3>1. Remote!Effect(w)
      BY <2>1, <2>5, WrittenIsEffect DEF DavInv
    <3>2. Remote!LateEffect(w)
      BY <2>1, <2>2, <2>3, <3>1 DEF Remote!LateEffect
    <3> QED
      BY <2>1, <3>2 DEF RemoteStep, Remote!Next
  <2> QED
    BY <1>2, <2>4, <2>5 DEF Arrives
<1> QED
  BY <1>1, <1>2 DEF Network

LEMMA OthersAreRemote ==
  ASSUME DavInv, Others
  PROVE  RemoteStep
<1>1. ASSUME NEW h \in Hrefs, OtherChange(h)
      PROVE  RemoteStep
  <2>1. \E v \in Version \cup {None} : server' = [server EXCEPT ![h] = v]
    BY <1>1, FreshEtagIsFresh DEF OtherChange, Version
  <2>2. UNCHANGED <<pc, req, done, late, result>>
    BY <1>1 DEF OtherChange, caller
  <2>3. Remote!OtherChange(h)
    BY <2>1, <2>2 DEF Remote!OtherChange, Version, Remote!Version
  <2> QED
    BY <2>3 DEF RemoteStep, Remote!Next
<1>2. CASE NonceExpires
  BY <1>2 DEF NonceExpires, caller, RemoteStep, Remote!vars
<1> QED
  BY <1>1, <1>2 DEF Others

LEMMA StepIsRemote == DavInv /\ [Next]_vars => [Remote!Next]_Remote!vars
<1> SUFFICES ASSUME DavInv, [Next]_vars
             PROVE  RemoteStep
  BY DEF RemoteStep
<1>1. CASE UNCHANGED vars
  BY <1>1 DEF vars, RemoteStep, Remote!vars
<1>2. CASE Calls
  BY <1>2, CallsMakeRequests, CallIsRemote DEF DavInv
<1> QED
  BY <1>1, <1>2, RequestIsRemote, ServerIsRemote, NetworkIsRemote, OthersAreRemote DEF Next

(* Retried, challenged and refused requests, lost and late ones included:  *)
(* every write of storage/dav.py takes effect at most once, on the version *)
(* it was made for, and never after request() reported it as refused.      *)
THEOREM DavKeepsContract == Spec => Contract
<1> QED
  BY InitIsRemote, StepIsRemote, InitImpliesInv, NextPreservesInv, PTL
  DEF Spec, Contract, Remote!Spec
=============================================================================
