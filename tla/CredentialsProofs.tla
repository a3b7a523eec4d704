-------------------------- MODULE CredentialsProofs --------------------------
(***************************************************************************)
(* Theorems about module Credentials: whose an account is and what opens it, *)
(* for any persons, requests and crashes.                                  *)
(***************************************************************************)
EXTENDS Credentials, TLAPS

-----------------------------------------------------------------------------
(* The inductive invariant.                                                *)

\* What a request carries; it is served while the relay is up. Whoever writes at
\* the same time as somebody else is on record.
RequestInv ==
    /\ \A r \in Req : req[r].pc = "idle" \/ up = "up"
    /\ \A r \in Req : req[r].pc # "idle" => req[r].key \in Secret
    /\ \A r \in Req : req[r].pc = "check" =>
          \/ req[r].kind = "signup" /\ req[r].body = req[r].key
          \/ req[r].kind = "provision" /\ req[r].body \in {req[r].key, None}
    /\ \A r \in Req : req[r].pc \in {"hash", "hwrite"} =>
          req[r].kind = "provision" /\ req[r].body \in {req[r].key, None}
    /\ \A r \in Req : req[r].pc \in {"truncate", "write"} =>
          req[r].kind \in {"signup", "provision", "change"} /\ req[r].body = req[r].key
    /\ \A r \in Req : req[r].pc = "auth" =>
          \/ req[r].kind = "change" /\ req[r].body = req[r].key
          \/ req[r].kind = "none" /\ req[r].body = None
    /\ \A q, r \in Writers : q # r => {req[q].key, req[r].key} \subseteq raced

\* Unless two requests wrote at once: a provisioning writes its hash where none
\* can be read, and whoever writes an envelope after it can be logged in; a
\* sign-up writes where no envelope can be read, and gives up the token when one
\* can. A token that works has been logged.
TokenInv ==
    raced = {} =>
        /\ \A r \in Req : req[r].pc \in {"hash", "hwrite"} => ~Readable(hash)
        /\ \A r \in Req : req[r].pc \in {"truncate", "write"} =>
              IF req[r].kind = "signup" THEN ~Readable(env) ELSE Readable(hash)
        /\ \A r \in Req : req[r].pc = "remove" => Readable(env) \/ Readable(hash)
        /\ (static /\ up = "up" /\ ~Readable(env) /\ ~Readable(hash) /\ ~unsaved)
              => Readable(token) /\ token \in shown

\* With none of the exceptions all who have set up the account have one secret,
\* and it is in every file.
Setter(s) == <<"signup", s>> \in setups \/ <<"provision", s>> \in setups

FilesInv ==
    /\ \A a, b \in setups : a[2] = b[2]
    /\ Readable(env)  => Setter(env)
    /\ Readable(hash) => <<"provision", hash>> \in setups
    /\ Readable(priv) => Setter(priv)

\* The requests that got through their checks have it, too.
AdmittedInv ==
    /\ \A r \in Req : req[r].pc \in {"ptruncate", "pwrite"} => Setter(req[r].key)
    /\ \A r \in Req : (req[r].pc \in {"truncate", "write"} /\ req[r].kind # "signup")
                         => <<"provision", req[r].key>> \in setups

\* After a provisioning the hash is there or being written again, and nobody else
\* is about to write it.
HashSteady ==
    \A u \in Secret : <<"provision", u>> \in setups =>
        /\ Readable(hash) \/ (hash = Torn /\ \E r \in Req : req[r].pc = "hwrite" /\ req[r].key = u)
        /\ \A r \in Req : req[r].pc \in {"hash", "hwrite"} => req[r].key = u

\* After a sign-up, the same of the envelope and of other sign-ups.
EnvSteady ==
    \A u \in Secret : <<"signup", u>> \in setups =>
        /\ Readable(env) \/ (env = Torn /\ \E r \in Req : req[r].pc = "write" /\ req[r].key = u)
        /\ \A r \in Req : (req[r].pc \in {"truncate", "write"} /\ req[r].kind = "signup")
                             => req[r].key = u

PassedInv == AdmittedInv /\ HashSteady /\ EnvSteady

OwnerInv == ~Excepted => FilesInv /\ PassedInv

IInv == TypeOK /\ RequestInv /\ TokenInv /\ OwnerInv

-----------------------------------------------------------------------------
(* What a step does to the request it is about.                            *)

\* r is now like q, and the others stay.
Like(r, pc, kind, key, body) ==
    /\ req' \in [Req -> Requests]
    /\ req'[r].pc = pc /\ req'[r].kind = kind /\ req'[r].key = key /\ req'[r].body = body
    /\ \A q \in Req : q # r => req'[q] = req[q]

LEMMA GotoLike ==
    ASSUME TypeOK, NEW r \in Req, NEW pc, Goto(r, pc),
           pc \in {"hash", "hwrite", "truncate", "write", "remove", "ptruncate", "pwrite"}
    PROVE  Like(r, pc, req[r].kind, req[r].key, req[r].body)
<1>1. [req[r] EXCEPT !.pc = pc] \in Requests
  BY DEF TypeOK, Requests
<1>2. QED
  BY <1>1 DEF TypeOK, Goto, Like, Requests

LEMMA FinishLike ==
    ASSUME TypeOK, NEW r \in Req, Finish(r)
    PROVE  Like(r, "idle", "none", None, None)
<1>1. Idle \in Requests
  BY DEF Idle, Requests
<1>2. QED
  BY <1>1 DEF TypeOK, Finish, Like, Idle

LEMMA ArriveLike ==
    ASSUME TypeOK, NEW r \in Req, NEW q \in Requests, Arrive(r, q)
    PROVE  Like(r, q.pc, q.kind, q.key, q.body) /\ req[r].pc = "idle" /\ up = "up"
BY DEF TypeOK, Arrive, Like, Idle

\* The exceptions stay.
LEMMA ExceptedStays ==
    ASSUME raced \subseteq raced', setups \subseteq setups', lost => lost', ~Excepted'
    PROVE  ~Excepted
BY DEF Excepted, Mixed

\* Without them, writers at the same time have one secret.
LEMMA OneWriter ==
    ASSUME RequestInv, ~Excepted, NEW q \in Writers, NEW r \in Writers
    PROVE  req[q].key = req[r].key
BY DEF RequestInv, Excepted

\* A request that begins to write.
LEMMA RaceFacts ==
    ASSUME TypeOK, RequestInv, NEW r \in Req \ Writers, req[r].pc # "idle", Race(r)
    PROVE  /\ raced' \subseteq Secret /\ raced \subseteq raced'
           /\ \A q \in Writers : {req[q].key, req[r].key} \subseteq raced'
<1>1. \A q \in Writers \cup {r} : req[q].key \in Secret
  BY DEF RequestInv, Writers
<1>2. QED
  BY <1>1 DEF Race, TypeOK

\* Somebody sets the account up, and none of the exceptions is met.
LEMMA SetUpFacts ==
    ASSUME TypeOK, ~Excepted', NEW w \in {"signup", "provision"}, NEW s \in Secret,
           setups' = setups \cup {<<w, s>>}, \A u \in Secret : <<w, u>> \in setups => u = s
    PROVE  \A a \in setups' : a[2] = s
<1>1. \A a \in setups' : \E v \in {"signup", "provision"}, u \in Secret : a = <<v, u>>
  BY DEF TypeOK
<1>2. ASSUME NEW v \in {"signup", "provision"}, NEW u \in Secret, <<v, u>> \in setups'
      PROVE  u = s
  <2>1. CASE v = w
    BY <1>2, <2>1
  <2>2. CASE v # w
    BY <1>2, <2>2 DEF Excepted, Mixed
  <2>3. QED
    BY <2>1, <2>2
<1>3. QED
  BY <1>1, <1>2

LEMMA InitInv == ASSUME Init PROVE IInv
<1> USE BoundsAssumption, NullAssumption
<1>1. Idle \in Requests /\ crashes \in 0..MaxCrash
  BY DEF Idle, Requests, Init
<1>2. TypeOK
  BY <1>1 DEF Init, TypeOK
<1>3. RequestInv /\ TokenInv /\ OwnerInv
  BY DEF Init, RequestInv, TokenInv, OwnerInv, FilesInv, PassedInv, AdmittedInv, HashSteady,
         EnvSteady, Idle, Readable, Writers
<1>4. QED
  BY <1>2, <1>3 DEF IInv

-----------------------------------------------------------------------------
(* Every step preserves it.                                                *)

LEMMA SignupInv ==
    ASSUME IInv, NEW r \in Req, NEW k \in Tokens, NEW s \in Secret, Signup(r, k, s)
    PROVE  IInv'
<1> USE NullAssumption, BoundsAssumption DEF Signup, files, history
<1>0. TypeOK /\ RequestInv /\ TokenInv /\ OwnerInv
  BY DEF IInv
<1>1. Like(r, "check", "signup", s, s) /\ req[r].pc = "idle" /\ up = "up"
  <2> DEFINE q == [pc |-> "check", kind |-> "signup", key |-> s, body |-> s]
  <2>1. q \in Requests
    BY <1>0 DEF Requests, TypeOK, Readable
  <2>2. Arrive(r, q)
    BY DEF Arrive
  <2>3. QED
    BY <1>0, <2>1, <2>2, ArriveLike
<1>2. TypeOK'
  BY <1>0, <1>1 DEF TypeOK, Like, RequestInv, Requests, Tokens
<1>3. RequestInv'
  BY <1>0, <1>1 DEF RequestInv, Like, Writers
<1>4. TokenInv'
  BY <1>0, <1>1 DEF TokenInv, RequestInv, Like, Writers, Readable, TypeOK, Tokens
<1>5. OwnerInv'
  <2> SUFFICES ASSUME ~Excepted'
               PROVE  FilesInv' /\ PassedInv'
    BY DEF OwnerInv
  <2>1. ~Excepted /\ FilesInv /\ AdmittedInv /\ HashSteady /\ EnvSteady
    BY <1>0, ExceptedStays DEF OwnerInv, PassedInv
  <2>2. FilesInv'
    BY <1>0, <1>1, <2>1 DEF FilesInv, Setter, Readable, AdmittedInv, RequestInv, Like
  <2>3. AdmittedInv'
    BY <1>0, <1>1, <2>1 DEF AdmittedInv, FilesInv, Setter, Readable, RequestInv, Like
  <2>4. HashSteady'
    BY <1>0, <1>1, <2>1 DEF HashSteady, Readable, RequestInv, Like
  <2>5. EnvSteady'
    BY <1>0, <1>1, <2>1 DEF EnvSteady, FilesInv, Setter, AdmittedInv, Readable, RequestInv, Like
  <2>6. QED
    BY <2>2, <2>3, <2>4, <2>5 DEF PassedInv
<1>6. QED
  BY <1>2, <1>3, <1>4, <1>5 DEF IInv

LEMMA ProvisionInv ==
    ASSUME IInv, NEW r \in Req, NEW s \in Secret, NEW e \in {s, None}, Provision(r, s, e)
    PROVE  IInv'
<1> USE NullAssumption, BoundsAssumption DEF Provision, files, history
<1>0. TypeOK /\ RequestInv /\ TokenInv /\ OwnerInv
  BY DEF IInv
<1>1. Like(r, "check", "provision", s, e) /\ req[r].pc = "idle" /\ up = "up"
  <2> DEFINE q == [pc |-> "check", kind |-> "provision", key |-> s, body |-> e]
  <2>1. q \in Requests
    BY <1>0 DEF Requests, TypeOK, Readable
  <2>2. Arrive(r, q)
    BY DEF Arrive
  <2>3. QED
    BY <1>0, <2>1, <2>2, ArriveLike
<1>2. TypeOK'
  BY <1>0, <1>1 DEF TypeOK, Like, RequestInv, Requests, Tokens
<1>3. RequestInv'
  BY <1>0, <1>1 DEF RequestInv, Like, Writers
<1>4. TokenInv'
  BY <1>0, <1>1 DEF TokenInv, RequestInv, Like, Writers, Readable, TypeOK, Tokens
<1>5. OwnerInv'
  <2> SUFFICES ASSUME ~Excepted'
               PROVE  FilesInv' /\ PassedInv'
    BY DEF OwnerInv
  <2>1. ~Excepted /\ FilesInv /\ AdmittedInv /\ HashSteady /\ EnvSteady
    BY <1>0, ExceptedStays DEF OwnerInv, PassedInv
  <2>2. FilesInv'
    BY <1>0, <1>1, <2>1 DEF FilesInv, Setter, Readable, AdmittedInv, RequestInv, Like
  <2>3. AdmittedInv'
    BY <1>0, <1>1, <2>1 DEF AdmittedInv, FilesInv, Setter, Readable, RequestInv, Like
  <2>4. HashSteady'
    BY <1>0, <1>1, <2>1 DEF HashSteady, Readable, RequestInv, Like
  <2>5. EnvSteady'
    BY <1>0, <1>1, <2>1 DEF EnvSteady, FilesInv, Setter, AdmittedInv, Readable, RequestInv, Like
  <2>6. QED
    BY <2>2, <2>3, <2>4, <2>5 DEF PassedInv
<1>6. QED
  BY <1>2, <1>3, <1>4, <1>5 DEF IInv

LEMMA PutEnvelopeInv ==
    ASSUME IInv, NEW r \in Req, PutEnvelope(r)
    PROVE  IInv'
<1> USE NullAssumption, BoundsAssumption DEF PutEnvelope, Rewrap, Readable, files, history
<1>0. TypeOK /\ RequestInv /\ TokenInv /\ OwnerInv
  BY DEF IInv
<1>1. Like(r, "auth", "change", env, env) /\ req[r].pc = "idle" /\ up = "up"
      /\ env \in Secret
  <2> DEFINE q == [pc |-> "auth", kind |-> "change", key |-> env, body |-> env]
  <2>1. q \in Requests
    BY <1>0 DEF Requests, TypeOK, Readable
  <2>2. Arrive(r, q)
    BY DEF Arrive
  <2>3. QED
    BY <1>0, <2>1, <2>2, ArriveLike DEF TypeOK
<1>2. TypeOK'
  BY <1>0, <1>1 DEF TypeOK, Like, RequestInv, Requests, Tokens
<1>3. RequestInv'
  BY <1>0, <1>1 DEF RequestInv, Like, Writers
<1>4. TokenInv'
  BY <1>0, <1>1 DEF TokenInv, RequestInv, Like, Writers, Readable, TypeOK, Tokens
<1>5. OwnerInv'
  <2> SUFFICES ASSUME ~Excepted'
               PROVE  FilesInv' /\ PassedInv'
    BY DEF OwnerInv
  <2>1. ~Excepted /\ FilesInv /\ AdmittedInv /\ HashSteady /\ EnvSteady
    BY <1>0, ExceptedStays DEF OwnerInv, PassedInv
  <2>2. FilesInv'
    BY <1>0, <1>1, <2>1 DEF FilesInv, Setter, Readable, AdmittedInv, RequestInv, Like
  <2>3. AdmittedInv'
    BY <1>0, <1>1, <2>1 DEF AdmittedInv, FilesInv, Setter, Readable, RequestInv, Like
  <2>4. HashSteady'
    BY <1>0, <1>1, <2>1 DEF HashSteady, Readable, RequestInv, Like
  <2>5. EnvSteady'
    BY <1>0, <1>1, <2>1 DEF EnvSteady, FilesInv, Setter, AdmittedInv, Readable, RequestInv, Like
  <2>6. QED
    BY <2>2, <2>3, <2>4, <2>5 DEF PassedInv
<1>6. QED
  BY <1>2, <1>3, <1>4, <1>5 DEF IInv

LEMMA PutPrivkeyInv ==
    ASSUME IInv, NEW r \in Req, PutPrivkey(r)
    PROVE  IInv'
<1> USE NullAssumption, BoundsAssumption DEF PutPrivkey, Readable, files, history
<1>0. TypeOK /\ RequestInv /\ TokenInv /\ OwnerInv
  BY DEF IInv
<1>1. Like(r, "auth", "none", env, None) /\ req[r].pc = "idle" /\ up = "up"
      /\ env \in Secret
  <2> DEFINE q == [pc |-> "auth", kind |-> "none", key |-> env, body |-> None]
  <2>1. q \in Requests
    BY <1>0 DEF Requests, TypeOK, Readable
  <2>2. Arrive(r, q)
    BY DEF Arrive
  <2>3. QED
    BY <1>0, <2>1, <2>2, ArriveLike DEF TypeOK
<1>2. TypeOK'
  BY <1>0, <1>1 DEF TypeOK, Like, RequestInv, Requests, Tokens
<1>3. RequestInv'
  BY <1>0, <1>1 DEF RequestInv, Like, Writers
<1>4. TokenInv'
  BY <1>0, <1>1 DEF TokenInv, RequestInv, Like, Writers, Readable, TypeOK, Tokens
<1>5. OwnerInv'
  <2> SUFFICES ASSUME ~Excepted'
               PROVE  FilesInv' /\ PassedInv'
    BY DEF OwnerInv
  <2>1. ~Excepted /\ FilesInv /\ AdmittedInv /\ HashSteady /\ EnvSteady
    BY <1>0, ExceptedStays DEF OwnerInv, PassedInv
  <2>2. FilesInv'
    BY <1>0, <1>1, <2>1 DEF FilesInv, Setter, Readable, AdmittedInv, RequestInv, Like
  <2>3. AdmittedInv'
    BY <1>0, <1>1, <2>1 DEF AdmittedInv, FilesInv, Setter, Readable, RequestInv, Like
  <2>4. HashSteady'
    BY <1>0, <1>1, <2>1 DEF HashSteady, Readable, RequestInv, Like
  <2>5. EnvSteady'
    BY <1>0, <1>1, <2>1 DEF EnvSteady, FilesInv, Setter, AdmittedInv, Readable, RequestInv, Like
  <2>6. QED
    BY <2>2, <2>3, <2>4, <2>5 DEF PassedInv
<1>6. QED
  BY <1>2, <1>3, <1>4, <1>5 DEF IInv

LEMMA SignupCheckInv ==
    ASSUME IInv, NEW r \in Req, SignupCheck(r)
    PROVE  IInv'
<1> USE NullAssumption, BoundsAssumption DEF files, history
<1>0. TypeOK /\ RequestInv /\ TokenInv /\ OwnerInv
  BY DEF IInv
<1>1. \/ Like(r, "idle", "none", None, None) /\ UNCHANGED raced
      \/ Like(r, "truncate", req[r].kind, req[r].key, req[r].body) /\ req[r].kind = "signup" /\ Race(r) /\ ~Readable(env)
  BY <1>0, GotoLike, FinishLike DEF SignupCheck, Initialised
<1>2. req[r].pc = "check" /\ r \notin Writers /\ req[r].key \in Secret
      /\ UNCHANGED <<static, up, files, crashes, shown, unsaved, setups, lost>>
  BY <1>0 DEF SignupCheck, Writers, RequestInv
<1>3. raced' \subseteq Secret /\ raced \subseteq raced'
      /\ (Race(r) => \A q \in Writers : {req[q].key, req[r].key} \subseteq raced')
  BY <1>0, <1>1, <1>2, RaceFacts DEF TypeOK
<1>4. TypeOK'
  BY <1>0, <1>1, <1>2, <1>3 DEF TypeOK, Like
<1>5. RequestInv'
  BY <1>0, <1>1, <1>2, <1>3 DEF RequestInv, Like, Writers
<1>6. TokenInv'
  BY <1>0, <1>1, <1>2, <1>3 DEF TokenInv, RequestInv, Like, Writers, Readable
<1>7. OwnerInv'
  <2> SUFFICES ASSUME ~Excepted'
               PROVE  FilesInv' /\ PassedInv'
    BY DEF OwnerInv
  <2>1. ~Excepted /\ FilesInv /\ AdmittedInv /\ HashSteady /\ EnvSteady
    BY <1>0, <1>2, <1>3, ExceptedStays DEF OwnerInv, PassedInv
  <2>2. Race(r) => \A q \in Writers : req[q].key = req[r].key
    BY <1>3 DEF Excepted
  <2>3. FilesInv'
    BY <1>2, <2>1 DEF FilesInv, Setter
  <2>4. AdmittedInv'
    BY <1>0, <1>1, <1>2, <2>1 DEF AdmittedInv, FilesInv, Setter, Readable, TypeOK, RequestInv, Like
  <2>5. HashSteady'
    BY <1>0, <1>1, <1>2, <2>1, <2>2 DEF HashSteady, Readable, Writers, Like
  <2>6. EnvSteady'
    BY <1>0, <1>1, <1>2, <2>1, <2>2 DEF EnvSteady, Readable, Writers, RequestInv, Like
  <2>7. QED
    BY <2>3, <2>4, <2>5, <2>6 DEF PassedInv
<1>8. QED
  BY <1>4, <1>5, <1>6, <1>7 DEF IInv

LEMMA ProvisionCheckInv ==
    ASSUME IInv, NEW r \in Req, ProvisionCheck(r)
    PROVE  IInv'
<1> USE NullAssumption, BoundsAssumption DEF files, history
<1>0. TypeOK /\ RequestInv /\ TokenInv /\ OwnerInv
  BY DEF IInv
<1>1. \/ Like(r, "idle", "none", None, None) /\ UNCHANGED raced
      \/ Like(r, "hash", req[r].kind, req[r].key, req[r].body) /\ req[r].kind = "provision" /\ Race(r) /\ ~Readable(hash)
  BY <1>0, GotoLike, FinishLike DEF ProvisionCheck, NameTaken
<1>2. req[r].pc = "check" /\ r \notin Writers /\ req[r].key \in Secret
      /\ UNCHANGED <<static, up, files, crashes, shown, unsaved, setups, lost>>
  BY <1>0 DEF ProvisionCheck, Writers, RequestInv
<1>3. raced' \subseteq Secret /\ raced \subseteq raced'
      /\ (Race(r) => \A q \in Writers : {req[q].key, req[r].key} \subseteq raced')
  BY <1>0, <1>1, <1>2, RaceFacts DEF TypeOK
<1>4. TypeOK'
  BY <1>0, <1>1, <1>2, <1>3 DEF TypeOK, Like
<1>5. RequestInv'
  BY <1>0, <1>1, <1>2, <1>3 DEF RequestInv, Like, Writers
<1>6. TokenInv'
  BY <1>0, <1>1, <1>2, <1>3 DEF TokenInv, RequestInv, Like, Writers, Readable
<1>7. OwnerInv'
  <2> SUFFICES ASSUME ~Excepted'
               PROVE  FilesInv' /\ PassedInv'
    BY DEF OwnerInv
  <2>1. ~Excepted /\ FilesInv /\ AdmittedInv /\ HashSteady /\ EnvSteady
    BY <1>0, <1>2, <1>3, ExceptedStays DEF OwnerInv, PassedInv
  <2>2. Race(r) => \A q \in Writers : req[q].key = req[r].key
    BY <1>3 DEF Excepted
  <2>3. FilesInv'
    BY <1>2, <2>1 DEF FilesInv, Setter
  <2>4. AdmittedInv'
    BY <1>0, <1>1, <1>2, <2>1 DEF AdmittedInv, FilesInv, Setter, Readable, TypeOK, RequestInv, Like
  <2>5. HashSteady'
    BY <1>0, <1>1, <1>2, <2>1, <2>2 DEF HashSteady, Readable, Writers, Like
  <2>6. EnvSteady'
    BY <1>0, <1>1, <1>2, <2>1, <2>2 DEF EnvSteady, Readable, Writers, RequestInv, Like
  <2>7. QED
    BY <2>3, <2>4, <2>5, <2>6 DEF PassedInv
<1>8. QED
  BY <1>4, <1>5, <1>6, <1>7 DEF IInv

LEMMA HashTruncateInv ==
    ASSUME IInv, NEW r \in Req, HashTruncate(r)
    PROVE  IInv'
<1> USE NullAssumption, BoundsAssumption DEF HashTruncate, files, history
<1>0. TypeOK /\ RequestInv /\ TokenInv /\ OwnerInv
  BY DEF IInv
<1>1. Like(r, "hwrite", req[r].kind, req[r].key, req[r].body)
  BY <1>0, GotoLike
<1>2. TypeOK'
  BY <1>0, <1>1 DEF TypeOK, Like, RequestInv, Requests, Tokens
<1>3. RequestInv'
  BY <1>0, <1>1 DEF RequestInv, Like, Writers
<1>4. TokenInv'
  BY <1>0, <1>1 DEF TokenInv, RequestInv, Like, Writers, Readable, TypeOK, Tokens
<1>5. OwnerInv'
  <2> SUFFICES ASSUME ~Excepted'
               PROVE  FilesInv' /\ PassedInv'
    BY DEF OwnerInv
  <2>1. ~Excepted /\ FilesInv /\ AdmittedInv /\ HashSteady /\ EnvSteady
    BY <1>0, ExceptedStays DEF OwnerInv, PassedInv
  <2>2. FilesInv'
    BY <1>0, <1>1, <2>1 DEF FilesInv, Setter, Readable, AdmittedInv, RequestInv, Like
  <2>3. AdmittedInv'
    BY <1>0, <1>1, <2>1 DEF AdmittedInv, FilesInv, Setter, Readable, RequestInv, Like
  <2>4. HashSteady'
    BY <1>0, <1>1, <2>1 DEF HashSteady, Readable, RequestInv, Like
  <2>5. EnvSteady'
    BY <1>0, <1>1, <2>1 DEF EnvSteady, FilesInv, Setter, AdmittedInv, Readable, RequestInv, Like
  <2>6. QED
    BY <2>2, <2>3, <2>4, <2>5 DEF PassedInv
<1>6. QED
  BY <1>2, <1>3, <1>4, <1>5 DEF IInv

LEMMA HashWriteInv ==
    ASSUME IInv, NEW r \in Req, HashWrite(r)
    PROVE  IInv'
<1> USE NullAssumption, BoundsAssumption DEF HashWrite, SetUp, files, history
<1>0. TypeOK /\ RequestInv /\ TokenInv /\ OwnerInv
  BY DEF IInv
<1>1. \/ Like(r, "idle", "none", None, None)
      \/ Like(r, "truncate", req[r].kind, req[r].key, req[r].body) /\ req[r].body = req[r].key
  BY <1>0, GotoLike, FinishLike DEF RequestInv
<1>2. TypeOK'
  BY <1>0, <1>1 DEF TypeOK, Like, RequestInv, Requests, Tokens
<1>3. RequestInv'
  BY <1>0, <1>1 DEF RequestInv, Like, Writers
<1>4. TokenInv'
  BY <1>0, <1>1 DEF TokenInv, RequestInv, Like, Writers, Readable, TypeOK, Tokens
<1>5. OwnerInv'
  <2> SUFFICES ASSUME ~Excepted'
               PROVE  FilesInv' /\ PassedInv'
    BY DEF OwnerInv
  <2>1. ~Excepted /\ FilesInv /\ AdmittedInv /\ HashSteady /\ EnvSteady
    BY <1>0, ExceptedStays DEF OwnerInv, PassedInv
  <2> DEFINE k == req[r].key
  <2>2. FilesInv'
    <3>1. k \in Secret /\ setups' = setups \cup {<<"provision", k>>}
      BY <1>0 DEF RequestInv
    <3>2. \A a \in setups' : a[2] = k
      BY <1>0, <2>1, <3>1, SetUpFacts DEF HashSteady
    <3>3. QED
      BY <2>1, <3>1, <3>2 DEF FilesInv, Setter, Readable
  <2>3. AdmittedInv'
    BY <1>0, <1>1, <2>1 DEF AdmittedInv, FilesInv, Setter, Readable, RequestInv, Like
  <2>4. HashSteady'
    <3>1. \A q \in Req : req[q].pc \in {"hash", "hwrite"} => req[q].key = k
      BY <1>0, <2>1, OneWriter DEF Writers
    <3>2. Readable(hash') /\ k \in Secret /\ setups' = setups \cup {<<"provision", k>>}
      BY <1>0 DEF RequestInv, Readable
    <3>3. \A u \in Secret : <<"provision", u>> \in setups' => u = k
      BY <2>1, <3>2 DEF HashSteady
    <3>4. QED
      BY <1>1, <3>1, <3>2, <3>3 DEF HashSteady, Like
  <2>5. EnvSteady'
    BY <1>0, <1>1, <2>1 DEF EnvSteady, FilesInv, Setter, AdmittedInv, Readable, RequestInv, Like
  <2>6. QED
    BY <2>2, <2>3, <2>4, <2>5 DEF PassedInv
<1>6. QED
  BY <1>2, <1>3, <1>4, <1>5 DEF IInv

LEMMA TruncateInv ==
    ASSUME IInv, NEW r \in Req, Truncate(r)
    PROVE  IInv'
<1> USE NullAssumption, BoundsAssumption DEF Truncate, TokenMeanwhile, files, history
<1>0. TypeOK /\ RequestInv /\ TokenInv /\ OwnerInv
  BY DEF IInv
<1>1. Like(r, "write", req[r].kind, req[r].key, req[r].body)
  BY <1>0, GotoLike
<1>2. TypeOK'
  BY <1>0, <1>1 DEF TypeOK, Like, RequestInv, Requests, Tokens
<1>3. RequestInv'
  BY <1>0, <1>1 DEF RequestInv, Like, Writers
<1>4. TokenInv'
  BY <1>0, <1>1 DEF TokenInv, RequestInv, Like, Writers, Readable, TypeOK, Tokens
<1>5. OwnerInv'
  <2> SUFFICES ASSUME ~Excepted'
               PROVE  FilesInv' /\ PassedInv'
    BY DEF OwnerInv
  <2>1. ~Excepted /\ FilesInv /\ AdmittedInv /\ HashSteady /\ EnvSteady
    BY <1>0, ExceptedStays DEF OwnerInv, PassedInv
  <2>2. FilesInv'
    BY <1>0, <1>1, <2>1 DEF FilesInv, Setter, Readable, AdmittedInv, RequestInv, Like
  <2>3. AdmittedInv'
    BY <1>0, <1>1, <2>1 DEF AdmittedInv, FilesInv, Setter, Readable, RequestInv, Like
  <2>4. HashSteady'
    BY <1>0, <1>1, <2>1 DEF HashSteady, Readable, RequestInv, Like
  <2>5. EnvSteady'
    <3>1. ASSUME NEW u \in Secret, <<"signup", u>> \in setups
          PROVE  req[r].key = u
      <4>1. CASE req[r].kind = "signup"
        BY <2>1, <3>1, <4>1 DEF EnvSteady
      <4>2. CASE req[r].kind # "signup"
        <5>1. <<"provision", req[r].key>> \in setups
          BY <2>1, <4>2 DEF AdmittedInv
        <5>2. QED
          BY <2>1, <3>1, <5>1 DEF FilesInv
      <4>3. QED
        BY <4>1, <4>2
    <3>2. QED
      BY <1>1, <2>1, <3>1 DEF EnvSteady, Like
  <2>6. QED
    BY <2>2, <2>3, <2>4, <2>5 DEF PassedInv
<1>6. QED
  BY <1>2, <1>3, <1>4, <1>5 DEF IInv

LEMMA WriteEnvelopeInv ==
    ASSUME IInv, NEW r \in Req, WriteEnvelope(r)
    PROVE  IInv'
<1> USE NullAssumption, BoundsAssumption DEF WriteEnvelope, SetUp, files, history
<1>0. TypeOK /\ RequestInv /\ TokenInv /\ OwnerInv
  BY DEF IInv
<1>1. /\ \/ Like(r, "idle", "none", None, None)
         \/ Like(r, "remove", req[r].kind, req[r].key, req[r].body)
      /\ req[r].key \in Secret /\ env' = req[r].key
  BY <1>0, GotoLike, FinishLike DEF RequestInv
<1>2. TypeOK'
  BY <1>0, <1>1 DEF TypeOK, Like, RequestInv, Requests, Tokens
<1>3. RequestInv'
  BY <1>0, <1>1 DEF RequestInv, Like, Writers
<1>4. TokenInv'
  BY <1>0, <1>1 DEF TokenInv, RequestInv, Like, Writers, Readable, TypeOK, Tokens
<1>5. OwnerInv'
  <2> SUFFICES ASSUME ~Excepted'
               PROVE  FilesInv' /\ PassedInv'
    BY DEF OwnerInv
  <2>1. ~Excepted /\ FilesInv /\ AdmittedInv /\ HashSteady /\ EnvSteady
    BY <1>0, ExceptedStays DEF OwnerInv, PassedInv
  <2> DEFINE k == req[r].key
  <2>2. FilesInv' /\ \A a \in setups' : a[2] = k
    <3>1. CASE req[r].kind = "signup"
      <4>1. \A a \in setups' : a[2] = k
        BY <1>0, <1>1, <2>1, <3>1, SetUpFacts DEF EnvSteady
      <4>2. QED
        BY <1>1, <2>1, <3>1, <4>1 DEF FilesInv, Setter
    <3>2. CASE req[r].kind # "signup"
      <4>1. <<"provision", k>> \in setups /\ setups' = setups
        BY <2>1, <3>2 DEF AdmittedInv
      <4>2. QED
        BY <1>1, <2>1, <4>1 DEF FilesInv, Setter
    <3>3. QED
      BY <3>1, <3>2
  <2>3. AdmittedInv'
    BY <1>0, <1>1, <2>1 DEF AdmittedInv, FilesInv, Setter, Readable, RequestInv, Like
  <2>4. HashSteady'
    BY <1>0, <1>1, <2>1 DEF HashSteady, Readable, RequestInv, Like
  <2>5. EnvSteady'
    <3>1. \A q \in Req : req[q].pc \in {"truncate", "write"} => req[q].key = k
      BY <1>0, <2>1, OneWriter DEF Writers
    <3>2. Readable(env')
      BY <1>1 DEF Readable
    <3>3. \A u \in Secret : <<"signup", u>> \in setups' => u = k
      BY <2>2
    <3>4. QED
      BY <1>1, <3>1, <3>2, <3>3 DEF EnvSteady, Like
  <2>6. QED
    BY <2>2, <2>3, <2>4, <2>5 DEF PassedInv
<1>6. QED
  BY <1>2, <1>3, <1>4, <1>5 DEF IInv

LEMMA WriteFailsInv ==
    ASSUME IInv, NEW r \in Req, WriteFails(r)
    PROVE  IInv'
<1> USE NullAssumption, BoundsAssumption DEF WriteFails, files, history
<1>0. TypeOK /\ RequestInv /\ TokenInv /\ OwnerInv
  BY DEF IInv
<1>1. Like(r, "idle", "none", None, None)
  BY <1>0, FinishLike
<1>2. TypeOK'
  BY <1>0, <1>1 DEF TypeOK, Like, RequestInv, Requests, Tokens
<1>3. RequestInv'
  BY <1>0, <1>1 DEF RequestInv, Like, Writers
<1>4. TokenInv'
  BY <1>0, <1>1 DEF TokenInv, RequestInv, Like, Writers, Readable, TypeOK, Tokens
<1>5. OwnerInv'
  <2> SUFFICES ASSUME ~Excepted'
               PROVE  FilesInv' /\ PassedInv'
    BY DEF OwnerInv
  <2>1. ~Excepted /\ FilesInv /\ AdmittedInv /\ HashSteady /\ EnvSteady
    BY <1>0, ExceptedStays DEF OwnerInv, PassedInv
  <2> DEFINE pc == req[r].pc
  <2>0. pc # "hwrite" /\ pc # "write"
    BY DEF Excepted
  <2>2. FilesInv'
    BY <1>0, <1>1, <2>1 DEF FilesInv, Setter, Readable, AdmittedInv, RequestInv, Like
  <2>3. AdmittedInv'
    BY <1>0, <1>1, <2>1 DEF AdmittedInv, FilesInv, Setter, Readable, RequestInv, Like
  <2>4. HashSteady'
    BY <1>1, <2>0, <2>1 DEF HashSteady, Like
  <2>5. EnvSteady'
    BY <1>1, <2>0, <2>1 DEF EnvSteady, Like
  <2>6. QED
    BY <2>2, <2>3, <2>4, <2>5 DEF PassedInv
<1>6. QED
  BY <1>2, <1>3, <1>4, <1>5 DEF IInv

LEMMA SignupEndInv ==
    ASSUME IInv, NEW r \in Req, SignupEnd(r)
    PROVE  IInv'
<1> USE NullAssumption, BoundsAssumption DEF SignupEnd, files, history
<1>0. TypeOK /\ RequestInv /\ TokenInv /\ OwnerInv
  BY DEF IInv
<1>1. Like(r, "idle", "none", None, None)
  BY <1>0, FinishLike
<1>2. TypeOK'
  BY <1>0, <1>1 DEF TypeOK, Like, RequestInv, Requests, Tokens
<1>3. RequestInv'
  BY <1>0, <1>1 DEF RequestInv, Like, Writers
<1>4. TokenInv'
  BY <1>0, <1>1 DEF TokenInv, RequestInv, Like, Writers, Readable, TypeOK, Tokens
<1>5. OwnerInv'
  <2> SUFFICES ASSUME ~Excepted'
               PROVE  FilesInv' /\ PassedInv'
    BY DEF OwnerInv
  <2>1. ~Excepted /\ FilesInv /\ AdmittedInv /\ HashSteady /\ EnvSteady
    BY <1>0, ExceptedStays DEF OwnerInv, PassedInv
  <2>2. FilesInv'
    BY <1>0, <1>1, <2>1 DEF FilesInv, Setter, Readable, AdmittedInv, RequestInv, Like
  <2>3. AdmittedInv'
    BY <1>0, <1>1, <2>1 DEF AdmittedInv, FilesInv, Setter, Readable, RequestInv, Like
  <2>4. HashSteady'
    BY <1>0, <1>1, <2>1 DEF HashSteady, Readable, RequestInv, Like
  <2>5. EnvSteady'
    BY <1>0, <1>1, <2>1 DEF EnvSteady, FilesInv, Setter, AdmittedInv, Readable, RequestInv, Like
  <2>6. QED
    BY <2>2, <2>3, <2>4, <2>5 DEF PassedInv
<1>6. QED
  BY <1>2, <1>3, <1>4, <1>5 DEF IInv

LEMMA PutAuthenticateInv ==
    ASSUME IInv, NEW r \in Req, PutAuthenticate(r)
    PROVE  IInv'
<1> USE NullAssumption, BoundsAssumption DEF files, history
<1>0. TypeOK /\ RequestInv /\ TokenInv /\ OwnerInv
  BY DEF IInv
<1>1. \/ Like(r, "idle", "none", None, None) /\ UNCHANGED raced
      \/ Like(r, "ptruncate", req[r].kind, req[r].key, req[r].body) /\ req[r].body = None /\ hash = req[r].key /\ UNCHANGED raced
      \/ Like(r, "truncate", req[r].kind, req[r].key, req[r].body) /\ req[r].body # None /\ hash = req[r].key /\ Race(r)
  BY <1>0, GotoLike, FinishLike DEF PutAuthenticate, Authenticated
<1>2. req[r].pc = "auth" /\ r \notin Writers /\ req[r].key \in Secret
      /\ UNCHANGED <<static, up, files, crashes, shown, unsaved, setups, lost>>
  BY <1>0 DEF PutAuthenticate, Writers, RequestInv
<1>3. raced' \subseteq Secret /\ raced \subseteq raced'
      /\ (Race(r) => \A q \in Writers : {req[q].key, req[r].key} \subseteq raced')
  BY <1>0, <1>1, <1>2, RaceFacts DEF TypeOK
<1>4. TypeOK'
  BY <1>0, <1>1, <1>2, <1>3 DEF TypeOK, Like
<1>5. RequestInv'
  BY <1>0, <1>1, <1>2, <1>3 DEF RequestInv, Like, Writers
<1>6. TokenInv'
  BY <1>0, <1>1, <1>2, <1>3 DEF TokenInv, RequestInv, Like, Writers, Readable
<1>7. OwnerInv'
  <2> SUFFICES ASSUME ~Excepted'
               PROVE  FilesInv' /\ PassedInv'
    BY DEF OwnerInv
  <2>1. ~Excepted /\ FilesInv /\ AdmittedInv /\ HashSteady /\ EnvSteady
    BY <1>0, <1>2, <1>3, ExceptedStays DEF OwnerInv, PassedInv
  <2>2. Race(r) => \A q \in Writers : req[q].key = req[r].key
    BY <1>3 DEF Excepted
  <2>3. FilesInv'
    BY <1>2, <2>1 DEF FilesInv, Setter
  <2>4. AdmittedInv'
    BY <1>0, <1>1, <1>2, <2>1 DEF AdmittedInv, FilesInv, Setter, Readable, TypeOK, RequestInv, Like
  <2>5. HashSteady'
    BY <1>0, <1>1, <1>2, <2>1, <2>2 DEF HashSteady, Readable, Writers, Like
  <2>6. EnvSteady'
    BY <1>0, <1>1, <1>2, <2>1, <2>2 DEF EnvSteady, Readable, Writers, RequestInv, Like
  <2>7. QED
    BY <2>3, <2>4, <2>5, <2>6 DEF PassedInv
<1>8. QED
  BY <1>4, <1>5, <1>6, <1>7 DEF IInv

LEMMA PrivTruncateInv ==
    ASSUME IInv, NEW r \in Req, PrivTruncate(r)
    PROVE  IInv'
<1> USE NullAssumption, BoundsAssumption DEF PrivTruncate, files, history
<1>0. TypeOK /\ RequestInv /\ TokenInv /\ OwnerInv
  BY DEF IInv
<1>1. Like(r, "pwrite", req[r].kind, req[r].key, req[r].body)
  BY <1>0, GotoLike
<1>2. TypeOK'
  BY <1>0, <1>1 DEF TypeOK, Like, RequestInv, Requests, Tokens
<1>3. RequestInv'
  BY <1>0, <1>1 DEF RequestInv, Like, Writers
<1>4. TokenInv'
  BY <1>0, <1>1 DEF TokenInv, RequestInv, Like, Writers, Readable, TypeOK, Tokens
<1>5. OwnerInv'
  <2> SUFFICES ASSUME ~Excepted'
               PROVE  FilesInv' /\ PassedInv'
    BY DEF OwnerInv
  <2>1. ~Excepted /\ FilesInv /\ AdmittedInv /\ HashSteady /\ EnvSteady
    BY <1>0, ExceptedStays DEF OwnerInv, PassedInv
  <2>2. FilesInv'
    BY <1>0, <1>1, <2>1 DEF FilesInv, Setter, Readable, AdmittedInv, RequestInv, Like
  <2>3. AdmittedInv'
    BY <1>0, <1>1, <2>1 DEF AdmittedInv, FilesInv, Setter, Readable, RequestInv, Like
  <2>4. HashSteady'
    BY <1>0, <1>1, <2>1 DEF HashSteady, Readable, RequestInv, Like
  <2>5. EnvSteady'
    BY <1>0, <1>1, <2>1 DEF EnvSteady, FilesInv, Setter, AdmittedInv, Readable, RequestInv, Like
  <2>6. QED
    BY <2>2, <2>3, <2>4, <2>5 DEF PassedInv
<1>6. QED
  BY <1>2, <1>3, <1>4, <1>5 DEF IInv

LEMMA PrivWriteInv ==
    ASSUME IInv, NEW r \in Req, PrivWrite(r)
    PROVE  IInv'
<1> USE NullAssumption, BoundsAssumption DEF PrivWrite, files, history
<1>0. TypeOK /\ RequestInv /\ TokenInv /\ OwnerInv
  BY DEF IInv
<1>1. Like(r, "idle", "none", None, None)
  BY <1>0, FinishLike
<1>2. TypeOK'
  BY <1>0, <1>1 DEF TypeOK, Like, RequestInv, Requests, Tokens
<1>3. RequestInv'
  BY <1>0, <1>1 DEF RequestInv, Like, Writers
<1>4. TokenInv'
  BY <1>0, <1>1 DEF TokenInv, RequestInv, Like, Writers, Readable, TypeOK, Tokens
<1>5. OwnerInv'
  <2> SUFFICES ASSUME ~Excepted'
               PROVE  FilesInv' /\ PassedInv'
    BY DEF OwnerInv
  <2>1. ~Excepted /\ FilesInv /\ AdmittedInv /\ HashSteady /\ EnvSteady
    BY <1>0, ExceptedStays DEF OwnerInv, PassedInv
  <2>2. FilesInv'
    BY <1>0, <1>1, <2>1 DEF FilesInv, Setter, Readable, AdmittedInv, RequestInv, Like
  <2>3. AdmittedInv'
    BY <1>0, <1>1, <2>1 DEF AdmittedInv, FilesInv, Setter, Readable, RequestInv, Like
  <2>4. HashSteady'
    BY <1>0, <1>1, <2>1 DEF HashSteady, Readable, RequestInv, Like
  <2>5. EnvSteady'
    BY <1>0, <1>1, <2>1 DEF EnvSteady, FilesInv, Setter, AdmittedInv, Readable, RequestInv, Like
  <2>6. QED
    BY <2>2, <2>3, <2>4, <2>5 DEF PassedInv
<1>6. QED
  BY <1>2, <1>3, <1>4, <1>5 DEF IInv

LEMMA StartInv ==
    ASSUME IInv, Start
    PROVE  IInv'
<1> USE NullAssumption, BoundsAssumption DEF Start, Initialised, HasToken, Readable, files, history
<1>0. TypeOK /\ RequestInv /\ TokenInv /\ OwnerInv
  BY DEF IInv
<1>1. req' = req
  BY DEF Start
<1>2. TypeOK'
  BY <1>0, <1>1 DEF TypeOK, Like, RequestInv, Requests, Tokens
<1>3. RequestInv'
  BY <1>0, <1>1 DEF RequestInv, Like, Writers
<1>4. TokenInv'
  BY <1>0, <1>1 DEF TokenInv, RequestInv, Like, Writers, Readable, TypeOK, Tokens
<1>5. OwnerInv'
  <2> SUFFICES ASSUME ~Excepted'
               PROVE  FilesInv' /\ PassedInv'
    BY DEF OwnerInv
  <2>1. ~Excepted /\ FilesInv /\ AdmittedInv /\ HashSteady /\ EnvSteady
    BY <1>0, ExceptedStays DEF OwnerInv, PassedInv
  <2>2. FilesInv'
    BY <1>0, <1>1, <2>1 DEF FilesInv, Setter, Readable, AdmittedInv, RequestInv, Like
  <2>3. AdmittedInv'
    BY <1>0, <1>1, <2>1 DEF AdmittedInv, FilesInv, Setter, Readable, RequestInv, Like
  <2>4. HashSteady'
    BY <1>0, <1>1, <2>1 DEF HashSteady, Readable, RequestInv, Like
  <2>5. EnvSteady'
    BY <1>0, <1>1, <2>1 DEF EnvSteady, FilesInv, Setter, AdmittedInv, Readable, RequestInv, Like
  <2>6. QED
    BY <2>2, <2>3, <2>4, <2>5 DEF PassedInv
<1>6. QED
  BY <1>2, <1>3, <1>4, <1>5 DEF IInv

LEMMA StartTokenInv ==
    ASSUME IInv, StartToken
    PROVE  IInv'
<1> USE NullAssumption, BoundsAssumption DEF StartToken, files, history
<1>0. TypeOK /\ RequestInv /\ TokenInv /\ OwnerInv
  BY DEF IInv
<1>1. req' = req
  BY DEF StartToken
<1>2. TypeOK'
  BY <1>0, <1>1 DEF TypeOK, Like, RequestInv, Requests, Tokens
<1>3. RequestInv'
  BY <1>0, <1>1 DEF RequestInv, Like, Writers
<1>4. TokenInv'
  BY <1>0, <1>1 DEF TokenInv, RequestInv, Like, Writers, Readable, TypeOK, Tokens
<1>5. OwnerInv'
  <2> SUFFICES ASSUME ~Excepted'
               PROVE  FilesInv' /\ PassedInv'
    BY DEF OwnerInv
  <2>1. ~Excepted /\ FilesInv /\ AdmittedInv /\ HashSteady /\ EnvSteady
    BY <1>0, ExceptedStays DEF OwnerInv, PassedInv
  <2>2. FilesInv'
    BY <1>0, <1>1, <2>1 DEF FilesInv, Setter, Readable, AdmittedInv, RequestInv, Like
  <2>3. AdmittedInv'
    BY <1>0, <1>1, <2>1 DEF AdmittedInv, FilesInv, Setter, Readable, RequestInv, Like
  <2>4. HashSteady'
    BY <1>0, <1>1, <2>1 DEF HashSteady, Readable, RequestInv, Like
  <2>5. EnvSteady'
    BY <1>0, <1>1, <2>1 DEF EnvSteady, FilesInv, Setter, AdmittedInv, Readable, RequestInv, Like
  <2>6. QED
    BY <2>2, <2>3, <2>4, <2>5 DEF PassedInv
<1>6. QED
  BY <1>2, <1>3, <1>4, <1>5 DEF IInv

LEMMA CrashInv ==
    ASSUME IInv, Crash
    PROVE  IInv'
<1> USE NullAssumption, BoundsAssumption DEF Crash, Idle, files, history
<1>0. TypeOK /\ RequestInv /\ TokenInv /\ OwnerInv
  BY DEF IInv
<1>1. req' \in [Req -> Requests] /\ \A q \in Req : req'[q] = Idle
  BY DEF Idle, Requests
<1>2. TypeOK'
  BY <1>0, <1>1 DEF TypeOK, Like, RequestInv, Requests, Tokens
<1>3. RequestInv'
  BY <1>0, <1>1 DEF RequestInv, Like, Writers
<1>4. TokenInv'
  BY <1>0, <1>1 DEF TokenInv, RequestInv, Like, Writers, Readable, TypeOK, Tokens
<1>5. OwnerInv'
  <2> SUFFICES ASSUME ~Excepted'
               PROVE  FilesInv' /\ PassedInv'
    BY DEF OwnerInv
  <2>1. ~Excepted /\ FilesInv /\ AdmittedInv /\ HashSteady /\ EnvSteady
    BY <1>0, ExceptedStays DEF OwnerInv, PassedInv
  <2>0. env # Torn /\ hash # Torn
    BY DEF Excepted
  <2>2. FilesInv'
    BY <1>0, <1>1, <2>1 DEF FilesInv, Setter, Readable, AdmittedInv, RequestInv, Like
  <2>3. AdmittedInv'
    BY <1>0, <1>1, <2>1 DEF AdmittedInv, FilesInv, Setter, Readable, RequestInv, Like
  <2>4. HashSteady'
    BY <1>1, <2>0, <2>1 DEF HashSteady, Readable
  <2>5. EnvSteady'
    BY <1>1, <2>0, <2>1 DEF EnvSteady, Readable
  <2>6. QED
    BY <2>2, <2>3, <2>4, <2>5 DEF PassedInv
<1>6. QED
  BY <1>2, <1>3, <1>4, <1>5 DEF IInv

LEMMA NextInv == IInv /\ [Next]_vars => IInv'
<1> SUFFICES ASSUME IInv, [Next]_vars PROVE IInv'
  OBVIOUS
<1>1. CASE UNCHANGED vars
  <2>1. UNCHANGED <<static, up, token, env, priv, hash, req, crashes, shown, unsaved, setups,
                    raced, lost>>
    BY <1>1 DEF vars, files, history
  <2>2. TypeOK' /\ RequestInv' /\ TokenInv'
    BY <2>1 DEF IInv, TypeOK, RequestInv, TokenInv, Writers, Readable
  <2>3. (~Excepted)' => ~Excepted
    BY <2>1 DEF Excepted, Mixed
  <2>4. OwnerInv'
    BY <2>1, <2>3 DEF IInv, OwnerInv, FilesInv, PassedInv, AdmittedInv, HashSteady, EnvSteady,
                      Setter, Readable
  <2>5. QED
    BY <2>2, <2>4 DEF IInv
<1>2. ASSUME NEW r \in Req, Handle(r) PROVE IInv'
  BY <1>2, SignupCheckInv, ProvisionCheckInv, HashTruncateInv, HashWriteInv, TruncateInv,
     WriteEnvelopeInv, WriteFailsInv, SignupEndInv, PutAuthenticateInv, PrivTruncateInv,
     PrivWriteInv DEF Handle
<1>3. ASSUME NEW r \in Req, Client(r) PROVE IInv'
  BY <1>3, SignupInv, ProvisionInv, PutEnvelopeInv, PutPrivkeyInv DEF Client
<1>4. CASE Next
  BY <1>2, <1>3, <1>4, StartInv, StartTokenInv, CrashInv DEF Next
<1>5. QED
  BY <1>1, <1>4

LEMMA SpecInv == Spec => []IInv
<1>1. Init => IInv
  BY InitInv
<1>2. QED
  BY <1>1, NextInv, PTL DEF Spec

-----------------------------------------------------------------------------
\* Every state of module Credentials is well typed.
THEOREM TypeCorrect == Spec => []TypeOK
<1>1. IInv => TypeOK
  BY DEF IInv
<1>2. QED
  BY SpecInv, <1>1, PTL

\* A static account nobody can log in to can be set up by a token that was
\* logged, whatever crashed and whichever writes failed: only two requests that
\* wrote at once, or a token the last start-up logged without saving it, may take
\* that away.
THEOREM CanAlwaysSetUp == Spec => []CanSetUp
<1>1. IInv => CanSetUp
  BY DEF IInv, TokenInv, CanSetUp
<1>2. QED
  BY SpecInv, <1>1, PTL

\* Sign-ups and provisionings, with an envelope or without, let nobody through
\* but the person whose secret the envelope holds, unless two persons wrote at
\* once, set the account up in the two different ways, or a file was lost.
THEOREM SecretAlwaysKept == Spec => []SecretKept
<1>1. IInv => SecretKept
  BY DEF IInv, OwnerInv, FilesInv, Setter, SecretKept
<1>2. QED
  BY SpecInv, <1>1, PTL

\* Login and private key stay valid through any number of password changes, with
\* the same exceptions, which are those the code has.
THEOREM KeysAlwaysStable == Spec => []KeysStable
<1>1. IInv => KeysStable
  BY DEF IInv, OwnerInv, FilesInv, Setter, KeysStable
<1>2. QED
  BY SpecInv, <1>1, PTL
=============================================================================
