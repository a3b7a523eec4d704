----------------------------- MODULE Credentials -----------------------------
(***************************************************************************)
(* The password side of one account: setup.token, envelope.json,           *)
(* privkey.enc and auth_token_hash in its directory.                       *)
(*                                                                         *)
(* The envelope holds the account's master secret, wrapped by a password   *)
(* (cryptenv). The server never sees either: a client proves the secret by *)
(* a token derived from it, whose hash a provisioning has left, and wraps   *)
(* privkey.enc under another key derived from it. A static account gets its *)
(* first envelope at /auth/signup, by a token start-up has logged, and the  *)
(* same account may be provisioned, with an envelope or without. Every     *)
(* file is replaced in place (truncated, then written), requests overlap,  *)
(* a write may fail, and the process may crash anywhere.                   *)
(*                                                                         *)
(* The passwords and the wrapping are left out: an envelope is known by the *)
(* secret it wraps, a hash or a key by the secret it is derived from.      *)
(***************************************************************************)
EXTENDS Naturals

CONSTANTS
    Secret,    \* master secrets, one per person who may set up the account
    Req,       \* concurrent requests
    MaxCrash,  \* bound: crashes
    None, Torn \* no file; a file that cannot be read

\* The tokens are numbered in the order they are made.
Tokens == 1..(MaxCrash + 1)

ASSUME BoundsAssumption == MaxCrash \in Nat
ASSUME NullAssumption ==
    None # Torn /\ \A n \in {None, Torn} : n \notin Secret /\ n \notin Tokens

VARIABLES
    static,  \* is the account declared in config.json?
    up,      \* "down", "token" (start-up is writing one) or "up"
    token,   \* setup.token: the number of the token
    env,     \* envelope.json
    priv,    \* privkey.enc: the secret whose key it is encrypted to
    hash,    \* auth_token_hash: the secret whose token it is the hash of
    req,
    crashes,
    shown,   \* history: tokens that were logged
    unsaved, \* history: the last start-up could not save the token it logged
    setups,  \* history: who has set the account up, and how
    raced,   \* history: whose requests have been writing credentials at once
    lost     \* history: a crash or a failed write has left a torn file

files   == <<token, env, priv, hash>>
history == <<shown, unsaved, setups, raced, lost>>
vars    == <<static, up, files, req, crashes, history>>

\* A request: where its handler is, what it asks for, the secret its client has
\* and the envelope it brings, if any.
Requests == [pc : {"idle", "check", "hash", "hwrite", "truncate", "write", "remove",
                   "auth", "ptruncate", "pwrite"},
             kind : {"none", "signup", "provision", "change"},
             key : Secret \cup {None}, body : Secret \cup {None}]

Idle == [pc |-> "idle", kind |-> "none", key |-> None, body |-> None]

Readable(f) == f \notin {None, Torn}
Writers == {r \in Req : req[r].pc \in {"hash", "hwrite", "truncate", "write"}}
Arrive(r, q) == up = "up" /\ req[r] = Idle /\ req' = [req EXCEPT ![r] = q]
Goto(r, pc)  == req' = [req EXCEPT ![r].pc = pc]
Finish(r)    == req' = [req EXCEPT ![r] = Idle]

\* r starts to write; who else is at it?
Race(r) == raced' = IF Writers = {} THEN raced
                    ELSE raced \cup {req[q].key : q \in Writers \cup {r}}

-----------------------------------------------------------------------------
(* Setting up the account: POST /auth/signup?token=..., and                *)
(* POST /account/provision, which looks at the hash alone.                 *)

\* The token leads to the account.
Signup(r, k, s) ==
    /\ static /\ k \in shown /\ token = k
    /\ Arrive(r, [pc |-> "check", kind |-> "signup", key |-> s, body |-> s])
    /\ UNCHANGED <<static, up, files, crashes, history>>

\* Wrong variant: the token is proof enough.
Initialised_Never == FALSE

\* An envelope that cannot be read is none.
Initialised == Readable(env)

SignupCheck(r) ==
    /\ req[r].pc = "check" /\ req[r].kind = "signup"
    /\ IF Initialised THEN Finish(r) /\ UNCHANGED raced      \* 409
                      ELSE Goto(r, "truncate") /\ Race(r)
    /\ UNCHANGED <<static, up, files, crashes, shown, unsaved, setups, lost>>

\* The envelope is optional. Whether the name is provided for otherwise, the
\* anchor and the tables in memory are in module Accounts.
Provision(r, s, e) ==
    /\ Arrive(r, [pc |-> "check", kind |-> "provision", key |-> s, body |-> e])
    /\ UNCHANGED <<static, up, files, crashes, history>>

\* A hash that cannot be read is none.
NameTaken == Readable(hash)

ProvisionCheck(r) ==
    /\ req[r].pc = "check" /\ req[r].kind = "provision"
    /\ IF NameTaken THEN Finish(r) /\ UNCHANGED raced        \* 409
                    ELSE Goto(r, "hash") /\ Race(r)
    /\ UNCHANGED <<static, up, files, crashes, shown, unsaved, setups, lost>>

SetUp(r) == setups' = setups \cup {<<req[r].kind, req[r].key>>}

\* writeAuthHash.
HashTruncate(r) ==
    /\ req[r].pc = "hash"
    /\ hash' = Torn /\ Goto(r, "hwrite")
    /\ UNCHANGED <<static, up, token, env, priv, crashes, history>>

HashWrite(r) ==
    /\ req[r].pc = "hwrite"
    /\ hash' = req[r].key /\ SetUp(r)
    /\ IF req[r].body = None THEN Finish(r) ELSE Goto(r, "truncate")
    /\ UNCHANGED <<static, up, token, env, priv, crashes, shown, unsaved, raced, lost>>

\* Wrong variant: the token is given up before the envelope is written.
TokenMeanwhile_Gone(r) == IF req[r].kind = "signup" THEN None ELSE token

TokenMeanwhile(r) == token

\* writeEnvelope: for a sign-up, a provisioning and PUT /auth/envelope.
Truncate(r) ==
    /\ req[r].pc = "truncate"
    /\ env' = Torn /\ token' = TokenMeanwhile(r)
    /\ Goto(r, "write")
    /\ UNCHANGED <<static, up, priv, hash, crashes, history>>

WriteEnvelope(r) ==
    /\ req[r].pc = "write"
    /\ env' = req[r].body
    /\ IF req[r].kind = "signup" THEN Goto(r, "remove") /\ SetUp(r)
                                 ELSE Finish(r) /\ UNCHANGED setups
    /\ UNCHANGED <<static, up, token, priv, hash, crashes, shown, unsaved, raced, lost>>

\* A file cannot be opened, or not be written and stays torn: 500, or, for the
\* envelope of a provisioning, 201 all the same.
WriteFails(r) ==
    /\ req[r].pc \in {"hash", "hwrite", "truncate", "write", "ptruncate", "pwrite"}
    /\ Finish(r) /\ lost' = (lost \/ req[r].pc \in {"hwrite", "write"})
    /\ UNCHANGED <<static, up, files, crashes, shown, unsaved, setups, raced>>

SignupEnd(r) ==
    /\ req[r].pc = "remove"
    /\ token' = None
    /\ Finish(r)
    /\ UNCHANGED <<static, up, env, priv, hash, crashes, history>>

-----------------------------------------------------------------------------
(* The holder of the credential: password change and private key.          *)

\* authenticate: the presented token hashes to the stored hash.
Authenticated(s) == hash = s /\ s # None

\* Wrong variant: a password change makes a new envelope.
Rewrap_Rotates(e) == CHOOSE s \in Secret : s # e

\* cryptenv's Rewrap wraps the secret that was in the envelope.
Rewrap(e) == e

\* A client that knows the password fetches the envelope, opens it, and asks to
\* replace it by one for a new password, authenticated by the secret.
PutEnvelope(r) ==
    /\ Readable(env)
    /\ Arrive(r, [pc |-> "auth", kind |-> "change", key |-> env, body |-> Rewrap(env)])
    /\ UNCHANGED <<static, up, files, crashes, history>>

PutPrivkey(r) ==
    /\ Readable(env)
    /\ Arrive(r, [pc |-> "auth", kind |-> "none", key |-> env, body |-> None])
    /\ UNCHANGED <<static, up, files, crashes, history>>

PutAuthenticate(r) ==
    /\ req[r].pc = "auth"
    /\ IF ~Authenticated(req[r].key) THEN Finish(r) /\ UNCHANGED raced  \* 401
       ELSE IF req[r].body = None THEN Goto(r, "ptruncate") /\ UNCHANGED raced
       ELSE Goto(r, "truncate") /\ Race(r)
    /\ UNCHANGED <<static, up, files, crashes, shown, unsaved, setups, lost>>

PrivTruncate(r) ==
    /\ req[r].pc = "ptruncate"
    /\ priv' = Torn /\ Goto(r, "pwrite")
    /\ UNCHANGED <<static, up, token, env, hash, crashes, history>>

PrivWrite(r) ==
    /\ req[r].pc = "pwrite"
    /\ priv' = req[r].key /\ Finish(r)
    /\ UNCHANGED <<static, up, token, env, hash, crashes, history>>

-----------------------------------------------------------------------------
(* Start-up, and crashes.                                                  *)

\* An empty token file counts as none.
HasToken == Readable(token)

\* Without an envelope that can be read a static account has its token logged,
\* a new one if need be.
Start ==
    /\ up = "down" /\ unsaved' = FALSE
    /\ IF ~static \/ Initialised THEN up' = "up" /\ UNCHANGED <<token, shown>>
       ELSE IF HasToken THEN up' = "up" /\ shown' = shown \cup {token} /\ UNCHANGED token
       ELSE up' = "token" /\ token' = Torn /\ UNCHANGED shown
    /\ UNCHANGED <<static, env, priv, hash, req, crashes, setups, raced, lost>>

\* The token is logged whether or not it could be saved.
StartToken ==
    /\ up = "token" /\ up' = "up"
    /\ shown' = shown \cup {crashes + 1}
    /\ \E ok \in BOOLEAN : unsaved' = ~ok /\ token' = IF ok THEN crashes + 1 ELSE token
    /\ UNCHANGED <<static, env, priv, hash, req, crashes, setups, raced, lost>>

Crash ==
    /\ crashes < MaxCrash /\ crashes' = crashes + 1
    /\ up' = "down" /\ req' = [r \in Req |-> Idle]
    /\ lost' = (lost \/ Torn \in {env, hash})
    /\ UNCHANGED <<static, files, shown, unsaved, setups, raced>>

-----------------------------------------------------------------------------
Init ==
    /\ static \in BOOLEAN /\ up = "down"
    /\ token = None /\ env = None /\ priv = None /\ hash = None
    /\ req = [r \in Req |-> Idle] /\ crashes = 0
    /\ shown = {} /\ unsaved = FALSE /\ setups = {} /\ raced = {} /\ lost = FALSE

Handle(r) == \/ SignupCheck(r) \/ ProvisionCheck(r) \/ HashTruncate(r) \/ HashWrite(r)
             \/ Truncate(r) \/ WriteEnvelope(r) \/ WriteFails(r) \/ SignupEnd(r)
             \/ PutAuthenticate(r) \/ PrivTruncate(r) \/ PrivWrite(r)

Client(r) == \/ PutPrivkey(r) \/ PutEnvelope(r)
             \/ \E s \in Secret : \/ \E k \in Tokens : Signup(r, k, s)
                                  \/ \E e \in {s, None} : Provision(r, s, e)

Next == \/ \E r \in Req : Handle(r) \/ Client(r)
        \/ Start \/ StartToken \/ Crash

Spec == Init /\ [][Next]_vars

-----------------------------------------------------------------------------
(* Properties.                                                             *)

\* What each variable may hold.
TypeOK ==
    /\ static \in BOOLEAN /\ up \in {"down", "token", "up"} /\ crashes \in 0..MaxCrash
    /\ token \in Tokens \cup {None, Torn} /\ env \in Secret \cup {None, Torn}
    /\ priv \in Secret \cup {None, Torn} /\ hash \in Secret \cup {None, Torn}
    /\ req \in [Req -> Requests]
    /\ shown \subseteq Tokens /\ unsaved \in BOOLEAN /\ lost \in BOOLEAN
    /\ setups \subseteq {"signup", "provision"} \X Secret /\ raced \subseteq Secret

\* A static account nobody can log in to can be set up: as long as it has no
\* envelope and no hash that can be read and no request is writing one, the token
\* that was logged works, whatever crashed or failed before. Excepted are two
\* requests that wrote at once and a token the last start-up could not save.
CanSetUp ==
    (/\ static /\ up = "up" /\ ~Readable(env) /\ ~Readable(hash)
     /\ Writers = {} /\ raced = {} /\ ~unsaved)
        => Readable(token) /\ token \in shown

\* Two persons wrote at once, two persons set the account up in different ways
\* (neither way looks at what the other leaves), or a file was lost half written.
Mixed == \E s, t \in Secret : s # t /\ <<"signup", s>> \in setups /\ <<"provision", t>> \in setups
Excepted == (\E s, t \in raced : s # t) \/ Mixed \/ lost

\* Whoever set the account up keeps it: everybody who has been let through, by a
\* sign-up or a provisioning, is the person whose secret the envelope holds,
\* through password changes, crashes and tokens left behind.
SecretKept ==
    (Readable(env) /\ ~Excepted) => \A a \in setups : a[2] = env

\* "auth_token and KEK are stable across password changes; existing sessions and
\* privkey.enc remain valid after a password change" (ARC.md:227), with the same
\* exceptions.
KeysStable ==
    (Readable(env) /\ ~Excepted) => /\ Readable(hash) => hash = env
                                    /\ Readable(priv) => priv = env
=============================================================================
