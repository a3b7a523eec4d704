------------------------------ MODULE Accounts ------------------------------
(***************************************************************************)
(* The account registry of the relay: what provision.go, maintenance.go,   *)
(* the start-up part of main.go and the claim calls of anchor_on.go do to   *)
(* the three places an account lives in:                                   *)
(*   - disk: data/<domain>/<localpart>/ with auth_token_hash, envelope.json *)
(*     and the mail store;                                                 *)
(*   - memory: the maps stores, aliases and dyn of the handler, guarded by  *)
(*     one mutex;                                                          *)
(*   - the identity anchor, a remote service holding one claim per address. *)
(* HTTP handlers run concurrently, one goroutine per request; the purge of  *)
(* maintenance.go is another goroutine; nothing orders their file system    *)
(* and anchor calls. The process may crash between any two steps, losing    *)
(* memory and keeping disk and anchor.                                     *)
(***************************************************************************)

CONSTANTS
    Name,           \* addresses localpart@domain of the relay's domains
    Static,         \* addresses declared in config.json (account map)
    StaticRoute,    \* alias address -> static address, from config.json
    Open,           \* addresses on allow_provision domains, which are purged
    Reserved,       \* the addresses whose directory is <domain>/peers
    Provisionable,  \* addresses a request may provision (policy satisfied)
    PeerActive,     \* addresses a sibling relay (peer_data_dirs) saw in use
    Custom,         \* the sets of addresses of the registered custom domains
    Cred,           \* auth-token hashes; one per owner
    DID,            \* decentralised identifiers
    Req,            \* concurrent HTTP requests
    Anchored,       \* anchor_url is configured (and the build has the anchor)
    DiskFaults,     \* the mail store of an account may fail to open
    Isolated,       \* bound: TRUE for only the runs in which no two operations
                    \* on one address overlap, FALSE for all runs of the code
    NoName, NoCred, NoDID

ASSUME NullAssumption ==
    NoName \notin Name /\ NoCred \notin Cred /\ NoDID \notin DID
ASSUME ConfigAssumption ==
    /\ Static \subseteq Name /\ Open \subseteq Name /\ Reserved \subseteq Name
    /\ Provisionable \subseteq Name /\ PeerActive \subseteq Name
    /\ Static \cap Reserved = {}
    /\ DOMAIN StaticRoute \subseteq Name \ Static
    /\ StaticRoute \in [DOMAIN StaticRoute -> Static]
    /\ Custom \subseteq SUBSET (Name \ (Static \cup DOMAIN StaticRoute))
ASSUME FlagAssumption ==
    Anchored \in BOOLEAN /\ DiskFaults \in BOOLEAN /\ Isolated \in BOOLEAN

VARIABLES
    up,        \* the process is serving
    hash,      \* hash[n]: content of n's auth_token_hash, NoCred if unreadable
    env,       \* env[n]: the owner whose envelope.json lies in n's directory
    dir,       \* dir[n]: n's directory and the age of its newest file
    peers,     \* the Reserved directories holding Autocrypt peer keys
    dyn,       \* h.dyn
    stores,    \* DOMAIN h.stores
    aliases,   \* h.aliases, NoName where the map has no entry
    claim,     \* claim[n]: the DID the anchor has recorded for n
    req,       \* req[r]: where request r is, and its parameters
    sweep,     \* the purge goroutine
    drain,     \* the /admin/drain-anchor request
    live,      \* history: owners answered 201 for n, until n is removed
    bound,     \* history: DID last acknowledged for n, until n is removed
    unopened,  \* history: accounts whose mail store failed to open, last time
    overlapped \* history: addresses on which two operations have overlapped

memory  == <<dyn, stores, aliases>>
disk    == <<hash, env, dir, peers>>
history == <<live, bound, unopened, overlapped>>
vars    == <<up, hash, env, dir, peers, dyn, stores, aliases, claim, req,
             sweep, drain, live, bound, unopened, overlapped>>

PC == {"hash", "claim", "mkdir", "write", "register",
       "unmap", "release", "remove", "rmdir", "did", "env"}
Idle      == [pc |-> "idle", name |-> NoName, cred |-> NoCred, did |-> NoDID]
SweepIdle == [pc |-> "idle", todo |-> {}, cur |-> NoName]
DrainIdle == [pc |-> "idle", todo |-> {}, failed |-> {}]

-----------------------------------------------------------------------------
(* Interference between operations on one address.                         *)

InUse(n) == \/ \E r \in Req : req[r].name = n
            \/ sweep.cur = n
            \/ n \in drain.todo

\* An operation on each address of S begins: whether it may in this instance,
\* and what is remembered of it.
Begins(S) ==
    /\ Isolated => \A n \in S : ~InUse(n)
    /\ overlapped' = overlapped \cup {n \in S : InUse(n)}
    /\ UNCHANGED <<live, bound, unopened>>

Goto(r, pc) == req' = [req EXCEPT ![r].pc = pc]
Finish(r)   == req' = [req EXCEPT ![r] = Idle]

-----------------------------------------------------------------------------
(* POST /account/provision.                                                *)

\* Requests refused by validation or policy change nothing and are left out;
\* a DID is refused when there is no anchor. The dyn map is read under the
\* lock, the file in the next step.
ProvisionArrive(r, n, c, d) ==
    /\ up /\ req[r].pc = "idle" /\ Begins({n})
    /\ n \in Provisionable
    /\ d # NoDID => Anchored
    /\ n \notin dyn
    /\ req' = [req EXCEPT ![r] = [pc |-> "hash", name |-> n, cred |-> c, did |-> d]]
    /\ UNCHANGED <<up, disk, memory, claim, sweep, drain>>

\* Wrong variant: existence is having an envelope.
NameTaken_Envelope(n) == env[n] # NoCred

NameTaken(n) == hash[n] # NoCred

ProvisionCheckHash(r) ==
    /\ req[r].pc = "hash"
    /\ IF NameTaken(req[r].name) THEN Finish(r)     \* 409 username taken
       ELSE Goto(r, IF req[r].did = NoDID THEN "mkdir" ELSE "claim")
    /\ UNCHANGED <<up, disk, memory, claim, sweep, drain, history>>

\* The anchor (external): it records a claim unless another DID holds it.
Grants(n, d) == claim[n] \in {NoDID, d}
ClaimOf(n, d) == IF Grants(n, d) THEN [claim EXCEPT ![n] = d] ELSE claim

\* Wrong variant: a conflict is not told from "ok".
VerdictOk_Conflict(n, d) == TRUE

VerdictOk(n, d) == Grants(n, d)

\* Verdict "ok": the request goes on.
ProvisionClaimOk(r) ==
    /\ req[r].pc = "claim"
    /\ VerdictOk(req[r].name, req[r].did)
    /\ claim' = ClaimOf(req[r].name, req[r].did)
    /\ Goto(r, "mkdir")
    /\ UNCHANGED <<up, disk, memory, sweep, drain, history>>

\* Verdicts "conflict" and "invalid", and "error" before or after the anchor
\* applied the claim: the request is refused. Shared with PUT /account/did.
ClaimRefused(r) ==
    /\ req[r].pc \in {"claim", "did"}
    /\ claim' \in {claim, ClaimOf(req[r].name, req[r].did)}
    /\ Finish(r)
    /\ UNCHANGED <<up, disk, memory, sweep, drain, history>>

\* writeAuthHash, first half: MkdirAll.
ProvisionMkdir(r) ==
    /\ req[r].pc = "mkdir"
    /\ dir' = [dir EXCEPT ![req[r].name] = IF @ = "absent" THEN "empty" ELSE @]
    /\ Goto(r, "write")
    /\ UNCHANGED <<up, hash, env, peers, memory, claim, sweep, drain, history>>

\* writeAuthHash, second half: WriteFile, which fails with 500 if the
\* directory has been removed meanwhile. Truncation and write are one step: an
\* empty file reads as no credential.
ProvisionWrite(r) ==
    /\ req[r].pc = "write"
    /\ LET n == req[r].name IN
       IF dir[n] = "absent"
       THEN Finish(r) /\ UNCHANGED <<hash, dir>>
       ELSE /\ hash' = [hash EXCEPT ![n] = req[r].cred]
            /\ dir'  = [dir EXCEPT ![n] = "new"]
            /\ Goto(r, "register")
    /\ UNCHANGED <<up, env, peers, memory, claim, sweep, drain, history>>

\* The map entries addDynAccount makes under the lock.
Register(n) ==
    /\ stores'  = stores \cup {n}
    /\ dyn'     = dyn \cup {n}
    /\ aliases' = [aliases EXCEPT ![n] = n]

\* The envelope, then addDynAccount, then 201. The envelope file ends up as it
\* was (the request brings none), as this owner's, or unreadable (the write
\* failed, and the error is ignored). Both calls write the directory afresh, so
\* it exists again even if it was removed meanwhile. When the store cannot be
\* opened the account is not registered, and the answer is 201 all the same.
ProvisionRegister(r, e, opened) ==
    LET n == req[r].name IN
    /\ req[r].pc = "register"
    /\ e \in {env[n], req[r].cred} \cup (IF DiskFaults THEN {NoCred} ELSE {})
    /\ opened \/ DiskFaults
    /\ env' = [env EXCEPT ![n] = e]
    /\ dir' = IF opened \/ e # env[n] THEN [dir EXCEPT ![n] = "new"] ELSE dir
    /\ IF opened THEN Register(n) ELSE UNCHANGED memory
    /\ live'  = [live EXCEPT ![n] = @ \cup {req[r].cred}]
    /\ bound' = IF req[r].did = NoDID THEN bound
                ELSE [bound EXCEPT ![n] = req[r].did]
    /\ unopened' = IF opened THEN unopened \ {n} ELSE unopened \cup {n}
    /\ Finish(r)
    /\ UNCHANGED <<up, hash, peers, claim, sweep, drain, overlapped>>

-----------------------------------------------------------------------------
(* POST /account/delete, PUT /account/did and PUT /auth/envelope (Basic    *)
(* Auth), and POST /auth/signup (a setup token).                           *)

\* Wrong variant: the token is not compared with the hash.
Authenticated_AnyToken(n, c) == hash[n] # NoCred /\ c # NoCred

\* authenticate: the caller presents the token whose hash is on disk.
Authenticated(n, c) == hash[n] = c /\ c # NoCred

\* Static accounts are server-managed and get 403.
MayDelete(n) == n \notin Static

DeleteArrive(r, n, c) ==
    /\ up /\ req[r].pc = "idle" /\ Begins({n})
    /\ Authenticated(n, c) /\ MayDelete(n)
    /\ req' = [req EXCEPT ![r] = [pc |-> "unmap", name |-> n, cred |-> c, did |-> NoDID]]
    /\ UNCHANGED <<up, disk, memory, claim, sweep, drain>>

\* Wrong variant: the loop over the aliases is forgotten.
Unmap_KeepAliases(n) ==
    stores' = stores \ {n} /\ dyn' = dyn \ {n} /\ UNCHANGED aliases

\* The map deletions, under the lock: the account, and every alias that is
\* this address or points to it.
Unmap(n) ==
    /\ stores'  = stores \ {n}
    /\ dyn'     = dyn \ {n}
    /\ aliases' = [a \in Name |->
                     IF a = n \/ aliases[a] = n THEN NoName ELSE aliases[a]]

\* The removal of n has begun: nothing is owed to its owners any more.
Forget(n) == /\ live'  = [live EXCEPT ![n] = {}]
             /\ bound' = [bound EXCEPT ![n] = NoDID]
             /\ UNCHANGED <<unopened, overlapped>>

DeleteUnmap(r) ==
    /\ req[r].pc = "unmap"
    /\ Unmap(req[r].name)
    /\ Forget(req[r].name)
    /\ Goto(r, "release")
    /\ UNCHANGED <<up, disk, claim, sweep, drain>>

\* anchorRelease is best effort: the call may be lost, the result is ignored.
DeleteRelease(r) ==
    /\ req[r].pc = "release"
    /\ claim' \in {claim, [claim EXCEPT ![req[r].name] = NoDID]}
    /\ Anchored \/ claim' = claim
    /\ Goto(r, "remove")
    /\ UNCHANGED <<up, disk, memory, sweep, drain, history>>

\* os.RemoveAll removes the files it lists ...
RemoveFiles(n) ==
    /\ hash'  = [hash EXCEPT ![n] = NoCred]
    /\ env'   = [env EXCEPT ![n] = NoCred]
    /\ dir'   = [dir EXCEPT ![n] = IF @ = "absent" THEN @ ELSE "empty"]
    /\ peers' = peers \ {n}

\* ... and then the directory, unless a file has appeared in it again.
RemoveDir(n) == dir' = [dir EXCEPT ![n] = IF @ = "empty" THEN "absent" ELSE @]

DeleteRemove(r) ==
    /\ req[r].pc = "remove"
    /\ RemoveFiles(req[r].name)
    /\ Goto(r, "rmdir")
    /\ UNCHANGED <<up, memory, claim, sweep, drain, history>>

DeleteRmdir(r) ==
    /\ req[r].pc = "rmdir"
    /\ RemoveDir(req[r].name)
    /\ Finish(r)
    /\ UNCHANGED <<up, hash, env, peers, memory, claim, sweep, drain, history>>

DidArrive(r, n, c, d) ==
    /\ up /\ req[r].pc = "idle" /\ Begins({n}) /\ Anchored
    /\ Authenticated(n, c)
    /\ req' = [req EXCEPT ![r] = [pc |-> "did", name |-> n, cred |-> c, did |-> d]]
    /\ UNCHANGED <<up, disk, memory, claim, sweep, drain>>

\* Verdict "ok": 204. The other verdicts are ClaimRefused.
DidClaimOk(r) ==
    LET n == req[r].name  d == req[r].did IN
    /\ req[r].pc = "did"
    /\ VerdictOk(n, d)
    /\ claim' = ClaimOf(n, d)
    /\ bound' = [bound EXCEPT ![n] = d]
    /\ Finish(r)
    /\ UNCHANGED <<up, disk, memory, sweep, drain, live, unopened, overlapped>>

\* The two other writers of envelope.json: the holder of the credential replaces
\* it, or whoever has the setup token of a static account installs the first
\* readable one (module Credentials has the tokens).
MayWriteEnvelope(n, c) == Authenticated(n, c) \/ (n \in Static /\ env[n] = NoCred)

EnvelopeArrive(r, n, c) ==
    /\ up /\ req[r].pc = "idle" /\ Begins({n})
    /\ MayWriteEnvelope(n, c)
    /\ req' = [req EXCEPT ![r] = [pc |-> "env", name |-> n, cred |-> c, did |-> NoDID]]
    /\ UNCHANGED <<up, disk, memory, claim, sweep, drain>>

\* The write, and its failure half-way.
EnvelopeWrite(r, e) ==
    LET n == req[r].name IN
    /\ req[r].pc = "env"
    /\ e \in {req[r].cred} \cup (IF DiskFaults THEN {NoCred} ELSE {})
    /\ env' = [env EXCEPT ![n] = e]
    /\ dir' = [dir EXCEPT ![n] = "new"]
    /\ Finish(r)
    /\ UNCHANGED <<up, hash, peers, memory, claim, sweep, drain, history>>

-----------------------------------------------------------------------------
(* purgeInactiveAccounts, run by a ticker.                                 *)

\* ReadDir takes a snapshot of the directories on the swept domains.
SweepStart ==
    /\ up /\ sweep.pc = "idle"
    /\ sweep' = [pc   |-> "check",
                 todo |-> {n \in Open : dir[n] # "absent"},
                 cur  |-> NoName]
    /\ UNCHANGED <<up, disk, memory, claim, req, drain, history>>

\* Wrong variants: the static accounts, or idle registered ones, mixed up.
KeepInSweep_NoStatic(n) == dir[n] = "new" \/ n \in PeerActive
KeepInSweep_Registered(n) == n \in Static \/ n \in dyn \/ n \in PeerActive

\* lastActivity looks at files only: a directory without any was never active.
KeepInSweep(n) == n \in Static \/ dir[n] = "new" \/ n \in PeerActive

SweepKeep(n) ==
    /\ sweep.pc = "check" /\ n \in sweep.todo
    /\ KeepInSweep(n)
    /\ sweep' = [sweep EXCEPT !.todo = @ \ {n}]
    /\ UNCHANGED <<up, disk, memory, claim, req, drain, history>>

SweepCondemn(n) ==
    /\ sweep.pc = "check" /\ n \in sweep.todo /\ Begins({n})
    /\ ~KeepInSweep(n)
    /\ sweep' = [pc |-> "unmap", todo |-> sweep.todo \ {n}, cur |-> n]
    /\ UNCHANGED <<up, disk, memory, claim, req, drain>>

SweepUnmap ==
    /\ sweep.pc = "unmap"
    /\ Unmap(sweep.cur)
    /\ Forget(sweep.cur)
    /\ sweep' = [sweep EXCEPT !.pc = "remove"]
    /\ UNCHANGED <<up, disk, claim, req, drain>>

\* The anchor claim is not released.
SweepRemove ==
    /\ sweep.pc = "remove"
    /\ RemoveFiles(sweep.cur)
    /\ sweep' = [sweep EXCEPT !.pc = "rmdir"]
    /\ UNCHANGED <<up, memory, claim, req, drain, history>>

SweepRmdir ==
    /\ sweep.pc = "rmdir"
    /\ RemoveDir(sweep.cur)
    /\ sweep' = [sweep EXCEPT !.pc = "check", !.cur = NoName]
    /\ UNCHANGED <<up, hash, env, peers, memory, claim, req, drain, history>>

SweepEnd ==
    /\ sweep.pc = "check" /\ sweep.todo = {}
    /\ sweep' = SweepIdle
    /\ UNCHANGED <<up, disk, memory, claim, req, drain, history>>

-----------------------------------------------------------------------------
(* POST /admin/drain-anchor.                                               *)

\* ListProvisioned (external): the addresses with a credential on disk.
DrainStart ==
    LET listed == {n \in Name : hash[n] # NoCred} IN
    /\ up /\ Anchored /\ drain.pc = "idle"
    /\ Begins(listed)
    /\ drain' = [pc |-> "busy", todo |-> listed, failed |-> {}]
    /\ UNCHANGED <<up, disk, memory, claim, req, sweep>>

\* One release per listed name; a failed one is reported.
DrainRelease(n, ok) ==
    /\ drain.pc = "busy" /\ n \in drain.todo
    /\ IF ok THEN claim' = [claim EXCEPT ![n] = NoDID]
             ELSE claim' \in {claim, [claim EXCEPT ![n] = NoDID]}
    /\ bound' = [bound EXCEPT ![n] = NoDID]
    /\ drain' = [drain EXCEPT !.todo = @ \ {n}, !.failed = IF ok THEN @ ELSE @ \cup {n}]
    /\ UNCHANGED <<up, disk, memory, req, sweep, live, unopened, overlapped>>

\* 200 when nothing failed, 502 otherwise.
DrainEnd ==
    /\ drain.pc = "busy" /\ drain.todo = {}
    /\ drain' = DrainIdle
    /\ UNCHANGED <<up, disk, memory, claim, req, sweep, history>>

-----------------------------------------------------------------------------
(* Mail and time.                                                          *)

\* Mail delivered to, or written by, a registered account: its store and its
\* activity log are files of the directory.
Touch(n) ==
    /\ up /\ n \in stores
    /\ dir' = [dir EXCEPT ![n] = "new"]
    /\ UNCHANGED <<up, hash, env, peers, memory, claim, req, sweep, drain, history>>

\* storePeerKey: an inbound message carried an Autocrypt header.
StorePeerKey(n) ==
    /\ up /\ n \in Reserved
    /\ peers' = peers \cup {n}
    /\ dir'   = [dir EXCEPT ![n] = "new"]
    /\ UNCHANGED <<up, hash, env, memory, claim, req, sweep, drain, history>>

\* inactive_purge_days pass without a file of n being written. The cutoff is
\* fixed when the sweep starts, and no request lasts for days.
Age(n) ==
    /\ dir[n] = "new" /\ sweep.pc = "idle"
    /\ \A r \in Req : req[r].name # n
    /\ dir' = [dir EXCEPT ![n] = "old"]
    /\ UNCHANGED <<up, hash, env, peers, memory, claim, req, sweep, drain, history>>

-----------------------------------------------------------------------------
(* Crash and start-up.                                                     *)

Crash ==
    /\ up /\ up' = FALSE
    /\ stores' = {} /\ dyn' = {} /\ aliases' = [a \in Name |-> NoName]
    /\ req' = [r \in Req |-> Idle]
    /\ sweep' = SweepIdle /\ drain' = DrainIdle
    /\ UNCHANGED <<disk, claim, history>>

\* Wrong variant, which the comment in the code warns of: "checking only
\* readEnvelope".
CleanupKeeps_Envelope(n, lost) == n \notin lost /\ (n \in Reserved \cup Static \/ env[n] # NoCred)

\* cleanupOrphanedData keeps the peer keys, static accounts and every
\* directory with a credential, on the domains that resolve. lost holds the
\* addresses of those that do not.
CleanupKeeps(n, lost) == n \notin lost /\ (n \in Reserved \cup Static \/ hash[n] # NoCred)

\* Wrong variant: the scan looks for envelopes.
Recoverable_Envelope(n) == n \notin Reserved /\ n \notin Static /\ env[n] # NoCred

\* scanDynAccounts, on a domain that resolves.
Recoverable(n) == n \notin Reserved /\ n \notin Static /\ hash[n] # NoCred

\* What survives of a map from addresses to credentials.
Cleaned(f, lost) == [n \in Name |-> IF CleanupKeeps(n, lost) THEN f[n] ELSE NoCred]

\* main: cleanup, then the static accounts and their aliases, then the scan;
\* the servers start last. The record of a custom domain may be unreadable (it
\* is rewritten in place): the domain does not resolve, its whole directory goes
\* and nothing is owed to its owners any more. An account whose store does not
\* open is left out.
Startup(recovered, unread) ==
    LET lost == UNION unread
        found == {n \in Name \ lost : Recoverable(n)} IN
    /\ ~up /\ up' = TRUE
    /\ unread \subseteq Custom
    /\ recovered \subseteq found
    /\ DiskFaults \/ recovered = found
    /\ hash'  = Cleaned(hash, lost)
    /\ env'   = Cleaned(env, lost)
    /\ peers' = {n \in peers : CleanupKeeps(n, lost)}
    /\ dir'   = [n \in Name |-> IF n \in Static \cup recovered THEN "new"
                                ELSE IF CleanupKeeps(n, lost) THEN dir[n] ELSE "absent"]
    /\ stores'  = Static \cup recovered
    /\ dyn'     = recovered
    /\ aliases' = [a \in Name |-> IF a \in Static \cup recovered THEN a
                                  ELSE IF a \in DOMAIN StaticRoute THEN StaticRoute[a]
                                  ELSE NoName]
    /\ live'     = [n \in Name |-> IF n \in lost THEN {} ELSE live[n]]
    /\ bound'    = [n \in Name |-> IF n \in lost THEN NoDID ELSE bound[n]]
    /\ unopened' = found \ recovered
    /\ UNCHANGED <<claim, req, sweep, drain, overlapped>>

-----------------------------------------------------------------------------
\* A fresh installation: nothing on disk, nothing claimed, not yet started.
Init ==
    /\ up = FALSE
    /\ hash = [n \in Name |-> NoCred] /\ env = [n \in Name |-> NoCred]
    /\ dir = [n \in Name |-> "absent"] /\ peers = {}
    /\ dyn = {} /\ stores = {} /\ aliases = [a \in Name |-> NoName]
    /\ claim = [n \in Name |-> NoDID]
    /\ req = [r \in Req |-> Idle]
    /\ sweep = SweepIdle /\ drain = DrainIdle
    /\ live = [n \in Name |-> {}] /\ bound = [n \in Name |-> NoDID]
    /\ unopened = {} /\ overlapped = {}

Request(r) ==
    \/ \E n \in Name, c \in Cred, d \in DID \cup {NoDID} : ProvisionArrive(r, n, c, d)
    \/ ProvisionCheckHash(r) \/ ProvisionClaimOk(r) \/ ClaimRefused(r)
    \/ ProvisionMkdir(r) \/ ProvisionWrite(r)
    \/ \E e \in Cred \cup {NoCred}, opened \in BOOLEAN : ProvisionRegister(r, e, opened)
    \/ \E n \in Name, c \in Cred : DeleteArrive(r, n, c)
    \/ DeleteUnmap(r) \/ DeleteRelease(r) \/ DeleteRemove(r) \/ DeleteRmdir(r)
    \/ \E n \in Name, c \in Cred, d \in DID : DidArrive(r, n, c, d)
    \/ DidClaimOk(r)
    \/ \E n \in Name, c \in Cred : EnvelopeArrive(r, n, c)
    \/ \E e \in Cred \cup {NoCred} : EnvelopeWrite(r, e)

Sweeper ==
    \/ SweepStart \/ SweepUnmap \/ SweepRemove \/ SweepRmdir \/ SweepEnd
    \/ \E n \in Name : SweepKeep(n) \/ SweepCondemn(n)

Drainer ==
    \/ DrainStart \/ DrainEnd
    \/ \E n \in Name, ok \in BOOLEAN : DrainRelease(n, ok)

Restart == \E recovered \in SUBSET Name, unread \in SUBSET Custom : Startup(recovered, unread)

Environment ==
    \/ \E n \in Name : Touch(n) \/ StorePeerKey(n) \/ Age(n)
    \/ Crash
    \/ Restart

Next == (\E r \in Req : Request(r)) \/ Sweeper \/ Drainer \/ Environment

Spec == Init /\ [][Next]_vars

\* The scheduling the code provides: the ticker fires again and again, the
\* purge goroutine runs on, and a supervisor restarts a dead process.
Fairness == WF_vars(Sweeper) /\ WF_vars(Restart)

FairSpec == Spec /\ Fairness

-----------------------------------------------------------------------------
(* Properties.                                                             *)

Requests == {Idle} \cup [pc : PC, name : Name, cred : Cred, did : DID \cup {NoDID}]
Sweeps ==
    {SweepIdle} \cup [pc : {"check"}, todo : SUBSET Name, cur : {NoName}]
    \cup [pc : {"unmap", "remove", "rmdir"}, todo : SUBSET Name, cur : Name]

\* What each variable may hold: in particular, a request that has passed its
\* first step, and a purge past its check, is about an address.
TypeOK ==
    /\ up \in BOOLEAN
    /\ hash \in [Name -> Cred \cup {NoCred}]
    /\ env \in [Name -> Cred \cup {NoCred}]
    /\ dir \in [Name -> {"absent", "empty", "old", "new"}]
    /\ peers \subseteq Reserved
    /\ dyn \subseteq Name /\ stores \subseteq Name
    /\ aliases \in [Name -> Name \cup {NoName}]
    /\ claim \in [Name -> DID \cup {NoDID}]
    /\ req \in [Req -> Requests]
    /\ sweep \in Sweeps
    /\ drain \in [pc : {"idle", "busy"}, todo : SUBSET Name, failed : SUBSET Name]
    /\ live \in [Name -> SUBSET Cred]
    /\ bound \in [Name -> DID \cup {NoDID}]
    /\ unopened \subseteq Name /\ overlapped \subseteq Name

\* The three maps of the handler stay in step, whatever requests, purge and
\* restarts do between their critical sections: a serving relay has a store
\* for exactly the static and the dynamic accounts, every account receives its
\* own mail, and no alias (Rcpt accepts it) leads to an address without a store
\* (drainBuffer would discard the message).
MapsAgree ==
    /\ stores = IF up THEN Static \cup dyn ELSE {}
    /\ \A n \in stores : aliases[n] = n
    /\ \A a \in Name : aliases[a] # NoName => aliases[a] \in stores

\* A server-managed account is never lost: neither a delete (403) nor the
\* purge ("never purge static accounts") takes its store, its route or its
\* files, even when its own name has been provisioned, left idle and swept.
StaticSurvives ==
    up => \A n \in Static : /\ n \in stores /\ aliases[n] = n
                            /\ dir[n] \in {"old", "new"}

\* "A name is taken iff it already has a credential" (provision.go:149-150): no
\* two owners are answered 201 for one account.
SoleOwner == \A n \in Name : \A c, e \in live[n] : c = e

\* It takes two overlapping operations on the name to have two owners. Crashes,
\* failed stores, and any other operations do not do it.
OneOwner == \A n \in Name \ overlapped : \A c, e \in live[n] : c = e

\* Every owner who was answered 201 keeps the credential, and can log in
\* (AuthFunc), until the account's removal begins or its domain is lost, across
\* crashes and restarts, unless operations on the name overlapped. What may be
\* missing is the entry of dyn: of an account whose store did not open, and of
\* one named like the peer keys' directory, which the scan skips.
AckedLogin ==
    \A n \in Name \ overlapped : \A c \in live[n] :
        /\ Authenticated(n, c)
        /\ up => n \in Static \cup dyn \cup unopened \cup Reserved

\* The comment of provision.go:149-150, the other direction: once no operation
\* on a name is under way, and if none overlapped, it is held in memory only if
\* its credential is on disk.
TakenHasCredential ==
    \A n \in dyn \ overlapped : InUse(n) \/ hash[n] # NoCred

\* A credential disappears only by a delete its own holder asked for, by the
\* purge, or with its whole domain, unless operations on the name overlapped
\* (provision.go:206-207: a delete "can never touch anyone else's account").
OwnDeleteOnly ==
    [][\A n \in Name \ overlapped : (hash[n] # NoCred /\ hash'[n] = NoCred) =>
          \/ sweep.cur = n /\ sweep.pc = "remove"
          \/ \E r \in Req : req[r].name = n /\ req[r].pc = "remove"
                            /\ req[r].cred = hash[n]
          \/ ~up /\ n \in UNION Custom]_vars

\* The envelope next to a dynamic account's credential was sealed by the same
\* owner: nobody logs in to an account whose recovery envelope unwraps a
\* stranger's secret. (A static account has another writer, the setup token.)
EnvelopeOfOwner ==
    \A n \in Name \ (Static \cup overlapped) : env[n] # NoCred => env[n] = hash[n]

\* What an owner is promised: the name stays usable, and only by its owner.
OwnersServed == OneOwner /\ AckedLogin /\ TakenHasCredential /\ EnvelopeOfOwner

\* A DID the relay acknowledged (201 or 204) stays claimed at the anchor until
\* the account's removal, or a drain, begins, unless operations on the name
\* overlapped.
AckedClaim == \A n \in Name \ overlapped : bound[n] # NoDID => claim[n] = bound[n]

\* A request has written the credential of n and has not answered yet.
Recording(n) == \E r \in Req : req[r].pc = "register" /\ req[r].name = n

Phase(n) == IF hash[n] = NoCred THEN "free"
            ELSE IF Recording(n) THEN "recorded"
            ELSE IF live[n] # {} THEN "held" ELSE "leftover"
Phases == [n \in Name |-> Phase(n)]

\* Each name goes through the cycle of module AccountLife, whatever happens to
\* the others: no owner is recorded over another, acknowledged twice or erased
\* while it holds the name, and an owner that a crash has left without an answer
\* never comes to hold it.
Life == INSTANCE AccountLife WITH phase <- Phases, holder <- hash
NamesHaveOneLife == Life!Spec

\* An account that goes quiet on a purged domain is removed, unless it is used
\* again or the process stops first.
PurgeHappens ==
    \A n \in (Open \ Static) \ PeerActive :
        dir[n] = "old" ~> (dir[n] # "old" \/ ~up)
=============================================================================
