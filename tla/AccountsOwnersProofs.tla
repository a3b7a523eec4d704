------------------------ MODULE AccountsOwnersProofs ------------------------
(***************************************************************************)
(* What module Accounts promises the owners of accounts, in all runs of the *)
(* code and for every set of names, owners, DIDs and concurrent requests:   *)
(* the promises for a name hold as long as no two operations on that name   *)
(* have overlapped. Operations on different names interleave freely, stores *)
(* and writes fail, and a crash may fall between any two steps.             *)
(***************************************************************************)
EXTENDS AccountsProofs

-----------------------------------------------------------------------------
(* The inductive invariant.                                                *)

\* At most one operation is under way on an address where none have overlapped:
\* one request, or the purge, or the drain.
Exclusive ==
    /\ \A r, s \in Req : (r # s /\ req[r].name = req[s].name)
          => req[r].name \in overlapped \cup {NoName}
    /\ \A r \in Req : (req[r].name = sweep.cur \/ req[r].name \in drain.todo)
          => req[r].name \in overlapped \cup {NoName}
    /\ sweep.cur \in drain.todo => sweep.cur \in overlapped

\* What the owners of n are owed agrees with n's files, map entry and claim.
Owned(n) ==
    n \notin overlapped =>
        /\ \A c \in live[n] : c = hash[n]
        /\ n \in dyn => hash[n] # NoCred
        /\ (n \notin Static /\ env[n] # NoCred) => env[n] = hash[n]
        /\ bound[n] # NoDID => claim[n] = bound[n]

\* The removal of n has taken it out of the maps.
Gone(n) == n \notin dyn /\ live[n] = {}

\* What a request has checked or written earlier still holds.
Held(r) ==
    LET n == req[r].name  pc == req[r].pc IN
    n \notin overlapped =>
        /\ pc = "hash" => n \notin dyn
        /\ pc \in {"claim", "mkdir", "write"} => n \notin dyn /\ hash[n] = NoCred
        /\ (pc \in {"mkdir", "write", "register"} /\ req[r].did # NoDID)
              => claim[n] = req[r].did
        /\ pc \in {"register", "unmap", "release", "remove"} => hash[n] = req[r].cred
        /\ pc = "register" => live[n] = {}
        /\ pc \in {"release", "remove"} => Gone(n)
        /\ pc = "release" => bound[n] = NoDID
        /\ (pc = "env" /\ n \notin Static) => hash[n] = req[r].cred

SweepHeld == (sweep.pc = "remove" /\ sweep.cur \notin overlapped) => Gone(sweep.cur)

\* Nothing is under way while the process is down.
Stopped == ~up => sweep = SweepIdle /\ drain = DrainIdle /\ \A r \in Req : req[r] = Idle

OwnInv ==
    /\ TypeOK /\ Exclusive /\ Stopped /\ SweepHeld
    /\ \A n \in Name : Owned(n)
    /\ \A r \in Req : Held(r)

LEMMA InitOwn == Init => OwnInv
<1> SUFFICES ASSUME Init PROVE OwnInv
  OBVIOUS
<1>1. TypeOK
  BY InitType
<1>2. Exclusive /\ Stopped /\ SweepHeld /\ \A r \in Req : Held(r)
  BY NullAssumption
  DEF Init, Exclusive, Stopped, SweepHeld, Held, Idle, SweepIdle, DrainIdle
<1>3. \A n \in Name : Owned(n)
  BY DEF Init, Owned
<1>4. QED
  BY <1>1, <1>2, <1>3 DEF OwnInv

-----------------------------------------------------------------------------
(* Frame lemmas: a step on one address leaves the others alone.            *)

\* The step touches neither the credential, the envelope, the claim nor the map
\* entry of n, nor what its owners are owed.
Quiet(n) ==
    /\ hash'[n] = hash[n] /\ env'[n] = env[n] /\ claim'[n] = claim[n]
    /\ live'[n] = live[n] /\ bound'[n] = bound[n]
    /\ n \in dyn' <=> n \in dyn

LEMMA QuietOwned ==
    ASSUME NEW n, Quiet(n), Owned(n), overlapped \subseteq overlapped'
    PROVE  Owned(n)'
BY DEF Quiet, Owned

LEMMA QuietHeld ==
    ASSUME NEW s \in Req, req'[s] = req[s], Held(s), overlapped \subseteq overlapped',
           (req[s].pc # "idle" /\ req[s].name \notin overlapped') => Quiet(req[s].name)
    PROVE  Held(s)'
BY DEF Quiet, Held, Gone

\* A request or the purge that is under way is about an address.
LEMMA Busy ==
    ASSUME TypeOK
    PROVE  /\ \A r \in Req : /\ req[r].pc # "idle" => /\ req[r].name \in Name
                                                     /\ req[r].cred \in Cred
                             /\ req[r].pc = "idle" => req[r] = Idle
                             /\ req[r].did \in DID \cup {NoDID}
                             /\ req[r].name \in Name \cup {NoName}
           /\ sweep.pc \in {"unmap", "remove", "rmdir"} => sweep.cur \in Name
           /\ sweep.pc \notin {"unmap", "remove", "rmdir"} => sweep.cur = NoName
           /\ sweep.cur \in Name \cup {NoName}
           /\ drain.todo \subseteq Name /\ NoName \notin Name
<1>1. \A r \in Req : req[r] \in Requests
  BY DEF TypeOK
<1>2. sweep \in Sweeps
  BY DEF TypeOK
<1>3. drain.todo \subseteq Name
  BY DEF TypeOK
<1>4. QED
  BY <1>1, <1>2, <1>3, NullAssumption DEF Requests, Idle, PC, Sweeps, SweepIdle

\* A request's step on m, its own address or one nobody uses, keeps the
\* invariant if it keeps it for the request and for m. If m is in use, the step
\* is the one that makes operations on m overlap.
LEMMA RequestFrame ==
    ASSUME OwnInv, TypeOK', NEW r \in Req, NEW m \in Name, up, up',
           UNCHANGED <<sweep, drain>>, overlapped \subseteq overlapped',
           m \in overlapped' \/ req[r].name = m \/ ~InUse(m),
           req'[r].name \in {m, NoName},
           \A s \in Req \ {r} : req'[s] = req[s],
           \A n \in Name \ {m} : Quiet(n),
           Owned(m)', Held(r)'
    PROVE  OwnInv'
<1>1. m \in overlapped' \/ \A s \in Req \ {r} : req[s].name # m
  BY Busy DEF OwnInv, Exclusive, InUse
<1>2. m \in overlapped' \/ (m # sweep.cur /\ m \notin drain.todo)
  BY Busy DEF OwnInv, Exclusive, InUse
<1>3. Exclusive'
  BY <1>1, <1>2, Busy DEF OwnInv, Exclusive
<1>4. Stopped'
  BY DEF Stopped
<1>5. SweepHeld'
  <2>1. SUFFICES ASSUME sweep.pc = "remove", sweep.cur \notin overlapped'
                 PROVE  Gone(sweep.cur)'
    BY DEF SweepHeld
  <2>2. Gone(sweep.cur) /\ Quiet(sweep.cur)
    BY <2>1, <1>2, Busy DEF OwnInv, SweepHeld
  <2>3. QED
    BY <2>2 DEF Gone, Quiet
<1>6. ASSUME NEW n \in Name PROVE Owned(n)'
  BY QuietOwned DEF OwnInv
<1>7. ASSUME NEW s \in Req PROVE Held(s)'
  <2>1. CASE s = r
    BY <2>1
  <2>2. CASE s # r
    <3>1. (req[s].pc # "idle" /\ req[s].name \notin overlapped') => Quiet(req[s].name)
      BY <1>1, <2>2, Busy DEF OwnInv
    <3>2. req'[s] = req[s] /\ Held(s)
      BY <2>2 DEF OwnInv
    <3>3. QED
      BY <3>1, <3>2, QuietHeld
  <2>3. QED
    BY <2>1, <2>2
<1>8. QED
  BY <1>3, <1>4, <1>5, <1>6, <1>7 DEF OwnInv

\* The same for the purge.
LEMMA SweepFrame ==
    ASSUME OwnInv, TypeOK', NEW m \in Name, up' = up, UNCHANGED <<req, drain>>,
           sweep' # SweepIdle => up, overlapped \subseteq overlapped',
           m \in overlapped' \/ sweep.cur = m \/ ~InUse(m),
           sweep'.cur \in {m, NoName},
           \A n \in Name \ {m} : Quiet(n),
           Owned(m)', SweepHeld'
    PROVE  OwnInv'
<1>1. m \in overlapped' \/ ((\A s \in Req : req[s].name # m) /\ m \notin drain.todo)
  BY Busy DEF OwnInv, Exclusive, InUse
<1>2. Exclusive'
  BY <1>1, Busy DEF OwnInv, Exclusive
<1>3. Stopped'
  BY DEF OwnInv, Stopped
<1>4. ASSUME NEW n \in Name PROVE Owned(n)'
  BY QuietOwned DEF OwnInv
<1>5. ASSUME NEW s \in Req PROVE Held(s)'
  <2>1. (req[s].pc # "idle" /\ req[s].name \notin overlapped') => Quiet(req[s].name)
    BY <1>1, Busy DEF OwnInv
  <2>2. QED
    BY <2>1, QuietHeld DEF OwnInv
<1>6. QED
  BY <1>2, <1>3, <1>4, <1>5 DEF OwnInv

\* A step that changes no account.
LEMMA NoAccountFrame ==
    ASSUME OwnInv, TypeOK', up' = up, UNCHANGED req, \A n \in Name : Quiet(n),
           sweep'.cur = sweep.cur, sweep'.pc = "remove" => sweep.pc = "remove",
           sweep' # sweep => up, drain' # drain => up, overlapped \subseteq overlapped',
           \A n \in drain'.todo \ drain.todo : n \in overlapped' \/ ~InUse(n)
    PROVE  OwnInv'
<1>1. Exclusive'
  BY Busy DEF OwnInv, Exclusive, InUse
<1>2. Stopped'
  BY DEF OwnInv, Stopped
<1>3. SweepHeld'
  BY Busy DEF OwnInv, SweepHeld, Gone, Quiet
<1>4. ASSUME NEW n \in Name PROVE Owned(n)'
  BY QuietOwned DEF OwnInv
<1>5. ASSUME NEW s \in Req PROVE Held(s)'
  BY QuietHeld, Busy DEF OwnInv
<1>6. QED
  BY <1>1, <1>2, <1>3, <1>4, <1>5 DEF OwnInv

-----------------------------------------------------------------------------
(* The steps of the requests.                                              *)

\* A new request: its address is free, and nothing else changes.
LEMMA ArriveOwn ==
    ASSUME OwnInv, TypeOK', NEW r \in Req, NEW n \in Name, NEW c \in Cred,
           NEW d \in DID \cup {NoDID}, NEW pc \in {"hash", "unmap", "did", "env"},
           up, req[r].pc = "idle", Begins({n}),
           req' = [req EXCEPT ![r] = [pc |-> pc, name |-> n, cred |-> c, did |-> d]],
           UNCHANGED <<up, disk, memory, claim, sweep, drain>>,
           pc = "hash" => n \notin dyn,
           (pc = "unmap" \/ (pc = "env" /\ n \notin Static)) => hash[n] = c
    PROVE  OwnInv'
<1> USE DEF disk, memory, history
<1>1. /\ req'[r] = [pc |-> pc, name |-> n, cred |-> c, did |-> d]
      /\ \A s \in Req \ {r} : req'[s] = req[s]
  BY DEF OwnInv, TypeOK
<1>2. /\ n \in overlapped' \/ ~InUse(n)
      /\ overlapped \subseteq overlapped' /\ UNCHANGED <<live, bound>>
  BY DEF Begins
<1>3. \A k \in Name : Quiet(k)
  BY <1>2 DEF Quiet
<1>4. Owned(n)'
  BY <1>2, <1>3, QuietOwned DEF OwnInv
<1>5. Held(r)'
  BY <1>1 DEF Held
<1>6. QED
  BY <1>1, <1>2, <1>3, <1>4, <1>5, RequestFrame

\* What Goto and Finish leave of the request.
LEMMA Continues ==
    ASSUME TypeOK, NEW r \in Req, req[r].pc # "idle"
    PROVE  /\ \A pc \in PC : Goto(r, pc) =>
                 /\ req'[r].pc = pc /\ req'[r].name = req[r].name
                 /\ req'[r].cred = req[r].cred /\ req'[r].did = req[r].did
                 /\ \A s \in Req \ {r} : req'[s] = req[s]
           /\ Finish(r) => /\ req'[r] = Idle
                           /\ \A s \in Req \ {r} : req'[s] = req[s]
<1>1. req \in [Req -> Requests] /\ req[r] \in [pc : PC, name : Name, cred : Cred, did : DID \cup {NoDID}]
  BY DEF TypeOK, Requests, Idle
<1>2. QED
  BY <1>1 DEF Goto, Finish

\* The steps of POST /account/provision after the first.
LEMMA ProvisionOwn ==
    ASSUME OwnInv, TypeOK', NEW r \in Req, NEW m \in Name, m = req[r].name,
           \/ ProvisionCheckHash(r) \/ ProvisionClaimOk(r) \/ ProvisionMkdir(r)
           \/ ProvisionWrite(r)
           \/ \E e \in Cred \cup {NoCred}, opened \in BOOLEAN : ProvisionRegister(r, e, opened)
    PROVE  OwnInv'
<1> USE DEF disk, memory, history
<1>1. req[r].pc \in {"hash", "claim", "mkdir", "write", "register"}
  BY DEF ProvisionCheckHash, ProvisionClaimOk, ProvisionMkdir, ProvisionWrite, ProvisionRegister
<1>2. /\ TypeOK /\ m \in Name /\ req[r].cred \in Cred /\ req[r].did \in DID \cup {NoDID}
      /\ Held(r) /\ Owned(m)
  BY <1>1, Busy DEF OwnInv
<1>3. up
  BY <1>1 DEF OwnInv, Stopped, Idle
<1>4. UNCHANGED <<up, sweep, drain, overlapped>>
  BY DEF ProvisionCheckHash, ProvisionClaimOk, ProvisionMkdir, ProvisionWrite, ProvisionRegister
<1>5. /\ \A pc \in PC : Goto(r, pc) =>
            /\ req'[r].pc = pc /\ req'[r].name = m
            /\ req'[r].cred = req[r].cred /\ req'[r].did = req[r].did
            /\ \A s \in Req \ {r} : req'[s] = req[s]
      /\ Finish(r) => req'[r] = Idle /\ \A s \in Req \ {r} : req'[s] = req[s]
      /\ {"claim", "mkdir", "write", "register"} \subseteq PC
  BY <1>1, <1>2, Continues DEF PC
<1>6. /\ hash \in [Name -> Cred \cup {NoCred}] /\ claim \in [Name -> DID \cup {NoDID}]
      /\ env \in [Name -> Cred \cup {NoCred}] /\ live \in [Name -> SUBSET Cred]
      /\ bound \in [Name -> DID \cup {NoDID}] /\ NoCred \notin Cred /\ NoDID \notin DID
  BY <1>2, NullAssumption DEF TypeOK
<1>7. SUFFICES /\ req'[r].name \in {m, NoName}
               /\ \A s \in Req \ {r} : req'[s] = req[s]
               /\ \A n \in Name \ {m} : Quiet(n)
               /\ Owned(m)' /\ Held(r)'
  BY <1>2, <1>3, <1>4, RequestFrame
<1>8. CASE ProvisionCheckHash(r)
  <2>1. req'[r].name \in {m, NoName} /\ \A s \in Req \ {r} : req'[s] = req[s]
    BY <1>5, <1>8 DEF ProvisionCheckHash, Idle
  <2>2. \A n \in Name : Quiet(n)
    BY <1>8 DEF ProvisionCheckHash, Quiet
  <2>3. Held(r)'
    BY <1>2, <1>4, <1>5, <1>8 DEF ProvisionCheckHash, Held, Idle, NameTaken
  <2>4. QED
    BY <1>2, <1>4, <2>1, <2>2, <2>3, QuietOwned
<1>9. CASE ProvisionClaimOk(r)
  <2>1. claim' = [claim EXCEPT ![m] = req[r].did] /\ claim[m] \in {NoDID, req[r].did}
    BY <1>9 DEF ProvisionClaimOk, ClaimOf, VerdictOk, Grants
  <2>2. Goto(r, "mkdir") /\ UNCHANGED <<hash, env, dyn, live, bound>>
    BY <1>9 DEF ProvisionClaimOk
  <2>3. \A n \in Name \ {m} : Quiet(n)
    BY <1>6, <2>1, <2>2 DEF Quiet
  <2>4. Owned(m)'
    BY <1>2, <1>4, <1>6, <2>1, <2>2 DEF Owned
  <2>5. Held(r)'
    BY <1>2, <1>4, <1>5, <1>6, <1>9, <2>1, <2>2 DEF Held, ProvisionClaimOk
  <2>6. QED
    BY <1>5, <2>2, <2>3, <2>4, <2>5
<1>10. CASE ProvisionMkdir(r)
  <2>1. Goto(r, "write") /\ req[r].pc = "mkdir" /\ UNCHANGED <<hash, env, dyn, live, bound, claim>>
    BY <1>10 DEF ProvisionMkdir
  <2>2. \A n \in Name : Quiet(n)
    BY <2>1 DEF Quiet
  <2>3. Held(r)'
    BY <1>2, <1>4, <1>5, <2>1 DEF Held
  <2>4. QED
    BY <1>2, <1>4, <1>5, <2>1, <2>2, <2>3, QuietOwned
\* The credential is written where there was none, so no owner and no envelope
\* of another owner is there.
<1>11. CASE ProvisionWrite(r)
  <2>1. CASE dir[m] = "absent"
    <3>1. Finish(r) /\ UNCHANGED <<hash, env, dyn, live, bound, claim>>
      BY <1>11, <2>1 DEF ProvisionWrite
    <3>2. \A n \in Name : Quiet(n)
      BY <3>1 DEF Quiet
    <3>3. Held(r)'
      BY <1>5, <3>1 DEF Held, Idle
    <3>4. QED
      BY <1>2, <1>4, <1>5, <3>1, <3>2, <3>3, QuietOwned DEF Idle
  <2>2. CASE dir[m] # "absent"
    <3>1. /\ hash' = [hash EXCEPT ![m] = req[r].cred] /\ Goto(r, "register")
          /\ req[r].pc = "write" /\ UNCHANGED <<env, dyn, live, bound, claim>>
      BY <1>11, <2>2 DEF ProvisionWrite
    <3>2. \A n \in Name \ {m} : Quiet(n)
      BY <1>6, <3>1 DEF Quiet
    <3>3. (m \notin overlapped => hash[m] = NoCred) /\ hash'[m] = req[r].cred
      BY <1>2, <1>6, <3>1 DEF Held
    <3>4. Owned(m)'
      BY <1>2, <1>4, <1>6, <3>1, <3>3 DEF Owned
    <3>5. m \notin overlapped => live'[m] = {}
      BY <1>2, <1>6, <3>1, <3>3 DEF Owned
    <3>6. Held(r)'
      BY <1>2, <1>4, <1>5, <3>1, <3>3, <3>5 DEF Held
    <3>7. QED
      BY <1>5, <3>1, <3>2, <3>4, <3>6
  <2>3. QED
    BY <2>1, <2>2
<1>12. ASSUME NEW e \in Cred \cup {NoCred}, NEW opened \in BOOLEAN,
              ProvisionRegister(r, e, opened)
       PROVE  /\ Finish(r) /\ \A n \in Name \ {m} : Quiet(n)
              /\ Owned(m)' /\ Held(r)'
  <2>1. /\ req[r].pc = "register" /\ Finish(r) /\ UNCHANGED <<hash, claim>>
        /\ env' = [env EXCEPT ![m] = e] /\ e \in {env[m], req[r].cred, NoCred}
        /\ live' = [live EXCEPT ![m] = @ \cup {req[r].cred}]
        /\ bound' = IF req[r].did = NoDID THEN bound ELSE [bound EXCEPT ![m] = req[r].did]
        /\ dyn' = dyn \cup {m} \/ dyn' = dyn
    BY <1>12 DEF ProvisionRegister, Register
  <2>2. \A n \in Name \ {m} : Quiet(n)
    BY <1>6, <2>1 DEF Quiet
  <2>3. m \notin overlapped =>
          hash[m] = req[r].cred /\ (req[r].did # NoDID => claim[m] = req[r].did)
    BY <1>2, <2>1 DEF Held
  <2>4. Owned(m)'
    <3>1. /\ env'[m] \in {env[m], req[r].cred, NoCred}
          /\ live'[m] = live[m] \cup {req[r].cred}
      BY <1>2, <1>6, <2>1
    <3>2. bound'[m] = IF req[r].did = NoDID THEN bound[m] ELSE req[r].did
      BY <1>2, <1>6, <2>1
    <3>3. hash'[m] = hash[m] /\ claim'[m] = claim[m]
      BY <2>1
    <3>4. QED
      BY <1>2, <1>4, <1>6, <2>1, <2>3, <3>1, <3>2, <3>3 DEF Owned
  <2>5. Held(r)'
    BY <1>5, <2>1 DEF Held, Idle
  <2>6. QED
    BY <2>1, <2>2, <2>4, <2>5
<1>13. CASE \E e \in Cred \cup {NoCred}, opened \in BOOLEAN : ProvisionRegister(r, e, opened)
  BY <1>5, <1>12, <1>13 DEF Idle
<1>14. QED
  BY <1>8, <1>9, <1>10, <1>11, <1>13

\* The steps of POST /account/delete, PUT /account/did and the writers of the
\* envelope after the first, and a refused claim.
LEMMA DeleteOwn ==
    ASSUME OwnInv, TypeOK', NEW r \in Req, NEW m \in Name, m = req[r].name,
           \/ DeleteUnmap(r) \/ DeleteRelease(r) \/ DeleteRemove(r) \/ DeleteRmdir(r)
           \/ DidClaimOk(r) \/ ClaimRefused(r)
           \/ \E e \in Cred \cup {NoCred} : EnvelopeWrite(r, e)
    PROVE  OwnInv'
<1> USE DEF disk, memory, history
<1>1. req[r].pc \in {"unmap", "release", "remove", "rmdir", "did", "claim", "env"}
  BY DEF DeleteUnmap, DeleteRelease, DeleteRemove, DeleteRmdir, DidClaimOk, ClaimRefused,
     EnvelopeWrite
<1>2. /\ TypeOK /\ req[r].cred \in Cred /\ req[r].did \in DID \cup {NoDID}
      /\ Held(r) /\ Owned(m)
  BY <1>1, Busy DEF OwnInv
<1>3. up
  BY <1>1 DEF OwnInv, Stopped, Idle
<1>4. UNCHANGED <<up, sweep, drain, overlapped>>
  BY DEF DeleteUnmap, DeleteRelease, DeleteRemove, DeleteRmdir, DidClaimOk, ClaimRefused,
     EnvelopeWrite, Forget
<1>5. /\ \A pc \in PC : Goto(r, pc) =>
            /\ req'[r].pc = pc /\ req'[r].name = m
            /\ req'[r].cred = req[r].cred /\ req'[r].did = req[r].did
            /\ \A s \in Req \ {r} : req'[s] = req[s]
      /\ Finish(r) => req'[r] = Idle /\ \A s \in Req \ {r} : req'[s] = req[s]
      /\ {"release", "remove", "rmdir"} \subseteq PC
  BY <1>1, <1>2, Continues DEF PC
<1>6. /\ hash \in [Name -> Cred \cup {NoCred}] /\ claim \in [Name -> DID \cup {NoDID}]
      /\ env \in [Name -> Cred \cup {NoCred}] /\ live \in [Name -> SUBSET Cred]
      /\ bound \in [Name -> DID \cup {NoDID}] /\ NoCred \notin Cred /\ NoDID \notin DID
  BY <1>2, NullAssumption DEF TypeOK
<1>7. SUFFICES /\ req'[r].name \in {m, NoName}
               /\ \A s \in Req \ {r} : req'[s] = req[s]
               /\ \A n \in Name \ {m} : Quiet(n)
               /\ Owned(m)' /\ Held(r)'
  BY <1>2, <1>3, <1>4, RequestFrame
<1>8. CASE DeleteUnmap(r)
  <2>1. /\ req[r].pc = "unmap" /\ Goto(r, "release") /\ UNCHANGED <<hash, env, claim>>
        /\ dyn' = dyn \ {m} /\ live' = [live EXCEPT ![m] = {}]
        /\ bound' = [bound EXCEPT ![m] = NoDID]
    BY <1>8 DEF DeleteUnmap, Unmap, Forget
  <2>2. \A n \in Name \ {m} : Quiet(n)
    BY <1>6, <2>1 DEF Quiet
  <2>3. Owned(m)'
    BY <1>2, <1>4, <1>6, <2>1 DEF Owned
  <2>4. Held(r)'
    BY <1>2, <1>4, <1>5, <1>6, <2>1 DEF Held, Gone
  <2>5. QED
    BY <1>5, <2>1, <2>2, <2>3, <2>4
\* The relay has forgotten the DID before it releases the claim.
<1>9. CASE DeleteRelease(r)
  <2>1. /\ req[r].pc = "release" /\ Goto(r, "remove") /\ UNCHANGED <<hash, env, dyn, live, bound>>
        /\ claim' = claim \/ claim' = [claim EXCEPT ![m] = NoDID]
    BY <1>9 DEF DeleteRelease
  <2>2. \A n \in Name \ {m} : Quiet(n)
    BY <1>6, <2>1 DEF Quiet
  <2>3. Owned(m)'
    BY <1>2, <1>4, <2>1 DEF Owned, Held
  <2>4. Held(r)'
    BY <1>2, <1>4, <1>5, <2>1 DEF Held, Gone
  <2>5. QED
    BY <1>5, <2>1, <2>2, <2>3, <2>4
<1>10. CASE DeleteRemove(r)
  <2>1. /\ req[r].pc = "remove" /\ Goto(r, "rmdir") /\ UNCHANGED <<dyn, claim, live, bound>>
        /\ hash' = [hash EXCEPT ![m] = NoCred] /\ env' = [env EXCEPT ![m] = NoCred]
    BY <1>10 DEF DeleteRemove, RemoveFiles
  <2>2. \A n \in Name \ {m} : Quiet(n)
    BY <1>6, <2>1 DEF Quiet
  <2>3. Owned(m)'
    BY <1>2, <1>4, <1>6, <2>1 DEF Owned, Held, Gone
  <2>4. Held(r)'
    BY <1>2, <1>4, <1>5, <2>1 DEF Held
  <2>5. QED
    BY <1>5, <2>1, <2>2, <2>3, <2>4
<1>11. CASE DeleteRmdir(r)
  <2>1. Finish(r) /\ UNCHANGED <<hash, env, dyn, claim, live, bound>>
    BY <1>11 DEF DeleteRmdir
  <2>2. \A n \in Name : Quiet(n)
    BY <2>1 DEF Quiet
  <2>3. Held(r)'
    BY <1>5, <2>1 DEF Held, Idle
  <2>4. QED
    BY <1>2, <1>4, <1>5, <2>1, <2>2, <2>3, QuietOwned DEF Idle
<1>12. CASE DidClaimOk(r)
  <2>1. /\ Finish(r) /\ UNCHANGED <<hash, env, dyn, live>>
        /\ bound' = [bound EXCEPT ![m] = req[r].did]
        /\ claim' = [claim EXCEPT ![m] = req[r].did]
    BY <1>12 DEF DidClaimOk, ClaimOf, VerdictOk
  <2>2. \A n \in Name \ {m} : Quiet(n)
    BY <1>6, <2>1 DEF Quiet
  <2>3. Owned(m)'
    BY <1>2, <1>4, <1>6, <2>1 DEF Owned
  <2>4. Held(r)'
    BY <1>5, <2>1 DEF Held, Idle
  <2>5. QED
    BY <1>5, <2>1, <2>2, <2>3, <2>4 DEF Idle
\* The anchor may have applied the claim: it did so only over no claim, or over
\* the same one.
<1>13. CASE ClaimRefused(r)
  <2>1. Finish(r) /\ UNCHANGED <<hash, env, dyn, live, bound>>
    BY <1>13 DEF ClaimRefused
  <2>2. \/ claim' = claim
        \/ claim' = [claim EXCEPT ![m] = req[r].did] /\ claim[m] \in {NoDID, req[r].did}
    BY <1>13 DEF ClaimRefused, ClaimOf, Grants
  <2>3. \A n \in Name \ {m} : Quiet(n)
    BY <1>6, <2>1, <2>2 DEF Quiet
  <2>4. Owned(m)'
    BY <1>2, <1>4, <1>6, <2>1, <2>2 DEF Owned
  <2>5. Held(r)'
    BY <1>5, <2>1 DEF Held, Idle
  <2>6. QED
    BY <1>5, <2>1, <2>3, <2>4, <2>5 DEF Idle
\* The envelope is the credential holder's, if the account is dynamic.
<1>14. ASSUME NEW e \in Cred \cup {NoCred}, EnvelopeWrite(r, e)
       PROVE  /\ Finish(r) /\ \A n \in Name \ {m} : Quiet(n)
              /\ Owned(m)' /\ Held(r)'
  <2>1. /\ req[r].pc = "env" /\ Finish(r) /\ UNCHANGED <<hash, dyn, claim, live, bound>>
        /\ env' = [env EXCEPT ![m] = e] /\ e \in {req[r].cred, NoCred}
    BY <1>14 DEF EnvelopeWrite
  <2>2. \A n \in Name \ {m} : Quiet(n)
    BY <1>6, <2>1 DEF Quiet
  <2>3. Owned(m)'
    BY <1>2, <1>4, <1>6, <2>1 DEF Owned, Held
  <2>4. Held(r)'
    BY <1>5, <2>1 DEF Held, Idle
  <2>5. QED
    BY <2>1, <2>2, <2>3, <2>4
<1>15. CASE \E e \in Cred \cup {NoCred} : EnvelopeWrite(r, e)
  BY <1>5, <1>14, <1>15 DEF Idle
<1>16. QED
  BY <1>8, <1>9, <1>10, <1>11, <1>12, <1>13, <1>15

LEMMA RequestOwn ==
    ASSUME OwnInv, NEW r \in Req, Request(r)
    PROVE  OwnInv'
<1>1. TypeOK'
  BY RequestType DEF OwnInv
<1>2. ASSUME NEW n \in Name, NEW c \in Cred, NEW d \in DID \cup {NoDID},
             ProvisionArrive(r, n, c, d)
      PROVE  OwnInv'
  BY <1>1, <1>2, ArriveOwn DEF ProvisionArrive
<1>3. ASSUME NEW n \in Name, NEW c \in Cred, DeleteArrive(r, n, c)
      PROVE  OwnInv'
  BY <1>1, <1>3, ArriveOwn DEF DeleteArrive, Authenticated
<1>4. ASSUME NEW n \in Name, NEW c \in Cred, NEW d \in DID, DidArrive(r, n, c, d)
      PROVE  OwnInv'
  BY <1>1, <1>4, ArriveOwn DEF DidArrive
<1>5. ASSUME NEW n \in Name, NEW c \in Cred, EnvelopeArrive(r, n, c)
      PROVE  OwnInv'
  BY <1>1, <1>5, ArriveOwn DEF EnvelopeArrive, MayWriteEnvelope, Authenticated
<1>6. req[r].pc # "idle" => req[r].name \in Name
  BY Busy DEF OwnInv
<1>7. CASE \/ ProvisionCheckHash(r) \/ ProvisionClaimOk(r) \/ ProvisionMkdir(r)
           \/ ProvisionWrite(r)
           \/ \E e \in Cred \cup {NoCred}, opened \in BOOLEAN : ProvisionRegister(r, e, opened)
  <2>1. req[r].pc # "idle"
    BY <1>7 DEF ProvisionCheckHash, ProvisionClaimOk, ProvisionMkdir, ProvisionWrite,
       ProvisionRegister
  <2>2. PICK m \in Name : m = req[r].name
    BY <2>1, <1>6
  <2>3. QED
    BY <1>1, <1>7, <2>2, ProvisionOwn
<1>8. CASE \/ DeleteUnmap(r) \/ DeleteRelease(r) \/ DeleteRemove(r) \/ DeleteRmdir(r)
           \/ DidClaimOk(r) \/ ClaimRefused(r)
           \/ \E e \in Cred \cup {NoCred} : EnvelopeWrite(r, e)
  <2>1. req[r].pc # "idle"
    BY <1>8 DEF DeleteUnmap, DeleteRelease, DeleteRemove, DeleteRmdir, DidClaimOk, ClaimRefused,
       EnvelopeWrite
  <2>2. PICK m \in Name : m = req[r].name
    BY <2>1, <1>6
  <2>3. QED
    BY <1>1, <1>8, <2>2, DeleteOwn
<1>9. QED
  BY <1>2, <1>3, <1>4, <1>5, <1>7, <1>8 DEF Request

-----------------------------------------------------------------------------
(* The steps of the purge, the drain and the environment.                  *)

LEMMA SweeperOwn ==
    ASSUME OwnInv, Sweeper
    PROVE  OwnInv'
<1> USE DEF disk, memory, history
<1>1. TypeOK /\ TypeOK'
  BY SweeperType DEF OwnInv
<1>2. UNCHANGED <<up, req, drain>>
  BY DEF Sweeper, SweepStart, SweepKeep, SweepCondemn, SweepUnmap, SweepRemove, SweepRmdir,
     SweepEnd
<1>3. sweep.pc # "idle" => up
  BY DEF OwnInv, Stopped, SweepIdle
<1>4. sweep \in Sweeps /\ (sweep.pc \notin {"unmap", "remove", "rmdir"} => sweep.cur = NoName)
  BY <1>1, Busy DEF TypeOK
\* The purge looks at the directories, and decides what to keep.
<1>5. CASE SweepStart \/ SweepEnd \/ \E n \in Name : SweepKeep(n)
  <2>1. /\ UNCHANGED <<hash, env, claim, live, bound, dyn, overlapped>>
        /\ sweep.pc \in {"idle", "check"} /\ up
    BY <1>3, <1>5 DEF SweepStart, SweepEnd, SweepKeep
  <2>2. \A n \in Name : Quiet(n)
    BY <2>1 DEF Quiet
  <2>3. sweep'.cur = NoName /\ sweep'.pc \in {"idle", "check"}
    BY <1>4, <1>5 DEF SweepStart, SweepEnd, SweepKeep, SweepIdle, Sweeps
  <2>4. QED
    BY <1>1, <1>2, <1>4, <2>1, <2>2, <2>3, NoAccountFrame
<1>6. ASSUME NEW n \in Name, SweepCondemn(n) PROVE OwnInv'
  <2>1. /\ UNCHANGED <<hash, env, claim, live, bound, dyn>> /\ up
        /\ n \in overlapped' \/ ~InUse(n)
        /\ overlapped \subseteq overlapped' /\ sweep'.cur = n /\ sweep'.pc = "unmap"
    BY <1>3, <1>6 DEF SweepCondemn, Begins
  <2>2. \A k \in Name : Quiet(k)
    BY <2>1 DEF Quiet
  <2>3. Owned(n)' /\ SweepHeld'
    BY <2>1, <2>2, QuietOwned DEF OwnInv, SweepHeld
  <2>4. QED
    BY <1>1, <1>2, <2>1, <2>2, <2>3, SweepFrame
<1>7. ASSUME SweepUnmap \/ SweepRemove \/ SweepRmdir, NEW m \in Name, m = sweep.cur
      PROVE  OwnInv'
  <2>1. up /\ Owned(m) /\ SweepHeld
    BY <1>3, <1>7 DEF OwnInv, SweepUnmap, SweepRemove, SweepRmdir
  <2>2. /\ hash \in [Name -> Cred \cup {NoCred}] /\ env \in [Name -> Cred \cup {NoCred}]
        /\ live \in [Name -> SUBSET Cred] /\ bound \in [Name -> DID \cup {NoDID}]
    BY <1>1 DEF TypeOK
  <2>3. CASE SweepUnmap
    <3>1. /\ UNCHANGED <<hash, env, claim, overlapped>> /\ sweep'.cur = m /\ sweep'.pc = "remove"
          /\ dyn' = dyn \ {m} /\ live' = [live EXCEPT ![m] = {}]
          /\ bound' = [bound EXCEPT ![m] = NoDID]
      BY <1>4, <1>7, <2>3 DEF SweepUnmap, Unmap, Forget, Sweeps, SweepIdle
    <3>2. \A n \in Name \ {m} : Quiet(n)
      BY <2>2, <3>1 DEF Quiet
    <3>3. Owned(m)' /\ SweepHeld'
      BY <2>1, <2>2, <3>1 DEF Owned, SweepHeld, Gone
    <3>4. QED
      BY <1>1, <1>2, <1>7, <2>1, <3>1, <3>2, <3>3, SweepFrame
  <2>4. CASE SweepRemove
    <3>1. /\ UNCHANGED <<dyn, claim, live, bound, overlapped>> /\ sweep'.cur = m /\ sweep'.pc = "rmdir"
          /\ hash' = [hash EXCEPT ![m] = NoCred] /\ env' = [env EXCEPT ![m] = NoCred]
          /\ sweep.pc = "remove"
      BY <1>4, <1>7, <2>4 DEF SweepRemove, RemoveFiles, Sweeps, SweepIdle
    <3>2. \A n \in Name \ {m} : Quiet(n)
      BY <2>2, <3>1 DEF Quiet
    <3>3. Owned(m)' /\ SweepHeld'
      BY <1>7, <2>1, <2>2, <3>1 DEF Owned, SweepHeld, Gone
    <3>4. QED
      BY <1>1, <1>2, <1>7, <2>1, <3>1, <3>2, <3>3, SweepFrame
  <2>5. CASE SweepRmdir
    <3>1. /\ UNCHANGED <<hash, env, dyn, claim, live, bound, overlapped>>
          /\ sweep'.cur = NoName /\ sweep'.pc = "check"
      BY <1>4, <2>5 DEF SweepRmdir, Sweeps, SweepIdle
    <3>2. \A n \in Name : Quiet(n)
      BY <3>1 DEF Quiet
    <3>3. Owned(m)' /\ SweepHeld'
      BY <2>1, <3>1, <3>2, QuietOwned DEF SweepHeld
    <3>4. QED
      BY <1>1, <1>2, <1>7, <2>1, <3>1, <3>2, <3>3, SweepFrame
  <2>6. QED
    BY <1>7, <2>3, <2>4, <2>5
<1>8. CASE SweepUnmap \/ SweepRemove \/ SweepRmdir
  <2>1. sweep.cur \in Name
    BY <1>1, <1>8, Busy DEF SweepUnmap, SweepRemove, SweepRmdir
  <2>2. QED
    BY <1>7, <1>8, <2>1
<1>9. QED
  BY <1>5, <1>6, <1>8 DEF Sweeper

LEMMA DrainerOwn ==
    ASSUME OwnInv, Drainer
    PROVE  OwnInv'
<1> USE DEF disk, memory, history
<1>1. TypeOK /\ TypeOK'
  BY DrainerType DEF OwnInv
<1>2. drain.pc = "busy" => up
  BY DEF OwnInv, Stopped, DrainIdle
<1>3. CASE DrainStart \/ DrainEnd
  <2>1. UNCHANGED <<up, req, sweep, hash, env, claim, live, bound, dyn>> /\ up
    BY <1>2, <1>3 DEF DrainStart, DrainEnd, Begins
  <2>2. /\ \A n \in drain'.todo : n \in overlapped' \/ ~InUse(n)
        /\ overlapped \subseteq overlapped'
    BY <1>3 DEF DrainStart, DrainEnd, DrainIdle, Begins
  <2>3. \A n \in Name : Quiet(n)
    BY <2>1 DEF Quiet
  <2>4. QED
    BY <1>1, <2>1, <2>2, <2>3, NoAccountFrame
\* The released name is not used by a request or the purge.
<1>4. ASSUME NEW m \in Name, NEW ok \in BOOLEAN, DrainRelease(m, ok) PROVE OwnInv'
  <2>1. /\ UNCHANGED <<up, req, sweep, hash, env, dyn, live, overlapped>> /\ up
        /\ m \in drain.todo /\ drain'.todo \subseteq drain.todo
        /\ claim' = claim \/ claim' = [claim EXCEPT ![m] = NoDID]
        /\ bound' = [bound EXCEPT ![m] = NoDID]
    <3>1. drain'.todo = drain.todo \ {m}
      BY <1>1, <1>4 DEF DrainRelease, TypeOK
    <3>2. QED
      BY <1>2, <1>4, <3>1 DEF DrainRelease
  <2>2. claim \in [Name -> DID \cup {NoDID}] /\ bound \in [Name -> DID \cup {NoDID}]
    BY <1>1 DEF TypeOK
  <2>3. \A n \in Name \ {m} : Quiet(n)
    BY <2>1, <2>2 DEF Quiet
  <2>4. Owned(m)'
    BY <2>1, <2>2 DEF OwnInv, Owned
  <2>5. ASSUME NEW n \in Name PROVE Owned(n)'
    BY <2>1, <2>3, <2>4, QuietOwned DEF OwnInv
  <2>6. m \in overlapped \/ \A s \in Req : req[s].name # m
    BY <1>1, <2>1, Busy DEF OwnInv, Exclusive
  <2>7. ASSUME NEW s \in Req PROVE Held(s)'
    <3>1. (req[s].pc # "idle" /\ req[s].name \notin overlapped) => Quiet(req[s].name)
      BY <1>1, <2>3, <2>6, Busy
    <3>2. QED
      BY <2>1, <3>1, QuietHeld DEF OwnInv
  <2>8. SweepHeld' /\ Stopped'
    BY <2>1 DEF OwnInv, SweepHeld, Stopped, Gone
  <2>9. Exclusive'
    BY <2>1 DEF OwnInv, Exclusive
  <2>10. QED
    BY <1>1, <2>5, <2>7, <2>8, <2>9 DEF OwnInv
<1>5. QED
  BY <1>3, <1>4 DEF Drainer

\* What start-up makes of a name: nothing is left of one whose domain does not
\* resolve, and nothing is lost of any other that has a credential.
Vanished(n) ==
    /\ hash[n] = NoCred /\ env[n] = NoCred /\ n \notin dyn
    /\ live[n] = {} /\ bound[n] = NoDID

Restored(n) ==
    /\ hash'[n] = hash[n] /\ env'[n] \in {env[n], NoCred}
    /\ n \in dyn' => hash[n] # NoCred
    /\ live'[n] = live[n] /\ bound'[n] = bound[n] /\ claim'[n] = claim[n]

LEMMA StartupKeeps ==
    ASSUME TypeOK, NEW recovered \in SUBSET Name, NEW unread \in SUBSET Custom,
           Startup(recovered, unread), NEW n \in Name
    PROVE  /\ n \in UNION unread => Vanished(n)'
           /\ n \notin UNION unread => Restored(n)
<1>1. /\ hash'[n] = IF CleanupKeeps(n, UNION unread) THEN hash[n] ELSE NoCred
      /\ env'[n] = IF CleanupKeeps(n, UNION unread) THEN env[n] ELSE NoCred
      /\ live'[n] = IF n \in UNION unread THEN {} ELSE live[n]
      /\ bound'[n] = IF n \in UNION unread THEN NoDID ELSE bound[n]
      /\ dyn' = recovered /\ claim' = claim
      /\ n \in recovered => n \notin UNION unread /\ Recoverable(n)
  BY DEF Startup, Cleaned
<1>2. CASE n \in UNION unread
  BY <1>1, <1>2 DEF CleanupKeeps, Vanished
<1>3. CASE n \notin UNION unread
  BY <1>1, <1>3 DEF CleanupKeeps, Restored, Recoverable
<1>4. QED
  BY <1>2, <1>3

LEMMA EnvironmentOwn ==
    ASSUME OwnInv, Environment
    PROVE  OwnInv'
<1> USE DEF disk, memory, history
<1>1. TypeOK /\ TypeOK'
  BY EnvironmentType DEF OwnInv
<1>2. ASSUME NEW n \in Name, Touch(n) \/ StorePeerKey(n) \/ Age(n) PROVE OwnInv'
  <2>1. UNCHANGED <<up, req, sweep, drain, hash, env, claim, live, bound, dyn, overlapped>>
    BY <1>2 DEF Touch, StorePeerKey, Age
  <2>2. \A k \in Name : Quiet(k)
    BY <2>1 DEF Quiet
  <2>3. QED
    BY <1>1, <2>1, <2>2, NoAccountFrame
<1>3. CASE Crash
  <2>1. /\ ~up' /\ dyn' = {} /\ \A r \in Req : req'[r] = Idle
        /\ sweep' = SweepIdle /\ drain' = DrainIdle
        /\ UNCHANGED <<hash, env, claim, live, bound, overlapped>>
    BY <1>3 DEF Crash
  <2>2. Exclusive' /\ Stopped' /\ SweepHeld' /\ \A r \in Req : Held(r)'
    BY <2>1 DEF Exclusive, Stopped, SweepHeld, Held, Idle, SweepIdle, DrainIdle
  <2>3. \A n \in Name : Owned(n)'
    BY <2>1 DEF OwnInv, Owned
  <2>4. QED
    BY <1>1, <2>2, <2>3 DEF OwnInv
<1>4. ASSUME NEW recovered \in SUBSET Name, NEW unread \in SUBSET Custom,
             Startup(recovered, unread)
      PROVE  OwnInv'
  <2>1. \A n \in Name : /\ n \in UNION unread => Vanished(n)'
                        /\ n \notin UNION unread => Restored(n)
    BY <1>1, <1>4, StartupKeeps
  <2>2. ~up /\ up' /\ UNCHANGED <<req, sweep, drain, overlapped>>
    BY <1>4 DEF Startup
  <2>3. sweep = SweepIdle /\ drain = DrainIdle /\ \A r \in Req : req[r] = Idle
    BY <2>2 DEF OwnInv, Stopped
  <2>4. Exclusive' /\ Stopped' /\ SweepHeld' /\ \A r \in Req : Held(r)'
    BY <2>2, <2>3 DEF Exclusive, Stopped, SweepHeld, Held, Idle, SweepIdle, DrainIdle
  <2>5. ASSUME NEW n \in Name PROVE Owned(n)'
    BY <2>1, <2>2 DEF OwnInv, Owned, Vanished, Restored
  <2>6. QED
    BY <1>1, <2>4, <2>5 DEF OwnInv
<1>5. QED
  BY <1>2, <1>3, <1>4 DEF Environment, Restart

LEMMA NextOwn == OwnInv /\ [Next]_vars => OwnInv'
<1> SUFFICES ASSUME OwnInv, [Next]_vars PROVE OwnInv'
  OBVIOUS
<1>1. CASE UNCHANGED vars
  <2>1. UNCHANGED <<up, hash, env, dir, peers, dyn, stores, aliases, claim, req, sweep, drain,
                    live, bound, unopened, overlapped>>
    BY <1>1 DEF vars, disk, memory, history
  <2>2. TypeOK'
    BY <2>1 DEF OwnInv, TypeOK
  <2>3. Exclusive' /\ Stopped' /\ SweepHeld'
    BY <2>1 DEF OwnInv, Exclusive, Stopped, SweepHeld, Gone
  <2>4. (\A n \in Name : Owned(n)') /\ \A r \in Req : Held(r)'
    BY <2>1 DEF OwnInv, Owned, Held, Gone
  <2>5. QED
    BY <2>2, <2>3, <2>4 DEF OwnInv
<1>2. CASE Next
  BY <1>2, RequestOwn, SweeperOwn, DrainerOwn, EnvironmentOwn DEF Next
<1>3. QED
  BY <1>1, <1>2

\* It takes overlapping operations on a name to have two owners: otherwise the
\* credential on disk is the only one that was ever acknowledged.
THEOREM OneOwnerOnly == Spec => []OneOwner
<1>1. OwnInv => OneOwner
  BY DEF OwnInv, Owned, OneOwner
<1>2. QED
  BY InitOwn, NextOwn, <1>1, PTL DEF Spec

\* A DID the relay acknowledged stays claimed at the anchor.
THEOREM AcknowledgedClaimHolds == Spec => []AckedClaim
<1>1. OwnInv => AckedClaim
  BY DEF OwnInv, Owned, AckedClaim
<1>2. QED
  BY InitOwn, NextOwn, <1>1, PTL DEF Spec

\* A credential on disk goes only by a delete its holder asked for, by the purge
\* or with its domain, unless operations on the name overlapped.
THEOREM DeletedByOwner == Spec => OwnDeleteOnly
<1> DEFINE Goes(n) == hash[n] # NoCred /\ hash'[n] = NoCred
           Asked(n) == \/ sweep.cur = n /\ sweep.pc = "remove"
                       \/ \E r \in Req : req[r].name = n /\ req[r].pc = "remove"
                                         /\ req[r].cred = hash[n]
                       \/ ~up /\ n \in UNION Custom
           Rightly == \A n \in Name \ overlapped : Goes(n) => Asked(n)
<1> USE DEF disk, memory, history
<1>1. ASSUME OwnInv, [Next]_vars PROVE [Rightly]_vars
  <2>1. TypeOK /\ hash \in [Name -> Cred \cup {NoCred}] /\ NoCred \notin Cred
    BY <1>1, NullAssumption DEF OwnInv, TypeOK
  <2>2. ASSUME NEW r \in Req, DeleteRemove(r) PROVE Rightly
    <3>1. req[r].pc = "remove" /\ hash' = [hash EXCEPT ![req[r].name] = NoCred]
      BY <2>2 DEF DeleteRemove, RemoveFiles
    <3>2. req[r].name \in overlapped \/ hash[req[r].name] = req[r].cred
      BY <1>1, <3>1 DEF OwnInv, Held
    <3>3. QED
      BY <2>1, <3>1, <3>2
  <2>3. ASSUME NEW r \in Req, ProvisionWrite(r) PROVE Rightly
    <3>1. req[r].cred \in Cred
      BY <2>1, <2>3, Busy DEF ProvisionWrite
    <3>2. QED
      BY <2>1, <2>3, <3>1 DEF ProvisionWrite
  <2>4. ASSUME NEW r \in Req, Request(r), ~DeleteRemove(r), ~ProvisionWrite(r) PROVE hash' = hash
    BY <2>4 DEF Request, ProvisionArrive, ProvisionCheckHash, ProvisionClaimOk, ClaimRefused,
       ProvisionMkdir, ProvisionRegister, DeleteArrive, DeleteUnmap, DeleteRelease,
       DeleteRmdir, DidArrive, DidClaimOk, EnvelopeArrive, EnvelopeWrite
  <2>5. CASE SweepRemove
    BY <2>1, <2>5 DEF SweepRemove, RemoveFiles
  <2>6. (Sweeper /\ ~SweepRemove) => hash' = hash
    BY DEF Sweeper, SweepStart, SweepKeep, SweepCondemn, SweepUnmap, SweepRmdir, SweepEnd
  <2>7. Drainer => hash' = hash
    BY DEF Drainer, DrainStart, DrainRelease, DrainEnd
  <2>8. ASSUME NEW recovered \in SUBSET Name, NEW unread \in SUBSET Custom,
               Startup(recovered, unread)
        PROVE  Rightly
    <3>1. \A n \in Name : n \in UNION unread \/ hash'[n] = hash[n]
      BY <2>1, <2>8, StartupKeeps DEF Restored
    <3>2. UNION unread \subseteq UNION Custom /\ ~up
      BY <2>8 DEF Startup
    <3>3. QED
      BY <3>1, <3>2
  <2>9. Environment => Rightly
    <3>1. ASSUME NEW n \in Name, Touch(n) \/ StorePeerKey(n) \/ Age(n) PROVE hash' = hash
      BY <3>1 DEF Touch, StorePeerKey, Age
    <3>2. Crash => hash' = hash
      BY DEF Crash
    <3>3. QED
      BY <2>8, <3>1, <3>2 DEF Environment, Restart
  <2>10. QED
    BY <1>1, <2>2, <2>3, <2>4, <2>5, <2>6, <2>7, <2>9 DEF Next
<1>2. QED
  BY InitOwn, NextOwn, <1>1, PTL DEF Spec, OwnDeleteOnly

-----------------------------------------------------------------------------
(* The log-in of acknowledged owners.                                      *)

\* While the relay serves, an address that has owners is in a map log-in reads,
\* or its store did not open, or the scan at start-up skipped it.
Registered ==
    up => \A n \in Name \ overlapped :
             live[n] # {} => n \in Static \cup dyn \cup unopened \cup Reserved

LEMMA NextRegistered == (OwnInv /\ Registered) /\ [Next]_vars => Registered'
<1> USE DEF disk, memory, history
<1> SUFFICES ASSUME OwnInv, Registered, [Next]_vars PROVE Registered'
  OBVIOUS
<1>1. TypeOK /\ live \in [Name -> SUBSET Cred] /\ NoCred \notin Cred
  BY NullAssumption DEF OwnInv, TypeOK
<1>2. (UNCHANGED <<up, live, dyn, unopened>> /\ overlapped \subseteq overlapped') => Registered'
  BY DEF Registered
<1>3. ASSUME NEW m, Unmap(m), Forget(m), up' = up PROVE Registered'
  BY <1>1, <1>3 DEF Unmap, Forget, Registered
<1>4. ASSUME NEW r \in Req, Request(r) PROVE Registered'
  <2>1. ASSUME NEW e \in Cred \cup {NoCred}, NEW opened \in BOOLEAN,
               ProvisionRegister(r, e, opened)
        PROVE  Registered'
    BY <1>1, <2>1 DEF ProvisionRegister, Register, Registered
  <2>2. CASE DeleteUnmap(r)
    BY <1>3, <2>2 DEF DeleteUnmap
  <2>3. ASSUME NEW n \in Name, NEW c \in Cred, NEW d \in DID \cup {NoDID},
               \/ ProvisionArrive(r, n, c, d) \/ DidArrive(r, n, c, d)
               \/ DeleteArrive(r, n, c) \/ EnvelopeArrive(r, n, c)
        PROVE  Registered'
    BY <1>2, <2>3 DEF ProvisionArrive, DidArrive, DeleteArrive, EnvelopeArrive, Begins
  <2>4. QED
    BY <1>2, <1>4, <2>1, <2>2, <2>3 DEF Request, ProvisionCheckHash, ProvisionClaimOk,
       ClaimRefused, ProvisionMkdir, ProvisionWrite, DeleteRelease, DeleteRemove,
       DeleteRmdir, DidClaimOk, EnvelopeWrite
<1>5. CASE Sweeper
  BY <1>2, <1>3, <1>5 DEF Sweeper, SweepStart, SweepKeep, SweepCondemn, SweepUnmap,
     SweepRemove, SweepRmdir, SweepEnd, Begins
<1>6. CASE Drainer
  BY <1>2, <1>6 DEF Drainer, DrainStart, DrainRelease, DrainEnd, Begins
<1>7. CASE Environment
  <2>1. ASSUME NEW recovered \in SUBSET Name, NEW unread \in SUBSET Custom,
               Startup(recovered, unread), NEW n \in Name \ overlapped, live'[n] # {}
        PROVE  n \in Static \cup recovered \cup unopened' \cup Reserved
    <3>1. n \notin UNION unread /\ live'[n] = live[n]
      BY <1>1, <2>1, StartupKeeps DEF Vanished, Restored
    <3>2. hash[n] # NoCred
      BY <1>1, <2>1, <3>1 DEF OwnInv, Owned
    <3>3. QED
      BY <2>1, <3>1, <3>2 DEF Startup, Recoverable
  <2>2. ASSUME NEW recovered \in SUBSET Name, NEW unread \in SUBSET Custom,
               Startup(recovered, unread)
        PROVE  Registered'
    <3>1. dyn' = recovered /\ overlapped' = overlapped
      BY <2>2 DEF Startup
    <3>2. QED
      BY <2>1, <2>2, <3>1 DEF Registered
  <2>3. Crash => Registered'
    BY DEF Crash, Registered
  <2>4. QED
    BY <1>2, <1>7, <2>2, <2>3 DEF Environment, Restart, Touch, StorePeerKey, Age
<1>8. CASE UNCHANGED vars
  BY <1>2, <1>8 DEF vars
<1>9. QED
  BY <1>4, <1>5, <1>6, <1>7, <1>8 DEF Next

\* On every name whose operations have not overlapped: every owner answered 201
\* keeps the credential and can log in until the removal of the account begins,
\* a registered name has a credential, and the envelope beside it is its
\* owner's.
THEOREM OwnersAlwaysServed == Spec => []OwnersServed
<1>1. OwnInv /\ Registered => OwnersServed
  <2>1. SUFFICES ASSUME OwnInv, Registered PROVE OwnersServed
    OBVIOUS
  <2>2. live \in [Name -> SUBSET Cred] /\ NoCred \notin Cred /\ dyn \subseteq Name
    BY <2>1, NullAssumption DEF OwnInv, TypeOK
  <2>3. OneOwner /\ AckedLogin
    BY <2>1, <2>2 DEF OwnInv, Owned, Registered, OneOwner, AckedLogin, Authenticated
  <2>4. TakenHasCredential /\ EnvelopeOfOwner
    BY <2>1, <2>2 DEF OwnInv, Owned, TakenHasCredential, EnvelopeOfOwner
  <2>5. QED
    BY <2>3, <2>4 DEF OwnersServed
<1>2. Init => Registered
  BY DEF Init, Registered
<1>3. QED
  BY InitOwn, NextOwn, NextRegistered, <1>1, <1>2, PTL DEF Spec

-----------------------------------------------------------------------------
(* Every name goes through the cycle of AccountLife.                       *)

\* A step that changes at most one request, which neither is nor comes to be
\* about to register n, does not change who is recording n.
LEMMA RecordingFrame ==
    ASSUME NEW r \in Req, \A s \in Req \ {r} : req'[s] = req[s], NEW n,
           req[r].pc = "register" => req[r].name # n,
           req'[r].pc = "register" => req'[r].name # n
    PROVE  Recording(n)' <=> Recording(n)
BY DEF Recording

LEMMA SamePhase ==
    ASSUME NEW n, hash'[n] = hash[n], live'[n] = live[n], Recording(n)' <=> Recording(n)
    PROVE  Phase(n)' = Phase(n)
BY DEF Phase

\* The phase of one name changes.
LEMMA OnePhase ==
    ASSUME NEW m \in Name, \A n \in Name \ {m} : Phase(n)' = Phase(n)
    PROVE  Phases' = [Phases EXCEPT ![m] = Phase(m)']
BY DEF Phases

\* No phase changes.
LEMMA NoPhase ==
    ASSUME hash' = hash, live' = live, \A n \in Name : Recording(n)' <=> Recording(n)
    PROVE  UNCHANGED <<Phases, hash>>
<1>1. \A n \in Name : Phase(n)' = Phase(n)
  BY SamePhase
<1>2. QED
  BY <1>1 DEF Phases

\* The owners of m are forgotten: m is withdrawn, unless nobody held it.
LEMMA ForgetLife ==
    ASSUME TypeOK, NEW m \in Name, hash' = hash, live' = [live EXCEPT ![m] = {}],
           \A n \in Name : Recording(n)' <=> Recording(n), ~Recording(m)
    PROVE  [Life!Next]_<<Phases, hash>>
<1>1. live'[m] = {} /\ \A n \in Name \ {m} : live'[n] = live[n]
  BY DEF TypeOK
<1>2. \A n \in Name \ {m} : Phase(n)' = Phase(n)
  BY <1>1, SamePhase
<1>3. Phases' = [Phases EXCEPT ![m] = Phase(m)'] /\ Phases[m] = Phase(m)
  BY <1>2, OnePhase DEF Phases
<1>4. CASE Phase(m)' = Phase(m)
  BY <1>3, <1>4 DEF Phases
<1>5. CASE Phase(m)' # Phase(m)
  <2>1. Phase(m) = "held" /\ Phase(m)' = "leftover"
    BY <1>1, <1>5 DEF Phase
  <2>2. Life!Withdraw(m)
    BY <1>3, <2>1 DEF Life!Withdraw
  <2>3. QED
    BY <2>2 DEF Life!Next
<1>6. QED
  BY <1>4, <1>5

\* The files of m, which nobody holds, are removed.
LEMMA RemoveLife ==
    ASSUME TypeOK, NEW m \in Name, live' = live, hash' = [hash EXCEPT ![m] = NoCred],
           live[m] = {}, \A n \in Name : Recording(n)' <=> Recording(n), ~Recording(m)
    PROVE  [Life!Next]_<<Phases, hash>>
<1>1. hash'[m] = NoCred /\ \A n \in Name \ {m} : hash'[n] = hash[n]
  BY DEF TypeOK
<1>2. \A n \in Name \ {m} : Phase(n)' = Phase(n)
  BY <1>1, SamePhase
<1>3. Phases' = [Phases EXCEPT ![m] = Phase(m)'] /\ Phases[m] = Phase(m)
  BY <1>2, OnePhase DEF Phases
<1>4. CASE hash[m] = NoCred
  <2>1. hash' = hash /\ Phase(m)' = Phase(m)
    BY <1>1, <1>4 DEF TypeOK, Phase
  <2>2. QED
    BY <1>3, <2>1 DEF Phases
<1>5. CASE hash[m] # NoCred
  <2>1. Phase(m) = "leftover" /\ Phase(m)' = "free"
    BY <1>1, <1>5 DEF Phase
  <2>2. Life!Erase(m)
    BY <1>3, <2>1 DEF Life!Erase
  <2>3. QED
    BY <2>2 DEF Life!Next
<1>6. QED
  BY <1>4, <1>5

\* The steps of a request that neither write nor remove a credential, nor change
\* what is owed.
LEMMA QuietRequestLife ==
    ASSUME TypeOK, NEW r \in Req,
           \/ \E n \in Name, c \in Cred, d \in DID \cup {NoDID} : ProvisionArrive(r, n, c, d)
           \/ ProvisionCheckHash(r) \/ ProvisionClaimOk(r) \/ ClaimRefused(r)
           \/ ProvisionMkdir(r)
           \/ ProvisionWrite(r) /\ dir[req[r].name] = "absent"
           \/ \E n \in Name, c \in Cred : DeleteArrive(r, n, c)
           \/ DeleteRelease(r) \/ DeleteRmdir(r)
           \/ \E n \in Name, c \in Cred, d \in DID : DidArrive(r, n, c, d)
           \/ DidClaimOk(r)
           \/ \E n \in Name, c \in Cred : EnvelopeArrive(r, n, c)
           \/ \E e \in Cred \cup {NoCred} : EnvelopeWrite(r, e)
    PROVE  UNCHANGED <<Phases, hash>>
<1>1. hash' = hash /\ live' = live
  BY DEF ProvisionArrive, ProvisionCheckHash, ProvisionClaimOk, ClaimRefused, ProvisionMkdir,
     ProvisionWrite, DeleteArrive, DeleteRelease, DeleteRmdir, DidArrive, DidClaimOk,
     EnvelopeArrive, EnvelopeWrite, Begins, disk, history
<1>2. /\ \A s \in Req \ {r} : req'[s] = req[s]
      /\ req[r].pc # "register" /\ req'[r].pc # "register"
  <2>1. ASSUME NEW n \in Name, NEW c \in Cred, NEW d \in DID \cup {NoDID},
               \/ ProvisionArrive(r, n, c, d) \/ DeleteArrive(r, n, c)
               \/ DidArrive(r, n, c, d) \/ EnvelopeArrive(r, n, c)
        PROVE  /\ \A s \in Req \ {r} : req'[s] = req[s]
               /\ req[r].pc # "register" /\ req'[r].pc # "register"
    <3>1. /\ req[r].pc = "idle" /\ req \in [Req -> Requests]
          /\ \E pc \in {"hash", "unmap", "did", "env"}, e \in DID \cup {NoDID} :
                req' = [req EXCEPT ![r] = [pc |-> pc, name |-> n, cred |-> c, did |-> e]]
      BY <2>1 DEF ProvisionArrive, DeleteArrive, DidArrive, EnvelopeArrive, TypeOK
    <3>2. QED
      BY <3>1
  <2>2. CASE \/ ProvisionCheckHash(r) \/ ProvisionClaimOk(r) \/ ClaimRefused(r)
             \/ ProvisionMkdir(r)
             \/ ProvisionWrite(r) /\ dir[req[r].name] = "absent"
             \/ DeleteRelease(r) \/ DeleteRmdir(r) \/ DidClaimOk(r)
             \/ \E e \in Cred \cup {NoCred} : EnvelopeWrite(r, e)
    <3>1. /\ req[r].pc \notin {"idle", "register"}
          /\ Finish(r) \/ \E pc \in PC \ {"register"} : Goto(r, pc)
      BY <2>2 DEF ProvisionCheckHash, ProvisionClaimOk, ClaimRefused, ProvisionMkdir,
         ProvisionWrite, DeleteRelease, DeleteRmdir, DidClaimOk, EnvelopeWrite, PC
    <3>2. QED
      BY <3>1, Continues DEF Idle
  <2>3. CASE \E n \in Name, c \in Cred, d \in DID \cup {NoDID} : ProvisionArrive(r, n, c, d)
    BY <2>1, <2>3
  <2>4. CASE \E n \in Name, c \in Cred : DeleteArrive(r, n, c)
    BY <2>1, <2>4
  <2>5. CASE \E n \in Name, c \in Cred, d \in DID : DidArrive(r, n, c, d)
    BY <2>1, <2>5
  <2>6. CASE \E n \in Name, c \in Cred : EnvelopeArrive(r, n, c)
    BY <2>1, <2>6
  <2>7. QED
    BY <2>2, <2>3, <2>4, <2>5, <2>6
<1>3. \A n \in Name : Recording(n)' <=> Recording(n)
  BY <1>2, RecordingFrame
<1>4. QED
  BY <1>1, <1>3, NoPhase

\* A name is recorded where there was no owner.
LEMMA WriteLife ==
    ASSUME OwnInv, overlapped = {}, NEW r \in Req, ProvisionWrite(r), dir[req[r].name] # "absent"
    PROVE  [Life!Next]_<<Phases, hash>>
<1>1. TypeOK /\ Held(r) /\ req[r].pc = "write"
  BY DEF OwnInv, ProvisionWrite
<1>2. PICK m \in Name, c \in Cred : m = req[r].name /\ c = req[r].cred
  BY <1>1, Busy
<1>3. hash' = [hash EXCEPT ![m] = c] /\ live' = live /\ Goto(r, "register") /\ hash[m] = NoCred
  BY <1>1, <1>2 DEF ProvisionWrite, Held, history
<1>4. req'[r].pc = "register" /\ req'[r].name = m /\ \A s \in Req \ {r} : req'[s] = req[s]
  BY <1>1, <1>2, <1>3, Continues DEF PC
<1>5. hash'[m] = c /\ c # NoCred /\ \A n \in Name \ {m} : hash'[n] = hash[n]
  BY <1>1, <1>3, NullAssumption DEF TypeOK
<1>6. \A n \in Name \ {m} : Recording(n)' <=> Recording(n)
  BY <1>1, <1>4, RecordingFrame
<1>7. \A n \in Name \ {m} : Phase(n)' = Phase(n)
  BY <1>3, <1>5, <1>6, SamePhase
<1>8. Phase(m) = "free" /\ Phase(m)' = "recorded"
  BY <1>3, <1>4, <1>5 DEF Phase, Recording
<1>9. Phases' = [Phases EXCEPT ![m] = "recorded"] /\ Phases[m] = "free"
  <2>1. Phases' = [Phases EXCEPT ![m] = Phase(m)']
    BY <1>7, OnePhase
  <2>2. QED
    BY <1>8, <2>1 DEF Phases
<1>10. Life!Record(m, c)
  BY <1>3, <1>9 DEF Life!Record
<1>11. QED
  BY <1>10 DEF Life!Next

\* Only the request that is about an address can be recording it.
LEMMA SoleRecorder ==
    ASSUME TypeOK, Exclusive, overlapped = {}, NEW r \in Req, NEW m \in Name, m = req[r].name
    PROVE  Recording(m) => req[r].pc = "register"
BY NullAssumption DEF Exclusive, Recording

\* The owner of a recorded name is told.
LEMMA RegisterLife ==
    ASSUME OwnInv, overlapped = {}, NEW r \in Req,
           NEW e \in Cred \cup {NoCred}, NEW opened \in BOOLEAN, ProvisionRegister(r, e, opened)
    PROVE  [Life!Next]_<<Phases, hash>>
<1>1. TypeOK /\ Exclusive /\ Held(r) /\ req[r].pc = "register"
  BY DEF OwnInv, ProvisionRegister
<1>2. PICK m \in Name, c \in Cred : m = req[r].name /\ c = req[r].cred
  BY <1>1, Busy
<1>3. hash' = hash /\ live' = [live EXCEPT ![m] = @ \cup {c}] /\ Finish(r) /\ hash[m] = c
  BY <1>1, <1>2 DEF ProvisionRegister, Held
<1>4. req'[r] = Idle /\ \A s \in Req \ {r} : req'[s] = req[s]
  BY <1>1, <1>3, Continues
<1>5. c # NoCred /\ live'[m] # {} /\ \A n \in Name \ {m} : live'[n] = live[n]
  BY <1>1, <1>3, NullAssumption DEF TypeOK
<1>6. \A n \in Name \ {m} : Recording(n)' <=> Recording(n)
  BY <1>2, <1>4, RecordingFrame DEF Idle
<1>7. \A n \in Name \ {m} : Phase(n)' = Phase(n)
  BY <1>3, <1>5, <1>6, SamePhase
<1>8. ~Recording(m)'
  BY <1>1, <1>2, <1>4, NullAssumption DEF Exclusive, Recording, Idle
<1>9. Phase(m) = "recorded" /\ Phase(m)' = "held"
  BY <1>1, <1>2, <1>3, <1>5, <1>8 DEF Phase, Recording
<1>10. Phases' = [Phases EXCEPT ![m] = "held"] /\ Phases[m] = "recorded"
  <2>1. Phases' = [Phases EXCEPT ![m] = Phase(m)']
    BY <1>7, OnePhase
  <2>2. QED
    BY <1>9, <2>1 DEF Phases
<1>11. Life!Acknowledge(m)
  BY <1>3, <1>10 DEF Life!Acknowledge
<1>12. QED
  BY <1>11 DEF Life!Next

\* A delete withdraws and erases what no request is recording.
LEMMA DeleteLife ==
    ASSUME OwnInv, overlapped = {}, NEW r \in Req, DeleteUnmap(r) \/ DeleteRemove(r)
    PROVE  [Life!Next]_<<Phases, hash>>
<1>1. TypeOK /\ Exclusive /\ Held(r) /\ req[r].pc \in {"unmap", "remove"}
  BY DEF OwnInv, DeleteUnmap, DeleteRemove
<1>2. PICK m \in Name : m = req[r].name
  BY <1>1, Busy
<1>3. ~Recording(m)
  BY <1>1, <1>2, SoleRecorder
<1>4. \A n \in Name : Recording(n)' <=> Recording(n)
  <2>1. Goto(r, "release") \/ Goto(r, "rmdir")
    BY DEF DeleteUnmap, DeleteRemove
  <2>2. req'[r].pc # "register" /\ \A s \in Req \ {r} : req'[s] = req[s]
    BY <1>1, <2>1, Continues DEF PC
  <2>3. QED
    BY <1>1, <2>2, RecordingFrame
<1>5. CASE DeleteUnmap(r)
  <2>1. hash' = hash /\ live' = [live EXCEPT ![m] = {}]
    BY <1>2, <1>5 DEF DeleteUnmap, Forget, disk
  <2>2. QED
    BY <1>1, <1>3, <1>4, <2>1, ForgetLife
<1>6. CASE DeleteRemove(r)
  <2>1. hash' = [hash EXCEPT ![m] = NoCred] /\ live' = live /\ live[m] = {}
    BY <1>1, <1>2, <1>6 DEF DeleteRemove, RemoveFiles, history, Held, Gone
  <2>2. QED
    BY <1>1, <1>3, <1>4, <2>1, RemoveLife
<1>7. QED
  BY <1>5, <1>6

LEMMA RequestLife ==
    ASSUME OwnInv, overlapped = {}, NEW r \in Req, Request(r)
    PROVE  [Life!Next]_<<Phases, hash>>
<1>1. CASE \E e \in Cred \cup {NoCred}, opened \in BOOLEAN : ProvisionRegister(r, e, opened)
  BY <1>1, RegisterLife
<1>2. CASE ProvisionWrite(r) /\ dir[req[r].name] # "absent"
  BY <1>2, WriteLife
<1>3. CASE DeleteUnmap(r) \/ DeleteRemove(r)
  BY <1>3, DeleteLife
<1>4. CASE \/ \E n \in Name, c \in Cred, d \in DID \cup {NoDID} : ProvisionArrive(r, n, c, d)
           \/ ProvisionCheckHash(r) \/ ProvisionClaimOk(r) \/ ClaimRefused(r)
           \/ ProvisionMkdir(r)
           \/ ProvisionWrite(r) /\ dir[req[r].name] = "absent"
           \/ \E n \in Name, c \in Cred : DeleteArrive(r, n, c)
           \/ DeleteRelease(r) \/ DeleteRmdir(r)
           \/ \E n \in Name, c \in Cred, d \in DID : DidArrive(r, n, c, d)
           \/ DidClaimOk(r)
           \/ \E n \in Name, c \in Cred : EnvelopeArrive(r, n, c)
           \/ \E e \in Cred \cup {NoCred} : EnvelopeWrite(r, e)
  <2>1. UNCHANGED <<Phases, hash>>
    BY <1>4, QuietRequestLife DEF OwnInv
  <2>2. QED
    BY <2>1
<1>5. QED
  BY <1>1, <1>2, <1>3, <1>4 DEF Request

\* The purge condemns an address only when no request is about it.
LEMMA SweeperLife ==
    ASSUME OwnInv, overlapped = {}, Sweeper
    PROVE  [Life!Next]_<<Phases, hash>>
<1>1. TypeOK /\ Exclusive /\ SweepHeld
  BY DEF OwnInv
<1>2. req' = req
  BY DEF Sweeper, SweepStart, SweepKeep, SweepCondemn, SweepUnmap, SweepRemove, SweepRmdir,
     SweepEnd
<1>3. \A n \in Name : Recording(n)' <=> Recording(n)
  BY <1>2 DEF Recording
<1>4. CASE SweepUnmap \/ SweepRemove
  <2>1. PICK m \in Name : m = sweep.cur
    BY <1>1, <1>4, Busy DEF SweepUnmap, SweepRemove
  <2>2. ~Recording(m)
    BY <1>1, <2>1, NullAssumption DEF Exclusive, Recording
  <2>3. CASE SweepUnmap
    <3>1. hash' = hash /\ live' = [live EXCEPT ![m] = {}]
      BY <2>1, <2>3 DEF SweepUnmap, Forget, disk
    <3>2. QED
      BY <1>1, <1>3, <2>2, <3>1, ForgetLife
  <2>4. CASE SweepRemove
    <3>1. hash' = [hash EXCEPT ![m] = NoCred] /\ live' = live /\ live[m] = {}
      BY <1>1, <2>1, <2>4 DEF SweepRemove, RemoveFiles, history, SweepHeld, Gone
    <3>2. QED
      BY <1>1, <1>3, <2>2, <3>1, RemoveLife
  <2>5. QED
    BY <1>4, <2>3, <2>4
<1>5. CASE ~SweepUnmap /\ ~SweepRemove
  <2>1. hash' = hash /\ live' = live
    BY <1>5 DEF Sweeper, SweepStart, SweepKeep, SweepCondemn, SweepRmdir, SweepEnd, disk,
       history, Begins
  <2>2. UNCHANGED <<Phases, hash>>
    BY <1>3, <2>1, NoPhase
  <2>3. QED
    BY <2>2
<1>6. QED
  BY <1>4, <1>5

\* A crash abandons what was recorded and not acknowledged.
LEMMA CrashLife ==
    ASSUME OwnInv, overlapped = {}, Crash
    PROVE  [Life!Next]_<<Phases, hash>>
<1>1. hash' = hash /\ live' = live /\ \A r \in Req : req'[r] = Idle
  BY DEF Crash, disk, history
<1>2. \A n \in Name : ~Recording(n)'
  BY <1>1 DEF Recording, Idle
<1>3. ASSUME NEW n \in Name
      PROVE  Phase(n)' = IF Phase(n) = "recorded" THEN "leftover" ELSE Phase(n)
  <2>1. Recording(n) => live[n] = {}
    BY DEF OwnInv, Held, Recording
  <2>2. QED
    BY <1>1, <1>2, <2>1 DEF Phase
<1>4. Life!Abandon
  BY <1>1, <1>3 DEF Life!Abandon, Phases
<1>5. QED
  BY <1>4 DEF Life!Next

\* At start-up the domains that do not resolve are lost; nothing is under way.
LEMMA StartupLife ==
    ASSUME OwnInv, overlapped = {}, NEW recovered \in SUBSET Name, NEW unread \in SUBSET Custom,
           Startup(recovered, unread)
    PROVE  [Life!Next]_<<Phases, hash>>
<1>1. TypeOK /\ (\A r \in Req : req[r] = Idle) /\ req' = req
      /\ hash' = Cleaned(hash, UNION unread)
  BY DEF OwnInv, Stopped, Startup
<1>2. \A n \in Name : ~Recording(n) /\ ~Recording(n)'
  BY <1>1 DEF Recording, Idle
<1>3. ASSUME NEW n \in Name
      PROVE  /\ hash'[n] = IF n \in UNION unread THEN NoCred ELSE hash[n]
             /\ Phase(n)' = IF n \in UNION unread THEN "free" ELSE Phase(n)
  <2>1. \/ n \in UNION unread /\ hash'[n] = NoCred
        \/ n \notin UNION unread /\ hash'[n] = hash[n] /\ live'[n] = live[n]
    <3>1. /\ n \in UNION unread => Vanished(n)'
          /\ n \notin UNION unread => Restored(n)
      BY <1>1, StartupKeeps
    <3>2. QED
      BY <3>1 DEF Vanished, Restored
  <2>2. Recording(n)' <=> Recording(n)
    BY <1>2
  <2>3. CASE n \in UNION unread
    BY <2>1, <2>3 DEF Phase
  <2>4. CASE n \notin UNION unread
    BY <2>1, <2>2, <2>4, SamePhase
  <2>5. QED
    BY <2>1, <2>3, <2>4
<1>4. hash' = [n \in Name |-> IF n \in UNION unread THEN NoCred ELSE hash[n]]
  BY <1>1, <1>3 DEF Cleaned
<1>5. Phases' = [n \in Name |-> IF n \in UNION unread THEN "free" ELSE Phases[n]]
  BY <1>3 DEF Phases
<1>6. \A n \in UNION unread : Phases[n] # "recorded"
  BY <1>2, ConfigAssumption DEF Phases, Phase
<1>7. Life!Lose(UNION unread)
  BY <1>4, <1>5, <1>6 DEF Life!Lose
<1>8. QED
  BY <1>7 DEF Life!Next

LEMMA NextLife ==
    ASSUME OwnInv, overlapped = {}, [Next]_vars
    PROVE  [Life!Next]_<<Phases, hash>>
<1>1. ASSUME hash' = hash, live' = live, req' = req PROVE [Life!Next]_<<Phases, hash>>
  <2>1. \A n \in Name : Recording(n)' <=> Recording(n)
    BY <1>1 DEF Recording
  <2>2. UNCHANGED <<Phases, hash>>
    BY <1>1, <2>1, NoPhase
  <2>3. QED
    BY <2>2
<1>2. CASE Drainer
  BY <1>1, <1>2 DEF Drainer, DrainStart, DrainRelease, DrainEnd, disk, history, Begins
<1>3. CASE Environment
  <2>1. ASSUME NEW n \in Name, Touch(n) \/ StorePeerKey(n) \/ Age(n)
        PROVE  [Life!Next]_<<Phases, hash>>
    BY <1>1, <2>1 DEF Touch, StorePeerKey, Age, disk, history
  <2>2. QED
    BY <1>3, <2>1, CrashLife, StartupLife DEF Environment, Restart
<1>4. CASE UNCHANGED vars
  BY <1>1, <1>4 DEF vars, disk, history
<1>5. QED
  BY <1>2, <1>3, <1>4, RequestLife, SweeperLife DEF Next

\* The bound does what it says: no operations overlap.
Apart == overlapped = {}

LEMMA NextApart ==
    ASSUME Isolated
    PROVE  Apart /\ [Next]_vars => Apart'
<1> USE DEF history
<1> SUFFICES ASSUME overlapped = {}, [Next]_vars PROVE overlapped' = {}
  BY DEF Apart
<1>1. ASSUME NEW S, Begins(S) PROVE overlapped' = {}
  BY <1>1 DEF Begins
<1>2. ASSUME NEW r \in Req, Request(r) PROVE overlapped' = {}
  <2>1. ASSUME NEW n \in Name, NEW c \in Cred, NEW d \in DID \cup {NoDID},
               \/ ProvisionArrive(r, n, c, d) \/ DidArrive(r, n, c, d)
               \/ DeleteArrive(r, n, c) \/ EnvelopeArrive(r, n, c)
        PROVE  overlapped' = {}
    BY <1>1, <2>1 DEF ProvisionArrive, DidArrive, DeleteArrive, EnvelopeArrive
  <2>2. QED
    BY <1>2, <2>1 DEF Request, ProvisionCheckHash, ProvisionClaimOk, ClaimRefused,
       ProvisionMkdir, ProvisionWrite, ProvisionRegister, DeleteUnmap, Forget, DeleteRelease,
       DeleteRemove, DeleteRmdir, DidClaimOk, EnvelopeWrite
<1>3. CASE Sweeper
  BY <1>1, <1>3 DEF Sweeper, SweepStart, SweepKeep, SweepCondemn, SweepUnmap, Forget,
     SweepRemove, SweepRmdir, SweepEnd
<1>4. CASE Drainer
  BY <1>1, <1>4 DEF Drainer, DrainStart, DrainRelease, DrainEnd
<1>5. CASE Environment
  BY <1>5 DEF Environment, Restart, Touch, StorePeerKey, Age, Crash, Startup
<1>6. CASE UNCHANGED vars
  BY <1>6 DEF vars
<1>7. QED
  BY <1>2, <1>3, <1>4, <1>5, <1>6 DEF Next

\* Every name has one life at a time: its owner is recorded where there is none,
\* acknowledged at most once, and stays until it is withdrawn.
THEOREM LivesImplemented ==
    ASSUME Isolated
    PROVE  Spec => NamesHaveOneLife
<1>1. Init => Life!Init /\ Apart
  BY DEF Init, Life!Init, Phases, Phase, Apart
<1>2. OwnInv /\ Apart /\ [Next]_vars => [Life!Next]_<<Phases, hash>>
  BY NextLife DEF Apart
<1>3. QED
  BY InitOwn, NextOwn, NextApart, <1>1, <1>2, PTL DEF Spec, NamesHaveOneLife, Life!Spec
=============================================================================
