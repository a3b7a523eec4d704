-------------------------- MODULE AccountsProofs --------------------------
(***************************************************************************)
(* Theorems about module Accounts, for every set of names, owners, DIDs and *)
(* concurrent requests.                                                     *)
(***************************************************************************)
EXTENDS Accounts, TLAPS

\* What Goto, Finish and the arrivals do to the type of req.
LEMMA GotoType ==
    ASSUME req \in [Req -> Requests], NEW r \in Req, NEW pc \in PC, Goto(r, pc),
           req[r].pc # "idle"
    PROVE  req' \in [Req -> Requests]
<1>1. [req[r] EXCEPT !.pc = pc] \in Requests
  BY DEF Requests, Idle
<1>2. QED
  BY <1>1 DEF Goto

LEMMA FinishType ==
    ASSUME req \in [Req -> Requests], NEW r \in Req, Finish(r)
    PROVE  req' \in [Req -> Requests]
BY DEF Finish, Idle, Requests, PC

LEMMA ArriveType ==
    ASSUME req \in [Req -> Requests], NEW r \in Req, NEW pc \in PC,
           NEW n \in Name, NEW c \in Cred, NEW d \in DID \cup {NoDID},
           req' = [req EXCEPT ![r] = [pc |-> pc, name |-> n, cred |-> c, did |-> d]]
    PROVE  req' \in [Req -> Requests]
BY DEF Requests

\* A claim the anchor has granted, or refused, is a claim.
LEMMA ClaimType ==
    ASSUME claim \in [Name -> DID \cup {NoDID}], NEW n, NEW d \in DID \cup {NoDID}
    PROVE  ClaimOf(n, d) \in [Name -> DID \cup {NoDID}]
BY DEF ClaimOf

\* Every step of a request keeps the types.
LEMMA RequestType == ASSUME TypeOK, NEW r \in Req, Request(r) PROVE TypeOK'
<1> USE DEF memory, disk, history
<1>0. /\ req \in [Req -> Requests] /\ claim \in [Name -> DID \cup {NoDID}]
      /\ req[r].did \in DID \cup {NoDID}
      /\ req[r].pc # "idle" => req[r].name \in Name /\ req[r].cred \in Cred
  BY DEF TypeOK, Requests, Idle
<1>1. SUFFICES ASSUME req' \in [Req -> Requests] PROVE TypeOK'
  <2>1. req' \in [Req -> Requests]
    <3>1. \A pc \in PC : (req[r].pc # "idle" /\ Goto(r, pc)) => req' \in [Req -> Requests]
      BY <1>0, GotoType
    <3>2. Finish(r) => req' \in [Req -> Requests]
      BY <1>0, FinishType
    <3>3. ASSUME NEW n \in Name, NEW c \in Cred, NEW d \in DID \cup {NoDID},
                 NEW pc \in PC,
                 req' = [req EXCEPT ![r] = [pc |-> pc, name |-> n, cred |-> c, did |-> d]]
          PROVE  req' \in [Req -> Requests]
      BY <3>3, <1>0, ArriveType
    <3>4. {"hash", "claim", "mkdir", "write", "register", "unmap", "release",
           "remove", "rmdir", "did", "env"} \subseteq PC
      BY DEF PC
    <3>5. ASSUME NEW n \in Name, NEW c \in Cred, NEW d \in DID \cup {NoDID},
                 \/ ProvisionArrive(r, n, c, d) \/ DidArrive(r, n, c, d)
                 \/ DeleteArrive(r, n, c) \/ EnvelopeArrive(r, n, c)
          PROVE  req' \in [Req -> Requests]
      BY <3>5, <3>3, <3>4 DEF ProvisionArrive, DidArrive, DeleteArrive, EnvelopeArrive
    <3>6. ASSUME NEW e \in Cred \cup {NoCred}, NEW opened \in BOOLEAN,
                 ProvisionRegister(r, e, opened) \/ EnvelopeWrite(r, e)
          PROVE  req' \in [Req -> Requests]
      BY <3>6, <3>2 DEF ProvisionRegister, EnvelopeWrite
    <3>7. CASE ProvisionCheckHash(r) \/ ProvisionClaimOk(r) \/ ClaimRefused(r)
               \/ ProvisionMkdir(r) \/ ProvisionWrite(r)
      BY <3>1, <3>2, <3>4, <3>7 DEF ProvisionCheckHash, ProvisionClaimOk, ClaimRefused,
             ProvisionMkdir, ProvisionWrite
    <3>8. CASE DeleteUnmap(r) \/ DeleteRelease(r) \/ DeleteRemove(r) \/ DeleteRmdir(r)
               \/ DidClaimOk(r)
      BY <3>1, <3>2, <3>4, <3>8 DEF DeleteUnmap, DeleteRelease, DeleteRemove,
             DeleteRmdir, DidClaimOk
    <3>9. QED
      BY <3>5, <3>6, <3>7, <3>8, NullAssumption DEF Request
  <2>2. QED BY <2>1
<1>3. ASSUME NEW n \in Name, NEW c \in Cred, NEW d \in DID \cup {NoDID},
             \/ ProvisionArrive(r, n, c, d) \/ DidArrive(r, n, c, d)
             \/ DeleteArrive(r, n, c) \/ EnvelopeArrive(r, n, c)
      PROVE  TypeOK'
  <2>1. Begins({n}) /\ UNCHANGED <<up, disk, memory, claim, sweep, drain>>
    BY <1>3 DEF ProvisionArrive, DidArrive, DeleteArrive, EnvelopeArrive
  <2>2. QED
    BY <1>1, <2>1 DEF TypeOK, Begins
<1>4. CASE ProvisionCheckHash(r)
  BY <1>1, <1>4 DEF TypeOK, ProvisionCheckHash
<1>5. CASE ProvisionClaimOk(r) \/ ClaimRefused(r)
  <2>1. claim' \in [Name -> DID \cup {NoDID}]
    BY <1>0, <1>5, ClaimType DEF ProvisionClaimOk, ClaimRefused
  <2>2. QED
    BY <1>1, <1>5, <2>1 DEF TypeOK, ProvisionClaimOk, ClaimRefused
<1>6. CASE ProvisionMkdir(r)
  BY <1>1, <1>6 DEF TypeOK, ProvisionMkdir
<1>7. CASE ProvisionWrite(r)
  BY <1>0, <1>1, <1>7 DEF TypeOK, ProvisionWrite
<1>8. ASSUME NEW e \in Cred \cup {NoCred}, NEW opened \in BOOLEAN,
             ProvisionRegister(r, e, opened)
      PROVE  TypeOK'
  BY <1>0, <1>1, <1>8 DEF TypeOK, ProvisionRegister, Register
<1>9. CASE DeleteUnmap(r)
  BY <1>1, <1>9 DEF TypeOK, DeleteUnmap, Unmap, Forget
<1>10. CASE DeleteRelease(r)
  BY <1>1, <1>10 DEF TypeOK, DeleteRelease
<1>11. CASE DeleteRemove(r)
  BY <1>1, <1>11 DEF TypeOK, DeleteRemove, RemoveFiles
<1>12. CASE DeleteRmdir(r)
  BY <1>1, <1>12 DEF TypeOK, DeleteRmdir, RemoveDir
<1>13. CASE DidClaimOk(r)
  <2>1. claim' \in [Name -> DID \cup {NoDID}]
    BY <1>0, <1>13, ClaimType DEF DidClaimOk
  <2>2. QED
    BY <1>0, <1>1, <1>13, <2>1 DEF TypeOK, DidClaimOk
<1>14. ASSUME NEW e \in Cred \cup {NoCred}, EnvelopeWrite(r, e) PROVE TypeOK'
  BY <1>0, <1>1, <1>14 DEF TypeOK, EnvelopeWrite
<1>15. QED
  BY <1>3, <1>4, <1>5, <1>6, <1>7, <1>8, <1>9, <1>10, <1>11, <1>12, <1>13, <1>14 DEF Request

LEMMA SweeperType == ASSUME TypeOK, Sweeper PROVE TypeOK'
<1> USE DEF memory, disk, history
<1>0. NoName \notin Name /\ sweep \in Sweeps
  BY NullAssumption DEF TypeOK
<1>1. CASE SweepStart
  <2>1. {n \in Open : dir[n] # "absent"} \in SUBSET Name
    BY ConfigAssumption
  <2>2. sweep' \in Sweeps
    BY <1>1, <2>1 DEF SweepStart, Sweeps
  <2>3. QED
    BY <1>1, <2>2 DEF TypeOK, SweepStart
<1>2. ASSUME NEW n \in Name, SweepKeep(n) PROVE TypeOK'
  <2>1. sweep' \in Sweeps
    BY <1>0, <1>2 DEF SweepKeep, Sweeps, SweepIdle
  <2>2. QED
    BY <1>2, <2>1 DEF TypeOK, SweepKeep
<1>3. ASSUME NEW n \in Name, SweepCondemn(n) PROVE TypeOK'
  <2>1. sweep' \in Sweeps
    BY <1>0, <1>3 DEF SweepCondemn, Sweeps, SweepIdle
  <2>2. QED
    BY <1>3, <2>1 DEF TypeOK, SweepCondemn, Begins
<1>4. CASE SweepUnmap
  <2>1. sweep' \in Sweeps /\ sweep.cur \in Name
    BY <1>0, <1>4 DEF SweepUnmap, Sweeps, SweepIdle
  <2>2. QED
    BY <1>4, <2>1 DEF TypeOK, SweepUnmap, Unmap, Forget
<1>5. CASE SweepRemove
  <2>1. sweep' \in Sweeps /\ sweep.cur \in Name
    BY <1>0, <1>5 DEF SweepRemove, Sweeps, SweepIdle
  <2>2. QED
    BY <1>5, <2>1 DEF TypeOK, SweepRemove, RemoveFiles
<1>6. CASE SweepRmdir
  <2>1. sweep' \in Sweeps /\ sweep.cur \in Name
    <3>1. sweep \in [pc : {"unmap", "remove", "rmdir"}, todo : SUBSET Name, cur : Name]
      BY <1>0, <1>6 DEF SweepRmdir, Sweeps, SweepIdle
    <3>2. sweep' = [pc |-> "check", todo |-> sweep.todo, cur |-> NoName]
      BY <3>1, <1>6 DEF SweepRmdir
    <3>3. QED
      BY <3>1, <3>2 DEF Sweeps
  <2>2. QED
    BY <1>6, <2>1 DEF TypeOK, SweepRmdir, RemoveDir
<1>7. CASE SweepEnd
  BY <1>7 DEF TypeOK, SweepEnd, Sweeps
<1>8. QED
  BY <1>1, <1>2, <1>3, <1>4, <1>5, <1>6, <1>7 DEF Sweeper

LEMMA DrainerType == ASSUME TypeOK, Drainer PROVE TypeOK'
<1> USE DEF memory, disk, history
<1>1. CASE DrainStart
  BY <1>1 DEF TypeOK, DrainStart, Begins
<1>2. ASSUME NEW n \in Name, NEW ok \in BOOLEAN, DrainRelease(n, ok) PROVE TypeOK'
  <2>1. drain' \in [pc : {"idle", "busy"}, todo : SUBSET Name, failed : SUBSET Name]
    BY <1>2 DEF TypeOK, DrainRelease
  <2>2. claim' \in [Name -> DID \cup {NoDID}]
    BY <1>2 DEF TypeOK, DrainRelease
  <2>3. QED
    BY <1>2, <2>1, <2>2 DEF TypeOK, DrainRelease
<1>3. CASE DrainEnd
  BY <1>3 DEF TypeOK, DrainEnd, DrainIdle
<1>4. QED
  BY <1>1, <1>2, <1>3 DEF Drainer

LEMMA EnvironmentType == ASSUME TypeOK, Environment PROVE TypeOK'
<1> USE DEF memory, disk, history
<1>1. ASSUME NEW n \in Name, Touch(n) \/ Age(n) PROVE TypeOK'
  BY <1>1 DEF TypeOK, Touch, Age
<1>2. ASSUME NEW n \in Name, StorePeerKey(n) PROVE TypeOK'
  BY <1>2 DEF TypeOK, StorePeerKey
<1>3. CASE Crash
  <2>1. req' \in [Req -> Requests] /\ sweep' \in Sweeps
    BY <1>3 DEF Crash, Requests, Sweeps
  <2>2. drain' \in [pc : {"idle", "busy"}, todo : SUBSET Name, failed : SUBSET Name]
    BY <1>3 DEF Crash, DrainIdle
  <2>3. QED
    BY <1>3, <2>1, <2>2 DEF TypeOK, Crash
<1>4. ASSUME NEW recovered \in SUBSET Name, NEW unread \in SUBSET Custom,
             Startup(recovered, unread)
      PROVE  TypeOK'
  <2>1. aliases' \in [Name -> Name \cup {NoName}]
    BY <1>4, ConfigAssumption DEF Startup
  <2>2. stores' \subseteq Name /\ dyn' \subseteq Name /\ peers' \subseteq Reserved
    BY <1>4, ConfigAssumption DEF Startup, TypeOK
  <2>3. dir' \in [Name -> {"absent", "empty", "old", "new"}]
    BY <1>4 DEF Startup, TypeOK
  <2>4. hash' \in [Name -> Cred \cup {NoCred}] /\ env' \in [Name -> Cred \cup {NoCred}]
    BY <1>4 DEF Startup, TypeOK, Cleaned
  <2>5. live' \in [Name -> SUBSET Cred] /\ bound' \in [Name -> DID \cup {NoDID}]
    BY <1>4 DEF Startup, TypeOK
  <2>6. unopened' \subseteq Name /\ UNCHANGED <<claim, req, sweep, drain, overlapped>> /\ up' = TRUE
    BY <1>4 DEF Startup
  <2>7. QED
    BY <2>1, <2>2, <2>3, <2>4, <2>5, <2>6 DEF TypeOK
<1>5. QED
  BY <1>1, <1>2, <1>3, <1>4 DEF Environment, Restart

LEMMA InitType == Init => TypeOK
<1> SUFFICES ASSUME Init PROVE TypeOK
  OBVIOUS
<1>1. req \in [Req -> Requests] /\ sweep \in Sweeps
  BY DEF Init, Requests, Sweeps
<1>2. drain \in [pc : {"idle", "busy"}, todo : SUBSET Name, failed : SUBSET Name]
  BY DEF Init, DrainIdle
<1>3. QED
  BY <1>1, <1>2 DEF Init, TypeOK

LEMMA NextType == TypeOK /\ [Next]_vars => TypeOK'
<1> SUFFICES ASSUME TypeOK, [Next]_vars PROVE TypeOK'
  OBVIOUS
<1>1. CASE UNCHANGED vars
  BY <1>1 DEF vars, TypeOK
<1>2. CASE Next
  BY <1>2, RequestType, SweeperType, DrainerType, EnvironmentType DEF Next
<1>3. QED
  BY <1>1, <1>2

\* The types hold in every state of every run.
THEOREM TypeCorrect == Spec => []TypeOK
<1>1. QED
  BY InitType, NextType, PTL DEF Spec

-----------------------------------------------------------------------------
(* The maps and the static accounts.                                       *)

\* Why no step takes a static account: only addresses that are not static are
\* ever under removal. While the process is down nothing is under way.
RemovesDynamic ==
    /\ \A r \in Req : req[r].pc \in {"unmap", "release", "remove", "rmdir"}
                        => req[r].name \notin Static
    /\ sweep.cur \notin Static
    /\ ~up => sweep = SweepIdle /\ \A r \in Req : req[r] = Idle

IInv == TypeOK /\ MapsAgree /\ StaticSurvives /\ RemovesDynamic

LEMMA InitInv == Init => IInv
<1> SUFFICES ASSUME Init PROVE IInv
  OBVIOUS
<1>1. TypeOK
  BY InitType
<1>2. MapsAgree /\ StaticSurvives
  BY DEF Init, MapsAgree, StaticSurvives
<1>3. RemovesDynamic
  BY NullAssumption, ConfigAssumption DEF Init, RemovesDynamic, Idle, SweepIdle
<1>4. QED
  BY <1>1, <1>2, <1>3 DEF IInv

\* The two changes the handlers make to the maps under the lock keep them in
\* step.
LEMMA RegisterAgrees ==
    ASSUME TypeOK, MapsAgree, up, up' = up, NEW n \in Name, Register(n)
    PROVE  MapsAgree'
BY DEF TypeOK, MapsAgree, Register

LEMMA UnmapAgrees ==
    ASSUME TypeOK, MapsAgree, up, up' = up, NEW n \in Name \ Static, Unmap(n)
    PROVE  MapsAgree' /\ (\A s \in Static : s \in stores' /\ aliases'[s] = s)
<1>1. \A s \in Static : s \in stores /\ s # n /\ s \in Name
  BY ConfigAssumption DEF MapsAgree
<1>2. stores' = Static \cup dyn'
  BY <1>1 DEF MapsAgree, Unmap
<1>3. \A s \in stores' : aliases'[s] = s
  BY NullAssumption DEF MapsAgree, Unmap, TypeOK
<1>4. \A a \in Name : aliases'[a] # NoName => aliases'[a] \in stores'
  BY DEF MapsAgree, Unmap
<1>5. QED
  BY <1>1, <1>2, <1>3, <1>4 DEF MapsAgree, Unmap

\* A step that leaves the maps and the process alone.
LEMMA MapsUnchanged ==
    ASSUME MapsAgree, up' = up, UNCHANGED memory
    PROVE  MapsAgree'
BY DEF MapsAgree, memory

LEMMA RequestInv == ASSUME IInv, NEW r \in Req, Request(r) PROVE IInv'
<1> USE DEF disk, history
<1>1. TypeOK'
  BY RequestType DEF IInv
<1>2. /\ TypeOK /\ MapsAgree /\ StaticSurvives /\ RemovesDynamic
      /\ req \in [Req -> Requests] /\ NoName \notin Name /\ Static \subseteq Name
      /\ req[r].pc # "idle" => req[r].name \in Name
  BY NullAssumption, ConfigAssumption DEF IInv, TypeOK, Requests, Idle
<1>3. req[r].pc # "idle" => up
  BY <1>2 DEF RemovesDynamic, Idle
<1>4. up /\ up' = up /\ UNCHANGED sweep
  BY <1>3 DEF Request, ProvisionArrive, ProvisionCheckHash, ProvisionClaimOk, ClaimRefused,
     ProvisionMkdir, ProvisionWrite, ProvisionRegister, DeleteArrive, DeleteUnmap,
     DeleteRelease, DeleteRemove, DeleteRmdir, DidArrive, DidClaimOk, EnvelopeArrive,
     EnvelopeWrite
<1> DEFINE Removing(q) == req[q].pc \in {"unmap", "release", "remove", "rmdir"}
\* A request that starts to remove an address has passed the 403 check.
<1>5. RemovesDynamic'
  <2>1. \A q \in Req : Removing(q)' => req'[q].name \notin Static
    <3>1. CASE UNCHANGED req
      BY <1>2, <3>1 DEF RemovesDynamic
    <3>2. ASSUME NEW pc \in PC, Goto(r, pc),
                 pc \in {"unmap", "release", "remove", "rmdir"} => Removing(r)
          PROVE \A q \in Req : Removing(q)' => req'[q].name \notin Static
      BY <1>2, <3>2 DEF Goto, RemovesDynamic, Requests
    <3>3. CASE Finish(r)
      BY <1>2, <3>3 DEF Finish, RemovesDynamic, Idle
    <3>4. ASSUME NEW n \in Name, NEW c, NEW d, NEW pc,
                 req' = [req EXCEPT ![r] = [pc |-> pc, name |-> n, cred |-> c, did |-> d]],
                 pc \notin {"unmap", "release", "remove", "rmdir"} \/ n \notin Static
          PROVE \A q \in Req : Removing(q)' => req'[q].name \notin Static
      BY <1>2, <3>4 DEF RemovesDynamic
    <3>5. CASE \/ ProvisionCheckHash(r) \/ ProvisionClaimOk(r) \/ ClaimRefused(r)
               \/ ProvisionMkdir(r) \/ ProvisionWrite(r)
               \/ \E e \in Cred \cup {NoCred}, opened \in BOOLEAN : ProvisionRegister(r, e, opened)
               \/ \E e \in Cred \cup {NoCred} : EnvelopeWrite(r, e)
      BY <3>2, <3>3, <3>5 DEF ProvisionCheckHash, ProvisionClaimOk, ClaimRefused,
         ProvisionMkdir, ProvisionWrite, ProvisionRegister, EnvelopeWrite, PC
    <3>6. CASE \/ DeleteUnmap(r) \/ DeleteRelease(r) \/ DeleteRemove(r) \/ DeleteRmdir(r)
               \/ DidClaimOk(r)
      BY <3>2, <3>3, <3>6 DEF DeleteUnmap, DeleteRelease, DeleteRemove, DeleteRmdir,
         DidClaimOk, PC
    <3>7. ASSUME NEW n \in Name, NEW c \in Cred, NEW d,
                 \/ ProvisionArrive(r, n, c, d) \/ DidArrive(r, n, c, d)
                 \/ DeleteArrive(r, n, c) \/ EnvelopeArrive(r, n, c)
          PROVE \A q \in Req : Removing(q)' => req'[q].name \notin Static
      BY <3>4, <3>7 DEF ProvisionArrive, DidArrive, DeleteArrive, EnvelopeArrive, MayDelete
    <3>8. QED
      BY <3>5, <3>6, <3>7 DEF Request
  <2>2. QED
    BY <1>2, <1>4, <2>1 DEF RemovesDynamic
\* Only the registration and the unmapping touch the maps.
<1>6. MapsAgree' /\ (\A s \in Static : s \in stores' /\ aliases'[s] = s)
  <2>1. CASE UNCHANGED memory
    BY <1>2, <1>4, <2>1, MapsUnchanged DEF memory, MapsAgree
  <2>2. ASSUME NEW n \in Name, Register(n)
        PROVE  MapsAgree' /\ (\A s \in Static : s \in stores' /\ aliases'[s] = s)
    BY <1>2, <1>4, <2>2, RegisterAgrees DEF MapsAgree
  <2>3. CASE DeleteUnmap(r)
    <3>1. req[r].name \in Name \ Static
      BY <1>2, <2>3 DEF DeleteUnmap, RemovesDynamic
    <3>2. QED
      BY <1>2, <1>4, <2>3, <3>1, UnmapAgrees DEF DeleteUnmap
  <2>4. ASSUME NEW e \in Cred \cup {NoCred}, NEW opened \in BOOLEAN,
               ProvisionRegister(r, e, opened)
        PROVE  MapsAgree' /\ (\A s \in Static : s \in stores' /\ aliases'[s] = s)
    BY <1>2, <2>1, <2>2, <2>4 DEF ProvisionRegister
  <2>5. QED
    BY <2>1, <2>3, <2>4 DEF Request, ProvisionArrive, ProvisionCheckHash, ProvisionClaimOk,
       ClaimRefused, ProvisionMkdir, ProvisionWrite, DeleteArrive, DeleteRelease,
       DeleteRemove, DeleteRmdir, DidArrive, DidClaimOk, EnvelopeArrive, EnvelopeWrite
<1>7. \A s \in Static : dir'[s] \in {"old", "new"}
  <2> SUFFICES ASSUME NEW s \in Static PROVE dir'[s] \in {"old", "new"}
    OBVIOUS
  <2>0. dir[s] \in {"old", "new"} /\ s \in Name
        /\ dir \in [Name -> {"absent", "empty", "old", "new"}]
    BY <1>2, <1>4 DEF StaticSurvives, TypeOK
  <2>1. CASE UNCHANGED dir
    BY <2>0, <2>1
  <2>2. CASE ProvisionMkdir(r)
    BY <2>0, <2>2 DEF ProvisionMkdir
  <2>3. CASE ProvisionWrite(r)
    BY <2>0, <2>3 DEF ProvisionWrite
  <2>4. ASSUME NEW e \in Cred \cup {NoCred}, NEW opened \in BOOLEAN,
               ProvisionRegister(r, e, opened) \/ EnvelopeWrite(r, e)
        PROVE  dir'[s] \in {"old", "new"}
    BY <2>0, <2>4 DEF ProvisionRegister, EnvelopeWrite
  <2>5. CASE DeleteRemove(r)
    <3>1. req[r].name # s
      BY <1>2, <2>5 DEF DeleteRemove, RemovesDynamic
    <3>2. QED
      BY <2>0, <2>5, <3>1 DEF DeleteRemove, RemoveFiles
  <2>6. CASE DeleteRmdir(r)
    BY <2>0, <2>6 DEF DeleteRmdir, RemoveDir
  <2>7. QED
    BY <2>1, <2>2, <2>3, <2>4, <2>5, <2>6 DEF Request, ProvisionArrive, ProvisionCheckHash,
       ProvisionClaimOk, ClaimRefused, DeleteArrive, DeleteUnmap, DeleteRelease,
       DidArrive, DidClaimOk, EnvelopeArrive
<1>8. QED
  BY <1>1, <1>5, <1>6, <1>7 DEF IInv, StaticSurvives

LEMMA SweeperInv == ASSUME IInv, Sweeper PROVE IInv'
<1> USE DEF disk, history
<1>1. TypeOK'
  BY SweeperType DEF IInv
<1>2. /\ TypeOK /\ MapsAgree /\ StaticSurvives /\ RemovesDynamic /\ sweep \in Sweeps
      /\ dir \in [Name -> {"absent", "empty", "old", "new"}]
      /\ NoName \notin Name /\ Static \subseteq Name
  BY NullAssumption, ConfigAssumption DEF IInv, TypeOK
<1>3. /\ up /\ up' = up /\ UNCHANGED req
      /\ sweep.pc \in {"unmap", "remove", "rmdir"} => sweep.cur \in Name \ Static
  <2>1. sweep.pc # "idle" => up
    BY <1>2 DEF SweepIdle, RemovesDynamic
  <2>2. up /\ up' = up /\ UNCHANGED req
    BY <2>1 DEF Sweeper, SweepStart, SweepKeep, SweepCondemn, SweepUnmap, SweepRemove,
       SweepRmdir, SweepEnd
  <2>3. sweep.pc \in {"unmap", "remove", "rmdir"} => sweep.cur \in Name \ Static
    BY <1>2 DEF Sweeps, SweepIdle, RemovesDynamic
  <2>4. QED
    BY <2>2, <2>3
\* KeepInSweep keeps the static accounts.
<1>4. RemovesDynamic'
  <2>1. sweep'.cur \notin Static
    <3>1. ASSUME NEW n \in Name, SweepCondemn(n) PROVE sweep'.cur \notin Static
      BY <3>1 DEF SweepCondemn, KeepInSweep
    <3>2. ASSUME NEW n \in Name, SweepKeep(n) PROVE sweep'.cur \notin Static
      BY <1>2, <3>2 DEF SweepKeep, RemovesDynamic, Sweeps, SweepIdle
    <3>3. CASE SweepStart \/ SweepEnd
      BY <1>2, <3>3 DEF SweepStart, SweepEnd, SweepIdle
    <3>5. CASE SweepRmdir
      <4>1. sweep \in [pc : {"unmap", "remove", "rmdir"}, todo : SUBSET Name, cur : Name]
        BY <1>2, <3>5 DEF SweepRmdir, Sweeps, SweepIdle
      <4>2. QED
        BY <1>2, <3>5, <4>1 DEF SweepRmdir
    <3>4. CASE SweepUnmap \/ SweepRemove
      <4>1. sweep'.cur = sweep.cur
        BY <1>2, <3>4 DEF SweepUnmap, SweepRemove, Sweeps, SweepIdle
      <4>2. QED
        BY <1>2, <4>1 DEF RemovesDynamic
    <3>6. QED
      BY <3>1, <3>2, <3>3, <3>4, <3>5 DEF Sweeper
  <2>2. QED
    BY <1>2, <1>3, <2>1 DEF RemovesDynamic
<1>5. MapsAgree' /\ (\A s \in Static : s \in stores' /\ aliases'[s] = s)
  <2>1. CASE UNCHANGED memory
    BY <1>2, <1>3, <2>1, MapsUnchanged DEF memory, MapsAgree
  <2>2. CASE SweepUnmap
    BY <1>2, <1>3, <2>2, UnmapAgrees DEF SweepUnmap
  <2>3. QED
    BY <2>1, <2>2 DEF Sweeper, SweepStart, SweepKeep, SweepCondemn, SweepRemove,
       SweepRmdir, SweepEnd
<1>6. \A s \in Static : dir'[s] \in {"old", "new"}
  <2> SUFFICES ASSUME NEW s \in Static PROVE dir'[s] \in {"old", "new"}
    OBVIOUS
  <2>0. dir[s] \in {"old", "new"} /\ s \in Name
    BY <1>2, <1>3 DEF StaticSurvives
  <2>1. CASE UNCHANGED dir
    BY <2>0, <2>1
  <2>2. CASE SweepRemove
    <3>1. sweep.cur # s
      BY <1>2 DEF RemovesDynamic
    <3>2. QED
      BY <1>2, <2>0, <2>2, <3>1 DEF SweepRemove, RemoveFiles
  <2>3. CASE SweepRmdir
    BY <1>2, <2>0, <2>3 DEF SweepRmdir, RemoveDir
  <2>4. QED
    BY <2>1, <2>2, <2>3 DEF Sweeper, SweepStart, SweepKeep, SweepCondemn, SweepUnmap,
       SweepEnd
<1>7. QED
  BY <1>1, <1>3, <1>4, <1>5, <1>6 DEF IInv, StaticSurvives

\* The drain touches the anchor only.
LEMMA DrainerInv == ASSUME IInv, Drainer PROVE IInv'
<1>1. TypeOK'
  BY DrainerType DEF IInv
<1>2. UNCHANGED <<up, dir, stores, dyn, aliases, req, sweep>>
  BY DEF Drainer, DrainStart, DrainRelease, DrainEnd, memory, disk
<1>3. QED
  BY <1>1, <1>2 DEF IInv, MapsAgree, StaticSurvives, RemovesDynamic

LEMMA EnvironmentInv == ASSUME IInv, Environment PROVE IInv'
<1> USE DEF disk, history
<1>1. TypeOK'
  BY EnvironmentType DEF IInv
<1>2. /\ TypeOK /\ MapsAgree /\ StaticSurvives /\ RemovesDynamic
      /\ dir \in [Name -> {"absent", "empty", "old", "new"}]
      /\ aliases \in [Name -> Name \cup {NoName}]
      /\ NoName \notin Name /\ Static \subseteq Name
  BY NullAssumption, ConfigAssumption DEF IInv, TypeOK
<1>3. ASSUME NEW n \in Name, Touch(n) \/ StorePeerKey(n) \/ Age(n) PROVE IInv'
  <2>1. UNCHANGED <<up, memory, req, sweep>>
    BY <1>3 DEF Touch, StorePeerKey, Age
  <2>2. up => \A s \in Static : dir'[s] \in {"old", "new"}
    BY <1>2, <1>3 DEF Touch, StorePeerKey, Age, StaticSurvives
  <2>3. QED
    BY <1>1, <1>2, <2>1, <2>2, MapsUnchanged
    DEF IInv, StaticSurvives, RemovesDynamic, memory
<1>4. CASE Crash
  <2>1. MapsAgree' /\ StaticSurvives'
    BY <1>4 DEF Crash, MapsAgree, StaticSurvives
  <2>2. RemovesDynamic'
    BY <1>2, <1>4 DEF Crash, RemovesDynamic, Idle, SweepIdle
  <2>3. QED
    BY <1>1, <2>1, <2>2 DEF IInv
\* The alias map is rebuilt: a scanned account takes its own address even if it
\* is a configured alias.
<1>5. ASSUME NEW recovered \in SUBSET Name, NEW unread \in SUBSET Custom,
             Startup(recovered, unread)
      PROVE  IInv'
  <2>1. stores' = Static \cup recovered /\ dyn' = recovered /\ up'
    BY <1>5 DEF Startup
  <2>2. \A a \in Name : aliases'[a] = IF a \in Static \cup recovered THEN a
                                      ELSE IF a \in DOMAIN StaticRoute THEN StaticRoute[a]
                                      ELSE NoName
    BY <1>5 DEF Startup
  <2>3. MapsAgree'
    BY <1>2, <2>1, <2>2, ConfigAssumption DEF MapsAgree
  <2>4. StaticSurvives'
    BY <1>2, <1>5, <2>1, <2>2 DEF StaticSurvives, Startup
  <2>5. RemovesDynamic'
    BY <1>2, <1>5 DEF RemovesDynamic, Startup
  <2>6. QED
    BY <1>1, <2>3, <2>4, <2>5 DEF IInv
<1>6. QED
  BY <1>3, <1>4, <1>5 DEF Environment, Restart

LEMMA NextInv == IInv /\ [Next]_vars => IInv'
<1> SUFFICES ASSUME IInv, [Next]_vars PROVE IInv'
  OBVIOUS
<1>1. CASE UNCHANGED vars
  BY <1>1 DEF vars, IInv, TypeOK, MapsAgree, StaticSurvives, RemovesDynamic
<1>2. CASE Next
  BY <1>2, RequestInv, SweeperInv, DrainerInv, EnvironmentInv DEF Next
<1>3. QED
  BY <1>1, <1>2

\* The maps agree in every state, for any number of concurrent requests.
THEOREM MapsAlwaysAgree == Spec => []MapsAgree
<1>1. IInv => MapsAgree
  BY DEF IInv
<1>2. QED
  BY InitInv, NextInv, <1>1, PTL DEF Spec

\* No static account is ever lost.
THEOREM StaticAlwaysSurvives == Spec => []StaticSurvives
<1>1. IInv => StaticSurvives
  BY DEF IInv
<1>2. QED
  BY InitInv, NextInv, <1>1, PTL DEF Spec
=============================================================================
