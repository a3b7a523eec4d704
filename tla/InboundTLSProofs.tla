-------------------------- MODULE InboundTLSProofs --------------------------
(***************************************************************************)
(* Theorems about module InboundTLS: what a handshake is served while the   *)
(* certificate is being renewed, for any number of handshakes, renewals and *)
(* crashes.                                                                *)
(***************************************************************************)
EXTENDS InboundTLS, TLAPS

-----------------------------------------------------------------------------
(* The inductive invariant.                                                *)

\* The renewal writes version after version, and each moves the time on: by one
\* when the file is truncated, by at most one more when it is filled.
Renewing ==
    /\ "cert" \notin writing.files =>
          cert.version = writing.version /\ cert.mt <= 2 * writing.version
    /\ "cert" \in writing.files =>
          /\ cert.version < writing.version
          /\ cert.version = 0 => cert.mt <= 2 * writing.version - 1
          /\ cert.version # 0 => cert.mt <= 2 * writing.version - 2

\* The version in the certificate file, or the one that will be there next.
Newest == IF cert.version # 0 THEN cert.version ELSE writing.version

\* A version v that was read from the file after its time was mt: if the time
\* has not changed since, neither has the file.
ReadAt(v, mt) == v <= Newest /\ (mt = cert.mt => v = cert.version)

\* The reloader holds a pair that was read after the time it remembers.
CacheInv ==
    /\ modTime <= cert.mt
    /\ cached # None => /\ cached.cert # 0 /\ cached.cert = cached.key
                        /\ ReadAt(cached.cert, modTime)

\* A handshake that is loading has read the certificate after the time, and
\* after whatever is cached was read.
LoadInv ==
    \A h \in Handshake :
        /\ get[h].at # "idle" => get[h].mt <= cert.mt
        /\ (get[h].at \in {"key", "done"} /\ get[h].cert # 0) =>
              /\ ReadAt(get[h].cert, get[h].mt)
              /\ cached # None => cached.cert <= get[h].cert

\* The listener is told what to use at the end of start-up.
StartInv ==
    /\ pc # "up" => uses = None
    /\ pc = "selfkey" => self.cert # 0
    /\ SelfSignedUsable

IInv == TypeOK /\ Renewing /\ CacheInv /\ LoadInv /\ StartInv

-----------------------------------------------------------------------------
LEMMA InitInv == ASSUME Init PROVE IInv
<1> USE BoundsAssumption, NullAssumption
<1>1. PICK v \in {0, 1} : /\ cert = [version |-> v, mt |-> v] /\ pkey = v
                          /\ writing = [files |-> {}, version |-> v]
  BY DEF Init
<1>2. TypeOK
  BY <1>1 DEF Init, TypeOK, Version, Time, Idle, Pair, Pairs, Files
<1>3. Renewing /\ CacheInv /\ LoadInv /\ StartInv
  BY <1>1 DEF Init, Renewing, CacheInv, LoadInv, StartInv, SelfSignedUsable, Idle
<1>4. QED
  BY <1>2, <1>3 DEF IInv

\* A step of the renewal changes the two files and nothing else; a version is
\* only ever followed by a later one, and the time moves on with it.
LEMMA RenewalStep ==
    ASSUME TypeOK, Renewing, Renewal
    PROVE  /\ cert' \in [version : Version, mt : Time] /\ pkey' \in Version
           /\ writing' \in [files : SUBSET Files, version : Version]
           /\ UNCHANGED <<boot, load>>
           /\ Renewing'
           /\ Newest <= Newest' /\ cert.mt <= cert'.mt
           /\ cert'.mt = cert.mt => cert'.version = cert.version \/ cert.version = 0
<1> USE BoundsAssumption DEF Version, Time, Files
<1>1. /\ cert \in [version : Version, mt : Time] /\ pkey \in Version
      /\ writing \in [files : SUBSET Files, version : Version]
  BY DEF TypeOK
<1>2. CASE Renew
  BY <1>1, <1>2 DEF Renew, Renewing, Newest, boot, load
<1>3. CASE WriteKey
  <2>1. cert' = cert /\ writing'.version = writing.version
        /\ ("cert" \in writing'.files <=> "cert" \in writing.files)
        /\ UNCHANGED <<boot, load>>
    BY <1>1, <1>3 DEF WriteKey
  <2>2. pkey' \in Version /\ writing' \in [files : SUBSET Files, version : Version]
    BY <1>1, <1>3 DEF WriteKey
  <2>3. QED
    BY <1>1, <2>1, <2>2 DEF Renewing, Newest
<1>4. CASE WriteCert
  <2>1. CASE /\ cert.version \notin {0, writing.version}
             /\ cert' = [version |-> 0, mt |-> cert.mt + 1]
             /\ UNCHANGED writing
    BY <1>1, <1>4, <2>1 DEF WriteCert, Renewing, Newest, boot, load
  <2>2. ASSUME NEW tick \in {0, 1}, cert.version = 0,
               cert' = [version |-> writing.version, mt |-> cert.mt + tick],
               writing' = [writing EXCEPT !.files = @ \ {"cert"}]
        PROVE  /\ cert' \in [version : Version, mt : Time]
               /\ writing' \in [files : SUBSET Files, version : Version]
               /\ Renewing' /\ Newest <= Newest' /\ cert.mt <= cert'.mt
    <3>1. "cert" \in writing.files
      BY <1>4 DEF WriteCert
    <3>2. /\ cert'.version = writing.version /\ cert'.mt = cert.mt + tick
          /\ "cert" \notin writing'.files /\ writing'.version = writing.version
          /\ writing' \in [files : SUBSET Files, version : Version]
      BY <1>1, <2>2
    <3>3. cert.mt + tick <= 2 * writing.version
      BY <1>1, <2>2, <3>1 DEF Renewing
    <3>4. cert' \in [version : Version, mt : Time]
      BY <1>1, <2>2, <3>3
    <3>5. QED
      BY <1>1, <2>2, <3>1, <3>2, <3>3, <3>4 DEF Renewing, Newest
  <2>3. QED
    BY <1>1, <1>4, <2>1, <2>2 DEF WriteCert, boot, load
<1>5. QED
  BY <1>2, <1>3, <1>4 DEF Renewal

\* A missing file has been read by nobody, so what has been read stays as it is.
LEMMA RenewalInv == ASSUME IInv, Renewal PROVE IInv'
<1>1. TypeOK /\ Renewing /\ CacheInv /\ LoadInv /\ StartInv
  BY DEF IInv
<1>2. /\ cert' \in [version : Version, mt : Time] /\ pkey' \in Version
      /\ writing' \in [files : SUBSET Files, version : Version]
      /\ UNCHANGED <<boot, load>> /\ Renewing'
      /\ Newest <= Newest' /\ cert.mt <= cert'.mt
      /\ cert'.mt = cert.mt => cert'.version = cert.version \/ cert.version = 0
  BY <1>1, RenewalStep
<1>3. TypeOK'
  BY <1>1, <1>2 DEF TypeOK, boot, load
<1>4. /\ cert \in [version : Version, mt : Time]
      /\ Newest \in Nat /\ Newest' \in Nat /\ cert.mt \in Nat /\ cert'.mt \in Nat
  BY <1>1, <1>3, BoundsAssumption DEF TypeOK, Newest, Version, Time
<1>5. ASSUME NEW v \in Nat \ {0}, NEW mt \in Nat, mt <= cert.mt, ReadAt(v, mt)
      PROVE  v <= Newest' /\ (mt = cert'.mt => v = cert'.version)
  BY <1>2, <1>4, <1>5 DEF ReadAt
<1>6. CacheInv'
  <2>1. cached' = cached /\ modTime' = modTime /\ modTime \in Nat
    BY <1>1, <1>2, BoundsAssumption DEF load, TypeOK, Time
  <2>2. cached # None => cached.cert \in Nat
    BY <1>1, BoundsAssumption DEF TypeOK, Pairs, Version
  <2>3. QED
    BY <1>1, <1>2, <1>4, <1>5, <2>1, <2>2 DEF CacheInv, ReadAt
<1>7. LoadInv'
  <2>1. cached' = cached /\ get' = get
    BY <1>2 DEF load
  <2>2. \A h \in Handshake : get[h].mt \in Nat /\ get[h].cert \in Nat
    <3>1. \A h \in Handshake : get[h].mt \in 0..(2 * MaxVersion) /\ get[h].cert \in 0..MaxVersion
      BY <1>1 DEF TypeOK, Time, Version
    <3>2. /\ \A x \in 0..(2 * MaxVersion) : x \in Nat
          /\ \A x \in 0..MaxVersion : x \in Nat
      BY BoundsAssumption
    <3>3. QED
      BY <3>1, <3>2
  <2>3. QED
    BY <1>1, <1>2, <1>4, <1>5, <2>1, <2>2 DEF LoadInv, ReadAt
<1>8. StartInv'
  BY <1>1, <1>2 DEF StartInv, boot, SelfSignedUsable
<1>9. QED
  BY <1>2, <1>3, <1>6, <1>7, <1>8 DEF IInv

\* Start-up touches neither the configured files nor the reloader.
LEMMA StartInvariant == ASSUME IInv, StartUp PROVE IInv'
<1> USE BoundsAssumption, NullAssumption
<1>1. TypeOK /\ Renewing /\ CacheInv /\ LoadInv /\ StartInv
  BY DEF IInv
<1>2. UNCHANGED <<disk, load, crashes>>
  BY DEF StartUp, StartCert, StartKey, StartSelf, StartSelfKey
<1>3. Renewing' /\ CacheInv' /\ LoadInv'
  BY <1>1, <1>2 DEF Renewing, CacheInv, LoadInv, ReadAt, Newest, disk, load
<1>4. /\ self' \in [cert : 0..(MaxCrash + 1), key : 0..(MaxCrash + 1)]
      /\ pc' \in {"start", "key", "self", "selfkey", "up"} /\ seen' \in Version
      /\ uses' \in {"managed", "self", None} /\ StartInv'
  <2>1. CASE StartCert
    BY <1>1, <2>1 DEF StartCert, TypeOK, StartInv, SelfSignedUsable
  <2>2. CASE StartKey
    BY <1>1, <2>2 DEF StartKey, TypeOK, StartInv, SelfSignedUsable, Version
  <2>3. CASE StartSelf
    BY <1>1, <2>3 DEF StartSelf, TypeOK, StartInv, SelfSignedUsable, SelfUsable, Loads
  <2>4. CASE StartSelfKey
    BY <1>1, <2>4 DEF StartSelfKey, TypeOK, StartInv, SelfSignedUsable
  <2>5. QED
    BY <2>1, <2>2, <2>3, <2>4 DEF StartUp
<1>5. TypeOK'
  BY <1>1, <1>2, <1>4 DEF TypeOK, disk, load
<1>6. QED
  BY <1>3, <1>4, <1>5 DEF IInv

LEMMA CrashInv == ASSUME IInv, Crash PROVE IInv'
<1> USE BoundsAssumption, NullAssumption
<1>1. TypeOK /\ Renewing /\ CacheInv /\ LoadInv /\ StartInv
  BY DEF IInv
<1>2. TypeOK'
  BY <1>1 DEF Crash, TypeOK, Idle, disk, Time, Version
<1>3. Renewing' /\ StartInv'
  BY <1>1 DEF Crash, Renewing, StartInv, SelfSignedUsable, disk
<1>4. CacheInv' /\ LoadInv'
  BY <1>1, <1>2 DEF Crash, CacheInv, LoadInv, Idle, TypeOK, Time
<1>5. QED
  BY <1>2, <1>3, <1>4 DEF IInv

\* A handshake that moves holds the mutex, so no other is loading, and the cache
\* changes only as this one's loading ends.
LEMMA GetInv == ASSUME IInv, NEW h \in Handshake, Get(h) PROVE IInv'
<1> USE BoundsAssumption, NullAssumption
<1>0. /\ TypeOK /\ Renewing /\ CacheInv /\ LoadInv /\ StartInv
      /\ get \in [Handshake -> [at : {"idle", "cert", "key", "done"}, mt : Time,
                          cert : Version, key : Version]]
      /\ cert \in [version : Version, mt : Time] /\ pkey \in Version
      /\ \A g \in Handshake : get[g].at # "idle" <=> lock = g
  BY DEF IInv, TypeOK
<1>1. UNCHANGED <<disk, boot>> /\ Renewing' /\ StartInv'
  BY <1>0 DEF Get, GetStat, GetCert, GetKey, GetDone, disk, boot, Renewing, StartInv,
              SelfSignedUsable
<1>2. \A g \in Handshake : g # h => get[g].at = "idle" /\ get'[g] = get[g]
  BY <1>0 DEF Get, GetStat, GetCert, GetKey, GetDone, Free
<1>3. CASE GetStat(h)
  <2>1. /\ get'[h] = [at |-> "cert", mt |-> cert.mt, cert |-> 0, key |-> 0]
        /\ lock' = h /\ UNCHANGED <<cached, modTime>>
    BY <1>0, <1>3 DEF GetStat, Idle
  <2>2. TypeOK'
    BY <1>0, <1>1, <1>2, <1>3, <2>1 DEF TypeOK, GetStat, disk, boot, Version, Time, Idle
  <2>3. CacheInv'
    BY <1>0, <1>1, <2>1 DEF CacheInv, ReadAt, Newest, disk
  <2>4. LoadInv'
    BY <1>0, <1>1, <1>2, <2>1 DEF LoadInv, disk, Time
  <2>5. QED
    BY <1>1, <2>2, <2>3, <2>4 DEF IInv
<1>4. CASE GetCert(h)
  <2>1. /\ get'[h] = [get[h] EXCEPT !.at = "key", !.cert = cert.version]
        /\ get[h].at = "cert" /\ UNCHANGED <<lock, cached, modTime>>
    BY <1>0, <1>4 DEF GetCert
  <2>2. TypeOK'
    <3>1. get' \in [Handshake -> [at : {"idle", "cert", "key", "done"}, mt : Time,
                            cert : Version, key : Version]]
      BY ZenonT(40), <1>0, <1>4 DEF GetCert
    <3>2. \A g \in Handshake : get'[g].at # "idle" <=> lock' = g
      BY <1>0, <1>2, <2>1
    <3>3. QED
      BY <1>0, <1>1, <2>1, <3>1, <3>2 DEF TypeOK, disk, boot, Version, Time
  <2>3. CacheInv'
    BY <1>0, <1>1, <2>1 DEF CacheInv, ReadAt, Newest, disk
  <2>4. /\ get'[h].mt = get[h].mt /\ get'[h].cert = cert.version
        /\ cert' = cert /\ writing' = writing /\ cached' = cached
    BY <1>0, <1>1, <2>1 DEF disk
  <2>5. (cert.version # 0 /\ cached # None) => cached.cert <= cert.version
    BY <1>0 DEF CacheInv, ReadAt, Newest
  <2>6. LoadInv'
    <3>1. /\ get'[h].mt <= cert'.mt
          /\ get'[h].cert # 0 => /\ ReadAt(get[h].cert, get[h].mt)'
                                 /\ cached' # None => cached'.cert <= get'[h].cert
      BY <1>0, <2>1, <2>4, <2>5 DEF LoadInv, ReadAt, Newest, Version
    <3>2. QED
      BY <1>2, <3>1 DEF LoadInv
  <2>7. QED
    BY <1>1, <2>2, <2>3, <2>6 DEF IInv
<1>5. CASE GetKey(h)
  <2>1. /\ get'[h] = [get[h] EXCEPT !.at = "done", !.key = pkey]
        /\ get[h].at = "key" /\ UNCHANGED <<lock, cached, modTime>>
    BY <1>0, <1>5 DEF GetKey
  <2>2. TypeOK'
    BY ZenonT(40), <1>0, <1>1, <1>2, <1>5, <2>1 DEF TypeOK, GetKey, disk, boot
  <2>3. CacheInv'
    BY <1>0, <1>1, <2>1 DEF CacheInv, ReadAt, Newest, disk
  <2>4. /\ get'[h].mt = get[h].mt /\ get'[h].cert = get[h].cert
        /\ cert' = cert /\ writing' = writing /\ cached' = cached
    BY <1>0, <1>1, <2>1 DEF disk
  <2>5. LoadInv'
    <3>1. /\ get'[h].mt <= cert'.mt
          /\ get'[h].cert # 0 => /\ ReadAt(get[h].cert, get[h].mt)'
                                 /\ cached' # None => cached'.cert <= get'[h].cert
      BY <1>0, <2>1, <2>4 DEF LoadInv, ReadAt, Newest
    <3>2. QED
      BY <1>2, <3>1 DEF LoadInv
  <2>6. QED
    BY <1>1, <2>2, <2>3, <2>5 DEF IInv
<1>6. CASE GetDone(h)
  <2>1. get'[h] = Idle /\ lock' = None /\ get[h].at = "done" /\ cert' = cert /\ writing' = writing
    BY <1>0, <1>1, <1>6 DEF GetDone, disk
  <2>2. \A g \in Handshake : get'[g].at = "idle"
    BY <1>2, <2>1 DEF Idle
  <2>3. CASE Loads(get[h].cert, get[h].key)
    <3>1. /\ cached' = [cert |-> get[h].cert, key |-> get[h].key]
          /\ modTime' = get[h].mt /\ get[h].cert # 0 /\ get[h].cert = get[h].key
      BY <1>6, <2>3 DEF GetDone, Loads, Pair, Remembered
    <3>2. CacheInv'
      BY <1>0, <2>1, <3>1 DEF CacheInv, LoadInv, ReadAt, Newest
    <3>3. TypeOK'
      BY <1>0, <1>1, <1>6, <2>1, <2>2, <3>1 DEF TypeOK, GetDone, disk, boot, Idle, Pairs,
                                          Version, Time
    <3>4. QED
      BY <1>1, <2>2, <3>2, <3>3 DEF IInv, LoadInv
  <2>4. CASE ~Loads(get[h].cert, get[h].key)
    <3>1. UNCHANGED <<cached, modTime>>
      BY <1>6, <2>4 DEF GetDone
    <3>2. CacheInv'
      BY <1>0, <2>1, <3>1 DEF CacheInv, ReadAt, Newest
    <3>3. TypeOK'
      BY <1>0, <1>1, <1>6, <2>1, <2>2, <3>1 DEF TypeOK, GetDone, disk, boot, Idle, Version, Time
    <3>4. QED
      BY <1>1, <2>2, <3>2, <3>3 DEF IInv, LoadInv
  <2>5. QED
    BY <2>3, <2>4
<1>7. QED
  BY <1>3, <1>4, <1>5, <1>6 DEF Get

LEMMA NextInv == IInv /\ [Next]_vars => IInv'
<1> SUFFICES ASSUME IInv, [Next]_vars PROVE IInv'
  OBVIOUS
<1>1. CASE UNCHANGED vars
  BY <1>1 DEF vars, IInv, TypeOK, Renewing, CacheInv, LoadInv, StartInv, ReadAt, Newest,
              SelfSignedUsable
<1>2. CASE Next
  BY <1>2, RenewalInv, StartInvariant, CrashInv, GetInv DEF Next
<1>3. QED
  BY <1>1, <1>2

LEMMA SpecInv == Spec => []IInv
<1>1. Init => IInv
  BY InitInv
<1>2. QED
  BY <1>1, NextInv, PTL DEF Spec

-----------------------------------------------------------------------------
\* The types hold, and the mutex is held by whoever loads the pair.
THEOREM TypeCorrect == Spec => []TypeOK
<1>1. IInv => TypeOK
  BY DEF IInv
<1>2. QED
  BY SpecInv, <1>1, PTL

\* A certificate served without loading is the one in the file, wherever between
\* Stat and the load a renewal has fallen.
THEOREM UnchangedAlwaysCurrent == Spec => []UnchangedIsCurrent
<1>1. IInv => UnchangedIsCurrent
  <2> SUFFICES ASSUME IInv, cached # None, cert.mt = modTime, cert.version # 0
               PROVE  cached = Pair(cert.version, cert.version)
    BY DEF UnchangedIsCurrent
  <2>1. cached \in Pairs
    BY DEF IInv, TypeOK
  <2>2. cached.cert = cert.version /\ cached.key = cert.version
    BY DEF IInv, CacheInv, ReadAt
  <2>3. QED
    BY <2>1, <2>2 DEF Pairs, Pair
<1>2. QED
  BY SpecInv, <1>1, PTL

\* A self-signed pair that is in use belongs together, whenever crashes came.
THEOREM SelfSignedAlwaysUsable == Spec => []SelfSignedUsable
<1>1. IInv => SelfSignedUsable
  BY DEF IInv, StartInv
<1>2. QED
  BY SpecInv, <1>1, PTL

\* No handshake replaces a cached pair by an older one.
THEOREM NeverGoesBack == Spec => NeverOlder
<1>1. IInv /\ [Next]_vars
        => [(cached # None /\ cached' # None) => cached'.cert >= cached.cert]_vars
  <2> SUFFICES ASSUME IInv, [Next]_vars, cached # None, cached' # None
               PROVE  cached'.cert >= cached.cert
    OBVIOUS
  <2> USE BoundsAssumption DEF Version
  <2>1. /\ cached.cert \in Nat /\ LoadInv
        /\ get \in [Handshake -> [at : {"idle", "cert", "key", "done"}, mt : Time,
                          cert : Version, key : Version]]
    BY DEF IInv, TypeOK, Pairs
  <2>2. CASE cached' = cached
    BY <2>1, <2>2
  <2>3. CASE \E h \in Handshake : GetDone(h)
    <3>1. PICK h \in Handshake : GetDone(h)
      BY <2>3
    <3>2. CASE Loads(get[h].cert, get[h].key)
      BY <2>1, <3>1, <3>2 DEF GetDone, Loads, Pair, LoadInv
    <3>3. QED
      BY <2>2, <3>1, <3>2 DEF GetDone
  <2>4. cached' = cached \/ \E h \in Handshake : GetDone(h) \/ cached' = None
    BY DEF Next, Renewal, Renew, WriteCert, WriteKey, StartUp, StartCert, StartKey,
           StartSelf, StartSelfKey, Crash, Get, GetStat, GetCert, GetKey, load, vars
  <2>5. QED
    BY <2>2, <2>3, <2>4
<1>2. QED
  BY SpecInv, <1>1, PTL DEF Spec, NeverOlder
=============================================================================
