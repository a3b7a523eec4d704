----------------------------- MODULE InboundTLS -----------------------------
(***************************************************************************)
(* The certificate of inbound SMTP: loadInboundTLS at start-up, and the     *)
(* certReloader that handshakes ask for the current one.                   *)
(*                                                                         *)
(* A configured pair is renewed by another program, one file after the     *)
(* other, while handshakes load it: the reloader remembers the              *)
(* modification time it saw before it loaded, and a mutex admits one load   *)
(* at a time. Without a loadable pair at start-up the relay uses a          *)
(* self-signed one until it is restarted, and writes one if need be.       *)
(*                                                                         *)
(* A certificate and its key carry the number of the renewal that made     *)
(* them; 0 is a file that is missing or not completely written.            *)
(***************************************************************************)
EXTENDS Naturals

CONSTANTS
    Handshake,  \* concurrent inbound handshakes
    MaxVersion, \* bound: renewals
    MaxCrash,   \* bound: crashes of the relay
    None

ASSUME BoundsAssumption == MaxVersion \in Nat \ {0} /\ MaxCrash \in Nat
ASSUME NullAssumption == None \notin Handshake /\ None \notin {"managed", "self"}

VARIABLES
    cert,    \* smtp_tls_cert: its version and mtime
    pkey,    \* smtp_tls_key: its version
    writing, \* the renewal: files it has still to write, version
    self,    \* the self-signed files: versions of certificate and key
    pc,      \* the relay: "start", "key", "self", "selfkey" or "up"
    seen,    \* the certificate version start-up has read
    uses,    \* what the listener uses: "managed", "self" or None
    lock,    \* the handshake that holds the mutex, or None
    get,     \* get[h]: where handshake h is in certReloader.get
    cached,  \* the pair in the reloader, or None
    modTime, \* the mtime it remembers
    crashes

disk == <<cert, pkey, writing>>
boot == <<self, pc, seen, uses, crashes>>
load == <<lock, get, cached, modTime>>
vars == <<cert, pkey, writing, self, pc, seen, uses, lock, get, cached, modTime, crashes>>

Files == {"cert", "key"}
Idle  == [at |-> "idle", mt |-> 0, cert |-> 0, key |-> 0]
Pair(c, k) == [cert |-> c, key |-> k]

-----------------------------------------------------------------------------
(* The other program renews the pair, in either order of the files.        *)

Renew ==
    /\ writing.files = {} /\ writing.version < MaxVersion
    /\ writing' = [files |-> Files, version |-> writing.version + 1]
    /\ UNCHANGED <<cert, pkey, boot, load>>

\* A file is truncated and then filled, within one tick of the clock or not. A
\* missing one (mt = 0) is created and filled.
WriteCert ==
    /\ "cert" \in writing.files
    /\ \/ /\ cert.version \notin {0, writing.version}
          /\ cert' = [version |-> 0, mt |-> cert.mt + 1]
          /\ UNCHANGED writing
       \/ \E tick \in {0, 1} :
          /\ cert.version = 0 /\ cert.mt + tick > 0
          /\ cert' = [version |-> writing.version, mt |-> cert.mt + tick]
          /\ writing' = [writing EXCEPT !.files = @ \ {"cert"}]
    /\ UNCHANGED <<pkey, boot, load>>

WriteKey ==
    /\ "key" \in writing.files
    /\ \/ pkey # 0 /\ pkey' = 0 /\ UNCHANGED writing
       \/ /\ pkey = 0 /\ pkey' = writing.version
          /\ writing' = [writing EXCEPT !.files = @ \ {"key"}]
    /\ UNCHANGED <<cert, boot, load>>

-----------------------------------------------------------------------------
(* Start-up.                                                               *)

\* tls.LoadX509KeyPair succeeds: both files parse and belong together.
Loads(c, k) == c # 0 /\ c = k

\* The configured pair is tried first, certificate before key.
StartCert ==
    /\ pc = "start"
    /\ pc' = "key" /\ seen' = cert.version
    /\ UNCHANGED <<disk, self, uses, crashes, load>>

StartKey ==
    /\ pc = "key" /\ seen' = 0
    /\ IF Loads(seen, pkey) THEN pc' = "up" /\ uses' = "managed"
                            ELSE pc' = "self" /\ UNCHANGED uses
    /\ UNCHANGED <<disk, self, crashes, load>>

\* Wrong variant: only a missing certificate file is replaced.
SelfUsable_Exists == self.cert # 0

SelfUsable == Loads(self.cert, self.key)

\* The self-signed pair is loaded if it can be, else written anew: the
\* certificate, then the key.
StartSelf ==
    /\ pc = "self"
    /\ IF SelfUsable THEN pc' = "up" /\ uses' = "self" /\ UNCHANGED self
       ELSE /\ self' = [self EXCEPT !.cert = crashes + 1]
            /\ pc' = "selfkey" /\ UNCHANGED uses
    /\ UNCHANGED <<disk, seen, crashes, load>>

StartSelfKey ==
    /\ pc = "selfkey"
    /\ self' = [self EXCEPT !.key = self.cert]
    /\ pc' = "up" /\ uses' = "self"
    /\ UNCHANGED <<disk, seen, crashes, load>>

Crash ==
    /\ crashes < MaxCrash /\ crashes' = crashes + 1
    /\ pc' = "start" /\ seen' = 0 /\ uses' = None
    /\ lock' = None /\ get' = [h \in Handshake |-> Idle]
    /\ cached' = None /\ modTime' = 0
    /\ UNCHANGED <<disk, self>>

-----------------------------------------------------------------------------
(* certReloader.get                                                        *)

\* Wrong variant: nobody locks.
Free_Always == TRUE

Free == lock = None

\* Wrong variant: times are compared at too coarse a grain.
Unchanged_OrNext == cert.mt <= modTime + 1

Unchanged == cert.mt = modTime

\* Lock, Stat, and the comparison: an unchanged file ends it here.
GetStat(h) ==
    /\ uses = "managed" /\ get[h].at = "idle" /\ Free
    /\ ~(cached # None /\ Unchanged)
    /\ lock' = h
    /\ get' = [get EXCEPT ![h] = [Idle EXCEPT !.at = "cert", !.mt = cert.mt]]
    /\ UNCHANGED <<disk, boot, cached, modTime>>

\* LoadX509KeyPair reads the certificate, then the key.
GetCert(h) ==
    /\ get[h].at = "cert"
    /\ get' = [get EXCEPT ![h].at = "key", ![h].cert = cert.version]
    /\ UNCHANGED <<disk, boot, lock, cached, modTime>>

\* Wrong variant: the file is asked for its time after loading.
Remembered_Late(h) == cert.mt

\* The time Stat reported before loading.
Remembered(h) == get[h].mt

GetKey(h) ==
    /\ get[h].at = "key"
    /\ get' = [get EXCEPT ![h].at = "done", ![h].key = pkey]
    /\ UNCHANGED <<disk, boot, lock, cached, modTime>>

\* A pair that loads is cached; else the stale one, if any, is served.
GetDone(h) ==
    /\ get[h].at = "done"
    /\ IF Loads(get[h].cert, get[h].key)
       THEN /\ cached' = Pair(get[h].cert, get[h].key)
            /\ modTime' = Remembered(h)
       ELSE UNCHANGED <<cached, modTime>>
    /\ lock' = None /\ get' = [get EXCEPT ![h] = Idle]
    /\ UNCHANGED <<disk, boot>>

-----------------------------------------------------------------------------
\* A first start, with a configured pair that exists or does not yet.
Init ==
    /\ \E v \in {0, 1} : /\ cert = [version |-> v, mt |-> v] /\ pkey = v
                         /\ writing = [files |-> {}, version |-> v]
    /\ self = Pair(0, 0) /\ pc = "start" /\ seen = 0 /\ uses = None
    /\ lock = None /\ get = [h \in Handshake |-> Idle]
    /\ cached = None /\ modTime = 0 /\ crashes = 0

Renewal == Renew \/ WriteCert \/ WriteKey
StartUp == StartCert \/ StartKey \/ StartSelf \/ StartSelfKey
Get(h)  == GetStat(h) \/ GetCert(h) \/ GetKey(h) \/ GetDone(h)

Next == Renewal \/ StartUp \/ Crash \/ \E h \in Handshake : Get(h)

Spec == Init /\ [][Next]_vars

\* The other program finishes a renewal it has begun, the relay starts, and
\* senders keep connecting.
FairSpec == /\ Spec /\ WF_vars(WriteCert) /\ WF_vars(WriteKey) /\ WF_vars(StartUp)
            /\ \A h \in Handshake : WF_vars(Get(h))

-----------------------------------------------------------------------------
(* Properties.                                                             *)

Version == 0..MaxVersion
Time    == 0..(2 * MaxVersion)
Pairs   == [cert : Version, key : Version]

\* What each variable may hold; the mutex is held by whoever loads the pair.
TypeOK ==
    /\ cert \in [version : Version, mt : Time] /\ pkey \in Version
    /\ writing \in [files : SUBSET Files, version : Version]
    /\ self \in [cert : 0..(MaxCrash + 1), key : 0..(MaxCrash + 1)]
    /\ pc \in {"start", "key", "self", "selfkey", "up"} /\ seen \in Version
    /\ uses \in {"managed", "self", None} /\ lock \in Handshake \cup {None}
    /\ get \in [Handshake -> [at : {"idle", "cert", "key", "done"}, mt : Time,
                          cert : Version, key : Version]]
    /\ \A h \in Handshake : get[h].at # "idle" <=> lock = h
    /\ cached \in Pairs \cup {None} /\ modTime \in Time /\ crashes \in 0..MaxCrash

\* The pair that is served without loading, because the time of the certificate
\* has not changed, is that of the certificate in the file: a renewal that falls
\* between Stat and the load, or between the two files, is not missed.
UnchangedIsCurrent ==
    (cached # None /\ cert.mt = modTime /\ cert.version # 0)
        => cached = Pair(cert.version, cert.version)

\* A handshake never puts an older pair in the place of a newer one.
NeverOlder == [][(cached # None /\ cached' # None) => cached'.cert >= cached.cert]_vars

\* A listener that fell back to the self-signed pair has one that belongs
\* together, also when a crash came between writing the two files.
SelfSignedUsable == uses = "self" => self.cert # 0 /\ self.cert = self.key

\* Once the last renewal is written, the handshakes get it without a restart,
\* unless the relay fell back to the self-signed pair at its start.
EventuallyLatest ==
    (uses = "managed" /\ writing = [files |-> {}, version |-> MaxVersion])
        ~> (uses # "managed" \/ cached = Pair(MaxVersion, MaxVersion))
=============================================================================
