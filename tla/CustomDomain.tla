--------------------------- MODULE CustomDomain ---------------------------
(***************************************************************************)
(* Domains and their DKIM keys: customdomain.go, dkim.go and the start-up   *)
(* sequence of main.go around them.                                        *)
(*                                                                         *)
(* A domain has up to two key files: data/<domain>/key.pem for a domain of  *)
(* config.json (place "site") and data/_domains/<domain>/key.pem for one an *)
(* end user brought (place "custom"); the map dkimKeys holds one key per    *)
(* domain name. Requests run concurrently and share the function            *)
(* loadOrGenerateDKIMKey, here the steps Key*, with start-up. Any step may  *)
(* be the last before a crash.                                             *)
(***************************************************************************)

CONSTANTS
    Domain,        \* domain names
    StaticDomain,  \* those of config.json
    Key,           \* RSA keys that may be generated
    Proc,          \* concurrent requests
    Main,          \* the start-up code, as a process
    Readd,         \* bound: TRUE if a domain may be added more than once
    DiskFaults,    \* writing a key file may fail after its creation
    NoKey, NoFile, Torn, NoDomain

ASSUME ConstantAssumption ==
    /\ StaticDomain \subseteq Domain /\ NoDomain \notin Domain
    /\ Key \cap {NoKey, NoFile, Torn} = {} /\ NoFile # Torn
    /\ Main \notin Proc
    /\ Readd \in BOOLEAN /\ DiskFaults \in BOOLEAN

Place == {"site", "custom"}
Actor == Proc \cup {Main}

VARIABLES
    phase,   \* "down", "boot" or "up"
    todo,    \* the keys start-up has still to load
    file,    \* file[place][d]: the key file
    mem,     \* dkimKeys
    json,    \* json[d]: _domains/<d>/domain.json: "none", "torn", "valid"
    known,   \* DOMAIN dynDomains
    data,    \* domains with account data under data/<d>
    txt,     \* domains whose verification TXT record is live in the DNS
    proc,    \* proc[p]: where each request is
    shown,   \* history: shown[d], DKIM keys handed out for d
    issued   \* domains whose provision secret has been handed out (/domain/add)

disk == <<file, json, data>>
vars == <<phase, todo, file, mem, json, known, data, txt, proc, shown, issued>>

Idle == [pc |-> "idle", kind |-> "none", dom |-> NoDomain, key |-> NoKey]

PlaceOf(p) == IF proc[p].kind = "site" THEN "site" ELSE "custom"
FileOf(p)  == file[PlaceOf(p)][proc[p].dom]
Begin(p, pc, kind, d) ==
    proc' = [proc EXCEPT ![p] = [pc |-> pc, kind |-> kind, dom |-> d, key |-> NoKey]]
Goto(p, pc) == proc' = [proc EXCEPT ![p].pc = pc]
Hold(p, pc, k) ==
    proc' = [proc EXCEPT ![p] =
               [pc |-> pc, kind |-> proc[p].kind, dom |-> proc[p].dom, key |-> k]]

\* A key nobody has seen: rsa.GenerateKey.
Unused == {k \in Key : /\ \A place \in Place, d \in Domain : file[place][d] # k
                       /\ \A d \in Domain : mem[d] # k /\ k \notin shown[d]
                       /\ \A p \in Actor : proc[p].key # k}

-----------------------------------------------------------------------------
(* loadOrGenerateDKIMKey, called by the handlers and at start-up.           *)

Readable(f) == f \in Key

KeyLoad(p) ==
    /\ proc[p].pc = "load"
    /\ IF Readable(FileOf(p))
       THEN Hold(p, "set", FileOf(p))
       ELSE \E k \in Unused : Hold(p, "create", k)
    /\ UNCHANGED <<phase, todo, disk, mem, known, txt, shown, issued>>

\* O_CREATE | O_EXCL: whoever finds a file, whatever is in it, returns nil.
\* Wrong variant: O_TRUNC for O_EXCL.
MayCreate_Truncate(f) == TRUE

MayCreate(f) == f = NoFile

KeyCreate(p) ==
    /\ proc[p].pc = "create"
    /\ IF MayCreate(FileOf(p))
       THEN /\ file' = [file EXCEPT ![PlaceOf(p)][proc[p].dom] = Torn]
            /\ Goto(p, "encode")
       ELSE /\ file' = file
            /\ Hold(p, "answer", NoKey)
    /\ UNCHANGED <<phase, todo, mem, json, known, data, txt, shown, issued>>

\* pem.Encode, whose error is ignored.
KeyEncode(p) ==
    /\ proc[p].pc = "encode"
    /\ \E written \in BOOLEAN :
         /\ written \/ DiskFaults
         /\ file' = IF written
                    THEN [file EXCEPT ![PlaceOf(p)][proc[p].dom] = proc[p].key]
                    ELSE file
    /\ Goto(p, "set")
    /\ UNCHANGED <<phase, todo, mem, json, known, data, txt, shown, issued>>

\* dkimKeys[domain] = key, in the caller.
KeySet(p) ==
    /\ proc[p].pc = "set"
    /\ mem' = [mem EXCEPT ![proc[p].dom] = proc[p].key]
    /\ Goto(p, "answer")
    /\ UNCHANGED <<phase, todo, disk, known, txt, shown, issued>>

-----------------------------------------------------------------------------
(* GET /domain/verify-token and POST /domain/add. A name of config.json is  *)
(* a valid argument of both.                                               *)

VerifyToken(p, d) ==
    /\ phase = "up" /\ proc[p] = Idle
    /\ Begin(p, "load", "verify", d)
    /\ UNCHANGED <<phase, todo, disk, mem, known, txt, shown, issued>>

\* checkVerifyTXT is asked every time, registered or not; 412 otherwise.
OwnershipProven(d) == d \in txt

Add(p, d) ==
    /\ phase = "up" /\ proc[p] = Idle
    /\ OwnershipProven(d)
    /\ Readd \/ (d \notin issued /\ \A q \in Proc : proc[q].dom # d \/ proc[q].kind # "add")
    /\ Begin(p, "truncate", "add", d)
    /\ UNCHANGED <<phase, todo, disk, mem, known, txt, shown, issued>>

\* os.WriteFile truncates domain.json ...
AddTruncate(p) ==
    /\ proc[p].pc = "truncate"
    /\ json' = [json EXCEPT ![proc[p].dom] = "torn"]
    /\ Goto(p, "write")
    /\ UNCHANGED <<phase, todo, file, mem, known, data, txt, shown, issued>>

\* ... and fills it; the content depends on the domain alone.
AddWrite(p) ==
    /\ proc[p].pc = "write"
    /\ json' = [json EXCEPT ![proc[p].dom] = "valid"]
    /\ Goto(p, "register")
    /\ UNCHANGED <<phase, todo, file, mem, known, data, txt, shown, issued>>

AddRegister(p) ==
    /\ proc[p].pc = "register"
    /\ known' = known \cup {proc[p].dom}
    /\ Goto(p, "load")
    /\ UNCHANGED <<phase, todo, disk, mem, txt, shown, issued>>

ShownBy(p) == {proc[p].key} \ {NoKey}

\* The answer shows the key, if there is one, and after /domain/add the secret.
Answer(p) ==
    /\ p \in Proc /\ proc[p].pc = "answer"
    /\ shown' = [shown EXCEPT ![proc[p].dom] = @ \cup ShownBy(p)]
    /\ issued' = IF proc[p].kind = "add" THEN issued \cup {proc[p].dom} ELSE issued
    /\ proc' = [proc EXCEPT ![p] = Idle]
    /\ UNCHANGED <<phase, todo, disk, mem, known, txt>>

-----------------------------------------------------------------------------
(* Start-up: loadDynDomains, cleanupOrphanedData, loadOrGenerateDKIMKeys.   *)

Restored == {d \in Domain : json[d] = "valid"}

\* Wrong variant: the clean-up runs before the registry is loaded.
KeepsData_TooEarly(d, registry) == d \in StaticDomain

\* cleanupOrphanedData keeps the data of the domains domainConfig resolves.
KeepsData(d, registry) == d \in StaticDomain \/ d \in registry

\* Wrong variant: the keys of the registered domains are not loaded.
KeysToLoad_ConfigOnly == {<<"site", d>> : d \in StaticDomain}

KeysToLoad == {<<"custom", d>> : d \in Restored} \cup {<<"site", d>> : d \in StaticDomain}

BootLoad ==
    /\ phase = "down" /\ phase' = "boot"
    /\ known' = Restored
    /\ todo' = KeysToLoad
    /\ data' = {d \in data : KeepsData(d, known')}
    /\ UNCHANGED <<file, mem, json, txt, proc, shown, issued>>

\* Wrong variant: no order between the two kinds.
InTurn_AnyOrder(place) == TRUE

InTurn(place) == place = "site" => \A e \in Domain : <<"custom", e>> \notin todo

\* The custom keys come first, so that the key of a configured domain wins.
BootKey(place, d) ==
    /\ phase = "boot" /\ proc[Main] = Idle
    /\ <<place, d>> \in todo
    /\ InTurn(place)
    /\ todo' = todo \ {<<place, d>>}
    /\ Begin(Main, "load", place, d)
    /\ UNCHANGED <<phase, disk, mem, known, txt, shown, issued>>

BootKeyDone ==
    /\ phase = "boot" /\ proc[Main].pc = "answer"
    /\ proc' = [proc EXCEPT ![Main] = Idle]
    /\ UNCHANGED <<phase, todo, disk, mem, known, txt, shown, issued>>

BootEnd ==
    /\ phase = "boot" /\ todo = {} /\ proc[Main] = Idle
    /\ phase' = "up"
    /\ UNCHANGED <<todo, disk, mem, known, txt, proc, shown, issued>>

-----------------------------------------------------------------------------
(* Surroundings.                                                           *)

Crash ==
    /\ phase # "down" /\ phase' = "down"
    /\ todo' = {} /\ known' = {}
    /\ mem' = [d \in Domain |-> NoKey]
    /\ proc' = [p \in Actor |-> Idle]
    /\ UNCHANGED <<disk, txt, shown, issued>>

\* The owner of the DNS zone adds the record, or loses or removes it.
SetTXT(d)   == /\ txt' \in {txt \cup {d}, txt \ {d}} /\ txt' # txt
               /\ UNCHANGED <<phase, todo, disk, mem, known, proc, shown, issued>>

\* /account/provision under a custom domain: the secret is compared with the
\* one in the registry, which never changes.
SecretAccepted(d) == d \in issued /\ d \in known

CreateAccount(d) ==
    /\ phase = "up" /\ d \notin data
    /\ d \in StaticDomain \/ SecretAccepted(d)
    /\ data' = data \cup {d}
    /\ UNCHANGED <<phase, todo, file, mem, json, known, txt, proc, shown, issued>>

-----------------------------------------------------------------------------
Init ==
    /\ phase = "down" /\ todo = {}
    /\ file = [place \in Place |-> [d \in Domain |-> NoFile]]
    /\ mem = [d \in Domain |-> NoKey]
    /\ json = [d \in Domain |-> "none"]
    /\ known = {} /\ data = {} /\ txt = {} /\ issued = {}
    /\ proc = [p \in Actor |-> Idle]
    /\ shown = [d \in Domain |-> {}]

LoadOrGenerate(p) == KeyLoad(p) \/ KeyCreate(p) \/ KeyEncode(p) \/ KeySet(p)

Handlers == \E p \in Proc :
    \/ \E d \in Domain : VerifyToken(p, d) \/ Add(p, d)
    \/ AddTruncate(p) \/ AddWrite(p) \/ AddRegister(p) \/ Answer(p)

Boot == BootLoad \/ BootKeyDone \/ BootEnd
        \/ \E place \in Place, d \in Domain : BootKey(place, d)

Next == \/ Handlers \/ Boot \/ Crash
        \/ \E p \in Actor : LoadOrGenerate(p)
        \/ \E d \in Domain : SetTXT(d) \/ CreateAccount(d)

Spec == Init /\ [][Next]_vars

-----------------------------------------------------------------------------
(* Properties.                                                             *)

Kinds == {"verify", "add"} \cup Place
Procs ==
    {Idle}
    \cup [pc : {"load", "truncate", "write", "register"}, kind : Kinds, dom : Domain, key : {NoKey}]
    \cup [pc : {"create", "encode", "set"}, kind : Kinds, dom : Domain, key : Key]
    \cup [pc : {"answer"}, kind : Kinds, dom : Domain, key : Key \cup {NoKey}]

\* What each variable may hold; an actor that is not idle is about a domain,
\* and holds a key from its generation or reading on.
TypeOK ==
    /\ phase \in {"down", "boot", "up"}
    /\ todo \subseteq Place \X Domain
    /\ file \in [Place -> [Domain -> Key \cup {NoFile, Torn}]]
    /\ mem \in [Domain -> Key \cup {NoKey}]
    /\ json \in [Domain -> {"none", "torn", "valid"}]
    /\ known \subseteq Domain /\ data \subseteq Domain
    /\ txt \subseteq Domain /\ issued \subseteq Domain
    /\ proc \in [Actor -> Procs]
    /\ shown \in [Domain -> SUBSET Key]

\* "Never rotates an existing key" (customdomain.go:224-225): a key that is in
\* a key file stays there, whatever requests race to create it and whenever the
\* process dies.
KeyWriteOnce ==
    [][\A place \in Place, d \in Domain :
          file[place][d] \in Key => file'[place][d] = file[place][d]]_vars

\* The DKIM record shown to the owner of a domain is that of the key on disk,
\* so what the owner publishes stays right: two answers never differ, and none
\* shows a key that lost the race to the file or vanished with a crash.
ShownIsPersisted ==
    \A d \in Domain : shown[d] \subseteq {file["custom"][d]}

\* The key a domain of a user's own is signed with is the key on disk.
SignsWithPersisted ==
    \A d \in Domain \ StaticDomain : mem[d] \in {NoKey, file["custom"][d]}

\* Once start-up is over, a registered domain whose key can be read is signed
\* for: neither a restart nor a lost race leaves it unsigned.
RegisteredSigns ==
    phase = "up" => \A d \in known :
        (file["custom"][d] \in Key /\ \A p \in Proc : proc[p].dom # d) => mem[d] # NoKey

\* When start-up ends, a configured domain signs with its own key file, even if
\* somebody has asked for verification of the same name.
BootSiteWins ==
    [][(phase = "boot" /\ phase' = "up") =>
          \A d \in StaticDomain : file["site"][d] \in Key => mem[d] = file["site"][d]]_vars

\* loadDynDomains "must run before cleanupOrphanedData, or a just-verified
\* custom domain looks orphaned" (main.go:1109): start-up deletes no data of a
\* domain whose addition was acknowledged.
RegisteredDataKept ==
    [][\A d \in issued : d \in data => d \in data']_vars

\* The keys of users' domains are a register (module KeyRegister): a file that
\* is missing or torn is no key yet. Several requests and start-up may be at
\* any point of creating the same key, die there, or lose the race, and all
\* that is ever seen is one creation and the showing of that key.
Register == INSTANCE KeyRegister WITH
    key <- [d \in Domain |-> IF file["custom"][d] \in Key THEN file["custom"][d] ELSE NoKey]

KeysAreARegister == Register!Spec
=============================================================================
