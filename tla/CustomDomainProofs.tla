------------------------ MODULE CustomDomainProofs ------------------------
(***************************************************************************)
(* Theorems about module CustomDomain: what the DKIM key files promise, for *)
(* every set of domains and any number of concurrent requests.              *)
(***************************************************************************)
EXTENDS CustomDomain, TLAPS

USE DEF disk

\* Goto changes one field of one actor.
LEMMA GotoFrame ==
    ASSUME proc \in [Actor -> Procs], NEW p \in Actor, NEW pc, Goto(p, pc),
           proc[p].pc # "idle"
    PROVE  proc' = [proc EXCEPT ![p] = [pc |-> pc, kind |-> proc[p].kind,
                                        dom |-> proc[p].dom, key |-> proc[p].key]]
<1>1. [proc[p] EXCEPT !.pc = pc] = [pc |-> pc, kind |-> proc[p].kind,
                                    dom |-> proc[p].dom, key |-> proc[p].key]
  BY DEF Procs, Idle
<1>2. proc' = [proc EXCEPT ![p] = [proc[p] EXCEPT !.pc = pc]]
  BY DEF Goto
<1>3. QED
  BY <1>1, <1>2

\* A step of an actor that has begun.
LEMMA GotoType ==
    ASSUME proc \in [Actor -> Procs], NEW p \in Actor, NEW pc, Goto(p, pc),
           \/ /\ proc[p].pc \in {"load", "truncate", "write", "register"}
              /\ pc \in {"load", "truncate", "write", "register"}
           \/ /\ proc[p].pc \in {"create", "encode", "set"}
              /\ pc \in {"create", "encode", "set", "answer"}
    PROVE  proc' \in [Actor -> Procs]
<1>1. [proc[p] EXCEPT !.pc = pc] \in Procs
  BY DEF Procs, Idle
<1>2. QED
  BY <1>1 DEF Goto

LEMMA BeginType ==
    ASSUME proc \in [Actor -> Procs], NEW p \in Actor, NEW d \in Domain,
           NEW pc \in {"load", "truncate"}, NEW kind \in Kinds,
           Begin(p, pc, kind, d)
    PROVE  proc' \in [Actor -> Procs]
BY DEF Begin, Procs

LEMMA LoadOrGenerateType ==
    ASSUME TypeOK, NEW p \in Actor, LoadOrGenerate(p) PROVE TypeOK'
<1>0. /\ proc \in [Actor -> Procs] /\ PlaceOf(p) \in Place
      /\ proc[p].pc # "idle" => proc[p].dom \in Domain
      /\ proc[p].pc \in {"encode", "set"} => proc[p].key \in Key
      /\ file \in [Place -> [Domain -> Key \cup {NoFile, Torn}]]
  BY DEF TypeOK, PlaceOf, Procs, Idle, Place
<1>1. CASE KeyLoad(p)
  <2>1. proc[p].kind \in Kinds /\ proc[p].dom \in Domain
    BY <1>0, <1>1 DEF KeyLoad, Procs, Idle
  <2>2. proc' \in [Actor -> Procs]
    BY <1>0, <1>1, <2>1 DEF KeyLoad, Hold, Readable, Unused, Procs
  <2>3. QED
    BY <1>1, <2>2 DEF TypeOK, KeyLoad
<1>2. CASE KeyCreate(p)
  <2>1. proc' \in [Actor -> Procs]
    <3>1. CASE Goto(p, "encode")
      BY <1>0, <1>2, <3>1, GotoType DEF KeyCreate
    <3>2. CASE Hold(p, "answer", NoKey)
      BY <1>0, <1>2, <3>2 DEF KeyCreate, Hold, Procs, Idle
    <3>3. QED
      BY <1>2, <3>1, <3>2 DEF KeyCreate
  <2>2. file' \in [Place -> [Domain -> Key \cup {NoFile, Torn}]]
    BY <1>0, <1>2 DEF KeyCreate
  <2>3. QED
    BY <1>2, <2>1, <2>2 DEF TypeOK, KeyCreate
<1>3. CASE KeyEncode(p)
  <2>1. proc' \in [Actor -> Procs]
    BY <1>0, <1>3, GotoType DEF KeyEncode
  <2>2. file' \in [Place -> [Domain -> Key \cup {NoFile, Torn}]]
    BY <1>0, <1>3 DEF KeyEncode
  <2>3. QED
    BY <1>3, <2>1, <2>2 DEF TypeOK, KeyEncode
<1>4. CASE KeySet(p)
  <2>1. proc' \in [Actor -> Procs]
    BY <1>0, <1>4, GotoType DEF KeySet
  <2>2. QED
    BY <1>0, <1>4, <2>1 DEF TypeOK, KeySet
<1>5. QED
  BY <1>1, <1>2, <1>3, <1>4 DEF LoadOrGenerate

LEMMA HandlersType == ASSUME TypeOK, Handlers PROVE TypeOK'
<1>0. proc \in [Actor -> Procs] /\ Proc \subseteq Actor
  BY DEF TypeOK, Actor
<1>1. PICK p \in Proc : \/ \E d \in Domain : VerifyToken(p, d) \/ Add(p, d)
                        \/ AddTruncate(p) \/ AddWrite(p) \/ AddRegister(p) \/ Answer(p)
  BY DEF Handlers
<1>2. /\ proc[p].pc # "idle" => proc[p].dom \in Domain
      /\ ShownBy(p) \subseteq Key
  BY <1>0, ConstantAssumption DEF Procs, Idle, ShownBy
<1>3. ASSUME NEW d \in Domain, VerifyToken(p, d) \/ Add(p, d) PROVE TypeOK'
  <2>1. proc' \in [Actor -> Procs]
    BY <1>0, <1>3, BeginType DEF VerifyToken, Add, Kinds
  <2>2. QED
    BY <1>3, <2>1 DEF TypeOK, VerifyToken, Add
<1>4. CASE AddTruncate(p) \/ AddWrite(p) \/ AddRegister(p)
  <2>1. proc' \in [Actor -> Procs]
    BY <1>0, <1>4, GotoType DEF AddTruncate, AddWrite, AddRegister
  <2>2. QED
    BY <1>2, <1>4, <2>1 DEF TypeOK, AddTruncate, AddWrite, AddRegister
<1>5. CASE Answer(p)
  <2>1. proc' \in [Actor -> Procs]
    BY <1>0, <1>5 DEF Answer, Procs
  <2>2. shown' \in [Domain -> SUBSET Key]
    BY <1>2, <1>5 DEF TypeOK, Answer
  <2>3. QED
    BY <1>2, <1>5, <2>1, <2>2 DEF TypeOK, Answer
<1>6. QED
  BY <1>1, <1>3, <1>4, <1>5

LEMMA BootType == ASSUME TypeOK, Boot PROVE TypeOK'
<1>0. proc \in [Actor -> Procs] /\ Main \in Actor
  BY DEF TypeOK, Actor
<1>1. CASE BootLoad
  <2>1. todo' \subseteq Place \X Domain
    BY <1>1, ConstantAssumption DEF BootLoad, KeysToLoad, Restored, Place
  <2>2. known' \subseteq Domain /\ data' \subseteq Domain
    BY <1>1 DEF TypeOK, BootLoad, Restored
  <2>3. QED
    BY <1>1, <2>1, <2>2 DEF TypeOK, BootLoad
<1>2. ASSUME NEW place \in Place, NEW d \in Domain, BootKey(place, d) PROVE TypeOK'
  <2>1. proc' \in [Actor -> Procs]
    BY <1>0, <1>2, BeginType DEF BootKey, Kinds
  <2>2. QED
    BY <1>2, <2>1 DEF TypeOK, BootKey
<1>3. CASE BootKeyDone
  BY <1>0, <1>3 DEF TypeOK, BootKeyDone, Procs
<1>4. CASE BootEnd
  BY <1>4 DEF TypeOK, BootEnd
<1>5. QED
  BY <1>1, <1>2, <1>3, <1>4 DEF Boot

LEMMA InitType == Init => TypeOK
BY DEF Init, TypeOK, Procs

LEMMA NextType == TypeOK /\ [Next]_vars => TypeOK'
<1> SUFFICES ASSUME TypeOK, [Next]_vars PROVE TypeOK'
  OBVIOUS
<1>1. CASE UNCHANGED vars
  BY <1>1 DEF vars, TypeOK
<1>2. CASE Crash
  BY <1>2 DEF TypeOK, Crash, Procs
<1>3. ASSUME NEW d \in Domain, SetTXT(d) \/ CreateAccount(d) PROVE TypeOK'
  BY <1>3 DEF TypeOK, SetTXT, CreateAccount
<1>4. CASE Next
  BY <1>2, <1>3, <1>4, LoadOrGenerateType, HandlersType, BootType DEF Next
<1>5. QED
  BY <1>1, <1>4

\* The types hold in every state of every run.
THEOREM TypeCorrect == Spec => []TypeOK
<1>1. QED
  BY InitType, NextType, PTL DEF Spec

-----------------------------------------------------------------------------
(* A key file is written once.                                             *)

SameFile(p, q) == PlaceOf(p) = PlaceOf(q) /\ proc[p].dom = proc[q].dom

\* Between the creation of a key file and its encoding the file is torn, and
\* belongs to the one actor whose O_EXCL created it.
OneWriter ==
    /\ \A p \in Actor : proc[p].pc = "encode" => FileOf(p) = Torn
    /\ \A p, q \in Actor :
         (proc[p].pc = "encode" /\ proc[q].pc = "encode" /\ SameFile(p, q)) => p = q

LEMMA InitWriter == Init => OneWriter
BY DEF Init, OneWriter, Idle

\* What each actor's own steps do to the others' files.
LEMMA NextWriter ==
    ASSUME TypeOK, OneWriter, [Next]_vars
    PROVE  /\ OneWriter'
           /\ \A place \in Place, d \in Domain :
                 file[place][d] \in Key => file'[place][d] = file[place][d]
<1> USE DEF Idle
<1>0. /\ proc \in [Actor -> Procs] /\ Proc \subseteq Actor /\ Main \in Actor
      /\ \A p \in Actor : PlaceOf(p) \in Place
      /\ \A p \in Actor : proc[p].pc # "idle" => proc[p].dom \in Domain
      /\ file \in [Place -> [Domain -> Key \cup {NoFile, Torn}]]
      /\ NoFile \notin Key /\ Torn \notin Key /\ NoFile # Torn
  BY ConstantAssumption DEF TypeOK, PlaceOf, Procs, Place, Actor
\* A step that writes no key file, and after which nobody is newly encoding.
<1>1. ASSUME file' = file,
             \A p \in Actor : proc'[p].pc = "encode" => proc'[p] = proc[p]
      PROVE  OneWriter' /\ \A place \in Place, d \in Domain :
                 file[place][d] \in Key => file'[place][d] = file[place][d]
  BY <1>1 DEF OneWriter, FileOf, PlaceOf, SameFile
<1>2. CASE UNCHANGED vars
  BY <1>1, <1>2 DEF vars
<1>3. ASSUME NEW p \in Actor, LoadOrGenerate(p)
      PROVE  OneWriter' /\ \A place \in Place, d \in Domain :
                 file[place][d] \in Key => file'[place][d] = file[place][d]
  <2>1. CASE KeyLoad(p)
    BY <1>0, <1>1, <2>1 DEF KeyLoad, Hold
  <2>6. CASE KeySet(p)
    BY <1>0, <1>1, <2>6, GotoFrame DEF KeySet
  <2>2. CASE KeyCreate(p) /\ ~MayCreate(FileOf(p))
    BY <1>0, <1>1, <2>2 DEF KeyCreate, Hold
  <2>3. CASE KeyCreate(p) /\ MayCreate(FileOf(p))
    <3>1. /\ FileOf(p) = NoFile /\ PlaceOf(p) \in Place /\ proc[p].dom \in Domain
          /\ file' = [file EXCEPT ![PlaceOf(p)][proc[p].dom] = Torn]
          /\ proc' = [proc EXCEPT ![p].pc = "encode"]
      BY <1>0, <2>3 DEF KeyCreate, MayCreate, Goto
    <3>2. \A q \in Actor : /\ PlaceOf(q)' = PlaceOf(q) /\ proc'[q].dom = proc[q].dom
                           /\ q # p => proc'[q] = proc[q]
      BY <1>0, <3>1 DEF PlaceOf, Procs
    <3>3. \A q \in Actor : q # p /\ proc[q].pc = "encode" => ~SameFile(p, q)
      BY <1>0, <3>1 DEF OneWriter, SameFile, FileOf
    <3>4. FileOf(p)' = Torn
      BY <1>0, <3>1, <3>2 DEF FileOf
    <3>5. \A q \in Actor : q # p /\ proc[q].pc = "encode" => FileOf(q)' = Torn
      BY <1>0, <3>1, <3>2, <3>3 DEF FileOf, SameFile, OneWriter
    <3>6. OneWriter'
      BY <3>2, <3>3, <3>4, <3>5 DEF OneWriter, SameFile
    <3>7. QED
      BY <1>0, <3>1, <3>6 DEF FileOf
  <2>4. CASE KeyEncode(p)
    <3>1. /\ FileOf(p) = Torn /\ PlaceOf(p) \in Place /\ proc[p].dom \in Domain
          /\ \/ file' = [file EXCEPT ![PlaceOf(p)][proc[p].dom] = proc[p].key]
             \/ file' = file
          /\ proc' = [proc EXCEPT ![p].pc = "set"]
      BY <1>0, <2>4 DEF KeyEncode, Goto, OneWriter
    <3>2. \A q \in Actor : /\ PlaceOf(q)' = PlaceOf(q) /\ proc'[q].dom = proc[q].dom
                           /\ q # p => proc'[q] = proc[q]
      BY <1>0, <3>1 DEF PlaceOf, Procs
    <3>3. proc'[p].pc = "set"
      BY <1>0, <3>1 DEF Procs
    <3>4. \A q \in Actor : q # p /\ proc[q].pc = "encode" => ~SameFile(p, q)
      BY <2>4 DEF OneWriter, SameFile, KeyEncode
    <3>5. \A q \in Actor : q # p /\ proc[q].pc = "encode" => FileOf(q)' = Torn
      BY <1>0, <3>1, <3>2, <3>4 DEF FileOf, SameFile, OneWriter
    <3>6. OneWriter'
      BY <3>2, <3>3, <3>5 DEF OneWriter, SameFile
    <3>7. QED
      BY <1>0, <3>1, <3>6 DEF FileOf
  <2>5. QED
    BY <1>3, <2>1, <2>2, <2>3, <2>4, <2>6 DEF LoadOrGenerate
<1>4. ASSUME NEW p \in Proc, NEW d \in Domain, VerifyToken(p, d) \/ Add(p, d)
      PROVE  file' = file /\ \A q \in Actor : proc'[q].pc = "encode" => proc'[q] = proc[q]
  BY <1>0, <1>4 DEF VerifyToken, Add, Begin
<1>5. ASSUME NEW p \in Proc, AddTruncate(p) \/ AddWrite(p) \/ AddRegister(p) \/ Answer(p)
      PROVE  file' = file /\ \A q \in Actor : proc'[q].pc = "encode" => proc'[q] = proc[q]
  <2>1. CASE AddTruncate(p) \/ AddWrite(p) \/ AddRegister(p)
    <3>1. PICK pc \in {"write", "register", "load"} : Goto(p, pc)
      BY <2>1 DEF AddTruncate, AddWrite, AddRegister
    <3>2. proc[p].pc # "idle" /\ file' = file
      BY <2>1 DEF AddTruncate, AddWrite, AddRegister
    <3>3. QED
      BY <1>0, <3>1, <3>2, GotoFrame
  <2>2. CASE Answer(p)
    BY <1>0, <2>2 DEF Answer
  <2>3. QED
    BY <1>5, <2>1, <2>2
<1>6. CASE Boot
  <2>1. CASE BootLoad \/ BootEnd
    BY <1>1, <2>1 DEF BootLoad, BootEnd
  <2>2. CASE BootKeyDone
    <3>1. file' = file /\ \A q \in Actor : proc'[q] = Idle \/ proc'[q] = proc[q]
      BY <1>0, <2>2 DEF BootKeyDone
    <3>2. QED
      BY <1>1, <3>1
  <2>3. ASSUME NEW place \in Place, NEW d \in Domain, BootKey(place, d)
        PROVE  file' = file /\ \A q \in Actor : proc'[q].pc = "encode" => proc'[q] = proc[q]
    BY <1>0, <2>3 DEF BootKey, Begin
  <2>4. QED
    BY <1>1, <1>6, <2>1, <2>2, <2>3 DEF Boot
<1>7. CASE Crash \/ \E d \in Domain : SetTXT(d) \/ CreateAccount(d)
  <2>1. CASE Crash
    <3>1. file' = file /\ \A q \in Actor : proc'[q] = Idle
      BY <2>1 DEF Crash
    <3>2. QED
      BY <1>1, <3>1
  <2>2. ASSUME NEW d \in Domain, SetTXT(d) \/ CreateAccount(d)
        PROVE  file' = file /\ proc' = proc
    BY <2>2 DEF SetTXT, CreateAccount
  <2>3. QED
    BY <1>1, <1>7, <2>1, <2>2
<1>8. QED
  BY <1>1, <1>2, <1>3, <1>4, <1>5, <1>6, <1>7 DEF Next, Handlers

\* No key file that holds a key is ever written again, whatever races and
\* crashes happen, and even if writing fails.
THEOREM KeysWrittenOnce == Spec => KeyWriteOnce
<1>1. TypeOK /\ OneWriter /\ [Next]_vars
        => [\A place \in Place, d \in Domain :
               file[place][d] \in Key => file'[place][d] = file[place][d]]_vars
  BY NextWriter
<1>2. TypeOK /\ OneWriter /\ [Next]_vars => OneWriter'
  BY NextWriter
<1>3. QED
  BY InitType, NextType, InitWriter, <1>1, <1>2, PTL DEF Spec, KeyWriteOnce
-----------------------------------------------------------------------------
(* On a disk that does not fail, the keys shown and used are those on disk. *)

\* The invariant, besides OneWriter: a key in the hand of an
\* actor past its encoding, in the map of a user's domain, or in an answer, is
\* the key on disk. Only start-up works on the key files of configured domains.
Persisted ==
    /\ \A p \in Actor : (proc[p].pc \in {"set", "answer"} /\ proc[p].key # NoKey)
                            => FileOf(p) = proc[p].key
    /\ \A p \in Proc : proc[p].kind # "site"
    /\ \A p \in Actor : proc[p].kind = "site" => proc[p].dom \in StaticDomain
    /\ \A d \in Domain : <<"site", d>> \in todo => d \in StaticDomain
    /\ ShownIsPersisted
    /\ SignsWithPersisted

LEMMA InitPersisted == ASSUME Init PROVE Persisted
BY DEF Init, Persisted, ShownIsPersisted, SignsWithPersisted, Idle, Actor

\* A written key stays in its file (NextWriter), so only the actor that moves,
\* the map and the answers need a second look.
LEMMA NextPersisted ==
    ASSUME DiskFaults = FALSE, TypeOK, OneWriter, Persisted, [Next]_vars
    PROVE  Persisted'
<1> USE DEF Idle
<1> DEFINE Holds(p) == (proc[p].pc \in {"set", "answer"} /\ proc[p].key # NoKey)
                          => FileOf(p) = proc[p].key
<1>0. /\ proc \in [Actor -> Procs] /\ Proc \subseteq Actor /\ Main \in Actor
      /\ Main \notin Proc
      /\ \A p \in Actor : PlaceOf(p) \in Place
      /\ \A p \in Actor : proc[p].pc # "idle" => proc[p].dom \in Domain
      /\ \A p \in Actor : proc[p].key \in Key \cup {NoKey}
      /\ \A p \in Actor : proc[p].pc \in {"create", "encode", "set"} => proc[p].key \in Key
      /\ file \in [Place -> [Domain -> Key \cup {NoFile, Torn}]]
      /\ mem \in [Domain -> Key \cup {NoKey}] /\ shown \in [Domain -> SUBSET Key]
      /\ NoFile \notin Key /\ Torn \notin Key /\ NoKey \notin Key
      /\ "custom" \in Place /\ "site" \in Place
  BY ConstantAssumption DEF TypeOK, PlaceOf, Procs, Place, Actor
<1>1. \A place \in Place, d \in Domain :
         file[place][d] \in Key => file'[place][d] = file[place][d]
  BY NextWriter
<1>2. /\ \A d \in Domain : shown[d] \subseteq {file'["custom"][d]}
      /\ \A d \in Domain \ StaticDomain : mem[d] \in {NoKey, file'["custom"][d]}
  <2>1. ASSUME NEW d \in Domain, NEW k \in shown[d] PROVE k = file'["custom"][d]
    BY <1>0, <1>1 DEF Persisted, ShownIsPersisted
  <2>2. ASSUME NEW d \in Domain \ StaticDomain
        PROVE  mem[d] \in {NoKey, file'["custom"][d]}
    BY <1>0, <1>1 DEF Persisted, SignsWithPersisted
  <2>3. QED
    BY <2>1, <2>2
\* An actor that has not moved.
<1>3. ASSUME NEW p \in Actor, proc'[p] = proc[p] PROVE Holds(p)'
  <2>1. Holds(p) /\ PlaceOf(p)' = PlaceOf(p) /\ proc'[p].dom = proc[p].dom
    BY <1>3 DEF Persisted, PlaceOf
  <2>2. CASE proc[p].pc \in {"set", "answer"} /\ proc[p].key # NoKey
    <3>1. FileOf(p) \in Key /\ proc[p].dom \in Domain
      BY <1>0, <2>1, <2>2
    <3>2. FileOf(p)' = FileOf(p)
      BY <1>0, <1>1, <2>1, <3>1 DEF FileOf
    <3>3. QED
      BY <1>3, <2>1, <3>2
  <2>3. QED
    BY <1>3, <2>2

\* The step does not touch the map or the answers, and no actor newly holds a
\* key that is not on disk.
<1>4. ASSUME mem' = mem, shown' = shown, todo' \subseteq todo,
             \A p \in Actor : \/ proc'[p] = proc[p] \/ proc'[p] = Idle
                              \/ /\ proc'[p].kind = proc[p].kind
                                 /\ proc'[p].dom = proc[p].dom
                                 /\ Holds(p)'
      PROVE  Persisted'
  <2>1. ASSUME NEW p \in Actor PROVE Holds(p)'
    BY <1>3, <1>4
  <2>2. \A p \in Proc : proc'[p].kind # "site"
    BY <1>0, <1>4 DEF Persisted
  <2>3. \A p \in Actor : proc'[p].kind = "site" => proc'[p].dom \in StaticDomain
    BY <1>4 DEF Persisted
  <2>4. \A d \in Domain : <<"site", d>> \in todo' => d \in StaticDomain
    BY <1>4 DEF Persisted
  <2>5. ShownIsPersisted' /\ SignsWithPersisted'
    BY <1>2, <1>4 DEF ShownIsPersisted, SignsWithPersisted
  <2>6. QED
    BY <2>1, <2>2, <2>3, <2>4, <2>5 DEF Persisted
<1>5. CASE UNCHANGED vars
  BY <1>4, <1>5 DEF vars
<1>6. ASSUME NEW p \in Actor, LoadOrGenerate(p) PROVE Persisted'
  <2>1. CASE KeyLoad(p)
    <3>1. PICK k \in Key : \/ Hold(p, "create", k)
                           \/ Hold(p, "set", k) /\ FileOf(p) = k
      BY <2>1 DEF KeyLoad, Readable, Unused
    <3>2. /\ proc'[p] = [pc |-> proc'[p].pc, kind |-> proc[p].kind, dom |-> proc[p].dom, key |-> k]
          /\ proc'[p].pc = "create" \/ FileOf(p) = k
          /\ \A q \in Actor : q # p => proc'[q] = proc[q]
          /\ mem' = mem /\ shown' = shown /\ todo' = todo /\ file' = file
      BY <1>0, <2>1, <3>1 DEF KeyLoad, Hold
    <3>3. PlaceOf(p)' = PlaceOf(p) /\ FileOf(p)' = FileOf(p)
      BY <3>2 DEF PlaceOf, FileOf
    <3>4. QED
      BY <1>4, <3>2, <3>3
  <2>2. CASE KeyCreate(p)
    <3>1. CASE MayCreate(FileOf(p))
      <4>1. proc' = [proc EXCEPT ![p] = [pc |-> "encode", kind |-> proc[p].kind,
                                         dom |-> proc[p].dom, key |-> proc[p].key]]
        BY <1>0, <2>2, <3>1, GotoFrame DEF KeyCreate
      <4>2. mem' = mem /\ shown' = shown /\ todo' = todo
        BY <2>2 DEF KeyCreate
      <4>3. QED
        BY <1>0, <1>4, <4>1, <4>2
    <3>2. CASE ~MayCreate(FileOf(p))
      <4>1. proc' = [proc EXCEPT ![p] = [pc |-> "answer", kind |-> proc[p].kind,
                                         dom |-> proc[p].dom, key |-> NoKey]]
        BY <2>2, <3>2 DEF KeyCreate, Hold
      <4>2. mem' = mem /\ shown' = shown /\ todo' = todo
        BY <2>2 DEF KeyCreate
      <4>3. QED
        BY <1>0, <1>4, <4>1, <4>2
    <3>3. QED
      BY <3>1, <3>2
  <2>3. CASE KeyEncode(p)
    <3>1. /\ file' = [file EXCEPT ![PlaceOf(p)][proc[p].dom] = proc[p].key]
          /\ Goto(p, "set")
          /\ mem' = mem /\ shown' = shown /\ todo' = todo
      BY <2>3 DEF KeyEncode
    <3>2. proc' = [proc EXCEPT ![p] = [pc |-> "set", kind |-> proc[p].kind,
                                       dom |-> proc[p].dom, key |-> proc[p].key]]
      BY <1>0, <2>3, <3>1, GotoFrame DEF KeyEncode
    <3>3. PlaceOf(p)' = PlaceOf(p) /\ proc[p].dom \in Domain /\ PlaceOf(p) \in Place
      BY <1>0, <2>3, <3>2 DEF PlaceOf, KeyEncode
    <3>4. FileOf(p)' = proc[p].key
      BY <1>0, <3>1, <3>2, <3>3 DEF FileOf
    <3>5. QED
      BY <1>0, <1>4, <3>1, <3>2, <3>4
  <2>4. CASE KeySet(p)
    <3>1. proc' = [proc EXCEPT ![p] = [pc |-> "answer", kind |-> proc[p].kind,
                                       dom |-> proc[p].dom, key |-> proc[p].key]]
      BY <1>0, <2>4, GotoFrame DEF KeySet
    <3>2. /\ mem' = [mem EXCEPT ![proc[p].dom] = proc[p].key]
          /\ shown' = shown /\ todo' = todo /\ file' = file
          /\ proc[p].dom \in Domain
      BY <1>0, <2>4 DEF KeySet
    <3>3. FileOf(p) = proc[p].key
      BY <1>0, <2>4 DEF KeySet, Persisted
    <3>4. ASSUME NEW q \in Actor PROVE Holds(q)'
      <4>1. CASE q = p
        BY <1>0, <3>1, <3>2, <3>3, <4>1 DEF FileOf, PlaceOf
      <4>2. CASE q # p
        BY <1>0, <1>3, <3>1, <4>2
      <4>3. QED
        BY <4>1, <4>2
    <3>5. SignsWithPersisted'
      <4>1. ASSUME NEW d \in Domain \ StaticDomain
            PROVE  mem'[d] \in {NoKey, file'["custom"][d]}
        <5>1. CASE d = proc[p].dom
          <6>1. PlaceOf(p) = "custom"
            BY <5>1 DEF PlaceOf, Persisted
          <6>2. QED
            BY <1>0, <3>2, <3>3, <5>1, <6>1 DEF FileOf
        <5>2. CASE d # proc[p].dom
          BY <1>0, <1>2, <3>2, <5>2
        <5>3. QED
          BY <5>1, <5>2
      <4>2. QED
        BY <4>1 DEF SignsWithPersisted
    <3>6. /\ \A q \in Proc : proc'[q].kind # "site"
          /\ \A q \in Actor : proc'[q].kind = "site" => proc'[q].dom \in StaticDomain
      BY <1>0, <3>1 DEF Persisted
    <3>7. ShownIsPersisted'
      BY <1>2, <3>2 DEF ShownIsPersisted
    <3>8. QED
      BY <3>2, <3>4, <3>5, <3>6, <3>7 DEF Persisted
  <2>5. QED
    BY <1>6, <2>1, <2>2, <2>3, <2>4 DEF LoadOrGenerate
<1>7. ASSUME NEW p \in Proc, NEW d \in Domain, VerifyToken(p, d) \/ Add(p, d)
      PROVE  Persisted'
  <2>1. PICK pc \in {"load", "truncate"}, kind \in {"verify", "add"} : Begin(p, pc, kind, d)
    BY <1>7 DEF VerifyToken, Add
  <2>2. /\ proc'[p] = [pc |-> pc, kind |-> kind, dom |-> d, key |-> NoKey]
        /\ \A q \in Actor : q # p => proc'[q] = proc[q]
        /\ mem' = mem /\ shown' = shown /\ todo' = todo
    BY <1>0, <1>7, <2>1 DEF VerifyToken, Add, Begin
  <2>3. ASSUME NEW q \in Actor PROVE Holds(q)'
    BY <1>3, <2>2
  <2>4. /\ \A q \in Proc : proc'[q].kind # "site"
        /\ \A q \in Actor : proc'[q].kind = "site" => proc'[q].dom \in StaticDomain
    <3>1. proc'[p].kind # "site"
      BY <2>2
    <3>2. QED
      BY <1>0, <2>2, <3>1 DEF Persisted
  <2>5. ShownIsPersisted' /\ SignsWithPersisted'
    BY <1>2, <2>2 DEF ShownIsPersisted, SignsWithPersisted
  <2>6. QED
    BY <2>2, <2>3, <2>4, <2>5 DEF Persisted
<1>8. ASSUME NEW p \in Proc, AddTruncate(p) \/ AddWrite(p) \/ AddRegister(p)
      PROVE  Persisted'
  <2>1. PICK pc \in {"write", "register", "load"} : Goto(p, pc)
    BY <1>8 DEF AddTruncate, AddWrite, AddRegister
  <2>2. proc' = [proc EXCEPT ![p] = [pc |-> pc, kind |-> proc[p].kind,
                                     dom |-> proc[p].dom, key |-> proc[p].key]]
    BY <1>0, <1>8, <2>1, GotoFrame DEF AddTruncate, AddWrite, AddRegister
  <2>3. mem' = mem /\ shown' = shown /\ todo' = todo
    BY <1>8 DEF AddTruncate, AddWrite, AddRegister
  <2>4. QED
    BY <1>0, <1>4, <2>2, <2>3
<1>9. ASSUME NEW p \in Proc, Answer(p) PROVE Persisted'
  <2>1. /\ proc' = [proc EXCEPT ![p] = Idle] /\ mem' = mem /\ todo' = todo /\ file' = file
        /\ shown' = [shown EXCEPT ![proc[p].dom] = shown[proc[p].dom] \cup ShownBy(p)]
        /\ proc[p].dom \in Domain /\ proc[p].pc = "answer"
    BY <1>0, <1>9 DEF Answer
  <2>2. ShownBy(p) \subseteq {file["custom"][proc[p].dom]}
    <3>1. PlaceOf(p) = "custom"
      BY DEF PlaceOf, Persisted
    <3>2. QED
      BY <1>0, <2>1, <3>1 DEF ShownBy, Persisted, FileOf
  <2>3. ShownIsPersisted'
    <3>1. ASSUME NEW d \in Domain PROVE shown'[d] \subseteq {file'["custom"][d]}
      BY <1>0, <2>1, <2>2 DEF Persisted, ShownIsPersisted
    <3>2. QED
      BY <3>1 DEF ShownIsPersisted
  <2>4. ASSUME NEW q \in Actor PROVE Holds(q)'
    BY <1>0, <1>3, <2>1
  <2>5. /\ \A q \in Proc : proc'[q].kind # "site"
        /\ \A q \in Actor : proc'[q].kind = "site" => proc'[q].dom \in StaticDomain
    BY <1>0, <2>1 DEF Persisted
  <2>6. SignsWithPersisted'
    BY <1>2, <2>1 DEF SignsWithPersisted
  <2>7. QED
    BY <2>1, <2>3, <2>4, <2>5, <2>6 DEF Persisted
<1>10. CASE Boot
  <2>1. CASE BootLoad
    <3>1. /\ mem' = mem /\ shown' = shown /\ proc' = proc /\ file' = file
          /\ todo' = KeysToLoad
      BY <2>1 DEF BootLoad
    <3>2. \A d \in Domain : <<"site", d>> \in todo' => d \in StaticDomain
      BY <3>1 DEF KeysToLoad
    <3>3. ASSUME NEW q \in Actor PROVE Holds(q)'
      BY <1>3, <3>1
    <3>4. ShownIsPersisted' /\ SignsWithPersisted'
      BY <1>2, <3>1 DEF ShownIsPersisted, SignsWithPersisted
    <3>5. QED
      BY <3>1, <3>2, <3>3, <3>4 DEF Persisted
  <2>2. CASE BootEnd
    BY <1>4, <2>2 DEF BootEnd
  <2>3. CASE BootKeyDone
    <3>1. /\ \A q \in Actor : proc'[q] = proc[q] \/ proc'[q] = Idle
          /\ mem' = mem /\ shown' = shown /\ todo' = todo
      BY <1>0, <2>3 DEF BootKeyDone
    <3>2. QED
      BY <1>4, <3>1
  <2>4. ASSUME NEW place \in Place, NEW d \in Domain, BootKey(place, d) PROVE Persisted'
    <3>1. /\ proc'[Main] = [pc |-> "load", kind |-> place, dom |-> d, key |-> NoKey]
          /\ \A q \in Actor : q # Main => proc'[q] = proc[q]
          /\ mem' = mem /\ shown' = shown /\ todo' \subseteq todo
          /\ place = "site" => d \in StaticDomain
      BY <1>0, <2>4 DEF BootKey, Begin, Persisted
    <3>2. ASSUME NEW q \in Actor PROVE Holds(q)'
      BY <1>3, <3>1
    <3>3. /\ \A q \in Proc : proc'[q].kind # "site"
          /\ \A q \in Actor : proc'[q].kind = "site" => proc'[q].dom \in StaticDomain
      <4>1. /\ \A q \in Proc : proc[q].kind # "site"
            /\ \A q \in Actor : proc[q].kind = "site" => proc[q].dom \in StaticDomain
        BY DEF Persisted
      <4>2. proc'[Main].kind = place /\ proc'[Main].dom = d
        BY <3>1
      <4>3. QED
        BY <1>0, <3>1, <4>1, <4>2
    <3>4. ShownIsPersisted' /\ SignsWithPersisted'
      BY <1>2, <3>1 DEF ShownIsPersisted, SignsWithPersisted
    <3>5. \A e \in Domain : <<"site", e>> \in todo' => e \in StaticDomain
      BY <3>1 DEF Persisted
    <3>6. QED
      BY <3>2, <3>3, <3>4, <3>5 DEF Persisted
  <2>5. QED
    BY <1>10, <2>1, <2>2, <2>3, <2>4 DEF Boot
<1>11. CASE Crash
  <2>1. /\ \A q \in Actor : proc'[q] = Idle
        /\ shown' = shown /\ todo' = {} /\ \A d \in Domain : mem'[d] = NoKey
    BY <1>11 DEF Crash
  <2>2. ShownIsPersisted' /\ SignsWithPersisted'
    BY <1>2, <2>1 DEF ShownIsPersisted, SignsWithPersisted
  <2>3. QED
    BY <1>0, <2>1, <2>2 DEF Persisted
<1>12. ASSUME NEW d \in Domain, SetTXT(d) \/ CreateAccount(d) PROVE Persisted'
  BY <1>4, <1>12 DEF SetTXT, CreateAccount
<1>13. QED
  BY <1>5, <1>6, <1>7, <1>8, <1>9, <1>10, <1>11, <1>12 DEF Next, Handlers

LEMMA SpecPersisted == ASSUME DiskFaults = FALSE PROVE Spec => []Persisted
<1>1. Init => TypeOK /\ OneWriter /\ Persisted
  BY InitType, InitWriter, InitPersisted
<1>2. TypeOK /\ OneWriter /\ Persisted /\ [Next]_vars
        => (TypeOK /\ OneWriter /\ Persisted)'
  BY NextType, NextWriter, NextPersisted
<1>3. QED
  BY <1>1, <1>2, PTL DEF Spec

\* On a disk that does not fail, every DKIM record ever shown for a domain is
\* that of the key on its disk, whatever requests raced and crashes happened.
THEOREM ShownAlwaysPersisted ==
    ASSUME DiskFaults = FALSE PROVE Spec => []ShownIsPersisted
<1>1. Persisted => ShownIsPersisted
  BY DEF Persisted
<1>2. QED
  BY SpecPersisted, <1>1, PTL

\* And a user's own domain is signed with no other key than the one on disk.
THEOREM SignsAlwaysPersisted ==
    ASSUME DiskFaults = FALSE PROVE Spec => []SignsWithPersisted
<1>1. Persisted => SignsWithPersisted
  BY DEF Persisted
<1>2. QED
  BY SpecPersisted, <1>1, PTL

-----------------------------------------------------------------------------
(* The keys of users' domains implement the register.                      *)

\* A key that has been generated and is not yet written is in no file, and in
\* no other hand that is going to write it.
Fresh ==
    /\ \A p \in Actor : proc[p].pc \in {"create", "encode"} =>
          \A place \in Place, d \in Domain : file[place][d] # proc[p].key
    /\ \A p, q \in Actor :
          (/\ proc[p].pc \in {"create", "encode"} /\ proc[q].pc \in {"create", "encode"}
           /\ proc[p].key = proc[q].key) => p = q

LEMMA InitFresh == Init => Fresh
BY DEF Init, Fresh, Idle

\* What a step leaves alone, for the steps that neither write a key nor end
\* with an answer.
Quiet == file' = file /\ shown' = shown

LEMMA NextFresh == ASSUME TypeOK, OneWriter, Fresh, [Next]_vars PROVE Fresh'
<1> USE DEF Idle
<1>0. /\ proc \in [Actor -> Procs] /\ Proc \subseteq Actor /\ Main \in Actor
      /\ \A p \in Actor : PlaceOf(p) \in Place
      /\ \A p \in Actor : proc[p].pc # "idle" => proc[p].dom \in Domain
      /\ \A p \in Actor : proc[p].pc \in {"create", "encode", "set"} => proc[p].key \in Key
      /\ file \in [Place -> [Domain -> Key \cup {NoFile, Torn}]]
      /\ NoFile \notin Key /\ Torn \notin Key
  BY ConstantAssumption DEF TypeOK, PlaceOf, Procs, Place, Actor
\* Nobody newly has a key to write, and no key has been written.
<1>1. ASSUME file' = file,
             \A p \in Actor : proc'[p].pc \in {"create", "encode"} => proc'[p] = proc[p]
      PROVE  Fresh'
  BY <1>1 DEF Fresh
<1>2. ASSUME NEW p \in Actor, LoadOrGenerate(p) PROVE Fresh'
  <2>1. CASE KeyLoad(p)
    <3>1. CASE Readable(FileOf(p))
      <4>1. file' = file /\ proc'[p].pc = "set" /\ \A q \in Actor : q # p => proc'[q] = proc[q]
        BY <1>0, <2>1, <3>1 DEF KeyLoad, Hold
      <4>2. QED
        BY <1>1, <4>1
    <3>2. CASE ~Readable(FileOf(p))
      <4>1. PICK k \in Unused : Hold(p, "create", k)
        BY <2>1, <3>2 DEF KeyLoad
      <4>2. /\ file' = file /\ proc'[p].key = k
            /\ \A q \in Actor : q # p => proc'[q] = proc[q]
        BY <1>0, <2>1, <4>1 DEF KeyLoad, Hold
      <4>3. /\ \A place \in Place, d \in Domain : file[place][d] # k
            /\ \A q \in Actor : proc[q].key # k
        BY DEF Unused
      <4>4. QED
        BY <4>2, <4>3 DEF Fresh
    <3>3. QED
      BY <3>1, <3>2
  <2>2. CASE KeyCreate(p)
    <3>1. CASE MayCreate(FileOf(p))
      <4>1. proc' = [proc EXCEPT ![p] = [pc |-> "encode", kind |-> proc[p].kind,
                                         dom |-> proc[p].dom, key |-> proc[p].key]]
        BY <1>0, <2>2, <3>1, GotoFrame DEF KeyCreate
      <4>2. /\ file' = [file EXCEPT ![PlaceOf(p)][proc[p].dom] = Torn]
            /\ proc[p].pc = "create" /\ proc[p].dom \in Domain
        BY <1>0, <2>2, <3>1 DEF KeyCreate
      <4>3. /\ \A q \in Actor : /\ proc'[q].key = proc[q].key
                                /\ proc'[q].pc \in {"create", "encode"}
                                      => proc[q].pc \in {"create", "encode"}
        BY <1>0, <4>1, <4>2
      <4>4. \A place \in Place, d \in Domain : file'[place][d] \in {file[place][d], Torn}
        BY <1>0, <4>2
      <4>5. QED
        BY <1>0, <4>3, <4>4 DEF Fresh
    <3>2. CASE ~MayCreate(FileOf(p))
      <4>1. file' = file /\ proc'[p].pc = "answer" /\ \A q \in Actor : q # p => proc'[q] = proc[q]
        BY <1>0, <2>2, <3>2 DEF KeyCreate, Hold
      <4>2. QED
        BY <1>1, <4>1
    <3>3. QED
      BY <3>1, <3>2
  <2>3. CASE KeyEncode(p)
    <3>1. proc' = [proc EXCEPT ![p] = [pc |-> "set", kind |-> proc[p].kind,
                                       dom |-> proc[p].dom, key |-> proc[p].key]]
      BY <1>0, <2>3, GotoFrame DEF KeyEncode
    <3>2. \A place \in Place, d \in Domain : file'[place][d] \in {file[place][d], proc[p].key}
      BY <1>0, <2>3 DEF KeyEncode
    <3>3. /\ proc[p].pc = "encode" /\ proc'[p].pc = "set"
          /\ \A q \in Actor : q # p => proc'[q] = proc[q]
      BY <1>0, <2>3, <3>1 DEF KeyEncode
    <3>4. QED
      BY <3>2, <3>3 DEF Fresh
  <2>4. CASE KeySet(p)
    <3>1. proc' = [proc EXCEPT ![p] = [pc |-> "answer", kind |-> proc[p].kind,
                                       dom |-> proc[p].dom, key |-> proc[p].key]]
      BY <1>0, <2>4, GotoFrame DEF KeySet
    <3>2. QED
      BY <1>0, <1>1, <2>4, <3>1 DEF KeySet
  <2>5. QED
    BY <1>2, <2>1, <2>2, <2>3, <2>4 DEF LoadOrGenerate
<1>3. ASSUME NEW p \in Proc, NEW d \in Domain, VerifyToken(p, d) \/ Add(p, d) PROVE Fresh'
  BY <1>0, <1>1, <1>3 DEF VerifyToken, Add, Begin
<1>4. ASSUME NEW p \in Proc, AddTruncate(p) \/ AddWrite(p) \/ AddRegister(p) PROVE Fresh'
  <2>1. PICK pc \in {"write", "register", "load"} : Goto(p, pc)
    BY <1>4 DEF AddTruncate, AddWrite, AddRegister
  <2>2. proc[p].pc # "idle" /\ file' = file
    BY <1>4 DEF AddTruncate, AddWrite, AddRegister
  <2>3. QED
    BY <1>0, <1>1, <2>1, <2>2, GotoFrame
<1>5. ASSUME NEW p \in Proc, Answer(p) PROVE Fresh'
  BY <1>0, <1>1, <1>5 DEF Answer
<1>6. CASE Boot
  <2>1. CASE BootLoad \/ BootEnd
    BY <1>1, <2>1 DEF BootLoad, BootEnd
  <2>2. CASE BootKeyDone
    BY <1>0, <1>1, <2>2 DEF BootKeyDone
  <2>3. ASSUME NEW place \in Place, NEW d \in Domain, BootKey(place, d) PROVE Fresh'
    BY <1>0, <1>1, <2>3 DEF BootKey, Begin
  <2>4. QED
    BY <1>6, <2>1, <2>2, <2>3 DEF Boot
<1>7. CASE Crash
  BY <1>1, <1>7 DEF Crash
<1>8. ASSUME NEW d \in Domain, SetTXT(d) \/ CreateAccount(d) PROVE Fresh'
  BY <1>1, <1>8 DEF SetTXT, CreateAccount
<1>9. CASE UNCHANGED vars
  BY <1>1, <1>9 DEF vars
<1>10. QED
  BY <1>2, <1>3, <1>4, <1>5, <1>6, <1>7, <1>8, <1>9 DEF Next, Handlers

\* The key file of a user's domain, as the register sees it.
Registered == [d \in Domain |-> IF file["custom"][d] \in Key THEN file["custom"][d] ELSE NoKey]

\* Every step creates a key, shows one, or is not seen.
LEMMA StepRegisters ==
    ASSUME DiskFaults = FALSE, TypeOK, OneWriter, Persisted, Fresh, [Next]_vars
    PROVE  [Register!Next]_<<Registered, shown>>
<1> USE DEF Idle
<1>0. /\ proc \in [Actor -> Procs] /\ Proc \subseteq Actor /\ Main \in Actor
      /\ \A p \in Actor : PlaceOf(p) \in Place
      /\ \A p \in Actor : proc[p].pc # "idle" => proc[p].dom \in Domain
      /\ \A p \in Actor : proc[p].key \in Key \cup {NoKey}
      /\ \A p \in Actor : proc[p].pc \in {"create", "encode", "set"} => proc[p].key \in Key
      /\ file \in [Place -> [Domain -> Key \cup {NoFile, Torn}]]
      /\ shown \in [Domain -> SUBSET Key]
      /\ NoFile \notin Key /\ Torn \notin Key /\ NoKey \notin Key
      /\ "custom" \in Place
  BY ConstantAssumption DEF TypeOK, PlaceOf, Procs, Place, Actor
<1>1. ASSUME Quiet PROVE UNCHANGED <<Registered, shown>>
  BY <1>1 DEF Quiet, Registered
<1>2. ASSUME NEW p \in Actor, LoadOrGenerate(p)
      PROVE  [Register!Next]_<<Registered, shown>>
  <2>1. CASE KeyLoad(p) \/ KeySet(p) \/ (KeyCreate(p) /\ ~MayCreate(FileOf(p)))
    BY <1>1, <2>1 DEF Quiet, KeyLoad, KeySet, KeyCreate
  <2>2. CASE KeyCreate(p) /\ MayCreate(FileOf(p))
    <3>1. /\ file' = [file EXCEPT ![PlaceOf(p)][proc[p].dom] = Torn]
          /\ FileOf(p) = NoFile /\ shown' = shown /\ proc[p].dom \in Domain
      BY <1>0, <2>2 DEF KeyCreate, MayCreate
    <3>2. \A d \in Domain : \/ file'["custom"][d] = file["custom"][d]
                            \/ file["custom"][d] = NoFile /\ file'["custom"][d] = Torn
      BY <1>0, <3>1 DEF FileOf
    <3>3. Registered' = Registered
      BY <1>0, <3>2 DEF Registered
    <3>4. QED
      BY <3>1, <3>3
  <2>3. CASE KeyEncode(p)
    <3> DEFINE d == proc[p].dom
               k == proc[p].key
    <3>1. /\ file' = [file EXCEPT ![PlaceOf(p)][d] = k]
          /\ shown' = shown /\ d \in Domain /\ k \in Key
          /\ FileOf(p) = Torn /\ proc[p].pc = "encode"
      BY <1>0, <2>3 DEF KeyEncode, OneWriter
    <3>2. CASE PlaceOf(p) = "custom"
      <4>1. Registered[d] = NoKey
        BY <1>0, <3>1, <3>2 DEF Registered, FileOf
      <4>2. \A e \in Domain : Registered[e] # k
        BY <1>0, <3>1 DEF Registered, Fresh
      <4>3. \A e \in Domain : file'["custom"][e] = IF e = d THEN k ELSE file["custom"][e]
        BY <1>0, <3>1, <3>2
      <4>4. Registered' = [Registered EXCEPT ![d] = k]
        BY <3>1, <4>3 DEF Registered
      <4>5. \E e \in Domain, j \in Key : Register!Create(e, j)
        <5>1. PICK e \in Domain, j \in Key : e = d /\ j = k
          BY <3>1
        <5>2. Register!Create(e, j)
          BY <3>1, <4>1, <4>2, <4>4, <5>1 DEF Register!Create, Registered
        <5>3. QED
          BY <5>2
      <4>6. QED
        BY <4>5 DEF Register!Next
    <3>3. CASE PlaceOf(p) # "custom"
      <4>1. \A e \in Domain : file'["custom"][e] = file["custom"][e]
        BY <1>0, <3>1, <3>3
      <4>2. QED
        BY <3>1, <4>1 DEF Registered
    <3>4. QED
      BY <3>2, <3>3
  <2>4. QED
    BY <1>2, <2>1, <2>2, <2>3 DEF LoadOrGenerate
<1>3. ASSUME NEW p \in Proc, Answer(p) PROVE [Register!Next]_<<Registered, shown>>
  <2> DEFINE d == proc[p].dom
  <2>1. /\ file' = file /\ d \in Domain /\ proc[p].pc = "answer"
        /\ shown' = [shown EXCEPT ![d] = shown[d] \cup ShownBy(p)]
    BY <1>0, <1>3 DEF Answer
  <2>2. Registered' = Registered
    BY <2>1 DEF Registered
  <2>3. CASE proc[p].key = NoKey
    <3>1. ShownBy(p) = {}
      BY <2>3 DEF ShownBy
    <3>2. shown' = shown
      BY <1>0, <2>1, <3>1
    <3>3. QED
      BY <2>2, <3>2
  <2>4. CASE proc[p].key # NoKey
    <3>1. PlaceOf(p) = "custom"
      BY DEF PlaceOf, Persisted
    <3>2. proc[p].key = file["custom"][d] /\ proc[p].key \in Key
      BY <1>0, <2>1, <2>4, <3>1 DEF Persisted, FileOf
    <3>3. Registered[d] = proc[p].key /\ ShownBy(p) = {proc[p].key}
      BY <1>0, <2>1, <2>4, <3>2 DEF Registered, ShownBy
    <3>4. Register!Show(d)
      BY <1>0, <2>1, <2>2, <3>2, <3>3 DEF Register!Show, Registered
    <3>5. QED
      BY <2>1, <3>4 DEF Register!Next
  <2>5. QED
    BY <2>3, <2>4
<1>4. CASE UNCHANGED vars \/ Crash \/ Boot
  BY <1>1, <1>4 DEF vars, Crash, Quiet, Boot, BootLoad, BootKey, BootKeyDone, BootEnd
<1>5. ASSUME NEW p \in Proc, NEW d \in Domain, VerifyToken(p, d) \/ Add(p, d)
      PROVE  Quiet
  BY <1>5 DEF Quiet, VerifyToken, Add
<1>6. ASSUME NEW p \in Proc, AddTruncate(p) \/ AddWrite(p) \/ AddRegister(p) PROVE Quiet
  BY <1>6 DEF Quiet, AddTruncate, AddWrite, AddRegister
<1>7. ASSUME NEW d \in Domain, SetTXT(d) \/ CreateAccount(d) PROVE Quiet
  BY <1>7 DEF Quiet, SetTXT, CreateAccount
<1>8. QED
  BY <1>1, <1>2, <1>3, <1>4, <1>5, <1>6, <1>7 DEF Next, Handlers

\* On a disk that does not fail, the keys of users' domains are a register: one
\* creation per domain, nothing else ever shown, through all races and crashes.
THEOREM RegisterImplemented ==
    ASSUME DiskFaults = FALSE PROVE Spec => KeysAreARegister
<1>1. Init => TypeOK /\ OneWriter /\ Persisted /\ Fresh
  BY InitType, InitWriter, InitPersisted, InitFresh
<1>2. TypeOK /\ OneWriter /\ Persisted /\ Fresh /\ [Next]_vars
        => (TypeOK /\ OneWriter /\ Persisted /\ Fresh)'
  BY NextType, NextWriter, NextPersisted, NextFresh
<1>3. Init => Register!Init
  BY ConstantAssumption DEF Init, Register!Init, Place
<1>4. TypeOK /\ OneWriter /\ Persisted /\ Fresh /\ [Next]_vars
        => [Register!Next]_<<Registered, shown>>
  BY StepRegisters
<1>5. QED
  BY <1>1, <1>2, <1>3, <1>4, PTL DEF Spec, KeysAreARegister, Register!Spec, Registered

-----------------------------------------------------------------------------
(* What each step does to the actor that takes it, as the rest needs it.    *)

\* Everything but the key file, the map and the actors stays.
Inside == UNCHANGED <<phase, todo, json, known, data, txt, shown, issued>>

\* p goes on to r, the others stay where they are.
Moves(p, r) == proc'[p] = r /\ \A q \in Actor : q # p => proc'[q] = proc[q]

At(p, pc, key) == [pc |-> pc, kind |-> proc[p].kind, dom |-> proc[p].dom, key |-> key]

LEMMA Types ==
    ASSUME TypeOK
    PROVE  /\ proc \in [Actor -> Procs] /\ Proc \subseteq Actor
           /\ Main \in Actor /\ Main \notin Proc
           /\ \A p \in Actor : PlaceOf(p) \in Place
           /\ \A p \in Actor : proc[p].pc # "idle" => proc[p].dom \in Domain
           /\ \A p \in Actor : proc[p].pc \in {"create", "encode", "set"} => proc[p].key \in Key
           /\ file \in [Place -> [Domain -> Key \cup {NoFile, Torn}]]
           /\ mem \in [Domain -> Key \cup {NoKey}]
           /\ NoFile \notin Key /\ Torn \notin Key /\ NoKey \notin Key
           /\ "custom" \in Place /\ "site" \in Place
BY ConstantAssumption DEF TypeOK, PlaceOf, Procs, Place, Actor, Idle

LEMMA GoesTo ==
    ASSUME TypeOK, NEW p \in Actor, NEW pc, Goto(p, pc), proc[p].pc # "idle"
    PROVE  Moves(p, At(p, pc, proc[p].key))
BY GotoFrame, Types DEF Moves, At

LEMMA HoldsOn ==
    ASSUME TypeOK, NEW p \in Actor, NEW pc, NEW k, Hold(p, pc, k)
    PROVE  Moves(p, At(p, pc, k))
BY Types DEF Hold, Moves, At

LEMMA LoadSteps ==
    ASSUME TypeOK, NEW p \in Actor, LoadOrGenerate(p)
    PROVE  /\ Inside /\ proc[p].pc # "idle"
           /\ \/ /\ proc[p].pc = "load" /\ FileOf(p) \in Key /\ file' = file /\ mem' = mem
                 /\ Moves(p, At(p, "set", FileOf(p)))
              \/ /\ proc[p].pc = "load" /\ FileOf(p) \notin Key /\ file' = file /\ mem' = mem
                 /\ \E k \in Key : Moves(p, At(p, "create", k))
              \/ /\ proc[p].pc = "create" /\ FileOf(p) = NoFile /\ mem' = mem
                 /\ file' = [file EXCEPT ![PlaceOf(p)][proc[p].dom] = Torn]
                 /\ Moves(p, At(p, "encode", proc[p].key))
              \/ /\ proc[p].pc = "create" /\ file' = file /\ mem' = mem
                 /\ Moves(p, At(p, "answer", NoKey))
              \/ /\ proc[p].pc = "encode" /\ mem' = mem
                 /\ \/ file' = file
                    \/ file' = [file EXCEPT ![PlaceOf(p)][proc[p].dom] = proc[p].key]
                 /\ Moves(p, At(p, "set", proc[p].key))
              \/ /\ proc[p].pc = "set" /\ file' = file
                 /\ mem' = [mem EXCEPT ![proc[p].dom] = proc[p].key]
                 /\ Moves(p, At(p, "answer", proc[p].key))
<1>1. CASE KeyLoad(p)
  <2>1. CASE Readable(FileOf(p))
    BY <1>1, <2>1, HoldsOn DEF KeyLoad, Readable, Inside
  <2>2. CASE ~Readable(FileOf(p))
    <3>1. PICK k \in Unused : Hold(p, "create", k)
      BY <1>1, <2>2 DEF KeyLoad
    <3>2. k \in Key /\ Moves(p, At(p, "create", k))
      BY <3>1, HoldsOn DEF Unused
    <3>3. QED
      BY <1>1, <2>2, <3>2 DEF KeyLoad, Readable, Inside
  <2>3. QED
    BY <2>1, <2>2
<1>2. CASE KeyCreate(p)
  <2>1. CASE MayCreate(FileOf(p))
    BY <1>2, <2>1, GoesTo DEF KeyCreate, MayCreate, Inside
  <2>2. CASE ~MayCreate(FileOf(p))
    BY <1>2, <2>2, HoldsOn DEF KeyCreate, Inside
  <2>3. QED
    BY <2>1, <2>2
<1>3. CASE KeyEncode(p)
  BY <1>3, GoesTo DEF KeyEncode, Inside
<1>4. CASE KeySet(p)
  BY <1>4, GoesTo DEF KeySet, Inside
<1>5. QED
  BY <1>1, <1>2, <1>3, <1>4 DEF LoadOrGenerate

\* The step of a handler: it begins, adds to the registry, or answers.
HandlerStep(p) ==
    /\ UNCHANGED <<phase, todo, file, mem, data, txt>>
    /\ \/ /\ phase = "up" /\ proc[p] = Idle /\ UNCHANGED <<json, known, issued>>
          /\ \E d \in Domain : \/ Moves(p, [pc |-> "load", kind |-> "verify", dom |-> d, key |-> NoKey])
                               \/ /\ Add(p, d)
                                  /\ Moves(p, [pc |-> "truncate", kind |-> "add", dom |-> d, key |-> NoKey])
       \/ /\ proc[p].pc = "truncate" /\ UNCHANGED <<known, issued>>
          /\ json' = [json EXCEPT ![proc[p].dom] = "torn"]
          /\ Moves(p, At(p, "write", proc[p].key))
       \/ /\ proc[p].pc = "write" /\ UNCHANGED <<known, issued>>
          /\ json' = [json EXCEPT ![proc[p].dom] = "valid"]
          /\ Moves(p, At(p, "register", proc[p].key))
       \/ /\ proc[p].pc = "register" /\ UNCHANGED <<json, issued>>
          /\ known' = known \cup {proc[p].dom}
          /\ Moves(p, At(p, "load", proc[p].key))
       \/ /\ proc[p].pc = "answer" /\ UNCHANGED <<json, known>>
          /\ issued' = IF proc[p].kind = "add" THEN issued \cup {proc[p].dom} ELSE issued
          /\ Moves(p, Idle)

LEMMA HandlerSteps == ASSUME TypeOK, Handlers PROVE \E p \in Proc : HandlerStep(p)
<1>1. PICK p \in Proc : \/ \E d \in Domain : VerifyToken(p, d) \/ Add(p, d)
                        \/ AddTruncate(p) \/ AddWrite(p) \/ AddRegister(p) \/ Answer(p)
  BY DEF Handlers
<1>2. p \in Actor /\ proc \in [Actor -> Procs]
  BY Types
<1>3. ASSUME NEW d \in Domain, VerifyToken(p, d)
      PROVE  Moves(p, [pc |-> "load", kind |-> "verify", dom |-> d, key |-> NoKey])
  BY <1>2, <1>3 DEF VerifyToken, Begin, Moves
<1>4. ASSUME NEW d \in Domain, Add(p, d)
      PROVE  Moves(p, [pc |-> "truncate", kind |-> "add", dom |-> d, key |-> NoKey])
  BY <1>2, <1>4 DEF Add, Begin, Moves
<1>5. CASE AddTruncate(p)
  BY <1>2, <1>5, GoesTo DEF HandlerStep, AddTruncate
<1>6. CASE AddWrite(p)
  BY <1>2, <1>6, GoesTo DEF HandlerStep, AddWrite
<1>7. CASE AddRegister(p)
  BY <1>2, <1>7, GoesTo DEF HandlerStep, AddRegister
<1>8. CASE Answer(p)
  BY <1>2, <1>8 DEF HandlerStep, Answer, Moves
<1>9. ASSUME NEW d \in Domain, VerifyToken(p, d) \/ Add(p, d)
      PROVE  /\ phase = "up" /\ proc[p] = Idle
             /\ UNCHANGED <<phase, todo, file, mem, json, known, data, txt, issued>>
  BY <1>9 DEF VerifyToken, Add
<1>10. CASE \E d \in Domain : VerifyToken(p, d) \/ Add(p, d)
  BY <1>3, <1>4, <1>9, <1>10 DEF HandlerStep
<1>11. QED
  BY <1>1, <1>5, <1>6, <1>7, <1>8, <1>10

-----------------------------------------------------------------------------
(* A registered domain is signed for.                                      *)

\* d's key is still to be loaded, or in the hand of somebody who loads it.
Pending(d) ==
    \/ <<"custom", d>> \in todo
    \/ \E p \in Actor : /\ proc[p].pc \in {"load", "set"} /\ PlaceOf(p) = "custom"
                        /\ proc[p].dom = d

\* When a registered domain has a key on its disk, the map has one too, or
\* somebody is about to put it there. Requests wait for the end of start-up.
SignInv ==
    /\ phase = "up" => todo = {} /\ proc[Main] = Idle
    /\ \A p \in Proc : proc[p].kind # "site"
    /\ \A d \in known : file["custom"][d] \in Key => mem[d] # NoKey \/ Pending(d)

LEMMA InitSign == Init => SignInv
BY DEF Init, SignInv, Idle, Actor

\* An actor that goes on takes nobody else's place, and keeps its own.
LEMMA PendingStays ==
    ASSUME NEW p \in Actor, NEW r, Moves(p, r), todo' = todo, NEW d, Pending(d),
           \/ proc[p].pc \notin {"load", "set"}
           \/ proc[p].dom # d
           \/ PlaceOf(p) # "custom"
           \/ r.pc \in {"load", "set"} /\ r.dom = proc[p].dom /\ r.kind = proc[p].kind
    PROVE  Pending(d)'
<1>1. CASE <<"custom", d>> \in todo
  BY <1>1 DEF Pending
<1>2. ASSUME NEW q \in Actor, proc[q].pc \in {"load", "set"}, PlaceOf(q) = "custom",
             proc[q].dom = d
      PROVE  Pending(d)'
  <2>1. PlaceOf(q)' = "custom" /\ proc'[q].pc \in {"load", "set"} /\ proc'[q].dom = d
    BY <1>2 DEF Moves, PlaceOf
  <2>2. QED
    BY <2>1 DEF Pending
<1>3. QED
  BY <1>1, <1>2 DEF Pending

LEMMA LoadSign == ASSUME TypeOK, SignInv, NEW p \in Actor, LoadOrGenerate(p) PROVE SignInv'
<1> DEFINE d == proc[p].dom
<1>0. /\ Inside /\ proc[p].pc # "idle" /\ d \in Domain /\ PlaceOf(p) \in Place
      /\ phase = "up" => p # Main
  BY Types, LoadSteps DEF SignInv, Idle
<1>1. PICK r : Moves(p, r) /\ r.kind = proc[p].kind /\ r.dom = d
  <2>1. PICK pc, k : Moves(p, At(p, pc, k))
    BY LoadSteps
  <2>2. At(p, pc, k).kind = proc[p].kind /\ At(p, pc, k).dom = d
    BY DEF At
  <2>3. QED
    BY <2>1, <2>2
<1>2. /\ phase' = "up" => todo' = {} /\ proc'[Main] = Idle
      /\ \A q \in Proc : proc'[q].kind # "site"
  BY <1>0, <1>1, Types DEF SignInv, Inside, Moves
<1>3. ASSUME NEW e \in known, file'["custom"][e] \in Key
      PROVE  mem'[e] # NoKey \/ Pending(e)'
  <2>0. known \subseteq Domain /\ e \in Domain
    BY DEF TypeOK
  <2>1. CASE proc[p].pc = "set"
    <3>1. /\ file' = file /\ mem' = [mem EXCEPT ![d] = proc[p].key]
          /\ proc[p].key \in Key
      BY <2>1, Types, LoadSteps
    <3>2. CASE e = d
      BY <1>0, <3>1, <3>2, Types
    <3>3. CASE e # d
      <4>1. mem[e] # NoKey \/ Pending(e)
        BY <1>3, <3>1 DEF SignInv
      <4>2. mem'[e] = mem[e]
        BY <2>0, <3>1, <3>3, Types
      <4>3. QED
        BY <1>0, <1>1, <3>3, <4>1, <4>2, PendingStays DEF Inside
    <3>4. QED
      BY <3>2, <3>3
  <2>2. CASE proc[p].pc = "encode"
    <3>1. /\ mem' = mem
          /\ file' = file \/ file' = [file EXCEPT ![PlaceOf(p)][d] = proc[p].key]
          /\ proc'[p].pc = "set" /\ proc'[p].dom = d /\ PlaceOf(p)' = PlaceOf(p)
      <4>1. /\ mem' = mem /\ Moves(p, At(p, "set", proc[p].key))
            /\ file' = file \/ file' = [file EXCEPT ![PlaceOf(p)][d] = proc[p].key]
        BY <2>2, LoadSteps
      <4>2. QED
        BY <4>1 DEF At, Moves, PlaceOf
    <3>2. CASE e = d /\ PlaceOf(p) = "custom"
      BY <3>1, <3>2 DEF Pending
    <3>3. CASE ~(e = d /\ PlaceOf(p) = "custom")
      <4>1. file'["custom"][e] = file["custom"][e]
        BY <1>0, <2>0, <3>1, <3>3, Types
      <4>2. mem[e] # NoKey \/ Pending(e)
        BY <1>3, <4>1 DEF SignInv
      <4>3. QED
        BY <1>0, <1>1, <2>2, <3>1, <4>2, PendingStays DEF Inside
    <3>4. QED
      BY <3>2, <3>3
  <2>3. CASE proc[p].pc = "create"
    <3>1. mem' = mem
      BY <2>3, LoadSteps
    <3>2. file["custom"][e] \in Key
      <4>1. \/ file' = file
            \/ file' = [file EXCEPT ![PlaceOf(p)][d] = Torn]
        BY <2>3, LoadSteps
      <4>2. QED
        BY <1>0, <1>3, <2>0, <4>1, Types
    <3>3. mem[e] # NoKey \/ Pending(e)
      BY <3>2 DEF SignInv
    <3>4. QED
      BY <1>0, <1>1, <2>3, <3>1, <3>3, PendingStays DEF Inside
  <2>4. CASE proc[p].pc = "load"
    <3>1. mem' = mem /\ file' = file
      BY <2>4, LoadSteps
    <3>2. mem[e] # NoKey \/ Pending(e)
      BY <1>3, <3>1 DEF SignInv
    <3>3. CASE FileOf(p) \in Key
      <4>1. Moves(p, At(p, "set", FileOf(p)))
        BY <2>4, <3>3, LoadSteps
      <4>2. /\ At(p, "set", FileOf(p)).pc = "set" /\ At(p, "set", FileOf(p)).dom = d
            /\ At(p, "set", FileOf(p)).kind = proc[p].kind
        BY DEF At
      <4>3. QED
        BY <1>0, <3>1, <3>2, <4>1, <4>2, PendingStays DEF Inside
    <3>4. CASE FileOf(p) \notin Key
      <4>1. e # d \/ PlaceOf(p) # "custom"
        BY <1>3, <3>1, <3>4 DEF FileOf
      <4>2. QED
        BY <1>0, <1>1, <3>1, <3>2, <4>1, PendingStays DEF Inside
    <3>5. QED
      BY <3>3, <3>4
  <2>5. QED
    BY <2>1, <2>2, <2>3, <2>4, LoadSteps
<1>4. known' = known
  BY <1>0 DEF Inside
<1>5. QED
  BY <1>2, <1>3, <1>4 DEF SignInv

LEMMA HandlerSign == ASSUME TypeOK, SignInv, Handlers PROVE SignInv'
<1>1. PICK p \in Proc :
         /\ UNCHANGED <<phase, todo, file, mem>>
         /\ proc[p].pc \notin {"load", "set"}
         /\ \E r : /\ Moves(p, r) /\ r.kind # "site"
                   /\ \/ known' = known
                      \/ known' = known \cup {proc[p].dom} /\ r.pc = "load" /\ r.dom = proc[p].dom
  <2>1. PICK p \in Proc : HandlerStep(p)
    BY HandlerSteps
  <2>2. \A pc, k : At(p, pc, k).kind # "site" /\ At(p, pc, k).pc = pc /\ At(p, pc, k).dom = proc[p].dom
    BY DEF At, SignInv
  <2>3. CASE proc[p] = Idle
    <3>1. proc[p].pc = "idle"
      BY <2>3 DEF Idle
    <3>2. UNCHANGED <<phase, todo, file, mem, known>>
      BY <2>1, <3>1 DEF HandlerStep
    <3>3. PICK d : \/ Moves(p, [pc |-> "load", kind |-> "verify", dom |-> d, key |-> NoKey])
                   \/ Moves(p, [pc |-> "truncate", kind |-> "add", dom |-> d, key |-> NoKey])
      BY <2>1, <3>1 DEF HandlerStep
    <3>4. PICK r : Moves(p, r) /\ r.kind \in {"verify", "add"}
      BY <3>3
    <3>5. QED
      BY <3>1, <3>2, <3>4
  <2>4. CASE proc[p].pc = "register"
    BY <2>1, <2>2, <2>4 DEF HandlerStep, Idle
  <2>5. CASE proc[p].pc = "answer"
    <3>1. Moves(p, Idle) /\ Idle.kind # "site"
      BY <2>1, <2>5 DEF HandlerStep, Idle
    <3>2. QED
      BY <2>1, <2>5, <3>1 DEF HandlerStep, Idle
  <2>6. CASE proc[p].pc \in {"truncate", "write"}
    BY <2>1, <2>2, <2>6 DEF HandlerStep, Idle
  <2>7. QED
    BY <2>1, <2>3, <2>4, <2>5, <2>6 DEF HandlerStep
<1>2. PICK r : /\ Moves(p, r) /\ r.kind # "site"
               /\ \/ known' = known
                  \/ known' = known \cup {proc[p].dom} /\ r.pc = "load" /\ r.dom = proc[p].dom
  BY <1>1
<1>3. /\ phase' = "up" => todo' = {} /\ proc'[Main] = Idle
      /\ \A q \in Proc : proc'[q].kind # "site"
  BY <1>1, <1>2, Types DEF SignInv, Moves
<1>4. ASSUME NEW d \in known', file'["custom"][d] \in Key
      PROVE  mem'[d] # NoKey \/ Pending(d)'
  <2>1. CASE d \in known
    BY <1>1, <1>2, <1>4, <2>1, PendingStays, Types DEF SignInv
  <2>2. CASE d \notin known
    <3>1. proc'[p].pc = "load" /\ proc'[p].dom = d /\ PlaceOf(p)' = "custom"
      BY <1>2, <2>2 DEF Moves, PlaceOf
    <3>2. QED
      BY <3>1, Types DEF Pending
  <2>3. QED
    BY <2>1, <2>2
<1>5. QED
  BY <1>3, <1>4 DEF SignInv

LEMMA BootSign == ASSUME TypeOK, SignInv, Boot PROVE SignInv'
<1>1. CASE BootLoad
  <2>1. /\ phase' = "boot" /\ proc' = proc /\ known' = Restored
        /\ \A d \in Restored : <<"custom", d>> \in todo'
    BY <1>1 DEF BootLoad, KeysToLoad
  <2>2. QED
    BY <2>1 DEF SignInv, Pending
<1>2. ASSUME NEW place \in Place, NEW e \in Domain, BootKey(place, e)
      PROVE  SignInv'
  <2> DEFINE r == [pc |-> "load", kind |-> place, dom |-> e, key |-> NoKey]
  <2>1. /\ phase' = "boot" /\ todo' = todo \ {<<place, e>>} /\ proc[Main] = Idle
        /\ Moves(Main, r) /\ UNCHANGED <<file, mem, known>>
    BY <1>2, Types DEF BootKey, Begin, Moves
  <2>2. \A q \in Proc : proc'[q].kind # "site"
    BY <2>1, Types DEF SignInv, Moves
  <2>3. ASSUME NEW d, Pending(d)
        PROVE  Pending(d)'
    <3>1. CASE <<"custom", d>> = <<place, e>>
      <4>1. PlaceOf(Main)' = "custom" /\ proc'[Main].pc = "load" /\ proc'[Main].dom = d
        BY <2>1, <3>1 DEF Moves, PlaceOf
      <4>2. QED
        BY <4>1, Types DEF Pending
    <3>2. CASE <<"custom", d>> \in todo /\ <<"custom", d>> # <<place, e>>
      BY <2>1, <3>2 DEF Pending
    <3>3. ASSUME NEW q \in Actor, proc[q].pc \in {"load", "set"}, PlaceOf(q) = "custom",
                 proc[q].dom = d
          PROVE  Pending(d)'
      <4>1. q # Main
        BY <2>1, <3>3 DEF Idle
      <4>2. proc'[q] = proc[q] /\ PlaceOf(q)' = "custom"
        BY <2>1, <3>3, <4>1 DEF Moves, PlaceOf
      <4>3. QED
        BY <3>3, <4>2 DEF Pending
    <3>4. QED
      BY <2>3, <3>1, <3>2, <3>3 DEF Pending
  <2>4. QED
    BY <2>1, <2>2, <2>3 DEF SignInv
<1>3. CASE BootKeyDone
  <2>1. /\ phase' = "boot" /\ todo' = todo /\ proc[Main].pc = "answer" /\ Moves(Main, Idle)
        /\ UNCHANGED <<file, mem, known>>
    BY <1>3, Types DEF BootKeyDone, Moves
  <2>2. \A q \in Proc : proc'[q].kind # "site"
    BY <2>1, Types DEF SignInv, Moves
  <2>3. ASSUME NEW d, Pending(d)
        PROVE  Pending(d)'
    BY <2>1, <2>3, PendingStays, Types
  <2>4. QED
    BY <2>1, <2>2, <2>3 DEF SignInv
<1>4. CASE BootEnd
  BY <1>4 DEF BootEnd, SignInv, Pending, PlaceOf
<1>5. QED
  BY <1>1, <1>2, <1>3, <1>4 DEF Boot

LEMMA NextSign == ASSUME TypeOK, SignInv, [Next]_vars PROVE SignInv'
<1>1. CASE Crash
  BY <1>1 DEF Crash, SignInv, Idle, Actor
<1>2. ASSUME NEW d \in Domain, SetTXT(d) \/ CreateAccount(d)
      PROVE  UNCHANGED <<phase, todo, file, mem, known, proc>>
  BY <1>2 DEF SetTXT, CreateAccount
<1>3. CASE UNCHANGED <<phase, todo, file, mem, known, proc>>
  BY <1>3 DEF SignInv, Pending, PlaceOf
<1>4. QED
  BY <1>1, <1>2, <1>3, LoadSign, HandlerSign, BootSign DEF Next, vars

\* Once start-up is over, a registered domain with a readable key is signed for,
\* unless a request is just about it: no restart, lost race or failing disk
\* leaves it unsigned.
THEOREM RegisteredAlwaysSigns == Spec => []RegisteredSigns
<1>1. SignInv => RegisteredSigns
  <2> SUFFICES ASSUME SignInv, phase = "up", NEW d \in known, file["custom"][d] \in Key,
                      \A p \in Proc : proc[p].dom # d
               PROVE  mem[d] # NoKey
    BY DEF RegisteredSigns
  <2>1. ~Pending(d)
    BY DEF SignInv, Pending, Idle, Actor
  <2>2. QED
    BY <2>1 DEF SignInv
<1>2. QED
  BY InitType, NextType, InitSign, NextSign, <1>1, PTL DEF Spec

-----------------------------------------------------------------------------
(* A configured domain starts with its own key.                            *)

OnSite(d) == proc[Main].kind = "site" /\ proc[Main].dom = d

\* Nobody but start-up runs before its end. While a key of a user is still to
\* be loaded, so are all of the configured domains; from then on no user's key
\* gets into the map any more, and a configured key that is not in it is in the
\* hand of start-up.
BootInv ==
    /\ phase # "up" => \A p \in Proc : proc[p] = Idle
    /\ phase # "boot" => proc[Main] = Idle
    /\ proc[Main].kind \in Place \cup {"none"}
    /\ (proc[Main].kind = "site" /\ proc[Main].pc = "set" /\ FileOf(Main) \in Key)
          => proc[Main].key = FileOf(Main)
    /\ phase = "boot" =>
         /\ (proc[Main].kind = "custom" \/ \E e \in Domain : <<"custom", e>> \in todo)
               => \A d \in StaticDomain : <<"site", d>> \in todo
         /\ \A d \in StaticDomain : file["site"][d] \in Key =>
               \/ <<"site", d>> \in todo \/ mem[d] = file["site"][d]
               \/ proc[Main].pc \in {"load", "set"} /\ OnSite(d)

LEMMA InitBoot == Init => BootInv
BY DEF Init, BootInv, Idle, Actor

LEMMA LoadBoot ==
    ASSUME TypeOK, OneWriter, BootInv, NEW p \in Actor, LoadOrGenerate(p)
    PROVE  BootInv'
<1>0. Inside /\ proc[p].pc # "idle" /\ proc[p].dom \in Domain /\ PlaceOf(p) \in Place
  BY LoadSteps, Types
<1>1. PICK pc, k : Moves(p, At(p, pc, k))
  BY LoadSteps
<1>2. CASE phase # "boot"
  <2>1. proc[Main] = Idle /\ p # Main /\ phase = "up"
    BY <1>0, <1>2 DEF BootInv, Idle, Actor
  <2>2. proc'[Main] = Idle /\ phase' = "up"
    BY <1>0, <1>1, <2>1, Types DEF Moves, Inside
  <2>3. QED
    BY <2>2 DEF BootInv, Idle
<1>3. CASE phase = "boot"
  <2> DEFINE d == proc[p].dom
  <2>1. p = Main /\ \A q \in Proc : proc[q] = Idle
    BY <1>0, <1>3 DEF BootInv, Idle, Actor
  <2>2. /\ \A q \in Proc : proc'[q] = Idle
        /\ phase' = "boot" /\ todo' = todo
        /\ proc'[Main].kind = proc[Main].kind /\ proc'[Main].dom = proc[Main].dom
        /\ proc'[Main].pc = pc /\ proc'[Main].key = k
    BY <1>0, <1>1, <1>3, <2>1, Types DEF Moves, At, Inside
  <2>3. FileOf(Main)' = file'[PlaceOf(Main)][proc[Main].dom]
        /\ \A e : OnSite(e)' <=> OnSite(e)
    BY <2>2 DEF FileOf, PlaceOf, OnSite
  <2>4. (proc[Main].kind = "custom" \/ \E e \in Domain : <<"custom", e>> \in todo)
               => \A e \in StaticDomain : <<"site", e>> \in todo
    BY <1>3 DEF BootInv
  <2>5. \A e \in StaticDomain : file["site"][e] \in Key =>
               \/ <<"site", e>> \in todo \/ mem[e] = file["site"][e]
               \/ proc[Main].pc \in {"load", "set"} /\ OnSite(e)
    BY <1>3 DEF BootInv
  <2>6. StaticDomain \subseteq Domain
    BY ConstantAssumption
  <2>7. /\ (proc'[Main].kind = "site" /\ proc'[Main].pc = "set" /\ FileOf(Main)' \in Key)
              => proc'[Main].key = FileOf(Main)'
        /\ \A e \in StaticDomain : file'["site"][e] \in Key =>
               \/ <<"site", e>> \in todo' \/ mem'[e] = file'["site"][e]
               \/ proc'[Main].pc \in {"load", "set"} /\ OnSite(e)'
    <3>1. CASE proc[p].pc = "load"
      <4>1. /\ file' = file /\ mem' = mem
            /\ \/ FileOf(p) \in Key /\ Moves(p, At(p, "set", FileOf(p)))
               \/ FileOf(p) \notin Key /\ \E j \in Key : Moves(p, At(p, "create", j))
        BY <3>1, LoadSteps
      <4>2. \/ FileOf(Main) \in Key /\ proc'[Main].pc = "set" /\ proc'[Main].key = FileOf(Main)
            \/ FileOf(Main) \notin Key /\ proc'[Main].pc = "create"
        <5>1. \A j, c : /\ Moves(p, At(p, c, j)) => proc'[Main].pc = c /\ proc'[Main].key = j
          BY <2>1 DEF Moves, At
        <5>2. QED
          BY <2>1, <4>1, <5>1
      <4>3. FileOf(Main)' = FileOf(Main)
        BY <2>3, <4>1 DEF FileOf
      <4>4. \A e \in StaticDomain : OnSite(e) => FileOf(Main) = file["site"][e]
        BY DEF OnSite, FileOf, PlaceOf
      <4>5. QED
        BY <2>2, <2>3, <2>5, <4>1, <4>2, <4>3, <4>4
    <3>2. CASE proc[p].pc = "create"
      <4>1. /\ mem' = mem /\ \/ file' = file
                             \/ file' = [file EXCEPT ![PlaceOf(p)][d] = Torn]
            /\ \/ Moves(p, At(p, "encode", proc[p].key))
               \/ Moves(p, At(p, "answer", NoKey))
        BY <3>2, LoadSteps
      <4>2. proc'[Main].pc # "set"
        BY <2>1, <4>1 DEF Moves, At
      <4>3. \A e \in StaticDomain : file'["site"][e] \in Key => file'["site"][e] = file["site"][e]
        BY <1>0, <2>6, <4>1, Types
      <4>4. QED
        BY <2>1, <2>2, <2>3, <2>5, <3>2, <4>1, <4>2, <4>3
    <3>3. CASE proc[p].pc = "encode"
      <4>1. /\ mem' = mem /\ proc[p].key \in Key /\ FileOf(p) = Torn
            /\ \/ file' = file \/ file' = [file EXCEPT ![PlaceOf(p)][d] = proc[p].key]
            /\ Moves(p, At(p, "set", proc[p].key))
        BY <3>3, LoadSteps, Types DEF OneWriter
      <4>2. proc'[Main].pc = "set" /\ proc'[Main].key = proc[Main].key
        BY <2>1, <4>1 DEF Moves, At
      <4>3. FileOf(Main)' \in Key => FileOf(Main)' = proc[Main].key
        BY <1>0, <2>1, <2>3, <4>1, Types DEF FileOf
      <4>4. \A e \in StaticDomain : ~OnSite(e) => file'["site"][e] = file["site"][e]
        BY <1>0, <2>1, <2>6, <4>1, Types DEF OnSite, PlaceOf
      <4>5. QED
        BY <2>2, <2>3, <2>5, <4>1, <4>2, <4>3, <4>4
    <3>4. CASE proc[p].pc = "set"
      <4>1. /\ file' = file /\ mem' = [mem EXCEPT ![d] = proc[p].key]
            /\ Moves(p, At(p, "answer", proc[p].key))
        BY <3>4, LoadSteps
      <4>2. proc'[Main].pc = "answer"
        BY <2>1, <4>1 DEF Moves, At
      <4>3. ASSUME NEW e \in StaticDomain, file["site"][e] \in Key
            PROVE  <<"site", e>> \in todo \/ mem'[e] = file["site"][e]
        <5>1. CASE OnSite(e)
          <6>1. FileOf(Main) = file["site"][e] /\ proc[Main].kind = "site" /\ d = e
            BY <2>1, <5>1 DEF OnSite, FileOf, PlaceOf
          <6>2. proc[Main].key = file["site"][e]
            BY <2>1, <3>4, <4>3, <6>1 DEF BootInv
          <6>3. QED
            BY <1>0, <2>1, <2>6, <4>1, <6>1, <6>2, Types
        <5>2. CASE ~OnSite(e) /\ d = e
          <6>1. proc[Main].kind = "custom"
            <7>1. proc[Main].kind # "none"
              BY <2>1, <3>4, Types DEF Procs, Idle, Kinds, Place
            <7>2. QED
              BY <2>1, <5>2, <7>1 DEF BootInv, OnSite, Place
          <6>2. QED
            BY <2>4, <6>1
        <5>3. CASE d # e
          <6>1. mem'[e] = mem[e] /\ ~OnSite(e)
            BY <2>1, <2>6, <4>1, <5>3, Types DEF OnSite
          <6>2. QED
            BY <2>5, <4>3, <6>1
        <5>4. QED
          BY <5>1, <5>2, <5>3
      <4>4. QED
        BY <2>2, <4>1, <4>2, <4>3
    <3>5. QED
      BY <3>1, <3>2, <3>3, <3>4, LoadSteps
  <2>8. QED
    BY <2>2, <2>4, <2>7 DEF BootInv
<1>4. QED
  BY <1>2, <1>3

LEMMA HandlerBoot == ASSUME TypeOK, BootInv, Handlers PROVE BootInv'
<1>1. PICK p \in Proc : HandlerStep(p)
  BY HandlerSteps
<1>2. phase' = phase /\ \E r : Moves(p, r)
  BY <1>1 DEF HandlerStep
<1>3. phase = "up"
  <2>1. CASE proc[p] = Idle
    BY <1>1, <2>1 DEF HandlerStep, Idle
  <2>2. CASE proc[p] # Idle
    BY <2>2 DEF BootInv
  <2>3. QED
    BY <2>1, <2>2
<1>4. proc'[Main] = Idle
  BY <1>2, <1>3, Types DEF BootInv, Moves
<1>5. QED
  BY <1>2, <1>3, <1>4 DEF BootInv, Idle

LEMMA BootBoot == ASSUME TypeOK, BootInv, Boot PROVE BootInv'
<1>1. CASE BootLoad
  <2>1. /\ phase = "down" /\ phase' = "boot" /\ proc' = proc
        /\ \A d \in StaticDomain : <<"site", d>> \in todo'
    BY <1>1 DEF BootLoad, KeysToLoad
  <2>2. proc[Main] = Idle /\ \A q \in Proc : proc[q] = Idle
    BY <2>1 DEF BootInv
  <2>3. QED
    BY <2>1, <2>2 DEF BootInv, Idle
<1>2. ASSUME NEW place \in Place, NEW e \in Domain, BootKey(place, e)
      PROVE  BootInv'
  <2> DEFINE r == [pc |-> "load", kind |-> place, dom |-> e, key |-> NoKey]
  <2>1. /\ phase = "boot" /\ phase' = "boot" /\ todo' = todo \ {<<place, e>>}
        /\ <<place, e>> \in todo /\ proc[Main] = Idle /\ InTurn(place)
        /\ Moves(Main, r) /\ UNCHANGED <<file, mem>>
    BY <1>2, Types DEF BootKey, Begin, Moves
  <2>2. proc'[Main].pc = "load" /\ proc'[Main].kind = place /\ proc'[Main].dom = e
    BY <2>1 DEF Moves
  <2>3. \A q \in Proc : proc'[q] = Idle
    BY <2>1, Types DEF BootInv, Moves
  <2>4. (proc'[Main].kind = "custom" \/ \E d \in Domain : <<"custom", d>> \in todo')
           => \A d \in StaticDomain : <<"site", d>> \in todo'
    <3>1. CASE place = "custom"
      <4>1. \A d \in StaticDomain : <<"site", d>> \in todo
        BY <2>1, <3>1 DEF BootInv
      <4>2. QED
        BY <2>1, <3>1, <4>1
    <3>2. CASE place = "site"
      BY <2>1, <2>2, <3>2 DEF InTurn
    <3>3. QED
      BY <3>1, <3>2 DEF Place
  <2>5. ASSUME NEW d \in StaticDomain, file["site"][d] \in Key
        PROVE  \/ <<"site", d>> \in todo' \/ mem[d] = file["site"][d]
               \/ proc'[Main].pc \in {"load", "set"} /\ OnSite(d)'
    <3>1. <<"site", d>> \in todo \/ mem[d] = file["site"][d]
      BY <2>1, <2>5 DEF BootInv, Idle
    <3>2. CASE <<"site", d>> = <<place, e>>
      BY <2>2, <3>2 DEF OnSite
    <3>3. CASE <<"site", d>> # <<place, e>>
      BY <2>1, <3>1, <3>3
    <3>4. QED
      BY <3>2, <3>3
  <2>6. QED
    BY <2>1, <2>2, <2>3, <2>4, <2>5 DEF BootInv
<1>3. CASE BootKeyDone
  <2>1. /\ phase = "boot" /\ phase' = "boot" /\ todo' = todo /\ proc[Main].pc = "answer"
        /\ proc'[Main] = Idle /\ \A q \in Proc : proc'[q] = proc[q]
        /\ UNCHANGED <<file, mem>>
    BY <1>3, Types DEF BootKeyDone
  <2>2. QED
    BY SMTT(30), <2>1 DEF BootInv, Idle
<1>4. CASE BootEnd
  BY <1>4 DEF BootEnd, BootInv, Idle
<1>5. QED
  BY <1>1, <1>2, <1>3, <1>4 DEF Boot

LEMMA NextBoot == ASSUME TypeOK, OneWriter, BootInv, [Next]_vars PROVE BootInv'
<1>1. CASE Crash
  BY <1>1 DEF Crash, BootInv, Idle, Actor
<1>2. ASSUME NEW d \in Domain, SetTXT(d) \/ CreateAccount(d)
      PROVE  UNCHANGED <<phase, todo, file, mem, proc>>
  BY <1>2 DEF SetTXT, CreateAccount
<1>3. CASE UNCHANGED <<phase, todo, file, mem, proc>>
  BY <1>3 DEF BootInv, FileOf, PlaceOf, OnSite
<1>4. QED
  BY <1>1, <1>2, <1>3, LoadBoot, HandlerBoot, BootBoot DEF Next, vars

\* Start-up ends with every configured domain signing with its own key file,
\* whatever others asked for the same name before, and even if writing keys fails.
THEOREM SiteKeyWins == Spec => BootSiteWins
<1>1. ASSUME BootInv, [Next]_vars
      PROVE  [(phase = "boot" /\ phase' = "up") =>
                 \A d \in StaticDomain : file["site"][d] \in Key => mem[d] = file["site"][d]]_vars
  <2> SUFFICES ASSUME phase = "boot", phase' = "up",
                      NEW d \in StaticDomain, file["site"][d] \in Key
               PROVE  mem[d] = file["site"][d]
    OBVIOUS
  <2>1. BootEnd
    <3>1. ASSUME NEW p \in Actor, LoadOrGenerate(p)
          PROVE  phase' = phase
      BY <3>1 DEF LoadOrGenerate, KeyLoad, KeyCreate, KeyEncode, KeySet
    <3>2. Handlers => phase' = phase
      BY DEF Handlers, VerifyToken, Add, AddTruncate, AddWrite, AddRegister, Answer
    <3>3. ASSUME NEW e \in Domain, SetTXT(e) \/ CreateAccount(e)
          PROVE  phase' = phase
      BY <3>3 DEF SetTXT, CreateAccount
    <3>4. \A place \in Place, e \in Domain : BootKey(place, e) => phase' = phase
      BY DEF BootKey
    <3>5. Boot => BootEnd \/ phase' = phase \/ phase = "down"
      BY <3>4 DEF Boot, BootLoad, BootKeyDone
    <3>6. Crash => phase' = "down"
      BY DEF Crash
    <3>7. Next
      BY <1>1 DEF vars
    <3>8. QED
      BY <3>1, <3>2, <3>3, <3>5, <3>6, <3>7 DEF Next
  <2>2. todo = {} /\ proc[Main].pc = "idle"
    BY <2>1 DEF BootEnd, Idle
  <2>3. \/ <<"site", d>> \in todo \/ mem[d] = file["site"][d]
        \/ proc[Main].pc \in {"load", "set"}
    BY <1>1 DEF BootInv
  <2>4. QED
    BY <2>2, <2>3
<1>2. QED
  BY InitType, NextType, InitWriter, NextWriter, InitBoot, NextBoot, <1>1, PTL DEF Spec, BootSiteWins

-----------------------------------------------------------------------------
(* The data of a registered domain.                                        *)

\* From the moment a request has written domain.json until its secret is handed
\* out, and ever after, there is a domain.json: complete, or truncated by a later
\* addition of the same domain.
AddInv ==
    /\ \A p \in Proc : proc[p].pc \in {"truncate", "write", "register"} => proc[p].kind = "add"
    /\ \A p \in Proc : (proc[p].kind = "add" /\ proc[p].pc # "truncate")
                          => json[proc[p].dom] # "none"
    /\ \A d \in issued : json[d] # "none"

LEMMA InitAdd == Init => AddInv
BY DEF Init, AddInv, Idle, Actor

\* A step that leaves the registry alone and puts nobody at the writing of it.
LEMMA AddStays ==
    ASSUME AddInv, json' = json, issued' = issued,
           \A p \in Proc :
              \/ proc'[p] = proc[p]
              \/ /\ proc'[p].pc \notin {"truncate", "write", "register"}
                 /\ proc'[p].kind = "add" =>
                       /\ proc[p].kind = "add" /\ proc'[p].dom = proc[p].dom
                       /\ proc[p].pc # "truncate"
    PROVE  AddInv'
<1>1. \A p \in Proc : proc'[p].pc \in {"truncate", "write", "register"} => proc'[p].kind = "add"
  BY DEF AddInv
<1>2. \A p \in Proc : (proc'[p].kind = "add" /\ proc'[p].pc # "truncate")
                          => json[proc'[p].dom] # "none"
  BY DEF AddInv
<1>3. QED
  BY <1>1, <1>2 DEF AddInv

LEMMA LoadAdd == ASSUME TypeOK, AddInv, NEW p \in Actor, LoadOrGenerate(p) PROVE AddInv'
<1>1. proc[p].pc \in {"load", "create", "encode", "set"} /\ json' = json /\ issued' = issued
  BY LoadSteps DEF Inside
<1>2. PICK pc, k : Moves(p, At(p, pc, k)) /\ pc \in {"create", "encode", "set", "answer"}
  BY LoadSteps
<1>3. /\ proc'[p].pc = pc /\ proc'[p].kind = proc[p].kind /\ proc'[p].dom = proc[p].dom
      /\ \A q \in Proc : q # p => proc'[q] = proc[q]
  BY <1>2, Types DEF Moves, At
<1>4. QED
  BY <1>1, <1>2, <1>3, AddStays

LEMMA HandlerAdd == ASSUME TypeOK, AddInv, Handlers PROVE AddInv'
<1>1. PICK p \in Proc : HandlerStep(p)
  BY HandlerSteps
<1>2. /\ p \in Actor /\ json \in [Domain -> {"none", "torn", "valid"}]
      /\ proc[p].pc # "idle" => proc[p].dom \in Domain
      /\ \A q \in Proc : q \in Actor
  BY Types DEF TypeOK
<1>3. CASE proc[p] = Idle
  <2>1. UNCHANGED <<json, issued>> /\ proc[p].kind = "none"
    BY <1>1, <1>3 DEF HandlerStep, Idle
  <2>2. ASSUME NEW d \in Domain, Moves(p, [pc |-> "load", kind |-> "verify", dom |-> d, key |-> NoKey])
        PROVE  AddInv'
    <3>1. proc'[p].pc = "load" /\ proc'[p].kind = "verify"
      BY <2>2 DEF Moves
    <3>2. QED
      BY <1>2, <2>1, <2>2, <3>1, AddStays DEF Moves
  <2>3. ASSUME NEW d \in Domain,
               Moves(p, [pc |-> "truncate", kind |-> "add", dom |-> d, key |-> NoKey])
        PROVE  AddInv'
    <3>1. /\ proc'[p].pc = "truncate" /\ proc'[p].kind = "add"
          /\ \A q \in Proc : q # p => proc'[q] = proc[q]
      BY <1>2, <2>3 DEF Moves
    <3>2. QED
      BY <2>1, <3>1 DEF AddInv
  <2>4. PICK d \in Domain :
          \/ Moves(p, [pc |-> "load", kind |-> "verify", dom |-> d, key |-> NoKey])
          \/ Moves(p, [pc |-> "truncate", kind |-> "add", dom |-> d, key |-> NoKey])
    BY <1>1, <1>3 DEF HandlerStep, Idle
  <2>5. QED
    BY <2>2, <2>3, <2>4
\* p truncates or fills domain.json: either way it exists.
<1>4. ASSUME NEW t \in {"torn", "valid"}, NEW pc \in {"write", "register"},
             json' = [json EXCEPT ![proc[p].dom] = t], issued' = issued,
             Moves(p, At(p, pc, proc[p].key)), proc[p].pc \in {"truncate", "write"}
      PROVE  AddInv'
  <2>1. proc[p].kind = "add" /\ proc[p].dom \in Domain
    BY <1>2, <1>4 DEF AddInv
  <2>2. /\ proc'[p].pc = pc /\ proc'[p].kind = "add" /\ proc'[p].dom = proc[p].dom
        /\ \A q \in Proc : q # p => proc'[q] = proc[q]
    BY <1>2, <1>4, <2>1 DEF Moves, At
  <2>3. /\ json'[proc[p].dom] # "none"
        /\ \A d : json[d] # "none" => json'[d] # "none"
    BY <1>2, <1>4, <2>1
  <2>4. \A q \in Proc : proc'[q].pc \in {"truncate", "write", "register"} => proc'[q].kind = "add"
    BY <2>2 DEF AddInv
  <2>5. \A q \in Proc : (proc'[q].kind = "add" /\ proc'[q].pc # "truncate")
                          => json'[proc'[q].dom] # "none"
    BY <2>2, <2>3 DEF AddInv
  <2>6. \A d \in issued : json'[d] # "none"
    BY <2>3 DEF AddInv
  <2>7. QED
    BY <1>4, <2>4, <2>5, <2>6 DEF AddInv
<1>5. CASE proc[p].pc \in {"truncate", "write"}
  BY <1>1, <1>4, <1>5 DEF HandlerStep, Idle
<1>6. CASE proc[p].pc = "register"
  <2>1. json' = json /\ issued' = issued /\ Moves(p, At(p, "load", proc[p].key))
    BY <1>1, <1>6 DEF HandlerStep, Idle
  <2>2. /\ proc'[p].pc = "load" /\ proc'[p].kind = proc[p].kind /\ proc'[p].dom = proc[p].dom
        /\ \A q \in Proc : q # p => proc'[q] = proc[q]
    BY <1>2, <2>1 DEF Moves, At
  <2>3. QED
    BY <1>6, <2>1, <2>2, AddStays
<1>7. CASE proc[p].pc = "answer"
  <2>1. /\ json' = json /\ Moves(p, Idle)
        /\ issued' = IF proc[p].kind = "add" THEN issued \cup {proc[p].dom} ELSE issued
    BY <1>1, <1>7 DEF HandlerStep, Idle
  <2>2. proc'[p] = Idle /\ \A q \in Proc : q # p => proc'[q] = proc[q]
    BY <1>2, <2>1 DEF Moves
  <2>3. proc[p].kind = "add" => json[proc[p].dom] # "none"
    BY <1>7 DEF AddInv
  <2>4. QED
    BY <2>1, <2>2, <2>3 DEF AddInv, Idle
<1>8. QED
  BY <1>1, <1>3, <1>5, <1>6, <1>7 DEF HandlerStep

LEMMA NextAdd == ASSUME TypeOK, AddInv, [Next]_vars PROVE AddInv'
<1>1. CASE Crash
  <2>1. json' = json /\ issued' = issued /\ \A p \in Proc : proc'[p] = Idle
    BY <1>1 DEF Crash, Actor
  <2>2. QED
    BY <2>1, AddStays DEF Idle
<1>2. CASE Boot
  <2>1. json' = json /\ issued' = issued
    BY <1>2 DEF Boot, BootLoad, BootKey, BootKeyDone, BootEnd
  <2>2. \A q \in Proc : proc'[q] = proc[q]
    BY <1>2, Types DEF Boot, BootLoad, BootKey, BootKeyDone, BootEnd, Begin
  <2>3. QED
    BY <2>1, <2>2, AddStays
<1>3. ASSUME NEW d \in Domain, SetTXT(d) \/ CreateAccount(d)
      PROVE  json' = json /\ issued' = issued /\ proc' = proc
  BY <1>3 DEF SetTXT, CreateAccount
<1>4. CASE json' = json /\ issued' = issued /\ proc' = proc
  BY <1>4, AddStays
<1>5. QED
  BY <1>1, <1>2, <1>3, <1>4, LoadAdd, HandlerAdd DEF Next, vars

\* However often a domain is added, and whenever the process dies, start-up
\* deletes account data of a domain whose addition was acknowledged only when it
\* finds its domain.json torn: a repeated addition (customdomain.go:198-216) had
\* truncated the file and none had filled it again. An acknowledged domain is
\* never missing from the disk, and one whose last rewrite was completed is safe.
DataLostOnlyIfTorn ==
    [][\A d \in issued : (d \in data /\ d \notin data') => phase = "down" /\ json[d] = "torn"]_vars

THEOREM DataOutlivesRestart == Spec => DataLostOnlyIfTorn
<1>1. ASSUME TypeOK, AddInv, [Next]_vars
      PROVE  [\A d \in issued : (d \in data /\ d \notin data')
                 => phase = "down" /\ json[d] = "torn"]_vars
  <2> SUFFICES ASSUME NEW d \in issued, d \in data, d \notin data'
               PROVE  phase = "down" /\ json[d] = "torn"
    OBVIOUS
  <2>1. CASE BootLoad
    <3>1. d \in Domain /\ json[d] \in {"torn", "valid"}
      BY <1>1 DEF TypeOK, AddInv
    <3>2. QED
      BY <2>1, <3>1 DEF BootLoad, KeepsData, Restored
  <2>2. CASE Boot /\ ~BootLoad
    BY <2>2 DEF Boot, BootKey, BootKeyDone, BootEnd
  <2>3. ASSUME NEW p \in Actor, LoadOrGenerate(p)
        PROVE  d \in data'
    BY <1>1, <2>3, LoadSteps DEF Inside
  <2>4. ASSUME Handlers
        PROVE  d \in data'
    BY <1>1, <2>4, HandlerSteps DEF HandlerStep
  <2>5. ASSUME NEW e \in Domain, SetTXT(e) \/ CreateAccount(e)
        PROVE  d \in data'
    BY <2>5 DEF SetTXT, CreateAccount
  <2>6. CASE Crash \/ UNCHANGED vars
    BY <2>6 DEF Crash, vars
  <2>7. QED
    BY <1>1, <2>1, <2>2, <2>3, <2>4, <2>5, <2>6 DEF Next
<1>2. QED
  BY InitType, NextType, InitAdd, NextAdd, <1>1, PTL DEF Spec, DataLostOnlyIfTorn
=============================================================================
