--------------------------- MODULE OutboundProofs ---------------------------
(***************************************************************************)
(* Theorems about module Outbound, for any correspondents, messages,        *)
(* submissions and configurations, and any order of requests, deliveries,   *)
(* deletions and crashes.                                                  *)
(***************************************************************************)
EXTENDS Outbound, FiniteSetTheorems, TLAPS

-----------------------------------------------------------------------------
(* The inductive invariant.                                                *)

\* Who the letters and messages that were ever stored claim to be from.
Writers == {From[i] : i \in kept}

\* The reply rule, carried from the check to the delivery: a recipient that was
\* known stays so although the letter may be deleted.
ReplyInv ==
    /\ DOMAIN store \subseteq kept
    /\ \A s \in Sub : sub[s].pc = "sending" => sub[s].msg \in kept
    /\ ReplyRule => \A s \in Sub : sub[s].to \subseteq Writers
    /\ \A g \in got : g[2] \in sub[g[1]].to

\* A submission that is under way carries its message, in the form it was loaded
\* or stored; what goes out is fixed before anything is sent.
Sealable(item) == item.hadKey => item.body.text # "plain"

CarryOK(r) ==
    /\ r.pc # "new" => r.msg \in Msg
    /\ r.pc \in {"checked", "sending"} => r.item \in Items /\ Sealable(r.item)
    /\ r.pc = "checked" => r.item.body = Written(r.msg) \/ r.again
    /\ r.pc = "sending" => r.wire = Written(r.msg) \/ r.again

CarryInv ==
    /\ \A s \in Sub : CarryOK(sub[s])
    /\ \A g \in got : sub[g[1]].pc \notin {"new", "checked", "refused"}
    /\ CopiesApart

\* The loop over the connections: what is left, what went well, and firstErr
\* account for all of them.
LoopOK(r) ==
    /\ r.pc \in {"new", "checked", "refused"} => r.conn = None /\ r.left = {} /\ r.ok = {}
    /\ r.conn # None => r.pc = "sending" /\ r.conn \in r.left
    /\ r.pc = "sending" =>
         /\ r.left \subseteq Groups(r.to) /\ r.ok \subseteq Groups(r.to) \ r.left
         /\ ~r.err => Groups(r.to) # {} /\ r.ok \cup r.left = Groups(r.to)
         /\ r.err  => Groups(r.to) = {} \/ r.ok \cup r.left # Groups(r.to)

LoopInv == \A s \in Sub : LoopOK(sub[s])

\* What a submission that is reported says of its connections.
ResultOK(r) ==
    /\ r.pc = "sent" => r.ok = Groups(r.to) /\ r.ok # {}
    /\ r.pc = "failed" => Groups(r.to) = {} \/ r.ok # Groups(r.to)

\* Both hold of the record each step makes.
RecOK(r) == LoopOK(r) /\ ResultOK(r)
Records  == \A s \in Sub : RecOK(sub[s])

\* A Message-ID in the store, or in the copy of a later submission of the same
\* message, is that of a submission which was sent.
SentAs(m, s) == sub[s].pc = "sent" /\ sub[s].msg = m /\ sub[s].ok = Groups(sub[s].to)

IdInv ==
    /\ \A m \in Msg \cap DOMAIN store : store[m].mid # None => SentAs(m, store[m].mid)
    /\ \A s \in InFlight : sub[s].item.mid # None => SentAs(sub[s].msg, sub[s].item.mid)

\* What is stored and what may still be stored by submissions in flight.
Charged == (Msg \cap DOMAIN store) \cup {sub[s].msg : s \in InFlight}

CapInv ==
    /\ IsFiniteSet(DOMAIN store)
    /\ Cardinality(InFlight) <= peak
    /\ conf.cap > 0 => Cardinality(Charged) < conf.cap + peak

IInv == TypeOK /\ ReplyInv /\ CarryInv /\ Records /\ ResultTruthful /\ IdInv /\ CapInv

-----------------------------------------------------------------------------
(* What each step does to the submission it is about.                      *)

\* One submission becomes r, the others stay.
Becomes(s, r) == r \in Subs /\ sub' \in [Sub -> Subs] /\ sub'[s] = r
                     /\ \A u \in Sub : u # s => sub'[u] = sub[u]

LEMMA BecomesR ==
    ASSUME TypeOK, NEW s \in Sub, NEW r \in Subs, sub' = [sub EXCEPT ![s] = r]
    PROVE  Becomes(s, r)
BY DEF Becomes, TypeOK

LEMMA DomainsOf ==
    /\ None \notin Domains
    /\ \A R \in SUBSET Peer : Groups(R) \subseteq Domains
BY AddressAssumption DEF Domains, Groups

LEMMA SubTyped == ASSUME TypeOK, NEW s \in Sub PROVE sub[s] \in Subs
BY DEF TypeOK

LEMMA CheckStep ==
    ASSUME TypeOK, NEW s \in Sub, NEW m \in Msg, NEW R \in Envelope[m] \cup {To[m]},
           SubmitCheck(s, m, R)
    PROVE  /\ R \in SUBSET Peer /\ Loaded(m) \in Items
           /\ Becomes(s, [sub[s] EXCEPT !.pc = "checked", !.msg = m, !.to = R,
                                        !.again = m \in DOMAIN store, !.item = Loaded(m)])
<1> DEFINE r == [sub[s] EXCEPT !.pc = "checked", !.msg = m, !.to = R,
                               !.again = m \in DOMAIN store, !.item = Loaded(m)]
<1>1. R \in SUBSET Peer
  <2>1. Envelope[m] \in SUBSET SUBSET Peer /\ To[m] \in SUBSET Peer
    BY AddressAssumption
  <2>2. QED
    BY <2>1
<1>2. Loaded(m) \in Items
  <2>1. Written(m) \in Bodies
    BY AddressAssumption DEF Written, Body, Bodies, Texts
  <2>2. Item(Written(m), None, FALSE) \in Items
    BY <2>1 DEF Item, Items
  <2>3. QED
    BY <2>2 DEF Loaded, TypeOK
<1>3. r \in Subs
  <2>1. ASSUME NEW q \in Subs, NEW b \in BOOLEAN
        PROVE  [q EXCEPT !.pc = "checked", !.msg = m, !.to = R,
                         !.again = b, !.item = Loaded(m)] \in Subs
    BY <1>1, <1>2, <2>1 DEF Subs
  <2>2. (m \in DOMAIN store) \in BOOLEAN
    OBVIOUS
  <2>3. QED
    BY <2>1, <2>2, SubTyped
<1>4. sub' = [sub EXCEPT ![s] = r]
  <2>1. sub' = [sub EXCEPT ![s].pc = "checked", ![s].msg = m, ![s].to = R,
                           ![s].again = m \in DOMAIN store, ![s].item = Loaded(m)]
    BY DEF SubmitCheck
  <2>2. sub \in [Sub -> Subs]
    BY DEF TypeOK
  <2>3. QED
    BY <2>1, <2>2
<1>5. QED
  BY <1>1, <1>2, <1>3, <1>4, BecomesR

LEMMA StoreStep ==
    ASSUME TypeOK, LoopInv, CarryInv, NEW s \in Sub, SubmitStore(s)
    PROVE  LET body == sub[s].item.body
               item == Item(Sealed(body), sub[s].item.mid, HasKey)
               to   == Groups(sub[s].to)
           IN  /\ item \in Items /\ to \in SUBSET Domains /\ body \in Bodies
               /\ Becomes(s, [sub[s] EXCEPT !.pc = "sending", !.item = item, !.wire = body,
                                            !.left = to, !.err = (to = {})])
<1> DEFINE body == sub[s].item.body
           item == Item(Sealed(body), sub[s].item.mid, HasKey)
           to   == Groups(sub[s].to)
           r    == [sub[s] EXCEPT !.pc = "sending", !.item = item, !.wire = body,
                                  !.left = to, !.err = (to = {})]
<1>1. sub[s].item \in Items
  BY DEF SubmitStore, CarryInv, CarryOK, InFlight
<1>2. body \in Bodies /\ item \in Items
  BY <1>1 DEF Items, Item, Sealed, HasKey, Body, Bodies, Texts
<1>3. to \in SUBSET Domains
  BY DomainsOf, SubTyped DEF Subs
<1>4. r \in Subs
  BY ZenonT(40), <1>2, <1>3, SubTyped DEF Subs
<1>5. sub' = [sub EXCEPT ![s] = r]
  BY DEF SubmitStore, TypeOK, Wire
<1>6. QED
  BY <1>2, <1>3, <1>4, <1>5, BecomesR

LEMMA FailStep ==
    ASSUME TypeOK, NEW s \in Sub, SubmitFails(s)
    PROVE  Becomes(s, [sub[s] EXCEPT !.pc = "refused"])
<1>1. [sub[s] EXCEPT !.pc = "refused"] \in Subs
  BY SubTyped DEF Subs
<1>2. QED
  BY <1>1, BecomesR DEF SubmitFails, TypeOK

LEMMA ConnectStep ==
    ASSUME TypeOK, NEW s \in Sub, NEW d \in Domains, Connect(s, d)
    PROVE  Becomes(s, [sub[s] EXCEPT !.conn = d])
<1>1. [sub[s] EXCEPT !.conn = d] \in Subs
  BY SubTyped DEF Subs
<1>2. QED
  BY <1>1, BecomesR DEF Connect, TypeOK

LEMMA DoneStep ==
    ASSUME TypeOK, NEW s \in Sub, NEW d \in Domains, NEW ok \in BOOLEAN, DomainDone(s, d, ok)
    PROVE  Becomes(s, [sub[s] EXCEPT !.left = sub[s].left \ {d}, !.conn = None,
                                     !.err = sub[s].err \/ ~ok,
                                     !.ok = IF ok THEN sub[s].ok \cup {d} ELSE sub[s].ok])
<1> DEFINE r == [sub[s] EXCEPT !.left = sub[s].left \ {d}, !.conn = None,
                               !.err = sub[s].err \/ ~ok,
                               !.ok = IF ok THEN sub[s].ok \cup {d} ELSE sub[s].ok]
<1>1. r \in Subs
  BY ZenonT(40), SubTyped DEF Subs
<1>2. sub' = [sub EXCEPT ![s] = r]
  BY DEF DomainDone, Rest, ErrAfter, TypeOK
<1>3. QED
  BY <1>1, <1>2, BecomesR

LEMMA ReportStep ==
    ASSUME TypeOK, NEW s \in Sub, Report(s)
    PROVE  Becomes(s, [sub[s] EXCEPT !.pc = IF sub[s].err THEN "failed" ELSE "sent",
                                     !.item = None])
<1> DEFINE r == [sub[s] EXCEPT !.pc = IF sub[s].err THEN "failed" ELSE "sent", !.item = None]
<1>1. r \in Subs
  BY ZenonT(40), SubTyped DEF Subs
<1>2. sub' = [sub EXCEPT ![s] = r]
  BY DEF Report, TypeOK
<1>3. QED
  BY <1>1, <1>2, BecomesR

\* The fields of the new record, for the steps that follow.
LEMMA TakeFacts ==
    ASSUME TypeOK, LoopInv, NEW s \in Sub, NEW d \in Domains, sub[s].conn = d
    PROVE  sub[s].pc = "sending" /\ d \in sub[s].left /\ d # None
BY DomainsOf DEF LoopInv, LoopOK

LEMMA CrashStep ==
    ASSUME TypeOK, Crash
    PROVE  /\ sub' \in [Sub -> Subs]
           /\ \A s \in Sub : sub'[s] = IF s \notin InFlight THEN sub[s]
                 ELSE [sub[s] EXCEPT !.pc = "lost", !.item = None, !.left = {},
                                     !.conn = None, !.err = FALSE, !.ok = {}]
           /\ InFlight' = {}
<1>1. \A s \in Sub : sub'[s] = IF s \notin InFlight THEN sub[s]
                 ELSE [sub[s] EXCEPT !.pc = "lost", !.item = None, !.left = {},
                                     !.conn = None, !.err = FALSE, !.ok = {}]
  BY DEF Crash
<1>2. \A s \in Sub : [sub[s] EXCEPT !.pc = "lost", !.item = None, !.left = {},
                                    !.conn = None, !.err = FALSE, !.ok = {}] \in Subs
  BY ZenonT(40), SubTyped DEF Subs
<1>3. \A s \in Sub : sub'[s] \in Subs
  BY <1>1, <1>2, SubTyped
<1>4. sub' \in [Sub -> Subs]
  <2>1. DOMAIN sub' = Sub /\ sub' = [s \in Sub |-> sub'[s]]
    BY DEF Crash
  <2>2. QED
    BY <1>3, <2>1
<1>5. \A s \in Sub : sub'[s].pc \notin {"checked", "sending"}
  <2>1. ASSUME NEW s \in Sub
        PROVE  sub'[s].pc \notin {"checked", "sending"}
    <3>1. sub[s] \in Subs
      BY SubTyped
    <3>2. CASE s \notin InFlight
      BY <1>1, <3>2 DEF InFlight
    <3>3. CASE s \in InFlight
      BY ZenonT(40), <1>1, <3>1, <3>3 DEF Subs
    <3>4. QED
      BY <3>2, <3>3
  <2>2. QED
    BY <2>1
<1>6. QED
  BY <1>1, <1>4, <1>5 DEF InFlight

\* The steps that write to the store.
LEMMA StoreWriters ==
    ASSUME [Next]_vars
    PROVE  \/ store' = store
           \/ \E l \in Letter : Receive(l)
           \/ \E j \in Msg \cup Letter : Destroy(j)
           \/ \E s \in Sub : SubmitStore(s)
           \/ \E s \in Sub : Report(s)
<1>1. CASE UNCHANGED vars \/ Crash
  BY <1>1 DEF Crash, vars
<1>2. ASSUME NEW s \in Sub, Request(s) \/ Report(s)
      PROVE  store' = store \/ SubmitStore(s) \/ Report(s)
  BY <1>2 DEF Request, SubmitFails
<1>3. ASSUME NEW s \in Sub, NEW d \in Domains, Send(s, d) \/ Answer(s, d)
      PROVE  store' = store
  BY <1>3 DEF Send, Answer, Unreachable, Connect, Refuse, Take
<1>4. CASE Client
  <2>1. ASSUME NEW s \in Sub, NEW m \in Msg, NEW R, SubmitCheck(s, m, R)
        PROVE  store' = store
    BY <2>1 DEF SubmitCheck
  <2>2. ASSUME NEW m \in Msg, Create(m)
        PROVE  store' = store
    BY <2>2 DEF Create
  <2>3. QED
    BY <1>4, <2>1, <2>2 DEF Client, UploadKey
<1>5. QED
  BY <1>1, <1>2, <1>3, <1>4 DEF Next

\* A stored item after a step is one that was there, or comes from one of the
\* three places that write.
LEMMA StoreChange ==
    ASSUME TypeOK, [Next]_vars, NEW i \in DOMAIN store'
    PROVE  \/ i \in DOMAIN store /\ store'[i] = store[i]
           \/ \E l \in Letter : Receive(l) /\ i = l /\ store'[i] = Item(Body("plain", "none"), None, FALSE)
           \/ \E s \in Sub : /\ SubmitStore(s) /\ i = sub[s].msg
                             /\ store'[i] = Item(Sealed(sub[s].item.body), sub[s].item.mid, HasKey)
           \/ \E s \in Sub : /\ Report(s) /\ ~sub[s].err /\ i = sub[s].msg
                             /\ store'[i] = LateItem(s)
<1>1. CASE store' = store
  BY <1>1
<1>2. ASSUME NEW l \in Letter, Receive(l)
      PROVE  \/ i \in DOMAIN store /\ store'[i] = store[i]
             \/ i = l /\ store'[i] = Item(Body("plain", "none"), None, FALSE)
  BY <1>2 DEF Receive, With
<1>3. ASSUME NEW j \in Msg \cup Letter, Destroy(j)
      PROVE  i \in DOMAIN store /\ store'[i] = store[i]
  BY <1>3 DEF Destroy, Without
<1>4. ASSUME NEW s \in Sub, SubmitStore(s)
      PROVE  \/ i \in DOMAIN store /\ store'[i] = store[i]
             \/ /\ i = sub[s].msg
                /\ store'[i] = Item(Sealed(sub[s].item.body), sub[s].item.mid, HasKey)
  BY <1>4 DEF SubmitStore, With
<1>5. ASSUME NEW s \in Sub, Report(s)
      PROVE  \/ i \in DOMAIN store /\ store'[i] = store[i]
             \/ ~sub[s].err /\ i = sub[s].msg /\ store'[i] = LateItem(s)
  BY <1>5 DEF Report, With, Renames
<1>6. QED
  BY <1>1, <1>2, <1>3, <1>4, <1>5, StoreWriters

\* A connection that ended, well or not, and what a server took over it.
Ended(s, d, ok) ==
    /\ sub[s].pc = "sending" /\ d \in sub[s].left /\ DomainDone(s, d, ok)
    /\ \E R \in SUBSET Group(s, d) : got' = got \cup ({s} \X R)
    /\ UNCHANGED <<conf, key, pending, store, kept, peak>>

LEMMA EndedOrigin ==
    ASSUME TypeOK, LoopInv, NEW s \in Sub, NEW d \in Domains,
           Unreachable(s, d) \/ Answer(s, d)
    PROVE  \E ok \in BOOLEAN : Ended(s, d, ok)
<1>0. got' = got => got' = got \cup ({s} \X {})
  OBVIOUS
<1>1. CASE Unreachable(s, d)
  <2>1. Ended(s, d, FALSE)
    BY <1>1, <1>0 DEF Unreachable, Ready, Ended
  <2>2. QED
    BY <2>1
<1>2. CASE Refuse(s, d)
  <2>1. sub[s].pc = "sending" /\ d \in sub[s].left
    BY <1>2, TakeFacts DEF Refuse
  <2>2. Ended(s, d, FALSE)
    BY <1>2, <1>0, <2>1 DEF Refuse, Ended
  <2>3. QED
    BY <2>2
<1>3. ASSUME NEW R \in SUBSET Group(s, d), NEW heard \in BOOLEAN, Take(s, d, R, heard)
      PROVE  Ended(s, d, heard)
  <2>1. sub[s].pc = "sending" /\ d \in sub[s].left
    BY <1>3, TakeFacts DEF Take
  <2>2. QED
    BY <1>3, <2>1 DEF Take, Ended
<1>4. QED
  BY <1>1, <1>2, <1>3 DEF Answer

\* What a step does to the submissions.
LEMMA SubChange ==
    ASSUME TypeOK, LoopInv, [Next]_vars
    PROVE  \/ sub' = sub /\ got' = got /\ peak' = peak
           \/ Crash
           \/ \E s \in Sub, m \in Msg : \E R \in Envelope[m] \cup {To[m]} : SubmitCheck(s, m, R)
           \/ \E s \in Sub : SubmitStore(s)
           \/ \E s \in Sub : SubmitFails(s)
           \/ \E s \in Sub : Report(s)
           \/ \E s \in Sub, d \in Domains : Connect(s, d)
           \/ \E s \in Sub, d \in Domains, ok \in BOOLEAN : Ended(s, d, ok)
<1>1. CASE UNCHANGED vars
  BY <1>1 DEF vars
<1>2. CASE Client
  <2>1. ASSUME NEW m \in Msg, Create(m)
        PROVE  sub' = sub /\ got' = got /\ peak' = peak
    BY <2>1 DEF Create
  <2>2. ASSUME NEW i \in Msg \cup Letter, Destroy(i)
        PROVE  sub' = sub /\ got' = got /\ peak' = peak
    BY <2>2 DEF Destroy
  <2>3. ASSUME UploadKey
        PROVE  sub' = sub /\ got' = got /\ peak' = peak
    BY <2>3 DEF UploadKey
  <2>4. QED
    BY <1>2, <2>1, <2>2, <2>3 DEF Client
<1>3. ASSUME NEW l \in Letter, Receive(l)
      PROVE  sub' = sub /\ got' = got /\ peak' = peak
  BY <1>3 DEF Receive
<1>4. ASSUME NEW s \in Sub, NEW d \in Domains, Send(s, d) \/ Answer(s, d)
      PROVE  Connect(s, d) \/ \E ok \in BOOLEAN : Ended(s, d, ok)
  BY <1>4, EndedOrigin DEF Send
<1>5. QED
  BY <1>1, <1>2, <1>3, <1>4 DEF Next, Request

\* The configuration stays, and what was once stored stays on record.
LEMMA Stable ==
    ASSUME TypeOK, LoopInv, [Next]_vars
    PROVE  conf' = conf /\ kept \subseteq kept'
<1>1. CASE UNCHANGED vars
  BY <1>1 DEF vars
<1>2. CASE Client
  <2>1. ASSUME NEW m \in Msg, Create(m)
        PROVE  conf' = conf /\ kept' = kept
    BY <2>1 DEF Create
  <2>2. ASSUME NEW i \in Msg \cup Letter, Destroy(i)
        PROVE  conf' = conf /\ kept' = kept
    BY <2>2 DEF Destroy
  <2>3. ASSUME NEW s \in Sub, NEW m \in Msg, NEW R, SubmitCheck(s, m, R)
        PROVE  conf' = conf /\ kept' = kept
    BY <2>3 DEF SubmitCheck
  <2>4. QED
    BY <1>2, <2>1, <2>2, <2>3 DEF Client, UploadKey
<1>3. CASE Crash
  BY <1>3 DEF Crash
<1>4. ASSUME NEW l \in Letter, Receive(l)
      PROVE  conf' = conf /\ kept \subseteq kept'
  BY <1>4 DEF Receive
<1>5. ASSUME NEW s \in Sub, Request(s) \/ Report(s)
      PROVE  conf' = conf /\ kept \subseteq kept'
  BY <1>5 DEF Request, Report, SubmitStore, SubmitFails
<1>6. ASSUME NEW s \in Sub, NEW d \in Domains, Send(s, d) \/ Answer(s, d)
      PROVE  conf' = conf /\ kept' = kept
  BY <1>6, EndedOrigin DEF Send, Connect, Ended
<1>7. QED
  BY <1>1, <1>2, <1>3, <1>4, <1>5, <1>6 DEF Next

LEMMA GroupsStay ==
    ASSUME conf' = conf
    PROVE  \A R : Groups(R)' = Groups(R)
BY DEF Groups

-----------------------------------------------------------------------------
(* Types.                                                                  *)

LEMMA SubFinite == IsFiniteSet(Sub) /\ IsFiniteSet(InFlight) /\ Cardinality(InFlight) \in Nat
<1>1. IsFiniteSet(Sub)
  BY FS_Interval, BoundsAssumption DEF Sub
<1>2. InFlight \subseteq Sub
  BY DEF InFlight
<1>3. QED
  BY <1>1, <1>2, FS_Subset, FS_CardinalityType

LEMMA InitType == ASSUME Init PROVE TypeOK
<1>1. NewSub \in Subs
  BY DEF NewSub, Subs
<1>2. store = [i \in {} |-> i]
  BY DEF Init
<1>3. QED
  BY <1>1, <1>2 DEF Init, TypeOK

LEMMA SubType ==
    ASSUME TypeOK, LoopInv, CarryInv, [Next]_vars
    PROVE  sub' \in [Sub -> Subs]
<1>1. ASSUME NEW s \in Sub, NEW m \in Msg, NEW R \in Envelope[m] \cup {To[m]}, SubmitCheck(s, m, R)
      PROVE  sub' \in [Sub -> Subs]
  BY <1>1, CheckStep DEF Becomes
<1>2. ASSUME NEW s \in Sub, SubmitStore(s)
      PROVE  sub' \in [Sub -> Subs]
  BY <1>2, StoreStep DEF Becomes
<1>3. ASSUME NEW s \in Sub, SubmitFails(s)
      PROVE  sub' \in [Sub -> Subs]
  BY <1>3, FailStep DEF Becomes
<1>4. ASSUME NEW s \in Sub, Report(s)
      PROVE  sub' \in [Sub -> Subs]
  BY <1>4, ReportStep DEF Becomes
<1>5. ASSUME NEW s \in Sub, NEW d \in Domains, Connect(s, d)
      PROVE  sub' \in [Sub -> Subs]
  BY <1>5, ConnectStep DEF Becomes
<1>6. ASSUME NEW s \in Sub, NEW d \in Domains, NEW ok \in BOOLEAN, Ended(s, d, ok)
      PROVE  sub' \in [Sub -> Subs]
  BY <1>6, DoneStep DEF Becomes, Ended
<1>7. CASE Crash
  BY <1>7, CrashStep
<1>8. CASE sub' = sub
  BY <1>8 DEF TypeOK
<1>9. QED
  BY <1>1, <1>2, <1>3, <1>4, <1>5, <1>6, <1>7, <1>8, SubChange

LEMMA KeptTyped ==
    ASSUME TypeOK, CarryInv, NEW s \in InFlight
    PROVE  s \in Sub /\ sub[s].msg \in Msg /\ sub[s].item \in Items /\ LateItem(s) \in Items
           /\ LateItem(s) = Item(sub[s].item.body, s, sub[s].item.hadKey)
<1>1. s \in Sub /\ sub[s].pc # "new" /\ sub[s].item \in Items
  BY DEF InFlight, CarryInv, CarryOK
<1>2. LateItem(s) \in Items /\ LateItem(s) = Item(sub[s].item.body, s, sub[s].item.hadKey)
  BY <1>1 DEF LateItem, Items, Item
<1>3. QED
  BY <1>1, <1>2 DEF CarryInv, CarryOK

LEMMA StoreType ==
    ASSUME TypeOK, LoopInv, CarryInv, [Next]_vars
    PROVE  DOMAIN store' \subseteq Msg \cup Letter /\ \A i \in DOMAIN store' : store'[i] \in Items
<1> SUFFICES ASSUME NEW i \in DOMAIN store'
             PROVE  i \in Msg \cup Letter /\ store'[i] \in Items
  OBVIOUS
<1>1. CASE i \in DOMAIN store /\ store'[i] = store[i]
  BY <1>1 DEF TypeOK
<1>2. ASSUME NEW l \in Letter, i = l, store'[i] = Item(Body("plain", "none"), None, FALSE)
      PROVE  i \in Msg \cup Letter /\ store'[i] \in Items
  BY <1>2 DEF Item, Items, Body, Bodies, Texts
<1>3. ASSUME NEW s \in Sub, SubmitStore(s), i = sub[s].msg,
             store'[i] = Item(Sealed(sub[s].item.body), sub[s].item.mid, HasKey)
      PROVE  i \in Msg \cup Letter /\ store'[i] \in Items
  <2>1. s \in InFlight
    BY <1>3 DEF SubmitStore, InFlight
  <2>2. QED
    BY <1>3, <2>1, KeptTyped, StoreStep
<1>4. ASSUME NEW s \in Sub, Report(s), i = sub[s].msg, store'[i] = LateItem(s)
      PROVE  i \in Msg \cup Letter /\ store'[i] \in Items
  <2>1. s \in InFlight
    BY <1>4 DEF Report, InFlight
  <2>2. QED
    BY <1>4, <2>1, KeptTyped
<1>5. QED
  BY <1>1, <1>2, <1>3, <1>4, StoreChange

LEMMA GotType ==
    ASSUME TypeOK, LoopInv, [Next]_vars
    PROVE  /\ got' \subseteq Sub \X Peer
           /\ \A g \in got' \ got : \E s \in Sub, d \in Domains, ok \in BOOLEAN :
                  Ended(s, d, ok) /\ g[1] = s /\ g[2] \in Group(s, d)
<1>1. ASSUME NEW s \in Sub, NEW d \in Domains, NEW ok \in BOOLEAN, Ended(s, d, ok)
      PROVE  got' \subseteq Sub \X Peer
             /\ \A g \in got' \ got : g[1] = s /\ g[2] \in Group(s, d)
  <2>1. PICK R \in SUBSET Group(s, d) : got' = got \cup ({s} \X R)
    BY <1>1 DEF Ended
  <2>2. Group(s, d) \subseteq Peer
    BY SubTyped DEF Group, Subs
  <2>3. QED
    BY <2>1, <2>2 DEF TypeOK
<1>2. CASE got' = got
  BY <1>2 DEF TypeOK
<1>3. ASSUME NEW s \in Sub, NEW m \in Msg, NEW R, SubmitCheck(s, m, R)
      PROVE  got' = got
  BY <1>3 DEF SubmitCheck
<1>4. ASSUME NEW s \in Sub, SubmitStore(s) \/ SubmitFails(s) \/ Report(s)
      PROVE  got' = got
  BY <1>4 DEF SubmitStore, SubmitFails, Report
<1>5. ASSUME NEW s \in Sub, NEW d \in Domains, Connect(s, d)
      PROVE  got' = got
  BY <1>5 DEF Connect
<1>6. Crash => got' = got
  BY DEF Crash
<1>7. \/ got' = got
      \/ \E s \in Sub, d \in Domains, ok \in BOOLEAN : Ended(s, d, ok)
  BY <1>3, <1>4, <1>5, <1>6, SubChange
<1>8. QED
  BY <1>1, <1>2, <1>7

RestTyped == /\ key \in {"none", "fit", "unfit"} /\ pending \subseteq Msg
             /\ kept \subseteq Msg \cup Letter /\ peak \in Nat

LEMMA RestType ==
    ASSUME TypeOK, LoopInv, CarryInv, [Next]_vars
    PROVE  RestTyped'
<1> USE DEF TypeOK, RestTyped
<1>1. CASE UNCHANGED vars
  BY <1>1 DEF vars
<1>2. CASE Client
  <2>1. ASSUME NEW m \in Msg, Create(m)
        PROVE  RestTyped'
    BY <2>1 DEF Create
  <2>2. ASSUME NEW i \in Msg \cup Letter, Destroy(i)
        PROVE  RestTyped'
    BY <2>2 DEF Destroy
  <2>3. ASSUME NEW s \in Sub, NEW m \in Msg, NEW R, SubmitCheck(s, m, R)
        PROVE  RestTyped'
    BY <2>3, SubFinite DEF SubmitCheck
  <2>4. QED
    BY <1>2, <2>1, <2>2, <2>3 DEF Client, UploadKey
<1>3. CASE Crash
  BY <1>3 DEF Crash
<1>4. ASSUME NEW l \in Letter, Receive(l)
      PROVE  RestTyped'
  BY <1>4 DEF Receive
<1>5. ASSUME NEW s \in Sub, Request(s) \/ Report(s)
      PROVE  RestTyped'
  <2>1. SubmitStore(s) => sub[s].msg \in Msg
    BY DEF SubmitStore, CarryInv, CarryOK
  <2>2. QED
    BY <1>5, <2>1 DEF Request, Report, SubmitStore, SubmitFails
<1>6. ASSUME NEW s \in Sub, NEW d \in Domains, Send(s, d) \/ Answer(s, d)
      PROVE  RestTyped'
  BY <1>6, EndedOrigin DEF Send, Connect, Ended
<1>7. QED
  BY <1>1, <1>2, <1>3, <1>4, <1>5, <1>6 DEF Next

LEMMA NextType == ASSUME TypeOK, LoopInv, CarryInv, [Next]_vars PROVE TypeOK'
<1>1. conf' \in Config
  BY Stable DEF TypeOK
<1>2. QED
  BY <1>1, SubType, StoreType, GotType, RestType DEF TypeOK, RestTyped

-----------------------------------------------------------------------------
(* The loop over the connections, and the result it is reported with.      *)

LEMMA RecNew == ASSUME NEW r \in Subs, r.pc = "new", r.conn = None, r.left = {}, r.ok = {}
                PROVE  RecOK(r)
BY DEF RecOK, LoopOK, ResultOK

LEMMA RecCheck ==
    ASSUME NEW q \in Subs, RecOK(q), q.pc = "new", NEW m \in Msg, NEW R \in SUBSET Peer,
           NEW b \in BOOLEAN, NEW k \in Items
    PROVE  RecOK([q EXCEPT !.pc = "checked", !.msg = m, !.to = R, !.again = b, !.item = k])
BY DEF RecOK, LoopOK, ResultOK, Subs

LEMMA RecStore ==
    ASSUME NEW q \in Subs, RecOK(q), q.pc = "checked", NEW item \in Items, NEW body \in Bodies
    PROVE  RecOK([q EXCEPT !.pc = "sending", !.item = item, !.wire = body,
                           !.left = Groups(q.to), !.err = (Groups(q.to) = {})])
<1> DEFINE to == Groups(q.to)
           r  == [q EXCEPT !.pc = "sending", !.item = item, !.wire = body,
                           !.left = to, !.err = (to = {})]
<1>1. to \in SUBSET Domains
  BY DomainsOf DEF Subs
<1>2. r.pc = "sending" /\ r.left = to /\ r.err = (to = {}) /\ r.conn = None /\ r.ok = {} /\ r.to = q.to
  BY DEF RecOK, LoopOK, Subs
<1>3. QED
  BY <1>1, <1>2 DEF RecOK, LoopOK, ResultOK

LEMMA RecFail ==
    ASSUME NEW q \in Subs, RecOK(q), q.pc = "checked"
    PROVE  RecOK([q EXCEPT !.pc = "refused"])
BY DEF RecOK, LoopOK, ResultOK, Subs

LEMMA RecConnect ==
    ASSUME NEW q \in Subs, RecOK(q), q.pc = "sending", NEW d \in q.left
    PROVE  RecOK([q EXCEPT !.conn = d])
BY DEF RecOK, LoopOK, ResultOK, Subs

LEMMA RecDone ==
    ASSUME NEW q \in Subs, RecOK(q), q.pc = "sending", NEW d \in q.left, NEW ok \in BOOLEAN
    PROVE  RecOK([q EXCEPT !.left = q.left \ {d}, !.conn = None, !.err = q.err \/ ~ok,
                           !.ok = IF ok THEN q.ok \cup {d} ELSE q.ok])
<1> DEFINE r == [q EXCEPT !.left = q.left \ {d}, !.conn = None, !.err = q.err \/ ~ok,
                          !.ok = IF ok THEN q.ok \cup {d} ELSE q.ok]
           G == Groups(q.to)
<1>1. r.pc = "sending" /\ r.to = q.to /\ r.left = q.left \ {d} /\ r.conn = None
      /\ r.err = (q.err \/ ~ok) /\ r.ok = IF ok THEN q.ok \cup {d} ELSE q.ok
  BY DEF Subs
<1>2. q.left \subseteq G /\ q.ok \subseteq G \ q.left
      /\ (~q.err => G # {} /\ q.ok \cup q.left = G)
      /\ (q.err => G = {} \/ q.ok \cup q.left # G)
  BY DEF RecOK, LoopOK
<1>3. r.left \subseteq G /\ r.ok \subseteq G \ r.left
  BY <1>1, <1>2
<1>4. CASE ok
  <2>0. r.ok = q.ok \cup {d} /\ r.left = q.left \ {d} /\ d \in q.left /\ (r.err <=> q.err)
    BY <1>1, <1>4
  <2>1. r.ok \cup r.left = q.ok \cup q.left /\ (r.err <=> q.err)
    BY <2>0
  <2>2. (~r.err => G # {} /\ r.ok \cup r.left = G)
        /\ (r.err => G = {} \/ r.ok \cup r.left # G)
    BY <1>2, <2>1
  <2> HIDE DEF r
  <2>3. QED
    BY <1>1, <1>3, <2>2 DEF RecOK, LoopOK, ResultOK
<1>5. CASE ~ok
  <2>1. r.ok \cup r.left # G
    BY <1>1, <1>2, <1>5
  <2>2. QED
    BY <1>1, <1>3, <1>5, <2>1 DEF RecOK, LoopOK, ResultOK
<1>6. QED
  BY <1>4, <1>5

LEMMA RecReport ==
    ASSUME NEW q \in Subs, RecOK(q), q.pc = "sending", q.left = {}
    PROVE  RecOK([q EXCEPT !.pc = IF q.err THEN "failed" ELSE "sent", !.item = None])
<1> DEFINE r == [q EXCEPT !.pc = IF q.err THEN "failed" ELSE "sent", !.item = None]
<1>1. r.pc = (IF q.err THEN "failed" ELSE "sent") /\ r.to = q.to /\ r.ok = q.ok
      /\ r.conn = q.conn /\ r.left = {}
  BY DEF Subs
<1>2. q.conn = None
  BY DEF RecOK, LoopOK
<1>3. QED
  BY <1>1, <1>2 DEF RecOK, LoopOK, ResultOK

LEMMA RecLost ==
    ASSUME NEW q \in Subs
    PROVE  RecOK([q EXCEPT !.pc = "lost", !.item = None, !.left = {},
                           !.conn = None, !.err = FALSE, !.ok = {}])
BY DEF RecOK, LoopOK, ResultOK, Subs

LEMMA RecordsNext ==
    ASSUME TypeOK, Records, CarryInv, [Next]_vars
    PROVE  Records'
<1>0. LoopInv /\ \A s \in Sub : RecOK(sub[s])
  BY DEF Records, RecOK, LoopInv
<1> DEFINE Good(v) == v \in Subs /\ RecOK(v)
<1>1. ASSUME NEW s \in Sub, NEW r, Becomes(s, r), RecOK(r)
      PROVE  \A u \in Sub : Good(sub'[u])
  BY <1>0, <1>1 DEF Becomes
<1> HIDE DEF Good
<1>2. ASSUME NEW s \in Sub, NEW m \in Msg, NEW R \in Envelope[m] \cup {To[m]}, SubmitCheck(s, m, R)
      PROVE  \A u \in Sub : Good(sub'[u])
  <2>1. sub[s] \in Subs /\ sub[s].pc = "new" /\ (m \in DOMAIN store) \in BOOLEAN
    BY <1>2, SubTyped DEF SubmitCheck
  <2> DEFINE r == [sub[s] EXCEPT !.pc = "checked", !.msg = m, !.to = R,
                                 !.again = m \in DOMAIN store, !.item = Loaded(m)]
  <2>2. R \in SUBSET Peer /\ Loaded(m) \in Items /\ Becomes(s, r)
    BY <1>2, CheckStep
  <2>3. RecOK(r)
    BY <1>0, <2>1, <2>2, RecCheck
  <2>4. QED
    BY <1>1, <2>2, <2>3
<1>3. ASSUME NEW s \in Sub, SubmitStore(s)
      PROVE  \A u \in Sub : Good(sub'[u])
  <2>1. sub[s] \in Subs /\ sub[s].pc = "checked"
    BY <1>3, SubTyped DEF SubmitStore
  <2> DEFINE body == sub[s].item.body
             item == Item(Sealed(body), sub[s].item.mid, HasKey)
             to   == Groups(sub[s].to)
             r    == [sub[s] EXCEPT !.pc = "sending", !.item = item, !.wire = body,
                                    !.left = to, !.err = (to = {})]
  <2>2. item \in Items /\ body \in Bodies /\ Becomes(s, r)
    BY <1>0, <1>3, StoreStep
  <2>3. RecOK(r)
    BY <1>0, <2>1, <2>2, RecStore
  <2> HIDE DEF r
  <2>4. QED
    BY <1>1, <2>2, <2>3
<1>4. ASSUME NEW s \in Sub, SubmitFails(s)
      PROVE  \A u \in Sub : Good(sub'[u])
  <2>1. sub[s] \in Subs /\ sub[s].pc = "checked"
    BY <1>4, SubTyped DEF SubmitFails
  <2>2. QED
    BY <1>0, <1>1, <1>4, <2>1, FailStep, RecFail
<1>5. ASSUME NEW s \in Sub, Report(s)
      PROVE  \A u \in Sub : Good(sub'[u])
  <2>1. sub[s] \in Subs /\ sub[s].pc = "sending" /\ sub[s].left = {}
    BY <1>5, SubTyped DEF Report
  <2>2. QED
    BY <1>0, <1>1, <1>5, <2>1, ReportStep, RecReport
<1>6. ASSUME NEW s \in Sub, NEW d \in Domains, Connect(s, d)
      PROVE  \A u \in Sub : Good(sub'[u])
  <2>1. sub[s] \in Subs /\ sub[s].pc = "sending" /\ d \in sub[s].left
    BY <1>6, SubTyped DEF Connect, Ready
  <2>2. QED
    BY <1>0, <1>1, <1>6, <2>1, ConnectStep, RecConnect
<1>7. ASSUME NEW s \in Sub, NEW d \in Domains, NEW ok \in BOOLEAN, Ended(s, d, ok)
      PROVE  \A u \in Sub : Good(sub'[u])
  <2>1. sub[s] \in Subs /\ sub[s].pc = "sending" /\ d \in sub[s].left /\ DomainDone(s, d, ok)
    BY <1>7, SubTyped DEF Ended
  <2> DEFINE r == [sub[s] EXCEPT !.left = sub[s].left \ {d}, !.conn = None,
                                 !.err = sub[s].err \/ ~ok,
                                 !.ok = IF ok THEN sub[s].ok \cup {d} ELSE sub[s].ok]
  <2>2. Becomes(s, r)
    BY <2>1, DoneStep
  <2>3. RecOK(r)
    BY <1>0, <2>1, RecDone
  <2>4. QED
    BY <1>1, <2>2, <2>3
<1>8. ASSUME Crash
      PROVE  \A u \in Sub : Good(sub'[u])
  <2>1. \A u \in Sub : sub'[u] \in Subs /\ sub[u] \in Subs
    BY <1>8, CrashStep, SubTyped
  <2> SUFFICES ASSUME NEW u \in Sub
               PROVE  Good(sub'[u])
    OBVIOUS
  <2> DEFINE r == [sub[u] EXCEPT !.pc = "lost", !.item = None, !.left = {},
                                 !.conn = None, !.err = FALSE, !.ok = {}]
  <2>2. sub'[u] = sub[u] \/ sub'[u] = r
    BY <1>8, CrashStep
  <2>3. RecOK(r)
    BY <2>1, RecLost
  <2>4. QED
    BY <1>0, <2>1, <2>2, <2>3 DEF Good
<1>9. ASSUME sub' = sub
      PROVE  \A u \in Sub : Good(sub'[u])
  BY <1>0, <1>9, SubTyped DEF Good
<1>10. \A u \in Sub : Good(sub'[u])
  BY <1>0, <1>2, <1>3, <1>4, <1>5, <1>6, <1>7, <1>8, <1>9, SubChange
<1>11. \A q \in Subs : RecOK(q) => RecOK(q)'
  BY <1>0, Stable, GroupsStay DEF RecOK, LoopOK, ResultOK
<1>12. QED
  BY <1>10, <1>11 DEF Records, Good

LEMMA InitRecords == ASSUME Init PROVE Records
<1>1. NewSub \in Subs /\ NewSub.pc = "new" /\ NewSub.conn = None /\ NewSub.left = {} /\ NewSub.ok = {}
  BY DEF NewSub, Subs
<1>2. QED
  BY <1>1, RecNew DEF Init, Records

\* What a step leaves alone in a submission it does not check or store.
Kept(q, r) ==
    /\ r.to = q.to /\ r.msg = q.msg /\ r.again = q.again /\ r.wire = q.wire
    /\ q.pc \notin {"checked", "sending"} => r = q
    /\ q.pc = "checked" => r.pc \in {"checked", "refused", "lost"}
    /\ q.pc = "sending" => r.pc \in {"sending", "sent", "failed", "lost"}
    /\ r.pc \in {"checked", "sending"} => r.pc = q.pc /\ r.item = q.item

LEMMA Frame ==
    ASSUME TypeOK, LoopInv, [Next]_vars, NEW s \in Sub
    PROVE  \/ \E m \in Msg : \E R \in Envelope[m] \cup {To[m]} : SubmitCheck(s, m, R)
           \/ SubmitStore(s)
           \/ Kept(sub[s], sub'[s])
<1>1. \A q \in Subs : Kept(q, q)
  BY DEF Kept
<1>2. ASSUME NEW t \in Sub, NEW r, Becomes(t, r), Kept(sub[t], r)
      PROVE  Kept(sub[s], sub'[s])
  BY <1>1, <1>2, SubTyped DEF Becomes
<1>3. ASSUME NEW t \in Sub, NEW r, Becomes(t, r), t # s
      PROVE  Kept(sub[s], sub'[s])
  BY <1>1, <1>3, SubTyped DEF Becomes
<1>4. ASSUME NEW t \in Sub, NEW m \in Msg, NEW R \in Envelope[m] \cup {To[m]}, SubmitCheck(t, m, R)
      PROVE  t = s \/ Kept(sub[s], sub'[s])
  BY <1>3, <1>4, CheckStep
<1>5. ASSUME NEW t \in Sub, SubmitStore(t)
      PROVE  t = s \/ Kept(sub[s], sub'[s])
  BY <1>5 DEF SubmitStore, TypeOK, Kept
<1>6. ASSUME NEW t \in Sub, SubmitFails(t)
      PROVE  Kept(sub[s], sub'[s])
  <2> DEFINE r == [sub[t] EXCEPT !.pc = "refused"]
  <2>1. sub[t] \in Subs /\ sub[t].pc = "checked" /\ Becomes(t, r)
    BY <1>6, SubTyped, FailStep DEF SubmitFails
  <2>2. Kept(sub[t], r)
    BY <2>1 DEF Kept, Subs
  <2>3. QED
    BY <1>2, <2>1, <2>2
<1>7. ASSUME NEW t \in Sub, Report(t)
      PROVE  Kept(sub[s], sub'[s])
  <2> DEFINE r == [sub[t] EXCEPT !.pc = IF sub[t].err THEN "failed" ELSE "sent", !.item = None]
  <2>1. sub[t] \in Subs /\ sub[t].pc = "sending" /\ Becomes(t, r)
    BY <1>7, SubTyped, ReportStep DEF Report
  <2>2. Kept(sub[t], r)
    BY <2>1 DEF Kept, Subs
  <2>3. QED
    BY <1>2, <2>1, <2>2
<1>8. ASSUME NEW t \in Sub, NEW d \in Domains, Connect(t, d)
      PROVE  Kept(sub[s], sub'[s])
  <2> DEFINE r == [sub[t] EXCEPT !.conn = d]
  <2>1. sub[t] \in Subs /\ sub[t].pc = "sending" /\ Becomes(t, r)
    BY <1>8, SubTyped, ConnectStep DEF Connect, Ready
  <2>2. Kept(sub[t], r)
    BY <2>1 DEF Kept, Subs
  <2>3. QED
    BY <1>2, <2>1, <2>2
<1>9. ASSUME NEW t \in Sub, NEW d \in Domains, NEW ok \in BOOLEAN, Ended(t, d, ok)
      PROVE  Kept(sub[s], sub'[s])
  <2> DEFINE r == [sub[t] EXCEPT !.left = sub[t].left \ {d}, !.conn = None,
                                 !.err = sub[t].err \/ ~ok,
                                 !.ok = IF ok THEN sub[t].ok \cup {d} ELSE sub[t].ok]
  <2>1. sub[t] \in Subs /\ sub[t].pc = "sending" /\ DomainDone(t, d, ok)
    BY <1>9, SubTyped DEF Ended
  <2>2. Becomes(t, r)
    BY <2>1, DoneStep
  <2>3. Kept(sub[t], r)
    BY <2>1 DEF Kept, Subs
  <2>4. QED
    BY <1>2, <2>2, <2>3
<1>10. ASSUME Crash
       PROVE  Kept(sub[s], sub'[s])
  <2> DEFINE r == [sub[s] EXCEPT !.pc = "lost", !.item = None, !.left = {},
                                 !.conn = None, !.err = FALSE, !.ok = {}]
  <2>1. CASE s \notin InFlight
    BY <1>1, <1>10, <2>1, CrashStep, SubTyped
  <2>2. CASE s \in InFlight
    <3>1. sub'[s] = r /\ sub[s] \in Subs /\ sub[s].pc \in {"checked", "sending"}
      BY <1>10, <2>2, CrashStep, SubTyped DEF InFlight
    <3>2. Kept(sub[s], r)
      BY <3>1 DEF Kept, Subs
    <3>3. QED
      BY <3>1, <3>2
  <2>3. QED
    BY <2>1, <2>2
<1>11. ASSUME sub' = sub
       PROVE  Kept(sub[s], sub'[s])
  BY <1>1, <1>11, SubTyped
<1>12. QED
  BY <1>4, <1>5, <1>6, <1>7, <1>8, <1>9, <1>10, <1>11, SubChange

\* An address without a domain: no connection, hence no server.
LEMMA NoDomainNext ==
    ASSUME TypeOK, Records, CarryInv, ResultTruthful, [Next]_vars,
           NEW s \in Sub, NEW p \in Peer,
           ~conf'.relay, \E q \in sub'[s].to : DomainOf[q] = None
    PROVE  <<s, p>> \notin got'
<1>0. LoopInv /\ RecOK(sub[s]) /\ conf' = conf
  BY Stable DEF Records, RecOK, LoopInv
<1>1. CASE sub'[s].to = sub[s].to
  <2>1. <<s, p>> \notin got
    BY <1>0, <1>1 DEF ResultTruthful
  <2>2. Groups(sub[s].to) = {}
    BY <1>0, <1>1 DEF Groups
  <2>3. ASSUME NEW d \in Domains, NEW ok \in BOOLEAN, Ended(s, d, ok)
        PROVE  FALSE
    BY <1>0, <2>2, <2>3 DEF Ended, RecOK, LoopOK
  <2>4. QED
    BY <1>0, <2>1, <2>3, GotType
<1>2. CASE sub'[s].to # sub[s].to
  <2>1. PICK m \in Msg : \E R \in Envelope[m] \cup {To[m]} : SubmitCheck(s, m, R)
    <3>1. SubmitStore(s) => sub'[s].to = sub[s].to
      BY SubTyped DEF SubmitStore, TypeOK, Subs
    <3>2. QED
      BY <1>0, <1>2, <3>1, Frame DEF Kept
  <2>2. sub[s].pc = "new" /\ got' = got
    BY <2>1 DEF SubmitCheck
  <2>3. QED
    BY <2>2 DEF CarryInv
<1>3. QED
  BY <1>1, <1>2

LEMMA NextTruthful ==
    ASSUME TypeOK, Records, CarryInv, ResultTruthful, [Next]_vars
    PROVE  ResultTruthful'
<1>1. Records'
  BY RecordsNext
<1>2. \A s \in Sub : ResultOK(sub[s])'
  BY <1>1 DEF Records, RecOK
<1>3. QED
  BY <1>2, NoDomainNext DEF ResultTruthful, ResultOK

-----------------------------------------------------------------------------
(* What a submission carries.                                              *)

LEMMA InitCarry == ASSUME Init PROVE CarryInv
BY DEF Init, NewSub, CarryInv, CarryOK, CopiesApart, SentAsWritten, KeyedNeverPlain

LEMMA CarryRecords ==
    ASSUME TypeOK, LoopInv, CarryInv, [Next]_vars, NEW s \in Sub
    PROVE  CarryOK(sub'[s])
<1>1. ASSUME NEW m \in Msg, NEW R \in Envelope[m] \cup {To[m]}, SubmitCheck(s, m, R)
      PROVE  CarryOK(sub'[s])
  <2>1. sub'[s].pc = "checked" /\ sub'[s].msg = m /\ sub'[s].item = Loaded(m)
        /\ (sub'[s].again <=> m \in DOMAIN store)
    BY <1>1 DEF SubmitCheck, TypeOK, Subs
  <2>2. Loaded(m) \in Items
    BY <1>1, CheckStep
  <2>3. CASE m \in DOMAIN store
    <3>1. Loaded(m) = store[m]
      BY <2>3 DEF Loaded
    <3>2. Sealable(store[m])
      BY <2>3 DEF CarryInv, CopiesApart, KeyedNeverPlain, Sealable
    <3>3. QED
      BY <2>1, <2>2, <2>3, <3>1, <3>2 DEF CarryOK
  <2>4. CASE m \notin DOMAIN store
    BY <2>1, <2>2, <2>4 DEF Loaded, Item, Sealable, CarryOK
  <2>5. QED
    BY <2>3, <2>4
<1>2. ASSUME SubmitStore(s)
      PROVE  CarryOK(sub'[s])
  <2> DEFINE body == sub[s].item.body
             item == Item(Sealed(body), sub[s].item.mid, HasKey)
  <2>1. CarryOK(sub[s]) /\ sub[s].pc = "checked" /\ sub[s] \in Subs
    BY <1>2, SubTyped DEF SubmitStore, CarryInv
  <2>2. sub'[s].pc = "sending" /\ sub'[s].item = item /\ sub'[s].wire = body
        /\ sub'[s].msg = sub[s].msg /\ sub'[s].again = sub[s].again
    BY <1>2 DEF SubmitStore, TypeOK, Subs, Wire
  <2>3. item \in Items
    BY <1>2, StoreStep
  <2>4. Sealable(item)
    BY DEF Sealable, Item, Sealed, Body
  <2>5. QED
    BY <2>1, <2>2, <2>3, <2>4 DEF CarryOK
<1>3. CASE Kept(sub[s], sub'[s])
  <2>1. CarryOK(sub[s])
    BY DEF CarryInv
  <2>2. QED
    BY <2>1, <1>3 DEF CarryOK, Kept
<1>4. QED
  BY <1>1, <1>2, <1>3, Frame

\* A server took a message only from a submission under way, which goes on with
\* the same recipients and the same text.
LEMMA GotFrom ==
    ASSUME TypeOK, LoopInv, CarryInv, [Next]_vars, NEW g \in got'
    PROVE  /\ g[1] \in Sub
           /\ Kept(sub[g[1]], sub'[g[1]]) /\ sub[g[1]].pc \notin {"new", "checked", "refused"}
           /\ g \in got \/ (sub[g[1]].pc = "sending" /\ g[2] \in sub[g[1]].to)
<1>1. g[1] \in Sub
  BY GotType
<1>2. sub[g[1]].pc \notin {"new", "checked", "refused"}
      /\ (g \in got \/ (sub[g[1]].pc = "sending" /\ g[2] \in sub[g[1]].to))
  <2>1. CASE g \in got
    BY <2>1 DEF CarryInv
  <2>2. CASE g \notin got
    BY <2>2, GotType DEF Ended, Group
  <2>3. QED
    BY <2>1, <2>2
<1>3. QED
  BY <1>1, <1>2, Frame DEF SubmitCheck, SubmitStore

LEMMA NextKeyed ==
    ASSUME TypeOK, LoopInv, CarryInv, [Next]_vars
    PROVE  KeyedNeverPlain'
<1> SUFFICES ASSUME NEW i \in DOMAIN store'
             PROVE  Sealable(store'[i])
  BY DEF KeyedNeverPlain, Sealable
<1>1. CASE i \in DOMAIN store /\ store'[i] = store[i]
  BY <1>1 DEF CarryInv, CopiesApart, KeyedNeverPlain, Sealable
<1>2. CASE store'[i] = Item(Body("plain", "none"), None, FALSE)
  BY <1>2 DEF Item, Sealable
<1>3. ASSUME NEW s \in Sub,
             store'[i] = Item(Sealed(sub[s].item.body), sub[s].item.mid, HasKey)
      PROVE  Sealable(store'[i])
  BY <1>3 DEF Item, Sealable, Sealed, Body
<1>4. ASSUME NEW s \in Sub, Report(s), store'[i] = LateItem(s)
      PROVE  Sealable(store'[i])
  <2>1. s \in InFlight
    BY <1>4 DEF Report, InFlight
  <2>2. CarryOK(sub[s]) /\ sub[s].pc = "sending"
    BY <1>4 DEF CarryInv, Report
  <2>3. Sealable(sub[s].item) /\ LateItem(s) = Item(sub[s].item.body, s, sub[s].item.hadKey)
    BY <2>1, <2>2, KeptTyped DEF CarryOK
  <2>4. QED
    BY <1>4, <2>3 DEF Item, Sealable
<1>5. QED
  BY <1>1, <1>2, <1>3, <1>4, StoreChange

LEMMA NextCarry == ASSUME TypeOK, LoopInv, CarryInv, [Next]_vars PROVE CarryInv'
<1>1. ASSUME NEW g \in got'
      PROVE  /\ sub'[g[1]].pc \notin {"new", "checked", "refused"}
             /\ sub'[g[1]].wire = Written(sub'[g[1]].msg) \/ sub'[g[1]].again
  <2> DEFINE q == sub[g[1]]
             r == sub'[g[1]]
  <2>1. Kept(q, r) /\ q.pc \notin {"new", "checked", "refused"}
    BY <1>1, GotFrom
  <2>2. q.wire = Written(q.msg) \/ q.again
    <3>1. CASE g \in got
      BY <3>1 DEF CarryInv, CopiesApart, SentAsWritten
    <3>2. CASE g \notin got
      <4>1. g[1] \in Sub /\ q.pc = "sending"
        BY <1>1, <3>2, GotFrom
      <4>2. QED
        BY <4>1 DEF CarryInv, CarryOK
    <3>3. QED
      BY <3>1, <3>2
  <2> HIDE DEF q, r
  <2>3. r.pc \notin {"new", "checked", "refused"} /\ (r.wire = Written(r.msg) \/ r.again)
    BY <2>1, <2>2 DEF Kept
  <2>4. QED
    BY <2>3 DEF r
<1>2. SentAsWritten'
  BY <1>1 DEF SentAsWritten
<1>3. \A s \in Sub : CarryOK(sub[s])'
  BY CarryRecords DEF CarryOK, Sealable
<1>4. QED
  BY <1>1, <1>2, <1>3, NextKeyed DEF CarryInv, CopiesApart

-----------------------------------------------------------------------------
(* The reply rule.                                                         *)

LEMMA InitReply == ASSUME Init PROVE ReplyInv
BY DEF Init, ReplyInv, NewSub

LEMMA KnownWriters == ASSUME ReplyInv PROVE Known \subseteq Writers
BY DEF ReplyInv, Known, Writers

LEMMA NextReply == ASSUME TypeOK, LoopInv, CarryInv, ReplyInv, [Next]_vars PROVE ReplyInv'
<1>1. conf' = conf /\ kept \subseteq kept'
  BY Stable
<1>2. ASSUME NEW i \in DOMAIN store'
      PROVE  i \in kept'
  <2>1. CASE i \in DOMAIN store
    BY <1>1, <2>1 DEF ReplyInv
  <2>2. ASSUME NEW l \in Letter, Receive(l), i = l
        PROVE  i \in kept'
    BY <2>2 DEF Receive
  <2>3. ASSUME NEW s \in Sub, SubmitStore(s), i = sub[s].msg
        PROVE  i \in kept'
    BY <2>3 DEF SubmitStore
  <2>4. ASSUME NEW s \in Sub, Report(s), i = sub[s].msg
        PROVE  i \in kept'
    BY <1>1, <2>4 DEF Report, ReplyInv
  <2>5. QED
    BY <2>1, <2>2, <2>3, <2>4, StoreChange
<1>3. ASSUME NEW s \in Sub, sub'[s].pc = "sending"
      PROVE  sub'[s].msg \in kept'
  <2>1. SubmitStore(s) => sub'[s].msg = sub[s].msg /\ sub[s].msg \in kept'
    BY SubTyped DEF SubmitStore, TypeOK, Subs
  <2>2. ASSUME NEW m \in Msg, NEW R \in Envelope[m] \cup {To[m]}, SubmitCheck(s, m, R)
        PROVE  FALSE
    BY <1>3, <2>2 DEF SubmitCheck, TypeOK, Subs
  <2>3. Kept(sub[s], sub'[s]) => sub'[s].msg \in kept'
    BY <1>1, <1>3 DEF Kept, ReplyInv
  <2>4. QED
    BY <2>1, <2>2, <2>3, Frame
<1>4. Writers \subseteq Writers'
  BY <1>1 DEF Writers
<1>5. ASSUME ReplyRule', NEW s \in Sub
      PROVE  sub'[s].to \subseteq Writers'
  <2>0. ReplyRule
    BY <1>1, <1>5 DEF ReplyRule
  <2>1. CASE sub'[s].to = sub[s].to
    BY <1>4, <2>0, <2>1 DEF ReplyInv
  <2>2. ASSUME NEW m \in Msg, NEW R \in Envelope[m] \cup {To[m]}, SubmitCheck(s, m, R)
        PROVE  sub'[s].to \subseteq Writers'
    <3>1. R \subseteq Writers
      BY <2>0, <2>2, KnownWriters DEF SubmitCheck, MayWrite
    <3>2. sub'[s].to = R
      BY <2>2 DEF SubmitCheck, TypeOK, Subs
    <3>3. QED
      BY <1>4, <3>1, <3>2
  <2>3. SubmitStore(s) => sub'[s].to = sub[s].to
    BY SubTyped DEF SubmitStore, TypeOK, Subs
  <2>4. QED
    BY <2>1, <2>2, <2>3, Frame DEF Kept
<1>6. ASSUME NEW g \in got'
      PROVE  g[2] \in sub'[g[1]].to
  BY <1>6, GotFrom DEF ReplyInv, Kept
<1>7. QED
  BY <1>2, <1>5, <1>6, <1>3 DEF ReplyInv

-----------------------------------------------------------------------------
(* Message-IDs.                                                            *)

LEMMA InitId == ASSUME Init PROVE IdInv
BY DEF Init, NewSub, IdInv, InFlight

LEMMA SentStays ==
    ASSUME TypeOK, LoopInv, [Next]_vars, NEW m, NEW s \in Sub, SentAs(m, s)
    PROVE  sub'[s] = sub[s] /\ SentAs(m, s)'
<1>1. sub'[s] = sub[s]
  BY Frame DEF SentAs, Kept, SubmitCheck, SubmitStore
<1>2. Groups(sub[s].to)' = Groups(sub'[s].to)
  BY Stable, GroupsStay
<1>3. QED
  BY <1>1, <1>2 DEF SentAs

LEMMA NextIdStored ==
    ASSUME TypeOK, Records, CarryInv, IdInv, [Next]_vars,
           NEW m \in Msg, m \in DOMAIN store', store'[m].mid # None
    PROVE  SentAs(m, store[m].mid)'
<1>0. LoopInv /\ store'[m].mid \in Sub
  <2>1. LoopInv
    BY DEF Records, RecOK, LoopInv
  <2>2. QED
    BY <2>1, StoreType DEF Items
<1>1. CASE m \in DOMAIN store /\ store'[m] = store[m]
  <2>1. SentAs(m, store'[m].mid)
    BY <1>1 DEF IdInv
  <2> PICK t \in Sub : t = store'[m].mid
    BY <1>0
  <2>2. SentAs(m, t)'
    BY <1>0, <2>1, SentStays
  <2>3. QED
    BY <2>2
<1>2. ASSUME NEW s \in Sub, SubmitStore(s), m = sub[s].msg,
             store'[m] = Item(Sealed(sub[s].item.body), sub[s].item.mid, HasKey)
      PROVE  SentAs(m, store[m].mid)'
  <2>1. s \in InFlight
    BY <1>2 DEF SubmitStore, InFlight
  <2>2. SentAs(m, store'[m].mid)
    BY <1>2, <2>1 DEF IdInv, Item
  <2> PICK t \in Sub : t = store'[m].mid
    BY <1>0
  <2>3. SentAs(m, t)'
    BY <1>0, <2>2, SentStays
  <2>4. QED
    BY <2>3
<1>3. ASSUME NEW s \in Sub, Report(s), ~sub[s].err, m = sub[s].msg, store'[m] = LateItem(s)
      PROVE  SentAs(m, store[m].mid)'
  <2>1. store'[m].mid = s
    <3>1. s \in InFlight
      BY <1>3 DEF Report, InFlight
    <3>2. QED
      BY <1>3, <3>1, KeptTyped DEF Item
  <2>2. sub'[s].pc = "sent" /\ sub'[s].msg = m
    BY <1>3, SubTyped DEF Report, TypeOK, Subs
  <2>3. ResultOK(sub[s])'
    BY RecordsNext DEF Records, RecOK
  <2>4. SentAs(m, s)'
    BY <2>2, <2>3 DEF ResultOK, SentAs
  <2>5. QED
    BY <2>1, <2>4
<1>4. ASSUME NEW l \in Letter
      PROVE  m # l
  BY AddressAssumption
<1>5. QED
  BY <1>1, <1>2, <1>3, <1>4, StoreChange

LEMMA NextIdKept ==
    ASSUME TypeOK, Records, CarryInv, IdInv, [Next]_vars,
           NEW s \in Sub, s \in InFlight', sub'[s].item.mid # None
    PROVE  SentAs(sub[s].msg, sub[s].item.mid)'
<1>0. LoopInv /\ sub'[s].item.mid \in Sub
  <2>1. LoopInv
    BY DEF Records, RecOK, LoopInv
  <2>2. sub'[s].item \in Items
    BY <2>1, CarryRecords DEF CarryOK, InFlight
  <2>3. QED
    BY <2>1, <2>2 DEF Items
<1>1. ASSUME SentAs(sub'[s].msg, sub'[s].item.mid)
      PROVE  SentAs(sub[s].msg, sub[s].item.mid)'
  <2> PICK t \in Sub : t = sub'[s].item.mid
    BY <1>0
  <2> PICK m : m = sub'[s].msg
    OBVIOUS
  <2>1. SentAs(m, t)'
    BY <1>0, <1>1, SentStays
  <2>2. QED
    BY <2>1
<1>2. ASSUME NEW m \in Msg, NEW R \in Envelope[m] \cup {To[m]}, SubmitCheck(s, m, R)
      PROVE  SentAs(sub'[s].msg, sub'[s].item.mid)
  <2>1. sub'[s].msg = m /\ sub'[s].item = Loaded(m)
    BY <1>2 DEF SubmitCheck, TypeOK, Subs
  <2>2. m \in DOMAIN store /\ Loaded(m) = store[m]
    BY <2>1 DEF Loaded, Item
  <2>3. QED
    BY <2>1, <2>2 DEF IdInv
<1>3. ASSUME SubmitStore(s)
      PROVE  SentAs(sub'[s].msg, sub'[s].item.mid)
  <2>1. s \in InFlight
    BY <1>3 DEF SubmitStore, InFlight
  <2>2. sub'[s].msg = sub[s].msg
        /\ sub'[s].item = Item(Sealed(sub[s].item.body), sub[s].item.mid, HasKey)
    BY <1>3 DEF SubmitStore, TypeOK, Subs
  <2>3. QED
    BY <2>1, <2>2 DEF IdInv, Item
<1>4. ASSUME Kept(sub[s], sub'[s])
      PROVE  SentAs(sub'[s].msg, sub'[s].item.mid)
  <2>1. s \in InFlight /\ sub'[s].msg = sub[s].msg /\ sub'[s].item = sub[s].item
    BY <1>4 DEF Kept, InFlight
  <2>2. QED
    BY <2>1 DEF IdInv
<1>5. QED
  BY <1>0, <1>1, <1>2, <1>3, <1>4, Frame

LEMMA NextId == ASSUME TypeOK, Records, CarryInv, IdInv, [Next]_vars PROVE IdInv'
<1>1. \A s \in InFlight' : s \in Sub
  BY DEF InFlight
<1>2. QED
  BY <1>1, NextIdStored, NextIdKept DEF IdInv

-----------------------------------------------------------------------------
(* The storage cap.                                                        *)

LEMMA StoreFinite ==
    ASSUME [Next]_vars, IsFiniteSet(DOMAIN store)
    PROVE  IsFiniteSet(DOMAIN store')
<1>1. ASSUME NEW i, DOMAIN store' \subseteq DOMAIN store \cup {i}
      PROVE  IsFiniteSet(DOMAIN store')
  BY <1>1, FS_AddElement, FS_Subset
<1>2. ASSUME NEW l \in Letter, Receive(l)
      PROVE  IsFiniteSet(DOMAIN store')
  BY <1>1, <1>2 DEF Receive, With
<1>3. ASSUME NEW j \in Msg \cup Letter, Destroy(j)
      PROVE  IsFiniteSet(DOMAIN store')
  BY <1>1, <1>3 DEF Destroy, Without
<1>4. ASSUME NEW s \in Sub, SubmitStore(s)
      PROVE  IsFiniteSet(DOMAIN store')
  BY <1>1, <1>4 DEF SubmitStore, With
<1>5. ASSUME NEW s \in Sub, Report(s)
      PROVE  IsFiniteSet(DOMAIN store')
  BY <1>1, <1>5 DEF Report, With
<1>6. QED
  BY <1>2, <1>3, <1>4, <1>5, StoreWriters

\* A step that admits no submission charges nothing.
LEMMA ChargedShrinks ==
    ASSUME TypeOK, LoopInv, CarryInv, [Next]_vars,
           ~\E s \in Sub, m \in Msg : \E R \in Envelope[m] \cup {To[m]} : SubmitCheck(s, m, R)
    PROVE  InFlight' \subseteq InFlight /\ Charged' \subseteq Charged /\ peak' = peak
<1>1. ASSUME NEW s \in InFlight'
      PROVE  s \in InFlight /\ sub'[s].msg = sub[s].msg
  <2>1. s \in Sub
    BY DEF InFlight
  <2>2. ASSUME SubmitStore(s)
        PROVE  s \in InFlight /\ sub'[s].msg = sub[s].msg
    BY SMTT(30), <2>2 DEF SubmitStore, TypeOK, Subs, InFlight
  <2>3. ASSUME Kept(sub[s], sub'[s])
        PROVE  s \in InFlight /\ sub'[s].msg = sub[s].msg
    BY <2>3, <1>1 DEF Kept, InFlight
  <2>4. QED
    BY <2>1, <2>2, <2>3, Frame
<1>2. ASSUME NEW i \in Msg, i \in DOMAIN store'
      PROVE  i \in Charged
  <2>1. \A l \in Letter : i # l
    BY AddressAssumption
  <2>2. i \in DOMAIN store \/ \E s \in InFlight : i = sub[s].msg
    <3>1. ASSUME NEW s \in Sub, SubmitStore(s) \/ Report(s)
          PROVE  s \in InFlight
      BY <3>1 DEF SubmitStore, Report, InFlight
    <3>2. QED
      BY <1>2, <2>1, <3>1, StoreChange
  <2>3. QED
    BY <1>2, <2>2 DEF Charged
<1>3. peak' = peak
  <2>1. ASSUME NEW s \in Sub, SubmitStore(s) \/ SubmitFails(s) \/ Report(s)
        PROVE  peak' = peak
    BY <2>1 DEF SubmitStore, SubmitFails, Report
  <2>2. ASSUME NEW s \in Sub, NEW d \in Domains, Connect(s, d)
        PROVE  peak' = peak
    BY <2>2 DEF Connect
  <2>3. ASSUME NEW s \in Sub, NEW d \in Domains, NEW ok \in BOOLEAN, Ended(s, d, ok)
        PROVE  peak' = peak
    BY <2>3 DEF Ended
  <2>4. Crash => peak' = peak
    BY DEF Crash
  <2>5. QED
    BY <2>1, <2>2, <2>3, <2>4, SubChange
<1>4. QED
  BY <1>1, <1>2, <1>3 DEF Charged

\* A part of a finite set, and the image of another one.
LEMMA ImageBound ==
    ASSUME NEW D, NEW M \in SUBSET D, NEW F, NEW C, NEW f \in Surjection(F, C),
           IsFiniteSet(D), IsFiniteSet(F)
    PROVE  /\ IsFiniteSet(M \cup C)
           /\ Cardinality(M \cup C) <= Cardinality(D) + Cardinality(F)
<1>1. IsFiniteSet(M) /\ Cardinality(M) <= Cardinality(D)
  BY FS_Subset
<1>2. IsFiniteSet(C) /\ Cardinality(C) <= Cardinality(F)
  BY FS_Surjection
<1>3. IsFiniteSet(M \cup C) /\ Cardinality(M \cup C) = Cardinality(M) + Cardinality(C) - Cardinality(M \cap C)
  BY <1>1, <1>2, FS_Union
<1>4. Cardinality(M) \in Nat /\ Cardinality(C) \in Nat /\ Cardinality(M \cap C) \in Nat
      /\ Cardinality(D) \in Nat /\ Cardinality(F) \in Nat
  <2>1. IsFiniteSet(M \cap C)
    BY <1>1, FS_Subset
  <2>2. QED
    BY <1>1, <1>2, <2>1, FS_CardinalityType
<1>5. Cardinality(M \cup C) <= Cardinality(D) + Cardinality(F)
  BY <1>1, <1>2, <1>3, <1>4
<1>6. QED
  BY <1>3, <1>5

\* No more messages are charged than are stored and in flight.
LEMMA ChargedBound ==
    ASSUME IsFiniteSet(DOMAIN store)
    PROVE  /\ IsFiniteSet(Charged)
           /\ Cardinality(Charged) <= Cardinality(DOMAIN store) + Cardinality(InFlight)
<1> DEFINE f == [s \in InFlight |-> sub[s].msg]
           M == Msg \cap DOMAIN store
           D == DOMAIN store
           F == InFlight
           C == {sub[s].msg : s \in F}
<1>1. Charged = M \cup C /\ f \in Surjection(F, C)
  BY DEF Charged, Surjection
<1>2. M \in SUBSET D /\ IsFiniteSet(D) /\ IsFiniteSet(F)
  BY SubFinite
<1> HIDE DEF M, D, F, C, f
<1>3. IsFiniteSet(M \cup C) /\ Cardinality(M \cup C) <= Cardinality(D) + Cardinality(F)
  BY <1>1, <1>2, ImageBound
<1>4. QED
  BY <1>1, <1>3 DEF D, F

LEMMA InitCap == ASSUME Init PROVE CapInv
<1>1. DOMAIN store = {} /\ InFlight = {} /\ Charged = {} /\ peak = 0
  BY DEF Init, InFlight, NewSub, Charged
<1>2. conf.cap \in Nat
  BY ConfigAssumption DEF Init
<1>3. QED
  BY <1>1, <1>2, FS_EmptySet DEF CapInv

LEMMA NextCap == ASSUME TypeOK, LoopInv, CarryInv, CapInv, [Next]_vars PROVE CapInv'
<1>0. conf' = conf /\ conf.cap \in Nat /\ peak \in Nat
  BY Stable, ConfigAssumption DEF TypeOK
<1>1. IsFiniteSet(DOMAIN store')
  BY StoreFinite DEF CapInv
<1>2. ASSUME ~\E s \in Sub, m \in Msg : \E R \in Envelope[m] \cup {To[m]} : SubmitCheck(s, m, R)
      PROVE  CapInv'
  <2>1. InFlight' \subseteq InFlight /\ Charged' \subseteq Charged /\ peak' = peak
    BY <1>2, ChargedShrinks
  <2>2. Cardinality(InFlight') <= Cardinality(InFlight) /\ Cardinality(InFlight') \in Nat
    BY <2>1, SubFinite, FS_Subset, FS_CardinalityType
  <2>3. Cardinality(Charged') <= Cardinality(Charged) /\ Cardinality(Charged') \in Nat
        /\ Cardinality(Charged) \in Nat
    BY <2>1, ChargedBound, FS_Subset, FS_CardinalityType DEF CapInv
  <2>4. QED
    BY <1>0, <1>1, <2>1, <2>2, <2>3, SubFinite DEF CapInv
<1>3. ASSUME NEW s \in Sub, NEW m \in Msg, NEW R \in Envelope[m] \cup {To[m]}, SubmitCheck(s, m, R)
      PROVE  CapInv'
  <2>1. InFlight' = InFlight \cup {s} /\ s \notin InFlight
    <3>1. sub[s].pc = "new" /\ sub'[s].pc = "checked"
      BY <1>3 DEF SubmitCheck, TypeOK, Subs
    <3>2. \A u \in Sub : u # s => sub'[u] = sub[u]
      BY <1>3, CheckStep DEF Becomes
    <3>3. QED
      BY <3>1, <3>2 DEF InFlight
  <2>2. Cardinality(InFlight') = Cardinality(InFlight) + 1
    BY <2>1, SubFinite, FS_AddElement
  <2>3. Cardinality(InFlight') <= peak'
    BY <1>0, <1>3, <2>2, SubFinite DEF SubmitCheck, CapInv
  <2>4. store' = store /\ (conf.cap > 0 => Cardinality(DOMAIN store) < conf.cap)
    BY <1>0, <1>3 DEF SubmitCheck, UnderCap
  <2>5. IsFiniteSet(Charged') /\ Cardinality(Charged') <= Cardinality(DOMAIN store') + Cardinality(InFlight')
    <3> DEFINE D == DOMAIN store'
               F == InFlight'
               f == [t \in F |-> sub'[t].msg]
               M == Msg \cap D
               C == {sub'[t].msg : t \in F}
    <3>1. Charged' = M \cup C /\ f \in Surjection(F, C)
      BY DEF Charged, Surjection
    <3>2. IsFiniteSet(F)
      BY <2>1, SubFinite, FS_AddElement
    <3>3. M \in SUBSET D /\ IsFiniteSet(D)
      BY <1>1
    <3> HIDE DEF D, F, C, f, M
    <3>4. IsFiniteSet(M \cup C) /\ Cardinality(M \cup C) <= Cardinality(D) + Cardinality(F)
      BY <3>1, <3>2, <3>3, ImageBound
    <3>5. QED
      BY <3>1, <3>4 DEF D, F
  <2>6. Cardinality(Charged') \in Nat /\ Cardinality(DOMAIN store') \in Nat
        /\ Cardinality(InFlight') \in Nat /\ peak' \in Nat
    BY <1>0, <1>1, <1>3, <2>2, <2>5, SubFinite, FS_CardinalityType DEF SubmitCheck
  <2>7. conf.cap > 0 => Cardinality(Charged') < conf.cap + peak'
    BY <1>0, <2>3, <2>4, <2>5, <2>6
  <2>8. QED
    BY <1>0, <1>1, <2>3, <2>7 DEF CapInv
<1>4. QED
  BY <1>2, <1>3

-----------------------------------------------------------------------------
(* Theorems.                                                               *)

LEMMA InitInv == ASSUME Init PROVE IInv
<1>1. TypeOK /\ ReplyInv /\ CarryInv /\ Records /\ IdInv /\ CapInv
  BY InitType, InitReply, InitCarry, InitRecords, InitId, InitCap
<1>2. ResultTruthful
  BY DEF Init, NewSub, ResultTruthful
<1>3. QED
  BY <1>1, <1>2 DEF IInv

LEMMA NextInv == ASSUME IInv, [Next]_vars PROVE IInv'
<1>1. TypeOK /\ ReplyInv /\ CarryInv /\ Records /\ ResultTruthful /\ IdInv /\ CapInv
  BY DEF IInv
<1>2. LoopInv
  BY <1>1 DEF Records, RecOK, LoopInv
<1>3. TypeOK' /\ CarryInv' /\ ReplyInv' /\ CapInv'
  BY <1>1, <1>2, NextType, NextCarry, NextReply, NextCap
<1>4. Records' /\ ResultTruthful' /\ IdInv'
  BY <1>1, RecordsNext, NextTruthful, NextId
<1>5. QED
  BY <1>3, <1>4 DEF IInv

LEMMA Invariance == Spec => []IInv
BY InitInv, NextInv, PTL DEF Spec

\* Every variable keeps its type, whatever the requests, servers, deletions and
\* crashes are.
THEOREM TypeCorrect == Spec => []TypeOK
<1>1. IInv => TypeOK
  BY DEF IInv
<1>2. QED
  BY <1>1, Invariance, PTL

\* What the check of OnSubmitEmail grants is kept to the end of the delivery: no
\* server ever gets a message for an address that was not the From of a letter or
\* message in the account's store, although that one may be deleted in between.
\* The client's own messages count, whatever From they claim: this is less than
\* a rule that only those who wrote may be answered.
THEOREM RepliesOnly == Spec => []ReplyOnly
<1>1. IInv => ReplyOnly
  <2> SUFFICES ASSUME IInv, ReplyRule, NEW g \in got
               PROVE  \E i \in kept : From[i] = g[2]
    BY DEF ReplyOnly
  <2>1. g[1] \in Sub
    BY DEF IInv, TypeOK
  <2>2. QED
    BY <2>1 DEF IInv, ReplyInv, Writers
<1>2. QED
  BY <1>1, Invariance, PTL

\* The copy that is sealed to the account's key and the one the recipients get
\* never share their body: the recipients get the text and the HTML that were
\* written, and what was stored under a key that can be encrypted to has no plain
\* text part, also if the message is loaded, stored and submitted again any number
\* of times while fit and unfit keys are uploaded.
THEOREM CopiesNeverMix == Spec => []CopiesApart
<1>1. IInv => CopiesApart
  BY DEF IInv, CarryInv
<1>2. QED
  BY <1>1, Invariance, PTL

\* firstErr tells the truth: sent means that every connection confirmed the
\* message, failed that one did not or that none was to be made, and a submission
\* that names an address without a domain reaches no server.
THEOREM ReportsTruthful == Spec => []ResultTruthful
<1>1. IInv => ResultTruthful
  BY DEF IInv
<1>2. QED
  BY <1>1, Invariance, PTL

\* A Message-ID put into the store after a delivery is one under which every
\* connection of that submission took this very message.
THEOREM IdsWereSent == Spec => []IdWasSent
<1>1. IInv => IdWasSent
  BY DEF IInv, IdInv, IdWasSent, SentAs
<1>2. QED
  BY <1>1, Invariance, PTL

\* The storage cap is exceeded by less than the largest number of submissions
\* that were in flight together, for any cap and any number of submissions.
THEOREM CapOvershootBounded == Spec => []CapBound
<1>1. IInv => CapBound
  <2> SUFFICES ASSUME IInv, conf.cap > 0
               PROVE  Cardinality(Msg \cap DOMAIN store) < conf.cap + peak
    BY DEF CapBound
  <2> DEFINE M == Msg \cap DOMAIN store
             C == Cardinality(Charged)
  <2>1. M \subseteq Charged /\ IsFiniteSet(Charged)
    BY ChargedBound DEF Charged, IInv, CapInv
  <2>2. Cardinality(M) \in Nat /\ C \in Nat /\ Cardinality(M) <= C
    BY <2>1, FS_Subset, FS_CardinalityType
  <2>3. C < conf.cap + peak /\ conf.cap \in Nat /\ peak \in Nat
    BY ConfigAssumption DEF IInv, CapInv, TypeOK
  <2> HIDE DEF M, C
  <2>4. Cardinality(M) < conf.cap + peak
    BY <2>2, <2>3
  <2>5. QED
    BY <2>4 DEF M
<1>2. QED
  BY <1>1, Invariance, PTL
=============================================================================
