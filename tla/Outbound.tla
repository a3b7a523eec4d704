------------------------------ MODULE Outbound ------------------------------
(***************************************************************************)
(* Outbound mail of one account: the hooks OnCreateEmail and OnSubmitEmail, *)
(* and the goroutine that delivers what has been submitted.                *)
(*                                                                         *)
(* A JMAP request checks the storage cap and the reply-only rule, stores a  *)
(* copy of the message (sealed to the account's own key when it has one),  *)
(* answers the client, and leaves the delivery to a goroutine. That one    *)
(* opens a connection per recipient domain, or one to the relay host, and  *)
(* on success stores the message once more, under the Message-ID it was    *)
(* sent with. Requests, deliveries, incoming mail and deletions by the     *)
(* client interleave; nothing is retried, and a crash forgets deliveries.   *)
(*                                                                         *)
(* The JMAP library keeps the messages created and not yet stored, finds    *)
(* the message of a submission there or in the store, and calls the hooks. *)
(*                                                                         *)
(* The From of a message is what its sender wrote, the client's own as well *)
(* as that of a letter: nothing compares it with the account.              *)
(***************************************************************************)
EXTENDS Naturals, FiniteSets

CONSTANTS
    Peer,       \* recipient addresses
    Own,        \* the account's address
    DomainOf,   \* domain of an address; None if it has no "@"
    Home,       \* the account's domain
    Letter,     \* incoming messages
    Msg,        \* messages the client writes
    From,       \* the From of a letter or a message
    To,         \* the recipients of a message
    Kind,       \* its text: "plain", "e2e" (PGP already) or "empty"
    Html,       \* the messages with an HTML alternative to the text
    Envelope,   \* the recipient sets a client may ask for instead
    MaxSub,     \* bound: submissions
    Config,     \* the configurations to start with
    Silent,     \* servers that may accept a connection and never answer
    None

\* relay: is relay_host set? reply, exempt: reply_only_outbound and the addresses
\* and domains of reply_only_exempt. cap: max_account_storage_mb in messages, 0
\* for none.

ASSUME AddressAssumption ==
    /\ DOMAIN DomainOf = Peer
    /\ From \in [Letter \cup Msg -> Peer \cup {Own}] /\ Html \subseteq Msg
    /\ DOMAIN To = Msg /\ \A m \in Msg : To[m] \subseteq Peer
    /\ Kind \in [Msg -> {"plain", "e2e", "empty"}]
    /\ Envelope \in [Msg -> SUBSET SUBSET Peer] /\ Letter \cap Msg = {}
    /\ None # "relay"
ASSUME ConfigAssumption ==
    \A c \in Config : c.relay \in BOOLEAN /\ c.reply \in BOOLEAN
                       /\ c.exempt \subseteq {Own, Home} /\ c.cap \in Nat

Sub == 1..MaxSub

ASSUME BoundsAssumption == MaxSub \in Nat /\ None \notin Sub

VARIABLES
    conf,    \* the configuration
    key,     \* the account's pubkey file: "none", "fit" to encrypt to or "unfit"
    pending, \* created messages the library holds until they are stored
    store,   \* id -> stored message
    sub,     \* sub[s]: a submission
    kept,    \* history: the ids that have been in the store
    got,     \* history: <<s, p>> a server took the message of s for p
    peak     \* history: most submissions that were in flight at a time

vars == <<conf, key, pending, store, sub, kept, got, peak>>

NewSub == [pc |-> "new", msg |-> None, to |-> {}, wire |-> None, again |-> FALSE,
           item |-> None, left |-> {}, conn |-> None, err |-> FALSE, ok |-> {}]

\* A body: the value of its text parts, and whether it has an HTML alternative
\* that is listed, or one that is not ("hidden"): its value is still there.
Body(text, html) == [text |-> text, html |-> html]
Written(m) == Body(Kind[m], IF m \in Html THEN "listed" ELSE "none")

\* A stored message. mid is the submission whose Message-ID it has, None for
\* the one assigned before; hadKey is history.
Item(body, mid, hadKey) == [body |-> body, mid |-> mid, hadKey |-> hadKey]
With(st, i, item) == [j \in DOMAIN st \cup {i} |-> IF j = i THEN item ELSE st[j]]
Without(st, i)    == [j \in DOMAIN st \ {i} |-> st[j]]

InFlight == {s \in Sub : sub[s].pc \in {"checked", "sending"}}

-----------------------------------------------------------------------------
(* Creating and submitting.                                                *)

\* dirSizeMB under the account's directory, in messages.
UnderCap == conf.cap = 0 \/ Cardinality(DOMAIN store) < conf.cap

\* OnCreateEmail: a new message becomes known to the library.
Create(m) ==
    /\ m \notin pending \cup DOMAIN store /\ UnderCap
    /\ pending' = pending \cup {m}
    /\ UNCHANGED <<conf, key, store, sub, kept, got, peak>>

\* Every From in the store, of what came in and of what the client submitted.
Known == {From[i] : i \in DOMAIN store}

\* The rule binds an account that is listed neither itself nor by its domain.
ReplyRule == conf.reply /\ Own \notin conf.exempt /\ Home \notin conf.exempt

\* Wrong variant: the recipients named in the message are checked, not those
\* of the envelope.
MayWrite_ByHeader(m, R) == ReplyRule => To[m] \subseteq Known

MayWrite(m, R) == ReplyRule => R \subseteq Known

\* The message as the library finds it.
Loaded(m) == IF m \in DOMAIN store THEN store[m] ELSE Item(Written(m), None, FALSE)

\* The checks of OnSubmitEmail, for the next submission. The envelope is the
\* client's, or built from a message that has recipients.
SubmitCheck(s, m, R) ==
    /\ sub[s].pc = "new" /\ \A r \in 1..(s-1) : sub[r].pc # "new"
    /\ m \in pending \cup DOMAIN store
    /\ R \in Envelope[m] \/ (R = To[m] /\ R # {})
    /\ UnderCap /\ MayWrite(m, R)
    /\ sub' = [sub EXCEPT ![s].pc = "checked", ![s].msg = m, ![s].to = R,
                          ![s].again = m \in DOMAIN store, ![s].item = Loaded(m)]
    /\ peak' = IF Cardinality(InFlight) < peak THEN peak ELSE Cardinality(InFlight) + 1
    /\ UNCHANGED <<conf, key, pending, store, kept, got>>

\* To a key that can be read but not encrypted to, pgpEncryptInline fails.
HasKey == key = "fit"

\* Wrong variant: the text is sealed in the map both copies share.
Wire_Shared(body) == IF body.text = "plain" /\ HasKey THEN [body EXCEPT !.text = "own"] ELSE body

\* smtpMsg keeps the body as it was submitted.
Wire(body) == body

\* The stored text is sealed to the account's key, unless it is PGP already or
\* that fails, in a copy of the body values. The HTML alternative leaves the list
\* of parts; its value stays in the copy as it was.
Sealed(body) ==
    IF body.text = "plain" /\ HasKey
    THEN Body("own", IF body.html = "none" THEN "none" ELSE "hidden") ELSE body

\* Wrong variant: an address is taken to have a domain.
Groups_Unchecked(R) == IF conf.relay THEN {"relay"} ELSE {DomainOf[p] : p \in R}

\* The connections to make: one to the relay, or one per domain. An address
\* without a domain, or no address at all, fails the submission before any.
Groups(R) ==
    CASE R = {} -> {}
      [] R # {} /\ conf.relay -> {"relay"}
      [] R # {} /\ ~conf.relay ->
           IF \E p \in R : DomainOf[p] = None THEN {} ELSE {DomainOf[p] : p \in R}

\* Put, the answer to the client, and the start of the goroutine.
SubmitStore(s) ==
    LET body == sub[s].item.body
        item == Item(Sealed(body), sub[s].item.mid, HasKey)
        to   == Groups(sub[s].to) IN
    /\ sub[s].pc = "checked"
    /\ store' = With(store, sub[s].msg, item)
    /\ pending' = pending \ {sub[s].msg}
    /\ sub' = [sub EXCEPT ![s].pc = "sending", ![s].item = item,
                          ![s].wire = Wire(body),
                          ![s].left = to, ![s].err = (to = {})]
    /\ kept' = kept \cup {sub[s].msg}
    /\ UNCHANGED <<conf, key, got, peak>>

\* The store could not be written: the client gets an error.
SubmitFails(s) ==
    /\ sub[s].pc = "checked"
    /\ sub' = [sub EXCEPT ![s].pc = "refused"]
    /\ UNCHANGED <<conf, key, pending, store, kept, got, peak>>

-----------------------------------------------------------------------------
(* The goroutine: sendEmail and what follows it.                           *)

Ready(s, d) == sub[s].pc = "sending" /\ sub[s].conn = None /\ d \in sub[s].left

\* Wrong variant: only the last connection counts.
ErrAfter_Last(err, ok) == ~ok

\* firstErr, after a domain that ended well or not.
ErrAfter(err, ok) == err \/ ~ok

\* Wrong variant: a domain without a mail server stays on the list.
Rest_Retry(left, d) == left

\* The loop goes on to the domains that are left.
Rest(left, d) == left \ {d}

DomainDone(s, d, ok) ==
    sub' = [sub EXCEPT ![s].left = Rest(@, d), ![s].conn = None,
                       ![s].err = ErrAfter(@, ok),
                       ![s].ok = IF ok THEN @ \cup {d} ELSE @]

\* The next domain, in any order: no MX record, or nobody answers the dial.
Unreachable(s, d) ==
    /\ Ready(s, d)
    /\ DomainDone(s, d, FALSE)
    /\ UNCHANGED <<conf, key, pending, store, kept, got, peak>>

Connect(s, d) ==
    /\ Ready(s, d)
    /\ sub' = [sub EXCEPT ![s].conn = d]
    /\ UNCHANGED <<conf, key, pending, store, kept, got, peak>>

Group(s, d) == IF conf.relay THEN sub[s].to
               ELSE {p \in sub[s].to : DomainOf[p] = d}

\* The server refuses a greeting, the sender, every recipient or the data.
Refuse(s, d) ==
    /\ sub[s].conn = d
    /\ DomainDone(s, d, FALSE)
    /\ UNCHANGED <<conf, key, pending, store, kept, got, peak>>

\* The server takes the message for those recipients it did not refuse (a
\* refused RCPT is only logged); its answer to the data may get lost.
Take(s, d, R, heard) ==
    /\ sub[s].conn = d /\ R \subseteq Group(s, d) /\ R # {}
    /\ DomainDone(s, d, heard)
    /\ got' = got \cup ({s} \X R)
    /\ UNCHANGED <<conf, key, pending, store, kept, peak>>

\* msg with the Message-ID the message was sent with.
LateItem(s) == [sub[s].item EXCEPT !.mid = s]

\* Wrong variant: before the error is looked at.
Renames_Always(s) == TRUE

Renames(s) == ~sub[s].err

\* The result is logged. On success, and if the library generated a Message-ID,
\* the message is put again, whatever became of it in the meantime.
Report(s) ==
    /\ sub[s].pc = "sending" /\ sub[s].left = {} /\ sub[s].conn = None
    /\ sub' = [sub EXCEPT ![s].pc = IF sub[s].err THEN "failed" ELSE "sent",
                          ![s].item = None]
    /\ store' \in IF Renames(s) THEN {store, With(store, sub[s].msg, LateItem(s))}
                  ELSE {store}
    /\ UNCHANGED <<conf, key, pending, kept, got, peak>>

-----------------------------------------------------------------------------
(* The rest of the account's life.                                         *)

\* Module Inbound delivers a message.
Receive(l) ==
    /\ l \notin kept
    /\ kept' = kept \cup {l}
    /\ store' = With(store, l, Item(Body("plain", "none"), None, FALSE))
    /\ UNCHANGED <<conf, key, pending, sub, got, peak>>

\* Email/set destroy, in the library.
Destroy(i) ==
    /\ i \in DOMAIN store
    /\ store' = Without(store, i)
    /\ UNCHANGED <<conf, key, pending, sub, kept, got, peak>>

\* PUT /pgp/pubkey, or a key that expires. Module Inbound has the file.
UploadKey ==
    /\ \E k \in {"fit", "unfit"} \ {key} : key' = k
    /\ UNCHANGED <<conf, pending, store, sub, kept, got, peak>>

\* Created messages, requests and deliveries are lost; the store is not.
Crash ==
    /\ InFlight # {}
    /\ pending' = {}
    /\ sub' = [s \in Sub |-> IF s \notin InFlight THEN sub[s]
                 ELSE [sub[s] EXCEPT !.pc = "lost", !.item = None, !.left = {},
                                     !.conn = None, !.err = FALSE, !.ok = {}]]
    /\ UNCHANGED <<conf, key, store, kept, got, peak>>

-----------------------------------------------------------------------------
Init ==
    /\ conf \in Config /\ key = "none" /\ pending = {} /\ store = <<>>
    /\ sub = [s \in Sub |-> NewSub] /\ kept = {} /\ got = {} /\ peak = 0

Domains == ({DomainOf[p] : p \in Peer} \ {None}) \cup {"relay"}

Request(s) == SubmitStore(s) \/ SubmitFails(s)

\* What the goroutine does by itself, or with the answer of a server.
Send(s, d) == Unreachable(s, d) \/ Connect(s, d)
Answer(s, d) == Refuse(s, d)
                  \/ \E R \in SUBSET Group(s, d), heard \in BOOLEAN : Take(s, d, R, heard)

Client == \/ \E m \in Msg : Create(m)
          \/ \E s \in Sub, m \in Msg : \E R \in Envelope[m] \cup {To[m]} : SubmitCheck(s, m, R)
          \/ \E i \in Msg \cup Letter : Destroy(i)
          \/ UploadKey

Next == \/ Client \/ Crash
        \/ \E l \in Letter : Receive(l)
        \/ \E s \in Sub : \/ Request(s) \/ Report(s)
                          \/ \E d \in Domains : Send(s, d) \/ Answer(s, d)

Spec == Init /\ [][Next]_vars

\* Handlers and goroutines are scheduled, a dial has a timeout of 30 s, and the
\* servers outside Silent answer. Nothing bounds the wait for an answer.
FairSpec ==
    /\ Spec
    /\ \A s \in Sub :
         /\ WF_vars(Request(s))
         /\ WF_vars(Report(s) \/ \E d \in Domains : Send(s, d))
         /\ WF_vars(\E d \in Domains \ Silent : Answer(s, d))

-----------------------------------------------------------------------------
(* Properties.                                                             *)

Texts == {"plain", "e2e", "empty", "own"}
Bodies == [text : Texts, html : {"none", "listed", "hidden"}]
Items == [body : Bodies, mid : Sub \cup {None}, hadKey : BOOLEAN]

Subs  == [pc : {"new", "checked", "sending", "sent", "failed", "refused", "lost"},
          msg : Msg \cup {None}, to : SUBSET Peer, wire : Bodies \cup {None},
          again : BOOLEAN, item : Items \cup {None}, left : SUBSET Domains,
          conn : Domains \cup {None}, err : BOOLEAN, ok : SUBSET Domains]

\* What each variable may hold.
TypeOK ==
    /\ conf \in Config /\ key \in {"none", "fit", "unfit"} /\ pending \subseteq Msg
    /\ DOMAIN store \subseteq Msg \cup Letter
    /\ \A i \in DOMAIN store : store[i] \in Items
    /\ sub \in [Sub -> Subs]
    /\ kept \subseteq Msg \cup Letter /\ got \subseteq Sub \X Peer /\ peak \in Nat

\* Under the reply-only rule no server gets a message for an address that was
\* not the From of something in the account's store when the client asked: of a
\* letter, or of a message the client itself had sent, which may claim any From.
\* What is delivered, deleted or submitted in the meantime changes nothing.
ReplyOnly ==
    ReplyRule => \A g \in got : \E i \in kept : From[i] = g[2]

\* The recipients get what the client wrote, text and HTML: the copy that is
\* sealed to the account's own key, without HTML, stays in the store, unless it
\* is submitted again from there.
SentAsWritten ==
    \A g \in got : LET s == sub[g[1]] IN s.wire = Written(s.msg) \/ s.again

\* Storage encryption of sent mail: the text parts of what was stored, or stored
\* again, when the account had a key to encrypt to do not rest as plain text.
\* (An HTML alternative does.)
KeyedNeverPlain ==
    \A i \in DOMAIN store : store[i].hadKey => store[i].body.text # "plain"

\* The two copies of a message: no sharing of its body between them.
CopiesApart == SentAsWritten /\ KeyedNeverPlain

\* A submission is reported sent exactly if all its connections confirmed the
\* message, in whatever order they succeed and fail. One that fails for an
\* address without a domain has gone to nobody.
ResultTruthful ==
    \A s \in Sub : /\ sub[s].pc = "sent" => sub[s].ok = Groups(sub[s].to) /\ sub[s].ok # {}
                   /\ sub[s].pc = "failed" => Groups(sub[s].to) = {}
                                              \/ sub[s].ok # Groups(sub[s].to)
                   /\ (~conf.relay /\ \E p \in sub[s].to : DomainOf[p] = None)
                         => \A p \in Peer : <<s, p>> \notin got

\* A stored message gets a new Message-ID only if every connection of one of its
\* submissions took the message under that id.
IdWasSent ==
    \A m \in Msg \cap DOMAIN store : LET s == store[m].mid IN
        s # None => sub[s].msg = m /\ sub[s].ok = Groups(sub[s].to)

\* The cap is checked before and not while storing: submissions in flight at the
\* same time may exceed it together, by no more than their number, even when
\* they store a deleted message again.
CapBound ==
    conf.cap > 0 => Cardinality(Msg \cap DOMAIN store) < conf.cap + peak

\* An acknowledged submission is reported as sent or failed, or lost in a crash,
\* provided all the servers it has to ask answer.
EventuallyReported ==
    \A s \in Sub :
        (sub[s].pc = "sending" /\ Groups(sub[s].to) \cap Silent = {})
            ~> (sub[s].pc \in {"sent", "failed", "lost"})
=============================================================================
