------------------------------ MODULE Inbound ------------------------------
(***************************************************************************)
(* Inbound mail: from RCPT TO to the mail store of the recipient.           *)
(*                                                                         *)
(* An SMTP transaction (a session of main.go, one goroutine each) collects  *)
(* recipients it finds in the alias map, and at DATA puts one copy of the   *)
(* message per account into the channel bufCh, encrypting it to the         *)
(* account's OpenPGP key when there is one. JMAP requests drain the channel *)
(* into the stores before they do anything else (drainBuffer).             *)
(*                                                                         *)
(* The copies of one transaction are shallow: `e := parsed` copies the      *)
(* struct, and all copies share the BodyValues map. text[t] is the value of *)
(* the text parts in that map. The values of the other parts (an HTML       *)
(* alternative) are replaced by no step: they are stored as they came,      *)
(* and the properties below say nothing of them.                           *)
(*                                                                         *)
(* Accounts come and go here as in module Accounts, reduced to what this    *)
(* path reads: the maps under the lock, and the account's files.            *)
(***************************************************************************)
EXTENDS Naturals, Sequences, FiniteSets

CONSTANTS
    Account,     \* primary addresses
    Addr,        \* recipient addresses: the accounts and their aliases
    Static,      \* accounts of config.json, never unregistered
    ConfigRoute, \* alias address -> static account
    DomainOf,    \* the domain of an address
    Txn,         \* SMTP transactions
    MsgId,       \* the store id of a transaction's message (makeMessageID)
    Kind,        \* its body: "plain", "e2e" (PGP already) or "empty"
    Autocrypt,   \* the transactions with a usable Autocrypt header
    Handler,     \* concurrent JMAP requests
    BufCap,      \* capacity of bufCh (256 in the code)
    MaxRcpt,     \* bound: recipients per transaction
    None

ASSUME BoundsAssumption ==
    /\ BufCap \in Nat \ {0} /\ MaxRcpt \in Nat \ {0}
    /\ IsFiniteSet(Handler)
ASSUME RouteAssumption ==
    /\ None \notin Account /\ Account \subseteq Addr /\ Static \subseteq Account
    /\ Addr \ Account = DOMAIN ConfigRoute
    /\ \A a \in DOMAIN ConfigRoute : ConfigRoute[a] \in Static
ASSUME MessageAssumption ==
    /\ DOMAIN MsgId = Txn /\ Autocrypt \subseteq Txn
    /\ Kind \in [Txn -> {"plain", "e2e", "empty"}]
    /\ DOMAIN DomainOf = Addr
    /\ Account \cap {"plain", "e2e", "empty"} = {}

VARIABLES
    txn,      \* txn[t]: state of the transaction
    text,     \* text[t]: the shared body text; an account: encrypted to its key
    aliases,  \* h.aliases
    stores,   \* DOMAIN h.stores
    key,      \* key[p]: the account's pubkey file: "none", half written
              \* ("torn"), good to encrypt to ("fit"), or a key that can be
              \* read but not encrypted to ("unfit": for signing, or expired)
    peerKeys, \* peerKeys[t]: domains that stored the key of t's sender
    made,     \* made[t]: the copy a session has made and not yet buffered
    buf,      \* bufCh
    hand,     \* hand[h]: the message a draining request has received
    mbox,     \* mbox[p]: store id -> message, for the ids present
    acked,    \* history: <<t, p>> answered 250 with p a recipient
    dropped,  \* history: <<t, p>> dropped at a full buffer
    excused   \* history: <<t, p>> lost to a crash, to a failed Put, with the
              \* mailbox of p, or replaced there by a message of the same id

session == <<txn, text, made>>
accts   == <<aliases, stores, key>>
queue   == <<buf, hand, mbox>>
history == <<acked, dropped, excused>>
vars    == <<txn, text, made, aliases, stores, key, peerKeys, buf, hand, mbox,
             acked, dropped, excused>>

NewTxn == [pc |-> "rcpt", to |-> <<>>, i |-> 1, delivered |-> {}]
Ids    == {MsgId[t] : t \in Txn}

\* A copy of t's message for account p ("" if the alias went away). The struct
\* fields are its own; the text is t's. hadKey is history.
Copy(t, p, e2e, hadKey) == [acct |-> p, txn |-> t, e2e |-> e2e, hadKey |-> hadKey]
NoCopy == [acct |-> None, txn |-> None, e2e |-> FALSE, hadKey |-> FALSE]

-----------------------------------------------------------------------------
(* The SMTP session.                                                       *)

\* Rcpt answers 250 for every address and keeps those in the alias map.
Known(a) == aliases[a] # None

Rcpt(t, a) ==
    /\ txn[t].pc = "rcpt" /\ Len(txn[t].to) < MaxRcpt
    /\ Known(a)
    /\ txn' = [txn EXCEPT ![t].to = Append(@, a)]
    /\ UNCHANGED <<text, made, accts, peerKeys, queue, history>>

\* RSET, a lost connection, a read or a parse error.
Abandon(t) ==
    /\ txn[t].pc \in {"rcpt", "key"}
    /\ txn' = [txn EXCEPT ![t].pc = "failed"]
    /\ UNCHANGED <<text, made, accts, peerKeys, queue, history>>

\* DATA. Without a known recipient the message is accepted and forgotten.
Data(t) ==
    /\ txn[t].pc = "rcpt"
    /\ txn' = [txn EXCEPT ![t].pc = IF txn[t].to = <<>> THEN "done" ELSE "key"]
    /\ UNCHANGED <<text, made, accts, peerKeys, queue, history>>

\* The Autocrypt key goes to the domain of the first recipient that still
\* resolves.
FirstResolved(to) ==
    {i \in DOMAIN to : /\ aliases[to[i]] # None
                       /\ \A j \in 1..(i-1) : aliases[to[j]] = None}

KeyDomains(to) == {DomainOf[aliases[to[i]]] : i \in FirstResolved(to)}

StoreKey(t) ==
    /\ txn[t].pc = "key"
    /\ peerKeys' = IF t \in Autocrypt
                   THEN [peerKeys EXCEPT ![t] = @ \cup KeyDomains(txn[t].to)]
                   ELSE peerKeys
    /\ txn' = [txn EXCEPT ![t].pc = "deliver"]
    /\ UNCHANGED <<text, made, accts, queue, history>>

\* The text after the copy for p has been made. To a key that can be read but
\* not encrypted to, pgpEncryptInline fails, and the text stays as it is.
HasKey(p)  == p # None /\ key[p] = "fit"
IsPGP(s)   == s \notin {"plain", "empty"}
\* Wrong variant: keys of static accounts only.
Sealed_StaticOnly(s, p) ==
    IF s # "empty" /\ ~IsPGP(s) /\ HasKey(p) /\ p \in Static THEN p ELSE s

Sealed(s, p) == IF s # "empty" /\ ~IsPGP(s) /\ HasKey(p) THEN p ELSE s
\* Wrong variant: the test comes after the sealing.
MarksE2E_AfterSealing(s, p) == p # None /\ IsPGP(Sealed(s, p))

MarksE2E(s, p) == p # None /\ IsPGP(s)

\* Wrong variants: by address instead of account; the test inverted.
AlreadyDelivered_ByAddress(t, p) ==
    \E j \in 1..(txn[t].i - 1) : txn[t].to[j] = txn[t].to[txn[t].i]
AlreadyDelivered_Inverted(t, p) == p \notin txn[t].delivered

AlreadyDelivered(t, p) == p \in txn[t].delivered

\* Wrong variant: one message too many.
Room_OffByOne == Len(buf) <= BufCap

\* bufferEmail: a full channel drops the message, and the sender is not told.
Room == Len(buf) < BufCap

\* Wrong variant: mail for an account that has gone falls to a static one.
Recipient_CatchAll(t) == LET p == aliases[txn[t].to[txn[t].i]] IN
                         IF p = None THEN CHOOSE q \in Static : TRUE ELSE p

Recipient(t) == aliases[txn[t].to[txn[t].i]]

\* A round of the loop over s.to starts: the alias is read again, an account
\* gets one copy, and the copy is made with the key its file holds now. A
\* second address of the same account is skipped.
Prepare(t) ==
    LET p == Recipient(t) IN
    /\ txn[t].pc = "deliver" /\ txn[t].i <= Len(txn[t].to)
    /\ IF AlreadyDelivered(t, p)
       THEN /\ txn' = [txn EXCEPT ![t].i = @ + 1, ![t].delivered = @ \cup {p}]
            /\ UNCHANGED <<text, made>>
       ELSE /\ txn' = [txn EXCEPT ![t].pc = "buffer", ![t].delivered = @ \cup {p}]
            /\ text' = [text EXCEPT ![t] = Sealed(@, p)]
            /\ made' = [made EXCEPT ![t] = Copy(t, p, MarksE2E(text[t], p), HasKey(p))]
    /\ UNCHANGED <<accts, peerKeys, queue, history>>

\* The round ends in bufferEmail.
Buffer(t) ==
    /\ txn[t].pc = "buffer"
    /\ txn'  = [txn EXCEPT ![t].pc = "deliver", ![t].i = @ + 1]
    /\ made' = [made EXCEPT ![t] = NoCopy]
    /\ IF Room
       THEN buf' = Append(buf, made[t]) /\ UNCHANGED dropped
       ELSE buf' = buf /\ dropped' = dropped \cup {<<t, made[t].acct>>}
    /\ UNCHANGED <<text, accts, peerKeys, hand, mbox, acked, excused>>

\* Data returns nil: 250.
Answer(t) ==
    /\ txn[t].pc = "deliver" /\ txn[t].i > Len(txn[t].to)
    /\ txn' = [txn EXCEPT ![t].pc = "done"]
    /\ acked' = acked \cup ({t} \X (txn[t].delivered \ {None}))
    /\ UNCHANGED <<text, made, accts, peerKeys, queue, dropped, excused>>

-----------------------------------------------------------------------------
(* drainBuffer, run at the start of every JMAP method.                      *)

\* Wrong variant: the last message stays in the channel.
Ready_OffByOne == Len(buf) > 1

Ready == buf # <<>>

DrainTake(h) ==
    /\ hand[h] = NoCopy /\ Ready
    /\ hand' = [hand EXCEPT ![h] = Head(buf)]
    /\ buf' = Tail(buf)
    /\ UNCHANGED <<session, accts, peerKeys, mbox, history>>

\* The store is looked up (without the lock) and the message is put under its
\* id, replacing one already there; its text is what the shared map holds now.
\* Without a store the message is discarded, and so it is if Put fails, whose
\* error nobody looks at.
Stored(c) == [txn |-> c.txn, text |-> text[c.txn], e2e |-> c.e2e, hadKey |-> c.hadKey]
Put(box, c) == [i \in DOMAIN box \cup {MsgId[c.txn]} |->
                  IF i = MsgId[c.txn] THEN Stored(c) ELSE box[i]]

\* The copies of p's mailbox that are gone with the messages under I.
Gone(p, I) == {<<mbox[p][i].txn, p>> : i \in I \cap DOMAIN mbox[p]}

DrainPut(h) ==
    LET c == hand[h] IN
    /\ c # NoCopy
    /\ \/ /\ c.acct \in stores
          /\ mbox' = [mbox EXCEPT ![c.acct] = Put(@, c)]
          /\ excused' = excused \cup Gone(c.acct, {MsgId[c.txn]})
       \/ mbox' = mbox /\ excused' = excused \cup {<<c.txn, c.acct>>}
    /\ hand' = [hand EXCEPT ![h] = NoCopy]
    /\ UNCHANGED <<session, accts, peerKeys, buf, acked, dropped>>

-----------------------------------------------------------------------------
(* Accounts, their keys, and crashes.                                      *)

RegisterAccount(p) ==
    /\ p \notin stores
    /\ stores' = stores \cup {p} /\ aliases' = [aliases EXCEPT ![p] = p]
    /\ UNCHANGED <<session, key, peerKeys, queue, history>>

\* Deletion or purge: the maps, then the files.
UnregisterAccount(p) ==
    /\ p \in stores \ Static
    /\ stores' = stores \ {p}
    /\ aliases' = [a \in Addr |-> IF aliases[a] = p THEN None ELSE aliases[a]]
    /\ key'  = [key EXCEPT ![p] = "none"]
    /\ mbox' = [mbox EXCEPT ![p] = <<>>]
    /\ excused' = excused \cup Gone(p, Ids)
    /\ UNCHANGED <<session, peerKeys, buf, hand, acked, dropped>>

\* PUT /pgp/pubkey, the first time or again. os.WriteFile truncates the file,
\* then fills it with a key that was parsed before, fit or unfit.
UploadStart(p) ==
    /\ p \in stores /\ key[p] # "torn"
    /\ key' = [key EXCEPT ![p] = "torn"]
    /\ UNCHANGED <<session, aliases, stores, peerKeys, queue, history>>

UploadEnd(p) ==
    /\ key[p] = "torn"
    /\ \E k \in {"fit", "unfit"} : key' = [key EXCEPT ![p] = k]
    /\ UNCHANGED <<session, aliases, stores, peerKeys, queue, history>>

\* A key that expires can still be read.
Expire(p) ==
    /\ key[p] = "fit"
    /\ key' = [key EXCEPT ![p] = "unfit"]
    /\ UNCHANGED <<session, aliases, stores, peerKeys, queue, history>>

\* Memory is lost: the buffer, the copies in flight and the sessions. The
\* accounts come back from disk (module Accounts). A concurrent access to an
\* unsynchronised map, which the Go runtime answers with a fatal error, is one
\* of the ways to get here.
Crash ==
    /\ \E t \in Txn : txn[t].pc # "rcpt"
    /\ buf' = <<>> /\ hand' = [h \in Handler |-> NoCopy]
    /\ made' = [t \in Txn |-> NoCopy]
    /\ txn' = [t \in Txn |-> IF txn[t].pc \in {"done", "failed"} THEN txn[t]
                             ELSE [txn[t] EXCEPT !.pc = "failed"]]
    /\ excused' = excused \cup
         {<<c.txn, c.acct>> : c \in {buf[i] : i \in DOMAIN buf}
                                    \cup {hand[h] : h \in Handler}
                                    \cup {made[t] : t \in Txn}}
    /\ UNCHANGED <<text, accts, peerKeys, mbox, acked, dropped>>

-----------------------------------------------------------------------------
\* A relay that has just started, with its static accounts registered.
Init ==
    /\ txn = [t \in Txn |-> NewTxn]
    /\ text = Kind
    /\ stores = Static
    /\ aliases = [a \in Addr |-> IF a \in DOMAIN ConfigRoute THEN ConfigRoute[a]
                                 ELSE IF a \in Static THEN a ELSE None]
    /\ key = [p \in Account |-> "none"]
    /\ peerKeys = [t \in Txn |-> {}]
    /\ made = [t \in Txn |-> NoCopy]
    /\ buf = <<>> /\ hand = [h \in Handler |-> NoCopy]
    /\ mbox = [p \in Account |-> <<>>]
    /\ acked = {} /\ dropped = {} /\ excused = {}

Smtp == \E t \in Txn : \/ \E a \in Addr : Rcpt(t, a)
                       \/ Abandon(t) \/ Data(t) \/ StoreKey(t)
                       \/ Prepare(t) \/ Buffer(t) \/ Answer(t)

Drain(h) == DrainTake(h) \/ DrainPut(h)

Accounts == \E p \in Account : \/ RegisterAccount(p) \/ UnregisterAccount(p)
                               \/ UploadStart(p) \/ UploadEnd(p) \/ Expire(p)

\* Every transaction is over and nothing is queued: the relay may rest.
Rest == /\ \A t \in Txn : txn[t].pc \in {"done", "failed"}
        /\ buf = <<>> /\ \A h \in Handler : hand[h] = NoCopy
        /\ UNCHANGED vars

Next == Smtp \/ (\E h \in Handler : Drain(h)) \/ Accounts \/ Crash \/ Rest

Spec == Init /\ [][Next]_vars

\* The channel is drained by JMAP requests only, so this assumes that some
\* client keeps polling: each request in progress drains until it is done.
FairSpec == Spec /\ \A h \in Handler : WF_vars(Drain(h))

-----------------------------------------------------------------------------
(* Properties.                                                             *)

Txns     == [pc : {"rcpt", "key", "deliver", "buffer", "done", "failed"}, to : Seq(Addr),
             i : Nat, delivered : SUBSET (Account \cup {None})]
Copies   == [acct : Account \cup {None}, txn : Txn, e2e : BOOLEAN, hadKey : BOOLEAN]
Texts    == {"plain", "e2e", "empty"} \cup Account
Messages == [txn : Txn, text : Texts, e2e : BOOLEAN, hadKey : BOOLEAN]

\* What each variable may hold; the buffer never exceeds its capacity, and a
\* session never walks beyond its recipients.
TypeOK ==
    /\ txn \in [Txn -> Txns]
    /\ \A t \in Txn : /\ Len(txn[t].to) <= MaxRcpt /\ txn[t].i \in 1..(Len(txn[t].to) + 1)
                      /\ txn[t].pc = "buffer" => txn[t].i <= Len(txn[t].to)
    /\ text \in [Txn -> Texts]
    /\ made \in [Txn -> Copies \cup {NoCopy}]
    /\ aliases \in [Addr -> Account \cup {None}] /\ stores \subseteq Account
    /\ key \in [Account -> {"none", "torn", "fit", "unfit"}]
    /\ peerKeys \in [Txn -> SUBSET {DomainOf[a] : a \in Addr}]
    /\ buf \in Seq(Copies) /\ Len(buf) <= BufCap
    /\ hand \in [Handler -> Copies \cup {NoCopy}]
    /\ mbox \in [Account -> UNION {[I -> Messages] : I \in SUBSET Ids}]
    /\ acked \cup dropped \cup excused \subseteq (Txn \cup {None}) \X (Account \cup {None})

\* The accounts the recipients of t may lead to.
Homes(t) == {a \in Account : \E i \in DOMAIN txn[t].to :
                a = txn[t].to[i] \/ (txn[t].to[i] \in DOMAIN ConfigRoute
                                     /\ a = ConfigRoute[txn[t].to[i]])}

InFlight(t, p) ==
    Cardinality({i \in DOMAIN buf : buf[i].txn = t /\ buf[i].acct = p})
    + Cardinality({h \in Handler : hand[h].txn = t /\ hand[h].acct = p})
    + Cardinality({u \in Txn : made[u].txn = t /\ made[u].acct = p})
Has(t, p) == MsgId[t] \in DOMAIN mbox[p] /\ mbox[p][MsgId[t]].txn = t

\* Mail reaches only mailboxes its own recipients name, although the alias of a
\* recipient is read again at each step and may change in between.
NoMisdelivery ==
    \A p \in Account : \A i \in DOMAIN mbox[p] : p \in Homes(mbox[p][i].txn)

\* Acknowledged mail is in the buffer, in a drain or in the mailbox, unless this
\* copy was dropped at a full buffer, lost with a crash, refused by the store,
\* removed with the mailbox it was in or replaced there: there is no other way
\* to lose one, whichever accounts come and go meanwhile.
AckedAccounted ==
    \A m \in acked : \/ InFlight(m[1], m[2]) > 0 \/ Has(m[1], m[2])
                     \/ m \in dropped \cup excused

\* No stored text is sealed to the key of somebody outside the message: it is
\* the text that was sent, or sealed to a recipient of the same message.
SealedToRecipient ==
    \A p \in Account : \A i \in DOMAIN mbox[p] :
        mbox[p][i].text \in {Kind[mbox[p][i].txn]} \cup Homes(mbox[p][i].txn)

\* Layer 1: a message whose recipient had a key to encrypt to when its copy was
\* made never has a plain text part in the store, whatever keys the other
\* recipients had and whatever happens to keys before the copy is stored.
KeyedNeverPlain ==
    \A p \in Account : \A i \in DOMAIN mbox[p] :
        mbox[p][i].hadKey => mbox[p][i].text # "plain"

\* The sender's Autocrypt key is stored where the accounts that answer will
\* look for it: in the domain of a recipient's account, not of the alias.
PeerKeyInHomeDomain ==
    \A t \in Txn : peerKeys[t] \subseteq {DomainOf[p] : p \in Homes(t)}

\* What a message leaves behind is its recipients' alone: copies and keys.
ForRecipientsOnly == NoMisdelivery /\ PeerKeyInHomeDomain

\* What storage encryption still gives to messages with several recipients.
StoredSealed == SealedToRecipient /\ KeyedNeverPlain

\* Acknowledged mail reaches the mailbox, with the same exceptions, as long as
\* some client keeps asking.
EventuallyStored ==
    \A t \in Txn, p \in Account :
        (<<t, p>> \in acked)
            ~> (Has(t, p) \/ <<t, p>> \in dropped \cup excused)

\* "plaintext -> [Layer 1] encrypt with recipient pubkey -> store"
\* (ARC.md:235): a text part in a mailbox is as it was sent, or sealed to the
\* key of the mailbox's own account.
SealedToOwner ==
    \A p \in Account : \A i \in DOMAIN mbox[p] :
        mbox[p][i].text \in {Kind[mbox[p][i].txn], p}

\* The documents' promises, as far as the code keeps them: a message of one
\* recipient is stored as it was sent or sealed to the owner of the mailbox, and
\* carries $e2e only if its sender encrypted it ("Already E2E encrypted by
\* sender - mark as such", main.go:607). Other messages, with more recipients,
\* may be on their way at the same time.
Several(t) == Len(txn[t].to) > 1
SealedAsDocumented ==
    \A p \in Account : \A i \in DOMAIN mbox[p] :
        LET m == mbox[p][i] IN
        ~Several(m.txn) => /\ m.text \in {Kind[m.txn], p}
                           /\ m.e2e => Kind[m.txn] = "e2e"

\* The path is a mail transfer (module MailTransfer): with any number of draining
\* requests, aliases that move and messages replaced in the store, each copy
\* is taken over once, put once, and none comes back that was lost or removed.
Whereabouts(t, p) ==
    CASE InFlight(t, p) > 1 -> "twice"
      [] InFlight(t, p) = 1 -> "carried"
      [] InFlight(t, p) = 0 /\ Has(t, p) -> "stored"
      [] OTHER -> IF p \in txn[t].delivered THEN "gone" ELSE "new"

Transfer == INSTANCE MailTransfer WITH
    where <- [c \in Txn \X Account |-> Whereabouts(c[1], c[2])]

CopiesAreTransferred == Transfer!Spec
=============================================================================
