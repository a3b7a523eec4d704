---------------------------- MODULE InboundProofs ----------------------------
(***************************************************************************)
(* Theorems about module Inbound, for any accounts, aliases, transactions   *)
(* and draining requests, any buffer and any number of recipients: mail     *)
(* goes where its recipients lead, accepted mail is accounted for, storage   *)
(* encryption is not undone, and the path refines module MailTransfer.      *)
(***************************************************************************)
EXTENDS Inbound, FiniteSetTheorems, TLAPS

-----------------------------------------------------------------------------
(* The inductive invariant.                                                *)

\* Where an address leads while it leads anywhere.
Home(a) == IF a \in DOMAIN ConfigRoute THEN ConfigRoute[a] ELSE a

\* The maps: an address leads home or nowhere, and home is registered.
RoutesHome == \A a \in Addr : aliases[a] # None => aliases[a] = Home(a) /\ aliases[a] \in stores

\* What a message leaves on its way belongs to the homes of its recipients.
HomeInv ==
    /\ \A t \in Txn : /\ txn[t].delivered \subseteq Homes(t) \cup {None}
                      /\ text[t] \in {Kind[t]} \cup Homes(t)
    /\ ForRecipientsOnly /\ SealedToRecipient

\* The text is read again when a copy is stored: a copy made for an account with
\* a key never finds it plain, because sealing is never undone.
NotPlain(c) == c.hadKey => text[c.txn] # "plain"
SealInv ==
    /\ \A t \in Txn : made[t] # NoCopy => NotPlain(made[t])
    /\ \A i \in DOMAIN buf : NotPlain(buf[i])
    /\ \A h \in Handler : hand[h] # NoCopy => NotPlain(hand[h])
    /\ KeyedNeverPlain

\* The slots that hold a copy of t's message for p.
InMade(t, p) == {u \in Txn : made[u].txn = t /\ made[u].acct = p}
InBuf(t, p)  == {i \in DOMAIN buf : buf[i].txn = t /\ buf[i].acct = p}
InHand(t, p) == {h \in Handler : hand[h].txn = t /\ hand[h].acct = p}
Carried(t, p) == InMade(t, p) # {} \/ InBuf(t, p) # {} \/ InHand(t, p) # {}

\* A session holds a copy of its own message, of an account it has delivered to,
\* between making it and buffering it.
MadeInv ==
    \A t \in Txn : IF txn[t].pc = "buffer"
                   THEN /\ made[t] \in Copies /\ made[t].txn = t
                        /\ made[t].acct \in txn[t].delivered
                   ELSE made[t] = NoCopy

\* A copy exists once, and only of a message the session has delivered.
Once(t, p) ==
    /\ \A i, j \in InBuf(t, p) : i = j
    /\ \A g, h \in InHand(t, p) : g = h
    /\ InMade(t, p) # {} => InBuf(t, p) = {} /\ InHand(t, p) = {}
    /\ InBuf(t, p) = {} \/ InHand(t, p) = {}
    /\ Carried(t, p) => ~Has(t, p)
    /\ Carried(t, p) \/ Has(t, p) => p \in txn[t].delivered

OnceInv ==
    /\ \A t \in Txn, p \in Account : Once(t, p)
    /\ \A p \in Account : \A i \in DOMAIN mbox[p] : MsgId[mbox[p][i].txn] = i

\* What the session has delivered is somewhere, or its loss is accounted for.
Accounted(t, p) ==
    p \in txn[t].delivered =>
        Carried(t, p) \/ Has(t, p) \/ <<t, p>> \in dropped \cup excused

AccountedInv ==
    /\ \A t \in Txn, p \in Account : Accounted(t, p)
    /\ \A m \in acked : m[1] \in Txn /\ m[2] \in Account /\ m[2] \in txn[m[1]].delivered

IInv == TypeOK /\ RoutesHome /\ HomeInv /\ SealInv /\ MadeInv /\ OnceInv /\ AccountedInv

-----------------------------------------------------------------------------
(* Every step keeps the types.                                             *)

LEMMA NoCopyApart == \A c \in Copies : c.txn \in Txn /\ c.acct \in Account \cup {None}
BY DEF Copies

LEMMA EmptyBox == <<>> \in UNION {[I -> Messages] : I \in SUBSET Ids}
<1>1. <<>> \in [{} -> Messages]
  OBVIOUS
<1>2. QED
  BY <1>1

LEMMA InitType == Init => TypeOK
<1> SUFFICES ASSUME Init PROVE TypeOK
  OBVIOUS
<1> USE BoundsAssumption, RouteAssumption, MessageAssumption
<1>1. txn \in [Txn -> Txns] /\ \A t \in Txn : Len(txn[t].to) = 0 /\ txn[t].i = 1 /\ txn[t].pc = "rcpt"
  BY DEF Init, NewTxn, Txns
<1>2. text \in [Txn -> Texts]
  BY DEF Init, Texts
<1>3. aliases \in [Addr -> Account \cup {None}] /\ stores \subseteq Account
  BY DEF Init
<1>4. buf \in Seq(Copies) /\ Len(buf) = 0 /\ hand \in [Handler -> Copies \cup {NoCopy}]
  BY DEF Init
<1>0. made \in [Txn -> Copies \cup {NoCopy}] /\ key \in [Account -> {"none", "torn", "fit", "unfit"}]
  BY DEF Init
<1>5. mbox \in [Account -> UNION {[I -> Messages] : I \in SUBSET Ids}]
  BY EmptyBox DEF Init
<1>6. \A t \in Txn : /\ Len(txn[t].to) <= MaxRcpt /\ txn[t].i \in 1..(Len(txn[t].to) + 1)
                     /\ txn[t].pc = "buffer" => txn[t].i <= Len(txn[t].to)
  BY <1>1
<1>7. peerKeys \in [Txn -> SUBSET {DomainOf[a] : a \in Addr}] /\ acked \cup dropped \cup excused = {}
  BY DEF Init
<1>8. Len(buf) <= BufCap
  BY <1>4
<1>9. QED
  BY <1>0, <1>1, <1>2, <1>3, <1>4, <1>5, <1>6, <1>7, <1>8 DEF TypeOK

\* The steps of a session, field by field.
LEMMA RcptStep ==
    ASSUME TypeOK, NEW t \in Txn, NEW a \in Addr, Rcpt(t, a)
    PROVE  /\ txn' \in [Txn -> Txns]
           /\ \A u \in Txn : u # t => txn'[u] = txn[u]
           /\ txn'[t].to = Append(txn[t].to, a)
           /\ txn'[t].pc = txn[t].pc /\ txn'[t].i = txn[t].i /\ txn'[t].delivered = txn[t].delivered
<1>1. txn \in [Txn -> Txns] /\ txn' = [txn EXCEPT ![t] = [txn[t] EXCEPT !.to = Append(txn[t].to, a)]]
  BY DEF TypeOK, Rcpt
<1>2. [txn[t] EXCEPT !.to = Append(txn[t].to, a)] \in Txns
  <2>1. txn[t] \in Txns /\ Append(txn[t].to, a) \in Seq(Addr)
    BY <1>1 DEF Txns
  <2>2. QED
    BY <2>1 DEF Txns
<1>3. QED
  BY <1>1, <1>2 DEF Txns

LEMMA MoveStep ==
    ASSUME TypeOK, NEW t \in Txn, NEW pc \in {"key", "deliver", "done", "failed"},
           txn' = [txn EXCEPT ![t].pc = pc]
    PROVE  /\ txn' \in [Txn -> Txns] /\ txn'[t].pc = pc
           /\ \A u \in Txn : /\ u # t => txn'[u] = txn[u]
                             /\ txn'[u].to = txn[u].to /\ txn'[u].i = txn[u].i
                             /\ txn'[u].delivered = txn[u].delivered
<1> DEFINE r == [txn[t] EXCEPT !.pc = pc]
<1>1. txn \in [Txn -> Txns] /\ txn' = [txn EXCEPT ![t] = r]
  BY DEF TypeOK
<1>2. /\ r \in Txns /\ r.pc = pc /\ r.to = txn[t].to /\ r.i = txn[t].i
      /\ r.delivered = txn[t].delivered
  BY <1>1 DEF Txns
<1> HIDE DEF r
<1>3. QED
  BY <1>1, <1>2

LEMMA PrepareStep ==
    ASSUME TypeOK, NEW t \in Txn, Prepare(t)
    PROVE  /\ Recipient(t) \in Account \cup {None}
           /\ txn[t].i \in DOMAIN txn[t].to /\ txn[t].i <= Len(txn[t].to)
           /\ txn' \in [Txn -> Txns]
           /\ \A u \in Txn : u # t => txn'[u] = txn[u]
           /\ txn'[t].to = txn[t].to
           /\ txn'[t].delivered = txn[t].delivered \cup {Recipient(t)}
           /\ IF AlreadyDelivered(t, Recipient(t))
              THEN txn'[t].pc = "deliver" /\ txn'[t].i = txn[t].i + 1
              ELSE txn'[t].pc = "buffer" /\ txn'[t].i = txn[t].i
<1> DEFINE p == Recipient(t)
           D == txn[t].delivered \cup {p}
<1>1. /\ txn[t] \in Txns /\ txn[t].i \in DOMAIN txn[t].to /\ txn[t].i <= Len(txn[t].to)
      /\ txn \in [Txn -> Txns] /\ txn[t].pc = "deliver"
  BY DEF TypeOK, Prepare, Txns
<1>2. p \in Account \cup {None}
  BY <1>1 DEF Recipient, TypeOK, Txns
<1>3. D \in SUBSET (Account \cup {None})
  BY <1>1, <1>2 DEF Txns
<1>4. CASE AlreadyDelivered(t, p)
  <2> DEFINE r == [pc |-> "deliver", to |-> txn[t].to, i |-> txn[t].i + 1, delivered |-> D]
  <2>1. txn' = [txn EXCEPT ![t].i = txn[t].i + 1, ![t].delivered = D]
    BY <1>4 DEF Prepare
  <2> HIDE DEF p, D
  <2>2. txn'[t] = [[txn[t] EXCEPT !.i = txn[t].i + 1] EXCEPT !.delivered = D]
    BY <1>1, <2>1
  <2>3. txn'[t] = r /\ r \in Txns
    <3>1. r \in Txns
      BY <1>1, <1>3 DEF Txns
    <3>2. txn'[t] = r
      BY <1>1, <2>2 DEF Txns
    <3>3. QED
      BY <3>1, <3>2
  <2>4. txn' = [txn EXCEPT ![t] = r]
    BY <1>1, <2>1, <2>3
  <2>5. QED
    BY <1>1, <1>2, <1>4, <2>3, <2>4 DEF p, D
<1>5. CASE ~AlreadyDelivered(t, p)
  <2> DEFINE r == [pc |-> "buffer", to |-> txn[t].to, i |-> txn[t].i, delivered |-> D]
  <2>1. txn' = [txn EXCEPT ![t].pc = "buffer", ![t].delivered = D]
    BY <1>5 DEF Prepare
  <2> HIDE DEF p, D
  <2>2. txn'[t] = [[txn[t] EXCEPT !.pc = "buffer"] EXCEPT !.delivered = D]
    BY <1>1, <2>1
  <2>3. txn'[t] = r /\ r \in Txns
    <3>1. r \in Txns
      BY <1>1, <1>3 DEF Txns
    <3>2. txn'[t] = r
      BY <1>1, <2>2 DEF Txns
    <3>3. QED
      BY <3>1, <3>2
  <2>4. txn' = [txn EXCEPT ![t] = r]
    BY <1>1, <2>1, <2>3
  <2>5. QED
    BY <1>1, <1>2, <1>5, <2>3, <2>4 DEF p, D
<1>6. QED
  BY <1>4, <1>5

LEMMA BufferStep ==
    ASSUME TypeOK, NEW t \in Txn, Buffer(t)
    PROVE  /\ txn' \in [Txn -> Txns]
           /\ \A u \in Txn : u # t => txn'[u] = txn[u]
           /\ txn'[t].to = txn[t].to /\ txn'[t].delivered = txn[t].delivered
           /\ txn'[t].pc = "deliver" /\ txn'[t].i = txn[t].i + 1
           /\ txn[t].i <= Len(txn[t].to)
<1> DEFINE r == [pc |-> "deliver", to |-> txn[t].to, i |-> txn[t].i + 1,
                 delivered |-> txn[t].delivered]
<1>1. /\ txn[t] \in Txns /\ txn \in [Txn -> Txns] /\ txn[t].i <= Len(txn[t].to)
  BY DEF TypeOK, Buffer
<1>2. txn' = [txn EXCEPT ![t].pc = "deliver", ![t].i = txn[t].i + 1]
  BY DEF Buffer
<1>3. txn'[t] = [[txn[t] EXCEPT !.pc = "deliver"] EXCEPT !.i = txn[t].i + 1]
  BY <1>1, <1>2
<1>4. txn'[t] = r /\ r \in Txns
  <2>1. r \in Txns
    BY <1>1 DEF Txns
  <2>2. txn'[t] = r
    BY <1>1, <1>3 DEF Txns
  <2>3. QED
    BY <2>1, <2>2
<1>5. txn' = [txn EXCEPT ![t] = r]
  BY <1>1, <1>2, <1>4
<1>6. QED
  BY <1>1, <1>4, <1>5

LEMMA RcptType == ASSUME TypeOK, NEW t \in Txn, NEW a \in Addr, Rcpt(t, a) PROVE TypeOK'
<1>1. /\ txn[t].to \in Seq(Addr) /\ Len(txn[t].to) \in Nat /\ Len(txn[t].to) < MaxRcpt
      /\ txn[t].i \in 1..(Len(txn[t].to) + 1) /\ txn[t].pc = "rcpt"
  BY DEF TypeOK, Txns, Rcpt
<1>2. Len(txn'[t].to) <= MaxRcpt /\ txn'[t].i \in 1..(Len(txn'[t].to) + 1)
  <2>1. Len(txn'[t].to) = Len(txn[t].to) + 1
    BY <1>1, RcptStep
  <2>2. QED
    BY <1>1, <2>1, RcptStep, BoundsAssumption
<1>3. \A u \in Txn : /\ Len(txn'[u].to) <= MaxRcpt /\ txn'[u].i \in 1..(Len(txn'[u].to) + 1)
                     /\ txn'[u].pc = "buffer" => txn'[u].i <= Len(txn'[u].to)
  BY <1>1, <1>2, RcptStep DEF TypeOK
<1>4. QED
  BY <1>3, RcptStep DEF TypeOK, Rcpt, accts, queue, history

\* A session that moves on stays well typed.
LEMMA MoveType ==
    ASSUME TypeOK, NEW t \in Txn, NEW pc \in {"key", "deliver", "done", "failed"},
           txn' = [txn EXCEPT ![t].pc = pc]
    PROVE  /\ txn' \in [Txn -> Txns]
           /\ \A u \in Txn : /\ Len(txn'[u].to) <= MaxRcpt
                             /\ txn'[u].i \in 1..(Len(txn'[u].to) + 1)
                             /\ txn'[u].pc = "buffer" => txn'[u].i <= Len(txn'[u].to)
BY MoveStep DEF TypeOK

LEMMA SmtpType ==
    ASSUME TypeOK, NEW t \in Txn, Abandon(t) \/ Data(t) \/ StoreKey(t) \/ Answer(t)
    PROVE  TypeOK'
<1> USE DEF accts, queue, history
<1>1. CASE Abandon(t)
  BY <1>1, MoveType DEF TypeOK, Abandon
<1>2. CASE Data(t)
  BY <1>2, MoveType DEF TypeOK, Data
<1>3. CASE StoreKey(t)
  <2>1. \A i \in FirstResolved(txn[t].to) : aliases[txn[t].to[i]] \in Addr
    BY RouteAssumption DEF TypeOK, Txns, FirstResolved
  <2>2. KeyDomains(txn[t].to) \subseteq {DomainOf[a] : a \in Addr}
    BY <2>1 DEF KeyDomains
  <2>3. peerKeys' \in [Txn -> SUBSET {DomainOf[a] : a \in Addr}]
    BY <1>3, <2>2 DEF TypeOK, StoreKey
  <2>4. QED
    BY <1>3, <2>3, MoveType DEF TypeOK, StoreKey
<1>4. CASE Answer(t)
  <2>1. {t} \X (txn[t].delivered \ {None}) \subseteq (Txn \cup {None}) \X (Account \cup {None})
    BY DEF TypeOK, Txns
  <2>2. QED
    BY <1>4, <2>1, MoveType DEF TypeOK, Answer
<1>5. QED
  BY <1>1, <1>2, <1>3, <1>4

LEMMA PrepareType == ASSUME TypeOK, NEW t \in Txn, Prepare(t) PROVE TypeOK'
<1> DEFINE p == Recipient(t)
<1>1. p \in Account \cup {None}
  BY PrepareStep
<1>2. \A u \in Txn : /\ Len(txn'[u].to) <= MaxRcpt /\ txn'[u].i \in 1..(Len(txn'[u].to) + 1)
                     /\ txn'[u].pc = "buffer" => txn'[u].i <= Len(txn'[u].to)
  <2>1. /\ Len(txn[t].to) \in Nat /\ txn[t].i \in Nat /\ txn[t].i >= 1
        /\ Len(txn[t].to) <= MaxRcpt
    BY DEF TypeOK, Txns
  <2>2. /\ Len(txn'[t].to) <= MaxRcpt /\ txn'[t].i \in 1..(Len(txn'[t].to) + 1)
        /\ txn'[t].pc = "buffer" => txn'[t].i <= Len(txn'[t].to)
    BY <2>1, PrepareStep
  <2>3. QED
    BY <2>2, PrepareStep DEF TypeOK
<1>3. Copy(t, p, MarksE2E(text[t], p), HasKey(p)) \in Copies
  BY <1>1 DEF Copy, Copies, MarksE2E, HasKey
<1>4. text' \in [Txn -> Texts]
  BY <1>1 DEF Prepare, TypeOK, Texts, Sealed, HasKey
<1>5. made' \in [Txn -> Copies \cup {NoCopy}]
  BY <1>3 DEF Prepare, TypeOK
<1>6. QED
  BY <1>2, <1>4, <1>5, PrepareStep DEF TypeOK, Prepare, accts, queue, history

LEMMA BufferType == ASSUME TypeOK, MadeInv, NEW t \in Txn, Buffer(t) PROVE TypeOK'
<1>1. made[t] \in Copies
  BY DEF MadeInv, Buffer
<1>2. \A u \in Txn : /\ Len(txn'[u].to) <= MaxRcpt /\ txn'[u].i \in 1..(Len(txn'[u].to) + 1)
                     /\ txn'[u].pc = "buffer" => txn'[u].i <= Len(txn'[u].to)
  <2>1. Len(txn[t].to) \in Nat /\ txn[t].i \in Nat /\ txn[t].i >= 1 /\ Len(txn[t].to) <= MaxRcpt
    BY DEF TypeOK, Txns
  <2>2. /\ Len(txn'[t].to) <= MaxRcpt /\ txn'[t].i \in 1..(Len(txn'[t].to) + 1)
        /\ txn'[t].pc = "buffer" => txn'[t].i <= Len(txn'[t].to)
    BY <2>1, BufferStep
  <2>3. QED
    BY <2>2, BufferStep DEF TypeOK
<1>3. buf' \in Seq(Copies) /\ Len(buf') <= BufCap
  <2>1. buf \in Seq(Copies) /\ Len(buf) \in Nat /\ Len(buf) <= BufCap
    BY DEF TypeOK
  <2>2. CASE buf' = buf
    BY <2>1, <2>2
  <2>3. CASE Room /\ buf' = Append(buf, made[t])
    BY <1>1, <2>1, <2>3, BoundsAssumption DEF Room
  <2>4. QED
    BY <2>2, <2>3 DEF Buffer
<1>4. dropped' \subseteq (Txn \cup {None}) \X (Account \cup {None})
  BY <1>1 DEF Buffer, TypeOK, Copies
<1>5. made' \in [Txn -> Copies \cup {NoCopy}]
  BY DEF Buffer, TypeOK
<1>6. QED
  BY <1>2, <1>3, <1>4, <1>5, BufferStep DEF TypeOK, Buffer, accts

\* A stored message is one of the known transactions.
LEMMA StoredTxn ==
    ASSUME TypeOK, NEW p \in Account, NEW i \in DOMAIN mbox[p]
    PROVE  mbox[p][i] \in Messages /\ mbox[p][i].txn \in Txn
<1>1. PICK I \in SUBSET Ids : mbox[p] \in [I -> Messages]
  BY DEF TypeOK
<1>2. QED
  BY <1>1 DEF Messages

LEMMA GoneType ==
    ASSUME TypeOK, NEW p \in Account, NEW I
    PROVE  Gone(p, I) \subseteq (Txn \cup {None}) \X (Account \cup {None})
BY StoredTxn DEF Gone

LEMMA DrainType == ASSUME TypeOK, NEW h \in Handler, Drain(h) PROVE TypeOK'
<1> USE DEF session, accts, history
<1>1. CASE DrainTake(h)
  <2>1. Head(buf) \in Copies /\ Tail(buf) \in Seq(Copies) /\ Len(Tail(buf)) <= Len(buf)
    BY <1>1 DEF TypeOK, DrainTake, Ready
  <2>2. QED
    BY <1>1, <2>1, BoundsAssumption DEF TypeOK, DrainTake
<1>2. CASE DrainPut(h)
  <2> DEFINE c == hand[h]
             Boxes == UNION {[I -> Messages] : I \in SUBSET Ids}
  <2>1. c \in Copies
    BY <1>2 DEF TypeOK, DrainPut
  <2>2. Stored(c) \in Messages
    BY <2>1 DEF TypeOK, Stored, Copies, Messages
  <2>3. ASSUME NEW box \in Boxes PROVE Put(box, c) \in Boxes
    <3>1. PICK I \in SUBSET Ids : box \in [I -> Messages]
      OBVIOUS
    <3>2. I \cup {MsgId[c.txn]} \in SUBSET Ids
      BY <2>1 DEF Ids, Copies
    <3>3. Put(box, c) \in [I \cup {MsgId[c.txn]} -> Messages]
      BY <2>2, <3>1 DEF Put
    <3>4. QED
      BY <3>2, <3>3
  <2>4. mbox' \in [Account -> Boxes]
    <3>1. mbox \in [Account -> Boxes]
      BY DEF TypeOK
    <3>2. mbox' = mbox \/ (c.acct \in stores /\ mbox' = [mbox EXCEPT ![c.acct] = Put(mbox[c.acct], c)])
      BY <1>2 DEF DrainPut
    <3>3. c.acct \in stores => c.acct \in Account
      BY DEF TypeOK
    <3> HIDE DEF Boxes, c
    <3>4. QED
      BY <2>3, <3>1, <3>2, <3>3
  <2>5. hand' \in [Handler -> Copies \cup {NoCopy}]
    BY <1>2 DEF TypeOK, DrainPut
  <2>6. excused' \subseteq (Txn \cup {None}) \X (Account \cup {None})
    <3>1. CASE c.acct \in stores /\ excused' = excused \cup Gone(c.acct, {MsgId[c.txn]})
      <4>1. c.acct \in Account
        BY <3>1 DEF TypeOK
      <4>2. QED
        BY <3>1, <4>1, GoneType DEF TypeOK
    <3>2. CASE excused' = excused \cup {<<c.txn, c.acct>>}
      BY <2>1, <3>2 DEF TypeOK, Copies
    <3>3. QED
      BY <1>2, <3>1, <3>2 DEF DrainPut
  <2>7. QED
    BY <1>2, <2>4, <2>5, <2>6 DEF TypeOK, DrainPut
<1>3. QED
  BY <1>1, <1>2 DEF Drain

LEMMA AccountsType ==
    ASSUME TypeOK, NEW p \in Account,
           RegisterAccount(p) \/ UnregisterAccount(p) \/ UploadStart(p) \/ UploadEnd(p) \/ Expire(p)
    PROVE  TypeOK'
<1> USE DEF session, queue, history
<1>1. CASE RegisterAccount(p)
  BY <1>1, RouteAssumption DEF TypeOK, RegisterAccount
<1>2. CASE UnregisterAccount(p)
  <2>1. mbox' \in [Account -> UNION {[I -> Messages] : I \in SUBSET Ids}]
    BY <1>2, EmptyBox DEF TypeOK, UnregisterAccount
  <2>2. QED
    BY <1>2, <2>1, GoneType DEF TypeOK, UnregisterAccount
<1>3. CASE UploadStart(p)
  BY <1>3 DEF TypeOK, UploadStart
<1>4. CASE UploadEnd(p)
  BY <1>4 DEF TypeOK, UploadEnd
<1>5. CASE Expire(p)
  BY <1>5 DEF TypeOK, Expire
<1>6. QED
  BY <1>1, <1>2, <1>3, <1>4, <1>5

LEMMA CrashType == ASSUME TypeOK, Crash PROVE TypeOK'
<1>1. txn' \in [Txn -> Txns] /\ \A u \in Txn : /\ txn'[u].to = txn[u].to /\ txn'[u].i = txn[u].i
                                              /\ txn'[u].pc # "buffer"
  BY ZenonT(40) DEF Crash, TypeOK, Txns
<1>2. /\ buf' \in Seq(Copies) /\ Len(buf') <= BufCap /\ hand' \in [Handler -> Copies \cup {NoCopy}]
      /\ made' \in [Txn -> Copies \cup {NoCopy}]
  BY BoundsAssumption DEF Crash, TypeOK
<1>3. \A c \in {buf[i] : i \in DOMAIN buf} \cup {hand[h] : h \in Handler} \cup {made[t] : t \in Txn} :
        c.txn \in Txn \cup {None} /\ c.acct \in Account \cup {None}
  BY NoCopyApart DEF TypeOK, NoCopy
<1>4. excused' \subseteq (Txn \cup {None}) \X (Account \cup {None})
  BY <1>3 DEF Crash, TypeOK
<1>5. QED
  BY <1>1, <1>2, <1>4 DEF Crash, TypeOK, accts

LEMMA NextType == TypeOK /\ MadeInv /\ [Next]_vars => TypeOK'
<1> SUFFICES ASSUME TypeOK, MadeInv, [Next]_vars PROVE TypeOK'
  OBVIOUS
<1>1. CASE UNCHANGED vars
  BY <1>1 DEF vars, TypeOK
<1>2. CASE Smtp
  BY <1>2, RcptType, SmtpType, PrepareType, BufferType DEF Smtp
<1>3. CASE \E h \in Handler : Drain(h)
  BY <1>3, DrainType
<1>4. CASE Accounts
  BY <1>4, AccountsType DEF Accounts
<1>5. CASE Crash
  BY <1>5, CrashType
<1>6. CASE Rest
  BY <1>1, <1>6 DEF Rest
<1>7. QED
  BY <1>1, <1>2, <1>3, <1>4, <1>5, <1>6 DEF Next

\* A step of a session leaves the other sessions alone.
LEMMA MadeNext == ASSUME TypeOK, MadeInv, [Next]_vars PROVE MadeInv'
<1>1. CASE Smtp
  <2>1. PICK u \in Txn : \/ \E a \in Addr : Rcpt(u, a)
                        \/ Abandon(u) \/ Data(u) \/ StoreKey(u) \/ Prepare(u) \/ Buffer(u)
                        \/ Answer(u)
    BY <1>1 DEF Smtp
  <2>2. CASE \E a \in Addr : Rcpt(u, a)
    <3>1. \A t \in Txn : txn'[t].pc = txn[t].pc /\ txn'[t].delivered = txn[t].delivered
      BY <2>2, RcptStep
    <3>2. QED
      BY <2>2, <3>1 DEF Rcpt, MadeInv
  <2>3. CASE Abandon(u) \/ Data(u) \/ StoreKey(u) \/ Answer(u)
    <3>1. PICK pc \in {"key", "deliver", "done", "failed"} : txn' = [txn EXCEPT ![u].pc = pc]
      BY <2>3 DEF Abandon, Data, StoreKey, Answer
    <3>2. /\ made' = made /\ txn[u].pc # "buffer" /\ txn'[u].pc # "buffer"
          /\ \A t \in Txn : t # u => txn'[t] = txn[t]
      BY <2>3, <3>1, MoveStep DEF Abandon, Data, StoreKey, Answer
    <3>3. QED
      BY <3>2 DEF MadeInv
  <2>4. CASE Prepare(u)
    <3> DEFINE p == Recipient(u)
               c == Copy(u, p, MarksE2E(text[u], p), HasKey(p))
    <3>1. c \in Copies /\ c.txn = u /\ c.acct = p /\ p \in txn'[u].delivered
      BY <2>4, PrepareStep DEF Copy, Copies, MarksE2E, HasKey
    <3>2. CASE AlreadyDelivered(u, p)
      <4>1. made' = made /\ txn[u].pc = "deliver" /\ txn'[u].pc = "deliver"
        BY <2>4, <3>2, PrepareStep DEF Prepare
      <4>2. \A t \in Txn : t # u => txn'[t] = txn[t]
        BY <2>4, PrepareStep
      <4>3. QED
        BY <4>1, <4>2 DEF MadeInv
    <3>3. CASE ~AlreadyDelivered(u, p)
      <4>1. made' = [made EXCEPT ![u] = c] /\ made \in [Txn -> Copies \cup {NoCopy}]
        BY <2>4, <3>3 DEF Prepare, TypeOK
      <4> HIDE DEF c
      <4>2. QED
        BY <2>4, <3>1, <3>3, <4>1, PrepareStep DEF MadeInv
    <3>4. QED
      BY <3>2, <3>3
  <2>5. CASE Buffer(u)
    BY <2>5, BufferStep DEF Buffer, MadeInv, TypeOK
  <2>6. QED
    BY <2>1, <2>2, <2>3, <2>4, <2>5
<1>2. CASE Crash
  <2>1. \A t \in Txn : txn'[t].pc # "buffer" /\ made'[t] = NoCopy
    BY <1>2 DEF Crash, TypeOK, Txns
  <2>2. QED
    BY <2>1 DEF MadeInv
<1>3. CASE UNCHANGED <<txn, made>>
  BY <1>3 DEF MadeInv
<1>4. QED
  BY <1>1, <1>2, <1>3 DEF Next, Drain, DrainTake, DrainPut, Accounts, RegisterAccount,
     UnregisterAccount, UploadStart, UploadEnd, Expire, Rest, vars, session

LEMMA InitMade == Init => MadeInv
BY DEF Init, MadeInv, NewTxn

\* The types hold in every state of every run: the channel stays within its
\* capacity, and the loop of a session within its recipients.
THEOREM TypeCorrect == Spec => []TypeOK
<1>1. QED
  BY InitType, InitMade, NextType, MadeNext, PTL DEF Spec

-----------------------------------------------------------------------------
(* Addresses lead home, and what a message leaves stays with its homes.    *)

LEMMA RoutesNext == ASSUME TypeOK, RoutesHome, [Next]_vars PROVE RoutesHome'
<1>1. CASE UNCHANGED accts
  BY <1>1 DEF accts, RoutesHome
<1>2. ASSUME NEW p \in Account, RegisterAccount(p) PROVE RoutesHome'
  <2>1. Home(p) = p
    BY RouteAssumption DEF Home
  <2>2. QED
    BY <1>2, <2>1 DEF RegisterAccount, RoutesHome, TypeOK
<1>3. ASSUME NEW p \in Account, UnregisterAccount(p) PROVE RoutesHome'
  BY <1>3, RouteAssumption DEF UnregisterAccount, RoutesHome, TypeOK
<1>4. ASSUME NEW p \in Account, UploadStart(p) \/ UploadEnd(p) \/ Expire(p) PROVE RoutesHome'
  BY <1>4 DEF UploadStart, UploadEnd, Expire, RoutesHome
<1>5. QED
  BY <1>1, <1>2, <1>3, <1>4 DEF Next, Smtp, Rcpt, Abandon, Data, StoreKey, Prepare, Buffer, Answer,
     Drain, DrainTake, DrainPut, Accounts, Crash, Rest, vars, accts

\* An address that leads anywhere leads to a home of the message.
LEMMA RecipientHome ==
    ASSUME TypeOK, RoutesHome, NEW t \in Txn, NEW i \in DOMAIN txn[t].to,
           aliases[txn[t].to[i]] # None
    PROVE  /\ aliases[txn[t].to[i]] \in Homes(t)
           /\ aliases[txn[t].to[i]] \in stores
<1>1. txn[t].to[i] \in Addr
  BY DEF TypeOK, Txns
<1>2. QED
  BY <1>1 DEF RoutesHome, TypeOK, Home, Homes

\* The recipients of a session only grow, and with them the homes.
LEMMA HomesGrow ==
    ASSUME TypeOK, [Next]_vars, NEW t \in Txn
    PROVE  Homes(t) \subseteq Homes(t)'
<1>1. CASE txn'[t].to = txn[t].to
  BY <1>1 DEF Homes
<1>2. ASSUME NEW a \in Addr, Rcpt(t, a) PROVE Homes(t) \subseteq Homes(t)'
  <2>1. txn[t].to \in Seq(Addr) /\ txn'[t].to = Append(txn[t].to, a)
    BY <1>2, RcptStep DEF TypeOK, Txns
  <2>2. \A i \in DOMAIN txn[t].to : i \in DOMAIN txn'[t].to /\ txn'[t].to[i] = txn[t].to[i]
    BY <2>1
  <2>3. QED
    BY <2>2 DEF Homes
<1>3. CASE Smtp
  <2>1. PICK u \in Txn : \/ \E a \in Addr : Rcpt(u, a)
                        \/ Abandon(u) \/ Data(u) \/ StoreKey(u) \/ Prepare(u) \/ Buffer(u)
                        \/ Answer(u)
    BY <1>3 DEF Smtp
  <2>2. CASE \E a \in Addr : Rcpt(u, a)
    BY <1>1, <1>2, <2>2, RcptStep
  <2>3. CASE Abandon(u) \/ Data(u) \/ StoreKey(u) \/ Answer(u)
    BY <1>1, <2>3, MoveStep DEF Abandon, Data, StoreKey, Answer
  <2>4. CASE Prepare(u) \/ Buffer(u)
    BY <1>1, <2>4, PrepareStep, BufferStep
  <2>5. QED
    BY <2>1, <2>2, <2>3, <2>4
<1>4. CASE Crash
  BY <1>1, <1>4 DEF Crash, TypeOK, Txns
<1>5. QED
  BY <1>1, <1>3, <1>4 DEF Next, Drain, DrainTake, DrainPut, Accounts, RegisterAccount,
     UnregisterAccount, UploadStart, UploadEnd, Expire, Rest, vars, session

\* Who writes what.
LEMMA Writers ==
    ASSUME TypeOK, [Next]_vars
    PROVE  /\ UNCHANGED text \/ \E t \in Txn : Prepare(t)
           /\ UNCHANGED made \/ (\E t \in Txn : Prepare(t) \/ Buffer(t)) \/ Crash
           /\ UNCHANGED peerKeys \/ \E t \in Txn : StoreKey(t)
           /\ \/ UNCHANGED mbox \/ \E h \in Handler : DrainPut(h)
              \/ \E p \in Account : UnregisterAccount(p)
           /\ \/ UNCHANGED buf \/ \E t \in Txn : Buffer(t)
              \/ (\E h \in Handler : DrainTake(h)) \/ Crash
           /\ UNCHANGED hand \/ (\E h \in Handler : Drain(h)) \/ Crash
           /\ \A t \in Txn : txn'[t].delivered = txn[t].delivered \/ Prepare(t)
           /\ UNCHANGED dropped \/ \E t \in Txn : Buffer(t)
           /\ excused \subseteq excused' 
<1>1. CASE Smtp
  <2>1. PICK u \in Txn : \/ \E a \in Addr : Rcpt(u, a)
                        \/ Abandon(u) \/ Data(u) \/ StoreKey(u) \/ Prepare(u) \/ Buffer(u)
                        \/ Answer(u)
    BY <1>1 DEF Smtp
  <2>2. CASE \E a \in Addr : Rcpt(u, a)
    BY <2>2, RcptStep DEF Rcpt, queue, history
  <2>3. CASE Abandon(u) \/ Data(u) \/ StoreKey(u) \/ Answer(u)
    BY <2>3, MoveStep DEF Abandon, Data, StoreKey, Answer, queue, history
  <2>4. CASE Prepare(u)
    <3>1. UNCHANGED <<peerKeys, mbox, buf, hand, dropped, excused>>
      BY <2>4 DEF Prepare, queue, history
    <3>2. QED
      BY <2>4, <3>1, PrepareStep
  <2>5. CASE Buffer(u)
    <3>1. UNCHANGED <<text, peerKeys, mbox, hand, excused>>
      BY <2>5 DEF Buffer
    <3>2. QED
      BY <2>5, <3>1, BufferStep
  <2>6. QED
    BY <2>1, <2>2, <2>3, <2>4, <2>5
<1>2. CASE Crash
  BY <1>2 DEF Crash, TypeOK, Txns
<1>3. QED
  BY <1>1, <1>2 DEF Next, Drain, DrainTake, DrainPut, Accounts, RegisterAccount,
     UnregisterAccount, UploadStart, UploadEnd, Expire, Rest, vars, session, queue, history

\* A message in a mailbox was there, or a drain has just put it there.
LEMMA MboxStep ==
    ASSUME TypeOK, [Next]_vars, NEW p \in Account, NEW i \in DOMAIN mbox'[p]
    PROVE  \/ i \in DOMAIN mbox[p] /\ mbox'[p][i] = mbox[p][i]
           \/ \E h \in Handler :
                /\ DrainPut(h) /\ hand[h] \in Copies /\ hand[h].acct = p /\ p \in stores
                /\ i = MsgId[hand[h].txn] /\ mbox'[p][i] = Stored(hand[h])
<1>1. CASE UNCHANGED mbox
  BY <1>1
<1>2. ASSUME NEW h \in Handler, DrainPut(h)
      PROVE  \/ i \in DOMAIN mbox[p] /\ mbox'[p][i] = mbox[p][i]
             \/ /\ hand[h] \in Copies /\ hand[h].acct = p /\ p \in stores
                /\ i = MsgId[hand[h].txn] /\ mbox'[p][i] = Stored(hand[h])
  <2>1. hand[h] \in Copies
    BY <1>2 DEF TypeOK, DrainPut
  <2>2. CASE ~(hand[h].acct \in stores /\ hand[h].acct = p)
    <3>1. mbox'[p] = mbox[p]
      BY <1>2, <2>2 DEF TypeOK, DrainPut
    <3>2. QED
      BY <3>1
  <2>3. CASE hand[h].acct \in stores /\ hand[h].acct = p
    <3>1. mbox'[p] = Put(mbox[p], hand[h]) \/ mbox'[p] = mbox[p]
      BY <1>2, <2>3 DEF TypeOK, DrainPut
    <3>2. QED
      BY <2>1, <2>3, <3>1 DEF Put
  <2>4. QED
    BY <2>2, <2>3
<1>3. ASSUME NEW q \in Account, UnregisterAccount(q)
      PROVE  i \in DOMAIN mbox[p] /\ mbox'[p][i] = mbox[p][i]
  <2>1. CASE p = q
    <3>1. mbox'[p] = <<>>
      BY <1>3, <2>1 DEF TypeOK, UnregisterAccount
    <3>2. QED
      BY <3>1
  <2>2. CASE p # q
    BY <1>3, <2>2 DEF TypeOK, UnregisterAccount
  <2>3. QED
    BY <2>1, <2>2
<1>4. QED
  BY <1>1, <1>2, <1>3, Writers

\* Copies in the hands of a drain belong to what their session has delivered.
LEMMA HandHome ==
    ASSUME TypeOK, HomeInv, OnceInv, NEW h \in Handler, hand[h] \in Copies, hand[h].acct # None
    PROVE  hand[h].acct \in Homes(hand[h].txn)
<1>1. hand[h].txn \in Txn /\ hand[h].acct \in Account
  BY DEF Copies
<1>2. h \in InHand(hand[h].txn, hand[h].acct)
  BY DEF InHand
<1>3. hand[h].acct \in txn[hand[h].txn].delivered
  BY <1>1, <1>2 DEF OnceInv, Once, Carried
<1>4. QED
  BY <1>1, <1>3 DEF HomeInv

LEMMA HomeNext ==
    ASSUME TypeOK, RoutesHome, HomeInv, OnceInv, [Next]_vars PROVE HomeInv'
<1> USE RouteAssumption
<1>1. ASSUME NEW t \in Txn PROVE txn'[t].delivered \subseteq Homes(t)' \cup {None}
  <2>1. txn[t].delivered \subseteq Homes(t)' \cup {None}
    BY HomesGrow DEF HomeInv
  <2>2. CASE Prepare(t)
    <3>1. txn[t].i \in DOMAIN txn[t].to
      BY <2>2, PrepareStep
    <3>2. Recipient(t) \in Homes(t) \cup {None}
      BY <3>1, RecipientHome DEF Recipient
    <3>3. QED
      BY <2>1, <2>2, <3>2, PrepareStep, HomesGrow
  <2>3. QED
    BY <2>1, <2>2, Writers
<1>2. ASSUME NEW t \in Txn PROVE text'[t] \in {Kind[t]} \cup Homes(t)'
  <2>1. text[t] \in {Kind[t]} \cup Homes(t)'
    BY HomesGrow DEF HomeInv
  <2>2. ASSUME NEW u \in Txn, Prepare(u) PROVE text'[t] = text[t] \/ text'[t] \in Homes(t)
    <3>1. txn[u].i \in DOMAIN txn[u].to
      BY <2>2, PrepareStep
    <3>2. Recipient(u) \in Homes(u) \cup {None}
      BY <3>1, RecipientHome DEF Recipient
    <3>3. QED
      BY <2>2, <3>2 DEF Prepare, Sealed, HasKey, TypeOK
  <2>3. QED
    BY <2>1, <2>2, HomesGrow, Writers
<1>3. ASSUME NEW p \in Account, NEW i \in DOMAIN mbox'[p], NEW t, t = mbox'[p][i].txn
      PROVE  p \in Homes(t)' /\ mbox'[p][i].text \in {Kind[t]} \cup Homes(t)'
  <2>1. CASE i \in DOMAIN mbox[p] /\ mbox'[p][i] = mbox[p][i]
    <3>1. t \in Txn
      BY <1>3, <2>1, StoredTxn
    <3>2. Homes(t) \subseteq Homes(t)'
      BY <3>1, HomesGrow
    <3>3. p \in Homes(t) /\ mbox[p][i].text \in {Kind[t]} \cup Homes(t)
      BY <1>3, <2>1 DEF HomeInv, ForRecipientsOnly, NoMisdelivery, SealedToRecipient
    <3>4. QED
      BY <2>1, <3>2, <3>3
  <2>2. ASSUME NEW h \in Handler, DrainPut(h), hand[h] \in Copies, hand[h].acct = p,
               mbox'[p][i] = Stored(hand[h])
        PROVE  p \in Homes(t)' /\ mbox'[p][i].text \in {Kind[t]} \cup Homes(t)'
    <3>1. hand[h].txn = t /\ mbox'[p][i].text = text[t] /\ t \in Txn
      BY <1>3, <2>2 DEF Stored, Copies
    <3>2. p \in Homes(t)
      BY <2>2, <3>1, HandHome, RouteAssumption
    <3>3. text[t] \in {Kind[t]} \cup Homes(t)
      BY <3>1 DEF HomeInv
    <3>4. Homes(t) \subseteq Homes(t)'
      BY <3>1, HomesGrow
    <3>5. QED
      BY <3>1, <3>2, <3>3, <3>4
  <2>3. QED
    BY <2>1, <2>2, MboxStep
<1>4. ASSUME NEW t \in Txn PROVE peerKeys'[t] \subseteq {DomainOf[p] : p \in Homes(t)'}
  <2>1. peerKeys[t] \subseteq {DomainOf[p] : p \in Homes(t)'}
    BY HomesGrow DEF HomeInv, ForRecipientsOnly, PeerKeyInHomeDomain
  <2>2. ASSUME NEW u \in Txn, StoreKey(u)
        PROVE  peerKeys'[t] \subseteq peerKeys[t] \cup {DomainOf[p] : p \in Homes(t)}
    <3>1. KeyDomains(txn[u].to) \subseteq {DomainOf[p] : p \in Homes(u)}
      BY RecipientHome DEF KeyDomains, FirstResolved
    <3>2. QED
      BY <2>2, <3>1 DEF StoreKey, TypeOK
  <2>3. QED
    BY <2>1, <2>2, HomesGrow, Writers
<1>5. QED
  BY <1>1, <1>2, <1>3, <1>4 DEF HomeInv, ForRecipientsOnly, NoMisdelivery,
     PeerKeyInHomeDomain, SealedToRecipient

-----------------------------------------------------------------------------
(* Sealing is never undone.                                                *)

\* A text that is not plain stays what it is, and a delivery to an account with
\* a key leaves none plain.
LEMMA SealKeeps ==
    ASSUME NEW s, NEW p \in Account \cup {None}
    PROVE  /\ s # "plain" => Sealed(s, p) # "plain"
           /\ HasKey(p) => Sealed(s, p) # "plain"
<1>1. p # "plain" \/ ~HasKey(p)
  BY MessageAssumption DEF HasKey
<1>2. QED
  BY <1>1 DEF Sealed, IsPGP

LEMMA PrepareText ==
    ASSUME TypeOK, NEW u \in Txn, Prepare(u), NEW t \in Txn
    PROVE  text'[t] = IF u = t /\ ~AlreadyDelivered(u, Recipient(u))
                      THEN Sealed(text[t], Recipient(u)) ELSE text[t]
BY DEF Prepare, TypeOK

LEMMA SealedStays ==
    ASSUME TypeOK, [Next]_vars, NEW t \in Txn, text[t] # "plain" PROVE text'[t] # "plain"
BY PrepareText, PrepareStep, SealKeeps, Writers

LEMMA SealsForKey ==
    ASSUME TypeOK, NEW t \in Txn, Prepare(t), HasKey(Recipient(t)), ~AlreadyDelivered(t, Recipient(t))
    PROVE  text'[t] # "plain"
BY PrepareText, PrepareStep, SealKeeps

LEMMA BufCopy == ASSUME TypeOK, NEW i \in DOMAIN buf PROVE buf[i] \in Copies
<1>1. buf \in Seq(Copies)
  BY DEF TypeOK
<1>2. QED
  BY <1>1

\* What the two halves of a delivery do to the copy and to the buffer.
LEMMA PrepareMade ==
    ASSUME TypeOK, NEW t \in Txn, Prepare(t)
    PROVE  LET p == Recipient(t)
               c == Copy(t, p, MarksE2E(text[t], p), HasKey(p))
           IN  /\ c \in Copies /\ c.txn = t /\ c.acct = p
               /\ c.hadKey = HasKey(p) /\ c.e2e = MarksE2E(text[t], p)
               /\ \A u \in Txn : made'[u] = IF u = t /\ ~AlreadyDelivered(t, p) THEN c ELSE made[u]
<1>1. ASSUME NEW p \in Account \cup {None}
      PROVE  Copy(t, p, MarksE2E(text[t], p), HasKey(p)) \in Copies
  BY DEF Copy, Copies, MarksE2E, HasKey
<1>2. QED
  BY <1>1, PrepareStep DEF Prepare, TypeOK, Copy

LEMMA BufferBuf ==
    ASSUME TypeOK, MadeInv, NEW t \in Txn, Buffer(t)
    PROVE  /\ made[t] \in Copies /\ made[t].txn = t /\ made[t].acct \in txn[t].delivered
           /\ buf \in Seq(Copies) /\ \A u \in Txn : made'[u] = IF u = t THEN NoCopy ELSE made[u]
           /\ \/ buf' = Append(buf, made[t])
              \/ buf' = buf /\ dropped' = dropped \cup {<<t, made[t].acct>>}
BY DEF Buffer, TypeOK, MadeInv

\* What a taken message does to the buffer.
LEMMA TakeBuf ==
    ASSUME TypeOK, NEW h \in Handler, DrainTake(h)
    PROVE  /\ buf \in Seq(Copies) /\ 1 \in DOMAIN buf /\ buf[1] \in Copies
           /\ hand[h] = NoCopy /\ hand' = [hand EXCEPT ![h] = buf[1]] /\ hand'[h] = buf[1]
           /\ \A i \in DOMAIN buf' : /\ i + 1 \in DOMAIN buf /\ i + 1 # 1 /\ i \in Int
                                     /\ buf'[i] = buf[i + 1]
           /\ \A i \in DOMAIN buf : i # 1 => i - 1 \in DOMAIN buf' /\ buf'[i - 1] = buf[i]
<1>1. buf \in Seq(Copies) /\ buf # <<>> /\ buf' = Tail(buf)
  BY DEF TypeOK, DrainTake, Ready
<1>2. hand[h] = NoCopy /\ hand' = [hand EXCEPT ![h] = Head(buf)] /\ hand'[h] = Head(buf)
  BY DEF TypeOK, DrainTake
<1>3. 1 \in DOMAIN buf /\ buf[1] \in Copies /\ Head(buf) = buf[1]
  BY <1>1
<1>4. \A i \in DOMAIN buf' : /\ i + 1 \in DOMAIN buf /\ i + 1 # 1 /\ i \in Int
                             /\ buf'[i] = buf[i + 1]
  BY <1>1
<1>5. \A i \in DOMAIN buf : i # 1 => i - 1 \in DOMAIN buf' /\ buf'[i - 1] = buf[i]
  BY <1>1
<1>6. QED
  BY <1>1, <1>2, <1>3, <1>4, <1>5

LEMMA NotPlainStays ==
    ASSUME TypeOK, [Next]_vars, NEW c \in Copies, NotPlain(c) PROVE NotPlain(c)'
BY SealedStays DEF NotPlain, Copies

LEMMA SealNext ==
    ASSUME TypeOK, MadeInv, SealInv, [Next]_vars PROVE SealInv'
<1>0. ASSUME NEW t \in Txn, NEW m, m = made'[t], m # NoCopy PROVE NotPlain(m)'
  <2>1. CASE m = made[t]
    BY <1>0, <2>1, NotPlainStays DEF SealInv, TypeOK
  <2>2. ASSUME NEW u \in Txn, Prepare(u), m # made[t] PROVE NotPlain(m)'
    <3> DEFINE p == Recipient(u)
               c == Copy(u, p, MarksE2E(text[u], p), HasKey(p))
    <3>1. u = t /\ ~AlreadyDelivered(u, p) /\ m = c
      BY <1>0, <2>2, PrepareMade
    <3>2. c.txn = t /\ (c.hadKey <=> HasKey(p))
      BY <2>2, <3>1, PrepareMade
    <3> HIDE DEF c
    <3>3. QED
      BY <2>2, <3>1, <3>2, SealsForKey DEF NotPlain
  <2>3. ASSUME NEW u \in Txn, Buffer(u) PROVE m = made[t]
    BY <1>0, <2>3, BufferBuf
  <2>4. CASE Crash
    BY <1>0, <2>4 DEF Crash
  <2>5. QED
    BY <1>0, <2>1, <2>2, <2>3, <2>4, Writers
<1>1. ASSUME NEW i \in DOMAIN buf', NEW m, m = buf'[i] PROVE NotPlain(m)'
  <2>1. ASSUME NEW j \in DOMAIN buf, buf[j] = m PROVE NotPlain(m)'
    BY <2>1, BufCopy, NotPlainStays DEF SealInv
  <2>2. ASSUME NEW t \in Txn, Buffer(t) PROVE NotPlain(m)'
    <3>1. CASE buf' = buf
      BY <1>1, <2>1, <3>1
    <3>2. CASE buf' = Append(buf, made[t])
      <4>1. buf \in Seq(Copies) /\ made[t] \in Copies
        BY <2>2, BufferBuf
      <4>2. (i \in DOMAIN buf /\ buf[i] = m) \/ m = made[t]
        BY <1>1, <3>2, <4>1
      <4>3. NotPlain(made[t])
        BY DEF SealInv, NotPlain, NoCopy
      <4>4. QED
        BY <2>1, <4>1, <4>2, <4>3, NotPlainStays
    <3>3. QED
      BY <2>2, <3>1, <3>2, BufferBuf
  <2>3. ASSUME NEW h \in Handler, DrainTake(h) PROVE NotPlain(m)'
    BY <1>1, <2>1, <2>3, TakeBuf
  <2>4. CASE Crash
    BY <1>1, <2>4 DEF Crash
  <2>5. CASE buf' = buf
    BY <1>1, <2>1, <2>5
  <2>6. QED
    BY <2>2, <2>3, <2>4, <2>5, Writers
<1>2. ASSUME NEW h \in Handler, NEW m, m = hand'[h], m # NoCopy PROVE NotPlain(m)'
  <2>1. CASE m = hand[h]
    BY <1>2, <2>1, NotPlainStays DEF SealInv, TypeOK
  <2>2. ASSUME NEW g \in Handler, DrainTake(g), m # hand[h] PROVE NotPlain(m)'
    <3>1. g = h /\ m = buf[1] /\ 1 \in DOMAIN buf /\ buf[1] \in Copies
      BY <1>2, <2>2, TakeBuf DEF TypeOK
    <3>2. QED
      BY <3>1, NotPlainStays DEF SealInv
  <2>3. ASSUME NEW g \in Handler, DrainPut(g) PROVE m = hand[h]
    BY <1>2, <2>3 DEF DrainPut, TypeOK
  <2>4. CASE Crash
    BY <1>2, <2>4 DEF Crash
  <2>5. QED
    BY <1>2, <2>1, <2>2, <2>3, <2>4, Writers DEF Drain
<1>3. ASSUME NEW p \in Account, NEW i \in DOMAIN mbox'[p], mbox'[p][i].hadKey
      PROVE  mbox'[p][i].text # "plain"
  <2>1. ASSUME NEW h \in Handler, DrainPut(h), mbox'[p][i] = Stored(hand[h])
        PROVE  mbox'[p][i].text # "plain"
    BY <1>3, <2>1 DEF SealInv, NotPlain, Stored, DrainPut
  <2>2. QED
    BY <1>3, <2>1, MboxStep DEF SealInv, KeyedNeverPlain
<1>4. QED
  BY <1>0, <1>1, <1>2, <1>3 DEF SealInv, KeyedNeverPlain

-----------------------------------------------------------------------------
(* Each copy is in one place, and an accepted one is accounted for.        *)

\* What each step does to the slots that hold the copy of t's message for p.
LEMMA AppendSlots ==
    ASSUME NEW b \in Seq(Copies), NEW c \in Copies, NEW t, NEW p
    PROVE  LET In(s) == {i \in DOMAIN s : s[i].txn = t /\ s[i].acct = p} IN
           In(Append(b, c)) = In(b) \cup {i \in {Len(b) + 1} : c.txn = t /\ c.acct = p}
<1> DEFINE d == Append(b, c)
<1>1. DOMAIN d = DOMAIN b \cup {Len(b) + 1} /\ d[Len(b) + 1] = c /\ \A i \in DOMAIN b : d[i] = b[i]
  OBVIOUS
<1> HIDE DEF d
<1>2. {i \in DOMAIN d : d[i].txn = t /\ d[i].acct = p}
      = {i \in DOMAIN b : b[i].txn = t /\ b[i].acct = p}
        \cup {i \in {Len(b) + 1} : c.txn = t /\ c.acct = p}
  BY <1>1
<1>3. QED
  BY <1>2 DEF d

LEMMA PrepareSlots ==
    ASSUME TypeOK, MadeInv, NEW u \in Txn, Prepare(u), NEW t \in Txn, NEW p \in Account
    PROVE  /\ InBuf(t, p)' = InBuf(t, p) /\ InHand(t, p)' = InHand(t, p)
           /\ Has(t, p)' <=> Has(t, p)
           /\ IF t = u /\ p = Recipient(u) /\ p \notin txn[u].delivered
              THEN p \in txn'[t].delivered /\ InMade(t, p)' # {}
              ELSE /\ InMade(t, p)' = InMade(t, p)
                   /\ p \in txn'[t].delivered <=> p \in txn[t].delivered
<1> DEFINE q == Recipient(u)
           c == Copy(u, q, MarksE2E(text[u], q), HasKey(q))
<1>1. InBuf(t, p)' = InBuf(t, p) /\ InHand(t, p)' = InHand(t, p) /\ (Has(t, p)' <=> Has(t, p))
  BY DEF InBuf, InHand, Has, Prepare, queue
<1>2. p \in txn'[t].delivered <=> p \in txn[t].delivered \/ (t = u /\ p = q)
  BY PrepareStep
<1>3. /\ c.txn = u /\ c.acct = q
      /\ \A v \in Txn : made'[v] = IF v = u /\ ~AlreadyDelivered(u, q) THEN c ELSE made[v]
  BY PrepareMade
<1>4. made[u].acct # p
  BY RouteAssumption DEF MadeInv, Prepare, NoCopy
<1> HIDE DEF c
<1>5. CASE AlreadyDelivered(u, q)
  BY <1>1, <1>2, <1>3, <1>5 DEF InMade, AlreadyDelivered
<1>6. CASE ~AlreadyDelivered(u, q)
  <2>1. InMade(t, p)' = InMade(t, p) \cup {v \in {u} : t = u /\ p = q}
    BY <1>3, <1>4, <1>6 DEF InMade
  <2>2. QED
    BY <1>1, <1>2, <1>6, <2>1 DEF AlreadyDelivered
<1>7. QED
  BY <1>5, <1>6

\* A copy leaves the session for the buffer, or is dropped there.
LEMMA BufferSlots ==
    ASSUME TypeOK, MadeInv, NEW u \in Txn, Buffer(u), NEW t \in Txn, NEW p \in Account
    PROVE  /\ InHand(t, p)' = InHand(t, p) /\ (Has(t, p)' <=> Has(t, p))
           /\ txn'[t].delivered = txn[t].delivered
           /\ IF InMade(t, p) # {} /\ t = u
              THEN /\ InMade(t, p)' = {}
                   /\ \/ InBuf(t, p)' = InBuf(t, p) \cup {Len(buf) + 1}
                      \/ InBuf(t, p)' = InBuf(t, p) /\ <<t, p>> \in dropped'
              ELSE InMade(t, p)' = InMade(t, p) /\ InBuf(t, p)' = InBuf(t, p)
<1>1. InHand(t, p)' = InHand(t, p) /\ (Has(t, p)' <=> Has(t, p))
  BY DEF InHand, Has, Buffer
<1>2. txn'[t].delivered = txn[t].delivered
  BY BufferStep
<1>3. \A v \in Txn : made[v].acct = p => made[v].txn = v
  BY RouteAssumption DEF MadeInv, NoCopy
<1>4. InMade(t, p) = {v \in {t} : made[t].acct = p}
  BY <1>3 DEF InMade
<1>5. InMade(t, p)' = {v \in {t} : t # u /\ made[t].acct = p}
  <2>1. \A v \in Txn : made'[v] = IF v = u THEN NoCopy ELSE made[v]
    BY BufferBuf
  <2>2. NoCopy.acct # p
    BY RouteAssumption DEF NoCopy
  <2>3. QED
    BY <1>3, <2>1, <2>2 DEF InMade
<1>6. CASE buf' = buf /\ dropped' = dropped \cup {<<u, made[u].acct>>}
  BY <1>1, <1>2, <1>4, <1>5, <1>6 DEF InBuf
<1>7. CASE buf' = Append(buf, made[u])
  <2>1. made[u] \in Copies /\ buf \in Seq(Copies) /\ made[u].txn = u
    BY BufferBuf
  <2>2. InBuf(t, p)' = InBuf(t, p) \cup {i \in {Len(buf) + 1} : made[u].txn = t /\ made[u].acct = p}
    BY <1>7, <2>1, AppendSlots DEF InBuf
  <2>3. QED
    BY <1>1, <1>2, <1>4, <1>5, <2>1, <2>2
<1>8. QED
  BY <1>6, <1>7, BufferBuf

LEMMA TakeSlots ==
    ASSUME TypeOK, NEW h \in Handler, DrainTake(h), NEW t \in Txn, NEW p \in Account
    PROVE  /\ InMade(t, p)' = InMade(t, p) /\ (Has(t, p)' <=> Has(t, p))
           /\ \A i \in InBuf(t, p)' : i \in Int /\ i + 1 \in InBuf(t, p) /\ i + 1 # 1
           /\ \A i \in InBuf(t, p) : i # 1 => i - 1 \in InBuf(t, p)'
           /\ InHand(t, p)' = InHand(t, p) \cup {g \in {h} : 1 \in InBuf(t, p)}
           /\ h \notin InHand(t, p)
<1>1. \A g \in Handler : hand'[g] = IF g = h THEN buf[1] ELSE hand[g]
  BY TakeBuf DEF TypeOK
<1>2. hand[h].acct # p
  BY TakeBuf, RouteAssumption DEF NoCopy
<1>3. 1 \in InBuf(t, p) <=> buf[1].txn = t /\ buf[1].acct = p
  BY TakeBuf DEF InBuf
<1>4. InHand(t, p)' = InHand(t, p) \cup {g \in {h} : 1 \in InBuf(t, p)}
  BY <1>1, <1>2, <1>3 DEF InHand
<1>5. /\ \A i \in InBuf(t, p)' : i \in Int /\ i + 1 \in InBuf(t, p) /\ i + 1 # 1
      /\ \A i \in InBuf(t, p) : i # 1 => i - 1 \in InBuf(t, p)'
  BY TakeBuf DEF InBuf
<1>6. InMade(t, p)' = InMade(t, p) /\ (Has(t, p)' <=> Has(t, p))
  BY DEF DrainTake, InMade, Has, session
<1>7. QED
  BY <1>2, <1>4, <1>5, <1>6 DEF InHand

\* A drain empties its hand. The mailbox holds what was in it, or this copy is
\* lost; another message of the same id may be replaced.
LEMMA PutSlots ==
    ASSUME TypeOK, NEW h \in Handler, DrainPut(h), NEW t \in Txn, NEW p \in Account
    PROVE  /\ InMade(t, p)' = InMade(t, p) /\ InBuf(t, p)' = InBuf(t, p)
           /\ InHand(t, p)' = InHand(t, p) \ {h}
           /\ h \in InHand(t, p) => Has(t, p)' \/ <<t, p>> \in excused'
           /\ Has(t, p)' => Has(t, p) \/ h \in InHand(t, p)
           /\ Has(t, p) /\ ~Has(t, p)' => <<t, p>> \in excused'
           /\ \/ UNCHANGED mbox
              \/ /\ hand[h].acct \in stores
                 /\ h \in InHand(t, p) => Has(t, p)'
                 /\ Has(t, p) /\ ~Has(t, p)' => p = hand[h].acct
<1> DEFINE c == hand[h]
<1>1. c \in Copies /\ c.txn \in Txn /\ c.acct \in Account \cup {None}
  BY DEF TypeOK, DrainPut, Copies
<1>2. \A g \in Handler : hand'[g] = IF g = h THEN NoCopy ELSE hand[g]
  BY DEF DrainPut, TypeOK
<1>3. InHand(t, p)' = InHand(t, p) \ {h}
  BY <1>2, RouteAssumption DEF InHand, NoCopy
<1>4. InBuf(t, p)' = InBuf(t, p) /\ InMade(t, p)' = InMade(t, p)
  BY DEF DrainPut, InBuf, InMade, session
<1>5. \/ mbox' = mbox /\ excused' = excused \cup {<<c.txn, c.acct>>}
      \/ /\ c.acct \in stores /\ mbox' = [mbox EXCEPT ![c.acct] = Put(mbox[c.acct], c)]
         /\ excused' = excused \cup Gone(c.acct, {MsgId[c.txn]})
  BY DEF DrainPut
<1>6. h \in InHand(t, p) <=> c.txn = t /\ c.acct = p
  BY DEF InHand
<1> HIDE DEF c
<1>7. Stored(c).txn = c.txn
  BY DEF Stored
<1>8. CASE mbox' = mbox /\ excused' = excused \cup {<<c.txn, c.acct>>}
  BY <1>3, <1>4, <1>6, <1>8 DEF Has
<1>9. CASE /\ c.acct \in stores /\ mbox' = [mbox EXCEPT ![c.acct] = Put(mbox[c.acct], c)]
           /\ excused' = excused \cup Gone(c.acct, {MsgId[c.txn]})
  <2>1. CASE c.acct # p
    <3>1. mbox'[p] = mbox[p]
      BY <1>9, <2>1 DEF TypeOK
    <3>2. QED
      BY <1>3, <1>4, <1>6, <1>9, <2>1, <3>1 DEF Has, c
  <2>2. CASE c.acct = p
    <3>1. mbox'[p] = Put(mbox[p], c)
      BY <1>9, <2>2 DEF TypeOK
    <3>2. /\ DOMAIN mbox'[p] = DOMAIN mbox[p] \cup {MsgId[c.txn]}
          /\ mbox'[p][MsgId[c.txn]] = Stored(c)
          /\ \A i \in DOMAIN mbox[p] : i # MsgId[c.txn] => mbox'[p][i] = mbox[p][i]
      BY <3>1 DEF Put
    <3>3. Has(t, p) /\ ~Has(t, p)' => MsgId[t] = MsgId[c.txn] /\ <<t, p>> \in excused'
      <4> SUFFICES ASSUME Has(t, p), ~Has(t, p)'
                   PROVE  MsgId[t] = MsgId[c.txn] /\ <<t, p>> \in excused'
        OBVIOUS
      <4>1. MsgId[t] = MsgId[c.txn]
        BY <3>2 DEF Has
      <4>2. <<t, p>> \in Gone(p, {MsgId[c.txn]})
        BY <4>1 DEF Has, Gone
      <4>3. QED
        BY <1>9, <2>2, <4>1, <4>2
    <3>4. h \in InHand(t, p) => Has(t, p)'
      BY <1>6, <1>7, <3>2 DEF Has
    <3>5. Has(t, p)' => Has(t, p) \/ h \in InHand(t, p)
      BY <1>6, <1>7, <2>2, <3>2 DEF Has
    <3>6. QED
      BY <1>3, <1>4, <1>9, <2>2, <3>3, <3>4, <3>5 DEF c
  <2>3. QED
    BY <2>1, <2>2
<1>10. QED
  BY <1>5, <1>8, <1>9

LEMMA CrashSlots ==
    ASSUME TypeOK, Crash, NEW t \in Txn, NEW p \in Account
    PROVE  /\ ~Carried(t, p)' /\ (Has(t, p)' <=> Has(t, p))
           /\ txn'[t].delivered = txn[t].delivered
           /\ Carried(t, p) => <<t, p>> \in excused'
<1>1. ~Carried(t, p)'
  BY RouteAssumption DEF Crash, Carried, InMade, InBuf, InHand, NoCopy
<1>2. \A c \in {buf[i] : i \in DOMAIN buf} \cup {hand[h] : h \in Handler} \cup {made[u] : u \in Txn} :
        <<c.txn, c.acct>> \in excused'
  BY DEF Crash
<1>3. (Has(t, p)' <=> Has(t, p)) /\ txn'[t].delivered = txn[t].delivered
  BY DEF Crash, Has, TypeOK, Txns
<1>4. QED
  BY <1>1, <1>2, <1>3 DEF Carried, InMade, InBuf, InHand

\* The other steps leave the copies where they are; a removal takes a mailbox.
OnItsWay == (\E u \in Txn : Prepare(u) \/ Buffer(u)) \/ (\E h \in Handler : Drain(h)) \/ Crash

LEMMA OtherSlots ==
    ASSUME TypeOK, [Next]_vars, NEW t \in Txn, NEW p \in Account, ~OnItsWay
    PROVE  /\ InMade(t, p)' = InMade(t, p) /\ InBuf(t, p)' = InBuf(t, p)
           /\ InHand(t, p)' = InHand(t, p) /\ txn'[t].delivered = txn[t].delivered
           /\ Has(t, p)' => Has(t, p)
           /\ Has(t, p) /\ ~Has(t, p)' => <<t, p>> \in excused'
<1>1. made' = made /\ buf' = buf /\ hand' = hand /\ txn'[t].delivered = txn[t].delivered
  BY Writers DEF Drain, OnItsWay
<1>2. CASE mbox' = mbox
  BY <1>1, <1>2 DEF InMade, InBuf, InHand, Has
<1>3. ASSUME NEW q \in Account, UnregisterAccount(q)
      PROVE  /\ Has(t, p)' => Has(t, p)
             /\ Has(t, p) /\ ~Has(t, p)' => <<t, p>> \in excused'
  <2>1. mbox'[p] = IF p = q THEN <<>> ELSE mbox[p]
    BY <1>3 DEF UnregisterAccount, TypeOK
  <2>2. CASE p = q
    <3>1. MsgId[t] \in Ids
      BY DEF Ids
    <3>2. Has(t, p) => <<t, p>> \in Gone(p, Ids)
      BY <3>1 DEF Has, Gone
    <3>3. Gone(p, Ids) \subseteq excused'
      BY <1>3, <2>2 DEF UnregisterAccount
    <3>4. QED
      BY <2>1, <2>2, <3>2, <3>3 DEF Has
  <2>3. CASE p # q
    BY <2>1, <2>3 DEF Has
  <2>4. QED
    BY <2>2, <2>3
<1>4. QED
  BY <1>1, <1>2, <1>3, Writers DEF Drain, OnItsWay, InMade, InBuf, InHand

LEMMA OnceStep ==
    ASSUME TypeOK, MadeInv, [Next]_vars, NEW t \in Txn, NEW p \in Account, Once(t, p)
    PROVE  Once(t, p)'
<1>1. ASSUME NEW u \in Txn, Prepare(u) PROVE Once(t, p)'
  <2>1. CASE t = u /\ p = Recipient(u) /\ p \notin txn[u].delivered
    <3>1. ~Carried(t, p) /\ ~Has(t, p)
      BY <2>1 DEF Once
    <3>2. /\ InBuf(t, p)' = {} /\ InHand(t, p)' = {} /\ ~Has(t, p)' /\ p \in txn'[t].delivered
      BY <1>1, <2>1, <3>1, PrepareSlots DEF Carried
    <3>3. QED
      BY <3>2 DEF Once
  <2>2. CASE ~(t = u /\ p = Recipient(u) /\ p \notin txn[u].delivered)
    <3>1. /\ InMade(t, p)' = InMade(t, p) /\ InBuf(t, p)' = InBuf(t, p)
          /\ InHand(t, p)' = InHand(t, p) /\ (Has(t, p)' <=> Has(t, p))
          /\ p \in txn'[t].delivered <=> p \in txn[t].delivered
      BY <1>1, <2>2, PrepareSlots
    <3>2. QED
      BY <3>1 DEF Once, Carried
  <2>3. QED
    BY <2>1, <2>2
<1>2. ASSUME NEW u \in Txn, Buffer(u) PROVE Once(t, p)'
  <2>0. /\ InHand(t, p)' = InHand(t, p) /\ (Has(t, p)' <=> Has(t, p))
        /\ txn'[t].delivered = txn[t].delivered
    BY <1>2, BufferSlots
  <2>1. CASE InMade(t, p) # {} /\ t = u
    <3>1. InBuf(t, p) = {} /\ InHand(t, p) = {} /\ ~Has(t, p) /\ p \in txn[t].delivered
      BY <2>1 DEF Once, Carried
    <3>2. InMade(t, p)' = {} /\ InBuf(t, p)' \subseteq {Len(buf) + 1}
      BY ZenonT(40), <1>2, <2>1, <3>1, BufferSlots
    <3>3. QED
      BY <2>0, <3>1, <3>2 DEF Once, Carried
  <2>2. CASE ~(InMade(t, p) # {} /\ t = u)
    <3>1. InMade(t, p)' = InMade(t, p) /\ InBuf(t, p)' = InBuf(t, p)
      BY <1>2, <2>2, BufferSlots
    <3>2. QED
      BY <2>0, <3>1 DEF Once, Carried
  <2>3. QED
    BY <2>1, <2>2
<1>3. ASSUME NEW h \in Handler, DrainTake(h) PROVE Once(t, p)'
  <2>1. /\ (Has(t, p)' <=> Has(t, p)) /\ InMade(t, p)' = InMade(t, p)
        /\ txn'[t].delivered = txn[t].delivered
    BY <1>3, TakeSlots DEF DrainTake, session
  <2>2. InBuf(t, p)' # {} => InBuf(t, p) # {} /\ 1 \notin InBuf(t, p)
    BY <1>3, TakeSlots DEF Once
  <2>3. \A i, j \in InBuf(t, p)' : i = j
    <3> SUFFICES ASSUME NEW i \in InBuf(t, p)', NEW j \in InBuf(t, p)' PROVE i = j
      OBVIOUS
    <3>1. i + 1 \in InBuf(t, p) /\ j + 1 \in InBuf(t, p) /\ i \in Int /\ j \in Int
      BY <1>3, TakeSlots
    <3>2. i + 1 = j + 1
      BY <3>1 DEF Once
    <3>3. QED
      BY <3>1, <3>2
  <2>4. QED
    BY <1>3, <2>1, <2>2, <2>3, TakeSlots DEF Once, Carried
<1>4. ASSUME NEW h \in Handler, DrainPut(h) PROVE Once(t, p)'
  <2>1. txn'[t].delivered = txn[t].delivered
    BY <1>4 DEF DrainPut, session
  <2>2. /\ InMade(t, p)' = InMade(t, p) /\ InBuf(t, p)' = InBuf(t, p)
        /\ InHand(t, p)' = InHand(t, p) \ {h}
        /\ Has(t, p)' => Has(t, p) \/ h \in InHand(t, p)
    BY <1>4, PutSlots
  <2>3. QED
    BY <2>1, <2>2 DEF Once, Carried
<1>5. CASE Crash
  <2>1. /\ ~Carried(t, p)' /\ (Has(t, p)' <=> Has(t, p))
        /\ txn'[t].delivered = txn[t].delivered
    BY <1>5, CrashSlots
  <2>2. QED
    BY <2>1 DEF Once, Carried
<1>6. CASE ~OnItsWay
  BY <1>6, OtherSlots DEF Once, Carried
<1>7. QED
  BY <1>1, <1>2, <1>3, <1>4, <1>5, <1>6 DEF Drain, OnItsWay

LEMMA OnceNext == ASSUME TypeOK, MadeInv, OnceInv, [Next]_vars PROVE OnceInv'
<1>1. \A t \in Txn, p \in Account : Once(t, p)'
  BY OnceStep DEF OnceInv
<1>2. ASSUME NEW p \in Account, NEW i \in DOMAIN mbox'[p] PROVE MsgId[mbox'[p][i].txn] = i
  <2>1. CASE i \in DOMAIN mbox[p] /\ mbox'[p][i] = mbox[p][i]
    BY <2>1 DEF OnceInv
  <2>2. ASSUME NEW h \in Handler, i = MsgId[hand[h].txn], mbox'[p][i] = Stored(hand[h])
        PROVE  MsgId[mbox'[p][i].txn] = i
    BY <2>2 DEF Stored
  <2>3. QED
    BY <2>1, <2>2, MboxStep
<1>3. QED
  BY <1>1, <1>2 DEF OnceInv

LEMMA AccountedStep ==
    ASSUME TypeOK, MadeInv, [Next]_vars, NEW t \in Txn, NEW p \in Account, Accounted(t, p)
    PROVE  Accounted(t, p)'
<1>1. excused \subseteq excused' /\ (dropped' = dropped \/ \E u \in Txn : Buffer(u))
  BY Writers
<1>2. dropped \subseteq dropped'
  BY <1>1 DEF Buffer
<1>3. ASSUME NEW u \in Txn, Prepare(u) PROVE Accounted(t, p)'
  BY <1>1, <1>2, <1>3, PrepareSlots DEF Accounted, Carried
<1>4. ASSUME NEW u \in Txn, Buffer(u) PROVE Accounted(t, p)'
  <2>1. /\ InHand(t, p)' = InHand(t, p) /\ (Has(t, p)' <=> Has(t, p))
        /\ txn'[t].delivered = txn[t].delivered
    BY <1>4, BufferSlots
  <2>2. CASE InMade(t, p) # {} /\ t = u
    <3>1. InBuf(t, p)' # {} \/ <<t, p>> \in dropped'
      BY <1>4, <2>2, BufferSlots
    <3>2. QED
      BY <3>1 DEF Accounted, Carried
  <2>3. CASE ~(InMade(t, p) # {} /\ t = u)
    <3>1. InMade(t, p)' = InMade(t, p) /\ InBuf(t, p)' = InBuf(t, p)
      BY <1>4, <2>3, BufferSlots
    <3>2. QED
      BY <1>1, <1>2, <2>1, <3>1 DEF Accounted, Carried
  <2>4. QED
    BY <2>2, <2>3
<1>5. ASSUME NEW h \in Handler, DrainTake(h) PROVE Accounted(t, p)'
  <2>1. (Has(t, p)' <=> Has(t, p)) /\ txn'[t].delivered = txn[t].delivered
    BY <1>5, TakeSlots DEF DrainTake, session
  <2>2. Carried(t, p) => Carried(t, p)'
    BY <1>5, TakeSlots DEF Carried
  <2>3. QED
    BY <1>1, <1>2, <2>1, <2>2 DEF Accounted
<1>6. ASSUME NEW h \in Handler, DrainPut(h) PROVE Accounted(t, p)'
  <2>1. txn'[t].delivered = txn[t].delivered
    BY <1>6 DEF DrainPut, session
  <2>2. Carried(t, p) => Carried(t, p)' \/ h \in InHand(t, p)
    BY <1>6, PutSlots DEF Carried
  <2>3. QED
    BY <1>1, <1>2, <1>6, <2>1, <2>2, PutSlots DEF Accounted
<1>7. CASE Crash
  BY <1>1, <1>2, <1>7, CrashSlots DEF Accounted
<1>8. CASE ~OnItsWay
  BY <1>1, <1>2, <1>8, OtherSlots DEF Accounted, Carried
<1>9. QED
  BY <1>3, <1>4, <1>5, <1>6, <1>7, <1>8 DEF Drain, OnItsWay

LEMMA AccountedNext ==
    ASSUME TypeOK, MadeInv, AccountedInv, [Next]_vars PROVE AccountedInv'
<1>1. \A t \in Txn, p \in Account : Accounted(t, p)'
  BY AccountedStep DEF AccountedInv
<1>2. \A t \in Txn : txn[t].delivered \subseteq txn'[t].delivered
  BY PrepareStep, Writers
<1>3. ASSUME NEW m \in acked'
      PROVE  m[1] \in Txn /\ m[2] \in Account /\ m[2] \in txn'[m[1]].delivered
  <2>1. CASE m \in acked
    BY <1>2, <2>1 DEF AccountedInv
  <2>2. ASSUME NEW t \in Txn, Answer(t), m \in {t} \X (txn[t].delivered \ {None})
        PROVE  m[1] \in Txn /\ m[2] \in Account /\ m[2] \in txn'[m[1]].delivered
    <3>1. m[1] = t /\ m[2] \in txn[t].delivered \ {None}
      BY <2>2
    <3>2. txn[t].delivered \subseteq Account \cup {None}
      BY DEF TypeOK, Txns
    <3>3. QED
      BY <1>2, <3>1, <3>2
  <2>3. acked' = acked \/ \E t \in Txn : Answer(t)
    BY DEF Next, Smtp, Rcpt, Abandon, Data, StoreKey, Prepare, Buffer, Drain, DrainTake, DrainPut,
       Accounts, RegisterAccount, UnregisterAccount, UploadStart, UploadEnd, Expire, Crash, Rest,
       vars, history
  <2>4. QED
    BY <1>3, <2>1, <2>2, <2>3 DEF Answer
<1>4. QED
  BY <1>1, <1>3 DEF AccountedInv

-----------------------------------------------------------------------------
(* The theorems.                                                           *)

LEMMA InitInv == Init => IInv
<1> SUFFICES ASSUME Init PROVE IInv
  OBVIOUS
<1> USE RouteAssumption, MessageAssumption
<1>1. TypeOK
  BY InitType
<1>2. RoutesHome
  BY DEF Init, RoutesHome, Home
<1>3. /\ \A p \in Account : DOMAIN mbox[p] = {}
      /\ \A t \in Txn : txn[t].delivered = {} /\ text[t] = Kind[t] /\ peerKeys[t] = {}
      /\ DOMAIN buf = {} /\ acked = {} /\ (\A h \in Handler : hand[h] = NoCopy)
      /\ \A t \in Txn : made[t] = NoCopy
  BY DEF Init, NewTxn
<1>4. HomeInv
  BY <1>3 DEF HomeInv, ForRecipientsOnly, NoMisdelivery, PeerKeyInHomeDomain, SealedToRecipient
<1>5. SealInv
  BY <1>3 DEF SealInv, KeyedNeverPlain
<1>6. \A t \in Txn, p \in Account : ~Carried(t, p) /\ ~Has(t, p)
  BY <1>3 DEF Carried, InMade, InBuf, InHand, Has, NoCopy
<1>7. OnceInv /\ AccountedInv
  BY <1>3, <1>6 DEF OnceInv, AccountedInv, Once, Accounted, Carried
<1>8. QED
  BY <1>1, <1>2, <1>4, <1>5, <1>7, InitMade DEF IInv

LEMMA NextInv == IInv /\ [Next]_vars => IInv'
BY NextType, MadeNext, RoutesNext, HomeNext, SealNext, OnceNext, AccountedNext DEF IInv

LEMMA Invariant == Spec => []IInv
BY InitInv, NextInv, PTL DEF Spec

\* For any aliases and any interleaving of deliveries with accounts that come and
\* go, mail and sender keys reach only the accounts its recipients lead to.
THEOREM DeliveredHome == Spec => []ForRecipientsOnly
<1>1. IInv => ForRecipientsOnly
  BY DEF IInv, HomeInv
<1>2. QED
  BY <1>1, Invariant, PTL

\* Storage encryption as far as the code gives it: a stored text is the text
\* sent, or sealed to a recipient of the message, and is not plain if its own
\* recipient had a key to encrypt to when the copy was made.
THEOREM StoredSealedAlways == Spec => []StoredSealed
<1>1. IInv => StoredSealed
  BY DEF IInv, HomeInv, SealInv, StoredSealed
<1>2. QED
  BY <1>1, Invariant, PTL

\* The slots of a copy are finitely many.
LEMMA SlotsFinite ==
    ASSUME IInv, NEW t \in Txn, NEW p \in Account
    PROVE  /\ IsFiniteSet(InMade(t, p)) /\ IsFiniteSet(InBuf(t, p)) /\ IsFiniteSet(InHand(t, p))
           /\ \A u, v \in InMade(t, p) : u = v
<1>1. InMade(t, p) \subseteq {t}
  BY RouteAssumption DEF IInv, MadeInv, InMade, NoCopy
<1>2. IsFiniteSet({t})
  BY FS_Singleton
<1>3. InBuf(t, p) \subseteq 1..Len(buf) /\ IsFiniteSet(1..Len(buf))
  BY FS_Interval DEF IInv, TypeOK, InBuf
<1>4. InHand(t, p) \subseteq Handler
  BY DEF InHand
<1>5. QED
  BY <1>1, <1>2, <1>3, <1>4, BoundsAssumption, FS_Subset

\* Counted: three finite sets of slots with at most one slot between them.
LEMMA SlotsCounted ==
    ASSUME NEW R, NEW S, NEW T, IsFiniteSet(R), IsFiniteSet(S), IsFiniteSet(T)
    PROVE  LET n == Cardinality(S) + Cardinality(T) + Cardinality(R) IN
           /\ n \in Nat
           /\ R # {} \/ S # {} \/ T # {} <=> n > 0
           /\ (\A i, j \in R : i = j) /\ (\A i, j \in S : i = j) /\ (\A i, j \in T : i = j)
              /\ (S = {} \/ T = {}) /\ (R # {} => S = {} /\ T = {})  => n <= 1
<1>1. Cardinality(R) \in Nat /\ Cardinality(S) \in Nat /\ Cardinality(T) \in Nat
  BY FS_CardinalityType
<1>2. /\ Cardinality(R) = 0 <=> R = {}
      /\ Cardinality(S) = 0 <=> S = {}
      /\ Cardinality(T) = 0 <=> T = {}
  BY FS_EmptySet
<1>3. ASSUME NEW A, IsFiniteSet(A), \A i, j \in A : i = j PROVE A = {} \/ Cardinality(A) = 1
  <2>1. A = {} \/ \E x : A = {x}
    BY <1>3
  <2>2. QED
    BY <2>1, FS_Singleton
<1>4. /\ (\A i, j \in R : i = j) => Cardinality(R) <= 1
      /\ (\A i, j \in S : i = j) => Cardinality(S) <= 1
      /\ (\A i, j \in T : i = j) => Cardinality(T) <= 1
  <2>1. \A A : IsFiniteSet(A) /\ (\A i, j \in A : i = j) => A = {} \/ Cardinality(A) = 1
    BY <1>3
  <2>2. QED
    BY <1>1, <1>2, <2>1
<1>5. QED
  BY <1>1, <1>2, <1>4

LEMMA CarriedCounted ==
    ASSUME IInv, NEW t \in Txn, NEW p \in Account
    PROVE  /\ InFlight(t, p) \in Nat /\ InFlight(t, p) <= 1
           /\ Carried(t, p) <=> InFlight(t, p) > 0
<1>1. InFlight(t, p) = Cardinality(InBuf(t, p)) + Cardinality(InHand(t, p))
                       + Cardinality(InMade(t, p))
  BY DEF InFlight, InBuf, InHand, InMade
<1>2. Once(t, p)
  BY DEF IInv, OnceInv
<1>3. QED
  BY <1>1, <1>2, SlotsFinite, SlotsCounted DEF Once, Carried

\* A 250 is a promise: an acknowledged copy is on its way or in the mailbox,
\* unless the channel was full, the process crashed, the store refused it, or it
\* was removed with its mailbox or replaced there.
THEOREM AcknowledgedAccounted == Spec => []AckedAccounted
<1>1. IInv => AckedAccounted
  <2> SUFFICES ASSUME IInv, NEW m \in acked
               PROVE  \/ InFlight(m[1], m[2]) > 0 \/ Has(m[1], m[2])
                      \/ m \in dropped \cup excused
    BY DEF AckedAccounted
  <2>1. m[1] \in Txn /\ m[2] \in Account /\ m[2] \in txn[m[1]].delivered /\ m = <<m[1], m[2]>>
    BY DEF IInv, AccountedInv, TypeOK
  <2>2. QED
    BY <2>1, CarriedCounted DEF IInv, AccountedInv, Accounted
<1>2. QED
  BY <1>1, Invariant, PTL

-----------------------------------------------------------------------------
(* What the documents promise, for messages of one recipient.              *)

Early == {"rcpt", "key", "deliver"}

\* A round begins with Prepare and ends there or with Buffer.
LEMMA RoundStep ==
    ASSUME TypeOK, [Next]_vars, NEW t \in Txn, ~Prepare(t), ~Buffer(t)
    PROVE  /\ txn'[t].i = txn[t].i /\ text'[t] = text[t]
           /\ txn'[t].pc \in Early => txn[t].pc \in Early
<1>1. CASE Smtp
  <2>1. PICK u \in Txn : \/ \E a \in Addr : Rcpt(u, a)
                        \/ Abandon(u) \/ Data(u) \/ StoreKey(u) \/ Prepare(u) \/ Buffer(u)
                        \/ Answer(u)
    BY <1>1 DEF Smtp
  <2>2. CASE \E a \in Addr : Rcpt(u, a)
    BY <2>2, RcptStep DEF Rcpt, Early
  <2>3. CASE Abandon(u) \/ Data(u) \/ StoreKey(u) \/ Answer(u)
    <3>1. PICK pc \in {"key", "deliver", "done", "failed"} : txn' = [txn EXCEPT ![u].pc = pc]
      BY <2>3 DEF Abandon, Data, StoreKey, Answer
    <3>2. txn'[t].i = txn[t].i /\ (t # u => txn'[t] = txn[t]) /\ txn'[u].pc = pc
      BY <3>1, MoveStep
    <3>3. text' = text /\ txn[u].pc \in Early
      BY <2>3 DEF Abandon, Data, StoreKey, Answer, Early
    <3>4. QED
      BY <3>2, <3>3
  <2>4. CASE Prepare(u)
    BY <2>4, PrepareStep, PrepareText
  <2>5. CASE Buffer(u)
    BY <2>5, BufferStep DEF Buffer
  <2>6. QED
    BY <2>1, <2>2, <2>3, <2>4, <2>5
<1>2. CASE Crash
  BY <1>2 DEF Crash, TypeOK, Txns, Early
<1>3. QED
  BY <1>1, <1>2 DEF Next, Drain, DrainTake, DrainPut, Accounts, RegisterAccount,
     UnregisterAccount, UploadStart, UploadEnd, Expire, Rest, vars, session

\* Until its first delivery a message is as it was sent; with one recipient there
\* is no other, so a copy is marked $e2e only if the sender encrypted it.
Marked(m) == m.e2e => Kind[m.txn] = "e2e" \/ Several(m.txn)

MarkInv ==
    /\ \A t \in Txn : txn[t].i = 1 /\ txn[t].pc \in Early => text[t] = Kind[t]
    /\ \A t \in Txn : made[t] # NoCopy => Marked(made[t])
    /\ \A i \in DOMAIN buf : Marked(buf[i])
    /\ \A h \in Handler : hand[h] # NoCopy => Marked(hand[h])
    /\ \A p \in Account : \A i \in DOMAIN mbox[p] : Marked(mbox[p][i])

LEMMA MarkStays ==
    ASSUME TypeOK, [Next]_vars, NEW m, m.txn \in Txn, Marked(m) PROVE Marked(m)'
<1>1. ASSUME NEW t \in Txn, NEW u \in Txn, NEW a \in Addr, Rcpt(u, a), Several(t)
      PROVE  Several(t)'
  <2>1. txn[t].to \in Seq(Addr) /\ (txn'[t].to = txn[t].to \/ txn'[t].to = Append(txn[t].to, a))
    BY <1>1, RcptStep DEF TypeOK, Txns
  <2>2. Len(txn[t].to) \in Nat /\ Len(txn'[t].to) >= Len(txn[t].to)
    BY <2>1
  <2>3. QED
    BY <1>1, <2>1, <2>2 DEF Several
<1>2. ASSUME NEW t \in Txn, Several(t) PROVE Several(t)'
  <2>1. CASE txn'[t].to = txn[t].to
    BY <1>2, <2>1 DEF Several
  <2>2. CASE Smtp
    <3>1. PICK u \in Txn : \/ \E a \in Addr : Rcpt(u, a)
                          \/ Abandon(u) \/ Data(u) \/ StoreKey(u) \/ Prepare(u) \/ Buffer(u)
                        \/ Answer(u)
      BY <2>2 DEF Smtp
    <3>2. CASE Abandon(u) \/ Data(u) \/ StoreKey(u) \/ Answer(u)
      BY <2>1, <3>2, MoveStep DEF Abandon, Data, StoreKey, Answer
    <3>3. CASE Prepare(u) \/ Buffer(u)
      BY <2>1, <3>3, PrepareStep, BufferStep
    <3>4. QED
      BY <1>1, <1>2, <3>1, <3>2, <3>3
  <2>3. CASE Crash
    BY <2>1, <2>3 DEF Crash, TypeOK, Txns
  <2>4. QED
    BY <2>1, <2>2, <2>3 DEF Next, Drain, DrainTake, DrainPut, Accounts, RegisterAccount,
       UnregisterAccount, UploadStart, UploadEnd, Expire, Rest, vars, session
<1>3. QED
  BY <1>2 DEF Marked

LEMMA MarkNext == ASSUME TypeOK, MadeInv, MarkInv, [Next]_vars PROVE MarkInv'
<1>1. ASSUME NEW t \in Txn, txn'[t].i = 1, txn'[t].pc \in Early PROVE text'[t] = Kind[t]
  <2>1. txn[t].i \in Nat /\ txn[t].i >= 1
    BY DEF TypeOK, Txns
  <2>2. ~Prepare(t) /\ ~Buffer(t)
    BY <1>1, <2>1, PrepareStep, BufferStep DEF Early
  <2>3. QED
    BY <1>1, <2>2, RoundStep DEF MarkInv
\* The only round of the loop finds the text as it was sent.
<1>2. ASSUME NEW t \in Txn, NEW m, m = made'[t], m # NoCopy PROVE Marked(m)'
  <2>1. CASE m = made[t]
    BY <1>2, <2>1, MarkStays DEF MarkInv, TypeOK, Copies
  <2>2. ASSUME NEW u \in Txn, Prepare(u), m # made[t] PROVE Marked(m)'
    <3> DEFINE p == Recipient(u)
               c == Copy(u, p, MarksE2E(text[u], p), HasKey(p))
    <3>1. u = t /\ m = c /\ c.txn = t /\ c.e2e = MarksE2E(text[t], p)
      BY <1>2, <2>2, PrepareMade
    <3> HIDE DEF c
    <3>2. txn[t].i = 1 \/ Several(t)
      <4>1. txn[t].i \in Nat /\ Len(txn[t].to) \in Nat /\ txn[t].i >= 1
        BY DEF TypeOK, Txns
      <4>2. QED
        BY <2>2, <3>1, <4>1 DEF Prepare, Several
    <3>3. IsPGP(Kind[t]) => Kind[t] = "e2e"
      BY MessageAssumption DEF IsPGP
    <3>4. Marked(c)
      BY <2>2, <3>1, <3>2, <3>3 DEF MarkInv, MarksE2E, Marked, Prepare, Early
    <3>5. QED
      BY <3>1, <3>4, MarkStays
  <2>3. ASSUME NEW u \in Txn, Buffer(u) PROVE m = made[t]
    BY <1>2, <2>3, BufferBuf
  <2>4. CASE Crash
    BY <1>2, <2>4 DEF Crash
  <2>5. QED
    BY <1>2, <2>1, <2>2, <2>3, <2>4, Writers
<1>3. ASSUME NEW i \in DOMAIN buf', NEW m, m = buf'[i] PROVE Marked(m)'
  <2>0. \A j \in DOMAIN buf : buf[j] = m => Marked(m)'
    BY BufCopy, MarkStays DEF Copies, MarkInv
  <2>1. ASSUME NEW t \in Txn, Buffer(t) PROVE Marked(m)'
    <3>1. CASE buf' = buf
      BY <1>3, <2>0, <3>1
    <3>2. CASE buf' = Append(buf, made[t])
      <4>1. buf \in Seq(Copies) /\ made[t] \in Copies /\ made[t].txn \in Txn
        BY <2>1, BufferBuf
      <4>2. Marked(made[t])
        BY DEF MarkInv, Marked, NoCopy
      <4>4. (i \in DOMAIN buf /\ buf[i] = m) \/ m = made[t]
        BY <1>3, <3>2, <4>1
      <4>5. QED
        BY <2>0, <4>1, <4>2, <4>4, MarkStays
    <3>3. QED
      BY <2>1, <3>1, <3>2, BufferBuf
  <2>2. ASSUME NEW h \in Handler, DrainTake(h) PROVE Marked(m)'
    BY <1>3, <2>0, <2>2, TakeBuf
  <2>3. QED
    BY <1>3, <2>0, <2>1, <2>2, Writers DEF Crash
<1>4. ASSUME NEW h \in Handler, NEW m, m = hand'[h], m # NoCopy PROVE Marked(m)'
  <2>1. CASE m = hand[h]
    BY <1>4, <2>1, MarkStays DEF MarkInv, TypeOK, Copies
  <2>2. ASSUME NEW g \in Handler, DrainTake(g), m # hand[h] PROVE Marked(m)'
    <3>1. m = buf[1] /\ 1 \in DOMAIN buf /\ m.txn \in Txn
      BY <1>4, <2>2, TakeBuf DEF TypeOK, Copies
    <3>2. QED
      BY <3>1, MarkStays DEF MarkInv
  <2>3. ASSUME NEW g \in Handler, DrainPut(g) PROVE m = hand[h]
    BY <1>4, <2>3 DEF DrainPut, TypeOK
  <2>4. ~Crash
    BY <1>4 DEF Crash
  <2>5. QED
    BY <1>4, <2>1, <2>2, <2>3, <2>4, Writers DEF Drain
<1>5. ASSUME NEW p \in Account, NEW i \in DOMAIN mbox'[p], NEW m, m = mbox'[p][i]
      PROVE  Marked(m)'
  <2>1. CASE i \in DOMAIN mbox[p] /\ mbox[p][i] = m
    BY <2>1, StoredTxn, MarkStays DEF MarkInv
  <2>2. ASSUME NEW h \in Handler, DrainPut(h), hand[h] \in Copies, m = Stored(hand[h])
        PROVE  Marked(m)'
    <3>1. m.txn = hand[h].txn /\ m.e2e = hand[h].e2e /\ m.txn \in Txn /\ Marked(hand[h])
      BY <2>2 DEF MarkInv, Stored, DrainPut, Copies
    <3>2. QED
      BY <3>1, MarkStays DEF Marked
  <2>3. QED
    BY <1>5, <2>1, <2>2, MboxStep
<1>6. QED
  BY <1>1, <1>2, <1>3, <1>4, <1>5 DEF MarkInv

\* Whatever the bound on recipients, a message that has one is stored as ARC.md
\* and main.go say: the text sent or sealed to the owner of the mailbox, and
\* $e2e only on what the sender encrypted.
THEOREM OneRecipientSealed == Spec => []SealedAsDocumented
<1>1. Init => MarkInv
  BY MessageAssumption DEF Init, MarkInv, NewTxn
<1>2. IInv /\ MarkInv /\ [Next]_vars => MarkInv'
  BY MarkNext DEF IInv
<1>3. IInv /\ MarkInv => SealedAsDocumented
  <2> SUFFICES ASSUME IInv, MarkInv, NEW p \in Account, NEW i \in DOMAIN mbox[p],
                      ~Several(mbox[p][i].txn)
               PROVE  mbox[p][i].text \in {Kind[mbox[p][i].txn], p}
    BY DEF SealedAsDocumented, MarkInv, Marked
  <2>1. PICK t \in Txn : t = mbox[p][i].txn
    BY StoredTxn DEF IInv
  <2>2. p \in Homes(t) /\ mbox[p][i].text \in {Kind[t]} \cup Homes(t)
    BY <2>1 DEF IInv, HomeInv, ForRecipientsOnly, NoMisdelivery, SealedToRecipient
  <2>3. txn[t].to \in Seq(Addr) /\ ~(Len(txn[t].to) > 1)
    BY <2>1 DEF IInv, TypeOK, Txns, Several
  <2>4. \A j \in DOMAIN txn[t].to : j = 1
    BY <2>3
  <2>5. \A a \in Homes(t) : a \in Account /\ a = Home(txn[t].to[1])
    <3>1. DOMAIN ConfigRoute \cap Account = {}
      BY RouteAssumption
    <3>2. QED
      BY <2>4, <3>1 DEF Homes, Home
  <2>6. QED
    BY <2>1, <2>2, <2>5
<1>4. QED
  BY <1>1, <1>2, <1>3, Invariant, PTL DEF Spec

-----------------------------------------------------------------------------
(* The path implements MailTransfer.                                       *)

\* Where a copy is, read off the slots.
Where(t, p) == IF Carried(t, p) THEN "carried"
               ELSE IF Has(t, p) THEN "stored"
               ELSE IF p \in txn[t].delivered THEN "gone" ELSE "new"

\* The refinement mapping counts the copies in flight; a copy is never there
\* twice, so the count says no more than that there is one.
Mapped == \A t \in Txn, p \in Account : Whereabouts(t, p) = Where(t, p)

LEMMA MapsCopies == IInv => Mapped
BY CarriedCounted DEF Mapped, Whereabouts, Where

\* A step that leaves every copy where it is, or loses some, is a Lose.
LEMMA LosesCopies ==
    ASSUME Mapped, Mapped',
           \A t \in Txn, p \in Account :
               \/ Where(t, p)' = Where(t, p)
               \/ Where(t, p) \in {"carried", "stored"} /\ Where(t, p)' = "gone"
    PROVE  Transfer!Lose
<1> DEFINE W == [c \in Txn \X Account |-> Whereabouts(c[1], c[2])]
           V == [c \in Txn \X Account |-> Whereabouts(c[1], c[2])']
           S == {c \in Txn \X Account : W[c] \in {"carried", "stored"} /\ V[c] = "gone"}
<1>1. \A c \in Txn \X Account : V[c] = W[c] \/ c \in S
  BY DEF Mapped
<1>2. V = [c \in Txn \X Account |-> IF c \in S THEN "gone" ELSE W[c]]
  BY <1>1
<1>3. S \in SUBSET {c \in Txn \X Account : W[c] \in {"carried", "stored"}}
  OBVIOUS
<1>4. QED
  BY <1>2, <1>3 DEF Transfer!Lose, Transfer!Copy

LEMMA PrepareRefines ==
    ASSUME IInv, Mapped, Mapped', NEW u \in Txn, Prepare(u) PROVE Transfer!Next
<1> DEFINE p == Recipient(u)
<1>1. TypeOK /\ MadeInv /\ OnceInv
  BY DEF IInv
<1>2. \A t \in Txn, q \in Account : ~(t = u /\ q = p /\ q \notin txn[u].delivered)
                                     => Where(t, q)' = Where(t, q)
  BY <1>1, PrepareSlots DEF Where, Carried
<1>3. CASE p \in Account /\ p \notin txn[u].delivered
  <2>1. Where(u, p) = "new"
    BY <1>1, <1>3 DEF OnceInv, Once, Where
  <2>2. PICK q \in Account : q = p
    BY <1>3
  <2>3. Where(u, q)' = "carried"
    BY <1>1, <1>3, <2>2, PrepareSlots DEF Where, Carried
  <2>4. Transfer!Accept(<<u, q>>)
    <3> DEFINE W == [c \in Txn \X Account |-> Whereabouts(c[1], c[2])]
               V == [c \in Txn \X Account |-> Whereabouts(c[1], c[2])']
    <3>1. W[<<u, q>>] = "new" /\ V[<<u, q>>] = "carried"
      BY <2>1, <2>2, <2>3 DEF Mapped
    <3>2. \A c \in Txn \X Account : c # <<u, q>> => V[c] = W[c]
      BY <1>2, <2>2 DEF Mapped
    <3>3. V = [W EXCEPT ![<<u, q>>] = V[<<u, q>>]]
      BY <3>2
    <3>4. QED
      BY <3>1, <3>3 DEF Transfer!Accept
  <2>5. QED
    BY <2>4 DEF Transfer!Next, Transfer!Copy
<1>4. CASE ~(p \in Account /\ p \notin txn[u].delivered)
  <2>1. \A t \in Txn, q \in Account : Where(t, q)' = Where(t, q)
    BY <1>2, <1>4
  <2>2. QED
    BY <2>1, LosesCopies DEF Transfer!Next
<1>5. QED
  BY <1>3, <1>4

LEMMA BufferRefines ==
    ASSUME IInv, Mapped, Mapped', NEW u \in Txn, Buffer(u) PROVE Transfer!Next
<1>1. TypeOK /\ MadeInv /\ OnceInv
  BY DEF IInv
<1>2. ASSUME NEW t \in Txn, NEW p \in Account
      PROVE  \/ Where(t, p)' = Where(t, p)
             \/ Where(t, p) = "carried" /\ Where(t, p)' = "gone"
  <2>1. /\ InHand(t, p)' = InHand(t, p) /\ (Has(t, p)' <=> Has(t, p))
        /\ txn'[t].delivered = txn[t].delivered
    BY <1>1, BufferSlots
  <2>2. CASE InMade(t, p) # {} /\ t = u
    <3>1. ~Has(t, p) /\ p \in txn[t].delivered
      BY <1>1, <2>2 DEF OnceInv, Once, Carried
    <3>2. QED
      BY <2>1, <2>2, <3>1 DEF Where, Carried
  <2>3. CASE ~(InMade(t, p) # {} /\ t = u)
    <3>1. InMade(t, p)' = InMade(t, p) /\ InBuf(t, p)' = InBuf(t, p)
      BY <1>1, <2>3, BufferSlots
    <3>2. QED
      BY <2>1, <3>1 DEF Where, Carried
  <2>4. QED
    BY <2>2, <2>3
<1>3. QED
  BY <1>2, LosesCopies DEF Transfer!Next

LEMMA TakeRefines ==
    ASSUME IInv, Mapped, Mapped', NEW h \in Handler, DrainTake(h) PROVE Transfer!Next
<1>1. TypeOK
  BY DEF IInv
<1>2. ASSUME NEW t \in Txn, NEW p \in Account PROVE Where(t, p)' = Where(t, p)
  <2>1. (Has(t, p)' <=> Has(t, p)) /\ txn'[t].delivered = txn[t].delivered
    BY <1>1, TakeSlots DEF DrainTake, session
  <2>2. Carried(t, p)' <=> Carried(t, p)
    BY <1>1, TakeSlots DEF Carried
  <2>3. QED
    BY <2>1, <2>2 DEF Where
<1>3. QED
  BY <1>2, LosesCopies DEF Transfer!Next

LEMMA PutRefines ==
    ASSUME IInv, Mapped, Mapped', NEW h \in Handler, DrainPut(h) PROVE Transfer!Next
<1>1. TypeOK /\ OnceInv
  BY DEF IInv
<1>2. hand[h] \in Copies /\ hand[h].txn \in Txn
  BY <1>1 DEF TypeOK, DrainPut, Copies
<1>3. PICK u \in Txn : u = hand[h].txn
  BY <1>2
<1>4. \A t \in Txn : txn'[t].delivered = txn[t].delivered
  BY DEF DrainPut, session
\* The copy in the hand, and the others.
<1>5. ASSUME NEW t \in Txn, NEW p \in Account, h \in InHand(t, p)
      PROVE  /\ Where(t, p) = "carried" /\ p = hand[h].acct /\ t = u
             /\ Where(t, p)' = IF Has(t, p)' THEN "stored" ELSE "gone"
             /\ ~Has(t, p)
  <2>1. /\ InMade(t, p) = {} /\ InBuf(t, p) = {} /\ InHand(t, p) \subseteq {h} /\ ~Has(t, p)
        /\ p \in txn[t].delivered
    BY <1>1, <1>5 DEF OnceInv, Once, Carried
  <2>2. ~Carried(t, p)'
    <3>1. /\ InMade(t, p)' = {} /\ InBuf(t, p)' = {} /\ InHand(t, p)' = InHand(t, p) \ {h}
      BY <1>1, <2>1, PutSlots
    <3>2. QED
      BY <2>1, <3>1 DEF Carried
  <2>3. QED
    BY <1>3, <1>4, <1>5, <2>1, <2>2 DEF Where, Carried, InHand
<1>6. ASSUME NEW t \in Txn, NEW p \in Account, h \notin InHand(t, p)
      PROVE  /\ Carried(t, p)' <=> Carried(t, p)
             /\ \/ Where(t, p)' = Where(t, p)
                \/ /\ Where(t, p) = "stored" /\ Where(t, p)' = "gone"
                   /\ Has(t, p) /\ ~Has(t, p)'
  <2>0. InHand(t, p) \ {h} = InHand(t, p)
    BY <1>6
  <2>1. Carried(t, p)' <=> Carried(t, p)
    BY <1>1, <2>0, PutSlots DEF Carried
  <2>2. Has(t, p)' => Has(t, p)
    BY <1>1, <1>6, PutSlots
  <2>3. Has(t, p) => p \in txn[t].delivered
    BY <1>1 DEF OnceInv, Once
  <2>4. QED
    BY <1>4, <2>1, <2>2, <2>3 DEF Where
<1>7. CASE hand[h].acct \in stores /\ mbox' # mbox
  <2>1. PICK q \in Account : q = hand[h].acct
    BY <1>1, <1>7 DEF TypeOK
  <2> DEFINE W == [c \in Txn \X Account |-> Whereabouts(c[1], c[2])]
             V == [c \in Txn \X Account |-> Whereabouts(c[1], c[2])']
             k == <<u, q>>
             R == {d \in Txn \X Account : d[2] = q /\ W[d] = "stored" /\ V[d] = "gone"}
  <2>2. h \in InHand(u, q)
    BY <1>3, <2>1 DEF InHand
  <2>3. k \in Txn \X Account /\ W[k] = "carried" /\ V[k] = "stored"
    <3>1. Has(u, q)'
      BY <1>1, <1>7, <2>2, PutSlots
    <3>2. QED
      BY <1>5, <2>2, <3>1 DEF Mapped
  <2>4. ASSUME NEW d \in Txn \X Account, d # k PROVE V[d] = W[d] \/ d \in R
    <3>1. PICK t \in Txn, p \in Account : d = <<t, p>>
      OBVIOUS
    <3>2. h \notin InHand(t, p)
      BY <1>3, <2>1, <2>4, <3>1 DEF InHand
    <3>3. Has(t, p) /\ ~Has(t, p)' => p = q
      BY <1>1, <1>7, <2>1, PutSlots
    <3>4. Where(t, p)' = Where(t, p) \/ (Where(t, p) = "stored" /\ Where(t, p)' = "gone" /\ p = q)
      BY <1>6, <3>2, <3>3
    <3>5. QED
      BY <3>1, <3>4 DEF Mapped
  <2>5. V = [d \in Txn \X Account |-> IF d = k THEN "stored"
                                      ELSE IF d \in R THEN "gone" ELSE W[d]]
    BY <2>3, <2>4
  <2>6. R \in SUBSET {d \in Txn \X Account : d[2] = k[2] /\ W[d] = "stored"}
    OBVIOUS
  <2>7. Transfer!Store(k)
    BY <2>3, <2>5, <2>6 DEF Transfer!Store, Transfer!Copy
  <2>8. QED
    BY <2>3, <2>7 DEF Transfer!Next, Transfer!Copy
<1>8. CASE mbox' = mbox
  <2>1. \A t \in Txn, p \in Account : Has(t, p)' <=> Has(t, p)
    BY <1>8 DEF Has
  <2>2. \A t \in Txn, p \in Account :
          \/ Where(t, p)' = Where(t, p)
          \/ Where(t, p) \in {"carried", "stored"} /\ Where(t, p)' = "gone"
    BY <1>5, <1>6, <2>1
  <2>3. QED
    BY <2>2, LosesCopies DEF Transfer!Next
<1>9. QED
  BY <1>7, <1>8 DEF DrainPut

LEMMA OtherRefines ==
    ASSUME IInv, Mapped, Mapped', [Next]_vars, Crash \/ ~OnItsWay PROVE Transfer!Next
<1>1. TypeOK /\ OnceInv
  BY DEF IInv
<1>2. ASSUME NEW t \in Txn, NEW p \in Account
      PROVE  \/ Where(t, p)' = Where(t, p)
             \/ Where(t, p) \in {"carried", "stored"} /\ Where(t, p)' = "gone"
  <2>1. Once(t, p)
    BY <1>1 DEF OnceInv
  <2>2. CASE Crash
    BY <1>1, <2>1, <2>2, CrashSlots DEF Where, Once
  <2>3. CASE ~OnItsWay
    BY <1>1, <2>1, <2>3, OtherSlots DEF Where, Once, Carried
  <2>4. QED
    BY <2>2, <2>3
<1>3. QED
  BY <1>2, LosesCopies DEF Transfer!Next

\* The inbound path is a mail transfer: each copy is taken over once and put into
\* its mailbox once, whatever moves, drains or fails at the same time, and no
\* copy comes back that was lost, replaced or removed.
THEOREM PathIsTransfer == Spec => CopiesAreTransferred
<1> DEFINE where == [c \in Txn \X Account |-> Whereabouts(c[1], c[2])]
<1>1. Init => Transfer!Init
  <2> SUFFICES ASSUME Init PROVE Transfer!Init
    OBVIOUS
  <2>1. Mapped
    BY InitInv, MapsCopies
  <2>2. ASSUME NEW t \in Txn, NEW p \in Account PROVE Where(t, p) = "new"
    BY RouteAssumption DEF Init, NewTxn, NoCopy, Where, Carried, InMade,
       InBuf, InHand, Has
  <2>3. QED
    BY <2>1, <2>2 DEF Transfer!Init, Transfer!Copy, Mapped
<1>2. IInv /\ Mapped /\ Mapped' /\ [Next]_vars => [Transfer!Next]_where
  BY PrepareRefines, BufferRefines, TakeRefines, PutRefines, OtherRefines DEF Drain, OnItsWay
<1>3. Spec => []Mapped
  BY Invariant, MapsCopies, PTL
<1>4. QED
  BY <1>1, <1>2, <1>3, Invariant, PTL DEF Spec, CopiesAreTransferred, Transfer!Spec
=============================================================================
