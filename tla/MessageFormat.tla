---------------------------- MODULE MessageFormat ----------------------------
(***************************************************************************)
(* The text of an outgoing message, from BuildRFC5322 to the servers: the   *)
(* first part of sendEmail, which Outbound has as one step. The Autocrypt   *)
(* and Chat-Version headers are inserted, a body with an OpenPGP block that *)
(* the client made is rewrapped as PGP/MIME, and the result is signed.      *)
(*                                                                         *)
(* A message is its header fields and body lines, and a field or line is    *)
(* what the functions look at: a field by its name ("subject", which may    *)
(* quote a PGP marker as "subjectBEGIN"), a line by how it starts. A client *)
(* may add any field to its draft, also one that is there already or that   *)
(* the relay inserts, and may write its name in other letters than the      *)
(* relay looks for ("chat-VERSION").                                       *)
(***************************************************************************)
EXTENDS Naturals, Sequences, FiniteSets

CONSTANTS
    Header,   \* the header fields a draft may have, in order
    Line,     \* body lines: "text", "chat", "BEGIN", "cipher", "END"
    MaxLines, \* bound: body lines
    None

Written == {"subject", "subjectBEGIN", "content-type", "content-transfer-encoding",
            "chat-version", "chat-VERSION", "autocrypt"}

ASSUME LineAssumption ==
    /\ Line \subseteq {"text", "chat", "BEGIN", "cipher", "END"}
    /\ MaxLines \in Nat
    /\ \A h \in Header : h \in Seq(Written)

VARIABLES
    pc,      \* the step that comes next, or "sent", or "panic"
    ownKey,  \* has the account a key that can be read?
    relayKey,\* is there a key for the whole relay (BISET_PGP_KEY)?
    dkimKey, \* is there a DKIM key for the domain?
    draft,   \* the message as it was built
    msg,     \* what it has become
    signed   \* the message the signature was computed over, or None

input == <<ownKey, relayKey, dkimKey, draft>>
vars  == <<pc, ownKey, relayKey, dkimKey, draft, msg, signed>>

Message(h, b) == [header |-> h, body |-> b]
Occurs(x, s)  == \E i \in DOMAIN s : s[i] = x
Index(x, s)   == CHOOSE i \in DOMAIN s : s[i] = x /\ \A j \in 1..(i-1) : s[j] # x

-----------------------------------------------------------------------------
\* Wrong variant: the signature comes before the rewrapping.
Follows_SignFirst(step) == CASE step = "autocrypt" -> "chat" [] step = "chat" -> "sign"
                             [] step = "sign" -> "wrap" [] step = "wrap" -> "sent"

\* The order of the steps in sendEmail.
Follows(step) == CASE step = "autocrypt" -> "chat" [] step = "chat" -> "wrap"
                   [] step = "wrap" -> "sign" [] step = "sign" -> "sent"

\* Inserted before the empty line: the last field.
Insert(m, field) == [m EXCEPT !.header = Append(@, field)]

\* The key of the account, else that of the relay, both under the account's
\* address. A field the client has put there is not looked for; a key that
\* cannot be serialised is left out.
InjectAutocrypt ==
    /\ pc = "autocrypt" /\ pc' = Follows(pc)
    /\ \/ ownKey /\ msg' = Insert(msg, "autocrypt-own")
       \/ ~ownKey /\ relayKey /\ msg' = Insert(msg, "autocrypt-relay")
       \/ UNCHANGED msg
    /\ UNCHANGED <<input, signed>>

\* The test for a field that is there is a test for a line anywhere in the
\* message that starts like it, in the same letters.
HasChatVersion(m) == Occurs("chat-version", m.header) \/ Occurs("chat", m.body)

InjectChatVersion ==
    /\ pc = "chat" /\ pc' = Follows(pc)
    /\ msg' = IF HasChatVersion(msg) THEN msg ELSE Insert(msg, "chat-version")
    /\ UNCHANGED <<input, signed>>

\* The marker is looked for in the header, too.
Marked(m) == Occurs("subjectBEGIN", m.header) \/ Occurs("BEGIN", m.body)

\* Wrong variant: the encoding of the old body survives.
Replaced_TypeOnly == {"content-type"}

\* The fields that describe the body.
Replaced == {"content-type", "content-transfer-encoding"}

\* The other fields, in their order: the k-th one that is kept is the field
\* with k kept positions up to its own.
KeptAt(h) == {i \in DOMAIN h : h[i] \notin Replaced}
Rank(i, S) == Cardinality({j \in S : j <= i})
Kept(h) == [k \in 1..Cardinality(KeptAt(h)) |->
               h[CHOOSE i \in KeptAt(h) : Rank(i, KeptAt(h)) = k]]

\* Wrong variant: without the END line.
Block_Open(b) == SubSeq(b, Index("BEGIN", b), Index("END", b) - 1)

\* From the first BEGIN to the first END; what is around them is given up.
Block(b) == SubSeq(b, Index("BEGIN", b), Index("END", b))

\* pgpMIMEWrapInline, when both markers are in the body.
Wrapped(m) == Message(Append(Kept(m.header), "multipart/encrypted"), Block(m.body))

\* Without both markers wrapping fails, and the message goes out as it is.
Wraps(m) == Occurs("BEGIN", m.body) /\ Occurs("END", m.body)

\* An END before the first BEGIN makes the bounds of the slice cross: the
\* goroutine panics, and the process with it.
Wrap ==
    /\ pc = "wrap"
    /\ IF ~Marked(msg) \/ ~Wraps(msg) THEN pc' = Follows(pc) /\ UNCHANGED msg
       ELSE IF Index("END", msg.body) < Index("BEGIN", msg.body)
            THEN pc' = "panic" /\ UNCHANGED msg
            ELSE pc' = Follows(pc) /\ msg' = Wrapped(msg)
    /\ UNCHANGED <<input, signed>>

\* Without a key, or if signing fails, the message goes out unsigned.
SignDKIM ==
    /\ pc = "sign" /\ pc' = Follows(pc)
    /\ \/ dkimKey /\ signed' = msg
       \/ UNCHANGED signed
    /\ UNCHANGED <<input, msg>>

-----------------------------------------------------------------------------
Bodies == UNION {[1..n -> Line] : n \in 0..MaxLines}

Init ==
    /\ pc = "autocrypt" /\ signed = None
    /\ ownKey \in BOOLEAN /\ relayKey \in BOOLEAN /\ dkimKey \in BOOLEAN
    /\ \E h \in Header, b \in Bodies : draft = Message(h, b)
    /\ msg = draft

Next == InjectAutocrypt \/ InjectChatVersion \/ Wrap \/ SignDKIM

Spec == Init /\ [][Next]_vars

-----------------------------------------------------------------------------
(* Properties.                                                             *)

\* A body with one block: a BEGIN, and the only END after it.
OneBlock(b) == /\ Occurs("BEGIN", b) /\ Occurs("END", b)
               /\ Index("BEGIN", b) < Index("END", b)
               /\ \A i, j \in DOMAIN b : b[i] = b[j] /\ b[i] \in {"BEGIN", "END"} => i = j

\* What was signed is what is sent: the signature comes after everything that
\* changes a signed field or the body.
SignatureCovers == pc = "sent" /\ signed # None => signed = msg

\* Has the body been rewrapped? A client's own content type is "content-type".
Rewrapped == Occurs("multipart/encrypted", msg.header)

DescribesBody == {"content-type", "content-transfer-encoding"}

\* The header of what is sent describes its body: a rewrapped body is the block,
\* and no content type or encoding of the old body is left, however many the
\* client has written; any other body is the client's.
HeaderFitsBody ==
    pc = "sent" =>
        IF Rewrapped
        THEN msg.body = Block(draft.body) /\ \A f \in DescribesBody : ~Occurs(f, msg.header)
        ELSE msg.body = draft.body

\* What is sent in place of a body with one block is the block, whole.
BlockSent ==
    pc = "sent" /\ OneBlock(draft.body) =>
        /\ msg.body[1] = "BEGIN" /\ msg.body[Len(msg.body)] = "END"
        /\ Len(msg.body) = Index("END", draft.body) - Index("BEGIN", draft.body) + 1

\* The recipient gets the whole block a client has encrypted, whatever text is
\* around it and whatever the other steps have inserted, and its client is
\* told so by the content type.
BlockArrives ==
    /\ BlockSent
    /\ pc = "sent" /\ OneBlock(draft.body) =>
          Occurs("multipart/encrypted", msg.header)

\* The fields of the draft that have to arrive, and the ways to find them in the
\* message, each at a place of its own and in their order.
Carried == {i \in DOMAIN draft.header : Rewrapped => draft.header[i] \notin DescribesBody}
Places == {at \in [Carried -> DOMAIN msg.header] : \A i, j \in Carried :
              msg.header[at[i]] = draft.header[i] /\ (i < j => at[i] < at[j])}

\* The fields the relay may write.
KeyField == {"autocrypt-own", "autocrypt-relay"}
Added == KeyField \cup {"chat-version", "multipart/encrypted"}

\* Whatever fields a client writes, repeated or not, none that does not describe
\* the body is lost, changed or moved before another, and what else the header
\* holds the relay wrote: each field once, one key, and a Chat-Version only
\* where the client gave none that it recognises.
FieldsKept ==
    pc = "sent" => \E at \in Places :
        LET new == DOMAIN msg.header \ {at[i] : i \in Carried}
            f   == msg.header
        IN /\ \A k \in new : /\ f[k] \in Added
                            /\ f[k] = "chat-version" => ~Occurs("chat-version", draft.header)
           /\ \A k, l \in new : f[k] = f[l] \/ {f[k], f[l]} \subseteq KeyField => k = l

\* The header that is sent.
HeaderCorrect == HeaderFitsBody /\ FieldsKept
=============================================================================
