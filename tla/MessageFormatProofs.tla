------------------------- MODULE MessageFormatProofs -------------------------
(***************************************************************************)
(* Theorems about module MessageFormat, for every set of headers and lines  *)
(* and bodies of any length: what is signed, the body that is sent, and the *)
(* header that describes it. What the rewrapping keeps of a header is shown *)
(* by counting positions, without induction over the header.               *)
(***************************************************************************)
EXTENDS MessageFormat, FiniteSetTheorems, TLAPS

\* Nothing is signed before the last step, and nothing changes after it.
Sealed ==
    /\ pc \in {"autocrypt", "chat", "wrap", "sign", "sent", "panic"}
    /\ signed # None => pc = "sent" /\ signed = msg

\* Up to the rewrapping the body is the one that was built; after it, a body
\* with one block has become that block.
BodyInv ==
    /\ \E n \in Nat : draft.body \in [1..n -> Line]
    /\ pc \in {"autocrypt", "chat", "wrap"} => \E h : msg = Message(h, draft.body)
    /\ pc \in {"sign", "sent"} /\ OneBlock(draft.body) => msg.body = Block(draft.body)

LEMMA InitSealed == Init => Sealed
BY DEF Init, Sealed

LEMMA NextSealed == Sealed /\ [Next]_vars => Sealed'
<1> SUFFICES ASSUME Sealed, [Next]_vars PROVE Sealed'
  OBVIOUS
<1>1. CASE InjectAutocrypt
  BY <1>1 DEF InjectAutocrypt, Follows, Sealed
<1>2. CASE InjectChatVersion
  BY <1>2 DEF InjectChatVersion, Follows, Sealed
<1>3. CASE Wrap
  BY <1>3 DEF Wrap, Follows, Sealed
<1>4. CASE SignDKIM
  BY <1>4 DEF SignDKIM, Follows, Sealed
<1>5. CASE UNCHANGED vars
  BY <1>5 DEF vars, Sealed
<1>6. QED
  BY <1>1, <1>2, <1>3, <1>4, <1>5 DEF Next

\* What was signed is what is sent.
THEOREM SignatureAlwaysCovers == Spec => []SignatureCovers
<1>1. Sealed => SignatureCovers
  BY DEF Sealed, SignatureCovers
<1>2. QED
  BY InitSealed, NextSealed, <1>1, PTL DEF Spec

-----------------------------------------------------------------------------
\* An element that occurs once is found where it is.
LEMMA IndexOfOnly ==
    ASSUME NEW n \in Nat, NEW b \in [1..n -> Line], NEW x, Occurs(x, b),
           \A i, j \in DOMAIN b : b[i] = x /\ b[j] = x => i = j
    PROVE  Index(x, b) \in 1..n /\ b[Index(x, b)] = x
<1>1. PICK i \in 1..n : b[i] = x
  BY DEF Occurs
<1>2. \A j \in 1..(i-1) : b[j] # x
  BY <1>1
<1>3. \E k \in DOMAIN b : b[k] = x /\ \A j \in 1..(k-1) : b[j] # x
  BY <1>1, <1>2
<1>4. QED
  BY <1>3 DEF Index

\* The block of a body with one block starts and ends with its markers.
LEMMA BlockOfOneBlock ==
    ASSUME NEW n \in Nat, NEW b \in [1..n -> Line], OneBlock(b)
    PROVE  /\ Block(b)[1] = "BEGIN" /\ Block(b)[Len(Block(b))] = "END"
           /\ Len(Block(b)) = Index("END", b) - Index("BEGIN", b) + 1
<1> DEFINE first == Index("BEGIN", b)
           last  == Index("END", b)
<1>1. Occurs("BEGIN", b) /\ Occurs("END", b) /\ first < last
  BY DEF OneBlock
<1>2. \A i, j \in DOMAIN b : b[i] = b[j] /\ b[i] \in {"BEGIN", "END"} => i = j
  BY DEF OneBlock
<1>3. first \in 1..n /\ b[first] = "BEGIN"
  BY <1>1, <1>2, IndexOfOnly
<1>4. last \in 1..n /\ b[last] = "END"
  BY <1>1, <1>2, IndexOfOnly
<1> HIDE DEF first, last
<1>5. b \in Seq(Line)
  OBVIOUS
<1>6. /\ Len(SubSeq(b, first, last)) = last - first + 1
      /\ \A i \in 1..(last - first + 1) : SubSeq(b, first, last)[i] = b[first + i - 1]
  BY <1>1, <1>3, <1>4, <1>5
<1>7. SubSeq(b, first, last)[1] = "BEGIN" /\ SubSeq(b, first, last)[last - first + 1] = "END"
  <2>1. 1 \in 1..(last - first + 1) /\ last - first + 1 \in 1..(last - first + 1)
    BY <1>1, <1>3, <1>4
  <2>2. first + 1 - 1 = first /\ first + (last - first + 1) - 1 = last
    BY <1>3, <1>4
  <2>3. QED
    BY <1>3, <1>4, <1>6, <2>1, <2>2
<1>8. QED
  BY <1>6, <1>7 DEF Block, first, last

LEMMA InitBody == Init => BodyInv
<1> SUFFICES ASSUME Init PROVE BodyInv
  OBVIOUS
<1>1. PICK h \in Header, b \in Bodies : draft = Message(h, b)
  BY DEF Init
<1>2. draft.body = b /\ msg = Message(h, b) /\ pc = "autocrypt"
  BY <1>1 DEF Init, Message
<1>3. \E n \in Nat : b \in [1..n -> Line]
  <2>1. PICK n \in 0..MaxLines : b \in [1..n -> Line]
    BY DEF Bodies
  <2>2. QED
    BY <2>1, LineAssumption
<1>4. QED
  BY <1>2, <1>3 DEF BodyInv

\* The insertions touch the header only.
LEMMA InsertBody ==
    ASSUME NEW h, NEW b, NEW field
    PROVE  \E k : Insert(Message(h, b), field) = Message(k, b)
<1>1. Insert(Message(h, b), field) = Message(Append(h, field), b)
  BY DEF Insert, Message
<1>2. QED
  BY <1>1

LEMMA NextBody == BodyInv /\ [Next]_vars => BodyInv'
<1> SUFFICES ASSUME BodyInv, [Next]_vars PROVE BodyInv'
  OBVIOUS
<1>1. CASE InjectAutocrypt \/ InjectChatVersion
  <2>1. /\ draft' = draft /\ pc' \in {"chat", "wrap"} /\ pc \in {"autocrypt", "chat"}
        /\ msg' = msg \/ \E field : msg' = Insert(msg, field)
    BY <1>1 DEF InjectAutocrypt, InjectChatVersion, Follows, input
  <2>2. PICK h : msg = Message(h, draft.body)
    BY <2>1 DEF BodyInv
  <2>3. \E k : msg' = Message(k, draft.body)
    BY <2>1, <2>2, InsertBody
  <2>4. QED
    BY <2>1, <2>3 DEF BodyInv
<1>2. CASE Wrap
  <2>1. draft' = draft /\ pc = "wrap" /\ pc' \in {"sign", "panic"}
    BY <1>2 DEF Wrap, Follows, input
  <2>2. PICK h : msg = Message(h, draft.body)
    BY <2>1 DEF BodyInv
  <2>3. msg.body = draft.body
    BY <2>2 DEF Message
  <2>4. ASSUME OneBlock(draft.body), pc' = "sign" PROVE msg'.body = Block(draft.body)
    <3>1. Marked(msg) /\ Wraps(msg)
      BY <2>3, <2>4 DEF OneBlock, Marked, Wraps
    <3>2. msg' = Wrapped(msg)
      BY <1>2, <2>4, <3>1 DEF Wrap
    <3>3. QED
      BY <2>3, <3>2 DEF Wrapped, Message
  <2>5. OneBlock(draft.body)' <=> OneBlock(draft.body)
    BY <2>1 DEF OneBlock
  <2>6. QED
    BY <2>1, <2>4, <2>5 DEF BodyInv
<1>3. CASE SignDKIM
  BY <1>3 DEF SignDKIM, Follows, input, BodyInv
<1>4. CASE UNCHANGED vars
  BY <1>4 DEF vars, BodyInv
<1>5. QED
  BY <1>1, <1>2, <1>3, <1>4 DEF Next

\* Every body with one block, however long and whatever lines are around the
\* block, arrives as that block, from its first marker to its last.
THEOREM BlockAlwaysSent == Spec => []BlockSent
<1>1. BodyInv => BlockSent
  <2>1. SUFFICES ASSUME BodyInv, pc = "sent", OneBlock(draft.body)
                 PROVE  /\ msg.body[1] = "BEGIN" /\ msg.body[Len(msg.body)] = "END"
                        /\ Len(msg.body) = Index("END", draft.body)
                                             - Index("BEGIN", draft.body) + 1
    BY DEF BlockSent
  <2>2. PICK n \in Nat : draft.body \in [1..n -> Line]
    BY <2>1 DEF BodyInv
  <2>3. msg.body = Block(draft.body)
    BY <2>1 DEF BodyInv
  <2>4. QED
    BY <2>1, <2>2, <2>3, BlockOfOneBlock
<1>2. QED
  BY InitBody, NextBody, <1>1, PTL DEF Spec

-----------------------------------------------------------------------------
(* What is kept of a header.                                               *)

LEMMA PositionsFinite ==
    ASSUME NEW n \in Nat, NEW S \in SUBSET (1..n)
    PROVE  IsFiniteSet(S) /\ Cardinality(S) \in Nat
<1> DEFINE P == 1..n
<1>1. IsFiniteSet(P)
  BY FS_Interval
<1> HIDE DEF P
<1>2. S \in SUBSET P
  BY DEF P
<1>3. QED
  BY <1>1, <1>2, FS_Subset, FS_CardinalityType

\* Different positions of a finite set have different ranks, from 1 to the
\* number of positions.
LEMMA RankIncreases ==
    ASSUME NEW n \in Nat, NEW S \in SUBSET (1..n), NEW i \in S
    PROVE  /\ Rank(i, S) \in 1..Cardinality(S)
           /\ \A j \in S : i < j => Rank(i, S) < Rank(j, S)
<1> DEFINE Upto(k) == {j \in S : j <= k}
<1>1. IsFiniteSet(S) /\ Cardinality(S) \in Nat
  BY PositionsFinite
<1>2. \A k \in S : IsFiniteSet(Upto(k)) /\ Cardinality(Upto(k)) \in Nat
                   /\ Cardinality(Upto(k)) <= Cardinality(S)
  <2>1. SUFFICES ASSUME NEW k \in S
                 PROVE  IsFiniteSet(Upto(k)) /\ Cardinality(Upto(k)) \in Nat
                        /\ Cardinality(Upto(k)) <= Cardinality(S)
    OBVIOUS
  <2>2. Upto(k) \in SUBSET S
    OBVIOUS
  <2> HIDE DEF Upto
  <2>3. QED
    BY <1>1, <2>2, FS_Subset, FS_CardinalityType
<1>3. Cardinality(Upto(i)) # 0
  <2>1. i \in Upto(i)
    OBVIOUS
  <2> HIDE DEF Upto
  <2>2. QED
    BY <1>2, <2>1, FS_EmptySet
<1>4. ASSUME NEW j \in S, i < j PROVE Cardinality(Upto(i)) < Cardinality(Upto(j))
  <2>1. Upto(i) \in SUBSET Upto(j) /\ j \in Upto(j) /\ j \notin Upto(i)
    <3>1. i \in Int /\ j \in Int /\ \A k \in S : k \in Int
      OBVIOUS
    <3>2. \A k \in S : k <= i => k <= j
      BY <1>4, <3>1
    <3>3. j <= j /\ ~(j <= i)
      BY <1>4, <3>1
    <3>4. QED
      BY <3>2, <3>3
  <2> HIDE DEF Upto
  <2>2. Cardinality(Upto(i)) <= Cardinality(Upto(j)) /\ Cardinality(Upto(i)) # Cardinality(Upto(j))
    BY <1>2, <2>1, FS_Subset
  <2>3. QED
    BY <1>2, <2>2
<1>5. QED
  BY <1>1, <1>2, <1>3, <1>4 DEF Rank

\* Every rank up to the number of positions is that of one of them.
LEMMA RankOnto ==
    ASSUME NEW n \in Nat, NEW S \in SUBSET (1..n)
    PROVE  /\ Cardinality(S) \in Nat
           /\ \A k \in 1..Cardinality(S) : \E i \in S : Rank(i, S) = k
<1> DEFINE T == 1..Cardinality(S)
           rank == [i \in S |-> Rank(i, S)]
<1>1. IsFiniteSet(S) /\ Cardinality(S) \in Nat
  BY PositionsFinite
<1>2. IsFiniteSet(T) /\ Cardinality(T) = Cardinality(S)
  BY <1>1, FS_Interval
<1>3. rank \in [S -> T]
  BY RankIncreases
<1>4. ASSUME NEW i \in S, NEW j \in S, i # j PROVE rank[i] # rank[j]
  <2>1. i < j \/ j < i
    BY <1>4
  <2>2. Rank(i, S) \in T /\ Rank(j, S) \in T
    BY RankIncreases
  <2>3. Rank(i, S) < Rank(j, S) \/ Rank(j, S) < Rank(i, S)
    BY <2>1, RankIncreases
  <2>4. Rank(i, S) # Rank(j, S)
    BY <1>1, <2>2, <2>3
  <2>5. QED
    BY <2>4
<1>5. rank \in Injection(S, T)
  BY <1>3, <1>4 DEF Injection, IsInjective
<1> HIDE DEF T, rank
<1>6. rank \in Surjection(S, T)
  BY <1>2, <1>5, FS_Injection
<1>7. \A k \in T : \E i \in S : rank[i] = k
  BY <1>6 DEF Surjection
<1>8. QED
  BY <1>1, <1>7 DEF T, rank

\* What is kept is a sequence of the fields at the kept positions, each of
\* them, and in their order.
LEMMA KeptFields ==
    ASSUME NEW F, NEW h \in Seq(F)
    PROVE  /\ Kept(h) \in Seq(F)
           /\ \A k \in DOMAIN Kept(h) : \E i \in KeptAt(h) :
                 Kept(h)[k] = h[i] /\ Rank(i, KeptAt(h)) = k
           /\ \A i \in KeptAt(h) : /\ Rank(i, KeptAt(h)) \in DOMAIN Kept(h)
                                   /\ Kept(h)[Rank(i, KeptAt(h))] = h[i]
<1> DEFINE S == KeptAt(h)
           Nth(k) == CHOOSE i \in S : Rank(i, S) = k
<1>1. PICK n \in Nat : DOMAIN h = 1..n /\ n = Len(h)
  OBVIOUS
<1>2. S \in SUBSET (1..n)
  BY <1>1 DEF KeptAt
<1>3. Kept(h) = [k \in 1..Cardinality(S) |-> h[Nth(k)]]
  BY DEF Kept
<1> HIDE DEF S
<1>4. Cardinality(S) \in Nat /\ \A k \in 1..Cardinality(S) : Nth(k) \in S /\ Rank(Nth(k), S) = k
  BY <1>2, RankOnto
<1>5. ASSUME NEW i \in S PROVE Rank(i, S) \in 1..Cardinality(S) /\ Nth(Rank(i, S)) = i
  <2>1. Rank(i, S) \in 1..Cardinality(S)
    BY <1>2, RankIncreases
  <2> DEFINE j == Nth(Rank(i, S))
  <2>2. j \in S /\ Rank(j, S) = Rank(i, S)
    BY <1>4, <2>1
  <2> HIDE DEF j
  <2>3. i \in Int /\ j \in Int /\ Rank(i, S) \in Int
    BY <1>2, <2>1, <2>2
  <2>4. /\ i < j => Rank(i, S) < Rank(j, S)
        /\ j < i => Rank(j, S) < Rank(i, S)
    BY <1>2, <2>2, RankIncreases
  <2>5. i = j
    BY <2>2, <2>3, <2>4
  <2>6. QED
    BY <2>1, <2>5 DEF j
<1> HIDE DEF Nth
<1>6. \A k \in 1..Cardinality(S) : h[Nth(k)] \in F
  <2>1. \A i \in 1..n : h[i] \in F
    BY <1>1
  <2>2. QED
    BY <1>2, <1>4, <2>1
<1>7. Kept(h) \in Seq(F)
  BY <1>3, <1>4, <1>6
<1>8. QED
  BY <1>3, <1>4, <1>5, <1>7 DEF S

-----------------------------------------------------------------------------
(* The header, step by step.                                               *)

\* The fields a message may have.
Field == Written \cup Added

\* The fields at the positions N of h are the relay's: each once, one key, and
\* no Chat-Version beside one of the draft d.
Relays(N, h, d) ==
    /\ \A k \in N : h[k] \in Added /\ (h[k] = "chat-version" => ~Occurs("chat-version", d))
    /\ \A k, l \in N : h[k] = h[l] \/ {h[k], h[l]} \subseteq KeyField => k = l

\* Every field of d at the positions C is in h, in order, and the others are
\* the relay's.
Faithful(h, d, C) ==
    \E at \in [C -> DOMAIN h] :
        /\ \A i, j \in C : h[at[i]] = d[i] /\ (i < j => at[i] < at[j])
        /\ Relays(DOMAIN h \ {at[i] : i \in C}, h, d)

\* h is d with fields of the relay behind it.
Extends(h, d) ==
    /\ DOMAIN d \subseteq DOMAIN h /\ \A i \in DOMAIN d : h[i] = d[i]
    /\ Relays(DOMAIN h \ DOMAIN d, h, d)
    /\ ~Occurs("multipart/encrypted", h)

\* The message after the rewrapping step.
Formed(m, d) ==
    IF Occurs("multipart/encrypted", m.header)
    THEN /\ m.body = Block(d.body) /\ \A f \in DescribesBody : ~Occurs(f, m.header)
         /\ Faithful(m.header, d.header, KeptAt(d.header))
    ELSE m.body = d.body /\ Faithful(m.header, d.header, DOMAIN d.header)

HeaderInv ==
    /\ msg.header \in Seq(Field) /\ draft.header \in Seq(Written)
    /\ pc = "autocrypt" => msg.header = draft.header
    /\ pc \in {"autocrypt", "chat", "wrap"} => msg.body = draft.body /\ Extends(msg.header, draft.header)
    /\ pc \in {"sign", "sent"} => Formed(msg, draft)
    /\ pc \in {"sign", "sent"} /\ OneBlock(draft.body) => Rewrapped

\* A field the relay has not written yet may be appended.
LEMMA AppendField ==
    ASSUME NEW h \in Seq(Field), NEW d \in Seq(Written), Extends(h, d),
           NEW f \in Added, f # "multipart/encrypted",
           f = "chat-version" => ~Occurs("chat-version", d),
           \A k \in DOMAIN h \ DOMAIN d : h[k] # f /\ ~({h[k], f} \subseteq KeyField)
    PROVE  Append(h, f) \in Seq(Field) /\ Extends(Append(h, f), d)
<1>1. PICK n \in Nat : DOMAIN h = 1..n /\ n = Len(h)
  OBVIOUS
<1>2. f \in Field
  BY DEF Field
<1> DEFINE a == Append(h, f)
<1>3. /\ a \in Seq(Field) /\ DOMAIN a = 1..(n+1)
      /\ a[n+1] = f /\ \A i \in 1..n : a[i] = h[i]
  BY <1>1, <1>2
<1> HIDE DEF a
<1>4. 1..(n+1) = 1..n \cup {n+1} /\ n+1 \notin 1..n
  BY <1>1
<1>5. DOMAIN d \subseteq 1..n /\ \A i \in DOMAIN d : h[i] = d[i]
  BY <1>1 DEF Extends
<1> DEFINE N == 1..n \ DOMAIN d
<1>6. DOMAIN a \ DOMAIN d = N \cup {n+1}
  BY <1>3, <1>4, <1>5
<1>7. /\ \A k \in N : h[k] \in Added /\ (h[k] = "chat-version" => ~Occurs("chat-version", d))
      /\ \A k, l \in N : h[k] = h[l] \/ {h[k], h[l]} \subseteq KeyField => k = l
  BY <1>1 DEF Extends, Relays
<1>8. \A k \in N : h[k] # f /\ ~({h[k], f} \subseteq KeyField)
  BY <1>1
<1>9. Relays(DOMAIN a \ DOMAIN d, a, d)
  <2>1. \A k \in N : a[k] = h[k]
    BY <1>3
  <2> HIDE DEF N
  <2>2. \A k \in N \cup {n+1} :
            a[k] \in Added /\ (a[k] = "chat-version" => ~Occurs("chat-version", d))
    BY <1>3, <1>7, <2>1
  <2>3. ASSUME NEW k \in N \cup {n+1}, NEW l \in N \cup {n+1},
               a[k] = a[l] \/ {a[k], a[l]} \subseteq KeyField
        PROVE  k = l
    BY <1>3, <1>7, <1>8, <2>1, <2>3
  <2>4. QED
    BY <1>6, <2>2, <2>3 DEF Relays
<1>10. ~Occurs("multipart/encrypted", a)
  BY <1>1, <1>3, <1>4 DEF Extends, Occurs
<1>11. QED
  BY <1>3, <1>4, <1>5, <1>9, <1>10 DEF Extends, a

\* A header that only has fields of the relay behind it is faithful.
LEMMA ExtendedFaithful ==
    ASSUME NEW h \in Seq(Field), NEW d \in Seq(Written), Extends(h, d)
    PROVE  Faithful(h, d, DOMAIN d)
<1> DEFINE at == [i \in DOMAIN d |-> i]
<1>1. at \in [DOMAIN d -> DOMAIN h]
  BY DEF Extends
<1>2. \A i, j \in DOMAIN d : h[at[i]] = d[i] /\ (i < j => at[i] < at[j])
  BY DEF Extends
<1>3. {at[i] : i \in DOMAIN d} = DOMAIN d
  OBVIOUS
<1>4. Relays(DOMAIN h \ {at[i] : i \in DOMAIN d}, h, d)
  BY <1>3 DEF Extends
<1> HIDE DEF at
<1>5. QED
  BY <1>1, <1>2, <1>4 DEF Faithful

\* The header of a rewrapped message is faithful to the fields that are kept:
\* the i-th field of the draft is now where its rank among the kept ones is.
LEMMA WrappedFaithful ==
    ASSUME NEW h \in Seq(Field), NEW d \in Seq(Written), Extends(h, d),
           NEW w, w = Append(Kept(h), "multipart/encrypted")
    PROVE  /\ w \in Seq(Field) /\ Occurs("multipart/encrypted", w)
           /\ \A f \in DescribesBody : ~Occurs(f, w)
           /\ Faithful(w, d, KeptAt(d))
<1> DEFINE S == KeptAt(h)
           D == KeptAt(d)
           a == Kept(h)
           enc == "multipart/encrypted"
<1>1. PICK n \in Nat : DOMAIN h = 1..n
  BY Len(h) \in Nat
<1>2. S \in SUBSET (1..n)
  BY <1>1 DEF KeptAt
<1>3. /\ a \in Seq(Field)
      /\ \A k \in DOMAIN a : \E i \in S : a[k] = h[i] /\ Rank(i, S) = k
      /\ \A i \in S : Rank(i, S) \in DOMAIN a /\ a[Rank(i, S)] = h[i]
  BY KeptFields
<1>4. \A i \in S : i \in DOMAIN h /\ h[i] \notin Replaced
  BY DEF KeptAt
<1>5. D \subseteq S /\ \A i \in D : h[i] = d[i] /\ i \in DOMAIN d
  BY DEF KeptAt, Extends
<1>6. \A i \in S : i \in DOMAIN d => i \in D
  BY DEF KeptAt, Extends
<1>7. \A i \in S, j \in S : i < j => Rank(i, S) < Rank(j, S)
  BY <1>2, RankIncreases
<1> HIDE DEF S, D, a
<1>8. PICK m \in Nat : m = Len(a) /\ DOMAIN a = 1..m
  BY <1>3
<1>9. /\ w \in Seq(Field) /\ DOMAIN w = 1..(m+1)
      /\ w[m+1] = enc /\ \A k \in 1..m : w[k] = a[k]
  <2>1. enc \in Field
    BY DEF Field, Added
  <2>2. QED
    BY <1>3, <1>8, <2>1 DEF a
<1>10. 1..(m+1) = 1..m \cup {m+1} /\ m+1 \notin 1..m
  BY <1>8
<1>11. \A k \in 1..m : w[k] \notin Replaced
  BY <1>3, <1>4, <1>8, <1>9
<1>12. \A f \in DescribesBody : ~Occurs(f, w)
  <2>1. DescribesBody = Replaced /\ enc \notin Replaced
    BY DEF DescribesBody, Replaced
  <2>2. QED
    BY <1>9, <1>10, <1>11, <2>1 DEF Occurs
<1> DEFINE at == [i \in D |-> Rank(i, S)]
           new == DOMAIN w \ {at[i] : i \in D}
<1>13. at \in [D -> DOMAIN w]
  BY <1>3, <1>5, <1>8, <1>9, <1>10
<1>14. ASSUME NEW i \in D, NEW j \in D
       PROVE  w[at[i]] = d[i] /\ (i < j => at[i] < at[j])
  <2>1. i \in S /\ j \in S /\ h[i] = d[i]
    BY <1>5
  <2>2. w[Rank(i, S)] = h[i]
    BY <1>3, <1>8, <1>9, <2>1
  <2>3. i < j => Rank(i, S) < Rank(j, S)
    BY <1>7, <2>1
  <2>4. QED
    BY <2>1, <2>2, <2>3
\* What is new in w is the last field, and what was new in h.
<1>15. ASSUME NEW k \in new, k # m+1
       PROVE  \E i \in DOMAIN h \ DOMAIN d : w[k] = h[i] /\ Rank(i, S) = k
  <2>1. k \in 1..m
    BY <1>9, <1>10, <1>15
  <2>2. PICK i \in S : a[k] = h[i] /\ Rank(i, S) = k
    BY <1>3, <1>8, <2>1
  <2>3. i \notin D
    BY <1>15, <2>2
  <2>4. QED
    BY <1>4, <1>6, <1>9, <2>1, <2>2, <2>3
<1>16. /\ \A i \in DOMAIN h \ DOMAIN d :
             h[i] \in Added /\ (h[i] = "chat-version" => ~Occurs("chat-version", d))
       /\ \A i, j \in DOMAIN h \ DOMAIN d :
             h[i] = h[j] \/ {h[i], h[j]} \subseteq KeyField => i = j
       /\ \A i \in DOMAIN h : h[i] # enc
  BY DEF Extends, Relays, Occurs
<1> HIDE DEF new
<1>17. w[m+1] = enc /\ enc \in Added \ KeyField /\ enc # "chat-version"
  BY <1>9 DEF Added, KeyField
<1>18. Relays(new, w, d)
  <2>1. ASSUME NEW k \in new
        PROVE  w[k] \in Added /\ (w[k] = "chat-version" => ~Occurs("chat-version", d))
    BY <1>15, <1>16, <1>17
  <2>2. ASSUME NEW k \in new, NEW l \in new, w[k] = w[l] \/ {w[k], w[l]} \subseteq KeyField
        PROVE  k = l
    <3>1. CASE k = m+1 \/ l = m+1
      <4>1. ASSUME NEW x \in new, x # m+1 PROVE w[x] # enc
        <5>1. PICK i \in DOMAIN h \ DOMAIN d : w[x] = h[i]
          BY <1>15, <4>1
        <5>2. QED
          BY <1>16, <5>1
      <4>2. w[k] = w[l]
        BY <1>17, <2>2, <3>1
      <4>3. QED
        BY <1>17, <3>1, <4>1, <4>2
    <3>2. CASE k # m+1 /\ l # m+1
      <4>1. PICK i \in DOMAIN h \ DOMAIN d : w[k] = h[i] /\ Rank(i, S) = k
        BY <1>15, <3>2
      <4>2. PICK j \in DOMAIN h \ DOMAIN d : w[l] = h[j] /\ Rank(j, S) = l
        BY <1>15, <3>2
      <4>3. i = j
        BY <1>16, <2>2, <4>1, <4>2
      <4>4. QED
        BY <4>1, <4>2, <4>3
    <3>3. QED
      BY <3>1, <3>2
  <2>3. QED
    BY <2>1, <2>2 DEF Relays
<1>19. Occurs(enc, w)
  BY <1>9, <1>10 DEF Occurs
<1> HIDE DEF at
<1>20. Faithful(w, d, D)
  BY <1>13, <1>14, <1>18 DEF Faithful, new
<1>21. QED
  BY <1>9, <1>12, <1>19, <1>20 DEF D

LEMMA InitHeader == Init => HeaderInv
<1> SUFFICES ASSUME Init PROVE HeaderInv
  OBVIOUS
<1>1. PICK h \in Header, b \in Bodies : draft = Message(h, b)
  BY DEF Init
<1>2. h \in Seq(Written)
  BY LineAssumption
<1>3. \A i \in DOMAIN h : h[i] \in Written
  BY <1>2
<1>4. h \in Seq(Field)
  BY <1>2 DEF Field
<1>5. pc = "autocrypt" /\ draft.header = h /\ msg.header = h /\ msg.body = draft.body
  BY <1>1 DEF Init, Message
<1>6. Extends(h, h)
  BY <1>3 DEF Extends, Relays, Occurs, Written
<1>7. QED
  BY <1>2, <1>4, <1>5, <1>6 DEF HeaderInv

LEMMA NextHeader == (BodyInv /\ HeaderInv) /\ [Next]_vars => HeaderInv'
<1> SUFFICES ASSUME BodyInv, HeaderInv, [Next]_vars PROVE HeaderInv'
  OBVIOUS
<1> DEFINE hd == msg.header
           dh == draft.header
<1>1. hd \in Seq(Field) /\ dh \in Seq(Written)
  BY DEF HeaderInv
<1>2. ASSUME NEW f, msg' = Insert(msg, f), NEW h0, msg = Message(h0, draft.body)
      PROVE  msg'.header = Append(hd, f) /\ msg'.body = draft.body
  BY <1>2 DEF Insert, Message
<1>3. CASE InjectAutocrypt
  <2>1. /\ pc = "autocrypt" /\ pc' = "chat" /\ UNCHANGED draft
        /\ \/ msg' = Insert(msg, "autocrypt-own") \/ msg' = Insert(msg, "autocrypt-relay")
           \/ msg' = msg
    BY <1>3 DEF InjectAutocrypt, Follows, input
  <2>2. PICK h0 : msg = Message(h0, draft.body)
    BY <2>1 DEF BodyInv
  <2>3. hd = dh /\ Extends(hd, dh) /\ msg.body = draft.body
    BY <2>1 DEF HeaderInv
  <2>4. ASSUME NEW f \in {"autocrypt-own", "autocrypt-relay"}, msg' = Insert(msg, f)
        PROVE  HeaderInv'
    <3>1. msg'.header = Append(hd, f) /\ msg'.body = draft.body
      BY <1>2, <2>2, <2>4
    <3>2. f \in Added /\ f # "multipart/encrypted" /\ f # "chat-version"
      BY DEF Added, KeyField
    <3>3. \A k \in DOMAIN hd \ DOMAIN dh : hd[k] # f /\ ~({hd[k], f} \subseteq KeyField)
      BY <2>3
    <3>4. Append(hd, f) \in Seq(Field) /\ Extends(Append(hd, f), dh)
      BY <1>1, <2>3, <3>2, <3>3, AppendField
    <3>5. QED
      BY <1>1, <2>1, <3>1, <3>4 DEF HeaderInv
  <2>5. CASE msg' = msg
    BY <1>1, <2>1, <2>3, <2>5 DEF HeaderInv
  <2>6. QED
    BY <2>1, <2>4, <2>5
<1>4. CASE InjectChatVersion
  <2>1. /\ pc = "chat" /\ pc' = "wrap" /\ UNCHANGED draft
        /\ \/ msg' = Insert(msg, "chat-version") /\ ~Occurs("chat-version", hd)
           \/ msg' = msg
    BY <1>4 DEF InjectChatVersion, HasChatVersion, Follows, input
  <2>2. PICK h0 : msg = Message(h0, draft.body)
    BY <2>1 DEF BodyInv
  <2>3. Extends(hd, dh) /\ msg.body = draft.body
    BY <2>1 DEF HeaderInv
  <2>4. CASE msg' = Insert(msg, "chat-version") /\ ~Occurs("chat-version", hd)
    <3> DEFINE f == "chat-version"
    <3>1. msg'.header = Append(hd, f) /\ msg'.body = draft.body
      BY <1>2, <2>2, <2>4
    <3>2. f \in Added /\ f # "multipart/encrypted" /\ f \notin KeyField
      BY DEF Added, KeyField
    <3>3. \A k \in DOMAIN hd : hd[k] # f
      BY <2>4 DEF Occurs
    <3>4. ~Occurs(f, dh)
      BY <2>3, <3>3 DEF Occurs, Extends
    <3>5. \A k \in DOMAIN hd \ DOMAIN dh : hd[k] # f /\ ~({hd[k], f} \subseteq KeyField)
      BY <3>2, <3>3
    <3> HIDE DEF f
    <3>6. Append(hd, f) \in Seq(Field) /\ Extends(Append(hd, f), dh)
      BY <1>1, <2>3, <3>2, <3>4, <3>5, AppendField
    <3>7. QED
      BY <1>1, <2>1, <3>1, <3>6 DEF HeaderInv
  <2>5. CASE msg' = msg
    BY <1>1, <2>1, <2>3, <2>5 DEF HeaderInv
  <2>6. QED
    BY <2>1, <2>4, <2>5
\* A body with one block is rewrapped: its BEGIN marks it, and both markers are
\* there, in their order.
<1>5. CASE Wrap
  <2>1. pc = "wrap" /\ pc' \in {"sign", "panic"} /\ UNCHANGED draft
    BY <1>5 DEF Wrap, Follows, input
  <2>2. Extends(hd, dh) /\ msg.body = draft.body
    BY <2>1 DEF HeaderInv
  <2>3. CASE msg' = Wrapped(msg)
    <3>1. msg'.body = Block(draft.body) /\ msg'.header = Append(Kept(hd), "multipart/encrypted")
      BY <2>2, <2>3 DEF Wrapped, Message
    <3>2. /\ msg'.header \in Seq(Field) /\ Occurs("multipart/encrypted", msg'.header)
          /\ \A f \in DescribesBody : ~Occurs(f, msg'.header)
          /\ Faithful(msg'.header, dh, KeptAt(dh))
      BY <1>1, <2>2, <3>1, WrappedFaithful
    <3>3. Formed(msg, draft)' /\ Rewrapped'
      BY <2>1, <3>1, <3>2 DEF Formed, Rewrapped
    <3>4. QED
      BY <1>1, <2>1, <3>2, <3>3 DEF HeaderInv
  <2>4. CASE msg' = msg /\ (~OneBlock(draft.body) \/ pc' = "panic")
    <3>1. Faithful(hd, dh, DOMAIN dh) /\ ~Occurs("multipart/encrypted", hd)
      BY <1>1, <2>2, ExtendedFaithful DEF Extends
    <3>2. Formed(msg, draft)'
      BY <2>1, <2>2, <2>4, <3>1 DEF Formed
    <3>3. QED
      BY <1>1, <2>1, <2>4, <3>2 DEF HeaderInv, OneBlock
  <2>5. ASSUME OneBlock(draft.body), pc' = "sign" PROVE msg' = Wrapped(msg)
    <3>1. Marked(msg) /\ Wraps(msg)
      BY <2>2, <2>5 DEF OneBlock, Marked, Wraps
    <3>2. Index("BEGIN", msg.body) < Index("END", msg.body)
      BY <2>2, <2>5 DEF OneBlock
    <3>3. QED
      BY <1>5, <2>5, <3>1, <3>2 DEF Wrap
  <2>6. msg' = msg \/ msg' = Wrapped(msg)
    BY <1>5 DEF Wrap
  <2>7. QED
    BY <2>1, <2>3, <2>4, <2>5, <2>6
<1>6. CASE SignDKIM
  BY <1>6 DEF SignDKIM, Follows, input, HeaderInv, Rewrapped
<1>7. CASE UNCHANGED vars
  BY <1>7 DEF vars, input, HeaderInv, Rewrapped
<1>8. QED
  BY <1>3, <1>4, <1>5, <1>6, <1>7 DEF Next

\* Whatever fields a client has put in its draft, the header that is sent
\* describes the body that is sent, holds every field of the client's that does
\* not describe the body, in the client's order, and beside them only what the
\* relay adds once.
THEOREM HeaderAlwaysCorrect == Spec => []HeaderCorrect
<1>1. HeaderInv => HeaderCorrect
  <2>1. SUFFICES ASSUME HeaderInv, pc = "sent"
                 PROVE  HeaderFitsBody /\ FieldsKept
    BY DEF HeaderCorrect, HeaderFitsBody, FieldsKept
  <2>2. Formed(msg, draft)
    BY <2>1 DEF HeaderInv
  <2>3. HeaderFitsBody
    BY <2>2 DEF Formed, HeaderFitsBody, Rewrapped
  <2>4. Carried = IF Rewrapped THEN KeptAt(draft.header) ELSE DOMAIN draft.header
    BY DEF Carried, KeptAt, DescribesBody, Replaced
  <2>5. Faithful(msg.header, draft.header, Carried)
    BY <2>2, <2>4 DEF Formed, Rewrapped
  <2>6. PICK at \in [Carried -> DOMAIN msg.header] :
           /\ \A i, j \in Carried : msg.header[at[i]] = draft.header[i] /\ (i < j => at[i] < at[j])
           /\ Relays(DOMAIN msg.header \ {at[i] : i \in Carried}, msg.header, draft.header)
    BY <2>5 DEF Faithful
  <2>7. at \in Places
    BY <2>6 DEF Places
  <2>8. FieldsKept
    BY <2>6, <2>7 DEF FieldsKept, Relays
  <2>9. QED
    BY <2>3, <2>8
<1>2. QED
  BY InitBody, NextBody, InitHeader, NextHeader, <1>1, PTL DEF Spec

\* Every body with one block arrives as that block, and the recipient is told
\* so by the content type.
THEOREM BlockAlwaysArrives == Spec => []BlockArrives
<1>1. BodyInv /\ HeaderInv /\ BlockSent => BlockArrives
  BY DEF HeaderInv, Rewrapped, BlockArrives
<1>2. QED
  BY InitBody, NextBody, InitHeader, NextHeader, BlockAlwaysSent, <1>1, PTL DEF Spec
=============================================================================
