--------------------------- MODULE MCMessageFormat ---------------------------
EXTENDS MessageFormat

\* A text message, one in another encoding, one that has its own Chat-Version,
\* one whose subject quotes a PGP marker, one with an Autocrypt field of the
\* client's, and one with two content types and a Chat-Version in other letters.
MCHeader == {<<"subject", "content-type">>,
             <<"subject", "content-type", "content-transfer-encoding">>,
             <<"subject", "chat-version", "content-type">>,
             <<"subjectBEGIN", "content-type">>,
             <<"subject", "content-type", "autocrypt">>,
             <<"chat-VERSION", "content-type", "content-type">>}

\* What is kept of a header, here of any with up to four fields, is what a
\* filter of its fields keeps.
ASSUME KeptIsFilter ==
    \A h \in UNION {[1..n -> Replaced \cup {"subject", "chat-version"}] : n \in 0..4} :
        Kept(h) = SelectSeq(h, LAMBDA field : field \notin Replaced)
=============================================================================
