----------------------------- MODULE MCOutbound -----------------------------
(* Two correspondents and an address without a domain. Message m1 names     *)
(* nobody and is sent, if at all, to the recipients the client asks for; m2 *)
(* goes to both correspondents and has an HTML alternative. The client puts   *)
(* p2 into the From of m1. Server d2 may never answer. The account is        *)
(* exempt from the reply rule in the first configuration.                  *)
EXTENDS Outbound, TLC
CONSTANTS p1, p2, bad, me, l1, m1, m2, d1, d2
MCPeer == {p1, p2, bad}
MCDomainOf == p1 :> d1 @@ p2 :> d2 @@ bad :> None
MCFrom == l1 :> p1 @@ m1 :> p2 @@ m2 :> me
MCTo == m1 :> {} @@ m2 :> {p1, p2}
MCKind == m1 :> "plain" @@ m2 :> "plain"
MCConfig == {[relay |-> FALSE, reply |-> TRUE, exempt |-> {d1}, cap |-> 1],
             [relay |-> TRUE, reply |-> TRUE, exempt |-> {}, cap |-> 0]}
MCEnvelope == m1 :> {{}, {p2, bad}} @@ m2 :> {}
=============================================================================
