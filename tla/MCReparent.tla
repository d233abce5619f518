----------------------------- MODULE MCReparent -----------------------------
(***************************************************************************)
(* Instances of Reparent for TLC.                                          *)
(***************************************************************************)
EXTENDS Reparent

CONSTANTS sa, sb, sc, m1

Single(s, t)  == [kind |-> "single", subject |-> s, target |-> t]
Promote(s, t) == [kind |-> "promotion", subject |-> s, target |-> t]
Peer(s, t)    == [kind |-> "peer", subject |-> s, target |-> t]

Three == {sa, sb, sc}
OneMessage == {m1}
ToChild == [m \in {m1} |-> sc]
NoMessages == [m \in {} |-> sc]

\* sb below sc, sa alone: sa below sb and sc below sa are harmless one by one.  The roots
\* may also merge, and sb may take the place of sc.
Chain == [s \in Three |-> IF s = sb THEN sc ELSE None]
Crossing == {Single(sa, sb), Single(sc, sa), Single(sb, sa), Promote(sc, sb), Peer(sc, sa)}
OnlyC == {sc}

\* sc below sa, sb the new parent
Family == [s \in Three |-> IF s = sc THEN sa ELSE None]
Handover == {Single(sc, sb), Promote(sa, sc)}
=============================================================================
