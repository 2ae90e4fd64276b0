----------------------------- MODULE MCGateway -----------------------------
(***************************************************************************)
(* Two session identifiers and a few numbered events: a session is        *)
(* replaced, resumed with events missing, and dropped after StrikeLimit    *)
(* failed rounds.                                                          *)
(***************************************************************************)
EXTENDS Gateway

CONSTANTS s1, s2
=============================================================================
