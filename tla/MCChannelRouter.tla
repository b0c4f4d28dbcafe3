-------------------------- MODULE MCChannelRouter --------------------------
(* A small instance of ChannelRouter for TLC: one text message, a "/cancel" *)
(* of its run and one unsupported message, and one scheduled target.        *)
EXTENDS ChannelRouter

CONSTANTS t1, c1, u1, g1

CancelOne == [c \in {c1} |-> t1]
=============================================================================
