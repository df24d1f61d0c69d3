---------------------------- MODULE MCCrcSender -----------------------------
(***************************************************************************)
(* CrcSender for TLC.  Sizes are scaled down: gaps below 8 bytes are        *)
(* carried over, and the two filler sizes are on both sides of that bound:  *)
(* 16 (a low rate) and 4 (the default rate, where a gap that is filled      *)
(* never fits one filler).  The gaps cover nothing to fill, a remainder     *)
(* carried over, one filler, a gap that is split in two, and a long gap     *)
(* that fills the 3-entry array more than once.                             *)
(***************************************************************************)
EXTENDS CrcSender

MCEntries == [gap : {0, 3, 9, 25}, len : {2}]
MCLoads == UNION {[1 .. n -> MCEntries \cup {NULL}] : n \in 1 .. 2}

=============================================================================
