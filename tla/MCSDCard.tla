------------------------------ MODULE MCSDCard ------------------------------
(***************************************************************************)
(* SDCard for TLC: transfers of two chunks through rw_buffer and of one    *)
(* without it, one of them past the end of a card, by sectors that a card  *)
(* of the other capacity would take for others.                            *)
(***************************************************************************)
EXTENDS SDCard

Request(op, via, sector, n) == [op |-> op, via |-> via, sector |-> sector, n |-> n]

MCRequests == {Request("read", "bounce", 2, 3), Request("write", "bounce", 2, 3),
               Request("read", "direct", 2, 2), Request("read", "direct", 10, 2)}
=============================================================================
