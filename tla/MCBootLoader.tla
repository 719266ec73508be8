---------------------------- MODULE MCBootLoader ----------------------------
(* Words of two bytes of eight values, sectors of six words: a header takes  *)
(* four.  Programs of one sector and of two, and one for whose header a       *)
(* sector too few is erased.                                                 *)
EXTENDS BootLoader

Small == [base |-> 4, bytes |-> <<3, 0, 5>>]
Large == [base |-> 0, bytes |-> <<1, 2, 3, 4, 5, 6, 7, 0, 2, 2, 6, 5>>]
Tight == [base |-> 0, bytes |-> <<1, 2, 3, 4, 5, 6, 7>>]

Programs == {Small, Large, Tight}
OneProgram == {Small}
=============================================================================
