----------------------------- MODULE MCSpiFlash ------------------------------
(* A flash of three sectors of two pages of four bytes, and calls at, across and *)
(* beyond the boundaries of pages and sectors.                                   *)
EXTENDS SpiFlash

a == {}
b == {0}
c == {1}
d == {0, 1}

Call(op, addr, length, data) == [op |-> op, addr |-> addr, length |-> length, data |-> data]

MCJobs == {Call("check", 0, 0, <<>>), Call("read_byte", 5, 1, <<>>), Call("read_page", 22, 9, <<>>),
           Call("write_byte", 7, 1, <<c>>), Call("write_word", 8, 4, <<b, c, a, d>>),
           Call("write_word", 9, 4, <<b, c, a, d>>), Call("write_page", 0, 2, <<c, b>>),
           Call("write_page", 20, 7, <<b, c, d, c, d, d, b>>), Call("write_page", 3, 0, <<>>),
           Call("write_page", 22, 4, <<b, c, a, d>>),
           Call("erase_sector", 8, 0, <<>>), Call("erase_sector", 23, 0, <<>>),
           Call("write_huge", 0, 13, <<b, c, d, b>>), Call("write_huge", 8, 30, <<c, c, a, d>>),
           Call("write_huge", 4, 8, <<c, d, b, c>>)}

\* Two pages of different data.
TwoPages == {Call("write_huge", 8, 8, <<b, b, b, b, c, c, c, c>>)}
=============================================================================
