------------------------------ MODULE MCNeoExec ------------------------------
(* Transactions for NeoExec: every kind of command, alone and chained, payloads *)
(* that share the pool, and reads of zero, one and several bytes.               *)
EXTENDS NeoExec

Cmd(kind, ctrl, addr) ==
    [kind |-> kind, ctrl_byte |-> ctrl, internal_addr |-> addr, rd_len |-> 0,
     rd_fmt |-> FMT_NONE, payload_off |-> 0, payload_len |-> 0, gpio_byte |-> 0]
Write(off, len) == [Cmd("write", 160, 16) EXCEPT !.payload_off = off, !.payload_len = len]
Read(len, f) == [Cmd("read", 163, 5) EXCEPT !.rd_len = len, !.rd_fmt = f]

Txn(c, p) == [cmds |-> c, pool |-> p]
MCTxns == {Txn(<<Write(0, 2)>>, <<255, 9>>), Txn(<<Write(0, 0)>>, <<>>),
           Txn(<<Read(0, FMT_NONE)>>, <<>>), Txn(<<Read(2, ch_a)>>, <<>>),
           Txn(<<Write(0, 1), Write(1, 1)>>, <<7, 161>>),
           Txn(<<Write(0, 1), Read(1, ch_b)>>, <<7>>),
           Txn(<<[Cmd("gpio_out", 0, 0) EXCEPT !.gpio_byte = 179]>>, <<>>),
           Txn(<<Cmd("gpio_in", 0, 0)>>, <<>>), Txn(<<Cmd("help", 0, 0)>>, <<>>)}
=============================================================================
