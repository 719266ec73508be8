----------------------------- MODULE MCNeoShell ------------------------------
(* Keys, accepted lines and FIFO sizes for NeoShell. *)
EXTENDS NeoShell

Letters == {97, 98}
MCChars == Letters \cup {BS, CR}
MCAccepted == {<<97>>, <<98, 97>>}
=============================================================================
