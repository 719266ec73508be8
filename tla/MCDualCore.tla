----------------------------- MODULE MCDualCore -----------------------------
(* A caller of neorv32_smp_launch that tries again, with another stack. *)
EXTENDS DualCore

Twice == <<1, 2>>
Once == <<1>>
=============================================================================
