------------------------------ MODULE MCBnCtx ------------------------------
(* The allocator under an arbitrary caller, for TLC. *)
EXTENDS BnCtx

MCArraySize == 3
MCData == {1, 2}
=============================================================================
