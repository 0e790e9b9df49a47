------------------------------ MODULE MCBignum ------------------------------
(* Bignums of 2-bit words: a standard bignum of one word and extended ones *)
(* of two (BIGNUM_EXT2 alike), so that values wider than a standard bignum exist.               *)
EXTENDS BignumRegs

MCByteBits == 2
MCWordBytes == 1
MCAllocWords == 1
MCExtWords == 2
MCExt2Words == 2
MCExtRegs == {"x"}
\* Two extended bignums, for BN_swap between bignums larger than a standard one.
MCExtRegsTwo == {"x", "y"}
=============================================================================
