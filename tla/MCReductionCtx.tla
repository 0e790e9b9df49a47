--------------------------- MODULE MCReductionCtx ---------------------------
(* The reduction contexts over the bignums of MCBignum: 2-bit words, one   *)
(* word in a standard bignum, two in a BIGNUM_EXT, so that BN_RECP_CTX_set *)
(* meets moduli too wide for its standard-size N.                          *)
EXTENDS ReductionCtx

MCByteBits == 2
MCWordBytes == 1
MCAllocWords == 1
MCExtWords == 2
MCExt2Words == 2
MCMaxRi == 1
\* A modulus 3 and a value 2 with a stale word above top.
MCMontValues == {[d |-> [i \in Index |-> IF i = 0 THEN 3 ELSE 0], dmax |-> 1,
                  top |-> 1, neg |-> FALSE, flags |-> {}],
                 [d |-> [i \in Index |-> IF i = 0 THEN 2 ELSE 0], dmax |-> 1,
                  top |-> 0, neg |-> FALSE, flags |-> {}]}
=============================================================================
