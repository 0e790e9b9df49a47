---------------------------- MODULE ReductionCtx ----------------------------
(***************************************************************************)
(* The BN_MONT_CTX and BN_RECP_CTX support routines of ctx_bn.c: each       *)
(* context owns two standard bignums.  ctx_bn.c only initialises, sets up   *)
(* (the reciprocal context) and frees them; the Montgomery setup and the    *)
(* reduction code that fills RR and Nr are outside this file and appear as  *)
(* arbitrary sane writes.  The modulus handed to BN_RECP_CTX_set is any     *)
(* sane standard or BIGNUM_EXT bignum.                                      *)
(***************************************************************************)
EXTENDS Bignum

CONSTANTS
  MaxRi,        \* bytesToBits( CRYPT_MAX_PKCSIZE ): the bound on ri
  MontValues    \* what the Montgomery setup may write into RR and N

ASSUME MaxRiAssumption == MaxRi \in Nat

VARIABLES
  mont,   \* BN_MONT_CTX: RR, N, ri, flags
  recp    \* BN_RECP_CTX: N, Nr, num_bits

redVars == <<mont, recp>>

(* The sane bignums of the standard and the BIGNUM_EXT classes: what the   *)
(* arithmetic code may pass in or leave behind.                            *)
SizeOf(flags) == getBNMaxSize([d |-> Zeros, dmax |-> 0, top |-> 0, neg |-> FALSE,
                                flags |-> flags])
SaneOf(flags) ==
  {[d |-> dd, dmax |-> SizeOf(flags), top |-> t, neg |-> n, flags |-> flags] :
     dd \in {w \in [Index -> Word] : \A i \in Index : i >= SizeOf(flags) => w[i] = 0},
     t \in 0 .. SizeOf(flags), n \in BOOLEAN}
Moduli == SaneOf({}) \cup SaneOf({"ALLOC_EXT"})

ASSUME MontValuesAssumption == MontValues \subseteq SaneOf({})

sanityCheckBNMontCTX(m) ==
  /\ sanityCheckBignum(m.RR)
  /\ sanityCheckBignum(m.N)
  /\ m.ri \in 0 .. MaxRi
  /\ m.flags \in {{}, {"MALLOCED"}}

BN_MONT_CTX_init == [RR |-> BN_init, N |-> BN_init, ri |-> 0, flags |-> {}]

(* The clFree of a BN_MONT_CTX_new'ed context is not modelled. *)
BN_MONT_CTX_free(m) == [m EXCEPT !.RR = BN_clear(@), !.N = BN_clear(@)]

BN_RECP_CTX_init == [N |-> BN_init, Nr |-> BN_init, num_bits |-> 0]

BN_RECP_CTX_free(c) == [c EXCEPT !.N = BN_clear(@), !.Nr = BN_clear(@)]

(* BN_zero, the macro: BN_set_word( bignum, 0 ). *)
BN_zero(b) == BN_set_word(b, 0).bn

(* Mutation: BN_RECP_CTX_set without the re-initialisation and BN_zero, so *)
(* Nr keeps what the previous reduction left.                              *)
BN_RECP_CTX_set_noReset(c, d) ==
  LET cp == BN_copy(c.N, d)
  IN  IF ~cp.ok THEN [ok |-> FALSE, ctx |-> c]
      ELSE [ok |-> TRUE, ctx |-> [c EXCEPT !.N = cp.bn, !.num_bits = BN_num_bits(d)]]

(* Mutation: BN_RECP_CTX_set copying the modulus without BN_copy's room   *)
(* check.                                                                  *)
BN_RECP_CTX_set_rawCopy(c, d) ==
  [ok |-> TRUE,
   ctx |-> [BN_RECP_CTX_init EXCEPT !.N = [@ EXCEPT !.d = d.d, !.top = d.top,
                                                     !.neg = d.neg],
                                    !.num_bits = BN_num_bits(d)]]

(* BN_RECP_CTX_set: re-initialise, copy d into the standard-size N (which   *)
(* fails, leaving the fresh context, if d has more words than N has room   *)
(* for), zero Nr and record BN_num_bits(d).                                *)
BN_RECP_CTX_set(c, d) ==
  LET c0 == BN_RECP_CTX_init
      cp == BN_copy(c0.N, d)
  IN  IF ~cp.ok THEN [ok |-> FALSE, ctx |-> c0]
      ELSE [ok |-> TRUE,
            ctx |-> [c0 EXCEPT !.N = cp.bn, !.Nr = BN_zero(c0.Nr),
                               !.num_bits = BN_num_bits(d)]]

RedInit == mont = BN_MONT_CTX_init /\ recp = BN_RECP_CTX_init

MontInit == mont' = BN_MONT_CTX_init /\ UNCHANGED recp

MontFree == mont' = BN_MONT_CTX_free(mont) /\ UNCHANGED recp

(* The Montgomery setup outside this file: a modulus in N, R^2 in RR. *)
MontArith ==
  /\ \E n, rr \in MontValues, ri \in 0 .. MaxRi :
       mont' = [mont EXCEPT !.N = n, !.RR = rr, !.ri = ri]
  /\ UNCHANGED recp

RecpInit == recp' = BN_RECP_CTX_init /\ UNCHANGED mont

RecpFree == recp' = BN_RECP_CTX_free(recp) /\ UNCHANGED mont

RecpSet == \E d \in Moduli : recp' = BN_RECP_CTX_set(recp, d).ctx /\ UNCHANGED mont

(* The Barrett code outside this file computing the reciprocal into Nr. *)
RecpArith == \E nr \in SaneOf({}) : recp' = [recp EXCEPT !.Nr = nr] /\ UNCHANGED mont

RedNext ==
  \/ MontInit \/ MontFree \/ MontArith
  \/ RecpInit \/ RecpFree \/ RecpSet \/ RecpArith

RedSpec == RedInit /\ [][RedNext]_redVars

-----------------------------------------------------------------------------
(* Both contexts stay well formed: the Montgomery context passes           *)
(* sanityCheckBNMontCTX and the reciprocal context's bignums pass          *)
(* sanityCheckBignum, with num_bits a bit count of a standard bignum.       *)
RedTypeOK ==
  /\ mont \in [RR : Bignums, N : Bignums, ri : Int, flags : SUBSET Flags]
  /\ sanityCheckBNMontCTX(mont)
  /\ recp \in [N : Bignums, Nr : Bignums, num_bits : -1 .. AllocWords * WordBits]
  /\ sanityCheckBignum(recp.N) /\ sanityCheckBignum(recp.Nr)

(* Spec section 4.3: a successful BN_RECP_CTX_set on a normalised modulus  *)
(* leaves N holding the modulus, Nr zero and num_bits the modulus' bit     *)
(* length, whatever the context held before.                               *)
RecpSetRecords ==
  \A d \in Moduli :
    LET s == BN_RECP_CTX_set(recp, d)
    IN  s.ok /\ Normalised(d) =>
          /\ Mag(s.ctx.N) = Mag(d) /\ s.ctx.N.neg = d.neg
          /\ Mag(s.ctx.Nr) = 0
          /\ s.ctx.num_bits = BitLength(Mag(d))
=============================================================================
