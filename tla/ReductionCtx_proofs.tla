------------------------- MODULE ReductionCtx_proofs -------------------------
(***************************************************************************)
(* Proofs about the BN_MONT_CTX and BN_RECP_CTX routines of ctx_bn.c, for   *)
(* every word size, every size class and every bound on ri: whatever        *)
(* sequence of init, free, BN_RECP_CTX_set and external setup runs, both    *)
(* contexts stay well formed (RedTypeOK).  The bignum lemmas are those of   *)
(* Bignum_proofs; the one new fact about the code is the range of          *)
(* BN_num_bits_word, from which num_bits stays a bit count of a standard    *)
(* bignum.                                                                  *)
(***************************************************************************)
EXTENDS ReductionCtx, Bignum_proofs

USE BignumAssumption, WordArithAssumption, MaxRiAssumption, MontValuesAssumption

(* The bit length of a word: BN_num_bits_word's loop clears any word in at *)
(* most BN_BITS2 passes, so it never reaches its bound of 128 and returns  *)
(* a count in 0 .. BN_BITS2.                                               *)
LEMMA NumBitsWordRange ==
  ASSUME NEW w \in Word
  PROVE  BN_num_bits_word(w) \in 0 .. WordBits
<1> DEFINE P(n) == /\ n = 128 \/ w \div 2 ^ n = 0
                   /\ \A k \in 0 .. n - 1 : w \div 2 ^ k # 0
           Z == {n \in 0 .. 128 : n = 128 \/ w \div 2 ^ n = 0}
<1>0. WordBits \in Nat \ {0} /\ WordBits < 128
  BY SizeFacts DEF WordBits
<1>1. w \div 2 ^ WordBits = 0
  <2>1. w \in 0 .. Radix - 1 /\ Radix \in Nat \ {0}
    BY DEF Word
  <2>2. w \div Radix = 0
    BY <2>1
  <2>3. QED
    BY <2>2 DEF Radix
<1>2. WordBits \in Z /\ Z \subseteq Nat
  BY <1>0, <1>1
<1>3. \E m \in Z : \A y \in Z : ~(<<y, m>> \in OpToRel(<, Nat))
  BY <1>2, NatLessThanWellFounded, WFMin
<1>4. PICK m \in Z : \A y \in Z : ~(y < m)
  BY <1>2, <1>3 DEF OpToRel
<1>5. P(m)
  <2>1. ASSUME NEW k \in 0 .. m - 1 PROVE w \div 2 ^ k # 0
    <3>1. k \in 0 .. 128 /\ k # 128 /\ k < m
      BY <1>4
    <3>2. k \notin Z
      BY <1>4, <3>1
    <3>3. QED
      BY <3>1, <3>2
  <2>2. QED
    BY <2>1, <1>4
<1>6. ASSUME NEW n \in 0 .. 128, P(n) PROVE n <= WordBits
  <2>1. SUFFICES ASSUME n > WordBits PROVE FALSE
    BY <1>0
  <2>2. WordBits \in 0 .. n - 1
    BY <1>0, <2>1
  <2>3. QED
    BY <1>1, <1>6, <2>2
<1> DEFINE i == CHOOSE n \in 0 .. 128 : P(n)
<1>7. i \in 0 .. 128 /\ P(i)
  BY <1>4, <1>5
<1>8. i \in 0 .. WordBits /\ i < 128
  <2>1. i <= WordBits
    BY <1>6, <1>7, Zenon
  <2>2. i \in 0 .. 128
    BY <1>7
  <2> HIDE DEF i
  <2>3. QED
    BY <1>0, <2>1, <2>2
<1>9. BN_num_bits_word(w) = i
  BY <1>8 DEF BN_num_bits_word
<1>10. QED
  BY <1>8, <1>9

-----------------------------------------------------------------------------
(* RedTypeOK with the four bignums well formed as Bignum_proofs means it:  *)
(* their words at and above dmax zero, which BN_clear, BN_copy and         *)
(* BN_set_word need to keep them sane.                                     *)
MontGood(m) ==
  /\ m \in [RR : Bignums, N : Bignums, ri : 0 .. MaxRi, flags : {{}, {"MALLOCED"}}]
  /\ Good(m.RR) /\ Good(m.N)

RecpGood(r) ==
  /\ r \in [N : Bignums, Nr : Bignums, num_bits : -1 .. AllocWords * WordBits]
  /\ Good(r.N) /\ Good(r.Nr)

RInv == MontGood(mont) /\ RecpGood(recp)

(* What the arithmetic code may leave in a standard or BIGNUM_EXT bignum is *)
(* well formed.                                                             *)
LEMMA SaneGood ==
  ASSUME NEW fl \in {{}, {"ALLOC_EXT"}}, NEW b \in SaneOf(fl)
  PROVE  Good(b)
<1>0. SizeOf(fl) = IF fl = {} THEN AllocWords ELSE ExtWords
  BY DEF SizeOf, getBNMaxSize
<1>1. PICK dd \in {g \in [Index -> Word] : \A i \in Index : i >= SizeOf(fl) => g[i] = 0},
           t \in 0 .. SizeOf(fl), n \in BOOLEAN :
        b = [d |-> dd, dmax |-> SizeOf(fl), top |-> t, neg |-> n, flags |-> fl]
  BY DEF SaneOf
<1>2. SizeOf(fl) = getBNMaxSize(b) /\ SizeOf(fl) \in 1 .. MaxWords
  <2>1. SizeOf(fl) = getBNMaxSize(b)
    BY <1>0, <1>1 DEF getBNMaxSize
  <2>2. QED
    BY <1>0, <2>1, SizeFacts
<1>3. b \in Bignums
  <2>1. SizeOf(fl) \in 0 .. MaxWords /\ t \in 0 .. MaxWords
    BY <1>1, <1>2, SizeFacts
  <2>2. fl \in SUBSET Flags /\ dd \in [Index -> Word]
    BY <1>1 DEF Flags
  <2>3. QED
    BY <1>1, <2>1, <2>2 DEF Bignums
<1>4. QED
  BY <1>1, <1>2, <1>3 DEF Good, sanityCheckBignum

(* BN_num_bits of a sane bignum with at most BIGNUM_ALLOC_WORDS words in   *)
(* use is a bit count of a standard bignum.                                *)
LEMMA NumBitsRange ==
  ASSUME NEW d, Good(d), d.top <= AllocWords
  PROVE  BN_num_bits(d) \in 0 .. AllocWords * WordBits
<1>0. WordBits \in Nat \ {0} /\ d.top \in 0 .. d.dmax /\ d.dmax \in 0 .. MaxWords
  BY SizeFacts DEF Good, Bignums, sanityCheckBignum
<1>1. CASE d.top <= 0
  <2>1. BN_num_bits(d) = 0
    BY <1>1 DEF Good, BN_num_bits
  <2>2. QED
    BY <1>0, <2>1
<1>2. CASE d.top > 0
  <2> DEFINE bits == BN_num_bits_word(d.d[d.top - 1])
  <2>1. d.d[d.top - 1] \in Word
    <3>1. d \in Bignums
      BY DEF Good
    <3>2. d.d \in [Index -> Word]
      BY <3>1 DEF Bignums
    <3>3. d.top - 1 \in Index
      BY <1>0, <1>2, SizeFacts DEF Index
    <3>4. QED
      BY <3>2, <3>3
  <2>2. bits \in 0 .. WordBits
    BY <2>1, NumBitsWordRange
  <2>3. BN_num_bits(d) = (d.top - 1) * WordBits + bits
    <3>1. sanityCheckBignum(d) /\ ~(d.top <= 0) /\ ~(bits < 0)
      <4>1. sanityCheckBignum(d)
        BY DEF Good
      <4>2. ~(bits < 0)
        BY <1>0, <2>2
      <4>3. QED
        BY <1>0, <1>2, <4>1, <4>2
    <3> HIDE DEF bits
    <3>2. QED
      BY <3>1 DEF BN_num_bits, bits
  <2>4. (d.top - 1) * WordBits \in 0 .. (AllocWords - 1) * WordBits
    BY <1>0, <1>2
  <2>5. (AllocWords - 1) * WordBits + WordBits = AllocWords * WordBits
    BY <1>0
  <2> HIDE DEF bits
  <2>6. QED
    BY <1>0, <2>2, <2>3, <2>4, <2>5
<1>3. QED
  BY <1>1, <1>2, <1>0

-----------------------------------------------------------------------------
(* The well-formed invariant gives RedTypeOK. *)
LEMMA RInvTyped ==
  ASSUME RInv
  PROVE  RedTypeOK
<1>1. MontGood(mont) /\ RecpGood(recp)
  BY DEF RInv
<1>2. mont \in [RR : Bignums, N : Bignums, ri : Int, flags : SUBSET Flags]
  BY <1>1 DEF MontGood, Flags
<1>3. sanityCheckBNMontCTX(mont)
  BY <1>1 DEF MontGood, Good, sanityCheckBNMontCTX
<1>4. QED
  BY <1>1, <1>2, <1>3 DEF RecpGood, Good, RedTypeOK

(* BN_RECP_CTX_set leaves a well-formed context whatever it held: N holds  *)
(* the copy or is fresh, Nr is zero, and num_bits counts the bits of at    *)
(* most BIGNUM_ALLOC_WORDS words, since the copy succeeds only for such d. *)
LEMMA RecpSetGood ==
  ASSUME NEW c, NEW d, Good(d)
  PROVE  RecpGood(BN_RECP_CTX_set(c, d).ctx)
<1> DEFINE cp == BN_copy(BN_init, d)
<1>1. Good(BN_init) /\ BN_init \in Bignums
  BY InitGood DEF Good
<1>2. 0 \in -1 .. AllocWords * WordBits
  BY SizeFacts
<1>3. CASE ~cp.ok
  <2>1. BN_RECP_CTX_set(c, d).ctx = [N |-> BN_init, Nr |-> BN_init, num_bits |-> 0]
    BY <1>3 DEF BN_RECP_CTX_set, BN_RECP_CTX_init
  <2>2. QED
    BY <1>1, <1>2, <2>1 DEF RecpGood
<1>4. CASE cp.ok
  <2>1. Good(cp.bn)
    BY <1>1, CopyGood DEF GoodAs
  <2>2. d.top <= AllocWords
    <3>1. BN_init.dmax >= d.top
      BY <1>4 DEF BN_copy
    <3>2. QED
      BY <3>1 DEF BN_init
  <2>3. Good(BN_zero(BN_init))
    BY <1>1, SizeFacts, SetWordGood DEF BN_zero, GoodAs
  <2>4. BN_num_bits(d) \in -1 .. AllocWords * WordBits
    BY <2>2, NumBitsRange
  <2>5. BN_RECP_CTX_set(c, d).ctx =
          [N |-> cp.bn, Nr |-> BN_zero(BN_init), num_bits |-> BN_num_bits(d)]
    BY <1>4 DEF BN_RECP_CTX_set, BN_RECP_CTX_init
  <2>6. QED
    BY <2>1, <2>3, <2>4, <2>5 DEF RecpGood, Good
<1>5. QED
  BY <1>3, <1>4

(* BN_MONT_CTX_init and BN_RECP_CTX_init set up well-formed contexts. *)
LEMMA InitsGood ==
  MontGood(BN_MONT_CTX_init) /\ RecpGood(BN_RECP_CTX_init)
<1>1. Good(BN_init) /\ BN_init \in Bignums
  BY InitGood DEF Good
<1>2. 0 \in 0 .. MaxRi /\ 0 \in -1 .. AllocWords * WordBits
  BY SizeFacts
<1>3. QED
  BY <1>1, <1>2 DEF MontGood, RecpGood, BN_MONT_CTX_init, BN_RECP_CTX_init

(* Every step of the routines and of the code outside ctx_bn.c keeps both *)
(* contexts well formed.                                                  *)
LEMMA RStep ==
  ASSUME RInv, [RedNext]_redVars
  PROVE  RInv'
<1>0. MontGood(mont) /\ RecpGood(recp)
  BY DEF RInv
<1>1. CASE MontInit
  BY <1>0, <1>1, InitsGood DEF MontInit, RInv
<1>2. CASE MontFree
  <2>1. GoodAs(BN_clear(mont.RR), mont.RR) /\ GoodAs(BN_clear(mont.N), mont.N)
    BY <1>0, ClearGood DEF MontGood
  <2>2. MontGood(BN_MONT_CTX_free(mont))
    BY <1>0, <2>1 DEF MontGood, BN_MONT_CTX_free, GoodAs, Good
  <2>3. QED
    BY <1>0, <1>2, <2>2 DEF MontFree, RInv
<1>3. CASE MontArith
  <2>1. PICK n \in MontValues, rr \in MontValues, ri \in 0 .. MaxRi :
          mont' = [mont EXCEPT !.N = n, !.RR = rr, !.ri = ri]
    BY <1>3 DEF MontArith
  <2>2. Good(n) /\ Good(rr)
    BY SaneGood
  <2>3. MontGood(mont')
    BY <1>0, <2>1, <2>2 DEF MontGood, Good
  <2>4. QED
    BY <1>0, <1>3, <2>3 DEF MontArith, RInv
<1>4. CASE RecpInit
  BY <1>0, <1>4, InitsGood DEF RecpInit, RInv
<1>5. CASE RecpFree
  <2>1. GoodAs(BN_clear(recp.N), recp.N) /\ GoodAs(BN_clear(recp.Nr), recp.Nr)
    BY <1>0, ClearGood DEF RecpGood
  <2>2. RecpGood(BN_RECP_CTX_free(recp))
    BY <1>0, <2>1 DEF RecpGood, BN_RECP_CTX_free, GoodAs, Good
  <2>3. QED
    BY <1>0, <1>5, <2>2 DEF RecpFree, RInv
<1>6. CASE RecpSet
  <2>1. PICK d \in Moduli : recp' = BN_RECP_CTX_set(recp, d).ctx
    BY <1>6 DEF RecpSet
  <2>2. Good(d)
    BY SaneGood DEF Moduli
  <2>3. QED
    BY <1>0, <1>6, <2>1, <2>2, RecpSetGood DEF RecpSet, RInv
<1>7. CASE RecpArith
  <2>1. PICK nr \in SaneOf({}) : recp' = [recp EXCEPT !.Nr = nr]
    BY <1>7 DEF RecpArith
  <2>2. Good(nr)
    BY SaneGood
  <2>3. RecpGood(recp')
    BY <1>0, <2>1, <2>2 DEF RecpGood, Good
  <2>4. QED
    BY <1>0, <1>7, <2>3 DEF RecpArith, RInv
<1>8. CASE UNCHANGED redVars
  BY <1>0, <1>8 DEF redVars, RInv
<1>9. QED
  BY <1>1, <1>2, <1>3, <1>4, <1>5, <1>6, <1>7, <1>8 DEF RedNext

(* RedTypeOK of reduction_ctx, for every word size, size class and bound   *)
(* on ri: whatever sequence of BN_MONT_CTX_init, BN_MONT_CTX_free,         *)
(* BN_RECP_CTX_init, BN_RECP_CTX_free, BN_RECP_CTX_set and external setup  *)
(* runs, the Montgomery context passes sanityCheckBNMontCTX, the           *)
(* reciprocal context's bignums stay sane, and num_bits stays a bit count  *)
(* of a standard bignum, also when BN_RECP_CTX_set is handed a BIGNUM_EXT  *)
(* modulus too wide for its N.                                             *)
THEOREM RedTypeCorrect == RedSpec => []RedTypeOK
<1>1. RedInit => RInv
  BY InitsGood DEF RedInit, RInv
<1>2. RInv /\ [RedNext]_redVars => RInv'
  BY RStep
<1>3. RInv => RedTypeOK
  BY RInvTyped
<1>4. QED
  BY <1>1, <1>2, <1>3, PTL DEF RedSpec

=============================================================================
