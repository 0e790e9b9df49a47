------------------------- MODULE BignumValue_proofs -------------------------
(***************************************************************************)
(* Proofs about the values the bignum operations of ctx_bn.c leave behind, *)
(* for every word size and size class: BN_copy copies the value exactly     *)
(* when it reports success, and BN_swap never loses one of its two values.  *)
(* The value of a bignum (Mag) is a recursive function of its words; the    *)
(* proofs use only that it depends on top and the words below top, which    *)
(* holds without computing it.                                              *)
(***************************************************************************)
EXTENDS Bignum_proofs

USE BignumAssumption, WordArithAssumption

(* Two bignums with the same top and the same words below it have the same *)
(* value: the recursive definition of Mag reads nothing else.               *)
LEMMA MagCong ==
  ASSUME NEW b1, NEW b2, b1.top = b2.top, b1.top \in Nat,
         \A i \in 0 .. b1.top - 1 : b1.d[i] = b2.d[i]
  PROVE  Mag(b1) = Mag(b2)
<1> DEFINE F1(a) == [k \in 0 .. b1.top |->
                       IF k = 0 THEN 0 ELSE a[k - 1] + b1.d[k - 1] * Radix ^ (k - 1)]
           F2(a) == [k \in 0 .. b2.top |->
                       IF k = 0 THEN 0 ELSE a[k - 1] + b2.d[k - 1] * Radix ^ (k - 1)]
<1>1. \A a : F1(a) = F2(a)
  OBVIOUS
<1>2. (CHOOSE a : a = F1(a)) = (CHOOSE a : a = F2(a))
  BY <1>1
<1>3. QED
  BY <1>2 DEF Mag

(* The partial sums of Mag over a word array dd up to n words: AccF is the *)
(* recursive definition's functional, Acc the function it defines.         *)
AccF(dd, n, a) == [k \in 0 .. n |->
                     IF k = 0 THEN 0 ELSE a[k - 1] + dd[k - 1] * Radix ^ (k - 1)]
Acc(dd, n) == CHOOSE a : a = AccF(dd, n, a)

(* Mag is the last partial sum of its words below top. *)
LEMMA MagAcc ==
  ASSUME NEW b
  PROVE  Mag(b) = Acc(b.d, b.top)[b.top]
BY DEF Mag, Acc, AccF

(* The recursive definition of the partial sums has a solution for every   *)
(* length: the least length without one would extend the solution one     *)
(* shorter.                                                                 *)
LEMMA AccExists ==
  ASSUME NEW dd, NEW n \in Nat
  PROVE  \E a : a = AccF(dd, n, a)
<1> DEFINE Bad == {m \in 0 .. n : ~\E a : a = AccF(dd, m, a)}
<1>1. SUFFICES n \notin Bad
  <2>1. n \in 0 .. n
    OBVIOUS
  <2>2. QED
    BY <1>1, <2>1
<1>2. SUFFICES ASSUME n \in Bad PROVE FALSE
  OBVIOUS
<1>0. Bad \subseteq Nat /\ Bad # {}
  <2>1. 0 .. n \subseteq Nat
    OBVIOUS
  <2>2. QED
    BY <1>2, <2>1, Zenon
<1>3. \E m \in Bad : \A y \in Bad : ~(<<y, m>> \in OpToRel(<, Nat))
  BY <1>0, NatLessThanWellFounded, WFMin
<1>4. PICK m \in Bad : \A y \in Bad : ~(y < m)
  BY <1>0, <1>3 DEF OpToRel
<1>5. CASE m = 0
  <2>1. [k \in 0 .. 0 |-> 0] = AccF(dd, 0, [k \in 0 .. 0 |-> 0])
    BY DEF AccF
  <2>2. QED
    BY <1>4, <1>5, <2>1
<1>6. CASE m > 0
  <2>1. m - 1 \in 0 .. n /\ m - 1 \notin Bad
    BY <1>4, <1>6
  <2>2. PICK a0 : a0 = AccF(dd, m - 1, a0)
    BY <2>1
  <2> DEFINE a1 == [k \in 0 .. m |->
                     IF k < m THEN a0[k] ELSE a0[m - 1] + dd[m - 1] * Radix ^ (m - 1)]
  <2>3. ASSUME NEW k \in 0 .. m
        PROVE  a1[k] = IF k = 0 THEN 0 ELSE a1[k - 1] + dd[k - 1] * Radix ^ (k - 1)
    <3>1. CASE k = 0
      <4>1. a1[k] = a0[0]
        BY <1>6, <3>1
      <4>2. a0[0] = 0
        BY <2>2, <1>6 DEF AccF
      <4>3. QED
        BY <3>1, <4>1, <4>2
    <3>2. CASE k > 0 /\ k < m
      <4>1. a1[k] = a0[k] /\ a1[k - 1] = a0[k - 1]
        BY <3>2
      <4>2. a0[k] = a0[k - 1] + dd[k - 1] * Radix ^ (k - 1)
        <5>1. k \in 0 .. m - 1
          BY <3>2
        <5>2. QED
          BY <2>2, <3>2, <5>1 DEF AccF
      <4>3. QED
        BY <3>2, <4>1, <4>2
    <3>3. CASE k = m
      <4>1. a1[k - 1] = a0[m - 1]
        BY <1>6, <3>3
      <4>2. QED
        BY <1>6, <3>3, <4>1
    <3>4. QED
      BY <3>1, <3>2, <3>3
  <2>4. a1 = AccF(dd, m, a1)
    BY <2>3 DEF AccF
  <2>5. QED
    BY <1>4, <2>4
<1>7. QED
  BY <1>5, <1>6

(* Acc satisfies the recursive definition. *)
LEMMA AccDef ==
  ASSUME NEW dd, NEW n \in Nat
  PROVE  Acc(dd, n) = AccF(dd, n, Acc(dd, n))
BY AccExists DEF Acc

(* The first partial sum is 0 and each next one adds the next word at its *)
(* weight.                                                                  *)
LEMMA AccUnfold ==
  ASSUME NEW dd, NEW n \in Nat
  PROVE  /\ Acc(dd, n)[0] = 0
         /\ \A k \in 1 .. n :
               Acc(dd, n)[k] = Acc(dd, n)[k - 1] + dd[k - 1] * Radix ^ (k - 1)
<1>1. Acc(dd, n) = AccF(dd, n, Acc(dd, n))
  BY AccDef
<1>2. Acc(dd, n)[0] = 0
  BY <1>1 DEF AccF
<1>3. ASSUME NEW k \in 1 .. n
      PROVE  Acc(dd, n)[k] = Acc(dd, n)[k - 1] + dd[k - 1] * Radix ^ (k - 1)
  <2>1. k \in 0 .. n /\ k # 0
    OBVIOUS
  <2>2. QED
    BY <1>1, <2>1 DEF AccF
<1>4. QED
  BY <1>2, <1>3

(* A nonempty set of naturals has a least element. *)
LEMMA LeastNat ==
  ASSUME NEW S, S \subseteq Nat, S # {}
  PROVE  \E m \in S : \A y \in S : ~(y < m)
<1>1. \E m \in S : \A y \in S : ~(<<y, m>> \in OpToRel(<, Nat))
  BY NatLessThanWellFounded, WFMin
<1>2. QED
  BY <1>1 DEF OpToRel

(* The partial sums up to m words are the first m + 1 of those up to any   *)
(* n >= m words.                                                            *)
LEMMA AccPrefix ==
  ASSUME NEW dd, NEW m \in Nat, NEW n \in Nat, m <= n
  PROVE  \A k \in 0 .. m : Acc(dd, m)[k] = Acc(dd, n)[k]
<1> DEFINE Bad == {k \in 0 .. m : Acc(dd, m)[k] # Acc(dd, n)[k]}
<1>1. SUFFICES ASSUME Bad # {} PROVE FALSE
  OBVIOUS
<1>2. Bad \subseteq Nat
  OBVIOUS
<1>3. PICK k \in Bad : \A y \in Bad : ~(y < k)
  BY <1>1, <1>2, LeastNat
<1>4. CASE k = 0
  BY <1>3, <1>4, AccUnfold
<1>5. CASE k # 0
  <2>1. k - 1 \in 0 .. m /\ k - 1 \notin Bad /\ k \in 1 .. m /\ k \in 1 .. n
    BY <1>3, <1>5
  <2>2. Acc(dd, m)[k - 1] = Acc(dd, n)[k - 1]
    BY <2>1
  <2>3. QED
    BY <1>3, <2>1, <2>2, AccUnfold
<1>6. QED
  BY <1>4, <1>5

(* The partial sums of integer words are integers. *)
LEMMA AccInt ==
  ASSUME NEW dd, NEW n \in Nat, \A i \in 0 .. n - 1 : dd[i] \in Int
  PROVE  \A k \in 0 .. n : Acc(dd, n)[k] \in Int
<1> DEFINE Bad == {k \in 0 .. n : Acc(dd, n)[k] \notin Int}
<1>1. SUFFICES ASSUME Bad # {} PROVE FALSE
  OBVIOUS
<1>2. Bad \subseteq Nat
  OBVIOUS
<1>3. PICK k \in Bad : \A y \in Bad : ~(y < k)
  BY <1>1, <1>2, LeastNat
<1>4. CASE k = 0
  BY <1>3, <1>4, AccUnfold
<1>5. CASE k # 0
  <2>1. k - 1 \in 0 .. n /\ k - 1 \notin Bad /\ k \in 1 .. n /\ k - 1 \in 0 .. n - 1
    BY <1>3, <1>5
  <2>2. Acc(dd, n)[k - 1] \in Int /\ dd[k - 1] \in Int /\ Radix ^ (k - 1) \in Int
    BY <2>1, WordArithAssumption
  <2>3. Acc(dd, n)[k] = Acc(dd, n)[k - 1] + dd[k - 1] * Radix ^ (k - 1)
    BY <2>1, AccUnfold
  <2>4. QED
    BY <1>3, <2>2, <2>3
<1>6. QED
  BY <1>4, <1>5

(* Zero words above t add nothing: the partial sums from t on are equal.   *)
LEMMA AccZeroTail ==
  ASSUME NEW dd, NEW n \in Nat, NEW t \in 0 .. n,
         \A i \in 0 .. n - 1 : dd[i] \in Int,
         \A i \in t .. n - 1 : dd[i] = 0
  PROVE  Acc(dd, n)[n] = Acc(dd, n)[t]
<1> DEFINE Bad == {k \in t .. n : Acc(dd, n)[k] # Acc(dd, n)[t]}
<1>1. SUFFICES ASSUME Bad # {} PROVE FALSE
  <2>1. n \in t .. n
    OBVIOUS
  <2>2. QED
    BY <1>1, <2>1
<1>2. Bad \subseteq Nat
  OBVIOUS
<1>3. PICK k \in Bad : \A y \in Bad : ~(y < k)
  BY <1>1, <1>2, LeastNat
<1>4. k # t
  BY <1>3
<1>5. k - 1 \in t .. n /\ k - 1 \notin Bad /\ k \in 1 .. n /\ k - 1 \in t .. n - 1
      /\ k - 1 \in 0 .. n
  BY <1>3, <1>4
<1>6. Acc(dd, n)[k - 1] = Acc(dd, n)[t]
  BY <1>5
<1>7. Acc(dd, n)[t] \in Int /\ dd[k - 1] = 0 /\ Radix ^ (k - 1) \in Int
  BY <1>5, AccInt, WordArithAssumption
<1>8. Acc(dd, n)[k] = Acc(dd, n)[k - 1] + dd[k - 1] * Radix ^ (k - 1)
  BY <1>5, AccUnfold
<1>9. QED
  BY <1>3, <1>6, <1>7, <1>8

(* BN_copy between well-formed bignums succeeds exactly when dest has room *)
(* for src's top words; it then gives dest src's top, value and sign, and   *)
(* leaves dest's size; when it fails dest is untouched.                     *)
LEMMA CopyValue ==
  ASSUME NEW dst, NEW src, Good(dst), Good(src)
  PROVE  /\ BN_copy(dst, src).ok \in BOOLEAN
         /\ BN_copy(dst, src).ok <=> dst.dmax >= src.top
         /\ BN_copy(dst, src).ok =>
              /\ Mag(BN_copy(dst, src).bn) = Mag(src)
              /\ BN_copy(dst, src).bn.top = src.top
              /\ BN_copy(dst, src).bn.neg = src.neg
              /\ BN_copy(dst, src).bn.dmax = dst.dmax
              /\ BN_copy(dst, src).bn.flags = dst.flags
         /\ ~BN_copy(dst, src).ok => BN_copy(dst, src).bn = dst
<1> DEFINE dd == [i \in Index |-> IF i < src.top THEN src.d[i] ELSE dst.d[i]]
           nb == Mk(dd, dst.dmax, src.top, src.neg, dst.flags)
<1>0. dst \in Bignums /\ src \in Bignums /\ sanityCheckBignum(dst) /\ sanityCheckBignum(src)
  BY DEF Good
<1>0a. dst.dmax \in Nat /\ src.top \in Nat
  BY <1>0 DEF Bignums
<1>1. CASE dst.dmax >= src.top
  <2>1. BN_copy(dst, src) = [ok |-> TRUE, bn |-> nb]
    <3>1. [dst EXCEPT !.d = dd, !.top = src.top, !.neg = src.neg] = nb
      BY <1>0, ExceptDTN
    <3>2. QED
      BY <1>0, <1>1, <3>1 DEF BN_copy
  <2>2. nb.top = src.top /\ nb.neg = src.neg /\ nb.dmax = dst.dmax /\ nb.flags = dst.flags
        /\ nb.d = dd
    BY DEF Mk
  <2>3. src.top \in Nat /\ \A i \in 0 .. src.top - 1 : i \in Index /\ i < src.top
    BY <1>0, SizeFacts DEF Bignums, Index
  <2>4. Mag(nb) = Mag(src)
    <3>1. \A i \in 0 .. nb.top - 1 : nb.d[i] = src.d[i]
      BY <2>2, <2>3
    <3>2. QED
      BY <2>2, <2>3, <3>1, MagCong
  <2>5. BN_copy(dst, src).ok = TRUE /\ BN_copy(dst, src).bn = nb
    BY <2>1
  <2>6. Mag(BN_copy(dst, src).bn) = Mag(src)
    BY <2>4, <2>5
  <2>7. QED
    BY <1>0a, <1>1, <2>2, <2>5, <2>6
<1>2. CASE ~(dst.dmax >= src.top)
  <2>1. BN_copy(dst, src) = [ok |-> FALSE, bn |-> dst]
    BY <1>2 DEF BN_copy
  <2>2. BN_copy(dst, src).ok = FALSE /\ BN_copy(dst, src).bn = dst
    BY <2>1
  <2>3. QED
    BY <1>2, <2>2
<1>3. QED
  BY <1>1, <1>2

(* Every reachable state has CopyFidelity: TypeOK is enough. *)
LEMMA TypeOKCopyFidelity ==
  ASSUME TypeOK
  PROVE  CopyFidelity
<1>1. SUFFICES ASSUME NEW dst \in Regs, NEW src \in Regs
               PROVE  LET c == BN_copy(reg[dst], reg[src])
                      IN  /\ c.ok = (reg[dst].dmax >= reg[src].top)
                          /\ c.ok => /\ Mag(c.bn) = Mag(reg[src]) /\ c.bn.neg = reg[src].neg
                                     /\ c.bn.dmax = reg[dst].dmax /\ c.bn.flags = reg[dst].flags
  BY DEF CopyFidelity
<1>2. Good(reg[dst]) /\ Good(reg[src])
  BY TypeOKIsGood
<1>3. reg[dst].dmax \in Nat /\ reg[src].top \in Nat
  BY <1>2 DEF Good, Bignums
<1>4. /\ BN_copy(reg[dst], reg[src]).ok \in BOOLEAN
      /\ BN_copy(reg[dst], reg[src]).ok <=> reg[dst].dmax >= reg[src].top
      /\ BN_copy(reg[dst], reg[src]).ok =>
           /\ Mag(BN_copy(reg[dst], reg[src]).bn) = Mag(reg[src])
           /\ BN_copy(reg[dst], reg[src]).bn.neg = reg[src].neg
           /\ BN_copy(reg[dst], reg[src]).bn.dmax = reg[dst].dmax
           /\ BN_copy(reg[dst], reg[src]).bn.flags = reg[dst].flags
  BY <1>2, CopyValue
<1>5. BN_copy(reg[dst], reg[src]).ok = (reg[dst].dmax >= reg[src].top)
  BY <1>3, <1>4
<1>6. QED
  BY <1>4, <1>5

(* CopyFidelity of bignum_ops, for every word size and size class: in      *)
(* every reachable state BN_copy succeeds exactly when dest has room for    *)
(* src's top words, and then gives dest src's value and sign while dest     *)
(* keeps its own dmax and flags.                                           *)
THEOREM CopyFaithful == RegSpec => []CopyFidelity
<1>1. TypeOK => CopyFidelity
  BY TypeOKCopyFidelity
<1>2. QED
  BY <1>1, TypeCorrect, PTL

-----------------------------------------------------------------------------
(* Each register keeps the size BN_init or BN_init_ext gave it: the        *)
(* standard one BIGNUM_ALLOC_WORDS words, the extended ones                *)
(* BIGNUM_ALLOC_WORDS_EXT.                                                 *)
Sized == \A r \in Regs : reg[r].dmax = IF r = "a" THEN AllocWords ELSE ExtWords

LEMMA SizedInvariant == RegSpec => [](TypeOK /\ Sized)
<1>1. RegInit => TypeOK /\ Sized
  <2>1. BN_init.dmax = AllocWords /\ BN_init_ext(FALSE).dmax = ExtWords
    BY DEF BN_init, BN_init_ext
  <2>2. RegInit => Sized
    BY <2>1 DEF RegInit, Sized
  <2>3. QED
    BY <2>2, InitTypeOK
<1>2. TypeOK /\ Sized /\ [RegNext]_reg => TypeOK' /\ Sized'
  <2>1. SUFFICES ASSUME TypeOK, Sized, [RegNext]_reg PROVE TypeOK' /\ Sized'
    OBVIOUS
  <2>2. TypeOK' /\ SameSizes
    BY <2>1, RegStep
  <2>3. QED
    BY <2>1, <2>2 DEF Sized, SameSizes
<1>3. QED
  BY <1>1, <1>2, PTL DEF RegSpec

(* BN_swap of two well-formed bignums, the second with room for a standard *)
(* bignum, ends with the two values and signs it started with: either both *)
(* untouched (a failed REQUIRES or first or second BN_copy) or exchanged.  *)
(* The third BN_copy, the one whose failure would lose bignum1's value,    *)
(* cannot fail: tmp is a standard bignum, so what it holds fits bignum2.   *)
LEMMA SwapValue ==
  ASSUME NEW b1, NEW b2, Good(b1), Good(b2), AllocWords <= b2.dmax
  PROVE  {<<Mag(BN_swap(b1, b2).b1), BN_swap(b1, b2).b1.neg>>,
          <<Mag(BN_swap(b1, b2).b2), BN_swap(b1, b2).b2.neg>>}
           = {<<Mag(b1), b1.neg>>, <<Mag(b2), b2.neg>>}
<1> DEFINE c1 == BN_copy(BN_init, b1)
           c2 == BN_copy(b1, b2)
           c3 == BN_copy(b2, c1.bn)
           s == BN_swap(b1, b2)
<1>0. Good(BN_init) /\ BN_init.dmax = AllocWords
  BY InitGood DEF BN_init
<1>1. CASE IsStatic(b1) \/ ~c1.ok \/ ~c2.ok
  <2>1. s.b1 = b1 /\ s.b2 = b2
    BY <1>1 DEF BN_swap
  <2>2. QED
    BY <2>1
<1>2. CASE ~IsStatic(b1) /\ c1.ok /\ c2.ok
  <2>1. Mag(c1.bn) = Mag(b1) /\ c1.bn.neg = b1.neg /\ c1.bn.top = b1.top
        /\ b1.top <= AllocWords
    <3>1. b1.top \in Nat
      BY DEF Good, Bignums
    <3>2. /\ c1.ok <=> BN_init.dmax >= b1.top
          /\ c1.ok => Mag(c1.bn) = Mag(b1) /\ c1.bn.neg = b1.neg /\ c1.bn.top = b1.top
      BY <1>0, CopyValue
    <3>3. QED
      BY <1>0, <1>2, <3>1, <3>2
  <2>2. Mag(c2.bn) = Mag(b2) /\ c2.bn.neg = b2.neg
    <3>1. c2.ok => Mag(c2.bn) = Mag(b2) /\ c2.bn.neg = b2.neg
      BY CopyValue
    <3>2. QED
      BY <1>2, <3>1
  <2>3. Good(c1.bn)
    BY <1>0, CopyGood DEF GoodAs
  <2>4. c3.ok /\ Mag(c3.bn) = Mag(b1) /\ c3.bn.neg = b1.neg
    <3>1. b2.dmax >= c1.bn.top
      <4>1. b2.dmax \in Nat /\ b1.top \in Nat
        BY DEF Good, Bignums
      <4>2. QED
        BY <2>1, <4>1
    <3>2. /\ c3.ok <=> b2.dmax >= c1.bn.top
          /\ c3.ok => Mag(c3.bn) = Mag(c1.bn) /\ c3.bn.neg = c1.bn.neg
      BY <2>3, CopyValue
    <3>3. QED
      BY <2>1, <3>1, <3>2
  <2>5. s.b1 = c2.bn /\ s.b2 = c3.bn
    BY <1>2, <2>4 DEF BN_swap
  <2>6. QED
    BY <2>1, <2>2, <2>4, <2>5
<1>3. QED
  BY <1>1, <1>2

(* SwapNeverLoses of bignum_ops, for every word size, whenever the         *)
(* extended bignums are at least as large as a standard one (spec section   *)
(* 2: the extended pools hold larger-capacity bignums): in every reachable  *)
(* state, BN_swap of two registers leaves them holding the two values and   *)
(* signs they held, exchanged or not, whichever of its copies fails.        *)
THEOREM SwapKeepsValues ==
  ASSUME AllocWords <= ExtWords
  PROVE  RegSpec => []SwapNeverLoses
<1>1. TypeOK /\ Sized => SwapNeverLoses
  <2>1. SUFFICES ASSUME TypeOK, Sized, NEW r1 \in Regs, NEW r2 \in Regs, r1 # r2
                 PROVE  {<<Mag(BN_swap(reg[r1], reg[r2]).b1), BN_swap(reg[r1], reg[r2]).b1.neg>>,
                         <<Mag(BN_swap(reg[r1], reg[r2]).b2), BN_swap(reg[r1], reg[r2]).b2.neg>>}
                          = {<<Mag(reg[r1]), reg[r1].neg>>, <<Mag(reg[r2]), reg[r2].neg>>}
    BY DEF SwapNeverLoses
  <2>2. Good(reg[r1]) /\ Good(reg[r2])
    BY <2>1, TypeOKIsGood
  <2>3. AllocWords <= reg[r2].dmax
    BY <2>1 DEF Sized
  <2>4. QED
    BY <2>2, <2>3, SwapValue
<1>2. QED
  BY <1>1, SizedInvariant, PTL


(* BN_normalise keeps the value of a well-formed bignum and leaves it      *)
(* normalised: the words it drops from below top are zero, and the new     *)
(* top is the loop's exit, just above the highest nonzero word.            *)
LEMMA NormaliseValue ==
  ASSUME NEW b, Good(b)
  PROVE  /\ Mag(BN_normalise(b).bn) = Mag(b)
         /\ Normalised(BN_normalise(b).bn)
<1> DEFINE newTop == CHOOSE t \in 0 .. b.top :
                       /\ \A i \in t .. b.top - 1 : b.d[i] = 0
                       /\ t = 0 \/ b.d[t - 1] # 0
<1>1. /\ b \in Bignums /\ sanityCheckBignum(b)
      /\ b.top \in 0 .. MaxWords /\ b.d \in [Index -> Word]
  BY DEF Good, Bignums
<1>0. b.top \in Nat /\ MaxWords \in Nat
  BY <1>1, SizeFacts
<1>2. /\ newTop \in 0 .. b.top
      /\ \A i \in newTop .. b.top - 1 : b.d[i] = 0
      /\ newTop = 0 \/ b.d[newTop - 1] # 0
  <2>1. \E t \in 0 .. b.top : /\ \A i \in t .. b.top - 1 : b.d[i] = 0
                              /\ t = 0 \/ b.d[t - 1] # 0
    BY <1>0, NormaliseTopExists
  <2>2. QED
    BY <2>1
<1> HIDE DEF newTop
<1>3. CASE b.top = 0
  <2>1. BN_normalise(b).bn = b
    BY <1>1, <1>3 DEF BN_normalise
  <2>2. QED
    BY <1>3, <2>1 DEF Normalised
<1>4. CASE b.top # 0
  <2> DEFINE nb == BN_normalise(b).bn
  <2>1. nb = [b EXCEPT !.top = newTop]
    BY <1>1, <1>4 DEF BN_normalise, newTop
  <2>2. nb.d = b.d /\ nb.top = newTop
    BY <1>1, <2>1, ExceptT DEF Mk
  <2>3. Normalised(nb)
    BY <1>2, <2>2 DEF Normalised
  <2>4. \A i \in 0 .. b.top - 1 : b.d[i] \in Int
    <3>1. \A i \in 0 .. b.top - 1 : i \in Index
      BY <1>0, <1>1 DEF Index
    <3>2. Word \subseteq Int
      BY WordArithAssumption DEF Word
    <3>3. QED
      BY <1>1, <3>1, <3>2
  <2>5. Mag(nb) = Acc(b.d, newTop)[newTop]
    BY <2>2, MagAcc
  <2>6. Acc(b.d, newTop)[newTop] = Acc(b.d, b.top)[newTop]
    <3>1. newTop \in 0 .. newTop /\ newTop \in Nat /\ b.top \in Nat /\ newTop <= b.top
      BY <1>1, <1>2
    <3>2. QED
      BY <3>1, AccPrefix
  <2>7. Acc(b.d, b.top)[b.top] = Acc(b.d, b.top)[newTop]
    BY <1>1, <1>2, <2>4, AccZeroTail
  <2>8. Mag(b) = Acc(b.d, b.top)[b.top]
    BY MagAcc
  <2>9. QED
    BY <2>3, <2>5, <2>6, <2>7, <2>8
<1>5. QED
  BY <1>3, <1>4

(* The invariant NormalisePreservesValue of the run bignum_ops, for every   *)
(* word size and size class: BN_normalise applied to any register in any     *)
(* reachable state keeps its value and leaves its top at the highest        *)
(* nonzero word.                                                            *)
THEOREM NormaliseKeepsValue == RegSpec => []NormalisePreservesValue
<1>1. TypeOK => NormalisePreservesValue
  BY TypeOKIsGood, NormaliseValue DEF NormalisePreservesValue
<1>2. QED
  BY <1>1, TypeCorrect, PTL

=============================================================================
