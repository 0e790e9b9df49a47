# TLA+ verification of the OpenCKMS bignum core

This directory models `src/CryptographyCore/context/ctx_bn.c`, the cryptlib bignum
layer of OpenCKMS. TLC checks the models on small instances. TLAPS proves, for every pool size:

- the allocator's frame invariant;
- that the pool implements an abstract scoped allocator for a disciplined
  caller, and that such a caller finds released bignums cleared and never
  overruns the stack;
- that every bignum a function holds keeps what it wrote, for every caller
  that releases extended bignums only with the tags that clear them, the
  caller that exhausts the pool included;
- the bignum type invariant, for every word size, and that `BN_copy` and
  `BN_swap` keep values. `PROJECT.json` lists the runs,
mutants, findings and hazards, and maps each definition to the source lines it
translates.

## The system

`ctx_bn.c` has four parts. They interact only through bignums:

- **Bignum values.** A `BIGNUM` is a fixed word array `d` with `dmax` (its
  capacity), `top` (the used words), `neg` and `flags`. The flags give the size
  class and whether the data is static.
  - There are three size classes: standard (`BIGNUM_ALLOC_WORDS`), `BIGNUM_EXT`
    and `BIGNUM_EXT2`.
  - The value operations are `BN_clear`, `BN_copy`, `BN_swap`, `BN_get_word`,
    `BN_set_word`, `BN_num_bits`, `BN_set_bit`, `BN_is_bit_set`, `BN_high_bit`,
    `BN_set_negative` and `BN_normalise`.
  - Arithmetic outside `src/` writes bignums between these calls, and may leave
    stale words above `top`.
- **The `BN_CTX` pool allocator.** It has a fixed array `bnArray` of standard
  bignums.
  - A stack of frame boundaries (`stack`, `stackPos`) is pushed by
    `BN_CTX_start` and popped by `BN_CTX_end`, which zeroises the frame.
  - `BN_CTX_get` hands out the next bignum of the open frame.
  - A high-water mark `bnArrayMax` is tested by `BN_CTX_get`.
- **The extended pools.** Three large bignums are addressed by purpose tag
  (`BIGNUM_EXT_MONT`, `EXT_MUL1`, `EXT_MUL2`) through `BN_CTX_get_ext`, and are
  released by `BN_CTX_end_ext`. That call runs `BN_CTX_end` and then clears the
  tag's bignums.
- **The reduction contexts.** `BN_MONT_CTX` and `BN_RECP_CTX` each own two
  standard bignums. `ctx_bn.c` only initialises and frees them, and sets up the
  reciprocal context (`BN_RECP_CTX_set`).

The C++/CLI wrapper `src/Cryptography/Cryptography.cpp` keeps no state. It
forwards each call to cryptlib, which is not in this repository, so it is not
modelled. Nor is the self-test hook `testIntBN`, which only calls code outside
the repository.

Every context belongs to one call chain (spec section 5). Nothing runs
concurrently, so the models have one actor. The hard behaviours are:

- long call sequences that reach a broken state;
- failures part-way through an operation;
- off-by-one errors at the boundaries;
- stale words.

`REQUIRES`/`ENSURES` are modelled as in a release build: a failed check returns
at once, and any state already changed stays changed.

## Modules

| module | models | state and actions |
|---|---|---|
| `BnCtx` | `BN_CTX`, extended pools (`ctx_bn.c:88-98, 560-747`) | Variables `bnArray`, `bnArrayMax`, `stack`, `stackPos`, `bnExt` and the history flag `stackOOB`. Actions `BN_CTX_start`, `BN_CTX_end`, `BN_CTX_get`, `BN_CTX_get_fail`, `BN_CTX_end_ext(t)`, `BN_CTX_final` and `Arith`. The caller is arbitrary. |
| `BnCtxClient` | a caller that follows the nesting discipline of the comment at `ctx_bn.c:525` | Ghost call stack `frames`: what each frame holds, what it wrote, and the high-water mark at its start. `Call*` actions wrap the `BnCtx` operations. |
| `BnCtxScopes` | what the allocator promises a disciplined caller (spec section 4.2) | Variable `scopes`: a stack of scopes, each the list of its bignums' values. Actions `Begin`, `Get`, `Write`, `Release`. There are no slots, boundaries or high-water mark. |
| `Bignum` | the value operations (`ctx_bn.c:61-517`) | Operators from arguments to results, plus the reference semantics `Mag` and `Bit`. No state. |
| `BignumRegs` | the operations applied to a standard bignum and extended ones | Variable `reg`. One action per operation, and `Arith` for any sane contents. |
| `ReductionCtx` | `BN_MONT_CTX`, `BN_RECP_CTX` (`ctx_bn.c:101-115, 787-890`) | Variables `mont` and `recp`. Actions for init, free and set, plus the external setup and reduction code as writes. |
| `BnCtx_proofs` | TLAPS proofs about `BnCtx`: `TypeOK`, `FrameBounds`, `GetInBounds` | |
| `BnCtxClient_proofs` | TLAPS proofs about `BnCtxClient`: the refinement, `NoStackOverrun`, `ClearedAtRest` | |
| `BnCtxClientLive_proofs` | TLAPS proofs about `BnCtxClient` for every caller: `LiveSlotsIntact`, on top of the client's typing `ClientTypeOK` | |
| `Bignum_proofs` | TLAPS proofs about `BignumRegs`: `TypeOK`, `SizesFixed` | |
| `BignumValue_proofs` | TLAPS proofs about `BignumRegs`: `CopyFidelity`, `SwapNeverLoses`, `NormalisePreservesValue` | |
| `ReductionCtx_proofs` | TLAPS proofs about `ReductionCtx`: `RedTypeOK` | |
| `MC*` | TLC instances | |

### Abstractions

- A pool bignum's contents are `0` (cleared) or a member of `Data` (written);
  nothing else about them matters to the allocator.
- Bignum values are kept in full, with 2-bit words so that TLC can enumerate
  them.
- Reads outside the modelled arrays are never returned as values:
  - `stack[-1]` is read by `BN_CTX_end` at `stackPos = 0`. Its value is a
    nondeterministic choice, and the read sets `stackOOB`.
  - `stack[BN_CTX_ARRAY_SIZE]` is written by `BN_CTX_start` at the last frame.
    The write is recorded in `stackOOB`.

## Runs

| run | expect | what it shows |
|---|---|---|
| `bnctx_any_caller` | pass | `FrameBounds` holds under any call order, unbalanced ones included: while the context is sane, its frames are nested and the open frame ends at or below `bnArrayMax`. The action property `GetInBounds` holds too: a successful `BN_CTX_get` hands out a slot inside the pool, at or above the start of the open frame. |
| `client_fill` | pass | `LiveSlotsIntact` holds for a disciplined caller, even one that exhausts the pool: every held bignum reads back what its frame wrote. |
| `client_sized` | pass | `ClearedAtRest` and `NoStackOverrun` hold for a caller that never uses the last pool slot: every bignum nobody holds is zero, and no access of `stack[]` leaves the array. `ImplementsScopes` holds too: the pool, read through the boundary stack, behaves as `BnCtxScopes`. |
| `client_end_offbyone` | violation | `ClearedAtRest` fails once a frame reaches the last slot. `BN_CTX_end`'s `ENSURES_V(i < BN_CTX_ARRAY_SIZE)` (line 649) fires after the clearing and before the pop, so the enclosing frame's secrets are never cleared. The unpopped frame also lets a later `BN_CTX_start` write `stack[BN_CTX_ARRAY_SIZE]` (line 618). |
| `client_end_ext_mul2` | violation | `BN_CTX_end_ext(BIGNUM_EXT_MUL2)` releases the frame but clears no extended bignum (line 731). |
| `client_high_water` | violation | `HighWaterRestored`, from spec section 8, fails: `bnArrayMax` is never lowered by an end. |
| `bignum_ops` | pass | Sanity, value and sign are preserved by every operation on any sane contents. The properties are `NormalisePreservesValue`, `SetBitSetsBit`, `CopyFidelity`, `QueriesAgree` and `SwapNeverLoses`, and the action property `SizesFixed`: no step changes a bignum's `dmax` or flags. |
| `bignum_negative_zero` | violation | `BN_normalise` yields a negative zero. A negative standard bignum with `top = 1` and a zero word goes through the loop at line 505 to `top = 0` with `neg` still set. Bignums already at `top = 0`, which `BN_normalise` returns untouched at line 498, are outside the property. |
| `bignum_normalise_bound` | violation | `BN_normalise` fails its ENSURES on a full-length zero bignum (line 512). |
| `bignum_set_bit_last_word` | violation | `BN_set_bit` refuses a bit in the last word of the capacity (line 410). For a standard bignum of one word, this happens from the initial state. |
| `bignum_swap_ext` | violation | `BN_swap` of two extended bignums wider than a standard one does nothing, and reports nothing (line 268). |
| `reduction_ctx` | pass | `BN_RECP_CTX_set` records the modulus, a zero reciprocal and the bit length, whatever the context held before. |

Every property of a passing run has a mutant in `PROJECT.json`: a plausible bug
in the mapped code under which TLC finds that property violated. Examples are a
clearing loop that starts one slot low, or a `BN_set_bit` that does not zero
stale words.

### Bounds

- **The pool.** `ArraySize = 3` with `MaxDepth = 2` frames. This is the
  smallest pool in which:
  - an outer frame holds a bignum while an inner frame fills the rest;
  - the pool can be exhausted;
  - a frame can reach the last slot.

  `Data = {1, 2}` lets a write be told apart from an earlier one.
- **The client runs.** `client_sized` holds at most 2 bignums at once, so the
  last slot is never used: it checks the behaviour that remains once the
  off-by-one is avoided. `client_fill` lifts that limit.
- **Bignums.** 2-bit words, with a standard bignum of 1 word and extended ones
  of 2 words. This is the smallest instance with a value wider than a standard
  bignum, and with stale words above `top`. `Arith` lets a register take any
  sane contents, so the checks cover every sane input of that size.

### Fairness

No liveness property is checked. Every operation is synchronous and
bounded-time: each is one step of the model, and none waits on anything
(spec section 5). Deadlock is checked in every run.

## Proofs

`BnCtx_proofs.tla` proves `FrameInvariant: Spec => [](TypeOK /\ FrameBounds)`
for every `ArraySize \in Nat \ {0}` and every `Data`.

- **Why the two are proved together.** `FrameBounds` alone is not inductive.
  - `BN_CTX_get`'s increment keeps `stack[stackPos]` within
    `0 .. BN_CTX_ARRAY_SIZE` only because `stack[stackPos] <= bnArrayMax < ArraySize`.
  - `BN_CTX_end`'s pop keeps the new open frame under `bnArrayMax` only because
    the frames are nested.
- **How the proof is laid out.**
  - There is one step per action.
  - `BN_CTX_start` is split into its three outcomes.
  - `BN_CTX_end` and `BN_CTX_end_ext` share the lemma `EndStdPreserves`. It
    covers every outcome of the release: an early return, a pop, a failed
    ENSURES, and a read of `stack[-1]`.

`CtxTypeCorrect: Spec => []TypeOK` follows from it. TLC checks the same
invariants in `bnctx_any_caller`.

`GetStaysInBounds: Spec => GetInBounds` proves the action property. Every
`BN_CTX_get` step hands out `GetSlot` inside `0 .. BN_CTX_ARRAY_SIZE - 1`, at
or above the start of the open frame. The proof has two parts:
- the step's guard and `FrameBounds` give the bounds;
- the temporal rule `[]P /\ (P => Q) => [][Q]_v` lifts them from the
  invariant.

### The client and the refinement

`BnCtxClient_proofs.tla` proves three theorems about a disciplined caller.
Each holds for every `ArraySize`, `Data`, `MaxDepth` and `MaxHeld` with
`SizedCaller`: `MaxHeld < ArraySize` and `MaxDepth < ArraySize`, the caller
of `client_sized`.

- **`ScopesRefinement: ClientSpec => ImplementsScopes`.** The refinement
  mapping `CtxScopes` reads scope `i` off the pool alone: the values of
  `bnArray[stack[i-1]] .. bnArray[stack[i]-1]`, for `i` in `1 .. stackPos`.
  - `BN_CTX_start` maps to `Begin`.
  - A successful `BN_CTX_get` maps to `Get`.
  - A write maps to `Write`.
  - `BN_CTX_end` and `BN_CTX_end_ext` map to `Release`.
  - A failed get, taking extended bignums, and `BN_CTX_final` are stutters.
- **`NoOverrun: ClientSpec => []NoStackOverrun`.**
- **`ClearedAtRestHolds: ClientSpec => []ClearedAtRest`.** This one also
  needs `ReleasingCaller`: the caller never passes `EXT_MUL2` to
  `BN_CTX_end_ext`. The run `client_end_ext_mul2` shows why.

All three rest on the inductive invariant `IInv`. `ClearedAtRest` alone is
not inductive: an end clears only `bnArray[stack[stackPos-1]] ..
bnArray[bnArrayMax-1]`, so it needs to know where the frames lie. The
conjuncts of `IInv` are:

- `PoolType`: the pool's types, which make the context sane.
- `FramesType`: one caller frame per pool frame (`Len(frames) = stackPos`).
- `Nested`: the boundaries start at 0 and never decrease.
- `WithinHeld`: `stack[stackPos] <= MaxHeld`. With `SizedCaller` this keeps
  the capacity test of `BN_CTX_get` true and the `ENSURES` of `BN_CTX_end` at
  line 649 from firing.
- `Owned`: frame `i` holds exactly `stack[i-1] .. stack[i]-1`.
- `ClearAbove`: every slot at or above `stack[stackPos]` is cleared. This makes
  a fresh `BN_CTX_get` read zero, as `Get` requires.

`CInv` adds what the extended bignums need:

- `ExtShape`: each frame holds none or one group.
- `ExtDisjoint`: no two frames hold the same one.
- `ExtClear`: every unheld one is cleared.

TLC checked `CInv` as an invariant of the `client_sized` instance before it
was proved. The proof has one lemma per action (`StartStep`, `GetStep`,
`EndStep`, ...), combined in `NextStep` and `ExtNextStep`. `FrameIndex`
states that distinct frames own disjoint slots, which a write to one frame
needs to leave every other scope unchanged.

### Live bignums for every caller

`BnCtxClientLive_proofs.tla` drops `SizedCaller`. It proves two theorems for
every `ArraySize`, `Data`, `MaxDepth` and `MaxHeld`, so also for the caller of
`client_fill`, which runs the pool out.

- **`ClientTyped: ClientSpec => []ClientTypeOK`.** It rests on `TInv`:
  `FrameInv` of `BnCtx_proofs`, plus a well-typed call stack of at most
  `MaxDepth` frames. `ClientIsCtx` shows that every caller step is a `BnCtx`
  step, so `FrameInv` carries over. This is the typing the next theorem
  rests on. No run checks `ClientTypeOK` on its own: it repeats `BnCtx`'s
  `TypeOK`, and the caller's own typing holds by its guards.
- **`LiveSlotsHold`: with `ReleasingCaller`, `ClientSpec => []LiveSlotsIntact`.**
  The hypothesis is needed. After `BN_CTX_end_ext(BIGNUM_EXT_MUL2)` an
  extended bignum is released uncleared, so a later `BN_CTX_get_ext` can hand
  it out while it still holds data. The `client_fill` instance satisfies the
  hypothesis.

`IInv` of the sized caller is no longer true here. Once the pool runs out, a
`BN_CTX_end` whose frame reaches the last slot fails the `ENSURES` at line 649
before its pop. The caller's frame is gone, but the pool's frame stays. The
inductive invariant is `GInv == TInv /\ ExtInv /\ LInv`, where
`LInv` has three conjuncts:

- `HeldDisjoint`: no two functions hold the same pool bignum.
- `LiveSlotsIntact` itself.
- `PoolFrames`: while the context is sane, it says four things.
  - There are at least as many pool frames as caller frames.
  - The boundaries are nested.
  - Function `i` holds only slots of pool frame `i`.
  - Everything above `stack[stackPos]` is cleared.

  When the pool has more frames than the caller (the stuck mode above),
  `bnArrayMax` is the array's end. No later `BN_CTX_get` succeeds then, and
  no release clears a held slot. In the insane mode nothing is claimed about
  the pool: every get and end returns early and touches nothing.

TLC checked `GInv` as an invariant of the `client_fill` instance before it
was proved. There is one lemma per action (`StartLive`, `GetLive`,
`WriteLive`, `EndLive`, `FinalLive`, ...), and they are combined in `GStep`.
`EndPool` covers the three outcomes of a release: insane, pop, and stuck.
`FrontOfSeq` gives the length and prefix of the popped call stack.

### Bignums

`Bignum_proofs.tla` proves `TypeCorrect: RegSpec => []TypeOK` for
`BignumRegs`. It holds for every word size (`ByteBits`, `WordBytes`), every
`BIGNUM_ALLOC_WORDS*` size and every set of extended registers. Whatever
sequence of operations and external arithmetic runs, every bignum passes
`sanityCheckBignum` and its words at and above `dmax` stay zero.

- **The invariant.** It is proved through the stronger per-bignum predicate
  `GoodAs(c, b)`: `c` is well formed and keeps `b`'s `dmax` and flags. Each
  operation has a lemma that it maps a well-formed bignum to one of the same
  size. The size is what keeps `dmax <= getBNMaxSize` true, since the flags
  decide the bound.
- **The lemmas.**
  - `SetBitGood` follows `BN_set_bit` through its four paths: the early
    returns, the failed ENSURES after the zeroing loop, the extension of `top`,
    and the update in place.
  - `NormaliseGood` rests on `NormaliseTopExists`: the new `top` exists, and it
    is the least element given by `WFMin` over `0 .. top`.
  - `ExceptDTN` and the related lemmas, with `MkExt`, turn each record update
    of the code into a record built from its fields.
- **The assumption.** The proof rests on `WordArithAssumption` in `Bignum`.
  The radix `2^BN_BITS2` is positive, and `w | (1 << n)` of a word is a word
  for `n < BN_BITS2`. Both facts are true for every word size. The provers have
  no theory of `^`, so this is stated as an assumption, and TLC evaluates it
  in every run that extends `Bignum`.

Every step lemma proves `TypeOK' /\ SameSizes`: `dmax` and the flags of every
register are unchanged. `RegStep` collects them, one case per action.
`SizesNeverChange: RegSpec => SizesFixed` is the action property that follows:
with `TypeOK` invariant, every step or stutter is a `SameSizes` step.

`BignumValue_proofs.tla` proves two value properties. Neither needs what `Mag`
computes, only that it depends on nothing but the words below `top`.

- **`MagCong`.** Two bignums with the same `top` and the same words below
  `top` have the same `Mag`. `Mag` is a recursive function, which the provers
  see as a `CHOOSE` of the function satisfying its defining equation. The
  equations of the two bignums are the same formula, so the two `CHOOSE`s are
  equal. This needs no induction.
- **`CopyFaithful: RegSpec => []CopyFidelity`.** `CopyValue` follows
  `BN_copy`. It succeeds exactly when `dmax >= top`. It then copies the words
  below `top`, `top` and the sign. It keeps the destination's `dmax`, its flags
and its words above the source's `top`, as lines 245-248 do. `MagCong` needs
only the words below `top`, so it applies.
- **`SwapKeepsValues`: with `AllocWords <= ExtWords`, `RegSpec => []SwapNeverLoses`.**
  `BN_swap` copies through a stack temporary of `BIGNUM_ALLOC_WORDS` words.
  `SizedInvariant` shows that every register keeps the size `BN_init` or
  `BN_init_ext` gave it. With that, `SwapValue` shows that whenever the first
  copy succeeds, so do the other two.
  - The hypothesis is what the spec says of the extended pools
    ("larger-capacity bignums", section 2). It is needed: swapping a standard
    bignum whose `top` exceeds a smaller extended size would make the third
    copy fail after the second one succeeded.

- **`NormaliseKeepsValue: RegSpec => []NormalisePreservesValue`.** This
  theorem needs what `Mag` computes. `Acc(dd, n)` names the partial sums of
  `Mag`'s recursive definition: `Mag(b)` is `Acc(b.d, b.top)[b.top]`
  (`MagAcc`). Four lemmas establish what the sums compute:
  - `AccExists` shows the recursion has a solution of every length.
  - `AccPrefix` shows a shorter solution is a prefix of a longer one.
  - `AccInt` shows the sums of integer words are integers.
  - `AccZeroTail` shows zero words above `t` add nothing.

  Each lemma is proved by least counterexample: `WFMin` over the naturals
  picks the first bad index (`LeastNat`). This is induction written without
  an operator parameter, so the provers can use it.

  `NormaliseValue` then follows `BN_normalise`. The new `top` is the loop's
  exit (`NormaliseTopExists`). The dropped words are zero, so `AccZeroTail`
  and `AccPrefix` give the same value, and the word below the new `top` is
  nonzero.

`ReductionCtx_proofs.tla` proves `RedTypeCorrect: RedSpec => []RedTypeOK`.
It holds for every word size, size class and set of Montgomery values. The
two contexts always pass their sanity checks, and their bignums are well formed.

- **The inductive invariant `RInv`.** `RedTypeOK` alone is not enough. The
  invariant strengthens it: `MontGood` and `RecpGood` also require the
  bignums to be `Good` (words at and above `dmax` zero). That is what lets
  `BN_copy` and `BN_num_bits` be followed. TLC checked `RInv` on the
  `reduction_ctx` instance before it was proved.
- **`num_bits`.** `BN_num_bits_word` is modelled as its loop's exit: the least
  `i <= 128` at which `word \div 2^i` is 0, or -1 (the ENSURES) at 128.
  `NumBitsWordRange` shows it is in `0 .. BN_BITS2` for a word. The least
  such `i` is at most `BN_BITS2`, because a word shifted right by `BN_BITS2`
  is 0 and `BN_BITS2 < 128` (`BignumAssumption`). `NumBitsRange` then bounds
  `BN_num_bits` of a standard bignum by `BIGNUM_ALLOC_WORDS * BN_BITS2`.

The following are only model-checked, with the reason:

- **Liveness and `ENABLED`.** These are out of the provers' reach. The
  project states no liveness property (see Fairness), so nothing is lost here.
- **The violations.** These are single counterexamples, among them the action
  property `HighWaterRestored`. TLC shows that each fails; there is nothing to
  prove.
- **`SetBitSetsBit`, `QueriesAgree` and `RecpSetRecords`.** They relate
  `Mag` to `Bit`, `BitLength` and `2^n` for a symbolic `n`:
  - the bit `n` of a sum of words at powers of the radix;
  - the bound `Mag < Radix^top`;
  - the bit length of the top word.

  The provers have no theory of `^` with a variable exponent (`WordArithAssumption`
  states the two facts the proofs need as an assumption). The laws of
  division and remainder by such powers are beyond them, so these properties
  stay with TLC.

## Not modelled

- **Heap wrappers.** `BN_new`, `BN_free`, `BN_dup`, `BN_CTX_new`,
  `BN_CTX_free` and `BN_MONT_CTX_new` only add allocation around operations
  that are modelled.
- **Code outside the repository.** This covers the arithmetic code, the
  Montgomery setup and Barrett reduction, `bnmathSelfTest`, and cryptlib behind
  `Cryptography.cpp`. The models' `Arith` actions stand in for what that code
  writes.
- **The static constant.** No register holds `BN_value_one`. The missing static
  check on `BN_swap`'s second argument (line 265) is a hazard without a
  property.

## Plan for later work

- Model the static constant as a register, to check the `BN_swap` and
  `BN_copy` static-flag hazard.
