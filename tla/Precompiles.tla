---------------------------- MODULE Precompiles ----------------------------
(* The precompiled contracts (core/evm/contracts.go): what each one charges  *)
(* for an input, which inputs it refuses by their length, and which bytes    *)
(* its Run slices out.  The arithmetic behind them is left out: decoding a   *)
(* point or verifying a proof succeeds or fails freely.  For bigModExp the   *)
(* three lengths its input announces are numbers of any size, scaled down    *)
(* with uint64.                                                              *)
EXTENDS Integers, Sequences, FiniteSets, TLC

CONSTANTS MaxInput,     \* the longest input
          MaxUint64,    \* scaled
          Lengths       \* what bigModExp's input may announce, some above MaxUint64

VARIABLES request,      \* the contract called and its input
          out           \* what RunPrecompiledContract returned

vars == <<request, out>>

(* The contracts that take inputs of one length only, and their price. *)
g1Contracts == [bls12381G1Add |-> [len |-> 256, gas |-> 600],
                bls12381G1Mul |-> [len |-> 160, gas |-> 12000]]
g2Contracts == [bls12381G2Add |-> [len |-> 512, gas |-> 4500],
                bls12381G2Mul |-> [len |-> 288, gas |-> 55000]]
mapContracts == [bls12381MapG1 |-> [len |-> 64, gas |-> 5500],
                 bls12381MapG2 |-> [len |-> 128, gas |-> 110000]]
kzgPointEvaluation == [len |-> 192, gas |-> 50000]
blake2F == [len |-> 213]                   \* charged by the rounds it announces
exact == g1Contracts @@ g2Contracts @@ mapContracts
         @@ [kzgPointEvaluation |-> kzgPointEvaluation]
exactLength == [blake2F |-> blake2F.len] @@ [k \in DOMAIN exact |-> exact[k].len]

(* The ones that take a list of items: the length of an item, where its      *)
(* second half starts, and the price.                                        *)
bn256Pairing == [len |-> 192, split |-> 64, gas |-> 34000, base |-> 45000]
bls12381G1MultiExp == [len |-> 160, split |-> 128, gas |-> 12000, base |-> 0]
bls12381G2MultiExp == [len |-> 288, split |-> 256, gas |-> 55000, base |-> 0]
bls12381Pairing == [len |-> 384, split |-> 128, gas |-> 23000, base |-> 115000]
list == [bn256Pairing |-> bn256Pairing, bls12381G1MultiExp |-> bls12381G1MultiExp,
         bls12381G2MultiExp |-> bls12381G2MultiExp, bls12381Pairing |-> bls12381Pairing]

(* The ones that take any input: padded to a length, or charged by the word. *)
ecrecover == [len |-> 128, gas |-> 3000]
bn256Contracts == [bn256Add |-> [len |-> 128, gas |-> 150],
                   bn256ScalarMul |-> [len |-> 96, gas |-> 6000]]
padded == bn256Contracts @@ [ecrecover |-> ecrecover]
hashContracts == [sha256hash |-> [word |-> 12, base |-> 60],
                  ripemd160hash |-> [word |-> 120, base |-> 600]]
dataCopy == [word |-> 3, base |-> 15]
byWord == hashContracts @@ [dataCopy |-> dataCopy]

bigMax(x, y) == IF x > y THEN x ELSE y
wrap(x) == x % (MaxUint64 + 1)

(* getData: the slice start..end of the data, then padded to size. *)
getData(length, start, size) ==
  LET from == IF start > length THEN length ELSE start
      upto == wrap(from + size)
  IN [from |-> from, upto |-> IF upto > length THEN length ELSE upto]

-----------------------------------------------------------------------------
(* bigModExp (EIP-2565): c.base, c.exp, c.mod are the announced lengths, c.n *)
(* the bytes after the three announcements, c.msb the top bit of the head.   *)
modExpGas(c) ==
  LET adjExpLen == (IF c.exp > 32 THEN 8 * (c.exp - 32) ELSE 0)
                   + (IF c.n <= c.base THEN 0 ELSE c.msb)
      words == (bigMax(c.mod, c.base) + 7) \div 8
      gas   == (words * words * bigMax(adjExpLen, 1)) \div 3
  IN IF gas > MaxUint64 THEN MaxUint64 ELSE bigMax(gas, 200)

modExpReads(c) ==
  LET base == wrap(c.base) exp == wrap(c.exp) mod == wrap(c.mod)
  IN IF base = 0 /\ mod = 0 THEN {}
     ELSE {getData(c.n, 0, base), getData(c.n, base, exp), getData(c.n, wrap(base + exp), mod)}

(* RequiredGas. *)
RequiredGas(c) ==
  CASE c.kind = "bigModExp" -> modExpGas(c)
    [] c.kind = "blake2F" -> IF c.n = blake2F.len THEN c.rounds ELSE 0
    [] c.kind \in DOMAIN exact -> exact[c.kind].gas
    [] c.kind \in DOMAIN padded -> padded[c.kind].gas
    [] c.kind \in DOMAIN byWord -> ((c.n + 31) \div 32) * byWord[c.kind].word + byWord[c.kind].base
    [] c.kind \in {"bls12381G1MultiExp", "bls12381G2MultiExp"} ->
         LET k == c.n \div list[c.kind].len
         IN IF k = 0 THEN 0 ELSE (k * list[c.kind].gas * c.discount) \div 1000
    [] OTHER -> list[c.kind].base + (c.n \div list[c.kind].len) * list[c.kind].gas

(* The check of the input's length in Run. *)
lengthOk(c) ==
  /\ c.kind \in DOMAIN exactLength => c.n = exactLength[c.kind]
  /\ c.kind \in DOMAIN list =>
       c.n % list[c.kind].len = 0 /\ (c.n # 0 \/ c.kind = "bn256Pairing")

(* The slices Run takes, each from..upto-1. *)
items(c) == {i \in 0 .. c.n : i * list[c.kind].len < c.n}
reads(c) ==
  CASE c.kind = "bigModExp" -> modExpReads(c)
    [] c.kind = "bn256Add" -> {getData(c.n, 0, 64), getData(c.n, 64, 64)}
    [] c.kind = "bn256ScalarMul" -> {getData(c.n, 0, 64), getData(c.n, 64, 32)}
    [] c.kind \in DOMAIN list ->
         UNION {LET t0 == i * list[c.kind].len
                    t1 == t0 + list[c.kind].split
                IN {[from |-> t0, upto |-> t1], [from |-> t1, upto |-> t0 + list[c.kind].len]}
                : i \in items(c)}
    [] c.kind \in DOMAIN exactLength -> {[from |-> 0, upto |-> exactLength[c.kind]]}
    [] OTHER -> {[from |-> 0, upto |-> c.n]}

Kind == DOMAIN exactLength \cup DOMAIN list \cup DOMAIN padded \cup DOMAIN byWord

(* Inputs around the lengths that matter to a contract. *)
inputs(kind) ==
  LET l == IF kind \in DOMAIN exactLength THEN exactLength[kind]
           ELSE IF kind \in DOMAIN list THEN list[kind].len
           ELSE IF kind \in DOMAIN padded THEN padded[kind].len ELSE 32
  IN {n \in UNION {m * l - 1 .. m * l + 1 : m \in 0 .. 3} :
        0 <= n /\ n <= MaxInput}

Init == /\ out = [status |-> "none", gas |-> 0, left |-> 0]
        /\ \/ \E k \in Kind : \E n \in inputs(k), r \in {0, 12}, d \in {174, 1200} :
                request = [kind |-> k, n |-> n, rounds |-> r, discount |-> d,
                        base |-> 0, exp |-> 0, mod |-> 0, msb |-> 0]
           \/ \E b, e, m \in Lengths, n \in {0, 1, 40}, t \in {0, 255} :
                request = [kind |-> "bigModExp", n |-> n, rounds |-> 0, discount |-> 174,
                        base |-> b, exp |-> e, mod |-> m, msb |-> t]

(* Nobody can supply the gas that stands for a price beyond 64 bits. *)
Supplied == IF request.kind = "bigModExp" THEN {0, 200, MaxUint64 - 1} ELSE {0, 200, 200000}

RunPrecompiledContract == \E supplied \in Supplied, fails \in BOOLEAN :
  LET gas == RequiredGas(request)
  IN /\ out.status = "none"
     /\ out' = IF supplied < gas THEN [status |-> "out of gas", gas |-> gas, left |-> 0]
               ELSE [status |-> IF ~lengthOk(request) \/ fails THEN "error" ELSE "ok",
                     gas |-> gas, left |-> supplied - gas]
     /\ UNCHANGED request

Next == RunPrecompiledContract

Spec == Init /\ [][Next]_vars

(* A call that succeeds was charged for: an input whose price came out as 0  *)
(* because it is malformed is refused by Run, and the items the price was    *)
(* computed for are the items that were processed.  Every slice it took lies *)
(* within the input, also when bigModExp announces lengths that do not fit   *)
(* 64 bits or whose sum wraps.                                               *)
PaidAndInBounds ==
  out.status = "ok" =>
    /\ out.gas > 0 \/ (request.kind = "blake2F" /\ request.rounds = 0)
    /\ \A r \in reads(request) : 0 <= r.from /\ r.from <= r.upto /\ r.upto <= request.n
    /\ request.kind \in DOMAIN list => Cardinality(items(request)) = request.n \div list[request.kind].len
    /\ request.kind = "bigModExp" /\ reads(request) # {} =>
         request.base <= MaxUint64 /\ request.exp <= MaxUint64 /\ request.mod <= MaxUint64
=============================================================================
