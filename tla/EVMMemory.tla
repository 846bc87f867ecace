----------------------------- MODULE EVMMemory ------------------------------
(* The memory of one call frame of core/evm: the memory size functions       *)
(* (memory_table.go, common.go), the expansion fee (gas_table.go), the       *)
(* resize in EVMInterpreter.Run and the regions the instructions then touch  *)
(* (memory.go, instructions.go).  The frame executes any sequence of memory  *)
(* instructions with any operands; numbers are scaled down and keep the      *)
(* wrap-around of uint64 and the operands that do not fit it.                *)
EXTENDS Integers, Sequences, FiniteSets

CONSTANTS WordSize,      \* 32 bytes in the code
          MaxUint64,     \* 2^64 - 1 in the code
          MaxMemSize,    \* 0x1FFFFFFFE0, the largest size the fee is computed for
          QuadCoeffDiv,  \* evmparams.QuadCoeffDiv, 512
          Operand        \* the 256-bit operands tried, some above MaxUint64

MemoryGas == 3           \* evmparams.MemoryGas
CopyGas   == 3           \* evmparams.CopyGas
Keccak256WordGas == 6    \* evmparams.Keccak256WordGas
LogDataGas       == 8    \* evmparams.LogDataGas

VARIABLES len,           \* len(mem.store)
          lastGasCost,   \* mem.lastGasCost
          paid,          \* the expansion fees charged so far
          touched,       \* the regions the last instruction read or wrote
          stopped        \* the frame ended with an error

vars == <<len, lastGasCost, paid, touched, stopped>>

wrap(n)   == n % (MaxUint64 + 1)
fits(n)   == n <= MaxUint64
failed    == [size |-> 0, overflow |-> TRUE]
SafeMul(x, y) == [size |-> wrap(x * y), overflow |-> ~fits(x * y)]

toWordSize(size) ==
  IF size > MaxUint64 - (WordSize - 1) THEN MaxUint64 \div WordSize + 1
  ELSE (size + WordSize - 1) \div WordSize

calcMemSize64WithUint(off, length64) ==
  IF length64 = 0 THEN [size |-> 0, overflow |-> FALSE]
  ELSE IF ~fits(off) THEN failed
  ELSE [size |-> wrap(off + length64), overflow |-> wrap(off + length64) < off]

calcMemSize64(off, l) == IF ~fits(l) THEN failed ELSE calcMemSize64WithUint(off, l)

(* memoryCall and its kin: the larger of the input and the output region. *)
larger(x, y) == IF x.overflow \/ y.overflow THEN failed
                ELSE IF x.size > y.size THEN x ELSE y

(* The operands that name an instruction's regions: positions of an offset   *)
(* and a length on the stack (Back(0) is 1), in the order of its execute     *)
(* function.  Copied is the length its gas function charges for.             *)
regions ==
  [KECCAK256 |-> <<<<1, 2>>>>, CALLDATACOPY |-> <<<<1, 3>>>>, CODECOPY |-> <<<<1, 3>>>>,
   RETURNDATACOPY |-> <<<<1, 3>>>>, EXTCODECOPY |-> <<<<2, 4>>>>, LOG |-> <<<<1, 2>>>>,
   CREATE |-> <<<<2, 3>>>>, CREATE2 |-> <<<<2, 3>>>>, RETURN |-> <<<<1, 2>>>>,
   REVERT |-> <<<<1, 2>>>>, CALL |-> <<<<4, 5>>, <<6, 7>>>>, CALLCODE |-> <<<<4, 5>>, <<6, 7>>>>,
   DELEGATECALL |-> <<<<3, 4>>, <<5, 6>>>>, STATICCALL |-> <<<<3, 4>>, <<5, 6>>>>]
copied == [KECCAK256 |-> 2, CALLDATACOPY |-> 3, CODECOPY |-> 3, RETURNDATACOPY |-> 3,
           EXTCODECOPY |-> 4, CREATE2 |-> 3, LOG |-> 2, MCOPY |-> 3]
fixed == [MLOAD |-> WordSize, MSTORE |-> WordSize, MSTORE8 |-> 1]

Instruction == DOMAIN regions \cup DOMAIN fixed \cup {"MCOPY"}
Halting     == {"RETURN", "REVERT"}

(* Mutant: MCOPY sizes the memory for its destination only. *)
memoryMcopyTo(a) == calcMemSize64(a[1], a[3])

(* memoryMcopy sizes the memory by the larger of the two starts. *)
memoryMcopy(a) == calcMemSize64(IF a[2] > a[1] THEN a[2] ELSE a[1], a[3])

memorySize(op, a) ==
  IF op \in DOMAIN fixed THEN calcMemSize64WithUint(a[1], fixed[op])
  ELSE IF op = "MCOPY" THEN memoryMcopy(a)
  ELSE LET at(r) == calcMemSize64(a[r[1]], a[r[2]])
           rs == regions[op]
       IN IF Len(rs) = 1 THEN at(rs[1]) ELSE larger(at(rs[2]), at(rs[1]))

(* What GetPtr, GetCopy, Set, Set32, Copy and a direct store then touch: the *)
(* operands are truncated to 64 bits and an empty region is never looked at. *)
region(off, size) == [off |-> wrap(off), size |-> wrap(size)]
touches(op, a) ==
  {r \in IF op \in DOMAIN fixed THEN {region(a[1], fixed[op])}
         ELSE IF op = "MCOPY" THEN {region(a[1], a[3]), region(a[2], a[3])}
         ELSE {region(a[regions[op][i][1]], a[regions[op][i][2]]) : i \in DOMAIN regions[op]}
     : r.size > 0}

(* memoryGasCost: the fee for growing to size and the new lastGasCost. *)
totalFee(words) == wrap(wrap(words * MemoryGas) + wrap(words * words) \div QuadCoeffDiv)
memoryGasCost(size) ==
  LET words == toWordSize(size)
      grows == size # 0 /\ words * WordSize > len
  IN [overflow |-> size > MaxMemSize,
      fee  |-> IF grows THEN wrap(totalFee(words) - lastGasCost) ELSE 0,
      last |-> IF grows THEN totalFee(words) ELSE lastGasCost]

(* What an instruction charges for its data: by the byte in makeGasLog, by   *)
(* the word in gasKeccak256, gasCreate2 and memoryCopierGas.                 *)
dataGas(op, length) ==
  CASE op = "LOG" -> SafeMul(length, LogDataGas)
    [] op \in {"KECCAK256", "CREATE2"} -> SafeMul(toWordSize(length), Keccak256WordGas)
    [] OTHER -> SafeMul(toWordSize(length), CopyGas)

chargeable(op, a) == op \in DOMAIN copied =>
  fits(a[copied[op]]) /\ ~dataGas(op, a[copied[op]]).overflow

-----------------------------------------------------------------------------
Init == /\ len = 0 /\ lastGasCost = 0 /\ paid = 0
        /\ touched = {} /\ stopped = FALSE

Stop == /\ stopped' = TRUE /\ touched' = {}
        /\ UNCHANGED <<len, lastGasCost, paid>>

(* Only the operands of the regions matter; the others are left at 0. *)
Operands(op) ==
  LET used == IF op \in DOMAIN fixed THEN {1} ELSE IF op = "MCOPY" THEN {1, 2, 3}
              ELSE UNION {{regions[op][i][1], regions[op][i][2]} : i \in DOMAIN regions[op]}
  IN {[i \in 1 .. 7 |-> IF i \in used THEN f[i] ELSE 0] : f \in [used -> Operand]}

(* One iteration of Run over a memory instruction: size, word rounding, fee, *)
(* resize, execution.  A frame that cannot pay stops as well.                *)
Run == /\ ~stopped
       /\ \E op \in Instruction : \E a \in Operands(op) :
            LET asked == memorySize(op, a)
                size  == SafeMul(toWordSize(asked.size), WordSize)
                cost  == memoryGasCost(size.size)
            IN IF asked.overflow \/ size.overflow \/ cost.overflow \/ ~chargeable(op, a)
               THEN Stop
               ELSE /\ paid' = paid + cost.fee
                    /\ lastGasCost' = cost.last
                    /\ len' = IF len < size.size THEN size.size ELSE len
                    /\ touched' = touches(op, a)
                    /\ stopped' = (op \in Halting)

OutOfGas == ~stopped /\ Stop

Next == Run \/ OutOfGas

Spec == Init /\ [][Next]_vars

(* Every region an instruction touches after the resize lies inside the      *)
(* memory, for every operand, the ones that wrap around 64 bits included:    *)
(* Set's panic "invalid memory: store empty" and the slice bounds of GetPtr, *)
(* GetCopy and Copy are never met.                                           *)
MemoryCovered == \A r \in touched : r.off + r.size <= len

(* Growing the memory step by step costs exactly what growing it at once to  *)
(* its present size would have: lastGasCost never lets a frame expand        *)
(* cheaper or pay twice.                                                     *)
MemoryPaid == paid = totalFee(len \div WordSize) /\ lastGasCost = paid

-----------------------------------------------------------------------------
(* Net gas metering of SSTORE (core/evm/gas_table.go, operations_acl.go)     *)
(* against the refund counter and the journal of StateDB: a block stores to  *)
(* slots of a contract from calls that may be reverted, under one of the     *)
(* rule sets the instruction tables hold.                                    *)

CONSTANTS Slot, Value,     \* 0 \in Value is the empty slot
          MaxStores,       \* stores in a block
          MaxDepth         \* nested calls

VARIABLES rules,           \* the SSTORE gas function of the table
          original,        \* GetCommittedState
          current,         \* GetState
          refund,          \* StateDB.refund
          warm,            \* slots in the access list
          snapshots,       \* what RevertToSnapshot restores, innermost last
          charged,         \* gas charged for stores since refund was 0
          stores

storeVars == <<rules, original, current, refund, warm, snapshots, charged, stores>>

(* The amounts of evmparams each gas function works with. *)
eip1283 == [noop |-> 200, init |-> 20000, clean |-> 5000, dirty |-> 200, clear |-> 15000,
            resetClear |-> 19800, reset |-> 4800, cold |-> 0]
eip2200 == [noop |-> 800, init |-> 20000, clean |-> 5000, dirty |-> 800, clear |-> 15000,
            resetClear |-> 20000 - 800, reset |-> 5000 - 800, cold |-> 0]
makeGasSStoreFunc(clearingRefund) ==
  [noop |-> 100, init |-> 20000, clean |-> 5000 - 2100, dirty |-> 100, clear |-> clearingRefund,
   resetClear |-> 20000 - 100, reset |-> (5000 - 2100) - 100, cold |-> 2100]
eip2929 == makeGasSStoreFunc(15000)
eip3529 == makeGasSStoreFunc(4800)

(* Mutant: the refund for clearing a slot is kept when it is filled again. *)
gasSStoreKept(g, o, c, v) ==
  IF c = v THEN [gas |-> g.noop, refund |-> 0]
  ELSE IF o = c
  THEN IF o = 0 THEN [gas |-> g.init, refund |-> 0]
       ELSE [gas |-> g.clean, refund |-> IF v = 0 THEN g.clear ELSE 0]
  ELSE [gas |-> g.dirty,
        refund |-> (IF o # 0 /\ v = 0 THEN g.clear ELSE 0)
                   + (IF o # v THEN 0 ELSE IF o = 0 THEN g.resetClear ELSE g.reset)]

(* gasSStore: the gas charged and the change of the refund counter.  A store *)
(* that the sentry of EIP-2200 refuses, or that the frame cannot pay, fails  *)
(* the frame: RevertToSnapshot.                                              *)
gasSStore(g, o, c, v) ==
  IF c = v THEN [gas |-> g.noop, refund |-> 0]
  ELSE IF o = c
  THEN IF o = 0 THEN [gas |-> g.init, refund |-> 0]
       ELSE [gas |-> g.clean, refund |-> IF v = 0 THEN g.clear ELSE 0]
  ELSE [gas |-> g.dirty,
        refund |-> (IF o = 0 THEN 0 ELSE IF c = 0 THEN -g.clear ELSE IF v = 0 THEN g.clear ELSE 0)
                   + (IF o # v THEN 0 ELSE IF o = 0 THEN g.resetClear ELSE g.reset)]

-----------------------------------------------------------------------------
StoreInit == /\ rules \in {eip1283, eip2200, eip2929, eip3529}
             /\ original \in [Slot -> Value] /\ current = original
             /\ refund = 0 /\ warm = {} /\ snapshots = <<>> /\ charged = 0 /\ stores = 0

opSstore == \E s \in Slot, v \in Value :
  LET g == gasSStore(rules, original[s], current[s], v)
  IN /\ stores < MaxStores
     /\ stores' = stores + 1
     /\ charged' = charged + g.gas + (IF s \in warm THEN 0 ELSE rules.cold)
     /\ refund' = refund + g.refund
     /\ current' = [current EXCEPT ![s] = v]
     /\ warm' = warm \cup {s}
     /\ UNCHANGED <<rules, original, snapshots>>

Snapshot == /\ Len(snapshots) < MaxDepth /\ stores < MaxStores
            /\ snapshots' = Append(snapshots, [current |-> current, refund |-> refund, warm |-> warm])
            /\ UNCHANGED <<rules, original, current, refund, warm, charged, stores>>

Last == snapshots[Len(snapshots)]

RevertToSnapshot == /\ snapshots # <<>>
                    /\ current' = Last.current /\ refund' = Last.refund /\ warm' = Last.warm
                    /\ snapshots' = SubSeq(snapshots, 1, Len(snapshots) - 1)
                    /\ UNCHANGED <<rules, original, charged, stores>>

(* A call that ends well keeps its revision id, which is never used again. *)
CallReturns == /\ snapshots # <<>>
               /\ snapshots' = SubSeq(snapshots, 1, Len(snapshots) - 1)
               /\ UNCHANGED <<rules, original, current, refund, warm, charged, stores>>

(* Finalise makes the stored values the committed ones and clears the        *)
(* counter; it runs once per phase of a block, not once per transaction.     *)
Finalise == /\ snapshots = <<>> /\ stores < MaxStores
            /\ original' = current /\ refund' = 0 /\ charged' = 0
            /\ UNCHANGED <<rules, current, warm, snapshots, stores>>

StoreNext == opSstore \/ Snapshot \/ RevertToSnapshot \/ CallReturns \/ Finalise

StoreSpec == StoreInit /\ [][StoreNext]_storeVars

(* "We can prove that refund counter will never go below 0" (gas_table.go),  *)
(* and it never exceeds what the stores were charged plus the bonus for      *)
(* slots that end up cleared, whatever the order of stores, calls and        *)
(* reverts: SubRefund never panics and writing a slot back and forth earns   *)
(* nothing.                                                                  *)
RefundSound ==
  LET cleared == {s \in Slot : original[s] # 0 /\ current[s] = 0}
  IN 0 <= refund /\ refund <= charged + Cardinality(cleared) * rules.clear
=============================================================================
