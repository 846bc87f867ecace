------------------------------ MODULE StackOps ------------------------------
(* The instruction sets of core/evm: the opcode numbers (opcodes.go), the    *)
(* operation tables of every fork (jump_table.go), the EIPs that change them *)
(* (eips.go) and the stack limits an operation is checked against            *)
(* (stack_table.go).  An operation is the name of its execute function, what *)
(* the table says it pops and pushes, its constant gas and the names of its  *)
(* dynamic gas and memory size functions ("" for nil).                       *)
EXTENDS Integers, Sequences, TLC, SequencesExt

CONSTANT StackLimit          \* evmparams.StackLimit, 1024 in the code

ranges == <<
  [base |-> 0, ops |-> <<"STOP", "ADD", "MUL", "SUB", "DIV", "SDIV", "MOD",
     "SMOD", "ADDMOD", "MULMOD", "EXP", "SIGNEXTEND">>],
  [base |-> \h10, ops |-> <<"LT", "GT", "SLT", "SGT", "EQ", "ISZERO", "AND",
     "OR", "XOR", "NOT", "BYTE", "SHL", "SHR", "SAR">>],
  [base |-> \h20, ops |-> <<"KECCAK256">>],
  [base |-> \h30, ops |-> <<"ADDRESS", "BALANCE", "ORIGIN", "CALLER",
     "CALLVALUE", "CALLDATALOAD", "CALLDATASIZE", "CALLDATACOPY", "CODESIZE",
     "CODECOPY", "GASPRICE", "EXTCODESIZE", "EXTCODECOPY", "RETURNDATASIZE",
     "RETURNDATACOPY", "EXTCODEHASH">>],
  [base |-> \h40, ops |-> <<"BLOCKHASH", "COINBASE", "TIMESTAMP", "NUMBER",
     "DIFFICULTY", "GASLIMIT", "CHAINID", "SELFBALANCE", "BASEFEE",
     "BLOBHASH">>],
  [base |-> \h44, ops |-> <<"PREVRANDAO">>],
  [base |-> \h50, ops |-> <<"POP", "MLOAD", "MSTORE", "MSTORE8", "SLOAD",
     "SSTORE", "JUMP", "JUMPI", "PC", "MSIZE", "GAS", "JUMPDEST", "TLOAD",
     "TSTORE", "MCOPY", "PUSH0">>],
  [base |-> \hF0, ops |-> <<"CREATE", "CALL", "CALLCODE", "RETURN",
     "DELEGATECALL", "CREATE2">>],
  [base |-> \hFA, ops |-> <<"STATICCALL">>],
  [base |-> \hFD, ops |-> <<"REVERT", "INVALID", "SELFDESTRUCT">>] >>

PUSH1  == \h60
PUSH32 == \h7F
DUP1   == \h80
SWAP1  == \h90
LOG0   == \hA0
OpCode == 0 .. 255

(* The number of a named opcode. *)
opcode == LET named == {<<i, j>> \in (DOMAIN ranges) \X (1 .. 16) :
                          j <= Len(ranges[i].ops)}
              name(p) == ranges[p[1]].ops[p[2]]
              at(n) == CHOOSE p \in named : name(p) = n
          IN [n \in {name(p) : p \in named} |->
                ranges[at(n)[1]].base + at(n)[2] - 1]

GasQuickStep   == 2
GasFastestStep == 3
GasFastStep    == 5
GasMidStep     == 8
GasSlowStep    == 10
GasExtStep     == 20
WarmRead       == 100        \* evmparams.WarmStorageReadCostEIP2929

minStack(pops, push) == pops
maxStack(pops, push) == StackLimit + pops - push

(* One row of a table: execute, pops, pushes, constantGas; Dyn and Mem add   *)
(* the dynamic gas and the memory size function, AL puts the function in     *)
(* executeAL and leaves execute nil.                                         *)
Op(x, pops, push, gas) ==
  [execute |-> x, executeAL |-> "", minStack |-> minStack(pops, push),
   maxStack |-> maxStack(pops, push), constantGas |-> gas,
   dynamicGas |-> "", memorySize |-> ""]
Dyn(o, gas)      == [o EXCEPT !.dynamicGas = gas]
Mem(o, gas, mem) == [o EXCEPT !.dynamicGas = gas, !.memorySize = mem]
AL(o)            == [o EXCEPT !.execute = "", !.executeAL = o.execute]

arithmetic ==
  [STOP |-> Op("opStop", 0, 0, 0),
   ADD |-> Op("opAdd", 2, 1, GasFastestStep),
   MUL |-> Op("opMul", 2, 1, GasFastStep),
   SUB |-> Op("opSub", 2, 1, GasFastestStep),
   DIV |-> Op("opDiv", 2, 1, GasFastStep),
   SDIV |-> Op("opSdiv", 2, 1, GasFastStep),
   MOD |-> Op("opMod", 2, 1, GasFastStep),
   SMOD |-> Op("opSmod", 2, 1, GasFastStep),
   ADDMOD |-> Op("opAddmod", 3, 1, GasMidStep),
   MULMOD |-> Op("opMulmod", 3, 1, GasMidStep),
   EXP |-> Dyn(Op("opExp", 2, 1, 0), "gasExpFrontier"),
   SIGNEXTEND |-> Op("opSignExtend", 2, 1, GasFastStep),
   LT |-> Op("opLt", 2, 1, GasFastestStep),
   GT |-> Op("opGt", 2, 1, GasFastestStep),
   SLT |-> Op("opSlt", 2, 1, GasFastestStep),
   SGT |-> Op("opSgt", 2, 1, GasFastestStep),
   EQ |-> Op("opEq", 2, 1, GasFastestStep),
   ISZERO |-> Op("opIszero", 1, 1, GasFastestStep),
   AND |-> Op("opAnd", 2, 1, GasFastestStep),
   XOR |-> Op("opXor", 2, 1, GasFastestStep),
   OR |-> Op("opOr", 2, 1, GasFastestStep),
   NOT |-> Op("opNot", 1, 1, GasFastestStep),
   BYTE |-> Op("opByte", 2, 1, GasFastestStep)]

environment ==
  [KECCAK256 |-> Mem(Op("opKeccak256", 2, 1, 30), "gasKeccak256", "memoryKeccak256"),
   ADDRESS |-> Op("opAddress", 0, 1, GasQuickStep),
   BALANCE |-> Op("opBalance", 1, 1, 20),
   ORIGIN |-> Op("opOrigin", 0, 1, GasQuickStep),
   CALLER |-> Op("opCaller", 0, 1, GasQuickStep),
   CALLVALUE |-> Op("opCallValue", 0, 1, GasQuickStep),
   CALLDATALOAD |-> Op("opCallDataLoad", 1, 1, GasFastestStep),
   CALLDATASIZE |-> Op("opCallDataSize", 0, 1, GasQuickStep),
   CALLDATACOPY |-> Mem(Op("opCallDataCopy", 3, 0, GasFastestStep),
                        "gasCallDataCopy", "memoryCallDataCopy"),
   CODESIZE |-> Op("opCodeSize", 0, 1, GasQuickStep),
   CODECOPY |-> Mem(Op("opCodeCopy", 3, 0, GasFastestStep), "gasCodeCopy", "memoryCodeCopy"),
   GASPRICE |-> Op("opGasprice", 0, 1, GasQuickStep),
   EXTCODESIZE |-> Op("opExtCodeSize", 1, 1, 20),
   EXTCODECOPY |-> Mem(Op("opExtCodeCopy", 4, 0, 20), "gasExtCodeCopy", "memoryExtCodeCopy"),
   BLOCKHASH |-> Op("opBlockhash", 1, 1, GasExtStep),
   COINBASE |-> Op("opCoinbase", 0, 1, GasQuickStep),
   TIMESTAMP |-> Op("opTimestamp", 0, 1, GasQuickStep),
   NUMBER |-> Op("opNumber", 0, 1, GasQuickStep),
   DIFFICULTY |-> Op("opDifficulty", 0, 1, GasQuickStep),
   GASLIMIT |-> Op("opGasLimit", 0, 1, GasQuickStep)]

memoryAndFlow ==
  [POP |-> Op("opPop", 1, 0, GasQuickStep),
   MLOAD |-> Mem(Op("opMload", 1, 1, GasFastestStep), "gasMLoad", "memoryMLoad"),
   MSTORE |-> Mem(Op("opMstore", 2, 0, GasFastestStep), "gasMStore", "memoryMStore"),
   MSTORE8 |-> Mem(Op("opMstore8", 2, 0, GasFastestStep), "gasMStore8", "memoryMStore8"),
   SLOAD |-> Op("opSload", 1, 1, 50),
   SSTORE |-> Dyn(Op("opSstore", 2, 0, 0), "gasSStore"),
   JUMP |-> Op("opJump", 1, 0, GasMidStep),
   JUMPI |-> Op("opJumpi", 2, 0, GasSlowStep),
   PC |-> Op("opPc", 0, 1, GasQuickStep),
   MSIZE |-> Op("opMsize", 0, 1, GasQuickStep),
   GAS |-> Op("opGas", 0, 1, GasQuickStep),
   JUMPDEST |-> Op("opJumpdest", 0, 0, 1)]

pushes1to16  == [n \in 1 .. 16 |-> Op(IF n = 1 THEN "opPush1" ELSE "makePush", 0, 1, GasFastestStep)]
pushes17to32 == [n \in 17 .. 32 |-> Op("makePush", 0, 1, GasFastestStep)]
minDupStack(n)  == minStack(n, n + 1)
maxDupStack(n)  == maxStack(n, n + 1)
(* Mutant: SWAP asks for one item less than it exchanges. *)
minSwapStackShort(n) == minStack(n - 1, n - 1)
minSwapStack(n) == minStack(n, n)
maxSwapStack(n) == maxStack(n, n)
dups == [n \in 1 .. 16 |->
  [Op("makeDup", 0, 0, GasFastestStep) EXCEPT !.minStack = minDupStack(n),
                                              !.maxStack = maxDupStack(n)]]
swaps == [n \in 1 .. 16 |->
  [Op("makeSwap", 0, 0, GasFastestStep) EXCEPT !.minStack = minSwapStack(n + 1),
                                               !.maxStack = maxSwapStack(n + 1)]]
logs == [n \in 0 .. 4 |-> Mem(Op("makeLog", n + 2, 0, 0), "makeGasLog", "memoryLog")]

calls ==
  [CREATE |-> Mem(AL(Op("opCreate", 3, 1, 32000)), "gasCreate", "memoryCreate"),
   CALL |-> Mem(AL(Op("opCall", 7, 1, 40)), "gasCall", "memoryCall"),
   CALLCODE |-> Mem(AL(Op("opCallCode", 7, 1, 40)), "gasCallCode", "memoryCall"),
   RETURN |-> Mem(Op("opReturn", 2, 0, 0), "gasReturn", "memoryReturn"),
   SELFDESTRUCT |-> Dyn(Op("opSelfdestruct", 1, 0, 0), "gasSelfdestruct")]

opUndefined == Op("opUndefined", 0, 0, 0)

(* The rows of a record of named operations, by opcode number. *)
rows(r) == [c \in {opcode[n] : n \in DOMAIN r} |->
              r[CHOOSE n \in DOMAIN r : opcode[n] = c]]
with(t, r) == rows(r) @@ t
gasOf(t, name, gas) == [t EXCEPT ![opcode[name]].constantGas = gas]
dynOf(t, name, f) == [t EXCEPT ![opcode[name]].dynamicGas = f]

newFrontierInstructionSet ==
  rows(arithmetic) @@ rows(environment) @@ rows(memoryAndFlow) @@ rows(calls)
  @@ [c \in PUSH1 .. PUSH1 + 15 |-> pushes1to16[c - PUSH1 + 1]]
  @@ [c \in PUSH1 + 16 .. PUSH32 |-> pushes17to32[c - PUSH1 + 1]]
  @@ [c \in DUP1 .. DUP1 + 15 |-> dups[c - DUP1 + 1]]
  @@ [c \in SWAP1 .. SWAP1 + 15 |-> swaps[c - SWAP1 + 1]]
  @@ [c \in LOG0 .. LOG0 + 4 |-> logs[c - LOG0]]
  @@ [c \in OpCode |-> opUndefined]

enable1344(t) == with(t, [CHAINID |-> Op("opChainID", 0, 1, GasQuickStep)])
enable1884(t) ==
  with(gasOf(gasOf(gasOf(t, "SLOAD", 800), "BALANCE", 700), "EXTCODEHASH", 700),
       [SELFBALANCE |-> Op("opSelfBalance", 0, 1, GasFastStep)])
enable2200(t) == dynOf(gasOf(t, "SLOAD", 800), "SSTORE", "gasSStoreEIP2200")
(* EIP-2929: the price of a warm access is the constant part and the         *)
(* surcharge of a cold one the dynamic part.                                 *)
enable2929(t) ==
  LET warm == [EXTCODECOPY |-> "gasExtCodeCopyEIP2929", EXTCODESIZE |-> "gasEip2929AccountCheck",
               EXTCODEHASH |-> "gasEip2929AccountCheck", BALANCE |-> "gasEip2929AccountCheck",
               CALL |-> "gasCallEIP2929", CALLCODE |-> "gasCallCodeEIP2929",
               STATICCALL |-> "gasStaticCallEIP2929", DELEGATECALL |-> "gasDelegateCallEIP2929"]
      priced == with(t, [n \in DOMAIN warm |->
                  [t[opcode[n]] EXCEPT !.constantGas = WarmRead, !.dynamicGas = warm[n]]])
      stored == dynOf(priced, "SSTORE", "gasSStoreEIP2929")
      loaded == dynOf(gasOf(stored, "SLOAD", 0), "SLOAD", "gasSLoadEIP2929")
  IN dynOf(gasOf(loaded, "SELFDESTRUCT", 5000), "SELFDESTRUCT", "gasSelfdestructEIP2929")
enable3529(t) == dynOf(dynOf(t, "SSTORE", "gasSStoreEIP3529"),
                       "SELFDESTRUCT", "gasSelfdestructEIP3529")
enable3198(t) == with(t, [BASEFEE |-> Op("opBaseFee", 0, 1, GasQuickStep)])
enable1153(t) == with(t, [TLOAD |-> Op("opTload", 1, 1, WarmRead),
                          TSTORE |-> Op("opTstore", 2, 0, WarmRead)])
enable3855(t) == with(t, [PUSH0 |-> Op("opPush0", 0, 1, GasQuickStep)])
enable3860(t) == dynOf(dynOf(t, "CREATE", "gasCreateEip3860"),
                       "CREATE2", "gasCreate2Eip3860")
enable5656(t) == with(t, [MCOPY |-> Mem(Op("opMcopy", 3, 0, GasFastestStep),
                                        "gasMcopy", "memoryMcopy")])
enable4844(t) == with(t, [BLOBHASH |-> Op("opBlobHash", 1, 1, GasFastestStep)])
enable6780(t) == with(t, [SELFDESTRUCT |->
                   Dyn(Op("opSelfdestruct6780", 1, 0, 5000), "gasSelfdestructEIP3529")])

newHomesteadInstructionSet ==
  with(newFrontierInstructionSet, [DELEGATECALL |->
    Mem(AL(Op("opDelegateCall", 6, 1, 40)), "gasDelegateCall", "memoryDelegateCall")])
newTangerineWhistleInstructionSet ==
  LET price == [BALANCE |-> 400, EXTCODESIZE |-> 700, SLOAD |-> 200, EXTCODECOPY |-> 700,
                CALL |-> 700, CALLCODE |-> 700, DELEGATECALL |-> 700]
      t == newHomesteadInstructionSet
  IN with(t, [n \in DOMAIN price |-> [t[opcode[n]] EXCEPT !.constantGas = price[n]]])
newSpuriousDragonInstructionSet ==
  dynOf(newTangerineWhistleInstructionSet, "EXP", "gasExpEIP158")
newByzantiumInstructionSet ==
  with(newSpuriousDragonInstructionSet,
    [STATICCALL |-> Mem(AL(Op("opStaticCall", 6, 1, 700)), "gasStaticCall", "memoryStaticCall"),
     RETURNDATASIZE |-> Op("opReturnDataSize", 0, 1, GasQuickStep),
     RETURNDATACOPY |-> Mem(Op("opReturnDataCopy", 3, 0, GasFastestStep),
                            "gasReturnDataCopy", "memoryReturnDataCopy"),
     REVERT |-> Mem(Op("opRevert", 2, 0, 0), "gasRevert", "memoryRevert")])
newConstantinopleInstructionSet ==
  with(newByzantiumInstructionSet,
    [SHL |-> Op("opSHL", 2, 1, GasFastestStep), SHR |-> Op("opSHR", 2, 1, GasFastestStep),
     SAR |-> Op("opSAR", 2, 1, GasFastestStep),
     EXTCODEHASH |-> Op("opExtCodeHash", 1, 1, 400),
     CREATE2 |-> Mem(AL(Op("opCreate2", 4, 1, 32000)), "gasCreate2", "memoryCreate2")])
newIstanbulInstructionSet == enable2200(enable1884(enable1344(newConstantinopleInstructionSet)))
newBerlinInstructionSet   == enable2929(newIstanbulInstructionSet)
newLondonInstructionSet   == enable3198(enable3529(newBerlinInstructionSet))
newMergeInstructionSet    ==
  with(newLondonInstructionSet, [PREVRANDAO |-> Op("opRandom", 0, 1, GasQuickStep)])
newShanghaiInstructionSet == enable3860(enable3855(newMergeInstructionSet))
newCancunInstructionSet   ==
  enable6780(enable5656(enable1153(enable4844(newShanghaiInstructionSet))))

instructionSets ==
  [Frontier |-> newFrontierInstructionSet, Homestead |-> newHomesteadInstructionSet,
   TangerineWhistle |-> newTangerineWhistleInstructionSet,
   SpuriousDragon |-> newSpuriousDragonInstructionSet,
   Byzantium |-> newByzantiumInstructionSet,
   Constantinople |-> newConstantinopleInstructionSet,
   Istanbul |-> newIstanbulInstructionSet, Berlin |-> newBerlinInstructionSet,
   London |-> newLondonInstructionSet, Merge |-> newMergeInstructionSet,
   Shanghai |-> newShanghaiInstructionSet, Cancun |-> newCancunInstructionSet]

(* validate: a memory size function comes with a dynamic gas function. *)
validate(t) == \A c \in OpCode : t[c].memorySize # "" => t[c].dynamicGas # ""

-----------------------------------------------------------------------------
(* The stack discipline of core/evm: what every execute function of          *)
(* instructions.go and eips.go does to the stack (stack.go), how deep every  *)
(* gas and memory size function looks into it, and the bounds check of       *)
(* EVMInterpreter.Run, which is the only thing that keeps pop, peek, Back,   *)
(* dup and swap inside the slice.  The values on the stack are left out: a   *)
(* program is any sequence of opcodes.                                       *)

(* A stack operation: the items it needs and how the height changes. *)
pop     == [needs |-> 1, by |-> -1]
peek    == [needs |-> 1, by |-> 0]
pushItem    == [needs |-> 0, by |-> 1]
dup(n)  == [needs |-> n, by |-> 1]
swap(n) == [needs |-> n, by |-> 0]
Back(n) == [needs |-> n + 1, by |-> 0]

unary   == <<peek>>
binary  == <<pop, peek>>
ternary == <<pop, pop, peek>>
popN(n) == [i \in 1 .. n |-> pop]
pushOne == <<pushItem>>
call(n) == Append(popN(n), pushItem)

arithmeticUse ==
  [f \in {"opAdd", "opSub", "opMul", "opDiv", "opSdiv", "opMod", "opSmod", "opExp",
          "opSignExtend", "opLt", "opGt", "opSlt", "opSgt", "opEq", "opAnd", "opOr",
          "opXor", "opByte"} |-> binary]
  @@ [f \in {"opNot", "opIszero"} |-> unary]

modularUse == [opAddmod |-> ternary, opMulmod |-> ternary]

shiftUse == [opSHL |-> binary, opSHR |-> binary, opSAR |-> binary, opKeccak256 |-> binary]

environmentUse ==
  [f \in {"opAddress", "opOrigin", "opCaller", "opCallValue", "opCallDataSize",
          "opReturnDataSize", "opCodeSize"} |-> pushOne]
  @@ [f \in {"opBalance", "opCallDataLoad", "opExtCodeSize"} |-> unary]
  @@ [f \in {"opCallDataCopy", "opReturnDataCopy", "opCodeCopy"} |-> popN(3)]
  @@ [opExtCodeCopy |-> popN(4)]

blockUse ==
  [f \in {"opGasprice", "opCoinbase", "opTimestamp", "opNumber", "opDifficulty",
          "opRandom", "opGasLimit"} |-> pushOne]
  @@ [opExtCodeHash |-> unary, opBlockhash |-> unary]

eipUse ==
  [f \in {"opSelfBalance", "opChainID", "opBaseFee", "opPush0"} |-> pushOne]
  @@ [opTload |-> unary, opTstore |-> popN(2), opMcopy |-> popN(3), opBlobHash |-> unary]

memoryUse ==
  [f \in {"opPc", "opMsize", "opGas"} |-> pushOne]
  @@ [f \in {"opMload", "opSload"} |-> unary]
  @@ [f \in {"opMstore", "opMstore8", "opSstore", "opJumpi"} |-> popN(2)]
  @@ [opPop |-> popN(1), opJump |-> popN(1), opJumpdest |-> <<>>]

createUse == [opCreate |-> call(3), opCreate2 |-> call(4)]

callUse == [opCall |-> call(7), opCallCode |-> call(7), opDelegateCall |-> call(6),
            opStaticCall |-> call(6)]

haltUse == [opReturn |-> popN(2), opRevert |-> popN(2), opStop |-> <<>>,
            opUndefined |-> <<>>, opSelfdestruct |-> popN(1), opSelfdestruct6780 |-> popN(1)]

fixedUse == arithmeticUse @@ modularUse @@ shiftUse @@ environmentUse @@ blockUse @@ eipUse
            @@ memoryUse @@ createUse @@ callUse @@ haltUse

makePush(size) == pushOne
makeDup(size)  == <<dup(size)>>
makeSwap(size) == <<swap(size + 1)>>
makeLog(size)  == popN(size + 2)

(* What the function of opcode c does; makePush, makeDup, makeSwap and makeLog *)
(* are applied to the opcode's place in its family.                            *)
executed(c, f) ==
  CASE f \in {"opPush1", "makePush"} -> makePush(c - PUSH1 + 1)
    [] f = "makeDup"  -> makeDup(c - DUP1 + 1)
    [] f = "makeSwap" -> makeSwap(c - SWAP1 + 1)
    [] f = "makeLog"  -> makeLog(c - LOG0)
    [] OTHER          -> fixedUse[f]

(* The deepest item each dynamic gas function reads. *)
pureReads == [f \in {"gasReturn", "gasRevert", "gasMLoad", "gasMStore8", "gasMStore",
                     "gasCreate"} |-> <<>>]
copierReads == [f \in {"gasCallDataCopy", "gasCodeCopy", "gasMcopy",
                       "gasReturnDataCopy"} |-> <<Back(2)>>]
               @@ [gasExtCodeCopy |-> <<Back(3)>>]
storeReads == [f \in {"gasSStore", "gasSStoreEIP2200"} |-> <<Back(1), Back(0)>>]
logReads == [makeGasLog |-> <<Back(1)>>, gasKeccak256 |-> <<Back(1)>>]
createReads == [f \in {"gasCreate2", "gasCreateEip3860", "gasCreate2Eip3860"} |-> <<Back(2)>>]
expReads == [gasExpFrontier |-> <<Back(1)>>, gasExpEIP158 |-> <<Back(1)>>]
callReads == [gasCall |-> <<Back(2), Back(1), Back(0)>>, gasCallCode |-> <<Back(2), Back(0)>>,
              gasDelegateCall |-> <<Back(0)>>, gasStaticCall |-> <<Back(0)>>,
              gasSelfdestruct |-> <<Back(0)>>]
aclReads ==
  [f \in {"gasSStoreEIP2929", "gasSStoreEIP3529"} |-> <<peek, Back(1)>>]
  @@ [f \in {"gasSLoadEIP2929", "gasEip2929AccountCheck"} |-> <<peek>>]
  @@ [gasExtCodeCopyEIP2929 |-> <<Back(3), peek>>]
callVariantReads ==
  [gasCallEIP2929 |-> <<Back(1)>> \o callReads.gasCall,
   gasCallCodeEIP2929 |-> <<Back(1)>> \o callReads.gasCallCode,
   gasStaticCallEIP2929 |-> <<Back(1)>> \o callReads.gasStaticCall,
   gasDelegateCallEIP2929 |-> <<Back(1)>> \o callReads.gasDelegateCall]
makeSelfdestructReads == [gasSelfdestructEIP2929 |-> <<peek>>, gasSelfdestructEIP3529 |-> <<peek>>]
gasReads == pureReads @@ copierReads @@ storeReads @@ logReads @@ createReads @@ expReads
            @@ callReads @@ aclReads @@ callVariantReads @@ makeSelfdestructReads

(* The operands each memory size function reads: offset and length. *)
memoryReads ==
  [f \in {"memoryKeccak256", "memoryReturn", "memoryRevert", "memoryLog"} |-> <<Back(0), Back(1)>>]
  @@ [f \in {"memoryCallDataCopy", "memoryReturnDataCopy", "memoryCodeCopy"} |-> <<Back(0), Back(2)>>]
  @@ [f \in {"memoryMLoad", "memoryMStore8", "memoryMStore"} |-> <<Back(0)>>]
  @@ [f \in {"memoryCreate", "memoryCreate2"} |-> <<Back(1), Back(2)>>]
  @@ [f \in {"memoryDelegateCall", "memoryStaticCall"} |-> <<Back(4), Back(5), Back(2), Back(3)>>]
  @@ [memoryExtCodeCopy |-> <<Back(1), Back(3)>>, memoryMcopy |-> <<Back(0), Back(1), Back(2)>>,
      memoryCall |-> <<Back(5), Back(6), Back(3), Back(4)>>]

-----------------------------------------------------------------------------
VARIABLES table,     \* EVMInterpreter.table
          height     \* stack.len()

vars == <<table, height>>

(* One iteration of Run as far as the stack goes: the memory size, then the  *)
(* gas, then the operation itself, as one sequence of stack operations.      *)
iteration(c) ==
  LET o == table[c]
      f == IF o.executeAL # "" THEN o.executeAL ELSE o.execute
  IN (IF o.memorySize # "" THEN memoryReads[o.memorySize] ELSE <<>>)
     \o (IF o.dynamicGas # "" THEN gasReads[o.dynamicGas] ELSE <<>>)
     \o executed(c, f)

heightAfter(uses, h) == FoldLeft(LAMBDA k, u : k + u.by, h, uses)

(* Validate stack: Run refuses the opcode outside these bounds. *)
accepted(c) == table[c].minStack <= height /\ height <= table[c].maxStack

halts(c) == table[c].execute \in DOMAIN haltUse

Init == /\ \E fork \in DOMAIN instructionSets : table = instructionSets[fork]
        /\ height = 0

Run == \E c \in OpCode :
         /\ accepted(c)
         /\ ~halts(c)
         /\ height' = heightAfter(iteration(c), height)
         /\ UNCHANGED table

Next == Run

Spec == Init /\ [][Next]_vars

(* Whatever program runs under whatever fork, an opcode that passes Run's    *)
(* check of minStack and maxStack never reads or pops below the bottom of    *)
(* the stack and never lifts it above StackLimit, at any moment between its  *)
(* memory size function and the end of its execute function.                 *)
StackSafe ==
  /\ validate(table)
  /\ \A c \in OpCode : accepted(c) =>
       LET uses == iteration(c)
       IN \A i \in DOMAIN uses :
            LET h == heightAfter(SubSeq(uses, 1, i - 1), height)
            IN uses[i].needs <= h /\ h + uses[i].by <= StackLimit

-----------------------------------------------------------------------------
(* JUMPDEST analysis (core/evm/analysis.go): the pass over a contract's code *)
(* that marks the bytes that are arguments of a PUSH, eight to a byte of the *)
(* bit vector, sixteen, eight or fewer at a time.  A byte of the vector is   *)
(* the set of its bits; the code is any sequence of instructions, the last   *)
(* one possibly cut off by the end of the code.                              *)

CONSTANT MaxCode           \* the longest code

VARIABLES codeLen,         \* len(code)
          codePos,         \* pc
          bits,            \* the bit vector
          data             \* the positions that are arguments of a PUSH

bitmapVars == <<codeLen, codePos, bits, data>>

Byte == 0 .. 7
bytes(n) == 0 .. n \div 8 + 1 + 4 - 1      \* make(bitvec, len(code)/8+1+4)

(* flag << k within 16 bits: its low byte, and its high byte. *)
low(flag, k)  == {b + k : b \in flag} \cap Byte
high(flag, k) == {b + k - 8 : b \in flag} \cap Byte

(* A write outside the vector would show as a byte it does not have. *)
assign(v, i, s) == [j \in DOMAIN v \cup {i} |-> IF j = i THEN s ELSE v[j]]
or(v, i, s)     == assign(v, i, s \cup IF i \in DOMAIN v THEN v[i] ELSE {})

set1(v, pos) == or(v, pos \div 8, {pos % 8})
setN(v, n, pos) ==
  LET flag == 0 .. n - 1
      a    == or(v, pos \div 8, low(flag, pos % 8))
      b    == high(flag, pos % 8)
  IN IF b # {} THEN assign(a, pos \div 8 + 1, b) ELSE a
set8(v, pos) ==
  LET a == low(Byte, pos % 8)
  IN assign(or(v, pos \div 8, a), pos \div 8 + 1, Byte \ a)
set16(v, pos) ==
  LET a == low(Byte, pos % 8)
  IN assign(assign(or(v, pos \div 8, a), pos \div 8 + 1, Byte), pos \div 8 + 2, Byte \ a)

codeSegment(v, pos) == pos % 8 \notin v[pos \div 8]

(* The arguments of a PUSH of n bytes that starts at pos: rounds of sixteen  *)
(* while there are that many, then of eight, then the switch on the rest.    *)
by16(r) == IF r.n < 16 THEN r ELSE [n |-> r.n - 16, pos |-> r.pos + 16, v |-> set16(r.v, r.pos)]
by8(r)  == IF r.n < 8 THEN r ELSE [n |-> r.n - 8, pos |-> r.pos + 8, v |-> set8(r.v, r.pos)]
rest(r) == CASE r.n = 0 -> r.v
             [] r.n = 1 -> set1(r.v, r.pos)
             [] OTHER   -> setN(r.v, r.n, r.pos)
mark(n, pos, v) == rest(by8(by16(by16([n |-> n, pos |-> pos, v |-> v]))))

BitmapInit == /\ codeLen \in 0 .. MaxCode
              /\ codePos = 0 /\ data = {}
              /\ bits = [i \in bytes(codeLen) |-> {}]

(* One round of codeBitmapInternal: an instruction with n bytes of argument. *)
codeBitmapInternal == \E n \in 0 .. 32 :
  /\ codePos < codeLen
  /\ bits' = mark(n, codePos + 1, bits)
  /\ codePos' = codePos + 1 + n
  /\ data' = data \cup (codePos + 1 .. codePos + n)
  /\ UNCHANGED codeLen

BitmapNext == codeBitmapInternal

BitmapSpec == BitmapInit /\ [][BitmapNext]_bitmapVars

(* The analysis marks every argument byte and no instruction, at every       *)
(* alignment and for a PUSH cut off by the end of the code, and never writes *)
(* outside the four spare bytes of the vector: a jump can only land on an    *)
(* instruction.                                                              *)
BitmapExact ==
  /\ DOMAIN bits = bytes(codeLen)
  /\ \A p \in 0 .. 8 * (codeLen \div 8 + 5) - 1 : codeSegment(bits, p) <=> p \notin data
=============================================================================
