-------------------------------- MODULE EVM --------------------------------
(* Call frames of core/evm: EVM.Call, CallCode, DelegateCall, StaticCall and *)
(* create (evm.go), the call and create instructions (instructions.go,       *)
(* gas_table.go, gas.go) and the loop of EVMInterpreter.Run with its         *)
(* parallel and serial modes (interpreter.go).  A contract is any sequence   *)
(* of instructions: each step executes one whose kind is chosen freely.      *)
(* Amounts of gas are scaled down; the stack and the memory are the subject  *)
(* of StackOps and EVMMemory.                                                *)
EXTENDS Integers, Sequences, FiniteSets

CONSTANTS Limits,           \* gas limits of the outermost call
          CallCreateDepth,  \* evmparams.CallCreateDepth, 1024
          Fraction          \* all but one part in Fraction (64) is passed on

(* The accounts: a contract that is called first, a second contract, an      *)
(* account without code, one that does not exist yet, and a precompile.      *)
Account  == {"main", "other", "plain", "absent", "precompile", "new"}
HasCode  == {"main", "other"}
MaxUint  == 255             \* uint64, scaled
Supply   == 1               \* the balance of the first contract

CallStipend          == 2
CallValueTransferGas == 3
CallNewAccountGas    == 2
CreateGas            == 2
CreateDataGas        == 1
MaxCodeSize          == 8

VARIABLES world,      \* balances, storage and existing accounts
          frames,     \* the frames of Run, innermost last
          readOnly,   \* interpreter.readOnly
          parallel,   \* IsParallel
          given,      \* the caller passed a TrueAccessList
          result      \* of the outermost call: running, done or panic

vars == <<world, frames, readOnly, parallel, given, result>>

Top   == frames[Len(frames)]
Below == SubSeq(frames, 1, Len(frames) - 1)
depth == Len(frames)

(* A frame: the address whose storage it uses, the value it was called with, *)
(* its gas, CanParallel, the state RevertToSnapshot goes back to, whether    *)
(* this Run set readOnly, whether it creates a contract, whether the loop    *)
(* must break, and the accesses outside the declared list so far.            *)
newFrame(self, gas, snap) ==
  [self |-> self, gas |-> gas, can |-> TRUE, snap |-> snap, static |-> FALSE,
   creates |-> FALSE, break |-> FALSE, conflict |-> FALSE]

Init == /\ world = [bal |-> [a \in Account |-> IF a = "main" THEN Supply ELSE 0],
                    store |-> [a \in Account |-> 0],
                    exist |-> Account \ {"absent", "new"}]
        /\ parallel \in BOOLEAN /\ given \in BOOLEAN
        /\ \E g \in Limits : frames = <<newFrame("main", g, world)>>
        /\ readOnly = FALSE
        /\ result = [status |-> "running", can |-> TRUE, err |-> FALSE, conflict |-> FALSE]

Running == result.status = "running"
setTop(f) == frames' = Append(Below, f)
Charged(cost) == Top.gas >= cost

-----------------------------------------------------------------------------
(* The caller's instruction after a call: the gas that came back, and the    *)
(* callee's CanParallel in place of its own.  A created contract's is        *)
(* dropped.                                                                  *)
resumed(p, gas, can, conflict, creates) ==
  [p EXCEPT !.gas = @ + gas, !.conflict = @ \/ conflict,
            !.can = IF creates THEN @ ELSE can,
            !.break = ~creates /\ parallel /\ ~can]

(* The end of Run in frame f, and the rest of the function that called it:   *)
(* an error reverts the state.  A contract whose code is too large or cannot *)
(* be paid for is an error that does not.                                    *)
End(f, err) ==
  LET back(gas, can) ==
        IF depth = 1
        THEN /\ frames' = <<>>
             /\ result' = [status |-> "done", can |-> can, err |-> err, conflict |-> f.conflict]
        ELSE /\ frames' = Append(SubSeq(Below, 1, Len(Below) - 1),
                            resumed(Below[Len(Below)], gas, can, f.conflict, f.creates))
             /\ UNCHANGED result
  IN /\ readOnly' = (readOnly /\ ~f.static)
     /\ UNCHANGED <<parallel, given>>
     /\ world' = IF err THEN f.snap ELSE world
     /\ IF err \/ ~f.creates THEN back(f.gas, f.can)
        ELSE \E size \in {0, 1, MaxCodeSize + 1} :
               IF size > MaxCodeSize \/ f.gas < size * CreateDataGas THEN back(0, TRUE)
               ELSE back(f.gas - size * CreateDataGas, f.can)

Panic == /\ result' = [result EXCEPT !.status = "panic"]
         /\ UNCHANGED <<world, frames, readOnly, parallel, given>>

(* Parallel mode compares what the instruction touches with the list the     *)
(* StateDB holds, which nothing ever fills; serial mode adds it to           *)
(* TrueAccessList, which ApplyTransaction leaves nil.                        *)
touched(f) == IF parallel THEN [f EXCEPT !.can = FALSE, !.conflict = TRUE] ELSE f
TouchPanics == ~parallel /\ ~given

(* What is not executed is charged all the same. *)
executes(f) == parallel \/ f.can
charge(f, cost) == [f EXCEPT !.gas = @ - cost]
broken(f) == [f EXCEPT !.break = parallel /\ ~f.can]

Ready == Running /\ ~Top.break
Only(f) == setTop(f) /\ UNCHANGED <<world, readOnly, parallel, given, result>>

(* Stack bounds, gas that overflows or does not suffice. *)
Refused == Ready /\ End([Top EXCEPT !.can = TRUE], TRUE)

(* An instruction that neither halts nor leaves the frame. *)
Work == Ready /\ Charged(1) /\ Only(charge(Top, 1))

(* STOP and RETURN; REVERT and INVALID. *)
Halt == \E err \in BOOLEAN : Ready /\ executes(Top) /\ End(Top, err)

(* STOP, or the end of the code, when nothing is executed any more. *)
SkippedStop == Ready /\ ~executes(Top) /\ UNCHANGED vars

Sload == /\ Ready /\ Charged(1)
         /\ IF TouchPanics THEN Panic ELSE Only(broken(touched(charge(Top, 1))))

Sstore ==
  LET f == touched(charge(Top, 1))
  IN /\ Ready /\ Charged(1)
     /\ IF TouchPanics THEN Panic
        ELSE IF ~executes(Top) THEN Only(f)
        ELSE IF readOnly THEN End(f, TRUE)
        ELSE /\ setTop(broken(f))
             /\ world' = [world EXCEPT !.store[f.self] = 1 - @]
             /\ UNCHANGED <<readOnly, parallel, given, result>>

Selfdestruct == \E b \in Account :
  LET f == touched(charge(Top, 1))
      w == [world EXCEPT !.bal[b] = @ + world.bal[f.self], !.exist = @ \cup {b}]
  IN /\ Ready /\ Charged(1)
     /\ IF TouchPanics THEN Panic
        ELSE IF ~executes(Top) THEN Only(f)
        ELSE IF readOnly THEN End(f, TRUE)
        ELSE /\ setTop([f EXCEPT !.break = TRUE])
             /\ world' = [w EXCEPT !.bal[f.self] = 0]
             /\ UNCHANGED <<readOnly, parallel, given, result>>

(* The loop is left: an instruction that ends the frame, or a transaction    *)
(* that cannot stay in the parallel queue.                                   *)
Break == Running /\ Top.break /\ End(Top, FALSE)

-----------------------------------------------------------------------------
(* callGas: all but a part of what is left after the base cost, or less if   *)
(* less is asked for.  The subtraction wraps.                                *)
callGas(available, base, callCost) ==
  LET left == (available - base) % (MaxUint + 1)
      gas  == left - left \div Fraction
  IN IF callCost > MaxUint \/ gas < callCost THEN gas ELSE callCost

baseGas(kind, addr, value) ==
  (IF kind = "CALL" /\ addr \notin world.exist THEN CallNewAccountGas ELSE 0)
  + (IF kind \in {"CALL", "CALLCODE"} /\ value > 0 THEN CallValueTransferGas ELSE 0)

transfer(w, from, to, value) ==
  [[w EXCEPT !.bal[from] = @ - value] EXCEPT !.bal[to] = @ + value]

(* Call creates the account it calls; StaticCall touches it with a transfer  *)
(* of nothing.                                                               *)
alive(kind, addr) ==
  IF kind \in {"CALL", "STATICCALL"} THEN [world EXCEPT !.exist = @ \cup {addr}] ELSE world

(* Mutant: every static call clears readOnly when it ends. *)
setsReadOnlyAlways(kind) == kind = "STATICCALL"
(* The Run that sets readOnly is the one that clears it. *)
setsReadOnly(kind) == kind = "STATICCALL" /\ ~readOnly

(* Call, CallCode, DelegateCall and StaticCall up to the callee's Run; p is  *)
(* the caller's frame with the call paid.  Refusals and accounts without     *)
(* code give the gas back with CanParallel true; Call leaves it false for a  *)
(* precompile.                                                               *)
enter(p, kind, addr, value, gas) ==
  LET self  == IF kind \in {"CALL", "STATICCALL"} THEN addr ELSE p.self
      moved == IF kind = "CALL" THEN transfer(alive(kind, addr), p.self, addr, value)
               ELSE alive(kind, addr)
      answer(g, can, w) == /\ setTop(resumed(p, g, can, FALSE, FALSE)) /\ world' = w
                           /\ UNCHANGED <<readOnly, parallel, given, result>>
  IN IF \/ depth > CallCreateDepth
        \/ world.bal[p.self] < value
        \/ kind = "CALL" /\ value = 0 /\ addr \notin world.exist \cup {"precompile"}
     THEN answer(gas, TRUE, world)
     ELSE IF addr = "precompile"
     THEN \/ gas >= 1 /\ answer(gas - 1, kind # "CALL", moved)
          \/ \E g \in {0, gas} : answer(g, kind # "CALL", world)
     ELSE IF addr \notin HasCode THEN answer(gas, TRUE, moved)
     ELSE /\ frames' = Append(Append(Below, p),
               [newFrame(self, gas, world) EXCEPT !.static = setsReadOnly(kind)])
          /\ readOnly' = (readOnly \/ kind = "STATICCALL")
          /\ world' = moved
          /\ UNCHANGED <<parallel, given, result>>

Call == \E kind \in {"CALL", "CALLCODE", "DELEGATECALL", "STATICCALL"},
           addr \in Account \ {"new"}, value \in {0, 1}, callCost \in {1, MaxUint + 1} :
  LET base == baseGas(kind, addr, value)
      temp == callGas(Top.gas - 1, base, callCost)
      f    == touched(charge(Top, 1 + base + temp))
  IN /\ Ready /\ (kind \in {"DELEGATECALL", "STATICCALL"} => value = 0)
     /\ Charged(1) /\ Charged(1 + base + temp)
     /\ IF TouchPanics THEN Panic
        ELSE IF ~executes(Top) THEN Only(f)
        ELSE IF kind = "CALL" /\ readOnly /\ value > 0 THEN End(f, TRUE)
        ELSE enter(f, kind, addr, value, temp + (IF value > 0 THEN CallStipend ELSE 0))

(* create up to the Run of the new contract's code.  Nonces and code hashes  *)
(* are not part of the world: the nonce may overflow and the address may be  *)
(* taken at any time, and every refusal gives the gas back.                  *)
create(p, gas, value) ==
  \/ Only([p EXCEPT !.gas = @ + gas])
  \/ /\ depth <= CallCreateDepth /\ world.bal[p.self] >= value
     /\ frames' = Append(Append(Below, p), [newFrame("new", gas, world) EXCEPT !.creates = TRUE])
     /\ world' = transfer([world EXCEPT !.exist = @ \cup {"new"}], p.self, "new", value)
     /\ UNCHANGED <<readOnly, parallel, given, result>>

(* CREATE and CREATE2: execute is nil in parallel mode, and in serial mode   *)
(* nothing after the creation is executed.                                   *)
Create == \E value \in {0, 1} :
  LET paid == charge(Top, CreateGas)
      gas  == paid.gas - paid.gas \div Fraction
      p    == [charge(paid, gas) EXCEPT !.can = FALSE]
  IN /\ Ready /\ Charged(CreateGas)
     /\ IF parallel THEN Panic
        ELSE IF readOnly THEN End([paid EXCEPT !.can = FALSE], TRUE)
        ELSE create(p, gas, value)

Next == \/ Refused \/ Work \/ Halt \/ SkippedStop \/ Sload \/ Sstore \/ Selfdestruct
        \/ Break \/ Call \/ Create

Spec == Init /\ [][Next]_vars

-----------------------------------------------------------------------------
sumGas == LET S[i \in 0 .. Len(frames)] == IF i = 0 THEN 0 ELSE S[i - 1] + frames[i].gas
          IN S[Len(frames)]

(* No step creates gas: what all frames hold together never grows, through   *)
(* calls with stipends, wrapped subtractions in callGas, creations, refused  *)
(* calls and errors that give the rest of the gas back.                      *)
GasStep == frames # <<>> => sumGas' <= sumGas

(* Between the start and the end of a static call no balance and no storage  *)
(* changes, however deep the calls nested in it are.                         *)
StaticStep ==
  \A i \in DOMAIN frames : frames[i].static /\ i <= Len(frames') =>
    world'.bal = world.bal /\ world'.store = world.store

total(w) == w.bal["main"] + w.bal["other"] + w.bal["plain"] + w.bal["absent"]
            + w.bal["precompile"] + w.bal["new"]

(* Calls, creations, self-destructions and the reverts between them never    *)
(* create value: the accounts together never hold more than at the start.    *)
ValueNotCreated == total(world) <= Supply
=============================================================================
