------------------------------- MODULE MCEVM -------------------------------
(* The models of core/evm and of the processor of blocks for TLC.  A         *)
(* behaviour is a behaviour of one of them, chosen at the start; the         *)
(* variables table, height, x3 .. x8 are lent to it and the ones it does not *)
(* need stay empty.                                                          *)
EXTENDS StackOps

CONSTANTS slotA, slotB

VARIABLES unit, x3, x4, x5, x6, x7, x8

lent == <<table, height, x3, x4, x5, x6, x7, x8>>
mcvars == <<unit, lent, bitmapVars>>

(* One module for the memory and the stores of a frame: a behaviour is one   *)
(* of the two, and their variables share what is lent.                       *)
Memory == INSTANCE EVMMemory WITH WordSize <- 4, MaxUint64 <- 255, MaxMemSize <- 28,
            QuadCoeffDiv <- 8, Operand <- {0, 9, 27, 252, 255, 261},
            len <- table, lastGasCost <- height, paid <- x3, touched <- x4, stopped <- x5,
            Slot <- {slotA, slotB}, Value <- 0 .. 2, MaxStores <- 4, MaxDepth <- 2,
            rules <- table, original <- height, current <- x3, refund <- x4, warm <- x5,
            snapshots <- x6, charged <- x7, stores <- x8
Frames == INSTANCE EVM WITH Limits <- {8}, CallCreateDepth <- 2, Fraction <- 4,
            world <- table, frames <- height, readOnly <- x3, parallel <- x4, given <- x5, result <- x6
Contract == INSTANCE Precompiles WITH MaxInput <- 1200, MaxUint64 <- 1023,
              Lengths <- {0, 1, 33, 384, 415, 512, 1023, 1024, 1025}, request <- table, out <- height

-----------------------------------------------------------------------------
Ops == INSTANCE AccessListOps

(* Blocks of the processor: a sender with two transactions and a second      *)
(* sender in one class, with every kind of code and a value the sender can   *)
(* or cannot pay twice; two classes of one transaction each; transactions    *)
(* that are refused; a fee cap below twice the tip; and an empty block.      *)
(* Account 3 has code, account 4 has the largest nonce.                      *)
listOf(n) == Ops!AddAddress(Ops!NewAccessList, n)
Tx(h, from, nonce, kind, n, value) ==
  [hash |-> h, from |-> from, nonce |-> nonce, kind |-> kind, list |-> listOf(n), to |-> 3,
   value |-> value, limit |-> 3, gas |-> 1, tip |-> 1, cap |-> 4, price |-> 4, signed |-> TRUE]
Kinds == {"plain", "precompile", "fails", "touch", "refunds", "missing"}
Capped(x)   == [x EXCEPT !.cap = 1, !.price = 1]
Unsigned(x) == [x EXCEPT !.signed = FALSE]
MCBlocks ==
  {<<Tx(1, 1, 0, k1, "a", 0), Tx(2, 1, 1, k2, "a", v), Tx(3, 2, 0, k3, "a", 0)>>
     : k1, k2 \in Kinds, k3 \in {"plain", "touch"}, v \in {1, 4}}
  \cup {<<Tx(1, 1, 0, k1, "a", 0), Tx(2, 2, 0, k2, "b", 1)>>
          : k1 \in {"plain", "precompile", "fails"}, k2 \in {"plain", "touch", "fails", "refunds"}}
  \cup {<<Unsigned(Tx(1, 1, 0, k, "a", 0)), Tx(2, 1, 0, k, "a", 0), Tx(3, 3, 0, k, "a", 0)>> : k \in Kinds}
  \cup {<<Tx(1, 4, 2, k, "a", 0), [Tx(2, 1, 0, k, "a", 0) EXCEPT !.cap = 0],
          [Tx(3, 2, 0, k, "a", 0) EXCEPT !.limit = 0]>> : k \in Kinds}
  \cup {<<Capped(Tx(1, 1, 0, k, "a", 0)), Capped(Tx(2, 1, 1, "refunds", "a", 0))>> : k \in Kinds}
  \cup {<<>>}
MCFunds  == [i \in 0 .. 4 |-> IF i \in {1, 2} THEN 20 ELSE 0]
MCNonces == [i \in 0 .. 4 |-> IF i = 4 THEN 2 ELSE 0]

(* Blocks to classify: four transactions of two senders over access lists    *)
(* with one or two addresses and a slot.                                     *)
Lists == LET slot(l, n, x) == Ops!AddSlot(l, n, x)
         IN {listOf("a"), listOf("b"), Ops!AddAddress(listOf("a"), "b"),
             slot(listOf("b"), "c", slotA), slot(slot(Ops!NewAccessList, "a", slotA), "c", slotB)}
Classify == {<<[from |-> 1, nonce |-> 1, list |-> l1], [from |-> 2, nonce |-> 0, list |-> l2],
               [from |-> 1, nonce |-> 0, list |-> l3], [from |-> 2, nonce |-> 1, list |-> l4]>>
               : l1, l2, l3, l4 \in Lists}

Processor == INSTANCE Processor WITH Blocks <- MCBlocks, Accounts <- 0 .. 4, Funds <- MCFunds,
               Nonces <- MCNonces, MaxNonce <- 2, Coded <- {3}, BaseGas <- 1,
               SelfdestructRefundGas <- 1, st <- table, fee <- height, usedGas <- x3, th <- x4,
               phase <- x5, out <- x6, block <- x7

-----------------------------------------------------------------------------
NoCode == codeLen = 0 /\ codePos = 0 /\ bits = 0 /\ data = 0

MCInit ==
  \/ /\ unit = "bitmap" /\ BitmapInit
     /\ table = 0 /\ height = 0
     /\ x3 = 0 /\ x4 = 0 /\ x5 = 0 /\ x6 = 0 /\ x7 = 0 /\ x8 = 0
  \/ /\ NoCode
     /\ \/ /\ unit = "stack" /\ Init
           /\ x3 = 0 /\ x4 = 0 /\ x5 = 0 /\ x6 = 0 /\ x7 = 0 /\ x8 = 0
        \/ unit = "memory" /\ Memory!Init /\ x6 = 0 /\ x7 = 0 /\ x8 = 0
        \/ unit = "store" /\ Memory!StoreInit
        \/ unit = "frames" /\ Frames!Init /\ x7 = 0 /\ x8 = 0
        \/ /\ unit = "contract" /\ Contract!Init
           /\ x3 = 0 /\ x4 = 0 /\ x5 = 0 /\ x6 = 0 /\ x7 = 0 /\ x8 = 0
        \/ unit = "processor" /\ Processor!Init /\ x8 = 0
        \/ /\ unit = "classify" /\ table \in Classify
           /\ height = 0 /\ x3 = 0 /\ x4 = 0 /\ x5 = 0 /\ x6 = 0 /\ x7 = 0 /\ x8 = 0

(* Only the processor must come to an end by itself. *)
Rest == unit # "processor" /\ UNCHANGED <<lent, bitmapVars>>

MCNext ==
  /\ UNCHANGED unit
  /\ \/ unit = "bitmap" /\ BitmapNext /\ UNCHANGED lent
     \/ /\ UNCHANGED bitmapVars
        /\ \/ unit = "stack" /\ Next /\ UNCHANGED <<x3, x4, x5, x6, x7, x8>>
           \/ unit = "memory" /\ Memory!Next /\ UNCHANGED <<x6, x7, x8>>
           \/ unit = "store" /\ Memory!StoreNext
           \/ unit = "frames" /\ Frames!Next /\ UNCHANGED <<x7, x8>>
           \/ unit = "contract" /\ Contract!Next /\ UNCHANGED <<x3, x4, x5, x6, x7, x8>>
           \/ unit = "processor" /\ Processor!Next /\ UNCHANGED x8
     \/ Rest

MCSpec == MCInit /\ [][MCNext]_mcvars

(* EVMMemory: every region an instruction touches after the resize is inside *)
(* the memory, and growing step by step costs what growing at once costs.    *)
MemorySound == unit = "memory" => Memory!MemoryCovered /\ Memory!MemoryPaid

(* StackOps and Precompiles: an opcode that passes the interpreter's check   *)
(* of the stack stays inside it, under every fork's table; the JUMPDEST      *)
(* analysis marks exactly the arguments of PUSH and writes inside its        *)
(* vector; a precompile that succeeds was paid for every item and read only  *)
(* bytes of its input.                                                       *)
AccessInBounds == /\ unit = "stack" => StackSafe
                  /\ unit = "bitmap" => BitmapExact
                  /\ unit = "contract" => Contract!PaidAndInBounds

(* EVMMemory: the refund counter stays between zero and what the stores were *)
(* charged plus the bonus of the slots that end up cleared.                  *)
RefundsSound == unit = "store" => Memory!RefundSound

(* EVM: no step of calls, creations, refusals and errors creates gas, value  *)
(* is never created, and nothing below a static call changes a balance or a  *)
(* slot.                                                                     *)
FramesSound == /\ [][unit = "frames" => Frames!GasStep /\ Frames!StaticStep]_mcvars
               /\ [](unit = "frames" => Frames!ValueNotCreated)

(* ClassifyTx: classes lose no transaction, join only what is connected, and *)
(* keep the nonces of a sender in order.                                     *)
ClassesSound == unit = "classify" => Processor!IsClassified(table)

(* Processor: every transaction of a block ends with one receipt or one      *)
(* error, no gas is counted twice, and one class keeps the nonce order       *)
(* through the serial queue, counts all of its gas and creates no money.     *)
ProcessingSound == unit = "processor" => /\ Processor!OneOutcomeEach /\ Processor!NonceOrderKept
                                         /\ Processor!GasAccounted /\ Processor!NoMoneyCreated
=============================================================================
