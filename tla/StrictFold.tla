----------------------------- MODULE StrictFold -----------------------------
(***************************************************************************)
(* Evaluation by value, as a program does it: Call and Call2 evaluate the  *)
(* arguments before the operator is entered, and Iterate is a left fold    *)
(* that evaluates each intermediate value before the next step begins.  A  *)
(* chain of unevaluated steps would grow with the length of the            *)
(* computation; Iterate goes by halves, to nest only as deep as the        *)
(* logarithm of the length.                                                *)
(***************************************************************************)
EXTENDS Naturals, Sequences

Call(op(_), x) == CHOOSE r \in {op(v) : v \in {x}} : TRUE

Call2(op(_, _), x, y) == CHOOSE r \in {op(v, w) : v \in {x}, w \in {y}} : TRUE

Iterate(step(_, _), base, seq) ==
    LET RECURSIVE part(_, _, _)
        part(from, to, start) ==
            IF from > to THEN start
            ELSE IF from = to THEN CHOOSE r \in {step(v, w) : v \in {start}, w \in {seq[from]}} : TRUE
            ELSE LET mid == (from + to) \div 2
                 IN  CHOOSE r \in {part(mid + 1, to, v) : v \in {part(from, mid, start)}} : TRUE
    IN  part(1, Len(seq), base)
=============================================================================
