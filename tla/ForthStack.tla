----------------------------- MODULE ForthStack -----------------------------
(***************************************************************************)
(* The data and return stacks of vm/stack/stack.c and the primitives of    *)
(* vm/core/forth.c that only compute on the data stack.  A stack is the    *)
(* sequence of its cells, top last.  A push on a full stack is dropped and *)
(* a pop of an empty one yields 0: the word prints a message and goes on.  *)
(* Cells are Width-bit two's complement numbers.                           *)
(***************************************************************************)
EXTENDS Integers, Sequences

CONSTANTS DATA_STACK_SIZE, RETURN_STACK_SIZE,
          Width     \* bits of a cell (64 in the code)

ASSUME SizesAssumption == /\ DATA_STACK_SIZE \in Nat \ {0}
                          /\ RETURN_STACK_SIZE \in Nat \ {0}
                          /\ Width \in Nat \ {0, 1}

TwoTo(n) == LET P[i \in 0 .. n] == IF i = 0 THEN 1 ELSE 2 * P[i - 1] IN P[n]

Half  == TwoTo(Width - 1)
Cells == -Half .. Half - 1
Wrap(v) == ((v + Half) % (2 * Half)) - Half

\* What DEPTH pushes is a number that a cell holds.
ASSUME DepthAssumption == DATA_STACK_SIZE \in Cells

ds_push(s, v) == IF Len(s) >= DATA_STACK_SIZE THEN s ELSE Append(s, v)
ds_peek(s)    == IF s = <<>> THEN 0 ELSE s[Len(s)]
ds_rest(s)    == IF s = <<>> THEN s ELSE SubSeq(s, 1, Len(s) - 1)   \* s after ds_pop
ds_pick(s, n) == IF n >= Len(s) THEN 0 ELSE s[Len(s) - n]

rs_push(s, v) == IF Len(s) >= RETURN_STACK_SIZE THEN s ELSE Append(s, v)
rs_peek(s)    == IF s = <<>> THEN 0 ELSE s[Len(s)]                  \* what rs_pop returns
rs_rest(s)    == IF s = <<>> THEN s ELSE SubSeq(s, 1, Len(s) - 1)   \* s after rs_pop

----------------------------------------------------------------------------
(* Primitives that compute.                                                *)

\* n pops, then the pushes of vs from first to last.
Drops(s, n)  == IF n <= Len(s) THEN SubSeq(s, 1, Len(s) - n) ELSE <<>>
Pushes(s, vs) == s \o SubSeq(vs, 1, IF Len(s) + Len(vs) <= DATA_STACK_SIZE
                                    THEN Len(vs) ELSE DATA_STACK_SIZE - Len(s))

\* Replace the n cells popped by vs.
Replace(s, n, vs) == Pushes(Drops(s, n), vs)

Flag(b) == IF b THEN -1 ELSE 0

\* C division: it truncates toward zero, and the remainder follows.
Mag(a)    == IF a < 0 THEN -a ELSE a
CDiv(a, b) == IF (a < 0) = (b < 0) THEN Mag(a) \div Mag(b) ELSE -(Mag(a) \div Mag(b))
CMod(a, b) == a - b * CDiv(a, b)

\* The bits of a cell, and the cell that has the bits f.
Bit(v, i) == (v \div TwoTo(i)) % 2
Bits(f)   == LET Upto[n \in 0 .. Width] ==
                       IF n = 0 THEN 0 ELSE Upto[n - 1] + f[n - 1] * TwoTo(n - 1)
                 IN  Wrap(Upto[Width])
BitOp(a, b, op(_, _)) == Bits([i \in 0 .. Width - 1 |-> op(Bit(a, i), Bit(b, i))])

\* Shifts as the processor does them: by the count modulo the width.
Lshift(v, n) == Wrap(v * TwoTo(n % Width))
Rshift(v, n) == Wrap((v % TwoTo(Width)) \div TwoTo(n % Width))

\* The stack a primitive leaves: b is on top of it, then a, y, x (0 below
\* the bottom).  A division by zero leaves a where it is and pushes 0 for
\* each result.
Effect(word, s) ==
    LET b == ds_pick(s, 0)
        a == ds_pick(s, 1)
        y == ds_pick(s, 2)
        x == ds_pick(s, 3)
        One(v) == Replace(s, 1, <<v>>)
        Two(v) == Replace(s, 2, <<v>>)
    IN  CASE word = "DUP"    -> Pushes(s, <<b>>)
          [] word = "DROP"   -> Drops(s, 1)
          [] word = "SWAP"   -> Replace(s, 2, <<b, a>>)
          [] word = "OVER"   -> Pushes(s, <<a>>)
          [] word = "ROT"    -> Replace(s, 3, <<a, b, y>>)
          [] word = "NIP"    -> Two(b)
          [] word = "TUCK"   -> Replace(s, 2, <<b, a, b>>)
          [] word = "2DUP"   -> Pushes(s, <<a, b>>)
          [] word = "2DROP"  -> Drops(s, 2)
          [] word = "2SWAP"  -> Replace(s, 4, <<a, b, x, y>>)
          [] word = "?DUP"   -> IF b = 0 THEN s ELSE Pushes(s, <<b>>)
          [] word = "DEPTH"  -> Pushes(s, <<Len(s)>>)
          [] word = "+"      -> Two(Wrap(a + b))
          [] word = "-"      -> Two(Wrap(a - b))
          [] word = "*"      -> Two(Wrap(a * b))
          [] word = "/"      -> IF b = 0 THEN One(0) ELSE Two(CDiv(a, b))
          [] word = "MOD"    -> IF b = 0 THEN One(0) ELSE Two(CMod(a, b))
          [] word = "/MOD"   -> IF b = 0 THEN Replace(s, 1, <<0, 0>>)
                                ELSE Replace(s, 2, <<CMod(a, b), CDiv(a, b)>>)
          [] word = "NEGATE" -> One(Wrap(-b))
          [] word = "ABS"    -> One(Wrap(Mag(b)))
          [] word = "MIN"    -> Two(IF a < b THEN a ELSE b)
          [] word = "MAX"    -> Two(IF a > b THEN a ELSE b)
          [] word = "1+"     -> One(Wrap(b + 1))
          [] word = "1-"     -> One(Wrap(b - 1))
          [] word = "2*"     -> One(Wrap(2 * b))
          [] word = "2/"     -> One(b \div 2)
          [] word = "AND"    -> Two(BitOp(a, b, LAMBDA p, q : p * q))
          [] word = "OR"     -> Two(BitOp(a, b, LAMBDA p, q : IF p + q = 0 THEN 0 ELSE 1))
          [] word = "XOR"    -> Two(BitOp(a, b, LAMBDA p, q : (p + q) % 2))
          [] word = "LSHIFT" -> Two(Lshift(a, b))
          [] word = "RSHIFT" -> Two(Rshift(a, b))
          [] word = "INVERT" -> One(-b - 1)
          [] word = "="      -> Two(Flag(a = b))
          [] word = "<>"     -> Two(Flag(a # b))
          [] word = "<"      -> Two(Flag(a < b))
          [] word = ">"      -> Two(Flag(a > b))
          [] word = "<="     -> Two(Flag(a <= b))
          [] word = ">="     -> Two(Flag(a >= b))
          [] word = "0="     -> One(Flag(b = 0))
          [] word = "0<"     -> One(Flag(b < 0))
          [] word = "0>"     -> One(Flag(b > 0))
          [] word = "VDUP"   -> IF s = <<>> THEN s ELSE Replace(s, 1, <<b, b>>)
          [] word = "V+"     -> IF Len(s) < 4 THEN s
                                ELSE Replace(s, 4, <<Wrap(x + a), Wrap(y + b)>>)

\* The one quotient a cell cannot hold: idiv raises #DE, which halts the CPU.
Traps(word, s) == /\ word \in {"/", "MOD", "/MOD"}
                  /\ ds_pick(s, 0) = -1
                  /\ ds_pick(s, 1) = -Half

Computing == {"DUP", "DROP", "SWAP", "OVER", "ROT", "NIP", "TUCK", "2DUP",
              "2DROP", "2SWAP", "?DUP", "DEPTH", "+", "-", "*", "/", "MOD",
              "/MOD", "NEGATE", "ABS", "MIN", "MAX", "1+", "1-", "2*", "2/",
              "AND", "OR", "XOR", "LSHIFT", "RSHIFT", "INVERT", "=", "<>", "<",
              ">", "<=", ">=", "0=", "0<", "0>", "VDUP", "V+"}
=============================================================================
