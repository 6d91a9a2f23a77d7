-------------------------------- MODULE SKI --------------------------------
(***************************************************************************)
(* The terms of the reducer and one contraction of each combinator, as     *)
(* step_iterative (consumers/thanatos/platform/arena.c) performs it.  The  *)
(* arena hash-conses: a node id stands for its term, equal ids for equal   *)
(* terms.                                                                  *)
(***************************************************************************)
EXTENDS Naturals

Symbols == {"S", "K", "I", "B", "C", "S'", "B'", "C'", "READ_ONE", "WRITE_ONE",
            "EQ_U8", "LT_U8", "DIV_U8", "MOD_U8", "ADD_U8", "SUB_U8"}
Bytes == 0 .. 255

(* A node: terminal symbol, byte, or application (NON_TERM).               *)
allocTerminal(sym) == [kind |-> "TERMINAL", sym |-> sym]
allocU8(byte) == [kind |-> "U8", byte |-> byte]
allocCons(l, r) == [kind |-> "NON_TERM", left |-> l, right |-> r]

(* What is not an application.                                             *)
Leaves == {allocTerminal(sym) : sym \in Symbols} \cup {allocU8(byte) : byte \in Bytes}

IsApp(t) == t.kind = "NON_TERM"
IsByte(t) == t.kind = "U8"

(* t is the symbol applied to exactly 1, 2, 3 or 4 arguments, the last of  *)
(* them t.right.                                                           *)
Applied1(t, sym) == IsApp(t) /\ t.left = allocTerminal(sym)
Applied2(t, sym) == IsApp(t) /\ Applied1(t.left, sym)
Applied3(t, sym) == IsApp(t) /\ Applied2(t.left, sym)
Applied4(t, sym) == IsApp(t) /\ Applied3(t.left, sym)

ByteOps == {"EQ_U8", "LT_U8", "DIV_U8", "MOD_U8", "ADD_U8", "SUB_U8"}

(* The redexes that have no effect.                                        *)
IsByteRedex(t) == /\ \E op \in ByteOps : Applied2(t, op)
                  /\ IsByte(t.left.right) /\ IsByte(t.right)
IsRedex(t) == \/ Applied1(t, "I") \/ Applied2(t, "K") \/ IsByteRedex(t)
              \/ \E sym \in {"S", "B", "C"} : Applied3(t, sym)
              \/ \E sym \in {"S'", "B'", "C'"} : Applied4(t, sym)

(* READ_ONE k asks for a byte; WRITE_ONE b k writes one, once b is a byte. *)
IsRead(t) == Applied1(t, "READ_ONE")
IsWrite(t) == Applied2(t, "WRITE_ONE") /\ IsByte(t.left.right)

(* The reducer does something at the top of t.                             *)
Steps(t) == IsRedex(t) \/ IsRead(t) \/ IsWrite(t)

(* Prelude booleans.                                                       *)
arenaTrue == allocTerminal("K")
arenaFalse == allocCons(allocTerminal("K"), allocTerminal("I"))

(* Byte arithmetic wraps; division by zero gives zero.                     *)
ByteResult(op, a, b) ==
  CASE op = "EQ_U8"  -> IF a = b THEN arenaTrue ELSE arenaFalse
    [] op = "LT_U8"  -> IF a < b THEN arenaTrue ELSE arenaFalse
    [] op = "DIV_U8" -> allocU8(IF b = 0 THEN 0 ELSE a \div b)
    [] op = "MOD_U8" -> allocU8(IF b = 0 THEN 0 ELSE a % b)
    [] op = "ADD_U8" -> allocU8((a + b) % 256)
    [] op = "SUB_U8" -> allocU8((a + 256 - b) % 256)

(* The term a redex contracts to; w, x, y, z are its last arguments.       *)
Contractum(t) ==
  LET z == t.right
      y == t.left.right
      x == t.left.left.right
      w == t.left.left.left.right
  IN  CASE Applied1(t, "I")  -> z
        [] Applied2(t, "K")  -> y
        [] IsByteRedex(t)    -> ByteResult(t.left.left.sym, y.byte, z.byte)
        [] Applied3(t, "S")  -> allocCons(allocCons(x, z), allocCons(y, z))
        [] Applied3(t, "B")  -> allocCons(x, allocCons(y, z))
        [] Applied3(t, "C")  -> allocCons(allocCons(x, z), y)
        [] Applied4(t, "S'") -> allocCons(allocCons(w, allocCons(x, z)), allocCons(y, z))
        [] Applied4(t, "B'") -> allocCons(allocCons(w, x), allocCons(y, z))
        [] Applied4(t, "C'") -> allocCons(allocCons(w, allocCons(x, z)), y)

(* The continuation of a read that has got a byte, and of a write.         *)
AfterRead(t, byte) == allocCons(t.right, allocU8(byte))
AfterWrite(t) == allocCons(t.right, t.left.right)
============================================================================
