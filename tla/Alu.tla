-------------------------------- MODULE Alu --------------------------------
(***************************************************************************)
(* The arithmetic helpers of CPU.c (lines 343-436) as functions of the     *)
(* register file RegisterV.  The C helpers take pointers into RegisterV    *)
(* and write VF and *dst one after the other, so an operand that IS VF, or *)
(* the same register given twice, is seen by the second assignment in its  *)
(* updated form: every operator below keeps the order of the assignments.  *)
(***************************************************************************)
EXTENDS Bytes

Reg == 0..15
VF == 15
RegisterFile == [Reg -> Byte]

LD8(V, x, val) == [V EXCEPT ![x] = val]

\* Stores the sum first and looks for the carry in (sum + src).
ADD(V, x, y) ==
  LET W == [V EXCEPT ![x] = U8(V[x] + V[y])]
  IN  [W EXCEPT ![VF] = Flag(W[x] + W[y] > 255)]

ADD_NoCarry8(V, x, val) == [V EXCEPT ![x] = U8(V[x] + val)]

OR(V, x, y)  == [V EXCEPT ![x] = OrByte(V[x], V[y])]
AND(V, x, y) == [V EXCEPT ![x] = AndByte(V[x], V[y])]
XOR(V, x, y) == [V EXCEPT ![x] = XorByte(V[x], V[y])]

\* Mutants of SUB: > where the code has >=, and the operands exchanged.
SUB_Strict(V, x, y) ==
  LET W == [V EXCEPT ![VF] = Flag(V[x] > V[y])]
  IN  [W EXCEPT ![x] = U8(W[x] - W[y])]
SUB_Reversed(V, x, y) ==
  LET W == [V EXCEPT ![VF] = Flag(V[x] >= V[y])]
  IN  [W EXCEPT ![x] = U8(W[y] - W[x])]

\* Sets VF first, then subtracts.
SUB(V, x, y) ==
  LET W == [V EXCEPT ![VF] = Flag(V[x] >= V[y])]
  IN  [W EXCEPT ![x] = U8(W[x] - W[y])]

SHR(V, x) ==
  LET W == [V EXCEPT ![VF] = Bit(V[x], 0)]
  IN  [W EXCEPT ![x] = W[x] \div 2]

\* Subtracts first, then compares the source with the difference.
SUBN(V, x, y) ==
  LET W == [V EXCEPT ![x] = U8(V[y] - V[x])]
  IN  [W EXCEPT ![VF] = Flag(W[y] >= W[x])]

SHL(V, x) ==
  LET W == [V EXCEPT ![VF] = Bit(V[x], 7)]
  IN  [W EXCEPT ![x] = U8(2 * W[x])]

RND(V, x, kk, r) == [V EXCEPT ![x] = AndByte(r, kk)]

-----------------------------------------------------------------------------
(* What the comments of CPU.c say the helpers compute, for two operands. *)

\* "Set dst = dst - src, VF = 1 if no borrow" (CPU.c:399) and the same with the
\* operands exchanged (CPU.c:415), although SUBN compares after subtracting.
SubtractsWithBorrow(V, x, y) ==
  /\ SUB(V, x, y)[x] = U8(V[x] - V[y]) /\ SUB(V, x, y)[VF] = Flag(V[x] >= V[y])
  /\ SUBN(V, x, y)[x] = U8(V[y] - V[x]) /\ SUBN(V, x, y)[VF] = Flag(V[y] >= V[x])

\* No bit is lost by a shift: the one shifted out is in VF (CPU.c:407, 423).
ShiftsIntoVF(V, x) ==
  /\ 2 * SHR(V, x)[x] + SHR(V, x)[VF] = V[x]
  /\ SHL(V, x)[x] + 256 * SHL(V, x)[VF] = 2 * V[x]

\* OR, AND and XOR agree with each other and with addition (CPU.c 379-397).
BitwiseAgree(V, x, y) ==
  /\ OR(V, x, y)[x] + AND(V, x, y)[x] = V[x] + V[y]
  /\ XOR(V, x, y)[x] = OR(V, x, y)[x] - AND(V, x, y)[x]

\* "Set dst = dst + src, VF = 1 if carry, VF = 0 if no carry" (CPU.c:356).
AddsWithCarry(V, x, y) ==
  /\ ADD(V, x, y)[x] = U8(V[x] + V[y])
  /\ ADD(V, x, y)[VF] = Flag(V[x] + V[y] > 255)

=============================================================================
