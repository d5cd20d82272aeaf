---------------------------- MODULE Chip8Proofs ----------------------------
(***************************************************************************)
(* Whatever the programs, the buttons and the sizes of the memories, every *)
(* variable of the firmware keeps its type and every array its extent, the *)
(* keypad shows one poll, an undefined opcode hangs the machine for good,  *)
(* stores are read back, a draw is the XOR of its sprite, and the calls of *)
(* a program whose frames fit its stack return to where they were made.    *)
(***************************************************************************)
EXTENDS CallStack, TLAPS

-----------------------------------------------------------------------------
(* The register file and the arithmetic. *)

\* Storing into a uint8_t keeps a byte (Chip8Types.h).
LEMMA U8Type == \A n \in Int : U8(n) \in Byte
  BY DEF U8, Byte

LEMMA U16Type == \A n \in Int : U16(n) \in Word
  BY DEF U16, Word

LEMMA FlagType == \A b \in BOOLEAN : Flag(b) \in {0, 1}
  BY DEF Flag

\* A bit of a byte.
LEMMA BitType == \A b \in Byte, i \in BitIndex : Bit(b, i) \in {0, 1}
  <1> SUFFICES ASSUME NEW b \in Byte, NEW i \in BitIndex PROVE Bit(b, i) \in {0, 1}
    OBVIOUS
  <1>1. Place[i] \in {1, 2, 4, 8, 16, 32, 64, 128}
    BY DEF Place, BitIndex
  <1>2. b \div Place[i] \in Int
    BY <1>1 DEF Byte
  <1> QED BY <1>2 DEF Bit

\* Eight bits make a byte.
LEMMA FromBitsType == ASSUME NEW f \in [BitIndex -> {0, 1}] PROVE FromBits(f) \in Byte
  <1>1. \A i \in 0..7 : f[i] \in {0, 1}
    BY DEF BitIndex
  <1> QED BY <1>1 DEF FromBits, Byte

\* The bitwise operators of C give a byte (CPU.c 379-397, 432-436).
LEMMA BitwiseType ==
  ASSUME NEW a \in Byte, NEW b \in Byte
  PROVE /\ AndByte(a, b) \in Byte
        /\ OrByte(a, b) \in Byte
        /\ XorByte(a, b) \in Byte
  <1>1. \A i \in BitIndex : Bit(a, i) \in {0, 1} /\ Bit(b, i) \in {0, 1}
    BY BitType
  <1>2. [i \in BitIndex |-> Bit(a, i) * Bit(b, i)] \in [BitIndex -> {0, 1}]
    BY <1>1
  <1>3. [i \in BitIndex |-> Flag(Bit(a, i) + Bit(b, i) > 0)] \in [BitIndex -> {0, 1}]
    BY <1>1 DEF Flag
  <1>4. [i \in BitIndex |-> (Bit(a, i) + Bit(b, i)) % 2] \in [BitIndex -> {0, 1}]
    BY <1>1
  <1> QED BY <1>2, <1>3, <1>4, FromBitsType DEF AndByte, OrByte, XorByte

-----------------------------------------------------------------------------
(* Words and their fields. *)

LEMMA FieldTypes ==
  ASSUME NEW op \in Word
  PROVE  /\ Class(op) \in 0..15 /\ NNN(op) \in 0..4095 /\ KK(op) \in Byte
         /\ X(op) \in Reg /\ Y(op) \in Reg /\ N(op) \in 0..15
  <1>a. op \in Nat /\ op < 65536
    BY DEF Word
  <1>0. NNN(op) \in 0..4095
    BY <1>a DEF NNN
  <1>1. Class(op) \in 0..15
    <2> DEFINE q == op \div 4096
    <2>1. q \in Int /\ 4096 * q <= op /\ op < 4096 * q + 4096
      BY <1>a, Z3
    <2> HIDE DEF q
    <2>2. q \in 0..15
      BY <1>a, <2>1
    <2> QED BY <2>2 DEF Class, q
  <1>2. KK(op) \in Byte /\ N(op) \in 0..15
    BY <1>a DEF KK, N, Byte
  <1>3. X(op) \in Reg
    BY <1>a DEF X, Reg
  <1>4. Y(op) \in Reg
    BY <1>a DEF Y, Reg
  <1> QED BY <1>0, <1>1, <1>2, <1>3, <1>4

\* The two bytes of a big-endian word.
LEMMA HalvesType ==
  ASSUME NEW w \in Word
  PROVE  w \div 256 \in Byte /\ w % 256 \in Byte
  <1> DEFINE q == w \div 256
  <1>1. w \in Nat /\ w < 65536
    BY DEF Word
  <1>2. w % 256 \in Byte
    BY <1>1 DEF Byte
  <1>3. q \in Int /\ 256 * q <= w /\ w < 256 * q + 256
    BY <1>1, Z3
  <1> HIDE DEF q
  <1>4. q \in 0..255
    BY <1>1, <1>3
  <1> QED BY <1>2, <1>4 DEF Byte, q

\* A read gives a byte, in the array or outside it.
LEMMA PeekType ==
  ASSUME NEW S, NEW mem \in [S -> Byte], NEW address
  PROVE  Peek(mem, address) \subseteq Byte
  BY GarbageAssumption DEF Peek

LEMMA Peek16Type ==
  ASSUME NEW S, NEW mem \in [S -> Byte], NEW address
  PROVE  Peek16(mem, address) \subseteq Word
  <1>1. Peek(mem, address) \subseteq Byte /\ Peek(mem, address + 1) \subseteq Byte
    BY PeekType
  <1>2. \A hi, lo \in Byte : 256 * hi + lo \in Word
    BY DEF Byte, Word
  <1> QED BY <1>1, <1>2 DEF Peek16

\* The part of the state an instruction may change.
CoreOK ==
  /\ RegisterV \in RegisterFile
  /\ RegisterI \in Word /\ RegisterPC \in Word
  /\ RegisterSP \in Byte /\ RegisterDT \in Byte /\ RegisterST \in Byte
  /\ RAM \in [RamAddress -> Byte] /\ STACK \in [StackAddress -> Byte]
  /\ DisplayData \subseteq Cells

LEMMA LoadsType ==
  ASSUME CoreOK, NEW size \in 0..16, NEW loaded \in LoadsFromI(size)
  PROVE  loaded \in [0..(size - 1) -> Byte]
  <1> DEFINE outside == {i \in 0..(size - 1) : AtI(i) \notin DOMAIN RAM}
  <1>1. PICK g \in [outside -> Garbage] :
          loaded = [i \in 0..(size - 1) |-> IF i \in outside THEN g[i] ELSE RAM[AtI(i)]]
    BY DEF LoadsFromI
  <1>2. \A i \in 0..(size - 1) : (IF i \in outside THEN g[i] ELSE RAM[AtI(i)]) \in Byte
    BY GarbageAssumption DEF CoreOK
  <1> QED BY <1>1, <1>2

-----------------------------------------------------------------------------
(* What most instructions share. *)

LEMMA TimersType == CoreOK /\ updateTimers => RegisterDT' \in Byte /\ RegisterST' \in Byte
  BY DEF CoreOK, updateTimers, Tick, Byte

LEMMA MoveType ==
  ASSUME CoreOK, NEW pc \in Int, Move(pc)
  PROVE  CoreOK'
  BY TimersType, U16Type DEF CoreOK, Move, GoTo, memories

LEMMA SetVType ==
  ASSUME CoreOK, NEW V \in RegisterFile, SetV(V)
  PROVE  CoreOK'
  <1>1. RegisterPC + 2 \in Int
    BY DEF CoreOK, Word
  <1> QED BY <1>1, TimersType, U16Type DEF CoreOK, SetV, GoTo, memories

LEMMA SetIType ==
  ASSUME CoreOK, NEW address \in Int, SetI(address)
  PROVE  CoreOK'
  <1>1. RegisterPC + 2 \in Int
    BY DEF CoreOK, Word
  <1> QED BY <1>1, TimersType, U16Type DEF CoreOK, SetI, GoTo, memories

LEMMA SkipType ==
  ASSUME CoreOK, NEW cond, SkipIf(cond)
  PROVE  CoreOK'
  <1>1. RegisterPC + (IF cond THEN 4 ELSE 2) \in Int
    BY DEF CoreOK, Word
  <1> QED BY <1>1, MoveType DEF SkipIf

\* A write of a byte to a register.
LEMMA RegisterWrite ==
  ASSUME NEW V \in RegisterFile, NEW x \in Reg, NEW b \in Byte
  PROVE  [V EXCEPT ![x] = b] \in RegisterFile
  BY DEF RegisterFile

LEMMA FlagByte == \A b \in BOOLEAN : Flag(b) \in Byte
  BY DEF Flag, Byte

\* Every arithmetic helper gives a register file (CPU.c 343-436).
LEMMA AluType ==
  ASSUME NEW V \in RegisterFile, NEW x \in Reg, NEW y \in Reg
  PROVE  /\ \A b \in Byte : /\ LD8(V, x, b) \in RegisterFile
                            /\ ADD_NoCarry8(V, x, b) \in RegisterFile
         /\ ADD(V, x, y) \in RegisterFile
         /\ OR(V, x, y) \in RegisterFile
         /\ AND(V, x, y) \in RegisterFile
         /\ XOR(V, x, y) \in RegisterFile
         /\ SUB(V, x, y) \in RegisterFile
         /\ SUBN(V, x, y) \in RegisterFile
         /\ SHR(V, x) \in RegisterFile
         /\ SHL(V, x) \in RegisterFile
  <1>1. VF \in Reg /\ V[x] \in Byte /\ V[y] \in Byte
    BY DEF VF, Reg, RegisterFile
  <1>2. \A W \in RegisterFile : W[x] \in Int /\ W[y] \in Int /\ W[x] \in Byte
    BY DEF RegisterFile, Byte
  <1>3. \A b \in Byte : LD8(V, x, b) \in RegisterFile
    BY RegisterWrite DEF LD8
  <1>4. \A b \in Byte : ADD_NoCarry8(V, x, b) \in RegisterFile
    <2> SUFFICES ASSUME NEW b \in Byte PROVE ADD_NoCarry8(V, x, b) \in RegisterFile
      OBVIOUS
    <2>1. U8(V[x] + b) \in Byte
      BY <1>1, U8Type DEF Byte
    <2> QED BY <2>1, RegisterWrite DEF ADD_NoCarry8
  <1>5. ADD(V, x, y) \in RegisterFile
    <2> DEFINE W == [V EXCEPT ![x] = U8(V[x] + V[y])]
    <2>0. U8(V[x] + V[y]) \in Byte
      BY <1>2, U8Type
    <2>1. W \in RegisterFile
      BY <2>0, RegisterWrite
    <2> HIDE DEF W
    <2>2. Flag(W[x] + W[y] > 255) \in Byte
      BY DEF Flag, Byte
    <2> QED BY <1>1, <2>1, <2>2, RegisterWrite DEF ADD, W
  <1>6. /\ OR(V, x, y) \in RegisterFile
        /\ AND(V, x, y) \in RegisterFile
        /\ XOR(V, x, y) \in RegisterFile
    BY <1>1, BitwiseType, RegisterWrite DEF OR, AND, XOR
  <1>7. SUB(V, x, y) \in RegisterFile
    <2> DEFINE W == [V EXCEPT ![VF] = Flag(V[x] >= V[y])]
    <2>0. Flag(V[x] >= V[y]) \in Byte
      BY DEF Flag, Byte
    <2>1. W \in RegisterFile
      BY <1>1, <2>0, RegisterWrite
    <2> HIDE DEF W
    <2>2. U8(W[x] - W[y]) \in Byte
      BY <1>2, <2>1, U8Type
    <2> QED BY <2>1, <2>2, RegisterWrite DEF SUB, W
  <1>8. SUBN(V, x, y) \in RegisterFile
    <2> DEFINE W == [V EXCEPT ![x] = U8(V[y] - V[x])]
    <2>0. U8(V[y] - V[x]) \in Byte
      BY <1>2, U8Type
    <2>1. W \in RegisterFile
      BY <2>0, RegisterWrite
    <2> HIDE DEF W
    <2>2. Flag(W[y] >= W[x]) \in Byte
      BY DEF Flag, Byte
    <2> QED BY <1>1, <2>1, <2>2, RegisterWrite DEF SUBN, W
  <1>9. \A i \in BitIndex : Bit(V[x], i) \in Byte
    BY <1>1, BitType DEF Byte
  <1>10. SHR(V, x) \in RegisterFile
    <2> DEFINE W == [V EXCEPT ![VF] = Bit(V[x], 0)]
    <2>1. W \in RegisterFile
      BY <1>1, <1>9, RegisterWrite DEF BitIndex
    <2>2. W[x] \div 2 \in Byte
      BY <1>2, <2>1 DEF Byte
    <2> QED BY <2>1, <2>2, RegisterWrite DEF SHR
  <1>11. SHL(V, x) \in RegisterFile
    <2> DEFINE W == [V EXCEPT ![VF] = Bit(V[x], 7)]
    <2>1. W \in RegisterFile
      BY <1>1, <1>9, RegisterWrite DEF BitIndex
    <2>2. U8(2 * W[x]) \in Byte
      BY <1>2, <2>1, U8Type
    <2> QED BY <2>1, <2>2, RegisterWrite DEF SHL
  <1> QED BY <1>3, <1>4, <1>5, <1>6, <1>7, <1>8, <1>10, <1>11

-----------------------------------------------------------------------------
(* The instructions. *)

LEMMA IntegerTypes ==
  /\ \A w \in Word : w \in Int /\ w \in Nat
  /\ \A b \in Byte : b \in Int
  BY DEF Word, Byte

LEMMA NNNType ==
  ASSUME NEW op \in Word
  PROVE  NNN(op) \in Int
  <1>1. op \in Int
    BY DEF Word
  <1> QED BY <1>1 DEF NNN

LEMMA NumberTypes ==
  ASSUME CoreOK
  PROVE  /\ RegisterPC \in Word
         /\ RegisterPC \in Int /\ RegisterI \in Int /\ RegisterSP \in Int
         /\ \A r \in Reg : RegisterV[r] \in Byte /\ RegisterV[r] \in Int
         /\ Tick(RegisterDT) \in Byte
         /\ RegisterV \in RegisterFile
  <1>1. /\ RegisterPC \in Word /\ RegisterI \in Word /\ RegisterSP \in Byte
        /\ RegisterDT \in Byte /\ RegisterV \in RegisterFile
    BY DEF CoreOK
  <1>2. \A r \in Reg : RegisterV[r] \in Byte
    BY <1>1 DEF RegisterFile
  <1>3. Tick(RegisterDT) \in Byte
    BY <1>1 DEF Tick, Byte
  <1> QED BY <1>1, <1>2, <1>3, IntegerTypes

\* The instructions that move the program counter only (CPU.c 88-121, 171-182,
\* 192-206).
LEMMA FlowType ==
  ASSUME CoreOK, NEW op \in Word,
         \/ SYS(op) \/ JP(op) \/ JP_V0(op) \/ Stay(op)
         \/ SE_byte(op) \/ SNE_byte(op) \/ SE_reg(op) \/ SNE_reg(op)
         \/ SKP(op) \/ SKNP(op)
  PROVE  CoreOK'
  <1>1. CASE SYS(op)
    <2>1. RegisterPC + 2 \in Int
      BY NumberTypes
    <2> QED BY <1>1, <2>1, MoveType DEF SYS
  <1>2. CASE JP(op)
    <2>1. NNN(op) \in Int
      BY NNNType
    <2> QED BY <1>2, <2>1, MoveType DEF JP
  <1>3. CASE JP_V0(op)
    <2>1. RegisterV[0] \in Int
      BY NumberTypes DEF Reg
    <2>2. NNN(op) + RegisterV[0] \in Int
      BY <2>1, NNNType
    <2> QED BY <1>3, <2>2, MoveType DEF JP_V0
  <1>4. CASE Stay(op)
    BY <1>4, NumberTypes, MoveType DEF Stay
  <1>5. CASE SE_byte(op) \/ SNE_byte(op)
    BY <1>5, SkipType DEF SE_byte, SNE_byte
  <1>6. CASE SE_reg(op) \/ SNE_reg(op)
    BY <1>6, SkipType DEF SE_reg, SNE_reg
  <1>7. CASE SKP(op) \/ SKNP(op)
    BY <1>7, SkipType DEF SKP, SKNP
  <1> QED BY <1>1, <1>2, <1>3, <1>4, <1>5, <1>6, <1>7

LEMMA RETType ==
  ASSUME CoreOK, NEW op, RET(op)
  PROVE  CoreOK'
  <1>1. PICK caller \in readSTACK16(RegisterSP) : GoTo(caller + 2)
    BY DEF RET
  <1>2. caller \in Word
    BY Peek16Type DEF readSTACK16, CoreOK
  <1>3. caller + 2 \in Int
    BY <1>2, IntegerTypes
  <1>5. RegisterPC' \in Word
    BY <1>1, <1>3, U16Type DEF GoTo
  <1>4. RegisterSP' \in Byte
    BY NumberTypes, U8Type DEF RET
  <1> QED BY <1>5, <1>4, TimersType DEF RET, CoreOK, memories

LEMMA CALLType ==
  ASSUME CoreOK, NEW op \in Word, CALL(op)
  PROVE  CoreOK'
  <1>1. RegisterPC' \in Word
    BY NNNType, U16Type DEF CALL, GoTo
  <1>2. RegisterSP' \in Byte
    BY NumberTypes, U8Type DEF CALL
  <1>3. RegisterPC \div 256 \in Byte /\ RegisterPC % 256 \in Byte
    BY NumberTypes, HalvesType
  <1>4. STACK' \in [StackAddress -> Byte]
    BY <1>3 DEF CALL, CoreOK, writeSTACK16
  <1> QED BY <1>1, <1>2, <1>4, TimersType DEF CALL, CoreOK

\* The instructions that write a register (CPU.c 122-170, 187-191, 211-225).
LEMMA ArithmeticType ==
  ASSUME CoreOK, NEW op \in Word, Arithmetic(op)
  PROVE  CoreOK'
  <1> DEFINE x == X(op)
             y == Y(op)
             V == RegisterV
  <1>1. x \in Reg /\ y \in Reg /\ V \in RegisterFile /\ V[y] \in Byte
    BY FieldTypes, NumberTypes
  <1>2. \/ SetV(LD8(V, x, V[y])) \/ SetV(OR(V, x, y)) \/ SetV(AND(V, x, y))
        \/ SetV(XOR(V, x, y)) \/ SetV(ADD(V, x, y)) \/ SetV(SUB(V, x, y))
        \/ SetV(SHR(V, x)) \/ SetV(SUBN(V, x, y)) \/ SetV(SHL(V, x))
    BY DEF Arithmetic
  <1> HIDE DEF x, y
  <1> QED BY <1>1, <1>2, AluType, SetVType

LEMMA LoadType ==
  ASSUME CoreOK, NEW op \in Word,
         \/ LD_byte(op) \/ ADD_byte(op) \/ RND_byte(op)
         \/ LD_Vx_DT(op) \/ LD_K(op)
  PROVE  CoreOK'
  <1>1. X(op) \in Reg /\ KK(op) \in Byte /\ RegisterV \in RegisterFile
    BY FieldTypes, NumberTypes
  <1>2. CASE LD_byte(op) \/ ADD_byte(op)
    BY <1>1, <1>2, AluType, SetVType DEF LD_byte, ADD_byte
  <1>3. CASE RND_byte(op)
    <2>1. PICK r \in RandomBytes : SetV(RND(RegisterV, X(op), KK(op), r))
      BY <1>3 DEF RND_byte
    <2>2. AndByte(r, KK(op)) \in Byte
      BY <1>1, BitwiseType, CPUAssumption
    <2>3. RND(RegisterV, X(op), KK(op), r) \in RegisterFile
      BY <1>1, <2>2, RegisterWrite DEF RND
    <2> QED BY <2>1, <2>3, SetVType
  <1>4. CASE LD_Vx_DT(op)
    BY <1>1, <1>4, NumberTypes, AluType, SetVType DEF LD_Vx_DT
  <1>5. CASE LD_K(op)
    <2>1. CASE PressedKeys = {} /\ Move(RegisterPC)
      BY <2>1, NumberTypes, MoveType
    <2>2. CASE \E k \in PressedKeys : SetV(LD8(RegisterV, X(op), k))
      <3>1. PressedKeys \subseteq Byte
        BY DEF PressedKeys, Key, Byte
      <3> QED BY <1>1, <2>2, <3>1, AluType, SetVType
    <2> QED BY <1>5, <2>1, <2>2 DEF LD_K
  <1> QED BY <1>2, <1>3, <1>4, <1>5

\* The instructions that write I or a timer (CPU.c 175-178, 226-245).
LEMMA IndexType ==
  ASSUME CoreOK, NEW op \in Word,
         LD_I(op) \/ ADD_I(op) \/ LD_F(op) \/ LD_DT(op) \/ LD_ST(op)
  PROVE  CoreOK'
  <1>1. X(op) \in Reg /\ NNN(op) \in Int
    BY FieldTypes, NNNType
  <1>2. RegisterV[X(op)] \in Byte /\ RegisterV[X(op)] \in Int
    BY <1>1, NumberTypes
  <1>3. CASE LD_I(op)
    BY <1>1, <1>3, SetIType DEF LD_I
  <1>4. CASE ADD_I(op)
    <2>1. RegisterI + RegisterV[X(op)] \in Int
      BY <1>2, NumberTypes
    <2> QED BY <1>4, <2>1, SetIType DEF ADD_I
  <1>5. CASE LD_F(op)
    <2>1. OffsetFont + 5 * RegisterV[X(op)] \in Int
      BY <1>2, CPUAssumption DEF Word
    <2> QED BY <1>5, <2>1, SetIType DEF LD_F
  <1>6. CASE LD_DT(op) \/ LD_ST(op)
    <2>1. RegisterPC' \in Word
      BY <1>6, NumberTypes, U16Type DEF LD_DT, LD_ST, GoTo
    <2>2. RegisterDT' \in Byte /\ RegisterST' \in Byte
      BY <1>2, <1>6 DEF LD_DT, LD_ST, CoreOK, Tick, Byte
    <2> QED BY <1>6, <2>1, <2>2 DEF LD_DT, LD_ST, CoreOK, memories
  <1> QED BY <1>3, <1>4, <1>5, <1>6

\* The instructions on memory and screen (CPU.c 88-101, 246-277, 439-457).
LEMMA StoredType ==
  ASSUME CoreOK, NEW op \in Word, Stores(op)
  PROVE  /\ StoreSize(op) \in 1..16
         /\ \A i \in 0..(StoreSize(op) - 1) : Stored(op)[i] \in Byte
  <1>1. X(op) \in 0..15
    BY FieldTypes DEF Reg
  <1>2. CASE KK(op) = 51
    <2> DEFINE v == RegisterV[X(op)]
    <2>1. v \in 0..255
      BY <1>1, NumberTypes DEF Reg, Byte
    <2> HIDE DEF v
    <2>2. v \div 100 \in 0..255
      BY <2>1, Z3
    <2>3. (v \div 10) % 10 \in 0..255 /\ v % 10 \in 0..255
      <3>1. v \div 10 \in Int
        BY <2>1
      <3> QED BY <2>1, <3>1
    <2>4. \A i \in 0..2 : Digits(v)[i] \in Byte
      BY <2>2, <2>3 DEF Digits, Byte
    <2> QED BY <1>2, <2>4 DEF Stored, StoreSize, v
  <1>3. CASE KK(op) # 51
    <2>1. \A i \in 0..X(op) : LowRegisters(X(op))[i] \in Byte
      BY <1>1, NumberTypes DEF LowRegisters, Reg
    <2> QED BY <1>1, <1>3, <2>1 DEF Stored, StoreSize
  <1> QED BY <1>2, <1>3

LEMMA MemoryType ==
  ASSUME CoreOK, NEW op \in Word, LD_mem(op)
  PROVE  CoreOK'
  <1>1. RegisterPC' \in Word
    BY NumberTypes, U16Type DEF LD_mem, GoTo
  <1>2. RAM' \in [RamAddress -> Byte]
    <2> DEFINE i(a) == U16(a - RegisterI)
    <2> SUFFICES ASSUME NEW a \in RamAddress
                 PROVE  (IF i(a) < StoreSize(op) THEN Stored(op)[i(a)] ELSE RAM[a]) \in Byte
      BY DEF LD_mem, CoreOK
    <2>1. i(a) \in Nat
      <3>1. a - RegisterI \in Int
        BY NumberTypes, MemoryAssumption DEF RamAddress
      <3>2. i(a) \in Word
        BY <3>1, U16Type
      <3> QED BY <3>2, IntegerTypes
    <2>2. RAM[a] \in Byte
      BY DEF CoreOK
    <2> HIDE DEF i
    <2>3. CASE i(a) < StoreSize(op)
      <3>1. StoreSize(op) \in 1..16
        BY StoredType DEF LD_mem
      <3>2. i(a) \in 0..(StoreSize(op) - 1)
        BY <2>1, <2>3, <3>1
      <3> QED BY <2>3, <3>2, StoredType DEF LD_mem
    <2> QED BY <2>2, <2>3
  <1> QED BY <1>1, <1>2, TimersType DEF LD_mem, CoreOK

LEMMA LoadMemoryType ==
  ASSUME CoreOK, NEW op \in Word, LD_Vx_mem(op)
  PROVE  CoreOK'
  <1>1. X(op) \in 0..15
    BY FieldTypes DEF Reg
  <1>2. PICK loaded \in LoadsFromI(X(op) + 1) :
          SetV([r \in Reg |-> IF r <= X(op) THEN loaded[r] ELSE RegisterV[r]])
    BY DEF LD_Vx_mem
  <1>3. X(op) + 1 \in 0..16 /\ (X(op) + 1) - 1 = X(op)
    BY <1>1
  <1>4. loaded \in [0..X(op) -> Byte]
    BY <1>3, LoadsType
  <1>5. \A r \in Reg : (IF r <= X(op) THEN loaded[r] ELSE RegisterV[r]) \in Byte
    <2> SUFFICES ASSUME NEW r \in Reg, r <= X(op) PROVE loaded[r] \in Byte
      BY NumberTypes
    <2>1. r \in 0..X(op)
      BY <1>1 DEF Reg
    <2> QED BY <1>4, <2>1
  <1>6. [r \in Reg |-> IF r <= X(op) THEN loaded[r] ELSE RegisterV[r]] \in RegisterFile
    BY <1>5 DEF RegisterFile
  <1> QED BY <1>2, <1>6, SetVType

LEMMA ScreenType ==
  ASSUME CoreOK, NEW op \in Word, CLS(op) \/ DRW(op)
  PROVE  CoreOK'
  <1>1. RegisterPC' \in Word
    BY NumberTypes, U16Type DEF CLS, DRW, GoTo
  <1>2. CASE CLS(op)
    BY <1>1, <1>2, TimersType DEF CLS, CoreOK
  <1>3. CASE DRW(op)
    <2>1. PICK sprite \in Sprites(op) :
            /\ Put(Row(op), Col(op), sprite) \subseteq Cells
            /\ DisplayData' = Toggle(DisplayData, Put(Row(op), Col(op), sprite))
            /\ RegisterV' = [RegisterV EXCEPT ![VF] =
                               Flag(Collides(Row(op), Col(op), sprite))]
      BY <1>3 DEF DRW
    <2>2. DisplayData' \subseteq Cells
      BY <2>1 DEF CoreOK, Toggle
    <2>3. Flag(Collides(Row(op), Col(op), sprite)) \in Byte
      BY DEF Flag, Byte
    <2>4. RegisterV' \in RegisterFile
      <3>1. VF \in Reg
        BY DEF VF, Reg
      <3> QED BY <2>1, <2>3, <3>1, RegisterWrite, NumberTypes
    <2> QED BY <1>1, <1>3, <2>2, <2>4, TimersType DEF DRW, CoreOK
  <1> QED BY <1>2, <1>3

\* One instruction, whichever it is (CPU.c 67-279).
LEMMA ExecuteType ==
  ASSUME CoreOK, NEW op \in Word, Execute(op)
  PROVE  CoreOK'
  BY FlowType, RETType, CALLType, ArithmeticType, LoadType, IndexType,
     MemoryType, LoadMemoryType, ScreenType DEF Execute

LEMMA runCPUType ==
  ASSUME CoreOK, runCPU
  PROVE  CoreOK' /\ phase' \in {"press", "print", "wild"} /\ UNCHANGED keyboard
  <1>1. PICK op \in readRAM16(RegisterPC) : Cycle(op)
    BY DEF runCPU
  <1>2. op \in Word
    BY Peek16Type DEF readRAM16, CoreOK
  <1>3. CASE Execute(op) /\ phase' \in {"press", "print"}
    BY <1>1, <1>2, <1>3, ExecuteType DEF Cycle
  <1>4. CASE WildWrite(op) /\ phase' = "wild"
    BY <1>1, <1>4 DEF Cycle, WildWrite, CoreOK, registers, timers, memories
  <1> QED BY <1>1, <1>3, <1>4 DEF Cycle

-----------------------------------------------------------------------------
(* The main program. *)

LEMMA ZeroType ==
  /\ 0 \in Byte /\ 0 \in Word
  /\ [r \in Reg |-> 0] \in RegisterFile
  /\ ZeroRAM \in [RamAddress -> Byte] /\ ZeroSTACK \in [StackAddress -> Byte]
  /\ NoKeys \in [Key -> {0, 1}] /\ NoKeys \in [Key -> Byte]
  BY DEF Byte, Word, RegisterFile, ZeroRAM, ZeroSTACK, NoKeys

\* memcpy of bytes over bytes leaves bytes.
LEMMA initRAMType ==
  ASSUME NEW old \in Byte, NEW a, NEW address, NEW data,
         \A d \in DOMAIN data : data[d] \in Byte
  PROVE  initRAM(old, a, address, data) \in Byte
  BY DEF initRAM

LEMMA initChip8Type ==
  ASSUME TypeOK, initChip8
  PROVE  TypeOK'
  <1>1. PICK rom \in {getROM(switches)} :
          /\ RAM' = [a \in DOMAIN RAM |->
                       initRAM(initRAM(RAM[a], a, OffsetFont, Chip8Fonts),
                               a, OffsetProgram, rom.data)]
          /\ KeyMap' = rom.keypad
    BY DEF initChip8
  <1>2. PICK id \in DOMAIN ROM : rom = ROM[id]
    <2>1. switches \in Switches
      BY DEF TypeOK
    <2>2. Switches \subseteq Word /\ NumOfROMs \in Nat \ {0} /\ DOMAIN ROM = 0..(NumOfROMs - 1)
      BY Chip8Assumption
    <2>3. switches \in Nat
      <3>1. switches \in Word
        BY <2>1, <2>2
      <3> QED BY <3>1 DEF Word
    <2>4. (IF switches < NumOfROMs THEN switches ELSE 0) \in DOMAIN ROM
      BY <2>2, <2>3
    <2> QED BY <1>1, <2>4 DEF getROM
  <1>3. /\ \A a \in DOMAIN rom.data : rom.data[a] \in Byte
        /\ rom.keypad \in [Key -> Byte]
    BY <1>2, Chip8Assumption
  <1>4. RAM' \in [RamAddress -> Byte]
    <2>1. \A a \in RamAddress :
            initRAM(RAM[a], a, OffsetFont, Chip8Fonts) \in Byte
      BY initRAMType, Chip8Assumption DEF TypeOK
    <2>2. \A a \in RamAddress :
            initRAM(initRAM(RAM[a], a, OffsetFont, Chip8Fonts),
                    a, OffsetProgram, rom.data) \in Byte
      BY <1>3, <2>1, initRAMType
    <2> QED BY <1>1, <2>2 DEF TypeOK
  <1>5. RegisterV' \in RegisterFile
    BY ZeroType DEF initChip8, initCPU, TypeOK, RegisterFile
  <1>6. /\ RegisterI' \in Word /\ RegisterPC' \in Word
        /\ RegisterSP' \in Byte /\ RegisterDT' \in Byte /\ RegisterST' \in Byte
    BY ZeroType, Chip8Assumption DEF initChip8, initCPU
  <1> QED BY <1>1, <1>3, <1>4, <1>5, <1>6, ZeroType DEF initChip8, TypeOK

LEMMA pollButtonsType ==
  ASSUME TypeOK, pollButtons
  PROVE  TypeOK'
  <1>1. Keypad' \in [Key -> {0, 1}] /\ KeyMap' = KeyMap
    <2>1. PICK pressed \in Presses :
            Keypad' = [k \in Key |-> IF KeyMap[k] \in Buttons
                                     THEN Flag(KeyMap[k] \in pressed)
                                     ELSE Keypad[k]]
      BY DEF pollButtons, processPress
    <2>2. \A k \in Key : (IF KeyMap[k] \in Buttons
                          THEN Flag(KeyMap[k] \in pressed) ELSE Keypad[k]) \in {0, 1}
      BY DEF Flag, TypeOK
    <2> QED BY <2>1, <2>2 DEF pollButtons, processPress
  <1> QED BY <1>1 DEF pollButtons, TypeOK, registers, timers, memories

\* Init, every action of Next and every stuttering step respect the types.
LEMMA InitTyped == Init => TypeOK
  BY ZeroType DEF Init, TypeOK

LEMMA StepTyped == TypeOK /\ [Next]_vars => TypeOK'
  <1> SUFFICES ASSUME TypeOK, [Next]_vars PROVE TypeOK'
    OBVIOUS
  <1>1. CASE initChip8
    BY <1>1, initChip8Type
  <1>2. CASE pollButtons
    BY <1>2, pollButtonsType
  <1>3. CASE runInstruction
    <2>1. CoreOK
      BY DEF TypeOK, CoreOK
    <2>2. CoreOK' /\ phase' \in {"press", "print", "wild"} /\ UNCHANGED keyboard
      BY <1>3, <2>1, runCPUType DEF runInstruction
    <2> QED BY <1>3, <2>2 DEF runInstruction, TypeOK, CoreOK, keyboard
  <1>4. CASE Reset
    BY <1>4, ZeroType DEF Reset, TypeOK
  <1>5. CASE Printed \/ UNCHANGED vars
    BY <1>5 DEF Printed, vars, TypeOK, registers, timers, memories, keyboard
  <1> QED BY <1>1, <1>2, <1>3, <1>4, <1>5 DEF Next, runChip8

\* Every variable of the firmware keeps to its C type, every array to its
\* extent and the picture to the display, in every behaviour.
THEOREM Chip8Typing == Spec => []TypeOK
  BY InitTyped, StepTyped, PTL DEF Spec

-----------------------------------------------------------------------------
(* Keys. *)

LEMMA NothingPressed ==
  ASSUME NEW kp, kp = NoKeys, NEW km
  PROVE  \E pressed \in Presses \cup {{}} : \A k \in Key : kp[k] = 1 <=> km[k] \in pressed
  <1> WITNESS {} \in Presses \cup {{}}
  <1> QED BY DEF NoKeys

\* At any moment the keypad shows the buttons of one poll, for every map of keys to
\* buttons, keys without one included (Keyboad.c 24-59, Chip8.c 40-41).  The property
\* is inductive because all that can be pressed is a button.
THEOREM KeysOfOnePoll == Spec => []KeypadFollowsMap
  <1>1. Init => KeypadFollowsMap
    BY NothingPressed DEF Init, KeypadFollowsMap
  <1>2. KeypadFollowsMap /\ [Next]_vars => KeypadFollowsMap'
    <2> SUFFICES ASSUME KeypadFollowsMap, [Next]_vars PROVE KeypadFollowsMap'
      OBVIOUS
    <2>1. CASE initChip8 \/ Reset
      <3>1. Keypad' = NoKeys
        BY <2>1 DEF initChip8, Reset
      <3> QED BY <3>1, NothingPressed DEF KeypadFollowsMap
    <2>2. CASE pollButtons
      <3>1. PICK pressed \in Presses :
              Keypad' = [k \in Key |-> IF KeyMap[k] \in Buttons
                                       THEN Flag(KeyMap[k] \in pressed)
                                       ELSE Keypad[k]]
        BY <2>2 DEF pollButtons, processPress
      <3>2. KeyMap' = KeyMap
        BY <2>2 DEF pollButtons, processPress
      <3>3. \A k \in Key : KeyMap[k] \notin Buttons => Keypad[k] # 1 /\ KeyMap[k] \notin pressed
        BY KeyboardAssumption DEF KeypadFollowsMap
      <3>4. \A k \in Key : Keypad'[k] = 1 <=> KeyMap'[k] \in pressed
        BY <3>1, <3>2, <3>3 DEF Flag
      <3> QED BY <3>4 DEF KeypadFollowsMap
    <2>3. CASE runInstruction \/ Printed \/ UNCHANGED vars
      <3>1. UNCHANGED keyboard
        BY <2>3 DEF runInstruction, runCPU, Cycle, Printed, vars
      <3> QED BY <3>1 DEF KeypadFollowsMap, keyboard
    <2> QED BY <2>1, <2>2, <2>3 DEF Next, runChip8
  <1> QED BY <1>1, <1>2, PTL DEF Spec

-----------------------------------------------------------------------------
(* What one instruction is. *)

\* A word that lies in RAM is read as what it is.
LEMMA OneWord ==
  ASSUME PCInRAM
  PROVE  \E w : readRAM16(RegisterPC) = {w}
  <1>1. RegisterPC \in DOMAIN RAM /\ RegisterPC + 1 \in DOMAIN RAM
    BY DEF PCInRAM, Holds
  <1>2. readRAM16(RegisterPC) = {256 * RAM[RegisterPC] + RAM[RegisterPC + 1]}
    BY <1>1 DEF readRAM16, Peek16, Peek
  <1> QED BY <1>2

\* The only step of a machine at an instruction, but for a reset.
LEMMA CpuSteps ==
  ASSUME Next, phase = "cpu", phase' # "boot"
  PROVE  runCPU /\ UNCHANGED switches
  BY DEF Next, runChip8, initChip8, pollButtons, Printed, Reset, runInstruction

\* No case of the switches does anything for an undefined word.
LEMMA UndefinedStays ==
  ASSUME NEW op, Undefined(op), Execute(op) \/ WildWrite(op)
  PROVE  Stay(op)
  <1>1. Class(op) \in {8, 14, 15} /\ (Class(op) = 15 => KK(op) \notin {51, 85})
    BY DEF Undefined
  <1>2. ~OutOfBounds(op)
    BY <1>1 DEF OutOfBounds, Stores
  <1>3. op # 224 /\ op # 238
    BY <1>1 DEF Class
  <1>4. ~(SYS(op) \/ CLS(op) \/ RET(op) \/ JP(op) \/ CALL(op))
    BY <1>1, <1>3 DEF SYS, CLS, RET, JP, CALL
  <1>5. ~(SE_byte(op) \/ SNE_byte(op) \/ SE_reg(op) \/ SNE_reg(op))
    BY <1>1 DEF SE_byte, SNE_byte, SE_reg, SNE_reg
  <1>6. ~(LD_byte(op) \/ ADD_byte(op) \/ RND_byte(op) \/ LD_I(op) \/ JP_V0(op) \/ DRW(op))
    BY <1>1 DEF LD_byte, ADD_byte, RND_byte, LD_I, JP_V0, DRW
  <1>7. ~Arithmetic(op)
    BY DEF Undefined, Arithmetic
  <1>8. ~(SKP(op) \/ SKNP(op))
    BY DEF Undefined, SKP, SKNP
  <1>9. ~(ADD_I(op) \/ LD_F(op) \/ LD_K(op) \/ LD_Vx_DT(op) \/ LD_DT(op) \/ LD_ST(op))
    BY DEF Undefined, ADD_I, LD_F, LD_K, LD_Vx_DT, LD_DT, LD_ST
  <1>10. ~(LD_mem(op) \/ LD_Vx_mem(op))
    BY DEF Undefined, LD_mem, LD_Vx_mem, Stores
  <1> QED BY <1>2, <1>4, <1>5, <1>6, <1>7, <1>8, <1>9, <1>10 DEF Execute, WildWrite

\* A store is not executed as anything else.
LEMMA StoreIsLD_mem ==
  ASSUME NEW op, Stores(op), Execute(op)
  PROVE  LD_mem(op)
  <1>1. Class(op) = 15 /\ KK(op) \in {51, 85}
    BY DEF Stores
  <1>2. op # 224 /\ op # 238
    BY <1>1 DEF Class
  <1>3. ~(SYS(op) \/ CLS(op) \/ RET(op) \/ JP(op) \/ CALL(op))
    BY <1>1, <1>2 DEF SYS, CLS, RET, JP, CALL
  <1>4. ~(SE_byte(op) \/ SNE_byte(op) \/ SE_reg(op) \/ SNE_reg(op))
    BY <1>1 DEF SE_byte, SNE_byte, SE_reg, SNE_reg
  <1>5. ~(LD_byte(op) \/ ADD_byte(op) \/ RND_byte(op) \/ LD_I(op) \/ JP_V0(op) \/ DRW(op))
    BY <1>1 DEF LD_byte, ADD_byte, RND_byte, LD_I, JP_V0, DRW
  <1>6. ~(Arithmetic(op) \/ SKP(op) \/ SKNP(op) \/ Stay(op))
    BY <1>1 DEF Arithmetic, SKP, SKNP, Stay, Undefined
  <1>7. ~(ADD_I(op) \/ LD_F(op) \/ LD_K(op) \/ LD_Vx_DT(op) \/ LD_DT(op) \/ LD_ST(op))
    BY <1>1 DEF ADD_I, LD_F, LD_K, LD_Vx_DT, LD_DT, LD_ST
  <1>8. ~LD_Vx_mem(op)
    BY <1>1 DEF LD_Vx_mem
  <1> QED BY <1>3, <1>4, <1>5, <1>6, <1>7, <1>8 DEF Execute

\* Nor is a draw.
LEMMA DrawIsDRW ==
  ASSUME NEW op, Class(op) = 13, Execute(op)
  PROVE  DRW(op)
  <1>1. op # 224 /\ op # 238
    BY DEF Class
  <1>2. ~(SYS(op) \/ CLS(op) \/ RET(op) \/ JP(op) \/ CALL(op))
    BY <1>1 DEF SYS, CLS, RET, JP, CALL
  <1>3. ~(SE_byte(op) \/ SNE_byte(op) \/ SE_reg(op) \/ SNE_reg(op))
    BY DEF SE_byte, SNE_byte, SE_reg, SNE_reg
  <1>4. ~(LD_byte(op) \/ ADD_byte(op) \/ RND_byte(op) \/ LD_I(op) \/ JP_V0(op))
    BY DEF LD_byte, ADD_byte, RND_byte, LD_I, JP_V0
  <1>5. ~(Arithmetic(op) \/ SKP(op) \/ SKNP(op) \/ Stay(op))
    BY DEF Arithmetic, SKP, SKNP, Stay, Undefined
  <1>6. ~(ADD_I(op) \/ LD_F(op) \/ LD_K(op) \/ LD_Vx_DT(op) \/ LD_DT(op) \/ LD_ST(op))
    BY DEF ADD_I, LD_F, LD_K, LD_Vx_DT, LD_DT, LD_ST
  <1>7. ~(LD_mem(op) \/ LD_Vx_mem(op))
    BY DEF LD_mem, LD_Vx_mem, Stores
  <1> QED BY <1>2, <1>3, <1>4, <1>5, <1>6, <1>7 DEF Execute

LEMMA WordIs ==
  ASSUME NEW w \in Nat, w < 65536
  PROVE  w \in Word
  <1>1. U16(w) = w
    BY DEF U16
  <1> QED BY <1>1, U16Type

LEMMA U16Same == ASSUME NEW w \in Word PROVE U16(w) = w
  <1>1. w \in Nat /\ w < 65536
    BY DEF Word
  <1> QED BY <1>1 DEF U16

\* An undefined opcode hangs the machine until it is reset, whatever the buttons and
\* the timers do (CPU.c 130-170, 204-206, 273-275).
THEOREM UndefinedHangs == Spec => HangsForGood
  <1>1. TypeOK /\ [Next]_vars =>
          [Hangs => \/ phase' = "boot"
                   \/ (Hangs' /\ UNCHANGED <<registers, memories>>)]_vars
    <2> SUFFICES ASSUME TypeOK, Next, Hangs, phase' # "boot"
                 PROVE  Hangs' /\ UNCHANGED <<registers, memories>>
      OBVIOUS
    <2>1. phase \in {"press", "cpu", "print"} /\ PCInRAM /\ \A op \in readRAM16(RegisterPC) : Undefined(op)
      BY DEF Hangs
    <2>2. UNCHANGED <<registers, memories>> /\ phase' \in {"press", "cpu", "print"}
      <3>1. CASE phase \in {"press", "print"}
        BY <3>1 DEF Next, runChip8, initChip8, pollButtons, Printed, Reset, runInstruction, runCPU, Cycle
      <3>2. CASE phase = "cpu"
        <4>1. PICK op \in readRAM16(RegisterPC) : Cycle(op)
          BY <3>2, CpuSteps DEF runCPU
        <4>2. Stay(op)
          BY <2>1, <4>1, UndefinedStays DEF Cycle
        <4>3. phase' \in {"press", "print"}
          <5>1. Class(op) \in {8, 14, 15} /\ ~Stores(op)
            BY <2>1, <4>1 DEF Undefined, Stores
          <5> QED BY <4>1, <5>1 DEF Cycle, WildWrite, OutOfBounds
        <4>4. RegisterPC' = RegisterPC
          <5>1. RegisterPC \in Word
            BY DEF TypeOK
          <5> QED BY <4>2, <5>1, U16Same DEF Stay, Move, GoTo
        <4> QED BY <4>2, <4>3, <4>4 DEF Stay, Move, registers, memories
      <3> QED BY <2>1, <3>1, <3>2
    <2>3. RAM' = RAM /\ RegisterPC' = RegisterPC
      BY <2>2 DEF registers, memories
    <2>4. PCInRAM' /\ readRAM16(RegisterPC)' = readRAM16(RegisterPC)
      BY <2>1, <2>3 DEF PCInRAM, readRAM16, Peek16, Peek
    <2>5. (\A op \in readRAM16(RegisterPC) : Undefined(op))'
      BY <2>1, <2>4 DEF Undefined, Class, N, KK
    <2> QED BY <2>2, <2>4, <2>5 DEF Hangs
  <1> QED BY <1>1, Chip8Typing, PTL DEF Spec, HangsForGood

-----------------------------------------------------------------------------
(* Stores. *)

\* I plus a small offset and back again, at the end of the address space too.
LEMMA ThereAndBack ==
  ASSUME NEW I \in Word, NEW i \in 0..15, NEW a \in Word
  PROVE  /\ U16(U16(I + i) - I) = i
         /\ U16(a - I) = i => a = U16(I + i)
  <1>1. I \in Nat /\ I < 65536 /\ a \in Nat /\ a < 65536
    BY DEF Word
  <1>2. (((I + i) % 65536) - I) % 65536 = i
    BY <1>1
  <1>3. (a - I) % 65536 = i => a = (I + i) % 65536
    BY <1>1
  <1> QED BY <1>2, <1>3 DEF U16

LEMMA Decimal ==
  ASSUME NEW v \in Byte
  PROVE  v = 100 * (v \div 100) + 10 * ((v \div 10) % 10) + (v % 10)
  <1>1. v \in Int /\ 0 <= v /\ v <= 255
    BY DEF Byte
  <1> QED BY <1>1, Z3

\* What is stored is a sequence of bytes from 0 on.
LEMMA StoredShape ==
  ASSUME NEW op \in Word, Stores(op)
  PROVE  Stored(op) = [i \in 0..(StoreSize(op) - 1) |-> Stored(op)[i]]
  <1>1. CASE KK(op) = 51
    BY <1>1 DEF Stored, StoreSize, Digits
  <1>2. CASE KK(op) # 51
    <2>1. StoreSize(op) - 1 = X(op)
      <3>1. X(op) \in 0..15
        BY FieldTypes DEF Reg
      <3> QED BY <1>2, <3>1 DEF StoreSize
    <2> QED BY <1>2, <2>1 DEF Stored, LowRegisters
  <1> QED BY <1>1, <1>2

\* A load finds what was stored, and nothing else was.
LEMMA StoreLoads ==
  ASSUME CoreOK, NEW op \in Word, LD_mem(op)
  PROVE  /\ LoadsFromI(StoreSize(op))' = {Stored(op)}
         /\ \A i \in 0..(StoreSize(op) - 1) : RAM'[AtI(i)] = Stored(op)[i]
         /\ \A a \in RamAddress \ FromI(StoreSize(op)) : RAM'[a] = RAM[a]
  <1> DEFINE size == StoreSize(op)
  <1>1. size \in 1..16 /\ Stores(op)
    BY StoredType DEF LD_mem
  <1>2. /\ RAM' = [a \in RamAddress |->
                     IF U16(a - RegisterI) < size THEN Stored(op)[U16(a - RegisterI)] ELSE RAM[a]]
        /\ \A i \in 0..(size - 1) : AtI(i) \in RamAddress
        /\ RegisterI' = RegisterI /\ RegisterI \in Word
    BY DEF LD_mem, CoreOK, Holds, FromI
  <1>3. \A a \in RamAddress : a \in Word /\ U16(a - RegisterI) \in Nat
    <2>1. MEMORY_RAM_SIZE \in Int /\ MEMORY_RAM_SIZE <= 65536
      BY MemoryAssumption
    <2>2. \A a \in RamAddress : a \in Word
      <3> SUFFICES ASSUME NEW a \in RamAddress PROVE a \in Word
        OBVIOUS
      <3>1. a \in Nat /\ a < 65536
        BY <2>1 DEF RamAddress
      <3> QED BY <3>1, WordIs
    <2>3. \A a, I \in Word : a - I \in Int
      BY ONLY DEF Word
    <2>4. \A a \in RamAddress : a - RegisterI \in Int
      BY ONLY <1>2, <2>2, <2>3
    <2> QED BY <2>2, <2>4, U16Type, IntegerTypes
  <1> HIDE DEF size
  <1>4. \A i \in 0..(size - 1) : RAM'[AtI(i)] = Stored(op)[i]
    <2> SUFFICES ASSUME NEW i \in 0..(size - 1) PROVE RAM'[AtI(i)] = Stored(op)[i]
      OBVIOUS
    <2>1. i \in 0..15
      BY <1>1
    <2>2. U16(AtI(i) - RegisterI) = i
      BY <1>2, <2>1, ThereAndBack DEF AtI
    <2> QED BY <1>1, <1>2, <2>2
  <1>5. \A a \in RamAddress \ FromI(size) : RAM'[a] = RAM[a]
    <2> SUFFICES ASSUME NEW a \in RamAddress, U16(a - RegisterI) < size
                 PROVE  a \in FromI(size)
      BY <1>2
    <2> DEFINE i == U16(a - RegisterI)
    <2>1. i \in 0..15 /\ i \in 0..(size - 1)
      BY <1>1, <1>3
    <2>2. a = AtI(i)
      BY <1>2, <1>3, <2>1, ThereAndBack DEF AtI
    <2> HIDE DEF i
    <2> QED BY <2>1, <2>2 DEF FromI
  <1>6. LoadsFromI(size)' = {[i \in 0..(size - 1) |-> RAM'[AtI(i)]]}
    <2>1. size' = size
      BY DEF size, StoreSize, KK, X
    <2>2. DOMAIN RAM' = RamAddress /\ \A i : AtI(i)' = AtI(i)
      BY <1>2 DEF AtI
    <2>3. {i \in 0..(size - 1) : AtI(i)' \notin DOMAIN RAM'} = {}
      BY <1>2, <2>2
    <2>4. LoadsFromI(size)' =
            {[i \in 0..(size - 1) |-> IF i \in {} THEN g[i] ELSE RAM'[AtI(i)']] : g \in [{} -> Garbage]}
      BY <2>1, <2>3 DEF LoadsFromI
    <2>5. [{} -> Garbage] # {}
      <3>1. [i \in {} |-> 0] \in [{} -> Garbage]
        OBVIOUS
      <3> QED BY <3>1
    <2> QED BY <2>2, <2>4, <2>5
  <1>7. [i \in 0..(size - 1) |-> RAM'[AtI(i)]] = Stored(op)
    BY <1>1, <1>4, StoredShape DEF size
  <1> QED BY <1>4, <1>5, <1>6, <1>7 DEF size

\* What Fx33 or Fx55 stores is what would be loaded from I next, Fx33 spells Vx in
\* decimal, and no other byte of RAM changes, for every RAM and every I, those at
\* which the addresses wrap included (CPU.c 246-272).
THEOREM StoresAreReadBack == Spec => StoresRoundTrip
  <1> DEFINE Kept ==
        \A op \in readRAM16(RegisterPC) :
          phase = "cpu" /\ PCInRAM /\ phase' = "press" /\ Stores(op) =>
            /\ LoadsFromI(StoreSize(op))' = {Stored(op)}
            /\ \A a \in RamAddress \ FromI(StoreSize(op)) : RAM'[a] = RAM[a]
            /\ KK(op) = 51 => LET digit(i) == RAM'[AtI(i)]
                             IN  RegisterV[X(op)] =
                                   100 * digit(0) + 10 * digit(1) + digit(2)
  <1>1. TypeOK /\ [Next]_vars => [Kept]_vars
    <2> SUFFICES ASSUME TypeOK, Next,
                        NEW op \in readRAM16(RegisterPC),
                        phase = "cpu", PCInRAM, phase' = "press", Stores(op)
                 PROVE  /\ LoadsFromI(StoreSize(op))' = {Stored(op)}
                        /\ \A a \in RamAddress \ FromI(StoreSize(op)) : RAM'[a] = RAM[a]
                        /\ KK(op) = 51 => RegisterV[X(op)] =
                             100 * RAM'[AtI(0)] + 10 * RAM'[AtI(1)] + RAM'[AtI(2)]
      OBVIOUS
    <2>1. CoreOK
      BY DEF TypeOK, CoreOK
    <2>2. op \in Word
      BY <2>1, Peek16Type DEF readRAM16, CoreOK
    <2>3. LD_mem(op)
      <3>1. PICK w \in readRAM16(RegisterPC) : Cycle(w)
        BY CpuSteps DEF runCPU
      <3>2. w = op
        BY OneWord
      <3> QED BY <3>1, <3>2, StoreIsLD_mem DEF Cycle
    <2>4. /\ LoadsFromI(StoreSize(op))' = {Stored(op)}
          /\ \A i \in 0..(StoreSize(op) - 1) : RAM'[AtI(i)] = Stored(op)[i]
          /\ \A a \in RamAddress \ FromI(StoreSize(op)) : RAM'[a] = RAM[a]
      BY <2>1, <2>2, <2>3, StoreLoads
    <2>5. ASSUME KK(op) = 51
          PROVE  RegisterV[X(op)] = 100 * RAM'[AtI(0)] + 10 * RAM'[AtI(1)] + RAM'[AtI(2)]
      <3> DEFINE v == RegisterV[X(op)]
      <3>1. \A i \in 0..2 : RAM'[AtI(i)] = Digits(v)[i]
        BY <2>4, <2>5 DEF StoreSize, Stored
      <3>2. v \in Byte
        BY <2>1, <2>2, FieldTypes, NumberTypes
      <3> HIDE DEF v
      <3>3. /\ RAM'[AtI(0)] = v \div 100 /\ RAM'[AtI(1)] = (v \div 10) % 10
            /\ RAM'[AtI(2)] = v % 10
        BY <3>1 DEF Digits
      <3>4. v = 100 * RAM'[AtI(0)] + 10 * RAM'[AtI(1)] + RAM'[AtI(2)]
        BY <3>2, <3>3, Decimal
      <3> QED BY <3>4 DEF v
    <2> QED BY <2>4, <2>5
  <1> QED BY <1>1, Chip8Typing, PTL DEF Spec, StoresRoundTrip

-----------------------------------------------------------------------------
(* Draws. *)

LEMMA DisplaySizes ==
  /\ DISPLAY_WIDTH \in Nat /\ 8 <= DISPLAY_WIDTH /\ DISPLAY_WIDTH <= 128
  /\ DISPLAY_HEIGHT \in Nat /\ 1 <= DISPLAY_HEIGHT /\ DISPLAY_HEIGHT <= 256
  BY DisplayAssumption

\* Pixels of the display are apart in the array, and inside it.
LEMMA FlatApart ==
  ASSUME NEW r \in Nat, NEW c \in 0..(DISPLAY_WIDTH - 1),
         NEW s \in Nat, NEW d \in 0..(DISPLAY_WIDTH - 1),
         Flat(r, c) = Flat(s, d)
  PROVE  r = s /\ c = d
  <1>1. CASE DISPLAY_WIDTH = 8
    BY <1>1 DEF Flat
  <1>2. CASE DISPLAY_WIDTH = 16
    BY <1>2 DEF Flat
  <1>3. CASE DISPLAY_WIDTH = 32
    BY <1>3 DEF Flat
  <1>4. CASE DISPLAY_WIDTH = 64
    BY <1>4 DEF Flat
  <1>5. CASE DISPLAY_WIDTH = 128
    BY <1>5 DEF Flat
  <1> QED BY <1>1, <1>2, <1>3, <1>4, <1>5, DisplayAssumption

LEMMA FlatInside ==
  ASSUME NEW r \in 0..(DISPLAY_HEIGHT - 1), NEW c \in 0..(DISPLAY_WIDTH - 1)
  PROVE  Flat(r, c) \in Cells
  <1> USE DisplaySizes
  <1>1. CASE DISPLAY_WIDTH = 8
    BY <1>1 DEF Flat, Cells
  <1>2. CASE DISPLAY_WIDTH = 16
    BY <1>2 DEF Flat, Cells
  <1>3. CASE DISPLAY_WIDTH = 32
    BY <1>3 DEF Flat, Cells
  <1>4. CASE DISPLAY_WIDTH = 64
    BY <1>4 DEF Flat, Cells
  <1>5. CASE DISPLAY_WIDTH = 128
    BY <1>5 DEF Flat, Cells
  <1> QED BY <1>1, <1>2, <1>3, <1>4, <1>5, DisplayAssumption

LEMMA U8Same == ASSUME NEW b \in 0..255 PROVE U8(b) = b
  BY DEF U8

LEMMA Unwrapped == ASSUME NEW n \in Nat \ {0}, NEW i \in 0..(n - 1) PROVE i % n = i
  OBVIOUS

\* A sprite that lies in RAM is read as what it is.
LEMMA SpriteIs ==
  ASSUME CoreOK, NEW op \in Word, RegisterI + N(op) <= MEMORY_RAM_SIZE
  PROVE  /\ Sprites(op) = {[i \in 0..(N(op) - 1) |-> RAM[AtI(i)]]}
         /\ OnBits([i \in 0..(N(op) - 1) |-> RAM[AtI(i)]]) = SpriteBits(op)
  <1> DEFINE size == N(op)
             sprite == [i \in 0..(size - 1) |-> RAM[AtI(i)]]
  <1>1. size \in 0..15 /\ RegisterI \in Nat /\ RegisterI \in Int
    BY FieldTypes, NumberTypes, IntegerTypes DEF CoreOK
  <1>2. MEMORY_RAM_SIZE \in Int /\ MEMORY_RAM_SIZE <= 65536
    BY MemoryAssumption
  <1> HIDE DEF size
  <1>3. \A i \in 0..(size - 1) : AtI(i) = RegisterI + i /\ RegisterI + i \in RamAddress
    <2> SUFFICES ASSUME NEW i \in 0..(size - 1)
                 PROVE  AtI(i) = RegisterI + i /\ RegisterI + i \in RamAddress
      OBVIOUS
    <2>1. RegisterI + size <= MEMORY_RAM_SIZE
      BY DEF size
    <2>2. RegisterI + i \in Nat /\ RegisterI + i < MEMORY_RAM_SIZE
      BY <1>1, <1>2, <2>1
    <2>3. RegisterI + i < 65536
      BY <1>1, <1>2, <2>2
    <2>4. AtI(i) = RegisterI + i
      BY <2>2, <2>3, WordIs, U16Same DEF AtI
    <2> QED BY <1>2, <2>2, <2>4 DEF RamAddress
  <1>4. DOMAIN RAM = RamAddress
    BY DEF CoreOK
  <1>5. {i \in 0..(size - 1) : AtI(i) \notin DOMAIN RAM} = {}
    BY <1>3, <1>4
  <1>6. LoadsFromI(size) =
          {[i \in 0..(size - 1) |-> IF i \in {} THEN g[i] ELSE RAM[AtI(i)]] : g \in [{} -> Garbage]}
    BY <1>5 DEF LoadsFromI
  <1>7. [{} -> Garbage] # {}
    <2>1. [i \in {} |-> 0] \in [{} -> Garbage]
      OBVIOUS
    <2> QED BY <2>1
  <1>8. LoadsFromI(size) = {sprite}
    BY <1>6, <1>7
  <1>9. OnBits(sprite) = {p \in (0..(size - 1)) \X BitIndex : Bit(RAM[RegisterI + p[1]], 7 - p[2]) = 1}
    <2>1. DOMAIN sprite = 0..(size - 1)
      OBVIOUS
    <2>2. \A p \in (0..(size - 1)) \X BitIndex : sprite[p[1]] = RAM[RegisterI + p[1]]
      BY <1>3
    <2> HIDE DEF sprite
    <2> QED BY <2>1, <2>2 DEF OnBits
  <1> QED BY <1>8, <1>9 DEF size, Sprites, SpriteBits

LEMMA Fits ==
  ASSUME NEW a \in Nat, NEW n \in Nat, NEW i \in 0..(n - 1), NEW size \in Nat, a + n <= size
  PROVE  a + i \in 0..(size - 1)
  OBVIOUS
LEMMA Cancels == \A a, i, j \in Int : a + i = a + j => i = j
  OBVIOUS

\* On the screen neither putPixel nor getPixel wraps.
LEMMA PixelsOnScreen ==
  ASSUME CoreOK, NEW op \in Word, OnScreen(op), NEW p \in SpriteBits(op)
  PROVE  /\ Row(op) + p[1] \in 0..(DISPLAY_HEIGHT - 1) /\ Col(op) + p[2] \in 0..(DISPLAY_WIDTH - 1)
         /\ PutAt(Row(op), Col(op), p) = Flat(Row(op) + p[1], Col(op) + p[2])
         /\ GetAt(Row(op), Col(op), p) = Flat(Row(op) + p[1], Col(op) + p[2])
  <1> DEFINE r == Row(op) + p[1]
             c == Col(op) + p[2]
  <1>1. N(op) \in 0..15 /\ Row(op) \in 0..255 /\ Col(op) \in 0..255
    BY FieldTypes, NumberTypes DEF Row, Col, Byte
  <1>2. p[1] \in 0..(N(op) - 1) /\ p[2] \in 0..7
    BY DEF SpriteBits, BitIndex
  <1>3. Row(op) + N(op) <= DISPLAY_HEIGHT /\ Col(op) + 8 <= DISPLAY_WIDTH
    BY DEF OnScreen
  <1>4. r \in 0..(DISPLAY_HEIGHT - 1) /\ c \in 0..(DISPLAY_WIDTH - 1)
    <2>1. N(op) \in Nat /\ Row(op) \in Nat /\ Col(op) \in Nat /\ p[2] \in 0..(8 - 1)
      BY <1>1, <1>2
    <2> QED BY <1>2, <1>3, <2>1, Fits, DisplaySizes
  <1> HIDE DEF r, c
  <1>5. U8(r) = r /\ U8(c) = c
    <2>1. r \in 0..255 /\ c \in 0..255
      BY <1>4, DisplaySizes
    <2> QED BY <2>1, U8Same
  <1>6. r % DISPLAY_HEIGHT = r /\ c % DISPLAY_WIDTH = c
    <2>1. DISPLAY_HEIGHT \in Nat \ {0} /\ DISPLAY_WIDTH \in Nat \ {0}
      BY DisplaySizes
    <2> QED BY <1>4, <2>1, Unwrapped
  <1>7. /\ PutAt(Row(op), Col(op), p) = Flat(U8(r), U8(c))
        /\ GetAt(Row(op), Col(op), p) = Flat(U8(r) % DISPLAY_HEIGHT, U8(c) % DISPLAY_WIDTH)
    BY DEF PutAt, GetAt, r, c
  <1> QED BY <1>4, <1>5, <1>6, <1>7 DEF r, c

\* Pixel by pixel is at once: no pixel is toggled twice, so none tests one that
\* the same draw has toggled.
LEMMA DrawsAtOnce ==
  ASSUME CoreOK, NEW op \in Word, OnScreen(op),
         NEW sprite, OnBits(sprite) = SpriteBits(op)
  PROVE  /\ Put(Row(op), Col(op), sprite) = SpriteCells(op)
         /\ SpriteCells(op) \subseteq Cells
         /\ Collides(Row(op), Col(op), sprite) <=> DisplayData \cap SpriteCells(op) # {}
  <1> DEFINE at(p) == Flat(Row(op) + p[1], Col(op) + p[2])
  <1>1. \A p \in SpriteBits(op) :
          /\ PutAt(Row(op), Col(op), p) = at(p) /\ GetAt(Row(op), Col(op), p) = at(p)
          /\ at(p) \in Cells
    BY PixelsOnScreen, FlatInside
  <1>2. \A p, q \in SpriteBits(op) : at(p) = at(q) => p = q
    <2> SUFFICES ASSUME NEW p \in SpriteBits(op), NEW q \in SpriteBits(op), at(p) = at(q)
                 PROVE  p = q
      OBVIOUS
    <2>1. /\ Row(op) + p[1] \in 0..(DISPLAY_HEIGHT - 1) /\ Col(op) + p[2] \in 0..(DISPLAY_WIDTH - 1)
          /\ Row(op) + q[1] \in 0..(DISPLAY_HEIGHT - 1) /\ Col(op) + q[2] \in 0..(DISPLAY_WIDTH - 1)
      BY PixelsOnScreen
    <2>2. Row(op) + p[1] = Row(op) + q[1] /\ Col(op) + p[2] = Col(op) + q[2]
      BY <2>1, FlatApart, DisplaySizes
    <2>3. Row(op) \in Int /\ Col(op) \in Int
      BY FieldTypes, NumberTypes DEF Row, Col
    <2>4. /\ p[1] \in Int /\ p[2] \in Int /\ p = <<p[1], p[2]>>
          /\ q[1] \in Int /\ q[2] \in Int /\ q = <<q[1], q[2]>>
      BY DEF SpriteBits, BitIndex
    <2>5. p[1] = q[1] /\ p[2] = q[2]
      BY <2>2, <2>3, <2>4, Cancels
    <2> QED BY <2>4, <2>5
  <1>3. SpriteCells(op) = {at(p) : p \in SpriteBits(op)}
    BY DEF SpriteCells
  <1>4. Put(Row(op), Col(op), sprite) = {at(p) : p \in SpriteBits(op)}
    BY <1>1 DEF Put
  <1>5. ASSUME NEW p \in SpriteBits(op)
        PROVE  LET earlier == {PutAt(Row(op), Col(op), q) : q \in {r \in OnBits(sprite) : Before(r, p)}}
               IN  GetAt(Row(op), Col(op), p) \in Toggle(DisplayData, earlier) <=> at(p) \in DisplayData
    <2> DEFINE earlier == {PutAt(Row(op), Col(op), q) : q \in {r \in OnBits(sprite) : Before(r, p)}}
    <2>1. ~Before(p, p)
      BY <1>5 DEF Before, SpriteBits, BitIndex
    <2> HIDE DEF at
    <2>2. at(p) \notin earlier
      BY <1>1, <1>2, <1>5, <2>1
    <2> HIDE DEF earlier
    <2>3. GetAt(Row(op), Col(op), p) = at(p)
      BY <1>1, <1>5
    <2>4. GetAt(Row(op), Col(op), p) \in Toggle(DisplayData, earlier) <=> at(p) \in DisplayData
      BY <2>2, <2>3 DEF Toggle
    <2> QED BY <2>4 DEF earlier
  <1>6. Collides(Row(op), Col(op), sprite) <=> \E p \in SpriteBits(op) : at(p) \in DisplayData
    <2> HIDE DEF at
    <2> QED BY <1>5 DEF Collides
  <1> HIDE DEF at
  <1> QED BY <1>1, <1>3, <1>4, <1>6

\* A sprite that lies in RAM and fits on the screen is XORed onto the picture and VF
\* says whether it erased a pixel, for every display and all programs, although DRW
\* draws and tests pixel by pixel (CPU.c 439-457, Display.c 8-22).
THEOREM DrawsAreXor == Spec => DrawIsXor
  <1> DEFINE Drawn ==
        \A op \in readRAM16(RegisterPC) :
          phase = "cpu" /\ PCInRAM /\ phase' # "boot"
          /\ Class(op) = 13 /\ OnScreen(op) /\ RegisterI + N(op) <= MEMORY_RAM_SIZE =>
            /\ phase' = "press"
            /\ DisplayData' = Toggle(DisplayData, SpriteCells(op))
            /\ RegisterV'[VF] = Flag(DisplayData \cap SpriteCells(op) # {})
  <1>1. TypeOK /\ [Next]_vars => [Drawn]_vars
    <2> SUFFICES ASSUME TypeOK, Next,
                        NEW op \in readRAM16(RegisterPC),
                        phase = "cpu", PCInRAM, phase' # "boot",
                        Class(op) = 13, OnScreen(op), RegisterI + N(op) <= MEMORY_RAM_SIZE
                 PROVE  /\ phase' = "press"
                        /\ DisplayData' = Toggle(DisplayData, SpriteCells(op))
                        /\ RegisterV'[VF] = Flag(DisplayData \cap SpriteCells(op) # {})
      OBVIOUS
    <2>1. CoreOK
      BY DEF TypeOK, CoreOK
    <2>2. op \in Word
      BY <2>1, Peek16Type DEF readRAM16, CoreOK
    <2>3. PICK sprite : Sprites(op) = {sprite} /\ OnBits(sprite) = SpriteBits(op)
      BY <2>1, <2>2, SpriteIs
    <2>4. /\ Put(Row(op), Col(op), sprite) = SpriteCells(op)
          /\ SpriteCells(op) \subseteq Cells
          /\ Collides(Row(op), Col(op), sprite) <=> DisplayData \cap SpriteCells(op) # {}
      BY <2>1, <2>2, <2>3, DrawsAtOnce
    <2>5. Cycle(op)
      <3>1. PICK w \in readRAM16(RegisterPC) : Cycle(w)
        BY CpuSteps DEF runCPU
      <3>2. w = op
        BY OneWord
      <3> QED BY <3>1, <3>2
    <2>6. ~WildWrite(op)
      BY <2>3, <2>4 DEF WildWrite, OutOfBounds, Stores
    <2>7. DRW(op) /\ phase' = "press"
      <3>1. ~Prints(op)
        BY DEF Prints
      <3> QED BY <2>5, <2>6, <3>1, DrawIsDRW DEF Cycle
    <2>8. /\ DisplayData' = Toggle(DisplayData, SpriteCells(op))
          /\ RegisterV' = [RegisterV EXCEPT ![VF] = Flag(Collides(Row(op), Col(op), sprite))]
      BY <2>3, <2>4, <2>7 DEF DRW
    <2>9. RegisterV'[VF] = Flag(DisplayData \cap SpriteCells(op) # {})
      <3>1. RegisterV \in [Reg -> Byte] /\ VF \in Reg
        BY DEF TypeOK, RegisterFile, VF, Reg
      <3> QED BY <2>4, <2>8, <3>1 DEF Flag
    <2> QED BY <2>7, <2>8, <2>9
  <1> QED BY <1>1, Chip8Typing, PTL DEF Spec, DrawIsXor

-----------------------------------------------------------------------------
(* CALL and RET keep the addresses of the outstanding calls on STACK and return
   to the latest of them, for every program and every size of STACK. *)

\* FramesOnStack needs the types of the machine and of the history, and that no
\* call is outstanding when initChip8 empties the stack.
HistoryOK ==
  /\ calls \in Seq(Word)
  /\ broken \in BOOLEAN
  /\ phase = "boot" => calls = <<>>

IInv ==
  /\ TypeOK
  /\ HistoryOK
  /\ FramesOnStack

-----------------------------------------------------------------------------
(* Words on the stack. *)

\* A CALL's word is split into two bytes and put together again unchanged.
LEMMA WordFromHalves ==
  ASSUME NEW w \in Word
  PROVE  256 * (w \div 256) + (w % 256) = w
  <1>1. w \in Nat
    BY DEF Word
  <1>2. w \div 256 \in Int /\ w % 256 = w - 256 * (w \div 256)
    BY <1>1
  <1>3. \A q \in Int : 256 * q + (w - 256 * q) = w
    BY <1>1
  <1> QED BY <1>2, <1>3

LEMMA CapacityType ==
  /\ Capacity \in Nat
  /\ 2 * Capacity + 2 = MEMORY_STACK_SIZE
  /\ 2 * Capacity <= 252
  <1>1. MEMORY_STACK_SIZE \in Nat /\ 4 <= MEMORY_STACK_SIZE /\ MEMORY_STACK_SIZE <= 254
        /\ MEMORY_STACK_SIZE % 2 = 0
    BY MemoryAssumption
  <1> DEFINE q == MEMORY_STACK_SIZE \div 2
  <1>2. q \in Int /\ 2 * q = MEMORY_STACK_SIZE
    BY <1>1, Z3
  <1> HIDE DEF q
  <1>3. Capacity = q - 1
    BY DEF Capacity, q
  <1> QED BY <1>1, <1>2, <1>3

-----------------------------------------------------------------------------
(* What the instructions do to the stack. *)

\* Only CALL and RET touch STACK or RegisterSP (CPU.c 67-279).
LEMMA OthersLeaveStack ==
  ASSUME NEW op, Execute(op), op # 238, Class(op) # 2
  PROVE  UNCHANGED <<STACK, RegisterSP>>
  <1> USE DEF Move, SkipIf, SetV, SetI, memories
  <1>1. CASE SYS(op) \/ JP(op) \/ JP_V0(op) \/ Stay(op)
    BY <1>1 DEF SYS, JP, JP_V0, Stay
  <1>2. CASE SE_byte(op) \/ SNE_byte(op) \/ SE_reg(op) \/ SNE_reg(op)
    BY <1>2 DEF SE_byte, SNE_byte, SE_reg, SNE_reg
  <1>3. CASE SKP(op) \/ SKNP(op) \/ LD_K(op)
    BY <1>3 DEF SKP, SKNP, LD_K
  <1>4. CASE LD_byte(op) \/ ADD_byte(op) \/ RND_byte(op) \/ LD_Vx_DT(op)
    BY <1>4 DEF LD_byte, ADD_byte, RND_byte, LD_Vx_DT
  <1>5. CASE Arithmetic(op)
    BY <1>5 DEF Arithmetic
  <1>6. CASE LD_I(op) \/ ADD_I(op) \/ LD_F(op) \/ LD_DT(op) \/ LD_ST(op)
    BY <1>6 DEF LD_I, ADD_I, LD_F, LD_DT, LD_ST
  <1>7. CASE LD_mem(op) \/ LD_Vx_mem(op) \/ CLS(op) \/ DRW(op)
    BY <1>7 DEF LD_mem, LD_Vx_mem, CLS, DRW
  <1>8. CASE RET(op) \/ CALL(op)
    BY <1>8 DEF RET, CALL
  <1> QED BY <1>1, <1>2, <1>3, <1>4, <1>5, <1>6, <1>7, <1>8 DEF Execute

\* A RET with n outstanding calls pops the latest word (CPU.c 295-300).
LEMMA RETReads ==
  ASSUME TypeOK, NEW n \in 0..Capacity, RegisterSP = 2 * n,
         NEW op, RET(op)
  PROVE  RegisterPC' = U16(StackWord(n) + 2) /\ RegisterSP' = U8(RegisterSP - 2)
         /\ UNCHANGED STACK
  <1>1. RegisterSP \in StackAddress /\ RegisterSP + 1 \in StackAddress
    BY CapacityType DEF StackAddress
  <1>2. DOMAIN STACK = StackAddress
    BY DEF TypeOK
  <1>3. readSTACK16(RegisterSP) = {StackWord(n)}
    BY <1>1, <1>2 DEF readSTACK16, Peek16, Peek, StackWord
  <1> QED BY <1>3 DEF RET, GoTo, memories

\* A CALL with n outstanding calls pushes one word and moves none
\* (CPU.c 309-314, Memory.c 44-48).
LEMMA CALLPushes ==
  ASSUME TypeOK, NEW n \in 0..Capacity, RegisterSP = 2 * n,
         NEW op, CALL(op)
  PROVE  /\ n + 1 <= Capacity
         /\ RegisterSP' = 2 * (n + 1)
         /\ StackWord(n + 1)' = RegisterPC
         /\ \A i \in 1..n : StackWord(i)' = StackWord(i)
  <1>1. DOMAIN STACK = StackAddress /\ RegisterPC \in Word
    BY DEF TypeOK
  <1>2. U8(RegisterSP + 2) = 2 * n + 2
    BY CapacityType DEF U8
  <1>3. n + 1 <= Capacity
    <2>1. 2 * n + 2 \in StackAddress
      BY <1>1, <1>2 DEF CALL, Holds, CallSlot
    <2> QED BY <2>1, CapacityType DEF StackAddress
  <1>4. STACK' = [STACK EXCEPT ![2 * n + 2] = RegisterPC \div 256,
                               ![2 * n + 3] = RegisterPC % 256]
    <2>1. RegisterSP' = 2 * n + 2 /\ RegisterSP' + 1 = 2 * n + 3
      BY <1>2 DEF CALL
    <2>2. STACK' = writeSTACK16(RegisterSP', RegisterPC)
      BY DEF CALL
    <2> QED BY <2>1, <2>2 DEF writeSTACK16
  <1>5. StackWord(n + 1)' = RegisterPC
    <2>1. 2 * n + 2 \in StackAddress /\ 2 * n + 3 \in StackAddress
      BY <1>3, CapacityType DEF StackAddress
    <2>2. /\ STACK'[2 * n + 2] = RegisterPC \div 256
          /\ STACK'[2 * n + 3] = RegisterPC % 256
      BY <1>1, <1>4, <2>1
    <2>3. StackWord(n + 1)' = 256 * STACK'[2 * n + 2] + STACK'[2 * n + 3]
      BY DEF StackWord
    <2> QED BY <1>1, <2>2, <2>3, WordFromHalves
  <1>6. ASSUME NEW i \in 1..n PROVE StackWord(i)' = StackWord(i)
    <2>1. /\ 2 * i # 2 * n + 2 /\ 2 * i # 2 * n + 3
          /\ 2 * i + 1 # 2 * n + 2 /\ 2 * i + 1 # 2 * n + 3
          /\ 2 * i \in StackAddress /\ 2 * i + 1 \in StackAddress
      BY CapacityType DEF StackAddress
    <2>2. STACK'[2 * i] = STACK[2 * i] /\ STACK'[2 * i + 1] = STACK[2 * i + 1]
      BY <1>1, <1>4, <2>1
    <2> QED BY <2>2 DEF StackWord
  <1> QED BY <1>2, <1>3, <1>5, <1>6 DEF CALL

\* While calls are left, a CALL fits.
LEMMA CALLHasRoom ==
  ASSUME TypeOK, NEW n \in Nat, n < Capacity, RegisterSP = 2 * n
  PROVE  Holds(STACK, CallSlot)
  <1>1. U8(RegisterSP + 2) = 2 * n + 2
    BY CapacityType DEF U8
  <1>2. 2 * n + 2 \in StackAddress /\ 2 * n + 3 \in StackAddress
    BY CapacityType DEF StackAddress
  <1> QED BY <1>1, <1>2 DEF Holds, CallSlot, TypeOK

-----------------------------------------------------------------------------
(* The invariant. *)

\* With the history, the machine still does what it does alone.
LEMMA HNextIsNext == [HNext]_hvars => [Next]_vars
  BY DEF HNext, hvars, Next, runChip8, runInstruction, runCPU

LEMMA InitFrames == HInit => IInv
  <1> SUFFICES ASSUME HInit PROVE IInv
    OBVIOUS
  <1>1. TypeOK
    BY InitTyped DEF HInit
  <1>2. calls = <<>> /\ broken = FALSE /\ RegisterSP = 0
    BY DEF HInit, Init
  <1>3. FramesOnStack
    BY <1>2, CapacityType DEF FramesOnStack
  <1>4. calls \in Seq(Word)
    BY <1>2
  <1>5. broken \in BOOLEAN
    BY <1>2
  <1> QED BY <1>1, <1>2, <1>3, <1>4, <1>5 DEF IInv, HistoryOK

LEMMA Class238 == Class(238) = 0 /\ NNN(238) = 238
  BY DEF Class, NNN

\* Class 2 is CALL and 00EE is RET, and nothing else (CPU.c 86-113).
LEMMA OnlyCALL ==
  ASSUME NEW op, Class(op) = 2, Cycle(op), phase' = "press"
  PROVE  CALL(op)
  BY DEF Cycle, Execute, SYS, CLS, RET, JP, SE_byte, SNE_byte, SE_reg,
     SNE_reg, LD_byte, ADD_byte, Arithmetic, RND_byte, LD_I, ADD_I, LD_F,
     JP_V0, DRW, SKP, SKNP, LD_K, LD_Vx_DT, LD_DT, LD_ST, LD_mem, Stores,
     LD_Vx_mem, Stay, Undefined, Class

LEMMA OnlyRET ==
  ASSUME NEW op, op = 238, Cycle(op)
  PROVE  RET(op)
  BY Class238 DEF Cycle, Execute, WildWrite, OutOfBounds, SYS, CLS, JP, CALL, SE_byte,
     SNE_byte, SE_reg, SNE_reg, LD_byte, ADD_byte, Arithmetic, RND_byte, LD_I,
     ADD_I, LD_F, JP_V0, DRW, SKP, SKNP, LD_K, LD_Vx_DT, LD_DT, LD_ST, LD_mem,
     Stores, LD_Vx_mem, Stay, Undefined

\* An instruction keeps the frames (CPU.c 67-314).
LEMMA CycleFrames ==
  ASSUME IInv, TypeOK', NEW op \in Word, Cycle(op), Track(op)
  PROVE  IInv'
  <1>1. calls \in Seq(Word) /\ broken \in BOOLEAN /\ RegisterPC \in Word /\ TypeOK
    BY DEF IInv, HistoryOK, TypeOK
  <1>2. broken' \in BOOLEAN /\ phase' # "boot"
    BY DEF Track, Cycle
  <1>3. CASE broken'
    <2>1. calls' = <<>>
      BY <1>3 DEF Track
    <2>2. calls' \in Seq(Word)
      BY <2>1
    <2>3. FramesOnStack'
      BY <1>3 DEF FramesOnStack
    <2> QED BY <1>2, <2>2, <2>3 DEF IInv, HistoryOK
  <1>4. CASE ~broken'
    <2>1. ~broken /\ ~Underflows(op)
      BY <1>1, <1>4 DEF Track
    <2>a. Len(calls) \in 0..Capacity
      BY <1>1, <2>1, CapacityType DEF IInv, FramesOnStack
    <2>b. PICK n \in 0..Capacity : n = Len(calls)
      BY <2>a
    <2>2. /\ RegisterSP = 2 * n
          /\ \A i \in 1..n : StackWord(i) = calls[i]
      BY <2>1, <2>b DEF IInv, FramesOnStack
    <2>3. CASE Class(op) = 2 /\ phase' = "press"
      <3>1. CALL(op)
        BY <2>3, OnlyCALL
      <3>2. calls' = Append(calls, RegisterPC)
        BY <1>4, <2>3, Class238 DEF Track
      <3>3. /\ n + 1 <= Capacity
            /\ RegisterSP' = 2 * (n + 1)
            /\ StackWord(n + 1)' = RegisterPC
            /\ \A i \in 1..n : StackWord(i)' = StackWord(i)
        BY <1>1, <2>2, <3>1, CALLPushes
      <3>4. /\ calls' \in Seq(Word) /\ Len(calls') = n + 1
            /\ calls'[n + 1] = RegisterPC /\ \A i \in 1..n : calls'[i] = calls[i]
        BY <1>1, <2>b, <3>2
      <3>5. \A i \in 1..(n + 1) : StackWord(i)' = calls'[i]
        BY <2>2, <3>3, <3>4
      <3>6. FramesOnStack'
        BY <3>3, <3>4, <3>5 DEF FramesOnStack
      <3> QED BY <1>2, <3>4, <3>6 DEF IInv, HistoryOK
    <2>4. CASE op = 238
      <3>1. calls' = Front(calls) /\ calls # <<>>
        BY <1>4, <2>1, <2>4, Class238 DEF Track, Underflows
      <3>2. n >= 1
        BY <1>1, <2>b, <3>1
      <3>3. RET(op)
        BY <2>4, Class238, OnlyRET
      <3>4. RegisterSP' = U8(RegisterSP - 2) /\ UNCHANGED STACK
        BY <1>1, <2>2, <3>3, RETReads
      <3>5. RegisterSP' = 2 * (n - 1)
        BY <2>2, <3>2, <3>4, CapacityType DEF U8
      <3>6. /\ calls' \in Seq(Word) /\ Len(calls') = n - 1
            /\ \A i \in 1..(n - 1) : calls'[i] = calls[i]
        BY <1>1, <2>b, <3>1, <3>2 DEF Front
      <3>7. \A i \in 1..n : StackWord(i)' = StackWord(i)
        BY <3>4 DEF StackWord
      <3>8. n - 1 <= Capacity /\ \A i \in 1..(n - 1) : StackWord(i)' = calls'[i]
        BY <2>2, <3>2, <3>6, <3>7, CapacityType
      <3>9. FramesOnStack'
        BY <3>5, <3>6, <3>8 DEF FramesOnStack
      <3> QED BY <1>2, <3>6, <3>9 DEF IInv, HistoryOK
    <2>5. CASE op # 238 /\ ~(Class(op) = 2 /\ phase' = "press")
      <3>1. UNCHANGED <<STACK, RegisterSP, calls>>
        <4>1. UNCHANGED calls
          BY <1>4, <2>5 DEF Track
        <4>2. CASE WildWrite(op)
          BY <4>1, <4>2 DEF WildWrite, registers, memories
        <4>3. CASE Execute(op) /\ phase' = IF Prints(op) THEN "print" ELSE "press"
          <5>1. Class(op) # 2
            BY <2>5, <4>3 DEF Prints
          <5> QED BY <2>5, <4>1, <4>3, <5>1, OthersLeaveStack
        <4> QED BY <4>2, <4>3 DEF Cycle
      <3>2. \A i \in 1..n : StackWord(i)' = StackWord(i)
        BY <3>1 DEF StackWord
      <3>3. FramesOnStack'
        BY <2>b, <2>2, <3>1, <3>2 DEF FramesOnStack
      <3> QED BY <1>1, <1>2, <3>1, <3>3 DEF IInv, HistoryOK
    <2> QED BY <2>3, <2>4, <2>5
  <1> QED BY <1>3, <1>4

LEMMA StepFrames == IInv /\ [HNext]_hvars => IInv'
  <1> SUFFICES ASSUME IInv, [HNext]_hvars PROVE IInv'
    OBVIOUS
  <1>1. TypeOK'
    BY StepTyped, HNextIsNext DEF IInv
  <1>2. CASE UNCHANGED hvars
    BY <1>1, <1>2 DEF hvars, history, vars, registers, memories, IInv,
       HistoryOK, FramesOnStack, StackWord
  <1>3. CASE (pollButtons \/ Printed) /\ UNCHANGED history
    BY <1>1, <1>3 DEF pollButtons, Printed, history, registers, memories, IInv,
       HistoryOK, FramesOnStack, StackWord
  <1>4. CASE initChip8 /\ UNCHANGED history
    <2>1. calls = <<>> /\ UNCHANGED <<calls, broken>>
      BY <1>4 DEF initChip8, IInv, HistoryOK, history
    <2>2. RegisterSP' = 0 /\ phase' = "print"
      BY <1>4 DEF initChip8, initCPU
    <2>3. FramesOnStack'
      BY <2>1, <2>2, CapacityType DEF FramesOnStack
    <2> QED BY <1>1, <2>1, <2>2, <2>3 DEF IInv, HistoryOK
  <1>5. CASE Reset /\ calls' = <<>> /\ broken' = FALSE
    <2>1. RegisterSP' = 0
      BY <1>5 DEF Reset
    <2>2. FramesOnStack'
      BY <1>5, <2>1, CapacityType DEF FramesOnStack
    <2>3. calls' \in Seq(Word)
      BY <1>5
    <2>4. broken' \in BOOLEAN
      BY <1>5
    <2> QED BY <1>1, <1>5, <2>2, <2>3, <2>4 DEF IInv, HistoryOK
  <1>6. ASSUME NEW op \in readRAM16(RegisterPC), Cycle(op), Track(op)
        PROVE  IInv'
    <2>1. op \in Word
      BY <1>6, Peek16Type DEF readRAM16, IInv, TypeOK
    <2> QED BY <1>1, <1>6, <2>1, CycleFrames
  <1> QED BY <1>2, <1>3, <1>4, <1>5, <1>6 DEF HNext

-----------------------------------------------------------------------------
(* The theorems. *)

LEMMA FramesInvariant == HSpec => []IInv
  BY InitFrames, StepFrames, PTL DEF HSpec

\* As long as no RET came without a CALL, the bytes below RegisterSP are the
\* addresses of the outstanding calls, whatever the program (CPU.c 295-314).
THEOREM FramesStayOnStack == HSpec => []FramesOnStack
  <1>1. IInv => FramesOnStack
    BY DEF IInv
  <1> QED BY <1>1, FramesInvariant, PTL

\* A RET resumes after the latest outstanding CALL (CPU.c 295-300).
THEOREM ReturnsAreNested == HSpec => ReturnsToCaller
  <1>1. IInv /\ [HNext]_hvars =>
          [phase' # "boot" /\ Len(calls') < Len(calls) /\ ~broken'
             => RegisterPC' = U16(Last(calls) + 2) /\ calls' = Front(calls)]_hvars
    <2> SUFFICES ASSUME IInv, HNext, phase' # "boot", Len(calls') < Len(calls),
                        ~broken'
                 PROVE  RegisterPC' = U16(Last(calls) + 2) /\ calls' = Front(calls)
      OBVIOUS
    <2>1. calls \in Seq(Word) /\ broken \in BOOLEAN /\ TypeOK /\ FramesOnStack
      BY DEF IInv, HistoryOK
    <2>2. ~ UNCHANGED calls
      BY <2>1
    <2>3. PICK op \in readRAM16(RegisterPC) : Cycle(op) /\ Track(op)
      BY <2>2 DEF HNext, Reset, history
    <2>4. op = 238 /\ calls' = Front(calls) /\ ~broken /\ ~Underflows(op)
      <3>1. ~broken /\ ~Underflows(op)
        BY <2>1, <2>3 DEF Track
      <3>2. calls' # Append(calls, RegisterPC)
        <4>1. RegisterPC \in Word
          BY <2>1 DEF TypeOK
        <4> QED BY <2>1, <4>1
      <3> QED BY <2>2, <2>3, <3>1, <3>2 DEF Track
    <2>5. Len(calls) \in 0..Capacity /\ Len(calls) >= 1
      BY <2>1, <2>4, CapacityType DEF FramesOnStack, Underflows
    <2>6. PICK n \in 0..Capacity : n = Len(calls)
      BY <2>5
    <2>7. RegisterSP = 2 * n /\ StackWord(n) = calls[n]
      BY <2>1, <2>4, <2>5, <2>6 DEF FramesOnStack
    <2>8. RegisterPC' = U16(StackWord(n) + 2)
      BY <2>1, <2>3, <2>4, <2>7, OnlyRET, RETReads
    <2> QED BY <2>4, <2>6, <2>7, <2>8 DEF Last
  <1> QED BY <1>1, FramesInvariant, PTL DEF HSpec, ReturnsToCaller

\* With fewer outstanding calls than STACK has words but one, a CALL never
\* writes outside STACK (CPU.c 309-314).
THEOREM CallsFit == HSpec => CallFits
  <1>1. IInv /\ [HNext]_hvars =>
          [\A op \in readRAM16(RegisterPC) :
             phase = "cpu" /\ PCInRAM /\ Class(op) = 2 /\ ~broken
             /\ Len(calls) < Capacity => phase' # "wild"]_hvars
    <2> SUFFICES ASSUME IInv, HNext, NEW op \in readRAM16(RegisterPC),
                        phase = "cpu", PCInRAM, Class(op) = 2, ~broken,
                        Len(calls) < Capacity
                 PROVE  phase' # "wild"
      OBVIOUS
    <2>1. Holds(STACK, CallSlot)
      <3>1. calls \in Seq(Word) /\ TypeOK /\ FramesOnStack
        BY DEF IInv, HistoryOK
      <3> QED BY <3>1, CALLHasRoom DEF FramesOnStack
    <2>2. \A word \in readRAM16(RegisterPC) : word = op
      BY DEF PCInRAM, Holds, readRAM16, Peek16, Peek
    <2>3. \A word \in readRAM16(RegisterPC) : Cycle(word) => phase' # "wild"
      BY <2>1, <2>2 DEF Cycle, WildWrite, OutOfBounds, Stores
    <2> QED BY <2>3 DEF HNext, Reset, initChip8, pollButtons, Printed
  <1> QED BY <1>1, FramesInvariant, PTL DEF HSpec, CallFits

\* Calls and returns nest, for every program and every size of STACK.
THEOREM CallsAndReturnsNest == HSpec => CallsNest
  BY FramesStayOnStack, ReturnsAreNested, CallsFit, PTL DEF CallsNest
=============================================================================
