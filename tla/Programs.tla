----------------------------- MODULE Programs -----------------------------
(***************************************************************************)
(* The CHIP-8 programs and the values of Chip8's constants that the runs   *)
(* use.  RAM has 128 bytes in most runs: the font table of Chip8.c at 0    *)
(* and the program at 96, where the code has 4096 and 512.  A ROM table    *)
(* holds every program of a few words from a short list: the switches      *)
(* choose one.                                                             *)
(***************************************************************************)
EXTENDS Integers, Sequences

KeyNumbers == 0..15

Glyphs == << 240, 144, 144, 144, 240,   32,  96,  32,  32, 112,
             240,  16, 240, 128, 240,  240,  16, 240,  16, 240,
             144, 144, 240,  16,  16,  240, 128, 240,  16, 240,
             240, 128, 240, 144, 240,  240,  16,  32,  64,  64,
             240, 144, 240, 144, 240,  240, 144, 240,  16, 240,
             240, 144, 240, 144, 144,  224, 144, 224, 144, 224,
             240, 128, 128, 128, 240,  224, 144, 144, 144, 224,
             240, 128, 240, 128, 240,  240, 128, 240, 128, 128 >>

Fonts == [a \in 0..79 |-> Glyphs[a + 1]]

\* The bytes of a sequence of instruction words.
Bytes16(words) ==
  [a \in 0..(2 * Len(words) - 1) |->
     LET w == words[a \div 2 + 1] IN IF a % 2 = 0 THEN w \div 256 ELSE w % 256]

\* The keypad of a ROM whose keys have no button.
Unmapped == [k \in KeyNumbers |-> 0]

\* The id-th of the programs of four words from the sequence words: id spells
\* its words in base Len(words).
Digit(words, id, place) == words[((id \div place) % Len(words)) + 1]
FourWords(words, id) ==
  LET k == Len(words)
  IN  <<Digit(words, id, 1), Digit(words, id, k),
        Digit(words, id, k * k), Digit(words, id, k * k * k)>>

Entry(words, keypad) == [data |-> Bytes16(words), keypad |-> keypad]

NoPress == {{}}

-----------------------------------------------------------------------------
(* Subroutines: calls and jumps into the program, returns, skips. *)

FlowWords ==
  << 8288, 8290, 8294,    \* 2060 2062 2066  CALL
     238,                 \* 00EE            RET
     4194,                \* 1062            JP
     12288 >>             \* 3000            SE V0, 0

-----------------------------------------------------------------------------
(* Keys and timers: waits, key skips, timer loads, loops, a bad opcode. *)

\* Buttons 1 and 2 drive keys 0, 3 and 5; the other keys have no button.
SomeKeys == [k \in KeyNumbers |-> CASE k = 0 -> 2 [] k = 3 -> 1 [] k = 5 -> 2
                             [] OTHER -> 0]
OneButton == {{}, {1}, {2}}

KeyWords ==
  << 61706,    \* F10A   LD V1, K
     57758,    \* E19E   SKP V1
     57761,    \* E1A1   SKNP V1
     24835,    \* 6103   LD V1, 3
     61703,    \* F107   LD V1, DT
     61717,    \* F115   LD DT, V1
     61720,    \* F118   LD ST, V1
     61951,    \* F1FF   undefined
     4192 >>   \* 1060   JP to the first word

KeySwitches == 0..6560
KeyROM == [id \in KeySwitches |-> Entry(FourWords(KeyWords, id), SomeKeys)]

-----------------------------------------------------------------------------
(* Memory: stores and loads at the top of RAM, outside it and over the
   program itself; computed jumps; glyph addresses. *)

MemoryWords ==
  << 41085,    \* A07D   LD I, 125: the last three bytes
     41058,    \* A062   LD I, 98: the second word of the program
     49663,    \* C1FF   RND V1
     61747,    \* F133   BCD of V1
     61781,    \* F155   store V0, V1
     61797,    \* F165   load V0, V1
     61726,    \* F11E   ADD I, V1
     45154 >>  \* B062   JP V0, 98

-----------------------------------------------------------------------------
(* Screen: sprites of three rows drawn over each other, in the middle, across
   the right edge and at the bottom. *)

ScreenWords ==
  << 40962,    \* A002   LD I, 2: the middle of a glyph
     24894,    \* 613E   LD V1, 62: the last two columns
     24605,    \* 601D   LD V0, 29: the last three rows
     28673,    \* 7001   ADD V0, 1
     53507,    \* D103   DRW at column V1, row V0
     224,      \* 00E0   CLS
     32791,    \* 8017   SUBN V0, V1
     61481,    \* F029   LD F, V0
     4194 >>   \* 1062   JP to the second word

ScreenSwitches == 0..6560
ScreenROM == [id \in ScreenSwitches |-> Entry(FourWords(ScreenWords, id), Unmapped)]

\* The three families together: 1296 + 4096 + 6561 programs.
MixedSwitches == 0..11952
MixedProgram(id) ==
  IF id < 1296 THEN FourWords(FlowWords, id)
  ELSE IF id < 5392 THEN FourWords(MemoryWords, id - 1296)
  ELSE FourWords(ScreenWords, id - 5392)
MixedROM == [id \in MixedSwitches |-> Entry(MixedProgram(id), Unmapped)]

=============================================================================
