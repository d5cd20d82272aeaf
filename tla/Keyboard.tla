----------------------------- MODULE Keyboard -----------------------------
(***************************************************************************)
(* Keyboad.c: the sixteen keys of a CHIP-8 keypad, driven by the eight     *)
(* buttons of the board through the KeyMap of the loaded ROM.              *)
(***************************************************************************)
EXTENDS Arrays

CONSTANT Presses   \* the sets of button masks that may be held at a poll

Key == 0..15
KEY_NONE == 0
Buttons == {1, 2, 4, 8, 16, 32, 64, 128}   \* one mask per bit of the PIO

ASSUME KeyboardAssumption == Presses \subseteq SUBSET Buttons /\ Presses # {}

VARIABLES Keypad, KeyMap

NoKeys == [k \in Key |-> 0]

getKey(key) == Peek(Keypad, key)

PressedKeys == {k \in Key : Keypad[k] = 1}

\* Mutant of processPress: a key once pressed is never released.
processPress_Sticky ==
  /\ \E pressed \in Presses :
       Keypad' = [k \in Key |-> IF KeyMap[k] \in pressed THEN 1 ELSE Keypad[k]]
  /\ UNCHANGED KeyMap

\* A key whose map entry is no button keeps its value.
processPress ==
  /\ \E pressed \in Presses :
       Keypad' = [k \in Key |-> IF KeyMap[k] \in Buttons
                                THEN Flag(KeyMap[k] \in pressed)
                                ELSE Keypad[k]]
  /\ UNCHANGED KeyMap

=============================================================================
