----------------------------- MODULE MCJtagUart -----------------------------
(* Instances of JtagUart for TLC. *)
EXTENDS JtagUart
Build(small, hasClock, hoisted, rx, tx, calls) ==
  [small |-> small, clock |-> hasClock, hoisted |-> hoisted, rx |-> rx, tx |-> tx, calls |-> calls]
Waiting(n) == [length |-> n, nonblock |-> FALSE]
Trying(n) == [length |-> n, nonblock |-> TRUE]
MCConfigs ==
  {Build(FALSE, FALSE, FALSE, {1, 2}, {}, {Waiting(2)}),
   Build(FALSE, TRUE, FALSE, {1}, {}, {Waiting(2)}),
   Build(FALSE, TRUE, FALSE, {}, {1, 2}, {Waiting(2)}),
   Build(FALSE, TRUE, TRUE, {}, {1}, {Waiting(2), Trying(1)}),
   Build(FALSE, TRUE, TRUE, {1}, {}, {Waiting(1), Trying(1)}),
   Build(FALSE, FALSE, FALSE, {1}, {1}, {Waiting(1)}),
   Build(TRUE, FALSE, FALSE, {1, 2}, {1}, {Waiting(0), Waiting(2), Trying(2)})}
=============================================================================
