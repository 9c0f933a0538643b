----------------------------- MODULE MCRealtime -----------------------------
(***************************************************************************)
(* A small instance of RealtimeProperties, and the mutants of its code.    *)
(***************************************************************************)
EXTENDS RealtimeProperties, TLC

CONSTANTS a1, a2, b1, alice, bob, home, cafe

Users == [c \in Conn |-> IF c = b1 THEN bob ELSE alice]
Addresses == [c \in Conn |-> IF c = b1 THEN cafe ELSE home]
Others == {[ip \in {home, cafe} |-> n] : n \in 0 .. 1}
Alike == Permutations({a1, a2})
=============================================================================
