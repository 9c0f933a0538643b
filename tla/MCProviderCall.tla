--------------------------- MODULE MCProviderCall ---------------------------
(***************************************************************************)
(* A small instance of ProviderCallProperties: two passes and a drawing,   *)
(* one slot of each kind. A tick is about 10 s.                            *)
(***************************************************************************)
EXTENDS ProviderCallProperties

CONSTANTS one, two, draw

Jobs == [j \in Job |-> IF j = draw THEN "assist" ELSE "duel"]

Seconds == [k \in Kinds |-> IF k = "duel" THEN 6 ELSE 2]
PerTry  == [k \in Kinds |-> 1]
Writes  == [k \in Solo |-> 4]
=============================================================================
