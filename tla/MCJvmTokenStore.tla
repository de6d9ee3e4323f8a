--------------------------- MODULE MCJvmTokenStore --------------------------
(* TLC instance of JvmTokenStore: the kinds of callers each arena is shown *)
(* to withstand, and the one each is shown not to.                         *)
EXTENDS JvmTokenStore, TLC

Kinds(boxes, callers) == [boxed : boxes, callers : callers]
Withstood ==
  Kinds({TRUE}, {"staleGets"}) \cup Kinds({FALSE}, {"lawful"}) \cup Kinds(BOOLEAN, {"alone"})
BoxedAnything == Kinds({TRUE}, {"anything"})
PrimitiveStaleGets == Kinds({FALSE}, {"staleGets"})

Symmetry == Permutations(Threads) \cup Permutations(Slots)
=============================================================================
