-------------------------- MODULE MCEntryConsumers ---------------------------
(* Instances of EntryConsumers for TLC: what the provider's answers may be. *)
EXTENDS EntryConsumers

Kinds(keySequences, lengths, openings) ==
  [keys : keySequences, exact : lengths, opens : openings,
   generations : {"true", "zero", "other"}, canonicalEnd : BOOLEAN]

\* Well ordered; out of order; repeated; malformed in the middle; malformed at once; empty.
LyingProviders ==
  Kinds({<<1, 2, 3, 4>>, <<1, 3, 2>>, <<1, 1>>, <<1, 2, 0, 3>>, <<0>>, <<>>},
        {NoLength, 0, 3, 4, 5}, {"well"})
    \cup Kinds({<<1>>}, {1}, {"not", "nullCursor", "noVtable", "badVtable", "badMetadata"})

HonestProviders ==
  {p \in LyingProviders : p.keys = <<1, 2, 3, 4>> /\ p.exact = 4
                            /\ p.generations = "true" /\ p.canonicalEnd}
=============================================================================
