--------------------------- MODULE MCStructObject ---------------------------
(* StructObject over records of a few plain members and bit-fields.        *)
EXTENDS StructObject

Of(k, sz, al, b, s, p) ==
  [kind |-> k, size |-> sz, align |-> al, bits |-> b, signed |-> s, packed |-> p]

\* A char, an int, a struct of three shorts.
Plain == {Of("normal", 1, 1, 0, TRUE, FALSE), Of("normal", 4, 4, 0, TRUE, FALSE),
          Of("normal", 6, 2, 0, TRUE, FALSE)}
Fields == {Of("bits", 1, 1, b, TRUE, FALSE) : b \in {0, 3, 8}}
          \cup {Of("bits", 4, 4, b, TRUE, FALSE) : b \in {3, 29, 32}}
          \cup {Of("bits", 2, 2, 9, FALSE, FALSE)}
          \cup {Of("bits", 8, 8, b, FALSE, FALSE) : b \in {35, 64}}
Odd == {Of("normal", 8, 8, 0, TRUE, TRUE), Of("bits", 4, 4, 25, FALSE, TRUE),
        Of("flex", 0, 2, 0, TRUE, FALSE), Of("ignored", 4, 4, 0, TRUE, FALSE),
        Of("refused", 4, 4, 0, TRUE, FALSE)}

MCShiftedOut == 0..63
MCValues == {{0}, 0..63}

MCMembers == Plain \cup Fields \cup Odd
=============================================================================
