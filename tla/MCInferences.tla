---------------------------- MODULE MCInferences ----------------------------
\* A program of two iterated components, the second with a negation, over two
\* quads: the first needs one round for a alone and two for a and b.
EXTENDS Inferences

CONSTANTS a, b, c, d, w, x, y, z

Rule(body, head) == [head |-> head, body |-> body, absent |-> {}]

MCLoaded == {{a}, {a, b}}
MCPhases ==
    <<[seed |-> <<{Rule({a}, x)}, {Rule({c}, x)}>>,
       step |-> <<{Rule({x}, y)}, {Rule({y, b}, z)}>>],
      [seed |-> <<{[head |-> w, body |-> {a}, absent |-> {z}]}>>, step |-> <<{Rule({w}, w)}>>]>>
MCGoal    == {Rule({y}, c), Rule({w}, d), Rule({b, d}, d)}
MCAxioms  == <<{Rule({c}, d)}, {Rule({b}, c)}>>
MCEngine  == {Rule({a}, c), Rule({c}, d)}
MCLookups == <<{a}, {c}>>
=============================================================================
