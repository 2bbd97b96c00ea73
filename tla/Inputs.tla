------------------------------- MODULE Inputs -------------------------------
(***************************************************************************)
(* The input of a pure algorithm, as state: the initial states are the     *)
(* bounded inputs, nothing changes, and each law of an algorithm is an     *)
(* invariant of the inputs it is about.                                    *)
(***************************************************************************)
\* A record: its field "of" says what the other fields are the input of.
VARIABLE input

Is(kind) == input.of = kind

Evaluate == UNCHANGED input
=============================================================================
