------------------------------ MODULE MCEmailCode ------------------------------
(* Model values and symmetry for model-checking EmailCode.                    *)
EXTENDS EmailCode, TLC

\* Requests of one kind are interchangeable, and so are code values: no
\* definition tells two of them apart.
Symmetry ==
    Permutations(Starts) \cup Permutations(Verifies) \cup Permutations(Codes)
=============================================================================
