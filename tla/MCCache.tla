------------------------------ MODULE MCCache ------------------------------
(* Instances of Cache for TLC. *)
EXTENDS Cache, TLC

Plain == [lookup |-> TRUE, storable |-> TRUE, force |-> FALSE, conditional |-> FALSE, onlyIfCached |-> FALSE]
OnlyIfCached == [Plain EXCEPT !.onlyIfCached = TRUE]
Reload == [Plain EXCEPT !.force = TRUE]
Conditional == [Plain EXCEPT !.conditional = TRUE]
SomeKinds == {Plain, OnlyIfCached, Conditional}
Small == [small |-> TRUE, validators |-> TRUE]
SomeShapes == {Small, [small |-> FALSE, validators |-> FALSE]}

Symmetric == Permutations(Handlers)
=============================================================================
