SPECIFICATION Spec
CONSTANTS
    Conns = {c1, c2, c3}
    None = None
SYMMETRY Symmetric
INVARIANTS
    TriesBounded
    ActedOnOnce
    InterimFromOneTry
    AnswerAllowed
    NextRequestAligned
