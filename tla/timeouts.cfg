SPECIFICATION Spec
CONSTANTS
    n1 = n1
    n2 = n2
    n3 = n3
    n4 = n4
    n5 = n5
    n6 = n6
    Node = {n1, n2, n3, n4, n5, n6}
    Key = {1, 2}
    Nil = Nil
    NULL = NULL
INVARIANTS
    RedBlack
    Linked
PROPERTY
    ImplementsTimers
    LoopsEnd
SYMMETRY NodeSymmetry
