CONSTANT Ends <- Square
SPECIFICATION Spec
INVARIANT SymmetricLine
