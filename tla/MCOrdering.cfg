CONSTANTS
    Epochs = {1, 2}
    Refs = {x, y, z}
    NoRef = NoRef
    Members = {m, n, o}
    Astray = {o}
SPECIFICATION ForkSpec
SYMMETRY RefSymmetry
INVARIANTS Agreement NoFalseFork ForkDetected
