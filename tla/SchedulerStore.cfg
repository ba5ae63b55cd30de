SPECIFICATION Spec
CONSTANTS
    Writers = {w1, w2}
    NoWriter = NoWriter
    Tasks = {t1, t2}
    MaxEpochs = 2
SYMMETRY Alike
INVARIANTS
    CheckedWriterIsCurrent
PROPERTIES
    ImplementsEpochLog
