SPECIFICATION Spec
CONSTANTS
    Tx = {t1, t2}
    Run = {1, 2}
    Doc = {1}
    HotOnly = TRUE
SYMMETRY TxSymmetry
INVARIANT NoWaitCycle
