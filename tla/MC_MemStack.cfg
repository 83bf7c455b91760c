CONSTANTS
    Value = {v1, v2}
    Block = {b1, b2}
    NULL = NULL
    Zero = Zero
    Junk = Junk
    InitialCapacities <- MCInitialCapacities
    MaxCount = 5
SPECIFICATION Spec
INVARIANTS Inv
PROPERTIES NoThrash ImplementsStack
CHECK_DEADLOCK FALSE
