CONSTANTS
    a = a
    b = b
    Order <- MCOrder
    Versions = {1, 2, 3}
    Inputs <- MCInputs
SPECIFICATION Spec
INVARIANT Respected
