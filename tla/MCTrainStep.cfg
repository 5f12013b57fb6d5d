SPECIFICATION Spec
CONSTANTS
    Setups <- MCSetups
    Lengths = {1, 2, 3}
INVARIANTS
    RowsKept
    UpdateDone
    CollectivesMatch
