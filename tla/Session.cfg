SPECIFICATION Spec
CONSTANTS
    o1 = o1
    Ops = {o1}
    None = None
    v1 = v1
    v2 = v2
    odd = odd
    Values = {v1, v2, odd}
    Allowed = {v1, v2}
    Errors <- MCErrors
    Agents = {"no"}
    Outages = {"not running"}
    MaxDisturbances = 2
    MaxChoices = 1
SYMMETRY MCSymmetry
CHECK_DEADLOCK FALSE
INVARIANTS TypeOK DenialsDisableControls ChoiceIsPending RowConverges IndicatorIsTrue
