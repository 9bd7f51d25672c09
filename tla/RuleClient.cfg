SPECIFICATION Spec
CONSTANTS
    o1 = o1
    o2 = o2
    Ops = {o1, o2}
    a = a
    b = b
    Texts = {a, b}
    NewText = a
    None = None
    RuleIds <- MCRuleIds
    MaxRules = 2
    MaxEdits = 2
SYMMETRY MCSymmetry
INVARIANTS TypeOK MessagesAreTrue
PROPERTIES RemovesTheChosenRule InsertsWhereChosen
