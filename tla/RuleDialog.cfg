SPECIFICATION FairSpec
CONSTANTS
    None = None
    Glyph <- MCGlyph
    MAX_INPUT_LEN = 22
    MAX_SET_VALUES = 2
    MAX_PAREN_DEPTH = 2
    FieldInputs <- MCFieldInputs
    Pastes <- MCPastes
    Strokes <- MCStrokes
    MaxEdits = 3
    MaxPreviews = 2
CHECK_DEADLOCK FALSE
INVARIANTS TypeOK RulesSurviveRendering SubmittedIsShown NestingBounded PreviewAsksForTheAttributes PreviewIsOfTheCurrentRule
PROPERTIES SwitchKeepsTheRule PreviewEnds
