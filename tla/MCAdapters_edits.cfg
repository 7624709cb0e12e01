\* Two threads ask one flag of each backend while it is edited.
SPECIFICATION Spec
CONSTANTS
    Thread = {t1, t2}
    Entity = {e1, e2}
    Flag = {f}
    Value = {number, text}
    Numeric = {number}
    On = On  Off = Off  Unknown = Unknown
    Default = Default
    None = None
    Views <- MCViews
    MaxEdits = 1
SYMMETRY Symmetry
INVARIANT TypeOK
PROPERTY AnswerIsExplained
PROPERTY UnknownLeavesTheTask
