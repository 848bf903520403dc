SPECIFICATION Spec
CONSTANTS
    Letter = {q}
    Sign = {one}
    Blank = {f1}
    ShiftKey = {lshift}
    SC_CTRL = ctrl
    SC_ALT = alt
    SC_CAPS = caps
    QueueLen = 2
    NoChar = NoChar
INVARIANTS
    NoStuckModifier
PROPERTIES
    MeantIsTyped
