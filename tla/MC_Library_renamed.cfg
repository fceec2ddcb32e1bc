SPECIFICATION Spec
CONSTANTS
    Clips = {a, b}
    Earlier = {a}
    Names = {m, n}
    Tasks = {t, u}
    Requests = {}
    Folders = {}
    Workers = {}
    None = None
    MaxUses = 2
    MaxTrouble = 0
PROPERTIES RenamesTouchTheirOwn
CHECK_DEADLOCK FALSE
