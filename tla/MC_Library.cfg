SPECIFICATION FairSpec
CONSTANTS
    Clips = {a, b}
    Earlier = {a}
    Names = {m, n}
    Tasks = {t, u}
    Requests = {r, s}
    Folders = {f}
    Workers = {w, x}
    None = None
    MaxUses = 3
    MaxTrouble = 1
INVARIANTS FootageSurvives OneMaker NeverOutdated FoldersWerePicked
PROPERTIES RequestsAnswered RenamesSpareTheListed
CHECK_DEADLOCK FALSE
