SPECIFICATION Spec
CONSTANTS
    Contacts = {c1, c2}
    Npcs = {n1}
    Avatars = {a1}
    Labels = {l1}
    Players = {p1, p2}
    None = None
    Ttl = 0
    MaxHp = 1
    Catalogs <- NpcOrPlayer
    UnclassifiedEnemy = TRUE
    MaxTime = 2
    MaxHints = 2
    MaxChanges = 1
    MaxRemote = 1
    MaxRefreshes = 1
    MaxFailures = 1
    MaxUpsets = 2
INVARIANTS TypeOK OneApplicationPerContact HintNamesOneContact PendingIsCarried SelectionIsShown MirrorFollows
SYMMETRY Symmetry
CHECK_DEADLOCK FALSE
