SPECIFICATION MCSpec
SYMMETRY Symmetry
CONSTANTS
    Replicas = {r1, r2}
    Users = {u1,u2}
    Interval = 2
    Minute = 4
    OpenAt = 1
    CloseAt = 9
    Horizon = 16
    MaxFailures = 3
    FirstYear = 2021
    LastYear = 2049
    Menus = {m1, m2}
    Publishers = {p1, p2}
    JPEGs = {4, 17}
    PNGs = {24}
    NoMenu = NoMenu
INVARIANTS
    TypeOK
    AnnouncedOnce
    AnnouncedInTime
    AnswerHolds
    NoMenuForgotten
    PublishedMenuLives
    ScanInImage
CHECK_DEADLOCK FALSE
