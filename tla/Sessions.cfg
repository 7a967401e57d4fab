SPECIFICATION MCSpec
SYMMETRY Symmetry
CONSTANTS
    Users = {u1, u2}
    Admins = {u1, u2}
    Tokens = {t1, t2, t3}
    Calls = {c1, c2, c3}
    NoUser = NoUser
    NoToken = NoToken
    Accounts = {l1, l2}
    Rows = {w1, w2, w3}
    Logins = {g1, g2, g3}
    NoAccount = NoAccount
    NoRow = NoRow
INVARIANTS
    TypeOK
    OneLiveTokenPerFamily
    DisabledUserNotRotated
    AnAdminRemains
    LoginTypeOK
    OneUserPerAccount
    EveryUserHasAccount
