------------------------------ MODULE LineLogin ------------------------------
(***************************************************************************)
(* The end of a LINE login: the account LINE has verified is looked up in  *)
(* user_identities, a user is created for it at its first login, and the   *)
(* tokens are issued.  Logins of one account overlap: a second tab, a      *)
(* reloaded page, another device.  Rows are inserted in transactions at    *)
(* READ COMMITTED; tokens are those of the module Sessions.                *)
(***************************************************************************)
EXTENDS Naturals, FiniteSets

CONSTANTS
    Accounts,  \* LINE user ids
    Rows,      \* bound: the users rows ever inserted
    Logins,    \* bound: the logins in progress at a time
    NoAccount,
    NoRow

ASSUME LoginAssumption == NoAccount \notin Accounts /\ NoRow \notin Rows

VARIABLES
    users,     \* the users rows that are committed
    identity,  \* account -> user_identities.user_id, committed
    stage,     \* login -> where it is
    account,   \* login -> the LINE account it is of
    row,       \* login -> the user it has found or inserted
    issued     \* the pairs of an account and a user that tokens were issued for (ghost)

loginVars == <<users, identity, stage, account, row, issued>>

Stages == {"idle", "verified", "absent", "inserted", "linked", "known"}

LoginTypeOK ==
    /\ users \subseteq Rows
    /\ identity \in [Accounts -> Rows \cup {NoRow}]
    /\ stage \in [Logins -> Stages]
    /\ account \in [Logins -> Accounts \cup {NoAccount}]
    /\ row \in [Logins -> Rows \cup {NoRow}]
    /\ issued \subseteq Accounts \X Rows
    /\ \A c \in Logins :
         /\ stage[c] # "idle" => account[c] \in Accounts
         /\ stage[c] \in {"inserted", "linked", "known"} => row[c] \in Rows

LoginInit ==
    /\ users = {}
    /\ identity = [l \in Accounts |-> NoRow]
    /\ stage = [c \in Logins |-> "idle"]
    /\ account = [c \in Logins |-> NoAccount]
    /\ row = [c \in Logins |-> NoRow]
    /\ issued = {}

-----------------------------------------------------------------------------

Stage(c, p) == stage' = [stage EXCEPT ![c] = p]

LoginEnd(c) ==
    /\ Stage(c, "idle")
    /\ account' = [account EXCEPT ![c] = NoAccount]
    /\ row' = [row EXCEPT ![c] = NoRow]

\* The code is exchanged and LINE's ID token verified; a login that fails before has
\* changed nothing.
ExchangeAndVerify(c, l) ==
    /\ stage[c] = "idle"
    /\ Stage(c, "verified")
    /\ account' = [account EXCEPT ![c] = l]
    /\ UNCHANGED <<users, identity, row, issued>>

\* Mutant: an account without a row counts as known.
findUserByLineID_Always(c) ==
    /\ stage[c] = "verified"
    /\ Stage(c, "known")
    /\ row' = [row EXCEPT ![c] = identity[account[c]]]
    /\ UNCHANGED <<users, identity, account, issued>>

findUserByLineID(c) ==
    /\ stage[c] = "verified"
    /\ Stage(c, IF identity[account[c]] = NoRow THEN "absent" ELSE "known")
    /\ row' = [row EXCEPT ![c] = identity[account[c]]]
    /\ UNCHANGED <<users, identity, account, issued>>

\* The transaction begins; the row is nobody else's and not visible to anybody else.
InsertUser(c, u) ==
    /\ stage[c] = "absent"
    /\ u \notin users /\ \A x \in Logins : row[x] # u
    /\ Stage(c, "inserted")
    /\ row' = [row EXCEPT ![c] = u]
    /\ UNCHANGED <<users, identity, account, issued>>

\* Mutant: no UNIQUE (provider, provider_user_id).
UniqueHolds_NoIndex(c) == TRUE

\* The unique index: nobody has the account, and nobody is about to; the insert waits for
\* the end of a transaction that has inserted the same key.
UniqueHolds(c) ==
    /\ identity[account[c]] = NoRow
    /\ \A x \in Logins \ {c} : stage[x] = "linked" => account[x] # account[c]

InsertIdentity(c) ==
    /\ stage[c] = "inserted"
    /\ UniqueHolds(c)
    /\ Stage(c, "linked")
    /\ UNCHANGED <<users, identity, account, row, issued>>

\* Mutant: when the commit fails the login goes on with the user it has inserted.
Commit_Ignored(c) ==
    /\ stage[c] = "linked"
    /\ \/ users' = users \cup {row[c]} /\ identity' = [identity EXCEPT ![account[c]] = row[c]]
       \/ UNCHANGED <<users, identity>>
    /\ Stage(c, "known")
    /\ UNCHANGED <<account, row, issued>>

Commit(c) ==
    /\ stage[c] = "linked"
    /\ users' = users \cup {row[c]}
    /\ identity' = [identity EXCEPT ![account[c]] = row[c]]
    /\ \/ Stage(c, "known") /\ UNCHANGED <<account, row>>
       \/ LoginEnd(c)                                       \* its answer is lost
    /\ UNCHANGED issued

\* An error, the unique violation among them, a cancelled request or a crash: a
\* transaction is rolled back, and the user has to start again.
LoginAbort(c) ==
    /\ stage[c] # "idle"
    /\ LoginEnd(c)
    /\ UNCHANGED <<users, identity, issued>>

IssueTokens(c) ==
    /\ stage[c] = "known"
    /\ issued' = issued \cup {<<account[c], row[c]>>}
    /\ LoginEnd(c)
    /\ UNCHANGED <<users, identity>>

LoginNext ==
    \E c \in Logins :
        \/ \E l \in Accounts : ExchangeAndVerify(c, l)
        \/ findUserByLineID(c)
        \/ \E u \in Rows : InsertUser(c, u)
        \/ InsertIdentity(c) \/ Commit(c) \/ LoginAbort(c) \/ IssueTokens(c)

LoginSpec == LoginInit /\ [][LoginNext]_loginVars

-----------------------------------------------------------------------------

\* However the first logins of an account overlap, fail or lose their answers: all its
\* sessions are of one user, and a user's sessions are all of one account; alerts created
\* in one of them are there in the next.
OneUserPerAccount ==
    \A p, q \in issued : p[1] = q[1] <=> p[2] = q[2]

\* A login that fails leaves no user behind whom nobody can log in as.
EveryUserHasAccount == \A u \in users : \E l \in Accounts : identity[l] = u

=============================================================================
