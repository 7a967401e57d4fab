------------------------------- MODULE Sessions -------------------------------
(***************************************************************************)
(* Refresh tokens and the status of accounts: AuthService on               *)
(* refresh_tokens, and the administrators' AdminUserRepository.SetStatus.  *)
(*                                                                         *)
(* Calls of the API run concurrently at READ COMMITTED.  A call is at one  *)
(* statement or lock at a time, its phase; what it has locked follows from *)
(* the phase.  An UPDATE works on the rows its snapshot shows, waits for   *)
(* those another transaction has updated, and then looks at them again:    *)
(* targets is that snapshot.  Rows inserted after it are not updated.      *)
(***************************************************************************)
EXTENDS Naturals, FiniteSets

CONSTANTS
    Users,    \* users.id
    Admins,   \* the users whose role is ADMIN
    Tokens,   \* bound: the refresh_tokens rows ever inserted
    Calls,    \* bound: the API calls in flight at once
    NoUser,   \* no user
    NoToken   \* no token

ASSUME AdminsAreUsers == Admins \subseteq Users /\ IsFiniteSet(Admins)
ASSUME AnAdminExists == Admins # {}
ASSUME NoValues == NoUser \notin Users /\ NoToken \notin Tokens

VARIABLES
    userStatus,  \* user -> users.status
    state,       \* token -> "unused" (not stored), "live" or "revoked"
    owner,       \* token -> user_id
    family,      \* token -> family_id, named by the token the family began with
    phase,       \* call -> where it is
    who,         \* call -> the user it acts for, or the administrator's target
    token,       \* call -> the refresh token it was given
    targets      \* call -> the rows of its UPDATE's snapshot

store == <<userStatus, state, owner, family>>
calls == <<phase, who, token, targets>>
vars == <<userStatus, state, owner, family, phase, who, token, targets>>

Rotating == {"found", "inserted", "updated"}
Administering == {"disabling", "disabled", "enabling"}
Phases == Rotating \cup Administering
            \cup {"idle", "checked", "reused", "revoking", "admitted"}

Live(t) == state[t] = "live"
Stored(t) == state[t] # "unused"
Of(u) == {t \in Tokens : Stored(t) /\ owner[t] = u}
InFamily(t) == {x \in Tokens : Stored(x) /\ family[x] = family[t]}
ActiveAdmins == {u \in Admins : userStatus[u] = "ACTIVE"}

TypeOK ==
    /\ userStatus \in [Users -> {"ACTIVE", "DISABLED"}]
    /\ state \in [Tokens -> {"unused", "live", "revoked"}]
    /\ owner \in [Tokens -> Users \cup {NoUser}]
    /\ family \in [Tokens -> Tokens \cup {NoToken}]
    /\ phase \in [Calls -> Phases]
    /\ who \in [Calls -> Users \cup {NoUser}]
    /\ token \in [Calls -> Tokens \cup {NoToken}]
    /\ targets \in [Calls -> SUBSET Tokens]
    /\ \A t \in Tokens : Stored(t) =>
         /\ owner[t] \in Users /\ family[t] \in Tokens
         /\ Stored(family[t]) /\ owner[family[t]] = owner[t]
    /\ \A c \in Calls :
         /\ phase[c] \in {"checked"} \cup Rotating \cup Administering => who[c] \in Users
         /\ phase[c] \in {"reused"} \cup Rotating => token[c] \in Tokens /\ Stored(token[c])
         /\ phase[c] \in Rotating => owner[token[c]] = who[c]
         /\ \A t \in targets[c] : Stored(t)

Init ==
    /\ userStatus = [u \in Users |-> "ACTIVE"]
    /\ state = [t \in Tokens |-> "unused"]
    /\ owner = [t \in Tokens |-> NoUser]
    /\ family = [t \in Tokens |-> NoToken]
    /\ phase = [c \in Calls |-> "idle"]
    /\ who = [c \in Calls |-> NoUser]
    /\ token = [c \in Calls |-> NoToken]
    /\ targets = [c \in Calls |-> {}]

-----------------------------------------------------------------------------
(* Locks.                                                                  *)

\* SELECT ... FOR UPDATE of an administrator on the user's row.  The foreign key
\* check of an insert into refresh_tokens waits for it.
UserLocked(u) == \E c \in Calls : phase[c] \in Administering /\ who[c] = u

\* The lock the foreign key check has taken on the user's row until the rotation
\* commits; FOR UPDATE waits for it.
UserShared(u) == \E c \in Calls : phase[c] \in {"inserted", "updated"} /\ who[c] = u

\* A rotation has updated the token's row and not committed.
TokenLocked(t) == \E c \in Calls : phase[c] = "updated" /\ token[c] = t

Move(c, p) == phase' = [phase EXCEPT ![c] = p]

End(c) ==
    /\ Move(c, "idle")
    /\ who' = [who EXCEPT ![c] = NoUser]
    /\ token' = [token EXCEPT ![c] = NoToken]
    /\ targets' = [targets EXCEPT ![c] = {}]

-----------------------------------------------------------------------------
(* Login: LINE or password.                                                *)

\* The status is read with the user.
LoginCheck(c, u) ==
    /\ phase[c] = "idle"
    /\ userStatus[u] = "ACTIVE"
    /\ Move(c, "checked")
    /\ who' = [who EXCEPT ![c] = u]
    /\ UNCHANGED <<token, targets>>
    /\ UNCHANGED store

\* Mutant: the column family_id has no default.
CreateRefreshToken_NoFamily(c, t) ==
    /\ phase[c] = "checked"
    /\ ~UserLocked(who[c])
    /\ ~Stored(t)
    /\ state' = [state EXCEPT ![t] = "live"]
    /\ owner' = [owner EXCEPT ![t] = who[c]]
    /\ UNCHANGED <<userStatus, family>>
    /\ End(c)

\* The first token of a family; the status is not looked at again.
CreateRefreshToken(c, t) ==
    /\ phase[c] = "checked"
    /\ ~UserLocked(who[c])
    /\ ~Stored(t)
    /\ state' = [state EXCEPT ![t] = "live"]
    /\ owner' = [owner EXCEPT ![t] = who[c]]
    /\ family' = [family EXCEPT ![t] = t]
    /\ UNCHANGED userStatus
    /\ End(c)

-----------------------------------------------------------------------------
(* Refresh.                                                                *)

\* A live token of an ACTIVE user (an expired one is refused: the call ends).
RefreshFind(c, t) ==
    /\ phase[c] = "idle"
    /\ Live(t)
    /\ userStatus[owner[t]] = "ACTIVE"
    /\ Move(c, "found")
    /\ token' = [token EXCEPT ![c] = t]
    /\ who' = [who EXCEPT ![c] = owner[t]]
    /\ UNCHANGED targets
    /\ UNCHANGED store

\* A revoked token: its whole family is to be revoked, whatever the user's status.
RefreshReused(c, t) ==
    /\ phase[c] = "idle"
    /\ state[t] = "revoked"
    /\ Move(c, "reused")
    /\ token' = [token EXCEPT ![c] = t]
    /\ UNCHANGED <<who, targets>>
    /\ UNCHANGED store

\* INSERT of the successor, not visible to others before the commit: what counts
\* until then is the lock on the user's row.
RotateInsert(c) ==
    /\ phase[c] = "found"
    /\ ~UserLocked(who[c])
    /\ Move(c, "inserted")
    /\ UNCHANGED <<who, token, targets>>
    /\ UNCHANGED store

\* Mutant: WHERE id = $1 without revoked_at IS NULL.
RotateUpdate_Always(c) ==
    /\ phase[c] = "inserted"
    /\ ~TokenLocked(token[c])
    /\ Move(c, "updated")
    /\ UNCHANGED <<who, token, targets>>
    /\ UNCHANGED store

\* UPDATE ... WHERE id = $1 AND revoked_at IS NULL; no row means ErrNotFound and a
\* rollback.
RotateUpdate(c) ==
    /\ phase[c] = "inserted"
    /\ ~TokenLocked(token[c])
    /\ Live(token[c])
    /\ Move(c, "updated")
    /\ UNCHANGED <<who, token, targets>>
    /\ UNCHANGED store

RotateCommit(c, t) ==
    /\ phase[c] = "updated"
    /\ ~Stored(t)
    /\ state' = [state EXCEPT ![token[c]] = "revoked", ![t] = "live"]
    /\ owner' = [owner EXCEPT ![t] = who[c]]
    /\ family' = [family EXCEPT ![t] = family[token[c]]]
    /\ UNCHANGED userStatus
    /\ End(c)

-----------------------------------------------------------------------------
(* Revocations: single statements.                                         *)

RevokeTokenFamily(c) ==
    /\ phase[c] = "reused"
    /\ Move(c, "revoking")
    /\ targets' = [targets EXCEPT ![c] = InFamily(token[c])]
    /\ UNCHANGED <<who, token>>
    /\ UNCHANGED store

\* Logout, with an access token that may be older than anything stored here.
RevokeAllUserTokens(c, u) ==
    /\ phase[c] = "idle"
    /\ Move(c, "revoking")
    /\ targets' = [targets EXCEPT ![c] = Of(u)]
    /\ UNCHANGED <<who, token>>
    /\ UNCHANGED store

RevokeTargets(c) ==
    /\ \A t \in targets[c] : ~TokenLocked(t)
    /\ state' = [t \in Tokens |-> IF t \in targets[c] THEN "revoked" ELSE state[t]]
    /\ UNCHANGED <<owner, family>>

RevokeEnd(c) ==
    /\ phase[c] = "revoking"
    /\ RevokeTargets(c)
    /\ UNCHANGED userStatus
    /\ End(c)

-----------------------------------------------------------------------------
(* Administrators.                                                         *)

\* RequireAdmin reads role and status before the handler runs, and never again.
RequireAdmin(c, admin) ==
    /\ phase[c] = "idle"
    /\ admin \in ActiveAdmins
    /\ Move(c, "admitted")
    /\ who' = [who EXCEPT ![c] = admin]
    /\ UNCHANGED <<token, targets>>
    /\ UNCHANGED store

\* pg_advisory_xact_lock: one status change at a time.
AdvisoryLockFree == \A c \in Calls : phase[c] \notin Administering

\* Mutant: no advisory lock.
DisableBegin_NoAdvisoryLock(c, u) ==
    /\ phase[c] = "admitted"
    /\ u # who[c]
    /\ ~UserShared(u) /\ ~UserLocked(u)
    /\ userStatus[u] = "ACTIVE"
    /\ u \in Admins => Cardinality(ActiveAdmins) > 1
    /\ Move(c, "disabling")
    /\ who' = [who EXCEPT ![c] = u]
    /\ UNCHANGED <<token, targets>>
    /\ UNCHANGED store

\* Mutant: the user is read without FOR UPDATE.
DisableBegin_NoRowLock(c, u) ==
    /\ phase[c] = "admitted"
    /\ u # who[c]
    /\ AdvisoryLockFree
    /\ userStatus[u] = "ACTIVE"
    /\ u \in Admins => Cardinality(ActiveAdmins) > 1
    /\ Move(c, "disabling")
    /\ who' = [who EXCEPT ![c] = u]
    /\ UNCHANGED <<token, targets>>
    /\ UNCHANGED store

\* SetStatus to DISABLED, up to the count of the remaining administrators: both
\* locks are held.  Administrators cannot disable themselves.
DisableBegin(c, u) ==
    /\ phase[c] = "admitted"
    /\ u # who[c]
    /\ AdvisoryLockFree
    /\ ~UserShared(u)
    /\ userStatus[u] = "ACTIVE"
    /\ u \in Admins => Cardinality(ActiveAdmins) > 1
    /\ Move(c, "disabling")
    /\ who' = [who EXCEPT ![c] = u]
    /\ UNCHANGED <<token, targets>>
    /\ UNCHANGED store

\* The UPDATE of refresh_tokens takes its snapshot.
DisableTokens(c) ==
    /\ phase[c] = "disabling"
    /\ Move(c, "disabled")
    /\ targets' = [targets EXCEPT ![c] = {t \in Of(who[c]) : Live(t)}]
    /\ UNCHANGED <<who, token>>
    /\ UNCHANGED store

DisableCommit(c) ==
    /\ phase[c] = "disabled"
    /\ RevokeTargets(c)
    /\ userStatus' = [userStatus EXCEPT ![who[c]] = "DISABLED"]
    /\ End(c)

EnableBegin(c, u) ==
    /\ phase[c] = "admitted"
    /\ AdvisoryLockFree
    /\ ~UserShared(u)
    /\ userStatus[u] = "DISABLED"
    /\ Move(c, "enabling")
    /\ who' = [who EXCEPT ![c] = u]
    /\ UNCHANGED <<token, targets>>
    /\ UNCHANGED store

EnableCommit(c) ==
    /\ phase[c] = "enabling"
    /\ userStatus' = [userStatus EXCEPT ![who[c]] = "ACTIVE"]
    /\ UNCHANGED <<state, owner, family>>
    /\ End(c)

-----------------------------------------------------------------------------

\* A call ends without effect: refused, failed, cancelled, or its process stopped.
\* Its transaction is rolled back.
Abort(c) ==
    /\ phase[c] # "idle"
    /\ End(c)
    /\ UNCHANGED store

AuthStep(c) ==
    \/ \E u \in Users : LoginCheck(c, u)
    \/ \E t \in Tokens : CreateRefreshToken(c, t)
    \/ \E t \in Tokens : RefreshFind(c, t)
    \/ \E t \in Tokens : RefreshReused(c, t)
    \/ RotateInsert(c)
    \/ RotateUpdate(c)
    \/ \E t \in Tokens : RotateCommit(c, t)
    \/ RevokeTokenFamily(c)
    \/ \E u \in Users : RevokeAllUserTokens(c, u)
    \/ RevokeEnd(c)

AdminStep(c) ==
    \/ \E admin \in Admins : RequireAdmin(c, admin)
    \/ \E u \in Users : DisableBegin(c, u)
    \/ DisableTokens(c)
    \/ DisableCommit(c)
    \/ \E u \in Users : EnableBegin(c, u)
    \/ EnableCommit(c)

Next == \E c \in Calls : AuthStep(c) \/ AdminStep(c) \/ Abort(c)

Spec == Init /\ [][Next]_vars

-----------------------------------------------------------------------------

\* A family never has two live tokens, however many refreshes present the same
\* token at once: the conditional UPDATE of the rotation lets one of them through.
OneLiveTokenPerFamily ==
    \A t1, t2 \in Tokens :
        Live(t1) /\ Live(t2) /\ family[t1] = family[t2] => t1 = t2

\* Refreshing does not outlive a deactivation: a live token of a DISABLED user was
\* issued by a login whose status check preceded it, and not by a rotation.  The
\* rotation's foreign key check and SetStatus's FOR UPDATE keep the two apart.
DisabledUserNotRotated ==
    \A t \in Tokens :
        Live(t) /\ userStatus[owner[t]] = "DISABLED" => family[t] = t

\* Administrators cannot lock each other out: one of them stays ACTIVE, although
\* two of them, each admitted while ACTIVE, may disable the other at once.
AnAdminRemains == ActiveAdmins # {}

=============================================================================
