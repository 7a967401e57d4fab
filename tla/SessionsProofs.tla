---------------------------- MODULE SessionsProofs ----------------------------
(***************************************************************************)
(* Proofs about Sessions, for every set of users, tokens and calls, and    *)
(* about LineLogin, for any number of accounts and of logins.              *)
(***************************************************************************)
EXTENDS Sessions, LineLogin, FiniteSetTheorems, TLAPS

-----------------------------------------------------------------------------
(* Type correctness.                                                       *)

\* A call that ends leaves the others, and the rows it has not written, well typed.
LEMMA EndKeepsCalls ==
    ASSUME TypeOK, NEW c \in Calls, End(c)
    PROVE  /\ phase' \in [Calls -> Phases]
           /\ who' \in [Calls -> Users \cup {NoUser}]
           /\ token' \in [Calls -> Tokens \cup {NoToken}]
           /\ targets' \in [Calls -> SUBSET Tokens]
           /\ phase'[c] = "idle" /\ targets'[c] = {}
           /\ \A d \in Calls \ {c} : /\ phase'[d] = phase[d]
                                     /\ who'[d] = who[d]
                                     /\ token'[d] = token[d]
                                     /\ targets'[d] = targets[d]
  BY DEF TypeOK, End, Move, Phases

\* A step that ends call c and writes rows without forgetting any keeps TypeOK.
LEMMA EndKeepsType ==
    ASSUME TypeOK, NEW c \in Calls, End(c),
           userStatus' \in [Users -> {"ACTIVE", "DISABLED"}],
           state' \in [Tokens -> {"unused", "live", "revoked"}],
           owner' \in [Tokens -> Users \cup {NoUser}],
           family' \in [Tokens -> Tokens \cup {NoToken}],
           \A t \in Tokens : Stored(t) => /\ Stored(t)'
                                          /\ owner'[t] = owner[t]
                                          /\ family'[t] = family[t],
           \A t \in Tokens : Stored(t)' /\ ~Stored(t) =>
              /\ owner'[t] \in Users /\ family'[t] \in Tokens
              /\ state'[family'[t]] # "unused" /\ owner'[family'[t]] = owner'[t]
    PROVE  TypeOK'
<1>1. /\ \A t \in Tokens : Stored(t)' =>
           /\ owner'[t] \in Users /\ family'[t] \in Tokens
           /\ state'[family'[t]] # "unused" /\ owner'[family'[t]] = owner'[t]
  BY DEF TypeOK, Stored
<1>2. \A d \in Calls :
        /\ phase'[d] \in {"checked"} \cup Rotating \cup Administering => who'[d] \in Users
        /\ phase'[d] \in {"reused"} \cup Rotating => token'[d] \in Tokens /\ state'[token'[d]] # "unused"
        /\ phase'[d] \in Rotating => owner'[token'[d]] = who'[d]
        /\ \A t \in targets'[d] : Stored(t)'
  <2> SUFFICES ASSUME NEW d \in Calls
               PROVE  /\ phase'[d] \in {"checked"} \cup Rotating \cup Administering => who'[d] \in Users
                      /\ phase'[d] \in {"reused"} \cup Rotating => token'[d] \in Tokens /\ state'[token'[d]] # "unused"
                      /\ phase'[d] \in Rotating => owner'[token'[d]] = who'[d]
                      /\ \A t \in targets'[d] : Stored(t)'
    OBVIOUS
  <2>1. CASE d = c
    BY <2>1, EndKeepsCalls DEF Rotating, Administering
  <2>2. CASE d # c
    BY <2>2, EndKeepsCalls DEF TypeOK, Stored
  <2> QED
    BY <2>1, <2>2
<1> QED
  BY <1>1, <1>2, EndKeepsCalls DEF TypeOK, Stored

\* A statement that only moves its call on and notes what it has read.
ReadStep(c) ==
    \/ \E u \in Users : LoginCheck(c, u)
    \/ \E t \in Tokens : RefreshFind(c, t)
    \/ \E t \in Tokens : RefreshReused(c, t)
    \/ RotateInsert(c)
    \/ RotateUpdate(c)
    \/ RevokeTokenFamily(c)
    \/ \E u \in Users : RevokeAllUserTokens(c, u)
    \/ \E admin \in Admins : RequireAdmin(c, admin)
    \/ \E u \in Users : DisableBegin(c, u)
    \/ DisableTokens(c)
    \/ \E u \in Users : EnableBegin(c, u)

\* Every reading step leaves the store and the other calls alone.
LEMMA ReadStepType ==
    ASSUME TypeOK, NEW c \in Calls, ReadStep(c)
    PROVE  TypeOK'
<1> USE AdminsAreUsers DEF TypeOK, Phases, Rotating, Administering, store, Move, Stored
<1>1. ASSUME NEW u \in Users, LoginCheck(c, u)
      PROVE  TypeOK'
  BY <1>1 DEF LoginCheck
<1>2. ASSUME NEW t \in Tokens, RefreshFind(c, t) \/ RefreshReused(c, t)
      PROVE  TypeOK'
  BY <1>2 DEF RefreshFind, RefreshReused, Live
<1>3. CASE RotateInsert(c) \/ RotateUpdate(c)
  BY <1>3 DEF RotateInsert, RotateUpdate
<1>4. CASE RevokeTokenFamily(c)
  BY <1>4 DEF RevokeTokenFamily, InFamily
<1>5. ASSUME NEW u \in Users, RevokeAllUserTokens(c, u)
      PROVE  TypeOK'
  BY <1>5 DEF RevokeAllUserTokens, Of
<1>6. ASSUME NEW admin \in Admins, RequireAdmin(c, admin)
      PROVE  TypeOK'
  BY <1>6 DEF RequireAdmin
<1>7. ASSUME NEW u \in Users, DisableBegin(c, u) \/ EnableBegin(c, u)
      PROVE  TypeOK'
  BY <1>7 DEF DisableBegin, EnableBegin
<1>8. CASE DisableTokens(c)
  BY <1>8 DEF DisableTokens, Of
<1> QED
  BY <1>1, <1>2, <1>3, <1>4, <1>5, <1>6, <1>7, <1>8 DEF ReadStep

\* A statement or commit that writes ends its call.
WriteStep(c) ==
    \/ \E t \in Tokens : CreateRefreshToken(c, t)
    \/ \E t \in Tokens : RotateCommit(c, t)
    \/ RevokeEnd(c)
    \/ DisableCommit(c)
    \/ EnableCommit(c)
    \/ Abort(c)

\* What a call writes is well typed.
LEMMA WriteStepType ==
    ASSUME TypeOK, NEW c \in Calls, WriteStep(c)
    PROVE  TypeOK'
<1> USE DEF Stored
<1>1. ASSUME NEW t \in Tokens, CreateRefreshToken(c, t)
      PROVE  TypeOK'
  <2>1. who[c] \in Users
    BY <1>1 DEF CreateRefreshToken, TypeOK
  <2> QED
    BY <1>1, <2>1, EndKeepsType DEF CreateRefreshToken, TypeOK
<1>2. ASSUME NEW t \in Tokens, RotateCommit(c, t)
      PROVE  TypeOK'
  <2>1. /\ token[c] \in Tokens /\ Stored(token[c]) /\ token[c] # t
        /\ who[c] \in Users /\ owner[token[c]] = who[c]
        /\ family[token[c]] \in Tokens /\ Stored(family[token[c]])
        /\ owner[family[token[c]]] = who[c] /\ family[token[c]] # t
    BY <1>2 DEF RotateCommit, TypeOK, Rotating
  <2> QED
    BY <1>2, <2>1, EndKeepsType DEF RotateCommit, TypeOK
<1>3. CASE RevokeEnd(c)
  BY <1>3, EndKeepsType DEF RevokeEnd, RevokeTargets, TypeOK
<1>4. CASE DisableCommit(c)
  <2>1. who[c] \in Users
    BY <1>4 DEF DisableCommit, TypeOK, Administering
  <2> QED
    BY <1>4, <2>1, EndKeepsType DEF DisableCommit, RevokeTargets, TypeOK
<1>5. CASE EnableCommit(c)
  <2>1. who[c] \in Users
    BY <1>5 DEF EnableCommit, TypeOK, Administering
  <2> QED
    BY <1>5, <2>1, EndKeepsType DEF EnableCommit, TypeOK
<1>6. CASE Abort(c)
  BY <1>6, EndKeepsType DEF Abort, store, TypeOK
<1> QED
  BY <1>1, <1>2, <1>3, <1>4, <1>5, <1>6 DEF WriteStep

\* Every step of the system is of one of the two kinds.
LEMMA StepKinds ==
    ASSUME [Next]_vars
    PROVE  (\E c \in Calls : ReadStep(c) \/ WriteStep(c)) \/ UNCHANGED vars
  BY DEF Next, AuthStep, AdminStep, ReadStep, WriteStep

\* Every reachable state is well typed: a stored token has an owner and a family
\* that began with a token of the same owner, and a call knows what its phase needs.
THEOREM TypeCorrect == Spec => []TypeOK
<1>1. Init => TypeOK
  BY DEF Init, TypeOK, Phases, Rotating, Administering, Stored
<1>2. TypeOK /\ [Next]_vars => TypeOK'
  <2> SUFFICES ASSUME TypeOK, [Next]_vars
               PROVE  TypeOK'
    OBVIOUS
  <2>1. CASE UNCHANGED vars
    BY <2>1 DEF vars, TypeOK, Stored
  <2> QED
    BY <2>1, StepKinds, ReadStepType, WriteStepType
<1> QED
  BY <1>1, <1>2, PTL DEF Spec

-----------------------------------------------------------------------------
(* At most one live token per family.                                      *)

\* While a rotation has its token's row locked, the token is live and no other
\* rotation has it.
RotationInv ==
    /\ \A c \in Calls : phase[c] = "updated" => Live(token[c])
    /\ \A c, d \in Calls :
         phase[c] = "updated" /\ phase[d] = "updated" /\ token[c] = token[d] => c = d
    /\ OneLiveTokenPerFamily

\* A reading step changes one call; it passes to "updated" only by RotateUpdate.
LEMMA ReadStepEffect ==
    ASSUME TypeOK, NEW c \in Calls, ReadStep(c)
    PROVE  /\ UNCHANGED store
           /\ \A d \in Calls \ {c} : /\ phase'[d] = phase[d]
                                     /\ who'[d] = who[d]
                                     /\ token'[d] = token[d]
                                     /\ targets'[d] = targets[d]
           /\ phase'[c] = "updated" => RotateUpdate(c) /\ token'[c] = token[c] /\ who'[c] = who[c]
<1> USE DEF TypeOK, Move
<1>1. ASSUME NEW u \in Users,
             \/ LoginCheck(c, u) \/ RevokeAllUserTokens(c, u)
             \/ DisableBegin(c, u) \/ EnableBegin(c, u)
      PROVE  /\ UNCHANGED store
             /\ \A d \in Calls \ {c} : /\ phase'[d] = phase[d]
                                       /\ who'[d] = who[d]
                                       /\ token'[d] = token[d]
                                       /\ targets'[d] = targets[d]
             /\ phase'[c] # "updated"
  BY <1>1 DEF LoginCheck, RevokeAllUserTokens, DisableBegin, EnableBegin
<1>2. ASSUME NEW t \in Tokens, RefreshFind(c, t) \/ RefreshReused(c, t)
      PROVE  /\ UNCHANGED store
             /\ \A d \in Calls \ {c} : /\ phase'[d] = phase[d]
                                       /\ who'[d] = who[d]
                                       /\ token'[d] = token[d]
                                       /\ targets'[d] = targets[d]
             /\ phase'[c] # "updated"
  BY <1>2 DEF RefreshFind, RefreshReused
<1>3. ASSUME \/ RotateInsert(c) \/ RevokeTokenFamily(c) \/ DisableTokens(c)
             \/ \E admin \in Admins : RequireAdmin(c, admin)
      PROVE  /\ UNCHANGED store
             /\ \A d \in Calls \ {c} : /\ phase'[d] = phase[d]
                                       /\ who'[d] = who[d]
                                       /\ token'[d] = token[d]
                                       /\ targets'[d] = targets[d]
             /\ phase'[c] # "updated"
  BY <1>3 DEF RotateInsert, RevokeTokenFamily, DisableTokens, RequireAdmin
<1>4. CASE RotateUpdate(c)
  BY <1>4 DEF RotateUpdate
<1> QED
  BY <1>1, <1>2, <1>3, <1>4 DEF ReadStep

\* The conditional UPDATE of the rotation takes a live token nobody else has.
LEMMA ReadStepRotation ==
    ASSUME TypeOK, RotationInv, NEW c \in Calls, ReadStep(c)
    PROVE  RotationInv'
<1>1. UNCHANGED <<state, family>>
  BY ReadStepEffect DEF store
<1>2. OneLiveTokenPerFamily'
  BY <1>1 DEF RotationInv, OneLiveTokenPerFamily, Live
<1>3. ASSUME phase'[c] = "updated"
      PROVE  /\ Live(token[c]) /\ token'[c] = token[c]
             /\ \A d \in Calls : phase[d] = "updated" => token[d] # token[c]
  <2>1. RotateUpdate(c) /\ token'[c] = token[c]
    BY <1>3, ReadStepEffect
  <2> QED
    BY <2>1 DEF RotateUpdate, TokenLocked
<1> QED
  BY <1>1, <1>2, <1>3, ReadStepEffect DEF RotationInv, Live

\* Revoking never takes a row from under a rotation, and leaves the other rows.
LEMMA RevokeKeepsRotation ==
    ASSUME TypeOK, RotationInv, NEW c \in Calls, RevokeTargets(c), End(c)
    PROVE  RotationInv'
<1>1. \A t \in Tokens : /\ state'[t] = "live" => Live(t)
                        /\ TokenLocked(t) /\ Live(t) => state'[t] = "live"
                        /\ family'[t] = family[t]
  BY DEF RevokeTargets, TypeOK, Live
<1>2. OneLiveTokenPerFamily'
  BY <1>1 DEF RotationInv, OneLiveTokenPerFamily, Live
<1>3. \A d \in Calls : phase'[d] = "updated" => phase[d] = "updated" /\ token'[d] = token[d]
  BY EndKeepsCalls
<1>4. \A d \in Calls : phase[d] = "updated" => token[d] \in Tokens /\ TokenLocked(token[d])
  BY DEF TypeOK, TokenLocked, Rotating
<1> QED
  BY <1>1, <1>2, <1>3, <1>4 DEF RotationInv, Live

\* A commit that writes keeps it: a rotation replaces the one live token.
LEMMA WriteStepRotation ==
    ASSUME TypeOK, RotationInv, NEW c \in Calls, WriteStep(c)
    PROVE  RotationInv'
<1>1. \A d \in Calls : phase'[d] = "updated" =>
         d # c /\ phase[d] = "updated" /\ token'[d] = token[d] /\ token[d] \in Tokens
  <2>1. End(c)
    BY DEF WriteStep, CreateRefreshToken, RotateCommit, RevokeEnd, DisableCommit, EnableCommit, Abort
  <2> QED
    BY <2>1, EndKeepsCalls DEF TypeOK, Rotating
<1>2. ASSUME NEW t \in Tokens, CreateRefreshToken(c, t)
      PROVE  RotationInv'
  <2>1. /\ state'[t] = "live" /\ ~Live(t) /\ family'[t] = t
        /\ \A x \in Tokens \ {t} : state'[x] = state[x] /\ family'[x] = family[x]
        /\ \A x \in Tokens : Live(x) => family[x] # t
    BY <1>2 DEF CreateRefreshToken, TypeOK, Stored, Live
  <2>2. OneLiveTokenPerFamily'
    BY <2>1 DEF RotationInv, OneLiveTokenPerFamily, Live
  <2> QED
    BY <1>1, <2>1, <2>2 DEF RotationInv, Live
<1>3. ASSUME NEW t \in Tokens, RotateCommit(c, t)
      PROVE  RotationInv'
  <2>1. PICK old \in Tokens : old = token[c]
    BY <1>3 DEF RotateCommit, TypeOK, Rotating
  <2>2. /\ phase[c] = "updated" /\ Live(old) /\ ~Live(t)
        /\ state'[t] = "live" /\ state'[old] = "revoked" /\ family'[t] = family[old]
        /\ \A x \in Tokens \ {t} : family'[x] = family[x]
        /\ \A x \in Tokens \ {t, old} : state'[x] = state[x]
    BY <1>3, <2>1 DEF RotateCommit, TypeOK, Stored, Live, RotationInv
  <2>3. OneLiveTokenPerFamily'
    BY <2>2 DEF RotationInv, OneLiveTokenPerFamily, Live
  <2>4. \A d \in Calls : phase'[d] = "updated" => token[d] # old /\ token[d] # t
    BY <1>1, <2>1, <2>2 DEF RotationInv
  <2> QED
    BY <1>1, <2>2, <2>3, <2>4 DEF RotationInv, Live
<1>4. CASE RevokeEnd(c) \/ DisableCommit(c)
  BY <1>4, RevokeKeepsRotation DEF RevokeEnd, DisableCommit
<1>5. CASE EnableCommit(c) \/ Abort(c)
  <2>1. UNCHANGED <<state, family>>
    BY <1>5 DEF EnableCommit, Abort, store
  <2> QED
    BY <1>1, <2>1 DEF RotationInv, OneLiveTokenPerFamily, Live
<1> QED
  BY <1>2, <1>3, <1>4, <1>5 DEF WriteStep

\* RotationInv is inductive.
LEMMA RotationInvariant == Spec => []RotationInv
<1>1. Init => RotationInv
  BY DEF Init, RotationInv, OneLiveTokenPerFamily, Live
<1>2. TypeOK /\ RotationInv /\ [Next]_vars => RotationInv'
  <2>1. UNCHANGED vars /\ RotationInv => RotationInv'
    BY DEF vars, RotationInv, OneLiveTokenPerFamily, Live
  <2> QED
    BY <2>1, StepKinds, ReadStepRotation, WriteStepRotation
<1> QED
  BY <1>1, <1>2, TypeCorrect, PTL DEF Spec

\* However many calls refresh with the same token and whatever is revoked meanwhile,
\* a family has at most one live token.
THEOREM RefreshesExclude == Spec => []OneLiveTokenPerFamily
<1>1. RotationInv => OneLiveTokenPerFamily
  BY DEF RotationInv
<1> QED
  BY <1>1, RotationInvariant, PTL

-----------------------------------------------------------------------------
(* An administrator remains.                                               *)

Disabling(c) == phase[c] \in {"disabling", "disabled"}

\* Under the advisory lock one status change is under way, and when it disables an
\* administrator, another one is ACTIVE and stays so.
AdminInv ==
    /\ \A c, d \in Calls :
         phase[c] \in Administering /\ phase[d] \in Administering => c = d
    /\ \A c \in Calls : Disabling(c) /\ who[c] \in Admins =>
         \E a \in Admins : a # who[c] /\ userStatus[a] = "ACTIVE"
    /\ AnAdminRemains

\* A count above one leaves another administrator.
LEMMA AnotherAdmin ==
    ASSUME NEW u, Cardinality(ActiveAdmins) > 1
    PROVE  \E a \in Admins : a # u /\ userStatus[a] = "ACTIVE"
<1>1. IsFiniteSet(ActiveAdmins)
  BY AdminsAreUsers, FS_Subset DEF ActiveAdmins
<1>2. CASE ActiveAdmins \subseteq {u}
  <2>1. Cardinality(ActiveAdmins) <= Cardinality({u})
    BY <1>2, FS_Subset, FS_Singleton
  <2>2. Cardinality({u}) = 1 /\ Cardinality(ActiveAdmins) \in Nat
    BY <1>1, FS_Singleton, FS_CardinalityType
  <2> QED
    BY <2>1, <2>2
<1>3. CASE ~(ActiveAdmins \subseteq {u})
  BY <1>3 DEF ActiveAdmins
<1> QED
  BY <1>2, <1>3

\* A reading step enters a status change only with the lock free; only DisableBegin
\* starts to disable.
LEMMA ReadStepAdministers ==
    ASSUME TypeOK, NEW c \in Calls, ReadStep(c), phase'[c] \in Administering
    PROVE  \/ /\ AdvisoryLockFree /\ phase'[c] \in {"disabling", "enabling"}
              /\ \E u \in Users : who'[c] = u /\ ~UserShared(u)
              /\ phase'[c] = "disabling" =>
                   (who'[c] \in Admins => Cardinality(ActiveAdmins) > 1)
           \/ /\ phase[c] = "disabling" /\ phase'[c] = "disabled" /\ who'[c] = who[c]
              /\ targets'[c] = {t \in Of(who[c]) : Live(t)}
<1> USE DEF TypeOK, Move, Administering
<1>1. ASSUME NEW u \in Users, DisableBegin(c, u) \/ EnableBegin(c, u)
      PROVE  /\ AdvisoryLockFree /\ phase'[c] \in {"disabling", "enabling"}
             /\ who'[c] = u /\ ~UserShared(u)
             /\ phase'[c] = "disabling" =>
                  (who'[c] \in Admins => Cardinality(ActiveAdmins) > 1)
  BY <1>1 DEF DisableBegin, EnableBegin
<1>2. CASE DisableTokens(c)
  BY <1>2 DEF DisableTokens
<1>3. ASSUME NEW u \in Users, LoginCheck(c, u) \/ RevokeAllUserTokens(c, u)
      PROVE  FALSE
  BY <1>3 DEF LoginCheck, RevokeAllUserTokens
<1>4. ASSUME NEW t \in Tokens, RefreshFind(c, t) \/ RefreshReused(c, t)
      PROVE  FALSE
  BY <1>4 DEF RefreshFind, RefreshReused
<1>5. ASSUME \/ RotateInsert(c) \/ RotateUpdate(c) \/ RevokeTokenFamily(c)
             \/ \E admin \in Admins : RequireAdmin(c, admin)
      PROVE  FALSE
  BY <1>5 DEF RotateInsert, RotateUpdate, RevokeTokenFamily, RequireAdmin
<1> QED
  BY <1>1, <1>2, <1>3, <1>4, <1>5 DEF ReadStep

\* A writing step ends its call; only the commits of SetStatus change an account.
LEMMA WriteStepEffect ==
    ASSUME TypeOK, NEW c \in Calls, WriteStep(c)
    PROVE  /\ End(c)
           /\ \/ UNCHANGED userStatus
              \/ DisableCommit(c)
              \/ EnableCommit(c)
  BY DEF WriteStep, CreateRefreshToken, RotateCommit, RevokeEnd, DisableCommit, EnableCommit, Abort, store

\* Reading steps keep AdminInv: DisableBegin is the one that has to count.
LEMMA ReadStepAdmin ==
    ASSUME TypeOK, AdminInv, NEW c \in Calls, ReadStep(c)
    PROVE  AdminInv'
<1>1. UNCHANGED userStatus
  BY ReadStepEffect DEF store
<1>2. AnAdminRemains'
  BY <1>1 DEF AdminInv, AnAdminRemains, ActiveAdmins
<1>3. ASSUME NEW a \in Calls, NEW b \in Calls,
             phase'[a] \in Administering, phase'[b] \in Administering
      PROVE  a = b
  <2>1. ASSUME NEW x \in Calls \ {c}, phase'[x] \in Administering, phase'[c] \in Administering
        PROVE  FALSE
    <3>1. phase[x] \in Administering
      BY <2>1, ReadStepEffect
    <3>2. phase[c] \in Administering
      BY <2>1, <3>1, ReadStepAdministers DEF AdvisoryLockFree, Administering
    <3> QED
      BY <2>1, <3>1, <3>2 DEF AdminInv
  <2> QED
    BY <1>3, <2>1, ReadStepEffect DEF AdminInv
<1>4. ASSUME NEW a \in Calls, Disabling(a)', who'[a] \in Admins
      PROVE  \E x \in Admins : x # who'[a] /\ userStatus[x] = "ACTIVE"
  <2>1. CASE a # c
    BY <1>4, <2>1, ReadStepEffect DEF AdminInv, Disabling
  <2>2. CASE a = c
    <3>1. phase'[c] \in Administering /\ phase'[c] # "enabling"
      BY <1>4, <2>2 DEF Disabling, Administering
    <3>2. CASE phase'[c] = "disabling"
      <4>1. Cardinality(ActiveAdmins) > 1
        BY <1>4, <2>2, <3>1, <3>2, ReadStepAdministers
      <4> QED
        BY <2>2, <4>1, AnotherAdmin
    <3>3. CASE phase'[c] # "disabling"
      <4>1. phase[c] = "disabling" /\ who'[c] = who[c]
        BY <3>1, <3>3, ReadStepAdministers
      <4> QED
        BY <1>4, <2>2, <4>1 DEF AdminInv, Disabling
    <3> QED
      BY <3>2, <3>3
  <2> QED
    BY <2>1, <2>2
<1> QED
  BY <1>1, <1>2, <1>3, <1>4 DEF AdminInv

\* Commits keep AdminInv: the administrator counted on by DisableBegin is still there.
LEMMA WriteStepAdmin ==
    ASSUME TypeOK, AdminInv, NEW c \in Calls, WriteStep(c)
    PROVE  AdminInv'
<1>1. \A d \in Calls : phase'[d] \in Administering =>
         d # c /\ phase'[d] = phase[d] /\ who'[d] = who[d]
  BY WriteStepEffect, EndKeepsCalls DEF Administering
<1>2. \A a, b \in Calls :
         phase'[a] \in Administering /\ phase'[b] \in Administering => a = b
  BY <1>1 DEF AdminInv
<1>3. CASE UNCHANGED userStatus
  BY <1>1, <1>2, <1>3 DEF AdminInv, AnAdminRemains, ActiveAdmins, Disabling, Administering
<1>4. CASE DisableCommit(c) \/ EnableCommit(c)
  <2>1. phase[c] \in Administering
    BY <1>4 DEF DisableCommit, EnableCommit, Administering
  <2>2. \A d \in Calls : ~Disabling(d)'
    BY <1>1, <2>1 DEF AdminInv, Disabling, Administering
  <2>3. CASE DisableCommit(c)
    <3>1. userStatus' = [userStatus EXCEPT ![who[c]] = "DISABLED"] /\ Disabling(c)
      BY <2>3 DEF DisableCommit, Disabling
    <3>2. \E a \in Admins : a # who[c] /\ userStatus[a] = "ACTIVE"
      BY <3>1 DEF AdminInv, AnAdminRemains, ActiveAdmins
    <3> QED
      BY <1>2, <2>2, <3>1, <3>2, AdminsAreUsers DEF AdminInv, AnAdminRemains, ActiveAdmins, TypeOK
  <2>4. CASE EnableCommit(c)
    <3>1. \A a \in Users : userStatus[a] = "ACTIVE" => userStatus'[a] = "ACTIVE"
      BY <2>4 DEF EnableCommit, TypeOK
    <3> QED
      BY <1>2, <2>2, <3>1, AdminsAreUsers DEF AdminInv, AnAdminRemains, ActiveAdmins
  <2> QED
    BY <1>4, <2>3, <2>4
<1> QED
  BY <1>3, <1>4, WriteStepEffect

\* AdminInv is inductive.
LEMMA AdminInvariant == Spec => []AdminInv
<1>1. Init => AdminInv
  BY AnAdminExists, AdminsAreUsers DEF Init, AdminInv, AnAdminRemains, ActiveAdmins, Disabling, Administering
<1>2. TypeOK /\ AdminInv /\ [Next]_vars => AdminInv'
  <2>1. UNCHANGED vars /\ AdminInv => AdminInv'
    BY DEF vars, AdminInv, AnAdminRemains, ActiveAdmins, Disabling
  <2> QED
    BY <2>1, StepKinds, ReadStepAdmin, WriteStepAdmin
<1> QED
  BY <1>1, <1>2, TypeCorrect, PTL DEF Spec

\* Administrators who disable one another at once never lock everybody out.
THEOREM AdminsRemain == Spec => []AnAdminRemains
<1>1. AdminInv => AnAdminRemains
  BY DEF AdminInv
<1> QED
  BY <1>1, AdminInvariant, PTL

-----------------------------------------------------------------------------
(* Refreshing does not outlive a deactivation.                             *)

\* A rotation past its insert and a status change of the same account exclude each
\* other; the live token a refresh has found belongs to an ACTIVE user; and the
\* snapshot a deactivation revokes has all live tokens of its user.
AccountInv ==
    /\ \A c, d \in Calls :
         phase[c] \in {"inserted", "updated"} /\ phase[d] \in Administering => who[c] # who[d]
    /\ \A c \in Calls :
         phase[c] \in Rotating /\ Live(token[c]) => userStatus[who[c]] = "ACTIVE"
    /\ \A c \in Calls, t \in Tokens :
         phase[c] = "disabled" /\ Live(t) /\ owner[t] = who[c] => t \in targets[c]
    /\ DisabledUserNotRotated

\* A reading step enters a rotation only by RefreshFind, and its insert only with
\* the account unlocked.
LEMMA ReadStepRotates ==
    ASSUME TypeOK, NEW c \in Calls, ReadStep(c), phase'[c] \in Rotating
    PROVE  \/ phase'[c] = "found" /\ userStatus[who'[c]] = "ACTIVE"
           \/ /\ phase[c] \in Rotating /\ token'[c] = token[c] /\ who'[c] = who[c]
              /\ phase[c] = "found" => ~UserLocked(who[c])
<1> USE DEF TypeOK, Move, Rotating
<1>1. ASSUME NEW t \in Tokens, RefreshFind(c, t)
      PROVE  phase'[c] = "found" /\ userStatus[who'[c]] = "ACTIVE"
  BY <1>1 DEF RefreshFind
<1>2. CASE RotateInsert(c) \/ RotateUpdate(c)
  BY <1>2 DEF RotateInsert, RotateUpdate
<1>3. ASSUME NEW u \in Users,
             \/ LoginCheck(c, u) \/ RevokeAllUserTokens(c, u)
             \/ DisableBegin(c, u) \/ EnableBegin(c, u)
      PROVE  FALSE
  BY <1>3 DEF LoginCheck, RevokeAllUserTokens, DisableBegin, EnableBegin
<1>4. ASSUME \/ \E t \in Tokens : RefreshReused(c, t)
             \/ RevokeTokenFamily(c) \/ DisableTokens(c)
             \/ \E admin \in Admins : RequireAdmin(c, admin)
      PROVE  FALSE
  BY <1>4 DEF RefreshReused, RevokeTokenFamily, DisableTokens, RequireAdmin
<1> QED
  BY <1>1, <1>2, <1>3, <1>4 DEF ReadStep

\* Reading steps keep AccountInv: the insert of a rotation and SetStatus wait for each
\* other on the user's row.
LEMMA ReadStepAccount ==
    ASSUME TypeOK, AdminInv, AccountInv, NEW c \in Calls, ReadStep(c)
    PROVE  AccountInv'
<1>1. UNCHANGED <<userStatus, state, owner, family>>
  BY ReadStepEffect DEF store
<1>2. DisabledUserNotRotated'
  BY <1>1 DEF AccountInv, DisabledUserNotRotated, Live
<1>3. ASSUME NEW a \in Calls, NEW b \in Calls,
             phase'[a] \in {"inserted", "updated"}, phase'[b] \in Administering
      PROVE  who'[a] # who'[b]
  <2>1. a # b
    BY <1>3 DEF Administering
  <2>2. CASE a # c /\ b # c
    BY <1>3, <2>2, ReadStepEffect DEF AccountInv
  <2>3. CASE a = c
    <3>1. phase[b] \in Administering /\ who'[b] = who[b]
      BY <1>3, <2>1, <2>3, ReadStepEffect
    <3>2. /\ phase[c] \in Rotating /\ who'[c] = who[c]
          /\ phase[c] = "found" => ~UserLocked(who[c])
      BY <1>3, <2>3, ReadStepRotates DEF Rotating
    <3> QED
      BY <2>3, <3>1, <3>2 DEF AccountInv, UserLocked, Rotating
  <2>4. CASE b = c
    <3>1. phase[a] \in {"inserted", "updated"} /\ who'[a] = who[a]
      BY <1>3, <2>1, <2>4, ReadStepEffect
    <3>2. \/ \E u \in Users : who'[c] = u /\ ~UserShared(u)
          \/ phase[c] \in Administering /\ who'[c] = who[c]
      BY <1>3, <2>4, ReadStepAdministers DEF Administering
    <3> QED
      BY <2>4, <3>1, <3>2 DEF AccountInv, UserShared
  <2> QED
    BY <2>2, <2>3, <2>4
<1>4. ASSUME NEW a \in Calls, phase'[a] \in Rotating, Live(token'[a])
      PROVE  userStatus[who'[a]] = "ACTIVE"
  <2>1. CASE a = c
    BY <1>4, <2>1, ReadStepRotates DEF AccountInv
  <2>2. CASE a # c
    BY <1>4, <2>2, ReadStepEffect DEF AccountInv
  <2> QED
    BY <2>1, <2>2
<1>5. ASSUME NEW a \in Calls, NEW t \in Tokens,
             phase'[a] = "disabled", Live(t), owner[t] = who'[a]
      PROVE  t \in targets'[a]
  <2>1. CASE a = c
    <3>1. who'[c] = who[c] /\ targets'[c] = {x \in Of(who[c]) : Live(x)}
      BY <1>5, <2>1, ReadStepAdministers DEF Administering
    <3> QED
      BY <1>5, <2>1, <3>1 DEF Of, Stored, Live
  <2>2. CASE a # c
    BY <1>5, <2>2, ReadStepEffect DEF AccountInv
  <2> QED
    BY <2>1, <2>2
<1> QED
  BY <1>1, <1>2, <1>3, <1>4, <1>5 DEF AccountInv, Live

\* Commits keep AccountInv: a new token is a first token or an ACTIVE user's, and a
\* deactivation revokes every live token of its user.
LEMMA WriteStepAccount ==
    ASSUME TypeOK, RotationInv, AdminInv, AccountInv, NEW c \in Calls, WriteStep(c)
    PROVE  AccountInv'
<1>1. \A d \in Calls : phase'[d] # "idle" =>
         /\ d # c /\ phase'[d] = phase[d] /\ who'[d] = who[d]
         /\ token'[d] = token[d] /\ targets'[d] = targets[d]
  BY WriteStepEffect, EndKeepsCalls
<1>2. \A a, b \in Calls :
         phase'[a] \in {"inserted", "updated"} /\ phase'[b] \in Administering => who'[a] # who'[b]
  BY <1>1 DEF AccountInv, Administering
<1>3. \A d \in Calls : phase[d] \in Rotating =>
         /\ token[d] \in Tokens /\ Stored(token[d])
         /\ owner[token[d]] = who[d] /\ who[d] \in Users
  BY DEF TypeOK, Rotating
<1>4. ASSUME UNCHANGED userStatus,
             NEW t \in Tokens, NEW u \in Users,
             userStatus[u] = "ACTIVE" \/ family'[t] = t, ~Stored(t),
             owner'[t] = u, state'[t] = "live",
             \A d \in Calls : phase[d] = "disabled" => who[d] # u,
             \A x \in Tokens \ {t} : /\ state'[x] = "live" => Live(x)
                                     /\ owner'[x] = owner[x] /\ family'[x] = family[x]
      PROVE  AccountInv'
  <2>1. \A d \in Calls :
           phase'[d] \in Rotating /\ state'[token'[d]] = "live" => userStatus'[who'[d]] = "ACTIVE"
    BY <1>1, <1>3, <1>4 DEF AccountInv, Rotating, Live
  <2>2. \A d \in Calls, x \in Tokens :
           phase'[d] = "disabled" /\ state'[x] = "live" /\ owner'[x] = who'[d] => x \in targets'[d]
    BY <1>1, <1>4 DEF AccountInv, Live
  <2>3. DisabledUserNotRotated'
    BY <1>4 DEF AccountInv, DisabledUserNotRotated, Live
  <2> QED
    BY <1>2, <2>1, <2>2, <2>3 DEF AccountInv, Live
<1>5. ASSUME NEW t \in Tokens, CreateRefreshToken(c, t)
      PROVE  AccountInv'
  <2>1. who[c] \in Users /\ \A d \in Calls : phase[d] = "disabled" => who[d] # who[c]
    BY <1>5 DEF CreateRefreshToken, TypeOK, UserLocked, Administering
  <2>2. family'[t] = t /\ owner'[t] = who[c] /\ state'[t] = "live"
    BY <1>5 DEF CreateRefreshToken, TypeOK
  <2>3. \A x \in Tokens \ {t} : /\ state'[x] = "live" => Live(x)
                                /\ owner'[x] = owner[x] /\ family'[x] = family[x]
    BY <1>5 DEF CreateRefreshToken, TypeOK, Live
  <2> QED
    BY <1>4, <1>5, <2>1, <2>2, <2>3 DEF CreateRefreshToken
<1>6. ASSUME NEW t \in Tokens, RotateCommit(c, t)
      PROVE  AccountInv'
  <2>1. PICK old \in Tokens : old = token[c]
    BY <1>3, <1>6 DEF RotateCommit, Rotating
  <2>2. /\ who[c] \in Users /\ userStatus[who[c]] = "ACTIVE"
        /\ \A d \in Calls : phase[d] = "disabled" => who[d] # who[c]
    BY <1>3, <1>6 DEF RotateCommit, Rotating, Administering, RotationInv, AccountInv
  <2>3. owner'[t] = who[c] /\ state'[t] = "live"
    BY <1>6, <2>1 DEF RotateCommit, TypeOK
  <2>4. \A x \in Tokens \ {t} : /\ state'[x] = "live" => Live(x)
                                /\ owner'[x] = owner[x] /\ family'[x] = family[x]
    BY <1>6, <2>1 DEF RotateCommit, TypeOK, Live
  <2> QED
    BY <1>4, <1>6, <2>2, <2>3, <2>4 DEF RotateCommit
<1>7. ASSUME \A x \in Tokens : state'[x] = "live" => Live(x),
             UNCHANGED <<owner, family>>,
             \A u \in Users : \/ userStatus'[u] = "ACTIVE"
                              \/ userStatus'[u] = userStatus[u]
                              \/ \A x \in Tokens : owner[x] = u => state'[x] # "live"
      PROVE  AccountInv'
  <2>1. \A d \in Calls :
           phase'[d] \in Rotating /\ state'[token'[d]] = "live" => userStatus'[who'[d]] = "ACTIVE"
    BY <1>1, <1>3, <1>7 DEF AccountInv, Rotating
  <2>2. \A d \in Calls, x \in Tokens :
           phase'[d] = "disabled" /\ state'[x] = "live" /\ owner'[x] = who'[d] => x \in targets'[d]
    BY <1>1, <1>7 DEF AccountInv
  <2>3. DisabledUserNotRotated'
    <3> SUFFICES ASSUME NEW x \in Tokens, state'[x] = "live", userStatus'[owner[x]] = "DISABLED"
                 PROVE  family[x] = x
      BY <1>7 DEF DisabledUserNotRotated, Live
    <3>1. Live(x) /\ owner[x] \in Users
      BY <1>7 DEF TypeOK, Stored, Live
    <3> QED
      BY <1>7, <3>1 DEF AccountInv, DisabledUserNotRotated
  <2> QED
    BY <1>2, <2>1, <2>2, <2>3 DEF AccountInv, Live
<1>8. CASE RevokeEnd(c)
  BY <1>7, <1>8 DEF RevokeEnd, RevokeTargets, Live
<1>9. CASE DisableCommit(c)
  <2>1. /\ \A x \in Tokens : state'[x] = "live" => Live(x) /\ x \notin targets[c]
        /\ UNCHANGED <<owner, family>>
    BY <1>9 DEF DisableCommit, RevokeTargets, TypeOK, Live
  <2>2. \A u \in Users \ {who[c]} : userStatus'[u] = userStatus[u]
    BY <1>9 DEF DisableCommit, TypeOK
  <2>3. \A x \in Tokens : owner[x] = who[c] => state'[x] # "live"
    BY <1>9, <2>1 DEF DisableCommit, AccountInv
  <2> QED
    BY <1>7, <2>1, <2>2, <2>3
<1>10. CASE EnableCommit(c)
  <2>1. \A u \in Users : userStatus'[u] = "ACTIVE" \/ userStatus'[u] = userStatus[u]
    BY <1>10 DEF EnableCommit, TypeOK
  <2> QED
    BY <1>7, <1>10, <2>1 DEF EnableCommit, Live
<1>11. CASE Abort(c)
  BY <1>7, <1>11 DEF Abort, store, Live
<1> QED
  BY <1>5, <1>6, <1>8, <1>9, <1>10, <1>11 DEF WriteStep

\* AccountInv is inductive, given the two others.
LEMMA AccountInvariant == Spec => []AccountInv
<1>1. Init => AccountInv
  BY DEF Init, AccountInv, DisabledUserNotRotated, Live, Rotating, Administering
<1>2. TypeOK /\ RotationInv /\ AdminInv /\ AccountInv /\ [Next]_vars => AccountInv'
  <2>1. UNCHANGED vars /\ AccountInv => AccountInv'
    BY DEF vars, AccountInv, DisabledUserNotRotated, Live
  <2> QED
    BY <2>1, StepKinds, ReadStepAccount, WriteStepAccount
<1> QED
  BY <1>1, <1>2, TypeCorrect, RotationInvariant, AdminInvariant, PTL DEF Spec

\* A live token of a DISABLED user is the first of its family.
THEOREM RefreshEndsWithAccount == Spec => []DisabledUserNotRotated
<1>1. AccountInv => DisabledUserNotRotated
  BY DEF AccountInv
<1> QED
  BY <1>1, AccountInvariant, PTL

-----------------------------------------------------------------------------
(* LineLogin.  The inductive invariant follows a row from its insert to    *)
(* its use: before the commit it belongs to one login alone, and the       *)
(* commit gives it to an account that has none.                            *)

\* A row that is committed belongs to exactly one account, and no other is referred to.
RowsAreLinked ==
    /\ \A l \in Accounts : identity[l] # NoRow => identity[l] \in users
    /\ \A k, l \in Accounts : identity[k] = identity[l] /\ identity[k] # NoRow => k = l
    /\ \A u \in users : \E l \in Accounts : identity[l] = u

\* A login that has inserted its row is the only one to know it, and none but the one that
\* has inserted an identity is about to give its account a row.
InsertsArePrivate ==
    \A c \in Logins :
        /\ stage[c] \in {"inserted", "linked"} =>
              row[c] \notin users /\ \A d \in Logins \ {c} : row[d] # row[c]
        /\ stage[c] = "linked" =>
              /\ identity[account[c]] = NoRow
              /\ \A d \in Logins \ {c} : stage[d] = "linked" => account[d] # account[c]

\* Who knows its user knows the one of its account, and tokens went to nobody else.
KnownIsLinked ==
    /\ \A c \in Logins : stage[c] = "known" => row[c] = identity[account[c]]
    /\ \A p \in issued : p[2] = identity[p[1]]

LoginInv == LoginTypeOK /\ RowsAreLinked /\ InsertsArePrivate /\ KnownIsLinked

-----------------------------------------------------------------------------

LEMMA InvInit == LoginInit => LoginInv
  BY LoginAssumption DEF LoginInit, LoginInv, LoginTypeOK, RowsAreLinked, InsertsArePrivate,
     KnownIsLinked, Stages

LEMMA InvExchange ==
  ASSUME LoginInv, NEW c \in Logins, NEW l \in Accounts, ExchangeAndVerify(c, l)
  PROVE  LoginInv'
  <1> USE LoginAssumption DEF ExchangeAndVerify, Stage
  <1>1. LoginTypeOK'
    BY DEF LoginInv, LoginTypeOK, Stages
  <1>2. RowsAreLinked'
    BY DEF LoginInv, RowsAreLinked
  <1>3. InsertsArePrivate'
    BY DEF LoginInv, LoginTypeOK, InsertsArePrivate
  <1>4. KnownIsLinked'
    BY DEF LoginInv, LoginTypeOK, KnownIsLinked
  <1> QED BY <1>1, <1>2, <1>3, <1>4 DEF LoginInv

LEMMA InvFind ==
  ASSUME LoginInv, NEW c \in Logins, findUserByLineID(c)
  PROVE  LoginInv'
  <1> USE LoginAssumption DEF findUserByLineID, Stage
  <1>1. LoginTypeOK'
    BY DEF LoginInv, LoginTypeOK, Stages
  <1>2. RowsAreLinked'
    BY DEF LoginInv, RowsAreLinked
  <1>3. InsertsArePrivate'
    <2>1. row'[c] = NoRow \/ row'[c] \in users
      BY DEF LoginInv, LoginTypeOK, RowsAreLinked
    <2>2. \A d \in Logins : stage[d] \in {"inserted", "linked"} => row[d] \in Rows
      BY DEF LoginInv, LoginTypeOK
    <2> QED BY <2>1, <2>2 DEF LoginInv, LoginTypeOK, InsertsArePrivate
  <1>4. KnownIsLinked'
    BY DEF LoginInv, LoginTypeOK, KnownIsLinked
  <1> QED BY <1>1, <1>2, <1>3, <1>4 DEF LoginInv

LEMMA InvInsertUser ==
  ASSUME LoginInv, NEW c \in Logins, NEW u \in Rows, InsertUser(c, u)
  PROVE  LoginInv'
  <1> USE LoginAssumption DEF InsertUser, Stage
  <1>1. LoginTypeOK'
    BY DEF LoginInv, LoginTypeOK, Stages
  <1>2. RowsAreLinked'
    BY DEF LoginInv, RowsAreLinked
  <1>3. InsertsArePrivate'
    BY DEF LoginInv, LoginTypeOK, InsertsArePrivate
  <1>4. KnownIsLinked'
    BY DEF LoginInv, LoginTypeOK, KnownIsLinked
  <1> QED BY <1>1, <1>2, <1>3, <1>4 DEF LoginInv

LEMMA InvInsertIdentity ==
  ASSUME LoginInv, NEW c \in Logins, InsertIdentity(c)
  PROVE  LoginInv'
  <1> USE LoginAssumption DEF InsertIdentity, Stage
  <1>1. LoginTypeOK'
    BY DEF LoginInv, LoginTypeOK, Stages
  <1>2. RowsAreLinked'
    BY DEF LoginInv, RowsAreLinked
  <1>3. InsertsArePrivate'
    BY DEF LoginInv, LoginTypeOK, InsertsArePrivate, UniqueHolds
  <1>4. KnownIsLinked'
    BY DEF LoginInv, LoginTypeOK, KnownIsLinked
  <1> QED BY <1>1, <1>2, <1>3, <1>4 DEF LoginInv

\* The end of a login touches what is its own.
LEMMA InvEnd ==
  ASSUME LoginInv, NEW c \in Logins, LoginEnd(c), UNCHANGED <<users, identity>>,
         issued' \subseteq issued \cup {<<account[c], row[c]>>},
         issued' # issued => stage[c] = "known"
  PROVE  LoginInv'
  <1> USE LoginAssumption DEF LoginEnd, Stage
  <1>1. LoginTypeOK'
    BY DEF LoginInv, LoginTypeOK, Stages
  <1>2. RowsAreLinked'
    BY DEF LoginInv, RowsAreLinked
  <1>3. InsertsArePrivate'
    BY DEF LoginInv, LoginTypeOK, InsertsArePrivate
  <1>4. KnownIsLinked'
    <2>1. \A p \in issued' : p[2] = identity[p[1]]
      BY DEF LoginInv, KnownIsLinked
    <2> QED BY <2>1 DEF LoginInv, LoginTypeOK, KnownIsLinked
  <1> QED BY <1>1, <1>2, <1>3, <1>4 DEF LoginInv

LEMMA InvCommit ==
  ASSUME LoginInv, NEW c \in Logins, Commit(c)
  PROVE  LoginInv'
  <1> USE LoginAssumption
  <1>1. /\ stage[c] = "linked" /\ account[c] \in Accounts /\ row[c] \in Rows
        /\ row[c] # NoRow /\ identity[account[c]] = NoRow
    BY DEF LoginInv, LoginTypeOK, InsertsArePrivate, Commit
  <1>2. /\ stage' \in [Logins -> Stages] /\ account' \in [Logins -> Accounts \cup {NoAccount}]
        /\ row' \in [Logins -> Rows \cup {NoRow}]
        /\ \A d \in Logins \ {c} :
             stage'[d] = stage[d] /\ account'[d] = account[d] /\ row'[d] = row[d]
        /\ \/ stage'[c] = "known" /\ account'[c] = account[c] /\ row'[c] = row[c]
           \/ stage'[c] = "idle" /\ row'[c] = NoRow
    BY <1>1 DEF LoginInv, LoginTypeOK, Commit, LoginEnd, Stage, Stages
  <1>3. users' = users \cup {row[c]} /\ issued' = issued
    BY DEF Commit
  <1>4. /\ identity' \in [Accounts -> Rows \cup {NoRow}] /\ identity'[account[c]] = row[c]
        /\ \A l \in Accounts \ {account[c]} : identity'[l] = identity[l]
    BY <1>1 DEF LoginInv, LoginTypeOK, Commit
  <1>5. row[c] \notin users /\ \A d \in Logins \ {c} : row[d] # row[c]
    BY <1>1 DEF LoginInv, InsertsArePrivate
  <1>6. LoginTypeOK'
    BY <1>1, <1>2, <1>3, <1>4 DEF LoginInv, LoginTypeOK
  <1>7. RowsAreLinked'
    <2>1. \A l \in Accounts : identity[l] # row[c]
      BY <1>1, <1>5 DEF LoginInv, RowsAreLinked
    <2>2. \A l \in Accounts : identity'[l] # NoRow => identity'[l] \in users'
      BY <1>3, <1>4 DEF LoginInv, RowsAreLinked
    <2>3. \A k, l \in Accounts : identity'[k] = identity'[l] /\ identity'[k] # NoRow => k = l
      BY <2>1, <1>1, <1>4 DEF LoginInv, RowsAreLinked
    <2>4. \A u \in users' : \E l \in Accounts : identity'[l] = u
      <3>1. ASSUME NEW u \in users PROVE \E l \in Accounts : identity'[l] = u
        <4>1. PICK l \in Accounts : identity[l] = u
          BY DEF LoginInv, RowsAreLinked
        <4>2. u \in Rows
          BY DEF LoginInv, LoginTypeOK
        <4> QED BY <4>1, <4>2, <1>1, <1>4
      <3> QED BY <3>1, <1>1, <1>3, <1>4
    <2> QED BY <2>2, <2>3, <2>4 DEF RowsAreLinked
  <1>8. InsertsArePrivate'
    BY <1>1, <1>2, <1>3, <1>4, <1>5 DEF LoginInv, LoginTypeOK, InsertsArePrivate
  <1>9. KnownIsLinked'
    <2>1. \A d \in Logins \ {c} : stage[d] = "known" => account[d] # account[c]
      BY <1>1 DEF LoginInv, LoginTypeOK, KnownIsLinked
    <2>2. \A p \in issued : p[1] \in Accounts \ {account[c]}
      BY <1>1 DEF LoginInv, LoginTypeOK, KnownIsLinked
    <2> QED BY <2>1, <2>2, <1>1, <1>2, <1>3, <1>4 DEF LoginInv, LoginTypeOK, KnownIsLinked
  <1> QED BY <1>6, <1>7, <1>8, <1>9 DEF LoginInv

LEMMA InvNext == LoginInv /\ [LoginNext]_loginVars => LoginInv'
  <1> SUFFICES ASSUME LoginInv, [LoginNext]_loginVars PROVE LoginInv'
    OBVIOUS
  <1>1. CASE UNCHANGED loginVars
    BY <1>1 DEF loginVars, LoginInv, LoginTypeOK, RowsAreLinked, InsertsArePrivate, KnownIsLinked
  <1>2. ASSUME NEW c \in Logins, LoginAbort(c) \/ IssueTokens(c)
        PROVE  LoginInv'
    <2>1. /\ LoginEnd(c) /\ UNCHANGED <<users, identity>>
          /\ issued' \subseteq issued \cup {<<account[c], row[c]>>}
          /\ issued' # issued => stage[c] = "known"
      BY <1>2 DEF LoginAbort, IssueTokens
    <2> QED BY <2>1, InvEnd
  <1>3. ASSUME NEW c \in Logins,
               \/ \E l \in Accounts : ExchangeAndVerify(c, l)
               \/ findUserByLineID(c)
               \/ \E u \in Rows : InsertUser(c, u)
               \/ InsertIdentity(c) \/ Commit(c)
        PROVE  LoginInv'
    BY <1>3, InvExchange, InvFind, InvInsertUser, InvInsertIdentity, InvCommit
  <1> QED BY <1>1, <1>2, <1>3 DEF LoginNext

LEMMA InvAlways == LoginSpec => []LoginInv
  BY InvInit, InvNext, PTL DEF LoginSpec

-----------------------------------------------------------------------------

\* Every reachable state is well typed.
THEOREM LoginTypeCorrect == LoginSpec => []LoginTypeOK
  <1>1. LoginInv => LoginTypeOK
    BY DEF LoginInv
  <1> QED BY <1>1, InvAlways, PTL

\* All sessions of an account are of one user, and all of a user of one account.
THEOREM AccountsHaveOneUser == LoginSpec => []OneUserPerAccount
  <1>1. LoginInv => OneUserPerAccount
    <2> SUFFICES ASSUME LoginInv, NEW p \in issued, NEW q \in issued
                 PROVE  p[1] = q[1] <=> p[2] = q[2]
      BY DEF OneUserPerAccount
    <2>1. p[1] \in Accounts /\ q[1] \in Accounts /\ p[2] # NoRow /\ q[2] # NoRow
      BY LoginAssumption DEF LoginInv, LoginTypeOK
    <2> QED BY <2>1 DEF LoginInv, KnownIsLinked, RowsAreLinked
  <1> QED BY <1>1, InvAlways, PTL

\* Every user that was created at a login has the account it was created for.
THEOREM UsersHaveAccounts == LoginSpec => []EveryUserHasAccount
  <1>1. LoginInv => EveryUserHasAccount
    BY DEF LoginInv, RowsAreLinked, EveryUserHasAccount
  <1> QED BY <1>1, InvAlways, PTL

=============================================================================
