------------------------- MODULE LoginSessionsProofs -------------------------
(***************************************************************************)
(* What LoginSessions promises, for any number of devices and logins and   *)
(* any lifetimes.                                                          *)
(***************************************************************************)
EXTENDS LoginSessions, TLAPS

\* Nothing is known of a login that has not happened.
FreshAreUnknown ==
    \A l \in Logins : signed[l] = None =>
        /\ rows[l] = None /\ ended[l] = None
        /\ Insert(l) \notin commits /\ Revoke(l) \notin commits

RowsAreSigned ==
    \A l \in Logins : rows[l] # None =>
        /\ rows[l].token = signed[l] /\ Insert(l) \notin commits
        /\ rows[l].is_active => ended[l] = None
        /\ ~rows[l].is_active => l \in left

\* A row is inserted before anything revokes it.
CommitsAreOrdered ==
    \A l \in Logins :
        /\ Insert(l) \in commits => rows[l] = None /\ ended[l] = None /\ signed[l] # None
        /\ Revoke(l) \in commits => rows[l] # None /\ l \in left

LogoutsArePlaced ==
    \A l \in left :
        \/ l \in lapsed \/ Revoke(l) \in commits
        \/ rows[l] # None /\ ~rows[l].is_active

LoginsArePlaced ==
    \A l \in Logins : signed[l] # None =>
        rows[l] # None \/ Insert(l) \in commits \/ l \in lost

HeldAreSigned ==
    \A c \in Clients : held[c] # None => held[c].refresh = signed[held[c].login]

\* The last moment a token's words were checked.
Made(access) == access.exp - AccessLife

HadRoleAt(role, t) ==
    \E i \in 1 .. Len(roles) :
        roles[i].role = role /\ (i = Len(roles) \/ roles[i + 1].since >= t)

TokensAreOfTheirTime ==
    \A c \in Clients : held[c] # None =>
        LET access == held[c].access
        IN  /\ Made(access) <= now
            /\ ended[access.login] # None
                   => Made(access) <= ended[access.login] + MaxDelay
            /\ HadRoleAt(access.role, Made(access))

RefreshesAreQuick ==
    \A c \in Clients : reply[c] # None =>
        /\ since[c] <= now /\ now <= since[c] + MaxDelay
        /\ reply[c].verdict = "granted" =>
               /\ signed[reply[c].login] # None
               /\ ended[reply[c].login] # None => ended[reply[c].login] >= since[c]
        /\ held[c] # None

SessionInv ==
    /\ FreshAreUnknown /\ RowsAreSigned /\ CommitsAreOrdered
    /\ LogoutsArePlaced /\ LoginsArePlaced

TokenInv == HeldAreSigned /\ TokensAreOfTheirTime /\ RefreshesAreQuick

IInv == TypeOK /\ SessionInv /\ TokenInv

-----------------------------------------------------------------------------
LEMMA CommitsDiffer ==
    ASSUME NEW l \in Logins, NEW m \in Logins
    PROVE  /\ Insert(l) \in Commit /\ Revoke(l) \in Commit /\ Insert(l) # Revoke(m)
           /\ (Insert(l) = Insert(m) => l = m) /\ (Revoke(l) = Revoke(m) => l = m)
BY DEF Insert, Revoke, Commit

LEMMA InitEstablishes == Init => IInv
<1> SUFFICES ASSUME Init PROVE IInv
    OBVIOUS
<1>1. PICK r \in Roles : roles = <<[role |-> r, since |-> 0]>>
    BY DEF Init
<1>2. TypeOK
    BY <1>1 DEF Init, TypeOK, OptionalRole
<1>3. SessionInv
    BY DEF Init, SessionInv, FreshAreUnknown, RowsAreSigned, CommitsAreOrdered,
           LogoutsArePlaced, LoginsArePlaced
<1>4. TokenInv
    BY DEF Init, TokenInv, HeldAreSigned, TokensAreOfTheirTime, RefreshesAreQuick
<1> QED BY <1>2, <1>3, <1>4 DEF IInv

\* The sessions are as they were.
LEMMA SessionsStay ==
    ASSUME SessionInv, UNCHANGED <<rows, commits, signed, left, lapsed, lost, ended>>
    PROVE  SessionInv'
BY DEF SessionInv, FreshAreUnknown, RowsAreSigned, CommitsAreOrdered,
       LogoutsArePlaced, LoginsArePlaced

\* The tokens are as they were.
LEMMA TokensStay ==
    ASSUME TokenInv, UNCHANGED <<now, roles, held, reply, since, signed, ended>>
    PROVE  TokenInv'
BY DEF TokenInv, HeldAreSigned, TokensAreOfTheirTime, Made, HadRoleAt,
       RefreshesAreQuick

-----------------------------------------------------------------------------
LEMMA TickKeeps == ASSUME IInv, Tick PROVE IInv'
<1>1. TypeOK'
    BY DEF IInv, TypeOK, Tick
<1>2. SessionInv'
    BY SessionsStay DEF IInv, Tick
<1>3. now \in Nat /\ now' = now + 1 /\ MaxDelay \in Nat /\ AccessLife \in Nat
    BY ConfigAssumption DEF ConfigAssumption, IInv, TypeOK, Tick
<1>4. UNCHANGED <<roles, held, reply, since, signed, ended>>
    BY DEF Tick
<1>5. HeldAreSigned'
    BY <1>4 DEF IInv, TokenInv, HeldAreSigned
<1>6. TokensAreOfTheirTime'
    <2> SUFFICES ASSUME NEW c \in Clients, held[c] # None
                 PROVE  Made(held[c].access) <= now'
        BY <1>4 DEF IInv, TokenInv, TokensAreOfTheirTime, Made, HadRoleAt
    <2>1. Made(held[c].access) <= now /\ Made(held[c].access) \in Int
        BY <1>3 DEF IInv, TypeOK, TokenInv, TokensAreOfTheirTime, Made, Tokens, AccessToken
    <2> QED BY <1>3, <2>1
<1>7. RefreshesAreQuick'
    <2> SUFFICES ASSUME NEW c \in Clients, reply[c] # None
                 PROVE  since[c] <= now' /\ now' <= since[c] + MaxDelay
        BY <1>4 DEF IInv, TokenInv, RefreshesAreQuick
    <2>1. since[c] \in Nat /\ since[c] <= now /\ now - since[c] < MaxDelay
        BY DEF IInv, TypeOK, TokenInv, RefreshesAreQuick, Tick
    <2> QED BY <1>3, <2>1
<1> QED BY <1>1, <1>2, <1>5, <1>6, <1>7 DEF IInv, TokenInv

\* A new role leaves the one before in the history.
LEMMA RoleChangesKeep ==
    ASSUME IInv, NEW r \in OptionalRole, RoleChanges(r)
    PROVE  IInv'
<1>1. /\ now \in Nat /\ roles \in Seq([role : OptionalRole, since : Nat])
      /\ roles' = Append(roles, [role |-> r, since |-> now])
    BY DEF IInv, TypeOK, RoleChanges
<1>2. TypeOK'
    BY <1>1 DEF IInv, TypeOK, RoleChanges
<1>3. SessionInv'
    BY SessionsStay DEF IInv, RoleChanges
<1>4. UNCHANGED <<now, held, reply, since, signed, ended>>
    BY DEF RoleChanges
<1>5. ASSUME NEW role \in Roles, NEW t \in Int, t <= now, HadRoleAt(role, t)
      PROVE  HadRoleAt(role, t)'
    <2>1. PICK i \in 1 .. Len(roles) :
              roles[i].role = role /\ (i = Len(roles) \/ roles[i + 1].since >= t)
        BY <1>5 DEF HadRoleAt
    <2>2. /\ i \in 1 .. Len(roles') /\ roles'[i] = roles[i]
          /\ i # Len(roles) => i + 1 \in 1 .. Len(roles) /\ roles'[i + 1] = roles[i + 1]
          /\ i = Len(roles) => roles'[i + 1] = [role |-> r, since |-> now]
        BY <1>1
    <2>3. roles'[i + 1].since >= t
        BY <1>5, <2>1, <2>2
    <2> QED BY <2>1, <2>2, <2>3 DEF HadRoleAt
<1>6. TokensAreOfTheirTime'
    <2> SUFFICES ASSUME NEW c \in Clients, held[c] # None
                 PROVE  HadRoleAt(held[c].access.role, Made(held[c].access))'
        BY <1>4 DEF IInv, TokenInv, TokensAreOfTheirTime, Made
    <2>1. held[c].access.role \in Roles /\ Made(held[c].access) \in Int
        BY ConfigAssumption
           DEF ConfigAssumption, IInv, TypeOK, Tokens, AccessToken, Made
    <2>2. Made(held[c].access) <= now /\ HadRoleAt(held[c].access.role, Made(held[c].access))
        BY DEF IInv, TokenInv, TokensAreOfTheirTime
    <2>3. Made(held[c].access)' = Made(held[c].access)
        BY <1>4 DEF Made
    <2>4. PICK role \in Roles, t \in Int :
              role = held[c].access.role /\ t = Made(held[c].access)
        BY <2>1
    <2>5. HadRoleAt(role, t)'
        BY <1>5, <2>2, <2>4
    <2>6. role = held'[c].access.role /\ t = Made(held[c].access)'
        BY <1>4, <2>3, <2>4
    <2> QED BY <2>5, <2>6 DEF HadRoleAt
<1>7. HeldAreSigned' /\ RefreshesAreQuick'
    BY <1>4 DEF IInv, TokenInv, HeldAreSigned, RefreshesAreQuick
<1> QED BY <1>2, <1>3, <1>6, <1>7 DEF IInv, TokenInv

-----------------------------------------------------------------------------
LEMMA Element ==
    ASSUME NEW S, NEW s \in Seq(S), NEW i \in 1 .. Len(s)
    PROVE  s[i] \in S
OBVIOUS

\* The role a token is made with is the user's at that moment.
LEMMA RoleIsHad ==
    ASSUME TypeOK, NEW t \in Int
    PROVE  HadRoleAt(Role, t)
<1>1. Len(roles) \in 1 .. Len(roles)
    BY DEF TypeOK
<1>2. roles[Len(roles)].role = Role
    BY DEF Role, Last
<1> QED BY <1>1, <1>2 DEF HadRoleAt

LEMMA RoleType == TypeOK => Role \in OptionalRole
<1> SUFFICES ASSUME TypeOK PROVE Role \in OptionalRole
    OBVIOUS
<1>1. Len(roles) \in 1 .. Len(roles) /\ roles \in Seq([role : OptionalRole, since : Nat])
    BY DEF TypeOK
<1>2. roles[Len(roles)] \in [role : OptionalRole, since : Nat]
    BY <1>1, Element
<1> QED BY <1>2 DEF Role, Last

\* A device is given an access token of this moment.
LEMMA NewTokenKeeps ==
    ASSUME IInv, NEW c \in Clients, NEW l \in Logins, Role # None,
           ended[l] # None => now <= ended[l] + MaxDelay,
           held' = [held EXCEPT ![c] = held'[c]],
           held'[c] \in Tokens, held'[c].access = NewAccess(l, Role),
           UNCHANGED <<now, roles, ended>>
    PROVE  TokensAreOfTheirTime'
<1>1. now \in Nat /\ AccessLife \in Nat /\ MaxDelay \in Nat
    BY ConfigAssumption DEF ConfigAssumption, IInv, TypeOK
<1>2. ASSUME NEW d \in Clients \ {c} PROVE held'[d] = held[d]
    BY <1>2 DEF IInv, TypeOK
<1>3. Made(held'[c].access) = now /\ held'[c].access.login = l /\ held'[c].access.role = Role
    BY <1>1 DEF Made, NewAccess
<1>4. HadRoleAt(Role, now)
    BY <1>1, RoleIsHad DEF IInv
<1> QED BY <1>1, <1>2, <1>3, <1>4
        DEF IInv, TokenInv, TokensAreOfTheirTime, Made, HadRoleAt

LEMMA LoginKeeps ==
    ASSUME IInv, NEW c \in Clients, NEW l \in Logins, Login(c, l)
    PROVE  IInv'
<1>1. /\ signed[l] = None /\ Role # None /\ reply[c] = None
      /\ held' = [held EXCEPT ![c] = [login |-> l, refresh |-> now,
                                      access |-> NewAccess(l, Role)]]
      /\ signed' = [signed EXCEPT ![l] = now]
      /\ commits' = commits \cup {Insert(l)}
      /\ UNCHANGED <<now, rows, roles, reply, since, left, lapsed, lost, ended>>
    BY DEF Login
<1>2. /\ now \in Nat /\ now # None /\ AccessLife \in Nat /\ Role \in Roles
      /\ now + AccessLife \in Int
    BY <1>1, RoleType, ConfigAssumption DEF ConfigAssumption, IInv, TypeOK, OptionalRole
<1>3. /\ held'[c] = [login |-> l, refresh |-> now, access |-> NewAccess(l, Role)]
      /\ held'[c] \in Tokens
    BY <1>1, <1>2 DEF IInv, TypeOK, Tokens, AccessToken, NewAccess
<1>4. Insert(l) \in Commit
    BY CommitsDiffer
<1>5. TypeOK'
    BY <1>1, <1>2, <1>3, <1>4 DEF IInv, TypeOK
<1>6. rows[l] = None /\ ended[l] = None /\ Insert(l) \notin commits /\ Revoke(l) \notin commits
    BY <1>1 DEF IInv, SessionInv, FreshAreUnknown
<1>7. /\ signed'[l] = now
      /\ \A m \in Logins \ {l} : signed'[m] = signed[m]
    BY <1>1 DEF IInv, TypeOK
<1>8. \A m \in Logins : /\ m # l => (Insert(m) \in commits' <=> Insert(m) \in commits)
                        /\ Revoke(m) \in commits' <=> Revoke(m) \in commits
                        /\ Insert(l) \in commits'
    BY <1>1, CommitsDiffer
<1>9. SessionInv'
    <2>1. FreshAreUnknown' /\ RowsAreSigned'
        BY <1>1, <1>2, <1>6, <1>7, <1>8
           DEF IInv, SessionInv, FreshAreUnknown, RowsAreSigned
    <2>2. CommitsAreOrdered' /\ LoginsArePlaced'
        BY <1>1, <1>2, <1>6, <1>7, <1>8
           DEF IInv, SessionInv, CommitsAreOrdered, LoginsArePlaced
    <2>3. LogoutsArePlaced'
        BY <1>1 DEF IInv, SessionInv, LogoutsArePlaced
    <2> QED BY <2>1, <2>2, <2>3 DEF SessionInv
<1>10. TokensAreOfTheirTime'
    <2>1. held' = [held EXCEPT ![c] = held'[c]]
        BY <1>1, <1>3
    <2>2. held'[c].access = NewAccess(l, Role)
        BY <1>3
    <2> QED BY <1>1, <1>3, <1>6, <2>1, <2>2, NewTokenKeeps
<1>11. HeldAreSigned'
    <2> SUFFICES ASSUME NEW d \in Clients, held'[d] # None
                 PROVE  held'[d].refresh = signed'[held'[d].login]
        BY DEF HeldAreSigned
    <2>1. CASE d = c
        BY <2>1, <1>3, <1>7
    <2>2. CASE d # c
        <3>1. held'[d] = held[d] /\ held[d] \in Tokens
            BY <1>1, <2>2 DEF IInv, TypeOK
        <3>2. held[d].refresh = signed[held[d].login] /\ held[d].refresh \in Nat
              /\ held[d].login \in Logins
            BY <3>1 DEF IInv, TokenInv, HeldAreSigned, Tokens
        <3>3. held[d].login # l
            BY <1>1, <3>2, ConfigAssumption DEF ConfigAssumption
        <3> QED BY <3>1, <3>2, <3>3, <1>7
    <2> QED BY <2>1, <2>2
<1>12. RefreshesAreQuick'
    <2> SUFFICES ASSUME NEW d \in Clients, reply[d] # None
                 PROVE  /\ held'[d] # None
                        /\ reply[d].verdict = "granted" => signed'[reply[d].login] # None
        BY <1>1 DEF IInv, TokenInv, RefreshesAreQuick
    <2>1. d # c /\ held'[d] = held[d]
        BY <1>1 DEF IInv, TypeOK
    <2>2. reply[d].verdict = "granted" => reply[d].login \in Logins
        BY DEF IInv, TypeOK, Granted, Refused
    <2> QED BY <2>1, <2>2, <1>2, <1>7 DEF IInv, TokenInv, RefreshesAreQuick
<1> QED BY <1>5, <1>9, <1>10, <1>11, <1>12 DEF IInv, TokenInv

LEMMA LogoutKeeps ==
    ASSUME IInv, NEW c \in Clients, Logout(c)
    PROVE  IInv'
<1> DEFINE l == held[c].access.login
<1>1. l \in Logins
    BY DEF IInv, TypeOK, Logout, LoggedIn, Tokens, AccessToken
<1>2. /\ left' = left \cup {l}
      /\ UNCHANGED <<now, rows, roles, held, reply, since, signed, lost, ended>>
      /\ \/ rows[l] # None /\ commits' = commits \cup {Revoke(l)} /\ lapsed' = lapsed
         \/ rows[l] = None /\ commits' = commits /\ lapsed' = lapsed \cup {l}
    BY DEF Logout
<1>3. TypeOK'
    BY <1>1, <1>2, CommitsDiffer DEF IInv, TypeOK
<1>4. TokenInv'
    BY <1>2, TokensStay DEF IInv
<1>5. \A m \in Logins : /\ Insert(m) \in commits' <=> Insert(m) \in commits
                        /\ m # l => (Revoke(m) \in commits' <=> Revoke(m) \in commits)
                        /\ Revoke(l) \in commits' => Revoke(l) \in commits \/ rows[l] # None
    BY <1>1, <1>2, CommitsDiffer
<1>6. signed[l] = None => rows[l] = None /\ Revoke(l) \notin commits
    BY <1>1 DEF IInv, SessionInv, FreshAreUnknown
<1>7. FreshAreUnknown' /\ RowsAreSigned' /\ CommitsAreOrdered' /\ LoginsArePlaced'
    BY <1>1, <1>2, <1>5, <1>6
       DEF IInv, SessionInv, FreshAreUnknown, RowsAreSigned, CommitsAreOrdered,
           LoginsArePlaced
<1>8. LogoutsArePlaced'
    BY <1>1, <1>2 DEF IInv, SessionInv, LogoutsArePlaced
<1> QED BY <1>3, <1>4, <1>7, <1>8 DEF IInv, SessionInv

-----------------------------------------------------------------------------
LEMMA InsertCommits ==
    ASSUME IInv, NEW l \in Logins, Insert(l) \in commits, Commits(Insert(l))
    PROVE  IInv'
<1>1. /\ commits' = commits \ {Insert(l)}
      /\ rows' = [rows EXCEPT ![l] = [token |-> signed[l], is_active |-> TRUE]]
      /\ UNCHANGED <<now, roles, held, reply, since, signed, left, lapsed, lost, ended>>
    BY DEF Commits, Insert
<1>2. /\ signed[l] \in Nat /\ rows[l] = None /\ ended[l] = None
      /\ Revoke(l) \notin commits
    BY DEF IInv, TypeOK, SessionInv, CommitsAreOrdered
<1>3. /\ rows'[l] \in Row /\ rows'[l] # None
      /\ rows'[l].token = signed[l] /\ rows'[l].is_active
      /\ \A m \in Logins \ {l} : rows'[m] = rows[m]
    <2>1. /\ rows'[l] = [token |-> signed[l], is_active |-> TRUE]
          /\ \A m \in Logins \ {l} : rows'[m] = rows[m]
        BY <1>1 DEF IInv, TypeOK
    <2>2. rows'[l] \in Row
        BY <1>2, <2>1 DEF Row
    <2>3. rows'[l].token = signed[l] /\ rows'[l].is_active
        BY <2>1
    <2> QED BY <2>1, <2>2, <2>3, ConfigAssumption DEF ConfigAssumption
<1>4. TypeOK'
    BY <1>1, <1>3 DEF IInv, TypeOK
<1>5. TokenInv'
    BY <1>1, TokensStay DEF IInv
<1>6. \A m \in Logins : /\ m # l => (Insert(m) \in commits' <=> Insert(m) \in commits)
                        /\ Revoke(m) \in commits' <=> Revoke(m) \in commits
                        /\ Insert(l) \notin commits'
    BY <1>1, CommitsDiffer
<1>7. FreshAreUnknown' /\ CommitsAreOrdered' /\ LoginsArePlaced'
    BY <1>1, <1>2, <1>3, <1>6, ConfigAssumption
       DEF ConfigAssumption, IInv, SessionInv, FreshAreUnknown, CommitsAreOrdered,
           LoginsArePlaced
<1>8. RowsAreSigned'
    BY <1>1, <1>2, <1>3, <1>6 DEF IInv, SessionInv, RowsAreSigned
<1>9. LogoutsArePlaced'
    <2> SUFFICES ASSUME NEW m \in left
                 PROVE  m \in lapsed \/ Revoke(m) \in commits' \/ (rows'[m] # None /\ ~rows'[m].is_active)
        BY <1>1 DEF LogoutsArePlaced
    <2>1. m \in Logins
        BY DEF IInv, TypeOK
    <2>2. m \in lapsed \/ Revoke(m) \in commits \/ (rows[m] # None /\ ~rows[m].is_active)
        BY DEF IInv, SessionInv, LogoutsArePlaced
    <2> QED BY <1>2, <1>3, <1>6, <2>1, <2>2
<1> QED BY <1>4, <1>5, <1>7, <1>8, <1>9 DEF IInv, SessionInv

LEMMA RevokeCommits ==
    ASSUME IInv, NEW l \in Logins, Revoke(l) \in commits, Commits(Revoke(l))
    PROVE  IInv'
<1>1. /\ commits' = commits \ {Revoke(l)}
      /\ rows' = [rows EXCEPT ![l].is_active = FALSE]
      /\ ended' = [ended EXCEPT ![l] = IF @ = None THEN now ELSE @]
      /\ UNCHANGED <<now, roles, held, reply, since, signed, left, lapsed, lost>>
    BY DEF Commits, Revoke
<1>2. rows[l] # None /\ l \in left /\ Insert(l) \notin commits
    BY DEF IInv, SessionInv, CommitsAreOrdered, RowsAreSigned
<1>3. rows[l] \in Row
    BY <1>2 DEF IInv, TypeOK
<1>4. /\ rows'[l] = [rows[l] EXCEPT !.is_active = FALSE] /\ rows'[l] \in Row
      /\ rows'[l] # None /\ rows'[l].token = rows[l].token /\ ~rows'[l].is_active
      /\ \A m \in Logins \ {l} : rows'[m] = rows[m]
    BY <1>1, <1>3, ConfigAssumption DEF ConfigAssumption, IInv, TypeOK, Row
<1>5. /\ now \in Nat /\ now # None
      /\ ended[l] = None => ended'[l] = now
      /\ ended[l] # None => ended'[l] = ended[l]
      /\ \A m \in Logins \ {l} : ended'[m] = ended[m]
    BY <1>1, ConfigAssumption DEF ConfigAssumption, IInv, TypeOK
<1>6. TypeOK'
    BY <1>1, <1>4 DEF IInv, TypeOK
<1>7. \A m \in Logins : /\ m # l => (Revoke(m) \in commits' <=> Revoke(m) \in commits)
                        /\ Insert(m) \in commits' <=> Insert(m) \in commits
                        /\ Revoke(l) \notin commits'
    BY <1>1, CommitsDiffer
<1>8. signed[l] # None
    BY <1>2 DEF IInv, SessionInv, FreshAreUnknown
<1>9. FreshAreUnknown' /\ CommitsAreOrdered' /\ LoginsArePlaced'
    BY <1>1, <1>2, <1>4, <1>5, <1>7, <1>8
       DEF IInv, SessionInv, FreshAreUnknown, CommitsAreOrdered, LoginsArePlaced
<1>10. RowsAreSigned'
    BY <1>1, <1>2, <1>4, <1>5, <1>7 DEF IInv, SessionInv, RowsAreSigned
<1>11. LogoutsArePlaced'
    <2> SUFFICES ASSUME NEW m \in left
                 PROVE  m \in lapsed \/ Revoke(m) \in commits' \/ (rows'[m] # None /\ ~rows'[m].is_active)
        BY <1>1 DEF LogoutsArePlaced
    <2>1. m \in Logins
        BY DEF IInv, TypeOK
    <2>2. m \in lapsed \/ Revoke(m) \in commits \/ (rows[m] # None /\ ~rows[m].is_active)
        BY DEF IInv, SessionInv, LogoutsArePlaced
    <2> QED BY <1>4, <1>7, <2>1, <2>2
<1>12. HeldAreSigned'
    BY <1>1 DEF IInv, TokenInv, HeldAreSigned
<1>13. TokensAreOfTheirTime'
    <2> SUFFICES ASSUME NEW c \in Clients, held[c] # None,
                        NEW m \in Logins, m = held[c].access.login, ended'[m] # None
                 PROVE  Made(held[c].access) <= ended'[m] + MaxDelay
        <3>1. \A c \in Clients : held[c] # None => held[c].access.login \in Logins
            BY DEF IInv, TypeOK, Tokens, AccessToken
        <3> QED BY <1>1, <3>1 DEF IInv, TokenInv, TokensAreOfTheirTime, Made, HadRoleAt
    <2>1. /\ Made(held[c].access) \in Int /\ Made(held[c].access) <= now /\ MaxDelay \in Nat
          /\ ended[m] # None => Made(held[c].access) <= ended[m] + MaxDelay
        BY ConfigAssumption
           DEF ConfigAssumption, IInv, TypeOK, TokenInv, TokensAreOfTheirTime, Made,
               Tokens, AccessToken
    <2>2. CASE ended[m] # None
        BY <2>1, <2>2, <1>5
    <2>3. CASE ended[m] = None
        <3>1. ended'[m] = now
            BY <2>3, <1>5
        <3> QED BY <3>1, <2>1, <1>5
    <2> QED BY <2>2, <2>3
<1>14. RefreshesAreQuick'
    <2> SUFFICES ASSUME NEW c \in Clients, reply[c] # None, reply[c].verdict = "granted",
                        NEW m \in Logins, m = reply[c].login, ended'[m] # None
                 PROVE  ended'[m] >= since[c]
        <3>1. \A c \in Clients : (reply[c] # None /\ reply[c].verdict = "granted")
                                     => reply[c].login \in Logins
            BY DEF IInv, TypeOK, Granted, Refused
        <3> QED BY <1>1, <3>1 DEF IInv, TokenInv, RefreshesAreQuick
    <2>1. since[c] \in Nat /\ since[c] <= now /\ (ended[m] # None => ended[m] >= since[c])
        BY DEF IInv, TypeOK, TokenInv, RefreshesAreQuick
    <2>2. CASE ended[m] # None
        BY <2>1, <2>2, <1>5
    <2>3. CASE ended[m] = None
        <3>1. ended'[m] = now
            BY <2>3, <1>5
        <3> QED BY <3>1, <2>1, <1>5
    <2> QED BY <2>2, <2>3
<1> QED BY <1>6, <1>9, <1>10, <1>11, <1>12, <1>13, <1>14 DEF IInv, SessionInv, TokenInv

LEMMA CommitFailsKeeps ==
    ASSUME IInv, NEW t \in commits, CommitFails(t)
    PROVE  IInv'
<1>1. PICK l \in Logins : t = Insert(l) \/ t = Revoke(l)
    BY DEF IInv, TypeOK, Commit, Insert, Revoke
<1>2. /\ commits' = commits \ {t}
      /\ UNCHANGED <<now, rows, roles, held, reply, since, signed, left, ended>>
      /\ t = Insert(l) => lost' = lost \cup {l} /\ lapsed' = lapsed
      /\ t = Revoke(l) => lapsed' = lapsed \cup {l} /\ lost' = lost
    BY <1>1 DEF CommitFails, Insert, Revoke
<1>3. TypeOK'
    BY <1>1, <1>2 DEF IInv, TypeOK
<1>4. TokenInv'
    BY <1>2, TokensStay DEF IInv
<1>5. /\ \A m \in Logins : /\ Insert(m) \in commits' => Insert(m) \in commits
                           /\ Revoke(m) \in commits' => Revoke(m) \in commits
      /\ \A m \in Logins : Insert(m) \in commits => Insert(m) \in commits' \/ m \in lost'
      /\ \A m \in Logins : Revoke(m) \in commits => Revoke(m) \in commits' \/ m \in lapsed'
      /\ lost \subseteq lost' /\ lapsed \subseteq lapsed'
    BY <1>1, <1>2, CommitsDiffer
<1>6. FreshAreUnknown' /\ RowsAreSigned' /\ CommitsAreOrdered' /\ LoginsArePlaced'
    BY <1>2, <1>5 DEF IInv, SessionInv, FreshAreUnknown, RowsAreSigned,
                      CommitsAreOrdered, LoginsArePlaced
<1>7. LogoutsArePlaced'
    <2>1. left \subseteq Logins
        BY DEF IInv, TypeOK
    <2> QED BY <1>2, <1>5, <2>1 DEF IInv, SessionInv, LogoutsArePlaced
<1> QED BY <1>3, <1>4, <1>6, <1>7 DEF IInv, SessionInv

-----------------------------------------------------------------------------
\* What the session query may be answered.
LEMMA AskForms ==
    ASSUME IInv, NEW c \in Clients, AskRefresh(c)
    PROVE  /\ held[c] # None /\ reply[c] = None
           /\ UNCHANGED <<now, rows, commits, roles, held, signed, left, lapsed, lost, ended>>
           /\ since' = [since EXCEPT ![c] = now]
           /\ reply' = [reply EXCEPT ![c] = reply'[c]]
           /\ \/ /\ reply'[c] = [verdict |-> "expired", login |-> None]
                 /\ now > held[c].refresh + RefreshLife
              \/ /\ reply'[c] = [verdict |-> "unknown", login |-> None]
                 /\ SessionsOf(held[c].refresh) = {}
              \/ /\ reply'[c] = [verdict |-> "ambiguous", login |-> None]
                 /\ \E l, m \in SessionsOf(held[c].refresh) : l # m
              \/ \E l \in SessionsOf(held[c].refresh) :
                    /\ reply'[c] = [verdict |-> "granted", login |-> l]
                    /\ now <= held[c].refresh + RefreshLife
BY DEF IInv, TypeOK, AskRefresh

LEMMA AskKeeps ==
    ASSUME IInv, NEW c \in Clients, AskRefresh(c)
    PROVE  IInv'
<1>1. /\ held[c] # None /\ now \in Nat /\ MaxDelay \in Nat
      /\ UNCHANGED <<now, rows, commits, roles, held, signed, left, lapsed, lost, ended>>
      /\ since' = [since EXCEPT ![c] = now]
      /\ reply' = [reply EXCEPT ![c] = reply'[c]]
    BY AskForms, ConfigAssumption DEF ConfigAssumption, IInv, TypeOK
<1>0. \/ /\ reply'[c] \in Refused /\ reply'[c].verdict # "granted"
      \/ \E l \in SessionsOf(held[c].refresh) :
            reply'[c] = [verdict |-> "granted", login |-> l]
    BY AskForms DEF Refused
<1>2. /\ reply'[c].verdict = "granted" =>
             /\ reply'[c].login \in Logins /\ rows[reply'[c].login] # None
             /\ rows[reply'[c].login].is_active
      /\ reply'[c] \in Granted \cup Refused
    <2>1. CASE reply'[c] \in Refused /\ reply'[c].verdict # "granted"
        BY <2>1
    <2>2. ASSUME NEW l \in SessionsOf(held[c].refresh),
                 reply'[c] = [verdict |-> "granted", login |-> l]
          PROVE  <1>2!1 /\ <1>2!2
        <3>1. l \in Logins /\ rows[l] # None /\ rows[l].is_active
            BY DEF SessionsOf
        <3>2. reply'[c].login = l /\ reply'[c].verdict = "granted"
            BY <2>2
        <3>3. reply'[c] \in Granted
            BY <2>2, <3>1 DEF Granted
        <3> QED BY <3>1, <3>2, <3>3
    <2> QED BY <1>0, <2>1, <2>2
<1>3. reply'[c] \in Granted \cup Refused
    BY <1>2
<1>4. TypeOK'
    BY <1>1, <1>3 DEF IInv, TypeOK
<1>5. SessionInv'
    BY <1>1, SessionsStay DEF IInv
<1>6. HeldAreSigned' /\ TokensAreOfTheirTime'
    BY <1>1 DEF IInv, TokenInv, HeldAreSigned, TokensAreOfTheirTime, Made, HadRoleAt
<1>7. RefreshesAreQuick'
    <2>1. since'[c] = now /\ now <= now + MaxDelay
        BY <1>1 DEF IInv, TypeOK
    <2>2. reply'[c].verdict = "granted" =>
              signed[reply'[c].login] # None /\ ended[reply'[c].login] = None
        BY <1>2 DEF IInv, SessionInv, RowsAreSigned, FreshAreUnknown
    <2>3. \A d \in Clients \ {c} : since'[d] = since[d] /\ reply'[d] = reply[d]
        BY <1>1 DEF IInv, TypeOK
    <2> QED BY <1>1, <2>1, <2>2, <2>3 DEF IInv, TokenInv, RefreshesAreQuick
<1> QED BY <1>4, <1>5, <1>6, <1>7 DEF IInv, TokenInv

LEMMA AnswerKeeps ==
    ASSUME IInv, NEW c \in Clients, AnswerRefresh(c)
    PROVE  IInv'
<1>1. /\ reply[c] # None /\ reply' = [reply EXCEPT ![c] = None]
      /\ since' = [since EXCEPT ![c] = 0]
      /\ UNCHANGED <<now, rows, commits, roles, signed, left, lapsed, lost, ended>>
      /\ \/ held' = held
         \/ /\ reply[c].verdict = "granted" /\ Role # None
            /\ held' = [held EXCEPT ![c].access = NewAccess(reply[c].login, Role)]
    BY DEF AnswerRefresh, RoleFor
<1>2. SessionInv'
    BY <1>1, SessionsStay DEF IInv
<1>3. RefreshesAreQuick' /\ (held' = held => TokenInv')
    <2>1. reply'[c] = None /\ \A d \in Clients \ {c} : since'[d] = since[d] /\ reply'[d] = reply[d]
        BY <1>1 DEF IInv, TypeOK
    <2>2. \A d \in Clients \ {c} : held'[d] = held[d]
        BY <1>1 DEF IInv, TypeOK
    <2>3. RefreshesAreQuick'
        BY <1>1, <2>1, <2>2 DEF IInv, TokenInv, RefreshesAreQuick
    <2> QED BY <1>1, <2>3 DEF IInv, TokenInv, HeldAreSigned, TokensAreOfTheirTime,
                              Made, HadRoleAt
<1>4. CASE held' = held
    <2>1. TypeOK'
        BY <1>1, <1>4 DEF IInv, TypeOK
    <2> QED BY <1>2, <1>3, <1>4, <2>1 DEF IInv
<1>5. CASE held' # held
    <2>1. /\ reply[c].verdict = "granted" /\ Role # None
          /\ held' = [held EXCEPT ![c].access = NewAccess(reply[c].login, Role)]
        BY <1>1, <1>5
    <2>2. held[c] # None /\ held[c] \in Tokens /\ reply[c].login \in Logins
        BY <1>1, <2>1 DEF IInv, TypeOK, TokenInv, RefreshesAreQuick, Granted, Refused
    <2>3. Role \in Roles /\ now + AccessLife \in Int
        BY <2>1, RoleType, ConfigAssumption DEF ConfigAssumption, IInv, TypeOK, OptionalRole
    <2>4. NewAccess(reply[c].login, Role) \in AccessToken
        BY <2>2, <2>3 DEF NewAccess, AccessToken
    <2>5. /\ held'[c] = [held[c] EXCEPT !.access = NewAccess(reply[c].login, Role)]
          /\ \A d \in Clients \ {c} : held'[d] = held[d]
        BY <2>1, <2>2 DEF IInv, TypeOK
    <2>6. /\ held'[c] \in Tokens /\ held'[c].access = NewAccess(reply[c].login, Role)
          /\ held'[c].login = held[c].login /\ held'[c].refresh = held[c].refresh
        BY <2>2, <2>4, <2>5 DEF Tokens
    <2>7. TypeOK'
        BY <1>1, <2>1, <2>6 DEF IInv, TypeOK
    <2>8. ended[reply[c].login] # None => now <= ended[reply[c].login] + MaxDelay
        <3> SUFFICES ASSUME ended[reply[c].login] # None
                     PROVE  now <= ended[reply[c].login] + MaxDelay
            OBVIOUS
        <3>1. /\ ended[reply[c].login] \in Nat /\ since[c] \in Nat /\ now \in Nat
              /\ MaxDelay \in Nat
            BY <2>2, ConfigAssumption DEF ConfigAssumption, IInv, TypeOK
        <3>2. ended[reply[c].login] >= since[c] /\ now <= since[c] + MaxDelay
            BY <1>1, <2>1 DEF IInv, TokenInv, RefreshesAreQuick
        <3> QED BY <3>1, <3>2
    <2>9. held' = [held EXCEPT ![c] = held'[c]]
        BY <2>1, <2>5
    <2>10. TokensAreOfTheirTime'
        BY <1>1, <2>1, <2>2, <2>6, <2>8, <2>9, NewTokenKeeps
    <2>11. HeldAreSigned'
        BY <1>1, <2>2, <2>5, <2>6 DEF IInv, TokenInv, HeldAreSigned
    <2> QED BY <1>2, <1>3, <2>7, <2>10, <2>11 DEF IInv, TokenInv
<1> QED BY <1>4, <1>5

-----------------------------------------------------------------------------
LEMMA NextKeeps == IInv /\ [Next]_vars => IInv'
<1> SUFFICES ASSUME IInv, [Next]_vars PROVE IInv'
    OBVIOUS
<1>1. CASE Tick
    BY <1>1, TickKeeps
<1>2. CASE \E r \in OptionalRole : RoleChanges(r)
    BY <1>2, RoleChangesKeep
<1>3. ASSUME NEW t \in commits, Commits(t) \/ CommitFails(t)
      PROVE  IInv'
    <2>1. PICK l \in Logins : t = Insert(l) \/ t = Revoke(l)
        BY DEF IInv, TypeOK, Commit, Insert, Revoke
    <2> QED BY <1>3, <2>1, InsertCommits, RevokeCommits, CommitFailsKeeps
<1>4. ASSUME NEW c \in Clients,
             Logout(c) \/ AskRefresh(c) \/ AnswerRefresh(c) \/ \E l \in Logins : Login(c, l)
      PROVE  IInv'
    BY <1>4, LogoutKeeps, AskKeeps, AnswerKeeps, LoginKeeps
<1>5. CASE UNCHANGED vars
    <2>1. TypeOK'
        BY <1>5 DEF vars, IInv, TypeOK
    <2>2. SessionInv'
        BY <1>5, SessionsStay DEF vars, IInv
    <2>3. TokenInv'
        BY <1>5, TokensStay DEF vars, IInv
    <2> QED BY <2>1, <2>2, <2>3 DEF IInv
<1> QED BY <1>1, <1>2, <1>3, <1>4, <1>5 DEF Next

LEMMA Invariant == Spec => []IInv
BY InitEstablishes, NextKeeps, PTL DEF Spec

\* Every variable of the sessions keeps its type.
THEOREM TypeCorrect == Spec => []TypeOK
<1>1. IInv => TypeOK
    BY DEF IInv
<1> QED BY <1>1, Invariant, PTL

\* What a token that is accepted says was so at most its lifetime and the time
\* of a refresh ago: its login had not been ended before, the user had its role.
THEOREM TokensAreRecent == Spec => []AccessTokensAreRecent
<1>1. ASSUME IInv PROVE AccessTokensAreRecent
    <2> SUFFICES ASSUME NEW c \in Clients, LoggedIn(c)
                 PROVE  /\ ended[held[c].access.login] # None
                               => now - ended[held[c].access.login] <= AccessLife + MaxDelay
                        /\ HadRole(held[c].access.role, AccessLife + MaxDelay)
        BY DEF AccessTokensAreRecent
    <2> DEFINE access == held[c].access
    <2>1. /\ held[c] # None /\ held[c] \in Tokens /\ access.exp \in Int /\ now <= access.exp
          /\ access.login \in Logins
        BY <1>1 DEF LoggedIn, Valid, IInv, TypeOK, Tokens, AccessToken
    <2>2. now \in Nat /\ AccessLife \in Nat /\ MaxDelay \in Nat
        BY <1>1, ConfigAssumption DEF ConfigAssumption, IInv, TypeOK
    <2>3. now - (AccessLife + MaxDelay) <= Made(access) /\ Made(access) \in Int
        BY <2>1, <2>2 DEF Made
    <2>4. ASSUME ended[access.login] # None
          PROVE  now - ended[access.login] <= AccessLife + MaxDelay
        <3>1. ended[access.login] \in Nat
            BY <1>1, <2>1, <2>4 DEF IInv, TypeOK
        <3>2. Made(access) <= ended[access.login] + MaxDelay
            BY <1>1, <2>1, <2>4 DEF IInv, TokenInv, TokensAreOfTheirTime
        <3>3. now - AccessLife <= Made(access)
            BY <2>1, <2>2 DEF Made
        <3> QED BY <2>2, <2>3, <3>1, <3>2, <3>3
    <2>5. HadRole(access.role, AccessLife + MaxDelay)
        <3>1. PICK i \in 1 .. Len(roles) :
                  /\ roles[i].role = access.role
                  /\ i = Len(roles) \/ roles[i + 1].since >= Made(access)
            BY <1>1, <2>1 DEF IInv, TokenInv, TokensAreOfTheirTime, HadRoleAt
        <3>2. i # Len(roles) => roles[i + 1] \in [role : OptionalRole, since : Nat]
            <4>1. roles \in Seq([role : OptionalRole, since : Nat]) /\ Len(roles) \in Nat
                BY <1>1 DEF IInv, TypeOK
            <4>2. i # Len(roles) => i + 1 \in 1 .. Len(roles)
                BY <4>1
            <4> QED BY <4>1, <4>2, Element
        <3>3. i # Len(roles) => roles[i + 1].since >= now - (AccessLife + MaxDelay)
            BY <2>2, <2>3, <3>1, <3>2
        <3>4. i \in DOMAIN roles
            BY <1>1 DEF IInv, TypeOK
        <3> QED BY <3>1, <3>3, <3>4 DEF HadRole
    <2> QED BY <2>4, <2>5
<1> QED BY <1>1, Invariant, PTL

\* The session query of a refresh is the only step that refreshes.
LEMMA OnlyAskRefreshes ==
    ASSUME IInv, [Next]_vars, NEW c \in Clients, Refreshes(c)
    PROVE  AskRefresh(c)
<1>1. reply'[c] # reply[c]
    BY DEF Refreshes
<1>2. ASSUME NEW d \in Clients, AskRefresh(d) PROVE d = c
    <2>1. reply' = [reply EXCEPT ![d] = reply'[d]]
        BY <1>2, AskForms
    <2> QED BY <1>1, <2>1 DEF IInv, TypeOK
<1>3. ASSUME NEW d \in Clients, AnswerRefresh(d) PROVE FALSE
    <2>1. reply' = [reply EXCEPT ![d] = None]
        BY <1>3 DEF AnswerRefresh
    <2> QED BY <2>1 DEF IInv, TypeOK, Refreshes
<1> QED BY <1>1, <1>2, <1>3
        DEF Next, vars, Tick, RoleChanges, Commits, CommitFails, Logout, Login

\* A session that is found stands, or a logout of it is not yet through.
LEMMA FoundStand ==
    ASSUME IInv, NEW l \in Logins, rows[l] # None, rows[l].is_active
    PROVE  Standing(l)
BY DEF IInv, SessionInv, LogoutsArePlaced, Standing

\* A refresh is granted while its login stands and refused only when it does
\* not, is too old, or its row is not there, but for logins of one second.
THEOREM RefreshesFollowLogins == Spec => RefreshFollowsTheLogin
<1>1. ASSUME IInv, [Next]_vars, NEW c \in Clients, Refreshes(c)
      PROVE  RefreshStep(c)
    <2> DEFINE l == held[c].login
               token == held[c].refresh
    <2>1. AskRefresh(c)
        BY <1>1, OnlyAskRefreshes
    <2>2. held[c] # None /\ l \in Logins /\ token = signed[l] /\ token \in Nat
        BY <1>1, <2>1, AskForms DEF IInv, TypeOK, TokenInv, HeldAreSigned, Tokens
    <2>3. \A m \in SessionsOf(token) :
              /\ m \in Logins /\ rows[m] # None /\ rows[m].is_active /\ signed[m] = signed[l]
        BY <1>1, <2>2 DEF SessionsOf, IInv, SessionInv, RowsAreSigned
    <2>4. signed[l] # None
        BY <2>2, ConfigAssumption DEF ConfigAssumption
    <2>5. CASE reply'[c] = [verdict |-> "expired", login |-> None]
               /\ now > token + RefreshLife
        <3>1. ~(now <= signed[l] + RefreshLife)
            BY <1>1, <2>2, <2>5, ConfigAssumption DEF ConfigAssumption, IInv, TypeOK
        <3> QED BY <2>5, <3>1 DEF RefreshStep
    <2>6. CASE reply'[c] = [verdict |-> "unknown", login |-> None]
               /\ SessionsOf(token) = {}
        <3>1. rows[l] = None \/ ~rows[l].is_active
            BY <1>1, <2>2, <2>6 DEF SessionsOf, IInv, SessionInv, RowsAreSigned
        <3>2. l \in left \/ l \in lost \/ Insert(l) \in commits
            BY <1>1, <2>2, <2>4, <3>1 DEF IInv, SessionInv, RowsAreSigned, LoginsArePlaced
        <3> QED BY <2>6, <3>2 DEF RefreshStep
    <2>7. CASE reply'[c] = [verdict |-> "ambiguous", login |-> None]
               /\ \E k, m \in SessionsOf(token) : k # m
        <3>1. PICK m \in SessionsOf(token) : m # l
            BY <2>7
        <3>2. Shared(l)
            BY <2>3, <3>1 DEF Shared
        <3> QED BY <2>7, <3>2 DEF RefreshStep
    <2>8. ASSUME NEW m \in SessionsOf(token),
                 reply'[c] = [verdict |-> "granted", login |-> m],
                 now <= token + RefreshLife
          PROVE  RefreshStep(c)
        <3>1. Standing(m)
            BY <1>1, <2>3, FoundStand
        <3>2. m = l \/ (Shared(l) /\ signed[m] = signed[l])
            BY <2>3 DEF Shared
        <3>3. now <= signed[l] + RefreshLife
            BY <2>2, <2>8
        <3> QED BY <2>8, <3>1, <3>2, <3>3 DEF RefreshStep
    <2> QED BY <1>1, <2>1, <2>5, <2>6, <2>7, <2>8, AskForms
<1>2. IInv /\ [Next]_vars => [\A c \in Clients : Refreshes(c) => RefreshStep(c)]_vars
    BY <1>1
<1> QED BY <1>2, Invariant, PTL DEF Spec, RefreshFollowsTheLogin

==============================================================================
