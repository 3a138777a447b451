---------------------------- MODULE LoginSessions ----------------------------
(***************************************************************************)
(* Login, refresh and logout of one user on several devices.               *)
(*                                                                         *)
(* A login is a row of user_sessions and two signed tokens.  get_db commits *)
(* after the response has left, so that a device holds the tokens before   *)
(* the row is committed, and believes in a logout that is not yet, and may *)
(* never be.  Tokens are signed to the second: two logins of the user in   *)
(* one second have the same refresh token.                                 *)
(***************************************************************************)
EXTENDS Integers, Sequences, SequencesExt

CONSTANTS
    Clients,      \* the user's devices
    Logins,       \* session_uuid
    Roles,
    None,
    AccessLife,   \* jwt_access_token_expire_minutes
    RefreshLife,  \* jwt_refresh_token_expire_days
    MaxDelay,     \* bound: how long a refresh takes between its queries
    MaxTime,      \* bound: when the model stops the clock
    MaxRoles      \* bound: the roles the user is given, one after the other

VARIABLES
    now,
    rows,         \* user_sessions: committed rows
    commits,      \* transactions whose response has been sent
    roles,        \* the roles the user had, each with the time it was given
    held,         \* the tokens a device keeps
    reply,        \* what the session query of a device's refresh came to
    since,        \* when it was asked
    \* History variables: no guard but that of a fresh login reads them.
    signed,       \* the second of each login
    left,         \* logins whose logout was answered
    lapsed,       \* logins with a logout that found no row, or did not commit
    lost,         \* logins whose row did not commit
    ended         \* when a logout was committed

vars == <<now, rows, commits, roles, held, reply, since, signed, left, lapsed,
               lost, ended>>

-----------------------------------------------------------------------------
AccessToken == [login : Logins, role : Roles, exp : Int]
Tokens == [login : Logins, refresh : Nat, access : AccessToken]
Row == [token : Nat, is_active : BOOLEAN]
Commit == [kind : {"insert", "revoke"}, login : Logins]
Granted == [verdict : {"granted"}, login : Logins]
Refused == [verdict : {"expired", "unknown", "ambiguous"}, login : {None}]
OptionalRole == Roles \cup {None}

ASSUME ConfigAssumption ==
    /\ AccessLife \in Nat /\ RefreshLife \in Nat /\ MaxDelay \in Nat /\ MaxTime \in Nat
    /\ MaxRoles \in Nat \ {0}
    /\ None \notin Nat /\ None \notin Roles /\ None \notin Logins /\ None \notin Row

TypeOK ==
    /\ now \in Nat
    /\ rows \in [Logins -> Row \cup {None}]
    /\ commits \subseteq Commit
    /\ roles \in Seq([role : OptionalRole, since : Nat]) /\ roles # <<>>
    /\ held \in [Clients -> Tokens \cup {None}]
    /\ reply \in [Clients -> Granted \cup Refused \cup {None}]
    /\ since \in [Clients -> Nat]
    /\ signed \in [Logins -> Nat \cup {None}]
    /\ left \subseteq Logins /\ lapsed \subseteq Logins /\ lost \subseteq Logins
    /\ ended \in [Logins -> Nat \cup {None}]

Init ==
    /\ now = 0
    /\ rows = [l \in Logins |-> None]
    /\ commits = {}
    /\ roles \in {<<[role |-> r, since |-> 0]>> : r \in Roles}
    /\ held = [c \in Clients |-> None]
    /\ reply = [c \in Clients |-> None]
    /\ since = [c \in Clients |-> 0]
    /\ signed = [l \in Logins |-> None]
    /\ left = {} /\ lapsed = {} /\ lost = {}
    /\ ended = [l \in Logins |-> None]

Role == Last(roles).role

Tick ==
    /\ now < MaxTime
    /\ \A c \in Clients : reply[c] = None \/ now - since[c] < MaxDelay
    /\ now' = now + 1
    /\ UNCHANGED <<rows, commits, roles, held, reply, since, signed, left, lapsed,
                   lost, ended>>

\* Roles are given and taken by others.
RoleChanges(r) ==
    /\ r # Role /\ Len(roles) < MaxRoles
    /\ roles' = Append(roles, [role |-> r, since |-> now])
    /\ UNCHANGED <<now, rows, commits, held, reply, since, signed, left, lapsed, lost,
                   ended>>

-----------------------------------------------------------------------------
Insert(l) == [kind |-> "insert", login |-> l]
Revoke(l) == [kind |-> "revoke", login |-> l]

NewAccess(l, role) == [login |-> l, role |-> role, exp |-> now + AccessLife]

\* verify_access_token: valid up to and including the second it expires in.
Valid(access) == now <= access.exp

LoggedIn(c) == held[c] # None /\ Valid(held[c].access)

\* A device logs in, for the first time or anew; without a role it is 403.
Login(c, l) ==
    /\ reply[c] = None /\ Role # None /\ signed[l] = None
    /\ held' = [held EXCEPT ![c] =
                    [login |-> l, refresh |-> now, access |-> NewAccess(l, Role)]]
    /\ signed' = [signed EXCEPT ![l] = now]
    /\ commits' = commits \cup {Insert(l)}
    /\ UNCHANGED <<now, rows, roles, reply, since, left, lapsed, lost, ended>>

\* The UPDATE touches the row if it is committed by then; 200 either way.
Logout(c) ==
    /\ reply[c] = None /\ LoggedIn(c)
    /\ LET l == held[c].access.login IN
           /\ left' = left \cup {l}
           /\ IF rows[l] # None
                THEN /\ commits' = commits \cup {Revoke(l)}
                     /\ UNCHANGED lapsed
                ELSE lapsed' = lapsed \cup {l} /\ UNCHANGED commits
    /\ UNCHANGED <<now, rows, roles, held, reply, since, signed, lost, ended>>

\* The transaction of a request that was answered.
Commits(t) ==
    /\ t \in commits
    /\ commits' = commits \ {t}
    /\ IF t.kind = "insert"
         THEN /\ rows' = [rows EXCEPT ![t.login] =
                              [token |-> signed[t.login], is_active |-> TRUE]]
              /\ UNCHANGED ended
         ELSE /\ rows' = [rows EXCEPT ![t.login].is_active = FALSE]
              /\ ended' = [ended EXCEPT ![t.login] = IF @ = None THEN now ELSE @]
    /\ UNCHANGED <<now, roles, held, reply, since, signed, left, lapsed, lost>>

\* The commit raises, or the process dies: the response has been sent.
CommitFails(t) ==
    /\ t \in commits
    /\ commits' = commits \ {t}
    /\ IF t.kind = "insert"
         THEN lost' = lost \cup {t.login} /\ UNCHANGED lapsed
         ELSE lapsed' = lapsed \cup {t.login} /\ UNCHANGED lost
    /\ UNCHANGED <<now, rows, roles, held, reply, since, signed, left, ended>>

\* Mutant: the query without is_active.
SessionsOfAnyState(token) == {l \in Logins : rows[l] # None /\ rows[l].token = token}

SessionsOf(token) ==
    {l \in Logins : rows[l] # None /\ rows[l].token = token /\ rows[l].is_active}

\* verify_refresh_token and the session query; scalar_one_or_none raises on
\* two rows, which is a 500.
AskRefresh(c) ==
    /\ reply[c] = None /\ held[c] # None
    /\ since' = [since EXCEPT ![c] = now]
    /\ LET found == SessionsOf(held[c].refresh)
           Refuse(v) == reply' = [reply EXCEPT ![c] = [verdict |-> v, login |-> None]]
       IN  \/ now > held[c].refresh + RefreshLife /\ Refuse("expired")
           \/ /\ now <= held[c].refresh + RefreshLife
              /\ \/ found = {} /\ Refuse("unknown")
                 \/ (\E l, m \in found : l # m) /\ Refuse("ambiguous")
                 \/ \E l \in found :
                        /\ found = {l}
                        /\ reply' = [reply EXCEPT ![c] =
                                         [verdict |-> "granted", login |-> l]]
    /\ UNCHANGED <<now, rows, commits, roles, held, signed, left, lapsed, lost, ended>>

\* Mutant: the role of the token before.
RoleBefore(c) == held[c].access.role

RoleFor(c) == Role

\* The role is read anew; a user without one is refused.
AnswerRefresh(c) ==
    /\ reply[c] # None
    /\ reply' = [reply EXCEPT ![c] = None]
    /\ since' = [since EXCEPT ![c] = 0]
    /\ IF reply[c].verdict = "granted" /\ Role # None
         THEN held' = [held EXCEPT ![c].access = NewAccess(reply[c].login, RoleFor(c))]
         ELSE UNCHANGED held
    /\ UNCHANGED <<now, rows, commits, roles, signed, left, lapsed, lost, ended>>

Next ==
    \/ Tick
    \/ \E r \in OptionalRole : RoleChanges(r)
    \/ \E t \in commits : Commits(t) \/ CommitFails(t)
    \/ \E c \in Clients :
           Logout(c) \/ AskRefresh(c) \/ AnswerRefresh(c) \/ \E l \in Logins : Login(c, l)

Spec == Init /\ [][Next]_vars

-----------------------------------------------------------------------------
(* What the sessions promise.                                              *)

\* The user had this role at some time in the last age seconds.
HadRole(role, age) ==
    \E i \in DOMAIN roles :
        roles[i].role = role /\ (i = Len(roles) \/ roles[i + 1].since >= now - age)

\* Whatever a token that is still accepted says was so at most its lifetime,
\* and the time a refresh takes, ago: nothing else takes an access token back,
\* so this is how long a logout or a change of role may go unnoticed.
AccessTokensAreRecent ==
    \A c \in Clients : LoggedIn(c) =>
        LET access == held[c].access
            age == AccessLife + MaxDelay
        IN  /\ ended[access.login] # None => now - ended[access.login] <= age
            /\ HadRole(access.role, age)

\* Another login of the same second has the same refresh token.
Shared(l) == \E m \in Logins \ {l} : signed[m] = signed[l]

Standing(l) ==
    l \notin left \/ l \in lapsed \/ Revoke(l) \in commits

\* The session query of this device's refresh was answered as it should be.
RefreshStep(c) ==
    LET l == held[c].login
        fresh == now <= signed[l] + RefreshLife
        answer == reply'[c]
    IN  IF answer.verdict = "granted"
          THEN /\ fresh /\ Standing(answer.login)
               /\ answer.login = l \/ (Shared(l) /\ signed[answer.login] = signed[l])
          ELSE ~fresh \/ l \in left \/ l \in lost \/ Insert(l) \in commits \/ Shared(l)

Refreshes(c) == reply[c] = None /\ reply'[c] # None

\* A refresh is granted only while its login stands, and refused only when it
\* does not, its token is too old, or its row is not there yet or was lost.
\* The exceptions are the code's own: a login answered before its commit, a
\* logout that overtook it or did not commit, and two logins in one second.
RefreshFollowsTheLogin ==
    [][\A c \in Clients : Refreshes(c) => RefreshStep(c)]_vars

==============================================================================
