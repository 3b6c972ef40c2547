----------------------------- MODULE WebSession -----------------------------
(***************************************************************************)
(* The sessions of the browser (web-ui, lib/keycloak.ts and the portals'   *)
(* login pages): for each portal a password session, kept in localStorage, *)
(* and the SSO session its keycloak-js client has found in the realm.      *)
(* Whoever calls a service asks for an access token first: the password    *)
(* session's, refreshed when it is too old, else the SSO client's.         *)
(*                                                                         *)
(* The page is one thread: what follows an answer is done before anything  *)
(* else.  Nobody keeps two refreshes of one session from being in flight   *)
(* together, nor a login or a logout from coming between.  A refresh token *)
(* that is too old is refused like any other; where the sessions are kept  *)
(* and what tokens look like is left out.                                  *)
(***************************************************************************)
EXTENDS Integers

CONSTANTS
    Callers,            \* who may ask for an access token at once
    Owner, Nominee,     \* the users of the wallet; the owner is admin as well
    Analyst,            \* the user of the FI
    NoUser,
    MaxLogins,          \* bound on logins
    MaxLapses,          \* bound on access tokens that get too old
    MaxLeaves           \* bound on the times the page is left or reloaded

ASSUME SessionAssumption ==
    /\ MaxLogins \in Nat /\ MaxLapses \in Nat /\ MaxLeaves \in Nat
    /\ Owner # Nominee /\ Analyst \notin {Owner, Nominee}
    /\ NoUser \notin {Owner, Nominee, Analyst}

VARIABLES
    direct,         \* the password session of each portal
    realm,          \* who is signed in to the realm, for SSO
    sso,            \* whom each portal's keycloak-js client has found there
    ask,            \* the requests for an access token
    leaving,        \* the page has been told to go elsewhere
    lastLogin,      \* who signed in last with a password, no one since a logout (history)
    crossed,        \* there was a login or a logout with a refresh in flight (history)
    logins, lapses, leaves  \* how many there were

session == <<direct, realm, sso>>
budget == <<logins, lapses, leaves>>
sessionVars == <<session, ask, leaving, lastLogin, crossed, budget>>

Portals == {"wallet", "fi"}
UsersOf(p) == IF p = "wallet" THEN {Owner, Nominee} ELSE {Analyst}
Users == {Owner, Nominee, Analyst}

NoSession == [user |-> NoUser, fresh |-> FALSE]
NewSession(u) == [user |-> u, fresh |-> TRUE]

\* A request for a token: for which portal, and whose session it refreshes or whose
\* token it got.
NotAsking == [pc |-> "idle", portal |-> "wallet", user |-> NoUser]

Askings == [pc: {"idle", "refreshing", "sso", "granted", "refused"}, portal: Portals,
            user: Users \cup {NoUser}]

SessionInit ==
    /\ direct \in [Portals -> {NoSession} \cup {NewSession(u) : u \in Users}]
    /\ \A p \in Portals : direct[p].user \in UsersOf(p) \cup {NoUser}
    /\ realm = NoUser
    /\ sso = [p \in Portals |-> NoUser]
    /\ ask = [c \in Callers |-> NotAsking]
    /\ leaving = FALSE
    /\ lastLogin = [p \in Portals |-> direct[p].user]
    /\ crossed = [p \in Portals |-> FALSE]
    /\ logins = 0 /\ lapses = 0 /\ leaves = 0

\* Whom the console shows as signed in, an SSO session before a password session;
\* an access token is got the other way round.
ShownUser(p) == IF sso[p] # NoUser THEN sso[p] ELSE direct[p].user
Authenticated(p) == ShownUser(p) # NoUser

\* The roles are those of both portals' tokens taken together.
HasOwnerRole == Owner \in {ShownUser("wallet"), ShownUser("fi")}
HasNomineeRole == Nominee \in {ShownUser("wallet"), ShownUser("fi")}
HasFiRole == ShownUser("fi") = Analyst

\* The login pages send on who has the role they are for; on the command portal's page
\* the nominee can sign in as someone else.
CanLogin(p) == ShownUser(p) # (IF p = "wallet" THEN Owner ELSE Analyst)

Refreshing(p) == {c \in Callers : ask[c].pc = "refreshing" /\ ask[c].portal = p}

-----------------------------------------------------------------------------
(* Asking for an access token                                              *)

\* Asking, when there is no password session, or none any more.
AskSso(p) ==
    [NotAsking EXCEPT !.portal = p,
                      !.pc = IF sso[p] = NoUser THEN "refused" ELSE "sso",
                      !.user = sso[p]]

\* Asking: a fresh session's token is there at once, a stale one's is asked for.
Ask(p) ==
    IF direct[p] = NoSession THEN AskSso(p)
    ELSE [pc |-> IF direct[p].fresh THEN "granted" ELSE "refreshing",
          portal |-> p, user |-> direct[p].user]

\* The portal's password session, there and in the storage, is s from now on.
SetSession(p, s) == direct' = [direct EXCEPT ![p] = s]

\* The refresh is answered: the session becomes that of the user it was begun for,
\* whosever it is now.
RefreshSucceeds(c) ==
    /\ ask[c].pc = "refreshing"
    /\ SetSession(ask[c].portal, NewSession(ask[c].user))
    /\ ask' = [ask EXCEPT ![c].pc = "granted"]
    /\ UNCHANGED <<realm, sso, leaving, lastLogin, crossed, budget>>

\* It fails: whatever session there is goes, and the SSO client is asked.
RefreshFails(c) ==
    /\ ask[c].pc = "refreshing"
    /\ SetSession(ask[c].portal, NoSession)
    /\ ask' = [ask EXCEPT ![c] = AskSso(ask[c].portal)]
    /\ UNCHANGED <<realm, sso, leaving, lastLogin, crossed, budget>>

\* keycloak-js has a token, its own or a new one.
SsoGrants(c) ==
    /\ ask[c].pc = "sso"
    /\ sso[ask[c].portal] # NoUser
    /\ ask' = [ask EXCEPT ![c].pc = "granted", ![c].user = sso[ask[c].portal]]
    /\ UNCHANGED <<session, leaving, lastLogin, crossed, budget>>

\* It has none; it forgets the session when the realm has.
SsoRefuses(c) ==
    /\ ask[c].pc = "sso"
    /\ ask' = [ask EXCEPT ![c].pc = "refused", ![c].user = NoUser]
    /\ \E u \in {NoUser, sso[ask[c].portal]} : sso' = [sso EXCEPT ![ask[c].portal] = u]
    /\ UNCHANGED <<direct, realm, leaving, lastLogin, crossed, budget>>

-----------------------------------------------------------------------------
(* Logins, logouts, reloads                                                *)

Crossing(ports) == [p \in Portals |-> IF p \in ports THEN Refreshing(p) # {} ELSE crossed[p]]

\* A login with a password.
Login(p, u) ==
    /\ ~leaving
    /\ logins < MaxLogins
    /\ CanLogin(p)
    /\ SetSession(p, NewSession(u))
    /\ lastLogin' = [lastLogin EXCEPT ![p] = u]
    /\ crossed' = Crossing({p})
    /\ logins' = logins + 1
    /\ UNCHANGED <<realm, sso, ask, leaving, lapses, leaves>>

\* Mutant: the other portal stays signed in.
LogoutOne(p) ==
    /\ ~leaving
    /\ leaves < MaxLeaves
    /\ Authenticated(p)
    /\ SetSession(p, NoSession)
    /\ IF sso[p] = NoUser THEN UNCHANGED <<realm, sso>>
       ELSE realm' = NoUser /\ sso' = [q \in Portals |-> NoUser]
    /\ leaving' = TRUE
    /\ lastLogin' = [q \in Portals |-> NoUser]
    /\ crossed' = Crossing(Portals)
    /\ UNCHANGED <<ask, budget>>

\* A logout ends the password sessions of both portals, and the realm's session when
\* this portal's client had found it; then the page is left.
Logout(p) ==
    /\ ~leaving
    /\ leaves < MaxLeaves
    /\ Authenticated(p)
    /\ direct' = [q \in Portals |-> NoSession]
    /\ IF sso[p] = NoUser THEN UNCHANGED <<realm, sso>>
       ELSE realm' = NoUser /\ sso' = [q \in Portals |-> NoUser]
    /\ leaving' = TRUE
    /\ lastLogin' = [q \in Portals |-> NoUser]
    /\ crossed' = Crossing(Portals)
    /\ UNCHANGED <<ask, budget>>

\* The clients of these portals look for the realm's session u and find it.
Find(ports, u) == sso' = [p \in Portals |-> IF p \in ports THEN u ELSE NoUser]

\* The page is loaded anew: password sessions are read back, each client looks for
\* the realm's session and may be too slow to find it.
Reload ==
    /\ leaves < MaxLeaves
    /\ \E found \in SUBSET Portals : Find(found, realm)
    /\ ask' = [c \in Callers |-> NotAsking]
    /\ leaving' = FALSE
    /\ leaves' = leaves + 1
    /\ UNCHANGED <<direct, realm, lastLogin, crossed, logins, lapses>>

\* A login at the realm: the page is left for it and, once back, only the portal that
\* had asked looks for the session.
SsoLogin(p, u) ==
    /\ ~leaving
    /\ logins < MaxLogins /\ leaves < MaxLeaves
    /\ CanLogin(p)
    /\ realm' = u
    /\ Find({p}, u)
    /\ ask' = [c \in Callers |-> NotAsking]
    /\ logins' = logins + 1
    /\ leaves' = leaves + 1
    /\ UNCHANGED <<direct, leaving, lastLogin, crossed, lapses>>

\* An access token gets too old.
Lapse(p) ==
    /\ lapses < MaxLapses
    /\ direct[p].fresh
    /\ direct' = [direct EXCEPT ![p].fresh = FALSE]
    /\ lapses' = lapses + 1
    /\ UNCHANGED <<realm, sso, ask, leaving, lastLogin, crossed, logins, leaves>>

-----------------------------------------------------------------------------
(* Properties                                                              *)

\* The shape of the state: a caller that refreshes does it for someone.
SessionTypeOK ==
    /\ direct \in [Portals -> [user: Users \cup {NoUser}, fresh: BOOLEAN]]
    /\ \A p \in Portals : direct[p].user = NoUser => direct[p] = NoSession
    /\ realm \in Users \cup {NoUser}
    /\ sso \in [Portals -> Users \cup {NoUser}]
    /\ ask \in [Callers -> Askings]
    /\ \A c \in Callers : ask[c].pc \in {"refreshing", "granted"} => ask[c].user # NoUser
    /\ leaving \in BOOLEAN
    /\ lastLogin \in [Portals -> Users \cup {NoUser}]
    /\ crossed \in [Portals -> BOOLEAN]
    /\ logins \in 0 .. MaxLogins /\ lapses \in 0 .. MaxLapses /\ leaves \in 0 .. MaxLeaves

\* The password session of a portal is that of who signed in last, and after a logout
\* from either portal it is nobody's: only a refresh that was in flight at the last
\* login or logout can have brought another's back.
SessionIsLastLogin ==
    \A p \in Portals :
        direct[p].user \in {NoUser, lastLogin[p]} \/ crossed[p]

=============================================================================
