------------------------------ MODULE UserStore ------------------------------
(***************************************************************************)
(* Users: their roles, passwords, gem tokens and GitHub tokens, in the     *)
(* bbolt bucket that start-up rewrites from the configuration and that     *)
(* concurrent requests read in one transaction and write in another.       *)
(*                                                                         *)
(* A gem token is named after the request that generated it, a GitHub      *)
(* access token after the login that obtained it, and a hash of a password *)
(* is the password.  Checks that only read (the token of a gem request, a  *)
(* failed login) change nothing and are left out.                          *)
(***************************************************************************)
EXTENDS Naturals, FiniteSets

CONSTANTS Users, Admin,  \* user names; Admin is "admin"
          Passwords,
          Generated,     \* the password generated if none is configured
          Configs,       \* configurations the server may be started with
          Requests,      \* HTTP requests
          MaxStarts,     \* bound: times the server is started
          None           \* no user, password, token, role or request

(* ValidUserRoles. *)
Roles == {"admin", "read", "write"}

Configured == [password : Passwords, role : Roles \cup {None}]

(* A user in the store, a request, the claims of a JWT. *)
Record == [password : Passwords \cup {None}, token : Requests \cup {None},
           role : Roles, github : Requests \cup {None}]

(* What a request may ask for: a token for a user, another role for a user  *)
(* (None: one that is not valid), the end of a user, or anything that       *)
(* changes no user.                                                         *)
Asks == [op : {"token", "delete", "read"}, target : Users, role : {None}]
        \cup [op : {"role"}, target : Users, role : Roles \cup {None}]

Request == [who : Users, role : Roles \cup {None}, github : Requests \cup {None},
            ask : Asks \cup [op : {"login"}, target : Users, role : {None}]]

Claims == [user : Users, role : Roles, github : Requests \cup {None}]

ASSUME UsersAssumption ==
    /\ Admin \in Users
    /\ Generated \in Passwords
    /\ MaxStarts \in Nat
    /\ None \notin Users \cup Passwords \cup Requests \cup Roles
    /\ Configs \subseteq [auth : {"local", "github", "none"},
                          admin : Passwords \cup {None},
                          users : [Users -> Configured \cup {None}],
                          defaultRole : Roles]
    /\ None \notin Configured \cup Configs \cup Record \cup Request \cup Claims

VARIABLES
    store,     \* the bucket of users
    config,    \* the configuration of the last start
    server,    \* "down", two stages of start-up, or "up"
    pc,        \* where each request's handler is
    req,       \* what it asks for
    copy,      \* the user it has read
    session,   \* the claims of the JWT that a login issued
    \* history, read by the properties only
    ledger,    \* the users if every request were one transaction
    overlaps,  \* users on whom requests overlapped since the last start
    granted,   \* the roles each user was ever given
    starts

history == <<ledger, overlaps, granted, starts>>
vars == <<store, config, server, pc, req, copy, session, history>>

-----------------------------------------------------------------------------
Ended == {"new", "done", "failed", "lost"}

(* gemfast_acl.csv: only admins change roles and delete. *)
Allowed(role, op) == role = "admin" \/ op \in {"token", "read"}

(* Where the handler starts that the route leads to; the page of the UI,    *)
(* which local users do not have, looks at the user before it calls         *)
(* CreateUserToken.                                                         *)
Handler(op) ==
    CASE op = "token" -> IF config.auth = "local" THEN "reading" ELSE "page"
      [] op = "role" -> "reading"
      [] op = "delete" -> "deleting"
      [] op \in {"read", "login"} -> "done"

(* Between the read and the write of a user: of the one who logs in or asks, *)
(* or of the one that is to change.                                          *)
Authenticating == {"creating", "updating"}

Subject(r) == IF pc[r] = "read" THEN req[r].ask.target ELSE req[r].who

InFlight(u) ==
    {r \in Requests : pc[r] \in Authenticating \cup {"read"} /\ Subject(r) = u}

(* Two requests that overlap on one user may undo each other. *)
Meets(r, u) == overlaps' = IF InFlight(u) \subseteq {r} THEN overlaps
                           ELSE overlaps \cup {u}

GoTo(r, label) == pc' = [pc EXCEPT ![r] = label]

Init ==
    /\ store = [u \in Users |-> None]
    /\ config = None
    /\ server = "down"
    /\ pc = [r \in Requests |-> "new"]
    /\ req = [r \in Requests |-> None]
    /\ copy = [r \in Requests |-> None]
    /\ session = [r \in Requests |-> None]
    /\ ledger = store
    /\ overlaps = {}
    /\ granted = [u \in Users |-> {}]
    /\ starts = 0

-----------------------------------------------------------------------------
(* Start-up and the end of the process.                                    *)

Start(c) ==
    /\ server = "down"
    /\ starts < MaxStarts
    /\ config' = c
    /\ server' = IF c.auth = "local" THEN "admin" ELSE "up"
    /\ starts' = starts + 1
    /\ ledger' = store
    /\ UNCHANGED <<store, pc, req, copy, session, overlaps, granted>>

LocalUser(p, role) ==
    [password |-> p, token |-> None, role |-> role, github |-> None]

(* A configured admin password that differs from the stored one replaces    *)
(* the admin, token and all; otherwise an admin with a password stays.      *)
CreateAdminUserIfNotExists ==
    LET old == store[Admin]
        kept == /\ old # None
                /\ old.password # None
                /\ config.admin \in {None, old.password}
        pw == IF config.admin = None THEN Generated ELSE config.admin
    IN
    /\ server = "admin"
    /\ store' = [store EXCEPT ![Admin] = IF kept THEN @ ELSE LocalUser(pw, "admin")]
    /\ ledger' = store'
    /\ granted' = [granted EXCEPT ![Admin] = IF kept THEN @ ELSE @ \cup {"admin"}]
    /\ server' = "users"
    /\ UNCHANGED <<config, pc, req, copy, session, overlaps, starts>>

RoleOf(configured) ==
    IF configured.role = None THEN config.defaultRole ELSE configured.role

\* Mutant of LocalUsers: users who are not configured stay.
LocalUsersOnly(users) ==
    [u \in Users |-> IF users[u] # None
                     THEN LocalUser(users[u].password, RoleOf(users[u]))
                     ELSE store[u]]

(* Every configured user is written anew, every other but the admin is      *)
(* deleted.  With no user configured nothing happens.                       *)
LocalUsers(users) ==
    IF \A u \in Users : users[u] = None
    THEN store
    ELSE [u \in Users |-> IF users[u] # None
                          THEN LocalUser(users[u].password, RoleOf(users[u]))
                          ELSE IF u = Admin THEN store[u] ELSE None]

CreateLocalUsers ==
    LET users == config.users IN
    /\ server = "users"
    /\ store' = LocalUsers(users)
    /\ ledger' = store'
    /\ granted' = [u \in Users |-> IF users[u] = None THEN granted[u]
                                   ELSE granted[u] \cup {RoleOf(users[u])}]
    /\ server' = "up"
    /\ UNCHANGED <<config, pc, req, copy, session, overlaps, starts>>

(* The process ends, in the middle of start-up too.  *)
Stop ==
    /\ server # "down"
    /\ server' = "down"
    /\ pc' = [r \in Requests |-> IF pc[r] \in Ended THEN pc[r] ELSE "lost"]
    /\ overlaps' = {}
    /\ UNCHANGED <<store, config, req, copy, session, ledger, granted, starts>>

-----------------------------------------------------------------------------
(* Logins.                                                                 *)

(* AuthenticateLocalUser, with the right password; the claims are the user's *)
(* name and role as they are now.                                            *)
LoginLocal(r) ==
    /\ server = "up" /\ config.auth = "local"
    /\ pc[r] = "new"
    /\ \E u \in Users :
          /\ store[u] # None
          /\ store[u].password # None
          /\ session' = [session EXCEPT ![r] =
                           [user |-> u, role |-> store[u].role, github |-> None]]
    /\ GoTo(r, "done")
    /\ UNCHANGED <<store, config, server, req, copy, history>>

(* GitHubCallbackHandler: GitHub says who it is and issues an access token. *)
GitHubCallback(r) ==
    /\ server = "up" /\ config.auth = "github"
    /\ pc[r] = "new"
    /\ \E u \in Users :
          req' = [req EXCEPT ![r] =
                   [who |-> u, role |-> None, github |-> r,
                    ask |-> [op |-> "login", target |-> u, role |-> None]]]
    /\ GoTo(r, "authenticating")
    /\ UNCHANGED <<store, config, server, copy, session, history>>

-----------------------------------------------------------------------------
(* Requests with a session.                                                *)

(* The JWT's claims name the user and the role.  *)
AskLocal(r) ==
    /\ server = "up" /\ config.auth = "local"
    /\ pc[r] = "new"
    /\ \E s \in Requests, a \in Asks :
          /\ session[s] # None
          /\ Allowed(session[s].role, a.op)
          /\ a.op \in {"token", "read"} => a.target = session[s].user
          /\ req' = [req EXCEPT ![r] =
                       [who |-> session[s].user, role |-> session[s].role,
                        github |-> None, ask |-> a]]
          /\ GoTo(r, Handler(a.op))
    /\ UNCHANGED <<store, config, server, copy, session, history>>

(* The tokens page takes its user from the JWT in the cookie of a GitHub     *)
(* login, whoever has been authenticated: a cookie that survived a restart,  *)
(* or another than the header's JWT, leads to its own user.                  *)
CookieUsers ==
    {session[c].user :
        c \in {q \in Requests : session[q] # None /\ session[q].github # None}}

(* The claims hold a GitHub access token too, which is checked again. *)
AskGitHub(r) ==
    /\ server = "up" /\ config.auth = "github"
    /\ pc[r] = "new"
    /\ \E s \in Requests, a \in Asks :
          /\ session[s] # None
          /\ session[s].github # None
          /\ a.op = "token" => a.target \in CookieUsers
          /\ a.op = "read" => a.target = session[s].user
          /\ req' = [req EXCEPT ![r] =
                       [who |-> session[s].user, role |-> session[s].role,
                        github |-> session[s].github, ask |-> a]]
    /\ GoTo(r, "authenticating")
    /\ UNCHANGED <<store, config, server, copy, session, history>>

(* Without authentication anybody may do what needs no identity, and open    *)
(* the tokens page with the cookie of an earlier login.                      *)
AskAnyone(r) ==
    /\ server = "up" /\ config.auth = "none"
    /\ pc[r] = "new"
    /\ \E a \in Asks :
          /\ \/ a.op \in {"role", "delete"}
             \/ a.op = "token" /\ a.target \in CookieUsers
          /\ req' = [req EXCEPT ![r] =
                       [who |-> a.target, role |-> None, github |-> None, ask |-> a]]
          /\ GoTo(r, Handler(a.op))
    /\ UNCHANGED <<store, config, server, copy, session, history>>

-----------------------------------------------------------------------------
(* authenticateGitHubUser, at a login and at every request.                *)

\* Mutant of Newcomer: the role is not the configured one.
NewcomerWriter(r) ==
    [password |-> None, token |-> None, role |-> "write",
     github |-> req[r].github]

Newcomer(r) ==
    [password |-> None, token |-> None, role |-> config.defaultRole,
     github |-> req[r].github]

(* The user as authentication returns it, and what follows. *)
Authenticated(r, user) ==
    IF req[r].ask.op = "login"
    THEN /\ session' = [session EXCEPT ![r] =
                          [user |-> req[r].who, role |-> user.role,
                           github |-> user.github]]
         /\ GoTo(r, "done")
    ELSE /\ GoTo(r, IF Allowed(req[r].role, req[r].ask.op)
                    THEN Handler(req[r].ask.op) ELSE "failed")
         /\ UNCHANGED session

ReadGitHubUser(r) ==
    LET u == req[r].who IN
    /\ pc[r] = "authenticating"
    /\ copy' = [copy EXCEPT ![r] = store[u]]
    /\ \/ /\ store[u] = None
          /\ GoTo(r, "creating")
          /\ Meets(r, u)
          /\ UNCHANGED session
       \/ /\ store[u] # None
          /\ store[u].github # req[r].github
          /\ GoTo(r, "updating")
          /\ Meets(r, u)
          /\ UNCHANGED session
       \/ /\ store[u] # None
          /\ store[u].github = req[r].github
          /\ Authenticated(r, store[u])
          /\ UNCHANGED overlaps
    /\ UNCHANGED <<store, config, server, req, ledger, granted, starts>>

(* CreateUser: whoever is there by now is overwritten. *)
CreateGitHubUser(r) ==
    LET u == req[r].who IN
    /\ pc[r] = "creating"
    /\ store' = [store EXCEPT ![u] = Newcomer(r)]
    /\ ledger' = [ledger EXCEPT ![u] = Newcomer(r)]
    /\ granted' = [granted EXCEPT ![u] = @ \cup {config.defaultRole}]
    /\ Authenticated(r, Newcomer(r))
    /\ UNCHANGED <<config, server, req, copy, overlaps, starts>>

\* Mutant of UpdateGitHubUser: the user is written anew, token and all.
UpdateGitHubUserAnew(r) ==
    LET u == req[r].who IN
    /\ pc[r] = "updating"
    /\ store' = [store EXCEPT ![u] = Newcomer(r)]
    /\ ledger' = [ledger EXCEPT ![u] =
                    IF @ = None THEN None ELSE [@ EXCEPT !.github = req[r].github]]
    /\ Authenticated(r, Newcomer(r))
    /\ UNCHANGED <<config, server, req, copy, overlaps, granted, starts>>

(* UpdateUser with the new access token. *)
UpdateGitHubUser(r) ==
    LET u == req[r].who
        user == [copy[r] EXCEPT !.github = req[r].github]
    IN
    /\ pc[r] = "updating"
    /\ store' = [store EXCEPT ![u] = user]
    /\ ledger' = [ledger EXCEPT ![u] =
                    IF @ = None THEN None ELSE [@ EXCEPT !.github = req[r].github]]
    /\ Authenticated(r, user)
    /\ UNCHANGED <<config, server, req, copy, overlaps, granted, starts>>

-----------------------------------------------------------------------------
(* Changes.                                                                *)

(* The page of the UI shows the token that there is.  Without a user it     *)
(* panics, which gin recovers.                                              *)
OpenTokensPage(r) ==
    LET user == store[req[r].ask.target] IN
    /\ pc[r] = "page"
    /\ GoTo(r, IF user = None THEN "failed"
               ELSE IF user.token # None THEN "done" ELSE "reading")
    /\ UNCHANGED <<store, config, server, req, copy, session, history>>

(* GetUser in CreateUserToken and in setUserRole.  *)
ReadUser(r) ==
    LET u == req[r].ask.target IN
    /\ pc[r] = "reading"
    /\ IF store[u] = None
       THEN GoTo(r, "failed") /\ UNCHANGED <<copy, overlaps>>
       ELSE /\ GoTo(r, "read")
            /\ copy' = [copy EXCEPT ![r] = store[u]]
            /\ Meets(r, u)
    /\ UNCHANGED <<store, config, server, req, session, ledger, granted, starts>>

Changed(r, user) ==
    IF req[r].ask.op = "token" THEN [user EXCEPT !.token = r]
    ELSE [user EXCEPT !.role = req[r].ask.role]

\* Mutant of WriteUser: any role is accepted.
WriteUserUnchecked(r) ==
    LET u == req[r].ask.target IN
    /\ pc[r] = "read"
    /\ store' = [store EXCEPT ![u] = Changed(r, copy[r])]
    /\ ledger' = [ledger EXCEPT ![u] = IF @ = None THEN None ELSE Changed(r, @)]
    /\ granted' = [granted EXCEPT ![u] = @ \cup ({req[r].ask.role} \cap Roles)]
    /\ GoTo(r, "done")
    /\ UNCHANGED <<config, server, req, copy, session, overlaps, starts>>

(* The second transaction writes the whole user as it was read.  A role     *)
(* that is not valid is refused here.                                       *)
WriteUser(r) ==
    LET u == req[r].ask.target IN
    /\ pc[r] = "read"
    /\ IF req[r].ask.op = "role" /\ req[r].ask.role = None
       THEN GoTo(r, "failed") /\ UNCHANGED <<store, ledger, granted>>
       ELSE /\ store' = [store EXCEPT ![u] = Changed(r, copy[r])]
            /\ ledger' = [ledger EXCEPT ![u] =
                            IF @ = None THEN None ELSE Changed(r, @)]
            /\ granted' = [granted EXCEPT ![u] = @ \cup ({req[r].ask.role} \cap Roles)]
            /\ GoTo(r, "done")
    /\ UNCHANGED <<config, server, req, copy, session, overlaps, starts>>

(* DeleteUser, one transaction.  *)
DeleteUser(r) ==
    LET u == req[r].ask.target IN
    /\ pc[r] = "deleting"
    /\ store' = [store EXCEPT ![u] = None]
    /\ ledger' = [ledger EXCEPT ![u] = None]
    /\ Meets(r, u)
    /\ GoTo(r, "done")
    /\ UNCHANGED <<config, server, req, copy, session, granted, starts>>

-----------------------------------------------------------------------------
Handle(r) ==
    \/ LoginLocal(r) \/ GitHubCallback(r)
    \/ AskLocal(r) \/ AskGitHub(r) \/ AskAnyone(r)
    \/ ReadGitHubUser(r) \/ CreateGitHubUser(r) \/ UpdateGitHubUser(r)
    \/ OpenTokensPage(r) \/ ReadUser(r) \/ WriteUser(r) \/ DeleteUser(r)

StartUp ==
    \/ \E c \in Configs : Start(c)
    \/ CreateAdminUserIfNotExists
    \/ CreateLocalUsers

Next == StartUp \/ Stop \/ \E r \in Requests : Handle(r)

Spec == Init /\ [][Next]_vars
-----------------------------------------------------------------------------
TypeOK ==
    /\ store \in [Users -> Record \cup {None}]
    /\ config \in Configs \cup {None}
    /\ server \in {"down", "admin", "users", "up"}
    /\ pc \in [Requests -> Ended \cup Authenticating
                \cup {"authenticating", "page", "reading", "read", "deleting"}]
    /\ req \in [Requests -> Request \cup {None}]
    /\ copy \in [Requests -> Record \cup {None}]
    /\ session \in [Requests -> Claims \cup {None}]
    /\ ledger \in [Users -> Record \cup {None}]
    /\ overlaps \subseteq Users
    /\ granted \in [Users -> SUBSET Roles]
    /\ starts \in 0 .. MaxStarts

(* While the server is up with local users configured, nobody but they and   *)
(* the admin is in the store, each with the configured password: whoever     *)
(* the configuration no longer names is gone, whatever stores, sessions and  *)
(* half-done requests of earlier configurations had to say.                  *)
OnlyConfigured ==
    LET users == config.users IN
    server = "up" /\ config.auth = "local" /\ (\E u \in Users : users[u] # None) =>
       \A u \in Users : store[u] # None =>
          \/ users[u] # None /\ store[u].password = users[u].password
          \/ users[u] = None /\ u = Admin
             /\ config.admin \in {None, store[u].password}

LoggedIn(u) == \E s \in Requests : session[s] # None /\ session[s].user = u

(* Overlapping requests lose changes and bring deleted users back, but they  *)
(* mix no users: a gem token is one asked for with the claims of its user,   *)
(* who has logged in, an access token one that GitHub issued to the user, a  *)
(* role one that a configuration or an admin gave to the user, in the store  *)
(* and in the claims of every session.                                       *)
NothingIsAnothers ==
    /\ \A u \in Users : store[u] # None =>
          /\ store[u].token # None =>
                /\ LET t == req[store[u].token]
                   IN t.ask.op = "token" /\ t.ask.target = u
                /\ LoggedIn(u)
          /\ store[u].github # None =>
                LET t == req[store[u].github] IN t.ask.op = "login" /\ t.who = u
          /\ store[u].role \in granted[u]
    /\ \A s \in Requests : session[s] # None =>
          /\ session[s].role \in granted[session[s].user]
          /\ session[s].github # None =>
                req[session[s].github].who = session[s].user

(* Only requests that overlap on a user lose anything: for a user without   *)
(* such requests, since the process started, the store is as if each change *)
(* were one transaction of its own.                                         *)
LossNeedsOverlap ==
    server = "up" => \A u \in Users \ overlaps : store[u] = ledger[u]
==============================================================================
