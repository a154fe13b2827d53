--------------------------- MODULE UserStoreProofs ---------------------------
(***************************************************************************)
(* Theorems about UserStore: for any users, requests, configurations and   *)
(* starts.                                                                 *)
(***************************************************************************)
EXTENDS UserStore, TLAPS

Busy == {"authenticating", "creating", "updating", "page", "reading", "read",
         "deleting"}

(* What a handler holds at each step, and that it runs in a server that is up. *)
HandlerInv ==
    /\ server # "up" => \A r \in Requests : pc[r] \in Ended
    /\ server # "down" => config \in Configs
    /\ server \in {"admin", "users"} => config.auth = "local"
    /\ \A r \in Requests :
          /\ pc[r] \in Busy => req[r] \in Request
          /\ pc[r] \in {"authenticating", "creating", "updating"} =>
                config.auth = "github"
          /\ pc[r] \in {"page", "reading", "read", "deleting"} =>
                req[r].ask \in Asks
          /\ pc[r] \in {"page", "reading", "read"} => req[r].ask.op \in {"token", "role"}
          /\ pc[r] \in {"updating", "read"} => copy[r] \in Record

(* A user whom OnlyConfigured lets be. *)
Proper(u, user) ==
    \/ config.users[u] # None /\ user.password = config.users[u].password
    \/ config.users[u] = None /\ u = Admin /\ config.admin \in {None, user.password}

SomeConfigured == config.auth = "local" /\ \E u \in Users : config.users[u] # None

(* So is every user who is read and about to be written back, and before    *)
(* that the admin.                                                          *)
ConfiguredInv ==
    /\ server = "users" /\ store[Admin] # None =>
          config.admin \in {None, store[Admin].password}
    /\ server = "up" /\ SomeConfigured =>
          /\ \A u \in Users : store[u] # None => Proper(u, store[u])
          /\ \A r \in Requests : pc[r] = "read" => Proper(req[r].ask.target, copy[r])

(* No change of the user is lost so far, and whoever has read the user is    *)
(* alone in it and holds the user as the store does.                         *)
Alone(u) ==
    /\ store[u] = ledger[u]
    /\ \A r \in InFlight(u) : InFlight(u) \subseteq {r} /\ copy[r] = store[u]

LossInv ==
    /\ server # "down" => \A u \in Users \ overlaps : Alone(u)
    /\ server # "up" => overlaps = {}

(* An access token that GitHub issued to the user, given the requests. *)
Issued(u, t, reqs) ==
    t # None => /\ t \in Requests /\ reqs[t] # None
                /\ reqs[t].ask.op = "login" /\ reqs[t].who = u

(* A user all of whose parts are the user's own, given the requests and the  *)
(* roles.                                                                    *)
Own(u, user, reqs, roles) ==
    /\ user.token # None =>
          /\ user.token \in Requests /\ reqs[user.token] # None
          /\ reqs[user.token].ask.op = "token" /\ reqs[user.token].ask.target = u
    /\ Issued(u, user.github, reqs)
    /\ user.role \in roles[u]

(* So are the copies that will be written back, and what a login or a        *)
(* request holds; only a request that is not new has asked for anything.     *)
OwnInv ==
    /\ \A u \in Users : store[u] # None => Own(u, store[u], req, granted)
    /\ \A r \in Requests :
          /\ pc[r] = "updating" => Own(req[r].who, copy[r], req, granted)
          /\ pc[r] = "read" => Own(req[r].ask.target, copy[r], req, granted)
          /\ pc[r] = "new" => req[r] = None
          /\ req[r] # None => Issued(req[r].who, req[r].github, req)
          /\ session[r] # None =>
                /\ session[r].role \in granted[session[r].user]
                /\ Issued(session[r].user, session[r].github, req)

(* The claims that a login issues stay, and a token is asked for with them.  *)
LoginInv ==
    \A r \in Requests :
       /\ session[r] # None => pc[r] = "done"
       /\ req[r] # None /\ req[r].ask.op = "token" => LoggedIn(req[r].ask.target)
-----------------------------------------------------------------------------
LEMMA HandlerStarts ==
    ASSUME NEW op \in {"token", "role", "delete", "read", "login"}
    PROVE  /\ Handler(op) \in {"page", "reading", "deleting", "done"}
           /\ Handler(op) \in {"page", "reading"} => op \in {"token", "role"}
           /\ Handler(op) # "done" => op \in {"token", "role", "delete"}
  BY DEF Handler

LEMMA UsersTypeInit == Init => TypeOK /\ HandlerInv
  BY UsersAssumption DEF Init, TypeOK, HandlerInv, Ended, Authenticating, Busy, Record

LEMMA TypeStartUp ==
    ASSUME TypeOK, HandlerInv, StartUp
    PROVE  TypeOK' /\ HandlerInv'
  <1> USE UsersAssumption DEF TypeOK, HandlerInv
  <1>1. ASSUME NEW c \in Configs, Start(c) PROVE TypeOK' /\ HandlerInv'
    <2>1. server' \in {"admin", "up"} /\ (server' = "admin" => c.auth = "local")
      BY <1>1 DEF Start
    <2>2. \A r \in Requests : pc[r] \notin Busy
      BY <1>1 DEF Start, Ended, Busy
    <2>3. starts' \in 0 .. MaxStarts
      BY <1>1 DEF Start
    <2> QED
      BY <1>1, <2>1, <2>2, <2>3 DEF Start, Busy, Authenticating
  <1>2. ASSUME CreateAdminUserIfNotExists PROVE TypeOK' /\ HandlerInv'
    <2>1. \A p \in Passwords : LocalUser(p, "admin") \in Record
      BY DEF LocalUser, Record, Roles
    <2>2. store' \in [Users -> Record \cup {None}]
      BY <1>2, <2>1 DEF CreateAdminUserIfNotExists
    <2>3. granted' \in [Users -> SUBSET Roles]
      BY <1>2 DEF CreateAdminUserIfNotExists, Roles
    <2> QED
      BY <1>2, <2>2, <2>3 DEF CreateAdminUserIfNotExists
  <1>3. ASSUME CreateLocalUsers PROVE TypeOK' /\ HandlerInv'
    <2>1. config \in Configs
      BY <1>3 DEF CreateLocalUsers
    <2>2. \A u \in Users : config.users[u] # None =>
             /\ RoleOf(config.users[u]) \in Roles
             /\ LocalUser(config.users[u].password, RoleOf(config.users[u])) \in Record
      BY <2>1 DEF LocalUser, Record, RoleOf, Configured
    <2>3. store' \in [Users -> Record \cup {None}]
      BY <1>3, <2>2 DEF CreateLocalUsers, LocalUsers
    <2>4. granted' \in [Users -> SUBSET Roles]
      BY <1>3, <2>2 DEF CreateLocalUsers
    <2>5. \A r \in Requests : pc[r] \notin Busy
      BY <1>3 DEF CreateLocalUsers, Ended, Busy
    <2> QED
      BY <1>3, <2>3, <2>4, <2>5 DEF CreateLocalUsers, Busy
  <1> QED
    BY <1>1, <1>2, <1>3 DEF StartUp

(* Every step of a handler but the one that writes moves the handler to a    *)
(* step whose needs are met.                                                 *)
LEMMA TypeAsk ==
    ASSUME NEW r \in Requests, TypeOK, HandlerInv,
           LoginLocal(r) \/ GitHubCallback(r) \/ AskLocal(r) \/ AskGitHub(r) \/ AskAnyone(r)
    PROVE  TypeOK' /\ HandlerInv'
  <1> USE DEF TypeOK, HandlerInv
  <1>0. \A a \in Asks : a.op \in {"token", "role", "delete", "read"}
    BY DEF Asks
  <1>1. CASE LoginLocal(r)
    <2>1. session' \in [Requests -> Claims \cup {None}]
      BY <1>1 DEF LoginLocal, Claims, Record
    <2> QED
      BY <1>1, <2>1 DEF LoginLocal, GoTo, history, Ended, Busy
  <1>2. CASE GitHubCallback(r)
    <2>1. req' \in [Requests -> Request \cup {None}] /\ req'[r] \in Request
          /\ \A q \in Requests : q # r => req'[q] = req[q]
      BY <1>2 DEF GitHubCallback, Request
    <2> QED
      BY <1>2, <2>1 DEF GitHubCallback, GoTo, history, Ended, Busy, Authenticating
  <1>3. CASE AskLocal(r)
    <2>1. PICK s \in Requests, a \in Asks :
             /\ session[s] # None
             /\ req' = [req EXCEPT ![r] =
                         [who |-> session[s].user, role |-> session[s].role,
                          github |-> None, ask |-> a]]
             /\ pc' = [pc EXCEPT ![r] = Handler(a.op)]
      BY <1>3 DEF AskLocal, GoTo
    <2>2. req' \in [Requests -> Request \cup {None}] /\ req'[r] \in Request
          /\ req'[r].ask = a
          /\ \A q \in Requests : q # r => req'[q] = req[q]
      BY <2>1 DEF Request, Claims
    <2>3. /\ Handler(a.op) \in {"page", "reading", "deleting", "done"}
          /\ Handler(a.op) \in {"page", "reading"} => a.op \in {"token", "role"}
      BY <1>0, HandlerStarts
    <2> QED
      BY <1>3, <2>1, <2>2, <2>3 DEF AskLocal, history, Ended, Busy
  <1>4. CASE AskGitHub(r)
    <2>1. PICK s \in Requests, a \in Asks :
             /\ session[s] # None
             /\ req' = [req EXCEPT ![r] =
                         [who |-> session[s].user, role |-> session[s].role,
                          github |-> session[s].github, ask |-> a]]
      BY <1>4 DEF AskGitHub
    <2>2. req' \in [Requests -> Request \cup {None}] /\ req'[r] \in Request
          /\ \A q \in Requests : q # r => req'[q] = req[q]
      BY <2>1 DEF Request, Claims
    <2> QED
      BY <1>4, <2>2 DEF AskGitHub, GoTo, history, Ended, Busy
  <1>5. CASE AskAnyone(r)
    <2>1. PICK a \in Asks :
             /\ req' = [req EXCEPT ![r] =
                         [who |-> a.target, role |-> None, github |-> None, ask |-> a]]
             /\ pc' = [pc EXCEPT ![r] = Handler(a.op)]
      BY <1>5 DEF AskAnyone, GoTo
    <2>2. req' \in [Requests -> Request \cup {None}] /\ req'[r] \in Request
          /\ req'[r].ask = a
          /\ \A q \in Requests : q # r => req'[q] = req[q]
      BY <2>1 DEF Request, Asks
    <2>3. /\ Handler(a.op) \in {"page", "reading", "deleting", "done"}
          /\ Handler(a.op) \in {"page", "reading"} => a.op \in {"token", "role"}
      BY <1>0, HandlerStarts
    <2> QED
      BY <1>5, <2>1, <2>2, <2>3 DEF AskAnyone, history, Ended, Busy
  <1> QED
    BY <1>1, <1>2, <1>3, <1>4, <1>5

(* What authentication does when it lets the request on. *)
LEMMA TypeAuthenticated ==
    ASSUME NEW r \in Requests, NEW user \in Record, TypeOK, HandlerInv,
           pc[r] \in {"authenticating", "creating", "updating"},
           Authenticated(r, user)
    PROVE  /\ session' \in [Requests -> Claims \cup {None}]
           /\ \E l \in {"page", "reading", "deleting", "done", "failed"} :
                 /\ pc' = [pc EXCEPT ![r] = l]
                 /\ l \in {"page", "reading", "deleting"} => req[r].ask \in Asks
                 /\ l \in {"page", "reading"} => req[r].ask.op \in {"token", "role"}
  <1>1. req[r] \in Request
    BY DEF HandlerInv, Busy
  <1>2. CASE req[r].ask.op = "login"
    <2>1. session' = [session EXCEPT ![r] =
                        [user |-> req[r].who, role |-> user.role, github |-> user.github]]
          /\ pc' = [pc EXCEPT ![r] = "done"]
      BY <1>2 DEF Authenticated, GoTo
    <2>2. [user |-> req[r].who, role |-> user.role, github |-> user.github] \in Claims
      BY <1>1 DEF Claims, Request, Record
    <2> QED
      BY <2>1, <2>2 DEF TypeOK
  <1>3. CASE req[r].ask.op # "login"
    <2>1. req[r].ask \in Asks /\ req[r].ask.op \in {"token", "role", "delete", "read"}
      BY <1>1, <1>3 DEF Request, Asks
    <2>2. /\ session' = session
          /\ pc' \in {[pc EXCEPT ![r] = Handler(req[r].ask.op)],
                     [pc EXCEPT ![r] = "failed"]}
      BY <1>3 DEF Authenticated, GoTo
    <2> QED
      BY <2>1, <2>2, HandlerStarts DEF TypeOK
  <1> QED
    BY <1>2, <1>3

LEMMA TypeGitHub ==
    ASSUME NEW r \in Requests, TypeOK, HandlerInv,
           ReadGitHubUser(r) \/ CreateGitHubUser(r) \/ UpdateGitHubUser(r)
    PROVE  TypeOK' /\ HandlerInv'
  <1>0. /\ req[r] \in Request /\ config.auth = "github"
        /\ server = "up" /\ config \in Configs
        /\ Newcomer(r) \in Record
    <2>1. pc[r] \in {"authenticating", "creating", "updating"}
      BY DEF ReadGitHubUser, CreateGitHubUser, UpdateGitHubUser
    <2>2. req[r] \in Request /\ config.auth = "github" /\ server = "up"
      BY <2>1 DEF HandlerInv, Busy, Ended
    <2>3. config \in Configs
      BY <2>2 DEF HandlerInv
    <2> QED
      BY <2>2, <2>3, UsersAssumption DEF Newcomer, Record, Request
  <1>1. CASE ReadGitHubUser(r)
    <2>1. /\ pc[r] = "authenticating"
          /\ copy' = [copy EXCEPT ![r] = store[req[r].who]]
          /\ overlaps' \subseteq Users
          /\ UNCHANGED <<store, config, server, req, ledger, granted, starts>>
      BY <1>0, <1>1 DEF ReadGitHubUser, Meets, TypeOK, Request
    <2>2. copy' \in [Requests -> Record \cup {None}]
      BY <1>0, <2>1 DEF TypeOK, Request
    <2>3. /\ session' \in [Requests -> Claims \cup {None}]
          /\ \E l \in {"creating", "updating", "page", "reading", "deleting",
                        "done", "failed"} :
                /\ pc' = [pc EXCEPT ![r] = l]
                /\ l \in {"page", "reading", "deleting"} => req[r].ask \in Asks
                /\ l \in {"page", "reading"} => req[r].ask.op \in {"token", "role"}
                /\ l = "updating" => copy'[r] \in Record
      <3>1. CASE store[req[r].who] = None
        BY <1>1, <3>1 DEF ReadGitHubUser, GoTo, TypeOK
      <3>2. CASE store[req[r].who] # None
        <4>1. store[req[r].who] \in Record /\ copy'[r] \in Record
          BY <1>0, <2>1, <3>2 DEF TypeOK, Request
        <4>2. CASE store[req[r].who].github # req[r].github
          BY <1>1, <3>2, <4>1, <4>2 DEF ReadGitHubUser, GoTo, TypeOK
        <4>3. CASE store[req[r].who].github = req[r].github
          BY <1>1, <2>1, <3>2, <4>1, <4>3, TypeAuthenticated DEF ReadGitHubUser
        <4> QED
          BY <4>2, <4>3
      <3> QED
        BY <3>1, <3>2
    <2> QED
      BY <1>0, <2>1, <2>2, <2>3 DEF TypeOK, HandlerInv, Ended, Busy, Authenticating
  <1>2. CASE CreateGitHubUser(r)
    <2>1. /\ pc[r] = "creating"
          /\ Authenticated(r, Newcomer(r))
          /\ store' = [store EXCEPT ![req[r].who] = Newcomer(r)]
          /\ ledger' = [ledger EXCEPT ![req[r].who] = Newcomer(r)]
          /\ granted' = [granted EXCEPT ![req[r].who] = @ \cup {config.defaultRole}]
          /\ UNCHANGED <<config, server, req, copy, overlaps, starts>>
      BY <1>2 DEF CreateGitHubUser
    <2>2. config.defaultRole \in Roles
      BY <1>0, UsersAssumption
    <2>3. PICK l \in {"page", "reading", "deleting", "done", "failed"} :
             /\ pc' = [pc EXCEPT ![r] = l]
             /\ l \in {"page", "reading", "deleting"} => req[r].ask \in Asks
             /\ l \in {"page", "reading"} => req[r].ask.op \in {"token", "role"}
      BY <1>0, <2>1, TypeAuthenticated
    <2>4. session' \in [Requests -> Claims \cup {None}]
      BY <1>0, <2>1, TypeAuthenticated
    <2> QED
      BY <1>0, <2>1, <2>2, <2>3, <2>4
         DEF TypeOK, HandlerInv, Ended, Busy, Authenticating
  <1>3. CASE UpdateGitHubUser(r)
    <2> DEFINE user == [copy[r] EXCEPT !.github = req[r].github]
    <2>1. /\ pc[r] = "updating"
          /\ Authenticated(r, user)
          /\ store' = [store EXCEPT ![req[r].who] = user]
          /\ ledger' = [ledger EXCEPT ![req[r].who] =
                          IF @ = None THEN None ELSE [@ EXCEPT !.github = req[r].github]]
          /\ UNCHANGED <<config, server, req, copy, overlaps, granted, starts>>
      BY <1>3 DEF UpdateGitHubUser
    <2>2. user \in Record
      <3>1. copy[r] \in Record
        BY <2>1 DEF HandlerInv
      <3> QED
        BY <1>0, <3>1 DEF Record, Request
    <2>3. ledger' \in [Users -> Record \cup {None}]
      BY <1>0, <2>1 DEF TypeOK, Record, Request
    <2> HIDE DEF user
    <2>4. PICK l \in {"page", "reading", "deleting", "done", "failed"} :
             /\ pc' = [pc EXCEPT ![r] = l]
             /\ l \in {"page", "reading", "deleting"} => req[r].ask \in Asks
             /\ l \in {"page", "reading"} => req[r].ask.op \in {"token", "role"}
      BY <2>1, <2>2, TypeAuthenticated
    <2>5. session' \in [Requests -> Claims \cup {None}]
      BY <2>1, <2>2, TypeAuthenticated
    <2> QED
      BY <1>0, <2>1, <2>2, <2>3, <2>4, <2>5
         DEF TypeOK, HandlerInv, Ended, Busy, Authenticating
  <1> QED
    BY <1>1, <1>2, <1>3

LEMMA TypeChange ==
    ASSUME NEW r \in Requests, TypeOK, HandlerInv,
           OpenTokensPage(r) \/ ReadUser(r) \/ WriteUser(r) \/ DeleteUser(r)
    PROVE  TypeOK' /\ HandlerInv'
  <1>0. pc[r] \in {"page", "reading", "read", "deleting"}
    BY DEF OpenTokensPage, ReadUser, WriteUser, DeleteUser
  <1>1. /\ req[r] \in Request /\ req[r].ask \in Asks /\ req[r].ask.target \in Users
        /\ server = "up"
    BY <1>0 DEF HandlerInv, Asks, Ended, Busy
  <1>2. CASE OpenTokensPage(r)
    <2>1. \E l \in {"failed", "done", "reading"} : pc' = [pc EXCEPT ![r] = l]
      BY <1>2 DEF OpenTokensPage, GoTo
    <2> QED
      BY <1>1, <1>2, <2>1
         DEF OpenTokensPage, history, TypeOK, HandlerInv, Ended, Busy
  <1>3. CASE ReadUser(r)
    <2>1. overlaps' \subseteq Users
      BY <1>1, <1>3 DEF ReadUser, Meets, TypeOK
    <2>2. /\ copy' \in [Requests -> Record \cup {None}]
          /\ pc' \in {[pc EXCEPT ![r] = "failed"], [pc EXCEPT ![r] = "read"]}
          /\ pc' = [pc EXCEPT ![r] = "read"] => copy'[r] \in Record
          /\ \A q \in Requests : q # r => copy'[q] = copy[q]
      BY <1>1, <1>3 DEF ReadUser, GoTo, TypeOK
    <2> QED
      BY <1>1, <1>3, <2>1, <2>2 DEF ReadUser, TypeOK, HandlerInv, Ended, Busy
  <1>4. CASE WriteUser(r)
    <2>1. copy[r] \in Record /\ req[r].ask.op \in {"token", "role"}
      BY <1>4 DEF WriteUser, HandlerInv
    <2>2. ASSUME NEW user \in Record, req[r].ask.op = "role" => req[r].ask.role # None
          PROVE  Changed(r, user) \in Record
      <3>1. CASE req[r].ask.op = "token"
        BY <3>1 DEF Changed, Record
      <3>2. CASE req[r].ask.op # "token"
        <4>1. req[r].ask.role \in Roles
          BY <1>1, <2>1, <2>2, <3>2 DEF Asks
        <4> QED
          BY <3>2, <4>1 DEF Changed, Record
      <3> QED
        BY <3>1, <3>2
    <2>3. CASE req[r].ask.op = "role" /\ req[r].ask.role = None
      BY <1>1, <1>4, <2>3 DEF WriteUser, GoTo, TypeOK, HandlerInv, Ended, Busy
    <2>4. CASE ~(req[r].ask.op = "role" /\ req[r].ask.role = None)
      <3>1. /\ store' = [store EXCEPT ![req[r].ask.target] = Changed(r, copy[r])]
            /\ ledger' = [ledger EXCEPT ![req[r].ask.target] =
                            IF @ = None THEN None ELSE Changed(r, @)]
            /\ granted' = [granted EXCEPT ![req[r].ask.target] =
                             @ \cup ({req[r].ask.role} \cap Roles)]
            /\ pc' = [pc EXCEPT ![r] = "done"]
            /\ UNCHANGED <<config, server, req, copy, session, overlaps, starts>>
        BY <1>4, <2>4 DEF WriteUser, GoTo
      <3>2. store' \in [Users -> Record \cup {None}]
        BY <1>1, <2>1, <2>2, <2>4, <3>1 DEF TypeOK
      <3>3. ledger' \in [Users -> Record \cup {None}]
        BY <1>1, <2>2, <2>4, <3>1 DEF TypeOK
      <3> QED
        BY <1>1, <3>1, <3>2, <3>3 DEF TypeOK, HandlerInv, Ended, Busy
    <2> QED
      BY <2>3, <2>4
  <1>5. CASE DeleteUser(r)
    <2>1. overlaps' \subseteq Users
      BY <1>1, <1>5 DEF DeleteUser, Meets, TypeOK
    <2> QED
      BY <1>1, <1>5, <2>1 DEF DeleteUser, GoTo, TypeOK, HandlerInv, Ended, Busy
  <1> QED
    BY <1>2, <1>3, <1>4, <1>5

LEMMA UsersTypeStep == TypeOK /\ HandlerInv /\ [Next]_vars => TypeOK' /\ HandlerInv'
  <1> SUFFICES ASSUME TypeOK, HandlerInv, [Next]_vars PROVE TypeOK' /\ HandlerInv'
    OBVIOUS
  <1>1. CASE StartUp
    BY <1>1, TypeStartUp
  <1>2. CASE Stop
    BY <1>2 DEF Stop, TypeOK, HandlerInv, Ended, Busy, Authenticating
  <1>3. ASSUME NEW r \in Requests, Handle(r) PROVE TypeOK' /\ HandlerInv'
    BY <1>3, TypeAsk, TypeGitHub, TypeChange DEF Handle
  <1>4. CASE UNCHANGED vars
    BY <1>4 DEF vars, history, TypeOK, HandlerInv
  <1> QED
    BY <1>1, <1>2, <1>3, <1>4 DEF Next

(* No start, request or restart leads the store out of its types: above all *)
(* only valid roles are written, and only a user that was read.             *)
THEOREM UsersTypeCorrect == Spec => []TypeOK
  <1>1. TypeOK /\ HandlerInv /\ [Next]_vars => TypeOK' /\ HandlerInv'
    BY UsersTypeStep
  <1> QED
    BY UsersTypeInit, <1>1, PTL DEF Spec

-----------------------------------------------------------------------------
(* The configured users.                                                   *)

LEMMA ConfiguredStartUp ==
    ASSUME TypeOK, HandlerInv, ConfiguredInv, StartUp
    PROVE  ConfiguredInv'
  <1>1. ASSUME NEW c \in Configs, Start(c) PROVE ConfiguredInv'
    BY <1>1 DEF Start, ConfiguredInv, SomeConfigured
  <1>2. ASSUME CreateAdminUserIfNotExists PROVE ConfiguredInv'
    BY <1>2, UsersAssumption
       DEF CreateAdminUserIfNotExists, ConfiguredInv, LocalUser, TypeOK
  <1>3. ASSUME CreateLocalUsers PROVE ConfiguredInv'
    <2>1. server = "users" /\ server' = "up" /\ config' = config /\ pc' = pc
          /\ store' = LocalUsers(config.users)
      BY <1>3 DEF CreateLocalUsers
    <2>2. \A r \in Requests : pc'[r] # "read"
      BY <2>1 DEF HandlerInv, Ended
    <2>3. ASSUME SomeConfigured, NEW u \in Users, store'[u] # None
          PROVE  Proper(u, store'[u])
      <3>1. store'[u] = IF config.users[u] # None
                        THEN LocalUser(config.users[u].password, RoleOf(config.users[u]))
                        ELSE IF u = Admin THEN store[u] ELSE None
        BY <2>1, <2>3 DEF LocalUsers, SomeConfigured
      <3>2. CASE config.users[u] # None
        BY <3>1, <3>2 DEF Proper, LocalUser
      <3>3. CASE config.users[u] = None
        BY <2>1, <2>3, <3>1, <3>3 DEF Proper, ConfiguredInv
      <3> QED
        BY <3>2, <3>3
    <2> QED
      BY <2>1, <2>2, <2>3 DEF ConfiguredInv, SomeConfigured, Proper
  <1> QED
    BY <1>1, <1>2, <1>3 DEF StartUp

(* A step of a handler in a running server. *)
LEMMA HandleRuns ==
    ASSUME NEW r \in Requests, TypeOK, HandlerInv, Handle(r)
    PROVE  /\ server = "up" /\ server' = "up" /\ config' = config
           /\ starts' = starts
           /\ \A q \in Requests \ {r} : copy'[q] = copy[q]
  <1>1. server = "up"
    BY DEF HandlerInv, Ended, Handle, LoginLocal, GitHubCallback, AskLocal,
           AskGitHub, AskAnyone, ReadGitHubUser, CreateGitHubUser,
           UpdateGitHubUser, OpenTokensPage, ReadUser, WriteUser, DeleteUser
  <1>2. server' = server /\ config' = config /\ starts' = starts
    BY DEF Handle, LoginLocal, GitHubCallback, AskLocal, AskGitHub, AskAnyone,
           ReadGitHubUser, CreateGitHubUser, UpdateGitHubUser, OpenTokensPage,
           ReadUser, WriteUser, DeleteUser, history
  <1>3. copy' = copy \/ \E user : copy' = [copy EXCEPT ![r] = user]
    BY DEF Handle, LoginLocal, GitHubCallback, AskLocal, AskGitHub, AskAnyone,
           ReadGitHubUser, CreateGitHubUser, UpdateGitHubUser, OpenTokensPage,
           ReadUser, WriteUser, DeleteUser
  <1>4. \A q \in Requests \ {r} : copy'[q] = copy[q]
    BY <1>3 DEF TypeOK
  <1> QED
    BY <1>1, <1>2, <1>4

(* A step of one handler leaves the others where they are. *)
LEMMA HandleMoves ==
    ASSUME NEW r \in Requests, TypeOK, HandlerInv, Handle(r)
    PROVE  \A q \in Requests \ {r} : pc'[q] = pc[q] /\ req'[q] = req[q]
  <1>1. \A q \in Requests \ {r} : req'[q] = req[q]
    BY DEF Handle, LoginLocal, GitHubCallback, AskLocal, AskGitHub, AskAnyone,
           ReadGitHubUser, CreateGitHubUser, UpdateGitHubUser, OpenTokensPage,
           ReadUser, WriteUser, DeleteUser, TypeOK
  <1>2. \E l : pc' = [pc EXCEPT ![r] = l]
    <2>1. CASE LoginLocal(r) \/ GitHubCallback(r) \/ AskLocal(r) \/ AskGitHub(r)
               \/ AskAnyone(r)
      BY <2>1 DEF LoginLocal, GitHubCallback, AskLocal, AskGitHub, AskAnyone, GoTo
    <2>2. CASE OpenTokensPage(r) \/ ReadUser(r) \/ WriteUser(r) \/ DeleteUser(r)
      BY <2>2 DEF OpenTokensPage, ReadUser, WriteUser, DeleteUser, GoTo
    <2>3. ASSUME NEW user, Authenticated(r, user)
          PROVE  \E l : pc' = [pc EXCEPT ![r] = l]
      BY <2>3 DEF Authenticated, GoTo
    <2>4. CASE ReadGitHubUser(r)
      BY <2>3, <2>4 DEF ReadGitHubUser, GoTo
    <2>5. CASE CreateGitHubUser(r) \/ UpdateGitHubUser(r)
      BY <2>3, <2>5 DEF CreateGitHubUser, UpdateGitHubUser
    <2> QED
      BY <2>1, <2>2, <2>4, <2>5 DEF Handle
  <1> QED
    BY <1>1, <1>2 DEF TypeOK

LEMMA ConfiguredHandle ==
    ASSUME NEW r \in Requests, TypeOK, HandlerInv, ConfiguredInv, Handle(r)
    PROVE  ConfiguredInv'
  <1>1. /\ server = "up" /\ server' = "up" /\ config' = config
        /\ \A q \in Requests \ {r} :
              pc'[q] = pc[q] /\ req'[q] = req[q] /\ copy'[q] = copy[q]
    BY HandleRuns, HandleMoves
  <1> SUFFICES ASSUME SomeConfigured
               PROVE  /\ \A u \in Users : store'[u] # None => Proper(u, store'[u])
                      /\ pc'[r] = "read" => Proper(req'[r].ask.target, copy'[r])
    BY <1>1 DEF ConfiguredInv, SomeConfigured, Proper
  <1>2. config.auth = "local"
    BY DEF SomeConfigured
  <1>3. CASE LoginLocal(r) \/ GitHubCallback(r) \/ AskLocal(r) \/ AskGitHub(r)
             \/ AskAnyone(r) \/ OpenTokensPage(r)
    <2>1. store' = store
      BY <1>3 DEF LoginLocal, GitHubCallback, AskLocal, AskGitHub, AskAnyone,
                  OpenTokensPage
    <2>2. pc'[r] # "read"
      BY <1>2, <1>3
         DEF LoginLocal, GitHubCallback, AskLocal, AskGitHub, AskAnyone,
             OpenTokensPage, GoTo, TypeOK, Handler, Asks
    <2> QED
      BY <1>1, <2>1, <2>2 DEF ConfiguredInv
  <1>4. CASE ReadUser(r)
    <2>1. store' = store
          /\ (pc'[r] = "read" => /\ store[req[r].ask.target] # None
                                 /\ copy'[r] = store[req[r].ask.target]
                                 /\ req'[r] = req[r])
      BY <1>4 DEF ReadUser, GoTo, TypeOK
    <2>2. req[r].ask.target \in Users
      BY <1>4 DEF ReadUser, HandlerInv, Asks
    <2> QED
      BY <1>1, <2>1, <2>2 DEF ConfiguredInv
  <1>5. CASE WriteUser(r)
    <2>1. Proper(req[r].ask.target, copy[r]) /\ copy[r] \in Record
          /\ req[r].ask.target \in Users
      BY <1>1, <1>5 DEF WriteUser, ConfiguredInv, HandlerInv, Asks
    <2>2. Changed(r, copy[r]).password = copy[r].password
      BY <2>1 DEF Changed, Record
    <2>3. \A u \in Users :
             \/ store'[u] = store[u]
             \/ u = req[r].ask.target /\ store'[u] = Changed(r, copy[r])
      <3>1. \/ store' = store
            \/ store' = [store EXCEPT ![req[r].ask.target] = Changed(r, copy[r])]
        BY <1>5 DEF WriteUser
      <3>2. store \in [Users -> Record \cup {None}]
        BY DEF TypeOK
      <3> HIDE DEF Record
      <3> QED
        BY <3>1, <3>2
    <2>4. pc'[r] # "read"
      BY <1>5 DEF WriteUser, GoTo, TypeOK
    <2> QED
      BY <1>1, <2>1, <2>2, <2>3, <2>4 DEF ConfiguredInv, Proper
  <1>6. CASE DeleteUser(r)
    <2>1. pc'[r] # "read" /\ \A u \in Users : store'[u] \in {None, store[u]}
      BY <1>6 DEF DeleteUser, GoTo, TypeOK
    <2> QED
      BY <1>1, <2>1 DEF ConfiguredInv
  <1>7. ~(ReadGitHubUser(r) \/ CreateGitHubUser(r) \/ UpdateGitHubUser(r))
    BY <1>2 DEF ReadGitHubUser, CreateGitHubUser, UpdateGitHubUser, HandlerInv
  <1> QED
    BY <1>3, <1>4, <1>5, <1>6, <1>7 DEF Handle

LEMMA ConfiguredStep ==
    ASSUME TypeOK, HandlerInv, ConfiguredInv, [Next]_vars
    PROVE  ConfiguredInv'
  <1>1. CASE Stop
    BY <1>1 DEF Stop, ConfiguredInv
  <1>2. CASE UNCHANGED vars
    BY <1>2 DEF vars, ConfiguredInv, SomeConfigured, Proper
  <1> QED
    BY <1>1, <1>2, ConfiguredStartUp, ConfiguredHandle DEF Next

(* Once the server is up with local users configured, only they and the     *)
(* admin can log in, with the configured passwords: no store, session or    *)
(* half-done request from before brings anybody else back.                  *)
THEOREM UsersAreConfigured == Spec => []OnlyConfigured
  <1> DEFINE Inv == TypeOK /\ HandlerInv /\ ConfiguredInv
  <1>1. Init => Inv
    BY UsersTypeInit DEF Init, ConfiguredInv
  <1>2. Inv /\ [Next]_vars => Inv'
    BY UsersTypeStep, ConfiguredStep
  <1>3. Inv => OnlyConfigured
    BY DEF ConfiguredInv, SomeConfigured, OnlyConfigured, Proper
  <1> QED
    BY <1>1, <1>2, <1>3, PTL DEF Spec

-----------------------------------------------------------------------------
(* Lost changes.                                                           *)

(* A user stays as one transaction per change would leave the user if a step *)
(* neither changes nor reads the user, if it reads the user alone, or if it  *)
(* is alone and writes the same to the store and to the ledger.              *)
LEMMA StaysAlone ==
    ASSUME NEW r \in Requests, NEW u \in Users, Alone(u),
           \A q \in Requests \ {r} :
              pc'[q] = pc[q] /\ req'[q] = req[q] /\ copy'[q] = copy[q],
           \/ /\ r \notin InFlight(u)'
              /\ store'[u] = store[u] /\ ledger'[u] = ledger[u]
           \/ /\ InFlight(u) \subseteq {r}
              /\ store'[u] = ledger'[u]
              /\ r \in InFlight(u)' => copy'[r] = store'[u]
    PROVE  Alone(u)'
  <1>1. \A q \in Requests \ {r} : q \in InFlight(u)' <=> q \in InFlight(u)
    BY DEF InFlight, Subject
  <1>2. InFlight(u) \subseteq Requests /\ InFlight(u)' \subseteq Requests
    BY DEF InFlight
  <1>3. CASE r \notin InFlight(u)' /\ store'[u] = store[u] /\ ledger'[u] = ledger[u]
    BY <1>1, <1>2, <1>3 DEF Alone
  <1>4. CASE /\ InFlight(u) \subseteq {r}
             /\ store'[u] = ledger'[u]
             /\ r \in InFlight(u)' => copy'[r] = store'[u]
    BY <1>1, <1>2, <1>4 DEF Alone
  <1> QED
    BY <1>3, <1>4

(* Where authentication leads to is no place between a read and a write. *)
LEMMA LossAuthenticated ==
    ASSUME NEW r \in Requests, NEW user \in Record, TypeOK, HandlerInv,
           pc[r] \in {"authenticating", "creating", "updating"},
           Authenticated(r, user), NEW u
    PROVE  r \notin InFlight(u)'
  BY TypeAuthenticated DEF TypeOK, InFlight, Authenticating

LEMMA LossGitHub ==
    ASSUME NEW r \in Requests, TypeOK, HandlerInv, LossInv,
           ReadGitHubUser(r) \/ CreateGitHubUser(r) \/ UpdateGitHubUser(r),
           NEW u \in Users \ overlaps', Alone(u)
    PROVE  Alone(u)'
  <1>1. \A q \in Requests \ {r} :
           pc'[q] = pc[q] /\ req'[q] = req[q] /\ copy'[q] = copy[q]
    BY HandleRuns, HandleMoves DEF Handle
  <1>2. /\ pc[r] \in {"authenticating", "creating", "updating"}
        /\ req[r] \in Request /\ req[r].who \in Users
    <2>1. pc[r] \in {"authenticating", "creating", "updating"}
      BY DEF ReadGitHubUser, CreateGitHubUser, UpdateGitHubUser
    <2> QED
      BY <2>1 DEF HandlerInv, Busy, Request
  <1>3. CASE ReadGitHubUser(r)
    <2>1. /\ store' = store /\ ledger' = ledger /\ req' = req
          /\ copy'[r] = store[req[r].who]
      BY <1>3 DEF ReadGitHubUser, TypeOK
    <2>2. CASE r \notin InFlight(u)'
      BY <1>1, <2>1, <2>2, StaysAlone
    <2>3. CASE r \in InFlight(u)'
      <3>1. ASSUME store[req[r].who] # None, Authenticated(r, store[req[r].who])
            PROVE  FALSE
        <4>1. store[req[r].who] \in Record
          BY <1>2, <3>1 DEF TypeOK
        <4> QED
          BY <1>2, <2>3, <3>1, <4>1, LossAuthenticated
      <3>2. Meets(r, req[r].who) /\ pc' \in {[pc EXCEPT ![r] = "creating"],
                                             [pc EXCEPT ![r] = "updating"]}
        BY <1>3, <3>1 DEF ReadGitHubUser, GoTo
      <3>3. req[r].who = u
        BY <2>1, <2>3, <3>2 DEF InFlight, Subject, TypeOK
      <3>4. InFlight(u) \subseteq {r}
        BY <3>2, <3>3 DEF Meets
      <3> QED
        BY <1>1, <2>1, <3>3, <3>4, StaysAlone DEF Alone
    <2> QED
      BY <2>2, <2>3
  <1>4. CASE CreateGitHubUser(r) \/ UpdateGitHubUser(r)
    <2>1. PICK user \in Record :
             /\ Authenticated(r, user)
             /\ store' = [store EXCEPT ![req[r].who] = user]
             /\ \/ ledger' = [ledger EXCEPT ![req[r].who] = user]
                \/ /\ copy[r] # None
                   /\ user = [copy[r] EXCEPT !.github = req[r].github]
                   /\ ledger' = [ledger EXCEPT ![req[r].who] =
                        IF @ = None THEN None
                        ELSE [@ EXCEPT !.github = req[r].github]]
      <3>1. config \in Configs
        BY <1>2 DEF HandlerInv, Ended
      <3>2. Newcomer(r) \in Record
        BY <1>2, <3>1, UsersAssumption DEF Newcomer, Record, Request
      <3>3. CASE CreateGitHubUser(r)
        BY <3>2, <3>3 DEF CreateGitHubUser
      <3>4. CASE UpdateGitHubUser(r)
        <4>1. copy[r] \in Record
          BY <3>4 DEF UpdateGitHubUser, HandlerInv
        <4>2. [copy[r] EXCEPT !.github = req[r].github] \in Record
          BY <1>2, <4>1 DEF Record, Request
        <4>3. copy[r] # None
          BY <4>1, UsersAssumption DEF Record
        <4> QED
          BY <3>4, <4>2, <4>3 DEF UpdateGitHubUser
      <3> QED
        BY <1>4, <3>3, <3>4
    <2>2. r \notin InFlight(u)'
      BY <1>2, <2>1, LossAuthenticated
    <2>3. CASE req[r].who # u
      <3>1. store'[u] = store[u] /\ ledger'[u] = ledger[u]
        BY <2>1, <2>3 DEF TypeOK
      <3> QED
        BY <1>1, <2>2, <3>1, StaysAlone
    <2>4. CASE req[r].who = u
      <3>1. r \in InFlight(u)
        BY <1>4, <2>4 DEF InFlight, Subject, Authenticating, CreateGitHubUser,
                          UpdateGitHubUser
      <3>2. InFlight(u) \subseteq {r} /\ copy[r] = ledger[u]
        BY <3>1 DEF Alone
      <3>3. store'[u] = ledger'[u]
        BY <1>2, <2>1, <2>4, <3>2 DEF TypeOK
      <3> QED
        BY <1>1, <2>2, <3>2, <3>3, StaysAlone
    <2> QED
      BY <2>3, <2>4
  <1> QED
    BY <1>3, <1>4

LEMMA LossChange ==
    ASSUME NEW r \in Requests, TypeOK, HandlerInv, LossInv,
           ReadUser(r) \/ WriteUser(r) \/ DeleteUser(r),
           NEW u \in Users \ overlaps', Alone(u)
    PROVE  Alone(u)'
  <1>1. \A q \in Requests \ {r} :
           pc'[q] = pc[q] /\ req'[q] = req[q] /\ copy'[q] = copy[q]
    BY HandleRuns, HandleMoves DEF Handle
  <1>2. req[r].ask.target \in Users /\ req' = req
    <2>1. req[r].ask \in Asks
      BY DEF ReadUser, WriteUser, DeleteUser, HandlerInv
    <2> QED
      BY <2>1 DEF Asks, ReadUser, WriteUser, DeleteUser
  <1> DEFINE target == req[r].ask.target
  <1>3. CASE ReadUser(r)
    <2>1. CASE pc' = [pc EXCEPT ![r] = "failed"]
      <3>1. r \notin InFlight(u)'
        BY <2>1 DEF InFlight, Authenticating, TypeOK
      <3> QED
        BY <1>1, <1>3, <3>1, StaysAlone DEF ReadUser
    <2>2. CASE pc' # [pc EXCEPT ![r] = "failed"]
      <3>1. /\ pc' = [pc EXCEPT ![r] = "read"]
            /\ copy' = [copy EXCEPT ![r] = store[target]]
            /\ Meets(r, target)
            /\ UNCHANGED <<store, ledger>>
        BY <1>3, <2>2 DEF ReadUser, GoTo
      <3>2. CASE target # u
        <4>1. r \notin InFlight(u)'
          BY <1>2, <3>1, <3>2 DEF InFlight, Subject, Authenticating, TypeOK
        <4> QED
          BY <1>1, <3>1, <4>1, StaysAlone
      <3>3. CASE target = u
        <4>1. InFlight(u) \subseteq {r}
          BY <3>1, <3>3 DEF Meets
        <4>2. copy'[r] = store'[u] /\ store'[u] = ledger'[u]
          BY <3>1, <3>3 DEF Alone, TypeOK
        <4> QED
          BY <1>1, <4>1, <4>2, StaysAlone
      <3> QED
        BY <3>2, <3>3
    <2> QED
      BY <2>1, <2>2
  <1>4. CASE WriteUser(r)
    <2>1. /\ pc[r] = "read"
          /\ pc' \in {[pc EXCEPT ![r] = "failed"], [pc EXCEPT ![r] = "done"]}
          /\ \/ UNCHANGED <<store, ledger>>
             \/ /\ store' = [store EXCEPT ![target] = Changed(r, copy[r])]
                /\ ledger' = [ledger EXCEPT ![target] =
                                IF @ = None THEN None ELSE Changed(r, @)]
      BY <1>4 DEF WriteUser, GoTo
    <2>2. r \notin InFlight(u)'
      BY <2>1 DEF InFlight, Authenticating, TypeOK
    <2>3. CASE target # u
      <3>1. store'[u] = store[u] /\ ledger'[u] = ledger[u]
        BY <2>1, <2>3 DEF TypeOK
      <3> QED
        BY <1>1, <2>2, <3>1, StaysAlone
    <2>4. CASE target = u
      <3>1. r \in InFlight(u)
        BY <2>1, <2>4 DEF InFlight, Subject, Authenticating
      <3>2. InFlight(u) \subseteq {r} /\ copy[r] = ledger[u] /\ store[u] = ledger[u]
        BY <3>1 DEF Alone
      <3>3. copy[r] # None
        BY <2>1, UsersAssumption DEF HandlerInv, Record
      <3>4. store'[u] = ledger'[u]
        BY <1>2, <2>1, <2>4, <3>2, <3>3 DEF TypeOK
      <3> QED
        BY <1>1, <2>2, <3>2, <3>4, StaysAlone
    <2> QED
      BY <2>3, <2>4
  <1>5. CASE DeleteUser(r)
    <2>1. /\ pc' = [pc EXCEPT ![r] = "done"]
          /\ store' = [store EXCEPT ![target] = None]
          /\ ledger' = [ledger EXCEPT ![target] = None]
          /\ Meets(r, target)
      BY <1>5 DEF DeleteUser, GoTo
    <2>2. r \notin InFlight(u)'
      BY <2>1 DEF InFlight, Authenticating, TypeOK
    <2>3. CASE target # u
      <3>1. store'[u] = store[u] /\ ledger'[u] = ledger[u]
        BY <2>1, <2>3 DEF TypeOK
      <3> QED
        BY <1>1, <2>2, <3>1, StaysAlone
    <2>4. CASE target = u
      <3>1. InFlight(u) \subseteq {r} /\ store'[u] = ledger'[u]
        BY <2>1, <2>4 DEF Meets, TypeOK
      <3> QED
        BY <1>1, <2>2, <3>1, StaysAlone
    <2> QED
      BY <2>3, <2>4
  <1> QED
    BY <1>3, <1>4, <1>5

LEMMA LossAsk ==
    ASSUME NEW r \in Requests, TypeOK, HandlerInv, LossInv,
           \/ LoginLocal(r) \/ GitHubCallback(r)
           \/ AskLocal(r) \/ AskGitHub(r) \/ AskAnyone(r)
           \/ OpenTokensPage(r),
           NEW u \in Users \ overlaps', Alone(u)
    PROVE  Alone(u)'
  <1>1. \A q \in Requests \ {r} :
           pc'[q] = pc[q] /\ req'[q] = req[q] /\ copy'[q] = copy[q]
    BY HandleRuns, HandleMoves DEF Handle
  <1>2. pc'[r] \in {"authenticating", "page", "reading", "deleting", "done", "failed"}
    <2>1. \A a \in Asks : Handler(a.op) \in {"page", "reading", "deleting", "done"}
      BY HandlerStarts DEF Asks
    <2>2. CASE AskLocal(r) \/ AskAnyone(r)
      <3>1. PICK a \in Asks : pc' = [pc EXCEPT ![r] = Handler(a.op)]
        BY <2>2 DEF AskLocal, AskAnyone, GoTo
      <3> QED
        BY <2>1, <3>1 DEF TypeOK
    <2>3. CASE \/ LoginLocal(r) \/ GitHubCallback(r) \/ AskGitHub(r)
               \/ OpenTokensPage(r)
      BY <2>3 DEF LoginLocal, GitHubCallback, AskGitHub, OpenTokensPage, GoTo, TypeOK
    <2> QED
      BY <2>2, <2>3
  <1>3. r \notin InFlight(u)'
    BY <1>2 DEF InFlight, Authenticating
  <1>4. store' = store /\ ledger' = ledger
    BY DEF LoginLocal, GitHubCallback, AskLocal, AskGitHub, AskAnyone,
           OpenTokensPage, history
  <1> QED
    BY <1>1, <1>3, <1>4, StaysAlone

LEMMA LossStartUp ==
    ASSUME TypeOK, HandlerInv, LossInv, StartUp
    PROVE  LossInv'
  <1>1. server # "up" /\ overlaps' = {} /\ store' = ledger' /\ pc' = pc
    BY DEF StartUp, Start, CreateAdminUserIfNotExists, CreateLocalUsers, LossInv
  <1>2. \A u : InFlight(u)' = {}
    BY <1>1 DEF HandlerInv, InFlight, Ended, Authenticating
  <1> QED
    BY <1>1, <1>2 DEF LossInv, Alone

LEMMA LossStep ==
    ASSUME TypeOK, HandlerInv, LossInv, [Next]_vars
    PROVE  LossInv'
  <1>1. CASE Stop
    BY <1>1 DEF Stop, LossInv
  <1>2. ASSUME NEW r \in Requests, Handle(r) PROVE LossInv'
    <2>1. server = "up" /\ server' = "up"
      BY <1>2, HandleRuns
    <2>2. overlaps \subseteq overlaps'
      BY <1>2 DEF Handle, LoginLocal, GitHubCallback, AskLocal, AskGitHub,
                  AskAnyone, ReadGitHubUser, CreateGitHubUser, UpdateGitHubUser,
                  OpenTokensPage, ReadUser, WriteUser, DeleteUser, history, Meets
    <2>3. ASSUME NEW u \in Users \ overlaps' PROVE Alone(u)'
      <3>1. Alone(u)
        BY <2>1, <2>2, <2>3 DEF LossInv
      <3> QED
        BY <1>2, <2>3, <3>1, LossAsk, LossGitHub, LossChange DEF Handle
    <2> QED
      BY <2>1, <2>3 DEF LossInv
  <1>3. CASE UNCHANGED vars
    BY <1>3 DEF vars, history, LossInv, Alone, InFlight, Subject
  <1> QED
    BY <1>1, <1>2, <1>3, LossStartUp DEF Next

(* Only requests whose reads and writes of one user overlap can lose a       *)
(* change or bring the user back: in every other history the two             *)
(* transactions of CreateUserToken, setUserRole and authenticateGitHubUser   *)
(* do what one would.                                                        *)
THEOREM LossesOverlap == Spec => []LossNeedsOverlap
  <1> DEFINE Inv == TypeOK /\ HandlerInv /\ LossInv
  <1>1. Init => Inv
    BY UsersTypeInit DEF Init, LossInv
  <1>2. Inv /\ [Next]_vars => Inv'
    BY UsersTypeStep, LossStep
  <1>3. Inv => LossNeedsOverlap
    BY DEF LossInv, Alone, LossNeedsOverlap
  <1> QED
    BY <1>1, <1>2, <1>3, PTL DEF Spec

-----------------------------------------------------------------------------
(* Whose tokens and roles they are.                                        *)

LEMMA IssuedStays ==
    ASSUME NEW u, NEW t, NEW reqs, NEW reqs2, Issued(u, t, reqs),
           \A q \in Requests : reqs[q] # None => reqs2[q] = reqs[q]
    PROVE  Issued(u, t, reqs2)
  BY DEF Issued

LEMMA OwnStays ==
    ASSUME NEW u, NEW user, NEW reqs, NEW reqs2, NEW roles, NEW roles2,
           Own(u, user, reqs, roles),
           \A q \in Requests : reqs[q] # None => reqs2[q] = reqs[q],
           roles[u] \subseteq roles2[u]
    PROVE  Own(u, user, reqs2, roles2)
  BY IssuedStays DEF Own

(* What a request has asked for stays asked for, a role once given counts as *)
(* given; so a step has to answer for what it writes, reads or issues only.  *)
LEMMA OwnStep ==
    ASSUME NEW r \in Requests, TypeOK, HandlerInv, OwnInv,
           \A q \in Requests : req[q] # None => req'[q] = req[q],
           \A u \in Users : granted[u] \subseteq granted'[u],
           \A q \in Requests \ {r} :
              /\ pc'[q] = pc[q] /\ req'[q] = req[q]
              /\ copy'[q] = copy[q] /\ session'[q] = session[q],
           \A u \in Users : \/ store'[u] \in {store[u], None}
                             \/ Own(u, store'[u], req', granted'),
           pc'[r] # "new",
           pc'[r] = "updating" => Own(req'[r].who, copy'[r], req', granted'),
           pc'[r] = "read" => Own(req'[r].ask.target, copy'[r], req', granted'),
           req'[r] # None => Issued(req'[r].who, req'[r].github, req'),
           session'[r] # None =>
              \/ session'[r] = session[r]
              \/ /\ session'[r].role \in granted'[session'[r].user]
                 /\ Issued(session'[r].user, session'[r].github, req')
    PROVE  OwnInv'
  <1>1. ASSUME NEW u \in Users, store'[u] # None
        PROVE  Own(u, store'[u], req', granted')
    BY <1>1, OwnStays DEF OwnInv
  <1>2. ASSUME NEW q \in Requests \ {r}
        PROVE  /\ pc'[q] = "updating" => Own(req'[q].who, copy'[q], req', granted')
               /\ pc'[q] = "read" => Own(req'[q].ask.target, copy'[q], req', granted')
    <2>1. CASE pc[q] = "updating"
      <3>1. req[q].who \in Users
        BY <2>1 DEF HandlerInv, Busy, Request
      <3> QED
        BY <2>1, <3>1, OwnStays DEF OwnInv
    <2>2. CASE pc[q] = "read"
      <3>1. req[q].ask.target \in Users
        BY <2>2 DEF HandlerInv, Asks
      <3> QED
        BY <2>2, <3>1, OwnStays DEF OwnInv
    <2> QED
      BY <2>1, <2>2
  <1>3. ASSUME NEW q \in Requests \ {r}
        PROVE  /\ pc'[q] = "new" => req'[q] = None
               /\ req'[q] # None => Issued(req'[q].who, req'[q].github, req')
    BY IssuedStays DEF OwnInv
  <1>4. ASSUME NEW q \in Requests, session'[q] # None, session'[q] = session[q]
        PROVE  /\ session'[q].role \in granted'[session'[q].user]
               /\ Issued(session'[q].user, session'[q].github, req')
    <2>1. session[q].user \in Users
      BY <1>4 DEF TypeOK, Claims
    <2> QED
      BY <1>4, <2>1, IssuedStays DEF OwnInv
  <1> QED
    BY <1>1, <1>2, <1>3, <1>4 DEF OwnInv

(* The claims that a login issues are the user's. *)
LEMMA OwnAuthenticated ==
    ASSUME NEW r \in Requests, NEW user \in Record, NEW roles, TypeOK, HandlerInv,
           pc[r] \in {"authenticating", "creating", "updating"},
           Authenticated(r, user),
           Own(req[r].who, user, req, roles)
    PROVE  /\ \A q \in Requests \ {r} : session'[q] = session[q]
           /\ \/ session'[r] = session[r]
              \/ /\ session'[r].role \in roles[session'[r].user]
                 /\ Issued(session'[r].user, session'[r].github, req)
           /\ pc'[r] \notin {"new", "updating", "read"}
  <1>1. pc'[r] \notin {"new", "updating", "read"}
    BY TypeAuthenticated DEF TypeOK
  <1>2. \/ session' = session
        \/ session' = [session EXCEPT ![r] =
              [user |-> req[r].who, role |-> user.role, github |-> user.github]]
    BY DEF Authenticated
  <1> QED
    BY <1>1, <1>2 DEF TypeOK, Own

LEMMA OwnAsk ==
    ASSUME NEW r \in Requests, TypeOK, HandlerInv, OwnInv,
           LoginLocal(r) \/ GitHubCallback(r) \/ AskLocal(r) \/ AskGitHub(r) \/ AskAnyone(r)
    PROVE  OwnInv'
  <1>1. /\ pc[r] = "new" /\ req[r] = None
        /\ store' = store /\ copy' = copy /\ granted' = granted
    BY DEF LoginLocal, GitHubCallback, AskLocal, AskGitHub, AskAnyone, history, OwnInv
  <1>2. \A q \in Requests \ {r} : pc'[q] = pc[q] /\ req'[q] = req[q]
    BY HandleMoves DEF Handle
  <1>3. pc'[r] \in {"authenticating", "page", "reading", "deleting", "done"}
    <2>1. \A a \in Asks : Handler(a.op) \in {"page", "reading", "deleting", "done"}
      BY HandlerStarts DEF Asks
    <2>2. CASE AskLocal(r) \/ AskAnyone(r)
      <3>1. PICK a \in Asks : pc' = [pc EXCEPT ![r] = Handler(a.op)]
        BY <2>2 DEF AskLocal, AskAnyone, GoTo
      <3> QED
        BY <2>1, <3>1 DEF TypeOK
    <2>3. CASE LoginLocal(r) \/ GitHubCallback(r) \/ AskGitHub(r)
      BY <2>3 DEF LoginLocal, GitHubCallback, AskGitHub, GoTo, TypeOK
    <2> QED
      BY <2>2, <2>3
  <1>4. \A q \in Requests : req[q] # None => req'[q] = req[q]
    BY <1>1, <1>2
  <1>5. CASE LoginLocal(r)
    <2>1. PICK u \in Users :
             /\ store[u] # None
             /\ session' = [session EXCEPT ![r] =
                              [user |-> u, role |-> store[u].role, github |-> None]]
      BY <1>5 DEF LoginLocal
    <2>2. /\ session'[r].user = u /\ session'[r].role \in granted[u]
          /\ session'[r].github = None
          /\ \A q \in Requests \ {r} : session'[q] = session[q]
      BY <2>1 DEF OwnInv, Own, TypeOK
    <2>3. req' = req
      BY <1>5 DEF LoginLocal
    <2> QED
      BY <1>1, <1>2, <1>3, <1>4, <2>2, <2>3, OwnStep DEF Issued
  <1>6. CASE GitHubCallback(r)
    <2>1. /\ session' = session
          /\ \E u \in Users :
                req' = [req EXCEPT ![r] =
                   [who |-> u, role |-> None, github |-> r,
                    ask |-> [op |-> "login", target |-> u, role |-> None]]]
      BY <1>6 DEF GitHubCallback
    <2>2. req'[r].github = r /\ req'[r].ask.op = "login"
      BY <2>1 DEF TypeOK
    <2> QED
      BY <1>1, <1>2, <1>3, <1>4, <2>1, <2>2, OwnStep DEF Issued
  <1>7. CASE AskLocal(r) \/ AskGitHub(r)
    <2>1. PICK s \in Requests, a \in Asks, t \in Requests \cup {None} :
             /\ session[s] # None /\ t \in {None, session[s].github}
             /\ req' = [req EXCEPT ![r] =
                       [who |-> session[s].user, role |-> session[s].role,
                        github |-> t, ask |-> a]]
      BY <1>7 DEF AskLocal, AskGitHub, TypeOK, Claims
    <2>2. Issued(session[s].user, t, req)
      BY <2>1 DEF OwnInv, Issued
    <2>3. /\ req'[r].who = session[s].user /\ req'[r].ask = a
          /\ req'[r].github = t
      BY <2>1 DEF TypeOK
    <2>4. Issued(req'[r].who, req'[r].github, req')
      BY <1>4, <2>2, <2>3, IssuedStays
    <2>5. session' = session
      BY <1>7 DEF AskLocal, AskGitHub
    <2> QED
      BY <1>1, <1>2, <1>3, <1>4, <2>1, <2>3, <2>4, <2>5, OwnStep
  <1>8. CASE AskAnyone(r)
    <2>1. /\ session' = session
          /\ \E a \in Asks :
                req' = [req EXCEPT ![r] =
                   [who |-> a.target, role |-> None, github |-> None, ask |-> a]]
      BY <1>8 DEF AskAnyone
    <2>2. req'[r].github = None
      BY <2>1 DEF TypeOK
    <2> QED
      BY <1>1, <1>2, <1>3, <1>4, <2>1, <2>2, OwnStep DEF Issued
  <1> QED
    BY <1>5, <1>6, <1>7, <1>8

LEMMA OwnGitHub ==
    ASSUME NEW r \in Requests, TypeOK, HandlerInv, OwnInv,
           ReadGitHubUser(r) \/ CreateGitHubUser(r) \/ UpdateGitHubUser(r)
    PROVE  OwnInv'
  <1>1. /\ pc[r] \in {"authenticating", "creating", "updating"} /\ req' = req
        /\ \A q \in Requests \ {r} : pc'[q] = pc[q] /\ copy'[q] = copy[q]
    BY HandleRuns, HandleMoves
       DEF Handle, ReadGitHubUser, CreateGitHubUser, UpdateGitHubUser
  <1>2. req[r] \in Request /\ req[r].who \in Users /\ req[r] # None
    BY <1>1, UsersAssumption DEF HandlerInv, Busy, Request
  <1>3. config \in Configs /\ config.defaultRole \in Roles
    <2>1. config \in Configs
      BY <1>1 DEF HandlerInv, Ended
    <2> QED
      BY <2>1, UsersAssumption
  <1>4. CASE ReadGitHubUser(r)
    <2>1. /\ store' = store /\ granted' = granted
          /\ copy'[r] = store[req[r].who]
      BY <1>4 DEF ReadGitHubUser, TypeOK
    <2>2. CASE /\ store[req[r].who] # None
               /\ Authenticated(r, store[req[r].who])
      <3>1. /\ store[req[r].who] \in Record
            /\ Own(req[r].who, store[req[r].who], req, granted)
        BY <1>2, <2>2 DEF TypeOK, OwnInv
      <3>2. /\ \A q \in Requests \ {r} : session'[q] = session[q]
            /\ \/ session'[r] = session[r]
               \/ /\ session'[r].role \in granted[session'[r].user]
                  /\ Issued(session'[r].user, session'[r].github, req)
            /\ pc'[r] \notin {"new", "updating", "read"}
        BY <1>1, <2>2, <3>1, OwnAuthenticated
      <3> QED
        BY <1>1, <1>2, <2>1, <3>2, OwnStep DEF OwnInv
    <2>3. CASE ~(/\ store[req[r].who] # None
                 /\ Authenticated(r, store[req[r].who]))
      <3>1. /\ session' = session
            /\ \/ pc' = [pc EXCEPT ![r] = "creating"]
               \/ /\ pc' = [pc EXCEPT ![r] = "updating"]
                  /\ store[req[r].who] # None
        BY <1>4, <2>3 DEF ReadGitHubUser, GoTo
      <3>2. /\ pc'[r] \in {"creating", "updating"}
            /\ pc'[r] = "updating" => store[req[r].who] # None
        BY <3>1 DEF TypeOK
      <3>3. pc'[r] = "updating" => Own(req[r].who, copy'[r], req, granted)
        BY <1>2, <2>1, <3>2 DEF OwnInv
      <3> QED
        BY <1>1, <1>2, <2>1, <3>1, <3>2, <3>3, OwnStep DEF OwnInv
    <2> QED
      BY <2>2, <2>3
  <1>5. CASE CreateGitHubUser(r) \/ UpdateGitHubUser(r)
    <2>1. Issued(req[r].who, req[r].github, req)
      BY <1>2 DEF OwnInv
    <2>2. granted' \in {granted, [granted EXCEPT ![req[r].who] = @ \cup {config.defaultRole}]}
      BY <1>5 DEF CreateGitHubUser, UpdateGitHubUser
    <2>3. \A u \in Users : granted[u] \subseteq granted'[u]
      BY <1>2, <2>2 DEF TypeOK
    <2>4. PICK user \in Record :
             /\ Authenticated(r, user)
             /\ store' = [store EXCEPT ![req[r].who] = user]
             /\ Own(req[r].who, user, req, granted')
      <3>1. CASE CreateGitHubUser(r)
        <4>1. Newcomer(r) \in Record
          BY <1>2, <1>3 DEF Newcomer, Record, Request
        <4>2. Own(req[r].who, Newcomer(r), req, granted')
          <5>1. config.defaultRole \in granted'[req[r].who]
            BY <1>2, <3>1 DEF CreateGitHubUser, TypeOK
          <5> QED
            BY <2>1, <5>1 DEF Own, Newcomer
        <4> QED
          BY <3>1, <4>1, <4>2 DEF CreateGitHubUser
      <3>2. CASE UpdateGitHubUser(r)
        <4> DEFINE user == [copy[r] EXCEPT !.github = req[r].github]
        <4>1. copy[r] \in Record /\ Own(req[r].who, copy[r], req, granted)
          BY <3>2 DEF UpdateGitHubUser, HandlerInv, OwnInv
        <4>2. /\ user \in Record /\ user.token = copy[r].token
              /\ user.role = copy[r].role /\ user.github = req[r].github
          BY <1>2, <4>1 DEF Record, Request
        <4>3. Authenticated(r, user) /\ store' = [store EXCEPT ![req[r].who] = user]
              /\ granted' = granted
          BY <3>2 DEF UpdateGitHubUser
        <4> HIDE DEF user
        <4>4. Own(req[r].who, user, req, granted)
          BY <2>1, <4>1, <4>2 DEF Own
        <4> QED
          BY <4>2, <4>3, <4>4
      <3> QED
        BY <1>5, <3>1, <3>2
    <2>5. \A u \in Users : store'[u] = store[u] \/ Own(u, store'[u], req, granted')
      BY <1>2, <2>4 DEF TypeOK
    <2>6. /\ \A q \in Requests \ {r} : session'[q] = session[q]
          /\ \/ session'[r] = session[r]
             \/ /\ session'[r].role \in granted'[session'[r].user]
                /\ Issued(session'[r].user, session'[r].github, req)
          /\ pc'[r] \notin {"new", "updating", "read"}
      BY <1>1, <2>4, OwnAuthenticated
    <2> QED
      BY <1>1, <1>2, <2>3, <2>5, <2>6, OwnStep DEF OwnInv
  <1> QED
    BY <1>4, <1>5

LEMMA OwnChange ==
    ASSUME NEW r \in Requests, TypeOK, HandlerInv, OwnInv,
           OpenTokensPage(r) \/ ReadUser(r) \/ WriteUser(r) \/ DeleteUser(r)
    PROVE  OwnInv'
  <1>1. /\ pc[r] \in {"page", "reading", "read", "deleting"}
        /\ req' = req /\ session' = session
        /\ \A q \in Requests \ {r} : pc'[q] = pc[q] /\ copy'[q] = copy[q]
    BY HandleRuns, HandleMoves
       DEF Handle, OpenTokensPage, ReadUser, WriteUser, DeleteUser
  <1>2. /\ req[r] # None /\ req[r].ask \in Asks /\ req[r].ask.target \in Users
        /\ Issued(req[r].who, req[r].github, req)
    BY <1>1, UsersAssumption DEF HandlerInv, Busy, Asks, OwnInv
  <1>3. CASE OpenTokensPage(r) \/ DeleteUser(r)
    <2>1. /\ granted' = granted
          /\ \A u \in Users : store'[u] \in {store[u], None}
          /\ pc'[r] \in {"done", "failed", "reading"}
      BY <1>3 DEF OpenTokensPage, DeleteUser, GoTo, history, TypeOK
    <2> QED
      BY <1>1, <1>2, <2>1, OwnStep
  <1>4. CASE ReadUser(r)
    <2>1. /\ granted' = granted /\ store' = store
          /\ pc'[r] \in {"failed", "read"}
          /\ pc'[r] = "read" => /\ store[req[r].ask.target] # None
                               /\ copy'[r] = store[req[r].ask.target]
      BY <1>4 DEF ReadUser, GoTo, TypeOK
    <2>2. pc'[r] = "read" => Own(req[r].ask.target, copy'[r], req, granted)
      BY <1>2, <2>1 DEF OwnInv
    <2> QED
      BY <1>1, <1>2, <2>1, <2>2, OwnStep
  <1>5. CASE WriteUser(r)
    <2>1. /\ pc'[r] \in {"done", "failed"}
          /\ \A u \in Users : granted[u] \subseteq granted'[u]
      BY <1>2, <1>5 DEF WriteUser, GoTo, TypeOK
    <2>2. CASE store' = store
      BY <1>1, <1>2, <2>1, <2>2, OwnStep
    <2>3. CASE store' # store
      <3>1. /\ store' = [store EXCEPT ![req[r].ask.target] = Changed(r, copy[r])]
            /\ req[r].ask.op = "role" => req[r].ask.role # None
            /\ {req[r].ask.role} \cap Roles \subseteq granted'[req[r].ask.target]
        BY <1>2, <1>5, <2>3 DEF WriteUser, TypeOK
      <3>2. /\ copy[r] \in Record /\ req[r].ask.op \in {"token", "role"}
            /\ Own(req[r].ask.target, copy[r], req, granted)
        BY <1>5 DEF WriteUser, HandlerInv, OwnInv
      <3>3. Own(req[r].ask.target, copy[r], req, granted')
        BY <1>2, <2>1, <3>2, OwnStays
      <3>4. Own(req[r].ask.target, Changed(r, copy[r]), req, granted')
        <4>1. CASE req[r].ask.op = "token"
          <5>1. /\ Changed(r, copy[r]).token = r
                /\ Changed(r, copy[r]).github = copy[r].github
                /\ Changed(r, copy[r]).role = copy[r].role
            BY <3>2, <4>1 DEF Changed, Record
          <5> QED
            BY <1>2, <3>3, <4>1, <5>1 DEF Own
        <4>2. CASE req[r].ask.op = "role"
          <5>1. /\ Changed(r, copy[r]).token = copy[r].token
                /\ Changed(r, copy[r]).github = copy[r].github
                /\ Changed(r, copy[r]).role = req[r].ask.role
            BY <3>2, <4>2 DEF Changed, Record
          <5>2. req[r].ask.role \in Roles
            BY <1>2, <3>1, <4>2 DEF Asks
          <5> QED
            BY <3>1, <3>3, <5>1, <5>2 DEF Own
        <4> QED
          BY <3>2, <4>1, <4>2
      <3>5. \A u \in Users : store'[u] = store[u] \/ Own(u, store'[u], req, granted')
        BY <1>2, <3>1, <3>4 DEF TypeOK
      <3> QED
        BY <1>1, <1>2, <2>1, <3>5, OwnStep
    <2> QED
      BY <2>2, <2>3
  <1> QED
    BY <1>3, <1>4, <1>5

LEMMA OwnStartUp ==
    ASSUME TypeOK, HandlerInv, OwnInv, StartUp \/ Stop
    PROVE  OwnInv'
  <1>1. req' = req /\ session' = session /\ copy' = copy
    BY DEF StartUp, Start, CreateAdminUserIfNotExists, CreateLocalUsers, Stop
  <1>2. \A r \in Requests : /\ pc'[r] \notin {"updating", "read"}
                            /\ pc'[r] = "new" => pc[r] = "new"
    BY DEF StartUp, Start, CreateAdminUserIfNotExists, CreateLocalUsers, Stop,
           HandlerInv, Ended
  <1>3. \A u \in Users :
           /\ granted[u] \subseteq granted'[u]
           /\ \/ store'[u] \in {store[u], None}
              \/ /\ store'[u].token = None /\ store'[u].github = None
                 /\ store'[u].role \in granted'[u]
    <2>1. CASE Stop \/ \E c \in Configs : Start(c)
      BY <2>1 DEF Stop, Start
    <2>2. CASE CreateAdminUserIfNotExists
      BY <2>2 DEF CreateAdminUserIfNotExists, LocalUser, TypeOK
    <2>3. CASE CreateLocalUsers
      BY <2>3 DEF CreateLocalUsers, LocalUsers, LocalUser, TypeOK
    <2> QED
      BY <2>1, <2>2, <2>3 DEF StartUp
  <1>4. ASSUME NEW u \in Users, store'[u] # None
        PROVE  Own(u, store'[u], req, granted')
    BY <1>3, <1>4, OwnStays DEF OwnInv, Own, Issued
  <1>5. ASSUME NEW s \in Requests, session[s] # None
        PROVE  session[s].role \in granted'[session[s].user]
    BY <1>3, <1>5 DEF OwnInv, TypeOK, Claims
  <1> QED
    BY <1>1, <1>2, <1>4, <1>5 DEF OwnInv

(* A step of a handler changes what was asked for, or what a login issued,   *)
(* only where nothing was, and asks for a token of someone who has logged in.*)
LEMMA LoginStep ==
    ASSUME NEW r \in Requests, TypeOK, HandlerInv, OwnInv, LoginInv, Handle(r)
    PROVE  LoginInv'
  <1>1. /\ pc[r] \in Busy \cup {"new"}
        /\ \A q \in Requests \ {r} : pc'[q] = pc[q] /\ req'[q] = req[q]
    BY HandleMoves
       DEF Handle, LoginLocal, GitHubCallback, AskLocal, AskGitHub, AskAnyone,
           ReadGitHubUser, CreateGitHubUser, UpdateGitHubUser, OpenTokensPage,
           ReadUser, WriteUser, DeleteUser, Busy
  <1>2. session[r] = None
    BY <1>1 DEF LoginInv, Busy
  <1>3. \/ session' = session
        \/ /\ \A q \in Requests \ {r} : session'[q] = session[q]
           /\ pc'[r] = "done"
    <2>1. CASE LoginLocal(r)
      BY <2>1 DEF LoginLocal, GoTo, TypeOK
    <2>2. ASSUME NEW user, Authenticated(r, user)
          PROVE  \/ session' = session
                 \/ /\ \A q \in Requests \ {r} : session'[q] = session[q]
                    /\ pc'[r] = "done"
      BY <2>2 DEF Authenticated, GoTo, TypeOK
    <2>3. CASE ReadGitHubUser(r)
      BY <2>2, <2>3 DEF ReadGitHubUser
    <2>4. CASE CreateGitHubUser(r) \/ UpdateGitHubUser(r)
      BY <2>2, <2>4 DEF CreateGitHubUser, UpdateGitHubUser
    <2>5. CASE GitHubCallback(r) \/ AskLocal(r) \/ AskGitHub(r) \/ AskAnyone(r)
               \/ OpenTokensPage(r) \/ ReadUser(r) \/ WriteUser(r) \/ DeleteUser(r)
      BY <2>5 DEF GitHubCallback, AskLocal, AskGitHub, AskAnyone, OpenTokensPage,
                  ReadUser, WriteUser, DeleteUser
    <2> QED
      BY <2>1, <2>3, <2>4, <2>5 DEF Handle
  <1> DEFINE LoggedInNext(u) ==
                 \E s \in Requests : session'[s] # None /\ session'[s].user = u
  <1>4. \A u : LoggedIn(u) => LoggedInNext(u)
    BY <1>2, <1>3 DEF LoggedIn
  <1>5. ASSUME NEW q \in Requests, session'[q] # None
        PROVE  pc'[q] = "done"
    BY <1>1, <1>2, <1>3, <1>5 DEF LoginInv
  <1> HIDE DEF LoggedInNext
  <1>6. req'[r] # None /\ req'[r].ask.op = "token" => LoggedInNext(req'[r].ask.target)
    <2>1. CASE req' = req
      BY <1>4, <2>1 DEF LoginInv
    <2>2. CASE GitHubCallback(r)
      BY <2>2 DEF GitHubCallback, TypeOK
    <2>3. CASE AskLocal(r) \/ AskGitHub(r) \/ AskAnyone(r)
      <3>1. PICK a \in Asks :
               /\ a.op = "token" => LoggedIn(a.target)
               /\ req'[r].ask = a
        <4>1. \A u \in CookieUsers : LoggedIn(u)
          BY DEF CookieUsers, LoggedIn
        <4> QED
          BY <2>3, <4>1 DEF AskLocal, AskGitHub, AskAnyone, LoggedIn, TypeOK
      <3> QED
        BY <1>4, <3>1
    <2> QED
      BY <2>1, <2>2, <2>3
         DEF Handle, LoginLocal, ReadGitHubUser, CreateGitHubUser,
             UpdateGitHubUser, OpenTokensPage, ReadUser, WriteUser, DeleteUser
  <1>7. ASSUME NEW q \in Requests, req'[q] # None, req'[q].ask.op = "token"
        PROVE  LoggedInNext(req'[q].ask.target)
    BY <1>1, <1>4, <1>6, <1>7 DEF LoginInv
  <1> QED
    BY <1>5, <1>7 DEF LoginInv, LoggedIn, LoggedInNext

LEMMA LoginStartUp ==
    ASSUME TypeOK, LoginInv, StartUp \/ Stop
    PROVE  LoginInv'
  <1>1. req' = req /\ session' = session
    BY DEF StartUp, Start, CreateAdminUserIfNotExists, CreateLocalUsers, Stop
  <1>2. \A r \in Requests : pc[r] = "done" => pc'[r] = "done"
    BY DEF StartUp, Start, CreateAdminUserIfNotExists, CreateLocalUsers, Stop,
           Ended, TypeOK
  <1> QED
    BY <1>1, <1>2 DEF LoginInv, LoggedIn

(* Nobody gets another's gem token, GitHub token or role: not through a      *)
(* stale copy that is written back, nor through the claims of a session,     *)
(* whatever restarts, logins and deletions come between.                     *)
THEOREM UsersAreNotMixed == Spec => []NothingIsAnothers
  <1> DEFINE Inv == TypeOK /\ HandlerInv /\ OwnInv /\ LoginInv
  <1>1. Init => Inv
    BY UsersTypeInit DEF Init, OwnInv, LoginInv
  <1>2. Inv /\ [Next]_vars => Inv'
    <2> SUFFICES ASSUME Inv, [Next]_vars PROVE Inv'
      OBVIOUS
    <2>1. CASE UNCHANGED vars
      BY <2>1, UsersTypeStep DEF vars, history, OwnInv, LoginInv, LoggedIn
    <2>2. ASSUME NEW r \in Requests, Handle(r) PROVE OwnInv' /\ LoginInv'
      BY <2>2, OwnAsk, OwnGitHub, OwnChange, LoginStep DEF Handle
    <2> QED
      BY <2>1, <2>2, UsersTypeStep, OwnStartUp, LoginStartUp DEF Next
  <1>3. Inv => NothingIsAnothers
    <2> SUFFICES ASSUME Inv PROVE NothingIsAnothers
      OBVIOUS
    <2>1. ASSUME NEW u \in Users, store[u] # None, store[u].token # None
          PROVE  /\ req[store[u].token].ask.op = "token"
                 /\ req[store[u].token].ask.target = u
                 /\ LoggedIn(u)
      BY <2>1 DEF OwnInv, Own, LoginInv
    <2> QED
      BY <2>1 DEF OwnInv, Own, Issued, NothingIsAnothers
  <1> QED
    BY <1>1, <1>2, <1>3, PTL DEF Spec
==============================================================================
