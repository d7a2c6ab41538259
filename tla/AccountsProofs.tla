----------------------------- MODULE AccountsProofs -----------------------------
(***************************************************************************)
(* Proofs about Accounts, for every number of users, sessions and requests *)
(* and any lifetimes of the tokens: what setup leaves behind, who made the *)
(* accounts, and when a session's access ends.                             *)
(***************************************************************************)
EXTENDS Accounts, TLAPS

-----------------------------------------------------------------------------
(* The inductive invariant *)

\* What a request that stands between two statements has found out so far, and that
\* nothing since has made untrue.
RequestOK(r) ==
  /\ r.pc # "off" => r.since <= clock /\ clock <= r.since + 1
  /\ r.pc = "setup" => r.name \in Names /\ r.pass \in Passwords /\ r.path \in Paths
  /\ r.pc = "area" => r.path \in Paths /\ HasAdmin
  /\ r.pc = "mark" => HasAdmin /\ (HasArea \/ removed)
  /\ r.pc = "create" => r.name \in Names /\ r.pass \in Passwords /\ (r.by = "admin" \/ unread)
  /\ r.pc = "update" => /\ r.name \in Names /\ r.pass \in Passwords
                        /\ r.user \in Users /\ user[r.user] # None
  /\ r.pc = "login" => r.user \in Users /\ user[r.user] # None
  /\ r.pc = "refresh" => /\ r.user \in Users /\ user[r.user] # None
                         /\ r.session \in Sessions /\ token[r.session] # None
                         /\ r.since <= token[r.session].expires
                         /\ token[r.session].revoked => r.since <= token[r.session].at
  /\ r.pc = "logout" => r.session \in Sessions

RequestsOK == \A q \in Requests : RequestOK(req[q])

\* A token is somebody's, and was not revoked in the future.
TokensOK ==
  \A s \in Sessions : token[s] # None =>
    user[token[s].user] # None /\ (token[s].revoked => token[s].at <= clock)

\* No access token of a user outlives one handed out now.
AccessOK == \A a \in access : a.user # None => a.until <= clock + AccessTTL

AccountInv ==
  /\ TypeOK /\ SetupLeavesServer /\ AccountsAccounted /\ AccessEnds
  /\ RequestsOK /\ TokensOK /\ AccessOK

-----------------------------------------------------------------------------
(* Requests and rows *)

LEMMA IdleIsRequest == Idle \in Request
  BY AccountAssumption DEF Idle, Request

\* What a handler fills in of a request that begins.
LEMMA SinceSet ==
  ASSUME NEW r \in Request, NEW c \in Nat
  PROVE  /\ [r EXCEPT !.since = c] \in Request
         /\ [r EXCEPT !.since = c].since = c
         /\ [r EXCEPT !.since = c].pc = r.pc
         /\ [r EXCEPT !.since = c].name = r.name
         /\ [r EXCEPT !.since = c].pass = r.pass
         /\ [r EXCEPT !.since = c].path = r.path
         /\ [r EXCEPT !.since = c].by = r.by
         /\ [r EXCEPT !.since = c].user = r.user
         /\ [r EXCEPT !.since = c].session = r.session
  BY DEF Request

\* A request that goes on keeps what it found out.
LEMMA PcSet ==
  ASSUME NEW r \in Request, NEW pc \in {"area", "mark"}
  PROVE  /\ [r EXCEPT !.pc = pc] \in Request
         /\ [r EXCEPT !.pc = pc].pc = pc
         /\ [r EXCEPT !.pc = pc].path = r.path
         /\ [r EXCEPT !.pc = pc].since = r.since
  BY DEF Request

\* Nothing a request relies on is taken back: users stay, the last enabled area stays or
\* its removal is recorded, tokens stay too, with their expiry, and one that is revoked
\* now was not revoked before now.
Steady ==
  /\ clock' = clock /\ (unread => unread')
  /\ HasArea \/ removed => HasArea' \/ removed'
  /\ \A u \in Users : user[u] # None =>
       user'[u] # None /\ user'[u].admin = user[u].admin /\ user'[u].by = user[u].by
  /\ \A s \in Sessions : token[s] # None =>
       /\ token'[s] # None /\ token'[s].expires = token[s].expires /\ token'[s].user = token[s].user
       /\ token'[s].revoked => \/ token[s].revoked /\ token'[s].at = token[s].at
                               \/ token'[s].at = clock

LEMMA SteadyKeeps ==
  ASSUME TypeOK, Steady, NEW r \in Request, RequestOK(r)
  PROVE  RequestOK(r)'
<1>1. HasAdmin => HasAdmin'
  BY DEF HasAdmin, Steady
<1>2. HasArea \/ removed => (HasArea \/ removed)'
  BY DEF Steady
<1>3. r.since \in Nat /\ clock \in Nat
  BY DEF Request, TypeOK
<1>4. CASE r.pc = "refresh"
  BY <1>3, <1>4 DEF RequestOK, Steady
<1>5. CASE r.pc # "refresh"
  BY <1>1, <1>2, <1>3, <1>5 DEF RequestOK, Steady
<1>6. QED
  BY <1>4, <1>5

\* All requests but one stand where they stood.
LEMMA OneRequest ==
  ASSUME TypeOK, RequestsOK, Steady, NEW q \in Requests, NEW new \in Request,
         req' = [req EXCEPT ![q] = new], RequestOK(new)'
  PROVE  RequestsOK' /\ req' \in [Requests -> Request]
<1>1. req' \in [Requests -> Request]
  BY DEF TypeOK
<1>2. ASSUME NEW p \in Requests
      PROVE  RequestOK(req[p])'
  <2>1. CASE p = q
    <3>1. req'[p] = new
      BY <2>1 DEF TypeOK
    <3>2. QED
      BY <3>1 DEF RequestOK
  <2>2. CASE p # q
    <3>1. req'[p] = req[p] /\ req[p] \in Request /\ RequestOK(req[p])
      BY <2>2 DEF TypeOK, RequestsOK
    <3>2. \A r \in Request : RequestOK(r) => RequestOK(r)'
      BY SteadyKeeps
    <3>3. QED
      BY <3>1, <3>2 DEF RequestOK
  <2>3. QED
    BY <2>1, <2>2
<1>3. QED
  BY <1>1, <1>2 DEF RequestsOK

LEMMA EndsKeeps ==
  ASSUME TypeOK, RequestsOK, Steady, NEW q \in Requests, Ends(q)
  PROVE  RequestsOK' /\ req' \in [Requests -> Request]
<1>1. RequestOK(Idle)'
  BY DEF RequestOK, Idle
<1>2. QED
  BY <1>1, IdleIsRequest, OneRequest DEF Ends

-----------------------------------------------------------------------------
(* Requests begin and are given up *)

Rows == <<setup, area, user, token, access, clock, removed>>

\* The request may have passed a guard that could not read the setting.
Passes == unread' \in BOOLEAN /\ (unread => unread')

LEMMA GuardPasses == ASSUME TypeOK, SetupGuard \/ UNCHANGED unread PROVE Passes
  BY DEF TypeOK, SetupGuard, Passes

LEMMA RowsSteady == ASSUME TypeOK, UNCHANGED Rows, Passes PROVE Steady
<1>1. HasArea' = HasArea
  BY DEF Rows, HasArea
<1>2. QED
  BY <1>1 DEF Rows, Steady, Passes

LEMMA RowsKeep ==
  ASSUME AccountInv, UNCHANGED Rows, Passes, RequestsOK', req' \in [Requests -> Request]
  PROVE  AccountInv'
<1>1. TypeOK'
  BY DEF AccountInv, TypeOK, Rows, Passes
<1>2. SetupLeavesServer' /\ AccountsAccounted' /\ AccessEnds'
  BY DEF AccountInv, SetupLeavesServer, HasAdmin, HasArea, AccountsAccounted, AccessEnds, Rows, Passes
<1>3. TokensOK' /\ AccessOK'
  BY DEF AccountInv, TokensOK, AccessOK, Rows
<1>4. QED
  BY <1>1, <1>2, <1>3 DEF AccountInv

\* A request that begins knows what its handler has just read.
LEMMA BeginningThen ==
  ASSUME AccountInv, UNCHANGED Rows, Passes, NEW q \in Requests, NEW r \in Request,
         RequestOK(r)', req' = [req EXCEPT ![q] = r]
  PROVE  AccountInv'
<1>1. TypeOK /\ RequestsOK /\ Steady
  BY RowsSteady DEF AccountInv
<1>2. RequestsOK' /\ req' \in [Requests -> Request]
  BY <1>1, OneRequest
<1>3. QED
  BY <1>2, RowsKeep

LEMMA Beginning ==
  ASSUME AccountInv, UNCHANGED Rows, SetupGuard \/ UNCHANGED unread,
         NEW q \in Requests, NEW new \in Request,
         RequestOK([new EXCEPT !.since = clock]), Begins(q, new)
  PROVE  AccountInv'
<1>1. TypeOK /\ RequestsOK /\ Passes /\ Steady /\ clock \in Nat
  BY RowsSteady, GuardPasses DEF AccountInv, TypeOK
<1>2. PICK c \in Nat : c = clock
  BY <1>1
<1>3. PICK r \in Request : r = [new EXCEPT !.since = c]
  BY SinceSet
<1>4. req' = [req EXCEPT ![q] = r]
  BY <1>2, <1>3 DEF Begins
<1>5. RequestOK(r)
  BY <1>2, <1>3
<1>6. RequestOK(r)'
  BY <1>1, <1>5, SteadyKeeps
<1>7. QED
  BY <1>1, <1>4, <1>6, BeginningThen

\* The first-run rule applies before setup only, and then the guard did not see that.
LEMMA CreateUserBegins ==
  ASSUME AccountInv, NEW q \in Requests, NEW n \in Names, NEW w \in Passwords,
         NEW b \in BOOLEAN, CreateUser(q, n, w, b)
  PROVE  AccountInv'
<1> DEFINE first == \A u \in Users : user[u] = None
           new == [Idle EXCEPT !.pc = "create", !.name = n, !.pass = w,
                     !.admin = first \/ b, !.by = IF first THEN "nobody" ELSE "admin"]
<1>1. ~first \/ unread'
  BY DEF CreateUser, SetupGuard, AccountInv, SetupLeavesServer, HasAdmin
<1>2. PICK y \in {"admin", "nobody"}, m \in BOOLEAN :
        /\ y = IF first THEN "nobody" ELSE "admin"
        /\ m = (first \/ b)
  BY ZenonT(30)
<1>3. new = [Idle EXCEPT !.pc = "create", !.name = n, !.pass = w, !.admin = m, !.by = y]
  BY <1>2
<1>4. PICK x \in Request : x = [Idle EXCEPT !.pc = "create", !.name = n, !.pass = w, !.admin = m, !.by = y]
  BY DEF Idle, Request
<1>5. x.pc = "create" /\ x.name = n /\ x.pass = w /\ x.by = y
  BY <1>4 DEF Idle, Request
<1>6. TypeOK /\ clock \in Nat /\ Passes /\ UNCHANGED Rows
  BY GuardPasses DEF AccountInv, TypeOK, CreateUser, Rows
<1>7. PICK c \in Nat : c = clock
  BY <1>6
<1>8. PICK r \in Request : /\ r = [x EXCEPT !.since = c]
                           /\ r.pc = x.pc /\ r.name = x.name /\ r.pass = x.pass /\ r.by = x.by /\ r.since = c
  BY SinceSet
<1>9. req' = [req EXCEPT ![q] = r]
  BY <1>3, <1>4, <1>7, <1>8 DEF CreateUser, Begins
<1>10. RequestOK(r)'
  BY <1>1, <1>2, <1>5, <1>6, <1>7, <1>8 DEF RequestOK, Rows
<1>11. QED
  BY <1>6, <1>9, <1>10, BeginningThen

LEMMA OtherBegins ==
  ASSUME AccountInv, NEW q \in Requests,
         \/ UpdateMe(q) \/ Login(q)
         \/ \E n \in Names, w \in Passwords, p \in Paths : CompleteSetup(q, n, w, p)
         \/ \E s \in Sessions : Refresh(q, s) \/ Logout(q, s)
  PROVE  AccountInv'
<1> USE IdleIsRequest
<1>1. TypeOK /\ TokensOK /\ clock \in Nat
  BY DEF AccountInv, TypeOK
<1>2. CASE UpdateMe(q)
  <2>1. PICK u \in Users, n \in Names, w \in Passwords :
          /\ user[u] # None
          /\ Begins(q, [Idle EXCEPT !.pc = "update", !.user = u, !.name = n, !.pass = w])
    BY <1>1, <1>2 DEF UpdateMe, Claims, TypeOK, Access
  <2>2. PICK new \in Request : new = [Idle EXCEPT !.pc = "update", !.user = u, !.name = n, !.pass = w]
    BY DEF Idle, Request
  <2>3. new.pc = "update" /\ new.user = u /\ new.name = n /\ new.pass = w
    BY <2>2 DEF Idle, Request
  <2>4. RequestOK([new EXCEPT !.since = clock])
    BY <1>1, <2>1, <2>3, SinceSet DEF RequestOK
  <2>5. QED
    BY <1>2, <2>1, <2>2, <2>4, Beginning DEF UpdateMe, Rows
<1>3. CASE Login(q)
  <2>1. PICK u \in Users : user[u] # None /\ Begins(q, [Idle EXCEPT !.pc = "login", !.user = u])
    BY <1>3 DEF Login
  <2>2. PICK new \in Request : new = [Idle EXCEPT !.pc = "login", !.user = u]
    BY DEF Idle, Request
  <2>3. new.pc = "login" /\ new.user = u
    BY <2>2 DEF Idle, Request
  <2>4. RequestOK([new EXCEPT !.since = clock])
    BY <1>1, <2>1, <2>3, SinceSet DEF RequestOK
  <2>5. QED
    BY <1>3, <2>1, <2>2, <2>4, Beginning DEF Login, Rows
<1>4. ASSUME NEW n \in Names, NEW w \in Passwords, NEW p \in Paths, CompleteSetup(q, n, w, p)
      PROVE  AccountInv'
  <2>1. PICK new \in Request : new = [Idle EXCEPT !.pc = "setup", !.name = n, !.pass = w, !.path = p]
    BY DEF Idle, Request
  <2>2. new.pc = "setup" /\ new.name = n /\ new.pass = w /\ new.path = p
    BY <2>1 DEF Idle, Request
  <2>3. RequestOK([new EXCEPT !.since = clock])
    BY <1>1, <2>2, SinceSet DEF RequestOK
  <2>4. QED
    BY <1>4, <2>1, <2>3, Beginning DEF CompleteSetup, Rows
<1>5. ASSUME NEW s \in Sessions, Refresh(q, s)
      PROVE  AccountInv'
  <2>1. /\ token[s] \in Token /\ ~token[s].revoked /\ clock <= token[s].expires
        /\ user[token[s].user] # None /\ token[s] # None
    BY <1>1, <1>5 DEF Refresh, Good, TypeOK, TokensOK
  <2>2. token[s].user \in Users
    BY <2>1 DEF Token
  <2>3. PICK new \in Request :
          new = [Idle EXCEPT !.pc = "refresh", !.session = s, !.user = token[s].user]
    BY <2>2 DEF Idle, Request
  <2>4. new.pc = "refresh" /\ new.session = s /\ new.user = token[s].user
    BY <2>3 DEF Idle, Request
  <2>5. RequestOK([new EXCEPT !.since = clock])
    BY <1>1, <2>1, <2>2, <2>4, SinceSet DEF RequestOK
  <2>6. QED
    BY <1>5, <2>3, <2>5, Beginning DEF Refresh, Rows
<1>6. ASSUME NEW s \in Sessions, Logout(q, s)
      PROVE  AccountInv'
  <2>1. PICK new \in Request : new = [Idle EXCEPT !.pc = "logout", !.session = s]
    BY DEF Idle, Request
  <2>2. new.pc = "logout" /\ new.session = s
    BY <2>1 DEF Idle, Request
  <2>3. RequestOK([new EXCEPT !.since = clock])
    BY <1>1, <2>2, SinceSet DEF RequestOK
  <2>4. QED
    BY <1>6, <2>1, <2>3, Beginning DEF Logout, Rows
<1>7. QED
  BY <1>2, <1>3, <1>4, <1>5, <1>6

LEMMA CancelledKeeps ==
  ASSUME AccountInv, NEW q \in Requests, Cancelled(q)
  PROVE  AccountInv'
<1>1. UNCHANGED Rows /\ Ends(q) /\ Passes
  BY GuardPasses DEF Cancelled, Rows, AccountInv
<1>2. RequestsOK' /\ req' \in [Requests -> Request]
  BY <1>1, RowsSteady, EndsKeeps DEF AccountInv
<1>3. QED
  BY <1>1, <1>2, RowsKeep

-----------------------------------------------------------------------------
(* Users and setup *)

\* A row that is inserted carries a new name; the other rows stay.
LEMMA Inserting ==
  ASSUME TypeOK, NEW q \in Requests, NEW isAdmin \in BOOLEAN, NEW creator \in {"wizard", "admin", "nobody"},
         req[q].name \in Names, req[q].pass \in Passwords,
         Inserts(q, isAdmin, creator), UNCHANGED <<area, token, clock, unread, removed>>
  PROVE  /\ user' \in [Users -> User \cup {None}]
         /\ \A u, v \in Users : user'[u] # None /\ user'[v] # None /\ user'[u].name = user'[v].name => u = v
         /\ \A u \in Users : user'[u] # None => user'[u] = user[u] \/ user'[u].by = creator
         /\ \E u \in Users : user'[u] # None /\ user'[u].admin = isAdmin /\ user'[u].by = creator
         /\ Steady
<1>1. PICK new \in User : new = [name |-> req[q].name, pass |-> req[q].pass,
                                  admin |-> isAdmin, by |-> creator]
  BY DEF User
<1>2. PICK u \in Users : /\ user[u] = None /\ FreeName(req[q].name, Users)
                         /\ user' = [user EXCEPT ![u] = new]
  BY <1>1 DEF Inserts
<1>3. new # None /\ new.name = req[q].name /\ new.admin = isAdmin /\ new.by = creator
  BY <1>1, AccountAssumption
<1>4. user \in [Users -> User \cup {None}]
  BY DEF TypeOK
<1>5. user' \in [Users -> User \cup {None}] /\ user'[u] = new
  BY <1>2, <1>4
<1>6. \A v \in Users : v # u => user'[v] = user[v]
  BY <1>2, <1>4
<1>7. \A v \in Users : user[v] # None => user[v].name # new.name
  BY <1>2, <1>3 DEF FreeName
<1>8. ASSUME NEW v \in Users, NEW x \in Users,
             user'[v] # None /\ user'[x] # None /\ user'[v].name = user'[x].name
      PROVE  v = x
  BY <1>5, <1>6, <1>7, <1>8 DEF TypeOK
<1>9. Steady
  BY <1>2, <1>6 DEF Steady, HasArea
<1>10. QED
  BY <1>3, <1>5, <1>6, <1>8, <1>9

\* With users as they were or more of them, the sessions are as they were.
LEMMA SessionsKeep ==
  ASSUME AccountInv, Steady, UNCHANGED <<token, access, clock>>
  PROVE  AccessEnds' /\ AccessOK' /\ TokensOK'
<1>1. AccessEnds' /\ AccessOK'
  BY DEF AccountInv, AccessEnds, AccessOK
<1>2. ASSUME NEW s \in Sessions, token[s] # None
      PROVE  user'[token[s].user] # None /\ (token[s].revoked => token[s].at <= clock)
  <2>1. token[s].user \in Users
    BY <1>2 DEF AccountInv, TypeOK, Token
  <2>2. QED
    BY <1>2, <2>1 DEF AccountInv, TokensOK, Steady
<1>3. QED
  BY <1>1, <1>2 DEF TokensOK

\* What setup left stays there.
LEMMA SetupKeeps ==
  ASSUME SetupLeavesServer, Steady, UNCHANGED setup
  PROVE  SetupLeavesServer'
<1>1. HasAdmin => HasAdmin'
  BY DEF HasAdmin, Steady
<1>2. QED
  BY <1>1 DEF SetupLeavesServer, Steady

LEMMA CreateUserKeeps ==
  ASSUME AccountInv, NEW q \in Requests, CreateUserEnds(q)
  PROVE  AccountInv'
<1>1. /\ TypeOK /\ RequestsOK /\ req[q].name \in Names /\ req[q].pass \in Passwords
      /\ req[q].by \in {"admin", "nobody"} /\ req[q].admin \in BOOLEAN
      /\ req[q].by = "admin" \/ unread
  BY DEF AccountInv, RequestsOK, RequestOK, CreateUserEnds, At, TypeOK, Request
<1>2. CASE Inserts(q, req[q].admin, req[q].by)
  <2>1. PICK isAdmin \in BOOLEAN, creator \in {"admin", "nobody"} :
          isAdmin = req[q].admin /\ creator = req[q].by
    BY <1>1
  <2>2. /\ Inserts(q, isAdmin, creator)
        /\ UNCHANGED <<setup, area, token, access, clock, unread, removed>>
    BY <1>2, <2>1 DEF CreateUserEnds
  <2>3. /\ user' \in [Users -> User \cup {None}]
        /\ \A u, v \in Users : user'[u] # None /\ user'[v] # None /\ user'[u].name = user'[v].name => u = v
        /\ \A u \in Users : user'[u] # None => user'[u] = user[u] \/ user'[u].by = creator
        /\ Steady
    BY <1>1, <2>1, <2>2, Inserting
  <2>4. RequestsOK' /\ req' \in [Requests -> Request]
    BY <1>1, <2>3, EndsKeeps DEF CreateUserEnds
  <2>5. TypeOK'
    BY <1>1, <2>2, <2>3, <2>4 DEF TypeOK
  <2>6. SetupLeavesServer'
    BY <2>2, <2>3, SetupKeeps DEF AccountInv
  <2>7. AccountsAccounted'
    BY <1>1, <2>1, <2>2, <2>3 DEF AccountInv, AccountsAccounted
  <2>8. AccessEnds' /\ AccessOK' /\ TokensOK'
    BY <2>2, <2>3, SessionsKeep
  <2>9. QED
    BY <2>4, <2>5, <2>6, <2>7, <2>8 DEF AccountInv
<1>3. CASE UNCHANGED user
  <2>1. UNCHANGED Rows /\ Passes
    BY <1>1, <1>3, GuardPasses DEF CreateUserEnds, Rows
  <2>2. QED
    BY <1>1, <2>1, RowsSteady, EndsKeeps, RowsKeep DEF CreateUserEnds
<1>4. QED
  BY <1>2, <1>3 DEF CreateUserEnds

LEMMA UpdateMeKeeps ==
  ASSUME AccountInv, NEW q \in Requests, UpdateMeEnds(q)
  PROVE  AccountInv'
<1> DEFINE u == req[q].user
<1>1. /\ TypeOK /\ RequestsOK /\ u \in Users /\ user[u] # None
      /\ req[q].name \in Names /\ req[q].pass \in Passwords
  BY DEF AccountInv, RequestsOK, RequestOK, UpdateMeEnds, At
<1>2. user \in [Users -> User \cup {None}] /\ user[u] \in User
  BY <1>1 DEF TypeOK
<1>3. CASE FreeName(req[q].name, Users \ {u})
  <2>1. PICK new \in User : /\ new = [[user[u] EXCEPT !.name = req[q].name] EXCEPT !.pass = req[q].pass]
                            /\ new.name = req[q].name
                            /\ new.admin = user[u].admin /\ new.by = user[u].by
    <3>1. PICK new : new = [[user[u] EXCEPT !.name = req[q].name] EXCEPT !.pass = req[q].pass]
      OBVIOUS
    <3>2. PICK old \in User, n \in Names, w \in Passwords :
            old = user[u] /\ n = req[q].name /\ w = req[q].pass
      BY <1>1, <1>2
    <3>3. new = [[old EXCEPT !.name = n] EXCEPT !.pass = w]
      BY <3>1, <3>2
    <3>4. new \in User /\ new.name = n /\ new.admin = old.admin /\ new.by = old.by
      BY <3>3 DEF User
    <3>5. QED
      BY <3>1, <3>2, <3>4
  <2>2. user' = [user EXCEPT ![u] = new]
    BY <1>2, <1>3, <2>1 DEF UpdateMeEnds
  <2>3. user' \in [Users -> User \cup {None}] /\ user'[u] = new /\ new # None
    BY <1>1, <1>2, <2>2, AccountAssumption
  <2>4. \A v \in Users : v # u => user'[v] = user[v]
    BY <1>2, <2>2
  <2>5. \A v \in Users \ {u} : user[v] # None => user[v].name # new.name
    BY <1>3, <2>1 DEF FreeName
  <2>6. ASSUME NEW v \in Users, NEW x \in Users,
               user'[v] # None /\ user'[x] # None /\ user'[v].name = user'[x].name
        PROVE  v = x
    BY <1>1, <2>3, <2>4, <2>5, <2>6 DEF TypeOK
  <2>7. Steady
    BY <2>1, <2>3, <2>4 DEF Steady, UpdateMeEnds, HasArea
  <2>8. RequestsOK' /\ req' \in [Requests -> Request]
    BY <1>1, <2>7, EndsKeeps DEF UpdateMeEnds
  <2>9. TypeOK'
    BY <1>1, <2>3, <2>6, <2>8 DEF TypeOK, UpdateMeEnds
  <2>10. SetupLeavesServer'
    BY <2>7, SetupKeeps DEF AccountInv, UpdateMeEnds
  <2>11. AccountsAccounted'
    <3>1. ASSUME ~unread, NEW v \in Users, user'[v] # None
          PROVE  user'[v].by # "nobody"
      <4>1. user[v] # None /\ user'[v].by = user[v].by
        BY <1>1, <2>1, <2>3, <2>4, <3>1
      <4>2. QED
        BY <3>1, <4>1 DEF AccountInv, AccountsAccounted
    <3>2. QED
      BY <3>1 DEF AccountsAccounted, UpdateMeEnds
  <2>12. AccessEnds' /\ AccessOK' /\ TokensOK'
    BY <2>7, SessionsKeep DEF UpdateMeEnds
  <2>13. QED
    BY <2>8, <2>9, <2>10, <2>11, <2>12 DEF AccountInv
<1>4. CASE UNCHANGED user
  <2>1. UNCHANGED Rows /\ Passes
    BY <1>1, <1>4, GuardPasses DEF UpdateMeEnds, Rows
  <2>2. QED
    BY <1>1, <2>1, RowsSteady, EndsKeeps, RowsKeep DEF UpdateMeEnds
<1>5. QED
  BY <1>3, <1>4 DEF UpdateMeEnds

\* A wizard's request that is through with one statement stands before the next.
LEMMA GoesKeeps ==
  ASSUME TypeOK, RequestsOK, Steady, NEW q \in Requests, NEW pc \in {"area", "mark"},
         req[q].pc # "off", req[q].path \in Paths, Goes(q, pc),
         HasAdmin', pc = "mark" => (HasArea \/ removed)'
  PROVE  RequestsOK' /\ req' \in [Requests -> Request]
<1>1. req[q] \in Request /\ RequestOK(req[q])
  BY DEF TypeOK, RequestsOK
<1>2. PICK old \in Request : old = req[q]
  BY <1>1
<1>3. PICK new \in Request : /\ new = [old EXCEPT !.pc = pc]
                             /\ new.pc = pc /\ new.path = old.path /\ new.since = old.since
  BY PcSet
<1>4. req' = [req EXCEPT ![q] = new]
  BY <1>2, <1>3 DEF Goes, TypeOK
<1>5. old.since <= clock /\ clock <= old.since + 1 /\ old.path \in Paths
  BY <1>1, <1>2 DEF RequestOK
<1>6. RequestOK(new)'
  BY <1>3, <1>5 DEF RequestOK, Steady
<1>7. QED
  BY <1>4, <1>6, OneRequest

LEMMA SetupUserKeeps ==
  ASSUME AccountInv, NEW q \in Requests, SetupCreatesUser(q)
  PROVE  AccountInv'
<1>1. /\ TypeOK /\ RequestsOK /\ req[q].name \in Names /\ req[q].pass \in Passwords
      /\ req[q].path \in Paths /\ req[q].pc = "setup"
  BY DEF AccountInv, RequestsOK, RequestOK, SetupCreatesUser, At
<1>2. CASE Inserts(q, TRUE, "wizard") /\ Goes(q, "area")
  <2>1. /\ user' \in [Users -> User \cup {None}]
        /\ \A u, v \in Users : user'[u] # None /\ user'[v] # None /\ user'[u].name = user'[v].name => u = v
        /\ \A u \in Users : user'[u] # None => user'[u] = user[u] \/ user'[u].by = "wizard"
        /\ \E u \in Users : user'[u] # None /\ user'[u].admin = TRUE /\ user'[u].by = "wizard"
        /\ Steady
    BY <1>1, <1>2, Inserting DEF SetupCreatesUser
  <2>2. HasAdmin' /\ UNCHANGED <<setup, area, token, access, clock, unread, removed>>
    BY <2>1 DEF HasAdmin, SetupCreatesUser
  <2>3. RequestsOK' /\ req' \in [Requests -> Request]
    BY <1>1, <1>2, <2>1, <2>2, GoesKeeps
  <2>4. TypeOK'
    BY <1>1, <2>1, <2>2, <2>3 DEF TypeOK
  <2>5. SetupLeavesServer'
    BY <2>1, <2>2, SetupKeeps DEF AccountInv
  <2>6. AccountsAccounted'
    BY <2>1, <2>2 DEF AccountInv, AccountsAccounted
  <2>7. AccessEnds' /\ AccessOK' /\ TokensOK'
    BY <2>1, SessionsKeep DEF SetupCreatesUser
  <2>8. QED
    BY <2>3, <2>4, <2>5, <2>6, <2>7 DEF AccountInv
<1>3. CASE UNCHANGED user /\ Ends(q)
  <2>1. UNCHANGED Rows /\ Passes
    BY <1>1, <1>3, GuardPasses DEF SetupCreatesUser, Rows
  <2>2. QED
    BY <1>1, <1>3, <2>1, RowsSteady, EndsKeeps, RowsKeep
<1>4. QED
  BY <1>2, <1>3 DEF SetupCreatesUser

LEMMA SetupAreaKeeps ==
  ASSUME AccountInv, NEW q \in Requests, SetupCreatesArea(q)
  PROVE  AccountInv'
<1>1. TypeOK /\ RequestsOK /\ req[q].pc = "area" /\ req[q].path \in Paths /\ HasAdmin
  BY DEF AccountInv, RequestsOK, RequestOK, SetupCreatesArea, At
<1>2. CASE UNCHANGED area /\ Ends(q)
  <2>1. UNCHANGED Rows /\ Passes
    BY <1>1, <1>2, GuardPasses DEF SetupCreatesArea, Rows
  <2>2. QED
    BY <1>1, <1>2, <2>1, RowsSteady, EndsKeeps, RowsKeep
<1>3. CASE Goes(q, "mark") /\ area' = [area EXCEPT ![req[q].path] = "enabled"]
  <2>1. /\ UNCHANGED <<setup, user, token, access, clock, unread, removed>>
        /\ area' \in [Paths -> {"none", "enabled", "disabled"}]
        /\ area'[req[q].path] = "enabled"
    BY <1>1, <1>3 DEF SetupCreatesArea, TypeOK
  <2>2. HasArea' /\ HasAdmin' /\ Steady
    BY <1>1, <2>1 DEF HasArea, HasAdmin, Steady
  <2>3. RequestsOK' /\ req' \in [Requests -> Request]
    BY <1>1, <1>3, <2>2, GoesKeeps
  <2>4. TypeOK'
    BY <1>1, <2>1, <2>3 DEF TypeOK
  <2>5. SetupLeavesServer' /\ AccountsAccounted'
    BY <2>1, <2>2, SetupKeeps DEF AccountInv, AccountsAccounted
  <2>6. AccessEnds' /\ AccessOK' /\ TokensOK'
    BY <2>1, <2>2, SessionsKeep
  <2>7. QED
    BY <2>3, <2>4, <2>5, <2>6 DEF AccountInv
<1>4. QED
  BY <1>2, <1>3 DEF SetupCreatesArea

LEMMA SetupMarksKeeps ==
  ASSUME AccountInv, NEW q \in Requests, SetupMarks(q)
  PROVE  AccountInv'
<1>1. TypeOK /\ RequestsOK /\ HasAdmin /\ (HasArea \/ removed)
  BY DEF AccountInv, RequestsOK, RequestOK, SetupMarks, At
<1>2. HasAdmin' = HasAdmin /\ HasArea' = HasArea
  BY DEF HasAdmin, HasArea, SetupMarks
<1>3. Steady
  BY <1>2 DEF Steady, SetupMarks
<1>4. RequestsOK' /\ req' \in [Requests -> Request]
  BY <1>1, <1>3, EndsKeeps DEF SetupMarks
<1>5. TypeOK'
  BY <1>1, <1>4 DEF TypeOK, SetupMarks
<1>6. SetupLeavesServer' /\ AccountsAccounted'
  BY <1>1, <1>2 DEF AccountInv, SetupLeavesServer, AccountsAccounted, SetupMarks
<1>7. AccessEnds' /\ AccessOK' /\ TokensOK'
  BY <1>3, SessionsKeep DEF SetupMarks
<1>8. QED
  BY <1>4, <1>5, <1>6, <1>7 DEF AccountInv

\* An administrator's change of the areas; one that removes an area says so.
LEMMA AdministersKeeps ==
  ASSUME AccountInv, NEW new \in [Paths -> {"none", "enabled", "disabled"}], NEW b \in BOOLEAN,
         Administers(new, b), ~b /\ HasArea => \E p \in Paths : new[p] = "enabled"
  PROVE  AccountInv'
<1>1. /\ TypeOK /\ RequestsOK /\ Passes
      /\ UNCHANGED <<setup, user, token, access, req, clock>>
      /\ area' = new /\ removed' = (removed \/ b)
  BY GuardPasses DEF Administers, AccountInv
<1>2. HasArea \/ removed => HasArea' \/ removed'
  BY <1>1 DEF HasArea
<1>3. Steady
  BY <1>1, <1>2 DEF Steady, Passes
<1>4. TypeOK'
  BY <1>1 DEF TypeOK, Passes
<1>5. RequestsOK'
  <2>1. ASSUME NEW q \in Requests
        PROVE  RequestOK(req[q])'
    <3>1. PICK r \in Request : r = req[q] /\ RequestOK(r)
      BY <1>1 DEF RequestsOK, TypeOK
    <3>2. RequestOK(r)'
      BY <1>1, <1>3, <3>1, SteadyKeeps
    <3>3. QED
      BY <1>1, <3>1, <3>2 DEF RequestOK
  <2>2. QED
    BY <2>1 DEF RequestsOK
<1>6. SetupLeavesServer' /\ AccountsAccounted'
  BY <1>1, <1>3, SetupKeeps DEF AccountInv, AccountsAccounted, Passes
<1>7. AccessEnds' /\ AccessOK' /\ TokensOK'
  BY <1>1, <1>3, SessionsKeep
<1>8. QED
  BY <1>4, <1>5, <1>6, <1>7 DEF AccountInv

LEMMA AreasKeep ==
  ASSUME AccountInv, NEW p \in Paths, NEW to \in Paths, NEW status \in {"enabled", "disabled"},
         DeleteStorageArea(p) \/ CreateStorageArea(p, status) \/ UpdateStorageArea(p, to, status)
  PROVE  AccountInv'
<1>1. area \in [Paths -> {"none", "enabled", "disabled"}]
  BY DEF AccountInv, TypeOK
<1>2. CASE DeleteStorageArea(p)
  BY <1>1, <1>2, AdministersKeeps DEF DeleteStorageArea
<1>3. CASE CreateStorageArea(p, status)
  <2>1. HasArea => \E x \in Paths : [area EXCEPT ![p] = status][x] = "enabled"
    BY <1>1, <1>3 DEF CreateStorageArea, HasArea
  <2>2. QED
    BY <1>1, <1>3, <2>1, AdministersKeeps DEF CreateStorageArea
<1>4. CASE UpdateStorageArea(p, to, status)
  <2>1. PICK new \in [Paths -> {"none", "enabled", "disabled"}] :
          new = [area EXCEPT ![p] = "none", ![to] = status]
    BY <1>1
  <2>2. new[to] = status
    BY <1>1, <2>1
  <2>3. PICK b \in BOOLEAN : b = (status = "disabled")
    OBVIOUS
  <2>4. Administers(new, b)
    BY <1>4, <2>1, <2>3 DEF UpdateStorageArea
  <2>5. ~b => \E x \in Paths : new[x] = "enabled"
    BY <2>2, <2>3
  <2>6. QED
    BY <2>4, <2>5, AdministersKeeps
<1>5. QED
  BY <1>2, <1>3, <1>4

-----------------------------------------------------------------------------
(* Sessions *)

\* An access token that is handed out now.
LEMMA Issuing ==
  ASSUME TypeOK, NEW u \in Users, user[u] # None, NEW s \in Sessions
  PROVE  /\ Issued(u, s) \in Access
         /\ Issued(u, s).until = clock + AccessTTL
         /\ Issued(u, s).session = s
<1>1. user[u] \in User
  BY DEF TypeOK
<1>2. user[u].admin \in BOOLEAN /\ clock + AccessTTL \in Nat
  BY <1>1, AccountAssumption DEF User, TypeOK
<1>3. QED
  BY <1>2 DEF Issued, Access

\* Setup and the accounts do not depend on the sessions.
LEMMA AccountsKeep ==
  ASSUME AccountInv, UNCHANGED <<setup, area, user, removed>>, unread => unread'
  PROVE  SetupLeavesServer' /\ AccountsAccounted'
<1>1. HasAdmin' = HasAdmin /\ HasArea' = HasArea
  BY DEF HasAdmin, HasArea
<1>2. QED
  BY <1>1 DEF AccountInv, SetupLeavesServer, AccountsAccounted

LEMMA LoginKeeps ==
  ASSUME AccountInv, NEW q \in Requests, LoginEnds(q)
  PROVE  AccountInv'
<1> DEFINE u == req[q].user
<1>1. TypeOK /\ RequestsOK /\ u \in Users /\ user[u] # None /\ clock \in Nat
  BY DEF AccountInv, RequestsOK, RequestOK, LoginEnds, At, TypeOK
<1>2. PICK s \in Sessions :
        /\ token[s] = None /\ \A a \in access : a.session # s
        /\ token' = [token EXCEPT ![s] = [user |-> u, expires |-> clock + RefreshTTL,
                                         revoked |-> FALSE, at |-> 0]]
        /\ access' = access \cup {Issued(u, s)}
  BY DEF LoginEnds
<1>3. PICK new : new = [user |-> u, expires |-> clock + RefreshTTL, revoked |-> FALSE, at |-> 0]
  OBVIOUS
<1>4. /\ new \in Token /\ new # None
      /\ new.user = u /\ new.expires = clock + RefreshTTL /\ ~new.revoked
  <2>1. clock + RefreshTTL \in Nat
    BY <1>1, AccountAssumption
  <2>2. new \in Token /\ new.user = u /\ new.expires = clock + RefreshTTL /\ new.revoked = FALSE
    BY <1>1, <1>3, <2>1 DEF Token
  <2>3. QED
    BY <2>2, AccountAssumption
<1>5. token' \in [Sessions -> Token \cup {None}] /\ token'[s] = new
  BY <1>1, <1>2, <1>3, <1>4 DEF TypeOK
<1>6. \A t \in Sessions : t # s => token'[t] = token[t]
  BY <1>1, <1>2 DEF TypeOK
<1>7. UNCHANGED <<setup, area, user, clock, unread, removed>>
  BY DEF LoginEnds
<1>8. Steady
  BY <1>2, <1>6, <1>7 DEF Steady, HasArea
<1>9. RequestsOK' /\ req' \in [Requests -> Request]
  BY <1>1, <1>8, EndsKeeps DEF LoginEnds
<1>10. PICK i \in Access : /\ i = Issued(u, s) /\ i.until = clock + AccessTTL /\ i.session = s
  BY <1>1, Issuing
<1>11. TypeOK'
  BY <1>1, <1>2, <1>5, <1>7, <1>9, <1>10 DEF TypeOK
<1>12. AccessOK'
  BY <1>1, <1>2, <1>7, <1>10, AccountAssumption DEF AccountInv, AccessOK
<1>13. TokensOK'
  <2>1. user[new.user] # None
    BY <1>1, <1>4
  <2>2. QED
    BY <1>4, <1>5, <1>6, <1>7, <2>1 DEF AccountInv, TokensOK
<1>14. AccessEnds'
  <2>1. ASSUME NEW a \in access
        PROVE  a.session # s /\ token'[a.session] = token[a.session]
    BY <1>1, <1>2, <1>6 DEF TypeOK, Access
  <2>2. i.until <= new.expires + 1 + AccessTTL
    BY <1>1, <1>4, <1>10, AccountAssumption
  <2>3. QED
    BY <1>2, <1>4, <1>5, <1>10, <2>1, <2>2 DEF AccountInv, AccessEnds
<1>15. QED
  BY <1>7, <1>9, <1>11, <1>12, <1>13, <1>14, AccountsKeep DEF AccountInv

\* A cast token is nobody's, so nothing is said of its end.
LEMMA CastKeeps ==
  ASSUME AccountInv, IssueCastToken
  PROVE  AccountInv'
<1>1. /\ TypeOK /\ RequestsOK /\ Passes /\ UNCHANGED <<setup, area, user, token, req, clock, removed>>
  BY GuardPasses DEF AccountInv, IssueCastToken
<1>2. PICK c \in access : access' = access \cup {CastClaims(c)}
  BY DEF IssueCastToken, Claims
<1>3. CastClaims(c) \in Access /\ CastClaims(c).user = None
  <2>1. c.session \in Sessions /\ clock + CastTTL \in Nat
    BY <1>1, AccountAssumption DEF TypeOK, Access
  <2>2. QED
    BY <2>1 DEF CastClaims, Access
<1>4. HasArea' = HasArea
  BY <1>1 DEF HasArea
<1>5. Steady
  BY <1>1, <1>4 DEF Steady, Passes
<1>6. RequestsOK'
  <2>1. ASSUME NEW q \in Requests
        PROVE  RequestOK(req[q])'
    <3>1. PICK r \in Request : r = req[q] /\ RequestOK(r)
      BY <1>1 DEF RequestsOK, TypeOK
    <3>2. RequestOK(r)'
      BY <1>1, <1>5, <3>1, SteadyKeeps
    <3>3. QED
      BY <1>1, <3>1, <3>2 DEF RequestOK
  <2>2. QED
    BY <2>1 DEF RequestsOK
<1>7. TypeOK'
  BY <1>1, <1>2, <1>3 DEF TypeOK, Passes
<1>8. AccessOK' /\ TokensOK' /\ AccessEnds'
  BY <1>1, <1>2, <1>3 DEF AccountInv, AccessOK, TokensOK, AccessEnds
<1>9. QED
  BY <1>1, <1>6, <1>7, <1>8, AccountsKeep DEF AccountInv, Passes

LEMMA RefreshKeeps ==
  ASSUME AccountInv, NEW q \in Requests, RefreshEnds(q)
  PROVE  AccountInv'
<1> DEFINE u == req[q].user
           s == req[q].session
<1>1. /\ TypeOK /\ RequestsOK /\ u \in Users /\ user[u] # None /\ clock \in Nat
      /\ s \in Sessions /\ token[s] # None
      /\ req[q].since <= token[s].expires
      /\ token[s].revoked => req[q].since <= token[s].at
      /\ clock <= req[q].since + 1
  BY DEF AccountInv, RequestsOK, RequestOK, RefreshEnds, At, TypeOK
<1>2. UNCHANGED <<setup, area, user, token, clock, unread, removed>> /\ access' = access \cup {Issued(u, s)}
  BY DEF RefreshEnds
<1>3. Steady
  BY <1>2 DEF Steady, HasArea
<1>4. RequestsOK' /\ req' \in [Requests -> Request]
  BY <1>1, <1>3, EndsKeeps DEF RefreshEnds
<1>5. PICK i \in Access : i = Issued(u, s) /\ i.until = clock + AccessTTL /\ i.session = s
  BY <1>1, Issuing
<1>6. TypeOK'
  BY <1>1, <1>2, <1>4, <1>5 DEF TypeOK
<1>7. AccessOK' /\ TokensOK'
  BY <1>1, <1>2, <1>5, AccountAssumption DEF AccountInv, AccessOK, TokensOK
<1>8. AccessEnds'
  <2>1. token[s] \in Token /\ req[q] \in Request
    BY <1>1 DEF TypeOK
  <2>2. token[s].expires \in Nat /\ token[s].at \in Nat /\ req[q].since \in Nat
    BY <2>1 DEF Token, Request
  <2>3. /\ i.until <= token[s].expires + 1 + AccessTTL
        /\ token[s].revoked => i.until <= token[s].at + 1 + AccessTTL
    BY <1>1, <1>5, <2>2, AccountAssumption
  <2>4. QED
    BY <1>2, <1>5, <2>3 DEF AccountInv, AccessEnds
<1>9. QED
  BY <1>2, <1>4, <1>6, <1>7, <1>8, AccountsKeep DEF AccountInv

LEMMA LogoutKeeps ==
  ASSUME AccountInv, NEW q \in Requests, LogoutEnds(q)
  PROVE  AccountInv'
<1> DEFINE s == req[q].session
<1>1. TypeOK /\ RequestsOK /\ s \in Sessions /\ clock \in Nat
  BY DEF AccountInv, RequestsOK, RequestOK, LogoutEnds, At, TypeOK
<1>2. CASE token[s] = None \/ token[s].revoked
  <2>1. UNCHANGED Rows /\ Passes
    BY <1>1, <1>2, GuardPasses DEF LogoutEnds, Rows
  <2>2. QED
    BY <1>1, <2>1, RowsSteady, EndsKeeps, RowsKeep DEF LogoutEnds
<1>3. CASE token[s] # None /\ ~token[s].revoked
  <2>1. token[s] \in Token
    BY <1>1, <1>3 DEF TypeOK
  <2>2. PICK new \in Token : /\ new = [[token[s] EXCEPT !.revoked = TRUE] EXCEPT !.at = clock]
                             /\ new.revoked /\ new.at = clock
                             /\ new.user = token[s].user /\ new.expires = token[s].expires
    <3>1. PICK new : new = [[token[s] EXCEPT !.revoked = TRUE] EXCEPT !.at = clock]
      OBVIOUS
    <3>2. PICK old \in Token, c \in Nat : old = token[s] /\ c = clock
      BY <1>1, <2>1
    <3>3. new = [[old EXCEPT !.revoked = TRUE] EXCEPT !.at = c]
      BY <3>1, <3>2
    <3>4. /\ new \in Token /\ new.revoked /\ new.at = c
          /\ new.user = old.user /\ new.expires = old.expires
      BY <3>3 DEF Token
    <3>5. QED
      BY <3>1, <3>2, <3>4
  <2>3. token' = [token EXCEPT ![s] = new]
    BY <1>1, <1>3, <2>2 DEF LogoutEnds, TypeOK
  <2>4. token' \in [Sessions -> Token \cup {None}] /\ token'[s] = new /\ new # None
    BY <1>1, <2>3, AccountAssumption DEF TypeOK
  <2>5. \A t \in Sessions : t # s => token'[t] = token[t]
    BY <1>1, <2>3 DEF TypeOK
  <2>6. UNCHANGED <<setup, area, user, access, clock, unread, removed>>
    BY DEF LogoutEnds
  <2>7. Steady
    BY <2>2, <2>4, <2>5, <2>6 DEF Steady, HasArea
  <2>8. RequestsOK' /\ req' \in [Requests -> Request]
    BY <1>1, <2>7, EndsKeeps DEF LogoutEnds
  <2>9. TypeOK'
    BY <1>1, <2>4, <2>6, <2>8 DEF TypeOK
  <2>10. AccessOK'
    BY <2>6 DEF AccountInv, AccessOK
  <2>11. TokensOK'
    <3>1. user[new.user] # None /\ new.at <= clock
      BY <1>1, <1>3, <2>2 DEF AccountInv, TokensOK
    <3>2. QED
      BY <2>4, <2>5, <2>6, <3>1 DEF AccountInv, TokensOK
  <2>12. AccessEnds'
    <3>1. ASSUME NEW a \in access, a.user # None, a.session = s
          PROVE  a.until <= new.expires + 1 + AccessTTL /\ a.until <= new.at + 1 + AccessTTL
      <4>1. a.until <= clock + AccessTTL /\ a.until \in Nat
        BY <1>1, <3>1 DEF AccountInv, AccessOK, TypeOK, Access
      <4>2. QED
        BY <1>1, <1>3, <2>2, <3>1, <4>1, AccountAssumption DEF AccountInv, AccessEnds
    <3>2. ASSUME NEW a \in access, a.session # s
          PROVE  token'[a.session] = token[a.session]
      BY <1>1, <2>5, <3>2 DEF TypeOK, Access
    <3>3. QED
      BY <2>4, <2>6, <3>1, <3>2 DEF AccountInv, AccessEnds
  <2>13. QED
    BY <2>6, <2>8, <2>9, <2>10, <2>11, <2>12, AccountsKeep DEF AccountInv
<1>4. QED
  BY <1>2, <1>3

\* A restart forgets the requests, and tokens that have expired.
LEMMA RestartKeeps ==
  ASSUME AccountInv, ServerRestarts
  PROVE  AccountInv'
<1>1. UNCHANGED <<setup, area, user, access, clock, unread, removed>> /\ TypeOK
  BY DEF ServerRestarts, AccountInv
<1>2. ASSUME NEW s \in Sessions
      PROVE  token'[s] = token[s] \/ token'[s] = None
  BY <1>2 DEF ServerRestarts, Unexpired
<1>3. token' \in [Sessions -> Token \cup {None}]
  BY <1>1 DEF ServerRestarts, Unexpired, TypeOK
<1>4. req' \in [Requests -> Request] /\ RequestsOK'
  BY IdleIsRequest DEF ServerRestarts, RequestsOK, RequestOK, Idle
<1>5. TypeOK'
  BY <1>1, <1>3, <1>4 DEF TypeOK
<1>6. TokensOK' /\ AccessOK'
  BY <1>1, <1>2 DEF AccountInv, TokensOK, AccessOK
<1>7. AccessEnds'
  BY <1>1, <1>2 DEF AccountInv, AccessEnds, TypeOK, Access
<1>8. QED
  BY <1>1, <1>4, <1>5, <1>6, <1>7, AccountsKeep DEF AccountInv

\* A request that is there when the clock ticks began in the tick that ends.
LEMMA TickKeeps ==
  ASSUME AccountInv, Tick
  PROVE  AccountInv'
<1>1. /\ UNCHANGED <<setup, area, user, token, req, unread, removed>> /\ access' \subseteq access
      /\ TypeOK /\ RequestsOK /\ clock \in Nat /\ clock' = clock + 1 /\ clock' \in 0 .. MaxClock
  BY AccountAssumption DEF Tick, AccountInv, TypeOK
<1>2. TypeOK'
  BY <1>1 DEF TypeOK
<1>3. ASSUME NEW q \in Requests
      PROVE  RequestOK(req[q])'
  <2>1. /\ req[q] \in Request /\ RequestOK(req[q]) /\ req'[q] = req[q]
        /\ req[q].pc = "off" \/ req[q].since = clock
    BY <1>1 DEF Tick, At, TypeOK, RequestsOK
  <2>2. HasAdmin' = HasAdmin /\ HasArea' = HasArea /\ user' = user /\ token' = token
    BY <1>1 DEF HasAdmin, HasArea
  <2>3. QED
    BY <1>1, <2>1, <2>2 DEF RequestOK
<1>4. TokensOK'
  <2>1. ASSUME NEW s \in Sessions, token[s] # None
        PROVE  token[s].at \in Nat
    BY <1>1, <2>1 DEF TypeOK, Token
  <2>2. QED
    BY <1>1, <2>1 DEF AccountInv, TokensOK
<1>5. AccessOK'
  <2>1. \A a \in access : a.until \in Nat
    BY <1>1 DEF TypeOK, Access
  <2>2. QED
    BY <1>1, <2>1, AccountAssumption DEF AccountInv, AccessOK
<1>6. AccessEnds'
  BY <1>1 DEF AccountInv, AccessEnds
<1>7. QED
  BY <1>1, <1>2, <1>3, <1>4, <1>5, <1>6, AccountsKeep DEF AccountInv, RequestsOK

-----------------------------------------------------------------------------
(* The theorems *)

LEMMA AccountInit == Init => AccountInv
<1> SUFFICES ASSUME Init PROVE AccountInv
  OBVIOUS
<1>1. TypeOK
  <2>1. req \in [Requests -> Request]
    BY IdleIsRequest DEF Init
  <2>2. setup \in BOOLEAN
    BY DEF Init
  <2>3. clock = 0 /\ 0 \in 0 .. MaxClock
    BY AccountAssumption DEF Init
  <2>4. \A u \in Users : user[u] = None
    BY DEF Init
  <2>5. user \in [Users -> User \cup {None}] /\ token \in [Sessions -> Token \cup {None}]
    BY DEF Init
  <2>6. /\ area \in [Paths -> {"none", "enabled", "disabled"}] /\ access \subseteq Access
        /\ unread \in BOOLEAN /\ removed \in BOOLEAN
    BY DEF Init
  <2>7. QED
    BY <2>1, <2>2, <2>3, <2>4, <2>5, <2>6 DEF TypeOK
<1>2. SetupLeavesServer /\ AccountsAccounted /\ AccessEnds /\ TokensOK /\ AccessOK
  BY DEF Init, SetupLeavesServer, AccountsAccounted, AccessEnds, TokensOK, AccessOK
<1>3. RequestsOK
  BY DEF Init, RequestsOK, RequestOK, Idle
<1>4. QED
  BY <1>1, <1>2, <1>3 DEF AccountInv

LEMMA AccountStep == AccountInv /\ [Next]_vars => AccountInv'
<1> SUFFICES ASSUME AccountInv, [Next]_vars PROVE AccountInv'
  OBVIOUS
<1>1. CASE UNCHANGED vars
  <2>1. UNCHANGED Rows /\ UNCHANGED unread /\ req' = req /\ Passes
    BY <1>1, GuardPasses DEF vars, Rows, AccountInv
  <2>2. RequestsOK' /\ req' \in [Requests -> Request]
    BY <2>1 DEF AccountInv, RequestsOK, RequestOK, HasAdmin, HasArea, TypeOK, Rows
  <2>3. QED
    BY <2>1, <2>2, RowsKeep
<1>2. QED
  BY <1>1, CreateUserBegins, OtherBegins, CancelledKeeps, CreateUserKeeps, UpdateMeKeeps,
     SetupUserKeeps, SetupAreaKeeps, SetupMarksKeeps, AreasKeep, CastKeeps, LoginKeeps, RefreshKeeps, LogoutKeeps,
     RestartKeeps, TickKeeps
  DEF Next

LEMMA AccountAlways == Spec => []AccountInv
  BY AccountInit, AccountStep, PTL DEF Spec

\* Accounts, areas, tokens and requests keep to their sets, and no two users have one
\* name, however requests overlap.
THEOREM AccountsTyped == Spec => []TypeOK
  BY AccountAlways, PTL DEF AccountInv

\* Setup that is marked complete has left an administrator, and a storage area that is
\* enabled until an administrator deletes or disables one, though its writes are no
\* transaction: requests may overlap, be cancelled between any two statements, be lost in
\* a restart, and pass a guard that cannot read the setting.
THEOREM SetupComplete == Spec => []SetupLeavesServer
  BY AccountAlways, PTL DEF AccountInv

\* Until the guard fails to read the setting and lets a request pass before setup, every
\* account was made by the wizard or by an administrator: CreateUser's rule for the first
\* user is reached in no other way.
THEOREM AccountsAreAccounted == Spec => []AccountsAccounted
  BY AccountAlways, PTL DEF AccountInv

\* For any lifetimes of the tokens, a session that has ended gives access as its user for
\* no longer than one access token's life and the tick of a Refresh that had read the row;
\* cast tokens made in the meantime name no user.
THEOREM AccessEndsInTime == Spec => []AccessEnds
  BY AccountAlways, PTL DEF AccountInv
=============================================================================
