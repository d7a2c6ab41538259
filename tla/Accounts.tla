------------------------------- MODULE Accounts -------------------------------
(***************************************************************************)
(* First-run setup, users, and their sessions: the wizard with its writes  *)
(* one by one and without a transaction, the guard before every other      *)
(* request, accounts created and changed by overlapping requests, login,   *)
(* refresh and logout against the clock, cast tokens, administrators who   *)
(* change the storage area, a setup_complete that cannot be read,         *)
(* requests that are cancelled between two statements and a server that    *)
(* restarts.                                                               *)
(*                                                                         *)
(* Time is in ticks that are long to a request: it sees one tick at most.  *)
(* An account's email goes with its name; both are unique.                 *)
(***************************************************************************)
EXTENDS Naturals

CONSTANTS
  Users,      \* ids of users
  Names, Passwords,
  Paths,      \* directories for segments
  Sessions,   \* refresh tokens
  Requests,   \* requests being handled
  None,
  AccessTTL, RefreshTTL, CastTTL,   \* in ticks
  MaxClock                 \* bound on the clock

VARIABLES
  setup,   \* the setting setup_complete
  area,    \* rows of storage_area, by their path, which is unique
  user,    \* rows of users; by is a history: who created it
  token,   \* rows of refresh_tokens; at is a history: when it was revoked
  access,  \* access and cast tokens that were issued, and from which session
  req,     \* requests between two statements
  clock,
  unread,  \* a history: the guard passed a request because it could not read setup
  removed  \* a history: an administrator deleted or disabled an area

vars == <<setup, area, user, token, access, req, clock, unread, removed>>

Account == [name : Names, pass : Passwords]
User == [name : Names, pass : Passwords, admin : BOOLEAN, by : {"wizard", "admin", "nobody"}]
Token == [user : Users, expires : Nat, revoked : BOOLEAN, at : Nat]
Access == [user : Users \cup {None}, admin : BOOLEAN, until : Nat, session : Sessions]
Request == [pc : {"off", "setup", "area", "mark", "create", "login", "refresh", "logout", "update"},
            name : Names \cup {None}, pass : Passwords \cup {None}, path : Paths \cup {None},
            admin : BOOLEAN, by : {"admin", "nobody"}, user : Users \cup {None},
            session : Sessions \cup {None}, since : Nat]
Idle == [pc |-> "off", name |-> None, pass |-> None, path |-> None, admin |-> FALSE,
         by |-> "nobody", user |-> None, session |-> None, since |-> 0]

ASSUME AccountAssumption ==
  /\ AccessTTL \in Nat /\ RefreshTTL \in Nat /\ CastTTL \in Nat /\ MaxClock \in Nat
  /\ None \notin Users \cup Names \cup Passwords \cup Paths \cup Sessions
  /\ None \notin User \cup Token

Init ==
  /\ setup = FALSE /\ clock = 0 /\ unread = FALSE /\ removed = FALSE
  /\ area = [p \in Paths |-> "none"]
  /\ user = [u \in Users |-> None]
  /\ token = [s \in Sessions |-> None]
  /\ access = {}
  /\ req = [q \in Requests |-> Idle]

At(q, pc) == req[q].pc = pc
Begins(q, new) == At(q, "off") /\ req' = [req EXCEPT ![q] = [new EXCEPT !.since = clock]]
Ends(q) == req' = [req EXCEPT ![q] = Idle]
Goes(q, pc) == req' = [req EXCEPT ![q].pc = pc]

\* Mutant: no guard.
NoGuard == UNCHANGED unread

\* SetupGuard: what is not the wizard's has to wait for it, unless the setting cannot be
\* read: then every request passes.
SetupGuard == unread' = (unread \/ ~setup)

\* The claims of a token that was sent along. A cast token, signed with the same secret,
\* passes for an access token that is nobody's.
Claims == {a \in access : clock < a.until}

-----------------------------------------------------------------------------
(* Users *)

\* Mutant: names are not unique.
AnyName(n, others) == TRUE

\* The name is not one of those users'.
FreeName(n, others) == \A v \in others : user[v] # None => user[v].name # n

\* CreateUser of the store: the insert fails if the name is taken.
Inserts(q, isAdmin, creator) ==
  \E u \in Users :
    /\ user[u] = None /\ FreeName(req[q].name, Users)
    /\ user' = [user EXCEPT ![u] = [name |-> req[q].name, pass |-> req[q].pass,
                                    admin |-> isAdmin, by |-> creator]]

Taken(q) == ~FreeName(req[q].name, Users)

\* CreateUser: open while there are no users, for administrators afterwards.
CreateUser(q, n, w, isAdmin) ==
  LET first == \A u \in Users : user[u] = None
  IN /\ SetupGuard
     /\ first \/ \E c \in Claims : c.admin
     /\ Begins(q, [Idle EXCEPT !.pc = "create", !.name = n, !.pass = w,
                     !.admin = first \/ isAdmin, !.by = IF first THEN "nobody" ELSE "admin"])
     /\ UNCHANGED <<setup, area, user, token, access, clock, removed>>

CreateUserEnds(q) ==
  /\ At(q, "create") /\ Ends(q)
  /\ Inserts(q, req[q].admin, req[q].by) \/ (Taken(q) /\ UNCHANGED user)
  /\ UNCHANGED <<setup, area, token, access, clock, unread, removed>>

\* UpdateMe reads the row, and later writes name and password as they were read but for
\* what is to change.
UpdateMe(q) ==
  /\ SetupGuard
  /\ \E c \in Claims, n \in Names, w \in Passwords :
       /\ c.user # None /\ user[c.user] # None
       /\ Begins(q, [Idle EXCEPT !.pc = "update", !.user = c.user, !.name = n, !.pass = w])
  /\ UNCHANGED <<setup, area, user, token, access, clock, removed>>

UpdateMeEnds(q) ==
  LET u == req[q].user
  IN /\ At(q, "update") /\ Ends(q)
     /\ user' = IF FreeName(req[q].name, Users \ {u})
                  THEN [user EXCEPT ![u].name = req[q].name, ![u].pass = req[q].pass]
                  ELSE user
     /\ UNCHANGED <<setup, area, token, access, clock, unread, removed>>

-----------------------------------------------------------------------------
(* CompleteSetup *)

CompleteSetup(q, n, w, p) ==
  /\ ~setup
  /\ Begins(q, [Idle EXCEPT !.pc = "setup", !.name = n, !.pass = w, !.path = p])
  /\ UNCHANGED <<setup, area, user, token, access, clock, unread, removed>>

SetupCreatesUser(q) ==
  /\ At(q, "setup")
  /\ \/ Inserts(q, TRUE, "wizard") /\ Goes(q, "area")
     \/ Taken(q) /\ UNCHANGED user /\ Ends(q)
  /\ UNCHANGED <<setup, area, token, access, clock, unread, removed>>

\* Mutant: setup is complete before there is an area.
SetupMarksFirst(q) ==
  /\ At(q, "area")
  /\ setup' = TRUE
  /\ IF area[req[q].path] = "none" THEN Goes(q, "mark") ELSE Ends(q)
  /\ UNCHANGED <<area, user, token, access, clock, unread, removed>>

\* Three settings are saved, and the area created; its path is unique.
SetupCreatesArea(q) ==
  /\ At(q, "area")
  /\ \/ /\ area[req[q].path] = "none" /\ Goes(q, "mark")
        /\ area' = [area EXCEPT ![req[q].path] = "enabled"]
     \/ area[req[q].path] # "none" /\ UNCHANGED area /\ Ends(q)
  /\ UNCHANGED <<setup, user, token, access, clock, unread, removed>>

\* This write is not cancelled with the request.
SetupMarks(q) ==
  /\ At(q, "mark") /\ Ends(q)
  /\ setup' = TRUE
  /\ UNCHANGED <<area, user, token, access, clock, unread, removed>>

-----------------------------------------------------------------------------
(* Storage areas, for administrators *)

\* An administrator's request passes the guard and may write this much of the areas.
Administers(newArea, isRemoval) ==
  /\ SetupGuard /\ \E c \in Claims : c.admin
  /\ area' = newArea
  /\ removed' = (removed \/ isRemoval)
  /\ UNCHANGED <<setup, user, token, access, req, clock>>

CreateStorageArea(p, status) ==
  area[p] = "none" /\ Administers([area EXCEPT ![p] = status], FALSE)

\* UpdateStorageArea: the path, unless another area has it, and whether it is enabled.
UpdateStorageArea(p, to, status) ==
  /\ area[p] # "none" /\ (to = p \/ area[to] = "none")
  /\ Administers([area EXCEPT ![p] = "none", ![to] = status], status = "disabled")

\* DeleteStorageArea: any area, the last one too.
DeleteStorageArea(p) ==
  area[p] # "none" /\ Administers([area EXCEPT ![p] = "none"], TRUE)

-----------------------------------------------------------------------------
(* Sessions *)

\* IssueAccessToken
Issued(u, s) == [user |-> u, admin |-> user[u].admin, until |-> clock + AccessTTL, session |-> s]

\* Mutant: a cast token speaks for the user who asked for it.
UsersCast(c) == [c EXCEPT !.until = clock + CastTTL]

\* What a cast token says: neither a user nor an administrator, for a time of its own.
CastClaims(c) == [user |-> None, admin |-> FALSE, until |-> clock + CastTTL, session |-> c.session]

IssueCastToken ==
  /\ SetupGuard
  /\ \E c \in Claims : access' = access \cup {CastClaims(c)}
  /\ UNCHANGED <<setup, area, user, token, req, clock, removed>>

Login(q) ==
  /\ SetupGuard
  /\ \E u \in Users :
       /\ user[u] # None
       /\ Begins(q, [Idle EXCEPT !.pc = "login", !.user = u])
  /\ UNCHANGED <<setup, area, user, token, access, clock, removed>>

\* CreateRefreshToken; only then the access token is handed out.
LoginEnds(q) ==
  LET u == req[q].user
  IN /\ At(q, "login") /\ Ends(q)
     /\ \E s \in Sessions :
          /\ token[s] = None /\ \A a \in access : a.session # s
          /\ \A r \in Requests : req[r].session # s
          /\ token' = [token EXCEPT ![s] = [user |-> u, expires |-> clock + RefreshTTL,
                                           revoked |-> FALSE, at |-> 0]]
          /\ access' = access \cup {Issued(u, s)}
     /\ UNCHANGED <<setup, area, user, clock, unread, removed>>

\* Mutant: a revoked token is good until it expires.
GoodUntilExpiry(s) == token[s] # None /\ clock <= token[s].expires

\* A token that is known, not revoked and not expired.
Good(s) == token[s] # None /\ ~token[s].revoked /\ clock <= token[s].expires

Refresh(q, s) ==
  /\ SetupGuard /\ Good(s)
  /\ Begins(q, [Idle EXCEPT !.pc = "refresh", !.session = s, !.user = token[s].user])
  /\ UNCHANGED <<setup, area, user, token, access, clock, removed>>

RefreshEnds(q) ==
  /\ At(q, "refresh") /\ Ends(q)
  /\ access' = access \cup {Issued(req[q].user, req[q].session)}
  /\ UNCHANGED <<setup, area, user, token, clock, unread, removed>>

Logout(q, s) ==
  /\ SetupGuard /\ token[s] # None
  /\ Begins(q, [Idle EXCEPT !.pc = "logout", !.session = s])
  /\ UNCHANGED <<setup, area, user, token, access, clock, removed>>

\* RevokeRefreshToken; the time of the first counts.
LogoutEnds(q) ==
  LET s == req[q].session
  IN /\ At(q, "logout") /\ Ends(q)
     /\ token' = IF token[s] = None \/ token[s].revoked THEN token
                 ELSE [token EXCEPT ![s].revoked = TRUE, ![s].at = clock]
     /\ UNCHANGED <<setup, area, user, access, clock, unread, removed>>

-----------------------------------------------------------------------------

\* The request's context ends: no further statement succeeds.
Cancelled(q) ==
  /\ req[q].pc \notin {"off", "mark"} /\ Ends(q)
  /\ UNCHANGED <<setup, area, user, token, access, clock, unread, removed>>

\* DeleteExpiredTokens
Unexpired(t) == [s \in Sessions |-> IF t[s] # None /\ t[s].expires < clock THEN None ELSE t[s]]

ServerRestarts ==
  /\ req' = [q \in Requests |-> Idle]
  /\ token' = Unexpired(token)
  /\ UNCHANGED <<setup, area, user, access, clock, unread, removed>>

\* A request sees one tick at most; expired access tokens are forgotten.
Tick ==
  /\ clock < MaxClock /\ clock' = clock + 1
  /\ \A q \in Requests : At(q, "off") \/ req[q].since = clock
  /\ access' = {a \in access : clock' < a.until}
  /\ UNCHANGED <<setup, area, user, token, req, unread, removed>>

Next ==
  \/ \E q \in Requests :
       \/ \E n \in Names, w \in Passwords, p \in Paths : CompleteSetup(q, n, w, p)
       \/ \E n \in Names, w \in Passwords, b \in BOOLEAN : CreateUser(q, n, w, b)
       \/ \E s \in Sessions : Refresh(q, s) \/ Logout(q, s)
       \/ SetupCreatesUser(q) \/ SetupCreatesArea(q) \/ SetupMarks(q)
       \/ CreateUserEnds(q) \/ UpdateMe(q) \/ UpdateMeEnds(q)
       \/ Login(q) \/ LoginEnds(q) \/ RefreshEnds(q) \/ LogoutEnds(q)
       \/ Cancelled(q)
  \/ \E p \in Paths :
       \/ DeleteStorageArea(p)
       \/ \E status \in {"enabled", "disabled"} :
            CreateStorageArea(p, status) \/ \E to \in Paths : UpdateStorageArea(p, to, status)
  \/ IssueCastToken
  \/ ServerRestarts
  \/ Tick

Spec == Init /\ [][Next]_vars

-----------------------------------------------------------------------------
(* Properties *)

\* Every variable keeps to its set, and two users never have the same name, whichever
\* requests create and rename them.
TypeOK ==
  /\ setup \in BOOLEAN /\ clock \in 0 .. MaxClock /\ unread \in BOOLEAN /\ removed \in BOOLEAN
  /\ area \in [Paths -> {"none", "enabled", "disabled"}]
  /\ user \in [Users -> User \cup {None}]
  /\ \A u, v \in Users : user[u] # None /\ user[v] # None /\ user[u].name = user[v].name => u = v
  /\ token \in [Sessions -> Token \cup {None}]
  /\ access \subseteq Access
  /\ req \in [Requests -> Request]

HasAdmin == \E u \in Users : user[u] # None /\ user[u].admin /\ user[u].by = "wizard"
HasArea == \E p \in Paths : area[p] = "enabled"

\* When setup is complete the server can be used and administered: the wizard made an
\* administrator, and there is an enabled storage area, unless an administrator has
\* deleted or disabled one since (DeleteStorageArea takes the last one too). The wizard's
\* writes may stop after any of them, two wizards may overlap, and other requests may get
\* past a guard that could not read the setting.
SetupLeavesServer == setup => HasAdmin /\ (HasArea \/ removed)

\* No account comes into being that neither the wizard nor an administrator made, as long
\* as the guard can read the setting: the first-run rule of CreateUser is reached by no
\* other way. Once the guard has let a request pass before setup, nothing is claimed.
AccountsAccounted == ~unread => \A u \in Users : user[u] # None => user[u].by # "nobody"

\* A session that was ended, by logout or by the expiry of its refresh token, gives
\* access in its user's name for no longer than one access token's life after that, and
\* the tick that a Refresh may take between the read of the token and the answer. A cast
\* token that was made from it names no user, whatever it was made from, and its own
\* life, and that of cast tokens made from it in turn, is not bounded here.
AccessEnds ==
  \A a \in access : a.user # None /\ token[a.session] # None =>
    LET t == token[a.session]
    IN /\ a.until <= t.expires + 1 + AccessTTL
       /\ t.revoked => a.until <= t.at + 1 + AccessTTL
=============================================================================
