------------------------------- MODULE Accounts -------------------------------
(***************************************************************************)
(* The rows of platform_users and the requests that change them: signing   *)
(* up, provisioning, editing, changing a password, deleting, logging in    *)
(* (users_controller.py, auth_controller.py, user_repository.py), and the  *)
(* seeding of the first superuser by every API worker that starts          *)
(* (app/__init__.py).                                                      *)
(*                                                                         *)
(* A request works on the User its session loaded: PostgreSQL runs other   *)
(* requests' transactions between its statements and while Argon2 runs in  *)
(* the executor.  The repository commits at the end of every write, with   *)
(* an UPDATE of the columns whose value differs from the loaded one.       *)
(***************************************************************************)
EXTENDS Naturals, FiniteSets

CONSTANTS
  Ids,          \* identifiers the database can give out (bounds the accounts)
  Emails,
  Passwords,
  SeedEmail,    \* FIRST_SUPERUSER_EMAIL
  SeedPassword, \* FIRST_SUPERUSER_PASSWORD
  Handlers,     \* requests in flight at the same time
  Workers,      \* API processes starting up
  MaxAsked,     \* bound on the columns one PATCH asks for
  MaxRequests,  \* bound on the requests of a behaviour
  None          \* a field the request leaves out; no row, no request

ASSUME AccountsAssumption ==
  /\ MaxRequests \in Nat
  /\ SeedEmail \in Emails /\ SeedPassword \in Passwords
  /\ None \notin Ids /\ None \notin Emails /\ None \notin Passwords /\ None \notin BOOLEAN

VARIABLES
  row,      \* platform_users: row[u] is None unless account u exists
  used,     \* identifiers given out so far
  issued,   \* claims of the access tokens issued so far
  seed,     \* seed[w]: how far worker w's on_startup is
  pc,       \* pc[h]: what request h does next
  req,      \* req[h]: operation, caller, account and body of h
  copy,     \* copy[h]: the User the session of h holds, as it was loaded
  arrived   \* requests that have arrived, for the bound

vars == <<row, used, issued, seed, pc, req, copy, arrived>>

Columns == {"email", "password", "active", "super"}
Row     == [email: Emails, password: Passwords, active: BOOLEAN, super: BOOLEAN,
            role: {"member", "superadmin"}]
Ask     == [email: Emails \cup {None}, password: Passwords \cup {None},
            active: BOOLEAN \cup {None}, super: BOOLEAN \cup {None}]
Claims  == [sub: Ids, super: BOOLEAN, role: {"member", "superadmin"}]
Create  == {"register", "create"}
Edit    == {"update_me", "update", "password"}
Request == [op: Create \cup Edit \cup {"delete_me", "delete", "login"},
            by: Claims \cup {None}, target: Ids \cup {None},
            current: Passwords \cup {None}, ask: Ask]

ASSUME NoneAssumption == None \notin Row

TypeOK ==
  /\ row \in [Ids -> Row \cup {None}]
  /\ used \subseteq Ids
  /\ issued \subseteq Claims
  /\ seed \in [Workers -> {"starting", "missing", "up", "deferred"}]
  /\ pc \in [Handlers -> {"idle", "load", "lookup", "write"}]
  /\ req \in [Handlers -> Request \cup {None}]
  /\ copy \in [Handlers -> Row \cup {None}]
  /\ arrived \in 0..MaxRequests

Init ==
  /\ row = [u \in Ids |-> None]
  /\ used = {} /\ issued = {}
  /\ seed = [w \in Workers |-> "starting"]
  /\ pc = [h \in Handlers |-> "idle"]
  /\ req = [h \in Handlers |-> None]
  /\ copy = [h \in Handlers |-> None]
  /\ arrived = 0

-----------------------------------------------------------------------------
(* The table                                                               *)

Accounts == {u \in Ids : row[u] # None}

\* get_by_email.
Holders(e) == {u \in Accounts : row[u].email = e}

\* Mutated forms (operators named "Broken") hold a plausible bug each, for the
\* mutation runs; nothing else uses them.

\* The column is not unique: only the controllers look the address up.
BrokenViolates(e, u) == FALSE

\* The unique constraint on email, for a write to account u.
Violates(e, u) == Holders(e) \ {u} # {}

\* An INSERT gets a new identifier (uuid).
Insert(u, r) ==
  /\ u \in Ids \ used
  /\ row' = [row EXCEPT ![u] = r]
  /\ used' = used \cup {u}

\* The body of a PATCH applied to the loaded User and written back whole.
BrokenFlush(h) ==
  LET a == req[h].ask
      Asked(value, loaded) == IF value # None THEN value ELSE loaded
  IN  [copy[h] EXCEPT !.email = Asked(a.email, @), !.password = Asked(a.password, @),
                      !.active = Asked(a.active, @), !.super = Asked(a.super, @)]

\* UPDATE of the columns whose value differs from the loaded one; a new hash of
\* a password differs from the old one, even for the same password.
Flush(h) ==
  LET a == req[h].ask
      Written(asked, loaded, now) == IF asked # None /\ asked # loaded THEN asked ELSE now
  IN  [row[req[h].target] EXCEPT
         !.email = Written(a.email, copy[h].email, @), !.password = Written(a.password, None, @),
         !.active = Written(a.active, copy[h].active, @), !.super = Written(a.super, copy[h].super, @)]

-----------------------------------------------------------------------------
(* Start-up of a worker: init_admin_user                                   *)

SeedRow == [email |-> SeedEmail, password |-> SeedPassword, active |-> TRUE,
            super |-> TRUE, role |-> "superadmin"]

SeedLook(w) ==
  /\ seed[w] = "starting"
  /\ seed' = [seed EXCEPT ![w] = IF Holders(SeedEmail) = {} THEN "missing" ELSE "up"]
  /\ UNCHANGED <<row, used, issued, pc, req, copy, arrived>>

\* A worker that loses the race gets the constraint's error and carries on.
SeedInsert(w) ==
  /\ seed[w] = "missing"
  /\ IF Holders(SeedEmail) # {}
     THEN /\ seed' = [seed EXCEPT ![w] = "deferred"]
          /\ UNCHANGED <<row, used>>
     ELSE /\ seed' = [seed EXCEPT ![w] = "up"]
          /\ \E u \in Ids : Insert(u, SeedRow)
  /\ UNCHANGED <<issued, pc, req, copy, arrived>>

\* init_admin_user swallows every exception and is not run again.
SeedError(w) ==
  /\ seed[w] \in {"starting", "missing"}
  /\ seed' = [seed EXCEPT ![w] = "deferred"]
  /\ UNCHANGED <<row, used, issued, pc, req, copy, arrived>>

Start(w) == SeedLook(w) \/ SeedInsert(w) \/ SeedError(w)

\* A worker serves requests once its start-up is over.
Serving == \E w \in Workers : seed[w] \in {"up", "deferred"}

-----------------------------------------------------------------------------
(* The guards and the requests they let through                            *)

NoAsk == [email |-> None, password |-> None, active |-> None, super |-> None]
Asks(F) == {a \in Ask : /\ \A f \in Columns \ F : a[f] = None
                        /\ Cardinality({f \in F : a[f] # None}) \in 1..MaxAsked}

\* Authentication is taken for enough.
BrokenAdministers(t) == TRUE

\* superuser_guard: the claims of the token, not the row, decide.
Administers(t) == t.super \/ t.role = "superadmin"

Begin(h, r, first) ==
  /\ pc[h] = "idle" /\ Serving /\ arrived < MaxRequests
  /\ arrived' = arrived + 1
  /\ pc' = [pc EXCEPT ![h] = first]
  /\ req' = [req EXCEPT ![h] = r]
  /\ UNCHANGED <<row, used, issued, seed, copy>>

\* The bound on the accounts: an INSERT to come finds an identifier left.
Room == Cardinality(used) + Cardinality({h \in Handlers : pc[h] # "idle" /\ req[h].op \in Create})
          + Cardinality({w \in Workers : seed[w] \in {"starting", "missing"}}) < Cardinality(Ids)

\* An account anyone may open for himself.
OpenUser(e, p) == [email |-> e, password |-> p, active |-> TRUE, super |-> FALSE]

\* POST /users/register, /users/signup: anyone; POST /users: administrators.
BeginRegister(h) ==
  \E e \in Emails, p \in Passwords :
    /\ Room
    /\ Begin(h, [op |-> "register", by |-> None, target |-> None, current |-> None,
                 ask |-> OpenUser(e, p)], "lookup")

BeginCreate(h) ==
  \E t \in issued, e \in Emails, p \in Passwords, a, s \in BOOLEAN :
    /\ Room /\ Administers(t)
    /\ Begin(h, [op |-> "create", by |-> t, target |-> None, current |-> None,
                 ask |-> [email |-> e, password |-> p, active |-> a, super |-> s]],
             "lookup")

\* A request about an account that is there already.
BeginOn(h, op, t, u, c, a, first) ==
  Begin(h, [op |-> op, by |-> t, target |-> u, current |-> c, ask |-> a], first)

\* PATCH /users/me, PATCH /users/me/password, DELETE /users/me: one's own.
BeginUpdateMe(h) ==
  \E t \in issued, a \in Asks({"email", "password"}) :
    BeginOn(h, "update_me", t, t.sub, None, a, "load")

BeginPassword(h) ==
  \E t \in issued, c \in Passwords, a \in Asks({"password"}) :
    BeginOn(h, "password", t, t.sub, c, a, "load")

BeginDeleteMe(h) == \E t \in issued : BeginOn(h, "delete_me", t, t.sub, None, NoAsk, "load")

\* PATCH and DELETE /users/{user_id}: any account, for DELETE not one's own.
BeginUpdate(h) ==
  \E t \in issued, u \in used, a \in Asks(Columns) :
    Administers(t) /\ BeginOn(h, "update", t, u, None, a, "load")

BeginDelete(h) ==
  \E t \in issued, u \in used :
    Administers(t) /\ u # t.sub /\ BeginOn(h, "delete", t, u, None, NoAsk, "write")

\* POST /auth/login, /auth/token.
BeginLogin(h) ==
  \E e \in Emails, p \in Passwords :
    Begin(h, [op |-> "login", by |-> None, target |-> None, current |-> p,
              ask |-> [NoAsk EXCEPT !.email = e]], "load")

-----------------------------------------------------------------------------
(* The handlers                                                            *)

\* The request is answered, whatever the status.
Answer(h) ==
  /\ pc' = [pc EXCEPT ![h] = "idle"]
  /\ req' = [req EXCEPT ![h] = None]
  /\ copy' = [copy EXCEPT ![h] = None]
  /\ UNCHANGED arrived

\* Argon2, in the executor: hashes stand for the passwords they are made of.
verify_password(plain, hashed) == hashed = plain

\* The checks the handlers make on the User they loaded.
Passes(h, r) ==
  /\ req[h].op = "password" =>
       verify_password(req[h].current, r.password) /\ req[h].ask.password # req[h].current
  /\ req[h].op = "delete_me" => ~r.super
  /\ req[h].op = "login" => verify_password(req[h].current, r.password) /\ r.active

\* The account get_by_id or, for a login, get_by_email finds.
Found(h) ==
  IF req[h].op # "login" THEN req[h].target
  ELSE IF Holders(req[h].ask.email) = {} THEN None
  ELSE CHOOSE u \in Holders(req[h].ask.email) : TRUE

Load(h) ==
  /\ pc[h] = "load"
  /\ IF Found(h) \in Accounts /\ Passes(h, row[Found(h)])
     THEN LET r == row[Found(h)] IN
          /\ copy' = [copy EXCEPT ![h] = r]
          /\ req' = [req EXCEPT ![h].target = Found(h)]
          /\ pc' = [pc EXCEPT ![h] = IF req[h].op \in Edit /\ req[h].ask.email \notin {None, r.email}
                                     THEN "lookup" ELSE "write"]
          /\ UNCHANGED arrived
     ELSE Answer(h)
  /\ UNCHANGED <<row, used, issued, seed>>

\* get_by_email before an address is given to an account; 409 when it is taken.
Lookup(h) ==
  /\ pc[h] = "lookup"
  /\ IF Holders(req[h].ask.email) \ {req[h].target} = {}
     THEN pc' = [pc EXCEPT ![h] = "write"] /\ UNCHANGED <<req, copy, arrived>>
     ELSE Answer(h)
  /\ UNCHANGED <<row, used, issued, seed>>

\* create: the constraint may still refuse the row.
Add(h) ==
  /\ pc[h] = "write" /\ req[h].op \in Create
  /\ IF Violates(req[h].ask.email, None)
     THEN UNCHANGED <<row, used>>
     ELSE \E u \in Ids : Insert(u, [email |-> req[h].ask.email, password |-> req[h].ask.password,
                                    active |-> req[h].ask.active, super |-> req[h].ask.super,
                                    role |-> "member"])
  /\ Answer(h)
  /\ UNCHANGED <<issued, seed>>

\* The instance is merged back, a missing row inserted again.
BrokenUpdate(h) ==
  /\ pc[h] = "write" /\ req[h].op \in Edit
  /\ LET r == IF row[req[h].target] = None THEN BrokenFlush(h) ELSE Flush(h) IN
     IF Violates(r.email, req[h].target)
     THEN UNCHANGED row
     ELSE row' = [row EXCEPT ![req[h].target] = r]
  /\ Answer(h)
  /\ UNCHANGED <<used, issued, seed>>

\* update: an error when the account is gone or the constraint refuses.
Update(h) ==
  /\ pc[h] = "write" /\ req[h].op \in Edit
  /\ IF row[req[h].target] = None \/ Violates(Flush(h).email, req[h].target)
     THEN UNCHANGED row
     ELSE row' = [row EXCEPT ![req[h].target] = Flush(h)]
  /\ Answer(h)
  /\ UNCHANGED <<used, issued, seed>>

\* delete: nothing happens when the account is gone.
Delete(h) ==
  /\ pc[h] = "write" /\ req[h].op \in {"delete_me", "delete"}
  /\ row' = [row EXCEPT ![req[h].target] = None]
  /\ Answer(h)
  /\ UNCHANGED <<used, issued, seed>>

\* create_access_token, from the User that was loaded before Argon2 ran.
Issue(h) ==
  /\ pc[h] = "write" /\ req[h].op = "login"
  /\ issued' = issued \cup {[sub |-> req[h].target, super |-> copy[h].super, role |-> copy[h].role]}
  /\ Answer(h)
  /\ UNCHANGED <<row, used, seed>>

Arrive(h) ==
  \/ BeginRegister(h) \/ BeginCreate(h) \/ BeginLogin(h)
  \/ BeginUpdateMe(h) \/ BeginPassword(h) \/ BeginDeleteMe(h) \/ BeginUpdate(h) \/ BeginDelete(h)
Handle(h) == Load(h) \/ Lookup(h) \/ Add(h) \/ Update(h) \/ Delete(h) \/ Issue(h)
Next ==
  \/ \E w \in Workers : Start(w)
  \/ \E h \in Handlers : Arrive(h) \/ Handle(h)

Spec == Init /\ [][Next]_vars

-----------------------------------------------------------------------------
(* What must hold                                                          *)

\* No two accounts share an address, however many sign-ups and changes of
\* address look it up at the same time, and whatever the workers seed.
EmailsUnique == \A u, v \in Accounts : row[u].email = row[v].email => u = v

\* A column of an account changes only to the value that the request being
\* written asks for: what another request wrote since the User was loaded (a
\* deactivation, a new password) is never undone.
OnlyAskedColumns ==
  [][\A u \in Accounts : row'[u] # None =>
       \A f \in Columns : row'[u][f] # row[u][f] =>
         \E h \in Handlers : /\ pc[h] = "write" /\ pc'[h] = "idle"
                             /\ req[h].target = u /\ req[h].ask[f] = row'[u][f]]_vars

\* A deleted account does not come back through a request that had loaded it.
GoneStaysGone == [][\A u \in used : row[u] = None => row'[u] = None]_vars

\* Superuser rights appear only in the seeded account, or where a request asked
\* for them whose token was issued to an administrator.
OnlyAdministratorsPromote ==
  [][\A u \in Ids :
       row'[u] # None /\ row'[u].super /\ (row[u] = None \/ ~row[u].super) =>
         \/ row'[u] = SeedRow
         \/ \E h \in Handlers : /\ pc[h] = "write" /\ pc'[h] = "idle"
                                /\ req[h].by \in issued
                                /\ req[h].by.super \/ req[h].by.role = "superadmin"]_vars

\* A worker's start-up ends well only while an account with the seed's address
\* is committed: found, or written by this very step.
SeedReached ==
  [][\A w \in Workers : seed'[w] = "up" /\ seed[w] # "up" =>
       \E u \in Ids : row'[u] # None /\ row'[u].email = SeedEmail]_vars
=============================================================================
