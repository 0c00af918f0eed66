---------------------------- MODULE AccountsProofs ----------------------------
(***************************************************************************)
(* Theorems about Accounts for any number of accounts, addresses, requests *)
(* in flight and workers starting.                                         *)
(***************************************************************************)
EXTENDS Accounts, TLAPS

USE AccountsAssumption

\* A request that asks for superuser rights was let through for an administrator.
Entitled(r) == r.ask.super = TRUE => r.op \in {"create", "update"} /\ r.by \in issued /\ Administers(r.by)

\* What a request in flight has: a new account needs all its columns, a change
\* the account it loaded.
Ready(h) ==
  pc[h] # "idle" =>
    /\ req[h] \in Request
    /\ req[h].op \in Create => /\ req[h].ask.email \in Emails /\ req[h].ask.password \in Passwords
                               /\ req[h].ask.active \in BOOLEAN /\ req[h].ask.super \in BOOLEAN
                               /\ req[h].target = None /\ pc[h] # "load"
    /\ req[h].op \in Edit \cup {"delete_me", "delete"} => req[h].target \in Ids
    /\ req[h].op \in Edit \cup {"login"} /\ pc[h] # "load" => copy[h] \in Row /\ req[h].target \in Ids
    /\ Entitled(req[h])

IInv ==
  /\ TypeOK
  /\ \A h \in Handlers : Ready(h)
  /\ Accounts \subseteq used
  /\ EmailsUnique

LEMMA Initially == Init => IInv
<1> SUFFICES ASSUME Init PROVE IInv
  OBVIOUS
<1> USE DEF Init
<1>1. TypeOK
  <2>1. row \in [Ids -> Row \cup {None}] /\ req \in [Handlers -> Request \cup {None}] /\ copy \in [Handlers -> Row \cup {None}]
    OBVIOUS
  <2>2. seed \in [Workers -> {"starting", "missing", "up", "deferred"}] /\ pc \in [Handlers -> {"idle", "load", "lookup", "write"}]
    OBVIOUS
  <2>3. used \subseteq Ids /\ issued \subseteq Claims /\ arrived \in 0..MaxRequests
    OBVIOUS
  <2>4. QED
    BY <2>1, <2>2, <2>3 DEF TypeOK
<1>2. QED
  BY <1>1 DEF IInv, Ready, Accounts, EmailsUnique

-----------------------------------------------------------------------------
(* Start-up                                                                *)

\* A step that leaves the requests alone and only adds tokens.
LEMMA RequestsKept ==
  ASSUME IInv, UNCHANGED <<pc, req, copy>>, issued \subseteq issued'
  PROVE  \A h \in Handlers : Ready(h)'
BY DEF IInv, Ready, Entitled

\* An INSERT of an address nobody holds keeps addresses unique.
LEMMA Inserts ==
  ASSUME IInv, NEW u \in Ids, NEW r \in Row, Insert(u, r), Holders(r.email) = {}
  PROVE  /\ row' \in [Ids -> Row \cup {None}] /\ used' \subseteq Ids
         /\ Accounts' \subseteq used' /\ EmailsUnique'
<1>1. u \notin used /\ row' = [row EXCEPT ![u] = r] /\ used' = used \cup {u}
  BY DEF Insert
<1>2. row' \in [Ids -> Row \cup {None}] /\ used' \subseteq Ids
  BY <1>1 DEF IInv, TypeOK
<1>3. Accounts' \subseteq Accounts \cup {u}
  BY <1>1 DEF Accounts, IInv, TypeOK
<1>4. row'[u] = r /\ \A v \in Accounts : v # u => row'[v] = row[v] /\ row[v].email # r.email
  BY <1>1 DEF IInv, TypeOK, Accounts, Holders
<1>5. EmailsUnique'
  BY <1>3, <1>4 DEF EmailsUnique, IInv
<1>6. QED
  BY <1>1, <1>2, <1>3, <1>5 DEF IInv

LEMMA StartSteps == ASSUME IInv, NEW w \in Workers, Start(w) PROVE IInv'
<1>1. UNCHANGED <<issued, pc, req, copy, arrived>>
  BY DEF Start, SeedLook, SeedInsert, SeedError
<1>2. seed' \in [Workers -> {"starting", "missing", "up", "deferred"}]
  BY DEF Start, SeedLook, SeedInsert, SeedError, IInv, TypeOK
<1>3. \A h \in Handlers : Ready(h)'
  BY <1>1, RequestsKept
<1>4. CASE UNCHANGED <<row, used>>
  BY <1>1, <1>2, <1>3, <1>4 DEF IInv, TypeOK, Accounts, EmailsUnique
<1>5. CASE SeedInsert(w) /\ Holders(SeedEmail) = {}
  <2>1. PICK u \in Ids : Insert(u, SeedRow)
    BY <1>5 DEF SeedInsert
  <2>2. SeedRow \in Row /\ SeedRow.email = SeedEmail
    BY DEF SeedRow, Row
  <2>3. row' \in [Ids -> Row \cup {None}] /\ used' \subseteq Ids /\ Accounts' \subseteq used' /\ EmailsUnique'
    BY <1>5, <2>1, <2>2, Inserts
  <2>4. QED
    BY <1>1, <1>2, <1>3, <2>3 DEF IInv, TypeOK
<1>6. QED
  BY <1>4, <1>5 DEF Start, SeedLook, SeedInsert, SeedError

-----------------------------------------------------------------------------
(* Arrivals                                                                *)

LEMMA Begun ==
  ASSUME IInv, NEW h \in Handlers, NEW r \in Request, NEW first \in {"load", "lookup", "write"},
         Begin(h, r, first), Entitled(r),
         r.op \in Create => /\ r.ask.email \in Emails /\ r.ask.password \in Passwords
                            /\ r.ask.active \in BOOLEAN /\ r.ask.super \in BOOLEAN /\ r.target = None
                            /\ first # "load",
         r.op \in Edit \cup {"delete_me", "delete"} => r.target \in Ids,
         r.op \in Edit \cup {"login"} => first = "load"
  PROVE  IInv'
<1>1. /\ pc' = [pc EXCEPT ![h] = first] /\ req' = [req EXCEPT ![h] = r] /\ arrived' = arrived + 1
      /\ arrived < MaxRequests /\ UNCHANGED <<row, used, issued, seed, copy>>
  BY DEF Begin
<1>2. TypeOK'
  BY <1>1 DEF IInv, TypeOK
<1>3. ASSUME NEW o \in Handlers, o # h PROVE Ready(o)'
  BY <1>1, <1>3 DEF IInv, TypeOK, Ready, Entitled
<1>4. pc'[h] = first /\ req'[h] = r
  BY <1>1 DEF IInv, TypeOK
<1>5. Entitled(r)'
  BY <1>1 DEF Entitled
<1>6. Ready(h)'
  BY <1>4, <1>5 DEF Ready, Entitled
<1>7. QED
  BY <1>1, <1>2, <1>3, <1>6 DEF IInv, Accounts, EmailsUnique

LEMMA CreateSteps == ASSUME IInv, NEW h \in Handlers, BeginRegister(h) \/ BeginCreate(h) PROVE IInv'
<1>1. ASSUME NEW op \in Create, NEW t \in issued \cup {None}, NEW e \in Emails, NEW p \in Passwords,
             NEW a \in BOOLEAN, NEW s \in BOOLEAN, s => op = "create" /\ t \in issued /\ Administers(t),
             Begin(h, [op |-> op, by |-> t, target |-> None, current |-> None,
                       ask |-> [email |-> e, password |-> p, active |-> a, super |-> s]], "lookup")
      PROVE  IInv'
  <2> DEFINE ask == [email |-> e, password |-> p, active |-> a, super |-> s]
             r == [op |-> op, by |-> t, target |-> None, current |-> None, ask |-> ask]
  <2>1. ask \in Ask
    BY DEF Ask
  <2>2. t \in Claims \cup {None}
    BY DEF IInv, TypeOK
  <2>3. r \in Request
    <3> HIDE DEF ask
    <3>1. QED
      BY <2>1, <2>2 DEF Request, Create
  <2>4. Entitled(r)
    BY <1>1 DEF Entitled
  <2>5. r.op = op /\ r.op \notin Edit \cup {"delete_me", "delete", "login"}
    BY DEF Create, Edit
  <2>6. QED
    BY <1>1, <2>3, <2>4, <2>5, Begun
<1>2. CASE BeginRegister(h)
  <2>1. PICK e \in Emails, p \in Passwords :
          Begin(h, [op |-> "register", by |-> None, target |-> None, current |-> None,
                    ask |-> [email |-> e, password |-> p, active |-> TRUE, super |-> FALSE]], "lookup")
    BY <1>2 DEF BeginRegister, OpenUser
  <2>2. "register" \in Create
    BY DEF Create
  <2>3. QED
    BY <1>1, <2>1, <2>2
<1>3. CASE BeginCreate(h)
  <2>1. PICK t \in issued, e \in Emails, p \in Passwords, a \in BOOLEAN, s \in BOOLEAN :
          /\ Administers(t)
          /\ Begin(h, [op |-> "create", by |-> t, target |-> None, current |-> None,
                       ask |-> [email |-> e, password |-> p, active |-> a, super |-> s]], "lookup")
    BY <1>3 DEF BeginCreate
  <2>2. "create" \in Create
    BY DEF Create
  <2>3. QED
    BY <1>1, <2>1, <2>2
<1>4. QED
  BY <1>2, <1>3

LEMMA NoAskTyped == NoAsk \in Ask /\ NoAsk.super = None /\ None # TRUE
BY DEF NoAsk, Ask

LEMMA OnSteps ==
  ASSUME IInv, NEW h \in Handlers,
         BeginUpdateMe(h) \/ BeginPassword(h) \/ BeginDeleteMe(h) \/ BeginUpdate(h) \/ BeginDelete(h)
  PROVE  IInv'
<1>1. ASSUME NEW op \in Edit \cup {"delete_me", "delete"}, NEW t \in issued, NEW u \in Ids,
             NEW c \in Passwords \cup {None}, NEW a \in Ask, NEW first \in {"load", "write"},
             op \in Edit => first = "load", a.super = TRUE => op = "update" /\ Administers(t),
             BeginOn(h, op, t, u, c, a, first)
      PROVE  IInv'
  <2> DEFINE r == [op |-> op, by |-> t, target |-> u, current |-> c, ask |-> a]
  <2>1. Begin(h, r, first)
    BY <1>1 DEF BeginOn
  <2>2. r \in Request
    BY DEF Request, Edit, Create, IInv, TypeOK
  <2>3. Entitled(r)
    BY <1>1 DEF Entitled
  <2>4. r.op = op /\ r.op \notin Create /\ r.op # "login" /\ r.target = u
    BY DEF Create, Edit
  <2> HIDE DEF r
  <2>5. QED
    BY <1>1, <2>1, <2>2, <2>3, <2>4, Begun
<1>2. \A t \in issued : t.sub \in Ids
  BY DEF IInv, TypeOK, Claims
<1>3. \A F : \A a \in Asks(F) : a \in Ask /\ ("super" \notin F => a.super = None)
  <2>1. ASSUME NEW F, NEW a \in Asks(F) PROVE a \in Ask /\ ("super" \notin F => a.super = None)
    <3>1. a \in Ask /\ \A f \in Columns \ F : a[f] = None
      BY DEF Asks
    <3>2. "super" \in Columns
      BY DEF Columns
    <3>3. QED
      BY <3>1, <3>2
  <2>2. QED
    BY <2>1
<1>4. CASE BeginUpdateMe(h)
  BY <1>1, <1>2, <1>3, <1>4, NoAskTyped DEF BeginUpdateMe, Edit
<1>5. CASE BeginPassword(h)
  <2>1. PICK t \in issued, c \in Passwords, a \in Asks({"password"}) : BeginOn(h, "password", t, t.sub, c, a, "load")
    BY <1>5 DEF BeginPassword
  <2>2. a \in Ask /\ a.super # TRUE
    BY <1>3, NoAskTyped
  <2>3. t.sub \in Ids /\ "password" \in Edit
    BY <1>2 DEF Edit
  <2>4. QED
    BY <1>1, <2>1, <2>2, <2>3
<1>6. CASE BeginDeleteMe(h)
  BY <1>1, <1>2, <1>6, NoAskTyped DEF BeginDeleteMe, Edit
<1>7. CASE BeginUpdate(h)
  <2>1. used \subseteq Ids
    BY DEF IInv, TypeOK
  <2>2. QED
    BY <1>1, <1>3, <1>7, <2>1 DEF BeginUpdate, Edit
<1>8. CASE BeginDelete(h)
  <2>1. used \subseteq Ids
    BY DEF IInv, TypeOK
  <2>2. QED
    BY <1>1, <1>8, <2>1, NoAskTyped DEF BeginDelete, Edit
<1>9. QED
  BY <1>4, <1>5, <1>6, <1>7, <1>8

LEMMA LoginSteps == ASSUME IInv, NEW h \in Handlers, BeginLogin(h) PROVE IInv'
<1>1. PICK e \in Emails, p \in Passwords :
        Begin(h, [op |-> "login", by |-> None, target |-> None, current |-> p,
                  ask |-> [NoAsk EXCEPT !.email = e]], "load")
  BY DEF BeginLogin
<1> DEFINE ask == [NoAsk EXCEPT !.email = e]
           r   == [op |-> "login", by |-> None, target |-> None, current |-> p, ask |-> ask]
<1>2. ask \in Ask /\ ask.super = None
  BY NoAskTyped DEF Ask, NoAsk
<1>3. r \in Request /\ r.op = "login" /\ r.ask = ask
  <2> HIDE DEF ask
  <2>1. QED
    BY <1>2 DEF Request
<1>4. Begin(h, r, "load")
  BY <1>1
<1> HIDE DEF r
<1>5. Entitled(r)
  BY <1>2, <1>3, NoAskTyped DEF Entitled
<1>6. r.op \notin Create /\ r.op \notin Edit \cup {"delete_me", "delete"}
  BY <1>3 DEF Create, Edit
<1>7. QED
  BY <1>3, <1>4, <1>5, <1>6, Begun

-----------------------------------------------------------------------------
(* The handlers                                                            *)

\* A request that is answered leaves the invariant to the table.
LEMMA Answers ==
  ASSUME IInv, NEW h \in Handlers, Answer(h), UNCHANGED seed, issued \subseteq issued', issued' \subseteq Claims,
         row' \in [Ids -> Row \cup {None}], used' \subseteq Ids, Accounts' \subseteq used', EmailsUnique'
  PROVE  IInv'
<1>1. TypeOK'
  BY DEF IInv, TypeOK, Answer
<1>2. ASSUME NEW o \in Handlers, o # h PROVE Ready(o)'
  BY <1>2 DEF IInv, TypeOK, Ready, Entitled, Answer
<1>3. pc'[h] = "idle"
  BY DEF IInv, TypeOK, Answer
<1>4. Ready(h)'
  BY <1>3 DEF Ready
<1>5. QED
  BY <1>1, <1>2, <1>4 DEF IInv

LEMMA Refusals == ASSUME IInv, NEW h \in Handlers, Answer(h), UNCHANGED <<row, used, issued, seed>> PROVE IInv'
<1>1. issued' \subseteq Claims /\ row' \in [Ids -> Row \cup {None}] /\ used' \subseteq Ids
  BY DEF IInv, TypeOK
<1>2. Accounts' \subseteq used' /\ EmailsUnique'
  BY DEF IInv, Accounts, EmailsUnique
<1>3. QED
  BY <1>1, <1>2, Answers

LEMMA LoadSteps == ASSUME IInv, NEW h \in Handlers, Load(h) PROVE IInv'
<1>1. CASE Answer(h)
  BY <1>1, Refusals DEF Load
<1>2. CASE ~Answer(h)
  <2> DEFINE u == Found(h)
             r == row[u]
             new == [req[h] EXCEPT !.target = u]
  <2>1. /\ u \in Accounts /\ pc[h] = "load" /\ copy' = [copy EXCEPT ![h] = r]
        /\ req' = [req EXCEPT ![h].target = u]
        /\ \E next \in {"lookup", "write"} : pc' = [pc EXCEPT ![h] = next]
        /\ UNCHANGED <<row, used, issued, seed, arrived>>
    BY <1>2 DEF Load
  <2>2. u \in Ids /\ r \in Row /\ req[h] \in Request
    BY <2>1 DEF Accounts, IInv, TypeOK, Ready
  <2> HIDE DEF u, r
  <2>3. /\ new \in Request /\ new.op = req[h].op /\ new.by = req[h].by /\ new.ask = req[h].ask /\ new.target = u
    BY <2>2 DEF Request
  <2>4. req' = [req EXCEPT ![h] = new]
    BY <2>1
  <2> HIDE DEF new
  <2>5. TypeOK'
    BY <2>1, <2>2, <2>3, <2>4 DEF IInv, TypeOK
  <2>6. ASSUME NEW o \in Handlers, o # h PROVE Ready(o)'
    BY <2>1, <2>4, <2>6 DEF IInv, TypeOK, Ready, Entitled
  <2>7. req'[h] = new /\ copy'[h] = r /\ pc'[h] \in {"lookup", "write"}
    BY <2>1, <2>4 DEF IInv, TypeOK
  <2>8. Entitled(req[h]) /\ issued' = issued
    BY <2>1 DEF IInv, Ready
  <2>9. req[h].op \notin Create
    BY <2>1 DEF IInv, Ready
  <2>10. Entitled(req[h])'
    BY <2>3, <2>7, <2>8 DEF Entitled
  <2>11. Ready(h)'
    BY <2>2, <2>3, <2>7, <2>9, <2>10 DEF Ready
  <2>12. QED
    BY <2>1, <2>5, <2>6, <2>11 DEF IInv, Accounts, EmailsUnique
<1>3. QED
  BY <1>1, <1>2

LEMMA LookupSteps == ASSUME IInv, NEW h \in Handlers, Lookup(h) PROVE IInv'
<1>1. CASE Answer(h)
  BY <1>1, Refusals DEF Lookup
<1>2. CASE ~Answer(h)
  <2>1. pc[h] = "lookup" /\ pc' = [pc EXCEPT ![h] = "write"] /\ UNCHANGED <<row, used, issued, seed, req, copy, arrived>>
    BY <1>2 DEF Lookup
  <2>2. TypeOK'
    BY <2>1 DEF IInv, TypeOK
  <2>3. ASSUME NEW o \in Handlers PROVE Ready(o)'
    <3>1. pc'[o] = pc[o] \/ (pc[o] = "lookup" /\ pc'[o] = "write")
      BY <2>1 DEF IInv, TypeOK
    <3>2. Ready(o)
      BY DEF IInv
    <3>3. QED
      BY <2>1, <3>1, <3>2 DEF Ready, Entitled
  <2>4. QED
    BY <2>1, <2>2, <2>3 DEF IInv, Accounts, EmailsUnique
<1>3. QED
  BY <1>1, <1>2

\* What an UPDATE writes is a row; it changes columns to what was asked only.
LEMMA Flushed ==
  ASSUME TypeOK, NEW h \in Handlers, Ready(h), pc[h] = "write", req[h].op \in Edit, row[req[h].target] # None
  PROVE  /\ Flush(h) \in Row
         /\ \A f \in Columns : Flush(h)[f] # row[req[h].target][f] => Flush(h)[f] = req[h].ask[f]
<1> DEFINE a == req[h].ask
           r == row[req[h].target]
           Written(asked, loaded, now) == IF asked # None /\ asked # loaded THEN asked ELSE now
           email    == Written(a.email, copy[h].email, r.email)
           password == Written(a.password, None, r.password)
           active   == Written(a.active, copy[h].active, r.active)
           super    == Written(a.super, copy[h].super, r.super)
<1>1. req[h].target \in Ids /\ a \in Ask
  BY DEF Ready, Request
<1>2. r \in Row
  BY <1>1 DEF TypeOK
<1>3. email \in Emails /\ password \in Passwords /\ active \in BOOLEAN /\ super \in BOOLEAN
  BY <1>1, <1>2 DEF Row, Ask
<1>4. Flush(h) = [r EXCEPT !.email = email, !.password = password, !.active = active, !.super = super]
  BY <1>2 DEF Flush, Row
<1>5. /\ email # r.email => email = a.email
      /\ password # r.password => password = a.password
      /\ active # r.active => active = a.active
      /\ super # r.super => super = a.super
  OBVIOUS
<1> HIDE DEF email, password, active, super, r
<1>6. Flush(h) \in Row
  BY <1>2, <1>3, <1>4 DEF Row
<1>7. /\ Flush(h).email = email /\ Flush(h).password = password
      /\ Flush(h).active = active /\ Flush(h).super = super
  BY <1>2, <1>4 DEF Row
<1>8. \A f \in Columns : Flush(h)[f] # r[f] => Flush(h)[f] = a[f]
  BY <1>5, <1>7 DEF Columns
<1>9. QED
  BY <1>6, <1>8 DEF r

LEMMA AddSteps == ASSUME IInv, NEW h \in Handlers, Add(h) PROVE IInv'
<1>1. Answer(h) /\ UNCHANGED <<issued, seed>> /\ pc[h] = "write" /\ req[h].op \in Create
  BY DEF Add
<1>2. CASE UNCHANGED <<row, used>>
  BY <1>1, <1>2, Refusals
<1>3. CASE ~Violates(req[h].ask.email, None)
  <2> DEFINE r == [email |-> req[h].ask.email, password |-> req[h].ask.password,
                   active |-> req[h].ask.active, super |-> req[h].ask.super, role |-> "member"]
  <2>1. PICK u \in Ids : Insert(u, r)
    BY <1>3 DEF Add
  <2>2. r \in Row
    BY <1>1 DEF IInv, Ready, Row
  <2>3. r.email = req[h].ask.email
    OBVIOUS
  <2> HIDE DEF r
  <2>4. Holders(r.email) = {}
    BY <1>3, <2>3 DEF Violates, Holders, Accounts
  <2>5. row' \in [Ids -> Row \cup {None}] /\ used' \subseteq Ids /\ Accounts' \subseteq used' /\ EmailsUnique'
    BY <2>1, <2>2, <2>4, Inserts
  <2>6. issued' \subseteq Claims
    BY <1>1 DEF IInv, TypeOK
  <2>7. QED
    BY <1>1, <2>5, <2>6, Answers
<1>4. QED
  BY <1>2, <1>3 DEF Add

LEMMA UpdateSteps == ASSUME IInv, NEW h \in Handlers, Update(h) PROVE IInv'
<1> DEFINE t == req[h].target
<1>1. Answer(h) /\ UNCHANGED <<used, issued, seed>> /\ pc[h] = "write" /\ req[h].op \in Edit
  BY DEF Update
<1>2. CASE UNCHANGED row
  BY <1>1, <1>2, Refusals
<1>3. CASE ~(row[t] = None \/ Violates(Flush(h).email, t))
  <2>1. row' = [row EXCEPT ![t] = Flush(h)]
    BY <1>3 DEF Update
  <2>2. t \in Ids /\ Flush(h) \in Row
    BY <1>1, <1>3, Flushed DEF IInv, Ready
  <2>3. row' \in [Ids -> Row \cup {None}] /\ issued' \subseteq Claims
    BY <1>1, <2>1, <2>2 DEF IInv, TypeOK
  <2>4. Accounts' \subseteq Accounts /\ t \in Accounts
    BY <1>3, <2>1, <2>2 DEF IInv, TypeOK, Accounts
  <2>5. \A v \in Accounts : v # t => row'[v] = row[v] /\ row[v].email # Flush(h).email
    BY <1>3, <2>1 DEF IInv, TypeOK, Accounts, Violates, Holders
  <2>6. row'[t] = Flush(h)
    BY <2>1, <2>2 DEF IInv, TypeOK
  <2>7. EmailsUnique'
    BY <2>4, <2>5, <2>6 DEF IInv, EmailsUnique
  <2>8. QED
    BY <1>1, <2>3, <2>4, <2>7, Answers DEF IInv, TypeOK
<1>4. QED
  BY <1>2, <1>3 DEF Update

LEMMA DeleteSteps == ASSUME IInv, NEW h \in Handlers, Delete(h) PROVE IInv'
<1>1. Answer(h) /\ UNCHANGED <<used, issued, seed>> /\ row' = [row EXCEPT ![req[h].target] = None]
  BY DEF Delete
<1>2. row' \in [Ids -> Row \cup {None}] /\ issued' \subseteq Claims /\ used' \subseteq Ids
  BY <1>1 DEF IInv, TypeOK
<1>3. Accounts' \subseteq Accounts /\ \A v \in Accounts' : row'[v] = row[v]
  BY <1>1 DEF IInv, TypeOK, Accounts
<1>4. Accounts' \subseteq used' /\ EmailsUnique'
  BY <1>1, <1>3 DEF IInv, EmailsUnique
<1>5. QED
  BY <1>1, <1>2, <1>4, Answers

LEMMA IssueSteps == ASSUME IInv, NEW h \in Handlers, Issue(h) PROVE IInv'
<1> DEFINE claims == [sub |-> req[h].target, super |-> copy[h].super, role |-> copy[h].role]
<1>1. Answer(h) /\ UNCHANGED <<row, used, seed>> /\ issued' = issued \cup {claims}
  BY DEF Issue
<1>2. req[h].target \in Ids /\ copy[h] \in Row
  BY DEF IInv, Ready, Issue
<1>3. claims \in Claims
  BY <1>2 DEF Claims, Row
<1> HIDE DEF claims
<1>4. issued' \subseteq Claims /\ issued \subseteq issued' /\ row' \in [Ids -> Row \cup {None}] /\ used' \subseteq Ids
  BY <1>1, <1>3 DEF IInv, TypeOK
<1>5. Accounts' \subseteq used' /\ EmailsUnique'
  BY <1>1 DEF IInv, Accounts, EmailsUnique
<1>6. QED
  BY <1>1, <1>4, <1>5, Answers

LEMMA Inductive == IInv /\ [Next]_vars => IInv'
<1> SUFFICES ASSUME IInv, [Next]_vars PROVE IInv'
  OBVIOUS
<1>1. ASSUME NEW w \in Workers, Start(w) PROVE IInv'
  BY <1>1, StartSteps
<1>2. ASSUME NEW h \in Handlers, Arrive(h) PROVE IInv'
  BY <1>2, CreateSteps, OnSteps, LoginSteps DEF Arrive
<1>3. ASSUME NEW h \in Handlers, Handle(h) PROVE IInv'
  BY <1>3, LoadSteps, LookupSteps, AddSteps, UpdateSteps, DeleteSteps, IssueSteps DEF Handle
<1>4. CASE UNCHANGED vars
  BY <1>4 DEF IInv, TypeOK, Ready, Entitled, Accounts, EmailsUnique, vars
<1>5. QED
  BY <1>1, <1>2, <1>3, <1>4 DEF Next

\* The row a request for a new account adds.
NewRow(h) == [email |-> req[h].ask.email, password |-> req[h].ask.password,
              active |-> req[h].ask.active, super |-> req[h].ask.super, role |-> "member"]

\* The steps that change the table.
LEMMA TableSteps ==
  ASSUME [Next]_vars
  PROVE  \/ UNCHANGED <<row, used>>
         \/ \E u \in Ids : Insert(u, SeedRow)
         \/ \E h \in Handlers, u \in Ids : Add(h) /\ Insert(u, NewRow(h))
         \/ \E h \in Handlers : /\ Update(h) /\ row[req[h].target] # None /\ UNCHANGED used
                               /\ row' = [row EXCEPT ![req[h].target] = Flush(h)]
         \/ \E h \in Handlers : Delete(h)
<1>1. ASSUME NEW w \in Workers, Start(w) PROVE UNCHANGED <<row, used>> \/ \E u \in Ids : Insert(u, SeedRow)
  BY <1>1 DEF Start, SeedLook, SeedInsert, SeedError
<1>2. ASSUME NEW h \in Handlers, Arrive(h) \/ Load(h) \/ Lookup(h) \/ Issue(h) PROVE UNCHANGED <<row, used>>
  BY <1>2 DEF Arrive, BeginRegister, BeginCreate, BeginLogin, BeginUpdateMe, BeginPassword, BeginDeleteMe,
              BeginUpdate, BeginDelete, BeginOn, Begin, Load, Lookup, Issue
<1>3. ASSUME NEW h \in Handlers, Add(h) PROVE UNCHANGED <<row, used>> \/ \E u \in Ids : Insert(u, NewRow(h))
  BY <1>3 DEF Add, NewRow
<1>4. ASSUME NEW h \in Handlers, Update(h)
      PROVE  \/ UNCHANGED <<row, used>>
             \/ /\ row[req[h].target] # None /\ UNCHANGED used
                /\ row' = [row EXCEPT ![req[h].target] = Flush(h)]
  BY <1>4 DEF Update
<1>5. QED
  BY <1>1, <1>2, <1>3, <1>4 DEF Next, Handle, vars

LEMMA Invariant == Spec => []IInv
BY Initially, Inductive, PTL DEF Spec

-----------------------------------------------------------------------------
(* Theorems                                                                *)

\* Rows, requests and what they hold have their types.
THEOREM TypeCorrect == Spec => []TypeOK
<1>1. IInv => TypeOK
  BY DEF IInv
<1>2. QED
  BY <1>1, Invariant, PTL

\* However many requests and workers look an address up at the same time, no
\* two accounts share one.
THEOREM AddressesUnique == Spec => []EmailsUnique
<1>1. IInv => EmailsUnique
  BY DEF IInv
<1>2. QED
  BY <1>1, Invariant, PTL

\* No request and no worker brings a deleted account back.
THEOREM DeletedStays == Spec => GoneStaysGone
<1>1. ASSUME IInv, [Next]_vars, NEW u \in used, row[u] = None PROVE row'[u] = None
  <2>1. ASSUME NEW v \in Ids, NEW r, Insert(v, r) PROVE row'[u] = None
    BY <1>1, <2>1 DEF Insert, IInv, TypeOK
  <2>2. ASSUME NEW h \in Handlers, row[req[h].target] # None, row' = [row EXCEPT ![req[h].target] = Flush(h)]
        PROVE  row'[u] = None
    BY <1>1, <2>2 DEF IInv, TypeOK
  <2>3. ASSUME NEW h \in Handlers, Delete(h) PROVE row'[u] = None
    BY <1>1, <2>3 DEF Delete, IInv, TypeOK
  <2>4. QED
    BY <1>1, <2>1, <2>2, <2>3, TableSteps
<1>2. IInv /\ [Next]_vars => [\A u \in used : row[u] = None => row'[u] = None]_vars
  BY <1>1
<1>3. QED
  BY <1>2, Invariant, PTL DEF Spec, GoneStaysGone

\* An UPDATE changes what its own request asks for, whatever other requests
\* wrote since the User was loaded.
THEOREM NothingUndone == Spec => OnlyAskedColumns
<1> DEFINE Asked(u, f) == \E h \in Handlers : /\ pc[h] = "write" /\ pc'[h] = "idle"
                                              /\ req[h].target = u /\ req[h].ask[f] = row'[u][f]
           Good(u) == row'[u] # None => \A f \in Columns : row'[u][f] # row[u][f] => Asked(u, f)
<1>1. ASSUME IInv, [Next]_vars, NEW u \in Accounts PROVE Good(u)
  <2> SUFFICES ASSUME row'[u] # None, NEW f \in Columns, row'[u][f] # row[u][f] PROVE Asked(u, f)
    OBVIOUS
  <2>1. u \in Ids /\ u \in used /\ row[u] # None
    BY <1>1 DEF IInv, Accounts
  <2>2. ASSUME NEW v \in Ids, NEW r PROVE ~Insert(v, r)
    BY <1>1, <2>1 DEF Insert, IInv, TypeOK
  <2>3. ASSUME NEW h \in Handlers PROVE ~Delete(h)
    BY <1>1, <2>1 DEF Delete, IInv, TypeOK
  <2>4. PICK h \in Handlers : /\ Update(h) /\ row[req[h].target] # None
                             /\ row' = [row EXCEPT ![req[h].target] = Flush(h)]
    BY <1>1, <2>2, <2>3, TableSteps
  <2>5. req[h].target = u /\ row'[u] = Flush(h)
    BY <1>1, <2>1, <2>4 DEF IInv, TypeOK
  <2>6. pc[h] = "write" /\ pc'[h] = "idle" /\ req[h].op \in Edit
    BY <1>1, <2>4 DEF Update, Answer, IInv, TypeOK
  <2>7. Flush(h)[f] = req[h].ask[f]
    BY <1>1, <2>4, <2>5, <2>6, Flushed DEF IInv
  <2>8. QED
    BY <2>5, <2>6, <2>7
<1>2. IInv /\ [Next]_vars => [\A u \in Accounts : Good(u)]_vars
  BY <1>1
<1>3. QED
  BY <1>2, Invariant, PTL DEF Spec, OnlyAskedColumns

\* Superuser rights come from the seed or from an administrator's request, also
\* where tokens have outlived the rights they were issued with.
THEOREM RightsAreGiven == Spec => OnlyAdministratorsPromote
<1> DEFINE ByAdmin == \E h \in Handlers : /\ pc[h] = "write" /\ pc'[h] = "idle" /\ req[h].by \in issued
                                          /\ req[h].by.super \/ req[h].by.role = "superadmin"
           Good(u) == row'[u] # None /\ row'[u].super /\ (row[u] = None \/ ~row[u].super) =>
                        row'[u] = SeedRow \/ ByAdmin
<1>1. ASSUME IInv, [Next]_vars, NEW u \in Ids PROVE Good(u)
  <2> SUFFICES ASSUME row'[u] # None, row'[u].super, row[u] = None \/ ~row[u].super
               PROVE  row'[u] = SeedRow \/ ByAdmin
    OBVIOUS
  <2>1. ASSUME NEW h \in Handlers, pc[h] = "write", pc'[h] = "idle", req[h].ask.super = TRUE PROVE ByAdmin
    BY <1>1, <2>1 DEF IInv, Ready, Entitled, Administers
  <2>2. ASSUME NEW v \in Ids, Insert(v, SeedRow) PROVE row'[u] = SeedRow
    BY <1>1, <2>2 DEF Insert, IInv, TypeOK
  <2>3. ASSUME NEW h \in Handlers, NEW v \in Ids, Add(h), Insert(v, NewRow(h)) PROVE ByAdmin
    <3>1. row'[u] = NewRow(h) /\ pc[h] = "write" /\ pc'[h] = "idle" /\ req[h].op \in Create
      BY <1>1, <2>3 DEF Insert, Add, Answer, IInv, TypeOK
    <3>2. req[h].ask.super \in BOOLEAN
      BY <1>1, <3>1 DEF IInv, Ready
    <3>3. NewRow(h).super = req[h].ask.super
      BY DEF NewRow
    <3>4. req[h].ask.super = TRUE
      BY <3>1, <3>2, <3>3
    <3>5. QED
      BY <2>1, <3>1, <3>4
  <2>4. ASSUME NEW h \in Handlers, Update(h), row[req[h].target] # None,
               row' = [row EXCEPT ![req[h].target] = Flush(h)]
        PROVE  ByAdmin
    <3>1. req[h].target = u /\ row'[u] = Flush(h)
      BY <1>1, <2>4 DEF IInv, TypeOK
    <3>2. pc[h] = "write" /\ pc'[h] = "idle" /\ req[h].op \in Edit
      BY <1>1, <2>4 DEF Update, Answer, IInv, TypeOK
    <3>3. Flush(h) \in Row /\ \A f \in Columns : Flush(h)[f] # row[u][f] => Flush(h)[f] = req[h].ask[f]
      BY <1>1, <2>4, <3>1, <3>2, Flushed DEF IInv
    <3>4. Flush(h).super = TRUE /\ row[u].super # TRUE
      BY <1>1, <2>4, <3>1, <3>3 DEF Row, IInv, TypeOK
    <3>5. "super" \in Columns
      BY DEF Columns
    <3>6. req[h].ask.super = TRUE
      BY <3>3, <3>4, <3>5
    <3>7. QED
      BY <2>1, <3>2, <3>6
  <2>5. ASSUME NEW h \in Handlers PROVE ~Delete(h)
    BY <1>1 DEF Delete, IInv, TypeOK
  <2>6. row' # row
    OBVIOUS
  <2>7. QED
    BY <1>1, <2>2, <2>3, <2>4, <2>5, <2>6, TableSteps
<1>2. IInv /\ [Next]_vars =>
        [\A u \in Ids :
           row'[u] # None /\ row'[u].super /\ (row[u] = None \/ ~row[u].super) =>
             \/ row'[u] = SeedRow
             \/ \E h \in Handlers : /\ pc[h] = "write" /\ pc'[h] = "idle"
                                    /\ req[h].by \in issued
                                    /\ req[h].by.super \/ req[h].by.role = "superadmin"]_vars
  BY <1>1
<1>3. QED
  BY <1>2, Invariant, PTL DEF Spec, OnlyAdministratorsPromote

\* A worker starts up well only where the first superuser's address is there.
THEOREM SeedIsThere == Spec => SeedReached
<1> DEFINE Good(w) == seed'[w] = "up" /\ seed[w] # "up" => \E u \in Ids : row'[u] # None /\ row'[u].email = SeedEmail
<1>1. ASSUME IInv, [Next]_vars, NEW w \in Workers PROVE Good(w)
  <2> SUFFICES ASSUME seed'[w] = "up", seed[w] # "up" PROVE \E u \in Ids : row'[u] # None /\ row'[u].email = SeedEmail
    OBVIOUS
  <2>1. PICK x \in Workers : Start(x)
    BY <1>1 DEF Next, Arrive, BeginRegister, BeginCreate, BeginLogin, BeginUpdateMe, BeginPassword, BeginDeleteMe,
                BeginUpdate, BeginDelete, BeginOn, Begin, Handle, Load, Lookup, Add, Update, Delete, Issue, vars
  <2>2. x = w
    BY <1>1, <2>1 DEF Start, SeedLook, SeedInsert, SeedError, IInv, TypeOK
  <2>3. CASE SeedLook(w)
    BY <1>1, <2>3 DEF SeedLook, Holders, Accounts, IInv, TypeOK
  <2>4. CASE SeedInsert(w)
    <3>1. PICK u \in Ids : Insert(u, SeedRow)
      BY <1>1, <2>4 DEF SeedInsert, IInv, TypeOK
    <3>2. row'[u] = SeedRow
      BY <1>1, <3>1 DEF Insert, IInv, TypeOK
    <3>3. SeedRow.email = SeedEmail
      BY DEF SeedRow
    <3>4. SeedRow # None
      <4>1. SeedRow \in Row
        BY DEF SeedRow, Row
      <4>2. QED
        BY <4>1, NoneAssumption
    <3>5. QED
      BY <3>2, <3>3, <3>4
  <2>5. ~SeedError(w)
    BY <1>1 DEF SeedError, IInv, TypeOK
  <2>6. QED
    BY <2>1, <2>2, <2>3, <2>4, <2>5 DEF Start
<1>2. IInv /\ [Next]_vars => [\A w \in Workers : Good(w)]_vars
  BY <1>1
<1>3. QED
  BY <1>2, Invariant, PTL DEF Spec, SeedReached
=============================================================================
