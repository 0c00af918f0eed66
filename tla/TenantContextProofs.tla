-------------------------- MODULE TenantContextProofs --------------------------
(***************************************************************************)
(* Theorems about TenantContext for any tenants and users, any identities  *)
(* in tokens and in the code, and blocks nested to any depth.              *)
(***************************************************************************)
EXTENDS TenantContext, WellFoundedInduction, TLAPS

USE TenantAssumption

Fields == {"tenant", "user", "role"}

\* The identity a session starts out with: the guard's, or that of its block.
Base(s) == IF s = 0 THEN caller ELSE IF block[s].as # None THEN block[s].as ELSE block[s].saved

\* The contextvars inside the block at depth d.
Current(d) == IF d = 0 THEN caller ELSE IF block[d].as # None THEN block[d].as ELSE block[d].saved

\* Each block saved what was current outside it.
Nested == ctx = Current(depth) /\ \A d \in 1..depth : block[d].saved = Current(d - 1)

\* A block is on a session of its own or on one that was open.
Opened == \A d \in 1..depth : block[d].on = d \/ (block[d].on < d /\ block[d].on \in Held)

\* A session that is not open carries nothing over.
Fresh == \A s \in Levels : s \notin Held => info[s] = Nobody /\ tx[s] = None /\ ~mixed[s]

\* What was set on a session that served one identity is of that identity.
Faithful(s) ==
  /\ \A d \in 1..depth : block[d].on = s /\ block[d].as # None => block[d].as = Base(s)
  /\ \A f \in Fields : info[s][f] # None => info[s][f] = Base(s)[f]
  /\ tx[s] # None => tx[s] = Base(s)

IInv ==
  /\ TypeOK
  /\ Nested /\ Opened /\ Fresh
  /\ \A s \in Held : ~mixed[s] => Faithful(s)

SameRights(i, j) == i.tenant = j.tenant /\ i.role = j.role

\* Session.info has a tenant and a role, of one identity, or neither; whatever
\* the contextvars or the settings of a transaction are, the task was given it.
RightsInv ==
  /\ ctx \in given /\ \A d \in 1..depth : block[d].saved \in given
  /\ \A s \in Levels :
       \/ info[s].tenant = None /\ info[s].role = None
       \/ info[s].tenant # None /\ info[s].role # None /\ \E i \in given : SameRights(info[s], i)
  /\ \A s \in Levels : tx[s] # None => \E i \in given : SameRights(tx[s], i)

-----------------------------------------------------------------------------
(* The innermost block                                                     *)

LEMMA Least == ASSUME NEW T \in SUBSET Nat, T # {} PROVE \E x \in T : \A y \in T : x <= y
<1> DEFINE R == OpToRel(<, Nat)
<1>1. IsWellFoundedOn(R, Nat)
  BY NatLessThanWellFounded
<1>2. \A x, y \in Nat : x < y => <<x, y>> \in R
  BY DEF OpToRel
<1> HIDE DEF R
<1>3. PICK x \in T : \A y \in T : ~ (<<y, x>> \in R)
  BY <1>1, WFMin
<1>4. \A y \in T : ~(y < x)
  BY <1>2, <1>3
<1>5. \A y \in T : x <= y
  BY <1>4
<1>6. QED
  BY <1>5

LEMMA Greatest == ASSUME NEW n \in Nat, NEW T \in SUBSET (0..n), T # {} PROVE \E x \in T : \A y \in T : y <= x
<1> DEFINE U == {n - x : x \in T}
<1>1. U \in SUBSET Nat
  <2>1. \A x \in T : n - x \in Nat
    OBVIOUS
  <2>2. QED
    BY <2>1
<1>2. PICK u \in U : \A v \in U : u <= v
  <2>1. U # {}
    OBVIOUS
  <2> HIDE DEF U
  <2>2. QED
    BY <1>1, <2>1, Least
<1>3. PICK x \in T : u = n - x
  OBVIOUS
<1>4. ASSUME NEW y \in T PROVE y <= x
  <2>1. n - x <= n - y
    BY <1>2, <1>3
  <2>2. x \in Int /\ y \in Int
    OBVIOUS
  <2>3. QED
    BY <2>1, <2>2
<1>5. QED
  BY <1>4

\* A session that served one identity acts for the one it started out with.
LEMMA OwnerIsBase ==
  ASSUME depth \in Nat, NEW s \in Held,
         \A d \in 1..depth : block[d].on = s /\ block[d].as # None => block[d].as = Base(s)
  PROVE  Owner(s) = Base(s)
<1> DEFINE naming == {d \in 1..depth : block[d].on = s /\ block[d].as # None}
           last   == CHOOSE d \in naming : \A e \in naming : e <= d
<1>1. CASE naming = {}
  <2>1. Owner(s) = IF s = 0 THEN caller ELSE block[s].saved
    BY <1>1 DEF Owner
  <2>2. s # 0 => block[s].as = None
    BY <1>1 DEF Held, Levels
  <2>3. QED
    BY <2>1, <2>2 DEF Base
<1>2. CASE naming # {}
  <2>1. \E d \in naming : \A e \in naming : e <= d
    <3>1. naming \in SUBSET (0..depth)
      OBVIOUS
    <3> HIDE DEF naming
    <3>2. QED
      BY <1>2, <3>1, Greatest
  <2>2. last \in naming
    <3> HIDE DEF naming
    <3>1. QED
      BY <2>1
  <2>3. Owner(s) = block[last].as
    BY <1>2 DEF Owner
  <2>4. QED
    BY <2>2, <2>3
<1>3. QED
  BY <1>1, <1>2

LEMMA Owners == ASSUME IInv, NEW s \in Held, ~mixed[s] PROVE Owner(s) = Base(s) /\ Faithful(s)
<1>1. Faithful(s) /\ depth \in Nat
  BY DEF IInv, TypeOK, Levels
<1>2. QED
  BY <1>1, OwnerIsBase DEF Faithful

-----------------------------------------------------------------------------
(* Types                                                                   *)

LEMMA Identities ==
  /\ Nobody \in Identity /\ Tokens \subseteq Identity /\ Scopes \subseteq Identity /\ None \notin Identity
  /\ None \notin Scopes
BY DEF Nobody, Identity

LEMMA Blocks ==
  ASSUME TypeOK, NEW d \in 1..depth
  PROVE  /\ block[d] \in Block /\ block[d].on \in Levels /\ block[d].saved \in Identity
         /\ block[d].as \in Identity \cup {None}
<1>1. d \in 1..MaxDepth /\ d <= depth
  BY DEF TypeOK, Levels
<1>2. block[d] # None
  BY <1>1 DEF TypeOK
<1>3. block[d] \in Block
  BY <1>1, <1>2 DEF TypeOK
<1>4. QED
  BY <1>3, Identities DEF Block

LEMMA Bases == ASSUME TypeOK, NEW s \in Held PROVE Base(s) \in Identity
<1>1. CASE s = 0
  BY <1>1 DEF Base, TypeOK
<1>2. CASE s # 0
  <2>1. s \in 1..depth
    BY <1>2 DEF Held, Levels, TypeOK
  <2>2. QED
    BY <1>2, <2>1, Blocks DEF Base
<1>3. QED
  BY <1>1, <1>2

LEMMA Initially == Init => IInv
<1> SUFFICES ASSUME Init PROVE IInv
  OBVIOUS
<1> USE DEF Init
<1>1. TypeOK
  <2>1. caller \in Identity /\ ctx \in Identity /\ info \in [Levels -> Identity]
    BY Identities
  <2>2. depth \in Levels /\ block \in [1..MaxDepth -> Block \cup {None}]
    BY DEF Levels
  <2>3. \A d \in 1..MaxDepth : block[d] # None <=> d <= depth
    OBVIOUS
  <2>4. QED
    BY <2>1, <2>2, <2>3 DEF TypeOK
<1>2. Nested /\ Opened
  BY DEF Nested, Current, Opened
<1>3. Fresh
  BY DEF Fresh
<1>4. \A s \in Held : Faithful(s)
  BY DEF Faithful, Held, Nobody, Fields
<1>5. QED
  BY <1>1, <1>2, <1>3, <1>4 DEF IInv

-----------------------------------------------------------------------------
(* Statements                                                              *)

LEMMA SettingsTyped == ASSUME TypeOK, NEW s \in Levels PROVE Settings(s) \in Identity
BY DEF Settings, Or, Identity, TypeOK

\* A transaction that begins on a session that served one identity takes it over.
LEMMA SettingsFaithful ==
  ASSUME IInv, NEW s \in Held, Faithful(s),
         ctx = Base(s) \/ \A f \in DOMAIN info[s] : info[s][f] # None
  PROVE  Settings(s) = Base(s)
<1> DEFINE b == Base(s)
           i == info[s]
<1>1. b \in Identity /\ i \in Identity /\ ctx \in Identity
  BY Bases DEF IInv, TypeOK, Held
<1>2. /\ i.tenant # None => i.tenant = b.tenant
      /\ i.user # None => i.user = b.user
      /\ i.role # None => i.role = b.role
  BY DEF Faithful, Fields
<1>3. ctx = b \/ (i.tenant # None /\ i.user # None /\ i.role # None)
  BY <1>1 DEF Identity
<1>4. Settings(s) = [tenant |-> Or(i.tenant, ctx.tenant), user |-> Or(i.user, ctx.user), role |-> Or(i.role, ctx.role)]
  BY DEF Settings
<1> HIDE DEF b, i
<1>5. Or(i.tenant, ctx.tenant) = b.tenant /\ Or(i.user, ctx.user) = b.user /\ Or(i.role, ctx.role) = b.role
  BY <1>2, <1>3 DEF Or
<1>6. b = [tenant |-> b.tenant, user |-> b.user, role |-> b.role]
  BY <1>1 DEF Identity
<1>7. QED
  BY <1>4, <1>5, <1>6 DEF b

LEMMA Statements ==
  ASSUME IInv, NEW s \in Held, Begins(s), UNCHANGED <<caller, ctx, depth, block, info, given>>
  PROVE  IInv'
<1>1. /\ tx' = [tx EXCEPT ![s] = IF tx[s] = None THEN Settings(s) ELSE tx[s]]
      /\ mixed' = [mixed EXCEPT ![s] = mixed[s] \/ (tx[s] = None /\ ctx # Owner(s) /\ \E f \in DOMAIN info[s] : info[s][f] = None)]
      /\ s \in Levels
  BY DEF Begins, Held
<1>2. TypeOK'
  <2>1. tx' \in [Levels -> Identity \cup {None}]
    BY <1>1, SettingsTyped DEF IInv, TypeOK
  <2>2. mixed' \in [Levels -> BOOLEAN]
    BY <1>1 DEF IInv, TypeOK
  <2>3. QED
    BY <2>1, <2>2 DEF IInv, TypeOK
<1>3. Nested' /\ Opened' /\ Held' = Held
  BY DEF IInv, Nested, Current, Opened, Held
<1>4. Fresh'
  BY <1>1, <1>3 DEF IInv, Fresh, TypeOK
<1>5. ASSUME NEW z \in Held, ~mixed'[z] PROVE Faithful(z)'
  <2>1. z \in Levels /\ ~mixed[z]
    BY <1>1, <1>5 DEF IInv, TypeOK, Held
  <2>2. Faithful(z) /\ Owner(z) = Base(z)
    BY <2>1, Owners
  <2>3. Base(z)' = Base(z)
    BY DEF Base
  <2>4. tx'[z] # None => tx'[z] = Base(z)
    <3>1. CASE z # s \/ tx[z] # None
      BY <1>1, <2>1, <2>2, <3>1 DEF IInv, TypeOK, Faithful
    <3>2. CASE z = s /\ tx[s] = None
      <4>1. tx'[z] = Settings(s)
        BY <1>1, <3>2 DEF IInv, TypeOK
      <4>2. ctx = Owner(s) \/ \A f \in DOMAIN info[s] : info[s][f] # None
        BY <1>1, <1>5, <3>2 DEF IInv, TypeOK
      <4>3. QED
        BY <2>2, <3>2, <4>1, <4>2, SettingsFaithful
    <3>3. QED
      BY <3>1, <3>2
  <2>5. QED
    BY <2>2, <2>3, <2>4 DEF Faithful
<1>6. QED
  BY <1>2, <1>3, <1>4, <1>5 DEF IInv

LEMMA StatementSteps == ASSUME IInv, Statement PROVE IInv'
<1>1. ASSUME NEW s \in Levels, Execute(s) PROVE IInv'
  BY <1>1, Statements DEF Execute
<1>2. ASSUME NEW s \in Levels, End(s) PROVE IInv'
  <2> USE <1>2 DEF End
  <2>1. TypeOK'
    BY DEF IInv, TypeOK
  <2>2. Nested' /\ Opened' /\ Held' = Held
    BY DEF IInv, Nested, Current, Opened, Held
  <2>3. Fresh'
    BY <2>2 DEF IInv, Fresh, TypeOK
  <2>4. ASSUME NEW z \in Held, ~mixed'[z] PROVE Faithful(z)'
    <3>1. Faithful(z) /\ z \in Levels
      BY <2>4 DEF IInv, Held
    <3>2. Base(z)' = Base(z) /\ (tx'[z] # None => tx'[z] = tx[z])
      BY <3>1 DEF Base, IInv, TypeOK
    <3>3. QED
      BY <3>1, <3>2 DEF Faithful
  <2>5. QED
    BY <2>1, <2>2, <2>3, <2>4 DEF IInv
<1>3. QED
  BY <1>1, <1>2 DEF Statement

-----------------------------------------------------------------------------
(* Blocks                                                                  *)

LEMMA NamedTyped == ASSUME TypeOK, NEW s \in Levels, NEW as \in Scopes \cup {None} PROVE Named(s, as) \in Identity
<1>1. info[s] \in Identity /\ as \in Identity \cup {None}
  BY Identities DEF TypeOK
<1>2. QED
  BY <1>1 DEF Named, Or, Identity

\* What a block that names an identity sets is of that identity.
LEMMA NamedFaithful ==
  ASSUME NEW s \in Levels, NEW as \in Identity, info[s] \in Identity,
         \A f \in Fields : info[s][f] # None => info[s][f] = as[f]
  PROVE  \A f \in Fields : Named(s, as)[f] # None => Named(s, as)[f] = as[f]
<1>1. as # None
  BY Identities
<1>2. Named(s, as) = [as EXCEPT !.user = Or(as.user, info[s].user)]
  BY <1>1 DEF Named
<1>3. /\ Named(s, as).tenant = as.tenant /\ Named(s, as).role = as.role
      /\ Named(s, as).user = Or(as.user, info[s].user)
  BY <1>2 DEF Identity
<1>4. info[s].user # None => info[s].user = as.user
  BY DEF Fields
<1>5. Named(s, as).user # None => Named(s, as).user = as.user
  BY <1>3, <1>4 DEF Or
<1>6. QED
  BY <1>3, <1>5 DEF Fields

LEMMA EnterSteps ==
  ASSUME IInv, NEW commits \in BOOLEAN, NEW as \in Scopes \cup {None}, NEW s \in Levels, Enter(commits, as, s)
  PROVE  IInv'
<1>0. depth + 1 \in 1..MaxDepth
  BY DEF Enter, IInv, TypeOK, Levels
<1> PICK d \in 1..MaxDepth : d = depth + 1
  BY <1>0
<1> DEFINE b == [commits |-> commits, as |-> as, on |-> s, saved |-> ctx]
<1>1. /\ depth < MaxDepth /\ depth' = d /\ s \in Held \cup {d}
      /\ block' = [block EXCEPT ![d] = b] /\ ctx' = IF as = None THEN ctx ELSE as
      /\ info' = [info EXCEPT ![s] = Named(s, as)]
      /\ mixed' = [mixed EXCEPT ![s] = mixed[s] \/ (s \in Held /\ as # None /\ as # Owner(s))]
      /\ given' = given \cup ({as} \ {None}) /\ UNCHANGED <<caller, tx>>
  BY DEF Enter
<1>2. d \in 1..MaxDepth /\ d \in Levels /\ depth \in 0..MaxDepth /\ depth \in Nat /\ 1..d = 1..depth \cup {d} /\ d \notin 1..depth
  BY <1>1 DEF IInv, TypeOK, Levels
<1>3. as \in Identity \cup {None} /\ ctx' \in Identity
  BY <1>1, Identities DEF IInv, TypeOK
<1>4. b \in Block /\ b # None
  <2>1. b \in Block
    BY DEF Block, IInv, TypeOK
  <2>2. QED
    BY <2>1, NoneAssumption
<1>5. b.as = as /\ b.on = s /\ b.saved = ctx
  OBVIOUS
<1> HIDE DEF b
<1>6. block'[d] = b /\ \A e \in 1..depth : block'[e] = block[e]
  BY <1>1, <1>2 DEF IInv, TypeOK
<1>7. TypeOK'
  <2>1. block' \in [1..MaxDepth -> Block \cup {None}] /\ depth' \in Levels
    BY <1>1, <1>2, <1>4 DEF IInv, TypeOK
  <2>2. \A e \in 1..MaxDepth : block'[e] # None <=> e <= depth'
    BY <1>1, <1>2, <1>4 DEF IInv, TypeOK
  <2>3. info' \in [Levels -> Identity] /\ mixed' \in [Levels -> BOOLEAN]
    BY <1>1, NamedTyped DEF IInv, TypeOK
  <2>4. given' \subseteq Identity
    BY <1>1, <1>3 DEF IInv, TypeOK
  <2>5. QED
    BY <1>1, <1>3, <2>1, <2>2, <2>3, <2>4 DEF IInv, TypeOK
<1>8. Held' = IF s = d THEN Held \cup {d} ELSE Held
  <2>1. \A z \in Levels : z <= d <=> z <= depth \/ z = d
    BY <1>2 DEF Levels
  <2>2. \A z \in Levels : z # 0 /\ z <= depth => z \in 1..depth
    BY <1>2 DEF Levels
  <2>3. ASSUME NEW z \in Levels PROVE z \in Held' <=> z \in Held \/ (z = d /\ s = d)
    <3>1. CASE z = 0
      BY <3>1 DEF Held
    <3>2. CASE z = d
      BY <1>1, <1>2, <1>5, <1>6, <3>2 DEF Held
    <3>3. CASE z # 0 /\ z # d
      BY <1>1, <1>6, <2>1, <2>2, <3>3 DEF Held
    <3>4. QED
      BY <3>1, <3>2, <3>3
  <2>4. QED
    BY <1>2, <2>3 DEF Held
<1>9. \A e \in 0..depth : Current(e)' = Current(e)
  BY <1>1, <1>2, <1>6 DEF Current
<1>10. Nested'
  <2>1. ctx' = Current(d)'
    <3>1. d # 0
      BY <1>2
    <3>2. Current(d)' = IF b.as # None THEN b.as ELSE b.saved
      BY <1>6, <3>1 DEF Current
    <3>3. QED
      BY <1>1, <1>5, <3>2
  <2>2. \A e \in 1..depth : block'[e].saved = Current(e - 1)'
    <3>1. \A e \in 1..depth : e - 1 \in 0..depth
      BY <1>2
    <3>2. QED
      BY <1>6, <1>9, <3>1 DEF IInv, Nested
  <2>3. block'[d].saved = Current(d - 1)'
    <3>1. d - 1 = depth /\ depth \in 0..depth
      BY <1>2
    <3>2. ctx = Current(depth)
      BY DEF IInv, Nested
    <3>3. QED
      BY <1>5, <1>6, <1>9, <3>1, <3>2
  <2>4. \A e \in 1..d : block'[e].saved = Current(e - 1)'
    BY <1>2, <2>2, <2>3
  <2>5. QED
    BY <1>1, <2>1, <2>4 DEF Nested
<1>11. Opened'
  <2>1. \A e \in 1..depth : block'[e].on = e \/ (block'[e].on < e /\ block'[e].on \in Held')
    BY <1>6, <1>8 DEF IInv, Opened
  <2>2. s \in Held => s < d
    BY <1>2 DEF Held, Levels
  <2>3. block'[d].on = d \/ (block'[d].on < d /\ block'[d].on \in Held')
    BY <1>1, <1>5, <1>6, <1>8, <2>2
  <2>4. QED
    BY <1>1, <1>2, <2>1, <2>3 DEF Opened
<1>12. Fresh'
  <2>1. ASSUME NEW z \in Levels, z \notin Held' PROVE info'[z] = Nobody /\ tx'[z] = None /\ ~mixed'[z]
    <3>1. z # s /\ z \notin Held
      BY <1>1, <1>8, <2>1
    <3>2. info'[z] = info[z] /\ tx'[z] = tx[z] /\ mixed'[z] = mixed[z]
      BY <1>1, <3>1 DEF IInv, TypeOK
    <3>3. QED
      BY <3>1, <3>2 DEF IInv, Fresh
  <2>2. QED
    BY <2>1 DEF Fresh
<1>13. ASSUME NEW z \in Held, ~mixed'[z] PROVE Faithful(z)'
  <2>1. z \in Levels /\ z # d /\ (z # 0 => z \in 1..depth)
    BY <1>2 DEF Held, Levels
  <2>2. ~mixed[z] /\ (z = s /\ as # None => as = Owner(z))
    BY <1>1, <1>13, <2>1 DEF IInv, TypeOK
  <2>3. Faithful(z) /\ Owner(z) = Base(z)
    BY <2>2, Owners
  <2>4. Base(z)' = Base(z)
    BY <1>1, <1>6, <2>1 DEF Base
  <2>5. \A e \in 1..depth : block'[e].on = z /\ block'[e].as # None => block'[e].as = Base(z)
    BY <1>6, <2>3 DEF Faithful
  <2>6. block'[d].on = z /\ block'[d].as # None => block'[d].as = Base(z)
    BY <1>5, <1>6, <2>2, <2>3
  <2>7. \A e \in 1..depth' : block'[e].on = z /\ block'[e].as # None => block'[e].as = Base(z)
    BY <1>1, <1>2, <2>5, <2>6
  <2>8. \A f \in Fields : info'[z][f] # None => info'[z][f] = Base(z)[f]
    <3>1. CASE z # s \/ as = None
      <4>1. info'[z] = info[z]
        BY <1>1, <2>1, <3>1 DEF IInv, TypeOK, Named
      <4>2. QED
        BY <2>3, <4>1 DEF Faithful
    <3>2. CASE z = s /\ as # None
      <4>1. info'[z] = Named(z, as)
        BY <1>1, <2>1, <3>2 DEF IInv, TypeOK
      <4>2. as = Base(z) /\ as \in Identity /\ info[z] \in Identity
        BY <1>3, <2>1, <2>2, <2>3, <3>2 DEF IInv, TypeOK
      <4>3. QED
        <5>1. \A f \in Fields : info[z][f] # None => info[z][f] = as[f]
          BY <2>3, <4>2 DEF Faithful
        <5>2. \A f \in Fields : Named(z, as)[f] # None => Named(z, as)[f] = as[f]
          BY <2>1, <4>2, <5>1, NamedFaithful
        <5>3. QED
          BY <4>1, <4>2, <5>2
    <3>3. QED
      BY <3>1, <3>2
  <2>9. tx'[z] # None => tx'[z] = Base(z)
    BY <1>1, <2>3 DEF Faithful
  <2>10. QED
    BY <2>4, <2>7, <2>8, <2>9 DEF Faithful
<1>14. ASSUME s = d PROVE Faithful(d)'
  <2>1. d \notin Held /\ d # 0
    BY <1>2 DEF Held, Levels
  <2>2. info[d] = Nobody /\ tx[d] = None
    BY <1>2, <2>1 DEF IInv, Fresh
  <2>3. Base(d)' = IF as # None THEN as ELSE ctx
    BY <1>5, <1>6, <2>1 DEF Base
  <2>4. \A e \in 1..depth : block'[e].on # d
    <3>1. ASSUME NEW e \in 1..depth PROVE block[e].on # d
      <4>1. e < d /\ e \in Nat
        BY <1>2
      <4>2. block[e].on = e \/ block[e].on \in Held
        BY DEF IInv, Opened
      <4>3. QED
        BY <2>1, <4>1, <4>2
    <3>2. QED
      BY <1>6, <3>1
  <2>5. \A e \in 1..depth' : block'[e].on = d /\ block'[e].as # None => block'[e].as = Base(d)'
    BY <1>1, <1>2, <1>5, <1>6, <2>3, <2>4
  <2>6. info'[d] = Named(d, as) /\ tx'[d] = None
    BY <1>1, <1>2, <1>14, <2>2 DEF IInv, TypeOK
  <2>7. \A f \in Fields : Nobody[f] = None
    BY DEF Nobody, Fields
  <2>8. \A f \in Fields : info'[d][f] # None => info'[d][f] = Base(d)'[f]
    <3>1. CASE as = None
      BY <2>2, <2>6, <2>7, <3>1 DEF Named
    <3>2. CASE as # None
      <4>1. as \in Identity /\ info[d] \in Identity
        BY <1>2, <1>3, <3>2 DEF IInv, TypeOK
      <4>2. \A f \in Fields : info[d][f] # None => info[d][f] = as[f]
        BY <2>2, <2>7
      <4>3. \A f \in Fields : Named(d, as)[f] # None => Named(d, as)[f] = as[f]
        BY <1>2, <4>1, <4>2, NamedFaithful
      <4>4. QED
        BY <2>3, <2>6, <3>2, <4>3
    <3>3. QED
      BY <3>1, <3>2
  <2>9. QED
    BY <2>5, <2>6, <2>8 DEF Faithful
<1>15. ASSUME NEW z \in Held', ~mixed'[z] PROVE Faithful(z)'
  BY <1>8, <1>13, <1>14, <1>15
<1>16. QED
  BY <1>1, <1>7, <1>10, <1>11, <1>12, <1>15 DEF IInv

LEMMA LeaveSteps == ASSUME IInv, NEW ends \in BOOLEAN, depth > 0, Leave(ends) PROVE IInv'
<1>0. depth \in 1..MaxDepth
  BY DEF IInv, TypeOK, Levels
<1> PICK d \in 1..MaxDepth : d = depth
  BY <1>0
<1>1. block[d] \in Block /\ block[d].on \in Levels /\ block[d].saved \in Identity
  BY <1>0, Blocks DEF IInv
<1> PICK b \in Block : b = block[d]
  BY <1>1
<1>2. /\ depth' = d - 1 /\ ctx' = Restored(b)
      /\ tx' = IF b.on = d \/ ends THEN [tx EXCEPT ![b.on] = None] ELSE tx
      /\ info' = IF b.on = d THEN [info EXCEPT ![d] = Nobody] ELSE info
      /\ mixed' = IF b.on = d THEN [mixed EXCEPT ![d] = FALSE] ELSE mixed
      /\ block' = [block EXCEPT ![d] = None]
      /\ UNCHANGED <<caller, given>>
  BY DEF Leave
<1>3. d \in Levels /\ d - 1 \in Levels /\ d \in Nat /\ d # 0 /\ b.on \in Levels
  BY <1>1 DEF Levels
<1>4. \A e \in 1..MaxDepth : e # d => block'[e] = block[e]
  BY <1>2 DEF IInv, TypeOK
<1>5. Held' = Held \ {d}
  <2>1. \A z \in Levels : z <= d - 1 <=> z <= d /\ z # d
    BY <1>3 DEF Levels
  <2>2. ASSUME NEW z \in Levels PROVE z \in Held' <=> z \in Held /\ z # d
    <3>1. CASE z = 0
      BY <1>3, <3>1 DEF Held
    <3>2. CASE z = d
      BY <1>2, <1>3, <2>1, <3>2 DEF Held
    <3>3. CASE z # 0 /\ z # d
      <4>1. z \in 1..MaxDepth
        BY <3>3 DEF Levels
      <4>2. QED
        BY <1>2, <1>4, <2>1, <3>3, <4>1 DEF Held
    <3>4. QED
      BY <3>1, <3>2, <3>3
  <2>3. QED
    BY <2>2 DEF Held
<1>6. \A e \in 0..(d - 1) : Current(e)' = Current(e)
  <2>1. \A e \in 0..(d - 1) : e # 0 => e \in 1..MaxDepth /\ e # d
    BY <1>3
  <2>2. QED
    BY <1>2, <1>4, <2>1 DEF Current
<1>7. TypeOK'
  <2>1. block' \in [1..MaxDepth -> Block \cup {None}] /\ depth' \in Levels
    BY <1>2, <1>3 DEF IInv, TypeOK
  <2>2. \A e \in 1..MaxDepth : block'[e] # None <=> e <= depth'
    <3>1. \A e \in 1..MaxDepth : e <= d - 1 <=> e <= d /\ e # d
      BY <1>3
    <3>2. block'[d] = None
      BY <1>2 DEF IInv, TypeOK
    <3>3. QED
      BY <1>2, <1>4, <3>1, <3>2 DEF IInv, TypeOK
  <2>3. ctx' \in Identity
    BY <1>1, <1>2 DEF Restored, IInv, TypeOK
  <2>4. info' \in [Levels -> Identity] /\ tx' \in [Levels -> Identity \cup {None}] /\ mixed' \in [Levels -> BOOLEAN]
    BY <1>2, Identities DEF IInv, TypeOK
  <2>5. QED
    BY <1>2, <2>1, <2>2, <2>3, <2>4 DEF IInv, TypeOK
<1>8. Nested'
  <2>1. b.saved = Current(d - 1) /\ ctx = Current(d)
    BY <1>3 DEF IInv, Nested
  <2>2. b.as = None => ctx = b.saved
    BY <1>3, <2>1 DEF Current
  <2>3. ctx' = Current(d - 1)'
    <3>1. d - 1 \in 0..(d - 1)
      BY <1>3
    <3>2. QED
      BY <1>2, <1>6, <2>1, <2>2, <3>1 DEF Restored
  <2>4. \A e \in 1..(d - 1) : block'[e].saved = Current(e - 1)'
    <3>1. \A e \in 1..(d - 1) : e \in 1..MaxDepth /\ e \in 1..depth /\ e # d /\ e - 1 \in 0..(d - 1)
      BY <1>3
    <3>2. QED
      BY <1>4, <1>6, <3>1 DEF IInv, Nested
  <2>5. QED
    BY <1>2, <2>3, <2>4 DEF Nested
<1>9. Opened'
  <2>1. ASSUME NEW e \in 1..(d - 1)
        PROVE  block'[e].on = e \/ (block'[e].on < e /\ block'[e].on \in Held')
    <3>1. e \in 1..MaxDepth /\ e \in 1..depth /\ ~(d < e) /\ e # d
      BY <1>3
    <3>2. block'[e] = block[e]
      BY <1>4, <3>1
    <3>3. QED
      BY <1>5, <3>1, <3>2 DEF IInv, Opened
  <2>2. QED
    BY <1>2, <2>1 DEF Opened
<1>10. Fresh'
  <2>1. ASSUME NEW z \in Levels, z \notin Held' PROVE info'[z] = Nobody /\ tx'[z] = None /\ ~mixed'[z]
    <3>1. CASE z \notin Held
      BY <1>2, <1>3, <3>1 DEF IInv, TypeOK, Fresh
    <3>2. CASE z = d /\ z \in Held
      <4>1. b.on = d
        BY <1>3, <3>2 DEF Held
      <4>2. QED
        BY <1>2, <1>3, <3>2, <4>1 DEF IInv, TypeOK
    <3>3. QED
      BY <1>5, <2>1, <3>1, <3>2
  <2>2. QED
    BY <2>1 DEF Fresh
<1>11. ASSUME NEW z \in Held', ~mixed'[z] PROVE Faithful(z)'
  <2>1. z \in Held /\ z # d /\ z \in Levels /\ (z # 0 => z \in 1..MaxDepth)
    BY <1>5 DEF Held, Levels
  <2>2. mixed'[z] = mixed[z] /\ info'[z] = info[z] /\ (tx'[z] = None \/ tx'[z] = tx[z])
    BY <1>2, <2>1 DEF IInv, TypeOK
  <2>3. Faithful(z)
    BY <1>11, <2>1, <2>2 DEF IInv
  <2>4. Base(z)' = Base(z)
    BY <1>2, <1>4, <2>1 DEF Base
  <2>5. \A e \in 1..depth' : block'[e].on = z /\ block'[e].as # None => block'[e].as = Base(z)
    <3>1. \A e \in 1..(d - 1) : e \in 1..MaxDepth /\ e \in 1..depth /\ e # d
      BY <1>3
    <3>2. QED
      BY <1>2, <1>4, <2>3, <3>1 DEF Faithful
  <2>6. QED
    BY <2>2, <2>3, <2>4, <2>5 DEF Faithful
<1>12. QED
  BY <1>2, <1>7, <1>8, <1>9, <1>10, <1>11 DEF IInv

\* The argument of Leave, as a constant.
LEMMA LeaveBlocks ==
  ASSUME TypeOK, LeaveBlock
  PROVE  depth > 0 /\ \E ends \in BOOLEAN : Leave(ends)
<1>1. depth \in 1..depth
  BY DEF LeaveBlock, TypeOK, Levels
<1>2. block[depth].commits \in BOOLEAN
  BY <1>1, Blocks DEF Block
<1>3. QED
  BY <1>2 DEF LeaveBlock

LEMMA Inductive == IInv /\ [Next]_vars => IInv'
<1> SUFFICES ASSUME IInv, [Next]_vars PROVE IInv'
  OBVIOUS
<1>1. CASE Statement
  BY <1>1, StatementSteps
<1>2. CASE EnterTenantSession
  BY <1>2, EnterSteps DEF EnterTenantSession
<1>3. CASE EnterUnitOfWork
  BY <1>3, EnterSteps DEF EnterUnitOfWork
<1>4. CASE LeaveBlock
  BY <1>4, LeaveBlocks, LeaveSteps DEF IInv
<1>5. CASE UNCHANGED vars
  BY <1>5 DEF vars, IInv, TypeOK, Nested, Current, Opened, Held, Fresh, Faithful, Base
<1>6. QED
  BY <1>1, <1>2, <1>3, <1>4, <1>5 DEF Next, Scope

LEMMA Invariant == Spec => []IInv
BY Initially, Inductive, PTL DEF Spec

-----------------------------------------------------------------------------
(* Rights                                                                  *)

LEMMA NobodysRights == Nobody.tenant = None /\ Nobody.role = None
BY DEF Nobody

LEMMA RightsInitially == Init => RightsInv
BY NobodysRights DEF Init, RightsInv

\* A transaction takes tenant and role from the same place.
LEMMA SettingsRights ==
  ASSUME IInv, RightsInv, NEW s \in Levels
  PROVE  \E i \in given : SameRights(Settings(s), i)
<1>1. /\ Settings(s).tenant = Or(info[s].tenant, ctx.tenant)
      /\ Settings(s).role = Or(info[s].role, ctx.role)
  BY DEF Settings
<1>2. CASE info[s].tenant = None /\ info[s].role = None
  <2>1. SameRights(Settings(s), ctx)
    BY <1>1, <1>2 DEF SameRights, Or
  <2>2. QED
    BY <2>1 DEF RightsInv
<1>3. CASE info[s].tenant # None /\ info[s].role # None
  <2>1. PICK i \in given : SameRights(info[s], i)
    BY <1>3 DEF RightsInv
  <2>2. SameRights(Settings(s), i)
    BY <1>1, <1>3, <2>1 DEF SameRights, Or
  <2>3. QED
    BY <2>2
<1>4. QED
  BY <1>2, <1>3 DEF RightsInv

LEMMA StatementRights == ASSUME IInv, RightsInv, Statement PROVE RightsInv'
<1>1. PICK s \in Levels : Execute(s) \/ End(s)
  BY DEF Statement
<1>2. UNCHANGED <<ctx, depth, block, info, given>>
  BY <1>1 DEF Execute, End
<1>3. ASSUME NEW z \in Levels, tx'[z] # None PROVE \E i \in given : SameRights(tx'[z], i)
  <2>1. tx'[z] = tx[z] \/ (z = s /\ tx'[z] = Settings(s))
    BY <1>1, <1>3 DEF Execute, Begins, End, IInv, TypeOK
  <2>2. QED
    BY <1>3, <2>1, SettingsRights DEF RightsInv
<1>4. QED
  BY <1>2, <1>3 DEF RightsInv

LEMMA EnterRights ==
  ASSUME IInv, RightsInv, NEW commits \in BOOLEAN, NEW as \in Scopes \cup {None}, NEW s \in Levels,
         Enter(commits, as, s)
  PROVE  RightsInv'
<1>0. depth \in Nat /\ depth + 1 \in 1..MaxDepth
  BY DEF Enter, IInv, TypeOK, Levels
<1>1. PICK b : /\ b.saved = ctx /\ block' = [block EXCEPT ![depth + 1] = b]
  BY DEF Enter
<1>2. /\ depth' = depth + 1 /\ tx' = tx
      /\ ctx' = IF as = None THEN ctx ELSE as
      /\ info' = [info EXCEPT ![s] = Named(s, as)]
      /\ given' = given \cup ({as} \ {None})
  BY DEF Enter
<1>3. ctx' \in given' /\ given \subseteq given'
  BY <1>2 DEF RightsInv
<1>4. \A d \in 1..depth' : block'[d].saved \in given'
  <2>1. ASSUME NEW d \in 1..depth PROVE block'[d].saved \in given'
    <3>1. d # depth + 1 /\ d \in 1..MaxDepth
      BY <1>0
    <3>2. block'[d] = block[d]
      BY <1>1, <3>1 DEF IInv, TypeOK
    <3>3. QED
      BY <1>3, <3>2 DEF RightsInv
  <2>2. block'[depth + 1].saved \in given'
    <3>1. block'[depth + 1] = b
      BY <1>0, <1>1 DEF IInv, TypeOK
    <3>2. QED
      BY <1>1, <1>3, <3>1 DEF RightsInv
  <2>3. \A d \in 1..(depth + 1) : d \in 1..depth \/ d = depth + 1
    BY <1>0
  <2>4. QED
    BY <1>2, <2>1, <2>2, <2>3
<1>5. ASSUME NEW z \in Levels
      PROVE  \/ info'[z].tenant = None /\ info'[z].role = None
             \/ info'[z].tenant # None /\ info'[z].role # None /\ \E i \in given' : SameRights(info'[z], i)
  <2>1. CASE as = None \/ z # s
    <3>1. info'[z] = info[z]
      BY <1>2, <2>1 DEF Named, IInv, TypeOK
    <3>2. QED
      BY <1>3, <3>1 DEF RightsInv
  <2>2. CASE as # None /\ z = s
    <3>1. as \in Scopes /\ as \in given'
      BY <1>2, <2>2
    <3>2. as \in Identity /\ as.tenant # None /\ as.role # None
      BY <3>1
    <3>3. info'[z] = [as EXCEPT !.user = Or(as.user, info[s].user)]
      BY <1>2, <2>2 DEF Named, IInv, TypeOK
    <3>4. info'[z].tenant = as.tenant /\ info'[z].role = as.role
      BY <3>2, <3>3 DEF Identity
    <3>5. QED
      BY <3>1, <3>2, <3>4 DEF SameRights
  <2>3. QED
    BY <2>1, <2>2
<1>6. \A z \in Levels : tx'[z] # None => \E i \in given' : SameRights(tx'[z], i)
  BY <1>2, <1>3 DEF RightsInv
<1>7. QED
  BY <1>3, <1>4, <1>5, <1>6 DEF RightsInv

LEMMA LeaveRights == ASSUME IInv, RightsInv, NEW ends \in BOOLEAN, depth > 0, Leave(ends) PROVE RightsInv'
<1>0. depth \in Nat /\ depth \in 1..depth /\ depth \in Levels
  BY DEF IInv, TypeOK, Levels
<1>1. block[depth].on \in Levels
  BY <1>0, Blocks DEF IInv
<1>2. /\ depth' = depth - 1 /\ given' = given
      /\ ctx' = Restored(block[depth])
      /\ block' = [block EXCEPT ![depth] = None]
  BY DEF Leave
<1>3. \A z \in Levels : info'[z] = info[z] \/ info'[z] = Nobody
  BY DEF Leave, IInv, TypeOK
<1>4. \A z \in Levels : tx'[z] = tx[z] \/ tx'[z] = None
  BY <1>1 DEF Leave, IInv, TypeOK
<1>5. ctx' \in given
  BY <1>0, <1>2 DEF Restored, RightsInv
<1>6. ASSUME NEW d \in 1..depth' PROVE block'[d].saved \in given
  <2>1. d # depth /\ d \in 1..depth /\ d \in 1..MaxDepth
    BY <1>0, <1>2 DEF IInv, TypeOK, Levels
  <2>2. block'[d] = block[d]
    BY <1>2, <2>1 DEF IInv, TypeOK
  <2>3. QED
    BY <2>1, <2>2 DEF RightsInv
<1>7. ASSUME NEW z \in Levels
      PROVE  \/ info'[z].tenant = None /\ info'[z].role = None
             \/ info'[z].tenant # None /\ info'[z].role # None /\ \E i \in given : SameRights(info'[z], i)
  BY <1>3, NobodysRights DEF RightsInv
<1>8. \A z \in Levels : tx'[z] # None => \E i \in given : SameRights(tx'[z], i)
  BY <1>4 DEF RightsInv
<1>9. QED
  BY <1>2, <1>5, <1>6, <1>7, <1>8 DEF RightsInv

LEMMA RightsKept == IInv /\ RightsInv /\ [Next]_vars => RightsInv'
<1> SUFFICES ASSUME IInv, RightsInv, [Next]_vars PROVE RightsInv'
  OBVIOUS
<1>1. CASE Statement
  BY <1>1, StatementRights
<1>2. CASE EnterTenantSession
  BY <1>2, EnterRights DEF EnterTenantSession
<1>3. CASE EnterUnitOfWork
  BY <1>3, EnterRights DEF EnterUnitOfWork
<1>4. CASE LeaveBlock
  BY <1>4, LeaveBlocks, LeaveRights DEF IInv
<1>5. CASE UNCHANGED vars
  BY <1>5 DEF vars, RightsInv
<1>6. QED
  BY <1>1, <1>2, <1>3, <1>4, <1>5 DEF Next, Scope

LEMMA RightsInvariant == Spec => []RightsInv
BY Invariant, RightsInitially, RightsKept, PTL DEF Spec

-----------------------------------------------------------------------------
(* Theorems                                                                *)

\* The variables have their types: what Python's annotations promise of the
\* contextvars, Session.info and the reset tokens (core/database.py).
THEOREM TypeCorrect == Spec => []TypeOK
<1>1. IInv => TypeOK
  BY DEF IInv
<1>2. QED
  BY <1>1, Invariant, PTL

\* However blocks are nested, a transaction of a session that served one
\* identity has the settings of that identity (set_tenant_context).
THEOREM RightIdentity == Spec => []ActsForOwner
<1>1. IInv => ActsForOwner
  <2>1. ASSUME IInv, NEW s \in Held, tx[s] # None, ~mixed[s] PROVE tx[s] = Owner(s)
    BY <2>1, Owners DEF Faithful
  <2>2. QED
    BY <2>1 DEF ActsForOwner
<1>2. QED
  BY <1>1, Invariant, PTL

\* Under attach_tenant_rls of migration 0005 a transaction, of a session that
\* served several identities too, reads the rows of one identity the task was
\* given, and the audit rows that process_audit_log writes in it pass.
THEOREM RightsAreNotMixed == Spec => []RightsOfOneIdentity
<1>1. IInv /\ RightsInv => RightsOfOneIdentity
  <2>1. ASSUME IInv, RightsInv, NEW s \in Held, tx[s] # None
        PROVE  \E i \in given :
                 /\ Readable(tx[s]) = Readable(i)
                 /\ AuditRow(tx[s]).organization_id = i.tenant
                 /\ AuditRow(tx[s]).organization_id \in Readable(i)
    <3>1. PICK i \in given : SameRights(tx[s], i)
      BY <2>1 DEF RightsInv, Held
    <3>2. i.tenant \in Tenants \cup {None}
      BY <2>1 DEF IInv, TypeOK, Identity
    <3>3. Readable(tx[s]) = Readable(i)
      BY <3>1 DEF SameRights, Readable, Policy
    <3>4. i.tenant \in Readable(i)
      BY <3>2 DEF Readable, Policy
    <3>5. QED
      BY <3>1, <3>3, <3>4 DEF SameRights, AuditRow
  <2>2. QED
    BY <2>1 DEF RightsOfOneIdentity
<1>2. QED
  BY <1>1, Invariant, RightsInvariant, PTL

\* Outside all blocks the contextvars are what the guard set: the reset tokens
\* of tenant_session and unit_of_work nest.
THEOREM ContextNests == Spec => []ContextRestored
<1>1. IInv => ContextRestored
  BY DEF IInv, Nested, Current, ContextRestored
<1>2. QED
  BY <1>1, Invariant, PTL

=============================================================================
