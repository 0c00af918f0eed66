---------------------------- MODULE TenantContext ----------------------------
(***************************************************************************)
(* Whom a statement acts for: contextvars, Session.info and the settings   *)
(* of the transaction (core/database.py), which row-level security and the *)
(* audit trigger read (alembic 0004, 0005).                                *)
(*                                                                         *)
(* One task at a time sees these variables: a request, whose guard has set *)
(* the contextvars and which was given a session, or a worker's job.  The  *)
(* task opens and leaves blocks (tenant_session, unit_of_work) in any      *)
(* nesting, on a session of their own or on one that is already open, and  *)
(* runs statements on any session it holds.  Session 0 is the request's;   *)
(* session d belongs to the block opened at depth d, if it took its own.   *)
(***************************************************************************)
EXTENDS Integers

CONSTANTS
  Tenants, Users,
  Tokens,     \* the identities the guard may find in a token
  Scopes,     \* the identities the code may name when it opens a block
  MaxDepth,   \* bound on the nesting of blocks
  None        \* an empty setting

Identity == [tenant: Tenants \cup {None}, user: Users \cup {None}, role: {"superadmin", "user", None}]
Nobody   == [tenant |-> None, user |-> None, role |-> None]

ASSUME TenantAssumption ==
  /\ None \notin Tenants \cup Users \cup Identity /\ "superadmin" # None /\ "user" # None
  /\ Tokens \subseteq {i \in Identity : i.user # None /\ i.role # None}
  /\ Scopes \subseteq {i \in Identity : i.tenant # None /\ i.role # None}
  /\ MaxDepth \in Nat

VARIABLES
  caller,     \* the identity the guard found in the token; constant
  ctx,        \* current_tenant_id, current_user_id, current_role
  depth,      \* blocks open
  block,      \* block[d]: the block at depth d
  info,       \* info[s]: Session.info
  tx,         \* tx[s]: None, or the settings of the open transaction
  mixed,      \* history: mixed[s]: s served two identities (see Begins, Enter)
  given       \* history: the identities the task was given, by its token or a block

vars == <<caller, ctx, depth, block, info, tx, mixed, given>>

Levels == 0..MaxDepth
\* "as" is None for a unit_of_work without a tenant; "saved" are the reset tokens.
Block  == [commits: BOOLEAN, as: Scopes \cup {None}, on: Levels, saved: Identity]

ASSUME NoneAssumption == None \notin Block

TypeOK ==
  /\ caller \in Identity /\ ctx \in Identity
  /\ depth \in Levels
  /\ block \in [1..MaxDepth -> Block \cup {None}] /\ \A d \in 1..MaxDepth : block[d] # None <=> d <= depth
  /\ info \in [Levels -> Identity]
  /\ tx \in [Levels -> Identity \cup {None}]
  /\ mixed \in [Levels -> BOOLEAN]
  /\ given \subseteq Identity

Init ==
  /\ caller \in Tokens \cup {Nobody}
  /\ ctx = caller
  /\ depth = 0 /\ block = [d \in 1..MaxDepth |-> None]
  /\ info = [s \in Levels |-> Nobody] /\ tx = [s \in Levels |-> None]
  /\ mixed = [s \in Levels |-> FALSE]
  /\ given = {caller}

-----------------------------------------------------------------------------
(* Sessions                                                                *)

\* The sessions the task holds: the request's and the blocks' own.
Held == {s \in Levels : s = 0 \/ (s <= depth /\ block[s].on = s)}

\* The identity session s should act for: that of the innermost block that
\* was opened on it and names one; else what was current where s came from.
Owner(s) ==
  LET naming == {d \in 1..depth : block[d].on = s /\ block[d].as # None}
  IN  IF naming # {} THEN block[CHOOSE d \in naming : \A e \in naming : e <= d].as
      ELSE IF s = 0 THEN caller ELSE block[s].saved

Or(a, b) == IF a # None THEN a ELSE b

\* Mutated forms (operators named "Broken") hold a plausible bug each, for the
\* mutation runs; nothing else uses them.

\* The contextvars win over Session.info.
BrokenSettings(s) ==
  [tenant |-> Or(ctx.tenant, info[s].tenant), user |-> Or(ctx.user, info[s].user),
   role |-> Or(ctx.role, info[s].role)]

\* set_tenant_context: what set_config gets when a transaction of s begins; an
\* empty role becomes "guest", which no policy names.
Settings(s) ==
  [tenant |-> Or(info[s].tenant, ctx.tenant), user |-> Or(info[s].user, ctx.user),
   role |-> Or(info[s].role, ctx.role)]

\* The settings are local to the transaction: a statement begins one if none
\* is open.  A session without all of an identity of its own takes the rest
\* from whatever block is innermost.
Begins(s) ==
  /\ tx' = [tx EXCEPT ![s] = IF tx[s] = None THEN Settings(s) ELSE tx[s]]
  /\ mixed' = [mixed EXCEPT ![s] = mixed[s] \/ (tx[s] = None /\ ctx # Owner(s) /\ \E f \in DOMAIN info[s] : info[s][f] = None)]

\* attach_tenant_rls, 0005: USING and WITH CHECK of audit_logs.  In SQL a
\* comparison with NULL is not true, so no row equals an empty tenant.
Policy(org, as) ==
  as.role = "superadmin" \/ org = None \/ (as.tenant # None /\ org = as.tenant)

\* The organizations whose audit rows a transaction with settings "as" reads.
Readable(as) == {org \in Tenants \cup {None} : Policy(org, as)}

\* What process_audit_log writes with a change to platform_users.
AuditRow(as) == [changed_by |-> as.user, organization_id |-> as.tenant]

\* A query, or a change with its audit row, on session s.
Execute(s) ==
  /\ s \in Held /\ Begins(s)
  /\ UNCHANGED <<caller, ctx, depth, block, info, given>>

\* COMMIT or ROLLBACK, by a repository or by the code itself.
End(s) ==
  /\ s \in Held /\ tx[s] # None
  /\ tx' = [tx EXCEPT ![s] = None]
  /\ UNCHANGED <<caller, ctx, depth, block, info, mixed, given>>

-----------------------------------------------------------------------------
(* Blocks                                                                  *)

\* A session keeps the role it has.
BrokenNamed(s, as) ==
  IF as = None THEN info[s]
  ELSE [as EXCEPT !.user = Or(as.user, info[s].user), !.role = Or(info[s].role, as.role)]

\* Session.info when a block naming "as" is opened on s: the user stays when
\* the block names none.
Named(s, as) == IF as = None THEN info[s] ELSE [as EXCEPT !.user = Or(as.user, info[s].user)]

\* tenant_session(as) and unit_of_work(as), on session s or on one of its own.
Enter(commits, as, s) ==
  /\ depth < MaxDepth /\ depth' = depth + 1
  /\ s \in Held \cup {depth + 1}
  /\ block' = [block EXCEPT ![depth + 1] = [commits |-> commits, as |-> as, on |-> s, saved |-> ctx]]
  /\ ctx' = IF as = None THEN ctx ELSE as
  /\ info' = [info EXCEPT ![s] = Named(s, as)]
  /\ mixed' = [mixed EXCEPT ![s] = mixed[s] \/ (s \in Held /\ as # None /\ as # Owner(s))]
  /\ given' = given \cup ({as} \ {None})
  /\ UNCHANGED <<caller, tx>>

EnterTenantSession == \E as \in Scopes, s \in Levels : Enter(FALSE, as, s)
EnterUnitOfWork    == \E as \in Scopes \cup {None}, s \in Levels : Enter(TRUE, as, s)

\* The contextvars are cleared.
BrokenRestored(b) == Nobody

\* The contextvars are reset, if the block had set them.
Restored(b) == IF b.as = None THEN ctx ELSE b.saved

\* The innermost block ends: its session, if its own, is closed; the
\* contextvars are reset; Session.info of a session it was given stays.
Leave(ends) ==
  LET b == block[depth] IN
  /\ depth > 0 /\ depth' = depth - 1
  /\ ctx' = Restored(b)
  /\ tx' = IF b.on = depth \/ ends THEN [tx EXCEPT ![b.on] = None] ELSE tx
  /\ info' = IF b.on = depth THEN [info EXCEPT ![depth] = Nobody] ELSE info
  /\ mixed' = IF b.on = depth THEN [mixed EXCEPT ![depth] = FALSE] ELSE mixed
  /\ block' = [block EXCEPT ![depth] = None]
  /\ UNCHANGED <<caller, given>>

\* The end of the body, where unit_of_work commits, or an Exception, in the body
\* or from the commit, where it rolls back; tenant_session does neither.  A
\* cancellation is no Exception: it passes by the rollback, and a session that
\* the block was given keeps its transaction.
LeaveBlock == depth > 0 /\ (Leave(block[depth].commits) \/ Leave(FALSE))

Statement == \E s \in Levels : Execute(s) \/ End(s)
Scope     == EnterTenantSession \/ EnterUnitOfWork \/ LeaveBlock
Next      == Statement \/ Scope

Spec == Init /\ [][Next]_vars

-----------------------------------------------------------------------------
(* What must hold                                                          *)

\* A transaction of a session that never served two identities acts for the
\* one it should, however blocks on other sessions are nested around it and
\* however they end: its statements see that tenant's rows, the audit log names
\* that user.  A session that did serve two may act for the wrong one, and then
\* reads another tenant's rows, where the docstring of tenant_session promises
\* complete isolation.
ActsForOwner == \A s \in Held : tx[s] # None /\ ~mixed[s] => tx[s] = Owner(s)

\* Not even a session that served several identities adds their rights up: each
\* transaction reads the rows of one identity that the task was given, and the
\* audit rows of its changes are in that one's organization and among the rows
\* it may write.  No tenant is ever paired with another one's role.
RightsOfOneIdentity ==
  \A s \in Held : tx[s] # None =>
    \E i \in given :
      /\ Readable(tx[s]) = Readable(i)
      /\ AuditRow(tx[s]).organization_id = i.tenant
      /\ AuditRow(tx[s]).organization_id \in Readable(i)

\* Whatever was nested and however it ended, the identity of the task is the
\* guard's again once its blocks are left.
ContextRestored == depth = 0 => ctx = caller
=============================================================================
