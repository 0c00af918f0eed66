--------------------------- MODULE MCTenantContext ---------------------------
EXTENDS TenantContext

CONSTANTS north, south, ann

Of(tenant, user, role) == [tenant |-> tenant, user |-> user, role |-> role]

MCTokens == {Of(north, ann, "user"), Of(None, ann, "user"), Of(None, ann, "superadmin")}
MCScopes == {Of(north, ann, "user"), Of(south, None, "user"), Of(south, None, "superadmin")}
=============================================================================
