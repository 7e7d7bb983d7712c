----------------------------- MODULE SchemaCatalog -----------------------------
(***************************************************************************)
(* What protects a table from another shelter, and the checks over the     *)
(* catalog that every table is protected: the row security PostgreSQL      *)
(* applies to a role, the question dbtest/roles.go asks of a role, and the *)
(* classification of rlstest/catalog.go with its checks.  Error texts are  *)
(* left out; a check returns whether it finds nothing to report.           *)
(***************************************************************************)
EXTENDS Naturals, FiniteSets

CONSTANTS
    Names,      \* names a relation of schema public can have
    HeadVersion \* the version of the last migration

Commands == {"SELECT", "INSERT", "UPDATE", "DELETE"}

\* Whose rows a policy's predicate admits, seen from the scope of a transaction.
Whose == {"own", "other"}

Policies == [command: Commands \cup {"ALL"}, using: SUBSET Whose, check: SUBSET Whose]

\* A relation: the two flags and the policies of the catalog, and the writes
\* granted to app_tenant.
Tables == [enabled: BOOLEAN, forced: BOOLEAN, policies: SUBSET Policies,
           granted: SUBSET {"UPDATE", "DELETE"}]

RoleCapabilities == [super: BOOLEAN, bypassRLS: BOOLEAN, owner: BOOLEAN]

-----------------------------------------------------------------------------
(* Row security.                                                           *)

For(t, command) == {p \in t.policies : p.command \in {command, "ALL"}}

\* Policies are permissive: a row is admitted when one of them admits it.
Using(t, command) == UNION {p.using : p \in For(t, command)}
WithCheck(t) == UNION {p.check : p \in For(t, "INSERT")}

Bypasses(r, t) == r.super \/ r.bypassRLS \/ ~t.enabled \/ (r.owner /\ ~t.forced)

\* Whose rows a statement of role r reaches.  One that reads a column, as every
\* WHERE does, has to pass the SELECT policies too.
Reach(r, t, command, reads) ==
    IF Bypasses(r, t) THEN Whose
    ELSE Using(t, command) \cap (IF reads THEN Using(t, "SELECT") ELSE Whose)

\* Whose name role r can put on a new row.
Stamp(r, t) == IF Bypasses(r, t) THEN Whose ELSE WithCheck(t)

CheckRoleCannotBypassRLS(r) == ~r.super /\ ~r.bypassRLS /\ ~r.owner

-----------------------------------------------------------------------------
(* The classification and its checks.                                      *)

\* A list of names as the number of times each is listed in it; pending and
\* policyLandsAt are maps, NoVersion where a name has no entry.
NoVersion == HeadVersion + 1

Lists == [Names -> 0..2]

Classification ==
    [tenant: Lists, tenantChildren: Lists, appendOnly: Lists, nonTenantModel: Lists,
     infrastructure: Lists, noPolicy: SUBSET Names, pending: SUBSET Names,
     policyLandsAt: [Names -> (1..HeadVersion) \cup {NoVersion}]]

Listed(list) == {n \in Names : list[n] > 0}
Duplicates(list) == {n \in Names : list[n] > 1}

ModelTables(c) == Listed(c.tenant) \cup Listed(c.nonTenantModel)

Validate(c) ==
    /\ \A n \in Names : c.tenant[n] + c.nonTenantModel[n] + c.infrastructure[n] <= 1
    /\ Listed(c.tenantChildren) \subseteq Listed(c.tenant)
    /\ c.pending \cup c.noPolicy \cup Listed(c.appendOnly) \subseteq ModelTables(c)
    /\ \A n \in Names : c.policyLandsAt[n] # NoVersion => n \in ModelTables(c) \ c.noPolicy
    /\ Duplicates(c.tenantChildren) = {} /\ Duplicates(c.appendOnly) = {}

ClassifyAll(c, existing) == existing \subseteq ModelTables(c) \cup Listed(c.infrastructure)

\* A pending table does not exist yet, and every other declared table does.
CheckPending(c, existing) ==
    /\ c.pending \cap existing = {}
    /\ ModelTables(c) \ c.pending \subseteq existing

\* Infrastructure is exempt before anything else is asked.
Protected(c, n, t, policyExempt) ==
    n \in Listed(c.infrastructure)
    \/ /\ n \in ModelTables(c)
       /\ t.enabled
       /\ t.forced
       /\ t.policies # {} \/ policyExempt

CheckProtection(c, n, t) == Protected(c, n, t, n \in c.noPolicy)

\* At an intermediate version a table is exempt until its first policy lands.
CheckProtectionAt(c, n, t, at) ==
    LET landsAt == c.policyLandsAt[n] IN
    Protected(c, n, t, n \in c.noPolicy \/ (landsAt # NoVersion /\ at < landsAt))
=============================================================================
