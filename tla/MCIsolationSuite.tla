---------------------------- MODULE MCIsolationSuite ----------------------------
(* Values of the constants of IsolationSuite for TLC: a schema of three     *)
(* tenant tables, each the parent of the next, one table of users, goose's  *)
(* own and a stray one; worlds that differ from a correct one in one place. *)
EXTENDS IsolationSuite, TLC

CONSTANTS pets, applications, events, users, stray

TheNames == {pets, applications, events, users, stray, Goose}
TheOrder == <<pets, applications, events>>
TheKinds == pets :> "ordinary" @@ applications :> "noDelete" @@ events :> "appendOnly"
TheParents == pets :> {} @@ applications :> {pets} @@ events :> {pets, applications}
TheRoles == <<"app_tenant", "app_public", "app_auth">>

None == [n \in TheNames |-> 0]
Once(set) == [n \in TheNames |-> IF n \in set THEN 1 ELSE 0]

Policy(c, u, k) == [command |-> c, using |-> u, check |-> k]
Own == {"own"}
Guard(policies, granted) ==
    [enabled |-> TRUE, forced |-> TRUE, policies |-> policies, granted |-> granted]

ForAll == Policy("ALL", Own, Own)
TheSchema == [n \in TheNames |->
    CASE n = pets -> Guard({ForAll}, {"UPDATE", "DELETE"})
      [] n = applications -> Guard({ForAll}, {"UPDATE"})
      [] n = events -> Guard({Policy("SELECT", Own, {}), Policy("INSERT", {}, Own)}, {})
      [] n = users -> Guard({Policy("SELECT", Own, {})}, {})
      [] n = Goose -> [Guard({}, {}) EXCEPT !.enabled = FALSE, !.forced = FALSE]
      [] n = stray -> Absent]

\* pets and users land in the first migration, the policy of users in the second.
TheDown == [v \in 0..2 |-> [n \in TheNames |->
    CASE n = Goose -> TheSchema[n]
      [] n = pets -> IF v >= 1 THEN TheSchema[n] ELSE Absent
      [] n = users -> IF v >= 2 THEN TheSchema[n] ELSE IF v = 1 THEN Guard({}, {}) ELSE Absent
      [] n = applications -> IF v >= 2 THEN TheSchema[n] ELSE Absent
      [] OTHER -> Absent]]

TheDeclaration ==
    [tenant |-> Once(Cases), tenantChildren |-> Once({applications, events}),
     appendOnly |-> Once({events}), nonTenantModel |-> Once({users}),
     infrastructure |-> Once({Goose}), noPolicy |-> {}, pending |-> {},
     policyLandsAt |-> [n \in TheNames |-> IF n = users THEN 2 ELSE 4]]

TheRoleAttributes == [r \in Elements(TheRoles) |->
    [super |-> FALSE, bypassRLS |-> FALSE, owner |-> FALSE]]

TheWorld == [schema |-> TheSchema, down |-> TheDown, declaration |-> TheDeclaration,
             roles |-> TheRoleAttributes]

\* Predicates that are right, missing or permissive.
Kinds == {{}, Own, Whose}

PolicySets ==
    {{ForAll}, {}} \cup
    {{ForAll, Policy(c, u, k)} : c \in {"SELECT", "INSERT", "DELETE"}, u \in Kinds, k \in Kinds}
    \cup {{Policy("ALL", u, k)} : u \in Kinds, k \in Kinds}
    \cup {{Policy("SELECT", s, {}), Policy("INSERT", {}, i), Policy("UPDATE", u, Own),
           Policy("DELETE", d, {})} : s \in Kinds, i \in Kinds, u \in Kinds, d \in Kinds}

\* One table is wrong.
OddTables == {[TheWorld EXCEPT !.schema[n] =
        [enabled |-> f[1], forced |-> f[2], policies |-> p, granted |-> g]] :
    n \in Cases, f \in {<<TRUE, TRUE>>, <<TRUE, FALSE>>, <<FALSE, TRUE>>},
    p \in PolicySets, g \in SUBSET {"UPDATE", "DELETE"}}

\* One name is declared otherwise, with its table right, open, bare or absent.
OddNames == {[TheWorld EXCEPT
        !.schema[n] = t,
        !.declaration = [TheDeclaration EXCEPT !.tenant[n] = l[1], !.nonTenantModel[n] = l[2],
            !.infrastructure[n] = IF n = Goose THEN 1 ELSE l[3],
            !.noPolicy = IF l[4] THEN {n} ELSE {}, !.pending = IF l[5] THEN {n} ELSE {}]] :
    n \in {pets, users, stray},
    t \in {Guard({ForAll}, {"UPDATE", "DELETE"}), Guard({}, {}), Absent,
           [Guard({ForAll}, {"UPDATE", "DELETE"}) EXCEPT !.enabled = FALSE],
           [Guard({ForAll}, {"UPDATE", "DELETE"}) EXCEPT !.forced = FALSE]},
    l \in {m \in (0..2) \X (0..1) \X (0..1) \X BOOLEAN \X BOOLEAN : m[1] + m[2] > 0 \/ m[3] = 0}}

\* One role is another than the migrations make it.
OddRoles == {[TheWorld EXCEPT !.roles[r] = a] : r \in Elements(TheRoles), a \in RoleCapabilities}

\* A Down leaves a table otherwise, or its first policy is declared elsewhere.
OddDowns == {[TheWorld EXCEPT
        !.down = [v \in 0..2 |-> [TheDown[v] EXCEPT ![n] = s[v + 1]]],
        !.declaration.policyLandsAt[n] = at] :
    n \in {pets, users},
    s \in [1..3 -> {Absent, TheSchema[pets], Guard({}, {}),
                    [TheSchema[pets] EXCEPT !.enabled = FALSE]}],
    at \in 1..4}

TheWorlds == [ab |-> OddTables \cup OddNames \cup OddRoles, walk |-> OddDowns \cup OddRoles]

TheStarts == {[short |-> FALSE, skip |-> FALSE, ci |-> TRUE],
              [short |-> FALSE, skip |-> TRUE, ci |-> TRUE],
              [short |-> TRUE, skip |-> FALSE, ci |-> FALSE]}
=============================================================================
