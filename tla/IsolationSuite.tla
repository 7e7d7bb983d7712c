----------------------------- MODULE IsolationSuite ----------------------------
(***************************************************************************)
(* The suite that decides whether tenants are isolated: the harness that   *)
(* starts a database, migrates it, sets the role passwords and opens a     *)
(* guarded pool per role (dbtest/container.go, db/migrate.go,              *)
(* db/bootstrap.go), the catalog meta-test, the A/B cases                  *)
(* (dbtest/tenants.go) and the stepwise rollback.  The world the suite     *)
(* runs on -- schema, declaration, roles, what each Down leaves -- is      *)
(* arbitrary; the properties compare the verdict with that world.          *)
(***************************************************************************)
EXTENDS SchemaCatalog, Sequences

CONSTANTS
    Worlds,         \* of a test, what it may be run on
    Starts,         \* how the suite may be started
    Order,          \* the A/B cases, in the order of abCases
    CaseKind,       \* of a case: "ordinary", "appendOnly" or "noDelete"
    Parents,        \* the tables whose rows a case's fixture seeds
    RoleOrder,      \* the application roles, in the order of newEnv
    Goose,          \* goose's own table
    Absent          \* no such relation

Elements(s) == {s[i] : i \in DOMAIN s}
Roles == Elements(RoleOrder)
Cases == Elements(Order)

ASSUME SuiteAssumption ==
    /\ HeadVersion \in Nat \ {0}
    /\ Order \in Seq(Names) /\ Order # <<>>
    /\ CaseKind \in [Cases -> {"ordinary", "appendOnly", "noDelete"}]
    /\ Parents \in [Cases -> SUBSET Cases]
    /\ RoleOrder # <<>> /\ RoleOrder \in Seq(Roles)
    /\ Goose \in Names
    /\ Starts \subseteq [short: BOOLEAN, skip: BOOLEAN, ci: BOOLEAN]
    /\ \A w \in Worlds["ab"] \cup Worlds["walk"] :
         /\ w.schema \in [Names -> Tables \cup {Absent}]
         /\ w.down \in [0..(HeadVersion - 1) -> [Names -> Tables \cup {Absent}]]
         /\ w.declaration \in Classification
         /\ w.roles \in [Roles -> RoleCapabilities]

\* "Declaration order is execution order, and it is load-bearing": a case comes
\* once, and after the cases of the tables whose rows its fixture seeds.
ASSUME OrderAssumption ==
    \A i \in DOMAIN Order :
        /\ \A j \in DOMAIN Order : Order[i] = Order[j] => i = j
        /\ \A p \in Parents[Order[i]] : \E j \in 1..(i - 1) : Order[j] = p

\* What the tests of the declaration fix before any catalog is read: goose's is
\* the only infrastructure, and no table goes without a policy for good.
ASSUME DeclarationAssumption ==
    /\ \A w \in Worlds["ab"] :
         Listed(w.declaration.infrastructure) \ {Goose} \subseteq ModelTables(w.declaration)
    /\ \A w \in Worlds["walk"] :
         /\ Listed(w.declaration.infrastructure) \subseteq {Goose}
         /\ w.declaration.noPolicy = {}

VARIABLES
    world,      \* schema, down, declaration and roles: fixed for a run
    test,       \* "ab" on the shared environment, "walk" on one of its own
    asked,      \* how the suite was started: -short, the escape hatch, CI
    pc,
    closers,    \* what newEnv has opened, in order
    version,    \* recorded by goose
    passwords,  \* roles whose password is set
    guarded,    \* how many of RoleOrder have a guarded pool
    rows,       \* committed rows
    case,       \* the A/B case that runs
    aborted,    \* a refused statement has aborted the probes' transaction
    verdict     \* "none", "skipped", "setup" (it could not run), "red", "green"

vars == <<world, test, asked, pc, closers, version, passwords, guarded, rows, case,
          aborted, verdict>>
fixed == <<world, test, asked>>
setup == <<closers, version, passwords, guarded>>
probes == <<rows, case, aborted>>

Steps == {"start", "container", "pool", "up", "passwords", "roles", "catalog", "fixture",
          "seed", "read", "update", "delete", "wipe", "forge", "reread", "down", "summit",
          "cleanup", "done"}

Row == [table: Cases, shelter: {"A", "B"}, by: {"fixture", "case", "forger"}]

SuiteTypeOK ==
    /\ test \in {"ab", "walk"}
    /\ world \in Worlds[test]
    /\ asked \in Starts
    /\ pc \in Steps
    /\ closers \in Seq({"container", "owner"} \cup Roles)
    /\ version \in 0..HeadVersion
    /\ passwords \subseteq Roles
    /\ guarded \in 0..Len(RoleOrder)
    /\ rows \subseteq Row
    /\ case \in 1..Len(Order)
    /\ aborted \in BOOLEAN
    /\ verdict \in {"none", "skipped", "setup", "red", "green"}

Init ==
    /\ test \in {"ab", "walk"}
    /\ world \in Worlds[test]
    /\ asked \in Starts
    /\ pc = "start" /\ verdict = "none"
    /\ closers = <<>> /\ version = 0 /\ passwords = {} /\ guarded = 0
    /\ rows = {} /\ case = 1 /\ aborted = FALSE

Go(step) == pc' = step /\ UNCHANGED verdict

\* A test that fails or passes; an environment of its own is then torn down,
\* the shared one is left to the end of the process.
End(v) ==
    /\ verdict' = v
    /\ pc' = IF test = "walk" THEN "cleanup" ELSE "done"

-----------------------------------------------------------------------------
(* The environment.                                                        *)

SkipReason == asked.short \/ asked.skip

\* The whole build fails when the escape hatch is set in CI.
GuardEscapeHatch == ~(asked.skip /\ asked.ci)

Start ==
    /\ pc = "start"
    /\ IF SkipReason THEN End("skipped") ELSE Go("container")
    /\ UNCHANGED <<fixed, setup, probes>>

\* Run may return an error and a partly started container.
StartContainer ==
    /\ pc = "container"
    /\ \/ closers' = <<"container">> /\ (Go("pool") \/ End("setup"))
       \/ closers' = closers /\ End("setup")
    /\ UNCHANGED <<fixed, version, passwords, guarded, probes>>

OpenOwnerPool ==
    /\ pc = "pool"
    /\ closers' = Append(closers, "owner")
    /\ Go("up")
    /\ UNCHANGED <<fixed, version, passwords, guarded, probes>>

\* Each migration is a transaction of its own, its row in goose's table included.
Up ==
    /\ pc = "up" /\ version < HeadVersion
    /\ version' = version + 1
    /\ UNCHANGED <<fixed, pc, verdict, closers, passwords, guarded, probes>>

UpToDate ==
    /\ pc = "up" /\ version = HeadVersion
    /\ Go(IF passwords = {} THEN "passwords" ELSE "summit")
    /\ UNCHANGED <<fixed, setup, probes>>

\* In the order of a Go map, which is none.
SetRolePassword(r) ==
    /\ pc = "passwords"
    /\ r \notin passwords
    /\ passwords' = passwords \cup {r}
    /\ Go(IF passwords' = Roles THEN "roles" ELSE "passwords")
    /\ UNCHANGED <<fixed, closers, version, guarded, probes>>

\* The pool is registered before its role is guarded.
GuardRole ==
    LET r == RoleOrder[guarded + 1] IN
    /\ pc = "roles"
    /\ r \in passwords
    /\ closers' = Append(closers, r)
    /\ IF CheckRoleCannotBypassRLS(world.roles[r])
       THEN /\ guarded' = guarded + 1
            /\ Go(IF guarded' < Len(RoleOrder) THEN "roles"
                  ELSE IF test = "ab" THEN "catalog" ELSE "down")
       ELSE UNCHANGED guarded /\ End("red")
    /\ UNCHANGED <<fixed, version, passwords, probes>>

\* A step of newEnv, or goose on the way down and up again, returns an error.
SetupFails ==
    /\ pc \in {"pool", "up", "passwords", "roles", "down"}
    /\ End("setup")
    /\ UNCHANGED <<fixed, setup, probes>>

\* Mutant: the closers run in the order they were registered.
CleanupForwards ==
    /\ pc = "cleanup"
    /\ IF closers = <<>> THEN Go("done") ELSE Go("cleanup")
    /\ closers' = IF closers = <<>> THEN closers ELSE Tail(closers)
    /\ UNCHANGED <<fixed, version, passwords, guarded, probes>>

Cleanup ==
    /\ pc = "cleanup"
    /\ IF closers = <<>> THEN Go("done") ELSE Go("cleanup")
    /\ closers' = IF closers = <<>> THEN closers ELSE SubSeq(closers, 1, Len(closers) - 1)
    /\ UNCHANGED <<fixed, version, passwords, guarded, probes>>

-----------------------------------------------------------------------------
(* The catalog, at the head and at every version of the way down.          *)

At(v) == IF v = HeadVersion THEN world.schema ELSE world.down[v]
Existing(v) == {n \in Names : At(v)[n] # Absent}

\* The tests of the declaration, of the schema at the head, and of the list of
\* A/B cases.
MetaTest ==
    LET c == world.declaration IN
    /\ Validate(c)
    /\ ClassifyAll(c, Existing(HeadVersion))
    /\ CheckPending(c, Existing(HeadVersion))
    /\ \A n \in Existing(HeadVersion) : CheckProtection(c, n, At(HeadVersion)[n])
    /\ Listed(c.tenant) = Cases

Catalog ==
    /\ pc = "catalog"
    /\ IF MetaTest THEN Go("fixture") ELSE End("red")
    /\ UNCHANGED <<fixed, setup, probes>>

\* An exemption that covers a version at which the policy exists is refused.
Inspect(v) ==
    LET c == world.declaration IN
    /\ ClassifyAll(c, Existing(v))
    /\ \A n \in Existing(v) :
        /\ CheckProtectionAt(c, n, At(v)[n], v)
        /\ (c.policyLandsAt[n] # NoVersion /\ v < c.policyLandsAt[n])
             => At(v)[n].policies = {}

\* Mutant: down-to 0 in a single hop.
DownInOneHop ==
    /\ pc = "down"
    /\ version' = 0
    /\ IF Inspect(0) THEN Go("up") ELSE End("red")
    /\ UNCHANGED <<fixed, closers, passwords, guarded, probes>>

\* One migration down, and the schema it leaves is inspected.
StepDown ==
    /\ pc = "down"
    /\ version' = version - 1
    /\ IF Inspect(version') THEN Go(IF version' = 0 THEN "up" ELSE "down") ELSE End("red")
    /\ UNCHANGED <<fixed, closers, passwords, guarded, probes>>

Summit ==
    /\ pc = "summit"
    /\ End(IF Inspect(version) THEN "green" ELSE "red")
    /\ UNCHANGED <<fixed, setup, probes>>

-----------------------------------------------------------------------------
(* The A/B cases: every statement runs as app_tenant, A's row first.  The  *)
(* run ends at the first red case: those after it cannot turn it green.    *)

Name == Order[case]
Table == world.schema[Name]
Tenant == world.roles[RoleOrder[1]]
Key == [table |-> Name, shelter |-> "A", by |-> "case"]

AppendOnly == CaseKind[Name] = "appendOnly"
DeleteIsRefused == CaseKind[Name] \in {"appendOnly", "noDelete"}

\* The rows a statement in the scope of shelter s reaches.
Reached(s, command, reads) == {x \in rows :
    /\ x.table = Name
    /\ (IF x.shelter = s THEN "own" ELSE "other") \in Reach(Tenant, Table, command, reads)}

\* ON DELETE RESTRICT: one of them is the parent of a row that stays.
Restricted(deleted) == \E x \in deleted, y \in rows \ deleted :
    x.by = "fixture" /\ x.shelter = y.shelter /\ x.table \in Parents[y.table]

\* The owner creates the parents, of both shelters.
Fixture ==
    /\ pc = "fixture"
    /\ rows' = rows \cup [table: Parents[Name], shelter: {"A", "B"}, by: {"fixture"}]
    /\ Go("seed")
    /\ UNCHANGED <<fixed, setup, case, aborted>>

\* An INSERT into a table that is not there is refused as well.
Seed ==
    /\ pc = "seed"
    /\ IF Table # Absent /\ "own" \in Stamp(Tenant, Table)
       THEN rows' = rows \cup {Key} /\ Go("read")
       ELSE UNCHANGED rows /\ End("red")
    /\ UNCHANGED <<fixed, setup, case, aborted>>

CheckBlind ==
    /\ pc = "read"
    /\ IF Key \in Reached("B", "SELECT", TRUE) THEN End("red") ELSE Go("update")
    /\ UNCHANGED <<fixed, setup, probes>>

\* Mutant: the refused probe runs without a savepoint.
ProbeBare(command, refused, next) ==
    /\ IF refused
       THEN IF command \notin Table.granted /\ ~aborted THEN Go(next) ELSE End("red")
       ELSE IF command \in Table.granted /\ ~aborted /\ Key \notin Reached("B", command, TRUE)
            THEN Go(next) ELSE End("red")
    /\ aborted' = (aborted \/ command \notin Table.granted)
    /\ UNCHANGED <<fixed, setup, rows, case>>

\* One write that must not touch A's row: refused for want of the grant, inside
\* a savepoint, where the case claims that, and else run without effect.
ProbeWrite(command, refused, next) ==
    /\ IF refused
       THEN /\ IF command \notin Table.granted /\ ~aborted THEN Go(next) ELSE End("red")
            /\ UNCHANGED aborted
       ELSE /\ IF command \in Table.granted /\ ~aborted
                    /\ Key \notin Reached("B", command, TRUE)
               THEN Go(next) ELSE End("red")
            /\ aborted' = (aborted \/ command \notin Table.granted)
    /\ UNCHANGED <<fixed, setup, rows, case>>

ProbeUpdate == pc = "update" /\ ProbeWrite("UPDATE", AppendOnly, "delete")
ProbeDelete == pc = "delete" /\ ProbeWrite("DELETE", DeleteIsRefused, "wipe")

\* Whether the DELETE without a WHERE does what the case claims.
WipeIsHarmless ==
    LET visible == Reached("B", "SELECT", TRUE)
        deleted == Reached("B", "DELETE", FALSE)
    IN IF DeleteIsRefused THEN "DELETE" \notin Table.granted
       ELSE /\ "DELETE" \in Table.granted
            /\ ~Restricted(deleted)
            /\ Cardinality(deleted) = Cardinality(visible)

\* Mutant: the probe's transaction commits.
WipeAndCommit ==
    /\ pc = "wipe"
    /\ IF WipeIsHarmless THEN Go("forge") ELSE End("red")
    /\ rows' = IF "DELETE" \in Table.granted /\ ~Restricted(Reached("B", "DELETE", FALSE))
               THEN rows \ Reached("B", "DELETE", FALSE) ELSE rows
    /\ UNCHANGED <<fixed, setup, case, aborted>>

\* Mutant: the wipe names A's row in a WHERE, like the probe before it.
WipeQualified ==
    /\ pc = "wipe"
    /\ IF DeleteIsRefused \/ Key \notin Reached("B", "DELETE", TRUE)
       THEN Go("forge") ELSE End("red")
    /\ UNCHANGED <<fixed, setup, probes>>

\* The only probe that reaches a DELETE policy; it is rolled back.
CheckWipe ==
    /\ pc = "wipe"
    /\ IF WipeIsHarmless THEN Go("forge") ELSE End("red")
    /\ UNCHANGED <<fixed, setup, probes>>

\* B signs a row with A's name; one that is accepted is committed.
CheckForge ==
    /\ pc = "forge"
    /\ IF "other" \in Stamp(Tenant, Table)
       THEN rows' = rows \cup {[Key EXCEPT !.by = "forger"]} /\ End("red")
       ELSE UNCHANGED rows /\ Go("reread")
    /\ UNCHANGED <<fixed, setup, case, aborted>>

\* A still sees its row; then the next case, in a transaction of its own.
CheckReread ==
    /\ pc = "reread"
    /\ IF Key \notin Reached("A", "SELECT", TRUE) THEN End("red") /\ UNCHANGED case
       ELSE IF case = Len(Order) THEN End("green") /\ UNCHANGED case
       ELSE case' = case + 1 /\ Go("fixture")
    /\ aborted' = FALSE
    /\ UNCHANGED <<fixed, setup, rows>>

-----------------------------------------------------------------------------

Next ==
    \/ Start \/ StartContainer \/ OpenOwnerPool \/ Up \/ UpToDate
    \/ \E r \in Roles : SetRolePassword(r)
    \/ GuardRole \/ SetupFails \/ Cleanup
    \/ Catalog \/ StepDown \/ Summit
    \/ Fixture \/ Seed \/ CheckBlind \/ ProbeUpdate \/ ProbeDelete
    \/ CheckWipe \/ CheckForge \/ CheckReread

Spec == Init /\ [][Next]_vars

-----------------------------------------------------------------------------
(* Properties.                                                             *)

\* A role that no check found able to pass over the policies of a table.
Bound(n) == \A r \in Roles : ~Bypasses(world.roles[r], world.schema[n])

\* What no statement of a tenant may do to another's rows, and that it keeps
\* its own.
Isolated(n) ==
    LET t == world.schema[n] IN
    /\ "other" \notin Reach(Tenant, t, "SELECT", TRUE)
    /\ "DELETE" \in t.granted => "other" \notin Reach(Tenant, t, "DELETE", FALSE)
    /\ "other" \notin Stamp(Tenant, t)
    /\ "own" \in Reach(Tenant, t, "SELECT", TRUE)
    /\ CaseKind[n] = "appendOnly" => t.granted = {}
    /\ CaseKind[n] = "noDelete" => "DELETE" \notin t.granted

\* A build that CI takes for green has proved that no shelter reads, deletes or
\* forges another's rows, that append-only tables are, and that every relation
\* is classified and binds every role: nothing skips it unasked, no probe hides
\* behind another layer (container.go 8-19, tenants.go 165-183, 331-358,
\* catalog.go 303-377, roles.go 58-71).
GreenMeansIsolated ==
    (test = "ab" /\ asked.ci /\ ~asked.short
        /\ (verdict = "green" \/ (verdict = "skipped" /\ GuardEscapeHatch))) =>
    /\ \A n \in Cases : Isolated(n) /\ Bound(n)
    /\ \A n \in Existing(HeadVersion) \ {Goose} :
         Bound(n) /\ n \in ModelTables(world.declaration)

\* What a correct schema, declaration and rollback look like.
Sound ==
    LET c == world.declaration IN
    /\ \A r \in Roles : CheckRoleCannotBypassRLS(world.roles[r])
    /\ Validate(c) /\ c.pending = {} /\ c.noPolicy = {}
    /\ Listed(c.tenant) = Cases /\ Goose \in Listed(c.infrastructure)
    /\ Existing(HeadVersion) = ModelTables(c) \cup {Goose}
    /\ \A v \in 0..HeadVersion, n \in ModelTables(c) : n \in Existing(v) =>
         /\ At(v)[n].enabled /\ At(v)[n].forced
         /\ (At(v)[n].policies = {}) <=>
              (c.policyLandsAt[n] # NoVersion /\ v < c.policyLandsAt[n])
    /\ \A v \in 0..HeadVersion : Existing(v) \subseteq ModelTables(c) \cup {Goose}
    /\ \A n \in Cases : LET t == world.schema[n] IN
         /\ Isolated(n)
         /\ t.granted = CASE CaseKind[n] = "ordinary" -> {"UPDATE", "DELETE"}
                          [] CaseKind[n] = "noDelete" -> {"UPDATE"}
                          [] OTHER -> {}
         /\ "DELETE" \in t.granted => Using(t, "DELETE") = {"own"}
         /\ "own" \in WithCheck(t)

\* On a correct schema the suite never reports one that is broken: not because
\* an earlier case left rows that block a later probe, nor because a refusal
\* has aborted the transaction of the next (isolation_test.go 82-112,
\* tenants.go 273-286).
NoFalseAlarm == verdict = "red" => ~Sound

\* After a green walk, a rollback that stops at any version leaves every table
\* there under forced row security, and without a policy only where none has
\* landed yet (migrate_roundtrip_test.go 89-111, 240-247; catalog.go 119-146).
WalkMeansGuarded == (test = "walk" /\ verdict = "green") =>
    \A v \in 0..HeadVersion, n \in Names \ {Goose} : At(v)[n] # Absent =>
        /\ At(v)[n].enabled /\ At(v)[n].forced
        /\ At(v)[n].policies = {} =>
             \A w \in 0..v : At(w)[n] = Absent \/ At(w)[n].policies = {}

\* Nothing the suite does removes a committed row: the probe that shows data
\* can be destroyed does not destroy it (tenants.go 342-343).
ProbesLeaveNothing == [][rows \subseteq rows']_vars

\* A test that has an environment of its own leaves nothing open, and no pool
\* outlives the container it connects to (container.go 255-261, 270-275).
NothingLeaks ==
    /\ (pc = "done" /\ test = "walk") => closers = <<>>
    /\ closers # <<>> => closers[1] = "container"
=============================================================================
