------------------------- MODULE IsolationSuite_proofs -------------------------
(***************************************************************************)
(* Proofs that the verdict of the isolation suite is right, for any schema *)
(* and rollback, any roles, any list of A/B cases and any declaration that *)
(* its own tests accept.  The invariant says of every step what the checks *)
(* before it have established of the world, which no step changes, and     *)
(* that the row a case probes for is there as long as it is probed.        *)
(***************************************************************************)
EXTENDS IsolationSuite, FiniteSetTheorems, SequenceTheorems, TLAPS

-----------------------------------------------------------------------------
(* The invariant.                                                          *)

CaseSteps == {"fixture", "seed", "read", "update", "delete", "wipe", "forge", "reread"}

\* The roles that have a guarded pool were asked; the environment is built once,
\* and the walk alone comes back to "up".
SetupOK ==
    /\ \A i \in 1..guarded : CheckRoleCannotBypassRLS(world.roles[RoleOrder[i]])
    /\ pc \in {"start", "container", "pool"} => passwords = {}
    /\ pc \in {"start", "container", "pool", "passwords"} => guarded = 0
    /\ pc = "up" /\ passwords = {} => guarded = 0
    /\ pc = "up" /\ passwords # {} => test = "walk" /\ guarded = Len(RoleOrder)
    /\ pc \in {"passwords", "roles"} => version = HeadVersion
    /\ pc = "roles" => guarded < Len(RoleOrder)
    /\ pc \in {"down", "summit"} =>
         test = "walk" /\ passwords # {} /\ guarded = Len(RoleOrder)
    /\ pc \in CaseSteps \cup {"catalog"} => test = "ab" /\ guarded = Len(RoleOrder)
    /\ verdict = "none" <=> pc \notin {"cleanup", "done"}
    /\ verdict = "skipped" => SkipReason
    /\ verdict = "green" => guarded = Len(RoleOrder)

\* The versions above the one the walk has reached have been inspected.
WalkOK ==
    /\ pc = "down" => version \in 1..HeadVersion /\ \A v \in version..(HeadVersion - 1) : Inspect(v)
    /\ pc = "up" /\ passwords # {} => \A v \in 0..(HeadVersion - 1) : Inspect(v)
    /\ pc = "summit" => version = HeadVersion /\ \A v \in 0..(HeadVersion - 1) : Inspect(v)
    /\ verdict = "green" /\ test = "walk" => \A v \in 0..HeadVersion : Inspect(v)

\* A case so far seeds a row of shelter A; fixtures seed both shelters alike, for
\* the cases so far; a forged row ends the run.
RowsOK ==
    /\ \A x \in rows : x.by = "case" => x.shelter = "A" /\ \E j \in 1..case : x.table = Order[j]
    /\ \A x \in rows : x.by = "fixture" =>
         /\ \A s \in {"A", "B"} : [x EXCEPT !.shelter = s] \in rows
         /\ \E j \in 1..case : x.table \in Parents[Order[j]]
    /\ verdict # "red" => \A x \in rows : x.by # "forger"

Sealed(n) == Isolated(n) /\ world.schema[n] # Absent

\* What the probes of the case that runs have found so far, and those before it.
ProbesOK ==
    /\ pc \notin CaseSteps \cup {"cleanup", "done"} => case = 1
    /\ pc \in CaseSteps => MetaTest /\ \A j \in 1..(case - 1) : Sealed(Order[j])
    /\ pc \in CaseSteps \ {"fixture", "seed"} => Key \in rows /\ Table # Absent
    /\ pc \in {"update", "delete", "wipe", "forge", "reread"} =>
         "other" \notin Reach(Tenant, Table, "SELECT", TRUE)
    /\ pc \in {"delete", "wipe", "forge", "reread"} =>
         (AppendOnly => "UPDATE" \notin Table.granted)
    /\ pc \in {"wipe", "forge", "reread"} =>
         (DeleteIsRefused => "DELETE" \notin Table.granted)
    /\ pc \in {"forge", "reread"} =>
         ("DELETE" \in Table.granted => "other" \notin Reach(Tenant, Table, "DELETE", FALSE))
    /\ pc = "reread" => "other" \notin Stamp(Tenant, Table)
    /\ verdict = "green" /\ test = "ab" => MetaTest /\ \A n \in Cases : Sealed(n)

\* The container is opened first and closed last.
ClosersOK ==
    /\ pc \in {"start", "container"} => closers = <<>>
    /\ pc \notin {"start", "container", "cleanup", "done"} => closers # <<>>
    /\ NothingLeaks

IInv == SuiteTypeOK /\ SetupOK /\ WalkOK /\ RowsOK /\ ProbesOK /\ ClosersOK

\* On a sound world nothing has gone wrong.
QuietOK == Sound => ~aborted /\ verdict # "red"

-----------------------------------------------------------------------------
(* The environment.                                                        *)

Setup ==
    \/ Start \/ StartContainer \/ OpenOwnerPool \/ Up \/ UpToDate
    \/ \E r \in Roles : SetRolePassword(r)
    \/ GuardRole \/ SetupFails \/ Cleanup

Inspection == Catalog \/ StepDown \/ Summit

Probing == Fixture \/ Seed \/ CheckBlind \/ ProbeUpdate \/ ProbeDelete
               \/ CheckWipe \/ CheckForge \/ CheckReread

\* The world, the test and how it was started stay what they are, and each part
\* of the suite keeps to its own variables.
LEMMA Parts ==
    ASSUME Next
    PROVE  /\ UNCHANGED fixed
           /\ \/ Setup /\ UNCHANGED probes
              \/ Inspection /\ UNCHANGED <<probes, closers, passwords, guarded>>
              \/ Probing /\ UNCHANGED setup
<1>1. Setup => UNCHANGED fixed /\ UNCHANGED probes
  BY DEF Setup, Start, StartContainer, OpenOwnerPool, Up, UpToDate, SetRolePassword, GuardRole,
         SetupFails, Cleanup, probes
<1>2. Inspection => UNCHANGED fixed /\ UNCHANGED <<probes, closers, passwords, guarded>>
  BY DEF Inspection, Catalog, StepDown, Summit, setup
<1>3. Fixture \/ Seed \/ CheckBlind \/ CheckWipe \/ CheckForge \/ CheckReread
        => UNCHANGED fixed /\ UNCHANGED setup
  BY DEF Fixture, Seed, CheckBlind, CheckWipe, CheckForge, CheckReread
<1>4. ProbeUpdate \/ ProbeDelete => UNCHANGED fixed /\ UNCHANGED setup
  BY DEF ProbeUpdate, ProbeDelete, ProbeWrite
<1> QED  BY <1>1, <1>2, <1>3, <1>4 DEF Next, Setup, Inspection, Probing

\* The roles of newEnv, and the constants that size things.
LEMMA Sizes ==
    /\ Len(RoleOrder) \in Nat \ {0}
    /\ \A i \in 1..Len(RoleOrder) : RoleOrder[i] \in Roles
    /\ Len(Order) \in Nat \ {0}
    /\ \A i \in 1..Len(Order) : Order[i] \in Cases /\ Order[i] \in Names
    /\ Cases \subseteq Names
    /\ \A n \in Cases : \E i \in 1..Len(Order) : n = Order[i]
    /\ \A r \in Roles : \E i \in 1..Len(RoleOrder) : r = RoleOrder[i]
    /\ HeadVersion \in Nat \ {0}
<1>1. RoleOrder \in Seq(Roles) /\ RoleOrder # <<>> /\ Order \in Seq(Names) /\ Order # <<>>
  BY SuiteAssumption
<1>2. DOMAIN RoleOrder = 1..Len(RoleOrder) /\ DOMAIN Order = 1..Len(Order)
  BY <1>1
<1>3. Len(RoleOrder) \in Nat \ {0} /\ Len(Order) \in Nat \ {0}
  BY <1>1, EmptySeq
<1>4. \A i \in 1..Len(Order) : Order[i] \in Names
  BY <1>1
<1>5. Roles = {RoleOrder[i] : i \in 1..Len(RoleOrder)} /\ Cases = {Order[i] : i \in 1..Len(Order)}
  BY <1>2 DEF Roles, Cases, Elements
<1>6. /\ \A i \in 1..Len(Order) : Order[i] \in Cases
      /\ \A i \in 1..Len(RoleOrder) : RoleOrder[i] \in Roles
      /\ \A n \in Cases : \E i \in 1..Len(Order) : n = Order[i]
      /\ \A r \in Roles : \E i \in 1..Len(RoleOrder) : r = RoleOrder[i]
  BY <1>5
<1>7. Cases \subseteq Names
  BY <1>4, <1>6
<1>8. HeadVersion \in Nat \ {0}
  BY SuiteAssumption
<1> QED  BY <1>3, <1>4, <1>6, <1>7, <1>8

\* The types.
LEMMA TypeInit == Init => SuiteTypeOK
<1> SUFFICES ASSUME Init PROVE SuiteTypeOK
  OBVIOUS
<1>1. closers \in Seq({"container", "owner"} \cup Roles)
  BY EmptySeq DEF Init
<1>2. guarded \in 0..Len(RoleOrder) /\ version \in 0..HeadVersion /\ case \in 1..Len(Order)
  BY Sizes DEF Init
<1>3. aborted \in BOOLEAN /\ pc \in Steps /\ verdict \in {"none", "skipped", "setup", "red", "green"}
  BY DEF Init, Steps
<1>4. rows \subseteq Row /\ passwords \subseteq Roles
  BY DEF Init
<1>5. test \in {"ab", "walk"} /\ world \in Worlds[test] /\ asked \in Starts
  BY DEF Init
<1> QED  BY <1>1, <1>2, <1>3, <1>4, <1>5 DEF SuiteTypeOK

\* Every action keeps the types.
LEMMA TypeNext ==
    ASSUME IInv, Next
    PROVE  SuiteTypeOK'
<1>0. SuiteTypeOK /\ UNCHANGED fixed
  BY Parts DEF IInv
<1>1. ASSUME Setup, UNCHANGED probes PROVE SuiteTypeOK'
  <2> USE <1>0, <1>1 DEF SuiteTypeOK, fixed, probes, Go, End, Steps
  <2>1. CASE Start \/ UpToDate \/ SetupFails
    BY <2>1 DEF Start, UpToDate, SetupFails, setup
  <2>2. CASE StartContainer
    <3>1. <<"container">> \in Seq({"container", "owner"} \cup Roles)
      OBVIOUS
    <3> QED  BY <2>2, <3>1 DEF StartContainer
  <2>3. CASE OpenOwnerPool
    BY <2>3, AppendProperties DEF OpenOwnerPool
  <2>4. CASE Up
    BY <2>4, Sizes DEF Up
  <2>5. ASSUME NEW r \in Roles, SetRolePassword(r) PROVE SuiteTypeOK'
    BY <2>5 DEF SetRolePassword
  <2>6. CASE GuardRole
    <3>1. guarded \in Nat /\ guarded < Len(RoleOrder) /\ RoleOrder[guarded + 1] \in Roles
      BY <2>6, Sizes DEF IInv, SetupOK, GuardRole
    <3>2. closers' \in Seq({"container", "owner"} \cup Roles)
      BY <2>6, <3>1, AppendProperties DEF GuardRole
    <3>3. guarded' \in 0..Len(RoleOrder)
      BY <2>6, <3>1, Sizes DEF GuardRole
    <3> QED  BY <2>6, <3>2, <3>3 DEF GuardRole
  <2>7. CASE Cleanup
    <3>1. ASSUME closers # <<>>
          PROVE  SubSeq(closers, 1, Len(closers) - 1) \in Seq({"container", "owner"} \cup Roles)
      BY <3>1, EmptySeq, SubSeqProperties
    <3> QED  BY <2>7, <3>1 DEF Cleanup
  <2> QED  BY <2>1, <2>2, <2>3, <2>4, <2>5, <2>6, <2>7 DEF Setup
<1>2. ASSUME Inspection, UNCHANGED <<probes, closers, passwords, guarded>> PROVE SuiteTypeOK'
  <2>1. pc' \in Steps /\ verdict' \in {"none", "skipped", "setup", "red", "green"}
    BY <1>0, <1>2 DEF Inspection, Catalog, StepDown, Summit, SuiteTypeOK, Go, End, Steps
  <2>2. version' \in 0..HeadVersion
    BY <1>0, <1>2, Sizes DEF Inspection, Catalog, StepDown, Summit, SuiteTypeOK, setup, IInv, WalkOK
  <2> QED  BY <1>0, <1>2, <2>1, <2>2 DEF SuiteTypeOK, fixed, probes
<1>3. ASSUME Probing, UNCHANGED setup PROVE SuiteTypeOK'
  <2>1. Name \in Cases /\ Key \in Row /\ [Key EXCEPT !.by = "forger"] \in Row
    BY <1>0, Sizes DEF SuiteTypeOK, Name, Key, Row
  <2>2. [table: Parents[Name], shelter: {"A", "B"}, by: {"fixture"}] \subseteq Row
    BY <2>1, SuiteAssumption DEF Row
  <2>3. rows' \subseteq Row
    BY <1>0, <1>3, <2>1, <2>2
       DEF Probing, Fixture, Seed, CheckBlind, ProbeUpdate, ProbeDelete, ProbeWrite, CheckWipe,
           CheckForge, CheckReread, SuiteTypeOK, probes
  <2>4. case' \in 1..Len(Order) /\ aborted' \in BOOLEAN
    <3>1. CASE CheckReread
      <4>1. aborted' \in BOOLEAN
        BY <3>1 DEF CheckReread
      <4>2. case' = case \/ (case # Len(Order) /\ case' = case + 1)
        BY <3>1 DEF CheckReread
      <4>3. case' \in 1..Len(Order)
        BY <1>0, <4>2, Sizes DEF SuiteTypeOK
      <4> QED  BY <4>1, <4>3
    <3>2. CASE ProbeUpdate
      <4>1. case' = case /\ (aborted' = aborted \/ aborted' = (aborted \/ "UPDATE" \notin Table.granted))
        BY <3>2 DEF ProbeUpdate, ProbeWrite
      <4> QED  BY <1>0, <4>1 DEF SuiteTypeOK
    <3>3. CASE ProbeDelete
      <4>1. case' = case /\ (aborted' = aborted \/ aborted' = (aborted \/ "DELETE" \notin Table.granted))
        BY <3>3 DEF ProbeDelete, ProbeWrite
      <4> QED  BY <1>0, <4>1 DEF SuiteTypeOK
    <3>4. CASE Fixture \/ Seed \/ CheckForge
      BY <1>0, <3>4 DEF Fixture, Seed, CheckForge, SuiteTypeOK
    <3>5. CASE CheckBlind \/ CheckWipe
      BY <1>0, <3>5 DEF CheckBlind, CheckWipe, probes, SuiteTypeOK
    <3> QED  BY <1>3, <3>1, <3>2, <3>3, <3>4, <3>5 DEF Probing
  <2>5. pc' \in Steps /\ verdict' \in {"none", "skipped", "setup", "red", "green"}
    <3>1. CASE ProbeUpdate
      BY <1>0, <3>1 DEF ProbeUpdate, ProbeWrite, SuiteTypeOK, Go, End, Steps
    <3>2. CASE ProbeDelete
      BY <1>0, <3>2 DEF ProbeDelete, ProbeWrite, SuiteTypeOK, Go, End, Steps
    <3>3. CASE Fixture \/ Seed \/ CheckBlind
      BY <1>0, <3>3 DEF Fixture, Seed, CheckBlind, SuiteTypeOK, Go, End, Steps
    <3>4. CASE CheckWipe \/ CheckForge \/ CheckReread
      BY <1>0, <3>4 DEF CheckWipe, CheckForge, CheckReread, SuiteTypeOK, Go, End, Steps
    <3> QED  BY <1>3, <3>1, <3>2, <3>3, <3>4 DEF Probing
  <2> QED  BY <1>0, <1>3, <2>3, <2>4, <2>5 DEF SuiteTypeOK, fixed, setup
<1> QED  BY <1>1, <1>2, <1>3, Parts

LEMMA InitIInv == Init => IInv
<1> SUFFICES ASSUME Init PROVE IInv
  OBVIOUS
<1>1. SetupOK
  BY Sizes DEF Init, SetupOK, CaseSteps
<1>2. WalkOK
  BY DEF Init, WalkOK
<1>3. RowsOK
  BY DEF Init, RowsOK
<1>4. ProbesOK
  BY DEF Init, ProbesOK, CaseSteps
<1>5. ClosersOK
  BY DEF Init, ClosersOK, NothingLeaks
<1> QED  BY <1>1, <1>2, <1>3, <1>4, <1>5, TypeInit DEF IInv

\* A case goes from step to step, or ends the test.
LEMMA ProbingGoes ==
    ASSUME SetupOK, Probing
    PROVE  /\ test = "ab" /\ pc \in CaseSteps /\ verdict = "none"
           /\ \/ pc' \in CaseSteps /\ verdict' = "none"
              \/ pc' \in {"cleanup", "done"} /\ verdict' \in {"red", "green"}
<1> USE DEF SetupOK, Go, End, CaseSteps
<1>1. CASE Fixture \/ Seed \/ CheckBlind
  BY <1>1 DEF Fixture, Seed, CheckBlind
<1>2. CASE ProbeUpdate
  BY <1>2 DEF ProbeUpdate, ProbeWrite
<1>3. CASE ProbeDelete
  BY <1>3 DEF ProbeDelete, ProbeWrite
<1>4. CASE CheckWipe \/ CheckForge \/ CheckReread
  BY <1>4 DEF CheckWipe, CheckForge, CheckReread
<1> QED  BY <1>1, <1>2, <1>3, <1>4 DEF Probing

\* What SetupOK says of one step to the next.
LEMMA SetupNext ==
    ASSUME IInv, Next
    PROVE  SetupOK'
<1>0. SuiteTypeOK /\ SetupOK /\ UNCHANGED <<world, test, asked>>
  BY Parts DEF IInv, fixed
<1>1. CASE Setup /\ UNCHANGED probes
  <2> USE <1>0 DEF Go, End, SetupOK, CaseSteps, fixed, setup, probes
  <2>1. CASE Start
    BY <2>1 DEF Start, SkipReason
  <2>2. CASE StartContainer
    BY <2>2 DEF StartContainer, SkipReason
  <2>3. CASE OpenOwnerPool
    BY <2>3 DEF OpenOwnerPool, SkipReason
  <2>4. CASE Up
    BY <2>4 DEF Up, SkipReason
  <2>5. CASE UpToDate
    BY <2>5 DEF UpToDate, SkipReason
  <2>6. CASE \E r \in Roles : SetRolePassword(r)
    <3>1. 0 < Len(RoleOrder)
      BY Sizes
    <3>2. /\ pc = "passwords" /\ UNCHANGED <<verdict, version, guarded>>
          /\ pc' \in {"passwords", "roles"}
      BY <2>6 DEF SetRolePassword
    <3> QED  BY <3>1, <3>2 DEF SkipReason
  <2>7. CASE GuardRole
    <3>1. guarded \in Nat /\ guarded < Len(RoleOrder) /\ Len(RoleOrder) \in Nat
      BY <2>7, Sizes DEF GuardRole, SuiteTypeOK
    <3>2. \A i \in 1..guarded' : CheckRoleCannotBypassRLS(world.roles[RoleOrder[i]])
      <4>1. guarded' = guarded \/ (guarded' = guarded + 1
               /\ CheckRoleCannotBypassRLS(world.roles[RoleOrder[guarded + 1]]))
        BY <2>7 DEF GuardRole
      <4> QED  BY <3>1, <4>1
    <3>3. passwords' # {} /\ test \in {"ab", "walk"}
      BY <2>7 DEF GuardRole, SuiteTypeOK
    <3>4. guarded' \in Nat /\ guarded' <= Len(RoleOrder)
      BY <2>7, <3>1 DEF GuardRole
    <3> QED  BY <2>7, <3>1, <3>2, <3>3, <3>4 DEF GuardRole, SkipReason
  <2>8. CASE SetupFails
    BY <2>8 DEF SetupFails, SkipReason
  <2>9. CASE Cleanup
    BY <2>9 DEF Cleanup, SkipReason
  <2> QED  BY <1>1, <2>1, <2>2, <2>3, <2>4, <2>5, <2>6, <2>7, <2>8, <2>9 DEF Setup
<1>2. CASE Inspection /\ UNCHANGED <<probes, closers, passwords, guarded>>
  <2> USE <1>0, <1>2 DEF Go, End, SetupOK, CaseSteps, SkipReason
  <2>1. CASE Catalog
    BY <2>1 DEF Catalog
  <2>2. CASE StepDown
    BY <2>2 DEF StepDown
  <2>3. CASE Summit
    BY <2>3 DEF Summit
  <2> QED  BY <1>2, <2>1, <2>2, <2>3 DEF Inspection
<1>3. CASE Probing /\ UNCHANGED setup
  <2>1. UNCHANGED <<world, test, asked, passwords, guarded, version>>
    BY <1>0, <1>3 DEF setup
  <2> QED  BY <1>0, <1>3, <2>1, ProbingGoes DEF SetupOK, CaseSteps, SkipReason
<1> QED  BY <1>1, <1>2, <1>3, Parts

\* What WalkOK says: the walk inspects each version it reaches.
LEMMA WalkNext ==
    ASSUME IInv, Next
    PROVE  WalkOK'
<1>0. SuiteTypeOK /\ SetupOK /\ WalkOK /\ UNCHANGED <<world, test, asked>>
  BY Parts DEF IInv, fixed
<1>1. ASSUME NEW v PROVE Inspect(v)' <=> Inspect(v)
  BY <1>0 DEF Inspect, At, Existing
<1>2. CASE Setup /\ UNCHANGED probes
  <2> USE <1>0, <1>1 DEF Go, End, SetupOK, WalkOK, CaseSteps, setup
  <2>1. CASE Start \/ StartContainer
    BY <2>1 DEF Start, StartContainer
  <2>2. CASE OpenOwnerPool
    BY <2>2 DEF OpenOwnerPool
  <2>3. CASE Up
    BY <2>3 DEF Up
  <2>4. CASE UpToDate
    BY <2>4 DEF UpToDate
  <2>5. CASE \E r \in Roles : SetRolePassword(r)
    BY <2>5 DEF SetRolePassword
  <2>6. CASE GuardRole
    <3>1. version = HeadVersion /\ HeadVersion \in Nat \ {0} /\ UNCHANGED version
      BY <2>6, Sizes DEF GuardRole
    <3>2. pc' \in {"roles", "catalog", "down", "cleanup", "done"} /\ verdict' # "green"
      BY <2>6 DEF GuardRole
    <3> QED  BY <3>1, <3>2
  <2>7. CASE SetupFails \/ Cleanup
    BY <2>7 DEF SetupFails, Cleanup
  <2> QED  BY <1>2, <2>1, <2>2, <2>3, <2>4, <2>5, <2>6, <2>7 DEF Setup
<1>3. CASE Inspection /\ UNCHANGED <<probes, closers, passwords, guarded>>
  <2>1. CASE Catalog
    BY <1>0, <1>1, <2>1 DEF Catalog, Go, End, SetupOK, WalkOK, CaseSteps, setup
  <2>2. CASE StepDown
    <3>1. version \in 1..HeadVersion /\ version' = version - 1
      BY <1>0, <2>2 DEF StepDown, WalkOK
    <3>2. \A v \in version..(HeadVersion - 1) : Inspect(v)
      BY <1>0, <2>2 DEF StepDown, WalkOK
    <3>3. HeadVersion \in Nat
      BY Sizes
    <3>4. CASE ~Inspect(version')
      BY <1>0, <2>2, <3>4 DEF StepDown, End, WalkOK
    <3>5. CASE Inspect(version')
      <4>1. \A v \in version'..(HeadVersion - 1) : Inspect(v)
        <5> TAKE v \in version'..(HeadVersion - 1)
        <5>1. v = version' \/ v \in version..(HeadVersion - 1)
          BY <3>1, <3>3
        <5> QED  BY <3>2, <3>5, <5>1
      <4>2. /\ pc' = IF version' = 0 THEN "up" ELSE "down"
            /\ UNCHANGED verdict
        BY <2>2, <3>5 DEF StepDown, Go
      <4>3. version' # 0 => version' \in 1..HeadVersion
        BY <3>1, <3>3
      <4>4. verdict # "green"
        BY <1>0, <2>2 DEF StepDown, SetupOK
      <4> QED  BY <1>1, <4>1, <4>2, <4>3, <4>4 DEF WalkOK
    <3> QED  BY <3>4, <3>5
  <2>3. CASE Summit
    <3>1. /\ version = HeadVersion /\ \A v \in 0..(HeadVersion - 1) : Inspect(v)
          /\ verdict' = "green" => Inspect(HeadVersion)
          /\ pc' \in {"cleanup", "done"}
      BY <1>0, <2>3 DEF Summit, WalkOK, End
    <3>2. ASSUME verdict' = "green", NEW v \in 0..HeadVersion PROVE Inspect(v)
      <4>1. v = HeadVersion \/ v \in 0..(HeadVersion - 1)
        BY Sizes
      <4> QED  BY <3>1, <3>2, <4>1
    <3> QED  BY <1>1, <3>1, <3>2 DEF WalkOK
  <2> QED  BY <1>3, <2>1, <2>2, <2>3 DEF Inspection
<1>4. CASE Probing /\ UNCHANGED setup
  BY <1>0, <1>4, ProbingGoes DEF WalkOK, CaseSteps
<1> QED  BY <1>2, <1>3, <1>4, Parts

\* The rows a step adds: the fixtures of both shelters, the row of shelter A, or
\* the forged one that makes the test red.
LEMMA RowsGrow ==
    ASSUME SuiteTypeOK, Next
    PROVE  \/ rows' = rows
           \/ Fixture /\ rows' = rows \cup [table: Parents[Name], shelter: {"A", "B"}, by: {"fixture"}]
           \/ Seed /\ rows' = rows \cup {Key}
           \/ CheckForge /\ verdict' = "red" /\ rows' = rows \cup {[Key EXCEPT !.by = "forger"]}
<1>1. CASE UNCHANGED probes
  BY <1>1 DEF probes
<1>2. CASE Fixture
  BY <1>2 DEF Fixture
<1>3. CASE Seed
  BY <1>3 DEF Seed
<1>4. CASE CheckForge
  BY <1>4 DEF CheckForge, End
<1>5. CASE ProbeUpdate
  BY <1>5 DEF ProbeUpdate, ProbeWrite
<1>6. CASE ProbeDelete
  BY <1>6 DEF ProbeDelete, ProbeWrite
<1>7. CASE CheckBlind \/ CheckWipe \/ CheckReread
  BY <1>7 DEF CheckBlind, CheckWipe, CheckReread, probes
<1> QED  BY <1>1, <1>2, <1>3, <1>4, <1>5, <1>6, <1>7, Parts DEF Probing

\* The number of the case only grows.
LEMMA CaseGrows ==
    ASSUME SuiteTypeOK, Next
    PROVE  case' = case \/ (CheckReread /\ case' = case + 1)
<1>1. CASE UNCHANGED probes
  BY <1>1 DEF probes
<1>2. CASE Fixture \/ Seed \/ CheckForge
  BY <1>2 DEF Fixture, Seed, CheckForge
<1>3. CASE ProbeUpdate
  BY <1>3 DEF ProbeUpdate, ProbeWrite
<1>4. CASE ProbeDelete
  BY <1>4 DEF ProbeDelete, ProbeWrite
<1>5. CASE CheckBlind \/ CheckWipe
  BY <1>5 DEF CheckBlind, CheckWipe, probes
<1>6. CASE CheckReread
  BY <1>6 DEF CheckReread
<1> QED  BY <1>1, <1>2, <1>3, <1>4, <1>5, <1>6, Parts DEF Probing

\* What RowsOK says of the rows after a step.
LEMMA RowsNext ==
    ASSUME IInv, Next
    PROVE  RowsOK'
<1>0. SuiteTypeOK /\ SetupOK /\ RowsOK /\ SuiteTypeOK'
  BY TypeNext DEF IInv
<1> DEFINE Pair(x) == \A s \in {"A", "B"} : [x EXCEPT !.shelter = s] \in rows
           Reason(x, n) == \E j \in 1..n : x.table \in Parents[Order[j]]
<1>1. case \in 1..Len(Order) /\ case' \in 1..Len(Order) /\ case <= case'
  <2>1. case \in 1..Len(Order) /\ case' \in 1..Len(Order) /\ Len(Order) \in Nat
    BY <1>0, Sizes DEF SuiteTypeOK
  <2>2. case' = case \/ case' = case + 1
    BY <1>0, CaseGrows
  <2> QED  BY <2>1, <2>2
<1>2. rows \subseteq rows'
  BY <1>0, RowsGrow
<1>3. Name \in Cases /\ Key \in Row
  BY <1>0, Sizes DEF SuiteTypeOK, Name, Key, Row
<1>4. ASSUME NEW x \in rows', x.by = "case"
      PROVE  x.shelter = "A" /\ \E j \in 1..case' : x.table = Order[j]
  <2>1. CASE x \in rows
    <3>1. x.shelter = "A" /\ \E j \in 1..case : x.table = Order[j]
      BY <1>0, <1>4, <2>1 DEF RowsOK
    <3>2. \A j \in 1..case : j \in 1..case'
      BY <1>1, Sizes
    <3> QED  BY <3>1, <3>2
  <2>2. CASE x \notin rows
    <3>1. x = Key
      BY <1>0, <1>3, <1>4, <2>2, RowsGrow DEF Key
    <3>2. case \in 1..case'
      BY <1>1, Sizes
    <3> QED  BY <3>1, <3>2 DEF Key, Name
  <2> QED  BY <2>1, <2>2
<1>5. ASSUME NEW x \in rows', x.by = "fixture"
      PROVE  Reason(x, case') /\ \A s \in {"A", "B"} : [x EXCEPT !.shelter = s] \in rows'
  <2>1. CASE x \in rows
    <3>1. Pair(x) /\ Reason(x, case)
      BY <1>0, <1>5, <2>1 DEF RowsOK
    <3>2. Pair(x) => \A s \in {"A", "B"} : [x EXCEPT !.shelter = s] \in rows'
      BY <1>2
    <3>3. Reason(x, case) => Reason(x, case')
      <4>1. \A j \in 1..case : j \in 1..case'
        BY <1>1, Sizes
      <4> QED  BY <4>1
    <3> QED  BY <3>1, <3>2, <3>3
  <2>2. CASE x \notin rows
    <3>1. rows' = rows \cup [table: Parents[Name], shelter: {"A", "B"}, by: {"fixture"}]
      BY <1>0, <1>3, <1>5, <2>2, RowsGrow DEF Key
    <3>2. x \in [table: Parents[Name], shelter: {"A", "B"}, by: {"fixture"}]
      BY <2>2, <3>1
    <3>3. \A s \in {"A", "B"} :
              [x EXCEPT !.shelter = s]
                 \in [table: Parents[Name], shelter: {"A", "B"}, by: {"fixture"}]
      BY <3>2
    <3>4. x.table \in Parents[Order[case]]
      BY <3>2 DEF Name
    <3>5. case \in 1..case'
      BY <1>1, Sizes
    <3> QED  BY <3>1, <3>3, <3>4, <3>5
  <2> QED  BY <2>1, <2>2
<1>6. ASSUME verdict' # "red", NEW x \in rows' PROVE x.by # "forger"
  <2>1. verdict # "red"
    <3>1. verdict = "red" => ~Probing /\ ~Inspection
      BY <1>0, ProbingGoes DEF SetupOK, Inspection, Catalog, StepDown, Summit
    <3>2. verdict = "red" => pc \in {"cleanup", "done"}
      BY <1>0 DEF SetupOK
    <3>3. verdict = "red" => Cleanup
      BY <3>1, <3>2, Parts
         DEF Setup, Start, StartContainer, OpenOwnerPool, Up, UpToDate, SetRolePassword, GuardRole,
             SetupFails
    <3>4. verdict = "red" => verdict' = "red"
      BY <3>3 DEF Cleanup, Go
    <3> QED  BY <1>6, <3>4
  <2>2. CASE x \in rows
    BY <1>0, <2>1, <2>2 DEF RowsOK
  <2>3. CASE x \notin rows
    BY <1>6, <1>0, <1>3, <2>3, RowsGrow DEF Key
  <2> QED  BY <2>2, <2>3
<1> QED  BY <1>4, <1>5, <1>6 DEF RowsOK

\* What ClosersOK says of one step to the next.
LEMMA ClosersNext ==
    ASSUME IInv, Next
    PROVE  ClosersOK'
<1>0. /\ SuiteTypeOK /\ SetupOK /\ ClosersOK /\ UNCHANGED <<world, test, asked>>
      /\ test \in {"ab", "walk"}
      /\ closers \in Seq({"container", "owner"} \cup Roles)
  BY Parts DEF IInv, fixed, SuiteTypeOK
<1>1. CASE Setup /\ UNCHANGED probes
  <2> USE <1>0 DEF Go, End, ClosersOK, NothingLeaks, setup
  <2>1. CASE Start
    BY <2>1 DEF Start
  <2>2. CASE StartContainer
    <3>1. <<"container">> # <<>> /\ <<"container">>[1] = "container"
      OBVIOUS
    <3> QED  BY <2>2, <3>1 DEF StartContainer
  <2>3. CASE OpenOwnerPool
    <3>1. closers # <<>> /\ closers' = Append(closers, "owner")
      BY <2>3 DEF OpenOwnerPool
    <3>2. closers' # <<>> /\ closers'[1] = closers[1]
      BY <3>1, EmptySeq, AppendProperties
    <3> QED  BY <2>3, <3>1, <3>2 DEF OpenOwnerPool
  <2>4. CASE Up \/ UpToDate \/ SetupFails
    BY <2>4 DEF Up, UpToDate, SetupFails
  <2>5. CASE \E r \in Roles : SetRolePassword(r)
    BY <2>5 DEF SetRolePassword
  <2>6. CASE GuardRole
    <3>1. closers # <<>> /\ closers' = Append(closers, RoleOrder[guarded + 1])
      BY <2>6 DEF GuardRole
    <3>2. guarded + 1 \in 1..Len(RoleOrder)
      BY <2>6, Sizes DEF GuardRole, SetupOK, SuiteTypeOK
    <3>3. closers' # <<>> /\ closers'[1] = closers[1]
      BY <3>1, <3>2, Sizes, EmptySeq, AppendProperties
    <3>4. pc' \in {"roles", "catalog", "down"} \/ (pc' \in {"cleanup", "done"} /\ (pc' = "done" => test # "walk"))
      BY <2>6 DEF GuardRole
    <3> QED  BY <3>1, <3>3, <3>4
  <2>7. CASE Cleanup
    <3>1. CASE closers = <<>>
      BY <2>7, <3>1 DEF Cleanup
    <3>2. CASE closers # <<>>
      <4>1. closers' = SubSeq(closers, 1, Len(closers) - 1) /\ pc' = "cleanup"
        BY <2>7, <3>2 DEF Cleanup
      <4>2. Len(closers) \in Nat \ {0}
        BY <3>2, EmptySeq
      <4>3. closers' # <<>> => closers'[1] = closers[1]
        BY <4>1, <4>2, SubSeqProperties, EmptySeq
      <4> QED  BY <3>2, <4>1, <4>3
    <3> QED  BY <3>1, <3>2
  <2> QED  BY <1>1, <2>1, <2>2, <2>3, <2>4, <2>5, <2>6, <2>7 DEF Setup
<1>2. CASE Inspection /\ UNCHANGED <<probes, closers, passwords, guarded>>
  BY <1>0, <1>2 DEF Inspection, Catalog, StepDown, Summit, Go, End, ClosersOK, NothingLeaks
<1>3. CASE Probing /\ UNCHANGED setup
  <2>1. test = "ab" /\ pc \in CaseSteps /\ pc' \in CaseSteps \cup {"cleanup", "done"}
    BY <1>0, <1>3, ProbingGoes
  <2> QED  BY <1>0, <1>3, <2>1 DEF ClosersOK, NothingLeaks, CaseSteps, setup
<1> QED  BY <1>1, <1>2, <1>3, Parts

\* The DELETE without a WHERE, counted: were it to reach shelter A's rows, it
\* would delete the case's row as well, and of the fixture's two for every one
\* that shelter B sees.
LEMMA WipeSeen ==
    ASSUME SuiteTypeOK, RowsOK, verdict # "red", Key \in rows, WipeIsHarmless,
           "DELETE" \in Table.granted, "other" \notin Reach(Tenant, Table, "SELECT", TRUE)
    PROVE  "other" \notin Reach(Tenant, Table, "DELETE", FALSE)
<1> SUFFICES ASSUME "other" \in Reach(Tenant, Table, "DELETE", FALSE) PROVE FALSE
  OBVIOUS
<1> DEFINE F(s) == [table |-> Name, shelter |-> s, by |-> "fixture"]
           visible == Reached("B", "SELECT", TRUE)
           deleted == Reached("B", "DELETE", FALSE)
<1>1. Cardinality(deleted) = Cardinality(visible)
  BY DEF WipeIsHarmless
<1>2. ASSUME NEW x \in rows, x.table = Name PROVE x \in {F("A"), F("B"), Key}
  <2>1. x \in Row /\ x.by \in {"fixture", "case"} /\ (x.by = "case" => x.shelter = "A")
    BY DEF SuiteTypeOK, RowsOK, Row
  <2>2. x = [table |-> x.table, shelter |-> x.shelter, by |-> x.by] /\ x.shelter \in {"A", "B"}
    BY <2>1 DEF Row
  <2> QED  BY <1>2, <2>1, <2>2 DEF Key
<1>3. visible \subseteq {F("B")}
  <2> SUFFICES ASSUME NEW x \in visible PROVE x = F("B")
    OBVIOUS
  <2>1. x \in rows /\ x.table = Name /\ x.shelter = "B"
    BY DEF Reached
  <2> QED  BY <1>2, <2>1 DEF Key
<1>4. Key \in deleted
  BY DEF Reached, Key
<1>5. IsFiniteSet(deleted)
  <2>1. deleted \subseteq {F("A"), F("B"), Key}
    BY <1>2 DEF Reached
  <2>2. IsFiniteSet({F("A"), F("B"), Key})
    <3>1. IsFiniteSet({F("A")})
      BY FS_Singleton
    <3>2. IsFiniteSet({F("A")} \cup {F("B")})
      BY <3>1, FS_AddElement
    <3>3. IsFiniteSet(({F("A")} \cup {F("B")}) \cup {Key})
      BY <3>2, FS_AddElement
    <3>4. ({F("A")} \cup {F("B")}) \cup {Key} = {F("A"), F("B"), Key}
      OBVIOUS
    <3> QED  BY <3>3, <3>4
  <2> QED  BY <2>1, <2>2, FS_Subset
<1>6. CASE visible = {}
  <2>1. Cardinality(deleted) = 0
    BY <1>1, <1>6, FS_EmptySet
  <2> QED  BY <1>4, <1>5, <2>1, FS_EmptySet
<1>7. CASE visible # {}
  <2>1. F("B") \in visible /\ visible = {F("B")}
    BY <1>3, <1>7
  <2>2. Cardinality(visible) = 1
    BY <2>1, FS_Singleton
  <2>3. F("B") \in rows
    BY <2>1 DEF Reached
  <2>4. F("A") \in rows
    <3>1. [F("B") EXCEPT !.shelter = "A"] \in rows
      BY <2>3 DEF RowsOK
    <3> QED  BY <3>1
  <2>5. F("A") \in deleted
    BY <2>4 DEF Reached
  <2>6. F("A") # Key
    BY DEF Key
  <2>7. \E x : deleted = {x}
    BY <1>1, <1>5, <2>2, FS_Singleton
  <2> HIDE DEF F, deleted
  <2> QED  BY <1>4, <2>5, <2>6, <2>7
<1> QED  BY <1>6, <1>7

\* What a case that sees its own row at the end has shown of its table.
LEMMA CaseSeals ==
    ASSUME IInv, pc = "reread", Key \in Reached("A", "SELECT", TRUE)
    PROVE  Sealed(Name)
<1>0. SuiteTypeOK /\ ProbesOK /\ SetupOK
  BY DEF IInv
<1>1. /\ Table # Absent
      /\ "other" \notin Reach(Tenant, Table, "SELECT", TRUE)
      /\ AppendOnly => "UPDATE" \notin Table.granted
      /\ DeleteIsRefused => "DELETE" \notin Table.granted
      /\ "DELETE" \in Table.granted => "other" \notin Reach(Tenant, Table, "DELETE", FALSE)
      /\ "other" \notin Stamp(Tenant, Table)
  BY <1>0 DEF ProbesOK, CaseSteps
<1>2. "own" \in Reach(Tenant, Table, "SELECT", TRUE)
  BY DEF Reached, Key
<1>3. Table \in Tables
  <2>1. world \in Worlds["ab"]
    BY <1>0 DEF SuiteTypeOK, SetupOK, CaseSteps
  <2>2. world.schema \in [Names -> Tables \cup {Absent}] /\ Name \in Names
    BY <1>0, <2>1, SuiteAssumption, Sizes DEF SuiteTypeOK, Name
  <2>3. Table \in Tables \cup {Absent}
    BY <2>2 DEF Table
  <2> QED  BY <1>1, <2>3
<1>4. Table.granted \subseteq {"UPDATE", "DELETE"}
  BY <1>3 DEF Tables
<1>5. CaseKind[Name] = "appendOnly" => Table.granted = {}
  BY <1>1, <1>4 DEF AppendOnly, DeleteIsRefused
<1>6. CaseKind[Name] = "noDelete" => "DELETE" \notin Table.granted
  BY <1>1 DEF DeleteIsRefused
<1> QED  BY <1>1, <1>2, <1>5, <1>6 DEF Sealed, Isolated, Table

\* What ProbesOK says of one step to the next.
LEMMA ProbesNext ==
    ASSUME IInv, Next
    PROVE  ProbesOK'
<1>0. /\ SuiteTypeOK /\ SetupOK /\ RowsOK /\ ProbesOK
      /\ UNCHANGED <<world, test, asked>>
  BY Parts DEF IInv, fixed
<1>1. (MetaTest' <=> MetaTest) /\ \A n : Sealed(n)' <=> Sealed(n)
  BY <1>0 DEF MetaTest, Existing, At, Sealed, Isolated, Tenant
<1>2. CASE Setup /\ UNCHANGED probes
  <2> USE <1>0, <1>1, <1>2 DEF ProbesOK, SetupOK, CaseSteps, Go, End, probes
  <2>1. CASE Start \/ StartContainer \/ OpenOwnerPool
    BY <2>1 DEF Start, StartContainer, OpenOwnerPool
  <2>2. CASE Up \/ UpToDate \/ SetupFails
    BY <2>2 DEF Up, UpToDate, SetupFails
  <2>3. CASE \E r \in Roles : SetRolePassword(r)
    BY <2>3 DEF SetRolePassword
  <2>4. CASE GuardRole \/ Cleanup
    BY <2>4 DEF GuardRole, Cleanup
  <2> QED  BY <1>2, <2>1, <2>2, <2>3, <2>4 DEF Setup
<1>3. CASE Inspection /\ UNCHANGED <<probes, closers, passwords, guarded>>
  <2>1. CASE Catalog
    <3>1. case = 1 /\ case' = 1 /\ pc' \in {"fixture", "cleanup", "done"}
             /\ (pc' = "fixture" => MetaTest) /\ verdict' # "green"
      BY <1>0, <1>3, <2>1 DEF Catalog, ProbesOK, SetupOK, CaseSteps, Go, End, probes
    <3>2. 1..(case' - 1) = {}
      BY <3>1
    <3> QED  BY <1>1, <3>1, <3>2 DEF ProbesOK, CaseSteps
  <2>2. CASE StepDown \/ Summit
    <3>1. test = "walk" /\ case = 1 /\ case' = 1 /\ pc' \in {"up", "down", "cleanup", "done"}
      BY <1>0, <1>3, <2>2 DEF StepDown, Summit, ProbesOK, SetupOK, CaseSteps, Go, End, probes
    <3> QED  BY <1>0, <3>1 DEF ProbesOK, CaseSteps
  <2> QED  BY <1>3, <2>1, <2>2 DEF Inspection
<1>4. CASE Probing /\ ~CheckReread
  <2>1. case' = case
    BY <1>0, <1>4, CaseGrows
  <2>2. UNCHANGED <<Name, Table, Tenant, Key, AppendOnly, DeleteIsRefused>>
    BY <1>0, <2>1 DEF Name, Table, Tenant, Key, AppendOnly, DeleteIsRefused
  <2>3. MetaTest /\ \A j \in 1..(case - 1) : Sealed(Order[j])
    BY <1>0, <1>4, ProbingGoes DEF ProbesOK
  <2>4. rows \subseteq rows'
    BY <1>0, RowsGrow
  <2>5. CASE pc' \in {"cleanup", "done"}
    <3>1. verdict' # "green"
      <4>1. CASE Fixture \/ Seed \/ CheckBlind \/ CheckWipe \/ CheckForge
        BY <1>0, <2>5, <4>1 DEF Fixture, Seed, CheckBlind, CheckWipe, CheckForge, Go, End, SetupOK
      <4>2. CASE ProbeUpdate
        BY <1>0, <2>5, <4>2 DEF ProbeUpdate, ProbeWrite, Go, End
      <4>3. CASE ProbeDelete
        BY <1>0, <2>5, <4>3 DEF ProbeDelete, ProbeWrite, Go, End
      <4> QED  BY <1>4, <4>1, <4>2, <4>3 DEF Probing
    <3> QED  BY <2>5, <3>1 DEF ProbesOK, CaseSteps
  <2>6. CASE pc' \notin {"cleanup", "done"}
    <3> DEFINE Blind == "other" \notin Reach(Tenant, Table, "SELECT", TRUE)
               NoUpdate == AppendOnly => "UPDATE" \notin Table.granted
               NoDelete == DeleteIsRefused => "DELETE" \notin Table.granted
               NoWipe == "DELETE" \in Table.granted =>
                             "other" \notin Reach(Tenant, Table, "DELETE", FALSE)
               Seeded == Key \in rows /\ Table # Absent
    <3>1. pc \in CaseSteps /\ pc' \in CaseSteps /\ verdict' = "none" /\ verdict = "none"
      BY <1>0, <1>4, <2>6, ProbingGoes
    <3>2. UNCHANGED <<Blind, NoUpdate, NoDelete, NoWipe>> /\ (Seeded => Seeded')
      BY <2>2, <2>4
    <3>3. /\ pc \in CaseSteps \ {"fixture", "seed"} => Seeded
          /\ pc \in {"update", "delete", "wipe", "forge", "reread"} => Blind
          /\ pc \in {"delete", "wipe", "forge", "reread"} => NoUpdate
          /\ pc \in {"wipe", "forge", "reread"} => NoDelete
          /\ pc \in {"forge", "reread"} => NoWipe
      BY <1>0 DEF ProbesOK
    <3>4. \/ pc' = "seed"
          \/ pc' = "read" /\ Seeded'
          \/ pc = "read" /\ pc' = "update" /\ Blind
          \/ pc = "update" /\ pc' = "delete" /\ NoUpdate
          \/ pc = "delete" /\ pc' = "wipe" /\ NoDelete
          \/ pc = "wipe" /\ pc' = "forge" /\ NoWipe
          \/ pc = "forge" /\ pc' = "reread" /\ "other" \notin Stamp(Tenant, Table)
      <4>1. CASE Fixture
        BY <4>1 DEF Fixture, Go
      <4>2. CASE Seed
        BY <2>2, <2>6, <4>2 DEF Seed, Go, End
      <4>3. CASE CheckBlind
        <5>1. Key \notin Reached("B", "SELECT", TRUE) /\ pc = "read" /\ pc' = "update"
          BY <2>6, <4>3 DEF CheckBlind, Go, End
        <5>2. Key \in rows
          BY <3>3, <5>1 DEF CaseSteps
        <5> QED  BY <5>1, <5>2 DEF Reached, Key
      <4>4. CASE ProbeUpdate
        BY <2>6, <4>4 DEF ProbeUpdate, ProbeWrite, Go, End
      <4>5. CASE ProbeDelete
        BY <2>6, <4>5 DEF ProbeDelete, ProbeWrite, Go, End
      <4>6. CASE CheckWipe
        <5>1. WipeIsHarmless /\ pc = "wipe" /\ pc' = "forge"
          BY <2>6, <4>6 DEF CheckWipe, Go, End
        <5>2. Seeded /\ Blind
          BY <3>3, <5>1 DEF CaseSteps
        <5>3. NoWipe
          BY <1>0, <3>1, <5>1, <5>2, WipeSeen
        <5> QED  BY <5>1, <5>3
      <4>7. CASE CheckForge
        BY <2>6, <4>7 DEF CheckForge, Go, End
      <4> QED  BY <1>4, <4>1, <4>2, <4>3, <4>4, <4>5, <4>6, <4>7 DEF Probing
    <3>5. MetaTest' /\ \A j \in 1..(case' - 1) : Sealed(Order[j])'
      BY <1>1, <2>1, <2>3
    <3>6. /\ pc' \in CaseSteps \ {"fixture", "seed"} => Seeded'
          /\ pc' \in {"update", "delete", "wipe", "forge", "reread"} => Blind'
          /\ pc' \in {"delete", "wipe", "forge", "reread"} => NoUpdate'
          /\ pc' \in {"wipe", "forge", "reread"} => NoDelete'
          /\ pc' \in {"forge", "reread"} => NoWipe'
          /\ pc' = "reread" => "other" \notin Stamp(Tenant, Table)'
      <4> HIDE DEF Blind, NoUpdate, NoDelete, NoWipe, Seeded
      <4> QED  BY <2>2, <3>2, <3>3, <3>4 DEF CaseSteps
    <3> QED  BY <3>1, <3>5, <3>6 DEF ProbesOK, CaseSteps
  <2> QED  BY <2>5, <2>6
<1>5. CASE CheckReread
  <2>1. pc = "reread" /\ verdict = "none" /\ UNCHANGED version
    BY <1>0, <1>5 DEF CheckReread, SetupOK, setup
  <2>2. MetaTest /\ \A j \in 1..(case - 1) : Sealed(Order[j])
    BY <1>0, <2>1 DEF ProbesOK, CaseSteps
  <2>3. case \in 1..Len(Order) /\ Len(Order) \in Nat
    BY <1>0, Sizes DEF SuiteTypeOK
  <2>4. CASE Key \notin Reached("A", "SELECT", TRUE)
    <3>1. pc' \in {"cleanup", "done"} /\ verdict' = "red"
      BY <1>5, <2>4 DEF CheckReread, End
    <3> QED  BY <3>1 DEF ProbesOK, CaseSteps
  <2>5. CASE Key \in Reached("A", "SELECT", TRUE)
    <3>1. Sealed(Name)
      BY <2>1, <2>5, CaseSeals
    <3>2. \A j \in 1..case : Sealed(Order[j])
      BY <2>2, <2>3, <3>1 DEF Name
    <3>3. CASE case = Len(Order)
      <4>1. \A n \in Cases : Sealed(n)
        BY <3>2, <3>3, Sizes
      <4>2. pc' \in {"cleanup", "done"}
        BY <1>5, <2>5, <3>3 DEF CheckReread, End
      <4> QED  BY <1>1, <2>2, <4>1, <4>2 DEF ProbesOK, CaseSteps
    <3>4. CASE case # Len(Order)
      <4>1. case' = case + 1 /\ pc' = "fixture" /\ verdict' = "none"
        BY <1>5, <2>1, <2>5, <3>4 DEF CheckReread, Go
      <4>2. \A j \in 1..(case' - 1) : Sealed(Order[j])
        BY <2>3, <3>2, <4>1
      <4> QED  BY <1>1, <2>2, <4>1, <4>2 DEF ProbesOK, CaseSteps
    <3> QED  BY <3>3, <3>4
  <2> QED  BY <2>4, <2>5
<1> QED  BY <1>2, <1>3, <1>4, <1>5, Parts

\* A step that changes nothing.
LEMMA Stutter ==
    ASSUME IInv, UNCHANGED vars
    PROVE  IInv'
<1> USE DEF vars
<1>0. SuiteTypeOK /\ SetupOK /\ WalkOK /\ RowsOK /\ ProbesOK /\ ClosersOK
  BY DEF IInv
<1>1. SuiteTypeOK'
  BY <1>0 DEF SuiteTypeOK
<1>2. SetupOK'
  BY <1>0 DEF SetupOK, SkipReason
<1>3. WalkOK'
  <2>1. ASSUME NEW v PROVE Inspect(v)' <=> Inspect(v)
    BY DEF Inspect, At, Existing
  <2> QED  BY <1>0, <2>1 DEF WalkOK
<1>4. RowsOK'
  BY <1>0 DEF RowsOK
<1>5. ProbesOK'
  <2>1. (MetaTest' <=> MetaTest) /\ \A n : Sealed(n)' <=> Sealed(n)
    BY DEF MetaTest, Existing, At, Sealed, Isolated, Tenant
  <2>2. UNCHANGED <<Name, Table, Tenant, Key, AppendOnly, DeleteIsRefused>>
    BY DEF Name, Table, Tenant, Key, AppendOnly, DeleteIsRefused
  <2> QED  BY <1>0, <2>1, <2>2 DEF ProbesOK
<1>6. ClosersOK'
  BY <1>0 DEF ClosersOK, NothingLeaks
<1> QED  BY <1>1, <1>2, <1>3, <1>4, <1>5, <1>6 DEF IInv

\* The invariant holds of every state of the suite.
THEOREM Invariance == Spec => []IInv
<1>1. Init => IInv
  BY InitIInv
<1>2. IInv /\ [Next]_vars => IInv'
  <2> SUFFICES ASSUME IInv, [Next]_vars PROVE IInv'
    OBVIOUS
  <2>1. CASE Next
    BY <2>1, TypeNext, SetupNext, WalkNext, RowsNext, ProbesNext, ClosersNext DEF IInv
  <2>2. CASE UNCHANGED vars
    BY <2>2, Stutter
  <2> QED  BY <2>1, <2>2
<1> QED  BY <1>1, <1>2, PTL DEF Spec

-----------------------------------------------------------------------------
(* What a verdict is worth.                                                *)

\* The suite's variables keep to their types, and no check reads what no
\* relation, role or case stands for.
THEOREM TypeCorrectness == Spec => []SuiteTypeOK
<1>1. IInv => SuiteTypeOK
  BY DEF IInv
<1> QED  BY <1>1, Invariance, PTL

\* Nothing the suite does removes a committed row: every probe that could is
\* rolled back (tenants.go 342-343).
THEOREM RowsStay == Spec => ProbesLeaveNothing
<1>1. SuiteTypeOK /\ [Next]_vars => [rows \subseteq rows']_vars
  BY RowsGrow
<1> QED  BY <1>1, TypeCorrectness, PTL DEF Spec, ProbesLeaveNothing

\* An environment of a test's own is closed to the last pool when the test is
\* done, and the container is opened first (container.go 255-261, 270-275).
THEOREM EnvironmentsClose == Spec => []NothingLeaks
<1>1. IInv => NothingLeaks
  BY DEF IInv, ClosersOK
<1> QED  BY <1>1, Invariance, PTL

\* The declaration lists every name up to twice, and a Validate that passes keeps
\* the infrastructure apart from the tables.
LEMMA Apart ==
    ASSUME NEW c \in Classification, Validate(c), NEW n \in ModelTables(c)
    PROVE  n \in Names /\ n \notin Listed(c.infrastructure)
<1>1. n \in Names /\ (c.tenant[n] > 0 \/ c.nonTenantModel[n] > 0)
  BY DEF ModelTables, Listed
<1>2. c.tenant[n] + c.nonTenantModel[n] + c.infrastructure[n] <= 1
  BY <1>1 DEF Validate
<1>3. c.tenant[n] \in 0..2 /\ c.nonTenantModel[n] \in 0..2 /\ c.infrastructure[n] \in 0..2
  BY <1>1 DEF Classification, Lists
<1>4. c.infrastructure[n] = 0
  BY <1>1, <1>2, <1>3
<1> QED  BY <1>1, <1>4 DEF Listed

\* The world of a run is one that SuiteAssumption describes.
LEMMA WorldTypes ==
    ASSUME SuiteTypeOK
    PROVE  /\ test \in {"ab", "walk"} /\ world \in Worlds[test]
           /\ world.schema \in [Names -> Tables \cup {Absent}]
           /\ world.declaration \in Classification
           /\ world.roles \in [Roles -> RoleCapabilities]
<1>1. test \in {"ab", "walk"} /\ world \in Worlds[test]
  BY DEF SuiteTypeOK
<1>2. world \in Worlds["ab"] \cup Worlds["walk"]
  BY <1>1
<1> QED  BY <1>1, <1>2, SuiteAssumption

\* A table that CheckProtection has passed binds the roles that
\* CheckRoleCannotBypassRLS has passed.
LEMMA ProtectedBinds ==
    ASSUME SuiteTypeOK, guarded = Len(RoleOrder),
           \A i \in 1..guarded : CheckRoleCannotBypassRLS(world.roles[RoleOrder[i]]),
           MetaTest, NEW n \in ModelTables(world.declaration), n \in Existing(HeadVersion)
    PROVE  Bound(n)
<1>1. n \notin Listed(world.declaration.infrastructure)
  BY WorldTypes, Apart DEF MetaTest
<1>2. CheckProtection(world.declaration, n, world.schema[n])
  BY DEF MetaTest, At
<1>3. world.schema[n].enabled
  BY <1>1, <1>2 DEF CheckProtection, Protected
<1>4. \A r \in Roles : CheckRoleCannotBypassRLS(world.roles[r])
  BY Sizes
<1> QED  BY <1>3, <1>4 DEF Bound, Bypasses, CheckRoleCannotBypassRLS

\* A build that CI takes for green has proved that no shelter reads, deletes or
\* forges another's rows, and that every relation is classified and binds every
\* role: nothing skips the suite unasked, and no probe hides behind another
\* layer (container.go 8-19, tenants.go 165-183, 331-358, catalog.go 303-377).
THEOREM GreenIsIsolation == Spec => []GreenMeansIsolated
<1>1. ASSUME IInv, test = "ab", asked.ci, ~asked.short,
             verdict = "green" \/ (verdict = "skipped" /\ GuardEscapeHatch)
      PROVE  /\ \A n \in Cases : Isolated(n) /\ Bound(n)
             /\ \A n \in Existing(HeadVersion) \ {Goose} :
                  Bound(n) /\ n \in ModelTables(world.declaration)
  <2>1. SuiteTypeOK /\ SetupOK /\ ProbesOK
    BY <1>1 DEF IInv
  <2>2. verdict = "green"
    BY <1>1, <2>1 DEF SetupOK, SkipReason, GuardEscapeHatch
  <2>3. /\ guarded = Len(RoleOrder)
        /\ \A i \in 1..guarded : CheckRoleCannotBypassRLS(world.roles[RoleOrder[i]])
    BY <2>1, <2>2 DEF SetupOK
  <2>4. MetaTest /\ \A n \in Cases : Sealed(n)
    BY <1>1, <2>1, <2>2 DEF ProbesOK
  <2>5. ASSUME NEW n \in Cases PROVE Isolated(n) /\ Bound(n)
    <3>1. n \in ModelTables(world.declaration)
      BY <2>4 DEF MetaTest, ModelTables
    <3>2. n \in Existing(HeadVersion)
      BY <2>4, Sizes DEF Existing, At, Sealed
    <3> QED  BY <2>1, <2>3, <2>4, <3>1, <3>2, ProtectedBinds DEF Sealed
  <2>6. ASSUME NEW n \in Existing(HeadVersion) \ {Goose}
        PROVE  Bound(n) /\ n \in ModelTables(world.declaration)
    <3>1. n \in ModelTables(world.declaration) \cup Listed(world.declaration.infrastructure)
      BY <2>4 DEF MetaTest, ClassifyAll
    <3>2. world \in Worlds["ab"]
      BY <1>1, <2>1, WorldTypes
    <3>3. n \in ModelTables(world.declaration)
      BY <3>1, <3>2, DeclarationAssumption
    <3> QED  BY <2>1, <2>3, <2>4, <3>3, ProtectedBinds
  <2> QED  BY <2>5, <2>6
<1>2. IInv => GreenMeansIsolated
  BY <1>1 DEF GreenMeansIsolated
<1> QED  BY <1>2, Invariance, PTL

\* After a green walk, a rollback that stops at any version leaves every table
\* there under forced row security, and without a policy only where none has
\* landed yet (migrate_roundtrip_test.go 89-111, 240-247; catalog.go 119-146).
THEOREM WalkIsGuarded == Spec => []WalkMeansGuarded
<1>1. ASSUME IInv, test = "walk", verdict = "green",
             NEW v \in 0..HeadVersion, NEW n \in Names \ {Goose}, At(v)[n] # Absent
      PROVE  /\ At(v)[n].enabled /\ At(v)[n].forced
             /\ At(v)[n].policies = {} =>
                  \A w \in 0..v : At(w)[n] = Absent \/ At(w)[n].policies = {}
  <2> DEFINE c == world.declaration
             landsAt == c.policyLandsAt[n]
  <2>1. SuiteTypeOK /\ \A w \in 0..HeadVersion : Inspect(w)
    BY <1>1 DEF IInv, WalkOK
  <2>2. n \notin Listed(c.infrastructure) /\ c.noPolicy = {}
    BY <1>1, <2>1, WorldTypes, DeclarationAssumption
  <2>3. landsAt \in Nat /\ HeadVersion \in Nat
    <3>1. landsAt \in (1..HeadVersion) \cup {HeadVersion + 1}
      BY <2>1, WorldTypes DEF Classification, NoVersion
    <3> QED  BY <3>1, Sizes
  <2>4. n \in Existing(v)
    BY <1>1 DEF Existing
  <2>5. CheckProtectionAt(c, n, At(v)[n], v)
    BY <2>1, <2>4 DEF Inspect
  <2>6. /\ At(v)[n].enabled /\ At(v)[n].forced
        /\ At(v)[n].policies = {} => landsAt # NoVersion /\ v < landsAt
    BY <2>2, <2>5 DEF CheckProtectionAt, Protected
  <2>7. ASSUME At(v)[n].policies = {}, NEW w \in 0..v, At(w)[n] # Absent
        PROVE  At(w)[n].policies = {}
    <3>1. w \in 0..HeadVersion /\ w < landsAt /\ landsAt # NoVersion
      BY <2>3, <2>6, <2>7
    <3>2. n \in Existing(w)
      BY <2>7 DEF Existing
    <3> QED  BY <2>1, <3>1, <3>2 DEF Inspect
  <2> QED  BY <2>6, <2>7
<1>2. IInv => WalkMeansGuarded
  BY <1>1 DEF WalkMeansGuarded
<1> QED  BY <1>2, Invariance, PTL

-----------------------------------------------------------------------------
(* What a red verdict is worth: on a sound world no check finds anything.  *)

\* The catalog of a sound world is in order, at the head and on the way down.
LEMMA SoundCatalog ==
    ASSUME SuiteTypeOK, Sound
    PROVE  MetaTest /\ \A v \in 0..HeadVersion : Inspect(v)
<1> DEFINE c == world.declaration
<1>1. c \in Classification /\ Validate(c) /\ c.pending = {} /\ c.noPolicy = {}
  BY WorldTypes DEF Sound
<1>2. Goose \in Names /\ Goose \in Listed(c.infrastructure)
  BY SuiteAssumption DEF Sound
<1>3. Existing(HeadVersion) = ModelTables(c) \cup {Goose} /\ Listed(c.tenant) = Cases
  BY DEF Sound
<1>4. HeadVersion \in Nat \ {0} /\ HeadVersion \in 0..HeadVersion
  BY Sizes
<1>5. ASSUME NEW v \in 0..HeadVersion, NEW n \in ModelTables(c), n \in Existing(v)
      PROVE  /\ At(v)[n].enabled /\ At(v)[n].forced
             /\ (At(v)[n].policies = {}) <=> (c.policyLandsAt[n] # NoVersion /\ v < c.policyLandsAt[n])
  BY <1>5 DEF Sound
<1>6. ASSUME NEW n \in Existing(HeadVersion) PROVE CheckProtection(c, n, At(HeadVersion)[n])
  <2>1. CASE n = Goose
    BY <1>2, <2>1 DEF CheckProtection, Protected
  <2>2. CASE n # Goose
    <3>1. n \in ModelTables(c)
      BY <1>3, <1>6, <2>2
    <3>2. c.policyLandsAt[n] \in (1..HeadVersion) \cup {HeadVersion + 1}
      BY <1>1, <3>1, Apart DEF Classification, NoVersion
    <3>3. ~(c.policyLandsAt[n] # NoVersion /\ HeadVersion < c.policyLandsAt[n])
      BY <1>4, <3>2 DEF NoVersion
    <3>4. At(HeadVersion)[n].policies # {} /\ At(HeadVersion)[n].enabled /\ At(HeadVersion)[n].forced
      BY <1>4, <1>5, <3>1, <3>3
    <3> QED  BY <3>1, <3>4 DEF CheckProtection, Protected
  <2> QED  BY <2>1, <2>2
<1>7. MetaTest
  <2>1. ClassifyAll(c, Existing(HeadVersion))
    BY <1>2, <1>3 DEF ClassifyAll
  <2>2. CheckPending(c, Existing(HeadVersion))
    BY <1>1, <1>3 DEF CheckPending
  <2> QED  BY <1>1, <1>3, <1>6, <2>1, <2>2 DEF MetaTest
<1>8. ASSUME NEW v \in 0..HeadVersion PROVE Inspect(v)
  <2>1. Existing(v) \subseteq ModelTables(c) \cup {Goose}
    BY DEF Sound
  <2>2. ClassifyAll(c, Existing(v))
    BY <1>2, <2>1 DEF ClassifyAll
  <2>3. ASSUME NEW n \in Existing(v)
        PROVE  /\ CheckProtectionAt(c, n, At(v)[n], v)
               /\ (c.policyLandsAt[n] # NoVersion /\ v < c.policyLandsAt[n]) => At(v)[n].policies = {}
    <3>1. CASE n = Goose
      <4>1. c.policyLandsAt[n] = NoVersion
        BY <1>1, <1>2, <3>1, Apart DEF Validate
      <4> QED  BY <1>2, <3>1, <4>1 DEF CheckProtectionAt, Protected
    <3>2. CASE n # Goose
      <4>1. n \in ModelTables(c)
        BY <2>1, <3>2
      <4> QED  BY <1>5, <2>3, <4>1 DEF CheckProtectionAt, Protected
    <3> QED  BY <3>1, <3>2
  <2> QED  BY <2>2, <2>3 DEF Inspect
<1> QED  BY <1>7, <1>8

\* What a case finds on a sound world.
LEMMA SoundTable ==
    ASSUME SuiteTypeOK, Sound
    PROVE  /\ Name \in Cases /\ Table # Absent /\ Isolated(Name)
           /\ "own" \in Stamp(Tenant, Table)
           /\ AppendOnly => Table.granted = {}
           /\ DeleteIsRefused => "DELETE" \notin Table.granted
           /\ ~AppendOnly => "UPDATE" \in Table.granted
           /\ ~DeleteIsRefused => "DELETE" \in Table.granted
           /\ "DELETE" \in Table.granted => Using(Table, "DELETE") = {"own"}
<1>1. Name \in Cases /\ Name \in Names /\ Table = world.schema[Name]
  BY Sizes DEF SuiteTypeOK, Name, Table
<1>2. Table # Absent
  <2>1. Name \in Existing(HeadVersion)
    BY <1>1 DEF Sound, ModelTables
  <2> QED  BY <1>1, <2>1 DEF Existing, At
<1>3. CaseKind[Name] \in {"ordinary", "appendOnly", "noDelete"}
  BY <1>1, SuiteAssumption
<1>4. /\ Isolated(Name)
      /\ Table.granted = CASE CaseKind[Name] = "ordinary" -> {"UPDATE", "DELETE"}
                           [] CaseKind[Name] = "noDelete" -> {"UPDATE"}
                           [] OTHER -> {}
      /\ "DELETE" \in Table.granted => Using(Table, "DELETE") = {"own"}
      /\ "own" \in WithCheck(Table)
  BY <1>1 DEF Sound
<1>5. "own" \in Stamp(Tenant, Table)
  BY <1>4 DEF Stamp, Whose
<1>6. /\ CaseKind[Name] = "ordinary" => Table.granted = {"UPDATE", "DELETE"}
      /\ CaseKind[Name] = "noDelete" => Table.granted = {"UPDATE"}
      /\ CaseKind[Name] = "appendOnly" => Table.granted = {}
  BY <1>4
<1> QED  BY <1>1, <1>2, <1>3, <1>4, <1>5, <1>6 DEF AppendOnly, DeleteIsRefused

\* A statement that reads a column reaches no row a SELECT does not.
LEMMA ReadsAsWell ==
    ASSUME NEW r, NEW t, NEW command, "other" \notin Reach(r, t, "SELECT", TRUE)
    PROVE  "other" \notin Reach(r, t, command, TRUE)
  BY DEF Reach, Whose

\* A case comes before every case whose fixture has seeded its rows: none of the
\* rows that are there hangs on one of the rows it wipes.
LEMMA NothingHangs ==
    ASSUME SuiteTypeOK, RowsOK, verdict # "red", NEW y \in rows
    PROVE  Name \notin Parents[y.table]
<1> SUFFICES ASSUME Name \in Parents[y.table] PROVE FALSE
  OBVIOUS
<1>1. case \in 1..Len(Order) /\ Len(Order) \in Nat /\ DOMAIN Order = 1..Len(Order)
  BY Sizes, SuiteAssumption DEF SuiteTypeOK
<1>2. PICK j \in 1..case : y.table = Order[j]
  <2>1. y.by \in {"fixture", "case"}
    BY DEF SuiteTypeOK, RowsOK, Row
  <2>2. CASE y.by = "case"
    BY <2>2 DEF RowsOK
  <2>3. CASE y.by = "fixture"
    <3>1. PICK i \in 1..case : y.table \in Parents[Order[i]]
      BY <2>3 DEF RowsOK
    <3>2. i \in DOMAIN Order
      BY <1>1
    <3>3. PICK k \in 1..(i - 1) : Order[k] = y.table
      BY <3>1, <3>2, OrderAssumption
    <3>4. k \in 1..case
      BY <1>1, <3>1, <3>3
    <3> QED  BY <3>3, <3>4
  <2> QED  BY <2>1, <2>2, <2>3
<1>3. j \in DOMAIN Order /\ case \in DOMAIN Order
  BY <1>1
<1>4. PICK k \in 1..(j - 1) : Order[k] = Order[case]
  BY <1>2, <1>3, OrderAssumption DEF Name
<1>5. k \in DOMAIN Order /\ k # case
  BY <1>1, <1>2, <1>4
<1> QED  BY <1>3, <1>4, <1>5, OrderAssumption

\* The DELETE without a WHERE deletes what shelter B sees.
LEMMA SoundWipe ==
    ASSUME SuiteTypeOK, RowsOK, verdict # "red", Sound
    PROVE  WipeIsHarmless
<1>1. CASE DeleteIsRefused
  BY <1>1, SoundTable DEF WipeIsHarmless
<1>2. CASE ~DeleteIsRefused
  <2>1. "DELETE" \in Table.granted /\ Using(Table, "DELETE") = {"own"} /\ Isolated(Name)
    BY <1>2, SoundTable
  <2>2. /\ "other" \notin Reach(Tenant, Table, "DELETE", FALSE)
        /\ "other" \notin Reach(Tenant, Table, "SELECT", TRUE)
        /\ "own" \in Reach(Tenant, Table, "SELECT", TRUE)
    BY <2>1 DEF Isolated, Table
  <2>3. "own" \in Reach(Tenant, Table, "DELETE", FALSE)
    BY <2>1 DEF Reach, Whose
  <2>4. Reached("B", "DELETE", FALSE) = Reached("B", "SELECT", TRUE)
    BY <2>2, <2>3 DEF Reached
  <2>5. ~Restricted(Reached("B", "DELETE", FALSE))
    <3>1. \A x \in Reached("B", "DELETE", FALSE) : x.table = Name
      BY DEF Reached
    <3> QED  BY <3>1, NothingHangs DEF Restricted
  <2> QED  BY <1>2, <2>1, <2>4, <2>5 DEF WipeIsHarmless
<1> QED  BY <1>1, <1>2

\* No step of the suite reports a sound world.
LEMMA QuietNext ==
    ASSUME IInv, QuietOK, Next
    PROVE  QuietOK'
<1>0. SuiteTypeOK /\ SetupOK /\ WalkOK /\ RowsOK /\ ProbesOK /\ UNCHANGED fixed
  BY Parts DEF IInv
<1> SUFFICES ASSUME Sound PROVE ~aborted' /\ verdict' # "red"
  <2>1. Sound' <=> Sound
    BY <1>0 DEF fixed, Sound, Existing, At, Isolated, Tenant
  <2> QED  BY <2>1 DEF QuietOK
<1>1. ~aborted /\ verdict # "red"
  BY DEF QuietOK
<1>2. CASE Setup /\ UNCHANGED probes
  <2>1. ~aborted'
    BY <1>1, <1>2 DEF probes
  <2>2. CASE GuardRole
    <3>1. guarded + 1 \in 1..Len(RoleOrder)
      BY <1>0, <2>2, Sizes DEF GuardRole, SetupOK, SuiteTypeOK
    <3>2. CheckRoleCannotBypassRLS(world.roles[RoleOrder[guarded + 1]])
      BY <3>1, Sizes DEF Sound
    <3> QED  BY <1>1, <2>1, <2>2, <3>2 DEF GuardRole, Go
  <2>3. CASE Start \/ StartContainer \/ OpenOwnerPool \/ Up \/ UpToDate
    BY <1>1, <2>1, <2>3 DEF Start, StartContainer, OpenOwnerPool, Up, UpToDate, Go, End
  <2>4. CASE \E r \in Roles : SetRolePassword(r)
    BY <1>1, <2>1, <2>4 DEF SetRolePassword, Go
  <2>5. CASE SetupFails \/ Cleanup
    BY <1>1, <2>1, <2>5 DEF SetupFails, Cleanup, Go, End
  <2> QED  BY <1>2, <2>1, <2>2, <2>3, <2>4, <2>5 DEF Setup
<1>3. CASE Inspection /\ UNCHANGED <<probes, closers, passwords, guarded>>
  <2>1. ~aborted'
    BY <1>1, <1>3 DEF probes
  <2>2. MetaTest /\ \A v \in 0..HeadVersion : Inspect(v)
    BY <1>0, SoundCatalog
  <2>3. CASE Catalog
    BY <1>1, <2>1, <2>2, <2>3 DEF Catalog, Go
  <2>4. CASE StepDown
    <3>1. version' \in 0..HeadVersion
      BY <1>0, <2>4, Sizes DEF StepDown, WalkOK
    <3> QED  BY <1>1, <2>1, <2>2, <2>4, <3>1 DEF StepDown, Go
  <2>5. CASE Summit
    BY <1>0, <1>1, <2>1, <2>2, <2>5 DEF Summit, SuiteTypeOK, End
  <2> QED  BY <1>3, <2>3, <2>4, <2>5 DEF Inspection
<1>4. CASE Probing
  <2>1. /\ Table # Absent /\ Isolated(Name) /\ "own" \in Stamp(Tenant, Table)
        /\ AppendOnly => "UPDATE" \notin Table.granted
        /\ DeleteIsRefused => "DELETE" \notin Table.granted
        /\ ~AppendOnly => "UPDATE" \in Table.granted
        /\ ~DeleteIsRefused => "DELETE" \in Table.granted
    BY <1>0, SoundTable
  <2>2. /\ "other" \notin Reach(Tenant, Table, "SELECT", TRUE)
        /\ "other" \notin Stamp(Tenant, Table)
        /\ "own" \in Reach(Tenant, Table, "SELECT", TRUE)
    BY <2>1 DEF Isolated, Table
  <2>3. \A command : Key \notin Reached("B", command, TRUE)
    BY <2>2, ReadsAsWell DEF Reached, Key
  <2>4. CASE Fixture
    BY <1>1, <2>4 DEF Fixture, Go
  <2>5. CASE Seed
    BY <1>1, <2>1, <2>5 DEF Seed, Go
  <2>6. CASE CheckBlind
    BY <1>1, <2>3, <2>6 DEF CheckBlind, Go, probes
  <2>7. CASE ProbeUpdate
    BY <1>1, <2>1, <2>3, <2>7 DEF ProbeUpdate, ProbeWrite, Go
  <2>8. CASE ProbeDelete
    BY <1>1, <2>1, <2>3, <2>8 DEF ProbeDelete, ProbeWrite, Go
  <2>9. CASE CheckWipe
    BY <1>0, <1>1, <2>9, SoundWipe DEF CheckWipe, Go, probes
  <2>10. CASE CheckForge
    BY <1>1, <2>2, <2>10 DEF CheckForge, Go
  <2>11. CASE CheckReread
    <3>1. Key \in Reached("A", "SELECT", TRUE)
      <4>1. Key \in rows
        BY <1>0, <2>11 DEF CheckReread, ProbesOK, CaseSteps
      <4> QED  BY <2>2, <4>1 DEF Reached, Key
    <3> QED  BY <1>1, <2>11, <3>1 DEF CheckReread, Go, End
  <2> QED  BY <1>4, <2>4, <2>5, <2>6, <2>7, <2>8, <2>9, <2>10, <2>11 DEF Probing
<1> QED  BY <1>2, <1>3, <1>4, Parts

\* On a correct schema the suite never reports one that is broken: not because
\* an earlier case left rows that block a later probe, nor because a refusal
\* has aborted the transaction of the next (isolation_test.go 82-112,
\* tenants.go 273-286).
THEOREM RedIsReal == Spec => []NoFalseAlarm
<1>1. Init => QuietOK
  BY DEF Init, QuietOK
<1>2. IInv /\ QuietOK /\ [Next]_vars => QuietOK'
  <2> SUFFICES ASSUME IInv, QuietOK, [Next]_vars PROVE QuietOK'
    OBVIOUS
  <2>1. CASE Next
    BY <2>1, QuietNext
  <2>2. CASE UNCHANGED vars
    <3>1. Sound' <=> Sound
      BY <2>2 DEF vars, Sound, Existing, At, Isolated, Tenant
    <3> QED  BY <2>2, <3>1 DEF vars, QuietOK
  <2> QED  BY <2>1, <2>2
<1>3. QuietOK => NoFalseAlarm
  BY DEF QuietOK, NoFalseAlarm
<1> QED  BY <1>1, <1>2, <1>3, Invariance, PTL DEF Spec
=================================================================================
