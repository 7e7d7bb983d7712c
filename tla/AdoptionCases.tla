----------------------------- MODULE AdoptionCases -----------------------------
(***************************************************************************)
(* Adoption applications, who they are assigned to, and what hangs off     *)
(* them: the append-only timeline, the notes and the submissions           *)
(* (migrations 00009, 00010, 00015 and 00016, query/applications.sql).     *)
(* Handlers run statements inside db.WithTenant transactions; PostgreSQL   *)
(* and refused statements are modelled as in FormVersions.                 *)
(***************************************************************************)
EXTENDS FiniteSets

CONSTANTS
    Procs,          \* handlers, each running one transaction at a time
    Shelters, Users,
    Cases,          \* ids of adoption_applications
    Events, Notes, Submissions,     \* ids of what belongs to a case
    Statuses,       \* the closed set of adoption_applications.status
    Nobody,         \* assigned_to_user_id IS NULL
    NoShelter, NoRow, Untouched

Members  == Users \X Shelters       \* memberships: UNIQUE (user_id, shelter_id)
Children == Events \cup Notes \cup Submissions
Ids      == Members \cup Cases \cup Children

MemberRow == [shelter: Shelters, status: {"invited", "active", "revoked"}]
CaseRow   == [shelter: Shelters, status: Statuses, assignee: Users \cup {Nobody}]
ChildRow  == [shelter: Shelters, case: Cases]
AnyRow    == MemberRow \cup CaseRow \cup ChildRow

ASSUME ConstantsAssumption ==
    /\ Members \cap (Cases \cup Children) = {} /\ Cases \cap Children = {}
    /\ Events \cap (Notes \cup Submissions) = {} /\ Notes \cap Submissions = {}
    /\ Nobody \notin Users
    /\ NoShelter \notin Shelters
    /\ NoRow \notin AnyRow /\ Untouched \notin AnyRow \cup {NoRow}

VARIABLES
    rows,       \* the committed tables
    writes,     \* writes[x]: row versions x's transaction has not committed
    scope,      \* scope[x]: the shelter x's transaction was opened for
    drawn,      \* ids that have been drawn
    admitted,   \* admitted[x]: memberships x's transaction made active
    accepted    \* memberships that have been active

vars == <<rows, writes, scope, drawn, admitted, accepted>>

RowOf(i) == IF i \in Members THEN MemberRow
            ELSE IF i \in Cases THEN CaseRow ELSE ChildRow

TypeOK ==
    /\ DOMAIN rows = Ids /\ \A i \in Ids : rows[i] \in RowOf(i) \cup {NoRow}
    /\ DOMAIN writes = Procs
    /\ \A x \in Procs : /\ DOMAIN writes[x] = Ids
                        /\ \A i \in Ids : writes[x][i] \in RowOf(i) \cup {NoRow, Untouched}
    /\ scope \in [Procs -> Shelters \cup {NoShelter}]
    /\ drawn \subseteq Ids
    /\ admitted \in [Procs -> SUBSET Members] /\ accepted \subseteq Members

Init ==
    /\ rows = [i \in Ids |-> NoRow]
    /\ writes = [x \in Procs |-> [i \in Ids |-> Untouched]]
    /\ scope = [x \in Procs |-> NoShelter]
    /\ drawn = {} /\ accepted = {} /\ admitted = [x \in Procs |-> {}]

-----------------------------------------------------------------------------
(* What a statement sees, and what it waits for.                           *)

View(x, i) == IF writes[x][i] = Untouched THEN rows[i] ELSE writes[x][i]

\* Row policy tenant_isolation, the same on every table here.
Visible(x, i) == View(x, i) # NoRow /\ View(x, i).shelter = scope[x]

LockedByOther(x, i) == \E y \in Procs \ {x} : writes[y][i] # Untouched

ChildrenOf(table, c) ==
    {i \in Children : table[i] \notin {NoRow, Untouched} /\ table[i].case = c}

Attached(x, c) == ChildrenOf([i \in Ids |-> View(x, i)], c)

\* The composite foreign key of events, notes and submissions; it waits for a
\* deletion under way.
CaseExists(x, c) ==
    /\ View(x, c) # NoRow
    /\ View(x, c).shelter = scope[x]
    /\ \A y \in Procs \ {x} : writes[y][c] # NoRow

\* assignee_must_be_active_member, and the composite key to memberships.
MayOwn(x, u) ==
    u # Nobody => Visible(x, <<u, scope[x]>>) /\ View(x, <<u, scope[x]>>).status = "active"

Put(x, i, r) == writes' = [writes EXCEPT ![x][i] = r]

Draw(i) == i \notin drawn /\ drawn' = drawn \cup {i}

Begin(x, s) ==
    /\ scope[x] = NoShelter
    /\ scope' = [scope EXCEPT ![x] = s]
    /\ UNCHANGED <<rows, writes, drawn, admitted, accepted>>

-----------------------------------------------------------------------------
(* Memberships.                                                            *)

\* InviteMember; the grant of 00015 leaves the status to the caller, as the
\* founder's own membership needs.
InviteMember(x, u, status) ==
    LET m == <<u, scope[x]>> IN
    /\ scope[x] # NoShelter
    /\ ~LockedByOther(x, m)
    /\ View(x, m) = NoRow
    /\ Put(x, m, [shelter |-> scope[x], status |-> status])
    /\ admitted' = [admitted EXCEPT ![x] = @ \cup {n \in {m} : status = "active"}]
    /\ UNCHANGED <<rows, scope, drawn, accepted>>

\* GRANT UPDATE (status, accepted_at, updated_at): accept, revoke, readmit.
\* Nobody may delete a membership.
UpdateMembership(x, u, status) ==
    LET m == <<u, scope[x]>> IN
    /\ scope[x] # NoShelter
    /\ ~LockedByOther(x, m)
    /\ Visible(x, m)
    /\ Put(x, m, [View(x, m) EXCEPT !.status = status])
    /\ admitted' = [admitted EXCEPT ![x] = @ \cup {n \in {m} : status = "active"}]
    /\ UNCHANGED <<rows, scope, drawn, accepted>>

-----------------------------------------------------------------------------
(* Cases.                                                                  *)

\* Mutant: the trigger fires on UPDATE only.
CreateUnchecked(x, c, status, u) ==
    /\ scope[x] # NoShelter
    /\ Draw(c)
    /\ u # Nobody => View(x, <<u, scope[x]>>) # NoRow
    /\ Put(x, c, [shelter |-> scope[x], status |-> status, assignee |-> u])
    /\ UNCHANGED <<rows, scope, admitted, accepted>>

\* CreateApplication leaves the case unassigned; an INSERT may also assign it.
CreateApplication(x, c, status, u) ==
    /\ scope[x] # NoShelter
    /\ Draw(c)
    /\ MayOwn(x, u)
    /\ Put(x, c, [shelter |-> scope[x], status |-> status, assignee |-> u])
    /\ UNCHANGED <<rows, scope, admitted, accepted>>

\* Which transitions are legal is not decided here.
SetApplicationStatus(x, c, status) ==
    /\ scope[x] # NoShelter
    /\ ~LockedByOther(x, c)
    /\ Visible(x, c)
    /\ Put(x, c, [View(x, c) EXCEPT !.status = status])
    /\ UNCHANGED <<rows, scope, drawn, admitted, accepted>>

AssignApplication(x, c, u) ==
    /\ scope[x] # NoShelter
    /\ ~LockedByOther(x, c)
    /\ Visible(x, c)
    /\ MayOwn(x, u)
    /\ Put(x, c, [View(x, c) EXCEPT !.assignee = u])
    /\ UNCHANGED <<rows, scope, drawn, admitted, accepted>>

\* The DELETE of a case may start: nobody else is changing it or adding to it.
Deletable(x, c) ==
    /\ scope[x] # NoShelter
    /\ Visible(x, c)
    /\ ~LockedByOther(x, c)
    /\ \A y \in Procs \ {x} : ChildrenOf(writes[y], c) = {}
    /\ \A i \in Attached(x, c) : ~LockedByOther(x, i)

Erase(x, c, also) ==
    /\ writes' = [writes EXCEPT ![x] =
           [i \in Ids |-> IF i = c \/ i \in also THEN NoRow ELSE writes[x][i]]]
    /\ UNCHANGED <<rows, scope, drawn, admitted, accepted>>

\* Mutant: the timeline's key cascades too.
DeleteWithTimeline(x, c) ==
    /\ Deletable(x, c)
    /\ Attached(x, c) \cap Notes = {}
    /\ Erase(x, c, Attached(x, c))

\* Mutant: form_submissions.application_id has no key.
DeleteCaseOnly(x, c) ==
    /\ Deletable(x, c)
    /\ Attached(x, c) \subseteq Submissions
    /\ Erase(x, c, {})

\* The retention purge: refused while the case has a timeline or notes, and it
\* takes the submissions along.
DeleteApplication(x, c) ==
    /\ Deletable(x, c)
    /\ Attached(x, c) \subseteq Submissions
    /\ Erase(x, c, Attached(x, c))

-----------------------------------------------------------------------------
(* What belongs to a case.                                                 *)

\* AppendApplicationEvent, WriteApplicationNote, RecordSubmission.
Attach(x, i, c) ==
    /\ scope[x] # NoShelter
    /\ Draw(i)
    /\ CaseExists(x, c)
    /\ Put(x, i, [shelter |-> scope[x], case |-> c])
    /\ UNCHANGED <<rows, scope, admitted, accepted>>

\* Notes and submissions may be deleted; for an event there is no grant, no
\* policy and a trigger.
Detach(x, i) ==
    /\ scope[x] # NoShelter
    /\ i \in Notes \cup Submissions
    /\ rows[i] # NoRow /\ Visible(x, i)
    /\ ~LockedByOther(x, i)
    /\ Put(x, i, NoRow)
    /\ UNCHANGED <<rows, scope, drawn, admitted, accepted>>

-----------------------------------------------------------------------------

End(x) ==
    /\ writes' = [writes EXCEPT ![x] = [i \in Ids |-> Untouched]]
    /\ scope' = [scope EXCEPT ![x] = NoShelter]
    /\ admitted' = [admitted EXCEPT ![x] = {}]
    /\ UNCHANGED drawn

Commit(x) ==
    /\ scope[x] # NoShelter
    /\ rows' = [i \in Ids |-> View(x, i)]
    /\ accepted' = accepted \cup admitted[x]
    /\ End(x)

\* A refused statement, an error of the callback, a deadlock, a crash.
Fail(x) ==
    /\ scope[x] # NoShelter
    /\ End(x)
    /\ UNCHANGED <<rows, accepted>>

Next ==
    \E x \in Procs :
        \/ \E s \in Shelters : Begin(x, s)
        \/ \E u \in Users, status \in {"invited", "active"} : InviteMember(x, u, status)
        \/ \E u \in Users, status \in {"active", "revoked"} : UpdateMembership(x, u, status)
        \/ \E c \in Cases, status \in Statuses, u \in Users \cup {Nobody} :
              CreateApplication(x, c, status, u)
        \/ \E c \in Cases, status \in Statuses : SetApplicationStatus(x, c, status)
        \/ \E c \in Cases, u \in Users \cup {Nobody} : AssignApplication(x, c, u)
        \/ \E c \in Cases : DeleteApplication(x, c)
        \/ \E i \in Children, c \in Cases : Attach(x, i, c)
        \/ \E i \in Children : Detach(x, i)
        \/ Commit(x)
        \/ Fail(x)

Spec == Init /\ [][Next]_vars

-----------------------------------------------------------------------------
(* Properties.                                                             *)

\* Whoever a case is assigned to has been an active member of its shelter:
\* neither an INSERT nor an invitation still open beside the assignment gets
\* round the trigger (00016 9-24, 68-79).
AssigneeWasActive == \A c \in Cases :
    rows[c] # NoRow /\ rows[c].assignee # Nobody =>
        <<rows[c].assignee, rows[c].shelter>> \in accepted

\* Nothing personal outlives its case, and nothing hangs off another shelter's:
\* a purge takes every submission, the one recorded beside it included
\* (00009 150-176, 00010 62-76).
NothingOutlivesItsCase == \A i \in Children : rows[i] # NoRow =>
    /\ rows[rows[i].case] # NoRow
    /\ rows[rows[i].case].shelter = rows[i].shelter

\* The timeline is never shortened or rewritten, by a purge of its case either
\* (00010 24-76).
TimelineIsKept ==
    [][\A e \in Events : rows[e] # NoRow => rows'[e] = rows[e]]_rows

-----------------------------------------------------------------------------
(* What the source says and the code does not do.                          *)

\* 00016 1: "a case can only be assigned to an ACTIVE member".  Stated of the
\* commit that assigns it, unless that transaction changes the membership too.
AssignedToActiveMember ==
    [][\A c \in Cases, x \in Procs, u \in Users :
        LET m == <<u, rows'[c].shelter>> IN
        /\ scope[x] # NoShelter /\ scope'[x] = NoShelter
        /\ writes[x][c] \notin {NoRow, Untouched}
        /\ rows'[c] = writes[x][c] /\ rows'[c].assignee = u
        /\ rows[c] = NoRow \/ rows[c].assignee # u
        /\ writes[x][m] = Untouched
        => rows'[m].status = "active"]_rows
=============================================================================
