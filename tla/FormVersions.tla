------------------------------ MODULE FormVersions ------------------------------
(***************************************************************************)
(* Form templates, their versions and the submissions recorded against     *)
(* them (migrations 00007 and 00008, query/forms.sql).  Handlers run       *)
(* statements inside db.WithTenant transactions of a shelter; a statement  *)
(* the trigger, a key, an index or a policy refuses ends its transaction,  *)
(* so a refusal is Fail and the actions below are the statements that go   *)
(* through.                                                                *)
(*                                                                         *)
(* PostgreSQL is modelled as in RefreshRotation, with what this schema     *)
(* adds: a BEFORE row trigger sees the row as it is once its lock is had,  *)
(* a foreign key looks past row security and holds KEY SHARE on the row it *)
(* found, and a restricted DELETE waits for those who hold it.             *)
(***************************************************************************)
EXTENDS Naturals, FiniteSets

CONSTANTS
    Procs,          \* handlers, each running one transaction at a time
    Shelters,
    Templates, Versions, Submissions,       \* row ids, drawn at random
    Definitions,    \* contents of form_template_versions.definition
    MaxNumber,      \* bound: the highest version number a caller asks for
    NoShelter,      \* no transaction is open
    NoRow,          \* never inserted, or deleted
    Untouched       \* a row this transaction has not written

Ids == Templates \cup Versions \cup Submissions

TemplateRow == [shelter: Shelters]

VersionRow == [shelter: Shelters, template: Templates, number: 1..MaxNumber,
               definition: Definitions, published: BOOLEAN]

\* asked: the definition on the submitter's screen; form: it was served as a
\* published form.
SubmissionRow == [shelter: Shelters, version: Versions,
                  asked: Definitions, form: BOOLEAN]

ASSUME ConstantsAssumption ==
    /\ Templates \cap Versions = {}
    /\ Templates \cap Submissions = {}
    /\ Versions \cap Submissions = {}
    /\ MaxNumber \in Nat
    /\ NoShelter \notin Shelters
    /\ NoRow \notin TemplateRow \cup VersionRow \cup SubmissionRow
    /\ Untouched \notin TemplateRow \cup VersionRow \cup SubmissionRow \cup {NoRow}

VARIABLES
    rows,       \* the committed tables
    writes,     \* writes[x]: row versions x's transaction has not committed
    scope,      \* scope[x]: the shelter x's transaction was opened for
    drawn,      \* ids that have been drawn
    served      \* forms on adopters' screens: pairs of a version and its content

vars == <<rows, writes, scope, drawn, served>>

RowOf(i) == IF i \in Templates THEN TemplateRow
            ELSE IF i \in Versions THEN VersionRow ELSE SubmissionRow

TypeOK ==
    /\ DOMAIN rows = Ids /\ \A i \in Ids : rows[i] \in RowOf(i) \cup {NoRow}
    /\ DOMAIN writes = Procs
    /\ \A x \in Procs : /\ DOMAIN writes[x] = Ids
                        /\ \A i \in Ids : writes[x][i] \in RowOf(i) \cup {NoRow, Untouched}
    /\ scope \in [Procs -> Shelters \cup {NoShelter}]
    /\ drawn \subseteq Ids
    /\ served \subseteq Versions \X Definitions

Init ==
    /\ rows = [i \in Ids |-> NoRow]
    /\ writes = [x \in Procs |-> [i \in Ids |-> Untouched]]
    /\ scope = [x \in Procs |-> NoShelter]
    /\ drawn = {} /\ served = {}

-----------------------------------------------------------------------------
(* What a statement sees, and what it waits for.                           *)

View(x, i) == IF writes[x][i] = Untouched THEN rows[i] ELSE writes[x][i]

\* Row policy tenant_isolation, the same on the three tables.
Visible(x, i) == View(x, i) # NoRow /\ View(x, i).shelter = scope[x]

LockedByOther(x, i) == \E y \in Procs \ {x} : writes[y][i] # Untouched

\* Another transaction deletes row i, or changes a column of one of its keys.
KeyLockedByOther(x, i) ==
    \E y \in Procs \ {x} :
        LET new == writes[y][i] IN
        \/ new = NoRow
        \/ /\ i \in Versions /\ new # Untouched /\ rows[i] # NoRow
           /\ <<new.template, new.number>> # <<rows[i].template, rows[i].number>>

Children(table, i) ==
    {j \in Versions : table[j] \notin {NoRow, Untouched} /\ table[j].template = i}
        \cup {j \in Submissions : table[j] \notin {NoRow, Untouched} /\ table[j].version = i}

\* KEY SHARE on a parent is held by whoever is inserting a child of it.
Shared(x, i) == \E y \in Procs \ {x} : Children(writes[y], i) # {}

\* Mutant: REFERENCES parent (id), without the shelter.
ParentById(x, i) == View(x, i) # NoRow /\ ~KeyLockedByOther(x, i)

\* A composite foreign key to (id, shelter_id): it looks past row security.
ParentExists(x, i) ==
    /\ View(x, i) # NoRow
    /\ View(x, i).shelter = scope[x]
    /\ ~KeyLockedByOther(x, i)

\* ON DELETE RESTRICT, with the deleting statement's wait for KEY SHARE.
Childless(x, i) ==
    /\ ~Shared(x, i)
    /\ Children([j \in Ids |-> View(x, j)], i) = {}

\* Mutant: the trigger guards the content and leaves published_at alone.
FreezesContent(old, new) ==
    old.published /\ (new = NoRow \/ new.definition # old.definition)

\* The trigger form_template_versions_freeze_published refuses old -> new.
Frozen(old, new) == old.published

\* UNIQUE (shelter_id, template_id, version): nobody has the number, and nobody
\* is about to have it or to give it up.
NumberFree(x, t, n) ==
    \A v \in Versions :
        \A r \in {View(x, v)} \cup {writes[y][v] : y \in Procs \ {x}}
                    \cup (IF LockedByOther(x, v) THEN {rows[v]} ELSE {}) :
            r \notin {NoRow, Untouched} => ~(/\ r.shelter = scope[x]
                                             /\ r.template = t /\ r.number = n)

Put(x, i, r) == writes' = [writes EXCEPT ![x][i] = r]

Draw(i) == i \notin drawn /\ drawn' = drawn \cup {i}

-----------------------------------------------------------------------------
(* The statements of a transaction.                                        *)

Begin(x, s) ==
    /\ scope[x] = NoShelter
    /\ scope' = [scope EXCEPT ![x] = s]
    /\ UNCHANGED <<rows, writes, drawn, served>>

CreateTemplate(x, t) ==
    /\ scope[x] # NoShelter
    /\ Draw(t)
    /\ Put(x, t, [shelter |-> scope[x]])
    /\ UNCHANGED <<rows, scope, served>>

\* Only a template no version was ever numbered for: the key restricts.
DeleteTemplate(x, t) ==
    /\ scope[x] # NoShelter
    /\ Visible(x, t)
    /\ ~LockedByOther(x, t)
    /\ Childless(x, t)
    /\ Put(x, t, NoRow)
    /\ UNCHANGED <<rows, scope, drawn, served>>

InsertVersion(x, v, t, n, d, published) ==
    /\ scope[x] # NoShelter
    /\ n >= 1
    /\ Draw(v)
    /\ ParentExists(x, t)
    /\ NumberFree(x, t, n)
    /\ Put(x, v, [shelter |-> scope[x], template |-> t, number |-> n,
                  definition |-> d, published |-> published])
    /\ UNCHANGED <<rows, scope, served>>

\* Any UPDATE the tenant's grant allows of a version that is still a draft:
\* editing it, publishing it, giving it another number or another template.
UpdateVersion(x, v, t, n, d, published) ==
    LET old == View(x, v)
        new == [old EXCEPT !.template = t, !.number = n,
                           !.definition = d, !.published = published]
    IN
    /\ scope[x] # NoShelter
    /\ Visible(x, v)
    /\ ~LockedByOther(x, v)
    /\ ~Frozen(old, new)
    /\ new # old
    /\ <<t, n>> # <<old.template, old.number>> => NumberFree(x, t, n) /\ ~Shared(x, v)
    /\ t # old.template => ParentExists(x, t)
    /\ Put(x, v, new)
    /\ UNCHANGED <<rows, scope, drawn, served>>

\* Mutant: the trigger fires on UPDATE only.
DeleteAnyVersion(x, v) ==
    /\ scope[x] # NoShelter
    /\ Visible(x, v)
    /\ ~LockedByOther(x, v)
    /\ Childless(x, v)
    /\ Put(x, v, NoRow)
    /\ UNCHANGED <<rows, scope, drawn, served>>

\* A draft is discarded, unless answers were recorded against it.
DeleteVersion(x, v) ==
    /\ scope[x] # NoShelter
    /\ Visible(x, v)
    /\ ~LockedByOther(x, v)
    /\ ~Frozen(View(x, v), NoRow)
    /\ Childless(x, v)
    /\ Put(x, v, NoRow)
    /\ UNCHANGED <<rows, scope, drawn, served>>

\* The caller names the version the form was served from, however long ago, or
\* a draft: nothing asks that the version is published.
RecordSubmission(x, s, v, d) ==
    LET form == <<v, d>> \in served IN
    /\ scope[x] # NoShelter
    /\ Draw(s)
    /\ ParentExists(x, v)
    /\ form \/ (~View(x, v).published /\ View(x, v).definition = d)
    /\ Put(x, s, [shelter |-> scope[x], version |-> v, asked |-> d, form |-> form])
    /\ UNCHANGED <<rows, scope, served>>

\* The retention purge, or a subject's request.
DeleteSubmission(x, s) ==
    /\ scope[x] # NoShelter
    /\ rows[s] # NoRow /\ Visible(x, s)
    /\ ~LockedByOther(x, s)
    /\ Put(x, s, NoRow)
    /\ UNCHANGED <<rows, scope, drawn, served>>

Published(t) == {v \in Versions : rows[v] # NoRow /\ rows[v].template = t /\ rows[v].published}

\* A form is served: GetLatestPublishedVersion, in a transaction of its own.
GetLatestPublishedVersion(t) ==
    /\ \E v \in Published(t) :
          /\ \A w \in Published(t) : rows[w].number <= rows[v].number
          /\ served' = served \cup {<<v, rows[v].definition>>}
    /\ UNCHANGED <<rows, writes, scope, drawn>>

End(x) ==
    /\ writes' = [writes EXCEPT ![x] = [i \in Ids |-> Untouched]]
    /\ scope' = [scope EXCEPT ![x] = NoShelter]
    /\ UNCHANGED <<drawn, served>>

Commit(x) ==
    /\ scope[x] # NoShelter
    /\ rows' = [i \in Ids |-> View(x, i)]
    /\ End(x)

\* A refused statement, an error of the callback, a deadlock, a crash.
Fail(x) ==
    /\ scope[x] # NoShelter
    /\ End(x)
    /\ UNCHANGED rows

Next ==
    \/ \E x \in Procs :
        \/ \E s \in Shelters : Begin(x, s)
        \/ \E t \in Templates : CreateTemplate(x, t) \/ DeleteTemplate(x, t)
        \/ \E v \in Versions, t \in Templates, n \in 0..MaxNumber, d \in Definitions,
              p \in BOOLEAN : InsertVersion(x, v, t, n, d, p)
        \/ \E v \in Versions, t \in Templates, n \in 1..MaxNumber, d \in Definitions,
              p \in BOOLEAN : UpdateVersion(x, v, t, n, d, p)
        \/ \E v \in Versions : DeleteVersion(x, v)
        \/ \E s \in Submissions, v \in Versions, d \in Definitions :
              RecordSubmission(x, s, v, d)
        \/ \E s \in Submissions : DeleteSubmission(x, s)
        \/ Commit(x)
        \/ Fail(x)
    \/ \E t \in Templates : GetLatestPublishedVersion(t)

Spec == Init /\ [][Next]_vars

-----------------------------------------------------------------------------
(* Properties.                                                             *)

Kept(s) == /\ rows[rows[s].version] # NoRow
           /\ rows[rows[s].version].definition = rows[s].asked

\* An answer recorded against a form that was served as published always finds
\* the questions it answers, whoever edits, unpublishes or deletes what beside
\* it and however old the form on the screen was (00007 3-14, 00008 3-6).
PublishedAnswersStayReadable ==
    \A s \in Submissions : rows[s] # NoRow /\ rows[s].form => Kept(s)

\* A submission, its version and its template belong to one shelter, although
\* the keys are checked past row security (00007 94-113, 00008 52-65).
OneShelterThroughout ==
    /\ \A v \in Versions : rows[v] # NoRow =>
          /\ rows[rows[v].template] # NoRow
          /\ rows[rows[v].template].shelter = rows[v].shelter
    /\ \A s \in Submissions : rows[s] # NoRow =>
          /\ rows[rows[s].version] # NoRow
          /\ rows[rows[s].version].shelter = rows[s].shelter

Latest(t) == {v \in Published(t) : \A w \in Published(t) : rows[w].number <= rows[v].number}

\* The form a template serves is one version, and it only ever moves on to a
\* version with a higher number (forms.sql 13-27).
LatestOnlyAdvances ==
    [][\A t \in Templates, v \in Versions : v \in Latest(t) =>
        \E w \in Latest(t)' : /\ Latest(t)' = {w}
                              /\ v = w \/ rows'[w].number > rows[v].number]_rows

=============================================================================
