--------------------------- MODULE FormVersions_proofs ---------------------------
(***************************************************************************)
(* Proofs of the properties of FormVersions, for any handlers, shelters,   *)
(* templates, versions and submissions.  Committed rows keep what they     *)
(* promise because of what no uncommitted row may be: the child of a row   *)
(* somebody is deleting, the twin of a number somebody is taking, or       *)
(* another version of one that is published.                               *)
(***************************************************************************)
EXTENDS FormVersions, WellFoundedInduction, TLAPS

-----------------------------------------------------------------------------
(* The invariant.                                                          *)

Live(r) == r \notin {NoRow, Untouched}

\* Row r of id j refers to i.
ChildOf(j, r, i) == \/ j \in Versions /\ r.template = i
                    \/ j \in Submissions /\ r.version = i

\* Two versions of one template with one number.
Twins(r, q) == Live(r) /\ Live(q) /\ r.shelter = q.shelter
                 /\ r.template = q.template /\ r.number = q.number

\* A row is written by one handler at a time, and in its shelter.
WritersOK ==
    /\ \A i \in Ids : rows[i] # NoRow => i \in drawn
    /\ \A x \in Procs, i \in Ids :
         /\ writes[x][i] # Untouched => i \in drawn
         /\ scope[x] = NoShelter => writes[x][i] = Untouched
         /\ Live(writes[x][i]) => writes[x][i].shelter = scope[x]
         /\ writes[x][i] # Untouched /\ rows[i] # NoRow => rows[i].shelter = scope[x]
    /\ \A x, y \in Procs, i \in Ids :
         x # y => writes[x][i] = Untouched \/ writes[y][i] = Untouched

\* A row has its parent, and a row being written has one that nobody deletes.
ParentsOK ==
    /\ \A j, p \in Ids : rows[j] # NoRow /\ ChildOf(j, rows[j], p) =>
         rows[p] # NoRow /\ rows[p].shelter = rows[j].shelter
    /\ \A x \in Procs, j, p \in Ids :
         Live(writes[x][j]) /\ ChildOf(j, writes[x][j], p) =>
           /\ View(x, p) # NoRow /\ View(x, p).shelter = scope[x]
           /\ \A y \in Procs \ {x} : writes[y][p] # NoRow

\* Who deletes a row has rewritten or deleted all that referred to it.
DeletedOK ==
    \A x \in Procs, i, j \in Ids :
      writes[x][i] = NoRow /\ writes[x][j] = Untouched /\ rows[j] # NoRow
        => ~ChildOf(j, rows[j], i)

\* A published version is in nobody's hands, and is what was served; an answer
\* to a form is to one that was served.
PublishedOK ==
    /\ \A v \in Versions : rows[v] # NoRow /\ rows[v].published =>
         \A x \in Procs : writes[x][v] = Untouched
    /\ \A v \in Versions, d \in Definitions : <<v, d>> \in served =>
         rows[v] # NoRow /\ rows[v].published /\ rows[v].definition = d
    /\ \A s \in Submissions :
         /\ rows[s] # NoRow /\ rows[s].form => <<rows[s].version, rows[s].asked>> \in served
         /\ \A x \in Procs : Live(writes[x][s]) /\ writes[x][s].form =>
              <<writes[x][s].version, writes[x][s].asked>> \in served

\* No two versions have, or are about to have, one number.
NumbersOK ==
    \A v, w \in Versions : v # w =>
      /\ ~Twins(rows[v], rows[w])
      /\ \A x \in Procs : writes[x][v] = Untouched => ~Twins(rows[v], writes[x][w])
      /\ \A x, y \in Procs : ~Twins(writes[x][v], writes[y][w])

IInv == TypeOK /\ WritersOK /\ ParentsOK /\ DeletedOK /\ PublishedOK /\ NumbersOK

-----------------------------------------------------------------------------
(* Rows.                                                                   *)

\* The types of rows, table by table.
LEMMA RowTypes ==
    ASSUME ConstantsAssumption, TypeOK
    PROVE  /\ Versions \subseteq Ids /\ Submissions \subseteq Ids /\ Templates \subseteq Ids
           /\ NoRow # Untouched
           /\ \A i \in Ids : NoRow \notin RowOf(i) /\ Untouched \notin RowOf(i)
           /\ \A i \in Ids : rows[i] \in RowOf(i) \cup {NoRow}
           /\ \A x \in Procs, i \in Ids :
                /\ writes[x][i] \in RowOf(i) \cup {NoRow, Untouched}
                /\ View(x, i) \in RowOf(i) \cup {NoRow}
           /\ \A i \in Versions : \A r : r \in RowOf(i) <=> r \in VersionRow
           /\ \A i \in Submissions : \A r : r \in RowOf(i) <=> r \in SubmissionRow
           /\ \A i \in Templates : \A r : r \in RowOf(i) <=> r \in TemplateRow
<1>1. /\ Versions \subseteq Ids /\ Submissions \subseteq Ids /\ Templates \subseteq Ids
      /\ NoRow # Untouched
  BY DEF ConstantsAssumption, Ids
<1>2. \A i \in Ids : NoRow \notin RowOf(i) /\ Untouched \notin RowOf(i)
  BY DEF ConstantsAssumption, RowOf
<1>3. /\ \A i \in Versions : \A r : r \in RowOf(i) <=> r \in VersionRow
      /\ \A i \in Submissions : \A r : r \in RowOf(i) <=> r \in SubmissionRow
      /\ \A i \in Templates : \A r : r \in RowOf(i) <=> r \in TemplateRow
  BY DEF ConstantsAssumption, RowOf
<1>4. /\ \A i \in Ids : rows[i] \in RowOf(i) \cup {NoRow}
      /\ \A x \in Procs, i \in Ids : writes[x][i] \in RowOf(i) \cup {NoRow, Untouched}
  BY DEF TypeOK
<1>5. \A x \in Procs, i \in Ids : View(x, i) \in RowOf(i) \cup {NoRow}
  BY <1>4 DEF View
<1> QED  BY <1>1, <1>2, <1>3, <1>4, <1>5

\* A statement writes one row.
LEMMA PutEffect ==
    ASSUME TypeOK, NEW x \in Procs, NEW i \in Ids, NEW r, Put(x, i, r)
    PROVE  /\ DOMAIN writes' = Procs /\ \A y \in Procs : DOMAIN writes'[y] = Ids
           /\ writes'[x][i] = r
           /\ \A j \in Ids \ {i} : writes'[x][j] = writes[x][j]
           /\ \A y \in Procs \ {x} : writes'[y] = writes[y]
BY DEF TypeOK, Put

-----------------------------------------------------------------------------
(* What a statement owes the invariant.                                    *)

\* A statement of x that leaves row r of id i: nobody else has written it, its
\* parent is there and nobody deletes it, its children go first, it was not
\* published, and its number is free.
Sound(x, i, r) ==
    /\ scope[x] # NoShelter
    /\ r \in RowOf(i) \cup {NoRow}
    /\ \A y \in Procs \ {x} : writes[y][i] = Untouched
    /\ r # NoRow => r.shelter = scope[x]
    /\ rows[i] # NoRow => rows[i].shelter = scope[x]
    /\ \A p \in Ids : r # NoRow /\ ChildOf(i, r, p) =>
         /\ p # i
         /\ View(x, p) # NoRow /\ View(x, p).shelter = scope[x]
         /\ \A y \in Procs \ {x} : writes[y][p] # NoRow
    /\ r = NoRow => \A j \in Ids \ {i} :
         /\ Live(View(x, j)) => ~ChildOf(j, View(x, j), i)
         /\ \A y \in Procs \ {x} : Live(writes[y][j]) => ~ChildOf(j, writes[y][j], i)
    /\ i \in Versions /\ rows[i] # NoRow => ~rows[i].published
    /\ i \in Submissions /\ r # NoRow /\ r.form => <<r.version, r.asked>> \in served
    /\ i \in Versions => \A v \in Versions \ {i} :
         /\ ~Twins(r, View(x, v))
         /\ \A y \in Procs \ {x} :
              /\ ~Twins(r, writes[y][v])
              /\ writes[y][v] # Untouched => ~Twins(r, rows[v])

\* No row refers to itself.
LEMMA NoSelfReference ==
    ASSUME ConstantsAssumption, TypeOK, NEW j \in Ids, NEW r \in RowOf(j)
    PROVE  ~ChildOf(j, r, j)
<1>1. CASE j \in Versions
  BY <1>1, RowTypes DEF ChildOf, VersionRow, ConstantsAssumption
<1>2. CASE j \in Submissions
  BY <1>2, RowTypes DEF ChildOf, SubmissionRow, ConstantsAssumption
<1> QED  BY <1>1, <1>2 DEF ChildOf

\* A sound statement keeps the invariant (00007, 00008).
LEMMA PutKeeps ==
    ASSUME ConstantsAssumption, IInv, NEW x \in Procs, NEW i \in Ids, NEW r,
           Sound(x, i, r), Put(x, i, r), UNCHANGED <<rows, scope, served>>,
           drawn \subseteq drawn', drawn' \subseteq Ids, i \in drawn'
    PROVE  IInv'
<1>0. /\ DOMAIN writes' = Procs /\ \A y \in Procs : DOMAIN writes'[y] = Ids
      /\ writes'[x][i] = r
      /\ \A j \in Ids \ {i} : writes'[x][j] = writes[x][j]
      /\ \A y \in Procs \ {x} : writes'[y] = writes[y]
      /\ r # Untouched
      /\ rows' = rows /\ scope' = scope /\ served' = served
  BY PutEffect, RowTypes DEF IInv, Sound
<1>1. TypeOK'
  <2>1. \A y \in Procs, j \in Ids : writes'[y][j] \in RowOf(j) \cup {NoRow, Untouched}
    BY <1>0, RowTypes DEF IInv, Sound
  <2> QED  BY <1>0, <2>1 DEF IInv, TypeOK
<1>2. WritersOK'
  <2>1. \A j \in Ids : rows'[j] # NoRow => j \in drawn'
    BY <1>0 DEF IInv, WritersOK
  <2>2. ASSUME NEW y \in Procs, NEW j \in Ids
        PROVE  /\ writes'[y][j] # Untouched => j \in drawn'
               /\ scope'[y] = NoShelter => writes'[y][j] = Untouched
               /\ Live(writes'[y][j]) => writes'[y][j].shelter = scope'[y]
               /\ writes'[y][j] # Untouched /\ rows'[j] # NoRow => rows'[j].shelter = scope'[y]
    <3>1. CASE y = x /\ j = i
      BY <1>0, <3>1 DEF Sound, Live
    <3>2. CASE ~(y = x /\ j = i)
      BY <1>0, <3>2 DEF IInv, WritersOK, Live
    <3> QED  BY <3>1, <3>2
  <2>3. \A y, z \in Procs, j \in Ids :
          y # z => writes'[y][j] = Untouched \/ writes'[z][j] = Untouched
    BY <1>0 DEF IInv, WritersOK, Sound
  <2> QED  BY <2>1, <2>2, <2>3 DEF WritersOK
<1>3. ParentsOK'
  <2>1. ASSUME NEW y \in Procs, NEW j \in Ids, NEW p \in Ids,
               Live(writes'[y][j]), ChildOf(j, writes'[y][j], p)
        PROVE  /\ View(y, p)' # NoRow /\ View(y, p)'.shelter = scope[y]
               /\ \A z \in Procs \ {y} : writes'[z][p] # NoRow
    <3>1. CASE y = x /\ j = i
      <4>1. /\ p # i /\ View(x, p) # NoRow /\ View(x, p).shelter = scope[x]
            /\ \A z \in Procs \ {x} : writes[z][p] # NoRow
        BY <1>0, <2>1, <3>1 DEF Sound, Live
      <4> QED  BY <1>0, <3>1, <4>1 DEF View
    <3>2. CASE ~(y = x /\ j = i)
      <4>1. writes'[y][j] = writes[y][j]
        BY <1>0, <3>2
      <4>2. /\ View(y, p) # NoRow /\ View(y, p).shelter = scope[y]
            /\ \A z \in Procs \ {y} : writes[z][p] # NoRow
        BY <2>1, <4>1 DEF IInv, ParentsOK
      <4>3. CASE p # i
        BY <1>0, <4>2, <4>3 DEF View
      <4>4. CASE p = i /\ y = x
        <5>1. View(x, j) = writes[x][j] /\ j # i
          BY <2>1, <3>2, <4>1, <4>4 DEF View, Live
        <5>2. r # NoRow
          BY <2>1, <4>1, <4>4, <5>1 DEF Sound
        <5> QED  BY <1>0, <4>2, <4>4, <5>2 DEF View, Sound
      <4>5. CASE p = i /\ y # x
        <5>1. j # i
          <6>1. writes[y][j] \in RowOf(j)
            BY <2>1, <4>1, RowTypes DEF Live, IInv
          <6> QED  BY <2>1, <4>1, <4>5, <6>1, NoSelfReference DEF IInv
        <5>2. r # NoRow
          BY <2>1, <4>1, <4>5, <5>1 DEF Sound
        <5> QED  BY <1>0, <4>2, <4>5, <5>2 DEF View
      <4> QED  BY <4>3, <4>4, <4>5
    <3> QED  BY <3>1, <3>2
  <2> QED  BY <1>0, <2>1 DEF IInv, ParentsOK
<1>4. DeletedOK'
  <2> SUFFICES ASSUME NEW y \in Procs, NEW k \in Ids, NEW j \in Ids, writes'[y][k] = NoRow,
                      writes'[y][j] = Untouched, rows[j] # NoRow
               PROVE  ~ChildOf(j, rows[j], k)
    BY <1>0 DEF DeletedOK
  <2>1. writes[y][j] = Untouched
    BY <1>0
  <2>2. CASE y = x /\ k = i
    <3>1. j # i /\ View(x, j) = rows[j] /\ Live(rows[j]) /\ r = NoRow
      BY <1>0, <2>1, <2>2, RowTypes DEF View, Live, IInv
    <3> QED  BY <2>2, <3>1 DEF Sound
  <2>3. CASE ~(y = x /\ k = i)
    BY <1>0, <2>1, <2>3 DEF IInv, DeletedOK
  <2> QED  BY <2>2, <2>3
<1>5. PublishedOK'
  <2>1. \A v \in Versions : rows[v] # NoRow /\ rows[v].published =>
          \A y \in Procs : writes'[y][v] = Untouched
    BY <1>0, RowTypes DEF IInv, PublishedOK, Sound
  <2>2. ASSUME NEW s \in Submissions, NEW y \in Procs,
               Live(writes'[y][s]), writes'[y][s].form
        PROVE  <<writes'[y][s].version, writes'[y][s].asked>> \in served
    <3>1. s \in Ids
      BY RowTypes DEF IInv
    <3>2. CASE y = x /\ s = i
      BY <1>0, <2>2, <3>2 DEF Sound, Live
    <3>3. CASE ~(y = x /\ s = i)
      <4>1. writes'[y][s] = writes[y][s]
        BY <1>0, <3>1, <3>3
      <4> QED  BY <2>2, <4>1 DEF IInv, PublishedOK
    <3> QED  BY <3>2, <3>3
  <2> QED  BY <1>0, <2>1, <2>2 DEF IInv, PublishedOK
<1>6. NumbersOK'
  <2> SUFFICES ASSUME NEW v \in Versions, NEW w \in Versions, v # w
               PROVE  /\ \A y \in Procs : writes'[y][v] = Untouched => ~Twins(rows[v], writes'[y][w])
                      /\ \A y, z \in Procs : ~Twins(writes'[y][v], writes'[z][w])
    BY <1>0 DEF IInv, NumbersOK
  <2>0. v \in Ids /\ w \in Ids
    BY RowTypes DEF IInv
  <2>1. \A q, u : Twins(q, u) => Twins(u, q)
    BY DEF Twins
  <2>2. ASSUME NEW y \in Procs, writes'[y][v] = Untouched
        PROVE  ~Twins(rows[v], writes'[y][w])
    <3>1. CASE y = x /\ w = i
      <4>1. View(x, v) = rows[v] /\ ~Twins(r, View(x, v))
        BY <1>0, <2>0, <2>2, <3>1 DEF View, Sound
      <4> QED  BY <1>0, <2>1, <3>1, <4>1
    <3>2. CASE ~(y = x /\ w = i)
      BY <1>0, <2>0, <2>2, <3>2 DEF IInv, NumbersOK
    <3> QED  BY <3>1, <3>2
  <2>3. ASSUME NEW z \in Procs, NEW u \in Versions, u # i, i \in Versions
        PROVE  ~Twins(r, writes'[z][u])
    <3>1. CASE z = x
      BY <1>0, <2>3, <3>1, RowTypes DEF Sound, View, Twins, Live, IInv
    <3>2. CASE z # x
      BY <1>0, <2>3, <3>2 DEF Sound
    <3> QED  BY <3>1, <3>2
  <2>4. ASSUME NEW y \in Procs, NEW z \in Procs
        PROVE  ~Twins(writes'[y][v], writes'[z][w])
    <3>1. CASE y = x /\ v = i
      BY <1>0, <2>3, <3>1
    <3>2. CASE z = x /\ w = i
      BY <1>0, <2>1, <2>3, <3>2
    <3>3. CASE ~(y = x /\ v = i) /\ ~(z = x /\ w = i)
      BY <1>0, <2>0, <3>3 DEF IInv, NumbersOK
    <3> QED  BY <3>1, <3>2, <3>3
  <2> QED  BY <2>2, <2>4
<1> QED  BY <1>1, <1>2, <1>3, <1>4, <1>5, <1>6 DEF IInv

-----------------------------------------------------------------------------
(* The statements.                                                         *)

\* A row drawn now is nobody's, and nothing refers to it.
LEMMA Undrawn ==
    ASSUME ConstantsAssumption, IInv, NEW i \in Ids, Draw(i)
    PROVE  /\ rows[i] = NoRow /\ \A y \in Procs : writes[y][i] = Untouched
           /\ drawn \subseteq drawn' /\ drawn' \subseteq Ids /\ i \in drawn'
BY DEF Draw, IInv, WritersOK, TypeOK

\* Composite keys find a parent of the transaction's shelter (00007 94-113).
LEMMA ParentFound ==
    ASSUME ConstantsAssumption, IInv, NEW x \in Procs, NEW p \in Ids, ParentExists(x, p)
    PROVE  /\ View(x, p) # NoRow /\ View(x, p).shelter = scope[x]
           /\ \A y \in Procs \ {x} : writes[y][p] # NoRow
BY DEF ParentExists, KeyLockedByOther

\* A number that is free has no twin, committed or not (00007 80-92).
LEMMA NumberIsFree ==
    ASSUME ConstantsAssumption, IInv, NEW x \in Procs, NEW r \in VersionRow,
           r.shelter = scope[x], NumberFree(x, r.template, r.number), NEW v \in Versions
    PROVE  /\ ~Twins(r, View(x, v))
           /\ \A y \in Procs \ {x} : /\ ~Twins(r, writes[y][v])
                                     /\ writes[y][v] # Untouched => ~Twins(r, rows[v])
<1>1. \A q \in {View(x, v)} \cup {writes[y][v] : y \in Procs \ {x}} : ~Twins(r, q)
  BY DEF NumberFree, Twins, Live
<1>2. LockedByOther(x, v) => ~Twins(r, rows[v])
  BY DEF NumberFree, Twins, Live
<1> QED  BY <1>1, <1>2 DEF LockedByOther

LEMMA InsertsKeep ==
    ASSUME ConstantsAssumption, IInv, NEW x \in Procs,
           \/ \E t \in Templates : CreateTemplate(x, t)
           \/ \E v \in Versions, t \in Templates, n \in 0..MaxNumber, d \in Definitions,
                 p \in BOOLEAN : InsertVersion(x, v, t, n, d, p)
           \/ \E s \in Submissions, v \in Versions, d \in Definitions :
                 RecordSubmission(x, s, v, d)
    PROVE  IInv'
<1>1. ASSUME NEW t \in Templates, CreateTemplate(x, t) PROVE IInv'
  <2> DEFINE r == [shelter |-> scope[x]]
  <2>1. /\ scope[x] # NoShelter /\ Draw(t) /\ Put(x, t, r)
        /\ UNCHANGED <<rows, scope, served>>
    BY <1>1 DEF CreateTemplate
  <2>2. t \in Ids /\ t \notin Versions /\ t \notin Submissions /\ scope[x] \in Shelters
    BY <2>1, RowTypes DEF IInv, TypeOK, ConstantsAssumption
  <2>3. r \in RowOf(t) /\ r # NoRow
    BY <2>2, RowTypes DEF IInv, TemplateRow
  <2>4. Sound(x, t, r)
    BY <2>1, <2>2, <2>3, Undrawn DEF Sound, ChildOf
  <2> HIDE DEF r
  <2> QED  BY <2>1, <2>2, <2>4, Undrawn, PutKeeps
<1>2. ASSUME NEW v \in Versions, NEW t \in Templates, NEW n \in 0..MaxNumber,
             NEW d \in Definitions, NEW p \in BOOLEAN, InsertVersion(x, v, t, n, d, p)
      PROVE  IInv'
  <2> DEFINE r == [shelter |-> scope[x], template |-> t, number |-> n,
                   definition |-> d, published |-> p]
  <2>1. /\ scope[x] # NoShelter /\ Draw(v) /\ Put(x, v, r) /\ ParentExists(x, t)
        /\ NumberFree(x, t, n) /\ n \in 1..MaxNumber
        /\ UNCHANGED <<rows, scope, served>>
    BY <1>2 DEF InsertVersion, ConstantsAssumption
  <2>2. v \in Ids /\ v \notin Submissions /\ t \in Ids /\ t # v /\ scope[x] \in Shelters
    BY <2>1, RowTypes DEF IInv, TypeOK, ConstantsAssumption
  <2>3. r \in VersionRow /\ r.shelter = scope[x] /\ r.template = t /\ r.number = n
    BY <2>1, <2>2 DEF VersionRow
  <2> HIDE DEF r
  <2>4. r \in RowOf(v) /\ r # NoRow
    BY <2>2, <2>3, RowTypes DEF IInv
  <2>5. \A q \in Ids : ChildOf(v, r, q) => q = t
    BY <2>2, <2>3 DEF ChildOf
  <2>6. /\ View(x, t) # NoRow /\ View(x, t).shelter = scope[x]
        /\ \A y \in Procs \ {x} : writes[y][t] # NoRow
    BY <2>1, <2>2, ParentFound
  <2>7. Sound(x, v, r)
    BY <2>1, <2>2, <2>3, <2>4, <2>5, <2>6, Undrawn, NumberIsFree DEF Sound
  <2> QED  BY <2>1, <2>2, <2>7, Undrawn, PutKeeps
<1>3. ASSUME NEW s \in Submissions, NEW v \in Versions, NEW d \in Definitions,
             RecordSubmission(x, s, v, d)
      PROVE  IInv'
  <2> DEFINE r == [shelter |-> scope[x], version |-> v, asked |-> d,
                   form |-> <<v, d>> \in served]
  <2>1. /\ scope[x] # NoShelter /\ Draw(s) /\ Put(x, s, r) /\ ParentExists(x, v)
        /\ UNCHANGED <<rows, scope, served>>
    BY <1>3 DEF RecordSubmission
  <2>2. s \in Ids /\ s \notin Versions /\ v \in Ids /\ v # s /\ scope[x] \in Shelters
    BY <2>1, RowTypes DEF IInv, TypeOK, ConstantsAssumption
  <2>3. /\ r \in SubmissionRow /\ r.shelter = scope[x] /\ r.version = v /\ r.asked = d
        /\ r.form => <<v, d>> \in served
    <3>1. \A f \in BOOLEAN :
            LET q == [shelter |-> scope[x], version |-> v, asked |-> d, form |-> f] IN
            /\ q \in SubmissionRow /\ q.shelter = scope[x] /\ q.version = v /\ q.asked = d
            /\ q.form = f
      BY <2>2 DEF SubmissionRow
    <3>2. (<<v, d>> \in served) \in BOOLEAN
      OBVIOUS
    <3> QED  BY <3>1, <3>2
  <2> HIDE DEF r
  <2>4. r \in RowOf(s) /\ r # NoRow
    BY <2>2, <2>3, RowTypes DEF IInv
  <2>5. \A q \in Ids : ChildOf(s, r, q) => q = v
    BY <2>2, <2>3 DEF ChildOf
  <2>6. /\ View(x, v) # NoRow /\ View(x, v).shelter = scope[x]
        /\ \A y \in Procs \ {x} : writes[y][v] # NoRow
    BY <2>1, <2>2, ParentFound
  <2>7. Sound(x, s, r)
    BY <2>1, <2>2, <2>3, <2>4, <2>5, <2>6, Undrawn DEF Sound
  <2> QED  BY <2>1, <2>2, <2>7, Undrawn, PutKeeps
<1> QED  BY <1>1, <1>2, <1>3

\* A row that is there to be changed: the transaction sees it, in its shelter,
\* and nobody else has written it.
LEMMA Changeable ==
    ASSUME ConstantsAssumption, IInv, NEW x \in Procs, NEW i \in Ids, Visible(x, i),
           ~LockedByOther(x, i)
    PROVE  /\ View(x, i) \in RowOf(i) /\ View(x, i).shelter = scope[x]
           /\ \A y \in Procs \ {x} : writes[y][i] = Untouched
           /\ rows[i] # NoRow => rows[i].shelter = scope[x]
           /\ i \in drawn /\ drawn \subseteq Ids
<1>1. View(x, i) \in RowOf(i) /\ View(x, i).shelter = scope[x]
  BY RowTypes DEF Visible, IInv
<1>2. \A y \in Procs \ {x} : writes[y][i] = Untouched
  BY DEF LockedByOther
<1>3. rows[i] # NoRow => rows[i].shelter = scope[x]
  <2>1. CASE writes[x][i] = Untouched
    BY <1>1, <2>1 DEF View
  <2>2. CASE writes[x][i] # Untouched
    BY <2>2 DEF IInv, WritersOK
  <2> QED  BY <2>1, <2>2
<1>4. i \in drawn
  <2>1. View(x, i) # NoRow
    BY DEF Visible
  <2>2. NoRow # Untouched
    BY RowTypes DEF IInv
  <2> QED  BY <2>1, <2>2 DEF View, IInv, WritersOK
<1> QED  BY <1>1, <1>2, <1>3, <1>4 DEF IInv, TypeOK

\* ON DELETE RESTRICT leaves nothing that refers to the row (00008 52-65).
LEMMA ChildlessMeans ==
    ASSUME ConstantsAssumption, IInv, NEW x \in Procs, NEW i \in Ids, Childless(x, i)
    PROVE  \A j \in Ids :
             /\ Live(View(x, j)) => ~ChildOf(j, View(x, j), i)
             /\ \A y \in Procs \ {x} : Live(writes[y][j]) => ~ChildOf(j, writes[y][j], i)
<1> SUFFICES ASSUME NEW j \in Ids
             PROVE  /\ Live(View(x, j)) => ~ChildOf(j, View(x, j), i)
                    /\ \A y \in Procs \ {x} : Live(writes[y][j]) =>
                          ~ChildOf(j, writes[y][j], i)
  OBVIOUS
<1>1. \A y \in Procs \ {x} : Children(writes[y], i) = {}
  BY DEF Childless, Shared
<1>2. \A y \in Procs \ {x} : Live(writes[y][j]) => ~ChildOf(j, writes[y][j], i)
  BY <1>1 DEF Children, Live, ChildOf
<1>3. Live(View(x, j)) => ~ChildOf(j, View(x, j), i)
  <2> DEFINE table == [k \in Ids |-> View(x, k)]
  <2>1. Children(table, i) = {}
    BY DEF Childless
  <2>2. table[j] = View(x, j)
    OBVIOUS
  <2> HIDE DEF table
  <2> QED  BY <2>1, <2>2 DEF Children, Live, ChildOf
<1> QED  BY <1>2, <1>3

LEMMA DeletesKeep ==
    ASSUME ConstantsAssumption, IInv, NEW x \in Procs,
           \/ \E t \in Templates : DeleteTemplate(x, t)
           \/ \E v \in Versions : DeleteVersion(x, v)
           \/ \E s \in Submissions : DeleteSubmission(x, s)
    PROVE  IInv'
<1>1. ASSUME NEW i \in Ids, scope[x] # NoShelter, Visible(x, i), ~LockedByOther(x, i),
             Put(x, i, NoRow), UNCHANGED <<rows, scope, drawn, served>>,
             \A j \in Ids : /\ Live(View(x, j)) => ~ChildOf(j, View(x, j), i)
                            /\ \A y \in Procs \ {x} : Live(writes[y][j]) =>
                                  ~ChildOf(j, writes[y][j], i),
             i \in Versions /\ rows[i] # NoRow => ~rows[i].published
      PROVE  IInv'
  <2>1. Sound(x, i, NoRow)
    BY <1>1, Changeable DEF Sound, Twins, Live
  <2> QED  BY <1>1, <2>1, Changeable, PutKeeps
<1>2. ASSUME NEW t \in Templates, DeleteTemplate(x, t) PROVE IInv'
  <2>1. t \in Ids /\ t \notin Versions
    BY RowTypes DEF IInv, ConstantsAssumption
  <2> QED  BY <1>1, <1>2, <2>1, ChildlessMeans DEF DeleteTemplate
<1>3. ASSUME NEW v \in Versions, DeleteVersion(x, v) PROVE IInv'
  <2>1. v \in Ids
    BY RowTypes DEF IInv
  <2>2. rows[v] # NoRow => ~rows[v].published
    BY <1>3 DEF DeleteVersion, Frozen, View, IInv, PublishedOK
  <2> QED  BY <1>1, <1>3, <2>1, <2>2, ChildlessMeans DEF DeleteVersion
<1>4. ASSUME NEW s \in Submissions, DeleteSubmission(x, s) PROVE IInv'
  <2>1. s \in Ids /\ s \notin Versions /\ s \notin Templates
    BY RowTypes DEF IInv, ConstantsAssumption
  <2>2. \A j \in Ids : \A r : r \in RowOf(j) => ~ChildOf(j, r, s)
    BY <2>1, RowTypes DEF IInv, ChildOf, VersionRow, SubmissionRow, ConstantsAssumption
  <2>3. \A j \in Ids : /\ Live(View(x, j)) => ~ChildOf(j, View(x, j), s)
                       /\ \A y \in Procs \ {x} : Live(writes[y][j]) =>
                             ~ChildOf(j, writes[y][j], s)
    BY <2>2, RowTypes DEF IInv, Live
  <2> QED  BY <1>1, <1>4, <2>1, <2>3 DEF DeleteSubmission
<1> QED  BY <1>2, <1>3, <1>4

\* A draft is rewritten in any way the grant allows (00007 58-150).
LEMMA UpdateKeeps ==
    ASSUME ConstantsAssumption, IInv, NEW x \in Procs, NEW v \in Versions,
           NEW t \in Templates, NEW n \in 1..MaxNumber, NEW d \in Definitions,
           NEW p \in BOOLEAN, UpdateVersion(x, v, t, n, d, p)
    PROVE  IInv'
<1> DEFINE old == View(x, v)
           new == [old EXCEPT !.template = t, !.number = n, !.definition = d,
                              !.published = p]
<1>1. /\ scope[x] # NoShelter /\ Visible(x, v) /\ ~LockedByOther(x, v) /\ ~old.published
      /\ <<t, n>> # <<old.template, old.number>> => NumberFree(x, t, n)
      /\ t # old.template => ParentExists(x, t)
      /\ Put(x, v, new) /\ UNCHANGED <<rows, scope, drawn, served>>
  BY DEF UpdateVersion, Frozen
<1>2. /\ v \in Ids /\ t \in Ids /\ v \notin Submissions /\ t # v
  BY RowTypes DEF IInv, ConstantsAssumption
<1>3. /\ old \in RowOf(v) /\ old \in VersionRow /\ old.shelter = scope[x]
      /\ \A y \in Procs \ {x} : writes[y][v] = Untouched
      /\ rows[v] # NoRow => rows[v].shelter = scope[x]
      /\ v \in drawn /\ drawn \subseteq Ids
  BY <1>1, <1>2, Changeable, RowTypes DEF IInv
<1>4. /\ new \in VersionRow /\ new.shelter = scope[x] /\ new.template = t /\ new.number = n
  BY <1>3 DEF VersionRow
<1>5. old = writes[x][v] \/ (old = rows[v] /\ writes[x][v] = Untouched)
  BY DEF View
<1>6. old # NoRow /\ old # Untouched
  BY <1>2, <1>3, RowTypes DEF IInv
<1> HIDE DEF old, new
<1>7. new \in RowOf(v) /\ new # NoRow
  BY <1>2, <1>4, RowTypes DEF IInv
<1>8. /\ View(x, t) # NoRow /\ View(x, t).shelter = scope[x]
      /\ \A y \in Procs \ {x} : writes[y][t] # NoRow
  <2>1. CASE t # old.template
    BY <1>1, <1>2, <2>1, ParentFound
  <2>2. CASE t = old.template
    <3>1. ChildOf(v, old, t)
      BY <2>2 DEF ChildOf
    <3>2. CASE old = writes[x][v]
      BY <1>2, <1>6, <3>1, <3>2 DEF IInv, ParentsOK, Live
    <3>3. CASE old = rows[v] /\ writes[x][v] = Untouched
      <4>1. rows[t] # NoRow /\ rows[t].shelter = scope[x]
        BY <1>2, <1>3, <1>6, <3>1, <3>3 DEF IInv, ParentsOK
      <4>2. \A y \in Procs : writes[y][v] = Untouched
        BY <1>3, <3>3
      <4>3. \A y \in Procs : writes[y][t] # NoRow
        BY <1>2, <1>6, <3>1, <3>3, <4>2 DEF IInv, DeletedOK
      <4>4. writes[x][t] # Untouched => Live(writes[x][t]) /\ writes[x][t].shelter = scope[x]
        BY <1>2, <4>3 DEF IInv, WritersOK, Live
      <4>5. View(x, t) # NoRow /\ View(x, t).shelter = scope[x]
        BY <4>1, <4>3, <4>4 DEF View
      <4> QED  BY <4>3, <4>5
    <3> QED  BY <1>5, <3>2, <3>3
  <2> QED  BY <2>1, <2>2
<1>9. ASSUME NEW w \in Versions \ {v}
      PROVE  /\ ~Twins(new, View(x, w))
             /\ \A y \in Procs \ {x} : /\ ~Twins(new, writes[y][w])
                                       /\ writes[y][w] # Untouched => ~Twins(new, rows[w])
  <2>1. CASE <<t, n>> # <<old.template, old.number>>
    BY <1>1, <1>4, <2>1, NumberIsFree
  <2>2. CASE <<t, n>> = <<old.template, old.number>>
    <3>1. old.template = t /\ old.number = n
      BY <2>2
    <3>2. \A q : Twins(new, q) => Twins(old, q) /\ Twins(q, old)
      BY <1>3, <1>4, <1>6, <3>1 DEF Twins, Live
    <3>3. CASE old = writes[x][v]
      <4>1. /\ \A y \in Procs : ~Twins(old, writes[y][w])
            /\ writes[x][w] = Untouched => ~Twins(rows[w], old)
        BY <3>3 DEF IInv, NumbersOK
      <4>2. \A y \in Procs \ {x} : writes[y][w] # Untouched => writes[x][w] = Untouched
        BY RowTypes DEF IInv, WritersOK
      <4> QED  BY <3>2, <4>1, <4>2 DEF View
    <3>4. CASE old = rows[v] /\ writes[x][v] = Untouched
      <4>1. \A y \in Procs : writes[y][v] = Untouched
        BY <1>3, <3>4
      <4>2. /\ ~Twins(old, rows[w])
            /\ \A y \in Procs : ~Twins(old, writes[y][w])
        BY <3>4, <4>1 DEF IInv, NumbersOK
      <4> QED  BY <3>2, <4>2 DEF View
    <3> QED  BY <1>5, <3>3, <3>4
  <2> QED  BY <2>1, <2>2
<1>10. rows[v] # NoRow => ~rows[v].published
  BY <1>1, <1>5 DEF IInv, PublishedOK, View, old
<1>11. \A q \in Ids : ChildOf(v, new, q) => q = t
  BY <1>2, <1>4 DEF ChildOf
<1>12. Sound(x, v, new)
  BY <1>1, <1>2, <1>3, <1>4, <1>7, <1>8, <1>9, <1>10, <1>11 DEF Sound
<1> QED  BY <1>1, <1>2, <1>3, <1>12, PutKeeps

-----------------------------------------------------------------------------
(* The ends of a transaction, and a form served.                           *)

\* An ended transaction has written nothing.
LEMMA EndEffect ==
    ASSUME TypeOK, NEW x \in Procs, End(x)
    PROVE  /\ DOMAIN writes' = Procs /\ \A y \in Procs : DOMAIN writes'[y] = Ids
           /\ \A i \in Ids : writes'[x][i] = Untouched
           /\ \A y \in Procs \ {x} : writes'[y] = writes[y] /\ scope'[y] = scope[y]
           /\ scope' \in [Procs -> Shelters \cup {NoShelter}]
           /\ drawn' = drawn /\ served' = served
BY DEF TypeOK, End

\* A commit makes the rows of its transaction everybody's; what other
\* transactions rely on stays (tenant.go 41-95).
LEMMA CommitKeeps ==
    ASSUME ConstantsAssumption, IInv, NEW x \in Procs, Commit(x)
    PROVE  IInv'
<1>1. /\ scope[x] # NoShelter /\ End(x) /\ DOMAIN rows' = Ids
      /\ \A i \in Ids : rows'[i] = View(x, i)
  BY DEF Commit
<1>2. /\ DOMAIN writes' = Procs /\ \A y \in Procs : DOMAIN writes'[y] = Ids
      /\ \A i \in Ids : writes'[x][i] = Untouched
      /\ \A y \in Procs \ {x} : writes'[y] = writes[y] /\ scope'[y] = scope[y]
      /\ scope' \in [Procs -> Shelters \cup {NoShelter}]
      /\ drawn' = drawn /\ served' = served
  BY <1>1, EndEffect DEF IInv
<1>3. \A i \in Ids : \/ writes[x][i] = Untouched /\ rows'[i] = rows[i]
                     \/ writes[x][i] # Untouched /\ rows'[i] = writes[x][i]
  BY <1>1 DEF View
<1>4. \A i \in Ids, y \in Procs \ {x} : writes[y][i] # Untouched =>
         writes[x][i] = Untouched /\ rows'[i] = rows[i]
  BY <1>3 DEF IInv, WritersOK
<1>5. \A i \in Ids : rows'[i] \in RowOf(i) \cup {NoRow} /\ rows'[i] # Untouched
  BY <1>1, RowTypes DEF IInv
<1>6. TypeOK'
  <2>1. \A y \in Procs, i \in Ids : writes'[y][i] \in RowOf(i) \cup {NoRow, Untouched}
    BY <1>2, RowTypes DEF IInv
  <2> QED  BY <1>1, <1>2, <1>5, <2>1 DEF IInv, TypeOK
<1>7. WritersOK'
  <2>1. \A i \in Ids : rows'[i] # NoRow => i \in drawn'
    BY <1>2, <1>3 DEF IInv, WritersOK
  <2>2. \A y \in Procs, i \in Ids :
           /\ writes'[y][i] # Untouched => i \in drawn'
           /\ scope'[y] = NoShelter => writes'[y][i] = Untouched
           /\ Live(writes'[y][i]) => writes'[y][i].shelter = scope'[y]
           /\ writes'[y][i] # Untouched /\ rows'[i] # NoRow => rows'[i].shelter = scope'[y]
    BY <1>2, <1>4 DEF IInv, WritersOK, Live
  <2>3. \A y, z \in Procs, i \in Ids :
          y # z => writes'[y][i] = Untouched \/ writes'[z][i] = Untouched
    BY <1>2 DEF IInv, WritersOK
  <2> QED  BY <2>1, <2>2, <2>3 DEF WritersOK
<1>8. ParentsOK'
  <2>1. ASSUME NEW j \in Ids, NEW q \in Ids, rows'[j] # NoRow, ChildOf(j, rows'[j], q)
        PROVE  rows'[q] # NoRow /\ rows'[q].shelter = rows'[j].shelter
    <3>1. CASE writes[x][j] # Untouched
      <4>1. Live(writes[x][j]) /\ rows'[j] = writes[x][j]
        BY <1>3, <2>1, <3>1 DEF Live
      <4>2. View(x, q) # NoRow /\ View(x, q).shelter = scope[x]
            /\ writes[x][j].shelter = scope[x]
        BY <2>1, <4>1 DEF IInv, ParentsOK, WritersOK
      <4> QED  BY <1>1, <4>1, <4>2
    <3>2. CASE writes[x][j] = Untouched
      <4>1. rows'[j] = rows[j] /\ rows[q] # NoRow /\ rows[q].shelter = rows[j].shelter
        BY <1>3, <2>1, <3>2 DEF IInv, ParentsOK
      <4>2. writes[x][q] # NoRow
        BY <2>1, <3>2, <4>1 DEF IInv, DeletedOK
      <4>3. writes[x][q] # Untouched =>
              writes[x][q].shelter = scope[x] /\ rows[q].shelter = scope[x]
        BY <4>1, <4>2 DEF IInv, WritersOK, Live
      <4> QED  BY <1>3, <4>1, <4>2, <4>3
    <3> QED  BY <3>1, <3>2
  <2>2. ASSUME NEW y \in Procs, NEW j \in Ids, NEW q \in Ids,
               Live(writes'[y][j]), ChildOf(j, writes'[y][j], q)
        PROVE  /\ View(y, q)' # NoRow /\ View(y, q)'.shelter = scope'[y]
               /\ \A z \in Procs \ {y} : writes'[z][q] # NoRow
    <3>1. y # x /\ writes'[y] = writes[y] /\ scope'[y] = scope[y]
      BY <1>2, <2>2 DEF Live
    <3>2. /\ View(y, q) # NoRow /\ View(y, q).shelter = scope[y]
          /\ \A z \in Procs \ {y} : writes[z][q] # NoRow
      BY <2>2, <3>1 DEF IInv, ParentsOK
    <3>3. \A z \in Procs \ {y} : writes'[z][q] # NoRow
      BY <1>2, <3>2, RowTypes DEF IInv
    <3>4. CASE writes[y][q] # Untouched
      BY <3>1, <3>2, <3>3, <3>4 DEF View
    <3>5. CASE writes[y][q] = Untouched
      <4>1. rows[q] # NoRow /\ rows[q].shelter = scope[y]
        BY <3>2, <3>5 DEF View
      <4>2. writes[x][q] # Untouched =>
              writes[x][q].shelter = scope[x] /\ rows[q].shelter = scope[x]
        BY <3>1, <3>2, <4>1 DEF IInv, WritersOK, Live
      <4>3. rows'[q] # NoRow /\ rows'[q].shelter = scope[y]
        BY <1>3, <3>1, <3>2, <4>1, <4>2
      <4> QED  BY <3>1, <3>3, <3>5, <4>3 DEF View
    <3> QED  BY <3>4, <3>5
  <2> QED  BY <2>1, <2>2 DEF ParentsOK
<1>9. DeletedOK'
  <2> SUFFICES ASSUME NEW y \in Procs, NEW i \in Ids, NEW j \in Ids, writes'[y][i] = NoRow,
                      writes'[y][j] = Untouched, rows'[j] # NoRow
               PROVE  ~ChildOf(j, rows'[j], i)
    BY DEF DeletedOK
  <2>1. y # x /\ writes[y][i] = NoRow /\ writes[y][j] = Untouched
    BY <1>2, RowTypes DEF IInv
  <2>2. CASE writes[x][j] = Untouched
    BY <1>3, <2>1, <2>2 DEF IInv, DeletedOK
  <2>3. CASE writes[x][j] # Untouched
    <3>1. Live(writes[x][j]) /\ rows'[j] = writes[x][j]
      BY <1>3, <2>3 DEF Live
    <3> QED  BY <2>1, <3>1 DEF IInv, ParentsOK
  <2> QED  BY <2>2, <2>3
<1>10. PublishedOK'
  <2>0. Versions \subseteq Ids /\ Submissions \subseteq Ids
    BY RowTypes DEF IInv
  <2>1. \A v \in Versions : rows'[v] # NoRow /\ rows'[v].published =>
          \A y \in Procs : writes'[y][v] = Untouched
    BY <1>2, <1>3, <1>4, <2>0 DEF IInv, PublishedOK
  <2>2. \A v \in Versions, d \in Definitions : <<v, d>> \in served' =>
          rows'[v] # NoRow /\ rows'[v].published /\ rows'[v].definition = d
    BY <1>2, <1>3, <2>0 DEF IInv, PublishedOK
  <2>3. \A s \in Submissions : rows'[s] # NoRow /\ rows'[s].form =>
          <<rows'[s].version, rows'[s].asked>> \in served'
    <3> SUFFICES ASSUME NEW s \in Submissions, rows'[s] # NoRow, rows'[s].form
                 PROVE  <<rows'[s].version, rows'[s].asked>> \in served
      BY <1>2
    <3>1. s \in Ids
      BY <2>0
    <3>2. CASE writes[x][s] = Untouched
      <4>1. rows'[s] = rows[s]
        BY <1>3, <3>1, <3>2
      <4> QED  BY <4>1 DEF IInv, PublishedOK
    <3>3. CASE writes[x][s] # Untouched
      <4>1. rows'[s] = writes[x][s] /\ Live(writes[x][s])
        BY <1>3, <3>1, <3>3 DEF Live
      <4> QED  BY <4>1 DEF IInv, PublishedOK
    <3> QED  BY <3>2, <3>3
  <2>4. ASSUME NEW s \in Submissions, NEW y \in Procs,
               Live(writes'[y][s]), writes'[y][s].form
        PROVE  <<writes'[y][s].version, writes'[y][s].asked>> \in served'
    <3>1. writes'[y] = writes[y]
      BY <1>2, <2>0, <2>4 DEF Live
    <3> QED  BY <1>2, <2>4, <3>1 DEF IInv, PublishedOK
  <2> QED  BY <2>1, <2>2, <2>3, <2>4 DEF PublishedOK
<1>11. NumbersOK'
  <2> SUFFICES ASSUME NEW v \in Versions, NEW w \in Versions, v # w
               PROVE  /\ ~Twins(rows'[v], rows'[w])
                      /\ \A y \in Procs : writes'[y][v] = Untouched =>
                            ~Twins(rows'[v], writes'[y][w])
                      /\ \A y, z \in Procs : ~Twins(writes'[y][v], writes'[z][w])
    BY DEF NumbersOK
  <2>0. v \in Ids /\ w \in Ids
    BY RowTypes DEF IInv
  <2>1. \A q, u : Twins(q, u) => Twins(u, q) /\ Live(q) /\ Live(u)
    BY DEF Twins
  <2>2. ~Twins(rows'[v], rows'[w])
    BY <1>3, <2>0, <2>1 DEF IInv, NumbersOK
  <2>3. \A y \in Procs : writes'[y][v] = Untouched => ~Twins(rows'[v], writes'[y][w])
    BY <1>2, <1>3, <2>0, <2>1 DEF IInv, NumbersOK, Live
  <2>4. \A y, z \in Procs : ~Twins(writes'[y][v], writes'[z][w])
    BY <1>2, <2>0, <2>1 DEF IInv, NumbersOK, Live
  <2> QED  BY <2>2, <2>3, <2>4
<1> QED  BY <1>6, <1>7, <1>8, <1>9, <1>10, <1>11 DEF IInv

\* A transaction that fails takes its rows with it.
LEMMA FailKeeps ==
    ASSUME ConstantsAssumption, IInv, NEW x \in Procs, Fail(x)
    PROVE  IInv'
<1>1. /\ DOMAIN writes' = Procs /\ \A y \in Procs : DOMAIN writes'[y] = Ids
      /\ \A i \in Ids : writes'[x][i] = Untouched
      /\ \A y \in Procs \ {x} : writes'[y] = writes[y] /\ scope'[y] = scope[y]
      /\ scope' \in [Procs -> Shelters \cup {NoShelter}]
      /\ drawn' = drawn /\ served' = served /\ rows' = rows
  BY EndEffect DEF Fail, IInv
<1>2. TypeOK'
  <2>1. \A y \in Procs, i \in Ids : writes'[y][i] \in RowOf(i) \cup {NoRow, Untouched}
    BY <1>1, RowTypes DEF IInv
  <2> QED  BY <1>1, <2>1 DEF IInv, TypeOK
<1>3. WritersOK'
  BY <1>1 DEF IInv, WritersOK, Live
<1>4. ParentsOK'
  <2>1. ASSUME NEW y \in Procs, NEW j \in Ids, NEW q \in Ids,
               Live(writes'[y][j]), ChildOf(j, writes'[y][j], q)
        PROVE  /\ View(y, q)' # NoRow /\ View(y, q)'.shelter = scope'[y]
               /\ \A z \in Procs \ {y} : writes'[z][q] # NoRow
    <3>1. y # x /\ writes'[y] = writes[y] /\ scope'[y] = scope[y]
      BY <1>1, <2>1 DEF Live
    <3> QED  BY <1>1, <2>1, <3>1, RowTypes DEF IInv, ParentsOK, View
  <2> QED  BY <1>1, <2>1 DEF IInv, ParentsOK
<1>5. DeletedOK'
  BY <1>1, RowTypes DEF IInv, DeletedOK
<1>6. PublishedOK'
  <2>0. Versions \subseteq Ids /\ Submissions \subseteq Ids
    BY RowTypes DEF IInv
  <2> QED  BY <1>1, <2>0 DEF IInv, PublishedOK, Live
<1>7. NumbersOK'
  <2>0. Versions \subseteq Ids
    BY RowTypes DEF IInv
  <2> QED  BY <1>1, <2>0 DEF IInv, NumbersOK, Live, Twins
<1> QED  BY <1>2, <1>3, <1>4, <1>5, <1>6, <1>7 DEF IInv

LEMMA BeginKeeps ==
    ASSUME ConstantsAssumption, IInv, NEW x \in Procs, NEW s \in Shelters, Begin(x, s)
    PROVE  IInv'
<1>1. /\ scope[x] = NoShelter /\ scope'[x] = s
      /\ \A y \in Procs \ {x} : scope'[y] = scope[y]
      /\ scope' \in [Procs -> Shelters \cup {NoShelter}]
      /\ UNCHANGED <<rows, writes, drawn, served>>
  BY DEF Begin, IInv, TypeOK
<1>2. \A i \in Ids : writes[x][i] = Untouched
  BY <1>1 DEF IInv, WritersOK
<1>3. TypeOK'
  BY <1>1 DEF IInv, TypeOK
<1>4. WritersOK'
  BY <1>1, <1>2 DEF IInv, WritersOK, Live
<1>5. ParentsOK'
  BY <1>1, <1>2 DEF IInv, ParentsOK, Live, View
<1>6. DeletedOK' /\ PublishedOK' /\ NumbersOK'
  BY <1>1 DEF IInv, DeletedOK, PublishedOK, NumbersOK
<1> QED  BY <1>3, <1>4, <1>5, <1>6 DEF IInv

\* What is served is a committed version that is published (forms.sql 13-27).
LEMMA ServeKeeps ==
    ASSUME ConstantsAssumption, IInv, NEW t \in Templates, GetLatestPublishedVersion(t)
    PROVE  IInv'
<1>1. PICK v \in Published(t) : served' = served \cup {<<v, rows[v].definition>>}
  BY DEF GetLatestPublishedVersion
<1>2. /\ v \in Versions /\ rows[v] # NoRow /\ rows[v].published
      /\ rows[v].definition \in Definitions
      /\ UNCHANGED <<rows, writes, scope, drawn>>
  BY <1>1, RowTypes DEF Published, GetLatestPublishedVersion, IInv, VersionRow
<1>3. TypeOK'
  BY <1>1, <1>2 DEF IInv, TypeOK
<1>4. WritersOK' /\ ParentsOK' /\ DeletedOK' /\ NumbersOK'
  BY <1>2 DEF IInv, WritersOK, ParentsOK, DeletedOK, NumbersOK, View
<1>5. PublishedOK'
  <2>1. \A w \in Versions, d \in Definitions : <<w, d>> \in served' =>
          rows[w] # NoRow /\ rows[w].published /\ rows[w].definition = d
    BY <1>1, <1>2 DEF IInv, PublishedOK
  <2>2. served \subseteq served'
    BY <1>1
  <2> QED  BY <1>2, <2>1, <2>2 DEF IInv, PublishedOK
<1> QED  BY <1>3, <1>4, <1>5 DEF IInv

-----------------------------------------------------------------------------
(* The theorems.                                                           *)

\* Every step of every handler keeps the invariant.
LEMMA Step ==
    ASSUME IInv, [Next]_vars
    PROVE  IInv'
<1>1. ConstantsAssumption
  BY ConstantsAssumption
<1>2. ASSUME NEW x \in Procs, NEW s \in Shelters, Begin(x, s) PROVE IInv'
  BY <1>1, <1>2, BeginKeeps
<1>3. ASSUME NEW x \in Procs,
             \/ \E t \in Templates : CreateTemplate(x, t)
             \/ \E v \in Versions, t \in Templates, n \in 0..MaxNumber, d \in Definitions,
                   p \in BOOLEAN : InsertVersion(x, v, t, n, d, p)
             \/ \E s \in Submissions, v \in Versions, d \in Definitions :
                   RecordSubmission(x, s, v, d)
      PROVE  IInv'
  BY <1>1, <1>3, InsertsKeep
<1>4. ASSUME NEW x \in Procs,
             \/ \E t \in Templates : DeleteTemplate(x, t)
             \/ \E v \in Versions : DeleteVersion(x, v)
             \/ \E s \in Submissions : DeleteSubmission(x, s)
      PROVE  IInv'
  BY <1>1, <1>4, DeletesKeep
<1>5. ASSUME NEW x \in Procs, NEW v \in Versions, NEW t \in Templates,
             NEW n \in 1..MaxNumber, NEW d \in Definitions, NEW p \in BOOLEAN,
             UpdateVersion(x, v, t, n, d, p)
      PROVE  IInv'
  BY <1>1, <1>5, UpdateKeeps
<1>6. ASSUME NEW x \in Procs, Commit(x) PROVE IInv'
  BY <1>1, <1>6, CommitKeeps
<1>7. ASSUME NEW x \in Procs, Fail(x) PROVE IInv'
  BY <1>1, <1>7, FailKeeps
<1>8. ASSUME NEW t \in Templates, GetLatestPublishedVersion(t) PROVE IInv'
  BY <1>1, <1>8, ServeKeeps
<1>9. CASE UNCHANGED vars
  <2>1. TypeOK'
    BY <1>9 DEF vars, IInv, TypeOK
  <2>2. WritersOK' /\ DeletedOK' /\ PublishedOK' /\ NumbersOK'
    BY <1>9 DEF vars, IInv, WritersOK, DeletedOK, PublishedOK, NumbersOK
  <2>3. ParentsOK'
    BY <1>9 DEF vars, IInv, ParentsOK, View
  <2> QED  BY <2>1, <2>2, <2>3 DEF IInv
<1> QED  BY <1>2, <1>3, <1>4, <1>5, <1>6, <1>7, <1>8, <1>9 DEF Next

\* The invariant of the tables and of what is being written to them.
THEOREM Invariance == Spec => []IInv
<1>1. Init => IInv
  BY DEF Init, IInv, TypeOK, WritersOK, ParentsOK, DeletedOK, PublishedOK, NumbersOK, Live,
         Twins, Ids
<1> QED  BY <1>1, Step, PTL DEF Spec

\* An answer to a published form keeps its questions, whoever does what beside it
\* (00007 3-14, 00008 3-6).
THEOREM AnswersStayReadable == Spec => []PublishedAnswersStayReadable
<1>1. ConstantsAssumption
  BY ConstantsAssumption
<1>2. IInv => PublishedAnswersStayReadable
  <2> SUFFICES ASSUME IInv, NEW s \in Submissions, rows[s] # NoRow, rows[s].form
               PROVE  Kept(s)
    BY DEF PublishedAnswersStayReadable
  <2>1. rows[s] \in SubmissionRow
    BY <1>1, RowTypes DEF IInv
  <2>2. rows[s].version \in Versions /\ rows[s].asked \in Definitions
    BY <2>1 DEF SubmissionRow
  <2>3. <<rows[s].version, rows[s].asked>> \in served
    BY DEF IInv, PublishedOK
  <2> QED  BY <2>2, <2>3 DEF IInv, PublishedOK, Kept
<1> QED  BY <1>2, Invariance, PTL

\* The composite keys keep rows within their shelter although they are checked
\* past row security (00007 94-113, 00008 52-65).
THEOREM RowsStayInTheirShelter == Spec => []OneShelterThroughout
<1>1. ConstantsAssumption
  BY ConstantsAssumption
<1>2. IInv => OneShelterThroughout
  <2> SUFFICES ASSUME IInv PROVE OneShelterThroughout
    OBVIOUS
  <2>1. ASSUME NEW v \in Versions, rows[v] # NoRow
        PROVE  /\ rows[rows[v].template] # NoRow
               /\ rows[rows[v].template].shelter = rows[v].shelter
    <3>1. v \in Ids /\ rows[v] \in VersionRow
      BY <1>1, <2>1, RowTypes DEF IInv
    <3>2. rows[v].template \in Ids /\ ChildOf(v, rows[v], rows[v].template)
      BY <1>1, <3>1, RowTypes DEF IInv, VersionRow, ChildOf
    <3> QED  BY <2>1, <3>1, <3>2 DEF IInv, ParentsOK
  <2>2. ASSUME NEW s \in Submissions, rows[s] # NoRow
        PROVE  /\ rows[rows[s].version] # NoRow
               /\ rows[rows[s].version].shelter = rows[s].shelter
    <3>1. s \in Ids /\ rows[s] \in SubmissionRow
      BY <1>1, <2>2, RowTypes DEF IInv
    <3>2. rows[s].version \in Ids /\ ChildOf(s, rows[s], rows[s].version)
      BY <1>1, <3>1, RowTypes DEF IInv, SubmissionRow, ChildOf
    <3> QED  BY <2>2, <3>1, <3>2 DEF IInv, ParentsOK
  <2> QED  BY <2>1, <2>2 DEF OneShelterThroughout
<1> QED  BY <1>2, Invariance, PTL

\* Among versions there is one with the highest number.
LEMMA HighestExists ==
    ASSUME NEW S, S # {}, NEW n \in Nat, NEW number \in [S -> 1..n]
    PROVE  \E w \in S : \A v \in S : number[v] <= number[w]
<1> DEFINE T == {n - number[v] : v \in S}
           R == OpToRel(<, Nat)
<1> HIDE DEF R
<1>1. T \subseteq Nat /\ T # {}
  <2>1. \A v \in S : n - number[v] \in Nat
    OBVIOUS
  <2>2. PICK v \in S : TRUE
    OBVIOUS
  <2>3. n - number[v] \in T
    BY <2>2
  <2> QED  BY <2>1, <2>3
<1>2. PICK t \in T : \A u \in T : ~(<<u, t>> \in R)
  <2> HIDE DEF T
  <2>1. IsWellFoundedOn(R, Nat)
    BY NatLessThanWellFounded DEF R
  <2> QED  BY <1>1, <2>1, WFMin
<1>3. \A u \in T : ~(u < t)
  <2> TAKE u \in T
  <2> HIDE DEF T
  <2>1. u \in Nat /\ t \in Nat
    BY <1>1, <1>2
  <2> QED  BY <1>2, <2>1 DEF OpToRel, R
<1>4. PICK w \in S : t = n - number[w]
  BY <1>2
<1>5. \A v \in S : number[v] <= number[w]
  <2> TAKE v \in S
  <2>1. ~(n - number[v] < n - number[w])
    BY <1>3, <1>4
  <2> QED  BY <2>1
<1> QED  BY <1>4, <1>5

\* A commit adds published versions and takes none away.
LEMMA PublishedStays ==
    ASSUME ConstantsAssumption, IInv, NEW x \in Procs, Commit(x), NEW t \in Templates,
           NEW v \in Published(t)
    PROVE  v \in Published(t)' /\ rows'[v] = rows[v]
<1>1. v \in Versions /\ v \in Ids /\ rows[v] # NoRow /\ rows[v].published
  BY RowTypes DEF Published, IInv
<1>2. writes[x][v] = Untouched
  BY <1>1 DEF IInv, PublishedOK
<1>3. rows'[v] = rows[v]
  BY <1>1, <1>2 DEF Commit, View
<1> QED  BY <1>1, <1>3 DEF Published

\* Published versions of one template differ in their numbers (00007 80-92), in
\* any table whose rows have their parents and no twins.
LEMMA PublishedDiffer ==
    ASSUME ConstantsAssumption, NEW table, NEW t \in Templates,
           NEW v \in Versions, NEW w \in Versions,
           \A u \in Versions : table[u] \in VersionRow \cup {NoRow},
           \A u \in Versions : table[u] # NoRow =>
             table[table[u].template].shelter = table[u].shelter,
           \A u, q \in Versions : u # q => ~Twins(table[u], table[q]),
           table[v] # NoRow, table[v].template = t,
           table[w] # NoRow, table[w].template = t,
           table[v].number = table[w].number
    PROVE  v = w
<1> SUFFICES ASSUME v # w PROVE FALSE
  OBVIOUS
<1>1. table[v] # Untouched /\ table[w] # Untouched
  BY DEF ConstantsAssumption
<1>2. table[v].shelter = table[w].shelter
  OBVIOUS
<1>3. Twins(table[v], table[w])
  BY <1>1, <1>2 DEF Twins, Live
<1> QED  BY <1>3

\* The form a template serves is one, and only moves on to a higher number,
\* in whatever order its versions are published (forms.sql 13-27).
THEOREM LatestAdvances == Spec => LatestOnlyAdvances
<1> DEFINE Advances ==
             \A t \in Templates, v \in Versions : v \in Latest(t) =>
               \E w \in Latest(t)' : /\ Latest(t)' = {w}
                                     /\ v = w \/ rows'[w].number > rows[v].number
<1>1. ConstantsAssumption
  BY ConstantsAssumption
<1>2. ASSUME IInv, IInv', NEW x \in Procs, Commit(x) PROVE Advances
  <2> SUFFICES ASSUME NEW t \in Templates, NEW v \in Versions, v \in Latest(t)
               PROVE  \E w \in Latest(t)' : /\ Latest(t)' = {w}
                                            /\ v = w \/ rows'[w].number > rows[v].number
    OBVIOUS
  <2> DEFINE P == Published(t)'
             number == [w \in P |-> rows'[w].number]
  <2>1. v \in P /\ rows'[v] = rows[v]
    BY <1>1, <1>2, PublishedStays DEF Latest
  <2>2. \A w \in P : rows'[w].number \in 1..MaxNumber
    <3> TAKE w \in P
    <3>1. w \in Versions /\ rows'[w] # NoRow
      BY DEF Published
    <3>2. /\ Versions \subseteq Ids
          /\ \A i \in Versions : \A r : r \in RowOf(i) <=> r \in VersionRow
      BY <1>1, <1>2, RowTypes DEF IInv
    <3>3. rows'[w] \in RowOf(w) \cup {NoRow}
      BY <1>2, <3>1, <3>2 DEF IInv, TypeOK
    <3> QED  BY <3>1, <3>2, <3>3 DEF VersionRow
  <2>3. \A u, w \in P : rows'[u].number = rows'[w].number => u = w
    <3>1. /\ Versions \subseteq Ids /\ Templates \subseteq Ids
          /\ \A i \in Versions : \A r : r \in RowOf(i) <=> r \in VersionRow
      BY <1>1, <1>2, RowTypes DEF IInv
    <3>2. \A u \in Versions : rows'[u] \in VersionRow \cup {NoRow}
      BY <1>2, <3>1 DEF IInv, TypeOK
    <3>3. \A u \in Versions : rows'[u] # NoRow =>
            rows'[rows'[u].template].shelter = rows'[u].shelter
      <4> TAKE u \in Versions
      <4> HAVE rows'[u] # NoRow
      <4>1. rows'[u].template \in Ids /\ u \in Ids
        BY <3>1, <3>2 DEF VersionRow
      <4> QED  BY <1>2, <4>1 DEF IInv, ParentsOK, ChildOf
    <3>4. \A u, q \in Versions : u # q => ~Twins(rows'[u], rows'[q])
      BY <1>2 DEF IInv, NumbersOK, Twins, Live
    <3> TAKE u, w \in P
    <3> HAVE rows'[u].number = rows'[w].number
    <3>5. /\ u \in Versions /\ rows'[u] # NoRow /\ rows'[u].template = t
          /\ w \in Versions /\ rows'[w] # NoRow /\ rows'[w].template = t
      BY DEF Published
    <3> QED  BY <1>1, <3>2, <3>3, <3>4, <3>5, PublishedDiffer
  <2>4. PICK w \in P : \A u \in P : rows'[u].number <= rows'[w].number
    <3>1. number \in [P -> 1..MaxNumber] /\ P # {} /\ MaxNumber \in Nat
      BY <1>1, <2>1, <2>2 DEF ConstantsAssumption
    <3>2. \E w \in P : \A u \in P : number[u] <= number[w]
      <4> HIDE DEF number, P
      <4> QED  BY <3>1, HighestExists
    <3> QED  BY <3>2
  <2>5. Latest(t)' = {u \in P : \A q \in P : rows'[q].number <= rows'[u].number}
    BY DEF Latest
  <2> HIDE DEF P
  <2>6. w \in Latest(t)'
    BY <2>4, <2>5
  <2>7. \A u \in Latest(t)' : u = w
    BY <2>2, <2>3, <2>4, <2>5
  <2>8. v = w \/ rows'[w].number > rows'[v].number
    BY <2>1, <2>2, <2>3, <2>4
  <2> QED  BY <2>1, <2>6, <2>7, <2>8
<1>3. IInv /\ IInv' /\ [Next]_vars => [Advances]_rows
  <2> SUFFICES ASSUME IInv, IInv', [Next]_vars, rows' # rows PROVE Advances
    OBVIOUS
  <2>1. \E x \in Procs : Commit(x)
    <3>1. \A x \in Procs : ~(\E q \in Shelters : Begin(x, q)) /\ ~Fail(x)
      BY DEF Begin, Fail
    <3>2. \A x \in Procs, t \in Templates : ~CreateTemplate(x, t) /\ ~DeleteTemplate(x, t)
      BY DEF CreateTemplate, DeleteTemplate
    <3>3. \A x, v, t, n, d, p : ~InsertVersion(x, v, t, n, d, p) /\ ~UpdateVersion(x, v, t, n, d, p)
      BY DEF InsertVersion, UpdateVersion
    <3>4. \A x, v : ~DeleteVersion(x, v) /\ ~DeleteSubmission(x, v)
      BY DEF DeleteVersion, DeleteSubmission
    <3>5. \A x, i, v, d : ~RecordSubmission(x, i, v, d)
      BY DEF RecordSubmission
    <3>6. \A t : ~GetLatestPublishedVersion(t)
      BY DEF GetLatestPublishedVersion
    <3>7. Next
      BY DEF vars
    <3> QED  BY <3>1, <3>2, <3>3, <3>4, <3>5, <3>6, <3>7 DEF Next
  <2> QED  BY <1>2, <2>1
<1> QED  BY <1>3, Invariance, PTL DEF Spec, LatestOnlyAdvances

=============================================================================
