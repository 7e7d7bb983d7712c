-------------------------- MODULE AdoptionCases_proofs --------------------------
(***************************************************************************)
(* Proofs of the properties of AdoptionCases, for any handlers, shelters,  *)
(* users and rows.  A case keeps what hangs off it because nobody deletes  *)
(* the case of a row somebody is adding, and whoever deletes a case has    *)
(* deleted all that hung off it; an assignee was a member because each     *)
(* transaction accounts for the memberships it made active itself.         *)
(***************************************************************************)
EXTENDS AdoptionCases, TLAPS

-----------------------------------------------------------------------------
(* The invariant.                                                          *)

Live(r) == r \notin {NoRow, Untouched}

\* A row is written by one handler at a time, and in its shelter.
WritersOK ==
    /\ \A i \in Cases \cup Children : rows[i] # NoRow => i \in drawn
    /\ \A x \in Procs, i \in Cases \cup Children : writes[x][i] # Untouched => i \in drawn
    /\ \A x \in Procs, i \in Ids :
         /\ scope[x] = NoShelter => writes[x][i] = Untouched
         /\ Live(writes[x][i]) => writes[x][i].shelter = scope[x]
         /\ writes[x][i] # Untouched /\ rows[i] # NoRow => rows[i].shelter = scope[x]
    /\ \A x, y \in Procs, i \in Ids :
         x # y => writes[x][i] = Untouched \/ writes[y][i] = Untouched

\* A row has its case, and a row being added has one that nobody deletes.
CasesOK ==
    /\ \A i \in Children : rows[i] # NoRow =>
         /\ rows[rows[i].case] # NoRow
         /\ rows[rows[i].case].shelter = rows[i].shelter
    /\ \A x \in Procs, i \in Children : Live(writes[x][i]) =>
         /\ View(x, writes[x][i].case) # NoRow
         /\ View(x, writes[x][i].case).shelter = scope[x]
         /\ \A y \in Procs \ {x} : writes[y][writes[x][i].case] # NoRow

\* Whoever deletes a case deletes what hangs off it; that is all that is done to
\* what hangs off a case, and nobody does it to a timeline.
PurgeOK ==
    /\ \A x \in Procs, c \in Cases, i \in Children :
         writes[x][c] = NoRow /\ rows[i] # NoRow /\ rows[i].case = c
           => writes[x][i] = NoRow
    /\ \A x \in Procs, i \in Children : rows[i] # NoRow => ~Live(writes[x][i])
    /\ \A x \in Procs, e \in Events : rows[e] # NoRow => writes[x][e] = Untouched

\* A membership that is active has been made so, here or before; an assignee had
\* one that was.
MembersOK ==
    /\ \A m \in Members : rows[m] # NoRow /\ rows[m].status = "active" => m \in accepted
    /\ \A x \in Procs, m \in Members :
         Live(writes[x][m]) /\ writes[x][m].status = "active" => m \in admitted[x]
    /\ \A c \in Cases : rows[c] # NoRow /\ rows[c].assignee # Nobody =>
         <<rows[c].assignee, rows[c].shelter>> \in accepted
    /\ \A x \in Procs, c \in Cases : Live(writes[x][c]) /\ writes[x][c].assignee # Nobody =>
         <<writes[x][c].assignee, scope[x]>> \in accepted \cup admitted[x]

IInv == TypeOK /\ WritersOK /\ CasesOK /\ PurgeOK /\ MembersOK

-----------------------------------------------------------------------------
(* Rows.                                                                   *)

\* The types of rows, table by table.
LEMMA RowTypes ==
    ASSUME ConstantsAssumption, TypeOK
    PROVE  /\ Members \subseteq Ids /\ Cases \subseteq Ids /\ Children \subseteq Ids
           /\ Events \subseteq Children
           /\ NoRow # Untouched
           /\ \A i \in Ids : NoRow \notin RowOf(i) /\ Untouched \notin RowOf(i)
           /\ \A i \in Ids : rows[i] \in RowOf(i) \cup {NoRow}
           /\ \A x \in Procs, i \in Ids :
                /\ writes[x][i] \in RowOf(i) \cup {NoRow, Untouched}
                /\ View(x, i) \in RowOf(i) \cup {NoRow}
           /\ \A i \in Members : RowOf(i) = MemberRow /\ i \notin Cases \cup Children
           /\ \A i \in Cases : RowOf(i) = CaseRow /\ i \notin Members \cup Children
           /\ \A i \in Children : RowOf(i) = ChildRow /\ i \notin Members \cup Cases
<1>1. /\ Members \subseteq Ids /\ Cases \subseteq Ids /\ Children \subseteq Ids
      /\ Events \subseteq Children
  BY DEF Ids, Children
<1>2. NoRow # Untouched
  BY DEF ConstantsAssumption
<1>3. \A i \in Ids : NoRow \notin RowOf(i) /\ Untouched \notin RowOf(i)
  BY DEF ConstantsAssumption, RowOf, AnyRow
<1>4. /\ \A i \in Members : RowOf(i) = MemberRow /\ i \notin Cases \cup Children
      /\ \A i \in Cases : RowOf(i) = CaseRow /\ i \notin Members \cup Children
      /\ \A i \in Children : RowOf(i) = ChildRow /\ i \notin Members \cup Cases
  BY DEF ConstantsAssumption, RowOf
<1>5. /\ \A i \in Ids : rows[i] \in RowOf(i) \cup {NoRow}
      /\ \A x \in Procs, i \in Ids : writes[x][i] \in RowOf(i) \cup {NoRow, Untouched}
  BY DEF TypeOK
<1>6. \A x \in Procs, i \in Ids : View(x, i) \in RowOf(i) \cup {NoRow}
  BY <1>5 DEF View
<1> QED  BY <1>1, <1>2, <1>3, <1>4, <1>5, <1>6

\* A row that is there to be changed: the transaction sees it, in its shelter,
\* and nobody else has written it.
LEMMA Changeable ==
    ASSUME ConstantsAssumption, IInv, NEW x \in Procs, NEW i \in Ids, Visible(x, i),
           ~LockedByOther(x, i)
    PROVE  /\ View(x, i) \in RowOf(i) /\ View(x, i).shelter = scope[x]
           /\ \A y \in Procs \ {x} : writes[y][i] = Untouched
           /\ rows[i] # NoRow => rows[i].shelter = scope[x]
           /\ i \in Cases \cup Children => i \in drawn
           /\ drawn \subseteq Ids
<1>1. View(x, i) \in RowOf(i) /\ View(x, i).shelter = scope[x]
  BY RowTypes DEF Visible, IInv
<1>2. \A y \in Procs \ {x} : writes[y][i] = Untouched
  BY DEF LockedByOther
<1>3. rows[i] # NoRow => rows[i].shelter = scope[x]
  <2>1. CASE writes[x][i] = Untouched
    BY <1>1, <2>1 DEF View
  <2>2. CASE writes[x][i] # Untouched
    BY <2>2 DEF IInv, WritersOK
  <2> QED  BY <2>1, <2>2
<1>4. i \in Cases \cup Children => i \in drawn
  BY RowTypes DEF Visible, View, IInv, WritersOK
<1> QED  BY <1>1, <1>2, <1>3, <1>4 DEF IInv, TypeOK

-----------------------------------------------------------------------------
(* What a statement owes the invariant.                                    *)

\* A statement of x rewrites rows that nobody else has written, within its
\* shelter; a row it adds has its case, a case it deletes has nothing left, and
\* it assigns and admits as MembersOK asks.
Statement(x) ==
    /\ scope[x] # NoShelter
    /\ UNCHANGED <<rows, scope, accepted>>
    /\ DOMAIN writes' = Procs /\ DOMAIN writes'[x] = Ids
    /\ \A y \in Procs \ {x} : writes'[y] = writes[y] /\ admitted'[y] = admitted[y]
    /\ drawn \subseteq drawn' /\ drawn' \subseteq Ids
    /\ admitted' \in [Procs -> SUBSET Members] /\ admitted[x] \subseteq admitted'[x]
    /\ \A i \in Ids : writes'[x][i] # writes[x][i] =>
         /\ writes'[x][i] \in RowOf(i) \cup {NoRow}
         /\ \A y \in Procs \ {x} : writes[y][i] = Untouched
         /\ writes'[x][i] # NoRow => writes'[x][i].shelter = scope[x]
         /\ rows[i] # NoRow => rows[i].shelter = scope[x]
         /\ i \in Cases \cup Children => i \in drawn'
    /\ \A i \in Children : writes'[x][i] # writes[x][i] =>
         \/ writes'[x][i] = NoRow /\ (i \in Events => rows[i] = NoRow)
         \/ /\ rows[i] = NoRow
            /\ CaseExists(x, writes'[x][i].case)
            /\ writes'[x][writes'[x][i].case] = writes[x][writes'[x][i].case]
    /\ \A c \in Cases : writes'[x][c] # writes[x][c] /\ writes'[x][c] = NoRow =>
         \A i \in Children :
           /\ \A y \in Procs \ {x} : Live(writes[y][i]) => writes[y][i].case # c
           /\ Live(View(x, i)) /\ View(x, i).case = c => writes'[x][i] = NoRow
    /\ \A c \in Cases :
         Live(writes'[x][c]) /\ writes'[x][c] # writes[x][c] /\ writes'[x][c].assignee # Nobody
           => <<writes'[x][c].assignee, scope[x]>> \in accepted \cup admitted'[x]
    /\ \A m \in Members :
         Live(writes'[x][m]) /\ writes'[x][m] # writes[x][m] /\ writes'[x][m].status = "active"
           => m \in admitted'[x]

\* A statement keeps the invariant (00009, 00010, 00016).
LEMMA StatementKeeps ==
    ASSUME ConstantsAssumption, IInv, NEW x \in Procs, Statement(x)
    PROVE  IInv'
<1>0. /\ rows' = rows /\ scope' = scope /\ accepted' = accepted
      /\ \A y \in Procs \ {x} : writes'[y] = writes[y] /\ admitted'[y] = admitted[y]
      /\ \A y \in Procs, i \in Ids : ~(y = x /\ writes'[x][i] # writes[x][i])
                                       => writes'[y][i] = writes[y][i]
      /\ NoRow # Untouched
  BY RowTypes DEF Statement, IInv
<1>1. TypeOK'
  <2>1. DOMAIN writes' = Procs /\ \A y \in Procs : DOMAIN writes'[y] = Ids
    BY DEF Statement, IInv, TypeOK
  <2>2. \A y \in Procs, i \in Ids : writes'[y][i] \in RowOf(i) \cup {NoRow, Untouched}
    BY <1>0, RowTypes DEF Statement, IInv
  <2> QED  BY <2>1, <2>2 DEF Statement, IInv, TypeOK
<1>2. WritersOK'
  <2>1. \A i \in Cases \cup Children : rows'[i] # NoRow => i \in drawn'
    BY <1>0 DEF Statement, IInv, WritersOK
  <2>2. \A y \in Procs, i \in Cases \cup Children : writes'[y][i] # Untouched => i \in drawn'
    <3> TAKE y \in Procs, i \in Cases \cup Children
    <3>1. i \in Ids
      BY RowTypes DEF IInv
    <3>2. CASE y = x /\ writes'[x][i] # writes[x][i]
      BY <3>1, <3>2 DEF Statement
    <3>3. CASE ~(y = x /\ writes'[x][i] # writes[x][i])
      BY <1>0, <3>1, <3>3 DEF Statement, IInv, WritersOK
    <3> QED  BY <3>2, <3>3
  <2>3. ASSUME NEW y \in Procs, NEW i \in Ids
        PROVE  /\ scope'[y] = NoShelter => writes'[y][i] = Untouched
               /\ Live(writes'[y][i]) => writes'[y][i].shelter = scope'[y]
               /\ writes'[y][i] # Untouched /\ rows'[i] # NoRow => rows'[i].shelter = scope'[y]
    <3>1. CASE y = x /\ writes'[x][i] # writes[x][i]
      BY <1>0, <3>1 DEF Statement, Live
    <3>2. CASE ~(y = x /\ writes'[x][i] # writes[x][i])
      BY <1>0, <3>2 DEF IInv, WritersOK, Live
    <3> QED  BY <3>1, <3>2
  <2>4. ASSUME NEW y \in Procs, NEW z \in Procs, NEW i \in Ids, y # z
        PROVE  writes'[y][i] = Untouched \/ writes'[z][i] = Untouched
    <3>1. CASE writes'[x][i] = writes[x][i]
      BY <1>0, <2>4, <3>1 DEF IInv, WritersOK
    <3>2. CASE writes'[x][i] # writes[x][i]
      <4>1. \A w \in Procs \ {x} : writes'[w][i] = Untouched
        BY <1>0, <3>2 DEF Statement
      <4> QED  BY <2>4, <4>1
    <3> QED  BY <3>1, <3>2
  <2> QED  BY <2>1, <2>2, <2>3, <2>4 DEF WritersOK
<1>3. CasesOK'
  <2> DEFINE After(y, i) == IF writes'[y][i] = Untouched THEN rows'[i] ELSE writes'[y][i]
  <2>1. ASSUME NEW y \in Procs, NEW i \in Children, Live(writes'[y][i])
        PROVE  /\ After(y, writes'[y][i].case) # NoRow
               /\ After(y, writes'[y][i].case).shelter = scope[y]
               /\ \A z \in Procs \ {y} : writes'[z][writes'[y][i].case] # NoRow
    <3> DEFINE c == writes'[y][i].case
    <3>0. i \in Ids /\ RowOf(i) = ChildRow
      BY RowTypes DEF IInv
    <3>1. writes'[y][i] \in ChildRow
      <4>1. writes'[y][i] \in RowOf(i) \cup {NoRow, Untouched}
        BY <1>1, <3>0 DEF TypeOK
      <4> QED  BY <2>1, <3>0, <4>1 DEF Live
    <3>2. c \in Cases /\ c \in Ids
      BY <3>1, RowTypes DEF ChildRow, IInv
    <3>3. CASE y = x /\ writes'[x][i] # writes[x][i]
      <4>1. CaseExists(x, c) /\ writes'[x][c] = writes[x][c]
        BY <2>1, <3>3 DEF Statement, Live
      <4>2. After(x, c) = View(x, c)
        BY <1>0, <4>1 DEF View
      <4>3. \A z \in Procs \ {x} : writes'[z][c] # NoRow
        BY <1>0, <4>1 DEF CaseExists
      <4> QED  BY <3>3, <4>1, <4>2, <4>3 DEF CaseExists
    <3>4. CASE y = x /\ writes'[x][i] = writes[x][i]
      <4>1. /\ View(x, c) # NoRow /\ View(x, c).shelter = scope[x]
            /\ \A z \in Procs \ {x} : writes[z][c] # NoRow
        BY <2>1, <3>4 DEF IInv, CasesOK
      <4>2. View(x, i) = writes'[x][i]
        BY <2>1, <3>4 DEF View, Live
      <4>3. writes'[x][c] # writes[x][c] => writes'[x][c] # NoRow
        BY <2>1, <3>2, <3>4, <4>2 DEF Statement, Live
      <4>4. ASSUME writes'[x][c] # writes[x][c]
            PROVE  writes'[x][c] # Untouched /\ writes'[x][c].shelter = scope[x]
        <5>1. writes'[x][c] \in RowOf(c) /\ writes'[x][c].shelter = scope[x]
          BY <3>2, <4>3, <4>4 DEF Statement
        <5> QED  BY <3>2, <5>1, RowTypes DEF IInv
      <4>5. After(x, c) # NoRow /\ After(x, c).shelter = scope[x]
        BY <1>0, <4>1, <4>3, <4>4 DEF View
      <4>6. \A z \in Procs \ {x} : writes'[z][c] # NoRow
        BY <1>0, <4>1
      <4> QED  BY <3>4, <4>5, <4>6
    <3>5. CASE y # x
      <4>1. writes'[y][i] = writes[y][i] /\ writes'[y][c] = writes[y][c]
        BY <1>0, <3>5
      <4>2. /\ View(y, c) # NoRow /\ View(y, c).shelter = scope[y]
            /\ \A z \in Procs \ {y} : writes[z][c] # NoRow
        BY <2>1, <4>1 DEF IInv, CasesOK
      <4>3. writes'[x][c] # NoRow
        BY <2>1, <3>2, <3>5, <4>1, <4>2 DEF Statement
      <4>4. After(y, c) = View(y, c)
        BY <1>0, <4>1 DEF View
      <4>5. \A z \in Procs \ {y} : writes'[z][c] # NoRow
        BY <1>0, <4>2, <4>3
      <4> QED  BY <4>2, <4>4, <4>5
    <3> QED  BY <3>3, <3>4, <3>5
  <2>2. \A i \in Children : rows'[i] # NoRow =>
          rows'[rows'[i].case] # NoRow /\ rows'[rows'[i].case].shelter = rows'[i].shelter
    BY <1>0 DEF IInv, CasesOK
  <2>3. \A y, i : View(y, i)' = After(y, i)
    BY DEF View
  <2> QED  BY <1>0, <2>1, <2>2, <2>3 DEF CasesOK, View
<1>4. PurgeOK'
  <2>1. ASSUME NEW y \in Procs, NEW c \in Cases, NEW i \in Children,
               writes'[y][c] = NoRow, rows[i] # NoRow, rows[i].case = c
        PROVE  writes'[y][i] = NoRow
    <3>1. c \in Ids /\ i \in Ids
      BY RowTypes DEF IInv
    <3>2. CASE y = x /\ writes'[x][c] # writes[x][c]
      <4>1. CASE writes[x][i] = Untouched
        <5>1. View(x, i) = rows[i] /\ Live(rows[i])
          BY <2>1, <3>1, <4>1, RowTypes DEF View, Live, IInv
        <5> QED  BY <2>1, <3>2, <5>1 DEF Statement
      <4>2. CASE Live(writes[x][i])
        BY <2>1, <4>2 DEF IInv, PurgeOK
      <4>3. CASE writes[x][i] = NoRow
        BY <2>1, <3>2, <4>3 DEF Statement
      <4> QED  BY <4>1, <4>2, <4>3 DEF Live
    <3>3. CASE ~(y = x /\ writes'[x][c] # writes[x][c])
      <4>1. writes[y][i] = NoRow
        BY <1>0, <2>1, <3>1, <3>3 DEF IInv, PurgeOK
      <4>2. y = x /\ writes'[x][i] # writes[x][i] => writes'[x][i] = NoRow
        BY <2>1 DEF Statement
      <4> QED  BY <1>0, <3>1, <4>1, <4>2
    <3> QED  BY <3>2, <3>3
  <2>2. \A y \in Procs, e \in Events : rows'[e] # NoRow => writes'[y][e] = Untouched
    <3> TAKE y \in Procs, e \in Events
    <3>1. e \in Children /\ e \in Ids
      BY RowTypes DEF IInv
    <3> QED  BY <1>0, <3>1 DEF Statement, IInv, PurgeOK
  <2>3. \A y \in Procs, i \in Children : rows'[i] # NoRow => ~Live(writes'[y][i])
    <3> TAKE y \in Procs, i \in Children
    <3>1. i \in Ids
      BY RowTypes DEF IInv
    <3> QED  BY <1>0, <3>1 DEF Statement, IInv, PurgeOK, Live
  <2> QED  BY <1>0, <2>1, <2>2, <2>3 DEF PurgeOK
<1>5. MembersOK'
  <2>1. \A y \in Procs : admitted[y] \subseteq admitted'[y]
    BY <1>0 DEF Statement
  <2>2. \A y \in Procs, m \in Members :
          Live(writes'[y][m]) /\ writes'[y][m].status = "active" => m \in admitted'[y]
    <3> TAKE y \in Procs, m \in Members
    <3>1. m \in Ids
      BY RowTypes DEF IInv
    <3>2. CASE y = x /\ writes'[x][m] # writes[x][m]
      BY <3>2 DEF Statement
    <3>3. CASE ~(y = x /\ writes'[x][m] # writes[x][m])
      BY <1>0, <2>1, <3>1, <3>3 DEF IInv, MembersOK
    <3> QED  BY <3>2, <3>3
  <2>3. \A y \in Procs, c \in Cases :
          Live(writes'[y][c]) /\ writes'[y][c].assignee # Nobody =>
            <<writes'[y][c].assignee, scope[y]>> \in accepted \cup admitted'[y]
    <3> TAKE y \in Procs, c \in Cases
    <3>1. c \in Ids
      BY RowTypes DEF IInv
    <3>2. CASE y = x /\ writes'[x][c] # writes[x][c]
      BY <3>2 DEF Statement
    <3>3. CASE ~(y = x /\ writes'[x][c] # writes[x][c])
      <4>1. writes'[y][c] = writes[y][c]
        BY <1>0, <3>1, <3>3
      <4> QED  BY <2>1, <4>1 DEF IInv, MembersOK
    <3> QED  BY <3>2, <3>3
  <2> QED  BY <1>0, <2>2, <2>3 DEF IInv, MembersOK
<1> QED  BY <1>1, <1>2, <1>3, <1>4, <1>5 DEF IInv

-----------------------------------------------------------------------------
(* The statements.                                                         *)

\* What row r of id i has to be for a statement that writes only it.
RowSound(x, i, r) ==
    /\ r \in RowOf(i) \cup {NoRow}
    /\ \A y \in Procs \ {x} : writes[y][i] = Untouched
    /\ r # NoRow => r.shelter = scope[x]
    /\ rows[i] # NoRow => rows[i].shelter = scope[x]
    /\ i \in Cases \cup Children => i \in drawn'
    /\ i \in Children => \/ r = NoRow /\ i \notin Events
                         \/ rows[i] = NoRow /\ CaseExists(x, r.case)
    /\ i \in Cases => /\ r # NoRow
                      /\ r.assignee # Nobody =>
                           <<r.assignee, scope[x]>> \in accepted \cup admitted[x]
    /\ i \in Members /\ r # NoRow /\ r.status = "active" => i \in admitted'[x]

LEMMA PutKeeps ==
    ASSUME ConstantsAssumption, IInv, NEW x \in Procs, NEW i \in Ids, NEW r,
           scope[x] # NoShelter, RowSound(x, i, r), Put(x, i, r),
           UNCHANGED <<rows, scope, accepted>>,
           drawn \subseteq drawn', drawn' \subseteq Ids,
           admitted' \in [Procs -> SUBSET Members], admitted[x] \subseteq admitted'[x],
           \A y \in Procs \ {x} : admitted'[y] = admitted[y]
    PROVE  IInv'
<1>1. /\ DOMAIN writes' = Procs /\ DOMAIN writes'[x] = Ids
      /\ writes'[x][i] = r
      /\ \A j \in Ids \ {i} : writes'[x][j] = writes[x][j]
      /\ \A y \in Procs \ {x} : writes'[y] = writes[y]
  BY DEF Put, IInv, TypeOK
<1>2. /\ Cases \subseteq Ids /\ Children \subseteq Ids /\ Members \subseteq Ids
      /\ \A j \in Cases : j \notin Members /\ j \notin Children
      /\ \A j \in Children : j \notin Members /\ j \notin Cases
  BY RowTypes DEF IInv
<1>3. \A j \in Ids : writes'[x][j] # writes[x][j] => j = i
  BY <1>1
<1>4. ASSUME NEW j \in Children, writes'[x][j] # writes[x][j]
      PROVE  \/ writes'[x][j] = NoRow /\ (j \in Events => rows[j] = NoRow)
             \/ /\ rows[j] = NoRow
                /\ CaseExists(x, writes'[x][j].case)
                /\ writes'[x][writes'[x][j].case] = writes[x][writes'[x][j].case]
  <2>1. j = i
    BY <1>2, <1>3, <1>4
  <2>2. CASE r = NoRow
    BY <1>1, <1>4, <2>1, <2>2 DEF RowSound
  <2>3. CASE r # NoRow
    <3>0. RowOf(i) = ChildRow /\ r \in ChildRow
      BY <1>4, <2>1, <2>3, RowTypes DEF RowSound, IInv
    <3>1. r.case \in Cases
      BY <3>0 DEF ChildRow
    <3>2. r.case \in Ids /\ r.case # i
      BY <1>2, <1>4, <2>1, <3>1
    <3> QED  BY <1>1, <1>4, <2>1, <2>3, <3>2 DEF RowSound
  <2> QED  BY <2>2, <2>3
<1>5. Statement(x)
  BY <1>1, <1>2, <1>3, <1>4 DEF Statement, RowSound, Live
<1> QED  BY <1>5, StatementKeeps

\* An undrawn row is nobody's, and nothing was ever in its place.
LEMMA Undrawn ==
    ASSUME ConstantsAssumption, IInv, NEW i \in Cases \cup Children, Draw(i)
    PROVE  /\ rows[i] = NoRow /\ \A y \in Procs : writes[y][i] = Untouched
           /\ drawn \subseteq drawn' /\ drawn' \subseteq Ids /\ i \in drawn'
           /\ i \in Ids
BY RowTypes DEF Draw, IInv, WritersOK, TypeOK

\* The trigger admits as an assignee only who was, or is being, admitted
\* (00016 9-24).
LEMMA OwnersWereActive ==
    ASSUME ConstantsAssumption, IInv, NEW x \in Procs, NEW u \in Users \cup {Nobody},
           MayOwn(x, u), scope[x] # NoShelter
    PROVE  u # Nobody => <<u, scope[x]>> \in accepted \cup admitted[x]
<1> SUFFICES ASSUME u # Nobody PROVE <<u, scope[x]>> \in accepted \cup admitted[x]
  OBVIOUS
<1> DEFINE m == <<u, scope[x]>>
<1>1. View(x, m) # NoRow /\ View(x, m).status = "active"
  BY DEF MayOwn, Visible
<1>2. m \in Members
  BY DEF IInv, TypeOK, Members
<1>3. SUFFICES m \in accepted \cup admitted[x]
  OBVIOUS
<1> HIDE DEF m
<1>4. CASE writes[x][m] = Untouched
  <2>1. rows[m] # NoRow /\ rows[m].status = "active"
    BY <1>1, <1>4 DEF View
  <2> QED  BY <1>2, <2>1 DEF IInv, MembersOK
<1>5. CASE writes[x][m] # Untouched
  <2>1. Live(writes[x][m]) /\ writes[x][m].status = "active"
    BY <1>1, <1>5 DEF View, Live
  <2> QED  BY <1>2, <2>1 DEF IInv, MembersOK
<1> QED  BY <1>4, <1>5

LEMMA MembershipsKeep ==
    ASSUME ConstantsAssumption, IInv, NEW x \in Procs, NEW u \in Users,
           NEW status \in {"invited", "active", "revoked"},
           InviteMember(x, u, status) \/ UpdateMembership(x, u, status)
    PROVE  IInv'
<1> DEFINE m == <<u, scope[x]>>
           r == IF View(x, m) = NoRow THEN [shelter |-> scope[x], status |-> status]
                ELSE [View(x, m) EXCEPT !.status = status]
<1>1. /\ scope[x] # NoShelter /\ ~LockedByOther(x, m)
      /\ View(x, m) = NoRow \/ Visible(x, m)
      /\ Put(x, m, r)
      /\ admitted' = [admitted EXCEPT ![x] = @ \cup {n \in {m} : status = "active"}]
      /\ UNCHANGED <<rows, scope, drawn, accepted>>
  BY DEF InviteMember, UpdateMembership, Visible
<1>2. m \in Members /\ m \in Ids /\ scope[x] \in Shelters
  BY <1>1, RowTypes DEF IInv, TypeOK, Members
<1> HIDE DEF m
<1>3. RowOf(m) = MemberRow /\ m \notin Cases \cup Children
  BY <1>2, RowTypes DEF IInv
<1>4. r \in MemberRow /\ r.shelter = scope[x] /\ r.status = status
  <2>1. CASE View(x, m) = NoRow
    BY <1>2, <2>1 DEF MemberRow
  <2>2. CASE View(x, m) # NoRow
    <3>1. View(x, m) \in MemberRow /\ View(x, m).shelter = scope[x]
      BY <1>1, <1>2, <1>3, <2>2, Changeable
    <3> QED  BY <2>2, <3>1 DEF MemberRow
  <2> QED  BY <2>1, <2>2
<1>5. /\ \A y \in Procs \ {x} : writes[y][m] = Untouched
      /\ rows[m] # NoRow => rows[m].shelter = scope[x]
  <2>1. CASE View(x, m) = NoRow
    BY <1>1, <1>2, <2>1 DEF LockedByOther, View, IInv, WritersOK
  <2>2. CASE View(x, m) # NoRow
    BY <1>1, <1>2, <2>2, Changeable
  <2> QED  BY <2>1, <2>2
<1>6. /\ admitted' \in [Procs -> SUBSET Members] /\ admitted[x] \subseteq admitted'[x]
      /\ \A y \in Procs \ {x} : admitted'[y] = admitted[y]
      /\ status = "active" => m \in admitted'[x]
  BY <1>1, <1>2 DEF IInv, TypeOK
<1> HIDE DEF r
<1>7. RowSound(x, m, r)
  BY <1>3, <1>4, <1>5, <1>6, <1>2, RowTypes DEF RowSound, IInv
<1> QED  BY <1>1, <1>2, <1>6, <1>7, PutKeeps DEF IInv, TypeOK

LEMMA CasesKeep ==
    ASSUME ConstantsAssumption, IInv, NEW x \in Procs, NEW c \in Cases,
           NEW status \in Statuses, NEW u \in Users \cup {Nobody},
           \/ CreateApplication(x, c, status, u)
           \/ SetApplicationStatus(x, c, status)
           \/ AssignApplication(x, c, u)
    PROVE  IInv'
<1>1. c \in Ids /\ RowOf(c) = CaseRow /\ c \notin Members /\ c \notin Children
  BY RowTypes DEF IInv
<1>2. UNCHANGED admitted => /\ admitted' \in [Procs -> SUBSET Members]
                            /\ admitted[x] \subseteq admitted'[x]
                            /\ \A y \in Procs \ {x} : admitted'[y] = admitted[y]
  BY DEF IInv, TypeOK
<1>3. CASE CreateApplication(x, c, status, u)
  <2> DEFINE r == [shelter |-> scope[x], status |-> status, assignee |-> u]
  <2>1. /\ scope[x] # NoShelter /\ Draw(c) /\ MayOwn(x, u) /\ Put(x, c, r)
        /\ UNCHANGED <<rows, scope, admitted, accepted>>
    BY <1>3 DEF CreateApplication
  <2>2. scope[x] \in Shelters
    BY <2>1 DEF IInv, TypeOK
  <2>3. r \in CaseRow /\ r.shelter = scope[x] /\ r.assignee = u
    BY <2>2 DEF CaseRow
  <2> HIDE DEF r
  <2>4. RowSound(x, c, r)
    BY <1>1, <2>1, <2>3, Undrawn, OwnersWereActive, RowTypes DEF RowSound, IInv
  <2> QED  BY <1>1, <1>2, <2>1, <2>4, Undrawn, PutKeeps
<1>4. ASSUME NEW r, r \in CaseRow, r.shelter = scope[x], scope[x] # NoShelter,
             r.assignee # Nobody => <<r.assignee, scope[x]>> \in accepted \cup admitted[x],
             ~LockedByOther(x, c), Visible(x, c), Put(x, c, r),
             UNCHANGED <<rows, scope, drawn, admitted, accepted>>
      PROVE  IInv'
  <2>1. RowSound(x, c, r)
    BY <1>1, <1>4, Changeable, RowTypes DEF RowSound, IInv
  <2> QED  BY <1>1, <1>2, <1>4, <2>1, Changeable, PutKeeps
<1>5. ASSUME ~LockedByOther(x, c), Visible(x, c)
      PROVE  /\ View(x, c) \in CaseRow /\ View(x, c).shelter = scope[x]
             /\ View(x, c).assignee # Nobody =>
                  <<View(x, c).assignee, scope[x]>> \in accepted \cup admitted[x]
  <2>1. View(x, c) \in CaseRow /\ View(x, c).shelter = scope[x]
    BY <1>1, <1>5, Changeable
  <2>2. CASE writes[x][c] = Untouched
    BY <1>5, <2>1, <2>2 DEF View, Visible, IInv, MembersOK
  <2>3. CASE writes[x][c] # Untouched
    BY <1>5, <2>1, <2>3 DEF View, Visible, IInv, MembersOK, Live
  <2> QED  BY <2>1, <2>2, <2>3
<1>6. CASE SetApplicationStatus(x, c, status)
  <2> DEFINE r == [View(x, c) EXCEPT !.status = status]
  <2>1. /\ ~LockedByOther(x, c) /\ Visible(x, c) /\ Put(x, c, r) /\ scope[x] # NoShelter
        /\ UNCHANGED <<rows, scope, drawn, admitted, accepted>>
    BY <1>6 DEF SetApplicationStatus
  <2>2. r \in CaseRow /\ r.shelter = scope[x] /\ r.assignee = View(x, c).assignee
    BY <1>5, <2>1 DEF CaseRow
  <2> HIDE DEF r
  <2> QED  BY <1>4, <1>5, <2>1, <2>2
<1>7. CASE AssignApplication(x, c, u)
  <2> DEFINE r == [View(x, c) EXCEPT !.assignee = u]
  <2>1. /\ ~LockedByOther(x, c) /\ Visible(x, c) /\ Put(x, c, r) /\ scope[x] # NoShelter
        /\ MayOwn(x, u)
        /\ UNCHANGED <<rows, scope, drawn, admitted, accepted>>
    BY <1>7 DEF AssignApplication
  <2>2. r \in CaseRow /\ r.shelter = scope[x] /\ r.assignee = u
    BY <1>5, <2>1 DEF CaseRow
  <2> HIDE DEF r
  <2> QED  BY <1>4, <2>1, <2>2, OwnersWereActive
<1> QED  BY <1>3, <1>6, <1>7

LEMMA ChildrenKeep ==
    ASSUME ConstantsAssumption, IInv, NEW x \in Procs, NEW i \in Children,
           Detach(x, i) \/ \E c \in Cases : Attach(x, i, c)
    PROVE  IInv'
<1>1. i \in Ids /\ RowOf(i) = ChildRow /\ i \notin Members /\ i \notin Cases
  BY RowTypes DEF IInv
<1>2. UNCHANGED admitted => /\ admitted' \in [Procs -> SUBSET Members]
                            /\ admitted[x] \subseteq admitted'[x]
                            /\ \A y \in Procs \ {x} : admitted'[y] = admitted[y]
  BY DEF IInv, TypeOK
<1>3. ASSUME NEW c \in Cases, Attach(x, i, c) PROVE IInv'
  <2> DEFINE r == [shelter |-> scope[x], case |-> c]
  <2>1. /\ scope[x] # NoShelter /\ Draw(i) /\ CaseExists(x, c) /\ Put(x, i, r)
        /\ UNCHANGED <<rows, scope, admitted, accepted>>
    BY <1>3 DEF Attach
  <2>2. scope[x] \in Shelters
    BY <2>1 DEF IInv, TypeOK
  <2>3. r \in ChildRow /\ r.shelter = scope[x] /\ r.case = c
    BY <2>2 DEF ChildRow
  <2> HIDE DEF r
  <2>4. RowSound(x, i, r)
    BY <1>1, <2>1, <2>3, Undrawn DEF RowSound
  <2> QED  BY <1>1, <1>2, <2>1, <2>4, Undrawn, PutKeeps
<1>4. CASE Detach(x, i)
  <2>1. /\ scope[x] # NoShelter /\ i \in Notes \cup Submissions /\ Visible(x, i)
        /\ ~LockedByOther(x, i) /\ Put(x, i, NoRow)
        /\ UNCHANGED <<rows, scope, drawn, admitted, accepted>>
    BY <1>4 DEF Detach
  <2>2. i \notin Events
    BY <2>1 DEF ConstantsAssumption
  <2>3. RowSound(x, i, NoRow)
    BY <1>1, <2>1, <2>2, Changeable DEF RowSound
  <2> QED  BY <1>1, <1>2, <2>1, <2>3, Changeable, PutKeeps
<1> QED  BY <1>3, <1>4

\* A case goes only when nobody adds to it, and takes with it what hangs off
\* it (00009 150-176, 00010 62-76).
LEMMA DeleteKeeps ==
    ASSUME ConstantsAssumption, IInv, NEW x \in Procs, NEW c \in Cases, DeleteApplication(x, c)
    PROVE  IInv'
<1> DEFINE also == Attached(x, c)
<1>1. /\ scope[x] # NoShelter /\ Visible(x, c) /\ ~LockedByOther(x, c)
      /\ \A y \in Procs \ {x} : ChildrenOf(writes[y], c) = {}
      /\ \A i \in also : ~LockedByOther(x, i)
      /\ also \subseteq Submissions
      /\ writes' = [writes EXCEPT ![x] =
             [i \in Ids |-> IF i = c \/ i \in also THEN NoRow ELSE writes[x][i]]]
      /\ UNCHANGED <<rows, scope, drawn, admitted, accepted>>
  BY DEF DeleteApplication, Deletable, Erase
<1>2. /\ Cases \subseteq Ids /\ Children \subseteq Ids /\ Events \subseteq Children
      /\ \A j \in Cases : j \notin Members /\ j \notin Children
      /\ \A j \in Children : j \notin Members /\ j \notin Cases /\ RowOf(j) = ChildRow
      /\ NoRow # Untouched
  BY RowTypes DEF IInv
<1>3. /\ \A i \in Children : i \in also <=> Live(View(x, i)) /\ View(x, i).case = c
      /\ also \subseteq Children
      /\ \A i \in also : i \notin Events
  BY <1>1, <1>2 DEF Attached, ChildrenOf, Live, ConstantsAssumption
<1>4. ASSUME NEW i \in also
      PROVE  Visible(x, i)
  <2>1. i \in Children /\ i \in Ids /\ View(x, i) # NoRow /\ View(x, i).case = c
    BY <1>2, <1>3, <1>4 DEF Live
  <2>2. CASE writes[x][i] = Untouched
    <3>1. View(x, i) = rows[i] /\ rows[i] # NoRow /\ rows[i].case = c
      BY <2>1, <2>2 DEF View
    <3>2. rows[c] # NoRow /\ rows[c].shelter = rows[i].shelter
      BY <2>1, <3>1 DEF IInv, CasesOK
    <3>3. rows[c].shelter = scope[x]
      BY <1>1, <1>2, <3>2, Changeable
    <3> QED  BY <2>1, <3>1, <3>2, <3>3 DEF Visible
  <2>3. CASE writes[x][i] # Untouched
    <3>1. View(x, i) = writes[x][i] /\ Live(writes[x][i])
      BY <2>1, <2>3 DEF View, Live
    <3>2. writes[x][i].shelter = scope[x]
      BY <2>1, <3>1 DEF IInv, WritersOK
    <3> QED  BY <2>1, <3>1, <3>2 DEF Visible
  <2> QED  BY <2>2, <2>3
<1>5. /\ DOMAIN writes' = Procs /\ DOMAIN writes'[x] = Ids
      /\ \A y \in Procs \ {x} : writes'[y] = writes[y]
      /\ \A i \in Ids : writes'[x][i] = IF i = c \/ i \in also THEN NoRow ELSE writes[x][i]
  BY <1>1 DEF IInv, TypeOK
<1>6. \A y \in Procs \ {x}, i \in Children : Live(writes[y][i]) => writes[y][i].case # c
  BY <1>1 DEF ChildrenOf, Live
<1> HIDE DEF also
<1>7. ASSUME NEW i \in Ids, writes'[x][i] # writes[x][i]
      PROVE  /\ writes'[x][i] = NoRow /\ (i = c \/ i \in also)
             /\ \A y \in Procs \ {x} : writes[y][i] = Untouched
             /\ rows[i] # NoRow => rows[i].shelter = scope[x]
             /\ i \in Cases \cup Children => i \in drawn
  <2>1. (i = c \/ i \in also) /\ writes'[x][i] = NoRow
    BY <1>5, <1>7
  <2>2. Visible(x, i) /\ ~LockedByOther(x, i)
    BY <1>1, <1>4, <2>1
  <2> QED  BY <2>1, <2>2, Changeable
<1>8. Statement(x)
  <2>1. \A i \in Children : writes'[x][i] # writes[x][i] =>
          writes'[x][i] = NoRow /\ i \notin Events
    BY <1>2, <1>3, <1>7
  <2>2. \A d \in Cases : writes'[x][d] # writes[x][d] => d = c /\ writes'[x][d] = NoRow
    BY <1>2, <1>3, <1>7
  <2>3. \A i \in Children : Live(View(x, i)) /\ View(x, i).case = c => writes'[x][i] = NoRow
    BY <1>2, <1>3, <1>5
  <2>4. \A m \in Members : writes'[x][m] = writes[x][m]
    BY <1>2, <1>3, <1>7, RowTypes DEF IInv
  <2>5. drawn \subseteq drawn' /\ drawn' \subseteq Ids /\ admitted' = admitted
        /\ admitted' \in [Procs -> SUBSET Members]
    BY <1>1 DEF IInv, TypeOK
  <2>6. \A i \in Ids : writes'[x][i] # writes[x][i] =>
         /\ writes'[x][i] \in RowOf(i) \cup {NoRow}
         /\ \A y \in Procs \ {x} : writes[y][i] = Untouched
         /\ writes'[x][i] # NoRow => writes'[x][i].shelter = scope[x]
         /\ rows[i] # NoRow => rows[i].shelter = scope[x]
         /\ i \in Cases \cup Children => i \in drawn'
    BY <1>7, <2>5
  <2>7. \A i \in Children : writes'[x][i] # writes[x][i] =>
          writes'[x][i] = NoRow /\ (i \in Events => rows[i] = NoRow)
    BY <2>1
  <2>8. ASSUME NEW d \in Cases, writes'[x][d] # writes[x][d], writes'[x][d] = NoRow,
               NEW i \in Children
        PROVE  /\ \A y \in Procs \ {x} : Live(writes[y][i]) => writes[y][i].case # d
               /\ Live(View(x, i)) /\ View(x, i).case = d => writes'[x][i] = NoRow
    BY <1>6, <2>2, <2>3, <2>8
  <2>9. \A d \in Cases : writes'[x][d] # writes[x][d] => ~Live(writes'[x][d])
    BY <2>2 DEF Live
  <2>10. \A m \in Members : ~(Live(writes'[x][m]) /\ writes'[x][m] # writes[x][m])
    BY <2>4
  <2>11. /\ scope[x] # NoShelter /\ UNCHANGED <<rows, scope, accepted>>
         /\ DOMAIN writes' = Procs /\ DOMAIN writes'[x] = Ids
         /\ \A y \in Procs \ {x} : writes'[y] = writes[y] /\ admitted'[y] = admitted[y]
    BY <1>1 DEF IInv, TypeOK
  <2> QED  BY <2>5, <2>6, <2>7, <2>8, <2>9, <2>10, <2>11 DEF Statement
<1> QED  BY <1>8, StatementKeeps

-----------------------------------------------------------------------------
(* The ends of a transaction.                                              *)

LEMMA BeginKeeps ==
    ASSUME ConstantsAssumption, IInv, NEW x \in Procs, NEW s \in Shelters, Begin(x, s)
    PROVE  IInv'
<1>1. /\ scope[x] = NoShelter /\ scope' = [scope EXCEPT ![x] = s]
      /\ UNCHANGED <<rows, writes, drawn, admitted, accepted>>
  BY DEF Begin
<1>2. \A i \in Ids : writes[x][i] = Untouched
  BY <1>1 DEF IInv, WritersOK
<1>3. \A y \in Procs : y # x => scope'[y] = scope[y]
  BY <1>1 DEF IInv, TypeOK
<1>4. /\ Cases \subseteq Ids /\ Children \subseteq Ids
      /\ \A y \in Procs, i \in Ids : Live(writes[y][i]) => y # x
  BY <1>2, RowTypes DEF IInv, Live
<1>5. TypeOK'
  BY <1>1 DEF IInv, TypeOK
<1>6. WritersOK'
  <2>1. ASSUME NEW y \in Procs, NEW i \in Ids
        PROVE  /\ scope'[y] = NoShelter => writes[y][i] = Untouched
               /\ Live(writes[y][i]) => writes[y][i].shelter = scope'[y]
               /\ writes[y][i] # Untouched /\ rows[i] # NoRow => rows[i].shelter = scope'[y]
    <3>1. CASE y = x
      BY <1>2, <3>1 DEF Live
    <3>2. CASE y # x
      BY <1>3, <3>2 DEF IInv, WritersOK
    <3> QED  BY <3>1, <3>2
  <2> QED  BY <1>1, <2>1 DEF IInv, WritersOK
<1>7. CasesOK'
  <2>1. \A y, i : View(y, i)' = View(y, i)
    BY <1>1 DEF View
  <2>2. ASSUME NEW y \in Procs, NEW i \in Children, Live(writes[y][i])
        PROVE  /\ View(y, writes[y][i].case) # NoRow
               /\ View(y, writes[y][i].case).shelter = scope'[y]
               /\ \A z \in Procs \ {y} : writes[z][writes[y][i].case] # NoRow
    <3>1. scope'[y] = scope[y]
      BY <1>3, <1>4, <2>2
    <3> QED  BY <2>2, <3>1 DEF IInv, CasesOK
  <2>3. \A i \in Children : rows'[i] # NoRow =>
          rows'[rows'[i].case] # NoRow /\ rows'[rows'[i].case].shelter = rows'[i].shelter
    BY <1>1 DEF IInv, CasesOK
  <2>4. writes' = writes
    BY <1>1
  <2> QED  BY <2>1, <2>2, <2>3, <2>4 DEF CasesOK
<1>8. PurgeOK'
  BY <1>1 DEF IInv, PurgeOK
<1>9. MembersOK'
  BY <1>1, <1>3, <1>4 DEF IInv, MembersOK
<1> QED  BY <1>5, <1>6, <1>7, <1>8, <1>9 DEF IInv

LEMMA FailKeeps ==
    ASSUME ConstantsAssumption, IInv, NEW x \in Procs, Fail(x)
    PROVE  IInv'
<1>1. /\ writes' = [writes EXCEPT ![x] = [i \in Ids |-> Untouched]]
      /\ scope' = [scope EXCEPT ![x] = NoShelter]
      /\ admitted' = [admitted EXCEPT ![x] = {}]
      /\ UNCHANGED <<rows, drawn, accepted>>
  BY DEF Fail, End
<1>2. /\ \A i \in Ids : writes'[x][i] = Untouched
      /\ \A y \in Procs : y # x => /\ writes'[y] = writes[y] /\ scope'[y] = scope[y]
                                   /\ admitted'[y] = admitted[y]
      /\ scope'[x] = NoShelter /\ admitted'[x] = {}
      /\ DOMAIN writes' = Procs /\ DOMAIN writes'[x] = Ids
      /\ NoRow # Untouched
  BY <1>1, RowTypes DEF IInv, TypeOK
<1>3. /\ Cases \subseteq Ids /\ Children \subseteq Ids /\ Members \subseteq Ids
      /\ \A y \in Procs, i \in Ids : Live(writes'[y][i]) => y # x
      /\ \A y \in Procs, i \in Ids : writes'[y][i] = NoRow => y # x
      /\ \A y \in Procs, i \in Ids : writes'[y][i] = Untouched \/ writes'[y][i] = writes[y][i]
  BY <1>2, RowTypes DEF IInv, Live
<1>4. \A y \in Procs, i \in Children : Live(writes[y][i]) =>
        writes[y][i].case \in Cases /\ writes[y][i].case \in Ids
  <2> TAKE y \in Procs, i \in Children
  <2>1. Live(writes[y][i]) => writes[y][i] \in ChildRow
    BY <1>3, RowTypes DEF IInv, Live
  <2> QED  BY <1>3, <2>1 DEF ChildRow
<1>5. TypeOK'
  <2>1. \A y \in Procs : /\ DOMAIN writes'[y] = Ids
                         /\ \A i \in Ids : writes'[y][i] \in RowOf(i) \cup {NoRow, Untouched}
    BY <1>2 DEF IInv, TypeOK
  <2>2. scope' \in [Procs -> Shelters \cup {NoShelter}] /\ admitted' \in [Procs -> SUBSET Members]
    BY <1>1 DEF IInv, TypeOK
  <2> QED  BY <1>1, <1>2, <2>1, <2>2 DEF IInv, TypeOK
<1>6. WritersOK'
  <2>1. ASSUME NEW y \in Procs, NEW i \in Ids
        PROVE  /\ scope'[y] = NoShelter => writes'[y][i] = Untouched
               /\ Live(writes'[y][i]) => writes'[y][i].shelter = scope'[y]
               /\ writes'[y][i] # Untouched /\ rows[i] # NoRow => rows[i].shelter = scope'[y]
    <3>1. CASE y = x
      BY <1>2, <3>1 DEF Live
    <3>2. CASE y # x
      BY <1>2, <3>2 DEF IInv, WritersOK
    <3> QED  BY <3>1, <3>2
  <2>2. \A y, z \in Procs, i \in Ids :
          y # z => writes'[y][i] = Untouched \/ writes'[z][i] = Untouched
    BY <1>3 DEF IInv, WritersOK
  <2>3. \A y \in Procs, i \in Cases \cup Children : writes'[y][i] # Untouched => i \in drawn
    BY <1>3 DEF IInv, WritersOK
  <2> QED  BY <1>1, <2>1, <2>2, <2>3 DEF IInv, WritersOK
<1>7. CasesOK'
  <2>1. ASSUME NEW y \in Procs, NEW i \in Children, Live(writes'[y][i])
        PROVE  /\ View(y, writes[y][i].case) # NoRow
               /\ View(y, writes[y][i].case).shelter = scope[y]
               /\ \A z \in Procs \ {y} : writes'[z][writes[y][i].case] # NoRow
               /\ y # x /\ writes'[y] = writes[y] /\ scope'[y] = scope[y]
    <3>1. i \in Ids /\ y # x /\ writes'[y] = writes[y] /\ scope'[y] = scope[y]
      BY <1>2, <1>3, <2>1
    <3>2. writes[y][i].case \in Ids
      BY <1>4, <2>1, <3>1
    <3>3. \A z \in Procs : writes'[z][writes[y][i].case] # NoRow
                               \/ writes'[z] = writes[z]
      BY <1>2, <1>3, <3>2, RowTypes DEF IInv
    <3>4. /\ View(y, writes[y][i].case) # NoRow
          /\ View(y, writes[y][i].case).shelter = scope[y]
          /\ \A z \in Procs \ {y} : writes[z][writes[y][i].case] # NoRow
      BY <2>1, <3>1 DEF IInv, CasesOK
    <3> QED  BY <3>1, <3>3, <3>4
  <2>2. \A i \in Children : rows'[i] # NoRow =>
          rows'[rows'[i].case] # NoRow /\ rows'[rows'[i].case].shelter = rows'[i].shelter
    BY <1>1 DEF IInv, CasesOK
  <2>3. ASSUME NEW y \in Procs, NEW i \in Children, Live(writes'[y][i])
        PROVE  /\ View(y, writes[y][i].case)' # NoRow
               /\ View(y, writes[y][i].case)'.shelter = scope'[y]
               /\ \A z \in Procs \ {y} : writes'[z][writes'[y][i].case] # NoRow
    <3>1. writes'[y] = writes[y] /\ scope'[y] = scope[y]
      BY <2>1, <2>3
    <3>2. View(y, writes[y][i].case)' = View(y, writes[y][i].case)
      BY <1>1, <3>1 DEF View
    <3>3. /\ View(y, writes[y][i].case) # NoRow
          /\ View(y, writes[y][i].case).shelter = scope[y]
          /\ \A z \in Procs \ {y} : writes'[z][writes[y][i].case] # NoRow
      BY <2>1, <2>3
    <3> QED  BY <3>1, <3>2, <3>3
  <2> SUFFICES ASSUME NEW y \in Procs, NEW i \in Children, Live(writes'[y][i])
               PROVE  /\ View(y, writes[y][i].case)' # NoRow
                      /\ View(y, writes[y][i].case)'.shelter = scope'[y]
                      /\ \A z \in Procs \ {y} : writes'[z][writes'[y][i].case] # NoRow
    BY <2>2 DEF CasesOK, Live
  <2> QED  BY <2>3
<1>8. PurgeOK'
  <2>1. \A y \in Procs, i \in Ids : writes'[y][i] = NoRow => writes'[y] = writes[y]
    BY <1>2, <1>3
  <2> QED  BY <1>1, <1>2, <1>3, <2>1 DEF IInv, PurgeOK, Live, Children
<1>9. MembersOK'
  <2>1. \A y \in Procs, i \in Ids : Live(writes'[y][i]) =>
          writes'[y] = writes[y] /\ scope'[y] = scope[y] /\ admitted'[y] = admitted[y]
    BY <1>2, <1>3
  <2> QED  BY <1>1, <1>3, <2>1 DEF IInv, MembersOK
<1> QED  BY <1>5, <1>6, <1>7, <1>8, <1>9 DEF IInv

\* A commit hides what nobody else has written, and shows each row with its case.
LEMMA CommitKeeps ==
    ASSUME ConstantsAssumption, IInv, NEW x \in Procs, Commit(x)
    PROVE  IInv'
<1>1. /\ rows' = [i \in Ids |-> View(x, i)]
      /\ accepted' = accepted \cup admitted[x]
      /\ writes' = [writes EXCEPT ![x] = [i \in Ids |-> Untouched]]
      /\ scope' = [scope EXCEPT ![x] = NoShelter]
      /\ admitted' = [admitted EXCEPT ![x] = {}]
      /\ drawn' = drawn
  BY DEF Commit, End
<1>2. /\ \A i \in Ids : writes'[x][i] = Untouched
      /\ \A y \in Procs : y # x => /\ writes'[y] = writes[y] /\ scope'[y] = scope[y]
                                   /\ admitted'[y] = admitted[y]
      /\ scope'[x] = NoShelter /\ admitted'[x] = {}
      /\ DOMAIN writes' = Procs /\ DOMAIN writes'[x] = Ids
      /\ NoRow # Untouched
  BY <1>1, RowTypes DEF IInv, TypeOK
<1>3. /\ Cases \subseteq Ids /\ Children \subseteq Ids /\ Members \subseteq Ids
      /\ Events \subseteq Children
      /\ \A y \in Procs, i \in Ids : Live(writes'[y][i]) => y # x
      /\ \A y \in Procs, i \in Ids : writes'[y][i] = NoRow => y # x
      /\ \A y \in Procs, i \in Ids : writes'[y][i] = Untouched \/ writes'[y][i] = writes[y][i]
  BY <1>2, RowTypes DEF IInv, Live
<1>4. \A i \in Ids :
        /\ writes[x][i] = Untouched => rows'[i] = rows[i]
        /\ writes[x][i] # Untouched => rows'[i] = writes[x][i]
        /\ writes[x][i] # Untouched => \A y \in Procs : writes'[y][i] = Untouched
  <2> TAKE i \in Ids
  <2>1. rows'[i] = View(x, i)
    BY <1>1
  <2>2. writes[x][i] # Untouched => \A y \in Procs : writes'[y][i] = Untouched
    BY <1>2 DEF IInv, WritersOK
  <2> QED  BY <2>1, <2>2 DEF View
<1>5. /\ \A i \in Children : rows[i] # NoRow => rows[i].case \in Ids /\ rows[i].case \in Cases
      /\ \A y \in Procs, i \in Children : Live(writes[y][i]) =>
           writes[y][i].case \in Ids /\ writes[y][i].case \in Cases
  <2>1. \A i \in Children : rows[i] # NoRow => rows[i] \in ChildRow
    BY <1>3, RowTypes DEF IInv
  <2>2. \A y \in Procs, i \in Children : Live(writes[y][i]) => writes[y][i] \in ChildRow
    BY <1>3, RowTypes DEF IInv, Live
  <2> QED  BY <1>3, <2>1, <2>2 DEF ChildRow
<1>6. TypeOK'
  <2>1. \A y \in Procs : /\ DOMAIN writes'[y] = Ids
                         /\ \A i \in Ids : writes'[y][i] \in RowOf(i) \cup {NoRow, Untouched}
    BY <1>2 DEF IInv, TypeOK
  <2>2. scope' \in [Procs -> Shelters \cup {NoShelter}] /\ admitted' \in [Procs -> SUBSET Members]
    BY <1>1 DEF IInv, TypeOK
  <2>3. DOMAIN rows' = Ids /\ \A i \in Ids : rows'[i] \in RowOf(i) \cup {NoRow}
    BY <1>1, RowTypes DEF IInv
  <2>4. drawn' \subseteq Ids /\ accepted' \subseteq Members
    BY <1>1 DEF IInv, TypeOK
  <2> QED  BY <1>2, <2>1, <2>2, <2>3, <2>4 DEF TypeOK
<1>7. WritersOK'
  <2>1. \A i \in Cases \cup Children : rows'[i] # NoRow => i \in drawn
    <3> TAKE i \in Cases \cup Children
    <3> QED  BY <1>3, <1>4 DEF IInv, WritersOK
  <2>2. ASSUME NEW y \in Procs, NEW i \in Ids
        PROVE  /\ scope'[y] = NoShelter => writes'[y][i] = Untouched
               /\ Live(writes'[y][i]) => writes'[y][i].shelter = scope'[y]
               /\ writes'[y][i] # Untouched /\ rows'[i] # NoRow => rows'[i].shelter = scope'[y]
    <3>1. CASE y = x
      BY <1>2, <3>1 DEF Live
    <3>2. CASE y # x
      BY <1>2, <1>4, <3>2 DEF IInv, WritersOK
    <3> QED  BY <3>1, <3>2
  <2>3. \A y, z \in Procs, i \in Ids :
          y # z => writes'[y][i] = Untouched \/ writes'[z][i] = Untouched
    BY <1>3 DEF IInv, WritersOK
  <2>4. \A y \in Procs, i \in Cases \cup Children : writes'[y][i] # Untouched => i \in drawn
    BY <1>3 DEF IInv, WritersOK
  <2> QED  BY <1>1, <2>1, <2>2, <2>3, <2>4 DEF WritersOK
<1>8. CasesOK'
  <2>1. ASSUME NEW i \in Children, rows'[i] # NoRow
        PROVE  /\ rows'[rows'[i].case] # NoRow
               /\ rows'[rows'[i].case].shelter = rows'[i].shelter
    <3> DEFINE c == rows'[i].case
    <3>1. i \in Ids
      BY <1>3
    <3>2. CASE writes[x][i] = Untouched
      <4>1. /\ rows'[i] = rows[i] /\ c \in Ids /\ c \in Cases
            /\ rows[c] # NoRow /\ rows[c].shelter = rows[i].shelter
        BY <1>4, <1>5, <2>1, <3>1, <3>2 DEF IInv, CasesOK
      <4>2. writes[x][c] # NoRow
        BY <1>2, <2>1, <3>2, <4>1 DEF IInv, PurgeOK
      <4>3. writes[x][c] # Untouched => writes[x][c].shelter = rows[c].shelter
        BY <4>1, <4>2 DEF IInv, WritersOK, Live
      <4> QED  BY <1>4, <4>1, <4>2, <4>3
    <3>3. CASE writes[x][i] # Untouched
      <4>1. rows'[i] = writes[x][i] /\ Live(writes[x][i]) /\ c \in Ids
        BY <1>4, <1>5, <2>1, <3>1, <3>3 DEF Live
      <4>2. View(x, c) # NoRow /\ View(x, c).shelter = scope[x]
        BY <4>1 DEF IInv, CasesOK
      <4>3. writes[x][i].shelter = scope[x]
        BY <3>1, <4>1 DEF IInv, WritersOK
      <4> QED  BY <1>1, <4>1, <4>2, <4>3
    <3> QED  BY <3>2, <3>3
  <2> DEFINE After(y, i) == IF writes'[y][i] = Untouched THEN rows'[i] ELSE writes'[y][i]
  <2>2. ASSUME NEW y \in Procs, NEW i \in Children, Live(writes'[y][i])
        PROVE  /\ After(y, writes'[y][i].case) # NoRow
               /\ After(y, writes'[y][i].case).shelter = scope'[y]
               /\ \A z \in Procs \ {y} : writes'[z][writes'[y][i].case] # NoRow
    <3> DEFINE c == writes'[y][i].case
    <3>1. i \in Ids /\ y # x /\ writes'[y] = writes[y] /\ scope'[y] = scope[y]
      BY <1>2, <1>3, <2>2
    <3>2. c \in Ids
      BY <1>5, <2>2, <3>1
    <3>3. /\ View(y, c) # NoRow /\ View(y, c).shelter = scope[y]
          /\ \A z \in Procs \ {y} : writes[z][c] # NoRow
      BY <2>2, <3>1 DEF IInv, CasesOK
    <3>4. \A z \in Procs \ {y} : writes'[z][c] # NoRow
      BY <1>2, <1>3, <3>2, <3>3
    <3>5. CASE writes[y][c] # Untouched
      BY <3>1, <3>3, <3>4, <3>5 DEF View
    <3>6. CASE writes[y][c] = Untouched
      <4>1. rows[c] # NoRow /\ rows[c].shelter = scope[y] /\ writes[x][c] # NoRow
        BY <3>1, <3>3, <3>6 DEF View
      <4>2. writes[x][c] # Untouched => writes[x][c].shelter = rows[c].shelter
        BY <3>2, <4>1 DEF IInv, WritersOK, Live
      <4>3. rows'[c] # NoRow /\ rows'[c].shelter = scope[y]
        BY <1>4, <3>2, <4>1, <4>2
      <4> QED  BY <3>1, <3>4, <3>6, <4>3
    <3> QED  BY <3>5, <3>6
  <2> QED  BY <2>1, <2>2 DEF CasesOK, View
<1>9. PurgeOK'
  <2>1. ASSUME NEW y \in Procs, NEW c \in Cases, NEW i \in Children,
               writes'[y][c] = NoRow, rows'[i] # NoRow, rows'[i].case = c
        PROVE  writes'[y][i] = NoRow
    <3>1. c \in Ids /\ i \in Ids /\ y # x /\ writes'[y] = writes[y]
      BY <1>2, <1>3, <2>1
    <3>2. CASE writes[x][i] = Untouched
      BY <1>4, <2>1, <3>1, <3>2 DEF IInv, PurgeOK
    <3>3. CASE writes[x][i] # Untouched
      <4>1. Live(writes[x][i]) /\ writes[x][i].case = c
        BY <1>4, <2>1, <3>1, <3>3 DEF Live
      <4> QED  BY <2>1, <3>1, <4>1 DEF IInv, CasesOK
    <3> QED  BY <3>2, <3>3
  <2>2. ASSUME NEW y \in Procs, NEW i \in Children, rows'[i] # NoRow
        PROVE  ~Live(writes'[y][i]) /\ (i \in Events => writes'[y][i] = Untouched)
    <3>1. i \in Ids
      BY <1>3
    <3>2. CASE writes[x][i] = Untouched
      <4>1. writes'[y][i] # Untouched => writes'[y] = writes[y]
        BY <1>2, <3>1
      <4> QED  BY <1>4, <2>2, <3>1, <3>2, <4>1 DEF IInv, PurgeOK, Live
    <3>3. CASE writes[x][i] # Untouched
      BY <1>4, <3>1, <3>3 DEF Live
    <3> QED  BY <3>2, <3>3
  <2> QED  BY <1>3, <2>1, <2>2 DEF PurgeOK
<1>10. MembersOK'
  <2>1. \A y \in Procs, i \in Ids : Live(writes'[y][i]) =>
          writes'[y] = writes[y] /\ scope'[y] = scope[y] /\ admitted'[y] = admitted[y]
    BY <1>2, <1>3
  <2>2. \A m \in Members : rows'[m] # NoRow /\ rows'[m].status = "active" => m \in accepted'
    <3> TAKE m \in Members
    <3>1. m \in Ids
      BY <1>3
    <3>2. CASE writes[x][m] = Untouched
      BY <1>1, <1>4, <3>1, <3>2 DEF IInv, MembersOK
    <3>3. CASE writes[x][m] # Untouched
      BY <1>1, <1>4, <3>1, <3>3 DEF IInv, MembersOK, Live
    <3> QED  BY <3>2, <3>3
  <2>3. \A c \in Cases : rows'[c] # NoRow /\ rows'[c].assignee # Nobody =>
          <<rows'[c].assignee, rows'[c].shelter>> \in accepted'
    <3> TAKE c \in Cases
    <3>1. c \in Ids
      BY <1>3
    <3>2. CASE writes[x][c] = Untouched
      BY <1>1, <1>4, <3>1, <3>2 DEF IInv, MembersOK
    <3>3. CASE writes[x][c] # Untouched
      <4>1. rows'[c] # NoRow => rows'[c] = writes[x][c] /\ Live(writes[x][c])
                                /\ rows'[c].shelter = scope[x]
        BY <1>4, <3>1, <3>3 DEF IInv, WritersOK, Live
      <4> QED  BY <1>1, <4>1 DEF IInv, MembersOK
    <3> QED  BY <3>2, <3>3
  <2>4. \A y \in Procs, m \in Members :
          Live(writes'[y][m]) /\ writes'[y][m].status = "active" => m \in admitted'[y]
    BY <1>3, <2>1 DEF IInv, MembersOK
  <2>5. \A y \in Procs, c \in Cases : Live(writes'[y][c]) /\ writes'[y][c].assignee # Nobody =>
          <<writes'[y][c].assignee, scope'[y]>> \in accepted' \cup admitted'[y]
    BY <1>1, <1>3, <2>1 DEF IInv, MembersOK
  <2> QED  BY <2>2, <2>3, <2>4, <2>5 DEF MembersOK
<1> QED  BY <1>6, <1>7, <1>8, <1>9, <1>10 DEF IInv

-----------------------------------------------------------------------------
(* The theorems.                                                           *)

LEMMA InitInvariant ==
    ASSUME ConstantsAssumption, Init
    PROVE  IInv
<1>1. /\ Members \subseteq Ids /\ Cases \subseteq Ids /\ Children \subseteq Ids
      /\ Events \subseteq Children /\ NoRow # Untouched
  BY DEF Ids, Children, ConstantsAssumption
<1>2. /\ \A i \in Ids : rows[i] = NoRow
      /\ \A x \in Procs, i \in Ids : writes[x][i] = Untouched
  BY DEF Init
<1>3. TypeOK
  BY <1>2 DEF Init, TypeOK
<1>4. WritersOK
  BY <1>1, <1>2 DEF WritersOK, Live
<1>5. CasesOK
  BY <1>1, <1>2 DEF CasesOK, Live
<1>6. PurgeOK
  BY <1>1, <1>2 DEF PurgeOK, Live
<1>7. MembersOK
  BY <1>1, <1>2 DEF MembersOK, Live
<1> QED  BY <1>3, <1>4, <1>5, <1>6, <1>7 DEF IInv

LEMMA NextInvariant ==
    ASSUME ConstantsAssumption, IInv, [Next]_vars
    PROVE  IInv'
<1>1. CASE UNCHANGED vars
  <2>1. TypeOK'
    BY <1>1 DEF vars, IInv, TypeOK
  <2>2. WritersOK' /\ PurgeOK' /\ MembersOK'
    BY <1>1 DEF vars, IInv, WritersOK, PurgeOK, MembersOK
  <2>3. CasesOK'
    BY <1>1 DEF vars, IInv, CasesOK, View
  <2> QED  BY <2>1, <2>2, <2>3 DEF IInv
<1>2. ASSUME NEW x \in Procs, NEW s \in Shelters, Begin(x, s) PROVE IInv'
  BY <1>2, BeginKeeps
<1>3. ASSUME NEW x \in Procs, NEW u \in Users, NEW status \in {"invited", "active", "revoked"},
             InviteMember(x, u, status) \/ UpdateMembership(x, u, status)
      PROVE  IInv'
  BY <1>3, MembershipsKeep
<1>4. ASSUME NEW x \in Procs, NEW c \in Cases, NEW status \in Statuses,
             NEW u \in Users \cup {Nobody}, CreateApplication(x, c, status, u)
      PROVE  IInv'
  BY <1>4, CasesKeep
<1>5. ASSUME NEW x \in Procs, NEW c \in Cases, NEW status \in Statuses,
             SetApplicationStatus(x, c, status)
      PROVE  IInv'
  BY <1>5, CasesKeep
<1>6. ASSUME NEW x \in Procs, NEW c \in Cases, NEW u \in Users \cup {Nobody},
             AssignApplication(x, c, u)
      PROVE  IInv'
  <2>1. View(x, c) \in CaseRow
    BY <1>6, Changeable, RowTypes DEF AssignApplication, IInv
  <2>2. View(x, c).status \in Statuses
    BY <2>1 DEF CaseRow
  <2> QED  BY <1>6, <2>2, CasesKeep
<1>7. ASSUME NEW x \in Procs, NEW c \in Cases, DeleteApplication(x, c) PROVE IInv'
  BY <1>7, DeleteKeeps
<1>8. ASSUME NEW x \in Procs, NEW i \in Children,
             Detach(x, i) \/ \E c \in Cases : Attach(x, i, c)
      PROVE  IInv'
  BY <1>8, ChildrenKeep
<1>9. ASSUME NEW x \in Procs, Commit(x) \/ Fail(x) PROVE IInv'
  BY <1>9, CommitKeeps, FailKeeps
<1> QED  BY <1>1, <1>2, <1>3, <1>4, <1>5, <1>6, <1>7, <1>8, <1>9 DEF Next

\* Every state is one that WritersOK, CasesOK, PurgeOK and MembersOK describe.
THEOREM Invariance == Spec => []IInv
<1>1. Init => IInv
  BY InitInvariant, ConstantsAssumption
<1>2. IInv /\ [Next]_vars => IInv'
  BY NextInvariant, ConstantsAssumption
<1> QED  BY <1>1, <1>2, PTL DEF Spec

\* Rows, transactions and memberships have their types.
THEOREM RowsAreTyped == Spec => []TypeOK
<1>1. IInv => TypeOK
  BY DEF IInv
<1> QED  BY <1>1, Invariance, PTL

\* Whoever a case is assigned to has been an active member of its shelter
\* (00016 9-24, 68-79).
THEOREM AssigneesWereActive == Spec => []AssigneeWasActive
<1>1. IInv => AssigneeWasActive
  BY DEF IInv, MembersOK, AssigneeWasActive
<1> QED  BY <1>1, Invariance, PTL

\* No event, note or submission is left without its case (00009 150-176,
\* 00010 62-76).
THEOREM NothingIsOrphaned == Spec => []NothingOutlivesItsCase
<1>1. IInv => NothingOutlivesItsCase
  BY DEF IInv, CasesOK, NothingOutlivesItsCase
<1> QED  BY <1>1, Invariance, PTL

\* A timeline is never shortened nor rewritten, its case's purge included
\* (00010 24-76).
THEOREM TimelinesAreKept == Spec => TimelineIsKept
<1>1. ASSUME IInv, [Next]_vars
      PROVE  [\A e \in Events : rows[e] # NoRow => rows'[e] = rows[e]]_rows
  <2>1. CASE UNCHANGED rows
    BY <2>1
  <2>2. ASSUME NEW x \in Procs, Commit(x), NEW e \in Events, rows[e] # NoRow
        PROVE  rows'[e] = rows[e]
    <3>1. e \in Ids /\ writes[x][e] = Untouched
      BY <1>1, <2>2, RowTypes, ConstantsAssumption DEF IInv, PurgeOK
    <3> QED  BY <2>2, <3>1 DEF Commit, View
  <2>3. UNCHANGED rows \/ \E x \in Procs : Commit(x)
    <3>1. \A x, s : Begin(x, s) \/ Fail(x) => UNCHANGED rows
      BY DEF Begin, Fail
    <3>2. \A x, u, status : InviteMember(x, u, status) \/ UpdateMembership(x, u, status)
                              => UNCHANGED rows
      BY DEF InviteMember, UpdateMembership
    <3>3. \A x, c, status, u : (\/ CreateApplication(x, c, status, u)
                                \/ SetApplicationStatus(x, c, status)
                                \/ AssignApplication(x, c, u)) => UNCHANGED rows
      BY DEF CreateApplication, SetApplicationStatus, AssignApplication
    <3>4. \A x, c, i : DeleteApplication(x, c) \/ Attach(x, i, c) \/ Detach(x, i)
                              => UNCHANGED rows
      BY DEF DeleteApplication, Erase, Attach, Detach
    <3> QED  BY <1>1, <3>1, <3>2, <3>3, <3>4 DEF vars, Next
  <2> QED  BY <2>1, <2>2, <2>3
<1> QED  BY <1>1, Invariance, PTL DEF Spec, TimelineIsKept
=============================================================================
