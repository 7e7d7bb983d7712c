---------------------------- MODULE PetCatalog_proofs ----------------------------
(***************************************************************************)
(* Proofs of the properties of PetCatalog, for any handlers, shelters and  *)
(* rows.  What a row names is there because nobody deletes the parent of a *)
(* row somebody is adding, and whoever deletes a parent has written every  *)
(* row that named it; covers are single because whoever claims one looked  *)
(* at its own view and at what every other transaction is writing.         *)
(***************************************************************************)
EXTENDS PetCatalog, FiniteSetTheorems, TLAPS

-----------------------------------------------------------------------------
(* The invariant.                                                          *)

Live(r) == r \notin {NoRow, Untouched}

\* Row r of id j names i in a foreign key.
Names(j, r, i) == \/ j \in Photos /\ i \in {j[1], j[2]}
                  \/ j \in Trail /\ r.pet = i
                  \/ j \in Records /\ i \in {r.pet, r.document}

IsCover(r) == Live(r) /\ r.cover

Parents == Pets \cup Media

\* A row is written by one handler at a time, and in its shelter.
WritersOK ==
    /\ \A x \in Procs, i \in Ids :
         /\ scope[x] = NoShelter => writes[x][i] = Untouched
         /\ Live(writes[x][i]) => writes[x][i].shelter = scope[x]
         /\ writes[x][i] # Untouched /\ rows[i] # NoRow => rows[i].shelter = scope[x]
    /\ \A x, y \in Procs, i \in Ids :
         x # y => writes[x][i] = Untouched \/ writes[y][i] = Untouched

\* A row has what it names, and what a row being added names is not being deleted.
ParentsOK ==
    /\ \A i \in Ids, p \in Parents : rows[i] # NoRow /\ Names(i, rows[i], p) =>
         rows[p] # NoRow /\ rows[p].shelter = rows[i].shelter
    /\ \A x \in Procs, i \in Ids, p \in Parents :
         Live(writes[x][i]) /\ Names(i, writes[x][i], p) => ParentExists(x, p)

\* Whoever deletes a row writes every row that names it.
DeletedOK == \A x \in Procs, i \in Ids, p \in Parents :
    writes[x][p] = NoRow /\ rows[i] # NoRow /\ Names(i, rows[i], p) => writes[x][i] # Untouched

\* Nobody writes a line of the trail that is there.
TrailOK == \A x \in Procs, h \in Trail : rows[h] # NoRow => writes[x][h] = Untouched

\* A pet has one cover in the tables, in every transaction's view, and among what
\* all of them are writing.
CoversOK == \A p \in Pets : \A m, n \in Media :
    /\ IsCover(rows[<<p, m>>]) /\ IsCover(rows[<<p, n>>]) => m = n
    /\ \A x \in Procs : IsCover(View(x, <<p, m>>)) /\ IsCover(View(x, <<p, n>>)) => m = n
    /\ \A x, y \in Procs : IsCover(writes[x][<<p, m>>]) /\ IsCover(writes[y][<<p, n>>]) => m = n

IInv == TypeOK /\ WritersOK /\ ParentsOK /\ DeletedOK /\ TrailOK /\ CoversOK

-----------------------------------------------------------------------------
(* Rows.                                                                   *)

\* The tables share no id.
LEMMA IdsApart ==
    ASSUME CatalogAssumption
    PROVE  /\ Pets \subseteq Ids /\ Media \subseteq Ids /\ Trail \subseteq Ids
           /\ Records \subseteq Ids /\ Photos \subseteq Ids
           /\ Parents \subseteq Ids /\ NoRow \notin Parents
           /\ \A p \in Pets, m \in Media : <<p, m>> \in Photos /\ <<p, m>> \in Ids
           /\ \A i \in Parents : i \notin Trail \cup Records \cup Photos
           /\ \A i \in Pets : RowOf(i) = PetRow /\ i \notin Media
           /\ \A i \in Media : RowOf(i) = MediaRow /\ i \notin Pets
           /\ \A i \in Trail : RowOf(i) = TrailRow /\ i \notin Records \cup Photos
           /\ \A i \in Records : RowOf(i) = RecordRow /\ i \notin Photos
           /\ \A i \in Photos : RowOf(i) = PhotoRow
<1>1. /\ \A p \in Pets, m \in Media : <<p, m>> \in Photos
      /\ Photos \subseteq Ids
  BY DEF Photos, Ids
<1> HIDE DEF Photos
<1> QED  BY <1>1 DEF Ids, RowOf, CatalogAssumption, Parents

\* The types of rows, committed or not.
LEMMA RowTypes ==
    ASSUME CatalogAssumption, TypeOK
    PROVE  /\ NoRow # Untouched
           /\ \A i \in Ids : NoRow \notin RowOf(i) /\ Untouched \notin RowOf(i)
           /\ \A i \in Ids : rows[i] \in RowOf(i) \cup {NoRow}
           /\ \A x \in Procs, i \in Ids :
                /\ writes[x][i] \in RowOf(i) \cup {NoRow, Untouched}
                /\ View(x, i) \in RowOf(i) \cup {NoRow}
<1>1. NoRow # Untouched
  BY DEF CatalogAssumption
<1>2. \A i \in Ids : NoRow \notin RowOf(i) /\ Untouched \notin RowOf(i)
  BY DEF CatalogAssumption, RowOf, AnyRow
<1>3. /\ \A i \in Ids : rows[i] \in RowOf(i) \cup {NoRow}
      /\ \A x \in Procs, i \in Ids : writes[x][i] \in RowOf(i) \cup {NoRow, Untouched}
  BY DEF TypeOK
<1>4. \A x \in Procs, i \in Ids : View(x, i) \in RowOf(i) \cup {NoRow}
  BY <1>3 DEF View
<1> QED  BY <1>1, <1>2, <1>3, <1>4

\* Children finds the rows that name i.
LEMMA ChildrenAre ==
    ASSUME NEW table, NEW i, NEW j
    PROVE  j \in Children(table, i) <=> j \in Ids /\ Live(table[j]) /\ Names(j, table[j], i)
<1>1. Photos \subseteq Ids /\ Trail \subseteq Ids /\ Records \subseteq Ids
  BY DEF Ids
<1> QED  BY <1>1 DEF Children, Names, Live

\* What names a parent is no parent.
LEMMA NamersAreNoParents ==
    ASSUME CatalogAssumption, NEW i, NEW r, NEW p, Names(i, r, p)
    PROVE  i \notin Parents
BY IdsApart DEF Names

\* The view of a transaction is as sound as the tables.
LEMMA ViewParents ==
    ASSUME CatalogAssumption, IInv, NEW x \in Procs, NEW i \in Ids, NEW p \in Parents,
           View(x, i) # NoRow, Names(i, View(x, i), p)
    PROVE  /\ View(x, p) # NoRow /\ View(x, p).shelter = View(x, i).shelter
           /\ (\A y \in Procs \ {x} : writes[y][i] = Untouched) =>
                 \A y \in Procs \ {x} : writes[y][p] # NoRow
<1>1. p \in Ids /\ NoRow # Untouched
  BY IdsApart, RowTypes DEF IInv
<1>2. CASE writes[x][i] = Untouched
  <2>1. /\ View(x, i) = rows[i] /\ rows[i] # NoRow /\ Names(i, rows[i], p)
        /\ rows[p] # NoRow /\ rows[p].shelter = rows[i].shelter
    BY <1>2 DEF View, IInv, ParentsOK
  <2>2. writes[x][p] # NoRow
    BY <1>2, <2>1 DEF IInv, DeletedOK
  <2>3. writes[x][p] # Untouched => writes[x][p].shelter = rows[p].shelter
    BY <1>1, <2>1, <2>2 DEF IInv, WritersOK, Live
  <2>4. \A y \in Procs : writes[y][p] = NoRow => writes[y][i] # Untouched
    BY <2>1 DEF IInv, DeletedOK
  <2> QED  BY <2>1, <2>2, <2>3, <2>4 DEF View
<1>3. CASE writes[x][i] # Untouched
  <2>1. View(x, i) = writes[x][i] /\ Live(writes[x][i])
    BY <1>3 DEF View, Live
  <2>2. ParentExists(x, p) /\ writes[x][i].shelter = scope[x]
    BY <2>1 DEF IInv, ParentsOK, WritersOK
  <2> QED  BY <2>1, <2>2 DEF ParentExists
<1> QED  BY <1>2, <1>3

-----------------------------------------------------------------------------
(* What a statement owes the invariant.                                    *)

\* A statement of x writes rows that nobody else has written, in its shelter; a
\* row it writes has what it names, and a row it deletes is named by nothing more;
\* it leaves the trail alone, and claims a cover where nobody has one.
Statement(x) ==
    /\ scope[x] # NoShelter
    /\ UNCHANGED <<rows, scope>>
    /\ DOMAIN writes' = Procs /\ DOMAIN writes'[x] = Ids
    /\ \A y \in Procs \ {x} : writes'[y] = writes[y]
    /\ \A i \in Ids : writes'[x][i] # writes[x][i] =>
         /\ writes'[x][i] \in RowOf(i) \cup {NoRow}
         /\ \A y \in Procs \ {x} : writes[y][i] = Untouched
         /\ writes'[x][i] # NoRow => writes'[x][i].shelter = scope[x]
         /\ rows[i] # NoRow => rows[i].shelter = scope[x]
    /\ \A i \in Ids, p \in Parents :
         /\ writes'[x][i] # writes[x][i] /\ writes'[x][i] # NoRow
         /\ Names(i, writes'[x][i], p)
         => ParentExists(x, p) /\ writes'[x][p] = writes[x][p]
    /\ \A p \in Parents : writes'[x][p] # writes[x][p] /\ writes'[x][p] = NoRow =>
         \A i \in Ids :
           /\ \A y \in Procs \ {x} : Live(writes[y][i]) => ~Names(i, writes[y][i], p)
           /\ Live(View(x, i)) /\ Names(i, View(x, i), p) => writes'[x][i] = NoRow
    /\ \A h \in Trail : writes'[x][h] # writes[x][h] => rows[h] = NoRow
    /\ \A p \in Pets, m \in Media :
         writes'[x][<<p, m>>] # writes[x][<<p, m>>] /\ IsCover(writes'[x][<<p, m>>]) =>
           \A n \in Media \ {m} :
             /\ writes'[x][<<p, n>>] = writes[x][<<p, n>>] /\ ~IsCover(View(x, <<p, n>>))
             /\ \A y \in Procs \ {x} : ~IsCover(writes[y][<<p, n>>])

\* A statement keeps the invariant (00005, 00006).
LEMMA StatementKeeps ==
    ASSUME CatalogAssumption, IInv, NEW x \in Procs, Statement(x)
    PROVE  IInv'
<1>0. /\ rows' = rows /\ scope' = scope
      /\ \A y \in Procs \ {x} : writes'[y] = writes[y]
      /\ \A y \in Procs, i \in Ids : ~(y = x /\ writes'[x][i] # writes[x][i])
                                       => writes'[y][i] = writes[y][i]
      /\ NoRow # Untouched
      /\ Parents \subseteq Ids /\ Trail \subseteq Ids
  BY RowTypes, IdsApart DEF Statement, IInv
<1>1. TypeOK'
  <2>1. DOMAIN writes' = Procs /\ \A y \in Procs : DOMAIN writes'[y] = Ids
    BY DEF Statement, IInv, TypeOK
  <2>2. \A y \in Procs, i \in Ids : writes'[y][i] \in RowOf(i) \cup {NoRow, Untouched}
    BY <1>0, RowTypes DEF Statement, IInv
  <2> QED  BY <1>0, <2>1, <2>2 DEF IInv, TypeOK
<1>2. WritersOK'
  <2>1. ASSUME NEW y \in Procs, NEW i \in Ids
        PROVE  /\ scope'[y] = NoShelter => writes'[y][i] = Untouched
               /\ Live(writes'[y][i]) => writes'[y][i].shelter = scope'[y]
               /\ writes'[y][i] # Untouched /\ rows'[i] # NoRow => rows'[i].shelter = scope'[y]
    <3>1. CASE y = x /\ writes'[x][i] # writes[x][i]
      BY <1>0, <3>1 DEF Statement, Live
    <3>2. CASE ~(y = x /\ writes'[x][i] # writes[x][i])
      BY <1>0, <3>2 DEF IInv, WritersOK, Live
    <3> QED  BY <3>1, <3>2
  <2>2. ASSUME NEW y \in Procs, NEW z \in Procs, NEW i \in Ids, y # z
        PROVE  writes'[y][i] = Untouched \/ writes'[z][i] = Untouched
    <3>1. CASE writes'[x][i] = writes[x][i]
      BY <1>0, <2>2, <3>1 DEF IInv, WritersOK
    <3>2. CASE writes'[x][i] # writes[x][i]
      <4>1. \A w \in Procs \ {x} : writes'[w][i] = Untouched
        BY <1>0, <3>2 DEF Statement
      <4> QED  BY <2>2, <4>1
    <3> QED  BY <3>1, <3>2
  <2> QED  BY <2>1, <2>2 DEF WritersOK
<1>3. ParentsOK'
  <2>1. ASSUME NEW y \in Procs, NEW i \in Ids, NEW p \in Parents,
               Live(writes'[y][i]), Names(i, writes'[y][i], p)
        PROVE  ParentExists(y, p)'
    <3>1. p \in Ids
      BY <1>0
    <3>2. ParentExists(y, p) /\ (writes'[x][p] # writes[x][p] => writes'[x][p] # NoRow)
      <4>1. CASE y = x /\ writes'[x][i] # writes[x][i]
        BY <1>0, <2>1, <4>1 DEF Statement, Live
      <4>2. CASE y = x /\ writes'[x][i] = writes[x][i]
        <5>1. ParentExists(x, p) /\ View(x, i) = writes[x][i]
          BY <2>1, <4>2 DEF IInv, ParentsOK, View, Live
        <5> QED  BY <2>1, <4>2, <5>1 DEF Statement, Live
      <4>3. CASE y # x
        BY <1>0, <2>1, <4>3 DEF IInv, ParentsOK, Statement
      <4> QED  BY <4>1, <4>2, <4>3
    <3>3. writes'[x][p] # writes[x][p] =>
            writes'[x][p] # Untouched /\ writes'[x][p].shelter = scope[x]
      BY <3>1, <3>2, RowTypes DEF Statement, IInv
    <3>4. \A z \in Procs : writes'[z][p] # NoRow \/ writes'[z][p] = writes[z][p]
      BY <1>0, <3>1, <3>2
    <3>5. \A z \in Procs \ {y} : writes'[z][p] # NoRow
      BY <3>2, <3>4 DEF ParentExists
    <3>6. View(y, p)' # NoRow /\ View(y, p)'.shelter = scope[y]
      <4>1. CASE y = x /\ writes'[x][p] # writes[x][p]
        BY <3>2, <3>3, <4>1 DEF View
      <4>2. CASE ~(y = x /\ writes'[x][p] # writes[x][p])
        BY <1>0, <3>1, <3>2, <4>2 DEF View, ParentExists
      <4> QED  BY <4>1, <4>2
    <3> QED  BY <1>0, <3>5, <3>6 DEF ParentExists
  <2> QED  BY <1>0, <2>1 DEF IInv, ParentsOK
<1>4. DeletedOK'
  <2>1. ASSUME NEW y \in Procs, NEW i \in Ids, NEW p \in Parents,
               writes'[y][p] = NoRow, rows[i] # NoRow, Names(i, rows[i], p)
        PROVE  writes'[y][i] # Untouched
    <3>1. p \in Ids /\ (y = x /\ writes'[x][i] # writes[x][i] => writes'[x][i] # Untouched)
      BY <1>0, RowTypes DEF Statement, IInv
    <3>2. CASE y = x /\ writes'[x][p] # writes[x][p]
      <4>1. CASE writes[x][i] = Untouched
        <5>1. View(x, i) = rows[i] /\ Live(rows[i])
          BY <2>1, <4>1, RowTypes DEF View, Live, IInv
        <5> QED  BY <1>0, <2>1, <3>2, <5>1 DEF Statement
      <4>2. CASE writes[x][i] # Untouched
        BY <3>1, <3>2, <4>2
      <4> QED  BY <4>1, <4>2
    <3>3. CASE ~(y = x /\ writes'[x][p] # writes[x][p])
      <4>1. writes[y][i] # Untouched
        BY <1>0, <2>1, <3>1, <3>3 DEF IInv, DeletedOK
      <4> QED  BY <1>0, <3>1, <4>1
    <3> QED  BY <3>2, <3>3
  <2> QED  BY <1>0, <2>1 DEF DeletedOK
<1>5. TrailOK'
  BY <1>0 DEF Statement, IInv, TrailOK
<1>6. CoversOK'
  <2> SUFFICES ASSUME NEW p \in Pets, NEW m \in Media, NEW n \in Media, m # n
      PROVE  /\ ~(IsCover(rows'[<<p, m>>]) /\ IsCover(rows'[<<p, n>>]))
             /\ \A y \in Procs : ~(IsCover(View(y, <<p, m>>)') /\ IsCover(View(y, <<p, n>>)'))
             /\ \A y, z \in Procs :
                  ~(IsCover(writes'[y][<<p, m>>]) /\ IsCover(writes'[z][<<p, n>>]))
    BY DEF CoversOK
  <2> DEFINE f == <<p, m>>
             g == <<p, n>>
  <2> SUFFICES /\ ~(IsCover(rows'[f]) /\ IsCover(rows'[g]))
               /\ \A y \in Procs : ~(IsCover(View(y, f)') /\ IsCover(View(y, g)'))
               /\ \A y, z \in Procs : ~(IsCover(writes'[y][f]) /\ IsCover(writes'[z][g]))
    OBVIOUS
  <2>1. f \in Ids /\ g \in Ids
    BY IdsApart
  <2>2. \A i \in Ids : writes'[x][i] # writes[x][i] => writes'[x][i] # Untouched
    BY RowTypes DEF Statement, IInv
  <2>3. ~(IsCover(rows'[f]) /\ IsCover(rows'[g]))
    BY <1>0 DEF IInv, CoversOK
  <2>4. /\ \A y \in Procs : ~(IsCover(View(y, f)) /\ IsCover(View(y, g)))
        /\ \A y, z \in Procs : ~(IsCover(writes[y][f]) /\ IsCover(writes[z][g]))
    BY DEF IInv, CoversOK
  <2>5. ASSUME IsCover(writes'[x][f]), writes'[x][f] # writes[x][f]
        PROVE  /\ writes'[x][g] = writes[x][g] /\ ~IsCover(View(x, g))
               /\ \A y \in Procs \ {x} : ~IsCover(writes[y][g])
               /\ ~IsCover(writes[x][g])
    <3>1. /\ writes'[x][g] = writes[x][g] /\ ~IsCover(View(x, g))
          /\ \A y \in Procs \ {x} : ~IsCover(writes[y][g])
      BY <2>5 DEF Statement
    <3> QED  BY <3>1 DEF View, IsCover, Live
  <2>6. ASSUME IsCover(writes'[x][g]), writes'[x][g] # writes[x][g]
        PROVE  /\ writes'[x][f] = writes[x][f] /\ ~IsCover(View(x, f))
               /\ \A y \in Procs \ {x} : ~IsCover(writes[y][f])
               /\ ~IsCover(writes[x][f])
    <3>1. /\ writes'[x][f] = writes[x][f] /\ ~IsCover(View(x, f))
          /\ \A y \in Procs \ {x} : ~IsCover(writes[y][f])
      BY <2>6 DEF Statement
    <3> QED  BY <3>1 DEF View, IsCover, Live
  <2> HIDE DEF f, g
  <2>7. \A y, z \in Procs : ~(IsCover(writes'[y][f]) /\ IsCover(writes'[z][g]))
    BY <1>0, <2>1, <2>4, <2>5, <2>6
  <2>8. \A i \in Ids : IsCover(View(x, i)') =>
          IsCover(View(x, i)) \/ (IsCover(writes'[x][i]) /\ writes'[x][i] # writes[x][i])
    BY <1>0, <2>2 DEF View
  <2>9. \A i \in Ids : writes'[x][i] = writes[x][i] => View(x, i)' = View(x, i)
    BY <1>0 DEF View
  <2>10. ~(IsCover(View(x, f)') /\ IsCover(View(x, g)'))
    BY <2>1, <2>4, <2>5, <2>6, <2>8, <2>9
  <2>11. \A y \in Procs \ {x} : View(y, f)' = View(y, f) /\ View(y, g)' = View(y, g)
    BY <1>0 DEF View
  <2> QED  BY <2>3, <2>4, <2>7, <2>10, <2>11
<1> QED  BY <1>1, <1>2, <1>3, <1>4, <1>5, <1>6 DEF IInv

-----------------------------------------------------------------------------
(* The statements.                                                         *)

\* Nobody has the cover of p, nor is about to.
NoCover(x, p) == \A n \in Media :
    /\ ~IsCover(View(x, <<p, n>>))
    /\ \A y \in Procs \ {x} : ~IsCover(writes[y][<<p, n>>])

\* What row r of id i has to be for a statement that writes only it.
RowSound(x, i, r) ==
    /\ r \in RowOf(i)
    /\ \A y \in Procs \ {x} : writes[y][i] = Untouched
    /\ r.shelter = scope[x]
    /\ rows[i] # NoRow => rows[i].shelter = scope[x]
    /\ \A p \in Parents : Names(i, r, p) => ParentExists(x, p)
    /\ i \in Trail => rows[i] = NoRow
    /\ i \in Photos /\ r.cover => NoCover(x, i[1])

LEMMA PutKeeps ==
    ASSUME CatalogAssumption, IInv, NEW x \in Procs, NEW i \in Ids, NEW r,
           scope[x] # NoShelter, RowSound(x, i, r), Put(x, [j \in {i} |-> r]),
           UNCHANGED <<rows, scope>>
    PROVE  IInv'
<1>1. /\ DOMAIN writes' = Procs /\ DOMAIN writes'[x] = Ids
      /\ writes'[x][i] = r
      /\ \A j \in Ids \ {i} : writes'[x][j] = writes[x][j]
      /\ \A y \in Procs \ {x} : writes'[y] = writes[y]
  BY DEF Put, IInv, TypeOK
<1>2. \A j \in Ids : writes'[x][j] # writes[x][j] => j = i
  BY <1>1
<1>3. r # NoRow /\ Live(r)
  BY RowTypes DEF RowSound, IInv, Live
<1>4. ASSUME NEW j \in Ids, NEW p \in Parents, writes'[x][j] # writes[x][j],
             Names(j, writes'[x][j], p)
      PROVE  ParentExists(x, p) /\ writes'[x][p] = writes[x][p]
  <2>1. j = i /\ Names(i, r, p)
    BY <1>1, <1>2, <1>4
  <2>2. p # i /\ p \in Ids
    BY <2>1, NamersAreNoParents, IdsApart
  <2> QED  BY <1>1, <2>1, <2>2 DEF RowSound
<1>5. ASSUME NEW p \in Pets, NEW m \in Media, writes'[x][<<p, m>>] # writes[x][<<p, m>>],
             IsCover(writes'[x][<<p, m>>]), NEW n \in Media \ {m}
      PROVE  /\ writes'[x][<<p, n>>] = writes[x][<<p, n>>] /\ ~IsCover(View(x, <<p, n>>))
             /\ \A y \in Procs \ {x} : ~IsCover(writes[y][<<p, n>>])
  <2>1. <<p, m>> \in Ids /\ <<p, n>> \in Ids /\ <<p, m>> \in Photos
    BY IdsApart
  <2>2. <<p, m>> = i
    BY <1>2, <1>5, <2>1
  <2>3. <<p, n>> # i /\ i[1] = p
    BY <2>2
  <2>4. r.cover
    BY <1>1, <1>5, <2>2 DEF IsCover
  <2>5. NoCover(x, p)
    BY <2>1, <2>2, <2>3, <2>4 DEF RowSound
  <2> QED  BY <1>1, <2>1, <2>3, <2>5 DEF NoCover
<1>6. Trail \subseteq Ids /\ Parents \subseteq Ids
  BY IdsApart
<1>7. \A j \in Ids : writes'[x][j] # writes[x][j] =>
         /\ writes'[x][j] \in RowOf(j) \cup {NoRow}
         /\ writes'[x][j] # NoRow
         /\ \A y \in Procs \ {x} : writes[y][j] = Untouched
         /\ writes'[x][j].shelter = scope[x]
         /\ rows[j] # NoRow => rows[j].shelter = scope[x]
         /\ j \in Trail => rows[j] = NoRow
  BY <1>1, <1>2, <1>3 DEF RowSound
<1>8. Statement(x)
  BY <1>1, <1>4, <1>5, <1>6, <1>7 DEF Statement
<1> QED  BY <1>8, StatementKeeps

\* CoverFree finds every cover of p, for a pet's photos are of its shelter
\* (00006 52-68).
LEMMA CoverFreeFinds ==
    ASSUME CatalogAssumption, IInv, NEW x \in Procs, NEW p \in Pets,
           View(x, p) # NoRow, View(x, p).shelter = scope[x], CoverFree(x, p)
    PROVE  NoCover(x, p)
<1> SUFFICES ASSUME NEW n \in Media
             PROVE  /\ ~IsCover(View(x, <<p, n>>))
                    /\ \A y \in Procs \ {x} : ~IsCover(writes[y][<<p, n>>])
  BY DEF NoCover
<1> DEFINE f == <<p, n>>
<1> SUFFICES ~IsCover(View(x, f)) /\ \A y \in Procs \ {x} : ~IsCover(writes[y][f])
  OBVIOUS
<1>1. f \in Photos /\ f \in Ids /\ p \in Parents /\ p \in Ids
  BY IdsApart DEF Parents
<1>2. \A r : Names(f, r, p)
  BY <1>1 DEF Names
<1>3. /\ View(x, f) # NoRow => ~(View(x, f).shelter = scope[x] /\ View(x, f).cover)
      /\ \A y \in Procs \ {x} : Live(writes[y][f]) =>
           ~(writes[y][f].shelter = scope[x] /\ writes[y][f].cover)
  BY DEF CoverFree, Live
<1> HIDE DEF f
<1>4. ~IsCover(View(x, f))
  BY <1>1, <1>2, <1>3, ViewParents DEF IsCover, Live
<1>5. ASSUME NEW y \in Procs \ {x}, Live(writes[y][f])
      PROVE  writes[y][f].shelter = scope[x]
  <2>1. ParentExists(y, p) /\ writes[y][f].shelter = scope[y]
    BY <1>1, <1>2, <1>5 DEF IInv, ParentsOK, WritersOK
  <2>2. CASE writes[x][p] = Untouched
    <3>1. rows[p] # NoRow /\ rows[p].shelter = scope[x]
      BY <2>2 DEF View
    <3>2. writes[y][p] # Untouched => rows[p].shelter = scope[y]
      BY <1>1, <3>1 DEF IInv, WritersOK
    <3> QED  BY <2>1, <3>1, <3>2 DEF ParentExists, View
  <2>3. CASE writes[x][p] # Untouched
    <3>1. writes[y][p] = Untouched
      BY <1>1, <2>3 DEF IInv, WritersOK
    <3>2. rows[p] # NoRow /\ rows[p].shelter = scope[y]
      BY <2>1, <3>1 DEF ParentExists, View
    <3>3. rows[p].shelter = scope[x]
      BY <1>1, <2>3, <3>2 DEF IInv, WritersOK
    <3> QED  BY <2>1, <3>2, <3>3
  <2> QED  BY <2>2, <2>3
<1> QED  BY <1>3, <1>4, <1>5 DEF IsCover

\* An INSERT.
LEMMA InsertKeeps ==
    ASSUME CatalogAssumption, IInv, NEW x \in Procs, NEW i \in Ids, NEW r \in RowOf(i),
           Insert(x, i, r), r.shelter = scope[x],
           \A p \in Parents : Names(i, r, p) => ParentExists(x, p),
           i \in Photos /\ r.cover => NoCover(x, i[1])
    PROVE  IInv'
<1>1. /\ scope[x] # NoShelter /\ View(x, i) = NoRow
      /\ \A y \in Procs \ {x} : writes[y][i] = Untouched
      /\ Put(x, [j \in {i} |-> r]) /\ UNCHANGED <<rows, scope>>
  BY DEF Insert
<1>2. rows[i] # NoRow => rows[i].shelter = scope[x]
  BY <1>1 DEF View, IInv, WritersOK
<1>3. i \in Trail => rows[i] = NoRow
  BY <1>1 DEF View, IInv, TrailOK
<1>4. RowSound(x, i, r)
  BY <1>1, <1>2, <1>3 DEF RowSound
<1> QED  BY <1>1, <1>4, PutKeeps

\* An UPDATE, which changes no key.
LEMMA UpdateKeeps ==
    ASSUME CatalogAssumption, IInv, NEW x \in Procs, NEW i \in Ids, NEW r \in RowOf(i),
           i \notin Trail, Mine(x, i), Update(x, i, r), r.shelter = View(x, i).shelter,
           \A p \in Parents : Names(i, r, p) => Names(i, View(x, i), p),
           i \in Photos /\ r.cover => NoCover(x, i[1])
    PROVE  IInv'
<1>1. /\ scope[x] # NoShelter /\ View(x, i) # NoRow /\ View(x, i).shelter = scope[x]
      /\ \A y \in Procs \ {x} : writes[y][i] = Untouched
      /\ Put(x, [j \in {i} |-> r]) /\ UNCHANGED <<rows, scope>>
  BY DEF Mine, Update
<1>2. rows[i] # NoRow => rows[i].shelter = scope[x]
  BY <1>1 DEF View, IInv, WritersOK
<1>3. ASSUME NEW p \in Parents, Names(i, r, p) PROVE ParentExists(x, p)
  BY <1>1, <1>3, ViewParents DEF ParentExists
<1>4. RowSound(x, i, r)
  BY <1>1, <1>2, <1>3 DEF RowSound
<1> QED  BY <1>1, <1>4, PutKeeps

\* A DELETE takes along all that names its row, which no trail does.
LEMMA DeleteKeeps ==
    ASSUME CatalogAssumption, IInv, NEW x \in Procs, NEW i \in Parents,
           Delete(x, i, ChildrenSeen(x, i)), ChildrenSeen(x, i) \cap Trail = {}
    PROVE  IInv'
<1> DEFINE cascade == ChildrenSeen(x, i)
           table == [j \in Ids |-> View(x, j)]
<1>1. /\ Mine(x, i) /\ ~Shared(x, i)
      /\ \A j \in cascade : \A y \in Procs \ {x} : writes[y][j] = Untouched
      /\ writes' = [writes EXCEPT ![x] =
             [j \in Ids |-> IF j \in cascade \cup {i} THEN NoRow ELSE writes[x][j]]]
      /\ UNCHANGED <<rows, scope>>
      /\ cascade \cap Trail = {}
  BY DEF Delete
<1>2. /\ Parents \subseteq Ids /\ Trail \subseteq Ids /\ i \in Ids
      /\ \A j \in Parents : j \notin Trail \cup Records \cup Photos
      /\ NoRow # Untouched
  BY IdsApart, RowTypes DEF IInv
<1>3. \A j : j \in cascade <=> j \in Ids /\ Live(View(x, j)) /\ Names(j, View(x, j), i)
  <2>1. \A j : j \in Children(table, i) <=> j \in Ids /\ Live(table[j]) /\ Names(j, table[j], i)
    <3> HIDE DEF table
    <3> QED  BY ChildrenAre
  <2> QED  BY <2>1 DEF ChildrenSeen
<1>4. /\ DOMAIN writes' = Procs /\ DOMAIN writes'[x] = Ids
      /\ \A y \in Procs \ {x} : writes'[y] = writes[y]
      /\ \A j \in Ids : writes'[x][j] = IF j \in cascade \cup {i} THEN NoRow ELSE writes[x][j]
  BY <1>1 DEF IInv, TypeOK
<1> HIDE DEF cascade, table
<1>5. \A j \in cascade : j \notin Parents
  BY <1>3, NamersAreNoParents
<1>6. /\ scope[x] # NoShelter
      /\ \A y \in Procs \ {x} : writes[y][i] = Untouched
      /\ View(x, i) # NoRow /\ View(x, i).shelter = scope[x]
  BY <1>1 DEF Mine
<1>7. ASSUME NEW j \in Ids, writes'[x][j] # writes[x][j]
      PROVE  /\ writes'[x][j] = NoRow /\ j \in cascade \cup {i}
             /\ \A y \in Procs \ {x} : writes[y][j] = Untouched
             /\ rows[j] # NoRow => rows[j].shelter = scope[x]
  <2>1. j \in cascade \cup {i} /\ writes'[x][j] = NoRow
    BY <1>4, <1>7
  <2>2. View(x, j) # NoRow /\ View(x, j).shelter = scope[x]
    <3>1. CASE j = i
      BY <1>6, <3>1
    <3>2. CASE j \in cascade
      BY <1>3, <1>6, <3>2, ViewParents DEF Live
    <3> QED  BY <2>1, <3>1, <3>2
  <2>3. rows[j] # NoRow => rows[j].shelter = scope[x]
    BY <2>2 DEF View, IInv, WritersOK
  <2> QED  BY <1>1, <1>6, <2>1, <2>3
<1>8. \A y \in Procs \ {x}, j \in Ids : Live(writes[y][j]) => ~Names(j, writes[y][j], i)
  BY <1>1, ChildrenAre DEF Shared
<1>9. Statement(x)
  <2>1. \A p \in Parents : writes'[x][p] # writes[x][p] => p = i
    BY <1>2, <1>5, <1>7
  <2>2. \A j \in Ids : Live(View(x, j)) /\ Names(j, View(x, j), i) => writes'[x][j] = NoRow
    BY <1>3, <1>4
  <2>3. \A h \in Trail : writes'[x][h] = writes[x][h]
    BY <1>1, <1>2, <1>7
  <2>4. \A p \in Pets, m \in Media :
          ~(writes'[x][<<p, m>>] # writes[x][<<p, m>>] /\ IsCover(writes'[x][<<p, m>>]))
    BY <1>7, IdsApart DEF IsCover, Live
  <2> QED  BY <1>1, <1>4, <1>6, <1>7, <1>8, <2>1, <2>2, <2>3, <2>4 DEF Statement
<1> QED  BY <1>9, StatementKeeps

LEMMA PetsKeep ==
    ASSUME CatalogAssumption, IInv, NEW x \in Procs, NEW p \in Pets,
           \/ CreatePet(x, p) \/ PublishPet(x, p) \/ DeletePet(x, p)
           \/ \E deleted \in BOOLEAN : LeaveCatalog(x, p, deleted)
    PROVE  IInv'
<1>1. /\ p \in Ids /\ p \in Parents /\ RowOf(p) = PetRow
      /\ p \notin Trail /\ p \notin Photos
      /\ \A r, i : ~Names(p, r, i)
  BY IdsApart, NamersAreNoParents DEF Parents
<1>2. CASE CreatePet(x, p)
  <2> DEFINE r == [shelter |-> scope[x], listed |-> FALSE, deleted |-> FALSE]
  <2>1. Insert(x, p, r)
    BY <1>2 DEF CreatePet
  <2>2. scope[x] \in Shelters
    BY <2>1 DEF Insert, IInv, TypeOK
  <2>3. r \in PetRow /\ r.shelter = scope[x]
    BY <2>2 DEF PetRow
  <2> HIDE DEF r
  <2> QED  BY <1>1, <2>1, <2>3, InsertKeeps
<1>3. ASSUME NEW r, Update(x, p, r), Mine(x, p),
             r \in PetRow, r.shelter = View(x, p).shelter
      PROVE  IInv'
  BY <1>1, <1>3, UpdateKeeps
<1>4. Mine(x, p) => View(x, p) \in PetRow
  BY <1>1, RowTypes DEF Mine, IInv
<1>5. CASE PublishPet(x, p)
  <2> DEFINE r == [View(x, p) EXCEPT !.listed = TRUE]
  <2>1. Mine(x, p) /\ Update(x, p, r)
    BY <1>5 DEF PublishPet
  <2>2. r \in PetRow /\ r.shelter = View(x, p).shelter
    BY <1>4, <2>1 DEF PetRow
  <2> HIDE DEF r
  <2> QED  BY <1>3, <2>1, <2>2
<1>6. ASSUME NEW deleted \in BOOLEAN, LeaveCatalog(x, p, deleted)
      PROVE  IInv'
  <2> DEFINE r == [View(x, p) EXCEPT !.listed = @ /\ deleted, !.deleted = @ \/ deleted]
  <2>1. Mine(x, p) /\ Update(x, p, r)
    BY <1>6 DEF LeaveCatalog
  <2>2. r \in PetRow /\ r.shelter = View(x, p).shelter
    BY <1>4, <2>1 DEF PetRow
  <2> HIDE DEF r
  <2> QED  BY <1>3, <2>1, <2>2
<1>7. CASE DeletePet(x, p)
  BY <1>1, <1>7, DeleteKeeps DEF DeletePet
<1> QED  BY <1>2, <1>5, <1>6, <1>7

LEMMA MediaKeep ==
    ASSUME CatalogAssumption, IInv, NEW x \in Procs, NEW m \in Media,
           RecordUpload(x, m) \/ SoftDeleteMedia(x, m) \/ DeleteMedia(x, m)
    PROVE  IInv'
<1>1. /\ m \in Ids /\ m \in Parents /\ RowOf(m) = MediaRow
      /\ m \notin Trail /\ m \notin Photos /\ m \notin Pets
      /\ \A r, i : ~Names(m, r, i)
  BY IdsApart, NamersAreNoParents DEF Parents
<1>2. CASE RecordUpload(x, m)
  <2> DEFINE r == [shelter |-> scope[x], deleted |-> FALSE]
  <2>1. Insert(x, m, r)
    BY <1>2 DEF RecordUpload
  <2>2. scope[x] \in Shelters
    BY <2>1 DEF Insert, IInv, TypeOK
  <2>3. r \in MediaRow /\ r.shelter = scope[x]
    BY <2>2 DEF MediaRow
  <2> HIDE DEF r
  <2> QED  BY <1>1, <2>1, <2>3, InsertKeeps
<1>3. CASE SoftDeleteMedia(x, m)
  <2> DEFINE r == [View(x, m) EXCEPT !.deleted = TRUE]
  <2>1. Mine(x, m) /\ Update(x, m, r)
    BY <1>3 DEF SoftDeleteMedia
  <2>2. View(x, m) \in MediaRow
    BY <1>1, <2>1, RowTypes DEF Mine, IInv
  <2>3. r \in MediaRow /\ r.shelter = View(x, m).shelter
    BY <2>2 DEF MediaRow
  <2> HIDE DEF r
  <2> QED  BY <1>1, <2>1, <2>3, UpdateKeeps
<1>4. CASE DeleteMedia(x, m)
  <2>1. ASSUME NEW h \in Trail, h \in ChildrenSeen(x, m)
        PROVE  FALSE
    <3> DEFINE table == [j \in Ids |-> View(x, j)]
    <3>1. h \in Ids /\ RowOf(h) = TrailRow /\ h \notin Records \cup Photos
      BY IdsApart
    <3>2. table[h] = View(x, h)
      BY <3>1
    <3>3. h \in Children(table, m)
      BY <2>1 DEF ChildrenSeen
    <3> HIDE DEF table
    <3>4. Live(View(x, h)) /\ Names(h, View(x, h), m)
      BY <3>2, <3>3, ChildrenAre
    <3>5. View(x, h) \in TrailRow /\ View(x, h).pet = m
      BY <3>1, <3>4, RowTypes DEF Names, Live, IInv
    <3> QED  BY <1>1, <3>5 DEF TrailRow
  <2>2. ChildrenSeen(x, m) \cap Trail = {}
    BY <2>1
  <2> QED  BY <1>1, <1>4, <2>2, DeleteKeeps DEF DeleteMedia
<1> QED  BY <1>2, <1>3, <1>4

LEMMA PhotosKeep ==
    ASSUME CatalogAssumption, IInv, NEW x \in Procs, NEW p \in Pets, NEW m \in Media,
           NEW cover \in BOOLEAN, AttachPhoto(x, p, m, cover) \/ SetCover(x, p, m, cover)
    PROVE  IInv'
<1> DEFINE f == <<p, m>>
<1>1. /\ f \in Photos /\ f \in Ids /\ f[1] = p /\ f \notin Trail /\ f \notin Records
      /\ RowOf(f) = PhotoRow /\ p \in Parents
      /\ \A r, i : Names(f, r, i) <=> i \in {p, m}
  BY IdsApart DEF Parents, Names
<1>2. CASE AttachPhoto(x, p, m, cover)
  <2> DEFINE r == [shelter |-> scope[x], cover |-> cover]
  <2>1. /\ cover => CoverFree(x, p)
        /\ ParentExists(x, p) /\ ParentExists(x, m) /\ Insert(x, f, r)
    BY <1>2 DEF AttachPhoto
  <2>2. scope[x] \in Shelters
    BY <2>1 DEF Insert, IInv, TypeOK
  <2>3. r \in PhotoRow /\ r.shelter = scope[x] /\ r.cover = cover
    BY <2>2 DEF PhotoRow
  <2>4. cover => NoCover(x, p)
    BY <2>1, CoverFreeFinds DEF ParentExists
  <2> HIDE DEF r, f
  <2> QED  BY <1>1, <2>1, <2>3, <2>4, InsertKeeps
<1>3. CASE SetCover(x, p, m, cover)
  <2> DEFINE r == [View(x, f) EXCEPT !.cover = cover]
  <2>1. Mine(x, f) /\ (cover => CoverFree(x, p)) /\ Update(x, f, r)
    BY <1>3 DEF SetCover
  <2>2. View(x, f) \in PhotoRow /\ View(x, f) # NoRow /\ View(x, f).shelter = scope[x]
    BY <1>1, <2>1, RowTypes DEF Mine, IInv
  <2>3. r \in PhotoRow /\ r.shelter = View(x, f).shelter /\ r.cover = cover
    BY <2>2 DEF PhotoRow
  <2> HIDE DEF r, f
  <2>4. View(x, p) # NoRow /\ View(x, p).shelter = scope[x]
    BY <1>1, <2>2, ViewParents
  <2>5. cover => NoCover(x, p)
    BY <2>1, <2>4, CoverFreeFinds
  <2> QED  BY <1>1, <2>1, <2>3, <2>5, UpdateKeeps
<1> QED  BY <1>2, <1>3

\* An attachment is named by nothing, so its DELETE takes nothing along.
LEMMA DetachKeeps ==
    ASSUME CatalogAssumption, IInv, NEW x \in Procs, NEW p \in Pets, NEW m \in Media,
           DetachPhoto(x, p, m)
    PROVE  IInv'
<1> DEFINE f == <<p, m>>
<1>1. /\ f \in Ids /\ f \notin Trail /\ f \notin Parents
      /\ Parents \subseteq Ids /\ Trail \subseteq Ids /\ NoRow # Untouched
      /\ \A q \in Pets, n \in Media : <<q, n>> \in Ids
  BY IdsApart, RowTypes DEF IInv
<1>2. Delete(x, f, {})
  BY DEF DetachPhoto
<1> HIDE DEF f
<1>3. /\ scope[x] # NoShelter /\ UNCHANGED <<rows, scope>>
      /\ \A y \in Procs \ {x} : writes[y][f] = Untouched
      /\ View(x, f) # NoRow /\ View(x, f).shelter = scope[x]
  BY <1>2 DEF Delete, Mine
<1>4. /\ DOMAIN writes' = Procs /\ DOMAIN writes'[x] = Ids
      /\ \A y \in Procs \ {x} : writes'[y] = writes[y]
      /\ writes'[x][f] = NoRow
      /\ \A j \in Ids : j # f => writes'[x][j] = writes[x][j]
  BY <1>1, <1>2 DEF Delete, IInv, TypeOK
<1>5. rows[f] # NoRow => rows[f].shelter = scope[x]
  BY <1>1, <1>3 DEF View, IInv, WritersOK
<1>6. \A j \in Ids : writes'[x][j] # writes[x][j] => j = f
  BY <1>4
<1>7. /\ \A q \in Parents : writes'[x][q] = writes[x][q]
      /\ \A h \in Trail : writes'[x][h] = writes[x][h]
      /\ \A q \in Pets, n \in Media :
           writes'[x][<<q, n>>] # writes[x][<<q, n>>] => ~IsCover(writes'[x][<<q, n>>])
  BY <1>1, <1>4, <1>6 DEF IsCover, Live
<1>8. Statement(x)
  BY <1>3, <1>4, <1>5, <1>6, <1>7 DEF Statement
<1> QED  BY <1>8, StatementKeeps

LEMMA RecordsKeep ==
    ASSUME CatalogAssumption, IInv, NEW x \in Procs, NEW p \in Pets,
           \/ \E r \in Records, document \in Media \cup {NoRow} :
                 RecordHealthEvent(x, r, p, document)
           \/ \E h \in Trail : AppendStatusChange(x, h, p)
    PROVE  IInv'
<1>1. ASSUME NEW i \in Records, NEW document \in Media \cup {NoRow},
             RecordHealthEvent(x, i, p, document)
      PROVE  IInv'
  <2> DEFINE r == [shelter |-> scope[x], pet |-> p, document |-> document]
  <2>1. /\ ParentExists(x, p) /\ Insert(x, i, r)
        /\ document # NoRow => ParentExists(x, document)
    BY <1>1 DEF RecordHealthEvent
  <2>2. scope[x] \in Shelters
    BY <2>1 DEF Insert, IInv, TypeOK
  <2>3. r \in RecordRow /\ r.shelter = scope[x] /\ r.pet = p /\ r.document = document
    BY <2>2 DEF RecordRow
  <2>4. i \in Ids /\ RowOf(i) = RecordRow /\ i \notin Photos /\ i \notin Trail
        /\ NoRow \notin Parents
    BY IdsApart
  <2> HIDE DEF r
  <2>5. \A q \in Parents : Names(i, r, q) => ParentExists(x, q)
    BY <2>1, <2>3, <2>4 DEF Names
  <2> QED  BY <2>1, <2>3, <2>4, <2>5, InsertKeeps
<1>2. ASSUME NEW h \in Trail, AppendStatusChange(x, h, p)
      PROVE  IInv'
  <2> DEFINE r == [shelter |-> scope[x], pet |-> p]
  <2>1. ParentExists(x, p) /\ Insert(x, h, r)
    BY <1>2 DEF AppendStatusChange
  <2>2. scope[x] \in Shelters
    BY <2>1 DEF Insert, IInv, TypeOK
  <2>3. r \in TrailRow /\ r.shelter = scope[x] /\ r.pet = p
    BY <2>2 DEF TrailRow
  <2>4. h \in Ids /\ RowOf(h) = TrailRow /\ h \notin Photos /\ h \notin Records
    BY IdsApart
  <2> HIDE DEF r
  <2>5. \A q \in Parents : Names(h, r, q) => ParentExists(x, q)
    BY <2>1, <2>3, <2>4 DEF Names
  <2> QED  BY <2>1, <2>3, <2>4, <2>5, InsertKeeps
<1> QED  BY <1>1, <1>2

-----------------------------------------------------------------------------
(* The ends of a transaction.                                              *)

LEMMA BeginKeeps ==
    ASSUME CatalogAssumption, IInv, NEW x \in Procs, NEW s \in Shelters, Begin(x, s)
    PROVE  IInv'
<1>1. /\ scope[x] = NoShelter /\ scope' = [scope EXCEPT ![x] = s]
      /\ UNCHANGED <<rows, writes>>
  BY DEF Begin
<1>2. \A i \in Ids : writes[x][i] = Untouched
  BY <1>1 DEF IInv, WritersOK
<1>3. \A y \in Procs : y # x => scope'[y] = scope[y]
  BY <1>1 DEF IInv, TypeOK
<1>4. \A y \in Procs, i \in Ids : Live(writes[y][i]) => y # x
  BY <1>2 DEF Live
<1>5. TypeOK'
  BY <1>1 DEF IInv, TypeOK
<1>6. WritersOK'
  <2>1. ASSUME NEW y \in Procs, NEW i \in Ids
        PROVE  /\ scope'[y] = NoShelter => writes[y][i] = Untouched
               /\ Live(writes[y][i]) => writes[y][i].shelter = scope'[y]
               /\ writes[y][i] # Untouched /\ rows[i] # NoRow => rows[i].shelter = scope'[y]
    <3>1. CASE y = x
      BY <1>2, <3>1 DEF Live
    <3>2. CASE y # x
      BY <1>3, <3>2 DEF IInv, WritersOK
    <3> QED  BY <3>1, <3>2
  <2> QED  BY <1>1, <2>1 DEF IInv, WritersOK
<1>7. ParentsOK'
  <2>1. ASSUME NEW y \in Procs, NEW i \in Ids, NEW p \in Parents,
               Live(writes[y][i]), Names(i, writes[y][i], p)
        PROVE  ParentExists(y, p)'
    <3>1. ParentExists(y, p) /\ scope'[y] = scope[y]
      BY <1>3, <1>4, <2>1 DEF IInv, ParentsOK
    <3> QED  BY <1>1, <3>1 DEF ParentExists, View
  <2> QED  BY <1>1, <2>1 DEF IInv, ParentsOK
<1>8. DeletedOK' /\ TrailOK' /\ CoversOK'
  BY <1>1 DEF IInv, DeletedOK, TrailOK, CoversOK, View
<1> QED  BY <1>5, <1>6, <1>7, <1>8 DEF IInv

\* What End leaves: nothing of x's, and all that others write.
LEMMA Ended ==
    ASSUME CatalogAssumption, IInv, NEW x \in Procs, End(x)
    PROVE  /\ \A i \in Ids : writes'[x][i] = Untouched
           /\ \A y \in Procs : y # x => writes'[y] = writes[y] /\ scope'[y] = scope[y]
           /\ scope'[x] = NoShelter
           /\ NoRow # Untouched
           /\ \A y \in Procs, i \in Ids : writes'[y][i] # Untouched => y # x
           /\ \A y \in Procs, i \in Ids :
                writes'[y][i] = Untouched \/ writes'[y][i] = writes[y][i]
           /\ \A y, z \in Procs, i \in Ids :
                y # z => writes'[y][i] = Untouched \/ writes'[z][i] = Untouched
           /\ DOMAIN writes' = Procs
           /\ \A y \in Procs : /\ DOMAIN writes'[y] = Ids
                               /\ \A i \in Ids : writes'[y][i] \in RowOf(i) \cup {NoRow, Untouched}
           /\ scope' \in [Procs -> Shelters \cup {NoShelter}]
<1>1. /\ writes' = [writes EXCEPT ![x] = [i \in Ids |-> Untouched]]
      /\ scope' = [scope EXCEPT ![x] = NoShelter]
  BY DEF End
<1>2. /\ \A i \in Ids : writes'[x][i] = Untouched
      /\ \A y \in Procs : y # x => writes'[y] = writes[y] /\ scope'[y] = scope[y]
      /\ scope'[x] = NoShelter /\ NoRow # Untouched
      /\ DOMAIN writes' = Procs /\ DOMAIN writes'[x] = Ids
      /\ scope' \in [Procs -> Shelters \cup {NoShelter}]
  BY <1>1, RowTypes DEF IInv, TypeOK
<1>3. \A y \in Procs, i \in Ids : writes'[y][i] = Untouched \/ writes'[y][i] = writes[y][i]
  BY <1>2
<1>4. \A y, z \in Procs, i \in Ids :
        y # z => writes'[y][i] = Untouched \/ writes'[z][i] = Untouched
  BY <1>3 DEF IInv, WritersOK
<1>5. \A y \in Procs : /\ DOMAIN writes'[y] = Ids
                       /\ \A i \in Ids : writes'[y][i] \in RowOf(i) \cup {NoRow, Untouched}
  BY <1>2 DEF IInv, TypeOK
<1> QED  BY <1>2, <1>3, <1>4, <1>5

LEMMA FailKeeps ==
    ASSUME CatalogAssumption, IInv, NEW x \in Procs, Fail(x)
    PROVE  IInv'
<1>1. End(x) /\ rows' = rows
  BY DEF Fail
<1>2. Parents \subseteq Ids /\ Trail \subseteq Ids
      /\ \A p \in Pets, m \in Media : <<p, m>> \in Ids
  BY IdsApart
<1>3. TypeOK'
  BY <1>1, Ended DEF IInv, TypeOK
<1>4. WritersOK'
  <2>1. ASSUME NEW y \in Procs, NEW i \in Ids
        PROVE  /\ scope'[y] = NoShelter => writes'[y][i] = Untouched
               /\ Live(writes'[y][i]) => writes'[y][i].shelter = scope'[y]
               /\ writes'[y][i] # Untouched /\ rows[i] # NoRow => rows[i].shelter = scope'[y]
    <3>1. CASE y = x
      BY <1>1, <3>1, Ended DEF Live
    <3>2. CASE y # x
      BY <1>1, <3>2, Ended DEF IInv, WritersOK
    <3> QED  BY <3>1, <3>2
  <2> QED  BY <1>1, <2>1, Ended DEF WritersOK
<1>5. ParentsOK'
  <2>1. ASSUME NEW y \in Procs, NEW i \in Ids, NEW p \in Parents,
               Live(writes'[y][i]), Names(i, writes'[y][i], p)
        PROVE  ParentExists(y, p)'
    <3>1. writes'[y] = writes[y] /\ scope'[y] = scope[y]
      BY <1>1, <2>1, Ended DEF Live
    <3>2. ParentExists(y, p)
      BY <2>1, <3>1 DEF IInv, ParentsOK
    <3>3. \A z \in Procs \ {y} : writes'[z][p] # NoRow
      BY <1>1, <1>2, <3>2, Ended DEF ParentExists
    <3> QED  BY <1>1, <3>1, <3>2, <3>3 DEF ParentExists, View
  <2> QED  BY <1>1, <2>1 DEF IInv, ParentsOK
<1>6. DeletedOK'
  <2>1. \A y \in Procs, p \in Parents : writes'[y][p] = NoRow => writes'[y] = writes[y]
    BY <1>1, <1>2, Ended
  <2> QED  BY <1>1, <2>1 DEF IInv, DeletedOK
<1>7. TrailOK'
  BY <1>1, <1>2, Ended DEF IInv, TrailOK
<1>8. CoversOK'
  <2> SUFFICES ASSUME NEW p \in Pets, NEW m \in Media, NEW n \in Media, m # n
      PROVE  /\ ~(IsCover(rows'[<<p, m>>]) /\ IsCover(rows'[<<p, n>>]))
             /\ \A y \in Procs : ~(IsCover(View(y, <<p, m>>)') /\ IsCover(View(y, <<p, n>>)'))
             /\ \A y, z \in Procs :
                  ~(IsCover(writes'[y][<<p, m>>]) /\ IsCover(writes'[z][<<p, n>>]))
    BY DEF CoversOK
  <2>1. ASSUME NEW i \in Ids, NEW y \in Procs
        PROVE  /\ IsCover(writes'[y][i]) => IsCover(writes[y][i])
               /\ View(y, i)' \in {View(y, i), rows[i]}
               /\ y # x => View(y, i)' = View(y, i)
               /\ y = x => View(y, i)' = rows[i]
    BY <1>1, Ended DEF IsCover, Live, View
  <2>2. /\ ~(IsCover(rows[<<p, m>>]) /\ IsCover(rows[<<p, n>>]))
        /\ \A y \in Procs : ~(IsCover(View(y, <<p, m>>)) /\ IsCover(View(y, <<p, n>>)))
        /\ \A y, z \in Procs : ~(IsCover(writes[y][<<p, m>>]) /\ IsCover(writes[z][<<p, n>>]))
    BY DEF IInv, CoversOK
  <2>3. ASSUME NEW y \in Procs
        PROVE  ~(IsCover(View(y, <<p, m>>)') /\ IsCover(View(y, <<p, n>>)'))
    <3>1. CASE y = x
      BY <1>2, <2>1, <2>2, <3>1
    <3>2. CASE y # x
      BY <1>2, <2>1, <2>2, <3>2
    <3> QED  BY <3>1, <3>2
  <2> QED  BY <1>1, <1>2, <2>1, <2>2, <2>3
<1> QED  BY <1>3, <1>4, <1>5, <1>6, <1>7, <1>8 DEF IInv

\* A commit shows what nobody else has written, with all that it names.
LEMMA CommitKeeps ==
    ASSUME CatalogAssumption, IInv, NEW x \in Procs, Commit(x)
    PROVE  IInv'
<1>1. End(x) /\ rows' = [i \in Ids |-> View(x, i)]
  BY DEF Commit
<1>2. Parents \subseteq Ids /\ Trail \subseteq Ids
      /\ \A p \in Pets, m \in Media : <<p, m>> \in Ids
  BY IdsApart
<1>3. \A i \in Ids :
        /\ rows'[i] = View(x, i)
        /\ writes[x][i] = Untouched => rows'[i] = rows[i]
        /\ writes[x][i] # Untouched => rows'[i] = writes[x][i]
        /\ writes[x][i] # Untouched => \A y \in Procs : writes'[y][i] = Untouched
  <2> TAKE i \in Ids
  <2>1. rows'[i] = View(x, i)
    BY <1>1
  <2>2. writes[x][i] # Untouched => \A y \in Procs : writes'[y][i] = Untouched
    BY <1>1, Ended DEF IInv, WritersOK
  <2> QED  BY <2>1, <2>2 DEF View
<1>4. TypeOK'
  <2>1. DOMAIN rows' = Ids /\ \A i \in Ids : rows'[i] \in RowOf(i) \cup {NoRow}
    BY <1>1, RowTypes DEF IInv
  <2> QED  BY <1>1, <2>1, Ended DEF TypeOK
<1>5. WritersOK'
  <2>1. ASSUME NEW y \in Procs, NEW i \in Ids
        PROVE  /\ scope'[y] = NoShelter => writes'[y][i] = Untouched
               /\ Live(writes'[y][i]) => writes'[y][i].shelter = scope'[y]
               /\ writes'[y][i] # Untouched /\ rows'[i] # NoRow => rows'[i].shelter = scope'[y]
    <3>1. CASE y = x
      BY <1>1, <3>1, Ended DEF Live
    <3>2. CASE y # x
      <4>1. writes'[y] = writes[y] /\ scope'[y] = scope[y]
        BY <1>1, <3>2, Ended
      <4> QED  BY <1>3, <4>1 DEF IInv, WritersOK
    <3> QED  BY <3>1, <3>2
  <2> QED  BY <1>1, <2>1, Ended DEF WritersOK
<1>6. ParentsOK'
  <2>1. ASSUME NEW i \in Ids, NEW p \in Parents, rows'[i] # NoRow, Names(i, rows'[i], p)
        PROVE  rows'[p] # NoRow /\ rows'[p].shelter = rows'[i].shelter
    BY <1>2, <1>3, <2>1, ViewParents
  <2>2. ASSUME NEW y \in Procs, NEW i \in Ids, NEW p \in Parents,
               Live(writes'[y][i]), Names(i, writes'[y][i], p)
        PROVE  ParentExists(y, p)'
    <3>1. y # x /\ writes'[y] = writes[y] /\ scope'[y] = scope[y] /\ p \in Ids
      BY <1>1, <1>2, <2>2, Ended DEF Live
    <3>2. ParentExists(y, p)
      BY <2>2, <3>1 DEF IInv, ParentsOK
    <3>3. \A z \in Procs \ {y} : writes'[z][p] # NoRow
      BY <1>1, <3>1, <3>2, Ended DEF ParentExists
    <3>4. View(y, p)' # NoRow /\ View(y, p)'.shelter = scope[y]
      <4>1. CASE writes[y][p] # Untouched
        BY <3>1, <3>2, <4>1 DEF ParentExists, View
      <4>2. CASE writes[y][p] = Untouched
        <5>1. rows[p] # NoRow /\ rows[p].shelter = scope[y] /\ writes[x][p] # NoRow
          BY <3>1, <3>2, <4>2 DEF ParentExists, View
        <5>2. writes[x][p] # Untouched => writes[x][p].shelter = rows[p].shelter
          BY <3>1, <5>1 DEF IInv, WritersOK, Live
        <5>3. rows'[p] # NoRow /\ rows'[p].shelter = scope[y]
          BY <1>3, <3>1, <5>1, <5>2
        <5> QED  BY <3>1, <4>2, <5>3 DEF View
      <4> QED  BY <4>1, <4>2
    <3> QED  BY <3>1, <3>3, <3>4 DEF ParentExists
  <2> QED  BY <2>1, <2>2 DEF ParentsOK
<1>7. DeletedOK'
  <2>1. ASSUME NEW y \in Procs, NEW i \in Ids, NEW p \in Parents,
               writes'[y][p] = NoRow, rows'[i] # NoRow, Names(i, rows'[i], p)
        PROVE  writes'[y][i] # Untouched
    <3>1. y # x /\ writes'[y] = writes[y]
      BY <1>1, <1>2, <2>1, Ended
    <3>2. CASE writes[x][i] = Untouched
      BY <1>3, <2>1, <3>1, <3>2 DEF IInv, DeletedOK
    <3>3. CASE writes[x][i] # Untouched
      <4>1. Live(writes[x][i]) /\ Names(i, writes[x][i], p)
        BY <1>3, <2>1, <3>3 DEF Live
      <4>2. ParentExists(x, p)
        BY <4>1 DEF IInv, ParentsOK
      <4> QED  BY <2>1, <3>1, <4>2 DEF ParentExists
    <3> QED  BY <3>2, <3>3
  <2> QED  BY <2>1 DEF DeletedOK
<1>8. TrailOK'
  <2>1. ASSUME NEW y \in Procs, NEW h \in Trail, rows'[h] # NoRow
        PROVE  writes'[y][h] = Untouched
    <3>1. h \in Ids /\ (writes'[y][h] = Untouched \/ writes'[y][h] = writes[y][h])
      BY <1>1, <1>2, Ended
    <3>2. CASE writes[x][h] = Untouched
      BY <1>3, <2>1, <3>1, <3>2 DEF IInv, TrailOK
    <3>3. CASE writes[x][h] # Untouched
      BY <1>3, <3>1, <3>3
    <3> QED  BY <3>2, <3>3
  <2> QED  BY <2>1 DEF TrailOK
<1>9. CoversOK'
  <2> SUFFICES ASSUME NEW p \in Pets, NEW m \in Media, NEW n \in Media, m # n
      PROVE  /\ ~(IsCover(rows'[<<p, m>>]) /\ IsCover(rows'[<<p, n>>]))
             /\ \A y \in Procs : ~(IsCover(View(y, <<p, m>>)') /\ IsCover(View(y, <<p, n>>)'))
             /\ \A y, z \in Procs :
                  ~(IsCover(writes'[y][<<p, m>>]) /\ IsCover(writes'[z][<<p, n>>]))
    BY DEF CoversOK
  <2> DEFINE f == <<p, m>>
             g == <<p, n>>
  <2> SUFFICES /\ ~(IsCover(rows'[f]) /\ IsCover(rows'[g]))
               /\ \A y \in Procs : ~(IsCover(View(y, f)') /\ IsCover(View(y, g)'))
               /\ \A y, z \in Procs : ~(IsCover(writes'[y][f]) /\ IsCover(writes'[z][g]))
    OBVIOUS
  <2>1. f \in Ids /\ g \in Ids
    BY <1>2
  <2>2. /\ \A y \in Procs : ~(IsCover(View(y, f)) /\ IsCover(View(y, g)))
        /\ \A y, z \in Procs : ~(IsCover(writes[y][f]) /\ IsCover(writes[z][g]))
    BY DEF IInv, CoversOK
  <2> HIDE DEF f, g
  <2>3. \A y \in Procs, i \in Ids : IsCover(writes'[y][i]) => IsCover(writes[y][i])
    BY <1>1, Ended DEF IsCover, Live
  <2>4. rows'[f] = View(x, f) /\ rows'[g] = View(x, g)
    BY <1>3, <2>1
  <2>5. ASSUME NEW y \in Procs, NEW i \in Ids, IsCover(View(y, i)')
        PROVE  \/ IsCover(View(x, i)) /\ (y = x \/ IsCover(writes[x][i]) \/ IsCover(View(y, i)))
               \/ IsCover(writes[y][i]) /\ IsCover(View(y, i))
    <3>1. CASE y = x
      BY <1>1, <1>3, <2>5, <3>1, Ended DEF View
    <3>2. CASE y # x
      <4>1. View(y, i)' = IF writes[y][i] = Untouched THEN View(x, i) ELSE writes[y][i]
        BY <1>1, <1>3, <3>2, Ended DEF View
      <4> QED  BY <2>5, <4>1 DEF View
    <3> QED  BY <3>1, <3>2
  <2>6. \A y \in Procs : ~(IsCover(View(y, f)') /\ IsCover(View(y, g)'))
    BY <2>1, <2>2, <2>5
  <2> QED  BY <2>1, <2>2, <2>3, <2>4, <2>6
<1> QED  BY <1>4, <1>5, <1>6, <1>7, <1>8, <1>9 DEF IInv

-----------------------------------------------------------------------------
(* The theorems.                                                           *)

\* Every step of every handler keeps the invariant.
LEMMA NextKeeps ==
    ASSUME IInv, [Next]_vars
    PROVE  IInv'
<1>1. CatalogAssumption
  BY CatalogAssumption
<1>2. CASE UNCHANGED vars
  <2>1. rows' = rows /\ writes' = writes /\ scope' = scope
    BY <1>2 DEF vars
  <2>2. TypeOK' /\ WritersOK' /\ DeletedOK' /\ TrailOK' /\ CoversOK'
    BY <2>1 DEF IInv, TypeOK, WritersOK, DeletedOK, TrailOK, CoversOK, View
  <2>3. ParentsOK'
    BY <2>1 DEF IInv, ParentsOK, ParentExists, View
  <2> QED  BY <2>2, <2>3 DEF IInv
<1>3. ASSUME NEW x \in Procs, NEW s \in Shelters, Begin(x, s) PROVE IInv'
  BY <1>1, <1>3, BeginKeeps
<1>4. ASSUME NEW x \in Procs, NEW p \in Pets,
             \/ CreatePet(x, p) \/ PublishPet(x, p) \/ DeletePet(x, p)
             \/ \E deleted \in BOOLEAN : LeaveCatalog(x, p, deleted)
      PROVE  IInv'
  BY <1>1, <1>4, PetsKeep
<1>5. ASSUME NEW x \in Procs, NEW m \in Media,
             RecordUpload(x, m) \/ SoftDeleteMedia(x, m) \/ DeleteMedia(x, m)
      PROVE  IInv'
  BY <1>1, <1>5, MediaKeep
<1>6. ASSUME NEW x \in Procs, NEW p \in Pets, NEW m \in Media, NEW cover \in BOOLEAN,
             AttachPhoto(x, p, m, cover) \/ SetCover(x, p, m, cover)
      PROVE  IInv'
  BY <1>1, <1>6, PhotosKeep
<1>9. ASSUME NEW x \in Procs, NEW p \in Pets, NEW m \in Media, DetachPhoto(x, p, m)
      PROVE  IInv'
  BY <1>1, <1>9, DetachKeeps
<1>7. ASSUME NEW x \in Procs, NEW p \in Pets,
             \/ \E r \in Records, document \in Media \cup {NoRow} :
                   RecordHealthEvent(x, r, p, document)
             \/ \E h \in Trail : AppendStatusChange(x, h, p)
      PROVE  IInv'
  BY <1>1, <1>7, RecordsKeep
<1>8. ASSUME NEW x \in Procs, Commit(x) \/ Fail(x) PROVE IInv'
  BY <1>1, <1>8, CommitKeeps, FailKeeps
<1> QED  BY <1>2, <1>3, <1>4, <1>5, <1>6, <1>7, <1>8, <1>9 DEF Next

\* The invariant of the tables and of what is being written to them.
THEOREM Invariance == Spec => []IInv
<1>1. Init => IInv
  <2> SUFFICES ASSUME Init PROVE IInv
    OBVIOUS
  <2>1. /\ \A i \in Ids : rows[i] = NoRow
        /\ \A x \in Procs, i \in Ids : writes[x][i] = Untouched
        /\ Parents \subseteq Ids /\ Trail \subseteq Ids /\ NoRow # Untouched
        /\ \A p \in Pets, m \in Media : <<p, m>> \in Ids
    BY IdsApart, CatalogAssumption DEF Init, CatalogAssumption
  <2>2. TypeOK
    BY <2>1 DEF Init, TypeOK
  <2>3. WritersOK /\ ParentsOK /\ DeletedOK /\ TrailOK
    BY <2>1 DEF WritersOK, ParentsOK, DeletedOK, TrailOK, Live
  <2>4. CoversOK
    BY <2>1 DEF CoversOK, IsCover, Live, View
  <2> QED  BY <2>2, <2>3, <2>4 DEF IInv
<1> QED  BY <1>1, NextKeeps, PTL DEF Spec

\* Rows and transactions have their types.
THEOREM RowsAreTyped == Spec => []TypeOK
<1>1. IInv => TypeOK
  BY DEF IInv
<1> QED  BY <1>1, Invariance, PTL

\* What the tables hold names what is there, in its own shelter.
LEMMA NothingBorrowed ==
    ASSUME IInv
    PROVE  NothingIsBorrowed
BY ChildrenAre DEF IInv, ParentsOK, NothingIsBorrowed, Parents

\* What a pet's photos and records name is there and of their own shelter
\* (00006 3-16, 45-49, 106-119).
THEOREM NothingCrossesShelters == Spec => []NothingIsBorrowed
<1> QED  BY NothingBorrowed, Invariance, PTL

\* One cover photo per pet, whoever attaches and changes covers at once
\* (00006 52-68).
THEOREM CoversAreSingle == Spec => []OneCover
<1>1. ASSUME IInv
      PROVE  OneCover
  <2> SUFFICES ASSUME NEW p \in Pets
      PROVE  Cardinality({m \in Media : rows[<<p, m>>] # NoRow /\ rows[<<p, m>>].cover}) <= 1
    BY DEF OneCover
  <2> DEFINE covers == {m \in Media : rows[<<p, m>>] # NoRow /\ rows[<<p, m>>].cover}
  <2>1. \A m \in covers : IsCover(rows[<<p, m>>])
    <3> TAKE m \in covers
    <3>1. <<p, m>> \in Ids
      BY IdsApart, CatalogAssumption
    <3>2. rows[<<p, m>>] # Untouched
      BY <1>1, <3>1, RowTypes, CatalogAssumption DEF IInv
    <3> QED  BY <3>2 DEF IsCover, Live
  <2>2. \A m, n \in covers : m = n
    BY <1>1, <2>1 DEF IInv, CoversOK
  <2> HIDE DEF covers
  <2>3. ASSUME covers = {} PROVE Cardinality(covers) <= 1
    BY <2>3, FS_EmptySet
  <2>4. ASSUME NEW m \in covers PROVE Cardinality(covers) <= 1
    <3>1. covers = {m}
      BY <2>2
    <3> QED  BY <3>1, FS_Singleton
  <2>5. Cardinality(covers) <= 1
    BY <2>3, <2>4
  <2> QED  BY <2>5 DEF covers
<1> QED  BY <1>1, Invariance, PTL

\* The tables change by commits, and by nothing else.
LEMMA OnlyCommits ==
    ASSUME [Next]_vars
    PROVE  rows' = rows \/ \E x \in Procs : Commit(x)
<1>1. ASSUME NEW x \in Procs, NEW i, NEW r, NEW c,
             Insert(x, i, r) \/ Update(x, i, r) \/ Delete(x, i, c)
      PROVE  rows' = rows
  BY <1>1 DEF Insert, Update, Delete
<1>2. ASSUME NEW x \in Procs, NEW p \in Pets,
             \/ CreatePet(x, p) \/ PublishPet(x, p) \/ DeletePet(x, p)
             \/ \E deleted \in BOOLEAN : LeaveCatalog(x, p, deleted)
      PROVE  rows' = rows
  BY <1>2, <1>1, Zenon DEF CreatePet, PublishPet, DeletePet, LeaveCatalog
<1>3. ASSUME NEW x \in Procs, NEW m \in Media,
             RecordUpload(x, m) \/ SoftDeleteMedia(x, m) \/ DeleteMedia(x, m)
      PROVE  rows' = rows
  BY <1>3, <1>1, Zenon DEF RecordUpload, SoftDeleteMedia, DeleteMedia
<1>4. ASSUME NEW x \in Procs, NEW p \in Pets, NEW m \in Media, NEW cover \in BOOLEAN,
             AttachPhoto(x, p, m, cover) \/ SetCover(x, p, m, cover) \/ DetachPhoto(x, p, m)
      PROVE  rows' = rows
  BY <1>4, <1>1, Zenon DEF AttachPhoto, SetCover, DetachPhoto
<1>5. ASSUME NEW x \in Procs, NEW p \in Pets,
             \/ \E r \in Records, document \in Media \cup {NoRow} :
                   RecordHealthEvent(x, r, p, document)
             \/ \E h \in Trail : AppendStatusChange(x, h, p)
      PROVE  rows' = rows
  BY <1>5, <1>1, Zenon DEF RecordHealthEvent, AppendStatusChange
<1>6. ASSUME NEW x \in Procs, Fail(x) \/ \E s \in Shelters : Begin(x, s)
      PROVE  rows' = rows
  BY <1>6 DEF Fail, Begin
<1> QED  BY <1>2, <1>3, <1>4, <1>5, <1>6 DEF vars, Next

\* A line of the trail stays as it is, and so does the pet it is about
\* (00006 139-230).
THEOREM TrailsStay == Spec => TrailStays
<1>1. ASSUME IInv, [Next]_vars
      PROVE  [\A h \in Trail : rows[h] # NoRow =>
                 rows'[h] = rows[h] /\ rows'[rows[h].pet] # NoRow]_rows
  <2>1. ASSUME NEW x \in Procs, Commit(x), NEW h \in Trail, rows[h] # NoRow
        PROVE  rows'[h] = rows[h] /\ rows'[rows[h].pet] # NoRow
    <3>1. h \in Ids /\ RowOf(h) = TrailRow /\ writes[x][h] = Untouched
          /\ Parents \subseteq Ids
      BY <1>1, <2>1, IdsApart, CatalogAssumption DEF IInv, TrailOK
    <3>2. rows[h] \in TrailRow
      BY <1>1, <2>1, <3>1, RowTypes, CatalogAssumption DEF IInv
    <3>3. rows[h].pet \in Parents /\ Names(h, rows[h], rows[h].pet)
      BY <3>2 DEF TrailRow, Names, Parents
    <3>4. View(x, h) = rows[h]
      BY <3>1 DEF View
    <3>5. View(x, rows[h].pet) # NoRow
      BY <1>1, <2>1, <3>1, <3>3, <3>4, ViewParents, CatalogAssumption
    <3>6. \A i \in Ids : rows'[i] = View(x, i)
      BY <2>1 DEF Commit
    <3> QED  BY <3>1, <3>3, <3>4, <3>5, <3>6
  <2>2. rows' = rows \/ \E x \in Procs : Commit(x)
    BY <1>1, OnlyCommits
  <2> QED  BY <2>1, <2>2
<1> QED  BY <1>1, Invariance, PTL DEF Spec, TrailStays

\* What a commit changes is of its own shelter, before and after.
LEMMA CommitsOwn ==
    ASSUME CatalogAssumption, IInv, NEW x \in Procs, Commit(x), NEW i \in Ids,
           rows'[i] # rows[i]
    PROVE  /\ rows[i] # NoRow => rows[i].shelter = scope[x]
           /\ rows'[i] # NoRow => rows'[i].shelter = scope[x]
<1>1. rows'[i] = View(x, i)
  BY DEF Commit
<1>2. writes[x][i] # Untouched /\ rows'[i] = writes[x][i]
  BY <1>1 DEF View
<1>3. rows'[i] # NoRow => Live(rows'[i])
  BY <1>2 DEF Live
<1> QED  BY <1>2, <1>3 DEF IInv, WritersOK

\* A photo that is there, its pet and its file are of one shelter.
LEMMA PhotosHome ==
    ASSUME CatalogAssumption, ParentsOK, NEW p \in Pets, NEW m \in Media,
           rows[<<p, m>>] # NoRow
    PROVE  /\ rows[p] # NoRow /\ rows[p].shelter = rows[<<p, m>>].shelter
           /\ rows[m] # NoRow /\ rows[m].shelter = rows[<<p, m>>].shelter
<1> DEFINE f == <<p, m>>
<1>1. f \in Ids /\ f \in Photos /\ p \in Parents /\ m \in Parents
  BY IdsApart DEF Parents
<1>2. \A r : Names(f, r, p) /\ Names(f, r, m)
  BY <1>1 DEF Names
<1> HIDE DEF f
<1>3. rows[f] # NoRow => /\ rows[p] # NoRow /\ rows[p].shelter = rows[f].shelter
                         /\ rows[m] # NoRow /\ rows[m].shelter = rows[f].shelter
  BY <1>1, <1>2 DEF ParentsOK
<1> QED  BY <1>3 DEF f

\* A pet, a photo or a file enters the public catalog, or leaves it, only by a
\* commit of the shelter that owns it (00005 132-142, 00006 45-50, 79-84, 232-254).
THEOREM CatalogsAreTheirOwners == Spec => OnlyItsShelterPublishes
<1> DEFINE Home(x, i) == \A r \in {rows[i], rows'[i]} \ {NoRow} : r.shelter = scope[x]
           Shown == Pets \cup Media \cup Photos
<1>1. ASSUME IInv, IInv', NEW x \in Procs, Commit(x)
      PROVE  \A i \in Shown : OnShow(i)' # OnShow(i) => Home(x, i)
  <2>1. CatalogAssumption
    BY CatalogAssumption
  <2>2. \A i \in Ids : rows'[i] # rows[i] => Home(x, i)
    BY <1>1, <2>1, CommitsOwn
  <2>3. /\ Pets \subseteq Ids /\ Media \subseteq Ids /\ Photos \subseteq Ids
        /\ \A p \in Pets, m \in Media : <<p, m>> \in Ids
    BY <2>1, IdsApart
  <2>4. \A i \in Ids : (rows'[i] = rows[i] /\ rows[i].shelter = scope[x]) => Home(x, i)
    OBVIOUS
  <2>5. \A p \in Pets, m \in Media :
          /\ rows[<<p, m>>] # NoRow =>
               /\ rows[p] # NoRow /\ rows[p].shelter = rows[<<p, m>>].shelter
               /\ rows[m] # NoRow /\ rows[m].shelter = rows[<<p, m>>].shelter
          /\ rows'[<<p, m>>] # NoRow =>
               /\ rows'[p] # NoRow /\ rows'[p].shelter = rows'[<<p, m>>].shelter
               /\ rows'[m] # NoRow /\ rows'[m].shelter = rows'[<<p, m>>].shelter
    <3>1. \A p \in Pets, m \in Media : rows[<<p, m>>] # NoRow =>
             /\ rows[p] # NoRow /\ rows[p].shelter = rows[<<p, m>>].shelter
             /\ rows[m] # NoRow /\ rows[m].shelter = rows[<<p, m>>].shelter
      BY <1>1, <2>1, PhotosHome DEF IInv
    <3>2. ASSUME ParentsOK'
          PROVE  \A p \in Pets, m \in Media : rows'[<<p, m>>] # NoRow =>
             /\ rows'[p] # NoRow /\ rows'[p].shelter = rows'[<<p, m>>].shelter
             /\ rows'[m] # NoRow /\ rows'[m].shelter = rows'[<<p, m>>].shelter
      <4> TAKE p \in Pets, m \in Media
      <4> DEFINE f == <<p, m>>
      <4>1. f \in Ids /\ f \in Photos /\ p \in Parents /\ m \in Parents
        BY <2>1, IdsApart DEF Parents
      <4>2. \A r : Names(f, r, p) /\ Names(f, r, m)
        BY <4>1 DEF Names
      <4> HIDE DEF f
      <4>3. rows'[f] # NoRow => /\ rows'[p] # NoRow /\ rows'[p].shelter = rows'[f].shelter
                                /\ rows'[m] # NoRow /\ rows'[m].shelter = rows'[f].shelter
        BY <3>2, <4>1, <4>2 DEF ParentsOK
      <4> QED  BY <4>3 DEF f
    <3> QED  BY <1>1, <3>1, <3>2 DEF IInv
  <2>6. \A p \in Pets : PublicPet(p)' # PublicPet(p) => rows'[p] # rows[p]
    BY DEF PublicPet
  <2> HIDE DEF Home
  <2>7. ASSUME NEW p \in Pets, NEW m \in Media, PublicPhoto(p, m)' # PublicPhoto(p, m)
        PROVE  Home(x, <<p, m>>) /\ Home(x, m)
    <3> DEFINE f == <<p, m>>
    <3>1. rows'[f] # rows[f] \/ rows'[p] # rows[p]
      BY <2>6, <2>7 DEF PublicPhoto
    <3>2. rows[f] # NoRow \/ rows'[f] # NoRow
      BY <2>7 DEF PublicPhoto
    <3>3. f \in Ids /\ p \in Ids /\ m \in Ids
      BY <2>3
    <3>4. CASE rows[f] # NoRow
      <4>1. /\ rows[p] # NoRow /\ rows[p].shelter = rows[f].shelter
            /\ rows[m] # NoRow /\ rows[m].shelter = rows[f].shelter
        BY <2>5, <3>4
      <4> HIDE DEF f
      <4>2. rows[f].shelter = scope[x]
        BY <2>2, <3>1, <3>3, <3>4, <4>1 DEF Home
      <4> QED  BY <2>2, <2>4, <3>3, <4>1, <4>2 DEF f
    <3>5. CASE rows'[f] # NoRow
      <4>1. /\ rows'[p] # NoRow /\ rows'[p].shelter = rows'[f].shelter
            /\ rows'[m] # NoRow /\ rows'[m].shelter = rows'[f].shelter
        BY <2>5, <3>5
      <4> HIDE DEF f
      <4>2. rows'[f].shelter = scope[x]
        BY <2>2, <3>1, <3>3, <3>5, <4>1 DEF Home
      <4>3. \A i \in {f, m} : rows'[i] = rows[i] => rows[i].shelter = scope[x]
        BY <4>1, <4>2
      <4> QED  BY <2>2, <2>4, <3>3, <4>3 DEF f
    <3> QED  BY <3>2, <3>4, <3>5
  <2>8. ASSUME NEW i \in Pets, OnShow(i)' # OnShow(i) PROVE Home(x, i)
    <3>1. i \notin Media /\ i \notin Photos
      BY <2>1, IdsApart DEF Parents
    <3>2. PublicPet(i)' # PublicPet(i)
      BY <2>8, <3>1 DEF OnShow
    <3> QED  BY <2>2, <2>3, <2>6, <3>2
  <2>9. ASSUME NEW i \in Media, OnShow(i)' # OnShow(i) PROVE Home(x, i)
    <3>1. i \notin Pets /\ i \notin Photos
      BY <2>1, IdsApart DEF Parents
    <3>2. PublicMedia(i)' # PublicMedia(i)
      BY <2>9, <3>1 DEF OnShow
    <3>3. rows'[i] # rows[i] \/ \E p \in Pets : PublicPhoto(p, i)' # PublicPhoto(p, i)
      BY <3>2 DEF PublicMedia
    <3> QED  BY <2>2, <2>3, <2>7, <3>3
  <2>10. ASSUME NEW i \in Photos, OnShow(i)' # OnShow(i) PROVE Home(x, i)
    <3>1. i \notin Pets /\ i \notin Media
      BY <2>1, IdsApart DEF Parents
    <3>2. PICK p \in Pets, m \in Media : i = <<p, m>>
      BY DEF Photos
    <3>3. i[1] = p /\ i[2] = m
      BY <3>2
    <3>4. PublicPhoto(p, m)' # PublicPhoto(p, m)
      BY <2>10, <3>1, <3>3 DEF OnShow
    <3> QED  BY <2>7, <3>2, <3>4
  <2> QED  BY <2>8, <2>9, <2>10
<1>2. ASSUME NEW x \in Procs, Commit(x), IInv
      PROVE  scope[x] # NoShelter /\ scope'[x] = NoShelter
  BY <1>2 DEF Commit, End, IInv, TypeOK
<1>3. ASSUME IInv, IInv', [Next]_vars
      PROVE  [\A i \in Shown : OnShow(i)' # OnShow(i) =>
                 \E x \in Procs : scope[x] # NoShelter /\ scope'[x] = NoShelter /\ Home(x, i)]_rows
  <2> HIDE DEF Home, Shown
  <2> QED  BY <1>1, <1>2, <1>3, OnlyCommits
<1>4. ASSUME IInv, IInv', [Next]_vars
      PROVE  [\A i \in Pets \cup Media \cup Photos : OnShow(i)' # OnShow(i) =>
                 \E x \in Procs :
                    /\ scope[x] # NoShelter /\ scope'[x] = NoShelter
                    /\ \A r \in {rows[i], rows'[i]} \ {NoRow} : r.shelter = scope[x]]_rows
  BY <1>3, <1>4
<1> HIDE DEF Home, Shown
<1> QED  BY <1>4, Invariance, PTL DEF Spec, OnlyItsShelterPublishes
=================================================================================
