------------------------ MODULE RefreshRotation_proofs ------------------------
(***************************************************************************)
(* The inductive invariant of RefreshRotation and the theorems that follow *)
(* from it, for any number of handlers, users, tokens and families.        *)
(***************************************************************************)
EXTENDS RefreshRotation, TLAPS

-----------------------------------------------------------------------------
(* The inductive invariant.                                                *)

\* x read a row and has not ended: the family it may write is seen[x].family.
Reader(x) == pc[x] # "idle" /\ seen[x] # NoRow

Locked == {"decide", "revokeFamily", "insert", "point", "commit", "rollback"}

\* Between the lock statement and the end, the family's key is x's.
LockInv == \A x \in Procs :
    Reader(x) /\ pc[x] \in Locked => lock[LockKey[seen[x].family]] = x

\* The row x read is still there; only its revocation can have been missed.
SeenOK(x) ==
    /\ pc[x] \in {"lock", "decide", "revokeFamily", "insert", "point", "rollback"}
         => seen[x] # NoRow
    /\ pc[x] \in {"login", "lookup"} => seen[x] = NoRow
    /\ Reader(x) =>
        /\ req[x].token \in Tokens
        /\ rows[req[x].token] # NoRow
        /\ rows[req[x].token].user = seen[x].user
        /\ rows[req[x].token].family = seen[x].family
        /\ seen[x].revoked => rows[req[x].token].revoked
        /\ seen[x].user = req[x].scope

SeenInv == \A x \in Procs : SeenOK(x)

\* The committed table: one user per family, the chain, at most one live row.
TableInv ==
    /\ \A s, t \in Tokens :
        rows[s] # NoRow /\ rows[t] # NoRow /\ rows[s].family = rows[t].family =>
            /\ rows[s].user = rows[t].user
            /\ ~rows[s].revoked /\ ~rows[t].revoked => s = t
    /\ ChainIsLinear

Quiet(x) == \A t \in Tokens : writes[x][t] = NoRow

\* The presented row is live for everybody else and revoked for x.
Revoking(x) ==
    LET t == req[x].token IN
    /\ ~rows[t].revoked
    /\ writes[x][t] = [rows[t] EXCEPT !.revoked = TRUE]

Inserting(x, u, f) ==
    /\ fresh[x] \in Tokens
    /\ rows[fresh[x]] = NoRow
    /\ writes[x][fresh[x]] = NewRow(u, f, req[x].now)

OnlyWrites(x, S) == \A t \in Tokens \ S : writes[x][t] = NoRow

\* The revocation of x's family, ready to commit.
Burning(x) ==
    /\ seen[x] # NoRow
    /\ seen[x].revoked
    /\ \A t \in Tokens : writes[x][t] =
          IF t \in LiveIn(rows, seen[x].family)
          THEN [rows[t] EXCEPT !.revoked = TRUE] ELSE NoRow

\* A rotation, ready to commit.
Rotating(x) ==
    LET t == req[x].token IN
    /\ seen[x] # NoRow
    /\ ~rows[t].revoked
    /\ writes[x][t] = [rows[t] EXCEPT !.revoked = TRUE, !.next = fresh[x]]
    /\ Inserting(x, seen[x].user, seen[x].family)
    /\ OnlyWrites(x, {t, fresh[x]})

\* A login, ready to commit.
Opening(x) ==
    /\ seen[x] = NoRow
    /\ \E f \in Families : Members(f) = {} /\ Inserting(x, req[x].scope, f)
    /\ OnlyWrites(x, {fresh[x]})

\* What the open transaction of x has written, by how far it got.
WritesOK(x) ==
    /\ pc[x] \in {"idle", "login", "lookup", "lock", "decide", "revokeFamily", "rollback"}
         => Quiet(x)
    /\ pc[x] = "revokeFamily" =>
         seen[x].revoked /\ targets[x] = LiveIn(rows, seen[x].family)
    /\ pc[x] = "insert" => Revoking(x) /\ OnlyWrites(x, {req[x].token})
    /\ pc[x] = "point" =>
         /\ Revoking(x)
         /\ Inserting(x, seen[x].user, seen[x].family)
         /\ OnlyWrites(x, {req[x].token, fresh[x]})
    /\ pc[x] = "rollback" => answer[x] = "lost"
    /\ pc[x] = "commit" =>
         \/ answer[x] = "invalid" /\ Quiet(x)
         \/ answer[x] = "reused" /\ Burning(x)
         \/ answer[x] = "cookie" /\ Rotating(x)
         \/ answer[x] = "cookie" /\ Opening(x)

WritesInv == \A x \in Procs : WritesOK(x)

\* No two open transactions write the same id or in the same family.
DisjointInv == \A x, y \in Procs : \A s, t \in Tokens :
    x # y /\ writes[x][s] # NoRow /\ writes[y][t] # NoRow =>
        s # t /\ writes[x][s].family # writes[y][t].family

\* Every family is either unused, dead and burned, or has one live token.
FamilyInv ==
    /\ \A f \in burned : Members(f) # {} /\ LiveIn(rows, f) = {}
    /\ SessionNeverStranded

IInv ==
    /\ TypeOK
    /\ LockInv
    /\ SeenInv
    /\ TableInv
    /\ WritesInv
    /\ DisjointInv
    /\ FamilyInv
    /\ IndexIsOnlyABackstop
-----------------------------------------------------------------------------
(* Facts about one open transaction.                                       *)

\* The advisory key of a family is one of the lock table.
LEMMA KeyOfFamily == \A f \in Families : LockKey[f] \in Keys
  BY DEF Keys

\* What the UPDATE statements do to one row.
LEMMA RevokedRow ==
  ASSUME NEW r \in Row
  PROVE  /\ [r EXCEPT !.revoked = TRUE] \in Row
         /\ [r EXCEPT !.revoked = TRUE].family = r.family
         /\ [r EXCEPT !.revoked = TRUE].user = r.user
         /\ [r EXCEPT !.revoked = TRUE].expires = r.expires
         /\ [r EXCEPT !.revoked = TRUE].next = r.next
         /\ [r EXCEPT !.revoked = TRUE].revoked
  BY DEF Row

\* What a spent token's row is once its successor is known.
LEMMA RotatedRow ==
  ASSUME NEW r \in Row, NEW n \in Tokens \cup {NoToken}
  PROVE  /\ [r EXCEPT !.revoked = TRUE, !.next = n] \in Row
         /\ [r EXCEPT !.revoked = TRUE, !.next = n].family = r.family
         /\ [r EXCEPT !.revoked = TRUE, !.next = n].user = r.user
         /\ [r EXCEPT !.revoked = TRUE, !.next = n].expires = r.expires
         /\ [r EXCEPT !.revoked = TRUE, !.next = n].next = n
         /\ [r EXCEPT !.revoked = TRUE, !.next = n].revoked
  BY DEF Row

\* What issueInFamilyReturningID inserts: a live row of that user and family.
LEMMA InsertedRow ==
  ASSUME NEW u \in Users, NEW f \in Families, NEW n \in Nat
  PROVE  /\ NewRow(u, f, n) \in Row
         /\ NewRow(u, f, n).family = f
         /\ NewRow(u, f, n).user = u
         /\ NewRow(u, f, n).next = NoToken
         /\ ~NewRow(u, f, n).revoked
  <1>1. n + Lifetime \in Nat
    BY ConstantsAssumption
  <1>2. QED
    BY <1>1 DEF NewRow, Row

\* A pending write keeps everything about a committed row except revocation
\* and successor, and is in the family whose lock x holds, or in a new one.
LEMMA WriterFacts ==
  ASSUME IInv, NEW x \in Procs, NEW t \in Tokens, writes[x][t] # NoRow
  PROVE  /\ writes[x][t] \in Row
         /\ rows[t] # NoRow =>
              /\ writes[x][t].family = rows[t].family
              /\ writes[x][t].user = rows[t].user
              /\ writes[x][t].expires = rows[t].expires
              /\ writes[x][t].revoked
              /\ ~rows[t].revoked
         /\ \/ /\ Reader(x)
               /\ pc[x] \in Locked
               /\ writes[x][t].family = seen[x].family
            \/ /\ seen[x] = NoRow
               /\ pc[x] = "commit"
               /\ Members(writes[x][t].family) = {}
               /\ rows[t] = NoRow
  <1>1. TypeOK /\ SeenOK(x) /\ WritesOK(x)
    BY DEF IInv, SeenInv, WritesInv
  <1>2. writes[x][t] \in Row
    BY <1>1 DEF TypeOK
  <1>3. pc[x] \in {"insert", "point", "commit"}
    BY <1>1 DEF TypeOK, PC, WritesOK, Quiet
  <1>4. CASE pc[x] = "insert"
    <2>1. seen[x] # NoRow /\ Reader(x)
      BY <1>1, <1>4 DEF SeenOK, Reader
    <2>2. t = req[x].token /\ rows[t] # NoRow /\ rows[t].family = seen[x].family
      BY <1>1, <1>4, <2>1 DEF WritesOK, OnlyWrites, SeenOK
    <2>3. rows[t] \in Row /\ ~rows[t].revoked
          /\ writes[x][t] = [rows[t] EXCEPT !.revoked = TRUE]
      BY <1>1, <1>4, <2>2 DEF TypeOK, WritesOK, Revoking
    <2>4. QED
      BY <1>2, <1>4, <2>1, <2>2, <2>3 DEF Row, Locked
  <1>5. CASE pc[x] = "point"
    <2>1. seen[x] # NoRow /\ seen[x] \in Row /\ Reader(x) /\ req[x] \in Request
      BY <1>1, <1>5 DEF SeenOK, Reader, TypeOK
    <2>2. CASE t = req[x].token
      <3>1. rows[t] # NoRow /\ rows[t].family = seen[x].family
        BY <1>1, <2>1, <2>2 DEF SeenOK
      <3>2. rows[t] \in Row /\ ~rows[t].revoked
            /\ writes[x][t] = [rows[t] EXCEPT !.revoked = TRUE]
        BY <1>1, <1>5, <2>2, <3>1 DEF TypeOK, WritesOK, Revoking
      <3>3. QED
        BY <1>2, <1>5, <2>1, <3>1, <3>2 DEF Row, Locked
    <2>3. CASE t # req[x].token
      <3>1. rows[t] = NoRow
            /\ writes[x][t] = NewRow(seen[x].user, seen[x].family, req[x].now)
        BY <1>1, <1>5, <2>3 DEF WritesOK, Inserting, OnlyWrites
      <3>2. QED
        BY <1>2, <1>5, <2>1, <3>1 DEF NewRow, Locked
    <2>4. QED
      BY <2>2, <2>3
  <1>6. CASE pc[x] = "commit"
    <2>1. Burning(x) \/ Rotating(x) \/ Opening(x)
      BY <1>1, <1>6 DEF WritesOK, Quiet
    <2>2. CASE Burning(x)
      <3>1. t \in LiveIn(rows, seen[x].family)
            /\ writes[x][t] = [rows[t] EXCEPT !.revoked = TRUE]
        BY <2>2 DEF Burning
      <3>2. rows[t] \in Row /\ ~rows[t].revoked /\ rows[t].family = seen[x].family
        BY <1>1, <3>1 DEF LiveIn, TypeOK
      <3>3. Reader(x)
        BY <1>6, <2>2 DEF Reader, Burning
      <3>4. QED
        BY <1>2, <1>6, <3>1, <3>2, <3>3 DEF Row, Locked
    <2>3. CASE Rotating(x)
      <3>1. seen[x] # NoRow /\ seen[x] \in Row /\ Reader(x) /\ req[x] \in Request
        BY <1>1, <1>6, <2>3 DEF Rotating, Reader, TypeOK
      <3>2. CASE t = req[x].token
        <4>1. rows[t] # NoRow /\ rows[t].family = seen[x].family
          BY <1>1, <3>1, <3>2 DEF SeenOK
        <4>2. rows[t] \in Row /\ ~rows[t].revoked
              /\ writes[x][t] = [rows[t] EXCEPT !.revoked = TRUE, !.next = fresh[x]]
          BY <1>1, <2>3, <3>2, <4>1 DEF TypeOK, Rotating
        <4>3. QED
          BY <1>2, <1>6, <3>1, <4>1, <4>2 DEF Row, Locked
      <3>3. CASE t # req[x].token
        <4>1. rows[t] = NoRow
              /\ writes[x][t] = NewRow(seen[x].user, seen[x].family, req[x].now)
          BY <2>3, <3>3 DEF Rotating, Inserting, OnlyWrites
        <4>2. QED
          BY <1>2, <1>6, <3>1, <4>1 DEF NewRow, Locked
      <3>4. QED
        BY <3>2, <3>3
    <2>4. CASE Opening(x)
      <3>1. PICK f \in Families : Members(f) = {} /\ Inserting(x, req[x].scope, f)
        BY <2>4 DEF Opening
      <3>2. t = fresh[x] /\ rows[t] = NoRow
            /\ writes[x][t] = NewRow(req[x].scope, f, req[x].now)
        BY <2>4, <3>1 DEF Opening, Inserting, OnlyWrites
      <3>3. QED
        BY <1>2, <1>6, <2>4, <3>1, <3>2 DEF NewRow, Opening
    <2>5. QED
      BY <2>1, <2>2, <2>3, <2>4
  <1>7. QED
    BY <1>3, <1>4, <1>5, <1>6

\* Nobody else writes in the family of a transaction that holds its lock.
LEMMA Foreign ==
  ASSUME IInv, NEW x \in Procs, NEW y \in Procs, x # y,
         Reader(y), pc[y] \in Locked,
         NEW t \in Tokens, writes[x][t] # NoRow
  PROVE  writes[x][t].family # seen[y].family
  <1>1. SUFFICES ASSUME writes[x][t].family = seen[y].family PROVE FALSE
    OBVIOUS
  <1>2. seen[y] \in Row /\ seen[y].family \in Families /\ y # NoProc /\ x # NoProc
    BY ConstantsAssumption DEF IInv, TypeOK, Reader, Row
  <1>3. lock[LockKey[seen[y].family]] = y
    BY DEF IInv, LockInv
  <1>4. CASE Reader(x) /\ pc[x] \in Locked /\ writes[x][t].family = seen[x].family
    BY <1>1, <1>3, <1>4 DEF IInv, LockInv
  <1>5. CASE Members(writes[x][t].family) = {}
    <2>1. /\ req[y].token \in Tokens
          /\ rows[req[y].token] # NoRow
          /\ rows[req[y].token].family = seen[y].family
      BY DEF IInv, SeenInv, SeenOK
    <2>2. QED
      BY <1>1, <1>5, <2>1 DEF Members
  <1>6. QED
    BY <1>4, <1>5, WriterFacts

-----------------------------------------------------------------------------
(* Steps that leave the committed table alone.                             *)

\* The step is not y's.
Same(y) ==
    /\ pc'[y] = pc[y] /\ req'[y] = req[y] /\ seen'[y] = seen[y]
    /\ targets'[y] = targets[y] /\ fresh'[y] = fresh[y]
    /\ answer'[y] = answer[y] /\ writes'[y] = writes[y]

\* A handler that a step leaves alone keeps its part of the invariant while
\* the committed table stands still.
LEMMA Frame ==
  ASSUME NEW y \in Procs, rows' = rows, Same(y)
  PROVE  /\ SeenOK(y) => SeenOK(y)'
         /\ WritesOK(y) => WritesOK(y)'
  <1>1. SeenOK(y) => SeenOK(y)'
    BY DEF Same, SeenOK, Reader
  <1>2. WritesOK(y) => WritesOK(y)'
    <2>1. Quiet(y) => Quiet(y)'
      BY DEF Same, Quiet
    <2>2. Revoking(y) => Revoking(y)'
      BY DEF Same, Revoking
    <2>3. \A u, f : Inserting(y, u, f) => Inserting(y, u, f)'
      BY DEF Same, Inserting, NewRow
    <2>4. /\ OnlyWrites(y, {req[y].token}) => OnlyWrites(y, {req[y].token})'
          /\ OnlyWrites(y, {fresh[y]}) => OnlyWrites(y, {fresh[y]})'
          /\ OnlyWrites(y, {req[y].token, fresh[y]})
                => OnlyWrites(y, {req[y].token, fresh[y]})'
      BY DEF Same, OnlyWrites
    <2>5. \A f : /\ LiveIn(rows, f)' = LiveIn(rows, f)
                 /\ Members(f)' = Members(f)
      BY DEF LiveIn, Members
    <2>6. Burning(y) => Burning(y)'
      BY <2>5 DEF Same, Burning
    <2>7. Rotating(y) => Rotating(y)'
      BY <2>3, <2>4 DEF Same, Rotating
    <2>8. Opening(y) => Opening(y)'
      BY <2>3, <2>4, <2>5 DEF Same, Opening
    <2>9. QED
      BY <2>1, <2>2, <2>3, <2>4, <2>5, <2>6, <2>7, <2>8 DEF Same, WritesOK
  <1>3. QED
    BY <1>1, <1>2

\* What is left to show of a step of x that commits nothing.
LEMMA Assemble ==
  ASSUME IInv, NEW x \in Procs,
         rows' = rows, burned' = burned,
         \A y \in Procs \ {x} : Same(y),
         TypeOK', LockInv', SeenOK(x)', WritesOK(x)', DisjointInv',
         answer'[x] # "conflict"
  PROVE  IInv'
  <1>1. SeenInv' /\ WritesInv'
    BY Frame DEF IInv, SeenInv, WritesInv
  <1>2. TableInv' /\ FamilyInv'
    BY DEF IInv, TableInv, ChainIsLinear, FamilyInv, SessionNeverStranded, Members, LiveIn
  <1>3. IndexIsOnlyABackstop'
    BY DEF IInv, IndexIsOnlyABackstop, Same
  <1>4. QED
    BY <1>1, <1>2, <1>3 DEF IInv

\* Opening a transaction, for a login or a refresh, preserves the invariant.
LEMMA BeginStep ==
  ASSUME IInv, NEW x \in Procs, NEW u \in Users, NEW t \in Tokens \cup {NoToken},
         NEW first \in {"login", "lookup"}, Begin(x, u, t, first)
  PROVE  IInv'
  <1> USE DEF Begin, session, history
  <1>1. TypeOK'
    BY DEF IInv, TypeOK, PC, Answers, Request
  <1>2. \A y \in Procs \ {x} : Same(y)
    BY DEF IInv, TypeOK, Same
  <1>3. LockInv'
    BY <1>2 DEF IInv, TypeOK, LockInv, Same, Reader, Locked
  <1>4. SeenOK(x)'
    BY DEF IInv, TypeOK, SeenOK, Reader
  <1>5. WritesOK(x)'
    BY DEF IInv, TypeOK, WritesInv, WritesOK, Quiet
  <1>6. DisjointInv'
    BY DEF IInv, DisjointInv
  <1>7. QED
    BY <1>1, <1>2, <1>3, <1>4, <1>5, <1>6, Assemble DEF IInv, TypeOK

\* Reading the presented token preserves the invariant.
LEMMA LookupStep ==
  ASSUME IInv, NEW x \in Procs, GetRefreshTokenByHash(x)
  PROVE  IInv'
  <1> USE DEF GetRefreshTokenByHash, session, history
  <1>1. TypeOK'
    <2>1. pc' \in [Procs -> PC] /\ answer' \in [Procs -> Answers]
      BY DEF IInv, TypeOK, PC, Answers
    <2>2. seen' \in [Procs -> Row \cup {NoRow}]
      BY DEF IInv, TypeOK, Request, Found
    <2> QED  BY <2>1, <2>2 DEF IInv, TypeOK
  <1>2. \A y \in Procs \ {x} : Same(y)
    BY DEF IInv, TypeOK, Same
  <1>3. LockInv'
    BY <1>2 DEF IInv, TypeOK, LockInv, Same, Reader, Locked, SeenInv, SeenOK
  <1>4. SeenOK(x)'
    BY DEF IInv, TypeOK, SeenInv, SeenOK, Reader, Found, Visible, Request
  <1>5. WritesOK(x)'
    BY DEF IInv, TypeOK, WritesInv, WritesOK, Quiet
  <1>6. DisjointInv'
    BY DEF IInv, DisjointInv
  <1>7. answer'[x] # "conflict"
    BY DEF IInv, TypeOK, IndexIsOnlyABackstop
  <1>8. QED
    BY <1>1, <1>2, <1>3, <1>4, <1>5, <1>6, <1>7, Assemble

\* Taking the family's advisory lock preserves the invariant: no other handler
\* that has decided anything holds the same key.
LEMMA LockStep ==
  ASSUME IInv, NEW x \in Procs, LockRefreshTokenFamily(x)
  PROVE  IInv'
  <1> USE DEF LockRefreshTokenFamily, session, history
  <1>1. seen[x] \in Row /\ seen[x].family \in Families /\ LockKey[seen[x].family] \in Keys
    BY KeyOfFamily DEF IInv, TypeOK, SeenInv, SeenOK, Row
  <1>2. TypeOK'
    BY <1>1 DEF IInv, TypeOK, PC
  <1>3. \A y \in Procs \ {x} : Same(y)
    BY DEF IInv, TypeOK, Same
  <1>4. LockInv'
    <2>1. lock'[LockKey[seen[x].family]] = x
      BY <1>1 DEF IInv, TypeOK
    <2>2. ASSUME NEW y \in Procs \ {x}, Reader(y), pc[y] \in Locked
          PROVE  lock'[LockKey[seen[y].family]] = y
      <3>1. lock[LockKey[seen[y].family]] = y /\ y # NoProc
        BY <2>2, ConstantsAssumption DEF IInv, LockInv
      <3>2. QED
        BY <1>1, <3>1 DEF IInv, TypeOK
    <2>3. QED
      BY <1>3, <2>1, <2>2 DEF LockInv, Same, Reader
  <1>5. SeenOK(x)'
    BY DEF IInv, TypeOK, SeenInv, SeenOK, Reader
  <1>6. WritesOK(x)'
    BY DEF IInv, TypeOK, WritesInv, WritesOK, Quiet
  <1>7. DisjointInv'
    BY DEF IInv, DisjointInv
  <1>8. QED
    BY <1>2, <1>3, <1>4, <1>5, <1>6, <1>7, Assemble DEF IInv, IndexIsOnlyABackstop

\* Refusing an expired token preserves the invariant.
LEMMA ExpiredStep ==
  ASSUME IInv, NEW x \in Procs, RefuseExpired(x)
  PROVE  IInv'
  <1> USE DEF RefuseExpired, session, history
  <1>1. TypeOK'
    BY DEF IInv, TypeOK, PC, Answers
  <1>2. \A y \in Procs \ {x} : Same(y)
    BY DEF IInv, TypeOK, Same
  <1>3. LockInv'
    BY <1>2 DEF IInv, TypeOK, LockInv, Same, Reader, Locked
  <1>4. SeenOK(x)'
    BY DEF IInv, TypeOK, SeenInv, SeenOK, Reader
  <1>5. WritesOK(x)'
    BY DEF IInv, TypeOK, WritesInv, WritesOK, Quiet
  <1>6. DisjointInv'
    BY DEF IInv, DisjointInv
  <1>7. answer'[x] # "conflict"
    BY DEF IInv, TypeOK
  <1>8. QED
    BY <1>1, <1>2, <1>3, <1>4, <1>5, <1>6, <1>7, Assemble

\* The snapshot of RevokeRefreshTokenFamily is the family's live tokens, and the
\* lock keeps it so.
LEMMA StartRevocationStep ==
  ASSUME IInv, NEW x \in Procs, StartFamilyRevocation(x)
  PROVE  IInv'
  <1> USE DEF StartFamilyRevocation, session, history
  <1>1. TypeOK'
    BY DEF IInv, TypeOK, PC, LiveIn
  <1>2. \A y \in Procs \ {x} : Same(y)
    BY DEF IInv, TypeOK, Same
  <1>3. LockInv'
    BY <1>2 DEF IInv, TypeOK, LockInv, Same, Reader, Locked
  <1>4. SeenOK(x)'
    BY DEF IInv, TypeOK, SeenInv, SeenOK, Reader
  <1>5. WritesOK(x)'
    <2>1. Quiet(x)
      BY DEF IInv, WritesInv, WritesOK
    <2>2. View(x) = rows
      BY <2>1 DEF View, Quiet, IInv, TypeOK
    <2>3. /\ rows[req[x].token] # NoRow
          /\ req[x].token \in Tokens
          /\ rows[req[x].token].family = seen[x].family
          /\ rows[req[x].token].user = req[x].scope
      BY DEF IInv, SeenInv, SeenOK, Reader
    <2>4. \A t \in LiveIn(rows, seen[x].family) : Visible(x, rows[t])
      BY <2>3 DEF IInv, TableInv, LiveIn, Visible
    <2>5. targets'[x] = LiveIn(rows, seen[x].family)
      BY <2>2, <2>4 DEF IInv, TypeOK, LiveIn
    <2>6. LiveIn(rows, seen[x].family)' = LiveIn(rows, seen[x].family)
      BY DEF LiveIn
    <2>7. QED
      BY <2>1, <2>5, <2>6 DEF IInv, TypeOK, WritesOK, Quiet
  <1>6. DisjointInv'
    BY DEF IInv, DisjointInv
  <1>7. QED
    BY <1>1, <1>2, <1>3, <1>4, <1>5, <1>6, Assemble DEF IInv, IndexIsOnlyABackstop

\* Writes of x in the family x has locked, on ids no other transaction
\* writes, keep the pending writes of different transactions apart.
LEMMA StaysDisjoint ==
  ASSUME IInv, NEW x \in Procs, Reader(x), pc[x] \in Locked,
         \A y \in Procs \ {x} : Same(y),
         \A t \in Tokens : writes'[x][t] # NoRow =>
            /\ writes'[x][t].family = seen[x].family
            /\ \A y \in Procs \ {x} : writes[y][t] = NoRow
  PROVE  DisjointInv'
  <1>1. SUFFICES ASSUME NEW y \in Procs, NEW z \in Procs, y # z,
                        NEW s \in Tokens, NEW t \in Tokens,
                        writes'[y][s] # NoRow, writes'[z][t] # NoRow
                 PROVE  s # t /\ writes'[y][s].family # writes'[z][t].family
    BY DEF DisjointInv
  <1>2. CASE y # x /\ z # x
    BY <1>1, <1>2 DEF Same, IInv, DisjointInv
  <1>3. CASE y = x
    <2>1. writes'[z][t] = writes[z][t] /\ z # x
      BY <1>1, <1>3 DEF Same
    <2>2. writes[z][t].family # seen[x].family
      BY <1>1, <2>1, Foreign
    <2>3. QED
      BY <1>1, <1>3, <2>1, <2>2
  <1>4. CASE z = x
    <2>1. writes'[y][s] = writes[y][s] /\ y # x
      BY <1>1, <1>4 DEF Same
    <2>2. writes[y][s].family # seen[x].family
      BY <1>1, <2>1, Foreign
    <2>3. QED
      BY <1>1, <1>4, <2>1, <2>2
  <1>5. QED
    BY <1>2, <1>3, <1>4

\* A committed row of the family x has locked is nobody else's to write.
LEMMA OwnRow ==
  ASSUME IInv, NEW x \in Procs, Reader(x), pc[x] \in Locked,
         NEW t \in Tokens, rows[t] # NoRow, rows[t].family = seen[x].family,
         NEW y \in Procs \ {x}
  PROVE  writes[y][t] = NoRow
  BY WriterFacts, Foreign

\* After RevokeRefreshTokenFamily the family has no live token, once committed.
LEMMA FinishRevocationStep ==
  ASSUME IInv, NEW x \in Procs, FinishFamilyRevocation(x)
  PROVE  IInv'
  <1> USE DEF FinishFamilyRevocation, session, history
  <1>1. /\ Reader(x) /\ pc[x] \in Locked /\ Quiet(x)
        /\ targets[x] = LiveIn(rows, seen[x].family) /\ seen[x].revoked
    BY DEF IInv, SeenInv, SeenOK, WritesInv, WritesOK, Reader, Locked
  <1>2. View(x) = rows
    BY <1>1 DEF View, Quiet, IInv, TypeOK
  <1>3. \A t \in Tokens : writes'[x][t] =
            IF t \in LiveIn(rows, seen[x].family)
            THEN [rows[t] EXCEPT !.revoked = TRUE] ELSE NoRow
    BY <1>1, <1>2 DEF IInv, TypeOK, LiveIn, Quiet
  <1>4. \A t \in LiveIn(rows, seen[x].family) :
            rows[t] \in Row /\ rows[t].family = seen[x].family
    BY DEF IInv, TypeOK, LiveIn
  <1>5. TypeOK'
    <2>1. writes' \in [Procs -> [Tokens -> Row \cup {NoRow}]]
      <3>1. \A t \in Tokens : writes'[x][t] \in Row \cup {NoRow}
        <4> HIDE DEF FinishFamilyRevocation
        <4>1. \A t \in LiveIn(rows, seen[x].family) : writes'[x][t] \in Row
          BY <1>3, <1>4, RevokedRow DEF LiveIn
        <4>2. QED
          BY <1>3, <4>1
      <3>2. QED
        BY <1>1, <1>2, <3>1 DEF IInv, TypeOK
    <2>2. QED
      BY <2>1 DEF IInv, TypeOK, PC, Answers
  <1>6. \A y \in Procs \ {x} : Same(y)
    BY DEF IInv, TypeOK, Same
  <1>7. LockInv'
    BY <1>6 DEF IInv, TypeOK, LockInv, Same, Reader, Locked
  <1>8. SeenOK(x)'
    BY DEF IInv, TypeOK, SeenInv, SeenOK, Reader
  <1>9. WritesOK(x)'
    <2>1. LiveIn(rows, seen[x].family)' = LiveIn(rows, seen[x].family)
      BY DEF LiveIn
    <2>2. Burning(x)'
      BY <1>1, <1>3, <2>1 DEF Burning, Reader
    <2>3. QED
      BY <2>2 DEF IInv, TypeOK, WritesOK
  <1>10. DisjointInv'
    <2>1. \A t \in Tokens : writes'[x][t] # NoRow =>
            /\ writes'[x][t].family = seen[x].family
            /\ \A y \in Procs \ {x} : writes[y][t] = NoRow
      <3>1. SUFFICES ASSUME NEW t \in LiveIn(rows, seen[x].family)
                     PROVE  /\ writes'[x][t].family = seen[x].family
                            /\ \A y \in Procs \ {x} : writes[y][t] = NoRow
        BY <1>3
      <3> HIDE DEF FinishFamilyRevocation
      <3>2. rows[t] \in Row /\ rows[t] # NoRow /\ t \in Tokens
        BY <1>4 DEF LiveIn
      <3>3. writes'[x][t].family = seen[x].family
        <4>1. writes'[x][t] = [rows[t] EXCEPT !.revoked = TRUE]
          BY <1>3, <3>2
        <4>2. QED
          BY <1>4, <3>2, <4>1, RevokedRow
      <3>4. QED
        BY <1>1, <1>4, <3>2, <3>3, OwnRow
    <2>2. QED
      BY <1>1, <1>6, <2>1, StaysDisjoint
  <1>11. answer'[x] # "conflict"
    BY DEF IInv, TypeOK
  <1>12. QED
    BY <1>5, <1>6, <1>7, <1>8, <1>9, <1>10, <1>11, Assemble

\* What x knows of the row it presented.
LEMMA PresentedRow ==
  ASSUME IInv, NEW x \in Procs, Reader(x)
  PROVE  /\ req[x].token \in Tokens
         /\ req[x].scope \in Users /\ req[x].now \in Nat
         /\ rows[req[x].token] \in Row
         /\ rows[req[x].token] # NoRow
         /\ rows[req[x].token].family = seen[x].family
         /\ rows[req[x].token].user = seen[x].user
         /\ seen[x].user = req[x].scope
         /\ seen[x] \in Row /\ seen[x].family \in Families /\ seen[x].user \in Users
  <1>1. /\ req[x].token \in Tokens
        /\ rows[req[x].token] # NoRow
        /\ rows[req[x].token].family = seen[x].family
        /\ rows[req[x].token].user = seen[x].user
        /\ seen[x].user = req[x].scope
        /\ seen[x] # NoRow
    BY DEF IInv, SeenInv, SeenOK, Reader
  <1>2. rows[req[x].token] \in Row /\ seen[x] \in Row /\ req[x] \in Request
    BY <1>1 DEF IInv, TypeOK
  <1>3. QED
    BY <1>1, <1>2 DEF Row, Request

\* Spending the presented token, or losing it, preserves the invariant.
LEMMA RevokeIfLiveStep ==
  ASSUME IInv, NEW x \in Procs, RevokeRefreshTokenIfLive(x)
  PROVE  IInv'
  <1> DEFINE t == req[x].token
             v == [rows[t] EXCEPT !.revoked = TRUE]
  <1>1. /\ Reader(x) /\ pc[x] \in Locked /\ Quiet(x) /\ pc[x] = "decide"
    BY DEF IInv, SeenInv, SeenOK, WritesInv, WritesOK, Reader, Locked,
           RevokeRefreshTokenIfLive
  <1>2. View(x) = rows
    BY <1>1 DEF View, Quiet, IInv, TypeOK
  <1>3. /\ UNCHANGED <<rows, lock, clock, req, seen, targets, fresh, history>>
        /\ \/ /\ ~rows[t].revoked
              /\ writes' = [writes EXCEPT ![x][t] = v]
              /\ pc' = [pc EXCEPT ![x] = "insert"]
              /\ UNCHANGED answer
           \/ /\ answer' = [answer EXCEPT ![x] = "lost"]
              /\ pc' = [pc EXCEPT ![x] = "rollback"]
              /\ UNCHANGED writes
    BY <1>2 DEF RevokeRefreshTokenIfLive
  <1>4. t \in Tokens /\ rows[t] \in Row /\ v \in Row
        /\ rows[t].family = seen[x].family /\ rows[t] # NoRow
        /\ v.family = seen[x].family
    BY <1>1, PresentedRow, RevokedRow
  <1> HIDE DEF t, v
  <1>5. TypeOK'
    <2>1. writes' \in [Procs -> [Tokens -> Row \cup {NoRow}]]
      <3>1. writes \in [Procs -> [Tokens -> Row \cup {NoRow}]]
        BY DEF IInv, TypeOK
      <3>2. CASE writes' = [writes EXCEPT ![x][t] = v]
        BY <1>4, <3>1, <3>2
      <3>3. CASE writes' = writes
        BY <3>1, <3>3
      <3>4. QED
        BY <1>3, <3>2, <3>3
    <2>2. pc' \in [Procs -> PC] /\ answer' \in [Procs -> Answers]
      BY <1>3 DEF IInv, TypeOK, PC, Answers
    <2>3. QED
      BY <1>3, <2>1, <2>2 DEF IInv, TypeOK, history
  <1>6. \A y \in Procs \ {x} : Same(y)
    BY <1>3 DEF IInv, TypeOK, Same, history
  <1>7. LockInv'
    BY <1>1, <1>3, <1>6 DEF IInv, TypeOK, LockInv, Same, Reader, Locked
  <1>8. SeenOK(x)'
    BY <1>1, <1>3 DEF IInv, TypeOK, SeenInv, SeenOK, Reader
  <1>9. WritesOK(x)'
    <2>1. CASE pc' = [pc EXCEPT ![x] = "rollback"]
      BY <1>1, <1>3, <2>1 DEF IInv, TypeOK, WritesOK, Quiet
    <2>2. CASE pc' = [pc EXCEPT ![x] = "insert"]
      <3>1. pc'[x] = "insert"
        BY <2>2 DEF IInv, TypeOK
      <3>2. /\ ~rows[t].revoked
            /\ writes' = [writes EXCEPT ![x][t] = v]
        BY <1>3, <3>1 DEF IInv, TypeOK
      <3>3. /\ writes'[x][t] = v
            /\ \A s \in Tokens \ {t} : writes'[x][s] = NoRow
        BY <1>1, <1>4, <3>2 DEF IInv, TypeOK, Quiet
      <3>4. Revoking(x)'
        BY <1>3, <3>2, <3>3 DEF Revoking, t, v
      <3>5. OnlyWrites(x, {req[x].token})'
        BY <1>3, <3>3 DEF OnlyWrites, t
      <3>6. QED
        BY <3>1, <3>4, <3>5 DEF WritesOK
    <2>3. QED
      BY <1>3, <2>1, <2>2
  <1>10. DisjointInv'
    <2>1. \A s \in Tokens : writes'[x][s] # NoRow =>
             s = t /\ writes'[x][s].family = seen[x].family
      BY <1>1, <1>3, <1>4 DEF IInv, TypeOK, Quiet
    <2>2. \A y \in Procs \ {x} : writes[y][t] = NoRow
      BY <1>1, <1>4, OwnRow
    <2>3. QED
      BY <1>1, <1>6, <2>1, <2>2, StaysDisjoint
  <1>11. answer'[x] # "conflict"
    BY <1>3 DEF IInv, TypeOK, IndexIsOnlyABackstop
  <1>12. QED
    BY <1>3, <1>5, <1>6, <1>7, <1>8, <1>9, <1>10, <1>11, Assemble DEF history

\* Inserting the successor preserves the invariant, and never meets the index.
LEMMA InsertStep ==
  ASSUME IInv, NEW x \in Procs, NEW t \in Tokens, InsertRefreshToken(x, t)
  PROVE  IInv'
  <1> DEFINE f == seen[x].family
             p == req[x].token
             r == NewRow(seen[x].user, f, req[x].now)
  <1>1. Reader(x) /\ pc[x] \in Locked /\ pc[x] = "insert"
    BY DEF IInv, SeenInv, SeenOK, Reader, Locked, InsertRefreshToken
  <1>2. /\ ~rows[p].revoked /\ writes[x][p] = [rows[p] EXCEPT !.revoked = TRUE]
        /\ \A s \in Tokens \ {p} : writes[x][s] = NoRow
    BY <1>1 DEF IInv, WritesInv, WritesOK, Revoking, OnlyWrites
  <1>3. /\ p \in Tokens /\ rows[p] \in Row /\ rows[p] # NoRow /\ rows[p].family = f
        /\ writes[x][p] \in Row /\ writes[x][p].revoked /\ writes[x][p].family = f
        /\ f \in Families /\ seen[x].user \in Users /\ req[x].now \in Nat
    BY <1>1, <1>2, PresentedRow, RevokedRow
  <1>4. r \in Row /\ r.family = f /\ r # NoRow
    <2>1. r \in Row /\ r.family = f
      BY <1>3, InsertedRow
    <2>2. QED
      BY <2>1, ConstantsAssumption
  <1>5. t # p /\ rows[t] = NoRow /\ \A y \in Procs : writes[y][t] = NoRow
    BY <1>3 DEF InsertRefreshToken, UnusedTokens
  <1>6. LiveIn(View(x), f) = {}
    <2>1. SUFFICES ASSUME NEW s \in Tokens, View(x)[s] # NoRow,
                          View(x)[s].family = f, ~View(x)[s].revoked
                   PROVE FALSE
      BY DEF LiveIn
    <2>2. s # p
      BY <1>3, <2>1, ConstantsAssumption DEF View
    <2>3. View(x)[s] = rows[s]
      BY <1>2, <2>2 DEF View
    <2>4. QED
      BY <1>2, <1>3, <2>1, <2>2, <2>3 DEF IInv, TableInv
  <1>7. /\ UNCHANGED <<rows, lock, clock, req, seen, targets, history, answer>>
        /\ writes' = [writes EXCEPT ![x][t] = r]
        /\ fresh' = [fresh EXCEPT ![x] = t]
        /\ pc' = [pc EXCEPT ![x] = "point"]
    BY <1>6 DEF InsertRefreshToken
  <1> HIDE DEF f, p, r
  <1>8. TypeOK'
    BY <1>4, <1>7 DEF IInv, TypeOK, PC, history
  <1>9. \A y \in Procs \ {x} : Same(y)
    BY <1>7 DEF IInv, TypeOK, Same, history
  <1>10. LockInv'
    BY <1>1, <1>7, <1>9 DEF IInv, TypeOK, LockInv, Same, Reader, Locked
  <1>11. SeenOK(x)'
    BY <1>1, <1>7 DEF IInv, TypeOK, SeenInv, SeenOK, Reader
  <1>12. /\ writes'[x][t] = r /\ writes'[x][p] = writes[x][p]
         /\ \A s \in Tokens \ {p, t} : writes'[x][s] = NoRow
    BY <1>2, <1>3, <1>5, <1>7 DEF IInv, TypeOK
  <1>13. WritesOK(x)'
    <2>1. pc'[x] = "point" /\ fresh'[x] = t
      BY <1>7 DEF IInv, TypeOK
    <2>2. Revoking(x)'
      BY <1>2, <1>7, <1>12 DEF Revoking, p
    <2>3. Inserting(x, seen[x].user, seen[x].family)'
      BY <1>5, <1>7, <1>12, <2>1 DEF Inserting, NewRow, r, f
    <2>4. OnlyWrites(x, {req[x].token, fresh[x]})'
      BY <1>7, <1>12, <2>1 DEF OnlyWrites, p
    <2>5. QED
      BY <2>1, <2>2, <2>3, <2>4 DEF WritesOK
  <1>14. DisjointInv'
    <2>1. \A s \in Tokens : writes'[x][s] # NoRow =>
             s \in {p, t} /\ writes'[x][s].family = f
      BY <1>3, <1>4, <1>12
    <2>2. \A y \in Procs \ {x} : writes[y][t] = NoRow /\ writes[y][p] = NoRow
      BY <1>1, <1>3, <1>5, OwnRow DEF f
    <2>3. QED
      BY <1>1, <1>9, <2>1, <2>2, StaysDisjoint DEF f
  <1>15. answer'[x] # "conflict"
    BY <1>7 DEF IInv, TypeOK, IndexIsOnlyABackstop
  <1>16. QED
    BY <1>7, <1>8, <1>9, <1>10, <1>11, <1>13, <1>14, <1>15, Assemble DEF history

\* Setting replaced_by preserves the invariant: a spent token has one successor.
LEMMA PointStep ==
  ASSUME IInv, NEW x \in Procs, SetRefreshTokenReplacedBy(x)
  PROVE  IInv'
  <1> DEFINE f == seen[x].family
             p == req[x].token
             v == [rows[p] EXCEPT !.revoked = TRUE, !.next = fresh[x]]
  <1>1. Reader(x) /\ pc[x] \in Locked /\ pc[x] = "point"
    BY DEF IInv, SeenInv, SeenOK, Reader, Locked, SetRefreshTokenReplacedBy
  <1>2. /\ ~rows[p].revoked /\ writes[x][p] = [rows[p] EXCEPT !.revoked = TRUE]
        /\ Inserting(x, seen[x].user, f)
        /\ \A s \in Tokens \ {p, fresh[x]} : writes[x][s] = NoRow
    BY <1>1 DEF IInv, WritesInv, WritesOK, Revoking, OnlyWrites
  <1>3. /\ p \in Tokens /\ rows[p] \in Row /\ rows[p] # NoRow /\ rows[p].family = f
        /\ f \in Families /\ seen[x].user \in Users /\ req[x].now \in Nat
        /\ writes[x][p] \in Row /\ writes[x][p] # NoRow
        /\ fresh[x] \in Tokens /\ fresh[x] # p
    <2>1. fresh[x] \in Tokens /\ rows[fresh[x]] = NoRow
      BY <1>2 DEF Inserting
    <2>2. /\ p \in Tokens /\ rows[p] \in Row /\ rows[p] # NoRow /\ rows[p].family = f
          /\ f \in Families /\ seen[x].user \in Users /\ req[x].now \in Nat
      BY <1>1, PresentedRow
    <2>3. writes[x][p] \in Row
      BY <1>2, <2>2, RevokedRow
    <2>4. QED
      BY <2>1, <2>2, <2>3, ConstantsAssumption
  <1>4. v \in Row /\ v.family = f
    BY <1>3, RotatedRow
  <1>5. View(x)[p] = [rows[p] EXCEPT !.revoked = TRUE]
    BY <1>2, <1>3 DEF View
  <1>6. [View(x)[p] EXCEPT !.next = fresh[x]] = v
    BY <1>3, <1>5 DEF Row
  <1>7. /\ UNCHANGED <<rows, lock, clock, req, seen, targets, fresh, history>>
        /\ writes' = [writes EXCEPT ![x][p] = v]
        /\ answer' = [answer EXCEPT ![x] = "cookie"]
        /\ pc' = [pc EXCEPT ![x] = "commit"]
    BY <1>6 DEF SetRefreshTokenReplacedBy
  <1> HIDE DEF f, p, v
  <1>8. TypeOK'
    <2>1. writes' \in [Procs -> [Tokens -> Row \cup {NoRow}]]
      BY <1>4, <1>7 DEF IInv, TypeOK
    <2>2. pc' \in [Procs -> PC] /\ answer' \in [Procs -> Answers]
      BY <1>7 DEF IInv, TypeOK, PC, Answers
    <2>3. QED
      BY <1>7, <2>1, <2>2 DEF IInv, TypeOK, history
  <1>9. \A y \in Procs \ {x} : Same(y)
    BY <1>7 DEF IInv, TypeOK, Same, history
  <1>10. LockInv'
    BY <1>1, <1>7, <1>9 DEF IInv, TypeOK, LockInv, Same, Reader, Locked
  <1>11. SeenOK(x)'
    BY <1>1, <1>7 DEF IInv, TypeOK, SeenInv, SeenOK, Reader
  <1>12. /\ writes'[x][p] = v
         /\ \A s \in Tokens \ {p} : writes'[x][s] = writes[x][s]
    BY <1>3, <1>7 DEF IInv, TypeOK
  <1>13. WritesOK(x)'
    <2>1. pc'[x] = "commit" /\ answer'[x] = "cookie"
      BY <1>7 DEF IInv, TypeOK
    <2>2. Inserting(x, seen[x].user, seen[x].family)'
      BY <1>2, <1>3, <1>7, <1>12 DEF Inserting, NewRow, f
    <2>3. OnlyWrites(x, {req[x].token, fresh[x]})'
      BY <1>2, <1>7, <1>12 DEF OnlyWrites, p
    <2>4. Rotating(x)'
      BY <1>1, <1>2, <1>7, <1>12, <2>2, <2>3 DEF Rotating, Reader, p, v
    <2>5. QED
      BY <2>1, <2>4 DEF WritesOK
  <1>14. DisjointInv'
    <2>1. \A s \in Tokens : writes'[x][s] # NoRow =>
             writes[x][s] # NoRow /\ writes'[x][s].family = writes[x][s].family
      <3>1. writes[x][p].family = f
        BY <1>2, <1>3, RevokedRow
      <3>2. QED
        BY <1>3, <1>4, <1>12, <3>1
    <2>2. QED
      BY <1>9, <2>1 DEF IInv, DisjointInv, Same
  <1>15. answer'[x] # "conflict"
    BY <1>7 DEF IInv, TypeOK
  <1>16. QED
    BY <1>7, <1>8, <1>9, <1>10, <1>11, <1>13, <1>14, <1>15, Assemble DEF history

\* Inserting the first token of a new family preserves the invariant.
LEMMA IssueStep ==
  ASSUME IInv, NEW x \in Procs, NEW t \in Tokens, NEW f \in Families,
         IssueRefreshToken(x, t, f)
  PROVE  IInv'
  <1> DEFINE r == NewRow(req[x].scope, f, req[x].now)
  <1>1. /\ pc[x] = "login" /\ seen[x] = NoRow /\ Quiet(x)
    BY DEF IInv, SeenInv, SeenOK, WritesInv, WritesOK, IssueRefreshToken
  <1>2. req[x].scope \in Users /\ req[x].now \in Nat
    BY DEF IInv, TypeOK, Request
  <1>3. r \in Row /\ r.family = f
    BY <1>2, InsertedRow
  <1>4. /\ rows[t] = NoRow /\ \A y \in Procs : writes[y][t] = NoRow
        /\ \A s \in Tokens :
              /\ rows[s] # NoRow => rows[s].family # f
              /\ \A y \in Procs : writes[y][s] # NoRow => writes[y][s].family # f
    BY DEF IssueRefreshToken, UnusedTokens, UnusedFamilies
  <1>5. /\ UNCHANGED <<rows, lock, clock, req, seen, targets, history>>
        /\ writes' = [writes EXCEPT ![x][t] = r]
        /\ fresh' = [fresh EXCEPT ![x] = t]
        /\ answer' = [answer EXCEPT ![x] = "cookie"]
        /\ pc' = [pc EXCEPT ![x] = "commit"]
    BY DEF IssueRefreshToken
  <1> HIDE DEF r
  <1>6. TypeOK'
    <2>1. writes' \in [Procs -> [Tokens -> Row \cup {NoRow}]]
      BY <1>3, <1>5 DEF IInv, TypeOK
    <2>2. /\ pc' \in [Procs -> PC] /\ answer' \in [Procs -> Answers]
          /\ fresh' \in [Procs -> Tokens \cup {NoToken}]
      BY <1>5 DEF IInv, TypeOK, PC, Answers
    <2>3. QED
      BY <1>5, <2>1, <2>2 DEF IInv, TypeOK, history
  <1>7. \A y \in Procs \ {x} : Same(y)
    BY <1>5 DEF IInv, TypeOK, Same, history
  <1>8. LockInv'
    BY <1>1, <1>5, <1>7 DEF IInv, TypeOK, LockInv, Same, Reader, Locked
  <1>9. SeenOK(x)'
    BY <1>1, <1>5 DEF IInv, TypeOK, SeenInv, SeenOK, Reader
  <1>10. /\ writes'[x][t] = r
         /\ \A s \in Tokens \ {t} : writes'[x][s] = NoRow
    BY <1>1, <1>5 DEF IInv, TypeOK, Quiet
  <1>11. WritesOK(x)'
    <2>1. pc'[x] = "commit" /\ answer'[x] = "cookie" /\ fresh'[x] = t
      BY <1>5 DEF IInv, TypeOK
    <2>2. Members(f)' = {}
      BY <1>4, <1>5 DEF Members
    <2>3. Inserting(x, req[x].scope, f)'
      BY <1>4, <1>5, <1>10, <2>1 DEF Inserting, NewRow, r
    <2>4. OnlyWrites(x, {fresh[x]})'
      BY <1>10, <2>1 DEF OnlyWrites
    <2>5. Opening(x)'
      BY <1>1, <1>5, <2>2, <2>3, <2>4 DEF Opening
    <2>6. QED
      BY <2>1, <2>5 DEF WritesOK
  <1>12. DisjointInv'
    <2>1. SUFFICES ASSUME NEW y \in Procs \ {x}, NEW s \in Tokens, writes[y][s] # NoRow
                   PROVE  s # t /\ writes[y][s].family # writes'[x][t].family
      BY <1>7, <1>10, <2>1 DEF IInv, DisjointInv, Same
    <2>2. writes[y][t] = NoRow /\ writes[y][s].family # f
      BY <1>4, <2>1
    <2>3. writes'[x][t].family = f
      BY <1>3, <1>10
    <2>4. QED
      BY <2>1, <2>2, <2>3
  <1>13. answer'[x] # "conflict"
    BY <1>5 DEF IInv, TypeOK
  <1>14. QED
    BY <1>5, <1>6, <1>7, <1>8, <1>9, <1>11, <1>12, <1>13, Assemble DEF history

-----------------------------------------------------------------------------
(* Steps that end a transaction.                                           *)

\* Ending x's transaction takes no lock away from another handler.
LEMMA EndKeepsLocks ==
  ASSUME IInv, NEW x \in Procs, EndTx(x)
  PROVE  LockInv'
  <1>1. SUFFICES ASSUME NEW y \in Procs, Reader(y)', pc'[y] \in Locked
                 PROVE  lock'[LockKey[seen'[y].family]] = y
    BY DEF LockInv
  <1>2. y # x /\ pc'[y] = pc[y] /\ seen'[y] = seen[y]
    BY <1>1 DEF EndTx, IInv, TypeOK, Reader
  <1>3. lock[LockKey[seen[y].family]] = y
    BY <1>1, <1>2 DEF IInv, LockInv, Reader
  <1>4. LockKey[seen[y].family] \in Keys
    BY <1>1, <1>2, KeyOfFamily DEF IInv, TypeOK, Reader, Row
  <1>5. QED
    BY <1>2, <1>3, <1>4 DEF EndTx

\* A transaction that ends without committing leaves no trace.
LEMMA DiscardStep ==
  ASSUME IInv, NEW x \in Procs, EndTx(x), rows' = rows, burned' = burned,
         delivered' \subseteq Tokens, answer' \in [Procs -> Answers],
         \A y \in Procs \ {x} : answer'[y] = answer[y], answer'[x] # "conflict"
  PROVE  IInv'
  <1>1. TypeOK'
    <2>1. writes' \in [Procs -> [Tokens -> Row \cup {NoRow}]]
      BY DEF IInv, TypeOK, EndTx
    <2>2. lock' \in [Keys -> Procs \cup {NoProc}] /\ pc' \in [Procs -> PC]
      BY DEF IInv, TypeOK, EndTx, PC
    <2>3. QED
      BY <2>1, <2>2 DEF IInv, TypeOK, EndTx
  <1>2. \A y \in Procs \ {x} : Same(y)
    BY DEF IInv, TypeOK, EndTx, Same
  <1>3. pc'[x] = "idle" /\ \A t \in Tokens : writes'[x][t] = NoRow
    BY DEF IInv, TypeOK, EndTx
  <1>4. SeenOK(x)' /\ WritesOK(x)'
    BY <1>3 DEF SeenOK, WritesOK, Reader, Quiet
  <1>5. DisjointInv'
    BY <1>2, <1>3 DEF IInv, DisjointInv, Same
  <1>6. QED
    BY <1>1, <1>2, <1>4, <1>5, EndKeepsLocks, Assemble

\* Rolling back a refused rotation preserves the invariant.
LEMMA RollbackStep ==
  ASSUME IInv, NEW x \in Procs, Rollback(x)
  PROVE  IInv'
  <1>1. answer[x] = "lost" /\ answer' = answer /\ rows' = rows /\ EndTx(x)
    BY DEF Rollback, Tell, IInv, WritesInv, WritesOK
  <1>2. burned' = burned /\ delivered' = delivered
    BY <1>1 DEF Rollback, Tell, Burnt
  <1>3. QED
    BY <1>1, <1>2, DiscardStep DEF IInv, TypeOK

\* A failure at any statement preserves the invariant.
LEMMA FailStep ==
  ASSUME IInv, NEW x \in Procs, Fail(x)
  PROVE  IInv'
  <1>1. answer' \in [Procs -> Answers]
    BY DEF Fail, IInv, TypeOK, Answers
  <1>2. QED
    BY <1>1, DiscardStep DEF Fail, history, IInv, TypeOK

-----------------------------------------------------------------------------
(* What a commit does to the table.                                        *)

\* A family dies: some token of it had been spent, the live ones are revoked.
Burns(f) ==
    /\ \E p \in Members(f) : rows[p].revoked
    /\ \A t \in Tokens : rows'[t] =
          IF t \in LiveIn(rows, f) THEN [rows[t] EXCEPT !.revoked = TRUE] ELSE rows[t]

\* The live token p of family f is exchanged for n.
Rotates(p, n, f, now) ==
    /\ p \in LiveIn(rows, f) /\ n \in Tokens /\ rows[n] = NoRow
    /\ rows'[p] = [rows[p] EXCEPT !.revoked = TRUE, !.next = n]
    /\ rows'[n] = NewRow(rows[p].user, f, now)
    /\ \A t \in Tokens \ {p, n} : rows'[t] = rows[t]

\* The unused family f gets its first token.
Opens(n, u, f, now) ==
    /\ Members(f) = {} /\ n \in Tokens /\ rows[n] = NoRow
    /\ rows'[n] = NewRow(u, f, now)
    /\ \A t \in Tokens \ {n} : rows'[t] = rows[t]

\* Publishing the writes of x is one of the three, or changes nothing.
Publishes(x) ==
    \/ rows' = rows /\ Burnt(x) = {}
    \/ Reader(x) /\ Burns(seen[x].family) /\ Burnt(x) = {seen[x].family}
    \/ /\ Reader(x)
       /\ Rotates(req[x].token, fresh[x], seen[x].family, req[x].now)
       /\ Burnt(x) = {}
    \/ /\ \E f \in Families : Opens(fresh[x], req[x].scope, f, req[x].now)
       /\ Burnt(x) = {}

\* A transaction ready to commit publishes a burning, a rotation or a login
\* whole, or nothing at all.
LEMMA CommitEffect ==
  ASSUME IInv, NEW x \in Procs, pc[x] = "commit", rows' = View(x)
  PROVE  Publishes(x)
  <1>1. \A t \in Tokens :
          rows'[t] = IF writes[x][t] # NoRow THEN writes[x][t] ELSE rows[t]
    BY DEF View
  <1>2. rows \in [Tokens -> Row \cup {NoRow}]
    BY DEF IInv, TypeOK
  <1>3. CASE answer[x] = "invalid" /\ Quiet(x)
    <2>1. rows' = rows
      BY <1>2, <1>3 DEF View, Quiet
    <2>2. QED
      BY <1>3, <2>1 DEF Publishes, Burnt
  <1>4. CASE answer[x] = "reused" /\ Burning(x)
    <2>1. Reader(x)
      BY <1>4 DEF Reader, Burning
    <2>2. req[x].token \in Members(seen[x].family) /\ rows[req[x].token].revoked
      BY <1>4, <2>1, PresentedRow DEF IInv, SeenInv, SeenOK, Burning, Members
    <2>3. \A t \in Tokens : rows'[t] =
            IF t \in LiveIn(rows, seen[x].family)
            THEN [rows[t] EXCEPT !.revoked = TRUE] ELSE rows[t]
      <3>1. TAKE t \in Tokens
      <3>2. CASE t \in LiveIn(rows, seen[x].family)
        <4>1. rows[t] \in Row /\ writes[x][t] = [rows[t] EXCEPT !.revoked = TRUE]
          BY <1>2, <1>4, <3>2 DEF Burning, LiveIn
        <4>2. writes[x][t] # NoRow
          BY <4>1, RevokedRow, ConstantsAssumption
        <4>3. QED
          BY <1>1, <3>2, <4>1, <4>2
      <3>3. CASE t \notin LiveIn(rows, seen[x].family)
        BY <1>1, <1>4, <3>3 DEF Burning
      <3>4. QED
        BY <3>2, <3>3
    <2>4. QED
      BY <1>4, <2>1, <2>2, <2>3 DEF Publishes, Burns, Burnt
  <1>5. CASE answer[x] = "cookie" /\ Rotating(x)
    <2> DEFINE p == req[x].token
               n == fresh[x]
               v == [rows[p] EXCEPT !.revoked = TRUE, !.next = n]
               r == NewRow(seen[x].user, seen[x].family, req[x].now)
    <2>1. Reader(x)
      BY <1>5 DEF Reader, Rotating
    <2>2. /\ ~rows[p].revoked /\ writes[x][p] = v
          /\ n \in Tokens /\ rows[n] = NoRow /\ writes[x][n] = r
          /\ \A t \in Tokens \ {p, n} : writes[x][t] = NoRow
      BY <1>5 DEF Rotating, Inserting, OnlyWrites
    <2>3. /\ p \in Tokens /\ rows[p] \in Row /\ rows[p] # NoRow
          /\ rows[p].family = seen[x].family /\ rows[p].user = seen[x].user
          /\ seen[x].user \in Users /\ seen[x].family \in Families /\ req[x].now \in Nat
      BY <2>1, PresentedRow
    <2>4. v # NoRow /\ r # NoRow
      <3>1. v \in Row
        BY <2>2, <2>3, RotatedRow
      <3>2. r \in Row
        BY <2>3, InsertedRow
      <3>3. QED
        BY <3>1, <3>2, ConstantsAssumption
    <2>5. p \in LiveIn(rows, seen[x].family)
      BY <2>2, <2>3 DEF LiveIn
    <2> HIDE DEF v, r
    <2>6. rows'[p] = v /\ rows'[n] = r /\ \A t \in Tokens \ {p, n} : rows'[t] = rows[t]
      BY <1>1, <2>2, <2>3, <2>4
    <2>7. Rotates(p, n, seen[x].family, req[x].now)
      BY <2>2, <2>3, <2>5, <2>6 DEF Rotates, v, r
    <2>8. QED
      BY <1>5, <2>1, <2>7 DEF Publishes, Burnt
  <1>6. CASE answer[x] = "cookie" /\ Opening(x)
    <2>1. PICK f \in Families : Members(f) = {} /\ Inserting(x, req[x].scope, f)
      BY <1>6 DEF Opening
    <2> DEFINE n == fresh[x]
               r == NewRow(req[x].scope, f, req[x].now)
    <2>2. /\ n \in Tokens /\ rows[n] = NoRow /\ writes[x][n] = r
          /\ \A t \in Tokens \ {n} : writes[x][t] = NoRow
      BY <1>6, <2>1 DEF Opening, Inserting, OnlyWrites
    <2>3. r # NoRow
      BY InsertedRow, ConstantsAssumption DEF IInv, TypeOK, Request
    <2> HIDE DEF r
    <2>4. rows'[n] = r /\ \A t \in Tokens \ {n} : rows'[t] = rows[t]
      BY <1>1, <2>2, <2>3
    <2>5. Opens(n, req[x].scope, f, req[x].now)
      BY <2>1, <2>2, <2>4 DEF Opens, r
    <2>6. QED
      BY <1>6, <2>5 DEF Publishes, Burnt
  <1>7. QED
    BY <1>3, <1>4, <1>5, <1>6 DEF IInv, WritesInv, WritesOK

\* A burning keeps the table and the families in order.
LEMMA BurnsTable ==
  ASSUME IInv, NEW f \in Families, Burns(f), burned' = burned \cup {f}
  PROVE  TableInv' /\ FamilyInv'
  <1>1. \A t \in Tokens : rows[t] # NoRow =>
          /\ rows'[t] # NoRow
          /\ rows'[t].family = rows[t].family
          /\ rows'[t].user = rows[t].user
          /\ rows'[t].next = rows[t].next
          /\ rows'[t].revoked <=> rows[t].revoked \/ rows[t].family = f
    <2>1. TAKE t \in Tokens
    <2>2. HAVE rows[t] # NoRow
    <2>3. rows[t] \in Row
      BY <2>2 DEF IInv, TypeOK
    <2>4. CASE t \in LiveIn(rows, f)
      <3>1. rows'[t] = [rows[t] EXCEPT !.revoked = TRUE] /\ rows[t].family = f
        BY <2>4 DEF Burns, LiveIn
      <3>2. QED
        BY <2>3, <3>1, RevokedRow, ConstantsAssumption
    <2>5. CASE t \notin LiveIn(rows, f)
      BY <2>2, <2>5 DEF Burns, LiveIn
    <2>6. QED
      BY <2>4, <2>5
  <1>2. \A t \in Tokens : rows[t] = NoRow => rows'[t] = NoRow
    BY DEF Burns, LiveIn
  <1>3. TableInv'
    <2>1. ChainIsLinear'
      <3>1. SUFFICES ASSUME NEW t \in Tokens, rows'[t] # NoRow, rows'[t].next # NoToken
                     PROVE  /\ rows'[t].revoked
                            /\ rows'[rows'[t].next] # NoRow
                            /\ rows'[rows'[t].next].family = rows'[t].family
                            /\ rows'[rows'[t].next].user = rows'[t].user
                            /\ \A s \in Tokens : rows'[s] # NoRow
                                 /\ rows'[s].next = rows'[t].next => s = t
        BY DEF ChainIsLinear
      <3>2. rows[t] # NoRow /\ rows'[t].next = rows[t].next /\ rows[t] \in Row
        BY <1>1, <1>2, <3>1 DEF IInv, TypeOK
      <3>3. rows[t].next \in Tokens
        BY <3>1, <3>2 DEF Row
      <3>4. /\ rows[t].revoked
            /\ rows[rows[t].next] # NoRow
            /\ rows[rows[t].next].family = rows[t].family
            /\ rows[rows[t].next].user = rows[t].user
            /\ \A s \in Tokens : rows[s] # NoRow /\ rows[s].next = rows[t].next => s = t
        BY <3>1, <3>2 DEF IInv, TableInv, ChainIsLinear
      <3>5. \A s \in Tokens : rows'[s] # NoRow /\ rows'[s].next = rows[t].next => s = t
        BY <1>1, <1>2, <3>4
      <3>6. QED
        BY <1>1, <3>2, <3>3, <3>4, <3>5
    <2>2. QED
      BY <1>1, <1>2, <2>1 DEF IInv, TableInv
  <1>4. \A g \in Families : Members(g)' = Members(g)
    BY <1>1, <1>2 DEF Members
  <1>5. \A g \in Families : LiveIn(rows, g)' = IF g = f THEN {} ELSE LiveIn(rows, g)
    BY <1>1, <1>2 DEF LiveIn
  <1>6. Members(f) # {}
    BY DEF Burns
  <1>7. QED
    BY <1>3, <1>4, <1>5, <1>6 DEF IInv, TypeOK, FamilyInv, SessionNeverStranded

\* So does a rotation.
LEMMA RotatesTable ==
  ASSUME IInv, NEW p \in Tokens, NEW n \in Tokens, NEW f \in Families, NEW now \in Nat,
         Rotates(p, n, f, now), burned' = burned
  PROVE  TableInv' /\ FamilyInv'
  <1> DEFINE u == rows[p].user
  <1>1. /\ rows[p] \in Row /\ rows[p] # NoRow /\ rows[p].family = f /\ ~rows[p].revoked
        /\ u \in Users /\ rows[n] = NoRow /\ n # p /\ n # NoToken
    BY ConstantsAssumption DEF Rotates, LiveIn, IInv, TypeOK, Row
  <1>2. /\ rows'[p] # NoRow /\ rows'[p].family = f /\ rows'[p].user = u
        /\ rows'[p].next = n /\ rows'[p].revoked
    <2>1. rows'[p] = [rows[p] EXCEPT !.revoked = TRUE, !.next = n]
      BY DEF Rotates
    <2>2. rows'[p] \in Row /\ rows'[p].family = f /\ rows'[p].user = u
          /\ rows'[p].next = n /\ rows'[p].revoked
      BY <1>1, <2>1 DEF Row
    <2>3. QED
      BY <2>2, ConstantsAssumption
  <1>3. /\ rows'[n] # NoRow /\ rows'[n].family = f /\ rows'[n].user = u
        /\ rows'[n].next = NoToken /\ ~rows'[n].revoked
    <2>1. rows'[n] = NewRow(u, f, now)
      BY DEF Rotates
    <2>2. QED
      BY <1>1, <2>1, InsertedRow, ConstantsAssumption
  <1>4. \A t \in Tokens \ {p, n} : rows'[t] = rows[t]
    BY DEF Rotates
  <1>5. \A t \in Tokens : rows[t] # NoRow /\ rows[t].family = f =>
          rows[t].user = u /\ (t # p => rows[t].revoked)
    BY <1>1 DEF IInv, TableInv
  <1> HIDE DEF u
  <1>6. ChainIsLinear'
    <2>1. SUFFICES ASSUME NEW t \in Tokens, rows'[t] # NoRow, rows'[t].next # NoToken
                   PROVE  /\ rows'[t].revoked
                          /\ rows'[rows'[t].next] # NoRow
                          /\ rows'[rows'[t].next].family = rows'[t].family
                          /\ rows'[rows'[t].next].user = rows'[t].user
                          /\ \A s \in Tokens : rows'[s] # NoRow
                               /\ rows'[s].next = rows'[t].next => s = t
      BY DEF ChainIsLinear
    <2>2. \A s \in Tokens : rows[s] # NoRow => rows[s].next # n
      BY <1>1 DEF IInv, TableInv, ChainIsLinear
    <2>3. CASE t = p
      BY <1>1, <1>2, <1>3, <1>4, <2>2, <2>3
    <2>4. CASE t \notin {p, n}
      <3>1. rows'[t] = rows[t] /\ rows[t] \in Row /\ rows[t].next \in Tokens
        BY <1>4, <2>1, <2>4 DEF IInv, TypeOK, Row
      <3>2. /\ rows[t].revoked
            /\ rows[rows[t].next] # NoRow
            /\ rows[rows[t].next].family = rows[t].family
            /\ rows[rows[t].next].user = rows[t].user
            /\ \A s \in Tokens : rows[s] # NoRow /\ rows[s].next = rows[t].next => s = t
        BY <2>1, <3>1 DEF IInv, TableInv, ChainIsLinear
      <3>3. rows[t].next # n
        BY <1>1, <3>2
      <3>4. /\ rows'[rows[t].next] # NoRow
            /\ rows'[rows[t].next].family = rows[t].family
            /\ rows'[rows[t].next].user = rows[t].user
        BY <1>1, <1>2, <1>4, <3>1, <3>2, <3>3 DEF u
      <3>5. \A s \in Tokens : rows'[s] # NoRow /\ rows'[s].next = rows[t].next => s = t
        BY <1>2, <1>3, <1>4, <3>1, <3>2, <3>3, ConstantsAssumption
      <3>6. QED
        BY <3>1, <3>2, <3>4, <3>5
    <2>5. QED
      BY <1>3, <2>1, <2>3, <2>4
  <1>7. TableInv'
    <2>1. ASSUME NEW s \in Tokens, NEW t \in Tokens, rows'[s] # NoRow, rows'[t] # NoRow,
                 rows'[s].family = rows'[t].family
          PROVE  /\ rows'[s].user = rows'[t].user
                 /\ ~rows'[s].revoked /\ ~rows'[t].revoked => s = t
      <3>1. CASE s \in {p, n}
        BY <1>2, <1>3, <1>4, <1>5, <2>1, <3>1
      <3>2. CASE t \in {p, n}
        BY <1>2, <1>3, <1>4, <1>5, <2>1, <3>2
      <3>3. CASE s \notin {p, n} /\ t \notin {p, n}
        BY <1>4, <2>1, <3>3 DEF IInv, TableInv
      <3>4. QED
        BY <3>1, <3>2, <3>3
    <2>2. QED
      BY <1>6, <2>1 DEF TableInv
  <1>8. \A g \in Families : Members(g)' = IF g = f THEN Members(f) \cup {n} ELSE Members(g)
    BY <1>1, <1>2, <1>3, <1>4 DEF Members
  <1>9. \A g \in Families : LiveIn(rows, g)' = IF g = f THEN {n} ELSE LiveIn(rows, g)
    BY <1>1, <1>2, <1>3, <1>4, <1>5 DEF LiveIn
  <1>10. f \notin burned
    BY <1>1 DEF IInv, FamilyInv, LiveIn
  <1>11. QED
    BY <1>7, <1>8, <1>9, <1>10 DEF IInv, TypeOK, FamilyInv, SessionNeverStranded

\* And so does a login.
LEMMA OpensTable ==
  ASSUME IInv, NEW n \in Tokens, NEW u \in Users, NEW f \in Families, NEW now \in Nat,
         Opens(n, u, f, now), burned' = burned
  PROVE  TableInv' /\ FamilyInv'
  <1>1. /\ rows[n] = NoRow /\ n # NoToken
        /\ \A t \in Tokens : rows[t] # NoRow => rows[t].family # f
        /\ \A t \in Tokens \ {n} : rows'[t] = rows[t]
    BY ConstantsAssumption DEF Opens, Members
  <1>2. /\ rows'[n] # NoRow /\ rows'[n].family = f /\ rows'[n].user = u
        /\ rows'[n].next = NoToken /\ ~rows'[n].revoked
    <2>1. rows'[n] = NewRow(u, f, now)
      BY DEF Opens
    <2>2. QED
      BY <2>1, InsertedRow, ConstantsAssumption
  <1>3. ChainIsLinear'
    <2>1. SUFFICES ASSUME NEW t \in Tokens, rows'[t] # NoRow, rows'[t].next # NoToken
                   PROVE  /\ rows'[t].revoked
                          /\ rows'[rows'[t].next] # NoRow
                          /\ rows'[rows'[t].next].family = rows'[t].family
                          /\ rows'[rows'[t].next].user = rows'[t].user
                          /\ \A s \in Tokens : rows'[s] # NoRow
                               /\ rows'[s].next = rows'[t].next => s = t
      BY DEF ChainIsLinear
    <2>2. t # n /\ rows'[t] = rows[t] /\ rows[t] \in Row /\ rows[t].next \in Tokens
      BY <1>1, <1>2, <2>1 DEF IInv, TypeOK, Row
    <2>3. rows[t].next # n
      BY <1>1, <2>1, <2>2 DEF IInv, TableInv, ChainIsLinear
    <2>4. QED
      BY <1>1, <1>2, <2>1, <2>2, <2>3 DEF IInv, TableInv, ChainIsLinear
  <1>4. TableInv'
    BY <1>1, <1>2, <1>3 DEF IInv, TableInv
  <1>5. \A g \in Families : Members(g)' = IF g = f THEN {n} ELSE Members(g)
    BY <1>1, <1>2 DEF Members
  <1>6. \A g \in Families : LiveIn(rows, g)' = IF g = f THEN {n} ELSE LiveIn(rows, g)
    BY <1>1, <1>2 DEF LiveIn
  <1>7. f \notin burned
    BY <1>1 DEF IInv, FamilyInv, Members
  <1>8. QED
    BY <1>4, <1>5, <1>6, <1>7 DEF IInv, TypeOK, FamilyInv, SessionNeverStranded

\* A commit of x moves no row of a family another handler has locked.
LEMMA LockedFamilyUnmoved ==
  ASSUME IInv, NEW x \in Procs, NEW y \in Procs \ {x}, rows' = View(x),
         Reader(y), pc[y] \in Locked,
         NEW t \in Tokens,
         \/ rows[t] # NoRow /\ rows[t].family = seen[y].family
         \/ rows'[t] # NoRow /\ rows'[t].family = seen[y].family
  PROVE  rows'[t] = rows[t]
  <1>1. rows'[t] = IF writes[x][t] # NoRow THEN writes[x][t] ELSE rows[t]
    BY DEF View
  <1>2. ASSUME writes[x][t] # NoRow PROVE FALSE
    <2>1. writes[x][t].family # seen[y].family
      BY <1>2, Foreign
    <2>2. rows[t] # NoRow => writes[x][t].family = rows[t].family
      BY <1>2, WriterFacts
    <2>3. QED
      BY <1>1, <1>2, <2>1, <2>2
  <1>3. QED
    BY <1>1, <1>2

\* What a transaction knows and has written survives another one's commit.
LEMMA OthersSurviveCommit ==
  ASSUME IInv, NEW x \in Procs, NEW y \in Procs \ {x}, rows' = View(x), Same(y)
  PROVE  SeenOK(y)' /\ WritesOK(y)'
  <1>1. SeenOK(y) /\ WritesOK(y)
    BY DEF IInv, SeenInv, WritesInv
  <1>2. \A t \in Tokens :
          rows'[t] = IF writes[x][t] # NoRow THEN writes[x][t] ELSE rows[t]
    BY DEF View
  <1>3. SeenOK(y)'
    <2>1. ASSUME Reader(y)
          PROVE  /\ req[y].token \in Tokens
                 /\ rows'[req[y].token] # NoRow
                 /\ rows'[req[y].token].user = seen[y].user
                 /\ rows'[req[y].token].family = seen[y].family
                 /\ seen[y].revoked => rows'[req[y].token].revoked
                 /\ seen[y].user = req[y].scope
      <3> DEFINE p == req[y].token
      <3>1. /\ p \in Tokens /\ rows[p] # NoRow
            /\ rows[p].user = seen[y].user /\ rows[p].family = seen[y].family
            /\ seen[y].revoked => rows[p].revoked
            /\ seen[y].user = req[y].scope
        BY <1>1, <2>1 DEF SeenOK
      <3>2. writes[x][p] # NoRow =>
              /\ writes[x][p].user = rows[p].user
              /\ writes[x][p].family = rows[p].family
              /\ writes[x][p].revoked
        BY <3>1, WriterFacts
      <3>3. QED
        BY <1>2, <3>1, <3>2
    <2>2. QED
      BY <1>1, <2>1 DEF SeenOK, Reader, Same
  <1>4. ASSUME NEW t \in Tokens, writes[y][t] # NoRow
        PROVE  rows'[t] = rows[t]
    BY <1>2, <1>4 DEF IInv, DisjointInv
  <1>5. Quiet(y) => Quiet(y)'
    BY DEF Same, Quiet
  <1>6. /\ OnlyWrites(y, {req[y].token}) => OnlyWrites(y, {req[y].token})'
        /\ OnlyWrites(y, {fresh[y]}) => OnlyWrites(y, {fresh[y]})'
        /\ OnlyWrites(y, {req[y].token, fresh[y]})
              => OnlyWrites(y, {req[y].token, fresh[y]})'
    BY DEF Same, OnlyWrites
  <1>7. ASSUME NEW u \in Users, NEW f \in Families, Inserting(y, u, f)
        PROVE  Inserting(y, u, f)' /\ writes[y][fresh[y]] # NoRow
    <2>1. /\ fresh[y] \in Tokens /\ rows[fresh[y]] = NoRow
          /\ writes[y][fresh[y]] = NewRow(u, f, req[y].now)
      BY <1>7 DEF Inserting
    <2>2. writes[y][fresh[y]] # NoRow
      <3>1. req[y].now \in Nat
        BY DEF IInv, TypeOK, Request
      <3>2. QED
        BY <2>1, <3>1, InsertedRow, ConstantsAssumption
    <2>3. QED
      BY <1>4, <2>1, <2>2 DEF Inserting, Same, NewRow
  <1>8. ASSUME Reader(y), pc[y] \in Locked
        PROVE  /\ LiveIn(rows, seen[y].family)' = LiveIn(rows, seen[y].family)
               /\ \A t \in LiveIn(rows, seen[y].family) : rows'[t] = rows[t]
               /\ rows'[req[y].token] = rows[req[y].token]
    <2>1. \A t \in Tokens :
            (rows[t] # NoRow /\ rows[t].family = seen[y].family)
              \/ (rows'[t] # NoRow /\ rows'[t].family = seen[y].family)
            => rows'[t] = rows[t]
      BY <1>8, LockedFamilyUnmoved
    <2>2. seen'[y] = seen[y]
      BY DEF Same
    <2>3. QED
      BY <1>8, <2>1, <2>2, PresentedRow DEF LiveIn
  <1>9. Reader(y) /\ pc[y] \in Locked /\ Revoking(y) => Revoking(y)'
    BY <1>8 DEF Revoking, Same
  <1>10. pc[y] = "commit" /\ Burning(y) => Burning(y)'
    BY <1>8 DEF Burning, Same, Reader, Locked
  <1>11. pc[y] = "commit" /\ Rotating(y) => Rotating(y)'
    <2>1. HAVE pc[y] = "commit" /\ Rotating(y)
    <2>2. Reader(y) /\ pc[y] \in Locked
      BY <2>1 DEF Rotating, Reader, Locked
    <2>3. seen[y].user \in Users /\ seen[y].family \in Families
      BY <2>2, PresentedRow
    <2>4. Inserting(y, seen[y].user, seen[y].family)'
      BY <1>7, <2>1, <2>3 DEF Rotating, Inserting, Same
    <2>5. QED
      BY <1>6, <1>8, <2>1, <2>2, <2>4 DEF Rotating, Same
  <1>12. pc[y] = "commit" /\ Opening(y) => Opening(y)'
    <2>1. HAVE pc[y] = "commit" /\ Opening(y)
    <2>2. PICK f \in Families : Members(f) = {} /\ Inserting(y, req[y].scope, f)
      BY <2>1 DEF Opening
    <2>3. req[y].scope \in Users /\ req[y].now \in Nat
      BY DEF IInv, TypeOK, Request
    <2>4. Inserting(y, req[y].scope, f)' /\ writes[y][fresh[y]] # NoRow
      BY <1>7, <2>2, <2>3 DEF Same, Inserting
    <2>5. writes[y][fresh[y]].family = f /\ fresh[y] \in Tokens
      BY <2>2, <2>3, InsertedRow DEF Inserting
    <2>6. \A t \in Tokens : writes[x][t] # NoRow => writes[x][t].family # f
      BY <2>4, <2>5 DEF IInv, DisjointInv
    <2>7. Members(f)' = {}
      BY <1>2, <2>2, <2>6 DEF Members
    <2>8. QED
      BY <1>6, <2>1, <2>4, <2>7 DEF Opening, Same
  <1>13. WritesOK(y)'
    <2>1. /\ pc'[y] = pc[y] /\ answer'[y] = answer[y] /\ seen'[y] = seen[y]
          /\ targets'[y] = targets[y]
      BY DEF Same
    <2>2. CASE pc[y] \in {"idle", "login", "lookup", "lock", "decide", "rollback"}
      BY <1>1, <1>5, <2>1, <2>2 DEF WritesOK
    <2>3. CASE pc[y] \in {"revokeFamily", "insert", "point"}
      <3>1. Reader(y) /\ pc[y] \in Locked /\ seen[y].user \in Users
            /\ seen[y].family \in Families
        BY <1>1, <2>3, PresentedRow DEF SeenOK, Reader, Locked
      <3>2. pc[y] = "revokeFamily" =>
              seen[y].revoked /\ targets[y] = LiveIn(rows, seen[y].family)'
        BY <1>1, <1>8, <3>1 DEF WritesOK
      <3>3. pc[y] = "insert" => Revoking(y)' /\ OnlyWrites(y, {req[y].token})'
        BY <1>1, <1>6, <1>9, <3>1 DEF WritesOK
      <3>4. pc[y] = "point" =>
              /\ Revoking(y)'
              /\ Inserting(y, seen[y].user, seen[y].family)'
              /\ OnlyWrites(y, {req[y].token, fresh[y]})'
        <4>1. HAVE pc[y] = "point"
        <4>2. Inserting(y, seen[y].user, seen[y].family)
          BY <1>1, <4>1 DEF WritesOK
        <4>3. Inserting(y, seen[y].user, seen[y].family)'
          BY <1>7, <3>1, <4>2 DEF Inserting, Same
        <4>4. QED
          BY <1>1, <1>6, <1>9, <3>1, <4>1, <4>3 DEF WritesOK
      <3>5. QED
        BY <1>1, <1>5, <2>1, <2>3, <3>2, <3>3, <3>4 DEF WritesOK
    <2>4. CASE pc[y] = "commit"
      BY <1>1, <1>5, <1>10, <1>11, <1>12, <2>1, <2>4 DEF WritesOK
    <2>5. QED
      BY <2>2, <2>3, <2>4 DEF IInv, TypeOK, PC
  <1>14. QED
    BY <1>3, <1>13

\* What both kinds of commit do.
LEMMA CommitStep ==
  ASSUME IInv, NEW x \in Procs, Commit(x) \/ CommitUnheard(x)
  PROVE  IInv'
  <1>1. /\ pc[x] = "commit" /\ rows' = View(x) /\ EndTx(x)
        /\ burned' = burned \cup Burnt(x)
        /\ answer' \in [Procs -> Answers]
        /\ \A y \in Procs \ {x} : answer'[y] = answer[y]
        /\ answer'[x] # "conflict"
        /\ delivered' \subseteq
              delivered \cup (IF answer[x] = "cookie" THEN {fresh[x]} ELSE {})
    BY DEF Commit, CommitUnheard, Tell, IInv, TypeOK, Answers, IndexIsOnlyABackstop
  <1>2. Publishes(x)
    BY <1>1, CommitEffect
  <1>3. TypeOK'
    <2>1. rows' \in [Tokens -> Row \cup {NoRow}]
      BY <1>1 DEF IInv, TypeOK, View
    <2>2. writes' \in [Procs -> [Tokens -> Row \cup {NoRow}]]
      BY <1>1 DEF IInv, TypeOK, EndTx
    <2>3. lock' \in [Keys -> Procs \cup {NoProc}] /\ pc' \in [Procs -> PC]
      BY <1>1 DEF IInv, TypeOK, EndTx, PC
    <2>4. delivered' \subseteq Tokens
      BY <1>1 DEF IInv, TypeOK, WritesInv, WritesOK, Rotating, Opening, Inserting
    <2>5. burned' \subseteq Families
      BY <1>1, <1>2 DEF IInv, TypeOK, Publishes, Reader, Row
    <2>6. QED
      BY <1>1, <2>1, <2>2, <2>3, <2>4, <2>5 DEF IInv, TypeOK, EndTx
  <1>4. LockInv'
    BY <1>1, EndKeepsLocks
  <1>5. pc'[x] = "idle" /\ \A t \in Tokens : writes'[x][t] = NoRow
    BY <1>1 DEF IInv, TypeOK, EndTx
  <1>6. \A y \in Procs \ {x} : Same(y)
    BY <1>1 DEF IInv, TypeOK, EndTx, Same
  <1>7. SeenInv' /\ WritesInv'
    <2>1. SeenOK(x)' /\ WritesOK(x)'
      BY <1>5 DEF SeenOK, WritesOK, Reader, Quiet
    <2>2. \A y \in Procs \ {x} : SeenOK(y)' /\ WritesOK(y)'
      BY <1>1, <1>6, OthersSurviveCommit
    <2>3. QED
      BY <2>1, <2>2 DEF SeenInv, WritesInv
  <1>8. DisjointInv'
    BY <1>5, <1>6 DEF IInv, DisjointInv, Same
  <1>9. TableInv' /\ FamilyInv'
    <2>1. CASE rows' = rows /\ Burnt(x) = {}
      BY <1>1, <2>1 DEF IInv, TableInv, ChainIsLinear, FamilyInv, SessionNeverStranded,
                        Members, LiveIn
    <2>2. CASE Reader(x) /\ Burns(seen[x].family) /\ Burnt(x) = {seen[x].family}
      BY <1>1, <2>2, PresentedRow, BurnsTable
    <2>3. CASE /\ Reader(x)
               /\ Rotates(req[x].token, fresh[x], seen[x].family, req[x].now)
               /\ Burnt(x) = {}
      <3>1. fresh[x] \in Tokens
        BY <2>3 DEF Rotates
      <3>2. QED
        BY <1>1, <2>3, <3>1, PresentedRow, RotatesTable
    <2>4. CASE /\ \E f \in Families : Opens(fresh[x], req[x].scope, f, req[x].now)
               /\ Burnt(x) = {}
      <3>1. PICK f \in Families : Opens(fresh[x], req[x].scope, f, req[x].now)
        BY <2>4
      <3>2. fresh[x] \in Tokens /\ req[x].scope \in Users /\ req[x].now \in Nat
        BY <3>1 DEF Opens, IInv, TypeOK, Request
      <3>3. QED
        BY <1>1, <2>4, <3>1, <3>2, OpensTable
    <2>5. QED
      BY <1>2, <2>1, <2>2, <2>3, <2>4 DEF Publishes
  <1>10. IndexIsOnlyABackstop'
    BY <1>1 DEF IInv, IndexIsOnlyABackstop
  <1>11. QED
    BY <1>3, <1>4, <1>7, <1>8, <1>9, <1>10 DEF IInv

-----------------------------------------------------------------------------
(* The invariant.                                                          *)

\* The invariant holds of an empty table and idle handlers.
LEMMA InitIInv == Init => IInv
  <1> SUFFICES ASSUME Init PROVE IInv
    OBVIOUS
  <1>1. TypeOK
    <2>1. req \in [Procs -> Request]
      BY DEF Init, Request
    <2>2. QED
      BY <2>1, ConstantsAssumption DEF Init, TypeOK, PC, Answers
  <1>2. \A x \in Procs : pc[x] = "idle" /\ Quiet(x) /\ answer[x] = "none"
    BY DEF Init, Quiet
  <1>3. LockInv /\ SeenInv /\ WritesInv
    BY <1>2 DEF LockInv, SeenInv, SeenOK, WritesInv, WritesOK, Reader
  <1>4. DisjointInv /\ IndexIsOnlyABackstop
    BY <1>2 DEF DisjointInv, Quiet, IndexIsOnlyABackstop
  <1>5. TableInv /\ FamilyInv
    BY DEF Init, TableInv, ChainIsLinear, FamilyInv, SessionNeverStranded, Members
  <1>6. QED
    BY <1>1, <1>3, <1>4, <1>5 DEF IInv

\* A stutter, or the clock, touches nothing the invariant speaks of.
LEMMA ClockStep ==
  ASSUME IInv, Tick \/ UNCHANGED vars
  PROVE  IInv'
  <1>1. UNCHANGED <<session, local, history>> /\ clock' \in Nat
    BY DEF Tick, vars, IInv, TypeOK
  <1>2. \A x \in Procs : Same(x)
    BY <1>1 DEF session, local, history, Same
  <1>3. rows' = rows /\ lock' = lock /\ burned' = burned /\ delivered' = delivered
    BY <1>1 DEF session, history
  <1>4. SeenInv' /\ WritesInv'
    BY <1>2, <1>3, Frame DEF IInv, SeenInv, WritesInv
  <1>5. TypeOK' /\ LockInv' /\ DisjointInv' /\ IndexIsOnlyABackstop'
    BY <1>1 DEF session, local, history, IInv, TypeOK, LockInv, DisjointInv,
                IndexIsOnlyABackstop, Reader
  <1>6. TableInv' /\ FamilyInv'
    BY <1>3 DEF IInv, TableInv, ChainIsLinear, FamilyInv, SessionNeverStranded,
                Members, LiveIn
  <1>7. QED
    BY <1>4, <1>5, <1>6 DEF IInv

\* Every step keeps the invariant.
LEMMA NextIInv == IInv /\ [Next]_vars => IInv'
  <1> SUFFICES ASSUME IInv, [Next]_vars PROVE IInv'
    OBVIOUS
  <1>1. ASSUME NEW x \in Procs, NEW u \in Users, BeginLogin(x, u) PROVE IInv'
    BY <1>1, BeginStep DEF BeginLogin
  <1>2. ASSUME NEW x \in Procs, NEW u \in Users, NEW t \in Tokens \cup {NoToken},
               BeginRefresh(x, u, t)
        PROVE  IInv'
    BY <1>2, BeginStep DEF BeginRefresh
  <1>3. ASSUME NEW x \in Procs, Statement(x) PROVE IInv'
    BY <1>3, IssueStep, LookupStep, StartRevocationStep, FinishRevocationStep,
       ExpiredStep, RevokeIfLiveStep, InsertStep, PointStep, CommitStep, RollbackStep
       DEF Statement
  <1>4. QED
    BY <1>1, <1>2, <1>3, LockStep, FailStep, CommitStep, ClockStep DEF Next

\* IInv is an invariant of the specification.
THEOREM Invariance == Spec => []IInv
  BY InitIInv, NextIInv, PTL DEF Spec

\* Every variable keeps the values its comment promises.
THEOREM TypeCorrectness == Spec => []TypeOK
  <1>1. IInv => TypeOK
    BY DEF IInv
  <1>2. QED
    BY <1>1, Invariance, PTL

\* A family whose reuse was reported has no live token, ever again.
THEOREM ReuseKillsTheFamily == Spec => []BurnedFamilyIsDead
  <1>1. IInv => BurnedFamilyIsDead
    BY DEF IInv, FamilyInv, BurnedFamilyIsDead
  <1>2. QED
    BY <1>1, Invariance, PTL

\* A family whose reuse was never detected keeps exactly one live token.
THEOREM SessionsSurvive == Spec => []SessionNeverStranded
  <1>1. IInv => SessionNeverStranded
    BY DEF IInv, FamilyInv
  <1>2. QED
    BY <1>1, Invariance, PTL

\* The rotations of a family form one chain within one user.
THEOREM RotationsFormAChain == Spec => []ChainIsLinear
  <1>1. IInv => ChainIsLinear
    BY DEF IInv, TableInv
  <1>2. QED
    BY <1>1, Invariance, PTL

\* No rotation ever runs into the unique index.
THEOREM TheLockSuffices == Spec => []IndexIsOnlyABackstop
  <1>1. IInv => IndexIsOnlyABackstop
    BY DEF IInv
  <1>2. QED
    BY <1>1, Invariance, PTL

-----------------------------------------------------------------------------
(* What a step may do, and the abstract session.                           *)

\* Only a commit writes a committed row.
LEMMA OnlyCommitsWrite ==
  ASSUME [Next]_vars
  PROVE  rows' = rows \/ \E x \in Procs : Commit(x) \/ CommitUnheard(x)
  <1>1. ASSUME NEW x \in Procs, Statement(x)
        PROVE  rows' = rows \/ Commit(x)
    <2>1. \A t, f : IssueRefreshToken(x, t, f) \/ InsertRefreshToken(x, t) => rows' = rows
      BY DEF IssueRefreshToken, InsertRefreshToken
    <2>2. (\/ GetRefreshTokenByHash(x) \/ StartFamilyRevocation(x)
           \/ FinishFamilyRevocation(x) \/ RefuseExpired(x)) => rows' = rows
      BY DEF session, GetRefreshTokenByHash, StartFamilyRevocation,
             FinishFamilyRevocation, RefuseExpired
    <2>3. (\/ RevokeRefreshTokenIfLive(x) \/ SetRefreshTokenReplacedBy(x)
           \/ Rollback(x)) => rows' = rows
      BY DEF RevokeRefreshTokenIfLive, SetRefreshTokenReplacedBy, Rollback
    <2>4. CASE (\E t \in Tokens, f \in Families : IssueRefreshToken(x, t, f))
                 \/ \E t \in Tokens : InsertRefreshToken(x, t)
      BY <2>1, <2>4
    <2>5. CASE Commit(x)
      BY <2>5
    <2> QED  BY <1>1, <2>2, <2>3, <2>4, <2>5 DEF Statement
  <1>2. \A x \in Procs, u \in Users : BeginLogin(x, u) => rows' = rows
    BY DEF BeginLogin, Begin, session
  <1>3. \A x \in Procs, u \in Users, t \in Tokens \cup {NoToken} :
          BeginRefresh(x, u, t) => rows' = rows
    BY DEF BeginRefresh, Begin, session
  <1>4. \A x \in Procs : LockRefreshTokenFamily(x) \/ Fail(x) => rows' = rows
    BY DEF LockRefreshTokenFamily, Fail
  <1>5. Tick \/ UNCHANGED vars => rows' = rows
    BY DEF Tick, vars, session
  <1> QED  BY <1>1, <1>2, <1>3, <1>4, <1>5 DEF Next

\* No step undoes a revocation, changes a successor, or moves a row.
THEOREM TableOnlyAges == Spec => RowsOnlyAge
  <1> DEFINE Ages(t) ==
        /\ rows'[t] # NoRow
        /\ rows'[t].user = rows[t].user
        /\ rows'[t].family = rows[t].family
        /\ rows'[t].expires = rows[t].expires
        /\ rows[t].revoked => rows'[t].revoked
        /\ rows[t].next # NoToken => rows'[t].next = rows[t].next
  <1>1. ASSUME IInv, [Next]_vars, NEW t \in Tokens, rows[t] # NoRow
        PROVE  Ages(t)
    <2>1. CASE rows' = rows
      BY <1>1, <2>1
    <2>2. ASSUME NEW x \in Procs, Commit(x) \/ CommitUnheard(x) PROVE Ages(t)
      <3>1. rows'[t] = IF writes[x][t] # NoRow THEN writes[x][t] ELSE rows[t]
        BY <2>2 DEF Commit, CommitUnheard, View
      <3>2. rows[t].next # NoToken => rows[t].revoked
        BY <1>1 DEF IInv, TableInv, ChainIsLinear
      <3>3. QED
        BY <1>1, <3>1, <3>2, WriterFacts
    <2>3. QED
      BY <1>1, <2>1, <2>2, OnlyCommitsWrite
  <1>2. IInv /\ [Next]_vars =>
          [\A t \in Tokens : rows[t] # NoRow => Ages(t)]_rows
    BY <1>1
  <1>3. QED
    BY <1>2, Invariance, PTL DEF Spec, RowsOnlyAge

\* A transaction changes rows of the one user it was opened for.
THEOREM ScopeIsKept == Spec => ScopeIsolation
  <1> DEFINE Scoped(t) == \E x \in Procs :
        /\ pc[x] = "commit" /\ pc'[x] = "idle"
        /\ rows'[t].user = req[x].scope
  <1>1. ASSUME IInv, [Next]_vars, NEW t \in Tokens, rows'[t] # rows[t]
        PROVE  Scoped(t)
    <2>1. PICK x \in Procs : Commit(x) \/ CommitUnheard(x)
      BY <1>1, OnlyCommitsWrite
    <2>2. pc[x] = "commit" /\ rows' = View(x) /\ pc'[x] = "idle"
      BY <1>1, <2>1 DEF Commit, CommitUnheard, EndTx, IInv, TypeOK
    <2>3. Publishes(x)
      BY <1>1, <2>2, CommitEffect
    <2>4. CASE Reader(x) /\ Burns(seen[x].family)
      <3>1. t \in LiveIn(rows, seen[x].family) /\ rows[t] \in Row
            /\ rows'[t] = [rows[t] EXCEPT !.revoked = TRUE]
        BY <1>1, <2>4 DEF Burns, LiveIn, IInv, TypeOK
      <3>2. rows[t].user = req[x].scope
        BY <1>1, <2>4, <3>1, PresentedRow DEF LiveIn, IInv, TableInv
      <3>3. QED
        BY <2>2, <3>1, <3>2, RevokedRow
    <2>5. CASE Reader(x) /\ Rotates(req[x].token, fresh[x], seen[x].family, req[x].now)
      <3> DEFINE p == req[x].token
      <3>1. p \in Tokens /\ rows[p] \in Row /\ rows[p].user = req[x].scope
            /\ seen[x].family \in Families /\ req[x].now \in Nat /\ rows[p].user \in Users
        BY <1>1, <2>5, PresentedRow
      <3>2. CASE t = p
        <4>1. rows'[t] = [rows[t] EXCEPT !.revoked = TRUE, !.next = fresh[x]]
          BY <2>5, <3>2 DEF Rotates
        <4>2. QED
          BY <2>2, <3>1, <3>2, <4>1 DEF Row
      <3>3. CASE t = fresh[x]
        <4>1. rows'[t] = NewRow(rows[p].user, seen[x].family, req[x].now)
          BY <2>5, <3>3 DEF Rotates
        <4>2. QED
          BY <2>2, <3>1, <4>1, InsertedRow
      <3>4. QED
        BY <1>1, <2>5, <3>2, <3>3 DEF Rotates
    <2>6. ASSUME NEW f \in Families, Opens(fresh[x], req[x].scope, f, req[x].now)
          PROVE  Scoped(t)
      <3>1. t = fresh[x] /\ rows'[t] = NewRow(req[x].scope, f, req[x].now)
        BY <1>1, <2>6 DEF Opens
      <3>2. req[x].scope \in Users /\ req[x].now \in Nat
        BY <1>1 DEF IInv, TypeOK, Request
      <3>3. QED
        BY <2>2, <3>1, <3>2, InsertedRow
    <2>7. QED
      BY <1>1, <2>3, <2>4, <2>5, <2>6 DEF Publishes
  <1>2. IInv /\ [Next]_vars =>
          [\A t \in Tokens : rows'[t] # rows[t] => Scoped(t)]_rows
    BY <1>1
  <1>3. QED
    BY <1>2, Invariance, PTL DEF Spec, ScopeIsolation

abstractMembers == [f \in Families |-> Members(f)]

\* What TheOne picks from no token and from one.
LEMMA TheOneOf == TheOne({}) = NoToken /\ \A n : TheOne({n}) = n
  BY DEF TheOne

\* Where one token of a family is live, it is the abstract session's.
LEMMA CurrentToken ==
  ASSUME IInv, NEW f \in Families
  PROVE  \A p \in LiveIn(rows, f) : abstractCurrent[f] = p /\ p # NoToken
  <1>1. TAKE p \in LiveIn(rows, f)
  <1>2. LiveIn(rows, f) = {p}
    BY DEF LiveIn, IInv, TableInv
  <1>3. p # NoToken
    BY ConstantsAssumption DEF LiveIn
  <1>4. QED
    BY <1>2, <1>3, TheOneOf DEF abstractCurrent

\* The refinement mapping takes a burning to Kill, or to a stutter when the
\* family was dead already.
LEMMA BurnsKills ==
  ASSUME IInv, IInv', NEW f \in Families, Burns(f)
  PROVE  Abstract!Kill(f) \/ UNCHANGED <<abstractMembers, abstractCurrent>>
  <1>1. \A t \in Tokens : rows[t] # NoRow =>
          rows'[t] # NoRow /\ rows'[t].family = rows[t].family
          /\ (rows'[t].revoked <=> rows[t].revoked \/ rows[t].family = f)
    <2>1. TAKE t \in Tokens
    <2>2. HAVE rows[t] # NoRow
    <2>3. CASE t \in LiveIn(rows, f)
      <3>1. rows'[t] = [rows[t] EXCEPT !.revoked = TRUE] /\ rows[t] \in Row
        BY <2>3 DEF Burns, LiveIn, IInv, TypeOK
      <3>2. QED
        BY <2>3, <3>1, RevokedRow, ConstantsAssumption DEF LiveIn
    <2>4. CASE t \notin LiveIn(rows, f)
      BY <2>2, <2>4 DEF Burns, LiveIn
    <2>5. QED
      BY <2>3, <2>4
  <1>2. \A t \in Tokens : rows[t] = NoRow => rows'[t] = NoRow
    BY DEF Burns, LiveIn
  <1>3. \A g \in Families : Members(g)' = Members(g)
    BY <1>1, <1>2 DEF Members
  <1>4. abstractMembers' = abstractMembers
    BY <1>3 DEF abstractMembers
  <1>5. \A g \in Families : LiveIn(rows, g)' = IF g = f THEN {} ELSE LiveIn(rows, g)
    BY <1>1, <1>2 DEF LiveIn
  <1>6. CASE LiveIn(rows, f) = {}
    <2>1. \A g \in Families : LiveIn(rows, g)' = LiveIn(rows, g)
      BY <1>5, <1>6
    <2>2. abstractCurrent' = abstractCurrent
      BY <2>1 DEF abstractCurrent
    <2>3. QED
      BY <1>4, <2>2
  <1>7. CASE LiveIn(rows, f) # {}
    <2>1. PICK p \in LiveIn(rows, f) : TRUE
      BY <1>7
    <2>2. abstractCurrent[f] = p /\ p # NoToken
      BY <2>1, CurrentToken
    <2>3. PICK q \in Members(f) : rows[q].revoked
      BY DEF Burns
    <2>4. q # p
      BY <2>1, <2>3 DEF LiveIn
    <2>5. abstractCurrent' = [abstractCurrent EXCEPT ![f] = NoToken]
      BY <1>5, TheOneOf DEF abstractCurrent
    <2>6. Members(f) # {abstractCurrent[f]}
      BY <2>2, <2>3, <2>4
    <2>7. QED
      BY <1>4, <2>2, <2>5, <2>6 DEF Abstract!Kill, abstractMembers
  <1>8. QED
    BY <1>6, <1>7

\* What Issue asks for: a token nobody holds becomes the one of family f.
LEMMA IssuedAbstractly ==
  ASSUME NEW f \in Families, NEW n \in Tokens, rows[n] = NoRow,
         \A g \in Families : Members(g)' = IF g = f THEN Members(f) \cup {n} ELSE Members(g),
         \A g \in Families : LiveIn(rows, g)' = IF g = f THEN {n} ELSE LiveIn(rows, g)
  PROVE  Abstract!Issue(f, n)
  <1>1. n \notin Abstract!Issued
    BY DEF Abstract!Issued, Members
  <1>2. abstractMembers' = [abstractMembers EXCEPT ![f] = @ \cup {n}]
    BY DEF abstractMembers
  <1>3. abstractCurrent' = [abstractCurrent EXCEPT ![f] = n]
    BY TheOneOf DEF abstractCurrent
  <1>4. QED
    BY <1>1, <1>2, <1>3 DEF Abstract!Issue, abstractMembers

\* The commit of a rotation is the abstract Rotate.
LEMMA RotatesRotates ==
  ASSUME IInv, NEW p \in Tokens, NEW n \in Tokens, NEW f \in Families, NEW now \in Nat,
         Rotates(p, n, f, now)
  PROVE  Abstract!Rotate(f, n)
  <1>1. /\ rows[p] \in Row /\ rows[p] # NoRow /\ rows[p].family = f /\ ~rows[p].revoked
        /\ rows[p].user \in Users /\ rows[n] = NoRow /\ n # p
    BY DEF Rotates, LiveIn, IInv, TypeOK, Row
  <1>2. rows'[p] # NoRow /\ rows'[p].family = f /\ rows'[p].revoked
    <2>1. rows'[p] = [rows[p] EXCEPT !.revoked = TRUE, !.next = n]
      BY DEF Rotates
    <2>2. rows'[p] \in Row /\ rows'[p].family = f /\ rows'[p].revoked
      BY <1>1, <2>1 DEF Row
    <2>3. QED
      BY <2>2, ConstantsAssumption
  <1>3. rows'[n] # NoRow /\ rows'[n].family = f /\ ~rows'[n].revoked
    <2>1. rows'[n] = NewRow(rows[p].user, f, now)
      BY DEF Rotates
    <2>2. QED
      BY <1>1, <2>1, InsertedRow, ConstantsAssumption
  <1>4. \A t \in Tokens \ {p, n} : rows'[t] = rows[t]
    BY DEF Rotates
  <1>5. \A t \in Tokens : rows[t] # NoRow /\ rows[t].family = f /\ t # p => rows[t].revoked
    BY <1>1 DEF IInv, TableInv
  <1>6. \A g \in Families : Members(g)' = IF g = f THEN Members(f) \cup {n} ELSE Members(g)
    BY <1>1, <1>2, <1>3, <1>4 DEF Members
  <1>7. \A g \in Families : LiveIn(rows, g)' = IF g = f THEN {n} ELSE LiveIn(rows, g)
    BY <1>1, <1>2, <1>3, <1>4, <1>5 DEF LiveIn
  <1>8. abstractCurrent[f] # NoToken
    BY CurrentToken DEF Rotates
  <1>9. QED
    BY <1>1, <1>6, <1>7, <1>8, IssuedAbstractly DEF Abstract!Rotate

\* The commit of a login is the abstract Open.
LEMMA OpensOpens ==
  ASSUME IInv, NEW n \in Tokens, NEW u \in Users, NEW f \in Families, NEW now \in Nat,
         Opens(n, u, f, now)
  PROVE  Abstract!Open(f, n)
  <1>1. /\ rows[n] = NoRow
        /\ \A t \in Tokens : rows[t] # NoRow => rows[t].family # f
        /\ \A t \in Tokens \ {n} : rows'[t] = rows[t]
    BY DEF Opens, Members
  <1>2. rows'[n] # NoRow /\ rows'[n].family = f /\ ~rows'[n].revoked
    <2>1. rows'[n] = NewRow(u, f, now)
      BY DEF Opens
    <2>2. QED
      BY <2>1, InsertedRow, ConstantsAssumption
  <1>3. \A g \in Families : Members(g)' = IF g = f THEN Members(f) \cup {n} ELSE Members(g)
    BY <1>1, <1>2 DEF Members
  <1>4. \A g \in Families : LiveIn(rows, g)' = IF g = f THEN {n} ELSE LiveIn(rows, g)
    BY <1>1, <1>2 DEF LiveIn
  <1>5. Members(f) = {}
    BY DEF Opens
  <1>6. QED
    BY <1>1, <1>3, <1>4, <1>5, IssuedAbstractly DEF Abstract!Open

\* Rotation over the table implements the abstract session.
THEOREM RotationImplementsSession == Spec => ImplementsSessionFamily
  <1>1. Init => Abstract!Init
    <2>1. SUFFICES ASSUME Init PROVE Abstract!Init
      OBVIOUS
    <2>2. \A f \in Families : Members(f) = {} /\ LiveIn(rows, f) = {}
      BY <2>1 DEF Init, Members, LiveIn
    <2>3. QED
      BY <2>2, TheOneOf DEF Abstract!Init, abstractCurrent
  <1>2. ASSUME IInv, IInv', [Next]_vars
        PROVE  [Abstract!Next]_(Abstract!vars)
    <2>1. CASE rows' = rows
      BY <2>1 DEF Abstract!vars, abstractCurrent, Members, LiveIn
    <2>2. ASSUME NEW x \in Procs, Commit(x) \/ CommitUnheard(x)
          PROVE  [Abstract!Next]_(Abstract!vars)
      <3>1. pc[x] = "commit" /\ rows' = View(x)
        BY <2>2 DEF Commit, CommitUnheard
      <3>2. Publishes(x)
        BY <1>2, <3>1, CommitEffect
      <3>3. CASE Reader(x) /\ Burns(seen[x].family)
        BY <1>2, <3>3, PresentedRow, BurnsKills
           DEF Abstract!Next, Abstract!vars, abstractMembers
      <3>4. CASE Reader(x) /\ Rotates(req[x].token, fresh[x], seen[x].family, req[x].now)
        <4>1. fresh[x] \in Tokens
          BY <3>4 DEF Rotates
        <4>2. seen[x].family \in Families
              /\ Abstract!Rotate(seen[x].family, fresh[x])
          BY <1>2, <3>4, <4>1, PresentedRow, RotatesRotates
        <4>3. QED
          BY <4>1, <4>2 DEF Abstract!Next
      <3>5. ASSUME NEW f \in Families, Opens(fresh[x], req[x].scope, f, req[x].now)
            PROVE  Abstract!Next
        <4>1. fresh[x] \in Tokens /\ req[x].scope \in Users /\ req[x].now \in Nat
          BY <1>2, <3>5 DEF Opens, IInv, TypeOK, Request
        <4>2. QED
          BY <1>2, <3>5, <4>1, OpensOpens DEF Abstract!Next
      <3>6. QED
        BY <2>1, <3>2, <3>3, <3>4, <3>5 DEF Publishes
    <2>3. QED
      BY <1>2, <2>1, <2>2, OnlyCommitsWrite
  <1>3. QED
    BY <1>1, <1>2, Invariance, PTL DEF Spec, ImplementsSessionFamily, Abstract!Spec
=============================================================================
