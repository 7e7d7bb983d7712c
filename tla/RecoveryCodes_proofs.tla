-------------------------- MODULE RecoveryCodes_proofs --------------------------
(***************************************************************************)
(* Proofs of the properties of RecoveryCodes, for any handlers, users and  *)
(* codes.  The invariants of the runs speak of committed rows; what makes  *)
(* them inductive is what each handler's own uncommitted rows may be, and  *)
(* that no two handlers have one of the same code.  Last, the other second *)
(* factor: when a TOTP code passes.                                        *)
(***************************************************************************)
EXTENDS RecoveryCodes, TotpCodes, FiniteSetTheorems, TLAPS

\* The row a regeneration inserts for a code, and the one a redemption leaves.
Fresh(x)  == [user |-> scope[x], used |-> FALSE]
Redeemed(c) == [rows[c] EXCEPT !.used = TRUE]

\* A committed row that x's user owns.
Own(x, c) == rows[c] # NoRow /\ rows[c].user = scope[x]

\* A regeneration has a set nobody else has, a redemption a code.
HandlerOK(x) ==
    /\ pc[x] \in {"check", "delete", "deleting", "insert"} => code[x] = NoCode
    /\ pc[x] \in {"delete", "deleting", "insert"} => batch[x] # {}
    /\ pc[x] = "commit" /\ code[x] = NoCode => batch[x] # {}
    /\ pc[x] = "idle" => batch[x] = {} /\ code[x] = NoCode
    /\ pc[x] = "redeem" => batch[x] = {}
    /\ code[x] # NoCode => batch[x] = {}
    /\ pc[x] # "idle" => scope[x] \in Users
    /\ Cardinality(batch[x]) \in {0, SetSize}
    /\ batch[x] \cap issued = {}

\* What the uncommitted rows of a handler are at each of its statements.
WritesOK(x) ==
    /\ pc[x] \notin {"insert", "commit"} => \A c \in Codes : writes[x][c] = Untouched
    /\ pc[x] = "insert" \/ (pc[x] = "commit" /\ code[x] = NoCode) =>
         \A c \in Codes :
           /\ c \in batch[x] => writes[x][c] \in {Untouched, Fresh(x)}
           /\ c \notin batch[x] => writes[x][c] = Untouched
                                     \/ (writes[x][c] = NoRow /\ Own(x, c))
    /\ pc[x] = "commit" /\ code[x] = NoCode =>
         \A c \in batch[x] : writes[x][c] # Untouched
    /\ pc[x] = "commit" /\ code[x] # NoCode =>
         /\ Own(x, code[x]) /\ ~rows[code[x]].used
         /\ writes[x][code[x]] = Redeemed(code[x])
         /\ \A c \in Codes \ {code[x]} : writes[x][c] = Untouched

\* The codes its user had when it began are gone, or on their way out.
BeforeOK(x) ==
    \A c \in before[x] :
      /\ c \in issued
      /\ pc[x] \in {"check", "delete"} => rows[c] = NoRow \/ Own(x, c)
      /\ pc[x] = "deleting" => rows[c] = NoRow \/ c \in targets[x]
      /\ pc[x] = "insert" \/ (pc[x] = "commit" /\ code[x] = NoCode) =>
           rows[c] = NoRow \/ writes[x][c] = NoRow

TargetsOK(x) ==
    \A c \in targets[x] :
      /\ c \in issued
      /\ pc[x] = "deleting" => rows[c] = NoRow \/ Own(x, c)

\* No two handlers touch one code.
Apart ==
    \A x, y \in Procs : x # y =>
      /\ batch[x] \cap batch[y] = {}
      /\ \A c \in Codes : writes[x][c] = Untouched \/ writes[y][c] = Untouched

RowsOK ==
    \A c \in Codes :
      /\ rows[c] # NoRow => c \in issued
      /\ spent[c] \in {0, 1}
      /\ spent[c] = 1 => c \in issued /\ (rows[c] = NoRow \/ rows[c].used)
      /\ c \in dead => rows[c] = NoRow

IInv ==
    /\ TypeOK
    /\ \A x \in Procs : HandlerOK(x) /\ WritesOK(x) /\ BeforeOK(x) /\ TargetsOK(x)
    /\ Apart
    /\ RowsOK
    /\ SetNeverShort


\* A redemption marks a code's row and keeps its owner (recovery.go 181-197).
LEMMA RedeemedRow ==
    ASSUME NEW r \in Row
    PROVE  /\ [r EXCEPT !.used = TRUE] \in Row
           /\ [r EXCEPT !.used = TRUE].user = r.user
           /\ [r EXCEPT !.used = TRUE].used
BY DEF Row

-----------------------------------------------------------------------------
(* Steps that commit nothing.                                              *)

Same(y) ==
    /\ pc'[y] = pc[y] /\ scope'[y] = scope[y] /\ code'[y] = code[y]
    /\ batch'[y] = batch[y] /\ targets'[y] = targets[y] /\ before'[y] = before[y]
    /\ writes'[y] = writes[y]

\* What a step of one handler owes the invariant when nothing is committed:
\* the others are as they were (recovery.go 118-197).
LEMMA LocalStep ==
    ASSUME IInv, TypeOK', NEW x \in Procs, \A y \in Procs \ {x} : Same(y),
           UNCHANGED <<rows, history>>,
           HandlerOK(x)', WritesOK(x)', BeforeOK(x)', TargetsOK(x)',
           \A y \in Procs \ {x} : batch'[x] \cap batch[y] = {},
           \A y \in Procs \ {x}, c \in Codes :
              writes'[x][c] = Untouched \/ writes[y][c] = Untouched
    PROVE  IInv'
<1>1. \A y \in Procs : (HandlerOK(y) /\ WritesOK(y) /\ BeforeOK(y) /\ TargetsOK(y))'
  <2> TAKE y \in Procs
  <2>1. CASE y = x
    BY <2>1
  <2>2. CASE y # x
    <3>1. Same(y) /\ rows' = rows /\ issued' = issued
      BY <2>2 DEF history
    <3>2. HandlerOK(y)'
      BY <3>1 DEF IInv, HandlerOK, Same
    <3>3. WritesOK(y)'
      <4>1. /\ Fresh(y)' = Fresh(y)
            /\ \A c : Redeemed(c)' = Redeemed(c) /\ (Own(y, c)' <=> Own(y, c))
        BY <3>1 DEF Same, Own, Fresh, Redeemed
      <4> QED  BY <3>1, <4>1 DEF IInv, WritesOK, Same
    <3>4. BeforeOK(y)'
      BY <3>1 DEF IInv, BeforeOK, Same, Own
    <3>5. TargetsOK(y)'
      BY <3>1 DEF IInv, TargetsOK, Same, Own
    <3> QED  BY <3>2, <3>3, <3>4, <3>5
  <2> QED  BY <2>1, <2>2
<1>2. Apart'
  <2> SUFFICES ASSUME NEW y \in Procs, NEW z \in Procs, y # z
               PROVE  /\ batch'[y] \cap batch'[z] = {}
                      /\ \A c \in Codes : writes'[y][c] = Untouched \/ writes'[z][c] = Untouched
    BY DEF Apart
  <2>1. CASE y # x /\ z # x
    BY <2>1 DEF IInv, Apart, Same
  <2>2. CASE y = x
    BY <2>2 DEF Same
  <2>3. CASE z = x
    BY <2>3 DEF Same
  <2> QED  BY <2>1, <2>2, <2>3
<1>3. RowsOK' /\ SetNeverShort'
  BY DEF IInv, RowsOK, SetNeverShort, CodesOf, history
<1> QED  BY <1>1, <1>2, <1>3 DEF IInv

\* What handler x had written stays written by it alone.
LEMMA OwnWritesApart ==
    ASSUME IInv, NEW x \in Procs, writes' = writes
    PROVE  \A y \in Procs \ {x}, c \in Codes :
              writes'[x][c] = Untouched \/ writes[y][c] = Untouched
BY DEF IInv, Apart

\* A handler that opens a transaction has written nothing (auth.go 43-75).
LEMMA BeginKeeps ==
    ASSUME ConstantsAssumption, IInv, NEW x \in Procs, NEW u \in Users,
           \/ \E drawn \in SUBSET Undrawn : BeginRegenerate(x, u, drawn)
           \/ \E c \in Codes \cup {NoCode} : BeginRedeem(x, u, c)
    PROVE  IInv'
<1>1. pc[x] = "idle" /\ batch[x] = {} /\ code[x] = NoCode
  BY DEF BeginRegenerate, BeginRedeem, Begin, IInv, HandlerOK
<1>2. \A c \in Codes : writes[x][c] = Untouched
  BY <1>1 DEF IInv, WritesOK
<1>3. UNCHANGED <<rows, writes, targets, history>> /\ scope' = [scope EXCEPT ![x] = u]
  BY DEF BeginRegenerate, BeginRedeem, Begin
<1>4. CASE \E drawn \in SUBSET Undrawn : BeginRegenerate(x, u, drawn)
  <2> PICK drawn \in SUBSET Undrawn : BeginRegenerate(x, u, drawn)
    BY <1>4
  <2> USE DEF BeginRegenerate, Begin
  <2>0. drawn \subseteq Codes /\ drawn \cap issued = {}
        /\ \A y \in Procs : drawn \cap batch[y] = {}
    BY DEF Undrawn
  <2>1. TypeOK'
    BY <2>0 DEF IInv, TypeOK, CodesOf, history
  <2>2. \A y \in Procs \ {x} : Same(y)
    BY DEF IInv, TypeOK, Same
  <2>3. /\ pc'[x] = "check" /\ scope'[x] = u /\ code'[x] = NoCode /\ batch'[x] = drawn
        /\ before'[x] = CodesOf(u) /\ targets'[x] = targets[x] /\ writes'[x] = writes[x]
    BY <1>1 DEF IInv, TypeOK
  <2>4. HandlerOK(x)'
    BY <2>0, <2>3, <1>3 DEF HandlerOK, history
  <2>5. WritesOK(x)'
    BY <1>2, <2>3 DEF WritesOK
  <2>6. BeforeOK(x)'
    BY <1>3, <2>3 DEF BeforeOK, CodesOf, Own, IInv, RowsOK, history
  <2>7. TargetsOK(x)'
    BY <1>3, <2>3 DEF TargetsOK, IInv, history
  <2>8. \A y \in Procs \ {x} : batch'[x] \cap batch[y] = {}
    BY <2>0, <2>3
  <2> QED  BY <1>3, <2>1, <2>2, <2>4, <2>5, <2>6, <2>7, <2>8, OwnWritesApart, LocalStep
<1>5. CASE \E c \in Codes \cup {NoCode} : BeginRedeem(x, u, c)
  <2> PICK c \in Codes \cup {NoCode} : BeginRedeem(x, u, c)
    BY <1>5
  <2> USE DEF BeginRedeem, Begin
  <2>1. TypeOK'
    BY DEF IInv, TypeOK, history
  <2>2. \A y \in Procs \ {x} : Same(y)
    BY DEF IInv, TypeOK, Same
  <2>3. /\ pc'[x] = "redeem" /\ scope'[x] = u /\ batch'[x] = {} /\ before'[x] = before[x]
        /\ targets'[x] = targets[x] /\ writes'[x] = writes[x]
    BY <1>1 DEF IInv, TypeOK
  <2>4. HandlerOK(x)'
    BY <1>1, <1>3, <2>3 DEF HandlerOK, IInv, history
  <2>5. WritesOK(x)'
    BY <1>2, <2>3 DEF WritesOK
  <2>6. BeforeOK(x)'
    BY <1>3, <2>3 DEF BeforeOK, IInv, history
  <2>7. TargetsOK(x)'
    BY <1>3, <2>3 DEF TargetsOK, IInv, history
  <2> QED  BY <1>3, <2>1, <2>2, <2>3, <2>4, <2>5, <2>6, <2>7, OwnWritesApart, LocalStep
<1> QED  BY <1>4, <1>5

-----------------------------------------------------------------------------
(* The statements of a regeneration.                                       *)

\* An empty set is turned away before anything is deleted (recovery.go 140).
LEMMA CheckKeeps ==
    ASSUME ConstantsAssumption, IInv, NEW x \in Procs, CheckSet(x)
    PROVE  IInv'
<1> USE DEF CheckSet
<1>1. TypeOK'
  BY DEF IInv, TypeOK, history
<1>2. /\ pc'[x] = (IF batch[x] # {} THEN "delete" ELSE "rollback")
      /\ writes' = writes /\ rows' = rows
      /\ \A y \in Procs \ {x} : Same(y)
  BY DEF IInv, TypeOK, Same
<1>3. HandlerOK(x)' /\ WritesOK(x)'
  BY <1>2 DEF HandlerOK, WritesOK, IInv, history
<1>4. BeforeOK(x)' /\ TargetsOK(x)'
  BY <1>2 DEF BeforeOK, TargetsOK, Own, IInv, history
<1>5. \A y \in Procs \ {x} : batch'[x] \cap batch[y] = {}
  BY DEF IInv, Apart
<1> QED  BY <1>1, <1>2, <1>3, <1>4, <1>5, OwnWritesApart, LocalStep

\* Before it writes, a handler sees the committed rows (recovery.go 145-149).
LEMMA StartDeleteKeeps ==
    ASSUME ConstantsAssumption, IInv, NEW x \in Procs, StartDelete(x)
    PROVE  IInv'
<1> USE DEF StartDelete
<1>1. \A c \in Codes : writes[x][c] = Untouched /\ View(x)[c] = rows[c]
  BY DEF IInv, WritesOK, View
<1>2. TypeOK'
  BY DEF IInv, TypeOK, history
<1>3. /\ pc'[x] = "deleting" /\ writes' = writes /\ rows' = rows /\ before' = before
      /\ scope' = scope /\ issued' = issued
      /\ targets'[x] = {c \in Codes : Visible(x, rows[c])}
      /\ \A y \in Procs \ {x} : Same(y)
  BY <1>1 DEF IInv, TypeOK, Same, history
<1>4. HandlerOK(x)' /\ WritesOK(x)'
  BY <1>1, <1>3 DEF HandlerOK, WritesOK, IInv, history
<1>5. BeforeOK(x)'
  <2>1. before[x] \subseteq Codes
    BY DEF IInv, TypeOK
  <2> QED  BY <1>3, <2>1 DEF BeforeOK, Own, IInv, Visible
<1>6. TargetsOK(x)'
  BY <1>3 DEF TargetsOK, Visible, Own, IInv, RowsOK
<1>7. \A y \in Procs \ {x} : batch'[x] \cap batch[y] = {}
  BY DEF IInv, Apart
<1> QED  BY <1>2, <1>3, <1>4, <1>5, <1>6, <1>7, OwnWritesApart, LocalStep

\* A code is deleted only if its row is still there, is the user's, and nobody
\* else has written it (auth.sql DeleteRecoveryCodesForUser).
LEMMA FinishDeleteKeeps ==
    ASSUME ConstantsAssumption, IInv, NEW x \in Procs, FinishDelete(x)
    PROVE  IInv'
<1> USE DEF FinishDelete
<1>1. \A c \in Codes : writes[x][c] = Untouched /\ View(x)[c] = rows[c]
  BY DEF IInv, WritesOK, View
<1>2. TypeOK'
  BY <1>1 DEF IInv, TypeOK, history
<1>3. /\ pc'[x] = "insert" /\ rows' = rows /\ before' = before /\ targets' = targets
      /\ scope' = scope /\ issued' = issued /\ batch' = batch /\ code' = code
      /\ \A c \in Codes : writes'[x][c] = IF c \in targets[x] /\ rows[c] # NoRow
                                          THEN NoRow ELSE Untouched
      /\ \A y \in Procs \ {x} : Same(y)
  BY <1>1 DEF IInv, TypeOK, Same, history
<1>4. HandlerOK(x)'
  BY <1>3 DEF HandlerOK, IInv
<1>5. WritesOK(x)'
  BY <1>3 DEF WritesOK, HandlerOK, TargetsOK, Own, Fresh, IInv
<1>6. BeforeOK(x)'
  <2>1. before[x] \subseteq Codes
    BY DEF IInv, TypeOK
  <2> QED  BY <1>3, <2>1 DEF BeforeOK, IInv
<1>7. TargetsOK(x)'
  BY <1>3 DEF TargetsOK, IInv
<1>8. /\ \A y \in Procs \ {x} : batch'[x] \cap batch[y] = {}
      /\ \A y \in Procs \ {x}, c \in Codes :
            writes'[x][c] = Untouched \/ writes[y][c] = Untouched
  BY <1>3 DEF IInv, Apart, LockedByOther
<1> QED  BY <1>2, <1>3, <1>4, <1>5, <1>6, <1>7, <1>8, LocalStep

\* A new code is nobody else's, so nobody else has written its row
\* (recovery.go 151-167).
LEMMA InsertKeeps ==
    ASSUME ConstantsAssumption, IInv, NEW x \in Procs, NEW c \in Codes,
           InsertRecoveryCode(x, c)
    PROVE  IInv'
<1> USE DEF InsertRecoveryCode
<1>1. Fresh(x) \in Row
  BY DEF IInv, HandlerOK, Fresh, Row
<1>2. TypeOK'
  BY <1>1 DEF IInv, TypeOK, history, Fresh
<1>3. /\ pc' = pc /\ rows' = rows /\ before' = before /\ targets' = targets
      /\ scope' = scope /\ issued' = issued /\ batch' = batch /\ code' = code
      /\ writes'[x][c] = Fresh(x)
      /\ \A d \in Codes \ {c} : writes'[x][d] = writes[x][d]
      /\ \A y \in Procs \ {x} : Same(y)
  BY DEF IInv, TypeOK, Same, history, Fresh
<1>4. HandlerOK(x)'
  BY <1>3 DEF HandlerOK, IInv
<1>5. WritesOK(x)'
  BY <1>3 DEF WritesOK, Own, Fresh, IInv
<1>6. c \notin issued /\ rows[c] = NoRow
  BY DEF IInv, HandlerOK, RowsOK
<1>7. BeforeOK(x)'
  <2>1. before[x] \subseteq Codes
    BY DEF IInv, TypeOK
  <2> QED  BY <1>3, <1>6, <2>1 DEF BeforeOK, IInv
<1>8. TargetsOK(x)'
  BY <1>3 DEF TargetsOK, Own, IInv
<1>9. \A y \in Procs \ {x} : writes[y][c] = Untouched
  <2> TAKE y \in Procs \ {x}
  <2>1. c \notin batch[y] /\ ~Own(y, c)
    BY <1>6 DEF IInv, Apart, Own
  <2>2. pc[y] = "commit" /\ code[y] # NoCode => c # code[y]
    BY <2>1 DEF IInv, WritesOK
  <2> QED  BY <2>1, <2>2 DEF IInv, WritesOK
<1>10. /\ \A y \in Procs \ {x} : batch'[x] \cap batch[y] = {}
       /\ \A y \in Procs \ {x}, d \in Codes :
             writes'[x][d] = Untouched \/ writes[y][d] = Untouched
  BY <1>3, <1>9 DEF IInv, Apart
<1> QED  BY <1>2, <1>3, <1>4, <1>5, <1>7, <1>8, <1>10, LocalStep

\* The callback returns after the last code (recovery.go 167-170).
LEMMA FinishSetKeeps ==
    ASSUME ConstantsAssumption, IInv, NEW x \in Procs, FinishSet(x)
    PROVE  IInv'
<1> USE DEF FinishSet
<1>1. TypeOK'
  BY DEF IInv, TypeOK, history
<1>2. /\ pc'[x] = "commit" /\ writes' = writes /\ rows' = rows /\ before' = before
      /\ targets' = targets /\ scope' = scope /\ issued' = issued /\ batch' = batch
      /\ code' = code /\ \A y \in Procs \ {x} : Same(y)
  BY DEF IInv, TypeOK, Same, history
<1>3. code[x] = NoCode /\ HandlerOK(x)'
  BY <1>2 DEF HandlerOK, IInv
<1>4. WritesOK(x)'
  BY <1>2, <1>3 DEF WritesOK, Own, Fresh, IInv
<1>5. BeforeOK(x)' /\ TargetsOK(x)'
  BY <1>2 DEF BeforeOK, TargetsOK, Own, IInv
<1>6. \A y \in Procs \ {x} : batch'[x] \cap batch[y] = {}
  BY DEF IInv, Apart
<1> QED  BY <1>1, <1>2, <1>3, <1>4, <1>5, <1>6, OwnWritesApart, LocalStep

-----------------------------------------------------------------------------
(* A redemption, and a transaction that comes to nothing.                  *)

\* The row is tested and written at once, when nobody else has written it
\* (recovery.go 181-197).
LEMMA RedeemKeeps ==
    ASSUME ConstantsAssumption, IInv, NEW x \in Procs, RedeemRecoveryCode(x)
    PROVE  IInv'
<1> USE DEF RedeemRecoveryCode
<1>1. \A c \in Codes : writes[x][c] = Untouched /\ View(x)[c] = rows[c]
  BY DEF IInv, WritesOK, View
<1>2. CASE Redeemable(x)
  <2> DEFINE c == code[x]
  <2>1. /\ c \in Codes /\ Own(x, c) /\ ~rows[c].used /\ ~LockedByOther(x, c)
        /\ rows[c] \in Row
        /\ writes' = [writes EXCEPT ![x][c] = [rows[c] EXCEPT !.used = TRUE]]
        /\ pc' = [pc EXCEPT ![x] = "commit"]
    BY <1>1, <1>2 DEF Redeemable, Visible, Own, IInv, TypeOK
  <2>2. [rows[c] EXCEPT !.used = TRUE] = Redeemed(c) /\ Redeemed(c) \in Row
    BY <2>1, RedeemedRow DEF Redeemed
  <2>3. TypeOK'
    BY <2>1, <2>2 DEF IInv, TypeOK, history
  <2>4. /\ pc'[x] = "commit" /\ rows' = rows /\ before' = before /\ targets' = targets
        /\ scope' = scope /\ issued' = issued /\ batch' = batch /\ code' = code
        /\ writes'[x][c] = Redeemed(c)
        /\ \A d \in Codes \ {c} : writes'[x][d] = Untouched
        /\ \A y \in Procs \ {x} : Same(y)
    BY <1>1, <2>1, <2>2 DEF IInv, TypeOK, Same, history
  <2>5. c # NoCode
    BY <1>2 DEF Redeemable
  <2>6. HandlerOK(x)'
    BY <2>4, <2>5 DEF HandlerOK, IInv
  <2>7. WritesOK(x)'
    BY <2>1, <2>4, <2>5 DEF WritesOK, Own, Redeemed
  <2>8. BeforeOK(x)'
    BY <2>4, <2>5 DEF BeforeOK, IInv
  <2>9. TargetsOK(x)'
    BY <2>4 DEF TargetsOK, IInv
  <2>10. /\ \A y \in Procs \ {x} : batch'[x] \cap batch[y] = {}
         /\ \A y \in Procs \ {x}, d \in Codes :
               writes'[x][d] = Untouched \/ writes[y][d] = Untouched
    BY <2>1, <2>4 DEF IInv, Apart, LockedByOther
  <2> HIDE DEF c
  <2> QED  BY <2>3, <2>4, <2>6, <2>7, <2>8, <2>9, <2>10, LocalStep
<1>3. CASE ~Redeemable(x)
  <2>1. TypeOK'
    BY <1>3 DEF IInv, TypeOK, history
  <2>2. /\ pc'[x] = "rollback" /\ writes' = writes /\ rows' = rows /\ before' = before
        /\ targets' = targets /\ scope' = scope /\ issued' = issued /\ batch' = batch
        /\ code' = code /\ \A y \in Procs \ {x} : Same(y)
    BY <1>3 DEF IInv, TypeOK, Same, history
  <2>3. HandlerOK(x)' /\ WritesOK(x)'
    BY <1>1, <2>2 DEF HandlerOK, WritesOK, IInv
  <2>4. BeforeOK(x)' /\ TargetsOK(x)'
    BY <2>2 DEF BeforeOK, TargetsOK, IInv
  <2>5. \A y \in Procs \ {x} : batch'[x] \cap batch[y] = {}
    BY DEF IInv, Apart
  <2> QED  BY <1>3, <2>1, <2>2, <2>3, <2>4, <2>5, OwnWritesApart, LocalStep
<1> QED  BY <1>2, <1>3

\* An ended transaction leaves its handler with nothing.
LEMMA EndedIsClean ==
    ASSUME ConstantsAssumption, IInv, NEW x \in Procs, EndTx(x)
    PROVE  /\ pc'[x] = "idle" /\ code'[x] = NoCode /\ batch'[x] = {}
           /\ targets'[x] = {} /\ before'[x] = {}
           /\ \A c \in Codes : writes'[x][c] = Untouched
           /\ \A y \in Procs \ {x} : Same(y)
           /\ (HandlerOK(x) /\ WritesOK(x) /\ BeforeOK(x) /\ TargetsOK(x))'
<1>1. /\ pc'[x] = "idle" /\ code'[x] = NoCode /\ batch'[x] = {}
      /\ targets'[x] = {} /\ before'[x] = {}
      /\ \A c \in Codes : writes'[x][c] = Untouched
      /\ \A y \in Procs \ {x} : Same(y)
  BY DEF EndTx, IInv, TypeOK, Same
<1>2. HandlerOK(x)'
  BY <1>1, FS_EmptySet DEF HandlerOK
<1>3. (WritesOK(x) /\ BeforeOK(x) /\ TargetsOK(x))'
  BY <1>1 DEF WritesOK, BeforeOK, TargetsOK
<1> QED  BY <1>1, <1>2, <1>3

\* A rolled back transaction leaves no trace (auth.go 54-79).
LEMMA RollbackKeeps ==
    ASSUME ConstantsAssumption, IInv, NEW x \in Procs, Rollback(x) \/ Fail(x)
    PROVE  IInv'
<1>1. EndTx(x) /\ UNCHANGED <<rows, history>>
  BY DEF Rollback, Fail
<1>2. TypeOK'
  BY <1>1 DEF EndTx, IInv, TypeOK, history
<1>3. /\ \A y \in Procs \ {x} : batch'[x] \cap batch[y] = {}
      /\ \A y \in Procs \ {x}, c \in Codes :
            writes'[x][c] = Untouched \/ writes[y][c] = Untouched
  BY <1>1, EndedIsClean
<1> QED  BY <1>1, <1>2, <1>3, EndedIsClean, LocalStep

-----------------------------------------------------------------------------
(* Commits.                                                                *)

\* What a commit does to each code, whoever committed it (auth.go 77-86).
LEMMA Published ==
    ASSUME ConstantsAssumption, IInv, NEW x \in Procs, Publish(x)
    PROVE  /\ \A c \in Codes :
                /\ rows'[c] = IF writes[x][c] = Untouched THEN rows[c] ELSE writes[x][c]
                /\ c \in issued /\ rows[c] = NoRow => rows'[c] = NoRow
                /\ c \in issued /\ rows'[c] # NoRow =>
                     /\ rows[c] # NoRow /\ rows'[c].user = rows[c].user
                     /\ rows[c].used => rows'[c].used
           /\ issued' = issued \cup batch[x]
           /\ code[x] # NoCode => code[x] \in Codes /\ batch[x] = {}
<1>1. /\ rows' = View(x) /\ issued' = issued \cup batch[x] /\ pc[x] = "commit"
      /\ HandlerOK(x) /\ WritesOK(x)
      /\ code[x] # NoCode => code[x] \in Codes /\ batch[x] = {}
  BY DEF Publish, IInv, TypeOK, HandlerOK
<1>2. ASSUME NEW c \in Codes
      PROVE  /\ rows'[c] = IF writes[x][c] = Untouched THEN rows[c] ELSE writes[x][c]
             /\ c \in issued /\ rows[c] = NoRow => rows'[c] = NoRow
             /\ c \in issued /\ rows'[c] # NoRow =>
                  /\ rows[c] # NoRow /\ rows'[c].user = rows[c].user
                  /\ rows[c].used => rows'[c].used
  <2>1. rows'[c] = IF writes[x][c] = Untouched THEN rows[c] ELSE writes[x][c]
    BY <1>1 DEF View
  <2>2. CASE code[x] = NoCode
    <3>1. c \in issued => c \notin batch[x]
      BY <1>1 DEF HandlerOK
    <3>2. c \in issued => writes[x][c] = Untouched \/ (writes[x][c] = NoRow /\ Own(x, c))
      BY <1>1, <2>2, <3>1 DEF WritesOK
    <3> QED  BY <2>1, <3>2
  <2>3. CASE code[x] # NoCode
    <3>1. CASE c = code[x]
      <4>1. rows[c] \in Row /\ rows[c] # NoRow /\ writes[x][c] = Redeemed(c)
        BY <1>1, <2>3, <3>1 DEF WritesOK, Own, IInv, TypeOK
      <4>2. writes[x][c] \in Row /\ writes[x][c].user = rows[c].user /\ writes[x][c].used
        BY <4>1, RedeemedRow DEF Redeemed
      <4>3. writes[x][c] # Untouched
        BY <4>2 DEF ConstantsAssumption
      <4> QED  BY <2>1, <4>1, <4>2, <4>3
    <3>2. CASE c # code[x]
      BY <1>1, <2>1, <2>3, <3>2 DEF WritesOK
    <3> QED  BY <3>1, <3>2
  <2> QED  BY <2>1, <2>2, <2>3
<1> QED  BY <1>1, <1>2

\* A commit changes no row another handler has written, and none of its codes.
LEMMA PublishedElsewhere ==
    ASSUME ConstantsAssumption, IInv, NEW x \in Procs, Publish(x), EndTx(x),
           NEW y \in Procs, y # x
    PROVE  (HandlerOK(y) /\ WritesOK(y) /\ BeforeOK(y) /\ TargetsOK(y))'
<1>1. Same(y)
  BY EndedIsClean
<1>2. /\ batch[x] \cap batch[y] = {}
      /\ \A c \in Codes : writes[y][c] # Untouched => writes[x][c] = Untouched
  BY DEF IInv, Apart
<1>3. \A c \in Codes : writes[y][c] # Untouched => rows'[c] = rows[c]
  BY <1>2, Published
<1>4. \A c \in issued : Own(y, c) => rows'[c] = NoRow \/ Own(y, c)'
  <2>1. issued \subseteq Codes
    BY DEF IInv, TypeOK
  <2> QED  BY <1>1, <2>1, Published DEF Own, Same
<1>5. /\ issued' = issued \cup batch[x] /\ issued \subseteq Codes
      /\ \A c \in issued : rows[c] = NoRow => rows'[c] = NoRow
  BY Published DEF IInv, TypeOK
<1>6. HandlerOK(y)'
  BY <1>1, <1>2, <1>5 DEF HandlerOK, Same, IInv
<1>7. WritesOK(y)'
  <2>1. WritesOK(y)
    BY DEF IInv
  <2>2. code[y] \in Codes \cup {NoCode} /\ NoRow # Untouched
        /\ NoCode \notin Codes /\ Fresh(y)' = Fresh(y)
    BY <1>1 DEF IInv, TypeOK, ConstantsAssumption, Fresh, Same
  <2>3. ASSUME pc[y] = "insert" \/ (pc[y] = "commit" /\ code[y] = NoCode), NEW c \in Codes
        PROVE  /\ c \in batch[y] => writes[y][c] \in {Untouched, Fresh(y)}
               /\ c \notin batch[y] => writes[y][c] = Untouched
                                         \/ (writes[y][c] = NoRow /\ Own(y, c)')
    BY <1>1, <1>3, <2>1, <2>2, <2>3 DEF WritesOK, Own, Same
  <2>4. ASSUME pc[y] = "commit", code[y] # NoCode
        PROVE  /\ Own(y, code[y])' /\ ~rows'[code[y]].used
               /\ writes[y][code[y]] = Redeemed(code[y])'
               /\ \A c \in Codes \ {code[y]} : writes[y][c] = Untouched
    <3>1. /\ Own(y, code[y]) /\ ~rows[code[y]].used
          /\ writes[y][code[y]] = Redeemed(code[y])
          /\ \A c \in Codes \ {code[y]} : writes[y][c] = Untouched
      BY <2>1, <2>4 DEF WritesOK
    <3>2. Redeemed(code[y]) # Untouched
      <4>1. Redeemed(code[y]) \in Row
        BY <2>2, <2>4, <3>1, RedeemedRow DEF Redeemed, Own, IInv, TypeOK
      <4> QED  BY <4>1 DEF ConstantsAssumption
    <3>3. rows'[code[y]] = rows[code[y]]
      BY <1>3, <2>2, <2>4, <3>1, <3>2
    <3> QED  BY <1>1, <3>1, <3>3 DEF Own, Redeemed, Same
  <2>5. code[y]' = code[y] /\ pc[y]' = pc[y] /\ batch[y]' = batch[y] /\ writes[y]' = writes[y]
    BY <1>1 DEF Same
  <2>6. /\ pc[y] \notin {"insert", "commit"} => \A c \in Codes : writes[y][c] = Untouched
        /\ pc[y] = "commit" /\ code[y] = NoCode => \A c \in batch[y] : writes[y][c] # Untouched
    BY <2>1 DEF WritesOK
  <2>7. Redeemed(code[y])' = [rows'[code[y]] EXCEPT !.used = TRUE]
        /\ Own(y, code[y])' = (rows'[code[y]] # NoRow /\ rows'[code[y]].user = scope[y])
    BY <1>1 DEF Redeemed, Own, Same
  <2> QED  BY <2>2, <2>3, <2>4, <2>5, <2>6, <2>7 DEF WritesOK, Own, Fresh, Redeemed
<1>8. BeforeOK(y)'
  BY <1>1, <1>4, <1>5 DEF BeforeOK, Same, IInv
<1>9. TargetsOK(y)'
  BY <1>1, <1>4, <1>5 DEF TargetsOK, Same, IInv
<1> QED  BY <1>6, <1>7, <1>8, <1>9

\* What a committed redemption has found: a code of its user, unspent.
LEMMA RedemptionFound ==
    ASSUME ConstantsAssumption, IInv, NEW x \in Procs, Publish(x), code[x] # NoCode
    PROVE  /\ code[x] \in issued /\ rows[code[x]] # NoRow /\ spent[code[x]] = 0
           /\ rows'[code[x]] # NoRow /\ rows'[code[x]].used
           /\ \A c \in Codes \ {code[x]} : rows'[c] = rows[c]
<1> DEFINE c == code[x]
<1>1. /\ c \in Codes /\ rows[c] \in Row /\ rows[c] # NoRow /\ ~rows[c].used
      /\ writes[x][c] = Redeemed(c)
      /\ \A d \in Codes \ {c} : writes[x][d] = Untouched
  BY DEF Publish, IInv, WritesOK, Own, TypeOK
<1>2. /\ writes[x][c] # NoRow /\ writes[x][c] # Untouched /\ writes[x][c].used
  BY <1>1, RedeemedRow DEF Redeemed, ConstantsAssumption
<1>3. c \in issued /\ spent[c] = 0
  BY <1>1 DEF IInv, RowsOK
<1> QED  BY <1>1, <1>2, <1>3, Published

\* A committed regeneration has deleted what its user had, and inserted all it
\* drew.
LEMMA RegenerationDone ==
    ASSUME ConstantsAssumption, IInv, NEW x \in Procs, Publish(x), code[x] = NoCode
    PROVE  /\ \A c \in before[x] : c \in issued /\ rows'[c] = NoRow
           /\ \A c \in batch[x] : rows'[c] # NoRow /\ rows'[c].user = scope[x]
           /\ \A c \in Codes \ batch[x] :
                 rows'[c] = rows[c] \/ (rows'[c] = NoRow /\ Own(x, c))
           /\ Cardinality(batch[x]) = SetSize
<1>1. /\ pc[x] = "commit" /\ HandlerOK(x) /\ WritesOK(x) /\ BeforeOK(x)
      /\ before[x] \subseteq Codes /\ batch[x] \subseteq Codes
  BY DEF Publish, IInv, TypeOK
<1>2. \A c \in before[x] : c \in issued /\ rows'[c] = NoRow
  BY <1>1, Published DEF BeforeOK, ConstantsAssumption
<1>3. \A c \in batch[x] : rows'[c] # NoRow /\ rows'[c].user = scope[x]
  <2>1. Fresh(x) \in Row /\ Fresh(x) # NoRow /\ Fresh(x).user = scope[x]
    <3>1. scope[x] \in Users
      BY <1>1 DEF HandlerOK
    <3>2. Fresh(x) \in Row
      BY <3>1 DEF Fresh, Row
    <3> QED  BY <3>2 DEF Fresh, ConstantsAssumption
  <2> QED  BY <1>1, <2>1, Published DEF WritesOK
<1>4. \A c \in Codes \ batch[x] : rows'[c] = rows[c] \/ (rows'[c] = NoRow /\ Own(x, c))
  BY <1>1, Published DEF WritesOK
<1>5. Cardinality(batch[x]) = SetSize
  <2>1. IsFiniteSet(batch[x]) /\ batch[x] # {}
    BY <1>1, FS_Subset DEF HandlerOK, ConstantsAssumption
  <2>2. Cardinality(batch[x]) # 0
    BY <2>1, FS_EmptySet
  <2> QED  BY <1>1, <2>2 DEF HandlerOK
<1> QED  BY <1>2, <1>3, <1>4, <1>5

\* A commit leaves every enrolled user with a whole set: the one it was for has
\* the new one, and everyone else what they had (recovery.go 118-170).
LEMMA PublishLeavesSets ==
    ASSUME ConstantsAssumption, IInv, NEW x \in Procs, Publish(x), TypeOK'
    PROVE  SetNeverShort'
<1> SUFFICES ASSUME NEW u \in enrolled'
             PROVE  Cardinality(CodesOf(u)') >= SetSize
  BY DEF SetNeverShort
<1>1. /\ IsFiniteSet(Codes) /\ CodesOf(u)' \subseteq Codes /\ IsFiniteSet(CodesOf(u)')
      /\ SetSize \in Nat /\ issued \subseteq Codes
  BY FS_Subset DEF CodesOf, ConstantsAssumption, IInv, TypeOK
<1>2. CASE code[x] = NoCode /\ u = scope[x]
  <2>1. batch[x] \subseteq CodesOf(u)'
    BY <1>2, RegenerationDone DEF CodesOf, IInv, TypeOK
  <2>2. Cardinality(batch[x]) <= Cardinality(CodesOf(u)')
    BY <1>1, <2>1, FS_Subset
  <2> QED  BY <1>2, <2>2, RegenerationDone
<1>3. CASE ~(code[x] = NoCode /\ u = scope[x])
  <2>1. u \in enrolled
    BY <1>3 DEF Publish
  <2>2. CodesOf(u) \subseteq CodesOf(u)'
    <3> SUFFICES ASSUME NEW c \in Codes, rows[c] # NoRow, rows[c].user = u
                 PROVE  rows'[c] # NoRow /\ rows'[c].user = u
      BY DEF CodesOf
    <3>1. c \in issued
      BY DEF IInv, RowsOK
    <3>2. rows'[c] # NoRow
      <4>1. CASE code[x] = NoCode
        <5>1. c \notin batch[x] /\ ~Own(x, c)
          BY <1>3, <3>1, <4>1 DEF IInv, HandlerOK, Own
        <5> QED  BY <4>1, <5>1, RegenerationDone
      <4>2. CASE code[x] # NoCode
        BY <4>2, RedemptionFound
      <4> QED  BY <4>1, <4>2
    <3> QED  BY <3>1, <3>2, Published
  <2>3. Cardinality(CodesOf(u)) <= Cardinality(CodesOf(u)')
    BY <1>1, <2>2, FS_Subset
  <2>4. Cardinality(CodesOf(u)) >= SetSize
    BY <2>1 DEF IInv, SetNeverShort
  <2>5. /\ Cardinality(CodesOf(u)) \in Nat /\ Cardinality(CodesOf(u)') \in Nat
    <3>1. IsFiniteSet(CodesOf(u))
      BY <1>1, FS_Subset DEF CodesOf
    <3> QED  BY <1>1, <3>1, FS_CardinalityType
  <2> QED  BY <1>1, <2>3, <2>4, <2>5
<1> QED  BY <1>2, <1>3

\* A commit, heard of or not (auth.go 77-86).
LEMMA CommitKeeps ==
    ASSUME ConstantsAssumption, IInv, NEW x \in Procs, Commit(x) \/ CommitUnheard(x)
    PROVE  IInv'
<1>1. Publish(x) /\ EndTx(x) /\ shown' \in {shown, shown \cup batch[x]}
  BY DEF Commit, CommitUnheard, Publish
<1>2. TypeOK'
  <2>1. rows' \in [Codes -> Row \cup {NoRow}]
    <3>1. rows' = View(x)
      BY <1>1 DEF Publish
    <3>2. \A c \in Codes : /\ rows[c] \in Row \cup {NoRow}
                           /\ writes[x][c] \in Row \cup {NoRow, Untouched}
      BY DEF IInv, TypeOK
    <3> QED  BY <3>1, <3>2 DEF View
  <2>2. /\ issued' = issued \cup batch[x] /\ batch[x] \subseteq Codes
        /\ shown' \subseteq issued'
    BY <1>1, Published DEF IInv, TypeOK
  <2>3. dead' \subseteq issued'
    BY <1>1, <2>2, RegenerationDone DEF Publish, IInv, TypeOK
  <2>4. enrolled' \subseteq Users
    <3>1. pc[x] = "commit" /\ enrolled' \in {enrolled, enrolled \cup {scope[x]}}
      BY <1>1 DEF Publish
    <3> QED  BY <3>1 DEF IInv, HandlerOK, TypeOK
  <2>5. spent' \in [Codes -> Nat]
    BY <1>1 DEF Publish, IInv, TypeOK
  <2>6. /\ writes' \in [Procs -> [Codes -> Row \cup {NoRow, Untouched}]]
        /\ pc' \in [Procs -> {"idle", "check", "delete", "deleting", "insert", "redeem",
                              "commit", "rollback"}]
        /\ scope' \in [Procs -> Users \cup {NoUser}]
        /\ code' \in [Procs -> Codes \cup {NoCode}]
        /\ batch' \in [Procs -> SUBSET Codes] /\ targets' \in [Procs -> SUBSET Codes]
        /\ before' \in [Procs -> SUBSET Codes]
    BY <1>1 DEF EndTx, IInv, TypeOK
  <2> QED  BY <2>1, <2>2, <2>3, <2>4, <2>5, <2>6 DEF IInv, TypeOK
<1>3. \A y \in Procs : (HandlerOK(y) /\ WritesOK(y) /\ BeforeOK(y) /\ TargetsOK(y))'
  <2> TAKE y \in Procs
  <2>1. CASE y = x
    BY <1>1, <2>1, EndedIsClean
  <2>2. CASE y # x
    BY <1>1, <2>2, PublishedElsewhere
  <2> QED  BY <2>1, <2>2
<1>4. Apart'
  <2>1. /\ batch'[x] = {} /\ \A c \in Codes : writes'[x][c] = Untouched
        /\ \A y \in Procs \ {x} : batch'[y] = batch[y] /\ writes'[y] = writes[y]
    BY <1>1, EndedIsClean DEF Same
  <2> QED  BY <2>1 DEF IInv, Apart
<1>5. RowsOK'
  <2> SUFFICES ASSUME NEW c \in Codes
               PROVE  /\ rows'[c] # NoRow => c \in issued'
                      /\ spent'[c] \in {0, 1}
                      /\ spent'[c] = 1 => c \in issued' /\ (rows'[c] = NoRow \/ rows'[c].used)
                      /\ c \in dead' => rows'[c] = NoRow
    BY DEF RowsOK
  <2>1. /\ rows[c] # NoRow => c \in issued
        /\ spent[c] \in {0, 1}
        /\ spent[c] = 1 => c \in issued /\ (rows[c] = NoRow \/ rows[c].used)
        /\ c \in dead => c \in issued /\ rows[c] = NoRow
        /\ spent \in [Codes -> Nat]
    BY DEF IInv, RowsOK, TypeOK
  <2>2. /\ issued' = issued \cup batch[x]
        /\ c \in issued /\ rows[c] = NoRow => rows'[c] = NoRow
        /\ c \in issued /\ rows'[c] # NoRow => rows[c] # NoRow /\ (rows[c].used => rows'[c].used)
    BY <1>1, Published
  <2>3. CASE code[x] = NoCode
    <3>1. spent' = spent /\ dead' = dead \cup before[x]
      BY <1>1, <2>3 DEF Publish
    <3>2. rows'[c] # NoRow => c \in issued'
      BY <1>1, <2>1, <2>2, <2>3, RegenerationDone
    <3>3. c \in dead' => rows'[c] = NoRow
      BY <1>1, <2>1, <2>2, <2>3, <3>1, RegenerationDone
    <3> QED  BY <2>1, <2>2, <3>1, <3>2, <3>3
  <2>4. CASE code[x] # NoCode
    <3>1. spent' = [spent EXCEPT ![code[x]] = @ + 1] /\ dead' = dead
      BY <1>1, <2>4 DEF Publish
    <3>2. CASE c = code[x]
      <4>1. spent'[c] = 1 /\ c \in issued /\ rows'[c].used /\ c \notin dead'
        BY <1>1, <2>1, <2>4, <3>1, <3>2, RedemptionFound
      <4> QED  BY <2>2, <4>1
    <3>3. CASE c # code[x]
      <4>1. rows'[c] = rows[c] /\ spent'[c] = spent[c]
        BY <1>1, <2>1, <2>4, <3>1, <3>3, RedemptionFound
      <4> QED  BY <2>1, <2>2, <3>1, <4>1
    <3> QED  BY <3>2, <3>3
  <2> QED  BY <2>3, <2>4
<1>6. SetNeverShort'
  BY <1>1, <1>2, PublishLeavesSets
<1> QED  BY <1>2, <1>3, <1>4, <1>5, <1>6 DEF IInv

-----------------------------------------------------------------------------
(* The theorems.                                                           *)

\* Every statement keeps what the handlers rely on (recovery.go 118-197).
THEOREM Invariance == Spec => []IInv
<1>1. ConstantsAssumption
  BY ConstantsAssumption
<1>2. Init => IInv
  <2> SUFFICES ASSUME Init PROVE IInv
    OBVIOUS
  <2>1. TypeOK
    BY DEF Init, TypeOK
  <2>2. \A x \in Procs : HandlerOK(x) /\ WritesOK(x) /\ BeforeOK(x) /\ TargetsOK(x)
    BY FS_EmptySet DEF Init, HandlerOK, WritesOK, BeforeOK, TargetsOK
  <2> QED  BY <2>1, <2>2 DEF Init, IInv, Apart, RowsOK, SetNeverShort
<1>3. IInv /\ [Next]_vars => IInv'
  <2> SUFFICES ASSUME IInv, [Next]_vars PROVE IInv'
    OBVIOUS
  <2>1. ASSUME NEW x \in Procs, NEW u \in Users,
               \/ \E drawn \in SUBSET Undrawn : BeginRegenerate(x, u, drawn)
               \/ \E c \in Codes \cup {NoCode} : BeginRedeem(x, u, c)
        PROVE  IInv'
    BY <1>1, <2>1, BeginKeeps
  <2>2. ASSUME NEW x \in Procs, CheckSet(x) PROVE IInv'
    BY <1>1, <2>2, CheckKeeps
  <2>3. ASSUME NEW x \in Procs, StartDelete(x) PROVE IInv'
    BY <1>1, <2>3, StartDeleteKeeps
  <2>4. ASSUME NEW x \in Procs, FinishDelete(x) PROVE IInv'
    BY <1>1, <2>4, FinishDeleteKeeps
  <2>5. ASSUME NEW x \in Procs, NEW c \in Codes, InsertRecoveryCode(x, c) PROVE IInv'
    BY <1>1, <2>5, InsertKeeps
  <2>6. ASSUME NEW x \in Procs, FinishSet(x) PROVE IInv'
    BY <1>1, <2>6, FinishSetKeeps
  <2>7. ASSUME NEW x \in Procs, RedeemRecoveryCode(x) PROVE IInv'
    BY <1>1, <2>7, RedeemKeeps
  <2>8. ASSUME NEW x \in Procs, Commit(x) \/ CommitUnheard(x) PROVE IInv'
    BY <1>1, <2>8, CommitKeeps
  <2>9. ASSUME NEW x \in Procs, Rollback(x) \/ Fail(x) PROVE IInv'
    BY <1>1, <2>9, RollbackKeeps
  <2>10. CASE UNCHANGED vars
    <3> USE <2>10 DEF vars, local, history
    <3>1. TypeOK' /\ RowsOK' /\ SetNeverShort' /\ Apart'
      BY DEF IInv, TypeOK, RowsOK, SetNeverShort, CodesOf, Apart
    <3>2. \A x \in Procs : (HandlerOK(x) /\ WritesOK(x) /\ BeforeOK(x) /\ TargetsOK(x))'
      BY DEF IInv, HandlerOK, WritesOK, BeforeOK, TargetsOK, Own, Fresh, Redeemed
    <3> QED  BY <3>1, <3>2 DEF IInv
  <2> QED  BY <2>1, <2>2, <2>3, <2>4, <2>5, <2>6, <2>7, <2>8, <2>9, <2>10 DEF Next
<1> QED  BY <1>2, <1>3, PTL DEF Spec

\* A code buys one login, whatever redeems and regenerates at once
\* (recovery.go 181-197).
THEOREM CodesAreSpentOnce == Spec => []SingleUse
<1>1. IInv => SingleUse
  BY DEF IInv, RowsOK, SingleUse
<1> QED  BY <1>1, Invariance, PTL

\* The codes a regeneration set out to replace are gone once it has committed
\* (recovery.go 70-74).
THEOREM OldCodesAreDead == Spec => []OldCodesDie
<1>1. IInv => OldCodesDie
  BY DEF IInv, RowsOK, TypeOK, OldCodesDie
<1> QED  BY <1>1, Invariance, PTL

\* No failure leaves a user with less than a set (recovery.go 118-143).
THEOREM SetsAreWhole == Spec => []SetNeverShort
<1>1. IInv => SetNeverShort
  BY DEF IInv
<1> QED  BY <1>1, Invariance, PTL

-----------------------------------------------------------------------------
(* The window of a TOTP code.                                              *)

\* A code is accepted while its reader's clock and the server's differ by no more
\* than a period, in either direction (totp.go 41-46).
THEOREM ShownCodesVerify ==
  ASSUME NEW secret \in Secrets, NEW displayed \in Nat, NEW at \in Nat,
         at <= displayed + TotpPeriod, displayed <= at + TotpPeriod
  PROVE  VerifyTOTP(secret, Code[secret][Step(displayed)], at)
  <1>1. Step(displayed) - Step(at) \in -1..1
    BY DEF Step, TotpPeriod
  <1>2. Code[secret][Step(at) + (Step(displayed) - Step(at))] = Code[secret][Step(displayed)]
    BY DEF Step, TotpPeriod
  <1>3. QED
    BY <1>1, <1>2 DEF VerifyTOTP, TotpSkewSteps

\* The steps that a code is looked for in.
Window(at) == {Step(at) + offset : offset \in -TotpSkewSteps..TotpSkewSteps}

\* A code is dead two periods after it was shown, and was not alive two periods
\* before, unless another of the six steps that lie around the two instants has
\* the same six digits by chance (totp.go 41-46, 123-134).
THEOREM CodesExpire ==
  ASSUME NEW secret \in Secrets, NEW displayed \in Nat, NEW at \in Nat,
         \A s, t \in Window(displayed) \cup Window(at) :
            Code[secret][s] = Code[secret][t] => s = t,
         VerifyTOTP(secret, Code[secret][Step(displayed)], at)
  PROVE  at < displayed + 2 * TotpPeriod /\ displayed < at + 2 * TotpPeriod
  <1>1. PICK s \in Window(at) : Code[secret][s] = Code[secret][Step(displayed)]
    BY DEF VerifyTOTP, Window
  <1>2. Step(at) \in Int /\ Step(displayed) \in Int
    BY DEF Step, TotpPeriod
  <1>3. Step(displayed) \in Window(displayed)
    <2>1. 0 \in -TotpSkewSteps..TotpSkewSteps /\ Step(displayed) = Step(displayed) + 0
      BY <1>2 DEF TotpSkewSteps
    <2> QED  BY <2>1 DEF Window
  <1>4. Step(displayed) \in Window(at)
    BY <1>1, <1>3
  <1>5. PICK offset \in -1..1 : Step(displayed) = Step(at) + offset
    BY <1>4 DEF Window, TotpSkewSteps
  <1>6. QED
    BY <1>5 DEF Step, TotpPeriod
=================================================================================
