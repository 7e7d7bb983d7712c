---------------------------- MODULE RecoveryCodes ----------------------------
(***************************************************************************)
(* TOTP recovery codes (internal/auth/recovery.go) over                    *)
(* totp_recovery_codes, one action per SQL statement: handlers regenerate  *)
(* a user's set and redeem codes of it at once, each inside one            *)
(* db.WithAuthUser transaction.  PostgreSQL is modelled as in              *)
(* RefreshRotation: READ COMMITTED, row locks, rows tested again by a      *)
(* statement that had to wait, and the row policy of migration 00014.      *)
(***************************************************************************)
EXTENDS Naturals, FiniteSets

CONSTANTS
    Procs,      \* handlers, each running one transaction at a time
    Users,
    Codes,      \* recovery codes; a code stands for its hash and its row
    SetSize,    \* RecoveryCodeCount
    NoCode,     \* a submitted code that was never issued
    NoUser,     \* no transaction is open
    NoRow,      \* no row: never inserted, or deleted
    Untouched   \* a row version this transaction has not written

Row == [user: Users, used: BOOLEAN]

ASSUME ConstantsAssumption ==
    /\ IsFiniteSet(Codes)       \* strings of one length over one alphabet
    /\ NoCode \notin Codes
    /\ NoUser \notin Users
    /\ NoRow \notin Row
    /\ Untouched \notin Row \cup {NoRow}
    /\ SetSize \in Nat \ {0}

VARIABLES
    rows,       \* committed rows of totp_recovery_codes
    writes,     \* writes[x]: versions x's transaction has not committed
    pc, scope,  \* the next statement, and the user WithAuthUser was opened for
    code,       \* the code submitted for redemption
    batch,      \* the codes NewRecoveryCodes drew for a regeneration
    targets,    \* candidate rows of a DELETE under way
    issued,     \* codes that have been committed, with a row still or not
    shown,      \* codes a user has seen
    before,     \* the user's committed codes when the regeneration began
    dead,       \* codes that a finished regeneration was to replace
    enrolled,   \* users who have had a set
    spent       \* how many committed redemptions a code has bought

local   == <<pc, scope, code, batch, targets, before>>
history == <<issued, shown, dead, enrolled, spent>>
vars    == <<rows, writes, local, history>>

TypeOK ==
    /\ rows \in [Codes -> Row \cup {NoRow}]
    /\ writes \in [Procs -> [Codes -> Row \cup {NoRow, Untouched}]]
    /\ pc \in [Procs -> {"idle", "check", "delete", "deleting", "insert", "redeem",
                         "commit", "rollback"}]
    /\ scope \in [Procs -> Users \cup {NoUser}]
    /\ code \in [Procs -> Codes \cup {NoCode}]
    /\ batch \in [Procs -> SUBSET Codes]
    /\ targets \in [Procs -> SUBSET Codes]
    /\ shown \subseteq issued /\ issued \subseteq Codes
    /\ before \in [Procs -> SUBSET Codes]
    /\ dead \subseteq issued
    /\ enrolled \subseteq Users
    /\ spent \in [Codes -> Nat]

Init ==
    /\ rows = [c \in Codes |-> NoRow]
    /\ writes = [x \in Procs |-> [c \in Codes |-> Untouched]]
    /\ pc = [x \in Procs |-> "idle"]
    /\ scope = [x \in Procs |-> NoUser]
    /\ code = [x \in Procs |-> NoCode]
    /\ batch = [x \in Procs |-> {}]
    /\ targets = [x \in Procs |-> {}]
    /\ before = [x \in Procs |-> {}]
    /\ issued = {} /\ shown = {} /\ dead = {} /\ enrolled = {}
    /\ spent = [c \in Codes |-> 0]

-----------------------------------------------------------------------------

View(x) == [c \in Codes |-> IF writes[x][c] = Untouched THEN rows[c] ELSE writes[x][c]]

\* Row policy auth_own_recovery_codes.
Visible(x, r) == r # NoRow /\ r.user = scope[x]

LockedByOther(x, c) == \E y \in Procs \ {x} : writes[y][c] # Untouched

CodesOf(u) == {c \in Codes : rows[c] # NoRow /\ rows[c].user = u}

\* Codes are random: one drawn now is in no other set.
Undrawn == {c \in Codes \ issued : \A y \in Procs : c \notin batch[y]}

Begin(x, u, first) ==
    /\ pc[x] = "idle"
    /\ pc' = [pc EXCEPT ![x] = first]
    /\ scope' = [scope EXCEPT ![x] = u]
    /\ UNCHANGED <<rows, writes, targets, history>>

\* The caller passes a set NewRecoveryCodes has drawn, or by mistake nothing.
BeginRegenerate(x, u, drawn) ==
    /\ Cardinality(drawn) \in {0, SetSize}
    /\ batch' = [batch EXCEPT ![x] = drawn]
    /\ before' = [before EXCEPT ![x] = CodesOf(u)]
    /\ Begin(x, u, "check")
    /\ UNCHANGED code

\* Any code ever shown, to anyone, and one that was never issued.
BeginRedeem(x, u, c) ==
    /\ c \in shown \cup {NoCode}
    /\ code' = [code EXCEPT ![x] = c]
    /\ Begin(x, u, "redeem")
    /\ UNCHANGED <<batch, before>>

\* Mutant: no guard on the length of the set.
AcceptAnySet(x) ==
    /\ pc[x] = "check"
    /\ pc' = [pc EXCEPT ![x] = "delete"]
    /\ UNCHANGED <<rows, writes, scope, code, batch, targets, before, history>>

\* An empty set would leave the user no way back in.
CheckSet(x) ==
    /\ pc[x] = "check"
    /\ \/ /\ batch[x] # {}
          /\ pc' = [pc EXCEPT ![x] = "delete"]
       \/ /\ batch[x] = {}
          /\ pc' = [pc EXCEPT ![x] = "rollback"]
    /\ UNCHANGED <<rows, writes, scope, code, batch, targets, before, history>>

\* Mutant: only codes that are already spent are cleared.
StartDeletingSpent(x) ==
    /\ pc[x] = "delete"
    /\ targets' = [targets EXCEPT ![x] =
           {c \in Codes : Visible(x, View(x)[c]) /\ View(x)[c].used}]
    /\ pc' = [pc EXCEPT ![x] = "deleting"]
    /\ UNCHANGED <<rows, writes, scope, code, batch, before, history>>

\* DeleteRecoveryCodesForUser fixes its candidate rows at its own snapshot ...
StartDelete(x) ==
    /\ pc[x] = "delete"
    /\ targets' = [targets EXCEPT ![x] = {c \in Codes : Visible(x, View(x)[c])}]
    /\ pc' = [pc EXCEPT ![x] = "deleting"]
    /\ UNCHANGED <<rows, writes, scope, code, batch, before, history>>

\* ... and waits for those another transaction has written.
FinishDelete(x) ==
    /\ pc[x] = "deleting"
    /\ \A c \in targets[x] : ~LockedByOther(x, c)
    /\ writes' = [writes EXCEPT ![x] = [c \in Codes |->
           IF c \in targets[x] /\ View(x)[c] # NoRow THEN NoRow ELSE writes[x][c]]]
    /\ pc' = [pc EXCEPT ![x] = "insert"]
    /\ UNCHANGED <<rows, scope, code, batch, targets, before, history>>

\* One INSERT per code of the set ...
InsertRecoveryCode(x, c) ==
    /\ pc[x] = "insert"
    /\ c \in batch[x]
    /\ writes[x][c] = Untouched
    /\ writes' = [writes EXCEPT ![x][c] = [user |-> scope[x], used |-> FALSE]]
    /\ UNCHANGED <<rows, pc, scope, code, batch, targets, before, history>>

\* ... and after the last the callback returns.
FinishSet(x) ==
    /\ pc[x] = "insert"
    /\ \A c \in batch[x] : writes[x][c] # Untouched
    /\ pc' = [pc EXCEPT ![x] = "commit"]
    /\ UNCHANGED <<rows, writes, scope, code, batch, targets, before, history>>

\* Mutant: the code is looked up, then marked, in two statements.
RedeemAsRead(x) ==
    LET c == code[x] IN
    /\ pc[x] = "redeem"
    /\ c # NoCode
    /\ Visible(x, rows[c]) /\ ~rows[c].used
    /\ writes' = [writes EXCEPT ![x][c] = [rows[c] EXCEPT !.used = TRUE]]
    /\ pc' = [pc EXCEPT ![x] = "commit"]
    /\ UNCHANGED <<rows, scope, code, batch, targets, before, history>>

\* A submitted code that can be spent: it names a row of this user, unused.
Redeemable(x) ==
    code[x] # NoCode /\ Visible(x, View(x)[code[x]]) /\ ~View(x)[code[x]].used

\* UPDATE ... AND used_at IS NULL; no row affected is a refused login.
RedeemRecoveryCode(x) ==
    /\ pc[x] = "redeem"
    /\ code[x] # NoCode => ~LockedByOther(x, code[x])
    /\ \/ /\ Redeemable(x)
          /\ writes' = [writes EXCEPT ![x][code[x]] = [View(x)[code[x]] EXCEPT !.used = TRUE]]
          /\ pc' = [pc EXCEPT ![x] = "commit"]
       \/ /\ ~Redeemable(x)
          /\ pc' = [pc EXCEPT ![x] = "rollback"]
          /\ UNCHANGED writes
    /\ UNCHANGED <<rows, scope, code, batch, targets, before, history>>

-----------------------------------------------------------------------------
(* How WithAuthUser ends a transaction.                                    *)

EndTx(x) ==
    /\ writes' = [writes EXCEPT ![x] = [c \in Codes |-> Untouched]]
    /\ pc' = [pc EXCEPT ![x] = "idle"]
    /\ scope' = [scope EXCEPT ![x] = NoUser]
    /\ code' = [code EXCEPT ![x] = NoCode]
    /\ batch' = [batch EXCEPT ![x] = {}]
    /\ targets' = [targets EXCEPT ![x] = {}]
    /\ before' = [before EXCEPT ![x] = {}]

\* The redemption or the regeneration takes effect.
Publish(x) ==
    /\ pc[x] = "commit"
    /\ rows' = View(x)
    /\ issued' = issued \cup batch[x]
    /\ EndTx(x)
    /\ \/ /\ code[x] # NoCode
          /\ spent' = [spent EXCEPT ![code[x]] = @ + 1]
          /\ UNCHANGED <<dead, enrolled>>
       \/ /\ code[x] = NoCode
          /\ dead' = dead \cup before[x]
          /\ enrolled' = enrolled \cup {scope[x]}
          /\ UNCHANGED spent

\* The caller shows the plaintexts once.
Commit(x) ==
    /\ Publish(x)
    /\ shown' = shown \cup batch[x]

\* The commit takes effect and its acknowledgement is lost.
CommitUnheard(x) ==
    /\ Publish(x)
    /\ UNCHANGED shown

Rollback(x) ==
    /\ pc[x] = "rollback"
    /\ EndTx(x)
    /\ UNCHANGED <<rows, history>>

\* A query, the commit or the process fails: the database rolls back.
Fail(x) ==
    /\ pc[x] # "idle"
    /\ EndTx(x)
    /\ UNCHANGED <<rows, history>>

Next == \E x \in Procs :
    \/ \E u \in Users, drawn \in SUBSET Undrawn : BeginRegenerate(x, u, drawn)
    \/ \E u \in Users, c \in Codes \cup {NoCode} : BeginRedeem(x, u, c)
    \/ CheckSet(x)
    \/ StartDelete(x)
    \/ FinishDelete(x)
    \/ \E c \in Codes : InsertRecoveryCode(x, c)
    \/ FinishSet(x)
    \/ RedeemRecoveryCode(x)
    \/ Commit(x)
    \/ CommitUnheard(x)
    \/ Rollback(x)
    \/ Fail(x)

Spec == Init /\ [][Next]_vars

-----------------------------------------------------------------------------
(* Properties.                                                             *)

\* A code buys one login, however many handlers redeem it at once and
\* whatever regeneration runs beside them (recovery.go 181-197, auth.sql 118-125).
SingleUse == \A c \in Codes : spent[c] <= 1

\* Once a regeneration has committed, the codes the user had when it began
\* are gone: no lost or stolen old code can be redeemed (recovery.go 70-74).
OldCodesDie == \A c \in dead : rows[c] = NoRow

\* A user who has had a set never has less than a whole one, spent codes
\* included: no failure leaves fewer codes or none (recovery.go 118-143).
SetNeverShort == \A u \in enrolled : Cardinality(CodesOf(u)) >= SetSize

-----------------------------------------------------------------------------
(* What the source says and the code does not do.                          *)

\* recovery.go 116: "RegenerateRecoveryCodes replaces the user's whole set."
WholeSetReplaced == \A u \in Users : Cardinality(CodesOf(u)) <= SetSize
=============================================================================
