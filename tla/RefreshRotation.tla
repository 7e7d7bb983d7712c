--------------------------- MODULE RefreshRotation ---------------------------
(***************************************************************************)
(* Refresh-token rotation and reuse detection (internal/auth/session.go)   *)
(* over refresh_tokens, one action per SQL statement.  Several handlers    *)
(* run IssueRefreshToken and RotateRefreshToken at once, each inside one   *)
(* db.WithAuthUser transaction.                                            *)
(*                                                                         *)
(* PostgreSQL is modelled as the code relies on it: READ COMMITTED (each   *)
(* statement reads what is committed when it starts), row locks held to    *)
(* the end of the transaction, an UPDATE that waits for a locked row and   *)
(* then tests its WHERE clause again, the partial unique index of          *)
(* migration 00017, the row policy of migration 00013, and advisory locks  *)
(* that COMMIT and ROLLBACK release.  An action that carries the name of a  *)
(* query is that query; what the handler makes of its result, in           *)
(* RotateRefreshToken, is the disjuncts and the next value of pc.          *)
(***************************************************************************)
EXTENDS Naturals, FiniteSets

CONSTANTS
    Procs,      \* handlers of the API; each runs one transaction at a time
    Users,      \* user ids a cookie may claim (WithAuthUser refuses uuid.Nil)
    Tokens,     \* ids of refresh_tokens rows; an id stands for its secret too
    Families,   \* values of family_id
    LockKey,    \* hashtext(family_id): the advisory key of a family
    Lifetime,   \* RefreshTokenLifetime, in ticks of the clock
    MaxClock,   \* bound: the last tick
    NoToken, NoProc, NoRow

Row == [user: Users, family: Families, revoked: BOOLEAN,
        next: Tokens \cup {NoToken}, expires: Nat]

ASSUME ConstantsAssumption ==
    /\ NoToken \notin Tokens
    /\ NoProc \notin Procs
    /\ NoRow \notin Row
    /\ Lifetime \in Nat \ {0}
    /\ MaxClock \in Nat

Keys == {LockKey[f] : f \in Families}

VARIABLES
    rows,       \* committed rows of refresh_tokens, NoRow where there is none
    writes,     \* writes[x]: the row versions x's transaction has not committed
    lock,       \* lock[k]: the transaction that holds advisory key k
    clock,      \* the wall clock
    pc,         \* the statement each handler runs next
    req,        \* what the handler was called with
    seen,       \* `presented`: the row as it was read, before the lock
    targets,    \* candidate rows of a family revocation under way
    fresh,      \* the id of the row this transaction inserts
    answer,     \* what the handler tells its caller
    delivered,  \* tokens whose cookie has reached a client
    burned      \* families whose reuse was reported or whose burning committed

session == <<rows, writes, lock>>
local   == <<pc, req, seen, targets, fresh, answer>>
history == <<delivered, burned>>
vars    == <<session, clock, local, history>>

PC == {"idle", "login", "lookup", "lock", "decide", "revokeFamily", "insert",
       "point", "commit", "rollback"}

Answers == {"none", "cookie", "invalid", "reused", "lost", "conflict", "failed"}

Request == [scope: Users, token: Tokens \cup {NoToken}, now: Nat]

TypeOK ==
    /\ rows \in [Tokens -> Row \cup {NoRow}]
    /\ writes \in [Procs -> [Tokens -> Row \cup {NoRow}]]
    /\ lock \in [Keys -> Procs \cup {NoProc}]
    /\ clock \in Nat
    /\ pc \in [Procs -> PC]
    /\ req \in [Procs -> Request]
    /\ seen \in [Procs -> Row \cup {NoRow}]
    /\ targets \in [Procs -> SUBSET Tokens]
    /\ fresh \in [Procs -> Tokens \cup {NoToken}]
    /\ answer \in [Procs -> Answers]
    /\ delivered \subseteq Tokens
    /\ burned \subseteq Families

Init ==
    /\ rows = [t \in Tokens |-> NoRow]
    /\ writes = [x \in Procs |-> [t \in Tokens |-> NoRow]]
    /\ lock = [k \in Keys |-> NoProc]
    /\ clock = 0
    /\ pc = [x \in Procs |-> "idle"]
    /\ req \in [Procs -> [scope: Users, token: {NoToken}, now: {0}]]
    /\ seen = [x \in Procs |-> NoRow]
    /\ targets = [x \in Procs |-> {}]
    /\ fresh = [x \in Procs |-> NoToken]
    /\ answer = [x \in Procs |-> "none"]
    /\ delivered = {}
    /\ burned = {}

-----------------------------------------------------------------------------
(* What a statement of transaction x sees and what makes it wait.          *)

\* The committed rows with x's own writes on top.
View(x) == [t \in Tokens |-> IF writes[x][t] # NoRow THEN writes[x][t] ELSE rows[t]]

\* Mutant: the policy of migration 00013 is missing.
VisibleToAll(x, r) == r # NoRow

\* Row policy auth_own_sessions: a row exists only for its own user's scope.
Visible(x, r) == r # NoRow /\ r.user = req[x].scope

LiveIn(table, f) ==
    {t \in Tokens : table[t] # NoRow /\ table[t].family = f /\ ~table[t].revoked}

LockedByOther(x, t) == \E y \in Procs \ {x} : writes[y][t] # NoRow

\* An entry of one_live_token_per_family that another transaction is adding
\* or removing: the INSERT waits to learn whether it conflicts.
IndexBusy(x, f) ==
    \E y \in Procs \ {x} :
        \E t \in LiveIn(rows, f) \cup LiveIn(writes[y], f) : writes[y][t] # NoRow

\* Ids are random: no row, committed or not, has them already.
UnusedTokens == {t \in Tokens : rows[t] = NoRow /\ \A y \in Procs : writes[y][t] = NoRow}

UnusedFamilies ==
    {f \in Families : \A t \in Tokens :
        /\ rows[t] # NoRow => rows[t].family # f
        /\ \A y \in Procs : writes[y][t] # NoRow => writes[y][t].family # f}

\* Bound: a transaction starts only if an id is left for its row.
HasRoom == Cardinality({x \in Procs : pc[x] # "idle"})
             < Cardinality({t \in Tokens : rows[t] = NoRow})

-----------------------------------------------------------------------------
(* The statements.  No one of them writes a committed row: Commit does.    *)

Begin(x, u, t, first) ==
    /\ pc[x] = "idle"
    /\ req' = [req EXCEPT ![x] = [scope |-> u, token |-> t, now |-> clock]]
    /\ pc' = [pc EXCEPT ![x] = first]
    /\ seen' = [seen EXCEPT ![x] = NoRow]
    /\ targets' = [targets EXCEPT ![x] = {}]
    /\ fresh' = [fresh EXCEPT ![x] = NoToken]
    /\ answer' = [answer EXCEPT ![x] = "none"]
    /\ UNCHANGED <<session, clock, history>>

BeginLogin(x, u) ==
    /\ HasRoom
    /\ Cardinality({y \in Procs : pc[y] = "login"}) < Cardinality(UnusedFamilies)
    /\ Begin(x, u, NoToken, "login")

\* A cookie is presented: any token a client ever got, as often as clients
\* like and under any claimed user, or a secret that was never issued.
BeginRefresh(x, u, t) ==
    /\ t \in delivered \cup {NoToken}
    /\ t # NoToken => (rows[t].revoked \/ HasRoom)
    /\ Begin(x, u, t, "lookup")

NewRow(u, f, now) ==
    [user |-> u, family |-> f, revoked |-> FALSE, next |-> NoToken,
     expires |-> now + Lifetime]

\* Login: the first row of a family of its own.
IssueRefreshToken(x, t, f) ==
    /\ pc[x] = "login"
    /\ t \in UnusedTokens
    /\ f \in UnusedFamilies
    /\ writes' = [writes EXCEPT ![x][t] = NewRow(req[x].scope, f, req[x].now)]
    /\ fresh' = [fresh EXCEPT ![x] = t]
    /\ answer' = [answer EXCEPT ![x] = "cookie"]
    /\ pc' = [pc EXCEPT ![x] = "commit"]
    /\ UNCHANGED <<rows, lock, clock, req, seen, targets, history>>

\* The row the presented secret hashes to, as far as the policy shows it.
Found(x) == req[x].token # NoToken /\ Visible(x, rows[req[x].token])

\* No row, or none the policy shows: refused, and the transaction commits.
GetRefreshTokenByHash(x) ==
    /\ pc[x] = "lookup"
    /\ \/ /\ Found(x)
          /\ seen' = [seen EXCEPT ![x] = rows[req[x].token]]
          /\ pc' = [pc EXCEPT ![x] = "lock"]
          /\ UNCHANGED answer
       \/ /\ ~Found(x)
          /\ answer' = [answer EXCEPT ![x] = "invalid"]
          /\ pc' = [pc EXCEPT ![x] = "commit"]
          /\ UNCHANGED seen
    /\ UNCHANGED <<session, clock, req, targets, fresh, history>>

\* Mutant: the handler goes on without the family's lock.
LockNothing(x) ==
    /\ pc[x] = "lock"
    /\ pc' = [pc EXCEPT ![x] = "decide"]
    /\ UNCHANGED <<session, clock, req, seen, targets, fresh, answer, history>>

LockRefreshTokenFamily(x) ==
    /\ pc[x] = "lock"
    /\ lock[LockKey[seen[x].family]] = NoProc
    /\ lock' = [lock EXCEPT ![LockKey[seen[x].family]] = x]
    /\ pc' = [pc EXCEPT ![x] = "decide"]
    /\ UNCHANGED <<rows, writes, clock, req, seen, targets, fresh, answer, history>>

\* RevokeRefreshTokenFamily fixes its candidate rows at its own snapshot ...
StartFamilyRevocation(x) ==
    /\ pc[x] = "decide"
    /\ seen[x].revoked
    /\ targets' = [targets EXCEPT ![x] =
           {t \in LiveIn(View(x), seen[x].family) : Visible(x, View(x)[t])}]
    /\ pc' = [pc EXCEPT ![x] = "revokeFamily"]
    /\ UNCHANGED <<session, clock, req, seen, fresh, answer, history>>

\* ... waits for those another transaction has locked, tests them again, and
\* the refusal travels in the outcome so that the caller commits.
FinishFamilyRevocation(x) ==
    /\ pc[x] = "revokeFamily"
    /\ \A t \in targets[x] : ~LockedByOther(x, t)
    /\ writes' = [writes EXCEPT ![x] = [t \in Tokens |->
           IF t \in targets[x] /\ ~View(x)[t].revoked
           THEN [View(x)[t] EXCEPT !.revoked = TRUE]
           ELSE writes[x][t]]]
    /\ answer' = [answer EXCEPT ![x] = "reused"]
    /\ pc' = [pc EXCEPT ![x] = "commit"]
    /\ UNCHANGED <<rows, lock, clock, req, seen, targets, fresh, history>>

\* Mutant: expiry is looked at before reuse.
RefuseExpiredFirst(x) ==
    /\ pc[x] = "decide"
    /\ seen[x].expires <= req[x].now
    /\ answer' = [answer EXCEPT ![x] = "invalid"]
    /\ pc' = [pc EXCEPT ![x] = "commit"]
    /\ UNCHANGED <<session, clock, req, seen, targets, fresh, history>>

\* Expired: refused without touching the family.
RefuseExpired(x) ==
    /\ pc[x] = "decide"
    /\ ~seen[x].revoked
    /\ seen[x].expires <= req[x].now
    /\ answer' = [answer EXCEPT ![x] = "invalid"]
    /\ pc' = [pc EXCEPT ![x] = "commit"]
    /\ UNCHANGED <<session, clock, req, seen, targets, fresh, history>>

\* The write that loses a race: no live row is left to revoke, and the
\* handler returns an error, which rolls the transaction back.
RevokeRefreshTokenIfLive(x) ==
    LET t == req[x].token IN
    /\ pc[x] = "decide"
    /\ ~seen[x].revoked
    /\ seen[x].expires > req[x].now
    /\ ~LockedByOther(x, t)
    /\ \/ /\ Visible(x, View(x)[t]) /\ ~View(x)[t].revoked
          /\ writes' = [writes EXCEPT ![x][t] = [View(x)[t] EXCEPT !.revoked = TRUE]]
          /\ pc' = [pc EXCEPT ![x] = "insert"]
          /\ UNCHANGED answer
       \/ /\ ~(Visible(x, View(x)[t]) /\ ~View(x)[t].revoked)
          /\ answer' = [answer EXCEPT ![x] = "lost"]
          /\ pc' = [pc EXCEPT ![x] = "rollback"]
          /\ UNCHANGED writes
    /\ UNCHANGED <<rows, lock, clock, req, seen, targets, fresh, history>>

\* The successor takes its user and family from the row that was read.
InsertRefreshToken(x, t) ==
    LET f == seen[x].family IN
    /\ pc[x] = "insert"
    /\ t \in UnusedTokens
    /\ ~IndexBusy(x, f)
    /\ \/ /\ LiveIn(View(x), f) = {}
          /\ writes' = [writes EXCEPT ![x][t] = NewRow(seen[x].user, f, req[x].now)]
          /\ fresh' = [fresh EXCEPT ![x] = t]
          /\ pc' = [pc EXCEPT ![x] = "point"]
          /\ UNCHANGED answer
       \/ /\ LiveIn(View(x), f) # {}
          /\ answer' = [answer EXCEPT ![x] = "conflict"]
          /\ pc' = [pc EXCEPT ![x] = "rollback"]
          /\ UNCHANGED <<writes, fresh>>
    /\ UNCHANGED <<rows, lock, clock, req, seen, targets, history>>

\* What two mutants of the next action share.
PointAt(x, version) ==
    /\ pc[x] = "point"
    /\ writes' = [writes EXCEPT ![x] = version]
    /\ answer' = [answer EXCEPT ![x] = "cookie"]
    /\ pc' = [pc EXCEPT ![x] = "commit"]
    /\ UNCHANGED <<rows, lock, clock, req, seen, targets, fresh, history>>

\* Mutant: the row is written back as it was read, before its revocation.
PointStaleRow(x) ==
    PointAt(x, [writes[x] EXCEPT ![req[x].token] = [seen[x] EXCEPT !.next = fresh[x]]])

\* Mutant: every spent token of the family is pointed at the newest.
PointWholeFamily(x) ==
    PointAt(x, [t \in Tokens |->
        IF Visible(x, View(x)[t]) /\ View(x)[t].revoked
        THEN [View(x)[t] EXCEPT !.next = fresh[x]] ELSE writes[x][t]])

\* The back-pointer comes last: its foreign key needs the successor to exist.
SetRefreshTokenReplacedBy(x) ==
    LET t == req[x].token IN
    /\ pc[x] = "point"
    /\ writes' = [writes EXCEPT ![x][t] = [View(x)[t] EXCEPT !.next = fresh[x]]]
    /\ answer' = [answer EXCEPT ![x] = "cookie"]
    /\ pc' = [pc EXCEPT ![x] = "commit"]
    /\ UNCHANGED <<rows, lock, clock, req, seen, targets, fresh, history>>

-----------------------------------------------------------------------------
(* How WithAuthUser ends a transaction.                                    *)

\* Mutant: a session-level lock, which the end of the transaction keeps.
EndTxKeepsLock(x) ==
    /\ writes' = [writes EXCEPT ![x] = [t \in Tokens |-> NoRow]]
    /\ pc' = [pc EXCEPT ![x] = "idle"]
    /\ UNCHANGED <<lock, clock, req, seen, targets, fresh>>

\* The end of the transaction drops its writes and its advisory lock.
EndTx(x) ==
    /\ writes' = [writes EXCEPT ![x] = [t \in Tokens |-> NoRow]]
    /\ lock' = [k \in Keys |-> IF lock[k] = x THEN NoProc ELSE lock[k]]
    /\ pc' = [pc EXCEPT ![x] = "idle"]
    /\ UNCHANGED <<clock, req, seen, targets, fresh>>

Burnt(x) == IF answer[x] = "reused" THEN {seen[x].family} ELSE {}

\* The caller is answered: a cookie reaches the client, reuse is reported.
Tell(x) ==
    /\ delivered' = delivered \cup (IF answer[x] = "cookie" THEN {fresh[x]} ELSE {})
    /\ burned' = burned \cup Burnt(x)
    /\ UNCHANGED answer

Commit(x) ==
    /\ pc[x] = "commit"
    /\ rows' = View(x)
    /\ EndTx(x)
    /\ Tell(x)

Rollback(x) ==
    /\ pc[x] = "rollback"
    /\ EndTx(x)
    /\ Tell(x)
    /\ UNCHANGED rows

\* Mutant: each statement commits on its own, so a failure leaves a half.
FailKeepsWrites(x) ==
    /\ pc[x] # "idle"
    /\ rows' = View(x)
    /\ EndTx(x)
    /\ answer' = [answer EXCEPT ![x] = "failed"]
    /\ UNCHANGED history

\* A query, the commit or the process fails: the database rolls back.
Fail(x) ==
    /\ pc[x] # "idle"
    /\ EndTx(x)
    /\ answer' = [answer EXCEPT ![x] = "failed"]
    /\ UNCHANGED <<rows, history>>

\* The commit takes effect and its acknowledgement, or the response, is lost.
CommitUnheard(x) ==
    /\ pc[x] = "commit"
    /\ rows' = View(x)
    /\ EndTx(x)
    /\ answer' = [answer EXCEPT ![x] = "failed"]
    /\ burned' = burned \cup Burnt(x)
    /\ UNCHANGED delivered

Tick ==
    /\ clock < MaxClock
    /\ clock' = clock + 1
    /\ UNCHANGED <<session, local, history>>

-----------------------------------------------------------------------------

\* The next statement of a transaction that waits for no advisory lock.
Statement(x) ==
    \/ \E t \in Tokens, f \in Families : IssueRefreshToken(x, t, f)
    \/ GetRefreshTokenByHash(x)
    \/ StartFamilyRevocation(x)
    \/ FinishFamilyRevocation(x)
    \/ RefuseExpired(x)
    \/ RevokeRefreshTokenIfLive(x)
    \/ \E t \in Tokens : InsertRefreshToken(x, t)
    \/ SetRefreshTokenReplacedBy(x)
    \/ Commit(x)
    \/ Rollback(x)

Next ==
    \/ \E x \in Procs :
        \/ \E u \in Users : BeginLogin(x, u)
        \/ \E u \in Users, t \in Tokens \cup {NoToken} : BeginRefresh(x, u, t)
        \/ LockRefreshTokenFamily(x)
        \/ Statement(x)
        \/ Fail(x)
        \/ CommitUnheard(x)
    \/ Tick

Spec == Init /\ [][Next]_vars

\* A handler runs its next statement; PostgreSQL queues the waiters of an
\* advisory lock, so a waiter that keeps finding it free gets it.
Fairness == \A x \in Procs :
    /\ WF_vars(Statement(x))
    /\ SF_vars(LockRefreshTokenFamily(x))

FairSpec == Spec /\ Fairness

-----------------------------------------------------------------------------
(* Properties.                                                             *)

Members(f) == {t \in Tokens : rows[t] # NoRow /\ rows[t].family = f}

\* Once reuse of a family's token has been reported, no token of that family
\* is live, whatever rotations were under way at that moment and
\* whatever is presented later (session.go 263-299, auth.sql 25-48).
BurnedFamilyIsDead == \A f \in burned : LiveIn(rows, f) = {}

\* A family whose reuse was never detected has exactly one live token: no
\* crash, lost race or failed statement leaves a session with two tokens or
\* with none (session.go 308-349: revoke, insert and point commit together).
SessionNeverStranded ==
    \A f \in Families \ burned :
        Members(f) # {} => \E t \in Tokens : LiveIn(rows, f) = {t}

\* The rotations of a family form one chain: a spent token names a row of
\* its own family and user, and no row succeeds two tokens (session.go
\* 331-349; auth.sql 16-23 on passing the presented token's family).
ChainIsLinear ==
    \A t \in Tokens : rows[t] # NoRow /\ rows[t].next # NoToken =>
        /\ rows[t].revoked
        /\ rows[rows[t].next] # NoRow
        /\ rows[rows[t].next].family = rows[t].family
        /\ rows[rows[t].next].user = rows[t].user
        /\ \A s \in Tokens : rows[s] # NoRow /\ rows[s].next = rows[t].next => s = t

\* The unique index of migration 00017 is a backstop no rotation ever runs
\* into: the presented row is revoked before its successor is inserted
\* (session.go 308-314) and the family is locked while it happens.
IndexIsOnlyABackstop == \A x \in Procs : answer[x] # "conflict"

\* No step brings a revoked token back, changes a successor once it is set,
\* or moves a row to another user, family or expiry (auth.sql 50-83).
RowsOnlyAge ==
    [][\A t \in Tokens : rows[t] # NoRow =>
        /\ rows'[t] # NoRow
        /\ rows'[t].user = rows[t].user
        /\ rows'[t].family = rows[t].family
        /\ rows'[t].expires = rows[t].expires
        /\ rows[t].revoked => rows'[t].revoked
        /\ rows[t].next # NoToken => rows'[t].next = rows[t].next]_rows

\* A transaction opened under one user's scope, the scope the CLIENT claims,
\* changes no row of another user (00013 52-54, session.go 96-99).
ScopeIsolation ==
    [][\A t \in Tokens : rows'[t] # rows[t] =>
        \E x \in Procs : /\ pc[x] = "commit" /\ pc'[x] = "idle"
                         /\ rows'[t].user = req[x].scope]_rows

\* Every login and every refresh is answered: no handler waits for ever for a
\* family's lock or for a row (auth.sql 43: "no path can leak it").
EveryTransactionEnds == \A x \in Procs : pc[x] # "idle" ~> pc[x] = "idle"

\* A cookie the owner presents after it was spent ends in the family's death
\* or in an infrastructure failure, never in a quiet refusal, provided it
\* was already spent when it was read (session.go 276-299).
SpentTokenKillsFamily ==
    \A x \in Procs :
        pc[x] = "lock" /\ seen[x].revoked
            ~> \/ pc[x] = "idle" /\ answer[x] = "reused"
               \/ answer[x] = "failed"

-----------------------------------------------------------------------------
(* The abstract session a family implements.                               *)

TheOne(S) == IF S = {} THEN NoToken ELSE CHOOSE t \in S : TRUE

abstractCurrent == [f \in Families |-> TheOne(LiveIn(rows, f))]

Abstract == INSTANCE SessionFamily
                WITH members <- [f \in Families |-> Members(f)],
                     current <- abstractCurrent

\* Rotation over the table implements the abstract session: one spendable
\* token at a time, dead for good only after some token had been spent.
ImplementsSessionFamily == Abstract!Spec

-----------------------------------------------------------------------------
(* What the source says and the code does not do.                          *)

\* session.go 22-29: "the moment both copies are used, every token in the
\* family dies", "whoever refreshes second is refused, and both are logged out".
SecondUseKillsFamily ==
    \A x \in Procs : pc[x] = "idle" /\ answer[x] \in {"reused", "lost"}
        => LiveIn(rows, seen[x].family) = {}
=============================================================================
