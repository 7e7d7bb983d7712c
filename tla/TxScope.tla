-------------------------------- MODULE TxScope --------------------------------
(***************************************************************************)
(* The transaction wrappers of internal/db (tenant.go, auth.go) over their *)
(* connection pools (db.go): every call takes a pooled connection, opens a *)
(* transaction, sets the row scope for that transaction only, runs the     *)
(* caller's function and commits, or rolls back on an error or a panic.    *)
(* What pgxpool and PostgreSQL do is modelled from how the wrappers use    *)
(* them: a local setting reverts at the end of the transaction, to the     *)
(* empty string and not to NULL; COMMIT of an aborted transaction rolls    *)
(* back and is an error; a connection whose COMMIT or ROLLBACK fails is    *)
(* closed.                                                                 *)
(***************************************************************************)
EXTENDS Naturals, FiniteSets

CONSTANTS
    Calls,      \* goroutines, each in one wrapper at a time
    Slots,      \* the connections a pool may hold open (maxConns of them)
    Owners,     \* shelters and users: whoever a row belongs to
    Nil,        \* uuid.Nil; also the owner of an unscoped call
    Null,       \* a setting that was never set on the connection
    Empty,      \* a setting that was reverted: ''
    NoConn

ASSUME ConstantsAssumption ==
    /\ Slots # {} /\ IsFiniteSet(Slots)
    /\ Nil \notin Owners
    /\ Null \notin Owners /\ Empty \notin Owners /\ Null # Empty
    /\ NoConn \notin {"tenant", "auth", "public"} \X Slots

\* One pool per role: a wrapper never runs on another's.
PoolOf == [WithTenant |-> "tenant", WithAuthUser |-> "auth",
           WithAuthLookup |-> "auth", WithPublic |-> "public"]

Wrappers == DOMAIN PoolOf
Scoped   == {"WithTenant", "WithAuthUser"}      \* set app.shelter_id, app.user_id
Conns    == {"tenant", "auth", "public"} \X Slots

VARIABLES
    open,       \* connections a pool holds
    session,    \* session[c]: the setting outside any transaction
    local,      \* local[c]: the setting of c's transaction, or Null
    tx,         \* tx[c]: none, open or aborted
    pending,    \* pending[c]: uncommitted writes, pairs of a call and an owner
    pc, at,     \* the next step of a call, and the connection it holds
    wrapper, owner,
    exit,       \* how the callback ended
    result,     \* what the wrapper gave its caller
    saw,        \* saw[r]: owners whose rows the call has read
    wrote,      \* wrote[r]: owners whose rows the call has written
    durable     \* committed writes of the calls

conn == <<open, session, local, tx, pending>>
call == <<pc, at, wrapper, owner, exit, result>>
seen == <<saw, wrote>>
vars == <<conn, call, seen, durable>>

TypeOK ==
    /\ open \subseteq Conns
    /\ session \in [Conns -> Owners \cup {Null, Empty}]
    /\ local \in [Conns -> Owners \cup {Null}]
    /\ tx \in [Conns -> {"none", "open", "aborted"}]
    /\ pending \in [Conns -> SUBSET (Calls \X Owners)]
    /\ pc \in [Calls -> {"idle", "begin", "scope", "fn", "commit", "rollback"}]
    /\ at \in [Calls -> Conns \cup {NoConn}]
    /\ wrapper \in [Calls -> Wrappers]
    /\ owner \in [Calls -> Owners \cup {Nil}]
    /\ exit \in [Calls -> {"none", "nil", "error", "panic"}]
    /\ result \in [Calls -> {"none", "ok", "error", "panic"}]
    /\ saw \in [Calls -> SUBSET Owners] /\ wrote \in [Calls -> SUBSET Owners]
    /\ durable \subseteq Calls \X Owners

Init ==
    /\ open = {}
    /\ session = [c \in Conns |-> Null] /\ local = [c \in Conns |-> Null]
    /\ tx = [c \in Conns |-> "none"] /\ pending = [c \in Conns |-> {}]
    /\ pc = [r \in Calls |-> "idle"] /\ at = [r \in Calls |-> NoConn]
    /\ wrapper = [r \in Calls |-> "WithPublic"] /\ owner = [r \in Calls |-> Nil]
    /\ exit = [r \in Calls |-> "none"] /\ result = [r \in Calls |-> "none"]
    /\ saw = [r \in Calls |-> {}] /\ wrote = [r \in Calls |-> {}]
    /\ durable = {}

-----------------------------------------------------------------------------
(* Opening a transaction.                                                  *)

\* Nil is refused before any transaction is opened.
Call(r, w, o) ==
    /\ pc[r] = "idle"
    /\ w \notin Scoped => o = Nil
    /\ wrapper' = [wrapper EXCEPT ![r] = w]
    /\ owner' = [owner EXCEPT ![r] = o]
    /\ exit' = [exit EXCEPT ![r] = "none"]
    /\ saw' = [saw EXCEPT ![r] = {}] /\ wrote' = [wrote EXCEPT ![r] = {}]
    /\ durable' = {d \in durable : d[1] # r}
    /\ \/ /\ w \in Scoped => o # Nil
          /\ pc' = [pc EXCEPT ![r] = "begin"]
          /\ result' = [result EXCEPT ![r] = "none"]
       \/ /\ w \in Scoped /\ o = Nil
          /\ result' = [result EXCEPT ![r] = "error"]
          /\ UNCHANGED pc
    /\ UNCHANGED <<conn, at>>

Taken(c)   == \E r \in Calls : at[r] = c
IdleOf(p)  == {c \in open : c[1] = p /\ ~Taken(c)}

\* The pool lends an idle connection, opens one while it may, or makes the
\* call wait.
Begin(r, c) ==
    LET p == PoolOf[wrapper[r]] IN
    /\ pc[r] = "begin"
    /\ c[1] = p
    /\ c \in IdleOf(p) \/ (IdleOf(p) = {} /\ c \notin open)
    /\ open' = open \cup {c}
    /\ at' = [at EXCEPT ![r] = c]
    /\ tx' = [tx EXCEPT ![c] = "open"]
    /\ pc' = [pc EXCEPT ![r] = IF wrapper[r] \in Scoped THEN "scope" ELSE "fn"]
    /\ UNCHANGED <<session, local, pending, wrapper, owner, exit, result, seen, durable>>

\* No connection in time, or BEGIN fails.
BeginFails(r) ==
    /\ pc[r] = "begin"
    /\ pc' = [pc EXCEPT ![r] = "idle"]
    /\ result' = [result EXCEPT ![r] = "error"]
    /\ UNCHANGED <<conn, at, wrapper, owner, exit, seen, durable>>

\* Mutant: set_config(..., false), which outlives the transaction.
SetScopeForSession(r) ==
    /\ pc[r] = "scope"
    /\ session' = [session EXCEPT ![at[r]] = owner[r]]
    /\ pc' = [pc EXCEPT ![r] = "fn"]
    /\ UNCHANGED <<open, local, tx, pending, at, wrapper, owner, exit, result, seen, durable>>

\* set_config(..., true): local to the transaction.
SetScope(r) ==
    /\ pc[r] = "scope"
    /\ local' = [local EXCEPT ![at[r]] = owner[r]]
    /\ pc' = [pc EXCEPT ![r] = "fn"]
    /\ UNCHANGED <<open, session, tx, pending, at, wrapper, owner, exit, result, seen, durable>>

SetScopeFails(r) ==
    /\ pc[r] = "scope"
    /\ tx' = [tx EXCEPT ![at[r]] = "aborted"]
    /\ exit' = [exit EXCEPT ![r] = "error"]
    /\ pc' = [pc EXCEPT ![r] = "rollback"]
    /\ UNCHANGED <<open, session, local, pending, at, wrapper, owner, result, seen, durable>>

-----------------------------------------------------------------------------
(* What the callback may do with the transaction.                          *)

Setting(c) == IF local[c] # Null THEN local[c] ELSE session[c]

\* nullif(current_setting(..., true), ''), which every policy reads.
NullIf(v) == IF v = Empty THEN Null ELSE v

\* A query of a table that a policy guards: casting '' to uuid would raise.
Read(r) ==
    LET c == at[r]
        v == NullIf(Setting(c)) IN
    /\ pc[r] = "fn" /\ tx[c] = "open"
    /\ saw' = [saw EXCEPT ![r] = @ \cup (Owners \cap {v})]
    /\ tx' = [tx EXCEPT ![c] = IF v = Empty THEN "aborted" ELSE @]
    /\ UNCHANGED <<open, session, local, pending, call, wrote, durable>>

\* A write is refused by the row policy for another owner's row, and by the
\* transaction where it was opened READ ONLY.
Write(r, o) ==
    LET c == at[r] IN
    /\ pc[r] = "fn" /\ tx[c] = "open"
    /\ \/ /\ NullIf(Setting(c)) = o /\ wrapper[r] \in Scoped
          /\ pending' = [pending EXCEPT ![c] = @ \cup {<<r, o>>}]
          /\ wrote' = [wrote EXCEPT ![r] = @ \cup {o}]
          /\ UNCHANGED tx
       \/ /\ ~(NullIf(Setting(c)) = o /\ wrapper[r] \in Scoped)
          /\ tx' = [tx EXCEPT ![c] = "aborted"]
          /\ UNCHANGED <<pending, wrote>>
    /\ UNCHANGED <<open, session, local, call, saw, durable>>

\* Any statement may fail; the callback may return the error or swallow it.
StatementFails(r) ==
    /\ pc[r] = "fn" /\ tx[at[r]] = "open"
    /\ tx' = [tx EXCEPT ![at[r]] = "aborted"]
    /\ UNCHANGED <<open, session, local, pending, call, seen, durable>>

\* Mutant: the callback's error is dropped.
CommitWhatever(r, how) ==
    /\ pc[r] = "fn"
    /\ exit' = [exit EXCEPT ![r] = how]
    /\ pc' = [pc EXCEPT ![r] = IF how = "panic" THEN "rollback" ELSE "commit"]
    /\ UNCHANGED <<conn, at, wrapper, owner, result, seen, durable>>

Return(r, how) ==
    /\ pc[r] = "fn"
    /\ exit' = [exit EXCEPT ![r] = how]
    /\ pc' = [pc EXCEPT ![r] = IF how = "nil" THEN "commit" ELSE "rollback"]
    /\ UNCHANGED <<conn, at, wrapper, owner, result, seen, durable>>

-----------------------------------------------------------------------------
(* Ending it.                                                              *)

\* The transaction is over: the setting reverts and the connection goes back.
Release(r) ==
    LET c == at[r] IN
    /\ session' = [session EXCEPT ![c] = IF local[c] # Null /\ @ = Null THEN Empty ELSE @]
    /\ local' = [local EXCEPT ![c] = Null]
    /\ tx' = [tx EXCEPT ![c] = "none"]
    /\ pending' = [pending EXCEPT ![c] = {}]
    /\ at' = [at EXCEPT ![r] = NoConn]
    /\ pc' = [pc EXCEPT ![r] = "idle"]
    /\ UNCHANGED <<open, wrapper, owner, exit, seen>>

\* The connection is lost or its state unknown: it is closed, not lent again.
Drop(r) ==
    LET c == at[r] IN
    /\ open' = open \ {c}
    /\ session' = [session EXCEPT ![c] = Null]
    /\ local' = [local EXCEPT ![c] = Null]
    /\ tx' = [tx EXCEPT ![c] = "none"]
    /\ pending' = [pending EXCEPT ![c] = {}]
    /\ at' = [at EXCEPT ![r] = NoConn]
    /\ pc' = [pc EXCEPT ![r] = "idle"]
    /\ UNCHANGED <<wrapper, owner, exit, seen>>

Applied(r) == IF tx[at[r]] = "open" THEN pending[at[r]] ELSE {}

Commit(r) ==
    /\ pc[r] = "commit"
    /\ durable' = durable \cup Applied(r)
    /\ result' = [result EXCEPT ![r] = IF tx[at[r]] = "open" THEN "ok" ELSE "error"]
    /\ Release(r)

\* The connection breaks on COMMIT: the caller gets an error either way.
CommitBreaks(r) ==
    /\ pc[r] = "commit"
    /\ durable' \in {durable, durable \cup Applied(r)}
    /\ result' = [result EXCEPT ![r] = "error"]
    /\ Drop(r)

\* Mutant: the deferred function only looks at panics.
RollbackOnPanic(r) ==
    /\ pc[r] = "rollback"
    /\ result' = [result EXCEPT ![r] = exit[r]]
    /\ \/ /\ exit[r] = "panic"
          /\ Release(r)
       \/ /\ exit[r] # "panic"
          /\ pc' = [pc EXCEPT ![r] = "idle"]
          /\ UNCHANGED <<conn, at, wrapper, owner, exit, seen>>
    /\ UNCHANGED durable

\* A panic is raised again once the transaction is closed.
Rollback(r) ==
    /\ pc[r] = "rollback"
    /\ result' = [result EXCEPT ![r] = exit[r]]
    /\ Release(r)
    /\ UNCHANGED durable

\* ROLLBACK fails, as under a cancelled context.
RollbackBreaks(r) ==
    /\ pc[r] = "rollback"
    /\ result' = [result EXCEPT ![r] = exit[r]]
    /\ Drop(r)
    /\ UNCHANGED durable

\* Idle connections are closed after maxConnIdleTime or maxConnLifetime.
Recycle(c) ==
    /\ c \in open /\ ~Taken(c)
    /\ open' = open \ {c}
    /\ session' = [session EXCEPT ![c] = Null]
    /\ UNCHANGED <<local, tx, pending, call, seen, durable>>

\* One step of the call r, after it has been made.
Step(r) ==
    \/ \E c \in Conns : Begin(r, c)
    \/ BeginFails(r)
    \/ SetScope(r)
    \/ SetScopeFails(r)
    \/ Read(r)
    \/ \E o \in Owners : Write(r, o)
    \/ StatementFails(r)
    \/ \E how \in {"nil", "error", "panic"} : Return(r, how)
    \/ Commit(r)
    \/ CommitBreaks(r)
    \/ Rollback(r)
    \/ RollbackBreaks(r)

Next ==
    \/ \E r \in Calls, w \in Wrappers, o \in Owners \cup {Nil} : Call(r, w, o)
    \/ \E r \in Calls : Step(r)
    \/ \E c \in Conns : Recycle(c)

Spec == Init /\ [][Next]_vars

\* The pool serves waiting calls in order, callbacks return, and a statement is
\* answered or fails.
Fairness == \A r \in Calls :
    /\ SF_vars(\E c \in Conns : Begin(r, c))
    /\ WF_vars(SetScope(r))
    /\ WF_vars(\E how \in {"nil", "error", "panic"} : Return(r, how))
    /\ WF_vars(Commit(r))
    /\ WF_vars(Rollback(r))

FairSpec == Spec /\ Fairness

-----------------------------------------------------------------------------
(* Properties.                                                             *)

\* A call reads and writes rows of the shelter or user it was opened for, and
\* an unscoped call none of a guarded table, whatever ran before on the same
\* connection (tenant.go 52-66, auth.go 32-42, 88-92).
ScopeIsolation == \A r \in Calls : saw[r] \cup wrote[r] \subseteq {owner[r]}

\* A connection goes back to its pool with no transaction, no uncommitted write
\* and no scope (tenant.go 57-63), however its last call ended.
IdleIsClean == \A c \in Conns : ~Taken(c) =>
    /\ tx[c] = "none"
    /\ pending[c] = {}
    /\ Setting(c) \in {Null, Empty}

\* The writes of a call are committed together or not at all: all of them when
\* the wrapper reports success, none when the callback failed or panicked.
AllOrNothing == \A r \in Calls :
    LET committed == {o \in Owners : <<r, o>> \in durable} IN
    /\ committed \in {{}, wrote[r]}
    /\ result[r] = "ok" => committed = wrote[r]
    /\ exit[r] \in {"error", "panic"} => committed = {}

\* Every call returns, so no failed one keeps its connection from the others.
EveryCallEnds == \A r \in Calls : pc[r] # "idle" ~> pc[r] = "idle"
=============================================================================
