-------------------------- MODULE TenantBoundary_proofs --------------------------
(***************************************************************************)
(* Proofs about the transaction wrappers, the tokens and the tenant        *)
(* boundary that is built on both, for any users, shelters, requests,      *)
(* pools, connections and lifetimes.                                       *)
(*                                                                         *)
(* The invariant of the wrappers says of every call what its connection    *)
(* holds: its own uncommitted writes and no other's, and its own scope or  *)
(* none; and of every connection that no two calls share it, and that one  *)
(* nobody holds is clean.  It holds under the middleware too, whose steps  *)
(* are the wrappers' or reset an idle call; to it comes what the claims of *)
(* a request go back to, and that they are what its transaction was opened *)
(* for.                                                                    *)
(***************************************************************************)
EXTENDS TenantBoundary, TLAPS

-----------------------------------------------------------------------------
(* The wrappers.                                                           *)

Holding == {"scope", "fn", "commit", "rollback"}

Committed(r) == {o \in Owners : <<r, o>> \in durable}

\* What is true of one call and of the connection it holds.
CallOK(r) ==
    /\ at[r] # NoConn <=> pc[r] \in Holding
    /\ at[r] # NoConn =>
         /\ at[r] \in open
         /\ tx[at[r]] # "none"
         /\ local[at[r]] \in {Null, owner[r]}
         /\ \A p : p \in pending[at[r]] <=> p \in {<<r, o>> : o \in wrote[r]}
    /\ saw[r] \subseteq {owner[r]} /\ wrote[r] \subseteq {owner[r]}
    /\ pc[r] \in {"begin", "scope"} => wrote[r] = {}
    /\ pc[r] # "idle" /\ wrapper[r] \in Scoped => owner[r] \in Owners
    /\ pc[r] = "scope" => wrapper[r] \in Scoped
    /\ pc[r] \in {"begin", "scope", "fn"} => exit[r] = "none"
    /\ pc[r] = "commit" => exit[r] = "nil"
    /\ pc[r] = "rollback" => exit[r] \in {"error", "panic"}
    /\ pc[r] # "idle" => result[r] = "none" /\ Committed(r) = {}

Outcome(r) ==
    /\ Committed(r) \in {{}, wrote[r]}
    /\ result[r] = "ok" => Committed(r) = wrote[r]
    /\ exit[r] \in {"error", "panic"} => Committed(r) = {}

Exclusive == \A r, q \in Calls : at[r] = at[q] /\ at[r] # NoConn => r = q

CleanSessions == \A c \in Conns : session[c] \in {Null, Empty}

IdleConns == \A c \in Conns : ~Taken(c) =>
    /\ tx[c] = "none"
    /\ pending[c] = {}
    /\ local[c] = Null

IInv ==
    /\ TypeOK
    /\ Exclusive
    /\ CleanSessions
    /\ IdleConns
    /\ \A r \in Calls : CallOK(r) /\ Outcome(r)

-----------------------------------------------------------------------------

\* What a step leaves alone of another call and of its connection.
Same(q) ==
    /\ pc'[q] = pc[q] /\ at'[q] = at[q]
    /\ wrapper'[q] = wrapper[q] /\ owner'[q] = owner[q]
    /\ exit'[q] = exit[q] /\ result'[q] = result[q]
    /\ saw'[q] = saw[q] /\ wrote'[q] = wrote[q]
    /\ Committed(q)' = Committed(q)
    /\ at[q] # NoConn =>
         /\ at[q] \in open'
         /\ tx'[at[q]] = tx[at[q]] /\ pending'[at[q]] = pending[at[q]]
         /\ local'[at[q]] = local[at[q]]

\* A call that a step leaves alone keeps its part of the invariant.
LEMMA Frame ==
  ASSUME NEW q \in Calls, Same(q)
  PROVE  /\ CallOK(q) => CallOK(q)'
         /\ Outcome(q) => Outcome(q)'
  BY DEF Same, CallOK, Outcome

\* The initial state satisfies the invariant.
LEMMA InitIInv == Init => IInv
  <1> SUFFICES ASSUME Init PROVE IInv
    OBVIOUS
  <1>1. TypeOK
    BY DEF Init, TypeOK, Wrappers, PoolOf
  <1>2. Exclusive /\ CleanSessions /\ IdleConns
    BY DEF Init, Exclusive, CleanSessions, IdleConns
  <1>3. ASSUME NEW r \in Calls PROVE CallOK(r) /\ Outcome(r)
    BY DEF Init, CallOK, Outcome, Holding, Committed
  <1>4. QED
    BY <1>1, <1>2, <1>3 DEF IInv

\* A step of one call that keeps its connection, or none, from the others.
LEMMA OneCallSteps ==
  ASSUME IInv, NEW r \in Calls, TypeOK', CallOK(r)', Outcome(r)',
         \A q \in Calls \ {r} : Same(q),
         Exclusive', CleanSessions', IdleConns'
  PROVE  IInv'
  <1>1. ASSUME NEW q \in Calls PROVE CallOK(q)' /\ Outcome(q)'
    BY Frame DEF IInv
  <1>2. QED
    BY <1>1 DEF IInv

\* A call that neither takes nor gives back a connection.
LEMMA InPlace ==
  ASSUME IInv, NEW r \in Calls, at' = at, session' = session,
         \A c \in Conns : ~Taken(c) =>
            tx'[c] = tx[c] /\ pending'[c] = pending[c] /\ local'[c] = local[c]
  PROVE  Exclusive' /\ CleanSessions' /\ IdleConns'
  <1>1. Exclusive'
    BY DEF IInv, Exclusive
  <1>2. CleanSessions'
    BY DEF IInv, CleanSessions
  <1>3. \A c : Taken(c)' <=> Taken(c)
    BY DEF Taken
  <1>4. IdleConns'
    BY <1>3 DEF IInv, IdleConns
  <1>5. QED
    BY <1>1, <1>2, <1>4

\* NoConn is not a connection.
LEMMA NoConnIsNoConnection == NoConn \notin Conns
  BY ConstantsAssumption DEF Conns

\* The connection of one call is no other call's.
LEMMA OtherConns ==
  ASSUME IInv, NEW r \in Calls, NEW q \in Calls \ {r}, at[q] # NoConn
  PROVE  at[q] # at[r] /\ at[q] \in Conns
  BY DEF IInv, Exclusive, TypeOK

\* Entering a wrapper preserves the invariant.
LEMMA CallStep ==
  ASSUME IInv, NEW r \in Calls, NEW w \in Wrappers, NEW o \in Owners \cup {Nil}, Call(r, w, o)
  PROVE  IInv'
  <1>1. TypeOK'
    BY DEF IInv, TypeOK, Call, conn
  <1>2. Committed(r)' = {} /\ \A q \in Calls \ {r} : Committed(q)' = Committed(q)
    BY DEF Call, Committed
  <1>3. \A q \in Calls \ {r} : Same(q)
    BY <1>2 DEF IInv, TypeOK, Call, conn, Same, CallOK
  <1>4. CallOK(r)' /\ Outcome(r)'
    BY <1>2, ConstantsAssumption DEF IInv, TypeOK, Call, conn, CallOK, Outcome, Holding
  <1>5. Exclusive' /\ CleanSessions' /\ IdleConns'
    BY InPlace DEF Call, conn
  <1>6. QED
    BY <1>1, <1>3, <1>4, <1>5, OneCallSteps

\* Taking an idle connection, or a new one, preserves the invariant.
LEMMA BeginStep ==
  ASSUME IInv, NEW r \in Calls, NEW c \in Conns, Begin(r, c)
  PROVE  IInv'
  <1>1. ~Taken(c) /\ at[r] = NoConn /\ NoConn # c
    <2>0. NoConn # c
      BY NoConnIsNoConnection
    <2>1. at[r] = NoConn
      BY DEF IInv, CallOK, Begin, Holding
    <2>2. c \in open => ~Taken(c)
      BY DEF Begin, IdleOf
    <2>3. c \notin open => ~Taken(c)
      BY <2>0 DEF IInv, CallOK, Taken
    <2>4. QED
      BY <2>0, <2>1, <2>2, <2>3
  <1>2. TypeOK'
    BY DEF IInv, TypeOK, Begin, seen
  <1>3. \A q \in Calls : Committed(q)' = Committed(q)
    BY DEF Begin, Committed
  <1>4. \A q \in Calls \ {r} : Same(q)
    BY <1>1, <1>3 DEF IInv, TypeOK, CallOK, Begin, seen, Same, Taken
  <1>5. CallOK(r)'
    <2>1. at'[r] = c /\ c \in open' /\ tx'[c] = "open" /\ local'[c] = Null /\ pending'[c] = {}
      BY <1>1 DEF IInv, TypeOK, IdleConns, Begin
    <2>2. /\ pc'[r] \in {"scope", "fn"} /\ wrote'[r] = {} /\ saw'[r] \subseteq {owner'[r]}
          /\ exit'[r] = "none" /\ result'[r] = "none" /\ Committed(r)' = {}
      BY <1>3 DEF IInv, TypeOK, CallOK, Begin, seen
    <2>3. /\ wrapper'[r] \in Scoped => owner'[r] \in Owners
          /\ pc'[r] = "scope" => wrapper'[r] \in Scoped
      BY DEF IInv, TypeOK, CallOK, Begin
    <2>4. QED
      BY <1>1, <2>1, <2>2, <2>3 DEF CallOK, Holding
  <1>6. Outcome(r)'
    BY <1>3 DEF IInv, Outcome, Begin, seen
  <1>7. Exclusive'
    BY <1>1 DEF IInv, TypeOK, Exclusive, Begin, Taken
  <1>8. CleanSessions'
    BY DEF IInv, CleanSessions, Begin
  <1>9. IdleConns'
    <2>1. at' = [at EXCEPT ![r] = c] /\ at \in [Calls -> Conns \cup {NoConn}]
      BY DEF IInv, TypeOK, Begin
    <2>2. ASSUME NEW d \in Conns, ~Taken(d)' PROVE ~Taken(d) /\ d # c
      BY <1>1, <2>1, <2>2, NoConnIsNoConnection DEF Taken
    <2>3. QED
      BY <2>2 DEF IInv, TypeOK, IdleConns, Begin
  <1>10. QED
    BY <1>2, <1>4, <1>5, <1>6, <1>7, <1>8, <1>9, OneCallSteps

\* A call that gets no connection ends with an error and nothing written.
LEMMA BeginFailsStep ==
  ASSUME IInv, NEW r \in Calls, BeginFails(r)
  PROVE  IInv'
  <1>1. TypeOK'
    BY DEF IInv, TypeOK, BeginFails, conn, seen
  <1>2. \A q \in Calls : Committed(q)' = Committed(q)
    BY DEF BeginFails, Committed
  <1>3. \A q \in Calls \ {r} : Same(q)
    BY <1>2 DEF IInv, TypeOK, BeginFails, conn, seen, Same, CallOK
  <1>4. CallOK(r)' /\ Outcome(r)'
    BY <1>2 DEF IInv, TypeOK, BeginFails, conn, seen, CallOK, Outcome, Holding
  <1>5. Exclusive' /\ CleanSessions' /\ IdleConns'
    BY InPlace DEF BeginFails, conn
  <1>6. QED
    BY <1>1, <1>3, <1>4, <1>5, OneCallSteps

\* What every step inside a transaction starts from.
LEMMA Inside ==
  ASSUME IInv, NEW r \in Calls, pc[r] \in Holding
  PROVE  /\ at[r] \in Conns /\ at[r] # NoConn /\ Taken(at[r])
         /\ at[r] \in open /\ tx[at[r]] \in {"open", "aborted"}
         /\ local[at[r]] \in {Null, owner[r]}
         /\ Setting(at[r]) \in {Null, Empty, owner[r]}
         /\ result[r] = "none" /\ Committed(r) = {}
  BY DEF IInv, TypeOK, CallOK, CleanSessions, Setting, Taken, Holding

\* set_config, and a failed one, preserve the invariant.
LEMMA ScopeStep ==
  ASSUME IInv, NEW r \in Calls, SetScope(r) \/ SetScopeFails(r)
  PROVE  IInv'
  <1> DEFINE c == at[r]
  <1>1. c \in Conns /\ c # NoConn /\ Taken(c) /\ tx[c] # "none"
    BY Inside DEF SetScope, SetScopeFails, Holding
  <1>2. pc[r] = "scope" /\ at' = at /\ session' = session /\ open' = open /\ owner' = owner
    BY DEF SetScope, SetScopeFails
  <1>3. TypeOK'
    <2>1. CASE SetScope(r)
      <3>1. owner[r] \in Owners
        BY <1>2 DEF IInv, CallOK
      <3>2. QED
        BY <1>1, <2>1, <3>1 DEF IInv, TypeOK, SetScope, seen
    <2>2. CASE SetScopeFails(r)
      BY <1>1, <2>2 DEF IInv, TypeOK, SetScopeFails, seen
    <2>3. QED
      BY <2>1, <2>2
  <1>4. \A q \in Calls : Committed(q)' = Committed(q)
    BY DEF SetScope, SetScopeFails, Committed
  <1>5. \A q \in Calls \ {r} : Same(q)
    BY <1>1, <1>4, OtherConns DEF IInv, TypeOK, SetScope, SetScopeFails, seen, Same, CallOK
  <1>6. CallOK(r)' /\ Outcome(r)'
    BY <1>1, <1>2, <1>4 DEF IInv, TypeOK, SetScope, SetScopeFails, seen, CallOK, Outcome, Holding
  <1>7. Exclusive' /\ CleanSessions' /\ IdleConns'
    BY <1>1, <1>2, InPlace DEF IInv, TypeOK, SetScope, SetScopeFails
  <1>8. QED
    BY <1>3, <1>5, <1>6, <1>7, OneCallSteps

\* Reading guarded rows preserves the invariant: the setting is the call's own
\* owner, or none.
LEMMA ReadStep ==
  ASSUME IInv, NEW r \in Calls, Read(r)
  PROVE  IInv'
  <1> DEFINE c == at[r]
             v == NullIf(Setting(c))
  <1>1. /\ c \in Conns /\ c # NoConn /\ Taken(c) /\ tx[c] = "open"
        /\ Setting(c) \in {Null, Empty, owner[r]}
    BY Inside DEF Read, Holding
  <1>2. v \in {Null, owner[r]} /\ (v \in Owners => v = owner[r])
    BY <1>1, ConstantsAssumption DEF NullIf
  <1>3. v # Empty
    BY <1>1, ConstantsAssumption DEF NullIf
  <1>4. UNCHANGED tx
    BY <1>1, <1>3 DEF Read, IInv, TypeOK
  <1>5. saw'[r] \subseteq {owner[r]} /\ saw' \in [Calls -> SUBSET Owners]
    BY <1>2 DEF Read, IInv, TypeOK, CallOK
  <1>6. TypeOK'
    BY <1>4, <1>5 DEF IInv, TypeOK, Read, call
  <1>7. \A q \in Calls : Committed(q)' = Committed(q)
    BY DEF Read, Committed
  <1>8. \A q \in Calls \ {r} : Same(q)
    BY <1>4, <1>7 DEF IInv, TypeOK, Read, call, Same, CallOK
  <1>9. CallOK(r)' /\ Outcome(r)'
    BY <1>4, <1>5, <1>7 DEF IInv, TypeOK, Read, call, CallOK, Outcome
  <1>10. Exclusive' /\ CleanSessions' /\ IdleConns'
    BY <1>4, InPlace DEF Read, call
  <1>11. QED
    BY <1>6, <1>8, <1>9, <1>10, OneCallSteps

\* Writing a row preserves the invariant: it is the owner's, or refused.
LEMMA WriteStep ==
  ASSUME IInv, NEW r \in Calls, NEW o \in Owners, Write(r, o)
  PROVE  IInv'
  <1> DEFINE c == at[r]
  <1>1. /\ c \in Conns /\ c # NoConn /\ Taken(c) /\ tx[c] = "open"
        /\ Setting(c) \in {Null, Empty, owner[r]}
        /\ Committed(r) = {} /\ pc[r] = "fn"
    BY Inside DEF Write, Holding
  <1>2. /\ at' = at /\ session' = session /\ local' = local /\ open' = open /\ owner' = owner
        /\ pc' = pc /\ wrapper' = wrapper /\ exit' = exit /\ result' = result /\ saw' = saw
        /\ durable' = durable
    BY DEF Write, call
  <1>3. \A q \in Calls : Committed(q)' = Committed(q)
    BY <1>2 DEF Committed
  <1>4. CASE NullIf(Setting(c)) = o /\ wrapper[r] \in Scoped
    <2>1. o = owner[r]
      BY <1>1, <1>4, ConstantsAssumption DEF NullIf
    <2>2. /\ pending' = [pending EXCEPT ![c] = @ \cup {<<r, o>>}]
          /\ wrote' = [wrote EXCEPT ![r] = @ \cup {o}]
          /\ tx' = tx
      BY <1>4 DEF Write
    <2>3. TypeOK'
      BY <1>1, <1>2, <2>2 DEF IInv, TypeOK
    <2>4. \A q \in Calls \ {r} : Same(q)
      BY <1>1, <1>2, <1>3, <2>2, OtherConns DEF IInv, TypeOK, Same, CallOK
    <2>5. wrote'[r] = wrote[r] \cup {o} /\ pending'[c] = pending[c] \cup {<<r, o>>}
      BY <1>1, <2>2 DEF IInv, TypeOK
    <2>6. \A p : p \in pending'[c] <=> p \in {<<r, x>> : x \in wrote'[r]}
      BY <1>1, <2>5 DEF IInv, CallOK
    <2>7. CallOK(r)'
      BY <1>1, <1>2, <1>3, <2>1, <2>2, <2>5, <2>6 DEF IInv, TypeOK, CallOK, Holding
    <2>8. Outcome(r)'
      BY <1>1, <1>2, <1>3, Inside DEF IInv, TypeOK, CallOK, Outcome, Holding
    <2>9. Exclusive' /\ CleanSessions' /\ IdleConns'
      BY <1>1, <1>2, <2>2, InPlace DEF IInv, TypeOK
    <2>10. QED
      BY <2>3, <2>4, <2>7, <2>8, <2>9, OneCallSteps
  <1>5. CASE ~(NullIf(Setting(c)) = o /\ wrapper[r] \in Scoped)
    <2>1. tx' = [tx EXCEPT ![c] = "aborted"] /\ pending' = pending /\ wrote' = wrote
      BY <1>5 DEF Write
    <2>2. TypeOK'
      BY <1>1, <1>2, <2>1 DEF IInv, TypeOK
    <2>3. \A q \in Calls \ {r} : Same(q)
      BY <1>1, <1>2, <1>3, <2>1, OtherConns DEF IInv, TypeOK, Same, CallOK
    <2>4. CallOK(r)' /\ Outcome(r)'
      BY <1>1, <1>2, <1>3, <2>1 DEF IInv, TypeOK, CallOK, Outcome
    <2>5. Exclusive' /\ CleanSessions' /\ IdleConns'
      BY <1>1, <1>2, <2>1, InPlace DEF IInv, TypeOK
    <2>6. QED
      BY <2>2, <2>3, <2>4, <2>5, OneCallSteps
  <1>6. QED
    BY <1>4, <1>5

\* A failed statement and the return of the callback preserve the invariant.
LEMMA CallbackStep ==
  ASSUME IInv, NEW r \in Calls, NEW how \in {"nil", "error", "panic"},
         StatementFails(r) \/ Return(r, how)
  PROVE  IInv'
  <1>1. /\ at[r] \in Conns /\ at[r] # NoConn /\ Taken(at[r]) /\ pc[r] = "fn"
        /\ Committed(r) = {} /\ result[r] = "none"
    BY Inside DEF StatementFails, Return, Holding
  <1>2. /\ at' = at /\ session' = session /\ local' = local /\ open' = open /\ owner' = owner
        /\ pending' = pending /\ wrapper' = wrapper /\ result' = result /\ saw' = saw
        /\ wrote' = wrote /\ durable' = durable
    BY DEF StatementFails, Return, call, conn, seen
  <1>3. \A q \in Calls : Committed(q)' = Committed(q)
    BY <1>2 DEF Committed
  <1>4. TypeOK'
    BY <1>1, <1>2 DEF IInv, TypeOK, StatementFails, Return, call, conn
  <1>5. \A q \in Calls \ {r} : Same(q)
    BY <1>1, <1>2, <1>3, OtherConns
       DEF IInv, TypeOK, StatementFails, Return, call, conn, Same, CallOK
  <1>6. CallOK(r)' /\ Outcome(r)'
    BY <1>1, <1>2, <1>3
       DEF IInv, TypeOK, StatementFails, Return, call, conn, CallOK, Outcome, Holding
  <1>7. Exclusive' /\ CleanSessions' /\ IdleConns'
    BY <1>1, <1>2, InPlace DEF IInv, TypeOK, StatementFails, Return, call, conn
  <1>8. QED
    BY <1>4, <1>5, <1>6, <1>7, OneCallSteps

\* What COMMIT makes durable is what the call wrote, or nothing.
LEMMA AppliedIsOwn ==
  ASSUME IInv, NEW r \in Calls, pc[r] \in Holding
  PROVE  /\ Applied(r) \subseteq {r} \X Owners
         /\ {o \in Owners : <<r, o>> \in Applied(r)} \in {{}, wrote[r]}
         /\ tx[at[r]] = "open" => {o \in Owners : <<r, o>> \in Applied(r)} = wrote[r]
  <1>1. at[r] # NoConn /\ wrote[r] \subseteq Owners
    BY DEF IInv, TypeOK, CallOK
  <1>2. \A p : p \in pending[at[r]] <=> p \in {<<r, o>> : o \in wrote[r]}
    BY <1>1 DEF IInv, CallOK
  <1>3. pending[at[r]] \subseteq {r} \X Owners
    BY <1>1, <1>2
  <1>4. {o \in Owners : <<r, o>> \in pending[at[r]]} = wrote[r]
    BY <1>1, <1>2
  <1>5. QED
    BY <1>3, <1>4 DEF Applied

\* However a call ends, its connection goes back clean or not at all, and its
\* writes are durable together or not at all.
LEMMA GivenBack ==
  ASSUME IInv, NEW r \in Calls, pc[r] \in {"commit", "rollback"},
         Release(r) \/ Drop(r),
         NEW D, D \in {{}, Applied(r)}, durable' = durable \cup D,
         NEW x \in {"ok", "error", "panic"}, result' = [result EXCEPT ![r] = x],
         x = "ok" => pc[r] = "commit" /\ tx[at[r]] = "open" /\ D = Applied(r),
         pc[r] = "rollback" => D = {}
  PROVE  IInv'
  <1> DEFINE c == at[r]
  <1>1. /\ c \in Conns /\ c # NoConn /\ Taken(c) /\ c \in open
        /\ local[c] \in {Null, owner[r]} /\ Committed(r) = {}
    BY Inside DEF Holding
  <1>2. /\ at' = [at EXCEPT ![r] = NoConn] /\ pc' = [pc EXCEPT ![r] = "idle"]
        /\ local' = [local EXCEPT ![c] = Null] /\ tx' = [tx EXCEPT ![c] = "none"]
        /\ pending' = [pending EXCEPT ![c] = {}]
        /\ wrapper' = wrapper /\ owner' = owner /\ exit' = exit /\ saw' = saw /\ wrote' = wrote
        /\ open' \in {open, open \ {c}}
    BY DEF Release, Drop, seen
  <1>3. session' \in [Conns -> Owners \cup {Null, Empty}] /\ CleanSessions'
    BY <1>1 DEF IInv, TypeOK, CleanSessions, Release, Drop
  <1>4. D \subseteq {r} \X Owners /\ {o \in Owners : <<r, o>> \in D} \in {{}, wrote[r]}
    BY AppliedIsOwn DEF Holding
  <1>5. TypeOK'
    <2>1. D \subseteq Calls \X Owners
      BY <1>4
    <2>2. QED
      BY <1>1, <1>2, <1>3, <2>1 DEF IInv, TypeOK
  <1>6. Committed(r)' = {o \in Owners : <<r, o>> \in D}
    BY <1>1 DEF Committed
  <1>7. \A q \in Calls \ {r} : Committed(q)' = Committed(q)
    BY <1>4 DEF Committed
  <1>8. \A q \in Calls \ {r} : Same(q)
    BY <1>1, <1>2, <1>7, OtherConns DEF IInv, TypeOK, Same, CallOK
  <1>9. CallOK(r)'
    BY <1>1, <1>2 DEF IInv, TypeOK, CallOK, Holding
  <1>10. Outcome(r)'
    <2>1. result'[r] = x /\ exit'[r] = exit[r] /\ wrote'[r] = wrote[r]
      BY <1>2 DEF IInv, TypeOK
    <2>2. x = "ok" => Committed(r)' = wrote[r]
      BY <1>6, AppliedIsOwn DEF Holding
    <2>3. exit[r] \in {"error", "panic"} => D = {}
      BY DEF IInv, CallOK
    <2>4. QED
      BY <1>4, <1>6, <2>1, <2>2, <2>3 DEF Outcome
  <1>11. Exclusive'
    BY <1>2 DEF IInv, TypeOK, Exclusive
  <1>12. IdleConns'
    <2>1. ASSUME NEW d \in Conns, ~Taken(d)', d # c PROVE ~Taken(d)
      BY <1>2, <2>1 DEF IInv, TypeOK, Taken
    <2>2. QED
      BY <1>1, <1>2, <2>1 DEF IInv, TypeOK, IdleConns
  <1>13. QED
    BY <1>3, <1>5, <1>8, <1>9, <1>10, <1>11, <1>12, OneCallSteps

\* Every way of ending a transaction preserves the invariant.
LEMMA EndStep ==
  ASSUME IInv, NEW r \in Calls,
         Commit(r) \/ CommitBreaks(r) \/ Rollback(r) \/ RollbackBreaks(r)
  PROVE  IInv'
  <1>1. CASE Commit(r)
    BY <1>1, GivenBack DEF Commit
  <1>2. CASE CommitBreaks(r)
    <2>1. CASE durable' = durable
      BY <1>2, <2>1, GivenBack DEF CommitBreaks
    <2>2. CASE durable' = durable \cup Applied(r)
      BY <1>2, <2>2, GivenBack DEF CommitBreaks
    <2>3. QED
      BY <1>2, <2>1, <2>2 DEF CommitBreaks
  <1>3. CASE Rollback(r) \/ RollbackBreaks(r)
    <2>1. exit[r] \in {"error", "panic"}
      BY <1>3 DEF IInv, CallOK, Rollback, RollbackBreaks
    <2>2. QED
      BY <1>3, <2>1, GivenBack DEF Rollback, RollbackBreaks
  <1>4. QED
    BY <1>1, <1>2, <1>3

\* Closing an idle connection preserves the invariant.
LEMMA RecycleStep ==
  ASSUME IInv, NEW c \in Conns, Recycle(c)
  PROVE  IInv'
  <1>1. TypeOK' /\ Exclusive' /\ CleanSessions' /\ IdleConns'
    BY DEF IInv, TypeOK, Exclusive, CleanSessions, IdleConns, Recycle, call, seen, Taken
  <1>2. \A q \in Calls : Same(q)
    BY DEF IInv, CallOK, Recycle, call, seen, Taken, Same, Committed
  <1>3. QED
    BY <1>1, <1>2, Frame DEF IInv

\* A step that changes nothing.
LEMMA StutterStep ==
  ASSUME IInv, UNCHANGED vars
  PROVE  IInv'
  <1>1. TypeOK' /\ Exclusive' /\ CleanSessions' /\ IdleConns'
    BY DEF IInv, TypeOK, Exclusive, CleanSessions, IdleConns, vars, conn, call, seen, Taken
  <1>2. \A q \in Calls : Same(q)
    BY DEF IInv, CallOK, vars, conn, call, seen, Same, Committed
  <1>3. QED
    BY <1>1, <1>2, Frame DEF IInv

\* One step of a call preserves the invariant.
LEMMA CallSteps ==
  ASSUME IInv, NEW r \in Calls, Step(r)
  PROVE  IInv'
  BY BeginStep, BeginFailsStep, ScopeStep, ReadStep, WriteStep, CallbackStep, EndStep
     DEF Step

\* The invariant is inductive.
LEMMA NextIInv == IInv /\ [Next]_vars => IInv'
  BY CallStep, CallSteps, RecycleStep, StutterStep DEF Next

\* IInv is an invariant of the specification.
THEOREM Invariance == Spec => []IInv
  BY InitIInv, NextIInv, PTL DEF Spec

\* Every variable keeps the values its comment promises.
THEOREM TypeCorrectness == Spec => []TypeOK
  <1>1. IInv => TypeOK
    BY DEF IInv
  <1>2. QED
    BY <1>1, Invariance, PTL

\* No call reads or writes a row of another shelter or user than its own.
THEOREM ScopesAreKept == Spec => []ScopeIsolation
  <1>1. IInv => ScopeIsolation
    BY DEF IInv, CallOK, ScopeIsolation
  <1>2. QED
    BY <1>1, Invariance, PTL

\* A connection in its pool carries no transaction, no write and no scope.
THEOREM PoolsAreClean == Spec => []IdleIsClean
  <1>1. IInv => IdleIsClean
    BY DEF IInv, IdleConns, CleanSessions, IdleIsClean, Setting
  <1>2. QED
    BY <1>1, Invariance, PTL

\* A call's writes are durable together or not at all, as it reports.
THEOREM CallsAreAtomic == Spec => []AllOrNothing
  <1>1. IInv => AllOrNothing
    BY DEF IInv, Outcome, Committed, AllOrNothing
  <1>2. QED
    BY <1>1, Invariance, PTL

-----------------------------------------------------------------------------
(* The tokens.                                                             *)

\* The second of an instant begins no later, and ends after it.
LEMMA Seconds ==
  ASSUME NEW t \in Nat, NEW d \in Nat \ {0}
  PROVE  /\ (t \div d) \in Nat
         /\ (t \div d) * d <= t
         /\ t < (t \div d) * d + d
  OBVIOUS

\* Verify returns what a token says, and only for one that parses and names
\* somebody.
LEMMA VerifyReturnsClaims ==
  ASSUME NEW w, NEW now, Verify(w, now) # ErrInvalidToken
  PROVE  /\ Parses(w, now)
         /\ Validates(Claims(w))
         /\ Verify(w, now) = Claims(w)
  BY DEF Verify

\* A whole number of seconds is added to the second of an instant.
LEMMA WholeSeconds ==
  ASSUME NEW t \in Nat, NEW d \in Nat \ {0}, NEW n \in Nat
  PROVE  (t + n * d) \div d = (t \div d) + n
  <1> DEFINE q == t \div d
             k == (t + n * d) \div d
  <1>1. n * d \in Nat
    OBVIOUS
  <1>2. /\ q \in Nat /\ q * d <= t /\ t < q * d + d
        /\ k \in Nat /\ k * d <= t + n * d /\ t + n * d < k * d + d
    BY <1>1, Seconds
  <1> HIDE DEF q, k
  <1>3. k * d < (q + n + 1) * d
    BY <1>2
  <1>4. (q + n) * d < (k + 1) * d
    BY <1>2
  <1>5. k < q + n + 1 /\ q + n < k + 1
    BY <1>2, <1>3, <1>4
  <1>6. QED
    BY <1>2, <1>5 DEF q, k

-----------------------------------------------------------------------------
(* One token.                                                              *)

\* The window of a token: from the second of its issue, for its lifetime.
Window(t) == {n \in Nat : Unix(t) * SecondTicks <= n /\ n < (Unix(t) + Lifetime) * SecondTicks}

\* What Issue signs says what it was asked for, and parses in its window only.
LEMMA IssuedTokens ==
  ASSUME NEW c \in Subjects, NEW t \in Nat, NEW now \in Nat
  PROVE  /\ Claims(Issue(c, t)) = c
         /\ Parses(Issue(c, t), now) <=> now \in Window(t)
  <1>1. Claims(Issue(c, t)) = c
    BY DEF Subjects, Claims, Issue
  <1>2. Issue(c, t).exp = Unix(t) + Lifetime /\ Issue(c, t).iat = Unix(t)
    BY WholeSeconds, TokenAssumption DEF Issue, Unix
  <1>3. Parses(Issue(c, t), now) <=> now \in Window(t)
    BY <1>2 DEF Parses, Window, Issue
  <1>4. QED
    BY <1>1, <1>3

\* The window lies within the lifetime, which it misses by less than a second.
LEMMA WindowEnds ==
  ASSUME NEW t \in Nat, NEW now \in Nat
  PROVE  /\ t <= now /\ now + SecondTicks <= t + Lifetime * SecondTicks => now \in Window(t)
         /\ now \in Window(t) => now < t + Lifetime * SecondTicks
  <1>1. /\ Unix(t) \in Nat /\ Unix(t) * SecondTicks <= t
        /\ t < Unix(t) * SecondTicks + SecondTicks
    BY Seconds, TokenAssumption DEF Unix
  <1>2. /\ Unix(t) * SecondTicks \in Nat /\ Lifetime * SecondTicks \in Nat
        /\ (Unix(t) + Lifetime) * SecondTicks = Unix(t) * SecondTicks + Lifetime * SecondTicks
    BY <1>1, TokenAssumption
  <1>3. QED
    BY <1>1, <1>2, TokenAssumption DEF Window

\* A token is verified from the instant it is issued to within a second of its
\* lifetime, and never after it, by whichever clock it is issued and verified.
THEOREM TokenWindow ==
  ASSUME NEW c \in Subjects, Validates(c), NEW t \in Nat, NEW now \in Nat
  PROVE  /\ Verify(Issue(c, t), now) = c <=> now \in Window(t)
         /\ t <= now /\ now + SecondTicks <= t + Lifetime * SecondTicks => now \in Window(t)
         /\ now \in Window(t) => now < t + Lifetime * SecondTicks
  <1>1. c # ErrInvalidToken /\ Malformed \notin {c.sub, c.shelter}
    BY TokenAssumption DEF Subjects, Validates
  <1>2. Issue(c, t).sub = c.sub /\ Issue(c, t).shelter = c.shelter
    BY DEF Issue
  <1>3. Verify(Issue(c, t), now) = c <=> now \in Window(t)
    BY <1>1, <1>2, IssuedTokens DEF Verify
  <1>4. QED
    BY <1>3, WindowEnds

-----------------------------------------------------------------------------
(* The invariant.                                                          *)

IssuedOK == \A i \in issued : i.at \in 0..clock /\ \E c \in Subjects : i.token = Issue(c, i.at)

\* What is true of one request: a handler's transaction is its claims' own.
RequestOK(r) ==
    /\ step[r] # "handler" => pc[r] = "idle" /\ saw[r] = {} /\ wrote[r] = {}
    /\ step[r] = "handler" => claims[r] # NoClaims /\ owner[r] = claims[r].shelter
    /\ claims[r] # NoClaims => \E i \in issued : claims[r] = Claims(i.token)

BInv ==
    /\ IInv
    /\ step \in [Calls -> {"idle", "auth", "tenant", "handler"}]
    /\ claims \in [Calls -> Subjects \cup {NoClaims}]
    /\ clock \in Nat
    /\ IssuedOK
    /\ \A r \in Calls : RequestOK(r)

\* The initial state satisfies the invariant.
LEMMA InitBInv == BoundaryInit => BInv
  BY InitIInv DEF BoundaryInit, Init, BInv, IssuedOK, RequestOK

\* Of all that a request can bring, only a token that was issued verifies, and
\* only in its window.
LEMMA OnlyIssuedTokensVerify ==
  ASSUME BInv, NEW w \in Brought, w # NoToken, Verify(w, clock) # ErrInvalidToken
  PROVE  \E i \in issued : /\ Verify(w, clock) = Claims(i.token)
                           /\ Claims(i.token) \in Subjects
                           /\ i.at \in 0..clock /\ clock \in Window(i.at)
  <1>1. PICK i \in issued : w \in {i.token} \cup Forgeries(i.token)
    BY DEF Brought
  <1>2. PICK c \in Subjects : i.token = Issue(c, i.at)
    BY DEF BInv, IssuedOK
  <1>3. i.at \in 0..clock /\ i.at \in Nat /\ clock \in Nat
    BY DEF BInv, IssuedOK
  <1>4. Parses(w, clock) /\ Validates(Claims(w)) /\ Verify(w, clock) = Claims(w)
    BY VerifyReturnsClaims
  <1>5. Malformed \notin {w.sub, w.shelter}
    BY DEF Verify
  <1>6. w \notin Forgeries(i.token)
    <2>1. \A s : w # [i.token EXCEPT !.alg = "none", !.shelter = s]
      BY <1>2, <1>4 DEF Parses, Issue
    <2>2. \A s : w # [i.token EXCEPT !.key = "another", !.shelter = s]
      BY <1>2, <1>4 DEF Parses, Issue
    <2>3. /\ w # [i.token EXCEPT !.iss = "another"] /\ w # [i.token EXCEPT !.aud = "another"]
          /\ w # [i.token EXCEPT !.alg = "HS512"]
      BY <1>2, <1>4 DEF Parses, Issue
    <2>4. w # [i.token EXCEPT !.exp = 0]
      <3>1. ~(clock < 0 * SecondTicks)
        BY <1>3, TokenAssumption
      <3>2. QED
        BY <1>2, <1>4, <3>1 DEF Parses, Issue
    <2>5. /\ w # [i.token EXCEPT !.sub = Nil] /\ w # [i.token EXCEPT !.role = ""]
          /\ w # [i.token EXCEPT !.amr = {}]
      BY <1>2, <1>4 DEF Validates, Claims, Issue
    <2>6. w # [i.token EXCEPT !.sub = Malformed] /\ w # [i.token EXCEPT !.shelter = Malformed]
      BY <1>2, <1>5 DEF Issue
    <2>7. w \notin {[i.token EXCEPT !.alg = "none", !.shelter = s] : s \in Owners \cup {Nil}}
      BY <2>1, Zenon
    <2>8. w \notin {[i.token EXCEPT !.key = "another", !.shelter = s] : s \in Owners}
      BY <2>2, Zenon
    <2>9. QED
      BY <2>3, <2>4, <2>5, <2>6, <2>7, <2>8 DEF Forgeries
  <1>7. w = i.token
    BY <1>1, <1>6
  <1>8. Claims(i.token) = c /\ clock \in Window(i.at)
    BY <1>2, <1>3, <1>4, <1>7, IssuedTokens
  <1>9. QED
    BY <1>3, <1>4, <1>7, <1>8

\* What a step of the wrappers leaves alone of a call, and of every other.
LEMMA StepFrame ==
  ASSUME IInv, NEW r \in Calls, Step(r)
  PROVE  /\ owner' = owner
         /\ \A q \in Calls \ {r} : pc'[q] = pc[q] /\ saw'[q] = saw[q] /\ wrote'[q] = wrote[q]
  <1> USE DEF IInv, TypeOK
  <1>1. ASSUME NEW c \in Conns, Begin(r, c)
        PROVE  owner' = owner /\ saw' = saw /\ wrote' = wrote
               /\ \A q \in Calls \ {r} : pc'[q] = pc[q]
    BY <1>1 DEF Begin, seen
  <1>2. CASE BeginFails(r) \/ SetScope(r) \/ SetScopeFails(r)
    BY <1>2 DEF BeginFails, SetScope, SetScopeFails, seen
  <1>3. CASE Read(r) \/ StatementFails(r)
    BY <1>3 DEF Read, StatementFails, call, seen
  <1>4. ASSUME NEW o \in Owners, Write(r, o)
        PROVE  owner' = owner /\ saw' = saw /\ pc' = pc
               /\ \A q \in Calls \ {r} : wrote'[q] = wrote[q]
    BY <1>4 DEF Write, call
  <1>5. ASSUME NEW how, Return(r, how)
        PROVE  owner' = owner /\ saw' = saw /\ wrote' = wrote
               /\ \A q \in Calls \ {r} : pc'[q] = pc[q]
    BY <1>5 DEF Return, seen
  <1>6. CASE Commit(r) \/ CommitBreaks(r) \/ Rollback(r) \/ RollbackBreaks(r)
    BY <1>6 DEF Commit, CommitBreaks, Rollback, RollbackBreaks, Release, Drop, seen
  <1>7. QED
    BY <1>1, <1>2, <1>3, <1>4, <1>5, <1>6 DEF Step

\* Forgetting an idle call preserves the invariant of the wrappers.
LEMMA DoneStep ==
  ASSUME IInv, NEW r \in Calls, NEW s, pc[r] = "idle", Done(r, s)
  PROVE  IInv'
  <1>1. TypeOK'
    BY DEF IInv, TypeOK, Done, conn
  <1>2. Committed(r)' = {} /\ \A q \in Calls \ {r} : Committed(q)' = Committed(q)
    BY DEF Done, Committed
  <1>3. \A q \in Calls \ {r} : Same(q)
    BY <1>2 DEF IInv, TypeOK, Done, conn, Same, CallOK
  <1>4. CallOK(r)' /\ Outcome(r)'
    BY <1>2, NoConnIsNoConnection DEF IInv, TypeOK, Done, conn, CallOK, Outcome, Holding
  <1>5. Exclusive' /\ CleanSessions' /\ IdleConns'
    BY InPlace DEF Done, conn
  <1>6. QED
    BY <1>1, <1>3, <1>4, <1>5, OneCallSteps

\* Any step but an answer is one of the wrappers or leaves them alone.
LEMMA WrapperInvariant ==
  ASSUME BInv, [BoundaryNext]_allVars
  PROVE  IInv'
  <1> USE DEF BInv
  <1>1. ASSUME NEW r \in Calls, NEW s, Done(r, s), pc[r] = "idle" PROVE IInv'
    BY <1>1, DoneStep
  <1>2. CASE UNCHANGED vars
    BY <1>2, StutterStep
  <1>3. ASSUME NEW r \in Calls, NEW w \in Brought, RequireAuth(r, w) PROVE IInv'
    BY <1>1, <1>2, <1>3 DEF RequireAuth, RequestOK
  <1>4. ASSUME NEW r \in Calls, NEW named, RequireTenant(r, named) PROVE IInv'
    <2>1. CASE claims[r] = NoClaims \/ claims[r].shelter \in {NoShelter, Nil}
                 \/ ~RequestAgreesOnShelter(r, named)
      BY <1>1, <1>4, <2>1 DEF RequireTenant, RequestOK
    <2>2. CASE /\ claims[r] # NoClaims /\ claims[r].shelter \notin {NoShelter, Nil}
               /\ RequestAgreesOnShelter(r, named)
      <3>1. Call(r, "WithTenant", claims[r].shelter)
        BY <1>4, <2>2 DEF RequireTenant
      <3>2. claims[r].shelter \in Owners \cup {Nil} /\ "WithTenant" \in Wrappers
        BY <2>2 DEF Subjects, Wrappers, PoolOf
      <3>3. QED
        BY <3>1, <3>2, CallStep
    <2>3. QED
      BY <2>1, <2>2
  <1>5. ASSUME NEW r \in Calls, Handle(r) PROVE IInv'
    BY <1>5, CallSteps DEF Handle
  <1>6. ASSUME NEW r \in Calls, Finish(r) PROVE IInv'
    BY <1>1, <1>6 DEF Finish
  <1>7. ASSUME NEW c \in Conns, Recycle(c) PROVE IInv'
    BY <1>7, RecycleStep
  <1>8. CASE UNCHANGED allVars
    BY <1>2, <1>8 DEF allVars
  <1>9. QED
    BY <1>2, <1>3, <1>4, <1>5, <1>6, <1>7, <1>8
       DEF BoundaryNext, Tick, SignIn, Arrive, Answer

\* Tokens are issued with the instant of their issue, and time goes on.
LEMMA TokenStep ==
  ASSUME BInv, [BoundaryNext]_allVars
  PROVE  clock' \in Nat /\ IssuedOK' /\ issued \subseteq issued'
  <1> USE DEF BInv, IssuedOK
  <1>1. CASE Tick
    BY <1>1 DEF Tick
  <1>2. ASSUME NEW c \in Subjects, SignIn(c)
        PROVE  clock' \in Nat /\ IssuedOK' /\ issued \subseteq issued'
    BY <1>2 DEF SignIn, web
  <1>3. CASE UNCHANGED tokens
    BY <1>3 DEF tokens
  <1>4. ASSUME ~Tick, \A c \in Subjects : ~SignIn(c)
        PROVE  UNCHANGED tokens
    BY <1>4 DEF BoundaryNext, Arrive, RequireAuth, RequireTenant, Answer, Handle, Finish,
                Done, allVars
  <1>5. QED
    BY <1>1, <1>2, <1>3, <1>4

\* What a step of another request, or of none, leaves alone of one.
Apart(q) ==
    /\ step'[q] = step[q] /\ claims'[q] = claims[q] /\ owner'[q] = owner[q]
    /\ pc'[q] = pc[q] /\ saw'[q] = saw[q] /\ wrote'[q] = wrote[q]

\* A request left alone keeps its part.
LEMMA ApartKeeps ==
  ASSUME NEW q \in Calls, RequestOK(q), Apart(q), issued \subseteq issued'
  PROVE  RequestOK(q)'
  BY DEF RequestOK, Apart

\* Every step keeps the types of the middleware and every request's part.
LEMMA RequestStep ==
  ASSUME BInv, [BoundaryNext]_allVars
  PROVE  /\ step' \in [Calls -> {"idle", "auth", "tenant", "handler"}]
         /\ claims' \in [Calls -> Subjects \cup {NoClaims}]
         /\ \A q \in Calls : RequestOK(q)'
  <1> USE DEF BInv
  <1> DEFINE Kept == /\ step' \in [Calls -> {"idle", "auth", "tenant", "handler"}]
                    /\ claims' \in [Calls -> Subjects \cup {NoClaims}]
                    /\ \A q \in Calls : RequestOK(q)'
  <1>0. issued \subseteq issued' /\ TypeOK
    BY TokenStep DEF IInv
  <1>1. ASSUME NEW r \in Calls, NEW s, Done(r, s), pc[r] = "idle" PROVE Kept
    <2>1. \A q \in Calls \ {r} : Apart(q)
      BY <1>0, <1>1 DEF Done, Apart, TypeOK
    <2>2. RequestOK(r)'
      BY <1>0, <1>1 DEF Done, RequestOK, TypeOK
    <2>3. QED
      BY <1>0, <1>1, <2>1, <2>2, ApartKeeps DEF Done
  <1>2. ASSUME \A q \in Calls : Apart(q), UNCHANGED <<step, claims>> PROVE Kept
    BY <1>0, <1>2, ApartKeeps
  <1>3. ASSUME NEW r \in Calls, NEW guarded \in BOOLEAN, Arrive(r, guarded) PROVE Kept
    <2>1. \A q \in Calls \ {r} : Apart(q)
      BY <1>3 DEF Arrive, Apart, vars, call, seen
    <2>2. RequestOK(r)'
      BY <1>3 DEF Arrive, RequestOK, vars, call, seen, tokens
    <2>3. QED
      BY <1>0, <1>3, <2>1, <2>2, ApartKeeps DEF Arrive
  <1>4. ASSUME NEW r \in Calls, NEW w \in Brought, RequireAuth(r, w) PROVE Kept
    <2>1. CASE w = NoToken \/ (w # NoToken /\ Verify(w, clock) = ErrInvalidToken)
      BY <1>1, <1>4, <2>1 DEF RequireAuth, RequestOK
    <2>2. CASE w # NoToken /\ Verify(w, clock) # ErrInvalidToken
      <3>1. PICK i \in issued : /\ Verify(w, clock) = Claims(i.token)
                               /\ Claims(i.token) \in Subjects
        BY <2>2, OnlyIssuedTokensVerify
      <3>2. /\ claims' = [claims EXCEPT ![r] = Claims(i.token)]
            /\ step[r] = "auth" /\ step' = [step EXCEPT ![r] = "tenant"]
            /\ UNCHANGED <<vars, status, tokens>>
        BY <1>4, <2>2, <3>1 DEF RequireAuth
      <3>3. \A q \in Calls \ {r} : Apart(q)
        BY <3>2 DEF Apart, vars, call, seen
      <3>4. RequestOK(r)'
        BY <3>2 DEF RequestOK, vars, call, seen, tokens
      <3>5. QED
        BY <1>0, <3>1, <3>2, <3>3, <3>4, ApartKeeps
    <2>3. QED
      BY <2>1, <2>2
  <1>5. ASSUME NEW r \in Calls, NEW named, RequireTenant(r, named) PROVE Kept
    <2>1. CASE claims[r] = NoClaims \/ claims[r].shelter \in {NoShelter, Nil}
                 \/ ~RequestAgreesOnShelter(r, named)
      BY <1>1, <1>5, <2>1 DEF RequireTenant, RequestOK
    <2>2. CASE /\ claims[r] # NoClaims /\ claims[r].shelter \notin {NoShelter, Nil}
               /\ RequestAgreesOnShelter(r, named)
      <3>1. /\ Call(r, "WithTenant", claims[r].shelter)
            /\ step' = [step EXCEPT ![r] = "handler"] /\ UNCHANGED <<claims, status, tokens>>
        BY <1>5, <2>2 DEF RequireTenant
      <3>2. \A q \in Calls \ {r} : Apart(q)
        BY <1>0, <3>1 DEF Call, Apart, TypeOK
      <3>3. RequestOK(r)'
        BY <1>0, <2>2, <3>1 DEF Call, RequestOK, TypeOK, tokens
      <3>4. QED
        BY <1>0, <3>1, <3>2, <3>3, ApartKeeps
    <2>3. QED
      BY <2>1, <2>2
  <1>6. ASSUME NEW r \in Calls, Handle(r) PROVE Kept
    <2>1. /\ step[r] = "handler" /\ UNCHANGED <<step, claims, issued>>
          /\ owner' = owner
          /\ \A q \in Calls \ {r} : pc'[q] = pc[q] /\ saw'[q] = saw[q] /\ wrote'[q] = wrote[q]
      BY <1>6, StepFrame DEF Handle, web, tokens
    <2>2. \A q \in Calls \ {r} : Apart(q)
      BY <2>1 DEF Apart
    <2>3. RequestOK(r)'
      BY <2>1 DEF RequestOK
    <2>4. QED
      BY <1>0, <2>1, <2>2, <2>3, ApartKeeps
  <1>7. ASSUME NEW r \in Calls, Finish(r) PROVE Kept
    BY <1>1, <1>7 DEF Finish
  <1>8. CASE Tick \/ (\E c \in Subjects : SignIn(c))
              \/ (\E r \in Calls, s \in {"200", "400"} : Answer(r, s)) \/ UNCHANGED allVars
    BY <1>2, <1>8 DEF Tick, SignIn, Answer, Apart, allVars, vars, call, seen, web
  <1>9. ASSUME NEW c \in Conns, Recycle(c), UNCHANGED <<web, tokens>> PROVE Kept
    BY <1>2, <1>9 DEF Recycle, Apart, call, seen, web
  <1>10. QED
    BY <1>3, <1>4, <1>5, <1>6, <1>7, <1>8, <1>9 DEF BoundaryNext

\* The invariant is inductive.
LEMMA NextBInv == BInv /\ [BoundaryNext]_allVars => BInv'
  BY WrapperInvariant, TokenStep, RequestStep DEF BInv

\* BInv is an invariant of the boundary.
THEOREM BoundaryInvariance == BoundarySpec => []BInv
  BY InitBInv, NextBInv, PTL DEF BoundarySpec

\* A request touches rows of no shelter but the one a token issued to its user
\* names (middleware_auth.go 18-31).
THEOREM TenantsAreIsolated == BoundarySpec => []TenantIsolation
  <1>1. BInv => TenantIsolation
    <2> SUFFICES ASSUME BInv, NEW r \in Calls, saw[r] \cup wrote[r] # {}
                 PROVE  \E i \in issued : /\ saw[r] \cup wrote[r] = {i.token.shelter}
                                          /\ claims[r] = Claims(i.token)
      BY DEF TenantIsolation
    <2>1. claims[r] # NoClaims /\ owner[r] = claims[r].shelter
      BY DEF BInv, RequestOK
    <2>2. PICK i \in issued : claims[r] = Claims(i.token)
      BY <2>1 DEF BInv, RequestOK
    <2>3. saw[r] \cup wrote[r] = {i.token.shelter}
      BY <2>1, <2>2 DEF BInv, IInv, CallOK, Claims
    <2>4. QED
      BY <2>2, <2>3
  <1>2. QED
    BY <1>1, BoundaryInvariance, PTL

\* Nobody passes RequireAuth but by a token issued for what he claims, within
\* its lifetime (token.go 29-36).
THEOREM TokensDoExpire == BoundarySpec => TokensExpire
  <1>1. BInv /\ [BoundaryNext]_allVars => [VerifiedInTime]_allVars
    <2> SUFFICES ASSUME BInv, BoundaryNext, NEW r \in Calls,
                        claims'[r] \notin {claims[r], NoClaims}
                 PROVE  \E i \in issued : /\ claims'[r] = Claims(i.token)
                                          /\ i.at <= clock
                                          /\ clock < i.at + Lifetime * SecondTicks
      BY DEF VerifiedInTime
    <2>1. PICK q \in Calls, w \in Brought : RequireAuth(q, w)
      BY DEF BInv, BoundaryNext, Tick, SignIn, Arrive, RequireTenant, Answer, Handle, Finish,
             Done, web
    <2>2. /\ w # NoToken /\ Verify(w, clock) # ErrInvalidToken
          /\ claims' = [claims EXCEPT ![q] = Verify(w, clock)]
      BY <2>1 DEF RequireAuth, Done, BInv
    <2>3. claims'[r] = Verify(w, clock)
      BY <2>2 DEF BInv
    <2>4. PICK i \in issued : /\ Verify(w, clock) = Claims(i.token)
                             /\ i.at \in 0..clock /\ clock \in Window(i.at)
      BY <2>2, OnlyIssuedTokensVerify
    <2>5. i.at \in Nat /\ clock \in Nat /\ i.at <= clock
      BY <2>4 DEF BInv
    <2>6. clock < i.at + Lifetime * SecondTicks
      BY <2>4, <2>5, WindowEnds
    <2>7. QED
      BY <2>3, <2>4, <2>5, <2>6
  <1>2. QED
    BY <1>1, BoundaryInvariance, PTL DEF BoundarySpec, TokensExpire
=============================================================================
