----------------------------- MODULE TenantBoundary -----------------------------
(***************************************************************************)
(* A tenant route of the HTTP API (internal/httpapi/middleware_auth.go):   *)
(* RequireAuth verifies the bearer token by AccessTokens, RequireTenant    *)
(* takes the shelter from the verified claims, compares it with every      *)
(* shelter the request names, and runs the handler inside TxScope's        *)
(* WithTenant.  Requests are the calls of TxScope and share its tenant     *)
(* pool.  They bring tokens that were issued to somebody, now or long ago, *)
(* and tokens made from them.  What a request brings is chosen where the   *)
(* code first reads it.                                                    *)
(***************************************************************************)
EXTENDS TxScope, Integers

CONSTANTS
    Users,
    NoShelter, Malformed, ErrInvalidToken, SecondTicks, Lifetime, \* as in AccessTokens
    NoToken,    \* no Authorization header with a bearer token
    NoClaims,   \* RequireAuth did not run
    MaxClock, MaxTokens

INSTANCE AccessTokens WITH ZeroUUID <- Nil

\* What Issue may be asked to sign: it looks at no shelter.
Subjects == [sub: Users \cup {Nil}, shelter: Owners \cup {Nil, NoShelter},
             role: {"member"}, amr: {{"pwd"}}]

ASSUME TokenAssumption ==
    /\ SecondTicks \in Nat \ {0} /\ Lifetime \in Nat
    /\ Nil \notin Users /\ Malformed \notin Users
    /\ NoShelter \notin Owners
    /\ Malformed \notin Owners \cup {Nil, NoShelter}
    /\ ErrInvalidToken \notin Subjects

VARIABLES
    step,       \* where a request is
    claims,     \* what RequireAuth put into its context
    status,     \* the status line sent
    clock,
    issued      \* the tokens there are, and when each was issued

web     == <<step, claims, status>>
tokens  == <<clock, issued>>
allVars == <<vars, web, tokens>>

BoundaryTypeOK ==
    /\ TypeOK
    /\ step \in [Calls -> {"idle", "auth", "tenant", "handler"}]
    /\ claims \in [Calls -> Subjects \cup {NoClaims}]
    /\ status \in [Calls -> {"none", "200", "400", "401", "403", "500"}]
    /\ clock \in 0..MaxClock
    /\ \A i \in issued : i.at \in 0..clock /\ \E c \in Subjects : i.token = Issue(c, i.at)

BoundaryInit ==
    /\ Init
    /\ step = [r \in Calls |-> "idle"] /\ claims = [r \in Calls |-> NoClaims]
    /\ status = [r \in Calls |-> "none"]
    /\ clock = 0 /\ issued = {}

-----------------------------------------------------------------------------
(* Tokens.                                                                 *)

Tick ==
    /\ clock < MaxClock
    /\ clock' = clock + 1
    /\ UNCHANGED <<vars, web, issued>>

SignIn(c) ==
    /\ Validates(c)
    /\ Cardinality(issued) < MaxTokens
    /\ issued' = issued \cup {[token |-> Issue(c, clock), at |-> clock]}
    /\ UNCHANGED <<vars, web, clock>>

\* Made from w without the secret, or signed with it by an older build or by
\* another service: none of these was issued.
Forgeries(w) ==
    {[w EXCEPT !.alg = "none", !.shelter = s] : s \in Owners \cup {Nil}}
    \cup {[w EXCEPT !.key = "another", !.shelter = s] : s \in Owners}
    \cup {[w EXCEPT !.iss = "another"], [w EXCEPT !.aud = "another"],
          [w EXCEPT !.alg = "HS512"], [w EXCEPT !.exp = 0],
          [w EXCEPT !.sub = Nil], [w EXCEPT !.sub = Malformed],
          [w EXCEPT !.shelter = Malformed], [w EXCEPT !.role = ""],
          [w EXCEPT !.amr = {}]}

Brought == {NoToken} \cup UNION {{i.token} \cup Forgeries(i.token) : i \in issued}

-----------------------------------------------------------------------------
(* The middleware.                                                         *)

\* A route with RequireAuth above RequireTenant, or, wrongly, without it.
Arrive(r, guarded) ==
    /\ step[r] = "idle"
    /\ step' = [step EXCEPT ![r] = IF guarded THEN "auth" ELSE "tenant"]
    /\ status' = [status EXCEPT ![r] = "none"]
    /\ UNCHANGED <<vars, claims, tokens>>

\* The answer is sent and the request is forgotten.
Done(r, s) ==
    /\ step' = [step EXCEPT ![r] = "idle"]
    /\ status' = [status EXCEPT ![r] = s]
    /\ claims' = [claims EXCEPT ![r] = NoClaims]
    /\ owner' = [owner EXCEPT ![r] = Nil]
    /\ exit' = [exit EXCEPT ![r] = "none"] /\ result' = [result EXCEPT ![r] = "none"]
    /\ saw' = [saw EXCEPT ![r] = {}] /\ wrote' = [wrote EXCEPT ![r] = {}]
    /\ durable' = {d \in durable : d[1] # r}
    /\ UNCHANGED <<conn, pc, at, wrapper, tokens>>

RequireAuth(r, w) ==
    /\ step[r] = "auth"
    /\ \/ /\ w = NoToken \/ (w # NoToken /\ Verify(w, clock) = ErrInvalidToken)
          /\ Done(r, "401")
       \/ /\ w # NoToken /\ Verify(w, clock) # ErrInvalidToken
          /\ claims' = [claims EXCEPT ![r] = Verify(w, clock)]
          /\ step' = [step EXCEPT ![r] = "tenant"]
          /\ UNCHANGED <<vars, status, tokens>>

\* An absent identifier agrees, a malformed one does not.
RequestAgreesOnShelter(r, named) == named \subseteq {claims[r].shelter}

\* Mutant: the shelter comes from the request where it names one.
ScopeFromPath(r, named) ==
    /\ step[r] = "tenant"
    /\ \/ /\ claims[r] = NoClaims
          /\ Done(r, "500")
       \/ /\ claims[r] # NoClaims
          /\ \/ /\ (named \cup {claims[r].shelter}) \cap Owners = {}
                /\ Done(r, "403")
             \/ /\ \E s \in (named \cup {claims[r].shelter}) \cap Owners :
                      Call(r, "WithTenant", s)
                /\ step' = [step EXCEPT ![r] = "handler"]
                /\ UNCHANGED <<claims, status, tokens>>

\* named: the shelters in the path, the query and the header.
RequireTenant(r, named) ==
    /\ step[r] = "tenant"
    /\ \/ /\ claims[r] = NoClaims
          /\ Done(r, "500")
       \/ /\ claims[r] # NoClaims
          /\ claims[r].shelter \in {NoShelter, Nil} \/ ~RequestAgreesOnShelter(r, named)
          /\ Done(r, "403")
       \/ /\ claims[r] # NoClaims
          /\ claims[r].shelter \notin {NoShelter, Nil} /\ RequestAgreesOnShelter(r, named)
          /\ Call(r, "WithTenant", claims[r].shelter)
          /\ step' = [step EXCEPT ![r] = "handler"]
          /\ UNCHANGED <<claims, status, tokens>>

\* The handler writes its status, which a later one cannot replace.
Answer(r, s) ==
    /\ step[r] = "handler" /\ pc[r] = "fn"
    /\ status[r] = "none"
    /\ status' = [status EXCEPT ![r] = s]
    /\ UNCHANGED <<step, claims, tokens, vars>>

\* RequireTenant's callback returns nil or panics: never an error.
Handle(r) ==
    /\ step[r] = "handler"
    /\ Step(r)
    /\ exit'[r] = "error" => exit[r] = "error" \/ pc[r] = "scope"
    /\ UNCHANGED <<web, tokens>>

\* WithTenant is done: a handler that wrote nothing leaves the status to its
\* outcome; a panic reaches chi's Recoverer.
Finish(r) ==
    /\ step[r] = "handler" /\ pc[r] = "idle"
    /\ Done(r, IF status[r] # "none" THEN status[r]
               ELSE IF result[r] = "ok" THEN "200" ELSE "500")

BoundaryNext ==
    \/ Tick
    \/ \E c \in Subjects : SignIn(c)
    \/ \E r \in Calls :
          \/ \E guarded \in BOOLEAN : Arrive(r, guarded)
          \/ \E w \in Brought : RequireAuth(r, w)
          \/ \E named \in SUBSET (Owners \cup {Malformed}) : RequireTenant(r, named)
          \/ \E s \in {"200", "400"} : Answer(r, s)
          \/ Handle(r)
          \/ Finish(r)
    \/ \E c \in Conns : Recycle(c) /\ UNCHANGED <<web, tokens>>

BoundarySpec == BoundaryInit /\ [][BoundaryNext]_allVars

-----------------------------------------------------------------------------
(* Properties.                                                             *)

\* A request touches rows of one shelter at most, one that a token issued to its
\* user names, whatever the request names and brings and whoever used the
\* connection before (middleware_auth.go 18-31, token.go 74-82).
TenantIsolation == \A r \in Calls : saw[r] \cup wrote[r] # {} =>
    \E i \in issued : /\ saw[r] \cup wrote[r] = {i.token.shelter}
                      /\ claims[r] = Claims(i.token)

\* A request goes past RequireAuth while a token issued for what it claims is in
\* its lifetime, and not one tick after, although nothing revokes a token and its
\* times are cut to seconds (token.go 29-36).
VerifiedInTime == \A r \in Calls : claims'[r] \notin {claims[r], NoClaims} =>
    \E i \in issued : /\ claims'[r] = Claims(i.token)
                      /\ i.at <= clock /\ clock < i.at + Lifetime * SecondTicks

TokensExpire == [][VerifiedInTime]_allVars
=============================================================================
