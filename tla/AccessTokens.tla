------------------------------- MODULE AccessTokens -------------------------------
(***************************************************************************)
(* Access tokens (internal/auth/token.go).  A token is what it says, and   *)
(* the algorithm and key it was signed with; golang-jwt is modelled by the *)
(* options Verify gives it.  The clock runs in ticks, tokens in seconds.   *)
(***************************************************************************)
EXTENDS Integers

CONSTANTS
    ZeroUUID,       \* uuid.Nil
    Malformed,      \* a string uuid.Parse refuses
    NoShelter,      \* the claim is absent
    ErrInvalidToken,
    SecondTicks,    \* ticks of the clock to the second
    Lifetime        \* AccessTokenLifetime, in seconds

Unix(t) == t \div SecondTicks

\* Who, where, as what, and how they proved it.
Validates(c) == c.sub # ZeroUUID /\ c.role # "" /\ c.amr # {}

\* Issue refuses claims that do not validate.
Issue(c, now) ==
    [alg |-> "HS256", key |-> "ours", iss |-> "api", aud |-> "web",
     sub |-> c.sub, shelter |-> c.shelter, role |-> c.role, amr |-> c.amr,
     iat |-> Unix(now), exp |-> Unix(now + Lifetime * SecondTicks)]

\* Mutant: the algorithm is read from the token.
ParsesAnyAlgorithm(w, now) ==
    /\ w.alg = "none" \/ w.key = "ours"
    /\ w.iss = "api" /\ w.aud = "web"
    /\ w.iat * SecondTicks <= now /\ now < w.exp * SecondTicks

\* Mutant: an absent exp is no limit.
ParsesWithoutExp(w, now) ==
    /\ w.alg = "HS256" /\ w.key = "ours"
    /\ w.iss = "api" /\ w.aud = "web"
    /\ w.iat * SecondTicks <= now
    /\ w.exp # 0 => now < w.exp * SecondTicks

\* ParseWithClaims: a claim that is absent is zero, the epoch.
Parses(w, now) ==
    /\ w.alg = "HS256" /\ w.key = "ours"
    /\ w.iss = "api" /\ w.aud = "web"
    /\ w.iat * SecondTicks <= now /\ now < w.exp * SecondTicks

Claims(w) == [sub |-> w.sub, shelter |-> w.shelter, role |-> w.role, amr |-> w.amr]

\* A signature does not prove that what was signed names somebody.
Verify(w, now) ==
    IF /\ Parses(w, now)
       /\ Malformed \notin {w.sub, w.shelter}
       /\ Validates(Claims(w))
    THEN Claims(w) ELSE ErrInvalidToken
=============================================================================
