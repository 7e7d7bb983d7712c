---------------------------- MODULE SessionFamily ----------------------------
(***************************************************************************)
(* What a refresh-token family promises, with no database in it: one login *)
(* opens a session, a session has exactly one spendable token, spending it *)
(* hands the session on to a token nobody has seen, and the session is     *)
(* killed, once and for good, only after some token of it had been spent.  *)
(***************************************************************************)
CONSTANTS Families, Tokens, NoToken     \* NoToken is no member of Tokens

VARIABLES
    members,   \* members[f]: every token ever issued in session f
    current    \* current[f]: the one token of f that can still be spent

vars == <<members, current>>

Issued == UNION {members[f] : f \in Families}

Init ==
    /\ members = [f \in Families |-> {}]
    /\ current = [f \in Families |-> NoToken]

Issue(f, t) ==
    /\ t \notin Issued
    /\ members' = [members EXCEPT ![f] = @ \cup {t}]
    /\ current' = [current EXCEPT ![f] = t]

\* A login opens a session of its own.
Open(f, t) ==
    /\ members[f] = {}
    /\ Issue(f, t)

\* The session's one spendable token is exchanged for a new one.
Rotate(f, t) ==
    /\ current[f] # NoToken
    /\ Issue(f, t)

\* A spent token came back: nothing of this session can be spent again.
Kill(f) ==
    /\ current[f] # NoToken
    /\ members[f] # {current[f]}
    /\ current' = [current EXCEPT ![f] = NoToken]
    /\ UNCHANGED members

Next == \E f \in Families :
            \/ \E t \in Tokens : Open(f, t) \/ Rotate(f, t)
            \/ Kill(f)

Spec == Init /\ [][Next]_vars
=============================================================================
