------------------------------ MODULE ClientAddress ------------------------------
(***************************************************************************)
(* Which address a request is attributed to (internal/httpapi/clientip.go),*)
(* with the network it comes through: a sender writes whatever it likes    *)
(* into X-Forwarded-For, and every trusted proxy on the way appends the    *)
(* address it saw, to the last header line or as a line of its own.        *)
(***************************************************************************)
EXTENDS Naturals, Sequences, FiniteSets

CONSTANTS
    Addrs,      \* canonical addresses
    Trusted,    \* those inside TRUSTED_PROXIES
    Spellings,  \* ways of writing an address, and what is no address at all
    Parse,      \* parseClientAddr: the address a spelling stands for, or NoAddr
    NoAddr,     \* the zero netip.Addr
    Blank,      \* an empty entry between two commas
    MaxForged,  \* bound: entries a sender writes
    MaxHops     \* bound: proxies on the way

ASSUME AddressAssumption ==
    /\ Trusted \subseteq Addrs
    /\ NoAddr \notin Addrs
    /\ Parse \in [Spellings -> Addrs \cup {NoAddr}]
    /\ Blank \notin Spellings
    /\ MaxForged \in Nat /\ MaxHops \in Nat

\* An entry of the header, and whether a new header line starts with it.
Entry == [text: Spellings \cup {Blank}, newLine: BOOLEAN]

VARIABLES
    place,      \* idle, on its way, or resolved
    peer,       \* the TCP peer of whoever has the request, as written
    chain,      \* the entries of X-Forwarded-For
    sender,     \* who really sent it into the proxies
    forged,     \* how many entries the sender wrote
    clientIP    \* the address in the request's context

route == <<place, peer, chain, sender, forged, clientIP>>

AddressTypeOK ==
    /\ place \in {"idle", "travelling", "resolved"}
    /\ peer \in Spellings \cup {Blank}
    /\ chain \in Seq(Entry)
    /\ sender \in Addrs \cup {NoAddr}
    /\ forged \in 0..Len(chain)
    /\ clientIP \in Addrs \cup {NoAddr}

AddressInit ==
    /\ place = "idle" /\ peer = Blank /\ chain = <<>>
    /\ sender = NoAddr /\ forged = 0 /\ clientIP = NoAddr

-----------------------------------------------------------------------------
(* ClientIPResolver.                                                       *)

\* Mutant: the first header line only.
StopsInFirstLine(entries) ==
    {i \in DOMAIN entries : /\ entries[i].text # Blank
                            /\ Parse[entries[i].text] \notin Trusted
                            /\ \A j \in 2..i : ~entries[j].newLine}

\* forwardedChain drops empty entries and flattens the lines; the walk from the
\* right passes over trusted proxies and stops at what is left.
Stops(entries) ==
    {i \in DOMAIN entries : /\ entries[i].text # Blank
                            /\ Parse[entries[i].text] \notin Trusted}

Rightmost(S) == CHOOSE i \in S : \A j \in S : j <= i

\* A peer outside the infrastructure speaks for itself only; an entry that
\* parses to nothing ends the walk at the peer.
ClientIP(from, entries) ==
    IF Parse[from] \notin Trusted \/ Stops(entries) = {} THEN Parse[from]
    ELSE LET found == Parse[entries[Rightmost(Stops(entries))].text]
         IN  IF found = NoAddr THEN Parse[from] ELSE found

-----------------------------------------------------------------------------
(* The way of a request.                                                   *)

\* A sender outside the proxies forges the header; one of the proxies sends
\* requests of its own without it.
Send(s, entries) ==
    /\ place = "idle"
    /\ Len(entries) <= MaxForged
    /\ Parse[s] \in Trusted => entries = <<>>
    /\ place' = "travelling"
    /\ peer' = s /\ sender' = Parse[s]
    /\ chain' = entries /\ forged' = Len(entries)
    /\ UNCHANGED clientIP

\* A proxy appends its peer, spelt its own way, which may be one that
\* parseClientAddr refuses, and passes the request on.
Forward(s, text, newLine) ==
    /\ place = "travelling"
    /\ Len(chain) < forged + MaxHops
    /\ Parse[s] \in Trusted
    /\ Parse[peer] # NoAddr
    /\ Parse[text] \in {Parse[peer], NoAddr}
    /\ chain' = Append(chain, [text |-> text, newLine |-> newLine])
    /\ peer' = s
    /\ UNCHANGED <<place, sender, forged, clientIP>>

\* ClientIPResolver.Middleware.
Resolve ==
    /\ place = "travelling"
    /\ place' = "resolved"
    /\ clientIP' = ClientIP(peer, chain)
    /\ UNCHANGED <<peer, chain, sender, forged>>

\* The request is answered.
Forget ==
    /\ place = "resolved"
    /\ place' = "idle" /\ peer' = Blank /\ chain' = <<>>
    /\ sender' = NoAddr /\ forged' = 0 /\ clientIP' = NoAddr

AddressNext ==
    \/ \E s \in Spellings, n \in 0..MaxForged :
          \E entries \in [1..n -> Entry] : Send(s, entries)
    \/ \E s, text \in Spellings, newLine \in BOOLEAN : Forward(s, text, newLine)
    \/ Resolve
    \/ Forget

AddressSpec == AddressInit /\ [][AddressNext]_route

-----------------------------------------------------------------------------
(* Properties.                                                             *)

\* What the proxies appended is all there is to read between here and the sender.
Appended == (forged + 1)..Len(chain)

\* The address in the context is never one the sender chose: it is the sender's
\* own or the last proxy's, and the sender's whenever the proxies spell what
\* they append in a way that parses (clientip.go 24-58).
AddressIsReal ==
    place = "resolved" =>
        /\ clientIP \in {sender, Parse[peer]}
        /\ (\A i \in Appended : Parse[chain[i].text] # NoAddr)
              => (clientIP = sender \/ sender \in Trusted)
=============================================================================
