------------------------------ MODULE Server_proofs ------------------------------
(***************************************************************************)
(* Proofs of the properties of ClientAddress, RequestGate and Server, for  *)
(* any addresses, spellings, chains, origins, checks, timeouts and         *)
(* configurations.  The chain's invariant says what stands right of what   *)
(* the sender wrote: the sender, then trusted proxies, each as it is or    *)
(* unreadable.  A report is complete because the mutex keeps what a        *)
(* goroutine has read equal to the slice; a probe never outlasts a         *)
(* shutdown because no request is taken once it has begun, so the clock of *)
(* the probe is never behind that of the shutdown.                         *)
(***************************************************************************)
EXTENDS Server, WellFoundedInduction, TLAPS

-----------------------------------------------------------------------------
(* The rightmost element.                                                  *)

\* A set of positions that is bounded and not empty has a rightmost one, so the
\* walk of ClientIP has a place to stop (clientip.go 81-90).
LEMMA RightmostExists ==
    ASSUME NEW n \in Nat, NEW S \in SUBSET (1..n), S # {}
    PROVE  Rightmost(S) \in S /\ \A j \in S : j <= Rightmost(S)
<1> DEFINE T == {n - i : i \in S}
           R == OpToRel(<, Nat)
<1> HIDE DEF R
<1>1. T \subseteq Nat /\ T # {}
  <2>1. \A i \in S : n - i \in Nat
    OBVIOUS
  <2>2. PICK j \in S : TRUE
    OBVIOUS
  <2>3. n - j \in T
    BY <2>2
  <2> QED  BY <2>1, <2>3
<1>2. PICK t \in T : \A u \in T : ~(<<u, t>> \in R)
  <2> HIDE DEF T
  <2>1. IsWellFoundedOn(R, Nat)
    BY NatLessThanWellFounded DEF R
  <2> QED  BY <1>1, <2>1, WFMin
<1>3. \A u \in T : ~(u < t)
  <2> TAKE u \in T
  <2> HIDE DEF T
  <2>1. u \in Nat /\ t \in Nat
    BY <1>1, <1>2
  <2> QED  BY <1>2, <2>1 DEF OpToRel, R
<1>4. PICK i \in S : t = n - i
  BY <1>2
<1>5. \A j \in S : j <= i
  <2> TAKE j \in S
  <2>1. ~(n - j < n - i)
    BY <1>3, <1>4
  <2> QED  BY <2>1
<1> QED  BY <1>4, <1>5 DEF Rightmost

-----------------------------------------------------------------------------
(* The address.                                                            *)

\* What the proxies appended, once they appended something.
AppendedOK ==
    /\ Parse[peer] \in Trusted
    /\ chain[forged + 1].text \in Spellings
    /\ Parse[chain[forged + 1].text] \in {sender, NoAddr}
    /\ \A i \in (forged + 2)..Len(chain) :
          /\ chain[i].text \in Spellings
          /\ Parse[chain[i].text] \in Trusted \cup {NoAddr}

AddressInv ==
    /\ AddressTypeOK
    /\ place # "idle" =>
          /\ peer \in Spellings
          /\ sender \in Trusted => forged = 0
          /\ Len(chain) = forged => Parse[peer] = sender
          /\ Len(chain) > forged => AppendedOK
    /\ place = "resolved" => clientIP = ClientIP(peer, chain)

\* What ClientIP returns is an address or none, whatever the chain.
LEMMA ClientIPType ==
    ASSUME AddressAssumption, NEW from \in Spellings, NEW entries \in Seq(Entry)
    PROVE  ClientIP(from, entries) \in Addrs \cup {NoAddr}
<1> DEFINE S == Stops(entries)
<1>1. Parse[from] \in Addrs \cup {NoAddr}
  BY DEF AddressAssumption
<1>2. CASE S = {}
  BY <1>1, <1>2 DEF ClientIP
<1>3. CASE S # {}
  <2>1. S \subseteq 1..Len(entries) /\ Len(entries) \in Nat
    BY DEF Stops
  <2>2. Rightmost(S) \in S
    BY <1>3, <2>1, RightmostExists
  <2>3. entries[Rightmost(S)].text \in Spellings
    <3>1. entries[Rightmost(S)] \in Entry
      BY <2>1, <2>2
    <3> QED  BY <2>2, <3>1 DEF Stops, Entry
  <2>4. Parse[entries[Rightmost(S)].text] \in Addrs \cup {NoAddr}
    BY <2>3 DEF AddressAssumption
  <2> QED  BY <1>1, <2>4 DEF ClientIP
<1> QED  BY <1>2, <1>3

\* The walk ends at what the first proxy appended, or gives up right of it.
LEMMA AddressIsRealFromInv == AddressAssumption /\ AddressInv => AddressIsReal
<1> SUFFICES ASSUME AddressAssumption, AddressInv, place = "resolved"
             PROVE  /\ clientIP \in {sender, Parse[peer]}
                    /\ (\A i \in Appended : Parse[chain[i].text] # NoAddr)
                          => (clientIP = sender \/ sender \in Trusted)
  BY DEF AddressIsReal
<1> DEFINE S == Stops(chain)
           r == Rightmost(S)
<1>1. /\ chain \in Seq(Entry) /\ Len(chain) \in Nat /\ forged \in 0..Len(chain)
      /\ clientIP = ClientIP(peer, chain)
      /\ NoAddr \notin Trusted
  BY DEF AddressInv, AddressTypeOK, AddressAssumption
<1>2. CASE Len(chain) = forged
  <2>1. Parse[peer] = sender
    BY <1>2 DEF AddressInv
  <2>2. sender \in Trusted => S = {}
    BY <1>1, <1>2 DEF AddressInv, Stops
  <2>3. clientIP = sender
    BY <1>1, <2>1, <2>2 DEF ClientIP
  <2> QED  BY <2>3
<1>3. CASE Len(chain) > forged
  <2>1. AppendedOK /\ forged + 1 \in 1..Len(chain) /\ forged + 1 \in Appended
    BY <1>1, <1>3 DEF AddressInv, Appended
  <2>2. Parse[chain[forged + 1].text] = sender /\ forged + 1 \notin S => sender \in Trusted
    BY <1>1, <2>1 DEF AppendedOK, Stops, AddressAssumption
  <2>3. CASE S = {}
    <3>1. clientIP = Parse[peer]
      BY <1>1, <2>3 DEF ClientIP
    <3>2. (\A i \in Appended : Parse[chain[i].text] # NoAddr) => sender \in Trusted
      BY <2>1, <2>2, <2>3 DEF AppendedOK
    <3> QED  BY <3>1, <3>2
  <2>4. CASE S # {}
    <3>1. r \in S /\ r \in 1..Len(chain) /\ \A j \in S : j <= r
      <4>1. S \in SUBSET (1..Len(chain))
        BY <1>1 DEF Stops
      <4> QED  BY <1>1, <2>4, <4>1, RightmostExists
    <3>2. /\ Parse[chain[r].text] \notin Trusted
          /\ clientIP = IF Parse[chain[r].text] = NoAddr THEN Parse[peer]
                        ELSE Parse[chain[r].text]
      BY <1>1, <2>1, <2>4, <3>1 DEF ClientIP, Stops, AppendedOK
    <3>3. CASE r > forged + 1
      <4>1. r \in (forged + 2)..Len(chain) /\ r \in Appended
        BY <1>1, <3>1, <3>3 DEF Appended
      <4>2. Parse[chain[r].text] = NoAddr
        BY <2>1, <3>2, <4>1 DEF AppendedOK
      <4> QED  BY <3>2, <4>1, <4>2
    <3>4. CASE r = forged + 1
      BY <2>1, <3>2, <3>4 DEF AppendedOK
    <3>5. CASE r < forged + 1
      <4>1. forged + 1 \notin S
        BY <1>1, <3>1, <3>5
      <4>2. forged # 0
        BY <1>1, <3>1, <3>5
      <4>3. sender \notin Trusted
        BY <1>3, <4>2 DEF AddressInv
      <4>4. Parse[chain[forged + 1].text] = NoAddr
        BY <2>1, <2>2, <4>1, <4>3 DEF AppendedOK
      <4>5. forged + 1 \in S
        BY <1>1, <2>1, <4>4 DEF AppendedOK, Stops, AddressAssumption
      <4> QED  BY <4>1, <4>5
    <3> QED  BY <1>1, <3>1, <3>3, <3>4, <3>5
  <2> QED  BY <2>3, <2>4
<1> QED  BY <1>1, <1>2, <1>3

LEMMA AddressInvInit == AddressAssumption /\ AddressInit => AddressInv
  BY DEF AddressAssumption, AddressInit, AddressInv, AddressTypeOK

\* A sender outside the proxies may have forged; one of them has not.
LEMMA SendInv ==
    ASSUME AddressAssumption, AddressInv, NEW s \in Spellings, NEW n \in 0..MaxForged,
           NEW entries \in [1..n -> Entry], Send(s, entries)
    PROVE  AddressInv'
<1>1. entries \in Seq(Entry) /\ Len(entries) = n /\ n \in Nat
  BY DEF AddressAssumption
<1>2. Parse[s] \in Addrs \cup {NoAddr}
  BY DEF AddressAssumption
<1>3. AddressTypeOK'
  BY <1>1, <1>2 DEF Send, AddressInv, AddressTypeOK
<1>4. sender' \in Trusted => forged' = 0
  BY <1>1 DEF Send
<1> QED  BY <1>1, <1>3, <1>4 DEF Send, AddressInv

\* Who appends is trusted, and so is whoever it appends unless it is the sender.
LEMMA ForwardInv ==
    ASSUME AddressAssumption, AddressInv, NEW s \in Spellings, NEW text \in Spellings,
           NEW newLine \in BOOLEAN, Forward(s, text, newLine)
    PROVE  AddressInv'
<1> DEFINE e == [text |-> text, newLine |-> newLine]
<1>1. /\ e \in Entry /\ e.text = text
      /\ chain \in Seq(Entry) /\ Len(chain) \in Nat /\ forged \in 0..Len(chain)
      /\ chain' = Append(chain, e) /\ peer' = s /\ forged' = forged /\ sender' = sender
  BY DEF Forward, AddressInv, AddressTypeOK, Entry
<1> HIDE DEF e
<1>2. /\ chain' \in Seq(Entry) /\ Len(chain') = Len(chain) + 1
      /\ chain'[Len(chain) + 1] = e
      /\ \A i \in 1..Len(chain) : chain'[i] = chain[i]
  BY <1>1
<1>3. AddressTypeOK'
  BY <1>1, <1>2 DEF Forward, AddressInv, AddressTypeOK
<1>4. AppendedOK'
  <2>1. Parse[s] \in Trusted /\ Parse[text] \in {Parse[peer], NoAddr} /\ place # "idle"
    BY DEF Forward
  <2>2. CASE Len(chain) = forged
    <3>1. Parse[peer] = sender
      BY <2>1, <2>2 DEF AddressInv
    <3> QED  BY <1>1, <1>2, <2>1, <2>2, <3>1 DEF AppendedOK
  <2>3. CASE Len(chain) > forged
    <3>1. AppendedOK
      BY <2>1, <2>3 DEF AddressInv
    <3>2. chain'[forged + 1] = chain[forged + 1]
      BY <1>1, <1>2, <2>3
    <3>3. \A i \in (forged + 2)..(Len(chain) + 1) :
            /\ chain'[i].text \in Spellings
            /\ Parse[chain'[i].text] \in Trusted \cup {NoAddr}
      <4> TAKE i \in (forged + 2)..(Len(chain) + 1)
      <4>1. CASE i = Len(chain) + 1
        BY <1>1, <1>2, <2>1, <3>1, <4>1 DEF AppendedOK
      <4>2. CASE i # Len(chain) + 1
        <5>1. i \in (forged + 2)..Len(chain) /\ i \in 1..Len(chain)
          BY <1>1, <4>2
        <5> QED  BY <1>2, <3>1, <5>1 DEF AppendedOK
      <4> QED  BY <4>1, <4>2
    <3> QED  BY <1>1, <1>2, <2>1, <3>1, <3>2, <3>3 DEF AppendedOK
  <2> QED  BY <1>1, <2>2, <2>3
<1> QED  BY <1>1, <1>2, <1>3, <1>4 DEF Forward, AddressInv

LEMMA AddressInvStep == AddressAssumption /\ AddressInv /\ [AddressNext]_route => AddressInv'
<1> SUFFICES ASSUME AddressAssumption, AddressInv, [AddressNext]_route
             PROVE  AddressInv'
  OBVIOUS
<1>1. CASE \E s \in Spellings, n \in 0..MaxForged :
              \E entries \in [1..n -> Entry] : Send(s, entries)
  BY <1>1, SendInv
<1>2. CASE \E s, text \in Spellings, newLine \in BOOLEAN : Forward(s, text, newLine)
  BY <1>2, ForwardInv
<1>3. CASE Resolve
  <2>1. peer \in Spellings /\ chain \in Seq(Entry)
    BY <1>3 DEF Resolve, AddressInv, AddressTypeOK
  <2>2. clientIP' \in Addrs \cup {NoAddr}
    BY <1>3, <2>1, ClientIPType DEF Resolve
  <2>3. AddressTypeOK'
    BY <1>3, <2>2 DEF Resolve, AddressInv, AddressTypeOK
  <2> QED  BY <1>3, <2>3 DEF Resolve, AddressInv, AppendedOK
<1>4. CASE Forget
  BY <1>4 DEF Forget, AddressAssumption, AddressInv, AddressTypeOK
<1>5. CASE UNCHANGED route
  BY <1>5 DEF route, AddressInv, AddressTypeOK, AppendedOK
<1> QED  BY <1>1, <1>2, <1>3, <1>4, <1>5 DEF AddressNext

\* The address in the context of a request is never one its sender chose, for any
\* proxies, headers and spellings (ClientIPResolver).
THEOREM AddressesAreReal == AddressSpec => []AddressIsReal
<1>1. AddressInit => AddressInv
  BY AddressInvInit, AddressAssumption
<1>2. AddressInv /\ [AddressNext]_route => AddressInv'
  BY AddressInvStep, AddressAssumption
<1>3. AddressInv => AddressIsReal
  BY AddressIsRealFromInv, AddressAssumption
<1> QED  BY <1>1, <1>2, <1>3, PTL DEF AddressSpec

-----------------------------------------------------------------------------
(* The gate.                                                               *)

Granted(o) == IF o \in WebOrigins THEN o ELSE NoOrigin

\* What the layers passed so far have left in the answer, and that whatever the
\* cache holds was granted to the origin it was kept for.
GateInv ==
    /\ answer.stage = "CORS" => answer.grants = NoOrigin
    /\ answer.stage # "none" /\ page # NoOrigin => SentByBrowser(page, request)
    /\ answer.stage \in {"CSRF", "preflight", "handled"} /\ "CORS" \in layers =>
          answer.vary /\ answer.grants = Granted(request.origin)
    /\ answer.stage = "handled" /\ "CSRF" \in layers => MayPass
    /\ \A e \in cached : /\ e.answer.stage = "handled" /\ e.answer.vary
                         /\ e.answer.grants = Granted(e.origin)

\* Under a gate the address is found as without it: every step of RequestGate is
\* one of ClientAddress or leaves the route of the request alone.
LEMMA GateStepsAreAddressSteps == [GateNext]_allVars => [AddressNext]_route
<1> SUFFICES ASSUME [GateNext]_allVars  PROVE [AddressNext]_route
  OBVIOUS
<1>1. CASE \E s \in Spellings, n \in 0..MaxForged :
              \E entries \in [1..n -> Entry] :
                 answer.stage = "none" /\ Send(s, entries) /\ UNCHANGED gate
  BY <1>1 DEF AddressNext
<1>2. CASE \E s, text \in Spellings, newLine \in BOOLEAN :
              Forward(s, text, newLine) /\ UNCHANGED gate
  BY <1>2 DEF AddressNext
<1>3. CASE Resolve /\ UNCHANGED gate
  BY <1>3 DEF AddressNext
<1>4. CASE \E o \in Origins \cup {NoOrigin}, mounted \in SUBSET Layers :
              \E r \in Requests[o] : Arrive(o, r, mounted)
  BY <1>4 DEF AddressNext, Arrive
<1>5. CASE CORS \/ RequireTrustedOrigin \/ Keep \/ (\E e \in cached : FromCache(e)) \/ Done
  BY <1>5 DEF CORS, RequireTrustedOrigin, Keep, FromCache, Done, route
<1>6. CASE UNCHANGED allVars
  BY <1>6 DEF allVars
<1> QED  BY <1>1, <1>2, <1>3, <1>4, <1>5, <1>6 DEF GateNext

LEMMA GateTypeStep == GateTypeOK /\ AddressTypeOK' /\ [GateNext]_allVars => GateTypeOK'
<1> SUFFICES ASSUME GateTypeOK, AddressTypeOK', [GateNext]_allVars  PROVE GateTypeOK'
  OBVIOUS
<1>1. CASE UNCHANGED gate
  BY <1>1 DEF GateTypeOK, gate
<1>2. ASSUME NEW o \in Origins \cup {NoOrigin}, NEW mounted \in SUBSET Layers,
             NEW r \in Requests[o], Arrive(o, r, mounted)
      PROVE  GateTypeOK'
  BY <1>2 DEF GateTypeOK, Arrive, Requests, Answer, NoAnswer
<1>3. CASE CORS
  BY <1>3, OriginAssumption DEF CORS, GateTypeOK, Answer, Request
<1>4. CASE RequireTrustedOrigin
  BY <1>4 DEF RequireTrustedOrigin, GateTypeOK, Answer
<1>5. CASE Keep
  BY <1>5 DEF Keep, GateTypeOK, Request
<1>6. ASSUME NEW e \in cached, FromCache(e)  PROVE GateTypeOK'
  BY <1>6 DEF FromCache, GateTypeOK
<1>7. CASE Done
  BY <1>7 DEF Done, GateTypeOK, NoRequest, NoAnswer, Request, Answer, Methods, Sites, Layers
<1> QED
  <2>1. UNCHANGED allVars => UNCHANGED gate
    BY DEF allVars
  <2> QED  BY <1>1, <1>2, <1>3, <1>4, <1>5, <1>6, <1>7, <2>1 DEF GateNext

LEMMA GateInvStep == GateTypeOK /\ GateInv /\ [GateNext]_allVars => GateInv'
<1> SUFFICES ASSUME GateTypeOK, GateInv, [GateNext]_allVars  PROVE GateInv'
  OBVIOUS
<1> USE DEF GateInv
<1>1. CASE UNCHANGED gate
  BY <1>1 DEF gate, SentByBrowser, MayPass, IsStateChanging
<1>2. ASSUME NEW o \in Origins \cup {NoOrigin}, NEW mounted \in SUBSET Layers,
             NEW r \in Requests[o], Arrive(o, r, mounted)
      PROVE  GateInv'
  BY <1>2 DEF Arrive, Requests, NoAnswer, SentByBrowser
<1>3. CASE CORS
  <2>1. answer \in Answer
    BY DEF GateTypeOK
  <2>2. UNCHANGED <<page, layers, request, cached>> /\ answer.stage = "CORS"
    BY <1>3 DEF CORS
  <2>3. (answer'.stage \in {"CSRF", "preflight"} /\ "CORS" \in layers =>
            answer'.vary /\ answer'.grants = Granted(request.origin))
        /\ answer'.stage \in {"CSRF", "preflight", "refused"}
    BY <1>3, <2>1, <2>2, OriginAssumption DEF CORS, Answer, Granted
  <2> QED  BY <2>2, <2>3 DEF SentByBrowser, Granted
<1>4. CASE RequireTrustedOrigin
  <2>1. answer \in Answer
    BY DEF GateTypeOK
  <2> QED  BY <1>4, <2>1 DEF RequireTrustedOrigin, Answer, SentByBrowser, MayPass,
                             IsStateChanging, Granted
<1>5. CASE Keep
  BY <1>5 DEF Keep, SentByBrowser, MayPass, IsStateChanging
<1>6. ASSUME NEW e \in cached, FromCache(e)  PROVE GateInv'
  BY <1>6 DEF FromCache, SentByBrowser, MayPass, IsStateChanging
<1>7. CASE Done
  BY <1>7 DEF Done, NoAnswer
<1> QED
  <2>1. UNCHANGED allVars => UNCHANGED gate
    BY DEF allVars
  <2> QED  BY <1>1, <1>2, <1>3, <1>4, <1>5, <1>6, <1>7, <2>1 DEF GateNext

\* The invariants of the address and of the gate, together.
THEOREM GateInvariance == GateSpec => [](AddressInv /\ GateTypeOK /\ GateInv)
<1>1. GateInit => AddressInv /\ GateTypeOK /\ GateInv
  <2>1. GateInit => AddressInv
    BY AddressInvInit, AddressAssumption DEF GateInit
  <2>2. AddressInv => AddressTypeOK
    BY DEF AddressInv
  <2>3. GateInit /\ AddressTypeOK => GateTypeOK
    BY DEF GateInit, GateTypeOK, NoRequest, NoAnswer, Request, Answer, Methods, Sites, Layers
  <2>4. GateInit => GateInv
    BY DEF GateInit, GateInv, NoAnswer
  <2> QED  BY <2>1, <2>2, <2>3, <2>4
<1>2. AddressInv /\ GateTypeOK /\ GateInv /\ [GateNext]_allVars
        => (AddressInv /\ GateTypeOK /\ GateInv)'
  <2>1. AddressInv /\ [GateNext]_allVars => AddressInv'
    BY AddressInvStep, GateStepsAreAddressSteps, AddressAssumption
  <2>2. AddressInv' => AddressTypeOK'
    BY DEF AddressInv
  <2> QED  BY <2>1, <2>2, GateTypeStep, GateInvStep
<1> QED  BY <1>1, <1>2, PTL DEF GateSpec

\* Every variable of the gate keeps its type.
THEOREM TypeCorrectness == GateSpec => []GateTypeOK
  BY GateInvariance, PTL

\* Behind the gate, too, no request is attributed to an address of its sender's
\* choosing (router.go 30-38, clientip.go 24-58).
THEOREM AddressesAreRealBehindTheGate == GateSpec => []AddressIsReal
<1>1. AddressInv => AddressIsReal
  BY AddressIsRealFromInv, AddressAssumption
<1> QED  BY <1>1, GateInvariance, PTL

\* A page that got through is ours: it could not have claimed to be.
LEMMA OnlyOursFromInv == GateTypeOK /\ GateInv => OnlyOurPagesChangeState
<1> SUFFICES ASSUME GateTypeOK, GateInv, answer.stage = "handled",
                    IsStateChanging(request.method), "CSRF" \in layers, page # NoOrigin
             PROVE  page \in WebOrigins \cup {Self}
  BY DEF OnlyOurPagesChangeState
<1>1. SentByBrowser(page, request) /\ MayPass
  BY DEF GateInv
<1>2. CASE request.origin \in WebOrigins
  BY <1>1, <1>2, OriginAssumption DEF SentByBrowser
<1>3. CASE request.origin = NoOrigin /\ request.site = "same-origin"
  BY <1>1, <1>3 DEF SentByBrowser
<1> QED  BY <1>1, <1>2, <1>3 DEF MayPass

\* No page outside the allowlist and the API's own origin spends its visitor's
\* cookies on a change (csrf.go 36-50).
THEOREM ForeignPagesChangeNothing == GateSpec => []OnlyOurPagesChangeState
  BY OnlyOursFromInv, GateInvariance, PTL

\* No cache serves a page a grant that is not its own (cors.go 141-150).
THEOREM GrantsAreNotShared == GateSpec => []GrantsFitTheirPage
<1>1. GateInv => GrantsFitTheirPage
  BY DEF GateInv, GrantsFitTheirPage, Granted
<1> QED  BY <1>1, GateInvariance, PTL

-----------------------------------------------------------------------------
(* The server: its invariant.                                              *)

\* The slice holds the errors of the checks that are done, and so does the copy
\* of whoever holds the mutex.
ProbeInv ==
    /\ \A c \in Checks :
         /\ check[c] \in {"lock", "append"} => c \in erred
         /\ c \in erred => check[c] \in {"lock", "append", "done"}
         /\ c \in failed <=> c \in erred /\ check[c] = "done"
         /\ check[c] = "append" => mu = c /\ read[c] = failed
         /\ probe # "running" => check[c] \in {"idle", "done"}
    /\ ReportIsComplete

\* A request that has arrived was taken by a listener, and the shutdown has
\* waited no longer than any probe that is running.
DrainInv ==
    /\ main = "load" => server = "new"
    /\ main \in {"load", "select"} => drained = 0
    /\ main = "shutdown" => server # "listening"
    /\ place = "resolved" => server \in {"listening", "closed"}
    /\ probe # "idle" => place = "resolved"
    /\ main = "shutdown" /\ place = "resolved" /\ probe = "idle" => drained = 0
    /\ main = "shutdown" /\ probe = "running" => drained <= age

ServerInv ==
    /\ ServerTypeOK
    /\ AddressInv /\ GateInv
    /\ ProbeInv /\ DrainInv

\* The two clocks count up to their timeouts.
LEMMA ClockTypes ==
    ASSUME ServerTypeOK
    PROVE  /\ drained \in 0..ShutdownTimeout /\ age \in 0..ReadinessTimeout
           /\ drained \in Nat /\ age \in Nat
           /\ 0 \in 0..ShutdownTimeout /\ 0 \in 0..ReadinessTimeout
           /\ NoCheck \notin Checks
<1>1. drained \in 0..ShutdownTimeout /\ age \in 0..ReadinessTimeout
  BY DEF ServerTypeOK
<1> QED  BY <1>1, TimeoutAssumption

-----------------------------------------------------------------------------
(* What the requests do.                                                   *)

\* Whatever the process does, a request takes a step of the gate, or leaves when
\* its health route has answered it (router.go 32-44).
LEMMA ServerStepsAreGateSteps ==
    [ServerNext]_everything => [GateNext]_allVars \/ (Forget /\ UNCHANGED gate)
<1> SUFFICES ASSUME [ServerNext]_everything
             PROVE  [GateNext]_allVars \/ (Forget /\ UNCHANGED gate)
  OBVIOUS
<1>1. CASE Serve
  BY <1>1 DEF Serve, Readyz, CheckReturns, Lock, AppendAndUnlock, Report, Sent, allVars
<1>2. CASE Load \/ ListenAndServe \/ Signal \/ SelectError \/ SelectSignal
             \/ ShutdownReturns \/ ShutdownTimesOut \/ Tick
  BY <1>2 DEF Load, ListenAndServe, Signal, SelectError, SelectSignal, ShutdownReturns,
              ShutdownTimesOut, Tick, allVars
<1>3. CASE UNCHANGED everything
  BY <1>3 DEF everything, allVars
<1> QED  BY <1>1, <1>2, <1>3 DEF ServerNext

\* So the invariants of the address and of the gate hold in the server
\* (clientip.go 24-58, cors.go 141-150).
LEMMA GateKeptByServer ==
    ASSUME AddressInv, GateTypeOK, GateInv, [ServerNext]_everything
    PROVE  (AddressInv /\ GateTypeOK /\ GateInv)'
<1>1. AddressInv'
  <2>1. [AddressNext]_route
    BY ServerStepsAreGateSteps, GateStepsAreAddressSteps DEF AddressNext
  <2> QED  BY <2>1, AddressInvStep, AddressAssumption
<1>2. AddressTypeOK'
  BY <1>1 DEF AddressInv
<1>3. CASE [GateNext]_allVars
  BY <1>1, <1>2, <1>3, GateTypeStep, GateInvStep
<1>4. CASE Forget /\ UNCHANGED gate
  BY <1>1, <1>2, <1>4 DEF GateTypeOK, GateInv, gate, SentByBrowser, MayPass,
                          IsStateChanging, Granted
<1> QED  BY <1>3, <1>4, ServerStepsAreGateSteps

-----------------------------------------------------------------------------
(* The process.                                                            *)

\* Of main, the listener and the clock (main.go 32-82).
LEMMA ProcessKeeps ==
    ASSUME TimeoutAssumption, ServerInv, (AddressInv /\ GateTypeOK /\ GateInv)',
           \/ Load \/ ListenAndServe \/ Signal \/ SelectError \/ SelectSignal
           \/ ShutdownReturns \/ ShutdownTimesOut
    PROVE  ServerInv'
<1> USE DEF ServerInv, Load, ListenAndServe, Signal, SelectError, SelectSignal,
            ShutdownReturns, ShutdownTimesOut
<1>1. /\ place' = place /\ answer' = answer /\ UNCHANGED probing
      /\ environment' = environment /\ drained' = drained
  BY DEF route, gate
<1>2. ServerTypeOK'
  BY <1>1 DEF ServerTypeOK, probing, Ended
<1>3. ProbeInv'
  BY <1>1 DEF ProbeInv, ReportIsComplete, probing
<1>4. DrainInv'
  <2>1. probe' = probe /\ age' = age
    BY <1>1 DEF probing
  <2> QED  BY <1>1, <2>1, ClockTypes DEF DrainInv, Ended
<1> QED  BY <1>2, <1>3, <1>4

\* The clock runs for a shutdown and for a probe alike.
LEMMA TickKeeps ==
    ASSUME TimeoutAssumption, ServerInv, (AddressInv /\ GateTypeOK /\ GateInv)', Tick
    PROVE  ServerInv'
<1> USE DEF ServerInv, Tick
<1>1. /\ place' = place /\ answer' = answer /\ main' = main /\ server' = server
      /\ probe' = probe
  BY DEF route, gate
<1>2. ServerTypeOK'
  <2>1. drained' \in 0..ShutdownTimeout /\ age' \in 0..ReadinessTimeout
    <3>1. /\ drained \in 0..ShutdownTimeout /\ age \in 0..ReadinessTimeout
          /\ ShutdownTimeout \in Nat /\ ReadinessTimeout \in Nat
      BY ClockTypes, TimeoutAssumption
    <3>2. drained' \in {drained, drained + 1} /\ (drained' # drained => drained < ShutdownTimeout)
      OBVIOUS
    <3>3. age' \in {age, age + 1} /\ (age' # age => age < ReadinessTimeout)
      OBVIOUS
    <3> QED  BY <3>1, <3>2, <3>3
  <2> QED  BY <1>1, <2>1 DEF ServerTypeOK
<1>3. ProbeInv'
  BY <1>1 DEF ProbeInv, ReportIsComplete
<1>4. DrainInv'
  <2>1. drained \in Nat /\ age \in Nat
    BY ClockTypes
  <2> QED  BY <1>1, <2>1 DEF Ended, DrainInv
<1> QED  BY <1>2, <1>3, <1>4

-----------------------------------------------------------------------------
(* The readiness route.                                                    *)

\* The goroutines of one probe, and its report (health.go 36-71).
LEMMA ProbeKeeps ==
    ASSUME TimeoutAssumption, ServerInv, NEW c \in Checks,
           \/ \E err \in BOOLEAN : CheckReturns(c, err)
           \/ Lock(c) \/ AppendAndUnlock(c)
    PROVE  ProbeInv' /\ ServerTypeOK' /\ probe = "running"
<1> USE DEF ServerInv
<1>1. probe = "running" /\ probe' = probe
  BY DEF ProbeInv, ServerTypeOK, CheckReturns, Lock, AppendAndUnlock
<1>2. /\ check \in [Checks -> {"idle", "running", "lock", "append", "done"}]
      /\ erred \subseteq Checks /\ failed \subseteq Checks
      /\ read \in [Checks -> SUBSET Checks]
      /\ mu \in Checks \cup {NoCheck} /\ NoCheck \notin Checks
  BY ClockTypes DEF ServerTypeOK
<1>3. UNCHANGED <<route, gate, process>> => GateTypeOK'
  BY DEF ServerTypeOK, GateTypeOK, AddressTypeOK, route, gate
<1>4. UNCHANGED <<route, gate, process>> /\ age' = age
  BY DEF CheckReturns, Lock, AppendAndUnlock
<1>5. ReportIsComplete'
  BY <1>1 DEF ReportIsComplete
<1>6. ASSUME NEW err \in BOOLEAN, CheckReturns(c, err) PROVE ProbeInv' /\ ServerTypeOK'
  <2>1. ServerTypeOK'
    BY <1>2, <1>3, <1>6 DEF CheckReturns, ServerTypeOK, process
  <2>2. ProbeInv'
    BY <1>1, <1>2, <1>5, <1>6 DEF CheckReturns, ProbeInv
  <2> QED  BY <2>1, <2>2
<1>7. CASE Lock(c)
  <2>1. ServerTypeOK'
    BY <1>2, <1>3, <1>7 DEF Lock, ServerTypeOK, process
  <2>2. /\ check[c] = "lock" /\ mu = NoCheck
        /\ check' = [check EXCEPT ![c] = "append"] /\ mu' = c
        /\ read' = [read EXCEPT ![c] = failed]
        /\ erred' = erred /\ failed' = failed
    BY <1>7 DEF Lock
  <2>3. ProbeInv'
    BY <1>1, <1>2, <1>5, <2>2 DEF ProbeInv
  <2> QED  BY <1>1, <2>1, <2>3
<1>8. CASE AppendAndUnlock(c)
  <2>1. ServerTypeOK'
    BY <1>2, <1>3, <1>8 DEF AppendAndUnlock, ServerTypeOK, process
  <2>2. /\ check[c] = "append" /\ mu = c /\ c \in erred /\ erred' = erred
        /\ check' = [check EXCEPT ![c] = "done"] /\ failed' = failed \cup {c}
        /\ \A d \in Checks \ {c} : check[d] # "append"
    BY <1>8 DEF AppendAndUnlock, ProbeInv
  <2>3. ProbeInv'
    BY <1>1, <1>2, <1>5, <2>2 DEF ProbeInv
  <2> QED  BY <1>1, <2>1, <2>3
<1> QED  BY <1>1, <1>6, <1>7, <1>8

\* A request served, by a handler or by a health route (router.go 32-44).
LEMMA ServeKeeps ==
    ASSUME TimeoutAssumption, ServerInv, (AddressInv /\ GateTypeOK /\ GateInv)', Serve
    PROVE  ServerInv'
<1> USE DEF ServerInv
<1>1. ~Ended /\ UNCHANGED process
  BY DEF Serve
<1>2. UNCHANGED <<environment, main, server, signalled, drained>>
  BY <1>1 DEF process
<1>3. CASE /\ probe = "idle" /\ UNCHANGED probing
           /\ place' = "resolved" /\ place # "resolved" => server = "listening"
  <2>1. ServerTypeOK' /\ ProbeInv'
    BY <1>2, <1>3 DEF ServerTypeOK, ProbeInv, ReportIsComplete, probing
  <2>2. DrainInv'
    BY <1>2, <1>3 DEF DrainInv, probing
  <2> QED  BY <2>1, <2>2
<1>4. CASE Readyz
  <2>1. ServerTypeOK'
    BY <1>2, <1>4, ClockTypes DEF ServerTypeOK, Readyz
  <2>2. ProbeInv'
    BY <1>4 DEF ProbeInv, ReportIsComplete, Readyz
  <2>3. DrainInv'
    BY <1>2, <1>4 DEF DrainInv, Readyz, route
  <2> QED  BY <2>1, <2>2, <2>3
<1>5. ASSUME NEW c \in Checks,
             (\E err \in BOOLEAN : CheckReturns(c, err)) \/ Lock(c) \/ AppendAndUnlock(c)
      PROVE  ServerInv'
  <2>1. probe' = probe /\ age' = age /\ place' = place
    BY <1>5 DEF CheckReturns, Lock, AppendAndUnlock, route
  <2>2. DrainInv'
    BY <1>2, <2>1 DEF DrainInv
  <2> QED  BY <1>5, <2>2, ProbeKeeps
<1>6. CASE Report
  <2>1. ServerTypeOK'
    BY <1>2, <1>6 DEF ServerTypeOK, Report
  <2>2. failed = erred
    BY <1>6 DEF Report, ProbeInv, ServerTypeOK
  <2>3. ProbeInv'
    BY <1>6, <2>2 DEF ProbeInv, ReportIsComplete, Report
  <2>4. DrainInv'
    BY <1>2, <1>6 DEF DrainInv, Report, route
  <2> QED  BY <2>1, <2>3, <2>4
<1>7. CASE Sent
  <2>1. /\ place' = "idle" /\ probe' = "idle" /\ check' = Idle
        /\ erred' = {} /\ failed' = {} /\ age' = 0 /\ mu' = mu /\ read' = read
    BY <1>7 DEF Sent, Forget
  <2>2. ServerTypeOK'
    BY <1>2, <2>1, ClockTypes DEF ServerTypeOK, Idle
  <2>3. ProbeInv'
    BY <2>1 DEF ProbeInv, ReportIsComplete, Idle
  <2>4. DrainInv'
    BY <1>2, <2>1 DEF DrainInv
  <2> QED  BY <2>2, <2>3, <2>4
<1> QED  BY <1>3, <1>4, <1>5, <1>6, <1>7 DEF Serve

-----------------------------------------------------------------------------
(* The theorems.                                                           *)

\* Of process, requests and probes together.
THEOREM ServerInvariance == ServerSpec => []ServerInv
<1>1. ServerInit => ServerInv
  <2> SUFFICES ASSUME ServerInit PROVE ServerInv
    OBVIOUS
  <2>1. AddressInv
    BY AddressInvInit, AddressAssumption DEF ServerInit, GateInit
  <2>2. GateTypeOK
    BY <2>1 DEF ServerInit, GateInit, GateTypeOK, AddressInv, NoRequest, NoAnswer, Request,
                Answer, Methods, Sites, Layers
  <2>3. GateInv
    BY DEF ServerInit, GateInit, GateInv, NoAnswer
  <2>4. ServerTypeOK
    <3>1. 0 \in 0..ShutdownTimeout /\ 0 \in 0..ReadinessTimeout
      BY TimeoutAssumption
    <3> QED  BY <2>2, <3>1 DEF ServerInit, ServerTypeOK, Idle
  <2>5. ProbeInv
    BY DEF ServerInit, ProbeInv, ReportIsComplete, Idle
  <2>6. DrainInv
    BY DEF ServerInit, GateInit, AddressInit, DrainInv
  <2> QED  BY <2>1, <2>3, <2>4, <2>5, <2>6 DEF ServerInv
<1>2. ServerInv /\ [ServerNext]_everything => ServerInv'
  <2> SUFFICES ASSUME ServerInv, [ServerNext]_everything PROVE ServerInv'
    OBVIOUS
  <2>1. (AddressInv /\ GateTypeOK /\ GateInv)'
    BY GateKeptByServer DEF ServerInv, ServerTypeOK
  <2>2. CASE UNCHANGED everything
    <3> USE <2>2 DEF everything, route, gate, process, probing
    <3>1. ServerTypeOK' /\ ProbeInv'
      BY <2>1 DEF ServerInv, ServerTypeOK, ProbeInv, ReportIsComplete
    <3>2. DrainInv'
      BY DEF ServerInv, DrainInv
    <3> QED  BY <2>1, <3>1, <3>2 DEF ServerInv
  <2> QED  BY <2>1, <2>2, ProcessKeeps, TickKeeps, ServeKeeps, TimeoutAssumption DEF TimeoutAssumption, ServerNext
<1> QED  BY <1>1, <1>2, PTL DEF ServerSpec

\* A report names the checks that failed, all of them and no other, in whatever
\* order their goroutines run (health.go 41-64).
THEOREM ReportsAreComplete == ServerSpec => []ReportIsComplete
<1>1. ServerInv => ReportIsComplete
  BY DEF ServerInv, ProbeInv
<1> QED  BY <1>1, ServerInvariance, PTL

\* No probe is running when the server gives up: not when its listener fails, not
\* when its configuration is refused, and not when a shutdown runs out of time,
\* as long as the probe's deadline is the shorter (router.go 15-18, main.go 19-23).
THEOREM ProbesDoNotSpoilShutdown ==
    ASSUME ReadinessTimeout < ShutdownTimeout
    PROVE  ServerSpec => []ProbesNeverSpoilShutdown
<1>1. ServerInit => ProbesNeverSpoilShutdown
  BY DEF ServerInit, ProbesNeverSpoilShutdown
<1>2. ServerInv /\ ProbesNeverSpoilShutdown /\ [ServerNext]_everything
        => ProbesNeverSpoilShutdown'
  <2> SUFFICES ASSUME ServerInv, ProbesNeverSpoilShutdown, [ServerNext]_everything,
                      main' = "error"
               PROVE  probe' # "running"
    BY DEF ProbesNeverSpoilShutdown
  <2>1. CASE main = "error"
    BY <2>1 DEF ServerNext, Load, ListenAndServe, Signal, SelectError, SelectSignal,
                ShutdownReturns, ShutdownTimesOut, Serve, Tick, Ended, everything, probing,
                ProbesNeverSpoilShutdown
  <2>2. CASE main # "error"
    <3>1. Load \/ SelectError \/ ShutdownTimesOut
      BY <2>2 DEF ServerNext, ListenAndServe, Signal, SelectSignal, ShutdownReturns, Serve,
                  Tick, everything, process
    <3>2. probe' = probe
      BY <3>1 DEF Load, SelectError, ShutdownTimesOut, probing
    <3>3. CASE Load \/ SelectError
      BY <3>2, <3>3 DEF Load, SelectError, ServerInv, DrainInv
    <3>4. CASE ShutdownTimesOut
      <4>1. main = "shutdown" /\ drained = ShutdownTimeout
        BY <3>4 DEF ShutdownTimesOut
      <4>2. age <= ReadinessTimeout /\ age \in Nat
        BY ClockTypes, TimeoutAssumption DEF ServerInv
      <4>3. probe = "running" => drained <= age
        BY <4>1 DEF ServerInv, DrainInv
      <4> QED  BY <3>2, <4>1, <4>2, <4>3, TimeoutAssumption
    <3> QED  BY <3>1, <3>3, <3>4
  <2> QED  BY <2>1, <2>2
<1> QED  BY <1>1, <1>2, ServerInvariance, PTL DEF ServerSpec

\* In the running server, too, a request's address is not its sender's to choose,
\* no foreign page changes anything, and no answer grants another page's origin.
THEOREM RequestsAreGated ==
    ServerSpec => [](AddressIsReal /\ OnlyOurPagesChangeState /\ GrantsFitTheirPage)
<1>1. ServerInv => AddressIsReal
  BY AddressIsRealFromInv, AddressAssumption DEF ServerInv
<1>2. ServerInv => OnlyOurPagesChangeState /\ GrantsFitTheirPage
  BY OnlyOursFromInv DEF ServerInv, ServerTypeOK, GateInv, GrantsFitTheirPage, Granted
<1> QED  BY <1>1, <1>2, ServerInvariance, PTL
=================================================================================
