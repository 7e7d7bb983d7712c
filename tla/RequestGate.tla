------------------------------- MODULE RequestGate -------------------------------
(***************************************************************************)
(* What a request meets before a handler: the client address of            *)
(* ClientAddress, then CORS and RequireTrustedOrigin over one allowlist    *)
(* (internal/httpapi/cors.go, csrf.go), each where a route mounts it.  The *)
(* requests come from pages in a browser, which controls Origin and        *)
(* Sec-Fetch-Site, and from clients that set both as they like; a shared   *)
(* cache may stand between a page and the API.  Requests are taken one     *)
(* after the other: what outlives one is the cache.                        *)
(***************************************************************************)
EXTENDS ClientAddress

CONSTANTS
    Origins,        \* origins of web pages
    WebOrigins,     \* the allowlist
    Self,           \* the API's own origin
    Null,           \* the origin of a sandboxed frame, and what a redirect sends
    NoOrigin        \* no Origin header; no page

ASSUME OriginAssumption ==
    /\ WebOrigins \subseteq Origins \ {Null} /\ {Self, Null} \subseteq Origins
    /\ NoOrigin \notin Origins

Methods == {"GET", "POST", "OPTIONS"}
Sites   == {"absent", "none", "same-origin", "cross-site"}
Layers  == {"CORS", "CSRF"}

Request == [method: Methods, origin: Origins \cup {NoOrigin}, site: Sites,
            asksMethod: BOOLEAN]    \* Access-Control-Request-Method is there
Answer  == [stage: {"none", "CORS", "CSRF", "refused", "preflight", "handled"},
            grants: Origins \cup {NoOrigin},    \* Access-Control-Allow-Origin
            vary: BOOLEAN]

VARIABLES
    page,       \* the page whose cookies the request carries, or NoOrigin
    layers,     \* what the route mounts
    request,
    answer,     \* how far the request has come, and the headers set so far
    cached      \* answers in the cache, with the Origin they answered

gate == <<page, layers, request, answer, cached>>
allVars == <<route, gate>>

NoRequest == [method |-> "GET", origin |-> NoOrigin, site |-> "absent", asksMethod |-> FALSE]
NoAnswer  == [stage |-> "none", grants |-> NoOrigin, vary |-> FALSE]

GateTypeOK ==
    /\ AddressTypeOK
    /\ page \in Origins \cup {NoOrigin} /\ layers \subseteq Layers
    /\ request \in Request
    /\ answer \in Answer
    /\ cached \subseteq [origin: Origins \cup {NoOrigin}, answer: Answer]

GateInit ==
    /\ AddressInit
    /\ page = NoOrigin /\ layers = {} /\ request = NoRequest
    /\ answer = NoAnswer /\ cached = {}

-----------------------------------------------------------------------------
(* The request and the middleware.                                         *)

\* A browser puts its page's own origin into Origin, or null, or leaves it out;
\* it claims same-origin for no other page than the API's.
SentByBrowser(o, r) ==
    /\ r.origin \in {o, Null, NoOrigin}
    /\ r.site \in {"absent", IF o = Self THEN "same-origin" ELSE "cross-site"}

\* What arrives from page o, and from a client that is no browser.
Requests == [o \in Origins \cup {NoOrigin} |-> {r \in Request :
    /\ o # NoOrigin => SentByBrowser(o, r)
    /\ r.asksMethod => r.method = "OPTIONS"}]

\* Neither middleware reads the address; it goes on in the context.
Arrive(o, r, mounted) ==
    /\ Forget
    /\ page' = o /\ request' = r /\ layers' = mounted
    /\ answer' = [NoAnswer EXCEPT !.stage = "CORS"]
    /\ UNCHANGED cached

\* Mutant: Vary is set where an Origin is answered.
CORSVaryOnGrant ==
    LET o == request.origin IN
    /\ answer.stage = "CORS"
    /\ answer' =
         IF "CORS" \notin layers \/ o = NoOrigin THEN [answer EXCEPT !.stage = "CSRF"]
         ELSE IF o \notin WebOrigins THEN [answer EXCEPT !.stage = "refused"]
         ELSE [stage |-> IF request.asksMethod THEN "preflight" ELSE "CSRF",
               grants |-> o, vary |-> TRUE]
    /\ UNCHANGED <<route, page, layers, request, cached>>

\* Vary comes first, on every path; a preflight ends here.
CORS ==
    LET o == request.origin
        varied == [answer EXCEPT !.vary = TRUE]
    IN
    /\ answer.stage = "CORS"
    /\ \/ /\ "CORS" \notin layers
          /\ answer' = [answer EXCEPT !.stage = "CSRF"]
       \/ /\ "CORS" \in layers /\ o = NoOrigin
          /\ answer' = [varied EXCEPT !.stage = "CSRF"]
       \/ /\ "CORS" \in layers /\ o \notin WebOrigins \cup {NoOrigin}
          /\ answer' = [varied EXCEPT !.stage = "refused"]
       \/ /\ "CORS" \in layers /\ o \in WebOrigins
          /\ answer' = [varied EXCEPT !.grants = o,
                !.stage = IF request.asksMethod THEN "preflight" ELSE "CSRF"]
    /\ UNCHANGED <<route, page, layers, request, cached>>

IsStateChanging(method) == method \notin {"GET", "OPTIONS"}

\* Mutant: without same-origin, only a request marked cross-site is refused.
MayPassUnlessCrossSite ==
    \/ ~IsStateChanging(request.method)
    \/ request.origin \in WebOrigins
    \/ request.origin = NoOrigin /\ request.site # "cross-site"

\* An Origin that is there decides alone; without one, only same-origin passes.
MayPass ==
    \/ ~IsStateChanging(request.method)
    \/ request.origin \in WebOrigins
    \/ request.origin = NoOrigin /\ request.site = "same-origin"

RequireTrustedOrigin ==
    /\ answer.stage = "CSRF"
    /\ answer' = [answer EXCEPT
         !.stage = IF "CSRF" \in layers /\ ~MayPass THEN "refused" ELSE "handled"]
    /\ UNCHANGED <<route, page, layers, request, cached>>

-----------------------------------------------------------------------------
(* The cache, and the end of a request.                                    *)

\* A cache keeps what a handler answered to a GET of a route under CORS.
Keep ==
    /\ answer.stage = "handled" /\ request.method = "GET" /\ "CORS" \in layers
    /\ cached' = cached \cup {[origin |-> request.origin, answer |-> answer]}
    /\ UNCHANGED <<route, page, layers, request, answer>>

\* It answers the same GET again, from any Origin unless the answer varies.
FromCache(e) ==
    /\ answer.stage = "CORS" /\ request.method = "GET" /\ "CORS" \in layers
    /\ e.answer.vary => e.origin = request.origin
    /\ answer' = e.answer
    /\ UNCHANGED <<route, page, layers, request, cached>>

Done ==
    /\ answer.stage \in {"refused", "preflight", "handled"}
    /\ page' = NoOrigin /\ layers' = {} /\ request' = NoRequest /\ answer' = NoAnswer
    /\ UNCHANGED <<route, cached>>

GateNext ==
    \/ /\ place = "idle" /\ answer.stage = "none"
       /\ \E s \in Spellings, n \in 0..MaxForged :
             \E entries \in [1..n -> Entry] : Send(s, entries) /\ UNCHANGED gate
    \/ \E s, text \in Spellings, newLine \in BOOLEAN :
          Forward(s, text, newLine) /\ UNCHANGED gate
    \/ Resolve /\ UNCHANGED gate
    \/ /\ place = "resolved"
       /\ \E o \in Origins \cup {NoOrigin}, mounted \in SUBSET Layers :
             \E r \in Requests[o] : Arrive(o, r, mounted)
    \/ CORS
    \/ RequireTrustedOrigin
    \/ Keep
    \/ \E e \in cached : FromCache(e)
    \/ Done

GateSpec == GateInit /\ [][GateNext]_allVars

-----------------------------------------------------------------------------
(* Properties.                                                             *)

\* Under RequireTrustedOrigin, with CORS above it or without, no foreign page
\* gets its visitor's cookies used for a change (csrf.go 36-50).
OnlyOurPagesChangeState ==
    /\ answer.stage = "handled" /\ IsStateChanging(request.method)
    /\ "CSRF" \in layers /\ page # NoOrigin
    => page \in WebOrigins \cup {Self}

\* Whatever other pages asked before and a cache has kept, a page of ours may
\* read what it gets, and no answer names another origin (cors.go 141-150).
GrantsFitTheirPage ==
    answer.stage \in {"preflight", "handled"} /\ "CORS" \in layers =>
        answer.grants = (IF request.origin \in WebOrigins THEN request.origin ELSE NoOrigin)
=============================================================================
