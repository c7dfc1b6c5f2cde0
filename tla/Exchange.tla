-------------------------------- MODULE Exchange --------------------------------
(***************************************************************************)
(* What becomes of one visitor's request and its answer on the way through  *)
(* both programs: the public server's handle and collectHeaders             *)
(* (internal/host/httpserver.go), the tunnel, and the client's handle,      *)
(* buildResponse and rewriteBody (internal/client/handler.go), with the     *)
(* public URL the host pushes at each connection and the inspector's log.   *)
(*                                                                          *)
(* Data is what tunnels tell apart: names of headers and whose value they   *)
(* carry, the declared and the real encoding of a page, the links in it.    *)
(* Timeouts, slots and locks are TunnelHost's and TunnelClient's; here a    *)
(* request may fail at any step. Codings, Content-Types and statuses pass   *)
(* from header to header; http.Client follows redirects, so a page is the   *)
(* last one of its chain.                                                   *)
(***************************************************************************)
EXTENDS Naturals, Sequences

CONSTANTS Requests,    \* visitors' requests
          Urls,        \* public URLs, one per subdomain
          Localhost,   \* the other Host header: localhost, 192.*
          MaxSessions, \* bound: connections of the tunnel
          \* the host's settings
          HasDomain,   \* clientDomain.domain is set
          BlackList,   \* httpHost.headers.blackList: the exact names, as spelled
          WildListed,  \* lower-case names that start with one of its prefixes
          ipHeaderName,
          \* the tunnel's settings
          HostHeader,  \* hostHeader is set
          CustomHeader,   \* names in customHeader, as spelled
          rewriteEnabled, \* rewriteUrlEnabled, with a pattern
          \* what visitors and the local server send
          Spellings, lower,  \* header names; [Spellings -> Spellings]
          Asks, Pages,
          Garbled, Nothing

Codings == {"none", "gzip", "br", "other"}

\* A visitor's request: the headers it has, a body or none. A page: its
\* Content-Type is text/html, its Content-Encoding, what its bytes really are.
Ask  == [headers : SUBSET (Spellings \ {"Host"}), body : BOOLEAN]
Page == [html : BOOLEAN, label : Codings, bytes : Codings]

ASSUME ExchangeAssumption ==
    /\ lower \in [Spellings -> Spellings]
    /\ BlackList \subseteq Spellings /\ CustomHeader \subseteq Spellings
    /\ ipHeaderName \in Spellings
    /\ {"Host", "Content-Type", "Content-Length"} \subseteq Spellings
    /\ Asks \subseteq Ask /\ Pages \subseteq Page
    /\ HasDomain \in BOOLEAN /\ HostHeader \in BOOLEAN /\ rewriteEnabled \in BOOLEAN
    /\ MaxSessions \in Nat
    /\ Localhost \notin Urls /\ Garbled \notin Urls
    /\ Garbled # "page" /\ "page" \notin Urls
    /\ Requests \cap Urls = {} /\ Nothing \notin Urls

\* text: the links are the "page"'s own, or lead to the Url they were made, or
\* the bytes are Garbled. page is kept for the properties.
Texts  == Urls \cup {"page", Garbled}
Answer == [page : Page, label : Codings, bytes : Codings, text : Texts]
ASSUME NothingAssumption == Nothing \notin Answer
Over == {"served", "notFound", "badBody", "badGateway"}
VisitStates == Over \cup {"idle", "found", "waiting"}

VARIABLES
    \* the tunnel
    link,      \* "down", "named" (published), "told" (NtunlInfo written)
    url,       \* the URL of its subdomain, Nothing when down
    sessions,  \* connections so far
    toClient,  \* messages to the client: URLs of NtunlInfo, and requests
    \* handle, on the host
    vpc,       \* [Requests -> VisitStates]: where handle stands
    ask, to,   \* the request, and the Url (or Localhost) it asks for
    session,   \* whose *clientInfo it looked up
    got,       \* what the visitor was sent
    early,     \* requests written before the NtunlInfo of their session, or
               \* on a host that sends none (for the properties)
    \* the client
    ntunlInfo, \* tunnelState.ntunlInfo: the last URL received, or Nothing
    work,      \* [Requests -> where messageHandler.handle stands]
    seen,      \* what reached the local server
    answer,    \* the HttpResponse built for it
    logs       \* messageHandler.logs, by request

tunnelVars == <<link, url, sessions>>
hostVars   == <<vpc, ask, to, session, got, early>>
clientVars == <<ntunlInfo, work, seen, answer, logs>>
vars == <<tunnelVars, toClient, hostVars, clientVars>>

Init ==
    /\ link = "down" /\ url = Nothing /\ sessions = 0 /\ toClient = <<>>
    /\ vpc = [r \in Requests |-> "idle"]
    /\ ask = [r \in Requests |-> Nothing] /\ to = [r \in Requests |-> Nothing]
    /\ session = [r \in Requests |-> 0]
    /\ got = [r \in Requests |-> Nothing] /\ early = {}
    /\ ntunlInfo = Nothing
    /\ work = [r \in Requests |-> "none"]
    /\ seen = [r \in Requests |-> Nothing]
    /\ answer = [r \in Requests |-> Nothing]
    /\ logs = [r \in Requests |-> Nothing]

-----------------------------------------------------------------------------
(* The tunnel comes and goes: handleConn, on the host.                      *)

\* The name is published before NtunlInfo is written.
Connect(u) ==
    /\ link = "down" /\ sessions < MaxSessions
    /\ link' = "named" /\ url' = u /\ sessions' = sessions + 1
    /\ UNCHANGED <<toClient, hostVars, clientVars>>

WriteInfo ==
    /\ link = "named" /\ HasDomain
    /\ link' = "told"
    /\ toClient' = Append(toClient, url)
    /\ UNCHANGED <<url, sessions, hostVars, clientVars>>

\* serve ends only when its handlers have; what was on the way is lost.
Disconnect ==
    /\ link # "down"
    /\ link' = "down" /\ url' = Nothing /\ toClient' = <<>>
    /\ work' = [r \in Requests |-> IF work[r] = "none" THEN "none" ELSE "over"]
    /\ UNCHANGED <<sessions, hostVars, ntunlInfo, seen, answer, logs>>

-----------------------------------------------------------------------------
(* The host takes a request.                                                *)

To(r, step) == vpc' = [vpc EXCEPT ![r] = step]

\* GetClient, or GetAnyClient.
Visit(r, q, u) ==
    /\ vpc[r] = "idle"
    /\ ask' = [ask EXCEPT ![r] = q] /\ to' = [to EXCEPT ![r] = u]
    /\ IF link # "down" /\ u \in {url, Localhost}
       THEN To(r, "found") /\ session' = [session EXCEPT ![r] = sessions]
       ELSE To(r, "notFound") /\ UNCHANGED session
    /\ UNCHANGED <<tunnelVars, toClient, got, early, clientVars>>

\* Mutant: the names in the black list are compared as they are spelled.
BlockedAsSpelled(k) == k \in BlackList

blocked(k) == lower[k] \in {lower[b] : b \in BlackList}

matchesWild(k) == lower[k] \in WildListed

\* The names under which values go to the client. net/http keeps Host apart.
collectHeaders(q) ==
    {k \in q.headers : ~blocked(k) /\ lower[k] # lower[ipHeaderName] /\ ~matchesWild(k)}
        \cup {"Host"}

\* The message as the client decodes it: Headers, and ContentHeaders with the
\* visitor's Content-Type.
Forwarded(r) == [headers |-> collectHeaders(ask[r]), body |-> ask[r].body]

\* The body is read, and the request written to the connection of the session
\* that was looked up.
Send(r) ==
    /\ vpc[r] = "found" /\ link # "down" /\ session[r] = sessions
    /\ To(r, "waiting")
    /\ toClient' = Append(toClient, r)
    /\ early' = IF link = "told" THEN early ELSE early \cup {r}
    /\ UNCHANGED <<tunnelVars, ask, to, session, got, clientVars>>

BadBody(r) ==
    /\ vpc[r] = "found" /\ ask[r].body
    /\ To(r, "badBody")
    /\ UNCHANGED <<tunnelVars, toClient, ask, to, session, got, early, clientVars>>

\* SendHttpRequest fails: the write, or no answer in time.
BadGateway(r) ==
    /\ vpc[r] \in {"found", "waiting"}
    /\ To(r, "badGateway")
    /\ UNCHANGED <<tunnelVars, toClient, ask, to, session, got, early, clientVars>>

-----------------------------------------------------------------------------
(* The client reads a message: serve and dispatchControl.                   *)

\* Mutant: only the first URL is kept.
SetFirstInfo(u) == ntunlInfo' = IF ntunlInfo = Nothing THEN u ELSE ntunlInfo

setInfo(u) == ntunlInfo' = u

ReadInfo ==
    /\ toClient # <<>> /\ Head(toClient) \in Urls
    /\ setInfo(Head(toClient))
    /\ toClient' = Tail(toClient)
    /\ UNCHANGED <<tunnelVars, hostVars, work, seen, answer, logs>>

\* The headers of the request to the local server, and whose value each has.
\* Transport sends neither a Host nor a Content-Length it finds among them.
LocalHeaders(q) ==
    [k \in (q.headers \ {"Host", "Content-Length", "Content-Type"})
               \cup (q.headers \cap CustomHeader \cap {"Content-Type"})
               \cup (IF q.body THEN {"Content-Type"} ELSE {})
        |-> IF k \in CustomHeader /\ ~(q.body /\ k = "Content-Type")
            THEN "custom" ELSE "visitor"]

\* Without the setting, the Host is that of the tunnel's address.
Local(q) ==
    [headers |-> LocalHeaders(q), host |-> IF HostHeader THEN "setting" ELSE "address"]

ReadRequest(r) ==
    /\ toClient # <<>> /\ Head(toClient) = r
    /\ toClient' = Tail(toClient)
    /\ work' = [work EXCEPT ![r] = "local"]
    /\ seen' = [seen EXCEPT ![r] = Local(Forwarded(r))]
    /\ UNCHANGED <<tunnelVars, hostVars, ntunlInfo, answer, logs>>

-----------------------------------------------------------------------------
(* The local server answers: buildResponse and rewriteBody.                 *)

\* Transport asks for gzip and decodes it when the request asks for no encoding
\* and no range itself.
Gunzips(local) == {"Accept-Encoding", "Range"} \cap DOMAIN local.headers = {}

Raw(page) == [page |-> page, label |-> page.label, bytes |-> page.bytes, text |-> "page"]

\* ReadAll fails when Transport cannot decode: no response at all.
Received(page, local) ==
    IF ~(Gunzips(local) /\ page.label = "gzip") THEN {Raw(page)}
    ELSE IF page.bytes # "gzip" THEN {}
    ELSE {[Raw(page) EXCEPT !.label = "none", !.bytes = "none"]}

\* Mutant: the rewritten page stays as it is.
CompressNone(a, encoding) == a

Compress(a, encoding) == IF encoding = "none" THEN a ELSE [a EXCEPT !.bytes = encoding]

Decompress(a) == [a EXCEPT !.bytes = "none"]

\* The pattern finds the links of a page in the clear; in compressed bytes it
\* finds nothing, or something.
ReplaceAll(a, u) ==
    IF a.bytes = "none" THEN {[a EXCEPT !.text = u]} ELSE {a, [a EXCEPT !.text = Garbled]}

\* A page that is not what its Content-Encoding says is left alone.
rewriteBody(a, u) ==
    IF a.label \notin {"br", "gzip"} THEN {Compress(b, "none") : b \in ReplaceAll(a, u)}
    ELSE IF a.bytes # a.label THEN {a}
    ELSE {Compress(b, a.label) : b \in ReplaceAll(Decompress(a), u)}

buildResponse(page, local) ==
    UNION {IF rewriteEnabled /\ page.html /\ ntunlInfo # Nothing
           THEN rewriteBody(a, ntunlInfo) ELSE {a} : a \in Received(page, local)}

\* Mutant: only answers the template can show as they are are kept.
LogPlain(r, a) == logs' = IF a.label = "none" THEN [logs EXCEPT ![r] = a] ELSE logs

Log(r, a) == logs' = [logs EXCEPT ![r] = a]

LocalAnswers(r, page) ==
    /\ work[r] = "local"
    /\ \E a \in buildResponse(page, seen[r]) :
          answer' = [answer EXCEPT ![r] = a] /\ Log(r, a)
    /\ work' = [work EXCEPT ![r] = "built"]
    /\ UNCHANGED <<tunnelVars, toClient, hostVars, ntunlInfo, seen>>

\* No answer, a broken one or too many redirects: nothing is sent back.
LocalFails(r) ==
    /\ work[r] = "local"
    /\ work' = [work EXCEPT ![r] = "over"]
    /\ UNCHANGED <<tunnelVars, toClient, hostVars, ntunlInfo, seen, answer, logs>>

\* The message crosses the tunnel, and handle copies it to the visitor unless
\* it has given up.
Deliver(r) ==
    /\ work[r] = "built"
    /\ work' = [work EXCEPT ![r] = "over"]
    /\ IF vpc[r] = "waiting" THEN To(r, "served") /\ got' = [got EXCEPT ![r] = answer[r]]
       ELSE UNCHANGED <<vpc, got>>
    /\ UNCHANGED <<tunnelVars, toClient, ask, to, session, early, ntunlInfo, seen, answer, logs>>

\* Every visitor has been answered and no tunnel can come any more.
Finished ==
    /\ link = "down" /\ sessions = MaxSessions /\ \A r \in Requests : vpc[r] \in Over
    /\ UNCHANGED vars

Tunnel == (\E u \in Urls : Connect(u)) \/ WriteInfo \/ Disconnect
Host(r) ==
    \/ \E q \in Asks, u \in Urls \cup {Localhost} : Visit(r, q, u)
    \/ Send(r) \/ BadBody(r) \/ BadGateway(r)
Client(r) ==
    \/ ReadRequest(r) \/ (\E page \in Pages : LocalAnswers(r, page))
    \/ LocalFails(r) \/ Deliver(r)

Next == Tunnel \/ ReadInfo \/ (\E r \in Requests : Host(r) \/ Client(r)) \/ Finished

Spec == Init /\ [][Next]_vars

-----------------------------------------------------------------------------
(* Properties.                                                              *)

LocalRequest == [headers : UNION {[S -> {"custom", "visitor"}] : S \in SUBSET Spellings},
                 host : {"setting", "address"}]

\* Every variable has its type; the URL is known while the
\* tunnel is up; messages are URLs and requests.
TypeOK ==
    /\ link \in {"down", "named", "told"}
    /\ url \in IF link = "down" THEN {Nothing} ELSE Urls
    /\ sessions \in 0..MaxSessions /\ toClient \in Seq(Urls \cup Requests)
    /\ vpc \in [Requests -> VisitStates]
    /\ ask \in [Requests -> Asks \cup {Nothing}]
    /\ to \in [Requests -> Urls \cup {Localhost, Nothing}]
    /\ session \in [Requests -> 0..MaxSessions]
    /\ got \in [Requests -> Answer \cup {Nothing}]
    /\ early \subseteq Requests
    /\ ntunlInfo \in Urls \cup {Nothing}
    /\ work \in [Requests -> {"none", "local", "built", "over"}]
    /\ seen \in [Requests -> LocalRequest \cup {Nothing}]
    /\ answer \in [Requests -> Answer \cup {Nothing}]
    /\ logs \in [Requests -> Answer \cup {Nothing}]

Hidden(k) ==
    \/ \E b \in BlackList \cup {ipHeaderName} : lower[b] = lower[k]
    \/ lower[k] \in WildListed

\* What the host is told to hide does not reach the local server, however either
\* side spells it: no value a visitor sent under a black-listed name or the IP
\* header's. (Content-Type is the exception: with a body it travels apart.)
HiddenStayHidden ==
    \A r \in Requests : seen[r] # Nothing =>
        \A k \in DOMAIN seen[r].headers \ {"Content-Type"} : ~Hidden(k)

Honest(page) == page.label = page.bytes

\* The bytes are what the Content-Encoding says, and were not cut up by a pattern
\* that hit compressed bytes: unless in an encoding rewriteBody does not know.
Decodes(a) == Honest(a) /\ (a.text = Garbled => a.label = "other")

\* A page that the local server encoded as it says is one that the visitor's
\* browser can decode, rewritten or not.
BodyMatchesEncoding ==
    \A r \in Requests : vpc[r] = "served" /\ Honest(got[r].page) => Decodes(got[r])

Rewritable(page) == page.html /\ Honest(page) /\ page.label # "other"

\* With rewriting on, the links of a page lead back to the very address the
\* visitor asked for, though the subdomain changes from connection to
\* connection: unless the request was written before NtunlInfo was.
LinksLeadBack ==
    \A r \in Requests :
        /\ vpc[r] = "served" /\ r \notin early /\ to[r] # Localhost
        /\ rewriteEnabled /\ Rewritable(got[r].page)
        => got[r].text = to[r]

\* What the inspector shows of an answer's body.
buildView(a) ==
    IF a.label = "br" THEN IF a.bytes = "br" THEN a.text ELSE ""
    ELSE IF a.bytes = "none" THEN a.text ELSE Garbled

\* Whatever a visitor got from the local server can be read in the inspector,
\* in the same words, unless it was left in gzip or an encoding nobody knows.
InspectorTells ==
    \A r \in Requests : vpc[r] = "served" /\ Honest(got[r]) /\ got[r].label \in {"none", "br"} =>
        logs[r] # Nothing /\ buildView(logs[r]) = got[r].text

\* The inductive form. A request is in one place, and both it and the NtunlInfo
\* on the way belong to the session; a request that was written after NtunlInfo
\* finds it before itself.
PlaceInv ==
    /\ \A i, j \in 1..Len(toClient) : toClient[i] = toClient[j] /\ toClient[i] \in Requests => i = j
    /\ \A i \in 1..Len(toClient) : toClient[i] \in Requests =>
          /\ vpc[toClient[i]] \notin {"idle", "found"} /\ work[toClient[i]] = "none"
          /\ to[toClient[i]] \in {url, Localhost}
    /\ \A r \in Requests :
          /\ vpc[r] \in {"idle", "found"} => work[r] = "none"
          /\ vpc[r] # "idle" => ask[r] \in Asks
          /\ vpc[r] = "served" => work[r] = "over"
          /\ work[r] \in {"local", "built"} => link # "down" /\ to[r] \in {url, Localhost}
          /\ session[r] <= sessions
          /\ vpc[r] = "found" /\ link # "down" /\ session[r] = sessions => to[r] \in {url, Localhost}

InfoInv ==
    /\ toClient # <<>> => link # "down"
    /\ \A i \in 1..Len(toClient) : toClient[i] \in Urls => toClient[i] = url /\ link = "told"
    /\ link = "told" => ntunlInfo = url \/ \E i \in 1..Len(toClient) : toClient[i] \in Urls
    /\ \A i \in 1..Len(toClient) : toClient[i] \in Requests \ early =>
          /\ link = "told"
          /\ ntunlInfo = url \/ \E j \in 1..(i - 1) : toClient[j] \in Urls
    /\ \A r \in Requests \ early : work[r] = "local" => ntunlInfo = url

\* What is true of an answer from the moment it is built.
GoodAnswer(r, a) ==
    /\ a \in Answer
    /\ Honest(a.page) => Decodes(a)
    /\ r \notin early /\ to[r] # Localhost /\ rewriteEnabled /\ Rewritable(a.page) => a.text = to[r]
    /\ logs[r] = a

AnswerInv ==
    \A r \in Requests :
        /\ work[r] = "built" => GoodAnswer(r, answer[r])
        /\ vpc[r] = "served" => GoodAnswer(r, got[r])
=================================================================================
