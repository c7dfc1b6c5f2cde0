---------------------------- MODULE ExchangeProofs ----------------------------
(***************************************************************************)
(* Theorems about Exchange, for all requests, URLs, headers, pages and      *)
(* settings.                                                                *)
(***************************************************************************)
EXTENDS Exchange, TLAPS

-----------------------------------------------------------------------------
(* The operators on data.                                                   *)

\* rewriteBody gives back the encoding it found, and puts the URL into every page
\* it can read.
LEMMA Rewriting ==
  ASSUME NEW x \in Answer, x.text = "page", NEW u \in Urls, NEW a \in rewriteBody(x, u)
  PROVE  /\ a \in Answer /\ a.page = x.page /\ a.label = x.label /\ a.bytes = x.bytes
         /\ Honest(x) /\ x.label # "other" => a.text = u
         /\ Honest(x) => Decodes(a)
<1> USE DEF Answer, Codings, Texts
<1> DEFINE plain == Decompress(x)
<1>1. plain \in Answer /\ plain.page = x.page /\ plain.label = x.label /\ plain.bytes = "none"
  BY DEF Decompress
<1>2. ASSUME NEW y \in Answer, NEW b \in ReplaceAll(y, u)
      PROVE  /\ b \in Answer /\ b.page = y.page /\ b.label = y.label /\ b.bytes = y.bytes
             /\ y.bytes = "none" => b.text = u
  BY <1>2 DEF ReplaceAll
<1>3. CASE x.label \notin {"br", "gzip"}
  <2>1. PICK b \in ReplaceAll(x, u) : a = Compress(b, "none")
    BY <1>3 DEF rewriteBody
  <2>2. a = b
    BY <2>1 DEF Compress
  <2> QED
    BY <1>2, <1>3, <2>2, ExchangeAssumption DEF Honest, Decodes
<1>4. CASE x.label \in {"br", "gzip"} /\ x.bytes # x.label
  BY <1>4 DEF rewriteBody, Honest
<1>5. CASE x.label \in {"br", "gzip"} /\ x.bytes = x.label
  <2>1. PICK b \in ReplaceAll(plain, u) : a = Compress(b, x.label)
    BY <1>5 DEF rewriteBody
  <2>2. b \in Answer /\ b.page = x.page /\ b.label = x.label /\ b.text = u
    BY <1>1, <1>2
  <2>3. a = [b EXCEPT !.bytes = x.label]
    BY <1>5, <2>1 DEF Compress
  <2> QED
    BY <1>5, <2>2, <2>3, ExchangeAssumption DEF Honest, Decodes
<1> QED
  BY <1>3, <1>4, <1>5

\* What Transport makes of a page is as honest as the page.
LEMMA Receiving ==
  ASSUME NEW page \in Page, NEW local, NEW x \in Received(page, local)
  PROVE  /\ x \in Answer /\ x.page = page /\ x.text = "page"
         /\ Honest(page) => Honest(x)
         /\ Rewritable(page) => x.label # "other"
<1>1. CASE x = Raw(page)
  BY <1>1 DEF Raw, Page, Answer, Texts, Codings, Honest, Rewritable
<1>2. CASE x # Raw(page)
  <2>1. x = [Raw(page) EXCEPT !.label = "none", !.bytes = "none"]
    BY <1>2 DEF Received
  <2> QED
    BY <2>1 DEF Raw, Page, Answer, Texts, Codings, Honest
<1> QED
  BY <1>1, <1>2

\* So is every answer the client can build; and its links are rewritten.
LEMMA Building ==
  ASSUME NEW page \in Page, NEW local, NEW a \in buildResponse(page, local),
         ntunlInfo \in Urls \cup {Nothing}
  PROVE  /\ a \in Answer /\ a.page = page
         /\ Honest(page) => Decodes(a)
         /\ rewriteEnabled /\ Rewritable(page) /\ ntunlInfo \in Urls => a.text = ntunlInfo
<1>1. PICK x \in Received(page, local) :
         a \in IF rewriteEnabled /\ page.html /\ ntunlInfo # Nothing
               THEN rewriteBody(x, ntunlInfo) ELSE {x}
  BY DEF buildResponse
<1>2. /\ x \in Answer /\ x.page = page /\ x.text = "page"
      /\ Honest(page) => Honest(x)
      /\ Rewritable(page) => x.label # "other"
  BY Receiving
<1>3. CASE rewriteEnabled /\ page.html /\ ntunlInfo # Nothing
  <2>1. ntunlInfo \in Urls /\ a \in rewriteBody(x, ntunlInfo)
    BY <1>1, <1>3
  <2>2. /\ a \in Answer /\ a.page = x.page /\ a.label = x.label /\ a.bytes = x.bytes
        /\ Honest(x) /\ x.label # "other" => a.text = ntunlInfo
        /\ Honest(x) => Decodes(a)
    BY <1>2, <2>1, Rewriting
  <2> QED
    BY <1>2, <2>2 DEF Honest, Rewritable
<1>4. CASE ~(rewriteEnabled /\ page.html /\ ntunlInfo # Nothing)
  <2>1. a = x
    BY <1>1, <1>4
  <2> QED
    BY <1>2, <1>4, <2>1, ExchangeAssumption DEF Rewritable, Decodes
<1> QED
  BY <1>3, <1>4

\* The local server is asked under the names the host let through.
LEMMA Asking ==
  ASSUME NEW q \in Ask
  PROVE  LET s == Local([headers |-> collectHeaders(q), body |-> q.body]) IN
           /\ s \in LocalRequest
           /\ \A k \in DOMAIN s.headers \ {"Content-Type"} : ~Hidden(k)
<1> DEFINE f == [headers |-> collectHeaders(q), body |-> q.body]
           h == LocalHeaders(f)
<1>1. collectHeaders(q) \subseteq Spellings
  BY ExchangeAssumption DEF collectHeaders, Ask
<1>2. DOMAIN h \subseteq collectHeaders(q) \cup {"Content-Type"} /\ "Host" \notin DOMAIN h
  BY DEF LocalHeaders
<1>3. h \in [DOMAIN h -> {"custom", "visitor"}]
  BY DEF LocalHeaders
<1>4. DOMAIN h \in SUBSET Spellings
  BY <1>1, <1>2, ExchangeAssumption
<1>5. h \in UNION {[S -> {"custom", "visitor"}] : S \in SUBSET Spellings}
  <2> HIDE DEF h
  <2> QED
    BY <1>3, <1>4
<1>6. \A k \in collectHeaders(q) \ {"Host"} : ~Hidden(k)
  BY DEF collectHeaders, Hidden, blocked, matchesWild
<1> HIDE DEF h
<1>7. Local(f) = [headers |-> h, host |-> IF HostHeader THEN "setting" ELSE "address"]
  BY DEF Local, h
<1>8. Local(f) \in LocalRequest /\ Local(f).headers = h
  BY <1>5, <1>7 DEF LocalRequest
<1> QED
  BY <1>2, <1>6, <1>8

\* What is known of the request at the head of the queue.
LEMMA AskedKnown ==
  ASSUME TypeOK, PlaceInv, NEW r \in Requests, ReadRequest(r)
  PROVE  /\ 1 \in 1..Len(toClient) /\ toClient[1] = r
         /\ vpc[r] \notin {"idle", "found"} /\ ask[r] \in Ask /\ work[r] = "none"
         /\ to[r] \in {url, Localhost}
<1>1. 1 \in 1..Len(toClient) /\ toClient[1] = r
  BY DEF ReadRequest, TypeOK
<1>2. vpc[r] \notin {"idle", "found"} /\ work[r] = "none" /\ to[r] \in {url, Localhost}
  BY <1>1 DEF PlaceInv
<1> QED
  BY <1>1, <1>2, ExchangeAssumption DEF PlaceInv

-----------------------------------------------------------------------------
(* Types.                                                                   *)

LEMMA TypeInit == Init => TypeOK
BY ExchangeAssumption DEF Init, TypeOK, VisitStates, Over

LEMMA TypeStep == TypeOK /\ PlaceInv /\ [Next]_vars => TypeOK'
<1> SUFFICES ASSUME TypeOK, PlaceInv, [Next]_vars PROVE TypeOK'
  OBVIOUS
<1> USE DEF tunnelVars, hostVars, clientVars, To
<1>0. /\ <<>> \in Seq(Urls \cup Requests)
      /\ \A x \in Urls \cup Requests : Append(toClient, x) \in Seq(Urls \cup Requests)
      /\ toClient # <<>> => Tail(toClient) \in Seq(Urls \cup Requests)
  BY DEF TypeOK
<1>1. ASSUME NEW u \in Urls, Connect(u) PROVE TypeOK'
  BY <1>1, ExchangeAssumption DEF Connect, TypeOK
<1>2. CASE WriteInfo
  <2>1. url \in Urls
    BY <1>2, <1>0 DEF WriteInfo, TypeOK
  <2> QED
    BY <1>0, <1>2, <2>1 DEF WriteInfo, TypeOK
<1>3. CASE Disconnect
  BY <1>0, <1>3 DEF Disconnect, TypeOK
<1>4. CASE ReadInfo
  BY <1>0, <1>4 DEF ReadInfo, setInfo, TypeOK
<1>5. ASSUME NEW r \in Requests, NEW q \in Asks, NEW u \in Urls \cup {Localhost}, Visit(r, q, u)
      PROVE  TypeOK'
  BY <1>5 DEF Visit, TypeOK, VisitStates, Over
<1>6. ASSUME NEW r \in Requests, Send(r) \/ BadBody(r) \/ BadGateway(r) PROVE TypeOK'
  <2>1. CASE Send(r)
    <3>1. toClient' \in Seq(Urls \cup Requests) /\ early' \subseteq Requests
      BY <1>0, <2>1 DEF Send, TypeOK
    <3> QED
      BY <2>1, <3>1 DEF Send, TypeOK, VisitStates, Over
  <2>2. CASE BadBody(r) \/ BadGateway(r)
    BY <2>2 DEF BadBody, BadGateway, TypeOK, VisitStates, Over
  <2> QED
    BY <1>6, <2>1, <2>2
<1>7. ASSUME NEW r \in Requests, ReadRequest(r) PROVE TypeOK'
  <2>1. ask[r] \in Ask /\ seen' = [seen EXCEPT ![r] = Local(Forwarded(r))]
    BY <1>7, AskedKnown DEF ReadRequest
  <2>2. Local(Forwarded(r)) \in LocalRequest
    BY <2>1, Asking DEF Forwarded
  <2> QED
    BY <1>0, <1>7, <2>1, <2>2 DEF ReadRequest, TypeOK
<1>8. ASSUME NEW r \in Requests, NEW page \in Pages, LocalAnswers(r, page) PROVE TypeOK'
  <2>1. PICK a \in buildResponse(page, seen[r]) :
           answer' = [answer EXCEPT ![r] = a] /\ logs' = [logs EXCEPT ![r] = a]
    BY <1>8 DEF LocalAnswers, Log
  <2>2. a \in Answer
    BY Building, ExchangeAssumption DEF TypeOK
  <2> QED
    BY <1>8, <2>1, <2>2 DEF LocalAnswers, TypeOK
<1>9. ASSUME NEW r \in Requests, LocalFails(r) \/ Deliver(r) PROVE TypeOK'
  BY <1>9 DEF LocalFails, Deliver, TypeOK, VisitStates, Over
<1>10. CASE UNCHANGED vars
  BY <1>10 DEF vars, TypeOK
<1> QED
  BY <1>1, <1>2, <1>3, <1>4, <1>5, <1>6, <1>7, <1>8, <1>9, <1>10
     DEF Next, Tunnel, Host, Client, Finished

-----------------------------------------------------------------------------
(* Where a request is.                                                      *)

\* The positions of a queue that loses its head or gains a tail.
LEMMA TailPlaces ==
  ASSUME TypeOK, toClient # <<>>, toClient' = Tail(toClient)
  PROVE  \A i \in 1..Len(toClient') :
            i \in Nat /\ i + 1 \in 1..Len(toClient) /\ toClient'[i] = toClient[i + 1]
BY DEF TypeOK

LEMMA AppendPlaces ==
  ASSUME TypeOK, NEW x \in Urls \cup Requests, toClient' = Append(toClient, x)
  PROVE  /\ Len(toClient) \in Nat /\ Len(toClient') = Len(toClient) + 1
         /\ \A i \in 1..Len(toClient) : i \in 1..Len(toClient') /\ toClient'[i] = toClient[i]
         /\ \A i \in 1..Len(toClient') :
               \/ i \in 1..Len(toClient) /\ toClient'[i] = toClient[i]
               \/ i = Len(toClient) + 1 /\ toClient'[i] = x
BY DEF TypeOK

LEMMA PlaceInit == Init => PlaceInv
BY ExchangeAssumption DEF Init, PlaceInv

LEMMA PlaceStep == TypeOK /\ PlaceInv /\ InfoInv /\ [Next]_vars => PlaceInv'
<1> SUFFICES ASSUME TypeOK, PlaceInv, InfoInv, [Next]_vars PROVE PlaceInv'
  OBVIOUS
<1> USE DEF tunnelVars, hostVars, clientVars, To
<1>1. ASSUME NEW u \in Urls, Connect(u) PROVE PlaceInv'
  <2>1. toClient' = <<>> /\ \A r \in Requests : work[r] \notin {"local", "built"}
    BY <1>1 DEF Connect, PlaceInv, InfoInv
  <2> QED
    BY <1>1, <2>1 DEF Connect, PlaceInv, TypeOK
<1>2. CASE WriteInfo
  <2>1. url \in Urls /\ url \notin Requests
    BY <1>2, ExchangeAssumption DEF WriteInfo, TypeOK
  <2>2. /\ \A i \in 1..Len(toClient') : toClient'[i] \in Requests =>
              i \in 1..Len(toClient) /\ toClient'[i] = toClient[i]
    BY <1>2, <2>1, AppendPlaces DEF WriteInfo
  <2> QED
    BY <1>2, <2>2 DEF WriteInfo, PlaceInv, TypeOK
<1>3. CASE Disconnect
  BY <1>3 DEF Disconnect, PlaceInv, TypeOK
<1>4. CASE ReadInfo
  <2>1. UNCHANGED <<vpc, ask, to, session, work, tunnelVars>>
    BY <1>4 DEF ReadInfo
  <2>2. \A i \in 1..Len(toClient') :
           i \in Nat /\ i + 1 \in 1..Len(toClient) /\ toClient'[i] = toClient[i + 1]
    BY <1>4, TailPlaces DEF ReadInfo
  <2> QED
    BY <2>1, <2>2 DEF PlaceInv
<1>5. ASSUME NEW r \in Requests, NEW q \in Asks, NEW u \in Urls \cup {Localhost}, Visit(r, q, u)
      PROVE  PlaceInv'
  <2>1. \A i \in 1..Len(toClient) : toClient[i] # r
    BY <1>5 DEF Visit, PlaceInv
  <2> QED
    BY <1>5, <2>1 DEF Visit, PlaceInv, TypeOK
<1>6. ASSUME NEW r \in Requests, Send(r) PROVE PlaceInv'
  <2>1. \A i \in 1..Len(toClient) : toClient[i] # r
    BY <1>6 DEF Send, PlaceInv
  <2>2. /\ Len(toClient) \in Nat
        /\ \A i \in 1..Len(toClient') :
               \/ i \in 1..Len(toClient) /\ toClient'[i] = toClient[i]
               \/ i = Len(toClient) + 1 /\ toClient'[i] = r
    BY <1>6, AppendPlaces DEF Send
  <2>3. work[r] = "none" /\ to[r] \in {url, Localhost} /\ vpc' = [vpc EXCEPT ![r] = "waiting"]
    BY <1>6 DEF Send, PlaceInv
  <2>4. UNCHANGED <<tunnelVars, ask, to, session, work>>
    BY <1>6 DEF Send
  <2>5. vpc[r] # "idle"
    BY <1>6 DEF Send
  <2> QED
    BY <2>1, <2>2, <2>3, <2>4, <2>5 DEF PlaceInv, TypeOK
<1>7. ASSUME NEW r \in Requests, BadBody(r) \/ BadGateway(r) PROVE PlaceInv'
  BY <1>7 DEF BadBody, BadGateway, PlaceInv, TypeOK
<1>8. ASSUME NEW r \in Requests, ReadRequest(r) PROVE PlaceInv'
  <2>1. /\ 1 \in 1..Len(toClient) /\ toClient[1] = r
        /\ vpc[r] \notin {"idle", "found"} /\ to[r] \in {url, Localhost}
        /\ vpc[r] # "served" /\ link # "down"
    BY <1>8, AskedKnown DEF PlaceInv, InfoInv, TypeOK
  <2>2. \A i \in 1..Len(toClient') :
           i \in Nat /\ i + 1 \in 1..Len(toClient) /\ toClient'[i] = toClient[i + 1] /\ i + 1 # 1
    BY <1>8, TailPlaces DEF ReadRequest
  <2>3. \A i \in 1..Len(toClient') : toClient'[i] # r
    <3> SUFFICES ASSUME NEW i \in 1..Len(toClient'), toClient'[i] = r PROVE FALSE
      OBVIOUS
    <3>1. i + 1 \in 1..Len(toClient) /\ toClient[i + 1] = toClient[1] /\ i + 1 # 1
      BY <2>1, <2>2
    <3> QED
      BY <2>1, <3>1 DEF PlaceInv
  <2>4. UNCHANGED <<vpc, ask, to, session, link, url, sessions>>
        /\ work' = [work EXCEPT ![r] = "local"]
    BY <1>8 DEF ReadRequest
  <2>5. \A i, j \in 1..Len(toClient') :
           toClient'[i] = toClient'[j] /\ toClient'[i] \in Requests => i = j
    <3> SUFFICES ASSUME NEW i \in 1..Len(toClient'), NEW j \in 1..Len(toClient'),
                        toClient'[i] = toClient'[j], toClient'[i] \in Requests
                 PROVE  i = j
      OBVIOUS
    <3>1. i + 1 = j + 1
      BY <2>2 DEF PlaceInv
    <3> QED
      BY <2>2, <3>1
  <2>6. \A i \in 1..Len(toClient') : toClient'[i] \in Requests =>
           /\ vpc'[toClient'[i]] \notin {"idle", "found"} /\ work'[toClient'[i]] = "none"
           /\ to'[toClient'[i]] \in {url', Localhost}
    BY <2>2, <2>3, <2>4 DEF PlaceInv, TypeOK
  <2>7. \A s \in Requests :
          /\ vpc'[s] \in {"idle", "found"} => work'[s] = "none"
          /\ vpc'[s] # "idle" => ask'[s] \in Asks
          /\ vpc'[s] = "served" => work'[s] = "over"
          /\ work'[s] \in {"local", "built"} => link' # "down" /\ to'[s] \in {url', Localhost}
          /\ session'[s] <= sessions'
          /\ vpc'[s] = "found" /\ link' # "down" /\ session'[s] = sessions' =>
                to'[s] \in {url', Localhost}
    BY <2>1, <2>4 DEF PlaceInv, TypeOK
  <2> QED
    BY <2>5, <2>6, <2>7 DEF PlaceInv
<1>9. ASSUME NEW r \in Requests, NEW page \in Pages, LocalAnswers(r, page) PROVE PlaceInv'
  BY <1>9 DEF LocalAnswers, PlaceInv, TypeOK
<1>10. ASSUME NEW r \in Requests, LocalFails(r) \/ Deliver(r) PROVE PlaceInv'
  BY <1>10 DEF LocalFails, Deliver, PlaceInv, TypeOK
<1>11. CASE UNCHANGED vars
  BY <1>11 DEF vars, PlaceInv
<1> QED
  BY <1>1, <1>2, <1>3, <1>4, <1>5, <1>6, <1>7, <1>8, <1>9, <1>10, <1>11
     DEF Next, Tunnel, Host, Client, Finished

-----------------------------------------------------------------------------
(* Where the URL is.                                                        *)

LEMMA InfoInit == Init => InfoInv
BY ExchangeAssumption DEF Init, InfoInv

LEMMA InfoStep == TypeOK /\ PlaceInv /\ InfoInv /\ [Next]_vars => InfoInv'
<1> SUFFICES ASSUME TypeOK, PlaceInv, InfoInv, [Next]_vars PROVE InfoInv'
  OBVIOUS
<1> USE DEF tunnelVars, hostVars, clientVars, To
<1>1. ASSUME NEW u \in Urls, Connect(u) PROVE InfoInv'
  <2>1. toClient' = <<>> /\ \A r \in Requests : work[r] # "local"
    BY <1>1 DEF Connect, PlaceInv, InfoInv
  <2> QED
    BY <1>1, <2>1 DEF Connect, InfoInv
<1>2. CASE WriteInfo
  <2>1. url \in Urls /\ url \notin Requests /\ link' = "told"
    BY <1>2, ExchangeAssumption DEF WriteInfo, TypeOK
  <2>2. /\ Len(toClient) \in Nat /\ Len(toClient') = Len(toClient) + 1
        /\ \A i \in 1..Len(toClient) : i \in 1..Len(toClient') /\ toClient'[i] = toClient[i]
        /\ \A i \in 1..Len(toClient') :
               \/ i \in 1..Len(toClient) /\ toClient'[i] = toClient[i]
               \/ i = Len(toClient) + 1 /\ toClient'[i] = url
    BY <1>2, <2>1, AppendPlaces DEF WriteInfo
  <2>3. Len(toClient) + 1 \in 1..Len(toClient') /\ toClient'[Len(toClient) + 1] = url
    BY <2>2
  <2>4. \A i \in 1..Len(toClient) : toClient[i] \notin Requests \ early
    BY <1>2 DEF WriteInfo, InfoInv
  <2>5. UNCHANGED <<url, early, ntunlInfo, work>>
    BY <1>2 DEF WriteInfo
  <2>6. \A i \in 1..Len(toClient') : toClient'[i] \in Requests => toClient'[i] \in early
    BY <2>1, <2>2, <2>4
  <2>7. \A i \in 1..Len(toClient') : toClient'[i] \in Urls => toClient'[i] = url
    BY <2>2 DEF InfoInv
  <2>8. \A r \in Requests \ early : work[r] = "local" => ntunlInfo = url
    BY DEF InfoInv
  <2>9. toClient' # <<>>
    BY <2>3
  <2> QED
    BY <2>1, <2>3, <2>5, <2>6, <2>7, <2>8 DEF InfoInv
<1>3. CASE Disconnect
  BY <1>3 DEF Disconnect, InfoInv, TypeOK
<1>4. CASE ReadInfo
  <2>1. 1 \in 1..Len(toClient) /\ toClient[1] \in Urls /\ ntunlInfo' = toClient[1]
    BY <1>4 DEF ReadInfo, setInfo, TypeOK
  <2>2. ntunlInfo' = url /\ link = "told"
    BY <2>1 DEF InfoInv
  <2>3. \A i \in 1..Len(toClient') :
           i \in Nat /\ i + 1 \in 1..Len(toClient) /\ toClient'[i] = toClient[i + 1]
    BY <1>4, TailPlaces DEF ReadInfo
  <2>4. UNCHANGED <<link, url, early, work>>
    BY <1>4 DEF ReadInfo
  <2> QED
    BY <2>2, <2>3, <2>4 DEF InfoInv
<1>5. ASSUME NEW r \in Requests, NEW q \in Asks, NEW u \in Urls \cup {Localhost}, Visit(r, q, u)
      PROVE  InfoInv'
  BY <1>5 DEF Visit, InfoInv
<1>6. ASSUME NEW r \in Requests, Send(r) PROVE InfoInv'
  <2>1. r \notin Urls /\ link # "down"
    BY <1>6, ExchangeAssumption DEF Send
  <2>2. /\ Len(toClient) \in Nat /\ Len(toClient') = Len(toClient) + 1
        /\ \A i \in 1..Len(toClient) : i \in 1..Len(toClient') /\ toClient'[i] = toClient[i]
        /\ \A i \in 1..Len(toClient') :
               \/ i \in 1..Len(toClient) /\ toClient'[i] = toClient[i]
               \/ i = Len(toClient) + 1 /\ toClient'[i] = r
    BY <1>6, AppendPlaces DEF Send
  <2>3. UNCHANGED <<link, url, ntunlInfo, work>>
    BY <1>6 DEF Send
  <2>4. early \subseteq early' /\ (r \notin early' => link = "told")
    BY <1>6 DEF Send
  <2>5. ASSUME NEW i \in 1..Len(toClient'), toClient'[i] \in Requests \ early'
        PROVE  link = "told" /\ (ntunlInfo = url \/ \E j \in 1..(i - 1) : toClient'[j] \in Urls)
    <3>1. CASE i \in 1..Len(toClient) /\ toClient'[i] = toClient[i]
      <4>1. link = "told" /\ (ntunlInfo = url \/ \E j \in 1..(i - 1) : toClient[j] \in Urls)
        BY <2>4, <2>5, <3>1 DEF InfoInv
      <4> QED
        BY <2>2, <3>1, <4>1
    <3>2. CASE i = Len(toClient) + 1 /\ toClient'[i] = r
      <4>1. link = "told"
        BY <2>4, <2>5, <3>2
      <4>2. ntunlInfo = url \/ \E j \in 1..Len(toClient) : toClient[j] \in Urls
        BY <4>1 DEF InfoInv
      <4> QED
        BY <2>2, <3>2, <4>1, <4>2
    <3> QED
      BY <2>2, <3>1, <3>2
  <2>6. \A i \in 1..Len(toClient') : toClient'[i] \in Urls => toClient'[i] = url /\ link = "told"
    BY <2>1, <2>2 DEF InfoInv
  <2>7. link = "told" => ntunlInfo = url \/ \E i \in 1..Len(toClient') : toClient'[i] \in Urls
    BY <2>2 DEF InfoInv
  <2>8. \A s \in Requests \ early' : work[s] = "local" => ntunlInfo = url
    BY <2>4 DEF InfoInv
  <2> QED
    BY <2>1, <2>3, <2>5, <2>6, <2>7, <2>8 DEF InfoInv
<1>7. ASSUME NEW r \in Requests, BadBody(r) \/ BadGateway(r) PROVE InfoInv'
  BY <1>7 DEF BadBody, BadGateway, InfoInv
<1>8. ASSUME NEW r \in Requests, ReadRequest(r) PROVE InfoInv'
  <2>1. 1 \in 1..Len(toClient) /\ toClient[1] = r /\ r \notin Urls
    BY <1>8, AskedKnown, ExchangeAssumption
  <2>2. Len(toClient) \in Nat /\ Len(toClient') = Len(toClient) - 1
        /\ \A i \in 1..Len(toClient') :
              i \in Nat /\ i + 1 \in 1..Len(toClient) /\ toClient'[i] = toClient[i + 1]
    BY <1>8 DEF ReadRequest, TypeOK
  <2>3. UNCHANGED <<link, url, early, ntunlInfo>> /\ work' = [work EXCEPT ![r] = "local"]
    BY <1>8 DEF ReadRequest
  <2>4. ASSUME NEW j \in 1..Len(toClient), toClient[j] \in Urls
        PROVE  j - 1 \in 1..Len(toClient') /\ toClient'[j - 1] = toClient[j]
    BY <2>1, <2>2, <2>4
  <2>5. r \notin early => ntunlInfo = url
    BY <2>1 DEF InfoInv
  <2>6. ASSUME NEW i \in 1..Len(toClient'), toClient'[i] \in Requests \ early
        PROVE  link = "told" /\ (ntunlInfo = url \/ \E j \in 1..(i - 1) : toClient'[j] \in Urls)
    <3>1. /\ link = "told" /\ i + 1 \in 1..Len(toClient)
          /\ ntunlInfo = url \/ \E j \in 1..((i + 1) - 1) : toClient[j] \in Urls
      BY <2>2, <2>6 DEF InfoInv
    <3>2. ASSUME NEW j \in 1..((i + 1) - 1), toClient[j] \in Urls
          PROVE  j - 1 \in 1..(i - 1) /\ toClient'[j - 1] \in Urls
      <4>1. j \in 1..Len(toClient) /\ j # 1
        BY <2>1, <2>2, <3>1, <3>2
      <4> QED
        BY <2>2, <2>4, <3>2, <4>1
    <3> QED
      BY <3>1, <3>2
  <2>7. link = "told" => ntunlInfo = url \/ \E i \in 1..Len(toClient') : toClient'[i] \in Urls
    <3>1. link = "told" => ntunlInfo = url \/ \E i \in 1..Len(toClient) : toClient[i] \in Urls
      BY DEF InfoInv
    <3> QED
      BY <2>4, <3>1
  <2>8. \A i \in 1..Len(toClient') : toClient'[i] \in Urls => toClient'[i] = url /\ link = "told"
    BY <2>2 DEF InfoInv
  <2>9. link # "down" /\ \A s \in Requests \ early : work'[s] = "local" => ntunlInfo = url
    BY <2>1, <2>3, <2>5 DEF InfoInv, TypeOK
  <2> QED
    BY <2>3, <2>6, <2>7, <2>8, <2>9 DEF InfoInv
<1>9. ASSUME NEW r \in Requests, NEW page \in Pages, LocalAnswers(r, page) PROVE InfoInv'
  BY <1>9 DEF LocalAnswers, InfoInv, TypeOK
<1>10. ASSUME NEW r \in Requests, LocalFails(r) \/ Deliver(r) PROVE InfoInv'
  BY <1>10 DEF LocalFails, Deliver, InfoInv, TypeOK
<1>11. CASE UNCHANGED vars
  BY <1>11 DEF vars, InfoInv
<1> QED
  BY <1>1, <1>2, <1>3, <1>4, <1>5, <1>6, <1>7, <1>8, <1>9, <1>10, <1>11
     DEF Next, Tunnel, Host, Client, Finished

-----------------------------------------------------------------------------
(* What an answer holds.                                                    *)

LEMMA AnswerInit == Init => AnswerInv
BY DEF Init, AnswerInv

\* An answer that is built is good.
LEMMA BuildsGoodAnswers ==
  ASSUME TypeOK, PlaceInv, InfoInv, AnswerInv,
         NEW r \in Requests, NEW page \in Pages, LocalAnswers(r, page)
  PROVE  AnswerInv'
<1>1. PICK a \in buildResponse(page, seen[r]) :
         answer' = [answer EXCEPT ![r] = a] /\ logs' = [logs EXCEPT ![r] = a]
  BY DEF LocalAnswers, Log
<1>2. /\ a \in Answer /\ a.page = page
      /\ Honest(page) => Decodes(a)
      /\ rewriteEnabled /\ Rewritable(page) /\ ntunlInfo \in Urls => a.text = ntunlInfo
  BY Building, ExchangeAssumption DEF TypeOK
<1>3. work[r] = "local" /\ work' = [work EXCEPT ![r] = "built"]
  BY DEF LocalAnswers
<1>4. url \in Urls /\ to[r] \in {url, Localhost} /\ vpc[r] # "served"
  BY <1>3 DEF PlaceInv, TypeOK
<1>5. r \notin early => ntunlInfo = url
  BY <1>3 DEF InfoInv
<1>6. UNCHANGED <<vpc, ask, to, session, got, early>>
  BY DEF LocalAnswers, hostVars
<1>7. GoodAnswer(r, a)'
  BY <1>1, <1>2, <1>4, <1>5, <1>6 DEF GoodAnswer, TypeOK
<1>8. answer'[r] = a
  BY <1>1 DEF TypeOK
<1>9. ASSUME NEW s \in Requests, s # r
      PROVE  /\ work'[s] = "built" => GoodAnswer(s, answer[s])' /\ answer'[s] = answer[s]
             /\ vpc'[s] = "served" => GoodAnswer(s, got[s])'
  BY <1>1, <1>3, <1>6, <1>9 DEF AnswerInv, GoodAnswer, TypeOK
<1>10. /\ work'[r] = "built" => GoodAnswer(r, answer[r])'
       /\ vpc'[r] = "served" => GoodAnswer(r, got[r])'
  BY <1>4, <1>6, <1>7, <1>8 DEF GoodAnswer
<1> QED
  BY <1>9, <1>10 DEF AnswerInv

LEMMA AnswerStep == TypeOK /\ PlaceInv /\ InfoInv /\ AnswerInv /\ [Next]_vars => AnswerInv'
<1> SUFFICES ASSUME TypeOK, PlaceInv, InfoInv, AnswerInv, [Next]_vars PROVE AnswerInv'
  OBVIOUS
<1> USE DEF tunnelVars, hostVars, clientVars, To
<1>1. ASSUME UNCHANGED <<vpc, to, got, early, answer, logs>>,
             \A r \in Requests : work'[r] = "built" => work[r] = "built"
      PROVE  AnswerInv'
  BY <1>1 DEF AnswerInv, GoodAnswer
<1>2. CASE Tunnel \/ ReadInfo \/ UNCHANGED vars \/ Finished
  BY <1>1, <1>2 DEF Tunnel, Connect, WriteInfo, Disconnect, ReadInfo, Finished, vars, TypeOK
<1>3. ASSUME NEW r \in Requests, NEW q \in Asks, NEW u \in Urls \cup {Localhost}, Visit(r, q, u)
      PROVE  AnswerInv'
  <2>1. work[r] = "none"
    BY <1>3 DEF Visit, PlaceInv
  <2> QED
    BY <1>3, <2>1 DEF Visit, AnswerInv, GoodAnswer, TypeOK
<1>4. ASSUME NEW r \in Requests, Send(r) \/ BadBody(r) \/ BadGateway(r) PROVE AnswerInv'
  <2>1. vpc[r] \in {"found", "waiting"} /\ (vpc[r] = "found" => work[r] = "none")
    BY <1>4 DEF Send, BadBody, BadGateway, PlaceInv
  <2>2. /\ early \subseteq early'
        /\ \A s \in Requests : s # r => (s \in early <=> s \in early')
        /\ \A s \in Requests : vpc'[s] = "served" => vpc[s] = "served" /\ s # r
        /\ work[r] # "none" => early' = early
        /\ UNCHANGED <<to, got, answer, logs, work>>
    BY <1>4, <2>1 DEF Send, BadBody, BadGateway, TypeOK
  <2> QED
    BY <2>2 DEF AnswerInv, GoodAnswer
<1>5. ASSUME NEW r \in Requests, ReadRequest(r) PROVE AnswerInv'
  BY <1>1, <1>5 DEF ReadRequest, TypeOK
<1>6. ASSUME NEW r \in Requests, NEW page \in Pages, LocalAnswers(r, page) PROVE AnswerInv'
  BY <1>6, BuildsGoodAnswers
<1>7. ASSUME NEW r \in Requests, LocalFails(r) PROVE AnswerInv'
  BY <1>1, <1>7 DEF LocalFails, TypeOK
<1>8. ASSUME NEW r \in Requests, Deliver(r) PROVE AnswerInv'
  BY <1>8 DEF Deliver, AnswerInv, GoodAnswer, TypeOK
<1> QED
  BY <1>2, <1>3, <1>4, <1>5, <1>6, <1>7, <1>8 DEF Next, Host, Client

-----------------------------------------------------------------------------
(* The theorems.                                                            *)

LEMMA ExchangeInvariant == Spec => [](TypeOK /\ PlaceInv /\ InfoInv /\ AnswerInv)
<1>1. Init => TypeOK /\ PlaceInv /\ InfoInv /\ AnswerInv
  BY TypeInit, PlaceInit, InfoInit, AnswerInit
<1>2. TypeOK /\ PlaceInv /\ InfoInv /\ AnswerInv /\ [Next]_vars
        => (TypeOK /\ PlaceInv /\ InfoInv /\ AnswerInv)'
  BY TypeStep, PlaceStep, InfoStep, AnswerStep
<1> QED
  BY <1>1, <1>2, PTL DEF Spec

\* The variables of both programs and the tunnel keep to their types.
THEOREM ExchangeTypeCorrect == Spec => []TypeOK
BY ExchangeInvariant, PTL

\* Whatever names are black-listed, in whatever spelling, whichever headers a
\* visitor sends and the tunnel's settings replace: none of them gets through.
THEOREM HeadersAreHidden == Spec => []HiddenStayHidden
<1>1. Init => HiddenStayHidden
  BY DEF Init, HiddenStayHidden
<1>2. TypeOK /\ PlaceInv /\ HiddenStayHidden /\ [Next]_vars => HiddenStayHidden'
  <2> SUFFICES ASSUME TypeOK, PlaceInv, HiddenStayHidden, [Next]_vars PROVE HiddenStayHidden'
    OBVIOUS
  <2>1. ASSUME NEW r \in Requests, ReadRequest(r) PROVE HiddenStayHidden'
    <3>1. ask[r] \in Ask /\ seen' = [seen EXCEPT ![r] = Local(Forwarded(r))]
      BY <2>1, AskedKnown DEF ReadRequest
    <3>2. \A k \in DOMAIN Local(Forwarded(r)).headers \ {"Content-Type"} : ~Hidden(k)
      BY <3>1, Asking DEF Forwarded
    <3> QED
      BY <3>1, <3>2 DEF HiddenStayHidden, Hidden, TypeOK
  <2>2. CASE UNCHANGED seen
    BY <2>2 DEF HiddenStayHidden, Hidden
  <2> QED
    BY <2>1, <2>2 DEF Next, Tunnel, Host, Client, Finished, Connect, WriteInfo, Disconnect,
       ReadInfo, Visit, Send, BadBody, BadGateway, LocalAnswers, LocalFails, Deliver,
       vars, clientVars
<1> QED
  BY <1>1, <1>2, ExchangeInvariant, PTL DEF Spec

\* An honest page reaches the visitor as an honest page, in every encoding.
THEOREM BodiesDecode == Spec => []BodyMatchesEncoding
<1>1. AnswerInv => BodyMatchesEncoding
  BY DEF AnswerInv, GoodAnswer, BodyMatchesEncoding
<1> QED
  BY <1>1, ExchangeInvariant, PTL

\* Links lead back to the address asked for, over any number of reconnections.
THEOREM LinksAreLive == Spec => []LinksLeadBack
<1>1. AnswerInv => LinksLeadBack
  BY DEF AnswerInv, GoodAnswer, LinksLeadBack
<1> QED
  BY <1>1, ExchangeInvariant, PTL

\* The inspector has every answer a visitor got, as the visitor got it.
THEOREM InspectorIsFaithful == Spec => []InspectorTells
<1>1. AnswerInv => InspectorTells
  <2> SUFFICES ASSUME AnswerInv, NEW r \in Requests,
                      vpc[r] = "served", Honest(got[r]), got[r].label \in {"none", "br"}
               PROVE  logs[r] # Nothing /\ buildView(logs[r]) = got[r].text
    BY DEF InspectorTells
  <2>1. logs[r] = got[r] /\ got[r] \in Answer
    BY DEF AnswerInv, GoodAnswer
  <2> QED
    BY <2>1, NothingAssumption DEF buildView, Honest
<1> QED
  BY <1>1, ExchangeInvariant, PTL

===============================================================================
