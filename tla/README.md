# NTunl: a TLA+ model of the tunnel host and its clients

NTunl exposes local web services through a public host. A *tunnel client* keeps
one authenticated WebSocket connection to the *tunnel host*; the host gives the
connection a subdomain and forwards to it the HTTP requests that *visitors* send
to that subdomain. This directory models the Go implementation (`cmd/`,
`internal/`); `_legacy/` is the .NET program it replaced and is left out.

## 1. Inventory

| Component | Code | State | Operations | Hard parts |
|---|---|---|---|---|
| TunnelHost | `internal/host/tunnel.go` | `clients` (subdomain -> client, nil placeholder while a handshake runs), `pending` (conversation -> channel), per-user `recent` ring buffers, per-client write lock and counter | `handleConn`, `assignSubdomain`, `releaseName`, `readPump`, `dropClient`, `SendHttpRequest`, `send`, `GetClient`, `GetAnyClient`, `recordRequest`, portal queries | one goroutine per connection and per request over shared maps; answers racing timeouts; a lock held across blocking I/O |
| HttpServer | `internal/host/httpserver.go` | none of its own | `handle`: route by first host label, read the body, forward, answer | the client is looked up before the body is read |
| TunnelClient | `internal/client/tunnel.go`, `client.go` | the connection, a semaphore of handler slots, write lock, public URL, retry counter | `run`, `connect`, `serve`, `handleRequest`, `writeMsg`, `dispatchControl`, `keepalive` | reader, handlers, pinger and shutdown end each other through contexts and `Close` |
| MessageHandler | `internal/client/handler.go` | request log, per-tunnel public URL | `handle`, `buildResponse`, `rewriteBody`, `snapshot` | shared by all tunnels; URL pushed by another goroutine |
| Inspector | `internal/client/inspector.go` | none | renders `snapshot` | decodes bodies that were rewritten and encoded again |
| Credentials | `internal/client/credentials.go`, `login.go`, `cmd/client/main.go` | one JSON file | load, change, save | concurrent logins, interrupted write |
| Store | `internal/store` | users, tokens, sessions, tunnel_events (SQLite, one connection) | single statements | multi-statement operations of the callers |
| Auth | `internal/auth` | none | `ResolveToken`, `RequireAuth`, `RequireAdmin` | several statements per decision |
| Portal | `internal/host/portal` | none | login, logout, tokens, users, passwords, dashboards | admin changes racing logins |
| HostProcess | `cmd/host/main.go`, `internal/host/bootstrap.go` | process life | start, bootstrap admin, shutdown | servers end while requests run; rows left open |
| Certs | `internal/certs` | `cert.pem`, `key.pem` | `GetOrCreate` | interrupted creation |
| Protocol, Compress, Logx, ConfigLoader | `internal/...` | none | encodings, codecs, logging, one file read | none that state can show |

Interactions: the visitor's goroutine calls `SendHttpRequest`, which shares
`pending` and the client's write lock with the connection's goroutine; host and
client exchange messages over a bounded, ordered byte pipe in each direction;
the portal reads the host's maps; the handshake and the portal share the store.

What makes them correct, in one line each:

* TunnelHost: a subdomain belongs to one connection; nothing is left in
  `clients` or `pending`; an answer reaches the request it belongs to, from a
  tunnel that had the asked name; readPump never blocks; requests end; names of
  dead connections become free.
* TunnelClient: nothing of one connection outlives it; slots are not leaked;
  answers go out on the connection their request came in on; it reconnects after
  a loss and ends on shutdown.
* Accounts: decisions made from several statements stay right when users are
  disabled, passwords reset and tokens revoked in between.
* Exchange: what the host hides stays hidden; a page the client rewrites can
  still be decoded and its links lead back to where the visitor is.
* HostProcess, Certs, Credentials: an interruption leaves files that the next
  start can use, or it is known which ones do not; a stop ends the process; a
  token is only shown to the host it is for.

The places where each of these can go wrong are listed, at their lines, under
`hazards` in `PROJECT.json`.

## 2. Modules

| Module | What it is |
|---|---|
| `SubdomainRegistry` | Abstract specification: who holds which subdomain, which of those visitors can reach |
| `Forwarding` | Abstract specification: how far a visitor's request has come on its way to the local service and back |
| `TunnelHost` | The host: `handleConn`, `readPump`, `dropClient`, `SendHttpRequest`, and the control of `HttpServer.handle`; implements `SubdomainRegistry` and `Forwarding` |
| `TunnelClient` | One tunnel of the client program: `run`, `connect`, `serve`, `handleRequest`, `keepalive`, and what they use of `messageHandler`; implements `Forwarding` |
| `Accounts` | Users, sessions and API tokens: the statements of `store` as `auth` and the portal's handlers run them |
| `Exchange` | One request and its answer through both programs: headers, encodings, rewriting under the pushed URL, the inspector |
| `HostProcess` | The host program: start, bootstrap, certificate files, the three servers' `Run`, stop, crash and restart |
| `Credentials` | The client's commands (`login`, `logout`, `run`) over their one file |
| `Tunnel` | Host and client over one connection: what each waits for, and the timers that end a wait; implements `Forwarding` |
| `MC...` (seven) | Values of the constants for TLC |
| `...Proofs` (seven) | Theorems and proofs |
| `PipeLemmas` | Lemmas about the bounded pipes that the proofs of the three tunnel modules share |

`TunnelHost` takes the client as an environment that answers a request at most
once, in any order or never; `TunnelClient` takes the host as one that sends what
it likes and may stop reading. Each is meant as a superset of what the other does,
which is a matter of reading. What is checked and proved is that host and assumed
client, client and assumed host, and the two programs together (`Tunnel`) all
implement `Forwarding`: each environment keeps the contract that the program it
stands for keeps. Two modules compose the programs, each for what depends on both at once: `Tunnel` for
waiting (locks, pipes, slots, timers), `Exchange` for the URL and the words that
pass between them, which leaves those out and lets a request fail at any step.

Definitions whose comment begins with "Mutant" are not part of the model: each is
a plausible bug that a property is known to catch (`mutants` in `PROJECT.json`).

### TunnelHost

Each connection `c` has one handler whose place in `handleConn`, `readPump` and
`dropClient` is `hpc[c]`; each visitor request `r` one goroutine whose place in
`handle` and `SendHttpRequest` is `rpc[r]`. An action is one critical section, or
one call that may block:

| Code | Actions | States |
|---|---|---|
| `handleConn` up to the handshake | `Authenticate`, `Assign`, `Refuse`, `Accept`, `ReleaseName` | `idle`, `assign`, `accept`, `release` |
| `handleConn` after it | `Register`, `OpenTunnelEvent`, `LockInfo`, `WriteInfo` | `register`, `event`, `infoLock`, `infoWrite` |
| `readPump` | `PumpRead`, `PumpDeliver`, `PumpError` | `pump`, `deliver` |
| `dropClient` | `DropName`, `CloseTunnelEvent` | `drop`, `closeEvent` |
| `HttpServer.handle` | `Route`, `ReadBody` | `idle`, `body` |
| `SendHttpRequest`, `send` | `StartConversation`, `LockWrite`, `WriteRequest`, `UnlockWrite`, `WriteFails`, `Receive`, `GiveUp`, `Unregister` | `register`, `lock`, `write`, `unlock`, `wait`, `unregister` |
| `recordRequest` | `RecordRequest` | `record` |

`clients`, `pending`, `recent`, `writeMu` and `requests` are the fields of those
names. A conversation id is its request: `uuid.New` never repeats. The
conversation's channel (capacity 1) is `reply[r]`. The three error branches of
`SendHttpRequest` are the same critical section and share `Unregister`.

The websocket library and the network are external: a bounded pipe each way
(`toClient`, `toHost`), a link that may die unnoticed (`lost`), and a library
that closes the connection when a `Write`'s context ends in the middle of a
frame. The tunnel client answers each request at most once, in any order or
never (`PeerReads`, `PeerAnswers`), which is what `TunnelClient` does. A pool
name is tried as `assignSubdomain` does it: the first pool member that equals
the request ignoring case, then the first free one. In dynamic mode 1000 random
draws may all hit taken names, so a refusal is possible as soon as one is taken.

### TunnelClient

`pc` is the place of the goroutine of `run`, through `connect` and `serve`;
`handler[r]` that of a request's goroutine; `pinger` that of `keepalive`. `slots`
is the fill of the semaphore, `cmd` the request the read loop holds while it
waits for a slot, `ctxDone` and `cancelled` together are `connCtx`. A pong is seen
only inside `conn.Read`, as in the library, so `Pong` needs `pc = "read"`. A dead
connection is `silent` (writes still succeed, reads block) or `reset`. A
cancelled context, a write timeout or a failed ping closes the connection.

`logs` is `messageHandler.logs`; `info` is the session whose URL is in
`tunnelState`. The inspector reads both and changes nothing. What is in the
request sent to the local service and in its answer is the subject of `Exchange`.

### Accounts

A call `c` is one request to the portal or the token check of one handshake;
`call[c]` holds the statement it is about to run (`at`), what it is (`op`), the
name, cookie or token it brought (`key`) and the user it has read (`who`). Each
SQL statement is one action: SQLite runs one at a time, and the handlers open no
transaction, so other calls run in between.

| Code | Actions | States |
|---|---|---|
| `handleLoginSubmit`, `handleAPILogin` | `LookUp`, then `CreateSession` or `CreateToken` | `lookup`, `mint` |
| `handleLogout` | `Logout` | `logout` |
| the end of the host and its next start | `Restart` | any, to `idle` |
| `RequireAuth`, `RequireAdmin` | `GetSession`, `Purge`, `GetUser` | `session`, `purge`, `account` |
| the pages, `handleChangePassword` | `Serve` | `act` |
| `handleCreateToken`, `handleRevokeToken` | `CreateToken`, `Revoke` | `act` |
| `handleCreateUser`, `handleEnableUser` | `CreateUser`, `Enable` | `act` |
| `handleDisableUser`, `handleResetPassword` | `Disable` or `ResetPassword`, then `DeleteUserSessions` | `act`, `sweep` |
| `ResolveToken` | `GetTokenByHash`, `GetOwner` | `token`, `owner` |

Every statement may fail. `Fails` is a read or an insert that returns an error, and a
form or id that is refused: the handler gives up. The errors of updates and deletes
are dropped, so those actions may leave their rows as they were and go on. `Restart`
cuts every call off between two statements, as a stop does (`main` does not wait for
running requests, see `HostProcess`) or a crash. A
password is right or wrong, whoever set it. `owed` (sessions there were when their
user was last disabled or reset) and `barred` (what a call's key lacked from its
start) are bookkeeping of the properties; no guard reads them.

Three things the code allows are not claimed away. A login that looked the user
up before a disable or a reset may create its session after the sweep
(`WipesAreComplete` counts it as a new one). A `DeleteUserSessions` whose error is
dropped (`handlers_admin.go:52, 77`), or that a restart cuts off, leaves the sessions
it was to end to the next disable or reset of the user: they are then no longer
`owed`. And a key and its user may each have
been good at the moment they were read but never together
(`BarredAreRejected` speaks of what was missing all along).

### Exchange

`vpc[r]` is the place of the host's `handle`, `work[r]` that of the client's;
`toClient` is the connection, on which `NtunlInfo` and requests keep their order.
A header is its name as spelled and whose value it carries; a page is whether it
is HTML, what its Content-Encoding says, what its bytes are, and where its links
lead.

| Code | Definitions |
|---|---|
| `handleConn`: publish, `NtunlInfo` | `Connect`, `WriteInfo`, `Disconnect` |
| `HttpServer.handle`, `collectHeaders`, `blocked`, `matchesWild` | `Visit`, `Send`, `BadBody`, `BadGateway`, `collectHeaders` |
| `dispatchControl`, `setInfo` | `ReadInfo` |
| `messageHandler.handle` | `ReadRequest` (`LocalHeaders`, `Local`), `LocalAnswers`, `LocalFails`, `Deliver` |
| `buildResponse`, `rewriteBody`, `compress` | operators of the same names |
| `buildView` | `buildView` |

`net/http` is external: it sends neither a `Host` nor a `Content-Length` found
among the headers, and decodes gzip itself when the request asked for no encoding
(`Gunzips`), dropping the label.

Behaviour of the code worth knowing, which the model has and no property hides:
black-listed `Content-Type` travels with a body all the same; a custom header only
replaces one the visitor sent, and only under the exact spelling; the local
service sees the Host of the tunnel's address unless `hostHeader` is set; an
encoding other than br and gzip is searched and replaced in as it is; a request
that overtakes `NtunlInfo` (`early`) is rewritten with the URL of an earlier
connection, or not at all.

### Tunnel

One connection, from the moment its name is published. `hpc` and `rpc[r]` are the
places of `TunnelHost`, `loop` and `handler[r]` those of `TunnelClient`, with the
steps at which neither waits for anybody left out; `hostMu` and `clientMu` are the
two write locks, each held over a `Write` that blocks while the pipe is full.

| Code | Actions |
|---|---|
| `SendHttpRequest`, `send` | `StartConversation`, `LockWrite`, `WriteRequest`, `WriteFails`, `GiveUp` |
| `handleConn`, `readPump` | `LockInfo`, `WriteInfo`, `PumpRead`, `PumpError` |
| `serve` | `ReadMessage`, `Acquire`, `ReadFails`, `Drain` |
| `handleRequest`, `writeMsg` | `LocalAnswers`, `LockAnswer`, `WriteAnswer`, `WriteTimeout` |

Names, the `pending` map, the log and reconnecting are left out: what they add is
shown in the other modules. An answer that `readPump` reads goes to its request in the
same step, since `readPump` never blocks on it (`PumpNeverBlocks`). `Waiting`,
`HostMoves` and `ClientMoves` say who waits and who can take a step of its own, for
`OnlyInfoCloses`: if somebody waits and nobody can move, then `readPump` has not
started and a handler of the client stands in its Write. A failed ping
is one of the things that may lose the connection at any time (`LoseConnection`).

Control frames are left out. The websocket library answers a ping inside `Read`, under
a frame lock of its own which a blocked Write holds: a host that writes to a full pipe
stands still in `Read` too when the client pings it, until the library gives up after
5 s and the connection is lost. "No other circle" and "no timer" are said of messages;
the outcome is among those of `LoseConnection`, after which nothing waits.

### HostProcess

`main` is where `main` stands, `server[s]` where each server's `Run` does; `users`,
`cert` and `key` are on disk and survive `Crash`. A file is written by truncating
it first, so both steps are actions.

| Code | Actions |
|---|---|
| `cmd/host/main.go` | `Start`, `OpenStore`, `RunServers`, `Signal`, `Exit` |
| `BootstrapAdmin` | `CountUsers`, `BootstrapAdmin` |
| `certs.GetOrCreate` | `GetOrCreate`, `TruncateCert`, `WriteCert`, `TruncateKey`, `WriteKey`, `WriteFileFails` |
| `Run` of the three servers | `Listen`, `LosesListener`, `Shutdown`, `Fails` |
| `host create-admin` | `BeginCreateAdmin`, `CreateAdmin` |

`Run` returns as soon as the listener closes, while `Shutdown` still waits: jobs in
progress are `cut`, though `plans/go-migration.md:174` speaks of a graceful shutdown
and `Shutdown` is given 5 s. `StopEnds` says that they do not hold up the stop.
`SomebodyCanSignIn` counts disabled accounts: an administrator may disable himself. `damaged` records that a write of the files was interrupted;
the program never repairs such a pair, and then fails at every start until a file
is deleted. `FilesLoadUnlessDamaged` says that nothing else leads there.

### Credentials

A command is a process: `pc[c]` is its place, `cfg[c]` the addresses in its config,
`creds[c]` what it has read and changed.

| Code | Actions |
|---|---|
| `cmd/client/main.go` | `Begin` |
| `login`, `logout` | `Authenticate`, `Load`, then `Truncate`, `Write` or `WriteFails` |
| `CredentialStore.Set`, `Delete`, `Get` | `Update`, `Get` |
| `client.New`, for `run` | `New` (`Ready`) |

Nothing locks the file: two overlapping saves lose a token or tear it, and no
command repairs a torn file. `disturbed` records that this happened;
`FileIsLastWord` and `RunFindsLogins` speak of the time before, `TokensStayHome`
of all of it.

## 3. What the runs check

| Run | Bounds | Shows |
|---|---|---|
| `host_pool` | 3 connections, pool `<<"A","b">>`, three spellings | `NameExclusive`, `RegistryMatchesHandlers`, `RefusedOnlyWhenExhausted` |
| `host_dynamic` | 2 connections, no pool, three spellings, 1 request | `ImplementsRegistry`, `AnswerFromAskedTunnel`, `NoPendingLeak`, `NoLostAnswer` |
| `host_finish` | 1 connection, 2 requests, fair, a tunnel client that keeps reading | `ImplementsForwarding`; `RequestsFinish`, `NamesFreed`; `TypeOK`, `PumpNeverBlocks`, `TrafficAccounted` |
| `client_ends` | 3 requests, 2 slots, 1 session, fair | `ImplementsForwarding`; `Reconnects`, `HandlersEnd`, `ShutdownCompletes`; `TypeOK`, `NoWorkOutlivesSession`, `SlotsMatchHandlers`, `AnswersAreLogged` |
| `accounts` | 2 calls, 2 users, 2 sessions, 1 token | `WipesAreComplete`, `BarredAreRejected`, `OnlyOwnersRevoke` |
| `host_process` | 3 starts, 2 jobs, 2 account names, fair | `TypeOK`, `SomebodyCanSignIn`, `PairOutlivesProcess`, `FilesLoadUnlessDamaged`, `StopEnds` |
| `tunnel` | 4 requests, 1 slot, pipes of 1 message, fair | `ImplementsForwarding`, `OnlyInfoCloses`; `FlowsOncePumping`, `PumpStarts` |
| `credentials` | 3 commands, 2 hosts under three addresses, 5 configs | `FileIsLastWord`, `TokensStayHome`, `RunFindsLogins` |
| `exchange` | 2 requests, 2 URLs, 2 connections, 13 spellings, 6 pages | `HiddenStayHidden`, `BodyMatchesEncoding`, `LinksLeadBack`, `InspectorTells` |

`accounts`, `credentials`, `exchange` and `tunnel` do not check `TypeOK` again: it is
proved for every instance (section 4).

Three runs end in a violation, each of a sentence in the code's comments:

* `host_requested_taken`: "the client's requested name if free, else a random
  one" (`internal/host/tunnel.go:136`). In dynamic mode a taken name means 503.
* `host_silent_peer`: `SendHttpRequest` "waits for the matching response or the
  timeout" (`internal/host/tunnel.go:300-301`). The timer starts after `send`;
  with a tunnel client that stops reading, `Lock` and `Write` wait for ever.
* `client_nil_conn`: "run connects (with retry) and serves until ctx is
  cancelled" (`internal/client/tunnel.go:50`). A cancellation between the check
  of `run` and that of `connect` gives no connection and no error; `serve` then
  dereferences nil.

`tunnel` shows what the host's assumption that tunnel clients keep reading rests on.
The client's read loop waits for a slot, so it does stop reading; but while
`readPump` runs, this never closes into a circle (`OnlyInfoCloses`, at every state;
`FlowsOncePumping`, for every request that wants to be written). Before
`readPump` runs it can: `NtunlInfo` is written first, and may wait for the client's
loop, which waits for a slot, whose handler waits for somebody to read its answer.
Nothing on the host ends that; the client's 30 s `writeTimeout` does, at the cost of
the connection (`PumpStarts`).

### Bounds, and why they are enough

`Conns`: a conflict over a name takes two connections; a third shows a pool of
two exhausted. `Requests`: two share a write lock and a pipe; three are needed
on the client to fill two slots and wait. `SocketCap = 1` makes every pipe
full after one message, so each Write can block. `recentRequestCap = 1` makes the
ring buffer overflow with two answers. `Labels` has two spellings of one name,
which is all `lower` distinguishes. The fair host run has one connection and one
account, so that it can have two requests: what connections do to each other is
in the two runs before it, and the safety properties are proved for any number.
The client's run has one session and one attempt: it stops at the dial that
follows the first session, since no session inherits anything from another
(`NoWorkOutlivesSession`, which fails in this run as soon as a goroutine is left,
and which is proved). Sending each request once bounds the runs, not the
behaviours between two requests.

`Accounts`: two calls are enough for any statement of one to fall between two of
another, and a call that is over may arrive again without end, so a state may
follow from any number of calls. Two users are an admin and one who is disabled,
reset, enabled (or made a second admin); two sessions of one user are needed to
tell a complete wipe from a partial one. Ids are never used again, so the runs
stop creating rows when the two sessions and the token are used; inserts then
fail.

`HostProcess`: three starts are one that is interrupted, one that finds what it
left, and one that lives; the files begin as an installation may have them, either
or both missing. Two jobs are one that ends and one that hangs; two names let
`create-admin` take the administrator's name or another. `Credentials`: two of the
three commands overlap and the third reads what they left; `H1:8001` and the portal
`http://h1:8002` are one host in two spellings, a config may name several hosts,
none, or leave an address empty. `Exchange`: two connections under two URLs are an
old URL and a new one; two requests, one of each connection or both of one. `Tunnel`:
four requests, one slot and pipes of one message are the smallest instance in which
the circle closes: one answer in the pipe, one to be written, one request in the
loop's hand, one in the pipe before `NtunlInfo`. Black
list, prefix list, IP header and custom headers each have a name that differs from
a visitor's by case. Of the pages, one is of each encoding, one lies about its
encoding and one is not HTML.

Connections, calls, sessions, tokens, commands and the requests of `Exchange`
differ by name only, so these safety runs use symmetry; no run that checks
liveness does.

### Fairness

Host: weak fairness of each handler and of each request from
`StartConversation` on. Both are goroutines that the scheduler runs, whose waits
end by a timer (20 s) or by TCP's detection of a dead peer. None for `ReadBody`
(a visitor may never send its body), for the network or for the visitors.
`ResponsiveSpec` adds that tunnel clients keep reading; `host_silent_peer` shows
that `RequestsFinish` needs it. `NamesFreed` does not: it speaks of a link that is
lost or closed, after which the one client of the run reads nothing.

Client: weak fairness of `run`'s own steps, of the steps of a handler that need
neither the local service (10 s timeout of `http.Client`) nor the host (30 s
`writeTimeout`), and of each step of the pinger that a timer drives. None for
the dial: it has no timeout, so `Reconnects` promises a dial, not a connection,
unless the program is being stopped.

`Tunnel`: weak fairness of the goroutines' own steps and of the local service, which
answers or is given up after `http.Client`'s 10 s; none of any other timer, nor of the
loss of the connection. `PumpStarts` adds that `writeTimeout` fires, and nothing else.

`HostProcess`: weak fairness of `main`'s steps, of those of `GetOrCreate` and of
each server's `Run`: files and sockets answer. None for the jobs, which may hang
for ever, for signals, crashes or restarts.

## 4. What is proved

Every invariant and every action property of the passing runs, the refinement
of `SubdomainRegistry`, and that of `Forwarding` by three modules, for every value of the constants that the named
assumptions allow (`LabelsAssumption`, `UsersAssumption`, `CapsAssumption`,
`SentinelAssumption`; `ClientAssumption`; `AccountsAssumption`;
`ProcessAssumption`; `CredentialsAssumption`; `ExchangeAssumption`,
`NothingAssumption`; `TunnelAssumption`).

`TunnelHostProofs`:

* `TypeCorrect`, by induction over the parts of `TypeOK`; the ring buffer's bound
  rests on `NewestType`.
* `NamesAreExclusive`, `RegistryIsExact`. Exclusiveness is not inductive: it
  needs to know that whoever holds a name has its entry in `clients`, which in
  turn needs that an entry belongs to one handler. `RegistryInv` joins the two.
* `RefusalsAreNeeded`: a refusal in pool mode finds no free member
  (`RefusalMeansTaken`; that a set of free members would have a first one is
  `FirstExists`), and by `RegistryInv` every taken name has a handler.
* `HostImplementsRegistry`: with `held` and `published` read off `hpc`, `name` and
  `clients`, every step is a step of `SubdomainRegistry` or a stutter.
  `RoutesAreHeldAlone` carries what `SubdomainRegistry` guarantees
  (`RegistryStaysExclusive`) over to the host.
* `PendingNeverLeaks`, `PumpIsNeverBlocked`, `AnswersAreNotLost`,
  `AnswersComeFromAskedTunnel`, from `ConversationInv`: a conversation lives on the
  one connection its request was routed to (`MessagesBelong`), it has not gone out
  before the Write (`UnsentIsPending`), an entry of `pending` has no answer yet
  (`PendingIsOpen`), and what `readPump` holds finds its channel empty
  (`HandIsReady`). Most steps do not touch conversations (`Quiet`); the others are
  proved one by one.
* `TrafficIsAccounted`, from `TrafficInv`: counter and list agree with the set of
  answered requests, between whose two updates a request is at `record`; the set
  of answered requests is finite although `Requests` need not be.
* `HostForwards`: the stage of a request is read off where it is (`OnTheWay`,
  `AtClient`, `Answering`) and where its goroutine stands. Besides `ConversationInv`
  it takes `TravelInv`, that a request is in one of these places and in no pipe
  twice: else reading one copy would leave it where it was. Each step that moves a
  message moves one request (`OneMoves`); every other step leaves all where they are
  or ends some (`Settled`, `LossSettles`).

`TunnelClientProofs`, all from `ClientInv`:

* `ClientTypeCorrect`: `slots - 1` stays a number because the handler that
  releases is one of those counted; `attempt` stays in range because of
  `AttemptInv`.
* `SlotsAreExact`: `HandlersAndSlots` shows that a step starts one handler and
  takes one slot, or ends one and gives one back, or does neither.
  `QueueInv` is needed there: the request in `cmd` has no handler yet.
* `SessionsAreClean`: `SessionInv` and `WriterInv`.
* `LogIsComplete`: `LogInv`.
* `ClientForwards`, with `OutboxInv`: an answer in the pipe has a handler that is
  done, so that writing it moves its request and a loss ends it. `Requests` may be
  sent over any number of sessions; what a session leaves in `inbox` or `cmd` ends
  with it (`EndingSteps`).

`AccountsProofs`:

* `AccountsTypeCorrect`: a call is ready for its next statement (`Ready`) because
  rows are never given up for reuse (`RowsStay`).
* `WipesEndSessions`: `WipesAreComplete` is inductive given `TypeOK`; a call that
  sweeps deletes every session of its user, also those another call is still to
  delete; if its deletion fails or a restart cuts it off, those sessions leave `owed`,
  and no others.
* `BarredAreRefused`: from `BarredInv`, that a call lacking something from its
  start has not passed the statement that checks it, and what it lacks cannot
  come back unnoticed (`RowsAge`: dead keys stay dead, rows keep their user).

* `RevokersAreOwners`: from `SessionOfCaller`, that a call about to revoke came with
  a session of the user it has read, or one deleted since.

`HostProcessProofs`, from `FilesInv` (what cert.pem and key.pem hold at each step of
`GetOrCreate`): `PairIsKept`, `UndamagedFilesLoad`; with `ProcessTypeCorrect`, and
`AccountBeforeService`, since no step removes an account.

`CredentialsProofs`: `CredentialsTypeCorrect`; `StoreIsLastWord` and `LoginsAreFound`,
both only for the time before an overlapping or cut save, from `SaveInv` (while nothing is disturbed one command saves at a time, and writes
the last words with its own); `TokensStayWithTheirHosts` from `TokenInv` (every token, in
the file or in a command, is under a key of the login that fetched it).

`ExchangeProofs`: `ExchangeTypeCorrect`, `HeadersAreHidden`; `LinksAreLive`,
`BodiesDecode` and `InspectorIsFaithful` from `PlaceInv` (a request is in one place,
of the session it was looked up in), `InfoInv` (a request written after `NtunlInfo`
is read after it) and `AnswerInv` (`GoodAnswer` from the moment it is built).
They keep the exceptions of the properties: `Content-Type` among the headers, requests
written before `NtunlInfo` among the links, gzip and unknown encodings in the inspector.

`TunnelProofs`, all from `TunnelInv`, which has three parts: `TypeOK`; `LockInv`, that a
lock is held by whoever stands in its Write, and that a goroutine which reads has ended
only with the connection; `PlaceInv`, that a request not taken by the client has no
handler, one it has was written, one answered is over, and none is in the pipe twice.

* `ConnectionTypeCorrect`, with one lemma per goroutine, from what appending to and
  reading from a bounded pipe does.
* `InfoClosesTheOnlyCircle`, that `OnlyInfoCloses` holds for any number of requests,
  slots and messages (control frames apart). Suppose nobody can move. If no handler of the client is in its
  Write, none waits for the lock either (its holder is in a Write), so none runs
  (`NoHandlerWaits`); the loop, neither waiting for a slot nor draining, reads, so its
  pipe is empty and the connection open, and no goroutine of the host waits to write
  or for the lock (`NoWriterWaits`). If a handler is in its Write, the pipe to the host
  is full, so `readPump`, if it ran, could read.
* `TunnelForwards`: the refinement, with the stage read off both programs at once.

The pipes are sequences, and what the refinements need of them is the same three times:
what `Append` and `Tail` do to the set of messages (`Range`) and to their being distinct
(`PipeLemmas`, proved from `SequenceTheorems`).

Model-checked only: `RequestsFinish`, `NamesFreed`, `Reconnects`, `HandlersEnd`,
`ShutdownCompletes`, `StopEnds`, `FlowsOncePumping` and `PumpStarts`. Liveness under
fairness is out of the prover's reach. `OnlyInfoCloses` is the part of the last two that
a state can show: where nobody is stuck, somebody has a step that weak fairness makes
it take.

## 5. What is not modelled

* The product of the detailed `TunnelHost` and `TunnelClient`: two models of several
  100,000 states each are together out of TLC's reach at bounds where both are
  interesting. `Tunnel` and `Exchange` compose the parts that depend on each other.
* A second connection of the same tunnel in `Tunnel`, which ends with its connection:
  reconnecting is in `TunnelClient`, names in `TunnelHost`, the pushed URL in `Exchange`.
* Several tunnels in one client program: they share `messageHandler.logs` (under a
  lock, appended to) and the `http.Client` only.
* `tunnel_events` rows that a crash leaves open: no later start closes them, and
  `RecentEventsByUser`, the only reader that would show it, has no caller.
* Tables and string handling without state: the methods other than POST, PUT and
  DELETE that reach the local service as GET, the content headers that are not
  copied to the visitor, `CombineUrlPath`, the parsing of addresses and flags.
* Read-only pages and lists of the portal; whose password hash is stored last when
  a change and a reset overlap (passwords are right or wrong in `Accounts`).
* The size of the inspector's log: the code appends and never cuts, where
  `plans/go-migration.md:163-164` plans a ring. The model's log is as large as its
  requests are many.
* Control frames of the websocket library (section 2, `Tunnel`), except that a ping
  without a pong ends the connection (`TunnelClient`).
* Page rendering, logging, the codecs of `internal/compress`, JSON encoding, hashing
  and random generation (abstract values), and `_legacy`.
