# Backhaul: a verification project

Backhaul is a reverse tunnel in Go. A *server* listens on public ports; a
*client* behind a NAT dials the server, authenticates with a token and keeps
one or more connections open. When a user connects to a public port (a
*request*), the server obtains a connection to the client, tells the client
which target to dial, and relays bytes between the user and the target.

This directory holds TLA+ modules of that program, the TLC configurations that
check them on small instances, and theorems that TLAPS proves for every value of
the constants. `PROJECT.json` lists components, runs, theorems, mutants (a
plausible bug for each property, which the run must find), hazards, and for
each definition the lines of the source it models.

## Inventory

| Component | Source | State it keeps | Operations |
|---|---|---|---|
| Original TCP protocol | `internal/tunnel/original_protocol.go` | server: installed control channel, `handshakeMu`, `workers` channel; client: control connection, worker goroutines | accept and classify, handshake, monitor, acquire a worker, dial workers, shutdown |
| Mux session and stream | `runner.go:2043-2295` | stream table, next id, accept channel, per stream read channel and close flags | open, accept, frames in and out, close |
| Mux holder, mux loops | `runner.go:177-242, 524-602, 1980-2041` | list of sessions, round-robin index | add, remove, choose, redial |
| Worker-pool transports | `runner.go:107-175, 465-522` | pool of authenticated connections | offer, acquire with retry, worker loop |
| Authentication | `runner.go:1076-1095` | none | AUTH line and role |
| Relay | `runner.go:1387-1401` | two copying goroutines | copy, end, read deadline |
| Public TCP listener | `runner.go:1282-1312` | one goroutine per public connection | accept, acquire, bridge |
| Public UDP listener | `runner.go:1314-1465` | associations by source address | receive, acquire, relay, remove |
| UDP control listener | `runner.go:1112-1280` | connections by peer address, accept channel | receive, accept, close |
| Port mappings, addresses, boot | `mapping.go`, `original_protocol.go:67-106`, `runner.go:86-105` | none | parse, expand ranges, normalise, start listeners |
| WebSocket framing | `runner.go:1687-1848` | read buffer | frame in, frame out, ping/pong |
| Slipstream | `runner.go:1850-1978` | key stream offsets | wrap, read, write |
| Transport selection and dialling | `runner.go:604-1074, 1483-1540` | none | dial, upgrade |
| Configuration, start-up | `cfg/config.go`, `app/app.go`, `cmd/backhaul/main.go` | none | load, choose mode, build options |
| Installers | `installer/backhaul.sh`, `install.sh` | files and systemd units | prompts, download, install |

How they interact: `app.Run` loads the configuration and calls `RunServer` or
`RunClient`, which chooses one of three families by transport: original TCP,
worker pool, mux. Each family's server starts a control listener and, per
mapping, a public TCP listener (and with `accept_udp` a public UDP listener);
both get an `acquire` callback, the only interface between the public side and
a family. `acquire` returns a connection on which the target was already
written; the listener then runs the relay. The client side of each family
reads the target, dials it, and runs the same relay. Shared state is always
inside one process and guarded by a mutex, a channel or an atomic; the two
processes share only the connections.

What is hard in each, and the properties that make it correct:

- **Original TCP.** Nothing on the wire tells a worker from a control
  connection, acceptance is concurrent, the control channel is replaced while
  requests still hold the old one, and either process restarts at any point.
  Correct means: a connection has one owner at any time; the server never
  forgets an open control channel; a welcomed client is the installed one; the
  target a worker reads is that of the request it serves; handshakes and
  requests end; the client gets connected again.
- **Mux session.** Two read loops, many writers, closes from both sides that
  cross. Correct means: per stream the bytes read are a prefix of the bytes
  written; a closed stream ends at both sides; no step fails at run time; the
  read loops do not wait for each other.
- **Mux holder.** Sessions close while being chosen, listed and removed. Correct
  means: an open session stays listed and gets its turn, a closed one leaves,
  requests settle, sessions come back.
- **Worker pool.** Pooled connections die unnoticed. Correct means: the same
  hand-off as in original TCP, and a request fails only at its deadline.
- **Relay.** Each direction must end the other, by a deadline, which ends a read
  but not a write. Correct means: both goroutines end when either side closes,
  as far as their writes return, and nothing that was sent is cut off.
- **UDP associations and UDP control listener.** State is keyed by address and
  removed asynchronously. Correct means: removal hits the right entry, and
  closing ends.
- **Mappings.** Pure parsing at the edges of port ranges.

The hazards in `PROJECT.json` give the line of each of these.

## Modules

| Module | Models |
|---|---|
| `OriginalTCP` | server, clients and connections of the default transport |
| `WorkerHandoff` | what a pool of workers promises to requests; `OriginalTCP` and `WorkerPool` implement it |
| `MuxSession` | both ends of a multiplexed connection and their streams |
| `WorkerPool` | server and client of the worker-pool transports |
| `MuxHolder` | the list of sessions of the mux transports, and the loops that dial them |
| `Mappings` | the parser of `[ports].mapping`, as operators |
| `PublicUDP` | boot of a server, the public UDP listener and its associations |
| `Relay` | `bridge` at both ends of a tunnel connection |
| `UDPControl` | the control listener of the UDP transports and its connections |
| `MCOriginalTCP`, `MCMuxSession`, `MCPublicUDP`, `MCRelay`, `MCUDPControl` | symmetry and constant definitions for TLC |
| `OriginalTCPProofs`, `MuxSessionProofs`, `WorkerPoolProofs`, `MuxHolderProofs`, `PublicUDPProofs`, `RelayProofs`, `UDPControlProofs` | TLAPS proofs about the module each is named after (`PublicUDPProofs` also about `Mappings`) |
| `SetInduction` | induction over the naturals in a form the provers can use |

`acquire`, the interface between a public listener and a transport, is where the
modules meet: `OriginalTCP`, `WorkerPool` and `MuxHolder` say how a connection is
acquired, and have its use as one action (`BridgeEnd`, `SendTarget`); `Relay`
and `PublicUDP` say what happens on one that was, and have the acquiring as an
action that succeeds or fails. `PublicUDP` extends `Mappings` and starts from
what it parses.

### OriginalTCP

One variable per piece of state: `control`, `mutex` (`handshakeMu`) and
`workers` are the fields of `originalServerState`; `up` is the server's
context. Goroutines are program counters: `srv[c]` for `handleAccepted` on
connection `c` (and afterwards, who owns the connection), `mon[c]` for
`monitorControl`, `req[r]` for `acquireWorker` and the bridge of a request,
`cli[k]` for the main goroutine of a client and `dials[k]` for its worker
goroutines that have not dialled yet, `cl[c]` for the client side of a
connection. `c2s` and `s2c` are the bytes in flight.

Atomicity follows the code: an action ends where the goroutine releases a lock,
communicates, or reads shared state it will use later. So `acquireWorker` is
four steps (`SeeControl`, `SendChannel`, `TakeWorker`, `SendTarget`) because the
control channel it looked up may be cleared before it writes; `handleAccepted`
is the first look-up, the lock with the second look-up, the read of the Hello
with the reply, `setControl`, and the offer to the pool.

TCP is modelled by its contract: a FIFO per direction; closing an end discards
what that end has not read; a write to a peer that has closed may succeed or
fail. A connection slot is dialled again when both ends are closed and no
goroutine refers to it, which is how long behaviours fit in few slots.

There is no clock. A timer whose event can no longer come may fire at any
time: the handshake deadline of a connection that never says Hello, the
client's deadline for a Hello that was pooled as a worker or waits behind such a
connection, the request's own 12 seconds. A timer that fires although the
event is under way costs a *fault*, as do crashes, restarts of a running
server, failed dials and server shutdowns; `MaxFaults` bounds them.

The wire form of targets and tokens is abstracted to the request and client they
belong to, and TCP and UDP requests, which differ in one signal byte, are one
action. Bounds are named constants: `MaxFaults`, `MaxPings` (unanswered
heartbeats in flight) and `MaxBacklog` (workers asked for but not dialled when
a new request arrives).

### MuxSession

One connection between a server, which opens streams, and a client, which
accepts them, from the dial to the end of both `simpleMuxSession`s. `sess` is
`closed` and `done`, with the state between `Close` setting the flag and
sweeping the streams; `table` is `streams`, `opened` is `nextID`; per half (one
end of one stream) `readCh`, `shut` (it is closed), `buf` and `eof` (what
`ingestLoop` has handed to `Read`), and `closing` (how far `Close` is).

Goroutines are again program counters: `loop[e]` is the read loop of an end,
`use`, `writing` and `closing` the users of a half. A step ends where another
goroutine can see a difference. `handleFrame` is therefore several steps:
`ReadFrame` looks a stream up and releases `streamsMu`; `PushData`,
`PushOverflows` or `PushPanics` send on its `readCh` later, and `Close` of the
stream (`CloseStream`, `CloseRemove`, `CloseTell`) may come in between. A frame
is written whole under `writeMu`, so `writeFrame` is one step that waits while
the connection is full (`NetCap`). Chunks are numbered by the half that writes
them; `sent` and `fin` record what the other half should read. The panic of
`PushPanics` ends the process, and with it the session (`"panicked"`).

The connection is a reliable stream: a closed end is noticed by the other. The
UDP transports, which lose and do not notice, are outside this module.

### WorkerPool

`workers` is `workerPool`; `srv[c]` follows the handler of a connection and then
its owner; `req[r]` is `acquire` and the bridge of a request; `loop[w]` is
`runWorkerLoop`, `running` the client's context, `cl[c]` the client's end of a
connection, `s2c[c]` the target in flight and `tgt[c]` the one its worker relays
to. A loop in `Admitted` sends the right token and role, any other is some peer
that does not. `WaitEnds` is the end of the wait for a target, by the read
deadline or because the server closed; the server learns of it only when a write
fails (`TargetFails`), and a write may also succeed and vanish (`SendTarget`).
`RelayEnds` includes the expiry of that same deadline, which is never cleared
(`runner.go:493`), and which ends a relay that reads; a relay that waits in a write
(`WriteWaits`) ends only if the write does. Token and role are read in one step. There
is no clock, so these may happen at any time, without
costing a fault; crashes, restarts and cancellation cost one each.

### MuxHolder

`sessions` and `next` are the fields of `simpleMuxHolder`; each of `Add`,
`Remove` and `nextSession` is one critical section and one step. `srv[c]`
follows the handler of `runMuxServer` from the token to the watcher of `Done`,
`closed[c]` is `IsClosed` of the server's session, `req[r]` is a request in
`OpenStream` of the holder, `loop[w]` is `runMuxSessionLoop`. The session is
chosen in one step and used in another (`PickSession`, `OpenStream`), so that it
may close in between; `OpenStream` may also succeed on a session whose peer is
gone. `turns` is a history variable: how often other sessions were chosen since
this one. `full` are the connections that take no writes: a request that opens a
stream or sends its target there waits, for `writeMu` or in `conn.Write`, whatever
its context says, until the connection drains or the session closes (`ConnFills`,
`ConnDrains`, `Written`). A read loop may notice that its peer is gone
(`ReadLoopEnds`, `SessionLost`), but nothing in the steps says that it will: that
is the formula `LossTold`, true of the stream transports and not of `kcpmux`,
`udpmux` and `dnsmux`. Streams themselves are the business of `MuxSession`. The loop
of `Remove` is `Filter`, a recursive function over the indices of the list.

### Mappings

Strings are sequences of tokens, since only the separators decide which of the
four forms an entry has; a parser returns the empty set for an error. The
branches of `MappingsOf` are those of the loop in `ParseMappings`, in their
order, with an operator for each form. `Sensible` says which entries can be meant
and written at all (numbers that have digits, a host only with a port and without
`=`), `SetupsAssumption` of `PublicUDP` that the configurations have those. `Meant` and `Sound` are the reference: what the author of an entry asks
for, given as numbers, and `Written` is how that is written down (a range with
its target after a colon, a single port after `=`).

### PublicUDP

`boot` is the thread of `RunServer`: it starts the listeners of mapping after
mapping, waits, and returns, which ends the process. With `accept_udp`,
`startPublicUDPListener` does not return before its socket fails, so the same
thread is the receive loop of the first mapping (`"receive"`, `"acquire"`,
`"write"`). `control` is the goroutine of `acceptControl`. `assocs` is the map by
source address, `reader[b]` the goroutine of the association with backend `b`
(`"delete"`: it has closed the backend and has still to take the lock), `key[b]`
the address it was started with, `far[b]` `handleUDPClientRelay` at the other
end, `fwd` and `back` the frames between them. Datagrams are told apart by their
source, which is what the associations are about; `answered` records whose answers
a source was sent.

### Relay

Chunks are counted where they are: with the bridge of the party that sent them
(`rx`), in a copy, on the tunnel (`tun`, at most `TunCap`), with the other party
(`got`). `copy[e]` says of the two goroutines of `bridge` at an end whether they
are in `Read`, in `Write`, or over. `io.Copy` reads and then writes, so a copy whose
write waits, because the tunnel is full or has `stalled`, or because the party's
connection has no `room`, reads nothing meanwhile, and the read deadline the other
copy sets does not reach it. What matters of a transport is its `Kind`: at which ends
`SetReadDeadline` ends a pending read, whether an end learns that the other has
closed, whether data can be lost (then writes never wait), and whether the worker's
deadline for a target is still on the connection. `MCRelay` has the five kinds the
transports come to. Where a tunnel has stalled, a write to it that in the code fails
by then may here wait as well; the properties claim nothing of it. Chunks are
bounded, so a relay that is busy beyond the deadline is not among the behaviours.

### UDPControl

`conns` and `acceptC` are the fields of `udpControlListener`, `loop` its
`readLoop`, `closer` its `Close`, `acceptor` the loop of `acceptControl`. Per
connection, `incoming` is its channel, `once` how far its `closeLocal` is
(`closeW` admits one caller, who sets `closed`, then takes `l.mu` to remove the
entry, then lets the others go on), and `stage` whether it is free, in `acceptC`, or
with a holder. `l.mu` is held over more than one step in one place only: `Close` of
the listener calls `closeLocal` for the connections it finds, and that needs the
lock (`"stuck"`); otherwise a critical section is one step. The select
statements of `push` and `Read` take any case that is ready. Datagrams are
numbered per address as the loop reads them, since the network may lose, double or
swap them only before; `got` records what was read. A slot is used again when
nobody refers to the connection. `Write` changes nothing here; that a connection
knows no deadline and does not learn of a close is the kind `Datagram` of `Relay`.

## Runs

| Run | Question | Instance |
|---|---|---|
| `original_tcp` | Can ownership of a connection be confused, can the control channel be forgotten, can a target reach the wrong relay? Is the workers channel a hand-off? | 1 client, 4 slots, 2 requests, pool 1, channel 2, 1 fault |
| `original_tcp_clients` | Can a client without the token, or a worker, become the control channel? Are workers lost while nothing fails? | 2 clients, 1 authorised, 4 slots, pool 1, channel 3, 1 request, heartbeats, 1 fault |
| `original_tcp_live` | Do requests and handshakes end, is a dead channel dropped, does the client come back? | 3 slots, 1 request, 1 fault, fairness |
| `original_tcp_stale` | Is a target only ever written to a worker connection? (No.) | expects the violation |
| `mux_session` | Is a stream read in order and completely, do both tables agree? | 2 streams of 3 and 1 chunks, every buffer of one, the server writes |
| `mux_session_live` | Does a close, and the end of a session, reach everyone? | 1 stream written from both ends, both contexts cancellable, fairness |
| `mux_session_panic` | Do the processes survive their streams? (No.) | expects the violation |
| `worker_pool` | Is the pool a hand-off although its workers die unnoticed? Are connections lost? Do requests and a cancelled client come to an end, do workers get their turn? | 3 slots, 1 admitted and 1 refused loop, 2 requests, pool 1, 1 fault, fairness |
| `mux_holder` | Is an open session ever forgotten, a closed one kept, or one passed over? Do requests settle and sessions come back? | 3 slots, 2 admitted loops and 1 refused, 1 request, 1 fault, connections that fill, fairness |
| `public_udp` | Do entries mean what they say? Does the server come up? Are backends leaked or mixed up between sources? | 80 entries alone and before another; 2 sources, 2 backends, 2 datagrams each, fairness |
| `relay` | What is cut off when one direction ends the other? Does a relay end? | 5 kinds of tunnels that hold 1 chunk each way, 2 chunks from the target and 1 from the user, fairness |
| `udp_control` | Does an entry stay with its connection? Can a reader miss a datagram? Does one connection hold up the loop? Does the listener stop? | 2 addresses, 3 slots, both channels of one, 3 and 1 datagrams, fairness |

Why the bounds suffice for the questions. Four slots hold a control channel, its
successor and two workers, so that the old and the new session overlap; one
fault is a crash, restart or timeout anywhere; slots are recycled, so a
behaviour is not limited to four connections. A channel of two workers with two
requests gets full, is drained out of order and turns workers away. In
`original_tcp_clients` the channel has room for every connection that can be
offered, also for a Hello that is pooled in place of a worker, so a worker that is
missing there was lost otherwise; a request may time out while its worker is still to
be dialled, and the next one comes. `Spec` never stops: the server and the client are always restarted, so deadlock is
checked everywhere. Symmetry permutes connections and requests and is used only
where no liveness is checked.

In `mux_session` three chunks against a `readCh` of one overflow it, two streams
against an `acceptCh` of one get a stream refused, and a connection of one frame
makes writers wait; two streams are enough for one to disturb another, since a
stream's state is touched only by frames with its id. The ends of a session stay
ended (dialling again belongs to the holder, which is not in this module), so
`CHECK_DEADLOCK FALSE` there. `worker_pool` has a loop that dials again and
again, so that up to three of its connections, dead ones included, are pooled,
offered and held at once; deadlock is checked.

In `mux_holder` three sessions can be listed, closed ones among them, so that the
index has to be corrected from every position, and a request can fail on one
session while another is added and while watchers remove theirs; with two
requests, two loops and two slots the verdicts are the same. One fault is a
crash, restart, broken connection or cancellation; connections fill and drain
freely, since that costs no fault. `public_udp` combines bounds 0, 1, 65534, 65535 and
65536, ranges in the wrong order, three kinds of hosts (one with a dash) and
ports in and out of range; two backends for two sources are all in use, being
removed, or waited for, and a source sends again after its association died. In
`relay` the end that sends two chunks has one in a write that waits for the tunnel and
one on it, or one still unread when an end stops, and the other direction can block at
the same time; with the numbers exchanged the verdicts are the same.
In `udp_control` the three datagrams of one address are enough to open a
connection, overflow its channel and open the next while a holder still closes
the first; the other address fills `acceptC`, and a third slot lets either go on.
Servers return, relays end and datagrams are bounded, so these three have
`CHECK_DEADLOCK FALSE`; `mux_holder` checks deadlock.

What the runs taught beyond the verdicts:

- `original_tcp_stale`: a client that is restarted before `monitorControl`
  has noticed its loss has its Hello pooled as a worker
  (`original_protocol.go:188`). It gets out only by its own deadline, or when a
  request writes a target on it; that request's user is then cut off.
  `RECOVERY_REPORT.md:45` says the target frame goes to a worker connection.
- A full pool turns a worker away even if a request is between `Channel` and
  receiving, so with more waiting requests than pool capacity some wait in
  vain. Room for what is owed is not enough either: of two clients that connect, the
  second has its Hello pooled as a worker, which answers no request but takes a
  place, and with five connections, a pool of two, one request and a pool size of one
  TLC finds that worker after worker is turned away. `WorkerOnTheWay` therefore
  assumes `PoolSuffices`: the pool has room for every connection but the control
  channel (the instance of `original_tcp_clients`), or there is one client only and
  room for what is owed.
- `mux_session_panic`: `pushData` sends on a `readCh` that `Close` has closed
  since the stream was looked up (`runner.go:2147`, `2235`, `2283`). A user who
  hangs up while data arrives can end the whole process;
  `transports_e2e_test.go:131` requires that neither side stops.
- Once `localClosed` is set and before the stream is removed, a full `readCh`
  drops a chunk and the next may be delivered; that is why `InOrder` speaks of
  streams that nobody closes.
- With overflow, a read loop calls `Close` itself and blocks in `writeFrame`; if
  both loops do, with both directions full, neither reads again and both
  sessions hang until a context is cancelled. The liveness properties are
  therefore checked, and claimed, without overflow.
- A stream that `handleFrame` registers after `Close` has swept the table is
  never ended: its `ingestLoop` stays, and whoever reads it waits for ever. `StreamsEnd` excludes it.
- In worker mode an idle worker dies at its deadline and stays in the pool;
  later requests meet the dead ones first. A relay ends at that deadline even in
  the middle of traffic. And only because of it does a cancelled client stop:
  loops waiting for a target do not look at the context.
- A read deadline does not end a write. A copy of `bridge` whose party does not read,
  or whose KCP peer is gone, stays in `Write` (`runner.go:1392`, `1397`), and `bridge`
  with it; in worker mode `wg.Wait` of a cancelled client then waits for its
  loop (`runner.go:475`). `RelayEnds` and `ClientStops` are claimed of writes that
  return, and without that premise TLC refutes both.
- A mux request opens its stream and sends its target under `writeMu`, by a write
  that has no deadline (`runner.go:2105`, `2166`, `211`). On a connection that takes no
  more, the request stays beyond its 12 seconds, and so does every other one
  that comes to this session in its turn. `RequestSettles` of `MuxHolder` has this
  one exception.
- Over `kcpmux`, `udpmux` and `dnsmux` nothing ends the read of `runner.go:2115` when
  the peer is gone: the dead session stays in the list and takes its share of the requests,
  and a client whose server was restarted waits in `Accept` and does not dial.
  `SessionsReturn` is therefore claimed under `LossTold`; without it TLC finds the
  client that never comes back.
- `bridge` relies on `SetReadDeadline` to end its second direction, but mux
  streams, gRPC and UDP control connections implement it as doing nothing
  (`runner.go:2294`, `1069`, `1275`). `RelayEnds` is therefore claimed of ends
  whose deadlines work: over a mux session, when the user has hung up, the
  server's bridge waits for the client's and the client's, whose target has
  nothing more to say, for the server's, until the session ends. And a user
  whose target has closed is not told before the user closes, too.
- Where deadlines work they cut: a user who shuts only the sending side (as
  many request/answer protocols do) loses what has not arrived by the time the
  copy towards the target is over. `NothingCutOff` lists this exception and the
  others; that there are no more is proved.
- With `accept_udp` only the first mapping gets listeners: the thread stays in
  its receive loop and reads `errCh` no more, so a control port that cannot be
  bound goes unnoticed, too. `installer/backhaul.sh:378` offers ranges
  (`443-600`) without a word about this. `ServerComesUp` is claimed without
  `accept_udp`.
- While the UDP loop acquires a backend for one source, up to 12 seconds, the
  datagrams of all others wait in the socket. An association has no idle
  limit: it lasts until its backend fails.
- `Close` of the UDP control listener holds `l.mu` while `closeLocal` takes it again
  in `remove` (`runner.go:1195`, `1206`): with a connection registered it never
  returns, and the read loop waits for the lock, too. Both `acceptControl`'s goroutine
  on `ctx.Done` and its deferred call come there; the process survives it
  only because nobody waits for them. `StopsWhenIdle` says that without a
  connection everything stops, `LoopServes` has the exception.
- While a connection is being closed its entry still stands, and datagrams of a peer
  that starts anew at the same address go to it and are lost
  (`runner.go:1173`). A peer dialled again from another port is not affected.
- A range with `=` keeps only the port of its target: `100-110=10.0.0.1:80` goes
  to `127.0.0.1:80`. The form with a colon keeps the host, and is the one
  `Written` uses.

### Fairness

`FairSpec` adds weak fairness for each goroutine that can run and for each timer
whose event will not come: the Go scheduler runs every runnable goroutine and
timers fire. `LockHandshake` gets strong fairness, since `sync.Mutex` hands the
lock to a starved waiter. Nothing is assumed of faults, arrivals, heartbeat
ticks or the end of a healthy relay. The client dials again because its loop
does (`original_protocol.go:389-413`) and, when the process exits, because the
unit has `Restart=always` (`installer/backhaul.sh:609`). Liveness is claimed
after the last fault, which `MaxFaults` guarantees to exist.

In `MuxSession` every goroutine that can run does; nobody has to open, write,
close or cancel. In `WorkerPool`, besides goroutines, the read deadline of a
worker expires (with gRPC, which has none, it is the cancelled context that ends
the stream); a relay of the client is owed its end only while it reads
(`WF(loop[w].pc = "serve" /\ RelayEnds(w))`), a write that waits is owed nothing.
`RequestTimeout` has strong fairness: the request's context
stays done and `select` chooses among ready cases at random, so a request does
not for ever take dead workers instead. `Enqueue` has it because goroutines that
wait to send on a full channel are served in the order they came; `WorkersGetTurns`
further assumes that requests keep taking workers, which nobody owes. The server's
relays and its writes to dead workers owe nothing.

`MuxHolder` has the same strong fairness for the timeout of a request. The writes
of a request have strong fairness for as long as the connection takes them
(`Takes`): a mutex is handed to the one that has waited for it, so a
connection that drains again and again serves everybody; one that stays full is
owed nothing. That an end notices the loss of the other is no part of
`Fairness` but the premise of `SessionsReturn`. A client that is cancelled need not be
started again, so `SessionsReturn` is about behaviours in which it eventually runs
for good. In `PublicUDP` the acquire
deadline passes, a far end reads what it is sent and sees its connection closed;
it need not answer, the sources need not send, and a control listener that is up
need not fail. In `Relay` the two copies of an end are goroutines, and a
write that waits is not enabled, so nothing is assumed of it. Parties may keep silent
and connected for ever, and then the relay stays; `RelayEnds` assumes that they read
what they are given or go away, and excuses an end whose tunnel takes nothing
(`Unheard`, `stalled`). In `UDPControl` the
goroutines of the listener run, and whoever has begun to close a connection goes on
as soon as it gets the lock; nobody has to send, read, or close.

## Proofs

`OriginalTCPProofs` proves, for any finite sets of connections, requests and clients
(only the last theorem, which counts, needs them finite), any pool size, capacity
and number of faults:

- `TypeCorrect`: `Spec => []TypeOK`, which includes the bound on the pool;
- `WorkersHeldOnce`, `ControlsTracked`, `WelcomesKept`: the safety invariants
  `WorkerHeldOnce`, `ControlTracked`, `WelcomeIsKept` of the `original_tcp` run;
- `ControlsAuthentic`: the invariant `ControlIsAuthentic`;
- `TargetsOfHolders`: the invariant `TargetOfHolder`;
- `Refinement`: the module implements `WorkerHandoff`;
- `WorkersOnTheWay`: the invariant `WorkerOnTheWay`.

None of these invariants is inductive. `WorkerHeldOnce` speaks of pool and
requests, but what keeps a connection from entering the pool twice is that only
its handshake offers it, and that the handshake is over once it is pooled. The
strengthening `Owned` therefore ties every owner to `srv`: `PoolInv` (what is
in the channel is `"queued"`, once), `HeldInv` (what a request holds was
taken from the pool and is not shared), `ControlInv` (an open control channel
is the installed one and has a monitor) and `HandshakeInv` (whoever is between
the lock and `setControl` holds `handshakeMu`, and no control channel is
installed meanwhile). `IInv == TypeOK /\ Owned` is proved inductive with one
lemma per group of actions (`OwnedHandshake`, `OwnedMonitor`, ...); the three
theorems of the second item follow from it. The assumptions used are those stated in
`OriginalTCP` about its constants.

`ControlsAuthentic` needs one more layer, `AuthInv`: a Hello is found only in the
bytes of a connection that was dialled as a control connection, and only such a
connection with the right token is ever answered. The proof is by what a step
does to those bytes (`NoNewHello`), not action by action.

`TargetsOfHolders` rests on `TargetInv`: while the server's end of a connection is
open, every target frame on it that the client has not read, and the target the
client serves, belong to the request bridged to it. Two ends close independently,
so the delicate step is the dial that uses a slot again: a closed client end has
discarded its frames, which is the other part of `TargetInv`. After the server has
closed, nothing is claimed of what the worker still serves.

`Refinement` maps `workers` to the pool and the connection of each request in
`"target"` or `"bridge"` to `held`. An `Enqueue` is an offer because `PoolInv`
and `HeldInv` say that a connection in `"offer"` is neither pooled nor held;
taking, failing and ending match and release; a server restart resets; everything
else stutters.

`WorkersOnTheWay` counts: `Provided` says that requests that wait, and `PoolSize` for a
client that runs, are no more than Channel frames in flight, goroutines that dial and
workers on their way or pooled together. Each step moves one from one set to the
next: `SendChannel` adds a request and its frame, a client that reads the
frame dials, a dial is a worker coming, `TakeWorker` removes one of both. A step
that loses one would break it, and what rules those out is `Calm`, which holds
until the first fault: the installed channel is a live connection and the only one anybody
holds, a client runs only when it was welcomed, so that no two run at once
(`OneRuns`), frames are found only where they make sense, and no worker is read as a
handshake, because it was dialled after one was installed. The last is why workers
that are dialled before `setControl` are not lost. The sets counted are finite
although pairs of a client and a number are not: `Calm` says there is one running client and
one channel. `FiniteAssumption` says that connections, requests and clients are finite sets.

`WorkerPoolProofs` proves the same refinement for `WorkerPool`, and all its
safety invariants: `TypeCorrect`, `TargetsOfHolders` and `NothingLeaked`. The inductive invariant has a part for the server's ends
(`PoolInv`: `"queued"` means in the channel once; `HeldInv`: `"taken"` means held by
one request), one for the client's (`LoopInv`: an open end has its loop), and one
that ties the two (`TargetInv`: a target in flight or relayed on a taken connection
is its holder's, and a connection that is not taken carries none). Without the
last, `TargetOfHolder` cannot be inductive: the loop reads what a request wrote
several steps earlier. The assumptions are those of `PoolAssumption`.

`PublicUDPProofs` proves `TypeCorrect` and `BackendsSafe` (`BackendsAccounted`) of
`PublicUDP`, for every configuration. A goroutine removes its entry by the
address alone, so the property rests on what it does not say: while a
goroutine exists, also between the close of its backend and the removal, the
entry of its address is its own (`Owned`), for the loop acquires a backend only
when it found no entry and nobody else adds one (`Phase`), and a connection
carries nothing but the datagrams of that address (`Carried`). The assumptions
are those of `PublicAssumption`.

Its `ParsedAsMeant` is `MappingsAsMeant` for every range of ports, every host and any
number of entries, where the run has a handful of each. Boot is short: configuration
and mappings stay as `Init` sets them, and a server that has returned does not come back
(`BootStays`). The substance is that the parser inverts `Written`. `Cut` and
`CutLast` say what stands on either side of the first and of the last separator of a
text, and each form of an entry then has a lemma of its own (`PortAloneAsMeant`,
`RangeToTargetAsMeant` and so on) which shows that its separators are where the parser looks for
them, whatever dashes and colons the host has, and that the bounds the parser
tests are those of `Sound`. It assumes `ValueAssumption` (digits are no
separators and denote naturals) and `SetupsAssumption`.

`MuxHolderProofs` proves `TypeCorrect`, `ListComplete` (`NoneForgotten`) and `TurnsTaken`
(`RoundRobin`) of `MuxHolder` for any number of connections, requests, loops and
faults. `ListInv` says the list has each session once and no session whose watcher is
over, and every open one that was listed: `Remove`, called by a request about
another session, drops what has closed in passing, so the proof is that only closed
ones go. `TurnInv` gives the reason of `RoundRobin`: how often an open session was passed
over (`turns`), and how many places `nextSession` still looks at before it (`Ahead`),
are together less than the length of the list. Choosing a session moves the index on,
so that what `turns` gains `Ahead` loses, also when closed ones are skipped and
the index wraps. What `Filter` keeps is proved by induction over its index
(`FilterLoop`, `FilterProperties`). The induction theorems of the library take a predicate;
`SetInduction` states induction for a set, from the least element of a set of
naturals, which the library's theorem on finite sets ordered by inclusion gives. The
assumptions are those of `HolderAssumption`.

`RelayProofs` proves `TypeCorrect` and `NothingLost` (`NothingCutOff`) of `Relay`
for every set of kinds, any capacity of the tunnel and any number of chunks. The
inductive invariant counts: what a party has sent is unread, in a copy (`Held`), on the
tunnel, given or gone (`Bounded`), and, unless one of the exceptions has occurred, none of it is gone while the
receiver is there (`Conserved`). And it gives the reason for which each copy is
over (`OutOver`, `InOver`), because a copy that was ended by a deadline says
nothing itself: its excuse is that of the other copy. The case that matters is
the end that closes second (`CloseSettled`): the first one was not closed by it,
so its own party had left.

`UDPControlProofs` proves `TypeCorrect`, `EntriesAgree` (`Registered`) and `NoGaps`
(`GapFree`) of `UDPControl`, for every number of addresses, connections and
datagrams and every capacity. Removal knows only the address, so the invariant
(`Listed`) keeps every connection that is not yet removed, also one that is being
closed, as the entry of its address: the loop makes another only when there is no
entry, and only the one who closes a connection takes its entry out. For `GapFree`
the datagrams read and those in the channel count up to the last one of the address
(`Run`), or to the one before while the loop has that in hand. What needs the entries
again is that the loop, when it drops a datagram, leaves no open connection
of that address behind (`OnlyOne`). The assumptions are those of
`CapacityAssumption`.

`MuxSessionProofs` proves `TypeCorrect`, `ChunksInOrder` (`InOrder`), `TablesEqual`
(`TablesAgree`) and `EndsComplete` (`NothingLost`) of `MuxSession`, for any number of streams and chunks and any capacity of the
connection, `readCh` and `acceptCh`. `InOrder` looks at the end of the way only; the
invariant follows a chunk along it (`FlowOf`). What is in `buf`, then `readCh`,
then the hands of the read loop is 1, 2, 3 and so on; the chunks on the
connection come behind them, ascending, and behind the OPEN frame of the stream;
and as long as the stream is registered, or due to be (`Due`: the loop is about to,
or its OPEN frame is on the way), none is missing between the two. The last part is
what makes the head of the connection the *next* chunk. It can end, when `CLOSE` or a
`Close` takes the stream out of the table, but it never begins anew: a dropped
chunk is no longer due to be registered, for OPEN would have been ahead of it. A
stream that is registered must therefore have nothing written on it yet, which is
the other half of the invariant (`HeldInv`: only the holder of a half writes, and
the client hears of a stream only when the server has announced it). What a step does
to a flow is proved once for values (`FlowSent`, `FlowRead`, `FlowPushed`, ...) and then
used for the actions. The assumptions are those of `BoundsAssumption`.

`TablesAgree` speaks of quiet sessions only, where nothing can be in progress, and is far
from inductive. `StageInv` says for each stream what may be in progress: nobody knows of it
before the server has announced it, its OPEN frame is the first on the connection and the
only one, and for each end (`EndStage`), an end that has removed the stream does not
get it again, an end that does not have it either removed it or its far end has
closed, and as long as the far end has closed and this one still has it, or is due
to, the CLOSE frame is on its way. When nothing is on its way, that leaves both or
none.

`NothingLost` needs the place of the CLOSE frame. `FinInv` says that it stands behind
every chunk written before `Close` and ahead of any a goroutine still writes (`Marked`,
over the connection, the hands of the read loop, `readCh` and `buf`), so that the
chunks received when it is read are exactly those (`Complete`), and that an end
sees EOF only with `readCh` empty. A `readCh` that was closed for any other reason, such as
an overflow or the end of the session, belongs to a stream closed on this side or to
a session that is over, of which the property says nothing.

The types of `WorkerPool`, `PublicUDP`, `Relay` and `UDPControl` are proved and no
longer checked by a run.

Every safety property that a passing run checks is thus also a theorem. Only model-checked are
the liveness properties: liveness under fairness and `ENABLED` are beyond the prover.

## Plan

Modelled, in this order: `OriginalTCP` with `WorkerHandoff`, `MuxSession`,
`WorkerPool`, `MuxHolder`, `PublicUDP` with `Mappings`, `Relay`, `UDPControl`. Proved: all
safety properties of all of them. What remains, most useful first:

1. The facts the liveness properties rest on, as theorems where they are safety: that
   some step is always left to whoever waits.
2. `readFrame` over `UDPControl`, whose datagrams may be lost between a header and its
   payload.

## Not modelled

- **Frames in datagrams.** Over the UDP transports header and payload of a frame are
  datagrams of their own (`runner.go:2172`), and a lost one shifts the framing of
  everything after it. `UDPControl` says which datagrams a reader gets; what
  `readFrame` makes of them would need frames as bytes.
- **The Slipstream handshake in the accept loop** (`runner.go:374`): a connection that
  says nothing holds up the others until its deadline of 8 seconds.
- **Dialling and handshakes** of TLS, HTTP, gRPC, KCP: library code around
  straight-line setup, without state of its own.
- **WebSocket framing and Slipstream**: codecs over one connection, each direction
  behind its own mutex; what could go wrong there is arithmetic on bytes, which
  unit tests reach. The cipher is not modelled.
- **`normalizeOriginalTarget`, `originalWireTarget`**: the short form of a target on
  the wire; targets are model values here.
- **Configuration and start-up**: a parser of lines and defaults for missing
  values. What start-up does with mappings and signals is in `PublicUDP`.
- **Installers**: prompts, downloads and unit files. That units have
  `Restart=always` is what the restarts of the models rely on.
- **Logging and socket options** (keep-alive, no-delay).

`PROJECT.json` lists each with its reason, and the hazards no property covers with
a note.
