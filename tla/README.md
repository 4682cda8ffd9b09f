# A verification model of the tunnel relay, its agents and their viewers

`tnls` lets an agent on one machine hand a viewer a short-lived link through
which the viewer can call a few named tools of a local MCP server. A relay in
the middle pairs the two sides of a tunnel and forwards their messages without
reading them. This directory holds TLA+ modules of the parts that keep state or
run concurrently, the TLC configurations that check them, and TLAPS proofs of
the central ones. `PROJECT.json` is the index: runs, properties, mutants, and for
every definition the source lines it translates.

## 1. Inventory

| Component | Source | State it keeps | Operations |
|---|---|---|---|
| Relay pairing | `relay/src/pairing.rs` | per socket: a reader loop, a writer task, an unbounded channel, a `DeregisterGuard` | `run_side`, the guard's drop |
| Local backplane | `relay/src/backplane.rs` 10-122 | one mutex over `id -> Slot{agent, viewer}` | `register`, `forward`, `deregister` |
| Redis backplane | `relay/src/backplane.rs` 124-365 | presence keys in Redis; per process the local slots and the dispatch table | `register`, `forward`, `deregister`, subscriber task, heartbeat task |
| Agent session | `tnls-tunnel/src/session.rs`, `mcp.rs` | secret and expiry, verified claims, counts, outbound channel, `Notify`, child | `open` with its timer, signal and bridge tasks; `handle_frame`; teardown |
| Token and scope | `tnls-core/src` | none | `mint`, `verify`, `allows`, `filter_tools`, `decide_call` |
| Pidfiles | `tnls-tunnel/src/pidfile.rs` | a file per tunnel and a shared `latest` | `write`, `remove`, `read`; `close` |
| Headless viewer | `plugins/rendezvous/src/get.rs` | none beyond its socket | `retrieve_magnet` |
| Browser viewer | `viewer/index.html` | pending calls, `dead` flag, countdown | socket callbacks |
| Desktop GUI | `rendezvous-gui/src/app.rs` | a state and a handle per pane, shared with a worker | start, stop, cancel, the frame loop, `App::drop` |
| Statistics | `relay/src/stats.rs`, `relay/src/lib.rs` | counters, a set of hashes and their salt, a file | `load`, increments, `flush`, `/report` |
| Share server | `plugins/rendezvous/src/share.rs`, `server.rs`, `bittorrent.rs` | a seeding process with a BitTorrent session | `run_share`, MCP tools |
| CLI host, plugin contract, demo plugin, relay routes, pages | `tnls`, `tnls-plugin`, `plugins/demo`, `relay/src/lib.rs`, `viewer/*.html` | none | parsing, lookup, routing, static answers |

**How they interact.** The CLI host or the GUI calls `session::open`. The
session spawns the MCP child, dials `/agent/<id>` on the relay, writes the
pidfiles and hands out a link. A viewer opens `/viewer/<id>`, says `Hello` with
the token, then lists and calls tools. Both sockets end up in `run_side`, which
talks to the backplane and through it to the peer's writer task. `tnls close`
reads a pidfile and sends SIGTERM; the GUI notifies a `Notify` instead. When a
session ends it reports two numbers to `/report`. A share of the GUI spawns the
seeding child, whose standard input is its host's pipe; a fetch resolves the link as
a viewer and then downloads, polling a flag.

**What is hard here.** Tasks of one socket race with those of its peer and with
its successor for the same role; a `Tx` cloned under the lock is used after it;
`deregister` is spawned, not awaited; with Redis every operation falls apart into
steps on three tables; the TTL timer, a signal, a hang-up and a tool call in
progress race in the session; its clock truncates to seconds; pidfiles are
shared by processes without a lock; the GUI's workers write what the window shows
while the user clicks on what it showed before; and the statistics file is rewritten
in place by a process that may die. Section `hazards` of `PROJECT.json` lists
each of these at its line, with the property that would notice it go wrong.

**What makes each part correct.**

* Relay: a role of an id is held by one socket at most; a slot is in the table
  exactly while a socket is registered; the capacity holds; a socket hears one
  peer only, in order and without a gap; one side leaving brings down the other.
* Redis relay: a role is claimed by one socket at a time on all processes together,
  frames come in the order they were sent although they take two ways, no residue in the
  tables, and roles of a dead process become free.
* Session: only authorised calls reach the child, each is answered exactly once,
  the report agrees with the answers, listing and refusing agree, every
  revocation ends the session once it has started, and teardown is complete.
* Pidfiles: a close by id works on every open session, and nothing is left.
* GUI: a pane is busy exactly while one worker is behind it, that worker can be told
  to end and then does, and nothing seeds on once its share is over.
* Statistics: nothing is counted twice, what was saved stays counted, and a relay
  that goes on saves all it has counted.

## 2. Plan

The order is that of the importance of what can go wrong.

1. `Pairing` (abstract contract) and `Relay` (detailed), with `RelayProofs` (table and
   order) and `RelayPromiseProofs` (the refinement).
2. `TnlsCore` and `Session`, with `SessionProofs`.
3. `RedisRelay`, with `RedisProofs`.
4. `Pidfile`, with `PidfileProofs`.
5. `Tunnel`: a headless viewer, the contract and a session. Who waits for whom when a
   viewer comes early, comes second, or leaves in the middle. With `TunnelProofs`.
6. `Gui`, with `GuiProofs`.
7. `Stats`, with `StatsProofs`.

All of these are written. Left, in this order:

8. The browser viewer's own rules (`dead`, `pending`, the countdown) in place of one of
   `Others` in `Tunnel`.
9. A heartbeat that comes late in `RedisRelay`, and a subscription that ends before its
   process.
10. That `Session`, seen from its socket, implements the session of `Tunnel`.

## 3. Modules and the code

### Pairing, the contract

Who holds a role, what each side has sent, the pipe towards each side, whether
it is sealed, what arrived. `Join` and `Refuse` are the two outcomes of
`register`; `Send` is `forward`; `Leave` is `deregister`, which seals the peer's
pipe in the same step. It knows no locks, tasks or channels.

### Relay, the local backplane under run_side

Sockets are the constants `Conns`, each with the id and role of the route it came
in by. A `Tx` is named by the socket whose channel it feeds. Each action is the
code between two points at which other tasks can run: `Register` and `Reject` are
the two ends of `register`'s critical section together with the code that follows
before the next await; `ReadFrame` takes a message and clones the peer's `Tx`
under the lock, `SendToPeer` uses the clone after the lock is released;
`ReaderEnd` ends the loop, aborts the writer and arms the spawned deregister;
`Deregister` is the whole critical section. `Cancel` is the guard's drop on any
other exit, which leaves the writer task detached. The writer task delivers
(`WriterDeliver`), fails on the socket (`WriterFails`), or sees Close or the last
sender gone (`WriterCloses`).

`Promise` maps this state to `Pairing`: a frame is in the peer's pipe from the
moment its `Tx` was cloned, and a pipe is sealed once Close is queued or the
writer is gone.

Left out: what a message says (a sequence number stands for it); `run_side` writes
every frame as Text, so binary messages are re-encoded, which matters to no
property here. Ping, pong and the size limit are absorbed: the first two change
nothing, an oversized message is a `ReaderEnd`.

### TnlsCore and Session

`TnlsCore` holds the pure rules. `Session` is `open`: five stages of startup, the
`select!` loop, three of teardown. `handle_frame` is split where it awaits: `OnCall`
decides and, if the call is forwarded, leaves it in `call`; `CallReturns` and
`CallFails` go on from there, and while `call` is set neither the stream nor the
`Notify` is looked at. The timer has two steps because the code sleeps 150 ms
between the announcement and the notification. `permit` is the stored permit of the
internal `Notify`. The wall clock advances in ticks, `TicksPerSec` to a second, and
`NowSecs` truncates as `now_secs` does.

The viewer is unconstrained: any frame at any time, any kind of token, a call of any
name (`Names`), also of one that the scope or the child lacks; a tool in scope that the
child lacks is forwarded and fails. The child is up, dead, or closed; when it dies the
session stays, as in the code (section 5). Frames are recorded in `emitted` when they enter the outbound
channel; what the socket has taken of them when the writer is aborted is not
modelled. `WindowCloses` is the GUI's `Drop`: it notifies and shuts the runtime
down, which drops the session's task at the next await it reaches (`AtAwait`
names the stages that have one).

### RedisRelay

The same sockets, on several processes that share Redis. `register` is four steps
(`CheckCapacity`, `SetPresence`, `PutLocal`, `PutDispatch`), `deregister` is four
(`DelPresence`, `DropDispatch`, `ClearLocal`, `NotifyPeer`), `forward` two. Every
publish may be lost, every `SET` may be executed without its answer arriving, every
`DEL` may fail. `Expire` is the TTL of a presence key that no running process
refreshes, `Crash` the death of a process with everything it held in memory.
Assumed: heartbeats are punctual, and a subscription lasts as long as its process.

The channel of a socket is there before `register` is called, so from `PutLocal` on a
peer on the same process can queue frames and Close in it (`writer` is `"waiting"`),
which the pump writes once `register` has returned. The future of `run_side` may be
dropped wherever it awaits. `Cancel` is that drop in the loop: the guard spawns the
deregister, and the writer task, detached, goes on. `CancelRegister` is the drop inside
`register`, before the guard is armed (`pairing.rs:66`): a key that was set is left to
lapse, and a slot that was put (`backplane.rs:298-302`) while the dispatch lock is awaited
(305) stays, with a channel nobody reads. Such a socket is `"stranded"`, and `NoResidue`
makes it the one exception: tables are empty once all sockets of a process are out,
except for the slots of stranded ones.

`OnlyEarlyOvertaken` is about the two ways of `forward`. A frame for which the sender
found no slot of its peer is published, and if the peer is registering on the same process
it comes back through Redis, while a later frame goes straight to the peer's channel. The
run has such overtaking. The history variable `early` notes, when a slot is put, what each
socket had sent by then; the property says that only frames of before are ever overtaken,
and only by frames of after, on one process, and that no frame comes twice.

`ExclusiveClaim` says that two sockets of a role are never both between their `SET` and
their `DEL`, on whatever processes, and makes one exception. `DropDispatch` removes the
dispatch entry of the role, also when a successor on the same process has just put its
own there; `evicted`, a history variable, notes the role. From then on the heartbeat does
not refresh the successor's key, and exclusion is lost in steps none of which a second
socket alone would show: the key lapses, a third socket claims the role; the evicted
one leaves and deletes the key of the third; a fourth claims it while the third is open.
That takes four sockets of one role, more than the run has. `CrashFreesRoles` makes the
same exception: after an eviction two processes may in turn have claimed a role, and the
heartbeat of the one that lives refreshes, by its name, the key that names the other.
That, too, takes a fourth socket (three on one process, one on another); on such an
instance the property fails without the exception and holds with it.

### Pidfile

Each file call is a step: `fs::write` is two (truncate, fill). `opened` are the
sessions that have the present `latest` open for writing, since a file removed
meanwhile is filled in vain. Each session is a process of its own, as under the CLI.

### Tunnel, end to end

`Tunnel` instantiates `Pairing` as its relay: what `Relay` is shown to implement is
here what the two ends rely on. A client writes to `said` and reads what the relay
put in `got`; `Admit`, `Forward`, `Carry` and `Depart` are the relay's steps for one
socket, and a socket is registered some time after its client sees the upgrade
accepted, so a first frame may come before or after a peer does. The session is
`Session` reduced to what its peer can see: `OnHello`, `OnCall`, `CallReturns`,
`Expire`, `Shut`; its claims, clock and counts are in `Session`. A headless viewer is
`retrieve_magnet`: `Connect` says Hello, `AwaitReady` reads until Ready and Tools have
both come and then calls, `AwaitResult` takes the first Result or Error. `Others`
stands for any other client, which may pipeline, repeat or skip what it says. `vouched`
and `answer` are history variables. `Break` is not used here: a connection that breaks
is, for its peer, a client that quits before it has read everything.

What `Tunnel` shows is shown for the local relay, which `RelayKeepsPromise` proves to
keep the contract. The Redis relay frees a role in one
step and tells the peer in a later one, by a publish that may be lost, so it does not
keep the promise of `Leave`, and `VouchedCalls` is not claimed across processes.

### Gui

One module for the window, its two panes and the processes behind them. `Paint` is a
frame: it reads both states once and offers `Offered`; `Press` acts on what the frame
on the screen offers, so that a click may come after the worker has written another
state. `StartShare`, `StopShare`, `StartGet`, `CancelGet` are the four buttons,
`RejectShare` and `RejectFetch` the starts that fail before there is a worker,
`CloseWindow` is `App::drop` and `Exit` the end of the process, killed or not. A
share's worker goes from `opening` to `live` (`OnLink`), may be `busy` with a call, is
`closing` after the `select!` (`OnShutdown`, `EndsItself`), and writes the pane in
`Settle`, where `Stopped` keeps a failure. `permit` is the Notify's: it lasts until the
session looks at it. `Cut` and `CutFetch` are the runtime dropping a task. The seeding
child (`Seed`, `Serve`, `StdinEnds`, `ChildFails`) is a process that ends with its
standard input once it reads it, or is killed when its host drops it, which a window that
was killed no longer does. Until it seeds it is `"preparing"`: among other things it asks
the relay's `/whoami` for its address, without a timeout. A fetch polls its flag between two reads of the torrent
(`SeesCancel`, `GoesOn`, `ShowsProgress`).

The torrent is not modelled: it may finish, fail or make no progress at any time. What
the user typed is not either: a start may be rejected at any time.

### Stats

The counters of one relay process at a time, over several that share one file. `Start`
is `load` (`Loaded`: what a whole file holds, else zeros with a new salt), `Stop` any
end of the process, a killed one and an orderly one alike, for the code flushes on
neither. Every counter has its request: `PageView`, `Bump`, `ReadReport`. A flush is
two steps, since `fs::write` truncates before it writes; it holds the mutex meanwhile,
so that a request waits (`Free`) but the process may die. A report is sent once and
read, or lost, at any time after. `truth`, `seen` and `saved` are history variables. A
visitor's hash is the pair of address and salt, which takes the hash as injective.

## 4. Runs

| Run | Instance | What it shows |
|---|---|---|
| `relay_pair` | two agents and two viewers of one tunnel, three messages read | exclusive roles, no mixing and no gap, ownership of slots, refinement of `Pairing` |
| `relay_tunnels` | three sockets on one tunnel, one on another, capacity 1, one message read | no leak, capacity, cascade (under fairness) |
| `session` | scope of two names, child with two tools, TTL 1 s at 2 ticks per second, 4 ticks, 3 frames | the session's safety properties and that revocation ends it |
| `session_hangs` | the same with 2 frames, a child that need not answer | *violated*: a tool that hangs defeats TTL and signal |
| `session_exit` | run by the GUI | *violated*: closing the window leaves the pidfile |
| `redis` | casts of six sockets on two processes of capacity 1 (below) | exclusive claims, residue, order over the two ways of a frame, crash recovery (under fairness) |
| `redis_evict` | the same | *violated*: a successor is evicted by its predecessor's deregister |
| `tunnel` | a headless viewer and another client that says two frames, in either order | vouched calls, own answers, and no endless wait for a viewer that met the session (under fairness) |
| `tunnel_dead` | a headless viewer alone | *violated*: opening a link whose session is over waits for ever |
| `pidfile` | three sessions, one close | close by id, nothing stale |
| `gui` | two shares and two fetches, three starts together | one worker per pane, handles that reach it, and that Stop, Cancel and the end of a share take effect (under fairness) |
| `stats` | two visitors, one session that reports, three requests, three relay processes | no double counting, durability, and that flushing catches up (under fairness) |

**Why the bounds are enough.** The relay's hazards need a role's holder, its
successor, and a peer with its own successor: four sockets on one id, and each
message can meet every phase of the others. A socket has one message between
clone and send at most, so what a bound on messages hides is only longer queues
of the same kind. Capacity needs one id more than the cap. In the session three
frames reach Hello, a call and a frame after it; a TTL of one second at two ticks
puts the second's boundary before, at and after every step. In `redis` the constant
`Casts` says which sockets come together, how many messages they then send and which
process may die, so that one run holds several small instances side by side: an agent and
its successor on a process that may die, with their viewer on the other, or with a third
agent there, who may claim the role anew; agent and viewer on two processes, and next to
each other on one, with two messages each, since overtaking needs two that take different
ways; and agents of two tunnels on a process with room for one. A bound of this kind
removes sockets, never a step of those that come.
Two sessions at least, better three, are what `latest` needs to be overwritten and
removed by others. In `Tunnel` two
frames are a Hello and a call, which is what a client leaves behind for its successor. A
third frame may be a second Hello, whose Ready the successor can take for its own; the
safety properties hold at three frames too (some two million states, too many for a run
that also checks liveness), and are proved for any number. In `Gui` a
second start of a pane is the successor of the first, whose handle, frame or late write it
may meet; a third start lets both panes be in that position in turn. In `Stats` a process
that counts, one that loads what it left, and a third after a torn file are all the ways
in which a file can be handed on; two visitors tell a set from a count.

**Deadlock** is checked wherever the system is not meant to stop; `Quiescent` and
`Over` name the states in which it has nothing left to do and stutter there. `gui` and
`stats` do not check it: a window that is gone, and a host that starts no other relay,
are ends.

**Fairness.** `Relay`: spawned tasks run, a socket takes what is written to it, and a
client whose socket was closed hangs up (no timeout in the code enforces the last
one). `Session`: every ready task is polled and time passes (weak fairness), but neither
the child's handshake nor the dial of the relay is assumed to end, since the code sets
no limit to either: `RevocationEnds` speaks of a session that is past them (section 5 has
what the design says of a limit). The loop does not starve its `Notify` though the stream always has a frame: `select!`
picks among ready branches at random, hence strong fairness of `OnShutdown`. That
the child answers is assumed in `LiveSpec` and not in `HangingSpec`. `RedisRelay`:
some task that can go on does, and Redis expires keys. `Tunnel`: one
condition for the relay's steps of each socket, one for the session (its child answers
and its TTL runs out), one for what a headless viewer reads. Nothing is assumed of
viewers, of sockets that end, or of messages sent. `Gui`: workers are scheduled, a child
that reads its standard input or was killed ends, a closed window's process ends (its runtime is shut down with a bound), a
share's tools answer at once (`server.rs` reads what it has in memory), and `OnShutdown`
is strongly fair for the reason given for `Session`; nothing is fair about the user, the
network or the torrent, so a child need never finish its preparations: `SeedingEnds`
excepts the one that still prepares when its window's process is gone. `Stats`: the flush task is scheduled each ten seconds, and not
every write fails (strong fairness of the two steps of a flush that succeeds).

**Mutants.** Every property of a passing run has a mutant in the module it is about:
a definition with a plausible mistake in it, next to the one it would replace, and
commented as such. With it, the property fails.

## 5. Findings

Four runs show the code doing something else than a document, comment or help text
of the repository says; `PROJECT.json` quotes each.

1. A tool that never answers keeps the session open past TTL and signals
   (`session_hangs`).
2. Closing the GUI's window cuts teardown off and leaves the pidfile (`session_exit`).
3. The Redis `deregister` can evict a successor on the same process (`redis_evict`).
4. `tnls get` on a link whose session has ended, or before the agent is registered,
   waits for ever (`tunnel_dead`).

Others were met while modelling. The modules take the code as it is; no run is
dedicated to them.

* A child that never completes the handshake, or a relay that never answers the dial, keeps
  a session in its startup for ever (`mcp.rs:31-38`, `session.rs:99`).
  `2026-06-01-tunnel-solutions-design.md` (176-180) has the start fail there after a budget
  of about 5 s. `RevocationEnds` says what holds: a session past its start can be ended.
* A SIGTERM that comes after the pidfile is written and the banner printed
  (`session.rs:109-112`) and before the handlers are installed by a task yet to run
  (160-175) ends the process without teardown and leaves the pidfile, where `session.rs:200`
  speaks of "one path for TTL, signal, and relay-close". `SignalKills` is that step; with
  `Embedding = {FALSE}` the property of `session_exit` fails by it.
* The Redis `register` checks the capacity under a lock that it releases before it claims
  (`backplane.rs:275`): two new tunnels can take one free place, where
  `2026-06-07-fly-deploy-design.md` (30) has the relay reject a new agent when it is full.
* A session that ends compares `latest` with its id and removes it in a second call
  (`pidfile.rs:21-23`): one that has opened in between loses its `latest`, and `tnls close`,
  which "defaults to the most recent" (`tnls/src/cli.rs:31`), finds none.
* `run_share` says that it "Runs until stdin closes" (`share.rs:51`), and does not read its
  standard input while it prepares, which includes a request without a timeout
  (`share.rs:39`): the child of a window that was killed may stay. `SeedingEnds` makes this
  exception and no other.
* A side that registers while its peer is still in the table, but already told to close,
  is accepted, cannot send, and is closed in turn; `2026-06-07-redis-relay-design.md:58`
  says that the new side pairs with the survivor. (`Cascade` says what holds: the
  survivor goes too.)
* `latest` goes with the session it names, so that `tnls close` without an id finds
  nothing while older sessions are open; the help at `tnls/src/cli.rs:31` says that it
  defaults to the most recent.
* A child that dies leaves the session open: each later call gets a `tool_error`
  (`session.rs:296-303`), and the session ends with its TTL. Section 10 of
  `2026-06-01-tunnel-solutions-design.md` (264) has "Child process dies" tear the session
  down. `CallsAnsweredOnce` says what holds: calls to a dead child are answered.
* A relay that stops does not flush, and one that dies inside a flush loses what had been
  saved; `2026-06-07-analytics-design.md` speaks of a best-effort flush on shutdown (54)
  and of counters that are restart-durable (39). `RestartDurable` says what holds.
* `get.rs` takes the first Result that comes and does not compare ids, where
  `2026-06-07-tnls-file-sharer-design.md:118` has it read until the matching one. A client
  that says Hello and calls before it has seen Ready, and leaves before either is answered,
  hands Ready, Tools and the Result of its call to the viewer that takes its place. The raw
  call box of the browser page is such a client: it calls whenever its button is pressed.
  A client that says Hello twice, calls, and leaves before the second Ready reaches it, does
  the same to its successor although its call was not early. `OwnAnswers` exempts exactly
  these two: the answer of a call that its viewer made early, and of a viewer that said
  Hello twice.

## 6. Proofs

TLAPS checks these for every value of the constants, under the named assumptions of each
module. TLC had found each of the properties to hold on a run's instance before.

### RelayProofs: the table

* `TypeCorrect`, `TableCorrect` (the inductive invariant `IInv`), and from it
  `RolesExclusive`, `SlotsNeverLeak`, `CapacityHolds` and the action property
  `OwnersRelease`.

`IInv` is `TypeOK`, `SlotInv` and `CapacityRespected`. `SlotInv` has three parts: a
registered socket is in the slot of its id and role (`RegisteredHolds`), a socket in a
slot's field is registered and of that id and role (`FieldsOwn`), and an id is in the
table exactly when one of its fields is set (`KeysExact`). None of the three properties
is inductive by itself. That a role is exclusive needs that `Occupied` sees every
registered socket, which is what `RegisteredHolds` says; that no slot leaks needs the
converse as well; and the capacity, which is checked against the number of keys, needs
that keys and slots agree and that the key set is finite. It rests on `RelayAssumption`:
ids are a finite set, `NoConn` is no socket, and the capacity is a natural number.

### RelayProofs: order

* `OnePeerOnly` (`OnePeerPerSocket`) and `NoGaps` (`NoGap`), from `LinesInOrder`.

The invariant speaks of a socket's *line*, what has been written to it followed by what is
queued: a delivery moves along it, so that the pump changes nothing. As long as no Close is
in a line its frames are of one socket, which is still registered if this one is (its
deregister would have queued the Close), has sent nothing else since (`Feeds`), and holds
the only clone that may still be sent here, which is the next frame (`Link`). That a
successor of the peer cannot hold one is where the exclusive roles come in.

### RelayPromiseProofs: the refinement

* `RelayKeepsPromise`: `Spec => KeepsPromise`, that is, `Relay` implements `Pairing`.

There is one lemma per action: `Register` is `Join`, `Reject` is `Refuse`, `ReadFrame` is
`Send`, `WriterDeliver` is `Receive`, a pump that ends is `Break`, `Deregister` is
`Leave`; `SendToPeer` and `Cancel` change nothing that the contract speaks of. Two facts
carry it. A clone for a socket is held by its present peer in the table, also after the
socket itself has left (`Ways`), so that moving it into the queue leaves the pipe as it
was. And every queue has a first Close or none (`FrontsEnd`), which is part of the
invariant: the step that queues a Close shows where it is.

### SessionProofs

* `TypeCorrect`; `CallsAreAuthorised`; `ClosesClean`; `RepliesExact`
  (`CallsAnsweredOnce`); `ListAndCallAgree` (`ListedNeverRefused`); `CountsAreTrue`
  (`CountsAgree`).

That the expiry is never announced while a call may succeed rests on two clocks: the
session decides by seconds that are cut off, the timer by ticks. `TimerLate` says that the
timer, armed after the expiry was computed, rings no earlier than the second it names. For
the replies, `Answered` says that each call read has its reply or is the one awaited, and
that no id occurs twice, since an id is the number of the frame it came in. `Tally` says
that the counts are the sizes of two sets of frames, and `ReportTrue` that what is reported
are the counts and that they no longer change. The type invariant is proved in two halves,
flags and data, because no one prover is good at both. `ClosesClean` is about the teardown
alone: whichever break ended the loop, `open` returns from it with the child ended, the
pidfile removed and no call awaited. The timer's task and the embedder's bridge may outlive
it, a report may have failed, and a start that fails returns another way.

### PidfileProofs

* `TypeCorrect`, `NothingIsStale` (`NothingStale`), `CloseByIdAlwaysWorks`
  (`CloseByIdWorks`).

A session writes only the file of its own name (`OwnFile`), so a close by id reads a whole
file or a session that is not open. `latest` is shared: no ended session is named by it,
because one is named only after its own fill and until its own end, and only one that still
fills has it open (`Pointed`).

### GuiProofs

* `TypeCorrect`, `PanesCorrect` (the invariant `PaneInv`), `BusyExactly` (`BusyIffWorked`),
  `HandleKept` (`AlwaysStoppable`).

The two properties hold together or not at all: that a click starts no second worker
needs that a frame which offers the start was painted over an idle pane and that only such
a click makes it busy; that the pane's handle is that of the worker which runs needs that
no other runs when a click replaces it.

### StatsProofs

* `TypeCorrect`, `SavedStaysCounted` (`RestartDurable`), `VisitorsCountOnce`
  (`VisitorsOnce`), `NothingCountedTwice` (`NeverOvercounts`).

A whole file holds what the last completed flush saved (`FileSaved`), so a start loads no
less; and the salt goes with the set it was used for (`SaltBeside`), so that a set is never
larger than the visitors there were. `NeverOvercounts` is not inductive: a report was counted
as having happened when it was sent, and is counted by the relay when it is read. `Accounted`
adds the reports on their way to the left side, and says the same of the file, which a later
process starts from. A sum over reports would need induction; the invariant counts a set
instead, with one pair of agent and number for each unit a report has on its way, so that
sending or settling a report adds or removes a set of known size.

### RedisProofs

* `TypeCorrect`, `NoResidueLeft` (`NoResidue`), `ClaimsExclude` (`ExclusiveClaim`),
  `OrderKept` (`OnlyEarlyOvertaken`), for any processes, ids, sockets, dropped futures and
  crashes.

The entries of a process's tables belong to sockets of that process which have put them
there and have not yet come to the step of `deregister` that clears them (`SlotsOwn`,
`EntriesOwn`), or, for a slot, to one whose future was dropped in between; when all are
out, nothing else is left.

For `ExclusiveClaim`, a socket that has claimed its role has its process's name in the
presence key, and if it is open its process's dispatch table has it, so that the key
does not lapse (`ClaimKept`); both cease to be true of an evicted role and of no other.
A crash takes the sockets with the table.

For the order, a frame is in its sender's hand (`pending`), on the subscription of a
process (`bus`), in the receiver's queue or at its socket; the last two are the socket's
*line*. What a sender has in hand is its last frame (`PendingOwn`), and no other place has
that frame or a later one of it (`StreamsBehind`, `LinesBehind`). Each subscription is in
order; so is each line, and what is in a line came before what is still on the subscription
to its process, but for the property's own exception (`Ordered`): `Overtook` is a frame from
next door, sent after the slot was put, past one sent before. That is not inductive by itself:
that nothing else on the subscription can be overtaken needs that, while the slot leads from a sender to the socket, or the sender has a frame for
it in hand, every frame of his on the subscription was sent before the slot was put
(`EarlyOnStream`), that what he has in hand to be published was too, and that what he has
in hand for the socket's own channel was not (`EarlyInHand`). A publish that is lost, a
dispatch that finds no entry, and a channel whose receiver is gone leave an ordered rest.

### TunnelProofs

* `TypeCorrect`, `CallsAreVouched` (`VouchedCalls`), `AnswersAreOwn` (`OwnAnswers`), for any
  viewers, whatever they say and however often.

`RelayInv` is about the contract alone, without `Break`. What is or will be at a client's end
is its *way*, `got` followed by `pipe`, so that a receipt changes nothing. The seats are those
of sockets that are in (`Seated`); a frame is on a way of the other role and numbered by its
sender (`WaysFrom`), the session's frames go to one viewer each (`ToOne`), and the session's
way has the frames of one viewer, in order (`OneViewer`). The last needs `Paired`: as long as
the session's pipe is not sealed, the viewer whose frames are on it is the one that is in,
since a viewer that leaves seals it.

With this, `VouchedCalls` follows although the code keeps the claims of a Hello in one
variable for whoever calls: the session hears one *visitor* in all its life, the Hello it
verified and the call it forwards are both his. For `OwnAnswers`, a Result that reached
another than its caller is the visitor's (`ResultsOf`); both have read a Ready, since a
headless viewer waits for one (`ReadyRead`) and the call says it was not early (`CallsOwn`);
by `ToOne` there are two; two Readies answer two Hellos (`ReadyPerHello`), and those the
visitor has said himself.

### What the proofs found

Two properties had held on their runs and are not true of the code; the attempt to prove them
stopped at the step that breaks them. That one registration of a role exists at a time fails
after an eviction (section 3, RedisRelay), with two sockets more than the run has. That only an
early call strays fails for a second Hello (section 5), with one frame more than the run has.
Both are now stated with the exception the code makes, and proved.

### Only model-checked

All liveness: `Cascade`, `RevocationEnds`, `CrashFreesRoles`, `ServedViewersEnd`, `StopEnds`,
`CancelEnds`, `SeedingEnds`, `FlushCatchesUp`. Fairness and ENABLED are out of the prover's
reach. Every other property of a passing run is a theorem.

## 7. Not modelled

* Cryptography, JSON and base64: taken as perfect.
* `tnls` (CLI host) and `tnls-plugin`: argument parsing, lookup on the PATH and one
  hand-over to a child process or to `session::open`; no state that outlives a call.
* The demo plugin: stateless tools. The child of `Session` stands for it.
* Static pages, headers and the choice of a backplane at start: stateless.
* What librqbit, rmcp and egui do inside: libraries; a torrent, a tool's answer and a
  click are choices of the environment.
* `seed_cmd` and the fetch of the command line: a single task that waits for its torrent.
* The browser page: it is one of `Others` in `Tunnel`, which say what they like; its own
  rules are left (section 2).
