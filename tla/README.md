# gomoqt, specified in TLA+

TLA+ modules for the concurrent core of `moqt`, the Go implementation of the
MOQ Lite protocol, and of the `msf` package on top of it, the TLC configurations that model-check them, and proofs
about eight of them. Definitions carry the names of the Go code; `PROJECT.json`
maps each of them to the lines it translates.

    tlc -workers 2 -config MC_Announcement.cfg MC_Announcement
    tlapm Announcement_proofs.tla

Of the properties the runs check, every safety property of a component, the refinement and
the three pure algorithms are also proved, for all values of the constants
(section 4); liveness is model-checked only.

## 1. The system

A **Server** accepts connections in three ways (native QUIC, WebTransport,
WebSocket) and makes a **Session** of each; a **Dialer** makes the client's.
Over a session, peers exchange request streams. A publisher registers
broadcasts in a **TrackMux**, which routes subscriptions to their handlers and
tells listeners of each **Announcement** below a prefix. A subscriber listens
with an **AnnouncementReader** to the **AnnouncementWriter** of its peer,
subscribes with a **TrackReader** to the peer's **TrackWriter**, and receives
one stream of frames per group.

```
 application        application                     application
     |  Announce        | end()                          | ReceiveAnnouncement, AcceptGroup
     v                  v                                 ^
  TrackMux  <----- Announcement                          |
     | channel of 8 per listener                         |
     v                                                   |
  AnnouncementWriter ==== announce stream ====> AnnouncementReader
  TrackWriter        ==== subscribe stream ===> TrackReader
        \============ one stream per group =========/
                Session (SETUP, probes, close) per connection
                Server (connManager, Close, Shutdown)
```

### Components

| component | state | operations | interacts with | what is hard | what makes it correct |
|---|---|---|---|---|---|
| Announcement (`announcement.go`) | active flag, handlers, `Done` channel, once | NewAnnouncement, AfterFunc, stop, end | its context; mux, writers and readers register handlers | AfterFunc and stop against an end() that clears the flag, takes the handlers and runs them in separate critical sections | each handler exactly once or stopped; Done after all of them; end() returns |
| AnnouncementWriter (`announcement_writer.go`) | map of actives with end handlers, closed flag | init, SendAnnouncement, end handlers, rescope, Close, CloseWithError | the mux's channel, the stream, the auth scope | lock released between finding an announcement and ending it; overflow resets from the announcer's goroutine; init against ends | the peer converges to what is announced; a closed writer keeps nothing |
| AnnouncementReader (`announcement_reader.go`) | map of actives, pending queue, capacity-1 signal | decoding goroutine, ReceiveAnnouncement, rescope, Close, CloseWithError | the stream, the application, the auth scope | local ends and scope changes against messages in flight | shows only what was announced and is in scope; no lost wake-up; resets the stream as a violation only for what its own side ended |
| TrackMux (`mux.go`) | index path -> handler, tree of prefix nodes with announcements and listeners | Announce, removal, serveAnnouncements, serveTrack, Publish | announcements, writers | locks taken node by node; nodes detached while others hold them; one path replaced | each path is routed to its live announcement; listeners are told; Announce returns |
| TrackWriter, receiveSubscribeStream | group counter, open groups, what was answered | OpenGroup(At), SkipGroups, DropGroups, DropNextGroups, Redirect, Close, CloseWithError, updates | subscribe stream, group streams | sequence taken before the lock; opening waits for credit under the shared lock | answers follow the protocol; SUBSCRIBE_END covers what was opened; nothing opens after |
| TrackReader, sendSubscribeStream | queue of groups, settled ranges, start and end, closed flags | Subscribe, response loop, AcceptGroup, Update, Close, CloseWithError, drop notifications | both kinds of streams | streams arrive in any order, before OK, after END, after close | io.EOF exactly when nothing is owed; no lost wake-up; nothing after the end |
| Session (`session.go`) | closed flag, joined goroutines, peer's SETUP, probe streams and channels, reader and writer maps | newSession, handle*Stream, Probe, Subscribe, Fetch, AcceptAnnounce, TrackInfo, CloseWithError | everything above; connManager | closing against handlers and late probes; duplicate SETUP; locks held across stream opens | no panic on a closed channel; a closed session leaves the manager; calls return when the connection ends |
| Server (`server.go`, `conn_manager.go`, `websocket.go`) | flags, listeners, manager of connections | Serve*, Close, Shutdown, goAway | sessions, transports | sessions that start while the manager is taken and drained | shutdown knows every tracked connection, and waits for them |
| Authorization (`auth.go`, `path_pattern.go`) | per token: grant, generation and timer of its expiry, ended; the union of the grants, its capacity-1 change signal, the channel waiters sleep on | Grant, Refuse, expire, handleAuthStream, mayServe, rescopeLoop; Auth and Credential on the presenter's side | session, readers, writers | grants that change, lapse or are withdrawn while a request is judged, registered and served; a timer that fired against the grant that replaces its own | nothing outside the grants is served once they have been applied; no token lapses by the timer of a replaced grant; waiters go on; both ends of a token end together |
| Broadcast (`broadcast.go`) | handler per track, each entry with the writers it serves | Register, Remove, ServeTrack, Close | mux, writers | a subscription that has found an entry and not started when the entry is closed; writers closed outside the lock | once a removal has returned, its entry serves nobody |
| Redirect, fetch, track info | per call | followRedirect, Fetch, TrackInfo | session, dialer | a redirect's limit; abandoned calls | bounded following; streams are always released |
| Frames, messages | buffers | encode, decode | streams | numeric edges, partial reads | what is decoded is what was encoded |
| `msf` (`broadcast.go`, `catalog.go`, `catalog_delta.go`) | catalog and its encoding, channel closed at each change, handler table; deltas with the order of their operations | SetCatalog, RegisterTrack, RemoveTrack, Close, serveCatalogTrack; decode, encode, apply | broadcast | a table and a catalog that change in several steps; changes while a catalog is being written; operations grouped by kind and interleaved on the wire | catalog and table agree; the last change reaches every subscriber; a delta does what its operations do in order |
| `moq-web` (TypeScript) | as above, single-threaded with promises | as above | browser WebTransport | state read before an `await` | as above |
| `transport`, bindings, dialer, ALPN, commands, examples | thin | – | – | – | – |

The list with sources and status is `components` in `PROJECT.json`; the places
where the code can go wrong and a test would hardly look are `hazards`, each
with its line and the properties that watch it.

## 2. The modules

A step is one critical section, one blocking call or one message; goroutines
interleave at every step. Names and messages are model values or small records.

### Announcement

`announcement.go`, all of it. A handler stands for one registration;
`afterHandlers`, `batch`, `spawned` and `running` are the four places it can
be, `runs` counts its executions. `BeginEnd`, `TakeHandlers`, `RunHandler`,
`HandlerReturns` and `CloseDone` are the five steps of `end()`: `once` admits one
goroutine, the flag is cleared, the handlers are taken under `a.mu`, run inline
up to `MaxInline` (128 in the code) or by a pool, and the channel is closed.
`AfterFunc` either appends or, on an ended announcement, spawns. The order of
the slice is abstracted to a set.

### AnnounceWire, AnnouncementWriter, AnnouncementReader, AnnounceStream, AnnounceView

One announce stream. `AnnounceWire` is the ordered stream with ANNOUNCE_OK,
ACTIVE and ENDED, and how the ends are set up (`setting`). `AnnouncementWriter`
has the serving goroutine (`pc` follows `init`'s filter, store, ok, send and
register phases and then `SendAnnouncement`'s check, stop, remove and announce),
the end handlers (`watch`: queued, taken) and three closers: the serving
goroutine, the announcer whose push found the channel full, and `rescope`. It
includes the part of `TrackMux.Announce` that fills or overflows the channel.
`AnnouncementReader` has the decoding goroutine, the announcements it makes
(`remote`, in order; `held` is its map of actives), the queue and its signal, the
scope and the closers. `AnnounceStream` composes them.

`AnnounceView` is what the pair promises: a path shows an announcement that has
been offered and is in scope; a live one disappears only for another of its path
or for its scope. `ImplementsView` is the refinement
`view[s] = remote[held[s]].announcement`.

Hop IDs are reduced to the set `Excluded`. What an encode can do is fail or
succeed; it does not block (flow control is in the plan).

### TrackMux

The index, the tree as objects (`children`, `parent`; a detached node stays
reachable for whoever holds it), `Announce` (check, register, endPrev, walk, then
add/snapshot/send per node, after), the removal callback (leaf upwards, then the
index) and `serveAnnouncements` (walk, register, loop, leave). `Layouts` gives the
broadcasts' paths, what is listened to and what may end. Of
`Announcement.end` it keeps what the mux sees: the flag, the queued removals, and
that `end()` returns when they have run.

### SettledGroups, SettledAdditions, PathPattern, CatalogDelta, DeltaWriting

Pure algorithms as operators, without RECURSIVE, and the definitions they are held
against by `MC_Algorithms`.

`SettledGroups` is the list of ranges of `settledGroups` with `add` (position,
merge, forget the oldest gap) and `covers`; the reference is the plain set of what
was added. `SettledAdditions` makes a state machine of it: the groups that arrive and
the ranges that are dropped, added one after the other in any order.

`PathPattern` is `path_pattern.go`: parsing, joining with a root, and the three
ways in which `Match` decides. A path is the sequence of its segments, a raw
segment of a pattern says where its braces are. The reference is `Means`, written
from the comment of `Grant` (`auth.go:48-63`): a pattern matches what its instances
match. `Texts`, `Roots` and `Paths` are constants, of which only the type is assumed, so
that `PatternsMeanTheirPaths` can be enumerated and proved. The early return at the first
segment that disagrees is `\E k` (where the loop ends) with `GoesOn` before it.

`CatalogDelta` is what `catalog.go` and `catalog_delta.go` do with a delta: decoding
(grouped by kind, the order kept beside it), `operations`, encoding, validation and
applying. Of a track it keeps what has a rule of its own: namespace, name,
packaging, `isLive` and one field that stands for the others, each with its
presence in the JSON object. The reference is `Meaning`: the declared operations,
one after the other, on a function from identities to tracks. `DeltaWriting` makes a
state machine of it: operations and their tracks are written one by one, and code adds
tracks to what was decoded (`ExtendInCode`); in every state the delta is applied to the base
catalog, and encoded, decoded and applied again. Of the catalogs, tracks and namespaces
only the types are assumed, and that no delta's namespace is the code's own sentinel,
which starts with a NUL.

### SubscribeWire, TrackWriter, TrackReader, Subscription

One subscription. `SubscribeWire`: the ordered answers (`said`, `heard`) and the
group streams, which arrive in any order. `TrackWriter`: any number of calls; `Ops[c]`
says which of the eight methods a call may be, or the cancellation of a group by
the application, or the expiry of a call's context. A `setting` is such a choice and the number of
streams the peer allows. `OpenGroup`'s counter moves before `w.mu`; the lock is
held shared across `EnsureOk` (SUBSCRIBE_OK) and `OpenStream`, which waits for one
of `StreamLimit` streams; closers hold it alone. `TrackReader`: `Subscribe` (sent,
registered, answered), the response loop, `Arrive` for a group's stream,
`AcceptGroup` in two steps (decide under the lock, wait after), the grace period
after the stream ended, both closes.

### Session and Authorization

The closed flag and the four steps of `CloseWithError` (swap, transport, join,
channels), the peer's Setup Streams (check, decode, write, signal), `Probe` with
`outgoingProbeMu` held across the open of a stream, the goroutine that reads its
answers, and `handleProbeStream` with the replacement of an older stream and the
monitor. `cast` names who takes part; `newSession` may be given a SETUP that
the router has read.

`Session` extends `Authorization`, whose goroutines it joins (`AuthRuns`) and whose
violations end it. A writer `w` is an `AuthWriter`: `Conn` answers the credential of
the connection, each token its Auth Stream. Every method holds `w.mu`; `section[w]`
is what it has still to do with it (a grant to signal and answer, an end to signal,
a refusal to send), because the scope has a lock of its own that is free in
between. A timer that fires becomes a waiting callback (`fired`), which compares
generations once it has `w.mu`; `granted` counts the grants when they are made, and `lapsed` says
whose timer ended the token. `handler` and `watch` are the two goroutines of an
Auth Stream, `cred` and `side` the presenter's end. `req[r]` follows a request: wait
for the first answer, judged, registered, judged again (a subscription), or
watching and then judged (an announce stream), or judged once (FETCH, TRACK); and
`pass` follows `rescopeLoop`. `trackWriters` is the map that a pass goes through, keyed by the
id the peer has put into its SUBSCRIBE (`idOf`): a second writer of an id takes the first one's
entry, and the end of either deletes what is there.

Abstractions: a request stands for its path, and a grant for the set of requests it
covers, so that patterns are left to `PathPattern`; the loop judges all track writers
in one step, as it does with their map locked; a Grant that does not fit an AUTH_OK
is a Refuse; the publish side of a scope is `allowed` in `AnnouncementReader`; a handler that
returns without offering anything for the connection has done so at the start.

### Broadcast, MsfBroadcast

`Broadcast` is `moqt/broadcast.go` with the part of `mux.go` that serves a track.
A call that registers or removes takes entries out of the table (`doomed`), takes
the writers of each (`closing`) and closes them, in three separate critical
sections. A subscription looks its handler up, starts (`trackStarted` refuses a
stopped entry), opens a group, ends; its writer is closed by the entry, by the end
of the announcement, or by itself. `TrackWriter.Close` waits for an `OpenGroup`.

`MsfBroadcast` extends it with `b.mu`, the catalog, its encoding and the channel:
`SetCatalog` holds `b.mu` over the removal of every stale handler, `RegisterTrack` and
`RemoveTrack` over the closing of what they replaced, `Close` only over the flag.
`serveCatalogTrack` reads the state (once shared, once alone to encode), sends it, and
waits for the channel that it read with it; a write that fails ends the subscription, whether
the subscriber has left or not. Channels are numbers; `channels` holds
those that are closed.

### ServerShutdown

The three ways in (`kind`), from `Accept` through the handshake, reading the
manager, `addConn`, the WebSocket check, serving, `CloseWithError` and
`removeConn`; `Close` and `Shutdown` with the flag, the listeners, taking and
draining the manager, waiting for Done, and closing WebTransport; `goAway` per
connection. The two calls may overlap: the second then finds no manager and
panics, which the model keeps as a state.

## 3. The runs

All times are for two workers.

| run | what it explores | what it shows |
|---|---|---|
| `announcement` | 3 registrations, 2 callers of end(), MaxInline 2; 33 thousand states | AtMostOnce, StoppedNeverRuns, DoneAfterHandlers; fair, EndCompletes: every queued handler runs and end() returns |
| `announce_safety` | 2 announcements in 6 settings; 3.9 million states, 2 min | NothingLeaks (the maps of both ends hold all they must end), Agreement at rest, OnlyLocalEndsAreAccused, NoLostWakeup, ImplementsView |
| `announce_live` | as its first setting, fair; 159 thousand states | EndReachesPeer, DownIsCleanedUp |
| `mux` | 2 Announce calls, 1 listener in 4 layouts, fair; 301 thousand states, 1 min | NodeDelivery (every listener of a node learns of what is announced there), RoutingMatchesAnnouncements, AnnounceReturns |
| `algorithms` | sequences of ranges of 1..9, patterns of up to 3 segments, deltas of up to 3 tracks; 414 thousand states, 1 min | SettledIsExact, PatternsMeanTheirPaths, DeltasApplyAsWritten |
| `subscription` | 3 calls of 10 kinds in 2 settings, 2 acceptors, both ends may give up, fair; 867 thousand states, 3 min | AnswersWellFormed, EndCoversOpened, NothingOpensAfterStop; EofIsFinal, NoLostWakeup; EndIsReached, ClosingReturns |
| `shutdown` | 2 connections of any kind, Close and Shutdown, fair; 763 thousand states, 2 min | NoneEscapes, ServedIsEnded, ReturnedMeansGone, CloseReturns |
| `session` | 10 casts against CloseWithError, fair; 158 thousand states, 3 min | ProbesAreSound, CloseUntracks, ViolationEnds, ProbeReturns; NothingOutsideScope, OnlyTheGrantInForceLapses, WaitersReleased, EndsTogether |
| `msf` | 3 calls of 4 kinds with 1 subscriber of a track or of the catalog, fair; 333 thousand states, 1 min | OnlyCurrentHandlersServe, CatalogAndRoutesAgree, RevokedEnds, CatalogIsDelivered |
| `announce_relay` | a relay whose mux replaces what it received | **violated**: NoFalseViolation |
| `mux_notify` | siblings under one prefix | **violated**: ListenersNotified |
| `subscription_early` | opening groups while Subscribe registers | **violated**: EarlyGroupsKept |

The type invariants are checked with a safety invariant that contains them
(NothingLeaks, NodeDelivery, ProbesAreSound, CatalogAndRoutesAgree, ...).

### Bounds, and why they are enough

* `announcement`: two callers are the once and the one who waits for it; three
  handlers against `MaxInline = 2` give the inline and the pooled run, with a
  snapshot that is empty, short and long. `MaxInline` is 128 in the code and only
  compared.
* `announce_*`: the races are between an announcement and its successor on one
  path, or between two paths in `init`'s loops: two announcements. `ChanCap` is 8
  in the code; with 1 the second push overflows. The settings: one path with a
  subscriber that may close; a writer with a scope; two paths, one excluded; two
  paths; a relay whose reader's scope changes once; a relay without a scope, which
  alone is the violation. In the first and the last the subscriber's side ends what it
  received before the peer does.
* `mux`: `MaxNodes = 6` leaves room for every node the two calls and the listener
  can make, detached ones included (`GetChild` is bounded by it). The layouts are
  two broadcasts of one prefix, one path twice, one below the other, and one
  announcement given to both calls.
* `algorithms`: three ranges are the fewest in which the oldest gap has a neighbour
  that must stay, and 1..9 has room for a fourth range; the bound is 1024 in the
  code and only compared. Three segments put a wildcard, a literal or an empty
  segment before, after and between others, two wildcard names can differ or be
  repeated, and paths are one segment longer. Three tracks in at most as many operations
  remove, add and clone one identity in any order, empty operations among them; the
  base catalogs are one with, one without and one with a repeated identity.
* `subscription`: `MaxSeq = 3` bounds the counter, `AtSeqs = {3}` is above it
  until two groups are open, then at it and below it, and `MaxRanges = 2` keeps the most
  ranges that 0..3 can have apart, so that no gap is given up (what happens past the bound is in
  `algorithms` and in `SettledGroups_proofs`). The setting `Mixed` gives each of the three calls a set of methods such that
  opening meets every other kind, and the closers meet opening and dropping; its two streams at a
  time let groups overtake each other, and leave one for each opener. In `Waiting` there is one
  stream for two openers, so that the second waits for credit, holding the lock shared, while
  the third call closes, aborts or redirects. `subscription_early` has interchangeable calls and only a
  safety property, and is the one run with symmetry.
* `shutdown`: one connection in the drain and one outside it, two calls to overlap.
* `session`: two calls of Probe and one SETUP (two streams to open), two SETUPs, or
  two probe streams, with a call of CloseWithError; the groups share only the flag,
  the channels and the connection. A connection that is down still yields at most
  one buffered message per reader. With the connection's credential: a subscription
  under two grants of which either may expire, so that a limited one is renewed; an announce
  stream under two; a token that alone covers a subscription and is withdrawn; a fetch; a
  token without an AuthHandler; two subscriptions of which one loses its grant; and two that
  share their id. `Offers` bounds the grants: one that replaces another
  and one that is replaced are the races of a timer.
* `msf`: three calls whose kinds overlap so that each pair of kinds races under a
  third call; two names, of which one is subscribed to, with catalogs that list all or
  nothing; `MaxChanges = 3` is what three calls can change. A subscriber of a track
  and one of the catalog share only `b.mu`, so one at a time is enough.

### Deadlock

`CHECK_DEADLOCK FALSE` wherever everybody may have finished: announcements ended,
the stream closed, the session closed, the server down, the pattern or the delta
written. That nobody waits for ever is what the liveness
properties say.

### Fairness

Weak fairness for each goroutine's own steps, because the Go scheduler runs every
runnable goroutine, and for the passing of bounded timers (`GracePasses`,
`HandshakeFails`, `Expire`). Application calls, peers' messages, failures and the
opening of streams by the peer have none, with these exceptions, named in the
modules: in `Subscription` an application that goes on accepting and closes the
groups it opened, and a network that delivers (its behaviours are finite, so that
one weak fairness condition over all of these steps says that all are taken); in
`MsfBroadcast` a track handler that returns once its writer is closed, as the
documentation asks of it (`msf/broadcast.go:20-21`), and a group that waits for
credit and gets it or loses its subscriber; in `ServerShutdown` a handler that
returns once its transport has ended. In `Session` reads end only on a connection
that is down, and an `OpenStreamSync` returns only then. No property needs strong
fairness: who waits for a lock in these models waits for holders that all release
it.

## 4. The proofs

TLAPS proves these for any values of the constants that the modules assume.

`Announcement_proofs`, for any number of announcements, registrations, callers and
any `MaxInline`:

| theorem | statement |
|---|---|
| TypeCorrect | `Spec => []TypeOK` |
| CallbackAtMostOnce | `Spec => []AtMostOnce` |
| StopIsFinal | `Spec => []StoppedNeverRuns` |
| DoneIsLast | `Spec => []DoneAfterHandlers` |

The only assumption is that `NoAnnouncement` is none of the announcements and that
`MaxInline` is a natural number. None of the invariants is inductive: that a
handler runs once depends on where else it could still be. `IInv` adds `Places` (a
registration is in one place: queued, taken, spawned, running, run or stopped),
`Phase` (what end() has established by each phase, in particular that the queue is
empty from `TakeHandlers` on) and `Kept` (a queued registration is never lost).
`NextIInv` has one step per action and under it one per conjunct. DoneIsLast then
follows from `Kept`, with `Phase` ruling out every place but run and stopped.

`ServerShutdown_proofs`, for any connections and any number of calls of either
method:

| theorem | statement |
|---|---|
| TypeCorrect | `Spec => []TypeOK` |
| DrainIsComplete | `Spec => []NoneEscapes` |
| WebSocketIsEnded | `Spec => []ServedIsEnded` |
| ShutdownWaitsForAll | `Spec => []ReturnedMeansGone` |

The assumption is that each call is of one of the two methods. `IInv` follows each
connection through the manager: one that is held is between `addConn` and
`removeConn`; one that a drain ends is held or gone; a served WebSocket session is
held; a call that has drained finds `draining` set, and one that has waited finds
the manager empty. That the last fact stays true needs the first two: nobody joins
once `draining` is set.

`MsfBroadcast_proofs`, for any tracks, subscribers, catalogs, deltas and any number of calls:

| theorem | statement |
|---|---|
| TypeCorrect | `Spec => []TypeOK` |
| CurrentHandlersServe | `Spec => []OnlyCurrentHandlersServe` |
| CatalogMatchesRoutes | `Spec => []CatalogAndRoutesAgree` |
| DeltasStayAsWritten | `DeltaSpec => []DeltasApplyAsWritten` |

The assumptions are that `None` is no call, that a subscription names a track, that
catalogs are sets of names and that `MaxChanges` is a natural number (it bounds the
changes; no step of the proof looks at its value). OnlyCurrentHandlersServe says nothing of a
subscription that has found its entry and not started, so `TableInv` follows an
entry from the table to the call that took it (`doomed`) to `stopped`, and a writer
from its entry (`active`) to the call that closes it (`closing`). That a call which changes the table
overwrites no `doomed` of its own is `CallsInv`. RoutesAreListed speaks of `b.mu` free;
`RoutesInv` adds what its holder still owes: a name with a handler is listed, or
in `stale` of a call that has it to remove or to list, and `OneHolds` makes
that call the holder. ChannelInv, that the latest channel is closed only
together with the broadcast, is why none is closed twice.

`DeltasStayAsWritten` is about catalogs and operations of any length, with any tracks and
any additions in code. Assumed are the types of `Bases` and `Items`, that the empty string is
among the strings, and that no delta names as its default namespace the sentinel that the code
puts in place of a missing one. Decoding, `operations`, `ApplyDelta` and the meaning are folds.
FoldExists gives each its function of the elements done so far, the FoldGrows of each what one
more element does, and GrowsToAll takes what every step keeps to the end: it looks at the
least place where it would not be kept, which stands in for the induction theorems. The
argument has three parts:

- TakesAll and OperationsAre: `operations` gives back what was decoded, span by span, and then
  what code added, so that the tracks in order are `Declared`. ItemsHeld and ValidRead
  carry the checks of `ValidateDelta`, which go kind by kind, over to that order.
- RunFollows: the catalog as a list and the catalog as a function from identities do the same
  at each track, fail at the same one, and stay valid on the way. NamespaceKept says when
  another default namespace leaves every identity what it was, which is what
  `hasInheritedNamespaceTracks` decides.
- RoundTrip and RunAlike: what is encoded and decoded again has the same operations, with tracks
  that differ at most in the fields they have as present. Two catalogs that differ in no more
  than that (`AlikeResults`) stay so at each track, if no clone clears a field.

`Session_proofs`, for any streams, calls of Probe, tokens, requests, their ids and grants:

| theorem | statement |
|---|---|
| ProbesStaySound | `Spec => []ProbesAreSound` |
| ScopeIsEnforced | `Spec => []NothingOutsideScope` |
| TimersOfReplacedGrantsAreIgnored | `Spec => []OnlyTheGrantInForceLapses` |

Assumed are that the names are distinct (a goroutine that closes is no Setup Stream and no
token, a SUBSCRIBE no other request, `None` is none of them), that every SUBSCRIBE has an id
and that `Offers` lists grants. `AuthInv` is about the
authorization alone, and the session's other steps leave it alone. TimersOfReplacedGrantsAreIgnored
needs `GrantInv`: while `w.mu` is free the generation counts the grants made, and the timer of the
generation in force, set or already fired and waiting for `w.mu`, is one that the grant in force
has set, although the older timers may still call.
ScopeIsEnforced speaks of a scope that has been applied; `ServedInv` says of the time before
what a request outside the scope still waits for (a change the loop has not seen, or
a pass that has it among those to close), and `RegisteredInv` that a pass finds every
subscription whose id is its own, whatever others with shared ids do to the map. `CloseInv` (one call closes, and nobody but it
closes the channels) and `SetupInv` (one Setup Stream is read, its signal given once) are
why no channel is closed twice.

`PatternsMeanTheirPathsHolds` is about a grant's patterns, for any texts, roots, paths and any
wildcard names but the empty one and `$`: `ParsePathPattern` refuses exactly the texts that are
not well-formed, `Match` agrees with `Means`, and a pattern read relative to a root matches
nothing outside it. ParsedIs and MatchIs say first what the parser and the loop make of a
text, segment by segment. Of the two directions, an instance that the path is one of
shows where the loop ends (its last segment, or the one before the slash at the end);
conversely InstanceOf reads the wildcards' values off the segments the loop has gone past,
which is possible because a well-formed text has each name once. BeneathTheRoot needs that
the root's literals come first in the joined text, so that the loop cannot end
within them.

`SettledGroups_proofs`, for lists of ranges of any length and any bound:

| theorem | statement |
|---|---|
| CoversIsExact | of a normal list (sorted, disjoint, merged), `Covers(r, lo, hi)` is `lo..hi \subseteq SettledSet(r)` |
| AddIsExact | `Add` keeps the normal form and the bound, and settles what is added and at most the oldest gap |
| AddFits | as long as the sequences leave the ranges room, `Add` settles exactly what is added |
| SettledStaysExact | `SettledSpec => SettledIsExact`, for any additions in any order |

The induction theorems of the library are out of the provers' reach, but nothing here is
recursive, and what takes an induction over the list (how far a merge reaches, how many ranges
there is room for) is proved from a least counterexample (`LeastOf`). `SettledIsExact`
is the property of the run; its inductive invariant `RangesInv` says that the ranges are normal
and hold whatever was added, and AddIsExact is its step: what it gives up is one
gap (`IsExact`: from `p` to `q`, nothing of it settled before), the oldest.

`Subscription_proofs`, for any calls, groups and acceptors:

| theorem | statement |
|---|---|
| AnswersFollowTheProtocol | `Spec => []AnswersWellFormed` |
| EndNamesTheLast | `Spec => []EndCoversOpened` |
| StopIsFinal | `Spec => NothingOpensAfterStop` |
| AcceptorsAreWoken | `Spec => []NoLostWakeup` |
| EofIsTheEnd | `Spec => []EofIsFinal`, if `MaxSeq < 2 * MaxRanges` |

`AnswerInv` ties what has been written to the writer's flags: the end is written once `stopped`
and `endSent` are set, and the OK with `responseStarted`. `OpenInv` is the argument about the
lock: a call that can still open a group holds it shared, so that a closer has waited for it,
and its sequence is not above the counter that SUBSCRIBE_END will name. On the reader's side
`EndInv` makes the end the last answer, so that what `NothingOwed` read does not change
afterwards, and `WaitInv` says of a sleeping acceptor that what its select leaves out has
already happened. `SettledInv` (what is settled arrived or was dropped) is true only while
no gap is given up, which is the hypothesis of EofIsTheEnd: sequences up to `MaxSeq` cannot
leave more than `MaxRanges` ranges apart. In the code the bound is 1024 gaps, and its
comment says that the oldest gap is then treated as settled (`track_reader.go:389-391`):
a group in it is not waited for, and the property does not hold of such a track.

`AnnounceStream_proofs`, for any announcements, settings, closers and receivers:

| theorem | statement |
|---|---|
| NothingIsLeaked | `Spec => []NothingLeaks` |
| ReceiversAreWoken | `Spec => []NoLostWakeup` |
| EndsAgree | `Spec => []Agreement` |
| NobodyElseIsAccused | `Spec => OnlyLocalEndsAreAccused`: an ENDED always finds the announcement it is for, live unless the subscriber's side ended it |
| ViewIsImplemented | `Spec => ImplementsView`: writer, wire and reader implement `AnnounceView` |

`SettingsAssumption` gives the settings their types and makes the snapshot of `init` finite.
NobodyElseIsAccused says what remains of the promise that `announce_relay` violates: it rests on
`EndsHeldInv` (before an ENDED is read, an entry for its path is there or on its way) and
`KeptLiveInv` (what the reader keeps is live, unless its own side ends things).
`Agreement` says that the reader holds *all* the writer does only for a reader that has no scope and
no local ends: the others drop announcements for good reasons.

The invariant relates the two maps through what is on the wire. `ShowsAfter(n, s, a)` says that
the peer will hold `a` for `s` once it has read `n` more messages: the last of them about `s`
says so, or none is about `s` and it does already. `AheadInv` (what the peer will hold
at the end of the wire is what the writer holds), `BehindInv` (the converse), `EndsHeldInv`
(each ENDED finds something to end) and `ReasonInv` (it finds something that died or
was succeeded) are stated with it. `WatchInv` names, for each announcement the writer holds, the handler
or the step of the serving goroutine that will deal with its end. `FollowInv` and `WayInv` follow
the announcement offered last for a path from the channel to the map. The refinement proof takes the reader's
steps one by one: each is a step of `AnnounceView` or leaves `view` alone.

`TrackMux_proofs`, for any layouts, announcements, calls and subscribers:

| theorem | statement |
|---|---|
| NobodyFallsThrough | `Spec => []NodeDelivery` |
| RoutesAreCurrent | `Spec => []RoutingMatchesAnnouncements` |

A layout gives every announcement a path and a prefix, every call an announcement (several calls
may be given the same one), every subscriber a prefix. Nodes are detached and made again while
others hold them, so the invariant cannot speak of paths in the tree. `TreeInv` speaks of
the nodes on a call's way instead: each hangs on the one before it by `parent`, attached or
not, and a node is at one depth for all. Delivery is `SubscribedInv`, `AddedInv` and `SendingInv`: a
subscriber of a node was there before the snapshot, and is still to be sent to, or it
came after, and found the announcement on the node. For routing, `IndexInv`: the entry of a call
that has registered is still its own, or its announcement has ended, or the call that
replaced it is about to end it. `RemoveInv`: whatever is on the node of its prefix has a call that will still remove it.

What is left to TLC: every liveness property (`EndCompletes`, `EndReachesPeer`,
`DownIsCleanedUp`, `AnnounceReturns`, `EndIsReached`, `ClosingReturns`, `CloseReturns`, `CloseUntracks`,
`ViolationEnds`, `ProbeReturns`, `WaitersReleased`, `EndsTogether`, `RevokedEnds`, `CatalogIsDelivered`), because fairness
is beyond the prover.

The three runs that expect a violation have counterexamples and no theorems.

## 5. Where the code and its comments disagree

Three have a run and an entry under `findings`:

* `announce_relay`: an ENDED for an announcement that the receiver's own mux has
  already ended resets the stream as a violation of the peer
  (`announcement_reader.go:113`, comment at 129; `mux.go:126-129`). It happens to
  any reader without a scope whose application has called Close, too (284-302):
  Close finishes only its half of the stream and its context ends the
  announcements, while the decoder reads on, finds an ENDED for one of them and
  answers it with the Duplicated code (113-131). `OnlyLocalEndsAreAccused` says
  that these two are the only ways.
* `mux_notify`: a node is detached when it has neither announcements nor children,
  whoever is subscribed to it (`shouldRemove`, `mux.go:404`; comment at 78-79). When
  the last announcement under a prefix ends, a listener that has been registered
  there all along hangs on a node outside the tree, and what is announced
  there next makes a new node and never reaches it. It needs no race: deciding
  and detaching under one lock (404-410) would not change it, only looking at
  `subscriptions` would.
* `subscription_early`: a group faster than the registration of its reader is
  refused (`session.go:548-581`, comment at 578-579).

Others, found while modelling, that have no run of their own:

* `announcement.go:47`: "invoked synchronously", but AfterFunc on an ended
  announcement starts a goroutine (116). `announcement.go:48`: stop answers true
  "if it hasn't executed yet", but false once end() has taken the handlers, run or
  not (130-132).
* `mux.go:220` "unconditionally": removeAnnouncement stops at the first node that
  is not empty, so an ended announcement stays in the ancestors' sets.
  `RoutingMatchesAnnouncements` therefore speaks of the leaf only.
* `mux.go:152` "if it is not already registered": announcing an announcement again
  replaces its own entry and ends it (127).
* `internal/message/subscribe_ok.go:33-34` "the first group that will be delivered": with
  concurrent OpenGroup calls a later sequence may be the one that answers.
* `track_writer.go:111` "the last opened group sequence": an open that failed has
  advanced it.
* `server.go:732-733` "all sessions": a native session that starts after the
  manager was taken is tracked by nobody (616); `websocket.go:161-173` checks.
* `server.go:856-858` "closing the connection with a timeout error if needed": not
  when GOAWAY could not be sent (861-874), and Shutdown then waits without limit.
  That is why no property says that Shutdown returns.
* `session.go`, `Probe`: when the publisher ends its half of the probe stream the
  reader goroutine stops, while later calls go on using the stream (866), so no
  answer is read any more; and the channel is not closed when the transport's
  CloseWithError fails (475-483).
* `auth.go:210-213` "what it no longer covers is cancelled": a pass goes through
  `trackWriters`, which is keyed by the id the subscriber chose (`session.go:1342-1354`;
  its own side counts them up, 691-694). A subscription whose id another one has
  used since has no entry, and the pass does not reach it. `NothingOutsideScope`
  speaks of subscriptions whose id is their own (`OwnId`); the model has the others too.
* `msf/broadcast.go:25-26` promises that a slow catalog subscriber does not hold up
  the broadcast. A slow media subscriber can: SetCatalog, RegisterTrack and RemoveTrack
  close writers with `b.mu` held, and `TrackWriter.Close` waits for an OpenGroup that
  waits for the peer's credit. `CatalogIsDelivered` and `RevokedEnds` hold because such
  a group is assumed to get its credit or to lose its subscriber.
* After `Close` of an msf Broadcast, RegisterTrack still registers a handler and serves
  it; only catalog subscriptions end.
* A clone that clears a field by giving it empty (`presentFields`,
  `catalog.go:296-298`) applies as decoded, but loses the override when it is encoded
  again, because only non-empty fields are written. `DeltasApplyAsWritten` leaves these out of its
  third part (`NothingCleared`).
* Several AcceptGroup callers share the one token of `queuedCh`: with two groups
  queued and two callers asleep, one wakes. `NoLostWakeup` says that not all sleep.

## 6. What is not modelled, and the plan

Not modelled because it has no protocol state: TLS and listener set-up, HTTP
routing, the QUIC, WebTransport and qmux wrappers, logging, counters, commands,
examples, build targets. Congestion, loss and retransmission belong to the
transport, whose streams are reliable and ordered until they are reset.

Not modelled, though it has state:

* *Flow control of a stream's bytes*: an encode fails or succeeds and never blocks.
  SendAnnouncement encodes with `aw.mu` held, so a peer that stops reading holds
  up the overflow reset and Announce (hazard at `announcement_writer.go:298`).
* *Update and the queue of drop notifications*: `updateSubscribe` stores its config
  after sending it (`send_subscribe_stream.go:222`), so two callers may store in the
  other order; `acceptDrop` re-appends what it did not return (`track_reader.go:130`), behind
  what came in between, and the queue grows when nobody reads it (237). No document
  promises an order or a bound, so that no property could be stated against the code.
* *Requests*: what a FETCH's group carries, and the requesting sides of Fetch and
  TrackInfo, which write one message and read one answer; following a Redirect.
* *Session*: our own SETUP, bitrate values, GOAWAY's handler.
* *Mux*: Publish's context, TrackInfo handlers. *Server*: listener set-up.
* *Data*: frame buffers, varints and message framing; timelines and variables of
  `msf`, and the JSON of the fields that have no rule of their own.
* *moq-web*: a second implementation, in TypeScript, single-threaded.
* *Dialer and migration*: set-up code with a retry of its own.

What could come next, most important first: an Encode that blocks, in
`AnnouncementWriter`; redirects with their limit; group and frame edges (`start = 0`
for none, `Next()` at the largest value); *moq-web*'s queue, announce and subscribe
streams, as modules in which a step ends at an `await`.
