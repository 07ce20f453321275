# rs_torrent in TLA+

A verification project for `rs_torrent`, a BitTorrent client in Rust on tokio.
TLA+ modules model the parts whose correctness depends on order, interleaving
and failure; TLC checks them on small instances; TLAPS proves the main results
for every torrent, every set of peers and every pipeline depth. Paths below are
relative to the repository.

    tlc -workers 2 -config MCPeerWorkersBudget.cfg MCPeerWorkersBudget.tla
    tlapm PeerWorkersProofs.tla

`PROJECT.json` lists the runs with their properties, the mutations of the model
each property is known to catch, the source lines behind every definition, the
hazards of the code with the properties that cover them, the findings and the
theorems.

## 1. The system

| component | source | state | operations |
|---|---|---|---|
| download state | `src/peer/state.rs` | `pieces`, `piece_blocks`, `requested_blocks`, bytes uploaded; one tokio `Mutex` | pick and mark a block, store a block and check the SHA-1 of a full piece, unmark, serve a block, write the file |
| peer workers | `src/peer/client.rs`, `connection.rs`, `stats.rs` | one task per peer: `PeerConnection` in the shared table, the task's locals across awaits | connect and greet, receive a message or tick, time requests out, request a batch, flush uploads and metadata answers, keep-alive, clean up |
| connection table | `src/peer/pool.rs` | slots, index from address to slot, stack of free slots; one `Mutex` | insert, get, get_mut, remove, contains_key, iter, iter_mut |
| upload and metadata queues | `client.rs` 344-431, 946-1008 | `pending_uploads` (limit 16), `pending_metadata_responses` | enqueue, cancel, flush four uploads, flush all metadata answers |
| pipeline statistics | `stats.rs` | three counters and a maximum; a third `Mutex` | count requests, responses, timeouts |
| metadata fetch | `src/peer/metadata.rs` | pieces received, requested flags, waiting flag, retry count; a `JoinSet` of five attempts | request, receive, retry; start the next peer on failure, abort the rest on success |
| messages, handshake | `message.rs`, `handshake.rs` | the bytes read so far | encode, decode, bitfield bits |
| trackers | `src/tracker/` | a UDP socket and a transaction id | UDP connect and announce, HTTP announce |
| session | `src/lib.rs` | the reannounce task and its interval | announce, connect, monitor, announce completion, abort, write |
| torrent, magnet, bencode | `torrent.rs`, `bencode_parser/` | none | parsing |
| command line, examples | `bin/cli.rs`, `examples/` | none | argument parsing, printing |

How they interact. A session builds a `DownloadState` from the parsed torrent
and a `BitTorrentClient` around it, hands the tracker's peers to
`connect_to_new_peers`, and starts a task that announces again at every
interval. Each peer gets a `peer_worker` task. The tasks share three mutexes
(download state, connection table, statistics) and nothing else; a scope that
takes two takes the download state first. A reader task per connection turns
bytes into messages and passes them over a channel; the end of the stream, an
error or a frame that does not decode closes that channel.

What is hard here.

- **A request has two records**: its block is in `requested_blocks`, so that no
  other peer is asked for it, and in the `pending_requests` of one connection,
  so that it can time out. The two are written under different locks, in
  different scopes, in either order. Any path that drops the second without the
  first loses the block for ever: no peer is ever asked for it again.
- **Answers do not follow requests**: a request times out, is asked again
  elsewhere, and the first answer comes; an answer has wrong bytes, or another
  length than the request; the piece it belongs to is complete by then.
- **Every socket operation may fail**, while greeting, in the middle of a
  batch, while flushing, and the clean-up must know what was in flight.
- **The table is consulted long before it is filled**: `connect_to_new_peers`
  looks up the address, the handshake takes seconds, then the entry is made.
- **Progress** depends on every marked block being unmarked in the end, and on
  the loop of a worker that has nothing to request still reaching its check
  for completion.
- **The metadata fetch** keeps a counter, two sets of flags and a retry count
  about what it waits for; an answer may come after its request was repeated,
  and a failed peer must be replaced before the pool is given up.
- **The upload path** holds the download-state lock over a socket write without
  a timeout, in a program where every task needs that lock in every round.
- **The tracker exchange runs over datagrams** that may be lost, repeated or
  late, with one read per request into a buffer of 2048 bytes, no retry and a
  clock for transaction ids.
- **The session races its monitor with its reannounce task**: one decides that
  the download is complete, announces, aborts the other and writes; the other
  may be anywhere between its check for completion and the peers it connects.
  It announces to a tracker that need not answer before it writes.
- **The conversions** are short and full of edges: an integer that is narrowed,
  the last piece, the last byte of a frame, the end of a dictionary found by two
  different parsers.

What makes each part correct.

- *download state*: a piece is kept only with the right content, and is then
  never lost or replaced; a failed hash makes every block wanted again.
- *peer workers*: no requested block is orphaned; what is pending was sent; the
  pipeline stays within its depth; the download completes and the tasks leave.
- *connection table*: it is a map; no slot is shared, handed out twice or lost.
- *uploads*: no two tasks wait for each other, whoever waits for a lock gets it
  as long as writes end, and an accepted request is answered.
- *metadata fetch*: it ends; with success only if every piece came; it fails
  only when every peer has.
- *trackers*: an announce returns what the tracker answered in this exchange, as
  far as it fits into the buffer.
- *session*: after the abort no check lets an announce begin; a complete download is written,
  and is still complete then; while it is not complete the task goes on
  announcing; a magnet link gives up only when no tracker had a peer.
- *messages*: the reader never loses its place in the stream, and the connection
  knows what the peer has; a request is answered with the bytes it names.
- *bencode*: the parser accepts the grammar and nothing else; the raw bytes of a
  dictionary are its own; the scanner and the parser agree.
- *torrent*: the same info dictionary gives the same geometry by file and by
  magnet link, and one that the download state can subtract by.

## 2. What is modelled

### `DownloadState` — `src/peer/state.rs`

The geometry (`get_actual_piece_length`, `get_blocks_in_piece`), the three
fields the block-based download uses, and its operations. A block is its piece
and its position in it. `IsPicked(B, bitfield, start, n)` says that `B` is what
`n` rounds of `pick_block` and `mark_block_requested` return: the first `n`
wanted blocks in scan order from the peer's own offset. `complete_block` stores
the block, and when the piece is full assembles it, compares the hash, keeps
the piece or discards all its blocks.

Block contents are the three cases the hash check tells apart: the right bytes
(`good`), wrong bytes of the requested length (`bad`), and bytes of another
length (`misfit`). The last matters because `BlockInfo` contains the length and
`handle_piece_message` builds it from the payload (client.rs:468-472): a misfit
answer is a different `BlockInfo`, so it clears neither `pending_requests` nor
`requested_blocks`, and yet its data takes the block's place.

`GeometryAssumption` is what the other modules rely on from a parsed torrent:
the last piece is not empty and not longer than the others. The code does not
check it; the subtraction at state.rs:118 needs it.

### `PeerWorkers` — `src/peer/client.rs`

Any number of tasks running `peer_worker`, over the download state and the
table. `pc[w]` is where a task is between two points at which another can run,
so every action is one lock scope, one socket operation or one message:

| `pc` | actions | code |
|---|---|---|
| `idle` | `Spawn` | `connect_to_new_peers` 802-830 |
| `connecting` | `Connect`, `ConnectFails` | 51-112 |
| `greeting` | `Greet`, `GreetFails` | 114-162 |
| `recv` | `RecvNothing`, `RecvChoke`, `RecvUnchoke`, `RecvHave`, `RecvBitfield`, `RecvPiece`, `RecvClosed` | 166-184, 253-342, 434-485, 1014-1045 |
| `store` | `StoreBlock` | 493-531 |
| `timeouts` | `NoTimeout`, `ClearTimedOut` | 716-723 |
| `expire` | `ReleaseTimedOut` | 725-739 |
| `download` | `CheckCanDownload` | 534-573 |
| `pick` | `PickBatch` | 613-651 |
| `add` | `AddPending` | 653-661 |
| `send` | `SendAll`, `SendFails` | 663-678 |
| `unsend` | `WithdrawUnsent` | 680-697 |
| `check` | `CheckComplete`, `WriteFails` | 198-232 |
| `cleanup` | `CleanUp` | 234-250 |

`blocks[w]` and `data[w]` are the locals a task carries over an unlocked
stretch; `connected` and `conn` are the table, taken as a map (which
`ConnectionPool` is shown to implement). `asked[w][b]` belongs to the
environment: how many requests for `b` on `w`'s TCP stream have no answer yet.

The environment, that is the peers and the network. A peer answers only
requests it has received, on the connection it received them on, at any time,
with any data, and once per request; a misfit answer does not use a request up.
Any write may fail, any stream may end at any point, any pending requests may
be found to be older than the timeout, and `Bitfield`, `Have`, `Choke` and
`Unchoke` may come at any time. A message whose handler returns an error ends the loop like
the end of the stream (`RecvClosed`). The Bitfield of a peer is long enough for
the pieces it announces later. Wrong bytes never assemble to the right piece.

### `VerifiedDownload`

What the caller is promised (`README.md:14`): pieces are kept one at a time,
only with the right content, and never change afterwards. `KeepsPromise` says
that `PeerWorkers` implements it, with `kept <- pieces`.

### `ConnectionPool` and `AddrMap` — `src/peer/pool.rs`

The slots, the index, the free stack and every operation on them. `get_mut` is
modelled with the change its caller makes. `AddrMap` is a plain map from
addresses; `ImplementsMap` shows the pool implements it with
`table[a] <- get(a)`. Slots are numbered from 1. `len` and `is_empty` only
read the index.

### `MetadataFetch` and `FirstSuccess` — `src/peer/metadata.rs`

`attempt[p]` holds the local variables of `fetch_metadata_from_peer` under
their own names, the vectors of pieces and of flags as sets of indices;
`task[p]` is where the task of peer `p` is; `spawned` is the position of the
iterator over the peers; `result` is what `fetch_metadata_from_peers` returns.

| `task` | actions | code |
|---|---|---|
| `unspawned` | `Init`, `JoinFailed` (of another peer) | 38-43, 51-57, 62-82 |
| `connecting` | `Handshake`, `HandshakeFails` | 84-146 |
| `loop` | `Request`, `RequestFails`, `Assemble`, `AssembleFails` | 148-168, 226-250 |
| `receive` | `ReceivePiece`, `ReceiveOther`, `ReceiveReject`, `ReceiveError` | 172-223 |
| `ok`, `failed` | `JoinOk`, `JoinFailed` | 46-57 |
| `joined`, `aborted` | none | |

`JoinNone` is `join_next` on an empty set. A task that panics is joined like
one that failed. The local variables and the stream of an attempt are dropped
when it ends, so `Dropped` resets them.

`owed[p][i]` belongs to the environment: the requests for piece `i` that peer
`p` has received and not answered. A peer answers a request once, at any time,
also after the attempt asked again, and does not send a piece nobody asked for;
it may reject, send any other message, stay silent (`ReceiveError` with the
stream intact), or leave the stream inside a frame or closed (`"broken"`:
nothing can be read from it any more). What a piece contains is not told apart;
the code's only check of the result is that it is bencode, and `AssembleFails`
is the outcome in which it is not.

`FirstSuccess` is what the caller is promised: each peer's attempt settles
once, and the fetch returns `ok` only if one succeeded and an error only when
all have failed. `KeepsPromise` says that `MetadataFetch` implements it, with
`outcome` read off `task`.

### `Uploads` — the two mutexes and the upload queue of `src/peer/client.rs`

`PeerWorkers` takes a scope that holds both mutexes as one step. Here the same
loop is seen from the mutexes: `mutex[l]` is the line for `l`, whose head holds
it (tokio's mutex is first come, first served); `Scope` gives for each step of
the loop the mutexes it takes and in which order; `Ask` joins a line, and a
step runs when its task holds all of its scope (`Inside`) and then releases
them. `Serve` is the exception the code makes: it holds the download state
from one socket write to the next. While it does, `Writing(w)`, and nothing
says that the write ends: the code gives it no timeout, and a peer may keep the
connection open without reading.

| `pc` | mutexes | actions | code |
|---|---|---|---|
| `recv` | none | `RecvNothing`, `RecvRequest`, `RecvCancel`, `RecvPiece`, `RecvClosed` | 166-184, 319-326 |
| `enqueue`, `cancel` | connections | `Enqueue`, `CancelUpload` | 344-362, 325-337 |
| `answered`, `store` | both; download state | `RemovePending`, `StoreBlock` | 474-531 |
| `download` | both, or none | `Download`, `SkipDownload` | 540-678 |
| `take`, `serve` | connections; download state | `Take`, `Serve`, `ServeFails` | 946-983 |
| `check` | download state | `CheckComplete`, `WriteFails` | 203-232 |
| `cleanup` | both | `CleanUp` | 234-250 |
| `gone` | none | `Connect` | 802-830 |

A scope that takes one mutex and changes nothing modelled here (timeouts,
flags, keep-alive, progress figures of the monitor) delays those that wait and
is left out; the scope that takes marks back after a failed send takes both in
the same order and is part of `Download`, as is `print_peer_diagnostics`.
Requests are told apart by piece: `get_piece_block` gives nothing for a piece
that is not kept or a block that exceeds it, and such a request is dropped
without an answer. `wire[w]` is what `w` has written since it last read. Each
task has an address of its own.

### `Trackers` and `Session` — `src/tracker/`, `src/lib.rs`

`announce[t]` is the latest exchange with tracker `t`. Over HTTP it is one
request, and the response is what the checks of `http.rs` tell apart. Over UDP
it is a connect and an announce:

| `st` | actions | code |
|---|---|---|
| `connecting` | `UdpConnect`, `UdpFails` | `udp.rs` 42-90, 182-212 |
| `announcing` | `UdpAnnounce`, `UdpFails` | `udp.rs` 104-161 |
| `http` | `HttpAnswer`, `HttpFails` | `http.rs` 44-130 |
| `ok`, `err` | taken by the session | |

`inbox` is what the network may still deliver: a datagram that was delivered
stays (it may come twice), one that never comes is lost, and a socket may
receive the datagrams of an earlier exchange, with its own tracker or another
(`Late`), since neither socket looks at who sends (`udp.rs:59`, `133`). The code
takes the first datagram that comes, checks length, action and transaction id,
and gives up if they are wrong. The list of an answer is read into 2048 bytes;
what is longer is cut, and as the cut falls between two peers it passes the
check (`Cut`, with room for `MaxUdpPeers`).

Transaction ids are seconds of the clock, although the comment at `udp.rs:31`
calls them random. Only equality with the id of the request matters, so seconds
are relative: `now` says that a datagram carries the second of the latest
request. Before a request the clock may have moved on or not (`later`); it always
has between two exchanges, unless the interval slept is 0, which the code accepts
(`udp.rs:152`, `http.rs:114`; that the system clock is not set back is assumed).
`own` says that a datagram answers a request of
this exchange, and `same` that the exchange began in the second of the one
before; the code sees neither.

`Session` is both `download_from_torrent_file` and `download_from_magnet`:

| `main` | actions | code |
|---|---|---|
| `file`, `announce` | `AnnounceFile`, `AnnouncedFile` | 30-59 |
| `magnet`, `collect` | `AnnounceMagnet`, `Join`, `JoinNone` | 196-231 |
| `fetch` | `FetchMetadata` | 233-247 |
| `connect` | `ConnectInitial` | 61-67, 249-268 |
| `monitor` | `SeeComplete` | 124-159, 309-353 |
| `completing` | `AnnounceCompletion` | 160-177 |
| `write` | `WriteFile` | 179, `state.rs` 300-311 |

| `re` | actions | code |
|---|---|---|
| `sleep` | `Wake` | 71 |
| `check` | `CheckComplete` | 73-80 |
| `begin` | `Reannounce` | 81-89 |
| `announce` | `Reannounced` | 91-115 |
| `connect` | `ConnectNew` | 117-121 |
| any of these | `Dropped`, once `aborted` | 177 |

The state is unlocked between `CheckComplete` and `Reannounce`, and on the
multi-thread runtime the last piece, the monitor, the announce of completion and
the abort may all fall there. An aborted tokio task does not go on from an await
that has nothing for it yet, but what it runs when the abort comes runs to the
next such await. So `Wake` needs that the task is not aborted, every other step
may come after the abort, and `Dropped` may come instead at any of them. The
reannounce task announces to the first tracker only. The announce of completion
goes through the HTTP client (`lib.rs:20`), which refuses the URL of a UDP
tracker at once and has no timeout for an HTTP tracker; its outcome is only
printed. The workers are reduced to
what the session sees of them: a piece may arrive while peers are worked on
(`Keep` of `VerifiedDownload`), a peer may leave. The fetch of the metadata has
one of its two outcomes.

### `Bencode`, `MetadataMessages` — `src/bencode_parser/`, `src/peer/metadata.rs`

A source is a sequence of characters. `parse_value` and the operators under it
follow the nom combinators: `ok`, the value and where it ends, or a failure.
`Raw` is the slice of a dictionary that the info hash is computed from.
`find_bencode_end` is the scanner that finds where the dictionary of a metadata
message ends without parsing it. The grammar (`IsValue` and what it uses) is
written on its own: it says what may stand between two places and consumes
nothing. Where the code recurses, `Parser`, `Scanner` and `Grammar` are functions
of the place in the source (with the depth, or the place where it ends), and
each operator under them says what stands at a place by what stands at others.
What is left out is the call stack: deep nesting exhausts it in the parser,
and the model has no such limit.

`MetadataMessages` builds on it the handshake, request, data and reject
messages, the parsers that read them, and `handle_extended_message`, which
answers. A text that `format!` writes is the sequence of its characters: the
names of the fields are in `Key`, the digits of a number come from `Decimal`.
`metadata` is the info dictionary of a client, if it has one. `Options` (a result that may be missing) and `Widths` (the integers of
32 and 64 bits) are shared with `Wire` and `TorrentFile`.

### `Wire` — `src/peer/handshake.rs`, `message.rs`, `client.rs`, `state.rs`

The handshake and the checks of `perform_handshake`, messages as bytes, bitfield bits, `read_raw_message` as a state machine over a
stream that breaks at any byte, what `process_message` makes of a Bitfield and
a Have, and `handle_piece_request` down to the bytes of `get_piece_block`. The
peer keeps to the protocol: it sends a Have for every new piece, and a Bitfield,
if and whenever it sends one, says what it has then. It may put keep-alives
between its messages and may send a message this program does not know
(such as Port), which ends the reader. `sent` logs with each message the pieces
the peer then had. The client itself never sends a Bitfield
or a Have: `build_bitfield` has no caller and stands here for the peer's.

### `TorrentFile` — `src/torrent.rs`

From the decoded dictionary to the geometry, with integers of 32 and 64 bits as
`% W32` and `% W64`; a field is absent, of the right kind, or of another. Sums
wrap round as in a release build; a debug build panics there.
`parse_torrent_bytes` requires `length`, so that every `.torrent` of several
files is refused (finding 6), while `parse_info_dict_bytes` sums its files: the last
clause of `SameTorrent` is about torrents of one file. The field
`length`, which only the URL of the completion announce uses, keeps 32 bits.

`MCParts` puts the four and the connection table on subjects of their own, one
run with five kinds of initial state.

The repository's `README.md:17` calls serving metadata to other peers "stubbed
out"; at this commit it is not: `handle_extended_message` answers requests, and
`MetadataServed` is about just that.

## 3. Plan

Done: the modules above, their runs and proofs. What would come next, in this
order:

1. **Magnet links**: `parse_magnet_link`, as the splitting and percent-decoding
   of a query over a small alphabet, with the interval and tracker list it
   hands to `Session`.
2. **A worker that panics**: `PeerWorkers` with a task that ends without its
   clean-up (a metadata message can do that, see section 7).
3. **`PipelineStats`**: conservation of requests, responses and timeouts across
   the tasks.
4. **`pending_metadata_responses`** as a second queue of `Uploads`.

## 4. Runs

| run | question | bounds | states |
|---|---|---|---|
| `workers_two_pieces` | Do the safety properties survive what can go wrong, with a short last piece, partial peers and batches that span pieces? | 2 workers, 2 addresses, pieces of 2 blocks and 1, depth 2, batch 3, 2 adverse events | 933,627 |
| `workers_liveness` | Does the download complete, and do the workers leave? | 2 workers, 1 piece of 2 blocks, 1 adverse event | 17,476 |
| `metadata_fetch` | Does the fetch ask for what it waits for, keep its pool full, and return? | 4 peers, 2 attempts at once, 3 errors in a row, up to 2 pieces | 61,646 |
| `uploads` | Do the tasks get their locks, and the peers their answers, as long as writes end? | 2 tasks, 2 pieces, the limits of the code | 11,542 |
| `session` | With a UDP tracker, is a complete download written, and does everything then come to rest? | 2 trackers (UDP and HTTP, the torrent's is the UDP one), 2 peers, a buffer for 1, 2 pieces, intervals -1, 0 and 60, 2 peers enough | 414,074 |
| `parts` | Is the table a map, and do the conversions do what the other modules take for granted? | 3 addresses, 2 connections, 5 slots; conversions see below | 650,432 |
| `shared_address` | finding 1: two workers for one address | 2 workers, 1 address | counterexample |
| `dead_greeting` | finding 2: a write error while greeting | 1 worker | counterexample |
| `residue` | finding 3: late answer for a complete piece | 2 workers | counterexample |
| `stuck_write` | finding 4: a write that never ends stops every task | 2 tasks, 1 piece | counterexample |
| `http_completion` | finding 5: a silent HTTP tracker keeps the file from being written | 1 tracker (HTTP), 2 peers, 2 pieces | counterexample |
| `multi_file` | finding 6: torrents of several files are refused | as `parts` | counterexample |

What the properties say.

- `NoOrphan`: every block in `requested_blocks` is one some live task answers
  for: it holds the block between two scopes or has it pending. This is the
  property the two-record scheme is for.
- `TaskInv`: from greeting to clean-up the entry a task works on is there and
  is its own, and what it carries over an unlocked stretch describes it.
- `PendingWasSent`: a batch that breaks off leaves nothing pending that the
  peer never saw.
- `PipelineBounded`: picked under one lock, added under another, the pipeline
  stays within `MAX_PIPELINE_DEPTH`.
- `KeepsPromise`: the refinement of `VerifiedDownload`.
- `Completes`, `TasksStop`: liveness.
- `PoolInv`, `IteratorsAgree`, `LeaksOnlyByReinsertion`, `ImplementsMap`: the
  table. Reinsertion over an address that is present does lose a slot; nothing
  else does.

- `CountMatches`: the counter that ends the metadata loop is the number of
  pieces that are there, though answers come twice.
- `AlwaysAsking`: an attempt that reads waits for exactly one missing piece,
  which it has asked for since the last error. It never waits for an answer
  nobody owes, and never asks for two.
- `PoolFull`: `CONCURRENT` attempts while peers are left, and never more.
- `KeepsPromise` of `MetadataFetch`: the refinement of `FirstSuccess`.
- `FetchEnds`: the fetch returns.

- `LockOrder`: no task that holds the connections waits for the download state.
- `LocksGranted`: a task that waits for a mutex gets it, if writes end
  (`WritesEnd`); `LocksAlwaysGranted`, without that condition, is finding 4.
- `AnsweredAtOnce`: a task that reads a message has dealt with all requests it
  read before. The loop flushes four requests after every single message, so
  the queue never holds more than one: the limit of 16 is never reached, and a
  `Cancel` never finds the request it is about.
- `Answered`: if writes end, a request for a kept piece is answered unless the
  connection ends. Both conditions are about every task's writes: one that never
  ends keeps the others from the download state.

- `OwnAnswer`: what a UDP announce returns is the tracker's answer to this
  announce, cut to the buffer, not an error, a short or a late datagram, if it
  began in another second than the exchange before. With an interval of 0 it may
  not, and a stale list is then taken: the model has these behaviours.
- `WritesWhole`, `SessionWrites`: after the monitor the download is still
  complete at the write, and with a UDP tracker the session gets there; with an
  HTTP tracker it need not (finding 5).
- `GivesUpRightly`: no peers from a magnet link means all trackers answered
  without one.
- `QuietAfterAbort`: after the abort no check lets an announce begin, and at most
  one begins, that of a task which was past its check then. (That it is one only
  follows from the first clause: a task leaves `begin` when it announces, and does
  not come back to it.)
- `KeepsAnnouncing`: while the session waits the task announces again through
  any failures of a UDP tracker, unless a tracker has named a negative interval:
  taken as `u64` it is longer than any download.
- `ComesToRest`: once complete, workers leave and the task ends. Peers may
  still be connected after completion, by a reannounce under way.

- `ReaderFollows`: nothing is read of a peer whose handshake names another
  torrent; what the reader passes on is what the peer sent, and after a
  Bitfield the connection knows exactly what the peer has. Without a Bitfield no
  Have is remembered (client.rs:295), and the property says nothing then.
- `BlocksServed`: a request is answered if and only if the block is in a piece
  we have, with its bytes.
- `ParsesGrammar`: `parse` accepts exactly the sequences of values.
- `DictionariesExact`: wherever the parser reads a dictionary, at any depth and
  whatever follows it, its raw bytes alone parse to that dictionary and to
  nothing else; and where a source begins with a dictionary of the grammar, the
  scanner ends where the dictionary does.
- `MetadataServed`: a fetch that asks this client gets the info dictionary byte
  by byte, whatever bytes it has, and one piece more is rejected.
- `SameTorrent`: both parsers give the same geometry, the size described, and
  what `GeometryAssumption` of `DownloadState` asks for. `FilesParsed`, that a
  well-formed file is not refused, is finding 6.

Why the bounds are enough. Two workers are what every race here is between;
symmetry makes their names irrelevant. Two blocks are needed for a batch to
break in the middle and for a piece to be half full; the second piece, of one
block, brings the short last piece and a batch across pieces. A batch of 3 and
a depth of 2 keep the order `MAX_PIPELINE_DEPTH < BATCH_SIZE` of the code (10
and 16). `MaxCopies = 2` bounds only the counter of the environment: a third
unanswered copy of a request is not told apart from the second. `MaxAdversity`
bounds the adverse events of a behaviour; the theorems have no such bound. The
liveness instance has one piece of full length: the short last piece is in
`workers_two_pieces` only. `MaxSlots = 5`
is more than the three addresses need, so that leaked slots occur. Four peers
for a pool of two make the pool refill twice; with two pieces an answer can
come late while the other is awaited; `MAX_RETRIES` has its value in the code,
and peers may announce a size of zero. `CONCURRENT` is 5 in the code; the
theorems do not depend on it. In `uploads` the two
limits are those of the code. In `session` one tracker of each kind, lists of
nobody or both peers, the second of which the buffer cuts to one, and two peers
as enough (`EnoughPeers` is 50 in the code, the buffer takes 338, and
`DefaultInterval` is 1800) let a magnet link stop early, run out of trackers, or
go on with one peer; the intervals are one of each kind. With one UDP tracker
late datagrams are those of its own earlier exchanges; those of another tracker
are in `AnswersAreOwn` only. In `parts` a source is up to five of ten fragments
(structure, digits, signs, the starts of strings), enough for a dictionary with
a key and a value or one in another; info dictionaries are up to five bytes, each of which
could be the end of what it follows, in pieces of two; the 11,760 files have
each field absent, of another kind, negative, and at and around the widths,
which are 8 and 64 for 2^32 and 2^64, with hashes of two bytes for 20; nine
pieces make a bitfield of two bytes with spare bits; at first a peer has none of
them or the first and the last of the first byte (`Had`), and it may come to
have one more in each byte (`News`); three frames hold a
Bitfield, a Have after it and whatever breaks off; one frame may follow the
handshake before it is read (`MaxEager`), which is what it takes for bytes to
be left behind it.

`CHECK_DEADLOCK FALSE` appears in the runs where greeting may fail: when it
has failed for both addresses both stay in the table, no task serves them and
none is ever started (finding 2). The system has then really stopped. In
`metadata_fetch` the system stops when the fetch has returned, in `session`
when the write is done and the task has ended, in `parts` when the subject has
its full size.

Fairness (`LiveFairness` in `MCPeerWorkersLive`). Weak fairness on the steps of
a task that wait for nobody, because tokio runs a task that is ready and its
timers fire, and on `Connect` (a dial ends) and `Spawn` while the download lasts, because the
reannounce task hands the same peers in again. Strong fairness on `RecvUnchoke`,
`RecvBitfield` and each `RecvPiece` with good data: a peer that is connected
time and again unchokes, announces and answers in the end. A worker that
selects between a message and the 100 ms tick can miss a message in any one
round, so weak fairness would not say this. Failing greetings are left out of
this specification: after one the peer is lost (finding 2) and the download
may never end.

Fairness of `MetadataFetch`. Weak fairness on the steps of a task and of the
pool, because tokio runs what is ready and connections and handshakes have
timeouts. Strong fairness on `Answer`: a read ends within `READ_TIMEOUT`, with
a piece, a reject, an error or an unrelated message; a peer does not send
unrelated messages for ever. A peer that did would hold its attempt, since
messages of other kinds count neither as an answer nor as an error; this
assumption is about the peers, the code does not enforce it.

Fairness of `Uploads`. Weak fairness on joining a line and on a task's own
steps, except while it writes (`Writing`): nothing in the code ends a write to a
peer that keeps the connection open and does not read. `LocksGranted` and
`Answered` name the missing part themselves, as the condition `WritesEnd`, and
`stuck_write` shows what comes without it. The liveness properties of the other
modules presuppose it too, since completion is looked up in the download state:
`PeerWorkers` and `Session` do not have the upload path.

Fairness of `Session`. Weak fairness on the steps of the session and of the
task (timers fire), except the announce of completion if the tracker is not UDP;
on a worker leaving once the download is complete (it looks in every round, see
`TasksStop`); and on the end of a UDP exchange, which has a timeout. Nothing is
assumed of an exchange over HTTP: the client is built without a timeout
(`http.rs:10-15`), so that a tracker that accepts a connection and says nothing
holds up the first announce, the reannounce task, or the write of a complete
file (finding 5). Nothing is assumed of the arrival of pieces.

## 5. Findings

1. `shared_address` (client.rs:807). The address enters the table only after
   the handshake, so a second list that names the peer, or a duplicate in one
   list, starts a second worker for it. Its `insert` replaces the entry and the
   first one's pending requests with it: they stay in `requested_blocks` and
   belong to nobody, and no peer is asked for these blocks again.
2. `dead_greeting` (client.rs:119, 126, 132). A write error while greeting
   leaves `peer_worker` before its clean-up; the entry stays and the peer is
   filtered out as connected for ever.
3. `residue` (state.rs:157). A late answer for a piece that is complete
   recreates its block store, and nothing removes it.
4. `stuck_write` (client.rs:977). Blocks are written to the socket under the
   download state and without a timeout. One peer that asks for blocks and then
   stops reading, with the connection open, stops every worker, the monitor and
   the reannounce task.
5. `http_completion` (lib.rs:165). The announce of completion is awaited before
   the file is written, by an HTTP client without a timeout: a tracker that never
   answers keeps a complete download from the disk, though the code means its
   failure not to matter.
6. `multi_file` (torrent.rs:87). `parse_torrent_bytes` asks for `length` first
   and refuses every torrent of several files; `README.md:8` of the repository
   says that it parses them.

Two smaller ones have no run. `pick_block` (state.rs:62) goes through the pieces
in the order of their index and does not prefer those already started, as
`docs/BLOCK_BASED_DOWNLOAD.md:51` says it does; `IsPicked` states the order.
The transaction id that `udp.rs:31` calls random is the clock in seconds, so that
with an interval of 0 two exchanges can share one and a late list of the first
is taken for the answer of the second; this is the exception in `OwnAnswer`.

## 6. Proofs

`PeerWorkersProofs`, `ConnectionPoolProofs`, `MetadataFetchProofs`,
`UploadsProofs`, `SessionProofs`, `WireProofs`, `BencodeProofs` and
`InfoDictProofs`. Every theorem is proved for all values of the constants
that satisfy the named assumptions of the modules, or those it states itself.

**Without further assumption** (two tasks may serve one address):
`TypeCorrect` and `DownloadKeepsPromise`. The inductive invariant is
`SharedInv`: the type invariant; `Verified`, every kept piece is good; and
`CarriesData`, a task about to store a block carries its data. A step of
`StoreBlock` maps to `Keep` of the abstract specification or to a stutter,
because `complete_block` keeps a piece only when the hash matches, and then the
piece was missing or already the same; every other step leaves `pieces` alone.

**Under `OneTaskPerAddress`** (no two tasks for one address, which is what
finding 1 violates): `TasksKeepTheirConnection`, `NothingOrphaned`,
`PendingRequestsWereSent`, `PipelineStaysBounded`. `NoOrphan` is not inductive:
a task in `add` owns its batch only if the entry it will add to is there; a
task in `unsend` gives marks back only for what is pending; `CleanUp` releases
what is pending on the entry, which must be its own. `IInv` adds `TaskOK` for
every task, `Sent` (what `PendingWasSent` says), and `Bounded`, which also
counts a batch that is about to become pending. The proof has one step per
action, with the lemma that a step of one task leaves the entry and locals of
another alone (this is where `OneTaskPerAddress` enters). `PipelineBounded`
needs that `BlockInfo` is finite, proved from the geometry.

**Connection table**: `PoolTypeCorrect`, `PoolConsistent` (`PoolInv` with the
type is inductive as it stands), `IteratorsVisitTheSame`,
`LeaksOnlyByReinsertionHolds`, and `PoolImplementsMap`, that every operation
maps to one of `AddrMap`.

**Metadata fetch**: `FetchTypeCorrect`, `CounterAgrees`, `AttemptsAlwaysAsk`,
`PoolStaysFull`, `FetchKeepsPromise`. Neither the counter nor the flags are
inductive alone. `AttemptOK` adds that the attempt asks in order, so that no
answer is owed beyond the first missing piece: an answer that comes is then for
the awaited piece or for one that is there. `PoolOK` adds which peers have left
the iterator and that nothing runs once the fetch has returned; with it an
empty pool means that every peer was joined as failed, which is what
`FetchKeepsPromise` needs for the error case.

**Uploads**: `UploadsTypeCorrect`, `LocksAreOrdered`, `RequestsAnsweredAtOnce`.
`LockOrder` is not inductive: `LinesOK` adds that a task is in a line once, only
for a mutex of the scope it is in, and for the connections only with the
download state in hand if the scope needs both; a task that leaves its scope is
then in no line at all. `QueueOK` adds which steps a request can wait through.

**Session and trackers**: `SessionTypeCorrect`, `AnswersAreOwn`,
`WritesWholeDownload`, `MagnetGivesUpRightly`, `QuietAfterAbortHolds`.
`OwnAnswer` is about the end of an exchange. `ExchangeOK` says on the way there
that in an exchange that began in a second of its own only its own datagrams
carry the second of its latest request, and that what may pass for a list of
peers is an answer some tracker has given. It holds for every exchange, because
any of them may leave datagrams to a later one; a request of one tracker ages
the datagrams of the others (`UpdateOK`), and an exchange that begins later than
all before it owes nothing to what it finds (`BegunOK`). Neither the intervals,
0 included, nor the lists are restricted. `JoinedOK` carries
over the joins of a magnet link that the peers of every joined tracker are
among those found, so that an empty set at the end means that none had any.
`TaskOK` ties the abort to a complete download: a check that comes after it finds
the download complete, and the task ends; one that came before may have let an
announce begin (`QuietTask`, `QuietExchange`).

**Wire**: `WireInvariant`, `ReaderFollowsHolds`, `BlocksServedHolds`, for any
torrent, any requests of 32 bits and a stream of any length. `ReaderFollows`
speaks of what has been read; it is not inductive, since nothing in it says
what the next bytes are. `WireInv` adds `OnTheWay`: there are offsets at which
the stream holds the frames of exactly the messages sent and not yet passed on,
in order, with keep-alives between them; only the last frame may be cut, and
only if the stream broke. `SentOK` says of every entry of the log that it is the
message, and the pieces, that come of the entry before; `KnownOK` that what the
connection knows, once a Bitfield came, is `Exact` for the last message read.
The lemmas below it are about the conversions, each for every value: four bytes
give back the number (`U32Read`), a mask selects its bit and no other
(`MaskFacts`, `SetPiece`), the bitfield built has exactly the bits of the pieces
(`BuildBitfield`), a frame is at least five bytes, names its own length and
deserializes to its message (`FrameFacts`), adding a frame, cutting the stream and
taking the first frame off keep the layout (`FrameAdded`, `StreamCut`,
`FramesRead`).

**Torrent**: `DescribedGeometry`, that a well-formed info dictionary, of one
file or of a list of any length, gives the size it describes and a geometry
that `DownloadState` accepts; and `SameTorrentHolds`, the property of the run,
both for integers and hashes of any width. The size of a list is a recursive
function of the number of files summed; it exists by `Recursion`, and `UpTo` is
the induction over it (both below). By `ModAdd` the sum that wraps at every file
is the remainder of the sum, which for a well-formed dictionary is the sum
itself.

**Bencode**: `ParsesGrammarHolds` and `DictionariesExactHolds`, the two
properties of the run, for sources of any bytes, of any length up to `u64::MAX`
(`Len(source) <= MaxLength`; the length of a string is read as `u64`), nested in
any way. The library's induction theorems cannot be used (they take an
operator), but its theorem that `<` on the natural numbers is well-founded gives
a least element of every set (`Least`), with it induction over an interval
(`UpTo`), the existence of a function defined by a step (`Recursion`), and
induction from the end of a source (`Backward`). What stands at a place depends
on later places only, so that the functions `Parser`, `Grammar` and `Scanner`
exist (`ParserExists`, `GrammarExists`, `ScannerExists`) and satisfy their
equations at every place (`ParserIs`, `GrammarIs`, `ScannerIs`). Three facts are
then proved of every place, each by `Backward`, with one lemma per kind of value:

- `ParserAgrees`: the parser reads a value that ends at `j` if and only if the
  grammar has one from there to `j`, which therefore is the only one. For strings
  and integers it is the first byte that is no digit that settles `j`.
- `ScannerAgrees`: over whatever the grammar has from `i` to `j` the scanner
  goes on at `j` with the depth it had. Inside a list or dictionary the depth is
  positive, so that it does not return too early.
- `ParserMoved`: what the parser reads between two places of a source it reads
  just so of the part between them alone, with places counted from its
  beginning, and values, the raw bytes of dictionaries included, the same. With
  the part of one dictionary this is the first clause of `DictionariesExact`.

**Metadata messages**: `MetadataServedHolds`, that a fetch and a client of this
program agree on every info dictionary. The code writes its messages with
`format!` and reads them with a scanner and a parser that know nothing of that
format, so the proof goes from the characters up:

- `DecimalWrites`: the digits written for a number are a numeral the parser
  takes, and of this number (by `Recursion` and `UpTo`, as `Decimal` divides by
  ten at each step). `StringRead`, `IntegerRead`, `KeyRead` and `FieldsRead` go
  on to strings, integers and the fields of a dictionary, at any place of a
  source.
- `DictFound`: whatever bytes come after a dictionary, the scanner splits the
  message exactly where the dictionary ends, and the dictionary alone parses to
  the same entries (`ParserAgrees`, `ScannerAgrees` and `ParserMoved` of
  `BencodeProofs`). This is what keeps a piece that looks like bencode from
  being taken for a header; `ShortRead` and `LongRead` are the messages without and
  with a total size.
- `RequestRead`, `RejectRead`, `DataRead`, `FetchNamed` and `SizeNamed`: what each
  parser makes of what each builder makes.
- `AnswersAre`, by induction over the requests: the answers are in the order of
  the requests, each to the id the handshake has named.
- `PiecesCover`, `EvenCuts` and `Flattened`: the rounded-up number of pieces, cut at
  multiples of the size, covers the dictionary without gap or overlap, so that
  their concatenation is the dictionary itself.

It assumes that the number of pieces fits in `u32`, which is the type of
the index in a request; that `i64` holds that number and the size; and
`3 * Len(t) + 50 <= MaxLength`, a generous bound on the length of a message with
its digits, so that its strings have lengths that `u64` holds. With pieces of
16 KiB the first bounds a dictionary by 64 TiB, and the other two follow
for the widths of the code. The bytes themselves may be any: the theorem has no
hypothesis on `Byte`.

**Only model-checked**: `Completes`, `TasksStop`, `FetchEnds`, `LocksGranted`,
`Answered`, `SessionWrites`, `KeepsAnnouncing` and `ComesToRest` (liveness under
fairness is beyond this prover); and the findings. Every other property of a
passing run is a theorem.

## 7. Not modelled, and why

- The interested flags of the peer, keep-alive timestamps and diagnostics: no
  modelled step reads them. The keep-alive write can fail, and `WriteFails`
  stands for that.
- The legacy whole-piece methods of `DownloadState` (`pick_piece`,
  `mark_requested`, `complete_piece`): the client does not call them.
- `parse_magnet_link`, the URL of an HTTP
  announce and the six bytes of a compact peer: conversions left for later. The
  models start from their results.
- The content of a metadata piece in `MetadataFetch`: see there. The code does
  not compare the info hash of what it has assembled.
- The end of a task by a panic in `PeerWorkers`. `find_bencode_end`
  (metadata.rs:347) promises the length of a complete value, and of data that
  begins with a string cut short it returns an end past the data; the slice at
  metadata.rs:410 or 501 then panics. `MetadataMessages` has the outcome
  (`Panics`); the fetch joins it as a failure, but a worker would leave without
  its clean-up.
- The pipeline statistics: nothing but the progress display reads them.
- The queue of metadata answers as a queue: its answers are in
  `MetadataMessages`, their order in `pending_metadata_responses` is the order
  of the requests, and they are written without a lock.
- Command line and examples: argument parsing and printing.
