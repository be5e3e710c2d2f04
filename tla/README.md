# A TLA+ model of ai-engine

ai-engine is an AI gateway written in Rust. One process answers OpenAI- and
Anthropic-shaped HTTP requests, runs each through a pipeline of stages and
forwards it to one of several providers. A provider is an upstream HTTP API, a
local model (replicas or a paged, continuously batched engine), or a cluster
that splits one model's layers over several machines. This directory holds TLA+
modules that model the parts with state and concurrency, the TLC
configurations that check them on small instances, and TLAPS proofs of the
results that matter most.

Paths below are relative to `crates/` of the repository.

## 1. The system's parts

| Part | State it keeps | Operations | What is hard | What makes it correct |
|---|---|---|---|---|
| Paged engine (`ai-engine-candle/src/paged`) | free block list, block tables, running batch, K/V rows, reply channels | submit, admit/prefill, reserve, decode, sample, evict, stop | one scheduler thread against clients that come, leave and drop the engine; partial failure of a batch; block and context boundaries | blocks neither lost nor shared; no row of another request is read; every request ends, and an incomplete answer ends with an error |
| Gateway pipeline (`ai-engine-core`, `ai-engine-stages`) | request context, in-flight counters, metrics, activity ring | stages, failover, stream taps, terminal log | concurrent requests around shared counters; guards that travel into streams; retries; disconnects | counters exact on every path; failover tries each candidate once and reports the right error; tokens credited once |
| HTTP front end (`ai-engine-http`) | one pipeline slot per route | handle, SSE encoding | slots swapped under live requests | a request stays on the pipeline it started on |
| Reload and shutdown (`ai-engine/src/signal.rs`) | the new AppState | SIGHUP reload, route-by-route swap | old and new builds alive together | accounting survives; nothing in flight is lost |
| Partition solver (`ai-engine-cluster/src/partition.rs`) | none | auto, agreed and manual partition, ring order | integer arithmetic, ties, nodes without room | best feasible plan, the same on every node, layers covered once and in order |
| Leader and workers (`leader.rs`, `worker.rs`, `session.rs`, `ai-engine/src/worker_main.rs`) | connections, manifest, per-request KV caches | join, assign, load, forward hops, chat, chat_stream | workers serve one stream at a time; crashes and cancellations between hops | caches in step with positions; a token comes from a whole pass; no short answer passes for a whole one; no session hangs |
| Leaderless mesh (`transport/mesh.rs`) | accepted and dialed connections | dial with retry, counted accept, hello, loopback | any start order, abandoned attempts, restarts | whoever serves holds a complete map; both ends agree on a pair's connection |
| Leaderless inference (`coordinator.rs`, `peer.rs`) | serve loops, caches | drive, serve_peer | any node coordinates; loops end while connections stay open | as for the leader and workers |
| Replica pool (`ai-engine-candle/src/pool.rs`, `model.rs`, `provider.rs`) | one mutex and KV cache per replica, a cursor | acquire, generate, stream, cancel | try-lock, then wait; waiters that are dropped; failures in the middle of a pass | one call per replica, on its own rows; no lock lost; everybody is served |
| rustyllm provider (`ai-engine-rustyllm`) | one model behind a std mutex | lock, generate, stream | threads that outlive their client; a poisoned mutex | as for the pool |
| Discovery, node identity, roles (`discovery/`, `tls.rs`, `worker_main.rs`, `app.rs`, `main.rs`) | certificate files, announcements, connections over the lives of the processes | load or create, announce, browse, dial, join, reload | a crash between two writes; stale announcements; workers that hold a dead leader's connection | stable fingerprints; workers joined under their own; the cluster comes up after any crashes |
| Upstream streams (`ai-engine-openai`, `ai-engine-anthropic`: `stream.rs`) | a byte buffer | parse | chunks cut anywhere | the events of the body, each once |
| Ollama discovery (`ai-engine/src/discovery.rs`) | none | browse, merge | repeated announcements, ids already taken | the configuration only grows; one provider per host, one route per model |

The other parts (capability detection, configuration, tensor runtime,
tokenizer, knowledge graph, health probes, web UI)
keep no state that a concurrent step could spoil, or are numerics and file
formats. `PROJECT.json` lists each with its reason, and the hazards of the
code line by line.

Interactions. The HTTP handler calls `Pipeline::execute`; its forward stage
calls a `Provider`. The candle provider talks to the engine thread over
channels, the cluster provider drives a `LeaderSession` or a `Coordinator`,
which exchange frames with workers or peers over QUIC streams. Metrics,
activity and in-flight counters are objects shared by the requests of one
build. A reload makes a second build and stores only its pipelines in the
running slots.

## 2. Modules

| Module | Models | Extends |
|---|---|---|
| `BlockTable` | the block allocator and block tables (`paged/block_table.rs`) | |
| `PagedEngine` | scheduler, engine handle, clients (`paged/engine.rs`, `paged/attention.rs`, parts of `provider.rs`) | `BlockTable` |
| `Generation` | abstract: what one chat call promises its client, whatever engine serves it | |
| `ReplicaPool` | the pool backend of the candle provider (`pool.rs`, `model.rs`, `provider.rs`) | |
| `Rustyllm` | the rustyllm provider | |
| `LocalProviders` | both in one gateway | `ReplicaPool`, an instance of `Rustyllm` |
| `Gateway` | stages, pipeline, SSE, metrics, activity, reload | |
| `Partition` | `partition.rs` as operators | |
| `Solver` | a solver at work on a cluster it is given, and what its answers are compared with | `Partition` |
| `ClusterStar` | leader, workers and their sessions | `Partition` |
| `Mesh` | `transport/mesh.rs` and its caller in `app.rs` | |
| `Leaderless` | coordinators and peers on a formed mesh | `Partition` |
| `Bringup` | identities on disk, announcing, browsing, dialling and joining, over restarts of leader and workers | |
| `Sse` | the SSE parsers of both upstream clients, as operators | |
| `Ollamas` | Ollama discovery and its merge into the configuration, as operators | |
| `PagedEngineProofs`, `LocalProvidersProofs`, `GatewayProofs`, `MeshProofs`, `BringupProofs` | theorems and their proofs (section 6) | the module they name |
| `PartitionProofs` | the same for `Partition` and `Solver` | `Solver` |
| `ClusterStarProofs`, `LeaderlessProofs` | the same, on top of what is proved of the solver | the module they name, `PartitionProofs` |
| `MC*` | constants, symmetry; `MCAlgorithms` also the inputs and reference definitions of the algorithms without state | the module they name; `MCAlgorithms` extends `Solver` and `Ollamas` |

`PagedEngine`, `ClusterStar`, `Leaderless`, `ReplicaPool` and `Rustyllm`
instantiate `Generation` once per call (section 4).

Definitions carry the names of the functions they translate. One whose name
says what went wrong (`Leave_leak`, `stage_cost_coarse`, ...) and whose comment
begins with *Mutant of* is a plausible bug of the definition beneath it; it is
used only to show that a property can fail.

### PagedEngine

The scheduler thread is the control variable `pc`: it *admits* (one request per
step, each of the outcomes of `prefill` a disjunct), *reserves* capacity for
each running sequence, *decodes* the batch in one step that succeeds or fails,
then *samples*, or *fails*, the sequences one after the other. A pass over the
batch is a `todo` list; the steps of the pass interleave with `submit`,
`Disconnect` and `DropEngine` of the clients. `KvWrite`/`KvDecode` record which
request last wrote each row of the pool, for one layer: the other layers are
written alike. Token values are `tok` or `eos`. An empty prompt behaves as in a
release build: the index of its last row wraps and the forward pass fails (with
overflow checks it would panic).

The other side of a reply channel is its reader: `chat` itself, or the task that
relays a stream to its client. `read_end` is the item or closed channel that ends
the answer, `relay_fails` a relay task that cannot decode the tokens so far, or
that panics in the slice `full[prev_text.len()..]`, which its client takes for the
end of a whole answer. `reply` is what that client knows. The scheduler is not
told when a reader is gone; its sends fail and it goes on.

### ReplicaPool, Rustyllm, LocalProviders

A call tries the replicas one per step (`try_lock`), takes the next index of
the cursor and waits (`lock`); tokio's fair mutex is external: a queue per
replica, whose first waiter is handed the lock by `Release` and runs when it is
polled (`locked`). A whole answer runs in the request's own future, so its
client can cancel it while it waits, also just after the lock was handed to it;
a stream runs in a task of its own, which nobody cancels. One step under the
lock is a forward pass, the token it samples and what `on_token` does with it.
The cache is abstracted to whose rows it holds and how many: candle's quantized
models concatenate, except at position 0. `counter` is kept modulo the pool
size, since only the remainder is used (its wrap at 2^64 is not modelled).
`stream_panics` is the slice `full[prev_text.len()..]` inside a character,
`pass_panics` a panic in a forward pass; after either the client of a stream
sees a closed channel (`cut`), that of a whole answer loses its connection.

Rustyllm's `std` mutex has no order among its waiters and can be poisoned by a
panic of the engine. The thread only sends tokens; whole answer and stream are
decoded by their reader (`read_end`, `decode_fails`), so the same slice panics in
the response itself there and breaks the connection. `LocalProviders` puts both in
one process; a call goes to one of them.

### Bringup

`proc[n]` is where a process stands. `load`, `generate_node_identity` and the
four steps of `save` (each file is created, then filled) are
`load_or_generate_node_identity`; a crash between them leaves `Missing` or
`Cut` files for the next life. `browse` collects the announcements that can
reach the leader in `air`; those of workers that crashed since stay there.
`resolve` takes one, first seen wins; `browsed` is the timeout or enough
workers. Dialling is by address: `Reaches` says which workers may answer at the
address of a worker (announced wildcard addresses, addresses that have moved).
`Trusted` accepts any fingerprint of the list, as the verifier does, and
`Acknowledged` is the test of the node id in the JoinAck; `wrong_worker` is its
`bail!`. `Hosts` are the sets of workers for which `agreed_manifest`, or the
override, gives a manifest; with any other set `no_manifest` ends the start.
A worker accepts one connection in its life; `link` is its side of it, `dead`
from the moment the leader is gone until the worker notices. In the
configuration without discovery the operator pins the fingerprints the workers
printed. `rotate` is an operator who removes a node's identity. A life of the
leader ends in `serve`; what happens in it is `ClusterStar`. Each node has its
own home directory. Crashes are those of processes: what a file system that
loses power does to files that were written without fsync is not modelled.

### Sse and Ollamas

`Sse.parse` folds chunks into a buffer and drains complete frames, as the two
`stream.rs` do; bytes are newline, data, `[DONE]` and the two halves of a
character; `Broken` is the error of the transport that may come in place of the
next chunk. `Body` says in one comprehension what a body means without
mentioning chunks or buffers. `Ollamas` folds announcements and then hosts.

### Gateway

One record `ctx[r]` per request holds the fields of `RequestCtx` and the locals of
the task between two awaits. Every stage is an action; the forward stage is split
where another task can run: `pick`, `acquire`, the end of the call, each stream
item. `load`, `metrics` and `activity` are indexed by build (`gen`), because a
reload makes new ones. `calls`, `reported` and `logged` are history, read only by
properties. `todo` is the list of stages of the pipeline that the request still
holds; pass 1 takes its first non-terminal stage, pass 2 the log. A whole answer
may fail to serialise after its tokens were credited (`call_ok_full`).
`client_gone` drops the task, or the body, where it is suspended: a request that
is in its upstream call never reaches pass 2 (section 5); liveness is claimed of
clients that read their body or leave. `RequestsAccounted` is about what the log
stage did, so it counts the requests that reached it. `GatewayAssumption` says
that nothing but a single log stands after `forward`. Every shipped configuration
and every test is like that, but the validator does not insist: a pipeline with
two log stages would count each request twice, one with a second `forward` would
dispatch a request that has its answer. Abstracted: the loads that `pick` compares
are read together; only completion tokens are counted; an upstream status is 4xx
or 5xx; a rule naming an unknown provider is excluded, as the configuration
validator does (`GatewayAssumption`); a reload whose build fails changes nothing
and is no step; a route the new file adds is ignored and one it removes stays on
its old pipeline, as in `signal.rs`.

### Partition

The table of the dynamic program is a recursive function of the node: a row from
the row before. The backtracking and the walk of `pipeline_order` are recursive
functions of the turn of their loop. The stable sorts of the standard library are
defined by their result: the one permutation that orders the keys and keeps equal
keys in place. `Solver` turns the operators into a specification: a state holds a
cluster in the order in which it was found, a step derives its manifest or checks
a manual one. Its four bounds are constants like any other, so that a theorem
about `SolverSpec` is one about clusters of every size. The code's `u64`
arithmetic stays far from its limits for any real cluster and is modelled in
`Nat`; `INF` is larger than any cost. Manifests are compared by value, not by
hash.

### ClusterStar

`join`, `assign` and `load` start the cluster (the Join, JoinAck and Capability
messages of one worker form one rendezvous). A session is `sess[r]`: the step's
position and length, the hop it is at and how far into the layers the activations
are (`x`). A worker has a queue of opened streams, the one it serves (`busy`), and
a cache length per request; a stream error or a cache overflow ends the worker
process, as `?` and `panic!` do in the code. The manifest is derived or, with
`Override`, configured. The token channel of a stream has `ChannelCap` places (64
in the code): the generating task waits for room (`push`), and returns when its
receiver is gone (`push_fails`). The client takes tokens out (`recv`), decodes
them (`decode_fails`) and meets the end (`recv_end`). The step of an empty prompt
has no last position whose logits could be taken: it panics in the task of the
session (`panics`), and the tensor library may refuse its activations at a worker
before that (`empty_panics`). Building the session and tokenising may fail
(`start`). The QUIC idle timeout of this topology is covered by `crash`: both end
the worker.

### Mesh

Each node runs the steps of `build_leaderless_node`: the accept task, the dials in
order, the hello, the check of the number of connections, the loopback. A
connection is the attempt that opened it, so the two ends agree when the values
are equal; `inc` tells the runs of a restarted process apart. An attempt that the
dialer has given up stays in the acceptor's queue. `to_dial` is the set of peers
left, taken in configuration order. Ids are numbers, ordered as the code orders
its strings; the identity in a hello is believed, as in the code. In the loopback
phase the node's dial of itself runs in a task whose result is looked at only
after `accept_one` has returned (`self_dial_fails`, `loopback_fails`): a self-dial
that fails before it arrives leaves the node waiting (`Stranded`). The caller's
check for missing peers after the mesh is formed never fails, because the
manifest's nodes are the configured ones.

### Leaderless

Starts from a complete mesh, which is what `Mesh` shows a serving node to have.
The manifest is derived or configured (`Override`, which then names each node
once: otherwise `pipeline_order` fails and `drive` refuses every request). `Loops`
are the `serve_peer` tasks, one per connection and direction; a loop that ends
does not close its connection, since the coordinator's map holds it too. So a
later session can open a stream that nobody will ever accept; `Hangs` says when a
connection carries nothing else, which is when the idle timeout closes it. An
empty prompt panics the loop that should take the logits of its last position, or
one before it. Tokens are decoded by the response's own stream, where the slice of
section 5 panics too: that breaks the connection, which the client notices, and is
one of the outcomes of `decode_fails`. The token channel is unbounded here.
`Applied` follows the activations from embedding to output; a frame at a node that
does not host what it needs gives `None`.

## 3. Runs

| Run | Instance | Properties | Result |
|---|---|---|---|
| Paged | 2 requests, 3 blocks of 2 tokens, batch of 2, context 4; prompts empty, of 1 to 3 tokens and too long, max_tokens 0 to 4 | TypeOK, BlocksConserved, BlocksFollowSequences, LocateInBounds, KvIsolated, EveryRequestEnds, ImplementsGeneration | holds |
| Gateway | 2 requests, 2 providers, 2 models, the chat, messages and embeddings routes, one reload | TypeOK, LoadExact, AtMostOncePerProvider, FailoverComplete, RequestsAccounted, TokensCredited, EveryRequestAnswered | holds |
| GatewayEveryRequestLogged | as above, all error kinds | EveryRequestLogged | violated |
| Algorithms | every cluster of up to 3 nodes, 3 memory sizes, scores 1, 3 and 1700, 3 layers; for those of up to 2 nodes every manual partition of up to 2 ranges; every body of up to 6 bytes with up to 2 cuts, complete or broken off; up to 2 announcements | PlanOptimal, AgreementOrderFree, RingInLayerOrder, EventsOfBody, MergeAddsOnly | holds |
| Star | 2 workers in id order, 2 sessions, one of which may have an empty prompt, context 2, max_tokens 2, a token channel of 1 | TypeOK, CacheInStep, WholePass, ImplementsGeneration, EverySessionEnds | holds |
| StarHopOrder | 2 workers configured in another order than their ids | WholePass | violated |
| StarWorkerLife | 2 workers, 1 session | WorkerOutlivesRequests | violated |
| Mesh | 3 nodes configured out of order, 2 attempts per dial, 2 timeouts, 1 crash or restart | FullMesh, OnePerPair, Settles | holds |
| Leaderless | 3 nodes out of order, 2 sessions of one coordinator, one of which may have an empty prompt, one crash or lost connection besides timeouts | CacheInStep, WholePass, ImplementsGeneration, EverySessionEnds | holds |
| LocalProviders | 2 replicas and a rustyllm model, 4 calls: a stream of 2 tokens, a whole answer, two calls with an empty prompt | LocalTypeOK, OneModelOneCall, NoLockLost, ImplementsGeneration, EveryCallEnds | holds |
| LocalStopMeansWhole | as above, no panics of the engines | StopMeansWhole | violated |
| Bringup | leader and 2 workers, discovered or configured, either answering at the other's address, the second too small for the model alone, 3 foreign announcements, 2 crashes, 1 rotation | FingerprintStable, JoinedAsAnnounced, ComesUp | holds |

What the properties say, in one line each, stands above their definitions;
those of `Solver` and `MCAlgorithms` compare an algorithm with a
definition that does not share its shape (the best of all feasible cuts, the
lines of a body without its chunks, the union of what was announced).

### Why these bounds are enough to be interesting

* Paged: two sequences of the longest context need four blocks and there are
  three, so admission and the capacity pass meet a full pool, and a sequence that
  was evicted leaves blocks, rows not cleared, to the other; sequences cross a
  block boundary and the context limit. One request is always served for a while,
  the other may also be refused at once; `max_tokens` are those around the tokens
  that are sent before anything is tested. That no more sequences than
  `MaxNumSeqs` are held (`BatchBounded`) would need a third request, and is only
  proved.
* Gateway: two providers are the least for failover and for a busy one; two
  requests the least for a race between `pick` and `acquire` and for a ring of
  recent requests to overflow; two stream events the least for a repeated usage
  report; one reload the least for two builds. One request chats, the other uses
  the Anthropic route or asks for an embedding. Upstream failures are a status
  that is retried and one that is not; the kinds of errors that have no status
  occur in GatewayEveryRequestLogged and in the theorems.
* Algorithms, clusters: with three memory sizes, overheads and embedding weights a
  node can have room for nothing, for some or for all layers; the scores make
  unequal costs, ties, and (1700, with one layer) a cost the code rounds to 0, so
  that plans which differ look equal to it. Two manual ranges can leave a gap,
  overlap, be empty, exceed a memory or name one node twice or an unknown one.
* Algorithms, bodies: six bytes hold two frames with an event each, or a frame
  with two lines; two cuts can fall inside a character, between the two
  newlines and inside a line of the same body, and the connection may break after
  any of them. Two announcements can repeat a
  label, differ in every field or collide with a configured provider.
* LocalProviders: four calls over two replicas make a waiter behind a waiter on
  one replica while the other is released and taken; two replicas are the least
  for a cursor that wraps.
* Bringup: with two crashes an identity can be cut short in one life and in the
  next, or the leader can die after the worker; with two workers the other one
  can answer, and the leader can find one that is enough, one that is not, and both.
* Star and Leaderless: two sessions queue at the same worker, a context of two
  is passed within a session, and every fault can hit before, between and
  after the hops. A channel of one place is full after the first of two tokens.
* Mesh: with three nodes one only dials, one only accepts, one does both. One
  crash or restart at every point and two timeouts let an abandoned attempt and
  its retry be in a queue together.

`CHECK_DEADLOCK FALSE`: the instances have finitely many requests and
processes that may fail, so all of them come to rest. That nothing rests too
early is what the liveness properties say.

### Fairness, and why the code justifies it

* PagedEngine: weak fairness of the scheduler as a whole; it is one OS thread
  in a loop that never waits for a client (reply channels are unbounded and a
  failed send is ignored); and of the reader of each reply channel, which takes
  what is there.
* Gateway: weak fairness of each request's task. Tokio polls ready tasks, and
  the HTTP clients bound a whole call by `timeout_secs`. Nobody is forced to
  disconnect, reload or send a request. Local providers have no such timeout;
  that they end is what Paged, LocalProviders, Star and Leaderless
  show.
* Star, Leaderless: weak fairness of every session, of the client that reads its
  answer (or leaves), every worker or serve loop
  and, in Leaderless, of the idle timeout, which quinn runs with its default
  since `transport/quic.rs` sets none and configures no keep-alive. Crashes,
  losses and cancellations are never forced.
* LocalProviders: weak fairness of each call's task or thread: the runtime
  polls what is ready, a blocking thread runs, and a forward pass returns. No
  client, no panic and no failure is forced.
* Bringup: a process that ended is started again (a supervisor's job, an
  assumption about the deployment); inside a process every wait is bounded by
  the browse timeout, the handshake or the QUIC idle timeout; a leader that
  browses again and again hears an announcement some day (strong fairness). A
  dial to a worker that does not accept is given up after the idle timeout, by
  which time the connections of earlier leaders, idle for longer, are closed:
  the guard of `dial_times_out`. Crashes, rotations and reloads are not forced.
* Mesh: each node is started once, its tasks run, an unanswered handshake
  times out. `Settles` claims nothing of a node that crashed or failed.

## 4. Refinement

`Generation` is the promise behind `Provider::chat` and `chat_stream`: tokens
one by one within a budget, then one end; the end says "stop" only after an
end-of-text or after `max_tokens` tokens, everything else is an error, and
nothing follows an end. Each engine maps its state to that of `Generation`,
once per call: `Gen(r) == INSTANCE Generation WITH ...`, and

    ImplementsGeneration == /\ \A r : Gen(r)!Init
                            /\ [][\A r : Gen(r)!Step]_vars

says that every call of every behaviour is a behaviour of `Generation`
(`Gen(r)!Spec` for all `r`). The mapping follows what the client can see: a
call whose client has left maps to `left` and promises nothing.

Two constants are what the mapping had to concede. `Floor` is the number of
tokens an engine may hand out whatever `max_tokens` says. It is 0 for the pool and
rustyllm, which test before they hand out; 1 for the cluster, star and
leaderless, whose loop samples before it tests; 2 for the paged engine, whose
prefill token is sent without a test and whose decode loop tests after it has
sent the next (section 5).

`Cuts` says whether a call may end in `Cut`: its client is told "stop" with
whatever it has got, because the task behind its stream panicked and a closed
channel is how a whole answer ends too. It holds for the streams of the paged
engine (the slice in its relay task), of the pool (the slice, or a pass) and of
rustyllm (the engine, or a poisoned mutex), and in the star cluster for the
stream of an empty prompt alone. Whole answers are never cut, and `Leaderless`
implements `Generation` without the concession. A cut is a status of its own,
reached in one step, from an open call: everything before it is a prefix of a
proper answer, and nothing follows it. `StopMeansWhole` states the promise
without the concession; LocalStopMeansWhole shows that the code breaks it.

`JoinedAsAnnounced`, `FullMesh` and the starting states of `ClusterStar` and
`Leaderless` compose by hand: what a life of `Bringup` and of `Mesh` ends in is
what the other two start from.

## 5. Findings

1. **A request without a log line** (GatewayEveryRequestLogged). A client that
   goes away during the upstream call takes the handler's future with it, at an
   await of pass 1. The terminal stages, which "always run, so every request
   emits exactly one log line" (`README.md:218` of the repository), never begin:
   no line, no request counted, nothing in the activity log.
2. **Order of the hops** (StarHopOrder). The leader sends activations through
   its connections in configuration order; layers are cut in node-id order. If
   the two differ, layers are applied out of order and no error is raised.
   `Leaderless` uses `pipeline_order` and holds (run Leaderless, configured
   out of order).
3. **One request ends a worker** (StarWorkerLife). A cancelled request, or one
   past the context length, ends the worker process, which says it returns
   only when the endpoint stops.
4. **A stop that is none** (LocalStopMeansWhole). The task behind a stream of the
   replica pool slices the decoded text at the length of the text before
   (`ai-engine-candle/src/provider.rs:224`). Where a token completes a character
   whose first bytes had been shown as replacement characters, that index can
   fall inside it: the task panics and the stream ends with
   `finish_reason: "stop"` in the middle of the answer. rustyllm says of its copy
   that it handles multi-token unicode the same way (`provider.rs:194-196`).

Other things met on the way that no run carries:

* A reload builds a whole new state and stores only its pipelines in the running
  one (`signal.rs:52`). Requests are then counted in metrics that
  `/gateway/metrics` never reads, although `GatewayMetrics` are "cumulative
  per-provider counters since startup" (`metrics.rs:30`).
* `auto_partition` says that it minimises the slowest `layers / score`
  (`partition.rs:108`). It compares `layers * 1000 / score` in integers, and
  measured scores above 1000 are normal (`capability.rs:95`): two layers on two
  nodes of score 2500 cost 0 wherever they are cut. `PlanOptimal` claims the
  minimum up to that unit of cost.
* A node whose dial of itself fails before it arrives waits in `accept_one` for
  ever, since the error is looked at afterwards (`app.rs:488-497`); `Stranded` is
  the exception of `Settles`.
* An empty prompt has no last position. In the star cluster the session's task
  panics: a whole answer takes the connection along, a stream ends with "stop"
  and no token. In the leaderless mesh it ends a serve loop, and with it that
  hop for all later requests of the coordinator whose connection it served.
* A leader fails on every start as long as its override names a worker that is
  not found, the workers found have too little memory, or another worker answers
  at an address (`leader.rs:152`, `181-202`); `ComesUp` excepts these by name.
* The paged engine's prefill sends its token without the EOS and `max_tokens`
  tests of the decode loop: an EOS can be sent, and `max_tokens = 1` gives two
  tokens (`engine.rs:226`, comment at `engine.rs:167`); hence its `Floor` of 2.
* The slice of finding 4 is also in the relay task of the paged engine
  (`ai-engine-candle/src/provider.rs:288`), with the same end. In rustyllm
  (`provider.rs:207`) and in the cluster provider (`provider.rs:349`) it runs in
  the response's own stream, whose connection breaks instead. A poisoned mutex
  ends every later stream of rustyllm with "stop" (`provider.rs:181`), and a panic
  in a pass one of the pool.
* Shorter characters cut in two are lost or shown as replacement characters,
  against the comment at `ai-engine-rustyllm/src/provider.rs:194`.
* A call that waits for a replica stays with it while another becomes free
  (`pool.rs:52`).
* The last SSE frame is dropped when its blank line is missing, and the end of
  a body without `[DONE]` is not an error (`ai-engine-openai/src/stream.rs:37`).
* A crash while `node.key` is written leaves files that no later start can read
  (`tls.rs:75`, `Wedged` in `Bringup`); two nodes with one home directory share
  an identity.
* A worker announces the address it binds, a wildcard one included
  (`worker_main.rs:57`). One failed inbound handshake ends it
  (`worker.rs:100`), and a worker that restarts is not joined by a running
  leader.
* A reload on a leader rebuilds the state for node `localhost`: the cluster's
  provider becomes a stub and the workers end (`signal.rs:54`).
* Whether a discovered Ollama is routed for a model that is routed already the
  comments of `ai-engine/src/discovery.rs` do not agree on: first wins at 18-19,
  every new host for load balancing at 46-48, which is what the code does.
  `MergeAddsOnly` leaves it open.
* A full block pool fails the request that meets it, where `block_table.rs:33`
  speaks of backpressure.
* Terminal stages run before a stream is polled, so the log of a stream has no
  token counts (`pipeline.rs:38`).
* `[DONE]` follows an error frame too (`sse.rs:34`).
* `pick` and `acquire` are apart, so two requests can choose the same idle
  provider (`forward.rs:88`).
* A manual override that names a node twice is accepted; the second range is
  loaded nowhere (`partition.rs:298`).
* The star leader never sets `is_terminal`, and nobody sends the leaderless
  `End`: caches of finished requests are kept until the worker or loop ends.
* A leaderless node that restarts cannot rejoin a serving mesh: nobody accepts
  or dials after the mesh is formed. A mesh that idles past the timeout loses
  its connections the same way, and a node waiting for a peer that never
  starts waits forever.
* Accepting a dial its sender has given up fails the acceptor's start.

## 6. Proofs

The proof modules hold for every value of the constants that the named
assumptions of the modules allow: any number of requests, providers, replicas,
nodes, layers, blocks, crashes, retries and reloads. TLC evaluates those
assumptions in every run.

| Module | Theorem | States |
|---|---|---|
| `PagedEngineProofs` | TypeCorrect, BlockOwnership, NoBlockLeaked, LocateNeverPanics, KvIsolation, BatchStaysBounded, AnswersAreGenerations | all safety of Paged, its refinement, and the bound of the batch |
| `LocalProvidersProofs` | TypesKept, ModelsNotShared, LocksPassedOn, LocalAnswersAreGenerations | all safety of LocalProviders and both refinements |
| `GatewayProofs` | GatewayTypes, LoadIsExact, NoProviderTwice, FailoverIsComplete, RequestsAreAccounted, TokensAreCredited | all safety invariants of Gateway |
| `PartitionProofs` | PlansAreOptimal (up to the unit of cost), AgreementFreeOfOrder, RingsInLayerOrder | the solver's part of Algorithms, for clusters and models of any size |
| `ClusterStarProofs` | StarTypes, CachesInStep, StarAnswersAreGenerations; PassesAreWhole for workers in id order, PassesInLayerOrder for any manifest cut in the order of the hops | all safety of Star |
| `MeshProofs` | ServingMeshIsFull, PairsAgree | all safety of Mesh |
| `LeaderlessProofs` | LoopCachesInStep, MeshAnswersAreGenerations, RingPassesAreWhole, MeshTypes | all safety of Leaderless, and its types, with a derived or a configured manifest |
| `BringupProofs` | FingerprintNeverChanges, JoinedUnderOwnId | all safety of Bringup |

Hardly any of these properties is inductive. What had to be added:

* **PagedEngine.** `IInv`: a table could be released twice if a sequence stood
  twice in the batch, or overwritten if one were admitted while it runs;
  `SchedulerInv` says that queue, `running` and `todo` are free of duplicates,
  disjoint, and agree with the state of each request and with `pc`. `KvInv`:
  every sequence of the batch *holds* its rows, that is, its table covers its
  positions and each of them has its own row; the sequences already reserved
  cover one position more, and those decoded have written it. Isolation then
  comes down to `LocateInjective`: two positions of conserved tables never
  share a cell. `ReplyInv` (refinement) says what a reply channel holds at each
  stage: as many tokens as were produced, no error before the end. `reply` adds
  what the reader has made of it; once a reader is gone nothing in the channel
  reaches its client any more.
* **LocalProviders.** `PoolInv`: who generates has its replica's lock, a lock
  has an owner that knows of it, a waiter is queued once and at the replica it
  waits for, and the cache of a replica in use holds the rows of its owner up
  to `index_pos`. The delicate step is `cancel` just after the lock was handed
  over: the lock goes to the next waiter, who must be one.
* **Gateway.** One predicate per request: where it stands, which candidates it
  has tried, and what it has reported. `LoadExact`, `RequestsAccounted` and
  `TokensCredited` are sums over requests; `RequestStep` proves once that a
  step that moves one request by one keeps the three sums, and each action
  shows which it moves. Two facts are inductions over data: the candidate list
  has no repetition (`CandidatesOnce`), and the token sum does not depend on
  the order of its fold. Both are proved with induction stated for a set of
  numbers instead of for an operator (`UpTo`).
* **ClusterStar and Leaderless.** `InStep`: for every hop of a live session the
  cache behind it holds `pos` positions, or `pos + seq` when this step has passed
  it, and `Placed` says in which queue a session can be (at most one loop or
  worker knows it, once). A worker or loop that ended is excepted: the session can
  only fail there. `WholePass` adds, for a cut of the layers into consecutive
  ranges, that activations before hop *i* have passed the first *i - 1* ranges.
  That is a fact about the manifest, and it comes from the solver: `AgreedPlan`
  and `PipelineRing` give it for the leaderless ring, whatever the peers' order
  (`RingOfManifest`), and for a star whose workers are sorted. `ManualPlan` and
  `AgreedInOrder` bring configured and derived manifests to the same form: nodes
  and ranges that follow each other without gap or overlap (`InOrder`). Types that
  do not depend on the order need less: `RunInv` says that a worker holds layers
  only if the leader got a manifest (`Loaded`), whose ranges end by the last layer
  whether it was derived or configured.
* **Partition.** `SolverInv` only says what has been computed; the work is in what
  the recursive functions compute. `Recursion` shows that such a function exists
  and has its defining equation, given its step (`Iterates`); `Upwards` is
  induction for a set of numbers, from `LeastNatural`. Then: a sequence with
  distinct keys has exactly one sorting permutation (`SortUnique`), so any order
  of the same capabilities has the same canonical form; the last entry of the cost
  table is at most the slowest stage of every plan that fits (`CostLeast`), hence
  INF only if there is none; the cuts read off by `back` are a plan whose slowest
  stage is at most that entry (`Backtracking`). The two together are optimality in
  the rounded costs, and rounding hides less than one unit, which is what
  `PlanOptimal` says in layers and scores. The walk of `pipeline_order` has after
  *d* turns visited the first *d + 1* nodes of the pipeline (`Prefix`), because
  node ids are distinct and each link is the next node, so none of its error
  returns is taken.
* **Mesh.** What matters is which *run* of a process an end belongs to. `Dials`:
  all a node has dialed stems from its current run, and it never dials a peer
  it is connected to. `Accepts`: all it has accepted was addressed to its
  current run. `Agreed`, for every pair: what the smaller has is what the run
  of the larger it was made with has, or is about to read; a later run of the
  larger has nothing from it. `FullMesh` also needs that as many connections as
  peers, none to the node itself, are one for each peer.
* **Bringup.** `node.key` is written after `node.crt`, so a readable key implies
  a whole certificate, and a fingerprint that was ever shown is on disk; an
  announcement of a worker's id carries a fingerprint that worker has shown,
  hence its current one unless it was rotated.

Hypotheses. Only the two theorems on whole passes of the star have any, and they
are about the configuration: `PassesAreWhole` asks that the leader derives its
manifest (`Override = None`) and that `cfg.workers` is in the order of the ids
(`WorkersSorted`), `PassesInLayerOrder` that the hops are in the order of the
ranges (`HopsInLayerOrder`). StarHopOrder shows that without it the property
fails. The assumption of `Leaderless` that there is a manifest (`Manifest # Err`)
is what `build_leaderless_node` requires: it returns the error otherwise. That a
configured one names each node, and only once, is what the node (its own
assignment, `app.rs:422`) and `drive` (a pipeline order) require. Compute scores
are at least 1, as `microbenchmark_compute_score` makes them.

Model-checked only:

* liveness (`EveryRequestEnds`, `EveryRequestAnswered`, `EverySessionEnds`,
  `EveryCallEnds`, `Settles`, `ComesUp`): fairness is outside the prover's reach;
* `EventsOfBody`: the parser drains its buffer with a RECURSIVE operator, for
  which the prover has no backend;
* `MergeAddsOnly`: the merge is a fold over a fold, and what folds compute for
  every input is defined in the library through operators the provers cannot
  instantiate;
* the four violations of section 5.

## 7. Plan

Done: all modules of section 2; every safety invariant, and every refinement,
that a run checks of a component with state is also a theorem, and so is what
the partition solver computes. Left:

1. The SSE parsers and the merge of Ollamas as recursive functions, with the
   induction of `PartitionProofs`; `EventsOfBody` and `MergeAddsOnly` would
   then be in reach.
2. The lemmas on induction and least elements that several proof modules each
   have, in one place.

## 8. Not modelled, and why

Tensor arithmetic, quantisation, file formats and tokenisation are numerics and
text without interleavings. Wire encodings are represented by the messages they
carry. The Ollama advertiser re-announces one host in a loop and keeps nothing
else. The translation of requests for an upstream is a mapping of JSON fields.
Read-only routes, probes and the web UI render state and change none.
Configuration is validated before anything runs; the guarantees the models use are
their named assumptions. A panic inside a tensor kernel of the paged engine, which
would leave requests in a channel nobody reads, is outside the model; the panics
the block table could cause are excluded by `LocateInBounds`.
