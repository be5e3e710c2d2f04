------------------------------ MODULE Gateway ------------------------------
(***************************************************************************)
(* The HTTP gateway: routes.rs::handle, the stage pipeline it runs         *)
(* (auth, content_policy, model_route, forward and the terminal log),      *)
(* the SSE encoder that streams the answer, and the SIGHUP reload that     *)
(* swaps pipelines under requests in flight.                               *)
(*                                                                         *)
(* Every request is a task of its own and every build of the configuration *)
(* (a generation) has its own load tracker, metrics and activity log,      *)
(* which all the requests that loaded a pipeline of that generation share. *)
(* A task is suspended only while it waits for an upstream; the runtime    *)
(* has several threads, so shared counters are read and written in steps   *)
(* of their own.  Upstream providers are external: a call answers with     *)
(* anything the Provider trait allows.  Models are model values, and a     *)
(* usage report is reduced to its completion tokens.                       *)
(***************************************************************************)
EXTENDS Integers, Sequences, FiniteSets, FiniteSetsExt, SequencesExt

CONSTANTS Requests,     \* HTTP requests, one task each
          Providers,    \* the configured [[provider]] ids
          Models,       \* the model names clients ask for
          Asks,         \* per request, the bodies its client may send
          Pipelines,    \* per generation, the stage list of each configured route
          Rules,        \* per generation, the [[route]] list of model_route
          ErrorKinds,   \* variants of ProviderError upstreams fail with, Status aside
          Statuses,     \* HTTP statuses of upstream failures
          MaxReloads,   \* how many times SIGHUP succeeds
          MaxTokens,    \* the largest completion count an upstream reports
          MaxEvents,    \* events per stream
          ActivityCap,  \* capacity of the activity ring
          None,         \* no value
          Partial       \* a usage report without a completion count

Gens   == 0 .. MaxReloads
Routes == {"chat", "messages", "embeddings"}
StageIds == {"auth", "content_policy", "model_route", "forward", "log"}

\* Usage as an upstream answer or event carries it: none, without a completion
\* count (an OpenAI "usage": null too), or with one.
Counts == 0 .. MaxTokens
Usages == {None, Partial} \cup Counts

ProviderErrors ==
  [kind : ErrorKinds, status : {0}]
    \cup [kind : {"Status"}, status : Statuses]

Errors == ProviderErrors \cup [kind : {"BadRequest", "Unauthorized", "PayloadTooLarge",
                                       "NoRouteForModel", "Internal"}, status : {0}]

Bodies == {b \in [route : Routes, stream : BOOLEAN, model : Models] :
             b.route = "embeddings" => ~b.stream}

\* What config validation and the shipped configurations guarantee: rules name
\* known providers, every pipeline forwards and has one log stage (a second one
\* would be run too, and is refused by nothing), and only the log comes after
\* forward.  The upstream clients turn 4xx and 5xx answers into
\* ProviderError::Status.
ASSUME GatewayAssumption ==
  /\ IsFiniteSet(Requests)
  /\ MaxReloads \in Nat /\ MaxTokens \in Nat /\ MaxEvents \in Nat
  /\ ActivityCap \in Nat \ {0}
  /\ ErrorKinds \subseteq {"Connect", "Timeout", "Stream", "InvalidResponse", "Unsupported"}
  /\ Statuses \subseteq 400 .. 599
  /\ None \notin Counts \cup Providers \cup Errors \cup {Partial} /\ Partial \notin Counts
  /\ \A r \in Requests : Asks[r] \subseteq Bodies
  /\ \A g \in Gens : /\ Rules[g] \in Seq([models : SUBSET Models, provider : Providers])
                     /\ DOMAIN Pipelines[g] \subseteq Routes
                     /\ \A route \in DOMAIN Pipelines[g] :
                          LET stages == Pipelines[g][route] IN
                          /\ stages \in Seq(StageIds)
                          /\ {"forward", "log"} \subseteq Range(stages)
                          /\ \A i, j \in DOMAIN stages :
                               stages[i] = "log" /\ stages[j] = "log" => i = j
                          /\ \A i, j \in DOMAIN stages :
                               stages[i] = "forward" /\ i < j => stages[j] = "log"

VARIABLES
  slot,      \* AppState.pipelines: the generation each route is served by
  built,     \* the last generation built
  swapping,  \* routes whose slot the running reload has still to store
  ctx,       \* per request: RequestCtx, and the locals of handle and forward
  load,      \* LoadTracker.inflight, per generation
  metrics,   \* GatewayMetrics, per generation
  activity,  \* ActivityLog, per generation
  calls,     \* history: the upstream calls each request made, with their error
  reported,  \* history: the most completion tokens an upstream reported
  logged     \* history: the log lines of each request

shared  == << load, metrics, activity >>
history == << calls, reported, logged >>
reload_vars == << slot, built, swapping >>
vars    == << reload_vars, ctx, shared, history >>

Fresh == [pc |-> "idle", body |-> None, gen |-> 0, todo |-> << >>, cands |-> << >>,
          tried |-> {}, at |-> 0, last_err |-> None, provider |-> None, error |-> None,
          response |-> "pending", usage |-> None, credited |-> 0, frames |-> << >>]

Contexts ==
  [pc : {"idle", "stages", "picked", "call", "stream", "failed", "done", "gone"},
   body : Bodies \cup {None}, gen : Gens,
   todo : Seq(StageIds),
   cands : Seq(Providers), tried : SUBSET Nat, at : Nat,
   last_err : ProviderErrors \cup {None}, provider : Providers \cup {None},
   error : Errors \cup {None}, response : {"pending", "full", "stream"},
   usage : Counts \cup {None}, credited : Nat,
   frames : Seq({"event", "error", "[DONE]", ": done"})]

TypeOK ==
  /\ slot \in [DOMAIN Pipelines[0] -> Gens]
  /\ built \in Gens
  /\ swapping \subseteq Routes
  /\ ctx \in [Requests -> Contexts]
  /\ \A r \in Requests : ctx[r].at \in 0 .. Len(ctx[r].cands)
  /\ load \in [Gens -> [Providers -> Nat]]
  /\ metrics \in [Gens -> [Providers -> [out : Nat, requests : Nat, errors : Nat]]]
  /\ DOMAIN activity = Gens

Init ==
  /\ slot = [route \in DOMAIN Pipelines[0] |-> 0]
  /\ built = 0
  /\ swapping = {}
  /\ ctx = [r \in Requests |-> Fresh]
  /\ load = [g \in Gens |-> [p \in Providers |-> 0]]
  /\ metrics = [g \in Gens |-> [p \in Providers |-> [out |-> 0, requests |-> 0, errors |-> 0]]]
  /\ activity = [g \in Gens |-> << >>]
  /\ calls = [r \in Requests |-> << >>]
  /\ reported = [r \in Requests |-> 0]
  /\ logged = [r \in Requests |-> 0]

-----------------------------------------------------------------------------
(* routes.rs::handle and Pipeline::execute. *)

is_terminal(stage) == stage = "log"

\* What pass 1 has still to run: it skips the terminal stages.
Left(c) == {i \in DOMAIN c.todo : ~is_terminal(c.todo[i])}

\* The next non-terminal stage of a request; "log" when pass 1 is over.
NextStage(r) == IF Left(ctx[r]) = {} THEN "log" ELSE ctx[r].todo[Min(Left(ctx[r]))]
At(r, stage) == ctx[r].pc = "stages" /\ NextStage(r) = stage

\* A non-terminal stage returned Continue / Err(e): the error is kept and the
\* other non-terminal stages are skipped.
Continue(c) == [c EXCEPT !.pc = "stages", !.todo = SubSeq(@, Min(Left(c)) + 1, Len(@))]
Failing(c, e) == [c EXCEPT !.pc = "stages", !.todo = << >>, !.error = e]

GatewayErr(kind) == [kind |-> kind, status |-> 0]

\* A request arrives: the pipeline is loaded once and kept to the end.
handle(r, b) ==
  /\ ctx[r].pc = "idle" /\ b.route \in DOMAIN slot
  /\ LET g == slot[b.route] IN
     ctx' = [ctx EXCEPT ![r] = [Fresh EXCEPT
               !.pc = "stages", !.body = b, !.gen = g, !.todo = Pipelines[g][b.route]]]
  /\ UNCHANGED << reload_vars, shared, history >>

\* The route has no pipeline: an internal error, and no stage runs.
handle_no_pipeline(r, b) ==
  /\ ctx[r].pc = "idle" /\ b.route \notin DOMAIN slot
  /\ ctx' = [ctx EXCEPT ![r] = [Fresh EXCEPT !.pc = "done", !.body = b,
                                             !.error = GatewayErr("Internal")]]
  /\ UNCHANGED << reload_vars, shared, history >>

\* A stage that decides on the request alone: it lets it pass or fails it
\* with one of the given errors.
Decides(r, stage, kinds) ==
  /\ At(r, stage)
  /\ \/ ctx' = [ctx EXCEPT ![r] = Continue(@)]
     \/ \E kind \in kinds : ctx' = [ctx EXCEPT ![r] = Failing(@, GatewayErr(kind))]
  /\ UNCHANGED << reload_vars, shared, history >>

auth(r) == Decides(r, "auth", {"Unauthorized"})
content_policy(r) == Decides(r, "content_policy", {"PayloadTooLarge", "BadRequest"})

\* Mutant of candidates: a provider matched by two rules is listed twice.
candidates_not_deduped(g, model) ==
  FoldLeft(LAMBDA acc, rule : IF model \in rule.models THEN Append(acc, rule.provider) ELSE acc,
           << >>, Rules[g])

\* Every provider whose rule matches the model, in route order, once each.
candidates(g, model) ==
  FoldLeft(LAMBDA acc, rule : IF model \in rule.models /\ ~Contains(acc, rule.provider)
                              THEN Append(acc, rule.provider) ELSE acc,
           << >>, Rules[g])

model_route(r) ==
  /\ At(r, "model_route")
  /\ LET pool == candidates(ctx[r].gen, ctx[r].body.model) IN
     ctx' = [ctx EXCEPT ![r] = IF pool = << >>
                               THEN Failing(@, GatewayErr("NoRouteForModel"))
                               ELSE [Continue(@) EXCEPT !.cands = pool]]
  /\ UNCHANGED << reload_vars, shared, history >>

-----------------------------------------------------------------------------
(* ForwardStage::process. *)

\* Mutant of retryable: an upstream 5xx is final.
retryable_no_5xx(e) == e.kind \in {"Connect", "Timeout", "Stream"}

\* Errors worth retrying against another provider of the pool.
retryable(e) == e.kind \in {"Connect", "Timeout", "Stream"} \/ e.status >= 500

Untried(r) == DOMAIN ctx[r].cands \ ctx[r].tried

\* Mutant of Drop: the guard is dropped explicitly and again at scope end.
Drop_twice(g, p) == load' = [load EXCEPT ![g][p] = @ - 2]

\* InflightGuard::drop.
Drop(g, p) == load' = [load EXCEPT ![g][p] = @ - 1]

\* forward without a binding: model_route is not in the route's pipeline.
forward_no_binding(r) ==
  /\ At(r, "forward") /\ ctx[r].cands = << >>
  /\ ctx' = [ctx EXCEPT ![r] = Failing(@, GatewayErr("Internal"))]
  /\ UNCHANGED << reload_vars, shared, history >>

\* pick: the least-busy candidate not tried yet, ties to the earliest.  The
\* counters are read here and only incremented by acquire, a later step.
pick(r) ==
  LET busy(i) == load[ctx[r].gen][ctx[r].cands[i]] IN
  /\ At(r, "forward") /\ Untried(r) # {}
  /\ LET idx == CHOOSE i \in Untried(r) : \A j \in Untried(r) :
                  busy(i) < busy(j) \/ (busy(i) = busy(j) /\ i <= j)
     IN  ctx' = [ctx EXCEPT ![r].pc = "picked", ![r].at = idx]
  /\ UNCHANGED << reload_vars, shared, history >>

\* The pool is exhausted: the last upstream error is the answer.
pool_exhausted(r) ==
  /\ At(r, "forward") /\ ctx[r].cands # << >> /\ Untried(r) = {}
  /\ ctx' = [ctx EXCEPT ![r] = Failing(@, ctx[r].last_err)]
  /\ UNCHANGED << reload_vars, shared, history >>

\* The provider is recorded in the binding, counted as in flight and called.
acquire(r) ==
  LET p == ctx[r].cands[ctx[r].at] IN
  /\ ctx[r].pc = "picked"
  /\ load' = [load EXCEPT ![ctx[r].gen][p] = @ + 1]
  /\ ctx' = [ctx EXCEPT ![r].pc = "call", ![r].provider = p]
  /\ calls' = [calls EXCEPT ![r] = Append(@, [provider |-> p, error |-> None])]
  /\ UNCHANGED << reload_vars, metrics, activity, reported, logged >>

\* The call of r ended with error e (None for success): history only.
Ended(r, e) == calls' = [calls EXCEPT ![r][Len(calls[r])].error = e]

\* Mutant of call_retryable: the guard of the failed attempt is kept.
call_retryable_leak(r, e) ==
  /\ ctx[r].pc = "call" /\ retryable(e)
  /\ ctx' = [ctx EXCEPT ![r].pc = "stages", ![r].tried = @ \cup {ctx[r].at},
                        ![r].at = 0, ![r].last_err = e]
  /\ Ended(r, e)
  /\ UNCHANGED << reload_vars, shared, reported, logged >>

\* The upstream fails in a way another provider may not: fail over.
call_retryable(r, e) ==
  /\ ctx[r].pc = "call" /\ retryable(e)
  /\ ctx' = [ctx EXCEPT ![r].pc = "stages", ![r].tried = @ \cup {ctx[r].at},
                        ![r].at = 0, ![r].last_err = e]
  /\ Drop(ctx[r].gen, ctx[r].provider)
  /\ Ended(r, e)
  /\ UNCHANGED << reload_vars, metrics, activity, reported, logged >>

call_fatal(r, e) ==
  /\ ctx[r].pc = "call" /\ ~retryable(e)
  /\ ctx' = [ctx EXCEPT ![r] = Failing(@, e)]
  /\ Drop(ctx[r].gen, ctx[r].provider)
  /\ Ended(r, e)
  /\ UNCHANGED << reload_vars, metrics, activity, reported, logged >>

\* GatewayMetrics::add_output.
add_output(g, p, n) == [metrics EXCEPT ![g][p].out = @ + n]

\* A whole answer.  Usage is optional, except in an Anthropic answer; that of
\* an embedding is recorded for the log but not credited to the provider.  It
\* is credited before the answer is serialised, which may fail.
call_ok_full(r, u) ==
  LET c       == ctx[r]
      credits == u # None /\ c.body.route # "embeddings"
  IN  /\ c.pc = "call" /\ ~c.body.stream
      /\ u # Partial /\ (c.body.route = "messages" => u # None)
      /\ \/ ctx' = [ctx EXCEPT ![r] = [Continue(@) EXCEPT !.response = "full", !.usage = u]]
         \/ ctx' = [ctx EXCEPT ![r] = [Failing(@, GatewayErr("Internal")) EXCEPT !.usage = u]]
      /\ metrics' = IF credits THEN add_output(c.gen, c.provider, u) ELSE metrics
      /\ reported' = IF credits THEN [reported EXCEPT ![r] = u] ELSE reported
      /\ Drop(c.gen, c.provider)
      /\ UNCHANGED << reload_vars, activity, calls, logged >>

\* A stream was opened; the guard moves into it and nothing is polled yet.
call_ok_stream(r) ==
  /\ ctx[r].pc = "call" /\ ctx[r].body.stream
  /\ ctx' = [ctx EXCEPT ![r] = [Continue(@) EXCEPT !.response = "stream"]]
  /\ UNCHANGED << reload_vars, shared, history >>

-----------------------------------------------------------------------------
(* LogStage::process, the terminal pass, and the reply. *)

http_status(e) ==
  CASE e.kind = "BadRequest"      -> 400
    [] e.kind = "Unauthorized"    -> 401
    [] e.kind = "PayloadTooLarge" -> 413
    [] e.kind = "Status"          -> e.status
    [] e.kind = "Timeout"         -> 504
    [] e.kind = "Internal"        -> 500
    [] OTHER                      -> 502

status(c) == IF c.error = None THEN 200 ELSE http_status(c.error)

\* Mutant of record_request: client errors are not counted.
record_request_5xx(g, p, st) ==
  [metrics EXCEPT ![g][p].requests = @ + 1,
                  ![g][p].errors = @ + (IF st >= 500 THEN 1 ELSE 0)]

\* GatewayMetrics::record_request.
record_request(g, p, st) ==
  [metrics EXCEPT ![g][p].requests = @ + 1,
                  ![g][p].errors = @ + (IF st >= 400 THEN 1 ELSE 0)]

\* ActivityLog::record.
record(ring, ev) == Append(IF Len(ring) >= ActivityCap THEN Tail(ring) ELSE ring, ev)

\* Log, then answer: the error or the body at once, or the SSE stream.
log(r) ==
  LET c  == ctx[r]
      ev == [request |-> r, provider |-> c.provider, status |-> status(c),
             tokens |-> IF c.usage = None THEN 0 ELSE c.usage]
  IN  /\ At(r, "log")
      /\ ctx' = [ctx EXCEPT ![r].pc = IF c.response = "stream" THEN "stream" ELSE "done"]
      /\ IF c.provider = None
         THEN UNCHANGED << metrics, activity >>
         ELSE /\ metrics' = record_request(c.gen, c.provider, status(c))
              /\ activity' = [activity EXCEPT ![c.gen] = record(@, ev)]
      /\ logged' = [logged EXCEPT ![r] = @ + 1]
      /\ UNCHANGED << reload_vars, load, calls, reported >>

-----------------------------------------------------------------------------
(* The response stream: the usage taps of forward.rs inside sse.rs. *)

\* The completion count a usage report leaves in the usage slot.
Completion(c, u) ==
  IF u = Partial
  THEN IF c.body.route = "chat" \/ c.usage = None THEN 0 ELSE c.usage
  ELSE u

\* Mutant of Credit: every report is credited in full.
Credit_again(c, u) == IF u \in Counts THEN u ELSE 0

\* Completion tokens a report adds to those credited already.
Credit(c, u) == IF u \in Counts /\ u > c.credited THEN u - c.credited ELSE 0

stream_item(r, u) ==
  LET c == ctx[r] IN
  /\ c.pc = "stream" /\ Len(c.frames) < MaxEvents
  /\ ctx' = [ctx EXCEPT ![r].frames = Append(@, "event"),
                        ![r].usage = IF u = None THEN @ ELSE Completion(c, u),
                        ![r].credited = @ + Credit(c, u)]
  /\ metrics' = add_output(c.gen, c.provider, Credit(c, u))
  /\ reported' = [reported EXCEPT ![r] = IF u \in Counts /\ u > @ THEN u ELSE @]
  /\ UNCHANGED << reload_vars, load, activity, calls, logged >>

\* The upstream stream yields an error, its last item.
stream_error(r) ==
  /\ ctx[r].pc = "stream"
  /\ ctx' = [ctx EXCEPT ![r].pc = "failed", ![r].frames = Append(@, "error")]
  /\ UNCHANGED << reload_vars, shared, history >>

\* Mutant of stream_end: after an error item the stream is left open.
stream_end_unfailed(r) ==
  /\ ctx[r].pc = "stream"
  /\ ctx' = [ctx EXCEPT ![r].pc = "done",
                        ![r].frames = Append(@, IF ctx[r].body.route = "chat"
                                                THEN "[DONE]" ELSE ": done")]
  /\ Drop(ctx[r].gen, ctx[r].provider)
  /\ UNCHANGED << reload_vars, metrics, activity, history >>

\* The upstream stream is over: it is dropped with its guard, and the frame
\* chained to it is emitted.
stream_end(r) ==
  /\ ctx[r].pc \in {"stream", "failed"}
  /\ ctx' = [ctx EXCEPT ![r].pc = "done",
                        ![r].frames = Append(@, IF ctx[r].body.route = "chat"
                                                THEN "[DONE]" ELSE ": done")]
  /\ Drop(ctx[r].gen, ctx[r].provider)
  /\ UNCHANGED << reload_vars, metrics, activity, history >>

\* The client disconnects: the task or the response body is dropped where it
\* is suspended, and the terminal stages of a pending call never run.
client_gone(r) ==
  /\ ctx[r].pc \in {"call", "stream", "failed"}
  /\ ctx' = [ctx EXCEPT ![r].pc = "gone"]
  /\ Drop(ctx[r].gen, ctx[r].provider)
  /\ UNCHANGED << reload_vars, metrics, activity, history >>

-----------------------------------------------------------------------------
(* signal.rs::reload. *)

\* A new state is built, with counters of its own.  A failed build changes
\* nothing.
reload ==
  /\ swapping = {} /\ built < MaxReloads
  /\ built' = built + 1
  /\ swapping' = DOMAIN Pipelines[built + 1] \cap DOMAIN slot
  /\ UNCHANGED << slot, ctx, shared, history >>

\* slot.store, one route after the other while requests keep arriving.
swap(route) ==
  /\ route \in swapping
  /\ slot' = [slot EXCEPT ![route] = built]
  /\ swapping' = swapping \ {route}
  /\ UNCHANGED << built, ctx, shared, history >>

-----------------------------------------------------------------------------
Stages(r) == auth(r) \/ content_policy(r) \/ model_route(r) \/ forward_no_binding(r)
               \/ pick(r) \/ pool_exhausted(r) \/ acquire(r) \/ log(r)

Upstream(r) == \/ \E e \in ProviderErrors : call_retryable(r, e) \/ call_fatal(r, e)
               \/ \E u \in Usages : call_ok_full(r, u) \/ stream_item(r, u)
               \/ call_ok_stream(r) \/ stream_error(r) \/ stream_end(r)

Next == \/ \E r \in Requests : Stages(r) \/ Upstream(r) \/ client_gone(r)
        \/ \E r \in Requests : \E b \in Asks[r] : handle(r, b) \/ handle_no_pipeline(r, b)
        \/ reload
        \/ \E route \in Routes : swap(route)

Spec == Init /\ [][Next]_vars

\* The runtime runs every ready task, and an upstream call answers or times
\* out (the HTTP clients bound a call, its body included, by timeout_secs).
FairSpec == /\ Spec
            /\ \A r \in Requests : WF_vars(Stages(r) \/ Upstream(r))

-----------------------------------------------------------------------------
(* Properties. *)

\* The requests that count as in flight at p: the call is pending, or the
\* stream it opened is neither finished nor dropped.
InFlight(g, p) ==
  {r \in Requests : /\ ctx[r].gen = g /\ ctx[r].provider = p
                    /\ \/ ctx[r].pc = "call"
                       \/ ctx[r].response = "stream" /\ ctx[r].pc \in {"stages", "stream", "failed"}}

(***************************************************************************)
(* LoadExact: the in-flight counter of every provider is the number of     *)
(* requests it is serving: no retry, error, finished stream, disconnect or *)
(* reload leaves a count behind or takes one twice (LoadTracker::acquire,  *)
(* InflightGuard::drop and where forward lets the guard go).               *)
(***************************************************************************)
LoadExact == \A g \in Gens, p \in Providers : load[g][p] = Cardinality(InFlight(g, p))

(***************************************************************************)
(* AtMostOncePerProvider: failover never sends a request to the same       *)
(* provider twice, however the rules that match its model overlap.         *)
(***************************************************************************)
AtMostOncePerProvider ==
  \A r \in Requests : \A i, j \in DOMAIN calls[r] :
    i # j => calls[r][i].provider # calls[r][j].provider

(***************************************************************************)
(* FailoverComplete: a request that was dispatched is only answered with a *)
(* retryable upstream error after every candidate failed that way, and a   *)
(* call that failed otherwise is the last one and gives the answer: the    *)
(* pool is neither given up early nor tried on after a client error.  Only *)
(* an answer that cannot be serialised fails a request by itself.          *)
(***************************************************************************)
FailoverComplete ==
  \A r \in Requests :
    LET c == ctx[r]
        RetriedAway(i) == calls[r][i].error \in ProviderErrors
                            /\ (calls[r][i].error.kind \in {"Connect", "Timeout", "Stream"}
                                 \/ calls[r][i].error.status \in 500 .. 599)
    IN  /\ \A i \in 1 .. (Len(calls[r]) - 1) : RetriedAway(i)
        /\ calls[r] # << >> /\ c.error # None =>
             /\ \/ c.error = calls[r][Len(calls[r])].error
                \/ calls[r][Len(calls[r])].error = None /\ c.error = GatewayErr("Internal")
             /\ RetriedAway(Len(calls[r])) => Len(calls[r]) = Len(c.cands)

(***************************************************************************)
(* RequestsAccounted: the dashboard's counters of a provider are those of  *)
(* the requests it answered last: each one is counted once when its        *)
(* pipeline ends, as an error exactly when it is answered with one.  A     *)
(* request whose client leaves before that is not counted: so the code     *)
(* does, against its docs (EveryRequestLogged).                            *)
(***************************************************************************)
RequestsAccounted ==
  \A g \in Gens, p \in Providers :
    LET ended == {r \in Requests : /\ ctx[r].gen = g /\ ctx[r].provider = p
                                   /\ \/ ctx[r].pc \in {"done", "stream", "failed"}
                                      \/ ctx[r].pc = "gone" /\ ctx[r].response # "pending"}
    IN  /\ metrics[g][p].requests = Cardinality(ended)
        /\ metrics[g][p].errors = Cardinality({r \in ended : ctx[r].error # None})

(***************************************************************************)
(* TokensCredited: the output tokens of a provider are the sum, over the   *)
(* chats it served, of the largest completion count each one reported,     *)
(* whatever the number and order of the usage events of a stream and       *)
(* wherever it breaks off.                                                 *)
(***************************************************************************)
TokensCredited ==
  \A g \in Gens, p \in Providers :
    metrics[g][p].out =
      FoldSet(LAMBDA r, acc : acc + reported[r], 0,
              {r \in Requests : ctx[r].gen = g /\ ctx[r].provider = p})

(***************************************************************************)
(* EveryRequestAnswered: a request that reached a pipeline is eventually   *)
(* answered to its end or abandoned by its client, whatever fails upstream *)
(* and however often the configuration is reloaded.  Each request is sent  *)
(* at most once, so this is: in the end no request is under way.           *)
(***************************************************************************)
EveryRequestAnswered ==
  <>[](\A r \in Requests : ctx[r].pc \in {"idle", "done", "gone"})

(***************************************************************************)
(* EveryRequestLogged: "terminal stages always run, so every request emits *)
(* exactly one log line" (README.md, Pipeline).                            *)
(***************************************************************************)
EveryRequestLogged ==
  \A r \in Requests :
    ctx[r].pc \in {"done", "gone"} /\ ctx[r].body.route \in DOMAIN slot => logged[r] = 1
=============================================================================
