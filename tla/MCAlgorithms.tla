---------------------------- MODULE MCAlgorithms ----------------------------
(***************************************************************************)
(* The pure algorithms on every small input: those of Solver, the two SSE  *)
(* parsers on every body cut into chunks in every way, and the merge of    *)
(* discovered Ollama hosts into the configuration.                         *)
(***************************************************************************)
EXTENDS Solver, Ollamas

CONSTANTS MaxBytes,  \* the length of a body
          MaxCuts    \* the places it is cut

VARIABLES chunks,    \* the body of a response, as it arrives
          items,     \* what the parsers of the two clients yield
          cfg,       \* providers and routes of the configuration file
          events,    \* the announcements a gateway hears while it browses
          merged     \* providers and routes it starts with

OpenAI    == INSTANCE Sse WITH Done <- TRUE
Anthropic == INSTANCE Sse WITH Done <- FALSE

parsers  == << chunks, items >>
startup  == << cfg, events, merged >>

\* Configurations whose provider 1 may have the id of a discovered host.
Configs == {[providers |-> << >>, routes |-> << >>],
            [providers |-> << 3 >>, routes |-> << [provider |-> 3, model |-> 1] >>],
            [providers |-> << 3, 1 >>, routes |-> << [provider |-> 1, model |-> 2] >>]}

Ads == [role : {"ollama", "worker"}, url : BOOLEAN, v4 : BOOLEAN, label : 1 .. 2,
        models : {<< >>, << 1 >>, << 2, 1 >>, << 1, 1 >>}]

\* The chunks between the places text is cut at.
Chunks(text, places) ==
  LET at == << 0 >> \o SetToSortSeq(places, LAMBDA i, j : i < j) \o << Len(text) >>
  IN  [k \in 1 .. Len(at) - 1 |-> SubSeq(text, at[k] + 1, at[k + 1])]

AlgorithmsInit ==
  \/ SolverInit /\ chunks = Pending /\ items = Pending /\ cfg = Pending /\ events = Pending
     /\ merged = Pending
  \/ /\ caps = Pending /\ override = Pending /\ auto = Pending /\ manual = Pending
     /\ \E n \in 1 .. MaxBytes : \E text \in [1 .. n -> OpenAI!Bytes] : chunks = << text >>
     /\ items = Pending /\ cfg = Pending /\ events = Pending /\ merged = Pending
  \/ /\ caps = Pending /\ override = Pending /\ auto = Pending /\ manual = Pending
     /\ chunks = Pending /\ items = Pending /\ merged = Pending
     /\ cfg \in Configs /\ events \in SeqOf(Ads, 2)

\* A body arrives in pieces, to its end or until the connection breaks, and
\* both clients parse it.
Parse ==
  /\ Len(chunks) = 1 /\ items = Pending
  /\ \E places \in UNION {kSubset(k, 1 .. Len(chunks[1]) - 1) : k \in 1 .. MaxCuts} :
       chunks' \in {Chunks(chunks[1], places), Append(Chunks(chunks[1], places), OpenAI!Broken)}
  /\ items' = << OpenAI!parse(chunks'), Anthropic!parse(chunks') >>
  /\ UNCHANGED << solver, startup >>

\* main: browse, then fold what was found into the configuration.
Merge ==
  /\ cfg # Pending /\ merged = Pending
  /\ merged' = merge_discovered_ollamas(cfg, discover_ollamas(events))
  /\ UNCHANGED << solver, parsers, cfg, events >>

AlgorithmsNext == \/ caps # Pending /\ SolverNext /\ UNCHANGED << parsers, startup >>
                  \/ Parse
                  \/ Merge

AlgorithmsSpec == AlgorithmsInit /\ [][AlgorithmsNext]_<< solver, parsers, startup >>

(***************************************************************************)
(* EventsOfBody: both parsers yield what the body says, wherever the       *)
(* network cuts it: inside a line, a multi-byte character or between the   *)
(* two newlines that end a frame.  No event is lost, doubled or torn,      *)
(* nothing follows [DONE] or an error, and a connection that breaks before *)
(* the end is an error, never a short answer.                              *)
(***************************************************************************)
EventsOfBody ==
  items # Pending =>
    LET broken == Last(chunks) = OpenAI!Broken
        text   == FlattenSeq(IF broken THEN Front(chunks) ELSE chunks)
    IN  items = << OpenAI!Body(text, broken), Anthropic!Body(text, broken) >>

\* The announcement that stands for a label: the first usable one.
First(label) == CHOOSE i \in DOMAIN events :
                  /\ Usable(events[i]) /\ events[i].label = label
                  /\ \A j \in 1 .. i - 1 : ~(Usable(events[j]) /\ events[j].label = label)

(***************************************************************************)
(* MergeAddsOnly: discovery only adds to the configuration.  Providers and *)
(* routes of the file keep their places; every host heard whose id is free *)
(* becomes one provider, whatever the order and repetition of the          *)
(* announcements; it gets no route twice and none but to its own models,   *)
(* and a model that nobody before it routes is routed to it.  Whether it   *)
(* is routed for a model that is routed already is left open: the comments *)
(* of discovery.rs contradict each other there (18-19 and 46-48).          *)
(***************************************************************************)
MergeAddsOnly ==
  merged # Pending =>
    LET fresh  == {ad.label : ad \in {a \in Range(events) : Usable(a)}} \ Range(cfg.providers)
        models(l) == Range(events[First(l)].models)
        before(l) == {r.model : r \in Range(cfg.routes)}
                       \cup UNION {models(k) : k \in {f \in fresh : f < l}}
        routes == SubSeq(merged.routes, Len(cfg.routes) + 1, Len(merged.routes))
        to(l)  == {r.model : r \in {x \in Range(routes) : x.provider = l}}
    IN  /\ merged.providers = cfg.providers \o SetToSortSeq(fresh, LAMBDA a, b : a < b)
        /\ IsPrefix(cfg.routes, merged.routes) /\ IsInjective(routes)
        /\ \A r \in Range(routes) : r.provider \in fresh
        /\ \A l \in fresh : to(l) \subseteq models(l) /\ models(l) \ before(l) \subseteq to(l)
=============================================================================
