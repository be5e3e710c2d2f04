------------------------------ MODULE Ollamas ------------------------------
(***************************************************************************)
(* How Ollama hosts found on the LAN become providers and routes of the    *)
(* gateway: discover_ollamas of discovery/discover.rs and                  *)
(* merge_discovered_ollamas of crates/ai-engine/src/discovery.rs.  An      *)
(* announcement is a record [role, url, v4, label, models]; labels are     *)
(* numbers in the order of the strings, and the provider id that the code  *)
(* makes of a label is the label.                                          *)
(***************************************************************************)
EXTENDS Integers, SequencesExt

\* What the browse loop looks at: an Ollama with a URL and an IPv4 address.
Usable(ad) == ad.role = "ollama" /\ ad.url /\ ad.v4

Seen(found, label) == \E i \in DOMAIN found : found[i].label = label

\* The events in the order they come: the first of a label wins, then the
\* result is sorted by label.
discover_ollamas(events) ==
  LET step(found, ad) == IF Usable(ad) /\ ~Seen(found, ad.label) THEN Append(found, ad) ELSE found
  IN  SortSeq(FoldLeft(step, << >>, events), LAMBDA a, b : a.label < b.label)

Routed(routes, provider, model) ==
  \E i \in DOMAIN routes : routes[i] = [provider |-> provider, model |-> model]

\* Mutant of add_routes: `existing` is not consulted.
add_routes_unchecked(routes, ad) ==
  routes \o [i \in DOMAIN ad.models |-> [provider |-> ad.label, model |-> ad.models[i]]]

\* One route per model, without exact duplicates.
add_routes(routes, ad) ==
  LET step(rs, model) == IF Routed(rs, ad.label, model) THEN rs
                         ELSE Append(rs, [provider |-> ad.label, model |-> model])
  IN  FoldLeft(step, routes, ad.models)

\* Append a provider and its routes for each Ollama whose id is not taken.
merge_discovered_ollamas(cfg, found) ==
  LET step(c, ad) ==
        IF Contains(c.providers, ad.label) THEN c
        ELSE [providers |-> Append(c.providers, ad.label), routes |-> add_routes(c.routes, ad)]
  IN  FoldLeft(step, cfg, found)
=============================================================================
