----------------------------- MODULE MCGateway -----------------------------
(***************************************************************************)
(* Gateway for TLC, with two configurations.  Model m is served by both    *)
(* providers, p1 through two rules; x by none.  A reload turns the pool    *)
(* around and takes model_route out of the messages pipeline, which first  *)
(* declares log before the others: it is terminal and still runs last.     *)
(* Embeddings have no pipeline.                                            *)
(***************************************************************************)
EXTENDS Gateway

CONSTANTS m, x, p1, p2, r1

Rule(model, provider) == [models |-> {model}, provider |-> provider]

MCRules == [g \in Gens |-> IF g = 0
                           THEN << Rule(m, p1), Rule(m, p2), Rule(m, p1) >>
                           ELSE << Rule(m, p2), Rule(m, p1) >>]

MCPipelines ==
  [g \in Gens |->
     [route \in {"chat", "messages"} |->
        CASE route = "chat" -> << "auth", "model_route", "forward", "log" >>
          [] g = 0          -> << "log", "content_policy", "model_route", "forward" >>
          [] OTHER          -> << "forward", "log" >>]]

Ask(route, stream, model) == [route |-> route, stream |-> stream, model |-> model]

\* r1 chats, the others use the Anthropic route or ask for an embedding.
MCAsks ==
  [r \in Requests |->
     IF r = r1 THEN {Ask("chat", TRUE, m), Ask("chat", FALSE, m), Ask("chat", FALSE, x)}
     ELSE {Ask("messages", TRUE, m), Ask("messages", FALSE, m), Ask("embeddings", FALSE, m)}]
=============================================================================
