-------------------------- MODULE MCGenerationStream --------------------------
(***************************************************************************)
(* Generation streams for TLC: small mixes of requests, each with a budget *)
(* for the faults it is about.                                             *)
(***************************************************************************)
EXTENDS GenerationStream

CONSTANTS w1, w2, r1, r2

World(ask1, faults) == [ask |-> ask1, faults |-> faults]
Ask(requests, workers, to, need, grammar, yields) ==
  [requests |-> requests, workers |-> workers, to |-> [r \in Requests |-> to],
   need |-> [r \in Requests |-> need], grammar |-> [r \in Requests |-> grammar],
   sse |-> [r \in Requests |-> r = r2], yields |-> yields, prewarms |-> {FALSE},
   warm |-> "done", gated |-> TRUE]
Budgets(F, n) == [f \in Faults |-> IF f \in F THEN n ELSE 0]

\* Two requests contend for the budget of one worker, or for its grammar.
Both == {r1, r2}
Contend(F) == World(Ask(Both, {w1}, Nothing, 1, FALSE, {"done"}), Budgets(F, 1))
Share(F) == World(Ask(Both, {w1}, Nothing, 0, TRUE, {"end"}), Budgets(F, 1))

\* One request on one worker: redelivered siblings, cancels, the chunk queue.
Alone(need, yields, F, n) == World(Ask({r1}, {w1}, Nothing, need, FALSE, yields), Budgets(F, n))

\* One SSE request on one worker: its client reads what the tap still has.
Streamed(yields, F) == World(Ask({r2}, {w1}, Nothing, 1, FALSE, yields), Budgets(F, 1))

\* One request sent to a worker of a lane of two.
Direct(r, yields, F) == World(Ask({r}, {w1, w2}, w1, 1, FALSE, yields), Budgets(F, 1))

\* Admission is off.
Open(W) == [W EXCEPT !.ask.gated = FALSE]

\* The first requests of a process: its grammars are prewarmed.
Cold(W, ok) == [W EXCEPT !.ask.warm = "no", !.ask.prewarms = {ok}]

Deltas == {"text", "tool", "done"}
MCWorkloads ==
  {Contend({"leave"}), Open(Contend({}))}
    \cup {Share(F) : F \in {{"slow", "late"}, {"compile", "abort"}}}
    \cup {Alone(1, Deltas \cup {"end", "raise"}, {"stall", "publish"}, 1)}
    \cup {Alone(1, Deltas, F, 2) : F \in {{"stall"}, {"drop"}}}
    \cup {Alone(1, {"done"}, F, 1) : F \in
            {{"late", "leave"}, {"ack", "crash"}, {"timeout", "expire", "load"},
             {"leave", "reject", "missing"}}}
    \cup {Direct(r1, {"done"}, {"first", "missing", "limit"}),
          Direct(r1, {"end"}, {"missing", "republish", "publish", "timeout"})}
    \cup {Direct(r2, {"done"}, {"first", "republish"}), Streamed({"text", "done"}, {"drop", "leave"})}
    \cup {Cold(Share({"abort"}), ok) : ok \in BOOLEAN}

\* Only the first chunk of one streaming request is late.
FallbackWorkloads == {Direct(r2, {"done"}, {"first"})}
===============================================================================
