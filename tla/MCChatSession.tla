--------------------------- MODULE MCChatSession ---------------------------
(* ChatSession over a model of two tokens.                                 *)
EXTENDS ChatSession

\* A greedy continuation that neither repeats nor merely alternates.
MCArgmax(ctx) == (ctx[Len(ctx)] + Len(ctx) \div 2) % 2

\* Two first messages, what the longest reply to one of them grows into, and
\* a history edited half way.
Greeting == <<0>>
Grown[n \in Nat] ==
    IF n = 0 THEN Greeting ELSE Append(Grown[n - 1], MCArgmax(Grown[n - 1]))
MCPrompts == {Greeting, <<1>>, Append(Grown[1], 0), Append(Grown[1], 1),
              Append(Grown[2], 0), Append(Grown[2], 1)}

Plain == [verify |-> "batch", tree |-> "none", adaptive |-> FALSE, rescue |-> FALSE,
          optimistic |-> FALSE, sparse |-> FALSE, suffix |-> FALSE, patched |-> TRUE]

\* The modes the flags select, one or two at a time.
Modes == {
    Plain,
    [Plain EXCEPT !.patched = FALSE],
    [Plain EXCEPT !.verify = "step"],
    [Plain EXCEPT !.tree = "top2"],
    [Plain EXCEPT !.tree = "top2_p1", !.patched = FALSE],
    [Plain EXCEPT !.tree = "paths"],
    [Plain EXCEPT !.adaptive = TRUE],
    [Plain EXCEPT !.adaptive = TRUE, !.rescue = TRUE],
    [Plain EXCEPT !.adaptive = TRUE, !.sparse = TRUE],
    [Plain EXCEPT !.sparse = TRUE, !.suffix = TRUE],
    [Plain EXCEPT !.optimistic = TRUE],
    [Plain EXCEPT !.optimistic = TRUE, !.tree = "top2_p1"]}

\* A sparse demand under a verify that does not look for overflows.
SparseTree == {[Plain EXCEPT !.tree = "top2", !.sparse = TRUE]}
=============================================================================
