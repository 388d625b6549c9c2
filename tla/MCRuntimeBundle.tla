-------------------------- MODULE MCRuntimeBundle --------------------------
(***************************************************************************)
(* Two layers, two experts, two segments of different size, two runs of    *)
(* the command with one process id to reuse.                               *)
(***************************************************************************)
EXTENDS RuntimeBundle

CONSTANTS norm, embed, extra, w, s, sh1, sh2, old, o1, o2

MCSegSeq == <<w, s>>
MCSize == [x \in {w, s} |-> IF x = w THEN 2 ELSE 1]
Pack(keys) == [k \in keys |-> IF k \in {embed, <<0, w>>, <<0, s>>, <<1, w>>} THEN sh1 ELSE sh2]
All == {embed, norm} \cup ({0, 1} \X {w, s})
Held == [f \in {sh1, sh2, old} |->
            IF f = old THEN {norm, extra} ELSE {k \in All : Pack(All)[k] = f}]
Src(index, has, present, n, mtp, space) ==
    [index |-> index, has |-> has, files |-> present, remote |-> {sh1, sh2}, nlayers |-> n,
     mtp |-> mtp, space |-> space]

\* A sound source, beside a file of an older one; no index; a shard missing; a
\* shard without a tensor the index names; fewer layers than configured; an
\* MTP shard without an expert; nothing but what will be downloaded,
\* with room for one bundle.
MCSources ==
    { Src(Pack(All), Held, {sh1, sh2, old}, 2, {1, 2}, 2), Src(Nothing, Held, {sh1, sh2}, 2, {1, 2}, 2),
      Src(Pack(All), Held, {sh1}, 2, {1, 2}, 2),
      Src(Pack(All), [Held EXCEPT ![sh2] = @ \ {<<1, s>>}], {sh1, sh2}, 2, {1, 2}, 2),
      Src(Pack(All), Held, {sh1, sh2}, 3, {1, 2}, 2), Src(Pack(All), Held, {sh1, sh2}, 2, {1}, 2),
      Src(Pack(All), Held, {}, 2, {1, 2}, 1) }
=============================================================================
