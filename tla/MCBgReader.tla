----------------------------- MODULE MCBgReader -----------------------------
(* BgReader on a small instance: one demand of two reads.                  *)
EXTENDS BgReader

MCReads == [c \in {"demand"} |-> {"read1", "read2"}]
=============================================================================
