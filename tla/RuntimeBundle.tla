--------------------------- MODULE RuntimeBundle ---------------------------
(***************************************************************************)
(* `vates prepare` (prep/runtime_bundle.py): source shards become a        *)
(* compact bundle, built in a staging directory, verified, renamed to its  *)
(* final name, and only then are the shards deleted.  Several runs of the  *)
(* command may share the sources, and any of them may be killed anywhere.  *)
(*                                                                         *)
(* A tensor is a key of core, or <<layer, segment>> for the stacked        *)
(* experts of a layer; a blob is the sequence of its bytes.  The MTP shard *)
(* is one more source file, MTP, with its experts in a blob of their own.  *)
(***************************************************************************)
EXTENDS Integers, FiniteSets, PyLists

CONSTANTS
    Runs,       \* runs of the command
    Pids,       \* process ids they may get
    Outputs,    \* --output
    Shards,     \* file names of the main source
    MTP,
    Core,       \* keys of tensors outside the experts
    SegSeq,     \* segments of an expert record in order
    Size,       \* their bytes
    NE,         \* num_experts
    Sources,    \* what the source directories may hold
    Nothing

Segs == {SegSeq[i] : i \in DOMAIN SegSeq}

ASSUME BundleAssumption ==
    /\ SegSeq \in Seq(Segs) /\ IsInjective(SegSeq)
    /\ Size \in [Segs -> Nat \ {0}] /\ NE \in Nat \ {0}
    /\ MTP \notin Shards /\ Outputs \cap (Outputs \X Pids) = {}
    /\ \A s \in Sources :
         /\ DOMAIN s.has = Shards /\ s.files \cup s.remote \subseteq Shards
         /\ \A k \in UNION {s.has[f] : f \in Shards} :
              k \in Core \/ (k[1] \in Nat /\ k[2] \in Segs)
         /\ s.nlayers \in Nat /\ s.space \in Nat /\ s.mtp \subseteq 1 .. NE
         /\ s.index = Nothing \/ {s.index[k] : k \in DOMAIN s.index} \subseteq Shards

VARIABLES
    source,     \* the chosen source: has, index, nlayers, mtp, remote, space
    files,      \* source files present
    dirs,       \* outputs and staging directories (by output and pid) that exist
    run         \* [pc, out, pid, keep, shards, todo, seen]

bundleVars == <<source, files, dirs, run>>

BundleInit ==
    /\ source \in Sources
    /\ files = source.files \cup {MTP}
    /\ dirs = [d \in Outputs \cup (Outputs \X Pids) |-> Nothing]
    /\ run = [r \in Runs |-> [pc |-> "new", out |-> Nothing, pid |-> Nothing, keep |-> FALSE,
                              shards |-> {}, todo |-> {}, seen |-> {}]]

At(r, pc) == run[r].pc = pc
Goto(r, pc) == run' = [run EXCEPT ![r].pc = pc]
Staging(r) == <<run[r].out, run[r].pid>>
Bundle(r) == dirs[Staging(r)]
Update(r, b) == dirs' = [dirs EXCEPT ![Staging(r)] = b]
-----------------------------------------------------------------------------
(* Layout: a record is its segments one after the other.                   *)

Offset(s) ==
    LET i == CHOOSE j \in DOMAIN SegSeq : SegSeq[j] = s
    IN  FoldLeft(LAMBDA n, t : n + Size[t], 0, SubSeq(SegSeq, 1, i - 1))

Stride == FoldLeft(LAMBDA n, t : n + Size[t], 0, SegSeq)

\* handles[layer] truncated to stride * experts: zeros.
Blank == [p \in 1 .. Stride * NE |-> Nothing]

\* Every expert's slice of a stacked tensor goes to expert * stride + offset.
WriteTensor(blob, l, s) ==
    LET At0(e) == (e - 1) * Stride + Offset(s)
    IN  [p \in DOMAIN blob |->
            IF \E e \in 1 .. NE : p - At0(e) \in 1 .. Size[s]
            THEN LET e == CHOOSE x \in 1 .. NE : p - At0(x) \in 1 .. Size[s]
                 IN  <<l, e, s, p - At0(e)>>
            ELSE blob[p]]

\* The tensors of a shard that belong to a layer, one after the other.
Fill(blob, l, ss) == FoldLeft(LAMBDA b, s : WriteTensor(b, l, s), blob, ss)
-----------------------------------------------------------------------------
(* What the source lists.                                                  *)

\* The index decides; without one, the shards that are there.
Listed == IF source.index # Nothing THEN {source.index[k] : k \in DOMAIN source.index}
          ELSE files \ {MTP}
KeysListed == IF source.index # Nothing THEN DOMAIN source.index
              ELSE UNION {source.has[f] : f \in files \ {MTP}}
Expected == KeysListed \ Core
LayersOf(keys) == {k[1] : k \in keys}
Required(keys) == LayersOf(keys) \X Segs

Refuse(r) == Goto(r, "refused") /\ UNCHANGED <<source, files, dirs>>

Begin(r, out, keep, download) ==
    /\ At(r, "new")
    /\ IF dirs[out] # Nothing THEN Refuse(r)
       ELSE /\ run' = [run EXCEPT ![r] = [@ EXCEPT !.pc = IF download THEN "download" ELSE "stage",
                                                   !.out = out, !.keep = keep]]
            /\ UNCHANGED <<source, files, dirs>>

\* The hub's downloader fetches what is missing and resumes after a failure.
Fetch(r, f) ==
    /\ At(r, "download") /\ f \notin files
    /\ files' = files \cup {f}
    /\ UNCHANGED <<source, dirs, run>>

Fetched(r) ==
    /\ At(r, "download") /\ source.remote \cup {MTP} \subseteq files
    /\ Goto(r, "stage") /\ UNCHANGED <<source, files, dirs>>

\* Headers of every shard are read for the estimate, before the directory.
Stage(r, pid) ==
    /\ At(r, "stage")
    /\ \A q \in Runs : run[q].pid = pid => run[q].pc \in {"done", "failed", "refused"}
    /\ IF \/ MTP \notin files \/ Listed = {} \/ ~(Listed \subseteq files)
          \/ dirs[<<run[r].out, pid>>] # Nothing
          \/ Cardinality({d \in DOMAIN dirs : dirs[d] # Nothing}) >= source.space
       THEN Refuse(r)
       ELSE /\ run' = [run EXCEPT ![r].pc = "build", ![r].pid = pid]
            /\ dirs' = [dirs EXCEPT ![<<run[r].out, pid>>] =
                   [core |-> {}, blobs |-> <<>>, mtpCore |-> FALSE, mtpBlob |-> <<>>,
                    marker |-> {}, status |-> Nothing, created |-> Nothing]]
            /\ UNCHANGED <<source, files>>

Fail(r) == Goto(r, "failed") /\ UNCHANGED <<source, files, dirs>>

\* build_main_core_and_blobs up to its loop: nothing is written for a
\* source whose list of experts has gaps.
BuildStart(r) ==
    /\ At(r, "build")
    /\ IF \/ ~(Listed \subseteq files) \/ Expected = {}
          \/ LayersOf(Expected) # 0 .. source.nlayers - 1
          \/ Expected # Required(Expected)
       THEN Fail(r)
       ELSE /\ Update(r, [Bundle(r) EXCEPT !.blobs = [l \in LayersOf(Expected) |-> Blank]])
            /\ run' = [run EXCEPT ![r] = [@ EXCEPT !.pc = "shards", !.shards = Listed,
                                                   !.todo = Listed, !.seen = {}]]
            /\ UNCHANGED <<source, files>>

\* One shard: the core tensors are saved, the experts go to their blobs.
BuildShard(r, f) ==
    /\ At(r, "shards") /\ f \in run[r].todo
    /\ LET experts == source.has[f] \ Core
           Filled(l) == LET ss == {s \in Segs : <<l, s>> \in experts}
                        IN  Fill(Bundle(r).blobs[l], l, Without(SegSeq, Segs \ ss))
       IN  IF f \notin files \/ ~(LayersOf(experts) \subseteq DOMAIN Bundle(r).blobs) THEN Fail(r)
           ELSE /\ Update(r, [Bundle(r) EXCEPT !.core = @ \cup (source.has[f] \cap Core),
                                  !.blobs = [l \in DOMAIN Bundle(r).blobs |-> Filled(l)]])
                /\ run' = [run EXCEPT ![r].todo = @ \ {f}, ![r].seen = @ \cup experts]
                /\ UNCHANGED <<source, files>>

\* (mutant) What the index promised is not compared with what was written.
BuildEndUnchecked(r) ==
    /\ At(r, "shards") /\ run[r].todo = {}
    /\ Update(r, [Bundle(r) EXCEPT !.marker = run[r].shards])
    /\ Goto(r, "mtp") /\ UNCHANGED <<source, files>>

BuildEnd(r) ==
    /\ At(r, "shards") /\ run[r].todo = {}
    /\ IF run[r].seen # (DOMAIN Bundle(r).blobs) \X Segs THEN Fail(r)
       ELSE /\ Update(r, [Bundle(r) EXCEPT !.marker = run[r].shards])
            /\ Goto(r, "mtp") /\ UNCHANGED <<source, files>>

ExpertRecord(l, e) ==
    FlattenSeq([i \in DOMAIN SegSeq |-> [j \in 1 .. Size[SegSeq[i]] |-> <<l, e, SegSeq[i], j>>]])

\* The MTP core, then its experts one after the other; one that is not in the
\* shard is a KeyError.  The manifest's created_at is the run's.
BuildMtp(r) ==
    /\ At(r, "mtp")
    /\ IF MTP \notin files \/ source.mtp # 1 .. NE THEN Fail(r)
       ELSE /\ Update(r, [Bundle(r) EXCEPT !.mtpCore = TRUE,
                   !.mtpBlob = FlattenSeq([e \in 1 .. NE |-> ExpertRecord(MTP, e)]),
                   !.status = "ready_for_verification", !.created = r])
            /\ Goto(r, "verify") /\ UNCHANGED <<source, files>>

\* verify_bundle after _file_records; the sums are those of the files as they
\* are, so only the sizes and the presence of a core can fail.
Verify(r) ==
    /\ At(r, "verify")
    /\ LET b == Bundle(r) IN
       IF \/ b.core = {} \/ Len(b.mtpBlob) # Stride * NE
          \/ \E l \in DOMAIN b.blobs : Len(b.blobs[l]) # Stride * NE
       THEN Fail(r)
       ELSE /\ Update(r, [b EXCEPT !.status = "verified"])
            /\ Goto(r, "publish") /\ UNCHANGED <<source, files>>

Published(r) == [dirs EXCEPT ![run[r].out] = Bundle(r), ![Staging(r)] = Nothing]
ToRemove(r) == IF run[r].keep THEN {} ELSE run[r].shards \cup {MTP}

\* (mutant) The shards to delete are all the directory holds.
PublishRemovesAll(r) ==
    /\ At(r, "publish")
    /\ IF dirs[run[r].out] # Nothing THEN Fail(r)
       ELSE /\ dirs' = Published(r)
            /\ run' = [run EXCEPT ![r].pc = "clean", ![r].todo = IF run[r].keep THEN {} ELSE files]
            /\ UNCHANGED <<source, files>>

\* rename() onto a directory that is not empty fails.
Publish(r) ==
    /\ At(r, "publish")
    /\ IF dirs[run[r].out] # Nothing THEN Fail(r)
       ELSE /\ dirs' = Published(r)
            /\ run' = [run EXCEPT ![r].pc = "clean", ![r].todo = ToRemove(r)]
            /\ UNCHANGED <<source, files>>

\* cleanup_source_weights, one file at a time.
RemoveShard(r, f) ==
    /\ At(r, "clean") /\ f \in run[r].todo
    /\ files' = files \ {f}
    /\ run' = [run EXCEPT ![r].todo = @ \ {f}]
    /\ UNCHANGED <<source, dirs>>

Done(r) ==
    /\ At(r, "clean") /\ run[r].todo = {}
    /\ Goto(r, "done") /\ UNCHANGED <<source, files, dirs>>

\* Killed, or an I/O error: the staging directory stays.
Stop(r) ==
    /\ run[r].pc \notin {"new", "done", "failed", "refused"}
    /\ Goto(r, "failed") /\ UNCHANGED <<source, files, dirs>>

BundleNext ==
    \E r \in Runs :
        \/ \E out \in Outputs, keep, download \in BOOLEAN : Begin(r, out, keep, download)
        \/ \E f \in source.remote \cup {MTP} : Fetch(r, f)
        \/ \E pid \in Pids : Stage(r, pid)
        \/ \E f \in Shards : BuildShard(r, f)
        \/ \E f \in Shards \cup {MTP} : RemoveShard(r, f)
        \/ Fetched(r) \/ BuildStart(r) \/ BuildEnd(r) \/ BuildMtp(r) \/ Verify(r)
        \/ Publish(r) \/ Done(r) \/ Stop(r)

BundleSpec == BundleInit /\ [][BundleNext]_bundleVars
-----------------------------------------------------------------------------
(* Properties.                                                             *)

Holds(b, k) == IF k \in Core THEN k \in b.core
               ELSE /\ k[1] \in DOMAIN b.blobs
                    /\ \A e \in 1 .. NE, j \in 1 .. Size[k[2]] :
                         <<k[1], e, k[2], j>> \in ToSet(b.blobs[k[1]])

\* A directory with the final name is complete, whichever run put it there and
\* whatever happened to the sources meanwhile: it has every tensor of the
\* shards its marker names, and expert e of a layer is found, segments in
\* order, at e * stride, where the readers look for it.
OutputWhole ==
    \A o \in Outputs : dirs[o] # Nothing =>
        LET b == dirs[o] IN
        /\ b.status = "verified" /\ b.marker # {} /\ b.mtpCore
        /\ \A f \in b.marker : \A k \in source.has[f] : Holds(b, k)
        /\ \A l \in DOMAIN b.blobs, e \in 1 .. NE :
             SubSeq(b.blobs[l], (e - 1) * Stride + 1, e * Stride) = ExpertRecord(l, e)
        /\ \A e \in 1 .. NE :
             SubSeq(b.mtpBlob, (e - 1) * Stride + 1, e * Stride) = ExpertRecord(MTP, e)

\* Deleting sources loses nothing of them: a tensor of a file that the source
\* held at first is in its file or in a published bundle (the module's "only then
\* deleted").  Files downloaded by a run and the MTP source are not covered.
NothingLost ==
    \A f \in source.files \ files : \A k \in source.has[f] :
        \E o \in Outputs : dirs[o] # Nothing /\ Holds(dirs[o], k)

=============================================================================
