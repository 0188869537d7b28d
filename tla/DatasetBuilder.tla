--------------------------- MODULE DatasetBuilder ---------------------------
(***************************************************************************)
(* dataset/builder.py: build_dataset() as run by several processes, with   *)
(* the same output directory and possibly the same sessions, each of which *)
(* may be killed or fail at any point; and the assignment of sessions to   *)
(* the train, validation and test splits.                                  *)
(*                                                                         *)
(* A session directory holds an identifier, its digests, and so many       *)
(* aligned frames.  Identifiers are numbers in the order of _session_key.  *)
(***************************************************************************)
EXTENDS Integers, Sequences, FiniteSets, SequencesExt

CONSTANTS Builders,    \* processes
          Directories, \* session directories
          MaxPerShard  \* max_samples_per_shard

ASSUME DirectoriesAssumption ==
  /\ IsFiniteSet(Directories)
  /\ \A d \in Directories : /\ d.id \in Nat /\ d.frames \in Nat
                            /\ d.accepted \in BOOLEAN
                            /\ d.accepted => d.frames > 0
ASSUME MaxPerShardAssumption == MaxPerShard \in Nat \ {0}

VARIABLES
  pc,       \* where each builder is
  input,    \* the session directories it was given
  split,    \* the split it writes: 1..3
  left,     \* the samples of that split still to be written
  root,     \* the output directory exists
  shards,   \* the closed shards in it
  archives, \* the open shard of each builder
  listed,   \* what each builder has noted of the shards it closed
  manifest, \* dataset-manifest.json: the shards it lists
  written,  \* none, torn or whole: what there is of that file
  writers   \* history: builders that wrote to the directory

vars == <<pc, input, split, left, root, shards, archives, listed, manifest,
          written, writers>>

Splits == 1..3

-----------------------------------------------------------------------------
(* assign_session_splits *)

\* round(n * 0.1): to the nearest integer, a tie to the even one
Tenth(n) == IF n % 10 > 5 \/ (n % 10 = 5 /\ (n \div 10) % 2 = 1)
              THEN n \div 10 + 1 ELSE n \div 10

AtLeastOne(n) == IF n < 1 THEN 1 ELSE n

\* Wrong: a split may be left empty.
TenthOnly(n) == IF n < 3 THEN 0 ELSE Tenth(n)

\* The number of sessions held out for validation; from three sessions on also
\* that for the test.  Their sum is less than n, so the loop after it is idle.
HeldOut(n) == IF n < 2 THEN 0 ELSE AtLeastOne(Tenth(n))

\* The identifiers of the sessions in key order: as many are in front of one.
Ids(ds) ==
  LET ids == {d.id : d \in ds}
  IN  [k \in 1..Cardinality(ids) |->
         CHOOSE id \in ids : Cardinality({i \in ids : i < id}) = k - 1]

\* Wrong: the last training session is a validation session too.
SlicesOverlap(ids, k, train, held) ==
  LET start == <<0, train - 1, train + held>>
      end == <<train, train + held, Len(ids)>>
  IN  SubSeq(ids, start[k] + 1, end[k])

Slice(ids, k, train, held) ==
  LET start == <<0, train, train + held>>
      end == <<train, train + held, Len(ids)>>
  IN  SubSeq(ids, start[k] + 1, end[k])

\* The sessions of split k, out of those with these identifiers in key order.
Assigned(ids, k) ==
  LET n == Len(ids)
      held == HeldOut(n)
      test == IF n < 3 THEN 0 ELSE held
  IN  Slice(ids, k, n - held - test, held)

Directory(ds, id) == CHOOSE d \in ds : d.id = id

FramesOf(ds, id) == [i \in 1..Directory(ds, id).frames |-> <<id, i>>]

\* The samples of split k: the aligned frames of its sessions, in order.
Samples(ds, k) ==
  LET ids == Assigned(Ids(ds), k)
  IN  FlattenSeq([i \in DOMAIN ids |-> FramesOf(ds, ids[i])])

-----------------------------------------------------------------------------
Init == /\ pc = [b \in Builders |-> "check"]
        /\ input \in [Builders -> SUBSET Directories]
        /\ split = [b \in Builders |-> 1]
        /\ left = [b \in Builders |-> <<>>]
        /\ root = FALSE
        /\ shards = {}
        /\ archives = [b \in Builders |-> <<>>]
        /\ listed = [b \in Builders |-> <<>>]
        /\ manifest = <<>>
        /\ written = "none"
        /\ writers = {}

Goto(b, label) == pc' = [pc EXCEPT ![b] = label]

\* The arguments are checked, and that there is no output yet.
CheckArguments(b) ==
  /\ pc[b] = "check"
  /\ Goto(b, IF input[b] = {} \/ root THEN "refused" ELSE "validate")
  /\ UNCHANGED <<input, split, left, root, shards, archives, listed, manifest,
                 written, writers>>

\* Wrong: sessions of several configurations are accepted.
AnyConfiguration(ds) == TRUE

SameConfiguration(ds) == \A d, e \in ds : d.digests = e.digests

\* Every session is validated; rejected ones, equal identifiers and mixed
\* configurations end the build before anything is written.
ValidateSessions(b) ==
  /\ pc[b] = "validate"
  /\ Goto(b, IF /\ \A d \in input[b] : d.accepted
                /\ \A d, e \in input[b] : d.id = e.id => d = e
                /\ SameConfiguration(input[b])
               THEN "mkdir" ELSE "refused")
  /\ UNCHANGED <<input, split, left, root, shards, archives, listed, manifest,
                 written, writers>>

\* Wrong: mkdir(exist_ok=True).
DirectoryShared == FALSE

DirectoryTaken == root

\* mkdir(exist_ok=False): another builder may have been here since the check.
MakeRoot(b) ==
  /\ pc[b] = "mkdir"
  /\ IF DirectoryTaken
       THEN Goto(b, "refused") /\ UNCHANGED <<root, left, writers>>
       ELSE /\ Goto(b, "write")
            /\ root' = TRUE
            /\ left' = [left EXCEPT ![b] = Samples(input[b], 1)]
            /\ writers' = writers \cup {b}
  /\ UNCHANGED <<input, split, shards, archives, listed, manifest, written>>

ShardFull(b) == Len(archives[b]) >= MaxPerShard

\* One turn of the loop over the samples.
WriteSample(b) ==
  /\ pc[b] = "write"
  /\ left[b] # <<>>
  /\ ~ShardFull(b)
  /\ archives' = [archives EXCEPT ![b] = Append(@, Head(left[b]))]
  /\ left' = [left EXCEPT ![b] = Tail(@)]
  /\ UNCHANGED <<pc, input, split, root, shards, listed, manifest, written,
                 writers>>

Shard(b) == [split |-> split[b], samples |-> archives[b]]

\* Wrong: only full shards are closed and listed.
OnlyFull(b) == ShardFull(b)

FullOrLast(b) == ShardFull(b) \/ left[b] = <<>>

\* close_shard, when the shard is full and at the end of the split.
CloseShard(b) ==
  /\ pc[b] = "write"
  /\ archives[b] # <<>>
  /\ FullOrLast(b)
  /\ shards' = shards \cup {Shard(b)}
  /\ listed' = [listed EXCEPT ![b] = Append(@, Shard(b))]
  /\ archives' = [archives EXCEPT ![b] = <<>>]
  /\ UNCHANGED <<pc, input, split, left, root, manifest, written, writers>>

\* The next split; after the last one the quality reports are written.
NextSplit(b) ==
  /\ pc[b] = "write"
  /\ left[b] = <<>>
  /\ FullOrLast(b) => archives[b] = <<>>
  /\ archives' = [archives EXCEPT ![b] = <<>>]
  /\ IF split[b] = 3
       THEN Goto(b, "publish") /\ UNCHANGED <<split, left>>
       ELSE /\ split' = [split EXCEPT ![b] = @ + 1]
            /\ left' = [left EXCEPT ![b] = Samples(input[b], split[b] + 1)]
            /\ UNCHANGED pc
  /\ UNCHANGED <<input, root, shards, listed, manifest, written, writers>>

\* dataset-manifest.json is written last, in place: it is there, and torn,
\* before it is whole.
OpenManifest(b) ==
  /\ pc[b] = "publish"
  /\ written' = "torn"
  /\ Goto(b, "manifest")
  /\ UNCHANGED <<input, split, left, root, shards, archives, listed, manifest,
                 writers>>

WriteManifest(b) ==
  /\ pc[b] = "manifest"
  /\ manifest' = listed[b]
  /\ written' = "whole"
  /\ Goto(b, "done")
  /\ UNCHANGED <<input, split, left, root, shards, archives, listed, writers>>

\* The process is killed or an exception ends it: what it wrote stays.
Dies(b) ==
  /\ pc[b] \in {"check", "validate", "mkdir", "write", "publish", "manifest"}
  /\ Goto(b, "dead")
  /\ UNCHANGED <<input, split, left, root, shards, archives, listed, manifest,
                 written, writers>>

Build(b) == \/ CheckArguments(b) \/ ValidateSessions(b) \/ MakeRoot(b)
            \/ WriteSample(b) \/ CloseShard(b) \/ NextSplit(b)
            \/ OpenManifest(b) \/ WriteManifest(b) \/ Dies(b)

Terminated == /\ \A b \in Builders : pc[b] \in {"refused", "done", "dead"}
              /\ UNCHANGED vars

Next == (\E b \in Builders : Build(b)) \/ Terminated

Spec == Init /\ [][Next]_vars

-----------------------------------------------------------------------------
(* Properties. *)

\* Two builds that both found no output directory never write into one: the
\* check is long past when the directory is made.
OneWriter == Cardinality(writers) <= 1

\* What the shards of split k hold, by a list of shards.
Contents(list, k) ==
  FlattenSeq([i \in DOMAIN list |-> IF list[i].split = k THEN list[i].samples
                                                        ELSE <<>>])

\* A dataset whose manifest can be read holds, split by split, every aligned
\* frame of its sessions once and in order, in shards that exist; a build that
\* ended early leaves no such manifest.
DatasetComplete ==
  written = "whole" =>
    /\ \A i \in DOMAIN manifest : manifest[i] \in shards
    /\ \E b \in Builders :
         /\ pc[b] = "done"
         /\ \A k \in Splits : Contents(manifest, k) = Samples(input[b], k)

Sessions(k) == {s[1] : s \in UNION {ToSet(shard.samples) :
                                      shard \in {x \in shards : x.split = k}}}

\* "No session leakage across splits" (project_progress.md:73), in no state of
\* the output directory; and with three sessions or more no split is empty.
NoLeakage ==
  /\ \A j, k \in Splits : j # k => Sessions(j) \cap Sessions(k) = {}
  /\ \A b \in Builders :
       pc[b] = "done" /\ Cardinality(input[b]) >= 3 =>
         \A k \in Splits : Sessions(k) # {}

\* Nothing of a rejected session or of a second configuration reaches the disk.
OneConfiguration ==
  root => \E b \in writers :
            /\ \A d \in input[b] : d.accepted
            /\ \A d, e \in input[b] : d.digests = e.digests
=============================================================================
