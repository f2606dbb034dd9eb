------------------------------ MODULE Manifest ------------------------------
(***************************************************************************)
(* GET /api/manifest: BuildManifest reads a node's operations, computes    *)
(* the ranges of their sequence numbers, and reads the node's epoch last,  *)
(* without any lock and so beside everything CounterGhost does.  The hash  *)
(* of the operation ids stands for their set, ops; the value, which is     *)
(* read after the epoch, is left out.                                      *)
(***************************************************************************)
EXTENDS CounterGhost, Sequences

CONSTANT MaxManifests   \* bound: requests of a manifest

\* An id has 128 bits.
ASSUME ManifestAssumption == MaxManifests \in Nat /\ IsFiniteSet(Uuid)

VARIABLES man,        \* the request under way, and then its answer
          manifests   \* how many requests there have been

\* seqs is the sorted list, i the position of the loop, start and end the range
\* that is open.
Answer == [pc : {"idle", "read", "scan", "epoch", "published"},
           node : Nodes \cup {"none"},
           ops : SUBSET Uuid, seqs : Seq(Nat),
           i : Nat, start : Nat, end : Nat, ranges : Seq(Nat \X Nat), epoch : Nat]

ManifestOK == man \in Answer /\ manifests \in Nat

NoManifest == [pc |-> "idle", node |-> "none", ops |-> {}, seqs |-> <<>>,
               i |-> 0, start |-> 0, end |-> 0, ranges |-> <<>>, epoch |-> 0]

manifestVars == <<vars, man, manifests>>

ManifestInit == Init /\ man = NoManifest /\ manifests = 0

---------------------------------------------------------------------------
\* GetNode takes sim.mu for a moment.
ManifestRequest(n) ==
    /\ man.pc \in {"idle", "published"}
    /\ manifests < MaxManifests
    /\ ~Locked
    /\ man' = [NoManifest EXCEPT !.pc = "read", !.node = n]
    /\ manifests' = manifests + 1
    /\ UNCHANGED vars

\* The lists of the sequence numbers of S in ascending order (there is one).
SortedSequences(S) ==
    LET Sorts(f) == /\ \A u \in S : \E k \in 1 .. Cardinality(S) : f[k] = u
                    /\ \A j, k \in 1 .. Cardinality(S) : f[j] = f[k] => j = k
                    /\ \A k \in 1 .. Cardinality(S) - 1 : info[f[k]].seq <= info[f[k + 1]].seq
    IN {[k \in 1 .. Cardinality(S) |-> info[f[k]].seq] :
           f \in {g \in [1 .. Cardinality(S) -> S] : Sorts(g)}}

ManifestRead ==
    /\ man.pc = "read"
    /\ \/ /\ Works
          /\ LET ops == GetOperationsByNode(nodeDB[man.node], man.node)
             IN IF ops = {}
                THEN man' = [man EXCEPT !.pc = "epoch"]
                ELSE \E seqs \in SortedSequences(ops) :
                        man' = [man EXCEPT !.pc = "scan", !.ops = ops, !.seqs = seqs, !.i = 2,
                                           !.start = seqs[1], !.end = seqs[1]]
       \/ Fails("node") /\ man' = NoManifest
    /\ UNCHANGED <<info, nodeDB, outbox, attempts, recorded, coord, dlq, nodeVars, simVars,
                   sync, rec, calls, restarts, manifests>>

Closed(m) == Append(m.ranges, <<m.start, m.end>>)

\* The loop of computeProcessedRanges: the next number extends the open range
\* or closes it and opens another.
ManifestScan ==
    /\ man.pc = "scan"
    /\ man.i <= Len(man.seqs)
    /\ LET number == man.seqs[man.i]
       IN IF number = man.end + 1
          THEN man' = [man EXCEPT !.end = number, !.i = @ + 1]
          ELSE man' = [man EXCEPT !.ranges = Closed(man), !.start = number, !.end = number,
                                  !.i = @ + 1]
    /\ UNCHANGED <<vars, manifests>>

\* (Faulty variant: the range that is open after the loop is forgotten.)
ManifestScanEndOpen ==
    /\ man.pc = "scan"
    /\ man.i > Len(man.seqs)
    /\ man' = [man EXCEPT !.pc = "epoch"]
    /\ UNCHANGED <<vars, manifests>>

\* After the loop the open range is closed.
ManifestScanEnd ==
    /\ man.pc = "scan"
    /\ man.i > Len(man.seqs)
    /\ man' = [man EXCEPT !.pc = "epoch", !.ranges = Closed(man)]
    /\ UNCHANGED <<vars, manifests>>

ManifestPublish ==
    /\ man.pc = "epoch"
    /\ man' = [man EXCEPT !.pc = "published", !.epoch = epoch[man.node]]
    /\ UNCHANGED <<vars, manifests>>

HighestContiguousSeq(m) ==
    IF m.ranges # <<>> /\ m.ranges[1][1] = 1 THEN m.ranges[1][2] ELSE 0

RunManifest ==
    \/ \E n \in Nodes : ManifestRequest(n)
    \/ ManifestRead
    \/ ManifestScan
    \/ ManifestScanEnd
    \/ ManifestPublish

ManifestNext ==
    \/ (Apply \/ Request \/ RunJob \/ RunSyncer \/ RunReconciler) /\ UNCHANGED <<man, manifests>>
    \/ RunManifest
    \/ Restart /\ man' = NoManifest /\ UNCHANGED manifests

ManifestSpec == ManifestInit /\ [][ManifestNext]_manifestVars

---------------------------------------------------------------------------
(* Properties.                                                             *)

InRanges(k, ranges) == \E r \in 1 .. Len(ranges) : ranges[r][1] <= k /\ k <= ranges[r][2]

Listed(k, ops) == \E u \in ops : info[u].seq = k

Built == man.pc \in {"epoch", "published"}

\* The ranges hold the sequence numbers of the operations that were read and no
\* others, although the numbers of all epochs are mixed and may repeat.
RangesExact ==
    Built =>
        /\ \A u \in man.ops : InRanges(info[u].seq, man.ranges)
        /\ \A r \in 1 .. Len(man.ranges) :
              \A k \in man.ranges[r][1] .. man.ranges[r][2] : Listed(k, man.ops)

\* A gap is evidence: every number that is missing below a number in the ranges
\* is the number of an operation the node has acknowledged and does not have.
GapIsEvidence ==
    Built =>
        \A r \in 1 .. Len(man.ranges) :
            \A k \in 1 .. man.ranges[r][2] :
                ~InRanges(k, man.ranges) =>
                    \E u \in Own(man.node) \ man.ops : info[u].seq = k

\* As long as a node has the operations of one epoch only, neighbouring ranges
\* have a gap between them, and HighestContiguousSeq is the last number before
\* the first gap.
OneEpochExact ==
    Built /\ (\A u, v \in man.ops : info[u].epoch = info[v].epoch) =>
        /\ \A r \in 1 .. Len(man.ranges) - 1 :
              man.ranges[r][2] + 1 < man.ranges[r + 1][1]
        /\ LET h == HighestContiguousSeq(man)
           IN (\A k \in 1 .. h : Listed(k, man.ops)) /\ ~Listed(h + 1, man.ops)

\* The epoch of a manifest is at least that of every operation it lists, although
\* the node may crash and come back while it is built.
EpochCovers ==
    man.pc = "published" => \A u \in man.ops : info[u].epoch <= man.epoch

\* A node that has all its operations shows one range.
CompleteShowsNoGap ==
    man.pc = "published" /\ Own(man.node) \subseteq man.ops => Len(man.ranges) <= 1

---------------------------------------------------------------------------
(* The inductive invariant.                                                *)

\* The numbers a node gives in an epoch are 1, 2, 3 and so on.
Dense ==
    /\ \A u \in Issued :
          /\ info[u].seq >= 1
          /\ \A s \in 1 .. info[u].seq :
                \E v \in Own(info[u].node) : info[v].epoch = info[u].epoch /\ info[v].seq = s
    /\ \A n \in Nodes :
          /\ nextSeq[n] >= 1
          /\ \A s \in 1 .. nextSeq[n] - 1 :
                \E v \in Own(n) : info[v].epoch = epoch[n] /\ info[v].seq = s

Strict(seqs) == \A k \in 1 .. Len(seqs) - 1 : seqs[k] < seqs[k + 1]

Ascending(seqs) == \A k \in 1 .. Len(seqs) - 1 : seqs[k] <= seqs[k + 1]

\* The ranges are those of the first n numbers of the list.
RangesOf(seqs, n, ranges) ==
    /\ \A j \in 1 .. n : InRanges(seqs[j], ranges)
    /\ \A r \in 1 .. Len(ranges) :
          /\ 1 <= ranges[r][1] /\ ranges[r][1] <= ranges[r][2]
          /\ \A k \in ranges[r][1] .. ranges[r][2] : \E j \in 1 .. n : seqs[j] = k
    /\ Strict(seqs) =>
          \A r, q \in 1 .. Len(ranges) : r < q => ranges[r][2] + 1 < ranges[q][1]

\* The list belongs to the operations that were read.
ListOf(ops, seqs) ==
    /\ \A j \in 1 .. Len(seqs) : seqs[j] >= 1
    /\ Ascending(seqs)
    /\ \A u \in ops : \E j \in 1 .. Len(seqs) : seqs[j] = info[u].seq
    /\ \A j \in 1 .. Len(seqs) : \E u \in ops : seqs[j] = info[u].seq
    /\ (\A u, v \in ops : info[u].epoch = info[v].epoch) => Strict(seqs)

ManifestLoop ==
    /\ man.pc # "idle" => man.node \in Nodes
    /\ man.pc \in {"scan", "epoch", "published"} =>
          man.ops \subseteq Own(man.node) /\ ListOf(man.ops, man.seqs)
    /\ man.pc = "read" => man.ranges = <<>> /\ man.ops = {} /\ man.seqs = <<>>
    /\ man.pc = "scan" =>
          /\ man.i - 1 \in 1 .. Len(man.seqs)
          /\ man.end = man.seqs[man.i - 1]
          /\ RangesOf(man.seqs, man.i - 1, Closed(man))
    /\ Built => RangesOf(man.seqs, Len(man.seqs), man.ranges)

ManifestInv == CoreInv /\ Dense /\ ManifestOK /\ ManifestLoop /\ EpochCovers
=============================================================================
