--------------------------- MODULE ManifestProofs ---------------------------
(***************************************************************************)
(* Proofs about module Manifest: what the ranges of a manifest say, for    *)
(* any number of nodes, operations, crashes and restarts.                  *)
(***************************************************************************)
EXTENDS CounterGhostProofs, Manifest, FiniteSetTheorems

---------------------------------------------------------------------------
(* The loop.                                                               *)

\* The parts of a pair in a list of pairs.
LEMMA PairAt ==
    ASSUME NEW R \in Seq(Nat \X Nat), NEW r \in 1 .. Len(R)
    PROVE  R[r][1] \in Nat /\ R[r][2] \in Nat
<1>1. R[r] \in Nat \X Nat
  OBVIOUS
<1> QED BY <1>1

\* A pair that is added at the end.
LEMMA AppendPair ==
    ASSUME NEW R \in Seq(Nat \X Nat), NEW a \in Nat, NEW b \in Nat,
           NEW new, new = Append(R, <<a, b>>)
    PROVE  /\ new \in Seq(Nat \X Nat)
           /\ Len(R) \in Nat
           /\ Len(new) = Len(R) + 1
           /\ new[Len(R) + 1][1] = a
           /\ new[Len(R) + 1][2] = b
           /\ \A r \in 1 .. Len(R) : new[r][1] = R[r][1] /\ new[r][2] = R[r][2]
<1> DEFINE p == <<a, b>>
<1>1. p \in Nat \X Nat /\ p[1] = a /\ p[2] = b /\ new = Append(R, p)
  OBVIOUS
<1> HIDE DEF p
<1>2. /\ new \in Seq(Nat \X Nat) /\ Len(R) \in Nat /\ Len(new) = Len(R) + 1
      /\ new[Len(R) + 1] = p
  BY <1>1
<1>3. \A r \in 1 .. Len(R) : new[r] = R[r]
  BY <1>1
<1> QED BY <1>1, <1>2, <1>3

\* The last range grows by the next number.
LEMMA Extend ==
    ASSUME NEW seqs \in Seq(Nat), NEW R \in Seq(Nat \X Nat), NEW a \in Nat, NEW b \in Nat,
           NEW n \in Nat, n + 1 <= Len(seqs), seqs[n + 1] = b + 1,
           RangesOf(seqs, n, Append(R, <<a, b>>))
    PROVE  RangesOf(seqs, n + 1, Append(R, <<a, b + 1>>))
<1> DEFINE old == Append(R, <<a, b>>)
           new == Append(R, <<a, b + 1>>)
           N == Len(R) + 1
<1>1. /\ N \in Nat /\ N >= 1 /\ Len(old) = N /\ Len(new) = N
      /\ old \in Seq(Nat \X Nat) /\ new \in Seq(Nat \X Nat)
      /\ old[N][1] = a /\ old[N][2] = b /\ new[N][1] = a /\ new[N][2] = b + 1
      /\ \A r \in 1 .. Len(R) : /\ old[r][1] = R[r][1] /\ old[r][2] = R[r][2]
                               /\ new[r][1] = R[r][1] /\ new[r][2] = R[r][2]
  <2>1. b + 1 \in Nat
    OBVIOUS
  <2> HIDE DEF old, new
  <2>2. /\ old \in Seq(Nat \X Nat) /\ Len(R) \in Nat /\ Len(old) = N
        /\ old[N][1] = a /\ old[N][2] = b
        /\ \A r \in 1 .. Len(R) : old[r][1] = R[r][1] /\ old[r][2] = R[r][2]
    BY AppendPair DEF old
  <2>3. /\ new \in Seq(Nat \X Nat) /\ Len(new) = N
        /\ new[N][1] = a /\ new[N][2] = b + 1
        /\ \A r \in 1 .. Len(R) : new[r][1] = R[r][1] /\ new[r][2] = R[r][2]
    BY <2>1, AppendPair DEF new
  <2> QED BY <2>2, <2>3
<1>2. \A r \in 1 .. N : r = N \/ r \in 1 .. Len(R)
  OBVIOUS
<1> HIDE DEF old, new, N
<1>3. \A r \in 1 .. N :
         /\ old[r][1] \in Nat /\ old[r][2] \in Nat
         /\ new[r][1] = old[r][1]
         /\ r = N => old[r][2] = b /\ new[r][2] = b + 1
         /\ r # N => new[r][2] = old[r][2]
         /\ new[r][2] \in Nat /\ old[r][2] <= new[r][2]
  <2> TAKE r \in 1 .. N
  <2>1. old[r][1] \in Nat /\ old[r][2] \in Nat
    BY <1>1, PairAt
  <2>2. CASE r = N
    <3>1. new[r][1] = old[r][1] /\ old[r][2] = b /\ new[r][2] = b + 1
      BY <1>1, <2>2
    <3> QED BY <2>1, <2>2, <3>1
  <2>3. CASE r # N
    <3>1. r \in 1 .. Len(R)
      BY <1>2, <2>3
    <3>2. new[r][1] = old[r][1] /\ new[r][2] = old[r][2]
      BY <1>1, <3>1
    <3> QED BY <2>1, <2>3, <3>2
  <2> QED BY <2>2, <2>3
<1>4. /\ \A j \in 1 .. n : InRanges(seqs[j], old)
      /\ \A r \in 1 .. N :
            /\ 1 <= old[r][1] /\ old[r][1] <= old[r][2]
            /\ \A k \in old[r][1] .. old[r][2] : \E j \in 1 .. n : seqs[j] = k
      /\ Strict(seqs) => \A r, q \in 1 .. N : r < q => old[r][2] + 1 < old[q][1]
  BY <1>1 DEF RangesOf, old
<1>5. N \in 1 .. N
  BY <1>1
<1>6. ASSUME NEW j \in 1 .. n + 1 PROVE InRanges(seqs[j], new)
  <2>1. CASE j \in 1 .. n
    <3>1. PICK r \in 1 .. N : old[r][1] <= seqs[j] /\ seqs[j] <= old[r][2]
      BY <1>1, <1>4, <2>1 DEF InRanges
    <3>2. seqs[j] \in Nat
      BY <2>1, SMTT(30)
    <3>3. /\ new[r][1] = old[r][1] /\ old[r][2] <= new[r][2]
          /\ old[r][2] \in Nat /\ new[r][2] \in Nat
      BY <1>3
    <3>4. new[r][1] <= seqs[j] /\ seqs[j] <= new[r][2]
      <4> DEFINE k == seqs[j]
                 c == old[r][2]
                 d == new[r][2]
      <4>1. k \in Nat /\ c \in Nat /\ d \in Nat /\ k <= c /\ c <= d
        BY <3>1, <3>2, <3>3
      <4> HIDE DEF k, c, d
      <4>2. k <= d
        BY <4>1
      <4> QED BY <3>1, <3>3, <4>2 DEF k, d
    <3> QED BY <1>1, <3>4 DEF InRanges
  <2>2. CASE j = n + 1
    <3>1. new[N][1] <= seqs[j] /\ seqs[j] <= new[N][2]
      <4>1. a <= b
        BY <1>1, <1>4, <1>5
      <4>2. new[N][1] = a /\ new[N][2] = b + 1 /\ seqs[j] = b + 1
        BY <1>1, <2>2
      <4>3. a <= b + 1 /\ b + 1 <= b + 1
        BY <4>1
      <4> QED BY ONLY <4>2, <4>3
    <3> QED BY <1>1, <1>5, <3>1 DEF InRanges
  <2> QED BY <2>1, <2>2
<1>7. ASSUME NEW r \in 1 .. N
      PROVE  /\ 1 <= new[r][1] /\ new[r][1] <= new[r][2]
             /\ \A k \in new[r][1] .. new[r][2] : \E j \in 1 .. n + 1 : seqs[j] = k
  <2>0. /\ old[r][1] \in Nat /\ old[r][2] \in Nat /\ new[r][2] \in Nat
        /\ new[r][1] = old[r][1] /\ old[r][2] <= new[r][2]
        /\ r = N => old[r][2] = b /\ new[r][2] = b + 1
        /\ r # N => new[r][2] = old[r][2]
        /\ 1 <= old[r][1] /\ old[r][1] <= old[r][2]
    BY <1>3, <1>4
  <2>1. 1 <= new[r][1] /\ new[r][1] <= new[r][2]
    BY ONLY <2>0, SMTT(30)
  <2>2. ASSUME NEW k \in new[r][1] .. new[r][2] PROVE \E j \in 1 .. n + 1 : seqs[j] = k
    <3>0. k \in Int /\ (k \in old[r][1] .. old[r][2] \/ k = b + 1)
      <4>1. k \in Int /\ old[r][1] <= k /\ k <= new[r][2]
        BY <2>0
      <4>2. CASE r = N
        <5>1. k <= b + 1 /\ old[r][2] = b
          BY <2>0, <4>1, <4>2
        <5> QED BY <2>0, <4>1, <5>1
      <4>3. CASE r # N
        <5>1. k <= old[r][2]
          BY <2>0, <4>1, <4>3
        <5> QED BY <2>0, <4>1, <5>1
      <4> QED BY <4>2, <4>3
    <3>1. CASE k \in old[r][1] .. old[r][2]
      <4>1. PICK j \in 1 .. n : seqs[j] = k
        BY <1>4, <3>1
      <4> QED BY <4>1
    <3>2. CASE k = b + 1
      <4>1. n + 1 \in 1 .. n + 1
        OBVIOUS
      <4> QED BY <3>2, <4>1
    <3> QED BY <3>0, <3>1, <3>2
  <2> QED BY <2>1, <2>2
<1>8. ASSUME Strict(seqs), NEW r \in 1 .. N, NEW q \in 1 .. N, r < q
      PROVE  new[r][2] + 1 < new[q][1]
  <2>1. old[r][2] + 1 < old[q][1]
    BY <1>4, <1>8
  <2>2. r # N
    BY <1>1, <1>8
  <2>3. new[r][2] = old[r][2] /\ new[q][1] = old[q][1]
    BY <1>3, <2>2
  <2> QED BY ONLY <2>1, <2>3
<1>9. Len(new) = N
  BY <1>1
<1> QED BY ONLY <1>6, <1>7, <1>8, <1>9 DEF RangesOf, new

\* A number that does not follow opens a range of its own.
LEMMA Open ==
    ASSUME NEW seqs \in Seq(Nat), NEW R \in Seq(Nat \X Nat), NEW a \in Nat, NEW b \in Nat,
           NEW n \in Nat \ {0}, n + 1 <= Len(seqs), seqs[n] = b, seqs[n + 1] # b + 1,
           seqs[n + 1] >= 1,
           RangesOf(seqs, n, Append(R, <<a, b>>))
    PROVE  RangesOf(seqs, n + 1, Append(Append(R, <<a, b>>), <<seqs[n + 1], seqs[n + 1]>>))
<1> DEFINE old == Append(R, <<a, b>>)
           x == seqs[n + 1]
           new == Append(old, <<x, x>>)
           N == Len(R) + 1
<1>1. x \in Nat /\ x >= 1 /\ x # b + 1 /\ n + 1 \in 1 .. n + 1
  OBVIOUS
<1> HIDE DEF x
<1>0. N \in Nat /\ N >= 1
  <2>1. Len(R) \in Nat
    OBVIOUS
  <2> QED BY ONLY <2>1
<1>2. /\ N \in Nat /\ N >= 1 /\ Len(old) = N
      /\ old \in Seq(Nat \X Nat) /\ old[N][1] = a /\ old[N][2] = b
  <2> HIDE DEF old
  <2>1. /\ old \in Seq(Nat \X Nat) /\ Len(R) \in Nat /\ Len(old) = N
        /\ old[N][1] = a /\ old[N][2] = b
    <3>1. old = Append(R, <<a, b>>)
      BY DEF old
    <3>2. R \in Seq(Nat \X Nat) /\ a \in Nat /\ b \in Nat
      OBVIOUS
    <3> QED BY ONLY <3>1, <3>2, AppendPair
  <2> QED BY <1>0, <2>1
<1> HIDE DEF old, N
<1>3. /\ Len(new) = N + 1 /\ new[N + 1][1] = x /\ new[N + 1][2] = x
      /\ \A r \in 1 .. N : new[r][1] = old[r][1] /\ new[r][2] = old[r][2]
  <2> HIDE DEF new
  <2>1. /\ Len(new) = Len(old) + 1 /\ new[Len(old) + 1][1] = x /\ new[Len(old) + 1][2] = x
        /\ \A r \in 1 .. Len(old) : new[r][1] = old[r][1] /\ new[r][2] = old[r][2]
    <3>1. new = Append(old, <<x, x>>)
      BY DEF new
    <3> QED BY ONLY <1>1, <1>2, <3>1, AppendPair
  <2> QED BY <1>2, <2>1
<1> HIDE DEF new
<1>4. \A r \in 1 .. N : old[r][1] \in Nat /\ old[r][2] \in Nat
  BY <1>2, PairAt
<1>5. /\ \A j \in 1 .. n : InRanges(seqs[j], old)
      /\ \A r \in 1 .. N :
            /\ 1 <= old[r][1] /\ old[r][1] <= old[r][2]
            /\ \A k \in old[r][1] .. old[r][2] : \E j \in 1 .. n : seqs[j] = k
      /\ Strict(seqs) => \A r, q \in 1 .. N : r < q => old[r][2] + 1 < old[q][1]
  BY <1>2 DEF RangesOf, old
<1>6. /\ \A r \in 1 .. N + 1 : r \in 1 .. N \/ r = N + 1
      /\ \A r \in 1 .. N : r \in 1 .. N + 1
      /\ N + 1 \in 1 .. N + 1 /\ N \in 1 .. N
  BY ONLY <1>0
<1>7. ASSUME NEW j \in 1 .. n + 1 PROVE InRanges(seqs[j], new)
  <2>1. CASE j \in 1 .. n
    <3>1. PICK r \in 1 .. N : old[r][1] <= seqs[j] /\ seqs[j] <= old[r][2]
      BY <1>2, <1>5, <2>1 DEF InRanges
    <3> QED BY <1>3, <1>6, <3>1 DEF InRanges
  <2>2. CASE j = n + 1
    <3>1. new[N + 1][1] <= seqs[j] /\ seqs[j] <= new[N + 1][2]
      BY <1>1, <1>3, <2>2 DEF x
    <3> QED BY <1>3, <1>6, <3>1 DEF InRanges
  <2> QED BY <2>1, <2>2
<1>8. ASSUME NEW r \in 1 .. N + 1
      PROVE  /\ 1 <= new[r][1] /\ new[r][1] <= new[r][2]
             /\ \A k \in new[r][1] .. new[r][2] : \E j \in 1 .. n + 1 : seqs[j] = k
  <2>1. CASE r \in 1 .. N
    <3>1. \A j \in 1 .. n : j \in 1 .. n + 1
      OBVIOUS
    <3> QED BY <1>3, <1>5, <2>1, <3>1
  <2>2. CASE r = N + 1
    <3>1. new[r][1] = x /\ new[r][2] = x
      BY <1>3, <2>2
    <3>2. \A k \in x .. x : k = x
      BY <1>1
    <3>3. \E j \in 1 .. n + 1 : seqs[j] = x
      BY <1>1 DEF x
    <3>4. x <= x
      BY <1>1
    <3>5. \A k \in new[r][1] .. new[r][2] : k = x
      BY <3>1, <3>2
    <3> QED BY <1>1, <3>1, <3>3, <3>4, <3>5
  <2> QED BY <1>6, <2>1, <2>2
<1>9. ASSUME Strict(seqs), NEW r \in 1 .. N + 1, NEW q \in 1 .. N + 1, r < q
      PROVE  new[r][2] + 1 < new[q][1]
  <2>0. r \in 1 .. N
    BY <1>2, <1>9
  <2>1. new[r][2] = old[r][2] /\ old[r][2] \in Nat
    BY <1>3, <1>4, <2>0
  <2>2. CASE q \in 1 .. N
    BY <1>3, <1>5, <1>9, <2>0, <2>1, <2>2
  <2>3. CASE q = N + 1
    <3>1. b + 1 < x
      <4>1. n \in 1 .. Len(seqs) - 1
        OBVIOUS
      <4>2. seqs[n] < seqs[n + 1]
        BY <1>9, <4>1 DEF Strict
      <4>3. b < x
        BY <4>2 DEF x
      <4>4. b \in Int /\ x \in Int
        BY <1>1
      <4> QED BY <1>1, <4>3, <4>4
    <3>2. old[r][2] <= b
      <4>1. CASE r = N
        BY <1>2, <4>1
      <4>2. CASE r # N
        <5>1. r < N
          BY <1>2, <2>0, <4>2
        <5>2. old[r][2] + 1 < a
          BY <1>2, <1>5, <1>6, <1>9, <2>0, <5>1
        <5>3. a <= b
          <6>1. N \in 1 .. N /\ old[N][1] = a /\ old[N][2] = b
            BY <1>2, <1>6
          <6> QED BY ONLY <1>5, <6>1
        <5>4. a \in Int /\ b \in Int
          OBVIOUS
        <5> QED BY ONLY <2>1, <5>2, <5>3, <5>4
      <4> QED BY <4>1, <4>2
    <3>3. new[q][1] = x
      BY <1>3, <2>3
    <3>4. new[r][2] + 1 < x
      <4> DEFINE c == old[r][2]
      <4>1. c \in Nat /\ c <= b
        BY <2>1, <3>2
      <4> HIDE DEF c
      <4>2. c + 1 < x
        BY <1>1, <3>1, <4>1
      <4> QED BY <2>1, <4>2 DEF c
    <3> QED BY <3>3, <3>4
  <2> QED BY <1>6, <2>2, <2>3
<1> QED BY <1>3, <1>7, <1>8, <1>9 DEF RangesOf, new, x, old

\* A list of one number has one range.
LEMMA First ==
    ASSUME NEW seqs \in Seq(Nat), 1 <= Len(seqs), seqs[1] >= 1
    PROVE  RangesOf(seqs, 1, Append(<<>>, <<seqs[1], seqs[1]>>))
<1> DEFINE none == <<>>
           x == seqs[1]
           new == Append(none, <<x, x>>)
<1>1. x \in Nat /\ none \in Seq(Nat \X Nat) /\ Len(none) = 0
  OBVIOUS
<1> HIDE DEF none, x, new
<1>2. Len(new) = 1 /\ new[1][1] = x /\ new[1][2] = x
  <2>1. /\ Len(new) = Len(none) + 1 /\ new[Len(none) + 1][1] = x
        /\ new[Len(none) + 1][2] = x
    BY <1>1, AppendPair DEF new
  <2> QED BY <1>1, <2>1
<1>3. \A r \in 1 .. 1 : r = 1
  OBVIOUS
<1>4. \A k \in x .. x : k = x
  BY <1>1
<1>5. x = seqs[1] /\ x >= 1 /\ 1 \in 1 .. 1
  BY DEF x
<1>6. \A j \in 1 .. 1 : InRanges(seqs[j], new)
  BY <1>1, <1>2, <1>3, <1>5 DEF InRanges
<1>7. \A r \in 1 .. 1 : /\ 1 <= new[r][1] /\ new[r][1] <= new[r][2]
                        /\ \A k \in new[r][1] .. new[r][2] : \E j \in 1 .. 1 : seqs[j] = k
  BY <1>1, <1>2, <1>3, <1>4, <1>5
<1>8. \A r, q \in 1 .. 1 : r < q => new[r][2] + 1 < new[q][1]
  OBVIOUS
<1>9. RangesOf(seqs, 1, new)
  BY <1>2, <1>6, <1>7, <1>8 DEF RangesOf
<1> QED BY <1>9 DEF new, none, x

---------------------------------------------------------------------------
(* What surrounds the loop.                                                *)

\* A statement that fails changes nothing but the count of failures.
LEMMA FaultsStep ==
    ASSUME CoreInv, Dense, faults' \in Nat,
           UNCHANGED <<info, nodeDB, outbox, attempts, recorded, coord, dlq, nodeVars, simVars,
                       sync, rec, calls, restarts>>
    PROVE  CoreInv' /\ Dense'
<1> USE DEF nodeVars, simVars
<1>1. TypeOK'
  BY DEF CoreInv, TypeOK, StorageTypeOK, NodeTypeOK, SimTypeOK, SyncTypeOK, RecTypeOK
<1>2. Tables'
  BY DEF CoreInv, Tables, Own, Issued, Locked
<1>3. Epochs' /\ Sequences' /\ UniqueStamps' /\ OneContribution' /\ PillsWait'
  BY DEF CoreInv, Epochs, Sequences, UniqueStamps, OneContribution, PillsWait, Own, Issued, At
<1>4. Coherence' /\ RepairProgress'
  BY DEF CoreInv, Coherence, RepairProgress, At, Once
<1>5. Dense'
  BY DEF Dense, Own, Issued
<1> QED BY <1>1, <1>2, <1>3, <1>4, <1>5 DEF CoreInv

\* A node gives its numbers one by one and starts again only in a new epoch.
LEMMA DenseStep == ASSUME CoreInv, Dense, [Next]_vars PROVE Dense'
<1>0. TypeOK /\ Tables /\ Epochs
  BY DEF CoreInv
<1>1. /\ nextSeq \in [Nodes -> Nat] /\ epoch \in [Nodes -> Nat]
      /\ info \in [Uuid -> Operation \cup {NoOp}]
  BY <1>0 DEF TypeOK, NodeTypeOK, StorageTypeOK
<1>2. CASE Apply
  <2> PICK n \in Nodes, u \in Uuid, a \in Amounts : ApplyDelta(n, u, a)
    BY <1>2 DEF Apply
  <2>1. a \in Int
    BY StorageAssumption
  <2> DEFINE op == [node |-> n, epoch |-> epoch[n], seq |-> nextSeq[n], amount |-> a]
  <2>2. op \in Operation
    BY <1>1, <2>1 DEF Operation
  <2>3. /\ u \notin Issued /\ Issued' = Issued \cup {u}
        /\ info'[u] = op /\ \A v \in Issued : info'[v] = info[v]
        /\ epoch' = epoch
        /\ \A m \in Nodes : nextSeq'[m] = IF m = n THEN nextSeq[n] + 1 ELSE nextSeq[m]
    BY <1>1, <2>2, StorageAssumption DEF ApplyDelta, Issued
  <2>4. /\ op.node = n /\ op.epoch = epoch[n] /\ op.seq = nextSeq[n]
        /\ nextSeq[n] \in Nat /\ nextSeq[n] >= 1
    BY <1>1 DEF Dense
  <2> HIDE DEF op
  <2>5. u \in Own(n)' /\ \A m : Own(m) \subseteq Own(m)'
    BY <2>3, <2>4 DEF Own
  <2>6. ASSUME NEW s \in 1 .. nextSeq[n]
        PROVE  \E v \in Own(n)' : info'[v].epoch = epoch[n] /\ info'[v].seq = s
    <3>1. CASE s = nextSeq[n]
      BY <2>3, <2>4, <2>5, <3>1
    <3>2. CASE s # nextSeq[n]
      <4>1. s \in 1 .. nextSeq[n] - 1
        BY <2>4, <3>2
      <4>2. PICK v \in Own(n) : info[v].epoch = epoch[n] /\ info[v].seq = s
        BY <4>1 DEF Dense
      <4> QED BY <2>3, <2>5, <4>2 DEF Own
    <3> QED BY <3>1, <3>2
  <2>7. ASSUME NEW v \in Issued'
        PROVE  /\ info'[v].seq >= 1
               /\ \A s \in 1 .. info'[v].seq :
                     \E w \in Own(info[v].node)' : info'[w].epoch = info'[v].epoch /\ info'[w].seq = s
    <3>1. CASE v = u
      <4>1. info'[v].node = n /\ info'[v].epoch = epoch[n] /\ info'[v].seq = nextSeq[n]
        BY <2>3, <2>4, <3>1
      <4> QED BY <2>4, <2>6, <4>1
    <3>2. CASE v # u
      <4>1. v \in Issued /\ info'[v] = info[v]
        BY <2>3, <3>2
      <4>2. ASSUME NEW s \in 1 .. info[v].seq
            PROVE  \E w \in Own(info[v].node)' : info'[w].epoch = info[v].epoch /\ info'[w].seq = s
        <5>1. PICK w \in Own(info[v].node) : info[w].epoch = info[v].epoch /\ info[w].seq = s
          BY <4>1 DEF Dense
        <5>2. w \in Issued /\ info'[w] = info[w]
          BY <2>3 DEF Own
        <5>3. w \in Issued' /\ info'[w].node = info'[v].node
          BY <2>3, <4>1, <5>2 DEF Own
        <5>4. w \in Own(info[v].node)'
          BY <5>3 DEF Own
        <5> QED BY <5>1, <5>2, <5>4
      <4>3. info[v].seq >= 1
        BY <4>1 DEF Dense
      <4> QED BY <4>1, <4>2, <4>3
    <3> QED BY <3>1, <3>2
  <2>8. ASSUME NEW m \in Nodes
        PROVE  /\ nextSeq'[m] >= 1
               /\ \A s \in 1 .. nextSeq'[m] - 1 :
                     \E v \in Own(m)' : info'[v].epoch = epoch'[m] /\ info'[v].seq = s
    <3>1. CASE m = n
      <4>1. nextSeq'[m] = nextSeq[n] + 1 /\ nextSeq'[m] >= 1
        BY <2>3, <2>4, <3>1
      <4>2. \A s \in 1 .. nextSeq'[m] - 1 : s \in 1 .. nextSeq[n]
        BY <2>4, <4>1
      <4> QED BY <2>3, <2>6, <3>1, <4>1, <4>2
    <3>2. CASE m # n
      <4>1. nextSeq'[m] = nextSeq[m]
        BY <2>3, <3>2
      <4>2. ASSUME NEW s \in 1 .. nextSeq[m] - 1
            PROVE  \E v \in Own(m)' : info'[v].epoch = epoch[m] /\ info'[v].seq = s
        <5>1. PICK v \in Own(m) : info[v].epoch = epoch[m] /\ info[v].seq = s
          BY DEF Dense
        <5> QED BY <2>3, <2>5, <5>1 DEF Own
      <4> QED BY <2>3, <4>1, <4>2 DEF Dense
    <3> QED BY <3>1, <3>2
  <2> QED BY <2>7, <2>8 DEF Dense
<1>3. CASE Restart
  <2>1. info' = info /\ Issued' = Issued /\ \A n : Own(n)' = Own(n)
    BY <1>3 DEF Restart, NewNodes, Issued, Own
  <2>2. \A n \in Nodes : nextSeq'[n] = 1
    BY <1>0, <1>3, NewEpochUnused DEF Restart, NewNodes
  <2>3. \A n \in Nodes : nextSeq'[n] >= 1 /\ \A s \in 1 .. nextSeq'[n] - 1 : FALSE
    BY <2>2
  <2> QED BY <2>1, <2>3 DEF Dense
<1>4. CASE CrashIncrementEpoch /\ ~Apply /\ ~Restart
  <2>1. info' = info /\ Issued' = Issued /\ \A n : Own(n)' = Own(n)
    BY <1>4, Frame DEF Issued, Own
  <2>2. /\ nextSeq' = [nextSeq EXCEPT ![job.node] = 1]
        /\ epoch' = [epoch EXCEPT ![job.node] = @ + 1]
    BY <1>4 DEF CrashIncrementEpoch, IncrementEpoch
  <2>3. ASSUME NEW n \in Nodes
        PROVE  /\ nextSeq'[n] >= 1
               /\ \A s \in 1 .. nextSeq'[n] - 1 :
                     \E v \in Own(n) : info[v].epoch = epoch'[n] /\ info[v].seq = s
    <3>1. CASE n = job.node
      <4>1. nextSeq'[n] = 1
        BY <1>1, <2>2, <3>1
      <4> QED BY <4>1
    <3>2. CASE n # job.node
      <4>1. nextSeq'[n] = nextSeq[n] /\ epoch'[n] = epoch[n]
        BY <1>1, <2>2, <3>2
      <4> QED BY <4>1 DEF Dense
    <3> QED BY <3>1, <3>2
  <2> QED BY <2>1, <2>3 DEF Dense
<1>5. CASE ~Apply /\ ~Restart /\ ~CrashIncrementEpoch
  <2>1. info' = info /\ Issued' = Issued /\ \A n : Own(n)' = Own(n)
    BY <1>5, Frame DEF Issued, Own
  <2>2. UNCHANGED <<epoch, nextSeq>>
    BY <1>5, NodeFrame
  <2> QED BY <2>1, <2>2 DEF Dense
<1> QED BY <1>2, <1>3, <1>4, <1>5

\* The sorted list of the numbers of a node's operations: strictly ascending if
\* all are of one epoch, because the stamps are unique.
LEMMA Sorted ==
    ASSUME CoreInv, Dense, NEW n, NEW ops \in SUBSET Own(n), ops # {},
           NEW seqs \in SortedSequences(ops)
    PROVE  seqs \in Seq(Nat) /\ Len(seqs) >= 1 /\ ListOf(ops, seqs)
<1> DEFINE N == Cardinality(ops)
<1>1. N \in Nat /\ N # 0
  <2>1. ops \subseteq Uuid
    BY DEF Own, Issued
  <2>2. IsFiniteSet(ops)
    BY <2>1, ManifestAssumption, FS_Subset
  <2> QED BY <2>2, FS_CardinalityType, FS_EmptySet
<1>2. PICK f \in [1 .. N -> ops] :
         /\ seqs = [k \in 1 .. N |-> info[f[k]].seq]
         /\ \A u \in ops : \E k \in 1 .. N : f[k] = u
         /\ \A j, k \in 1 .. N : f[j] = f[k] => j = k
         /\ \A k \in 1 .. N - 1 : info[f[k]].seq <= info[f[k + 1]].seq
  BY DEF SortedSequences
<1> HIDE DEF N
<1>3. \A u \in ops : /\ u \in Issued /\ info[u].node = n
                     /\ info[u].seq \in Nat /\ info[u].seq >= 1
  <2> TAKE u \in ops
  <2>1. u \in Issued /\ info[u].node = n
    BY DEF Own
  <2>2. info[u] \in Operation
    BY <2>1 DEF CoreInv, TypeOK, StorageTypeOK, Issued
  <2> QED BY <2>1, <2>2 DEF Operation, Dense
<1>4. \A k \in 1 .. N : f[k] \in ops /\ seqs[k] = info[f[k]].seq /\ seqs[k] \in Nat
  BY <1>2, <1>3
<1>5. seqs \in Seq(Nat) /\ Len(seqs) = N
  <2>1. seqs = [k \in 1 .. N |-> seqs[k]]
    BY <1>2
  <2>2. seqs \in [1 .. N -> Nat]
    BY <1>4, <2>1
  <2> QED BY <1>1, <2>2
<1>6. \A k \in 1 .. N - 1 : k \in 1 .. N /\ k + 1 \in 1 .. N
  BY <1>1
<1>7. Ascending(seqs)
  BY <1>2, <1>4, <1>5, <1>6 DEF Ascending
<1>8. (\A u, v \in ops : info[u].epoch = info[v].epoch) => Strict(seqs)
  <2> SUFFICES ASSUME \A u, v \in ops : info[u].epoch = info[v].epoch, NEW k \in 1 .. N - 1
               PROVE  seqs[k] < seqs[k + 1]
    BY <1>5 DEF Strict
  <2>1. k \in 1 .. N /\ k + 1 \in 1 .. N /\ k # k + 1
    BY <1>6
  <2>2. f[k] \in ops /\ f[k + 1] \in ops /\ f[k] # f[k + 1]
    BY <1>2, <1>4, <2>1
  <2>3. info[f[k]].seq # info[f[k + 1]].seq
    BY <1>3, <2>2 DEF CoreInv, UniqueStamps
  <2>4. seqs[k] \in Nat /\ seqs[k + 1] \in Nat /\ seqs[k] # seqs[k + 1] /\ seqs[k] <= seqs[k + 1]
    BY <1>2, <1>4, <2>1, <2>3
  <2> QED BY <2>4
<1>9. /\ \A j \in 1 .. N : seqs[j] >= 1 /\ \E u \in ops : seqs[j] = info[u].seq
      /\ \A u \in ops : \E j \in 1 .. N : seqs[j] = info[u].seq
  BY <1>2, <1>3, <1>4
<1>10. Len(seqs) >= 1
  BY <1>1, <1>5
<1>11. ListOf(ops, seqs)
  BY <1>5, <1>7, <1>8, <1>9, Zenon DEF ListOf
<1> QED BY <1>5, <1>10, <1>11

\* Every step of the program with a request: one of Next, or one of the request
\* that changes at most the count of failures.
LEMMA ManifestFrame ==
    ASSUME [ManifestNext]_manifestVars
    PROVE  \/ [Next]_vars /\ (man' = man \/ man' = NoManifest) /\ manifests' = manifests
           \/ RunManifest
BY DEF ManifestNext, manifestVars, Next

LEMMA RunManifestFrame ==
    ASSUME RunManifest, CoreInv
    PROVE  /\ UNCHANGED <<info, nodeDB, outbox, attempts, recorded, coord, dlq, nodeVars, simVars,
                          sync, rec, calls, restarts>>
           /\ faults' \in Nat
<1>1. faults \in Nat
  BY DEF CoreInv, TypeOK, StorageTypeOK
<1> USE DEF vars, storageVars
<1>2. CASE ManifestRead
  <2>1. faults' = faults \/ faults' = faults + 1
    BY <1>2 DEF ManifestRead, Works, Fails
  <2>2. faults' \in Nat
    BY <1>1, <2>1
  <2> QED BY <1>2, <2>2 DEF ManifestRead
<1>3. CASE ~ManifestRead
  <2>1. UNCHANGED vars
    BY <1>3 DEF RunManifest, ManifestRequest, ManifestScan, ManifestScanEnd, ManifestPublish
  <2> QED BY <1>1, <2>1
<1> QED BY <1>2, <1>3

LEMMA CoreDense ==
    ASSUME CoreInv, Dense, [ManifestNext]_manifestVars
    PROVE  CoreInv' /\ Dense'
<1>1. CASE [Next]_vars
  BY <1>1, CoreStep, DenseStep
<1>2. CASE RunManifest
  BY <1>2, RunManifestFrame, FaultsStep
<1> QED BY <1>1, <1>2, ManifestFrame

LEMMA NoManifestType == NoManifest \in Answer
<1>1. <<>> \in Seq(Nat) /\ <<>> \in Seq(Nat \X Nat)
  OBVIOUS
<1> QED BY <1>1 DEF NoManifest, Answer

LEMMA ManifestTypeStep ==
    ASSUME CoreInv, Dense, ManifestOK, ManifestLoop, [ManifestNext]_manifestVars
    PROVE  ManifestOK'
<1> USE DEF ManifestOK, Answer
<1>0. NoManifest \in Answer
  BY NoManifestType
<1>1. CASE man' \in {man, NoManifest} /\ manifests' = manifests
  <2> HIDE DEF Answer
  <2> QED BY <1>0, <1>1
<1>2. ASSUME NEW n \in Nodes, ManifestRequest(n) PROVE ManifestOK'
  <2>1. [NoManifest EXCEPT !.pc = "read", !.node = n] \in Answer
    BY <1>0
  <2> HIDE DEF Answer
  <2> QED BY <1>2, <2>1 DEF ManifestRequest
<1>3. CASE ManifestRead
  <2> DEFINE ops == GetOperationsByNode(nodeDB[man.node], man.node)
  <2>1. CASE man' = NoManifest \/ man' = [man EXCEPT !.pc = "epoch"]
    BY <1>1, <1>3, <2>1 DEF ManifestRead
  <2>2. ASSUME ops # {}, NEW seqs \in SortedSequences(ops),
               man' = [man EXCEPT !.pc = "scan", !.ops = ops, !.seqs = seqs, !.i = 2,
                                  !.start = seqs[1], !.end = seqs[1]]
        PROVE  ManifestOK'
    <3>1. ops \in SUBSET Own(man.node) /\ ops \in SUBSET Uuid
      BY <1>3, ReadOwn DEF ManifestRead, ManifestLoop, CoreInv, Own, Issued
    <3>2. seqs \in Seq(Nat) /\ Len(seqs) >= 1
      BY <2>2, <3>1, Sorted
    <3>3. seqs[1] \in Nat
      BY <3>2
    <3> HIDE DEF ops
    <3> QED BY <1>3, <2>2, <3>1, <3>2, <3>3 DEF ManifestRead
  <2> QED BY <1>3, <2>1, <2>2 DEF ManifestRead
<1>4. CASE ManifestScan
  <2>1. man.seqs[man.i] \in Nat /\ man.i + 1 \in Nat
    <3>1. man.i \in 1 .. Len(man.seqs)
      BY <1>4 DEF ManifestScan, ManifestLoop
    <3> QED BY <3>1
  <2>2. Closed(man) \in Seq(Nat \X Nat)
    BY AppendPair DEF Closed
  <2> QED BY <1>4, <2>1, <2>2 DEF ManifestScan
<1>5. CASE ManifestScanEnd
  <2>1. Closed(man) \in Seq(Nat \X Nat)
    BY AppendPair DEF Closed
  <2> QED BY <1>5, <2>1 DEF ManifestScanEnd
<1>6. CASE ManifestPublish
  <2>1. epoch[man.node] \in Nat
    BY <1>6 DEF ManifestPublish, ManifestLoop, CoreInv, TypeOK, NodeTypeOK
  <2> QED BY <1>6, <2>1 DEF ManifestPublish
<1> QED BY <1>1, <1>2, <1>3, <1>4, <1>5, <1>6, ManifestFrame DEF RunManifest

\* What was read stays what it is as long as the operations do.
LEMMA ListKept ==
    ASSUME man'.ops = man.ops, man'.seqs = man.seqs, man'.node = man.node,
           \A u \in man.ops : u \in Issued' /\ info'[u] = info[u],
           man.ops \subseteq Own(man.node), ListOf(man.ops, man.seqs)
    PROVE  (man.ops \subseteq Own(man.node) /\ ListOf(man.ops, man.seqs))'
<1>1. (man.ops \subseteq Own(man.node))'
  BY DEF Own
<1>2. (/\ \A j \in 1 .. Len(man.seqs) : man.seqs[j] >= 1
       /\ Ascending(man.seqs))'
  BY DEF ListOf, Ascending
<1>3. \A u \in man'.ops : \E j \in 1 .. Len(man'.seqs) : man'.seqs[j] = info'[u].seq
  BY DEF ListOf
<1>4. \A j \in 1 .. Len(man'.seqs) : \E u \in man'.ops : man'.seqs[j] = info'[u].seq
  BY DEF ListOf
<1>5. (\A u, v \in man'.ops : info'[u].epoch = info'[v].epoch) => Strict(man'.seqs)
  <2> SUFFICES ASSUME \A u, v \in man'.ops : info'[u].epoch = info'[v].epoch
               PROVE  Strict(man.seqs)
    OBVIOUS
  <2>1. \A u, v \in man.ops : info[u].epoch = info[v].epoch
    OBVIOUS
  <2> QED BY <2>1 DEF ListOf
<1> QED BY <1>1, <1>2, <1>3, <1>4, <1>5 DEF ListOf

LEMMA LoopStep ==
    ASSUME CoreInv, Dense, ManifestOK, ManifestLoop, EpochCovers, [ManifestNext]_manifestVars
    PROVE  ManifestLoop' /\ EpochCovers'
<1> DEFINE N == man.node
<1>0. /\ man.i \in Nat /\ man.start \in Nat /\ man.end \in Nat
      /\ man.seqs \in Seq(Nat) /\ man.ranges \in Seq(Nat \X Nat)
  BY DEF ManifestOK, Answer
<1>1. ASSUME [Next]_vars, man' = man PROVE ManifestLoop' /\ EpochCovers'
  <2>1. /\ \A u \in Issued : u \in Issued' /\ info'[u] = info[u]
        /\ \A n : Own(n) \subseteq Own(n)'
    BY <1>1, OwnKept DEF CoreInv
  <2>2. \A n : \A u \in Own(n) : info'[u] = info[u]
    BY <2>1 DEF Own
  <2>4. ASSUME man.pc \in {"scan", "epoch", "published"}
        PROVE  (man.ops \subseteq Own(man.node) /\ ListOf(man.ops, man.seqs))'
    <3>1. man.ops \subseteq Own(N) /\ ListOf(man.ops, man.seqs)
      BY <2>4 DEF ManifestLoop
    <3>2. \A u \in man.ops : u \in Issued' /\ info'[u].node = N /\ info'[u] = info[u]
      BY <2>1, <3>1 DEF Own
    <3> QED BY <1>1, <3>1, <3>2, ListKept
  <2>5. ManifestLoop'
    BY <1>1, <2>4 DEF ManifestLoop, Built
  <2>6. EpochCovers'
    <3>1. SUFFICES ASSUME man.pc = "published", NEW u \in man.ops
                   PROVE  info'[u].epoch <= man.epoch
      BY <1>1 DEF EpochCovers
    <3>2. info'[u] = info[u]
      BY <2>2, <3>1 DEF ManifestLoop
    <3> QED BY <3>1, <3>2 DEF EpochCovers
  <2> QED BY <2>5, <2>6
<1>2. CASE man' = NoManifest
  BY <1>2 DEF NoManifest, ManifestLoop, EpochCovers, Built
<1> USE DEF vars, storageVars
<1>3. ASSUME NEW n \in Nodes, ManifestRequest(n) PROVE ManifestLoop' /\ EpochCovers'
  BY <1>3 DEF ManifestRequest, NoManifest, ManifestLoop, EpochCovers, Built
<1>4. CASE ManifestRead
  <2> DEFINE ops == GetOperationsByNode(nodeDB[man.node], man.node)
  <2>0. /\ info' = info /\ man.pc = "read" /\ N \in Nodes
        /\ man.ranges = <<>> /\ man.ops = {} /\ man.seqs = <<>>
        /\ Issued' = Issued /\ ops \in SUBSET Own(N)
    BY <1>4, ReadOwn DEF ManifestRead, ManifestLoop, CoreInv, Issued
  <2>1. CASE man' = [man EXCEPT !.pc = "epoch"]
    <3>1. /\ man'.pc = "epoch" /\ man'.node = N /\ man'.ops = {} /\ man'.seqs = <<>>
          /\ man'.ranges = <<>>
      BY <2>0, <2>1 DEF ManifestOK, Answer
    <3>2. /\ \A j \in 1 .. Len(<<>>) : FALSE
          /\ \A j \in 1 .. Len(<<>>) - 1 : FALSE
      OBVIOUS
    <3>3. ListOf(man.ops, man.seqs)'
      BY <3>1, <3>2 DEF ListOf, Ascending, Strict
    <3>4. RangesOf(<<>>, Len(<<>>), <<>>)
      BY <3>2 DEF RangesOf
    <3>5. (man.ops \subseteq Own(man.node))'
      BY <3>1
    <3> QED BY <2>0, <3>1, <3>3, <3>4, <3>5 DEF ManifestLoop, EpochCovers, Built
  <2>2. ASSUME ops # {}, NEW seqs \in SortedSequences(ops),
               man' = [man EXCEPT !.pc = "scan", !.ops = ops, !.seqs = seqs, !.i = 2,
                                  !.start = seqs[1], !.end = seqs[1]]
        PROVE  ManifestLoop' /\ EpochCovers'
    <3>1. seqs \in Seq(Nat) /\ Len(seqs) >= 1 /\ ListOf(ops, seqs)
      BY <2>0, <2>2, Sorted
    <3> HIDE DEF ops
    <3>2. /\ man'.pc = "scan" /\ man'.node = N /\ man'.ops = ops /\ man'.seqs = seqs
          /\ man'.i = 2 /\ man'.start = seqs[1] /\ man'.end = seqs[1] /\ man'.ranges = <<>>
      BY <2>0, <2>2 DEF ManifestOK, Answer
    <3>3. seqs[1] >= 1
      BY <3>1 DEF ListOf
    <3>4. RangesOf(seqs, 1, Append(<<>>, <<seqs[1], seqs[1]>>))
      BY <3>1, <3>3, First
    <3>5. RangesOf(man'.seqs, man'.i - 1, Closed(man'))
      BY <3>2, <3>4 DEF Closed
    <3>6. man'.i - 1 \in 1 .. Len(man'.seqs) /\ man'.end = man'.seqs[man'.i - 1]
      BY <3>1, <3>2
    <3>7. ListOf(man.ops, man.seqs)'
      BY <2>0, <3>1, <3>2 DEF ListOf, Ascending, Strict
    <3>8. (man.ops \subseteq Own(man.node))' /\ man'.node \in Nodes
      BY <2>0, <3>2 DEF Own
    <3> QED BY <3>2, <3>5, <3>6, <3>7, <3>8 DEF ManifestLoop, EpochCovers, Built
  <2> QED BY <1>2, <1>4, <2>1, <2>2 DEF ManifestRead
<1>5. CASE ManifestScan
  <2> DEFINE m == man.i - 1
             x == man.seqs[man.i]
  <2>1. /\ man.pc = "scan" /\ N \in Nodes /\ man.ops \subseteq Own(N)
        /\ ListOf(man.ops, man.seqs)
        /\ m \in 1 .. Len(man.seqs) /\ man.end = man.seqs[m]
        /\ RangesOf(man.seqs, m, Append(man.ranges, <<man.start, man.end>>))
    BY <1>5 DEF ManifestScan, ManifestLoop, Closed
  <2>2. /\ m \in Nat \ {0} /\ m + 1 = man.i /\ m + 1 <= Len(man.seqs) /\ (man.i + 1) - 1 = m + 1
        /\ man.i \in 1 .. Len(man.seqs) /\ x \in Nat
    <3>1. man.i <= Len(man.seqs) /\ Len(man.seqs) \in Nat
      BY <1>0, <1>5 DEF ManifestScan
    <3>0. man.i \in Nat /\ man.i - 1 \in 1 .. Len(man.seqs)
      BY <1>0, <2>1
    <3>2. m \in Nat \ {0} /\ m + 1 = man.i /\ (man.i + 1) - 1 = m + 1
      BY ONLY <3>0, <3>1
    <3>3. man.i \in 1 .. Len(man.seqs)
      BY <1>0, <3>1, <3>2
    <3>4. x \in Nat
      <4>1. man.seqs \in Seq(Nat)
        BY <1>0
      <4> QED BY ONLY <3>3, <4>1
    <3> HIDE DEF m, x
    <3> QED BY <3>1, <3>2, <3>3, <3>4
  <2>3. x >= 1 /\ man.seqs[m + 1] = x
    BY <2>1, <2>2 DEF ListOf
  <2>4. info' = info /\ Issued' = Issued
    BY <1>5 DEF ManifestScan, Issued
  <2>5. CASE x = man.end + 1
    <3>1. /\ man'.pc = "scan" /\ man'.node = N /\ man'.ops = man.ops /\ man'.seqs = man.seqs
          /\ man'.i = man.i + 1 /\ man'.start = man.start /\ man'.end = man.end + 1
          /\ man'.ranges = man.ranges
      BY <1>5, <2>5 DEF ManifestScan, ManifestOK, Answer
    <3>2. RangesOf(man.seqs, m + 1, Append(man.ranges, <<man.start, man.end + 1>>))
      BY <1>0, <2>1, <2>2, <2>3, <2>5, Extend
    <3> HIDE DEF m, x
    <3>3. RangesOf(man'.seqs, man'.i - 1, Closed(man'))
      BY <2>2, <3>1, <3>2 DEF Closed
    <3>4. man'.i - 1 \in 1 .. Len(man'.seqs) /\ man'.end = man'.seqs[man'.i - 1]
      BY <2>2, <2>3, <2>5, <3>1
    <3>5. (man.ops \subseteq Own(man.node) /\ ListOf(man.ops, man.seqs))'
      <4>1. man'.ops = man.ops /\ man'.seqs = man.seqs /\ man'.node = N
        BY <3>1
      <4> QED BY <2>1, <2>4, <4>1, ListKept DEF Own
    <3> QED BY <2>1, <2>4, <3>1, <3>3, <3>4, <3>5 DEF ManifestLoop, EpochCovers, Built
  <2>6. CASE x # man.end + 1
    <3>1. /\ man'.pc = "scan" /\ man'.node = N /\ man'.ops = man.ops /\ man'.seqs = man.seqs
          /\ man'.i = man.i + 1 /\ man'.start = x /\ man'.end = x
          /\ man'.ranges = Append(man.ranges, <<man.start, man.end>>)
      BY <1>5, <2>6 DEF ManifestScan, ManifestOK, Answer, Closed
    <3>2. RangesOf(man.seqs, m + 1, Append(Append(man.ranges, <<man.start, man.end>>), <<x, x>>))
      BY <1>0, <2>1, <2>2, <2>3, <2>6, Open
    <3> HIDE DEF m, x
    <3>3. RangesOf(man'.seqs, man'.i - 1, Closed(man'))
      BY <2>2, <3>1, <3>2 DEF Closed
    <3>4. man'.i - 1 \in 1 .. Len(man'.seqs) /\ man'.end = man'.seqs[man'.i - 1]
      BY <2>2, <2>3, <3>1
    <3>5. (man.ops \subseteq Own(man.node) /\ ListOf(man.ops, man.seqs))'
      <4>1. man'.ops = man.ops /\ man'.seqs = man.seqs /\ man'.node = N
        BY <3>1
      <4> QED BY <2>1, <2>4, <4>1, ListKept DEF Own
    <3> QED BY <2>1, <2>4, <3>1, <3>3, <3>4, <3>5 DEF ManifestLoop, EpochCovers, Built
  <2> QED BY <2>5, <2>6
<1>6. CASE ManifestScanEnd
  <2>1. /\ man.pc = "scan" /\ man.i - 1 \in 1 .. Len(man.seqs) /\ man.i > Len(man.seqs)
        /\ RangesOf(man.seqs, man.i - 1, Closed(man))
        /\ N \in Nodes /\ man.ops \subseteq Own(N) /\ ListOf(man.ops, man.seqs)
    BY <1>6 DEF ManifestScanEnd, ManifestLoop
  <2>2. man.i - 1 = Len(man.seqs)
    BY <1>0, <2>1
  <2>3. /\ man'.pc = "epoch" /\ man'.node = N /\ man'.ops = man.ops /\ man'.seqs = man.seqs
        /\ man'.ranges = Closed(man)
    BY <1>6 DEF ManifestScanEnd, ManifestOK, Answer
  <2>4. info' = info /\ Issued' = Issued
    BY <1>6 DEF ManifestScanEnd, Issued
  <2>5. (man.ops \subseteq Own(man.node) /\ ListOf(man.ops, man.seqs))'
    BY <2>1, <2>3, <2>4, ListKept DEF Own
  <2> QED BY <2>1, <2>2, <2>3, <2>4, <2>5 DEF ManifestLoop, EpochCovers, Built
<1>7. CASE ManifestPublish
  <2>1. /\ man.pc = "epoch" /\ N \in Nodes /\ man.ops \subseteq Own(N)
        /\ ListOf(man.ops, man.seqs) /\ RangesOf(man.seqs, Len(man.seqs), man.ranges)
    BY <1>7 DEF ManifestPublish, ManifestLoop, Built
  <2>2. /\ man'.pc = "published" /\ man'.node = N /\ man'.ops = man.ops /\ man'.seqs = man.seqs
        /\ man'.ranges = man.ranges /\ man'.epoch = epoch[N]
    BY <1>7 DEF ManifestPublish, ManifestOK, Answer
  <2>3. info' = info /\ Issued' = Issued
    BY <1>7 DEF ManifestPublish, Issued
  <2>4. (man.ops \subseteq Own(man.node) /\ ListOf(man.ops, man.seqs))'
    BY <2>1, <2>2, <2>3, ListKept DEF Own
  <2>5. ASSUME NEW u \in man.ops PROVE info[u].epoch <= epoch[N]
    <3>1. u \in Issued /\ info[u].node = N
      BY <2>1 DEF Own
    <3>2. info[u] \in Operation /\ recorded[N] \in Nat /\ epoch[N] \in Nat
      BY <2>1, <3>1 DEF CoreInv, TypeOK, StorageTypeOK, NodeTypeOK, Issued
    <3>3. info[u].epoch <= recorded[N] /\ recorded[N] <= epoch[N]
      BY <2>1, <3>1 DEF CoreInv, Epochs
    <3> QED BY <3>2, <3>3 DEF Operation
  <2>6. EpochCovers'
    BY <2>2, <2>3, <2>5 DEF EpochCovers
  <2> QED BY <2>1, <2>2, <2>3, <2>4, <2>6 DEF ManifestLoop, Built
<1> QED BY <1>1, <1>2, <1>3, <1>4, <1>5, <1>6, <1>7, ManifestFrame DEF RunManifest

\* The invariant of the program with manifests holds in every state, whatever
\* happens to the node between two reads of a request.
THEOREM ManifestInvariance == ManifestSpec => []ManifestInv
<1>1. ManifestInit => ManifestInv
  <2> SUFFICES ASSUME ManifestInit PROVE ManifestInv
    OBVIOUS
  <2>1. CoreInv
    BY InitInv DEF ManifestInit, IndInv
  <2>2. Dense
    <3>1. Issued = {} /\ \A n \in Nodes : nextSeq[n] = 1
      BY DEF ManifestInit, Init, StorageInit, NodeInit, Issued
    <3>2. \A s \in 1 .. 1 - 1 : FALSE
      OBVIOUS
    <3> QED BY <3>1, <3>2 DEF Dense
  <2>3. <<>> \in Seq(Nat) /\ <<>> \in Seq(Nat \X Nat)
    OBVIOUS
  <2>4. ManifestOK
    BY <2>3 DEF ManifestInit, NoManifest, ManifestOK, Answer
  <2>5. ManifestLoop /\ EpochCovers
    BY DEF ManifestInit, NoManifest, ManifestLoop, EpochCovers, Built
  <2> QED BY <2>1, <2>2, <2>4, <2>5 DEF ManifestInv
<1>2. ManifestInv /\ [ManifestNext]_manifestVars => ManifestInv'
  BY CoreDense, ManifestTypeStep, LoopStep DEF ManifestInv
<1> QED BY <1>1, <1>2, PTL DEF ManifestSpec

\* What was read is what the ranges say.
LEMMA ExactRanges == ASSUME ManifestInv PROVE RangesExact
<1> SUFFICES ASSUME Built PROVE /\ \A u \in man.ops : InRanges(info[u].seq, man.ranges)
                                /\ \A r \in 1 .. Len(man.ranges) :
                                      \A k \in man.ranges[r][1] .. man.ranges[r][2] :
                                         Listed(k, man.ops)
  BY DEF RangesExact
<1>1. ListOf(man.ops, man.seqs) /\ RangesOf(man.seqs, Len(man.seqs), man.ranges)
  BY DEF ManifestInv, ManifestLoop, Built
<1>2. \A u \in man.ops : InRanges(info[u].seq, man.ranges)
  <2> TAKE u \in man.ops
  <2>1. PICK j \in 1 .. Len(man.seqs) : man.seqs[j] = info[u].seq
    BY <1>1 DEF ListOf
  <2>2. InRanges(man.seqs[j], man.ranges)
    BY <1>1 DEF RangesOf
  <2> QED BY <2>1, <2>2
<1>3. ASSUME NEW r \in 1 .. Len(man.ranges), NEW k \in man.ranges[r][1] .. man.ranges[r][2]
      PROVE  Listed(k, man.ops)
  <2>1. PICK j \in 1 .. Len(man.seqs) : man.seqs[j] = k
    BY <1>1, <1>3 DEF RangesOf
  <2> QED BY <1>1, <2>1 DEF ListOf, Listed
<1> QED BY <1>2, <1>3

\* The ranges of a manifest hold the numbers of the operations it covers and no
\* others, across all epochs.
THEOREM RangesAreExact == ManifestSpec => []RangesExact
BY ManifestInvariance, ExactRanges, PTL

\* A number that is missing is the number of an operation that was acknowledged
\* and is not in the node's table: a gap in a manifest proves a loss.
THEOREM GapsAreEvidence == ManifestSpec => []GapIsEvidence
<1>1. ASSUME ManifestInv PROVE GapIsEvidence
  <2> SUFFICES ASSUME Built, NEW r \in 1 .. Len(man.ranges), NEW k \in 1 .. man.ranges[r][2],
                      ~InRanges(k, man.ranges)
               PROVE  \E u \in Own(man.node) \ man.ops : info[u].seq = k
    BY DEF GapIsEvidence
  <2>1. /\ ListOf(man.ops, man.seqs) /\ RangesOf(man.seqs, Len(man.seqs), man.ranges)
        /\ man.ops \subseteq Own(man.node)
    BY <1>1 DEF ManifestInv, ManifestLoop, Built
  <2>2. man.ranges[r][1] \in Nat /\ man.ranges[r][2] \in Nat /\ man.ranges[r][1] <= man.ranges[r][2]
    BY <1>1, <2>1, PairAt DEF ManifestInv, ManifestOK, Answer, RangesOf
  <2>3. Listed(man.ranges[r][2], man.ops)
    BY <1>1, <2>2, ExactRanges DEF RangesExact
  <2>4. PICK u \in man.ops : info[u].seq = man.ranges[r][2]
    BY <2>3 DEF Listed
  <2>5. u \in Issued /\ info[u].node = man.node
    BY <2>1 DEF Own
  <2>6. PICK v \in Own(man.node) : info[v].seq = k
    BY <1>1, <2>4, <2>5 DEF ManifestInv, Dense
  <2>7. v \notin man.ops
    BY <1>1, <2>6, ExactRanges DEF RangesExact
  <2> QED BY <2>6, <2>7
<1> QED BY <1>1, ManifestInvariance, PTL

\* Within one epoch the ranges are separated by gaps, and the highest contiguous
\* number is what its name says.
THEOREM OneEpochIsExact == ManifestSpec => []OneEpochExact
<1>1. ASSUME ManifestInv PROVE OneEpochExact
  <2> DEFINE R == man.ranges
             h == HighestContiguousSeq(man)
  <2> SUFFICES ASSUME Built, \A u, v \in man.ops : info[u].epoch = info[v].epoch
               PROVE  /\ \A r \in 1 .. Len(R) - 1 : R[r][2] + 1 < R[r + 1][1]
                      /\ (\A k \in 1 .. h : Listed(k, man.ops)) /\ ~Listed(h + 1, man.ops)
    BY DEF OneEpochExact
  <2>1. /\ ListOf(man.ops, man.seqs) /\ RangesOf(man.seqs, Len(man.seqs), R)
        /\ R \in Seq(Nat \X Nat)
    BY <1>1 DEF ManifestInv, ManifestLoop, ManifestOK, Answer, Built
  <2>2. \A r, q \in 1 .. Len(R) : r < q => R[r][2] + 1 < R[q][1]
    BY <2>1 DEF ListOf, RangesOf
  <2>3. \A r \in 1 .. Len(R) : /\ R[r][1] \in Nat /\ R[r][2] \in Nat
                               /\ 1 <= R[r][1] /\ R[r][1] <= R[r][2]
    BY <2>1, PairAt DEF RangesOf
  <2>4. Len(R) \in Nat /\ (R # <<>> => 1 \in 1 .. Len(R)) /\ (R = <<>> => Len(R) = 0)
    BY <2>1
  <2>5. \A r \in 1 .. Len(R) : \A k \in R[r][1] .. R[r][2] : Listed(k, man.ops)
    BY <1>1, ExactRanges DEF RangesExact
  <2>6. \A k : Listed(k, man.ops) => \E r \in 1 .. Len(R) : R[r][1] <= k /\ k <= R[r][2]
    BY <1>1, ExactRanges DEF RangesExact, InRanges, Listed
  <2>7. h = IF R # <<>> /\ R[1][1] = 1 THEN R[1][2] ELSE 0
    BY DEF HighestContiguousSeq
  <2> HIDE DEF R, h
  <2>8. \A r \in 1 .. Len(R) - 1 : R[r][2] + 1 < R[r + 1][1]
    BY <2>2, <2>4
  <2>9. CASE R # <<>> /\ R[1][1] = 1
    <3>1. h = R[1][2] /\ h \in Nat /\ 1 \in 1 .. Len(R)
      BY <2>3, <2>4, <2>7, <2>9
    <3>2. \A k \in 1 .. h : Listed(k, man.ops)
      BY <2>5, <2>9, <3>1
    <3>3. ASSUME Listed(h + 1, man.ops) PROVE FALSE
      <4>1. PICK r \in 1 .. Len(R) : R[r][1] <= h + 1 /\ h + 1 <= R[r][2]
        BY <2>6, <3>3
      <4>2. CASE r = 1
        BY <3>1, <4>1, <4>2
      <4>3. CASE r # 1
        <5>1. 1 < r
          BY <2>4, <4>3
        <5>2. R[1][2] + 1 < R[r][1]
          BY <2>2, <3>1, <5>1
        <5>3. R[r][1] \in Nat
          BY <2>3
        <5> QED BY <3>1, <4>1, <5>2, <5>3
      <4> QED BY <4>2, <4>3
    <3> QED BY <2>8, <3>2, <3>3
  <2>10. CASE ~(R # <<>> /\ R[1][1] = 1)
    <3>1. h = 0
      BY <2>7, <2>10
    <3>2. ASSUME Listed(1, man.ops) PROVE FALSE
      <4>1. PICK r \in 1 .. Len(R) : R[r][1] <= 1 /\ 1 <= R[r][2]
        BY <2>6, <3>2
      <4>2. R[r][1] = 1 /\ R # <<>>
        BY <2>3, <2>4, <4>1
      <4>3. r # 1 /\ 1 < r /\ 1 \in 1 .. Len(R)
        BY <2>4, <2>10, <4>2
      <4>4. R[1][2] + 1 < R[r][1] /\ R[1][2] \in Nat
        BY <2>2, <2>3, <4>3
      <4> QED BY <4>2, <4>4
    <3> QED BY <2>8, <3>1, <3>2
  <2> QED BY <2>9, <2>10
<1> QED BY <1>1, ManifestInvariance, PTL

\* A manifest's epoch is never behind the operations it covers.
THEOREM EpochIsLast == ManifestSpec => []EpochCovers
<1>1. ManifestInv => EpochCovers
  BY DEF ManifestInv
<1> QED BY <1>1, ManifestInvariance, PTL
=============================================================================
