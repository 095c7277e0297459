----------------------- MODULE KnowledgeCompileProofs -----------------------
(***************************************************************************)
(* The knowledge compiler, for any documents, workers, processes, batch    *)
(* size, parses and number of faults: its scheduling row is always         *)
(* recoverable (RowRecoverable, inductive as it stands); no first parse is *)
(* lost before it is merged (FirstMergeKept, from FirstMergeInv); as long  *)
(* as nothing fails no row names a deleted document again (DeletedGone,    *)
(* from DeletedInv) and only rows of deleted documents go                  *)
(* (RowsOutliveOthers); and the compiler implements CompiledDocument.      *)
(***************************************************************************)
EXTENDS KnowledgeCompile, FunctionTheorems, FiniteSetTheorems,
        SequenceTheorems, TLAPS

-----------------------------------------------------------------------------
(* The scheduling row.                                                     *)

\* The steps of the producers, which only append to the backlog.
LEMMA ProduceKeepsRow ==
    ASSUME RowRecoverable, NEW d \in Docs, Produce(d)
    PROVE  RowRecoverable'
<1>1. CASE StartParse(d) \/ WriteProducts(d) \/ DeleteDocument(d)
  BY <1>1 DEF StartParse, WriteProducts, DeleteDocument, RowRecoverable,
              rowVars
<1>2. CASE PublishCompleted(d)
  <2>1. CASE Publish(d, "completed")
    BY <2>1 DEF Publish, RowRecoverable
  <2>2. CASE UNCHANGED rowVars
    BY <2>2 DEF RowRecoverable, rowVars
  <2> QED
    BY <1>2, <2>1, <2>2 DEF PublishCompleted
<1>3. CASE PublishDeleted(d)
  <2>1. CASE Publish(d, "deleted")
    BY <2>1 DEF Publish, RowRecoverable
  <2>2. CASE UNCHANGED rowVars
    BY <2>2 DEF RowRecoverable, rowVars
  <2> QED
    BY <1>3, <2>1, <2>2 DEF PublishDeleted
<1> QED
  BY <1>1, <1>2, <1>3 DEF Produce

\* A claim leaves a live lease, whatever it moves.
LEMMA ClaimRowKeepsRow ==
    ASSUME NEW w \in Workers, NEW bl, NEW fl, ClaimRow(w, bl, fl)
    PROVE  RowRecoverable'
  BY KnowledgeCompileAssumption DEF ClaimRow, RowRecoverable

\* A worker that gives up leaves its claim on the row.
LEMMA GiveUpKeepsRow ==
    ASSUME RowRecoverable, NEW w \in Workers, GiveUp(w),
           UNCHANGED <<backlog, inflight, lease, state>>
    PROVE  RowRecoverable'
  BY KnowledgeCompileAssumption DEF GiveUp, RowRecoverable

\* The steps of a worker.
LEMMA WorkKeepsRow ==
    ASSUME RowRecoverable, NEW w \in Workers, Work(w)
    PROVE  RowRecoverable'
<1>1. CASE Claim(w)
  BY <1>1, ClaimRowKeepsRow DEF Claim
<1>2. CASE Reclaim(w)
  <2>1. CASE ClaimRow(w, backlog \o inflight, <<>>)
    BY <2>1, ClaimRowKeepsRow
  <2>2. CASE UNCHANGED rowVars
    BY <2>2 DEF RowRecoverable, rowVars
  <2> QED
    BY <1>2, <2>1, <2>2 DEF Reclaim
<1>3. CASE TouchClaim(w)
  BY <1>3 DEF TouchClaim, RowRecoverable
<1>4. CASE FailBatch(w)
  BY <1>4, GiveUpKeepsRow DEF FailBatch
<1>5. CASE NoAck(w)
  BY <1>5, GiveUpKeepsRow DEF NoAck
<1>6. CASE Ack(w)
  <2> DEFINE rest == RemoveEntries(inflight, batch[w])
  <2>1. /\ token = w
        /\ inflight' = rest
        /\ token' = IF rest = <<>> THEN "" ELSE "gone"
        /\ lease' = IF rest = <<>> THEN "none" ELSE lease
        /\ state' = IF backlog # <<>> THEN "pending" ELSE "completed"
        /\ backlog' = backlog
    BY <1>6 DEF Ack
  <2>2. lease # "none"
    BY <2>1, KnowledgeCompileAssumption DEF RowRecoverable
  <2> HIDE DEF rest
  <2> QED
    BY <2>1, <2>2 DEF RowRecoverable
<1>7. CASE \/ Probe(w) \/ Reconcile(w) \/ DeleteDocLevelForDocs(w)
           \/ StripMergedSources(w) \/ LoadDocProducts(w) \/ SearchSimilar(w)
           \/ WriteMerged(w) \/ Restart(w)
  BY <1>7 DEF Probe, Reconcile, DeleteDocLevelForDocs, StripMergedSources,
              LoadDocProducts, SearchSimilar, WriteMerged, Restart,
              RowRecoverable, rowVars
<1> QED
  BY <1>1, <1>2, <1>3, <1>4, <1>5, <1>6, <1>7 DEF Work, Process

\* Unacknowledged entries always have a lease through which reclaimOne finds
\* them, and the row is not shown as completed while its backlog waits.
THEOREM RowAlwaysRecoverable == Spec => []RowRecoverable
<1>1. Init => RowRecoverable
  BY DEF Init, RowRecoverable
<1>2. RowRecoverable /\ [Next]_vars => RowRecoverable'
  <2> SUFFICES ASSUME RowRecoverable, [Next]_vars
               PROVE  RowRecoverable'
    OBVIOUS
  <2>1. CASE \E d \in Docs : Produce(d)
    BY <2>1, ProduceKeepsRow
  <2>2. CASE \E w \in Workers : Work(w)
    BY <2>2, WorkKeepsRow
  <2>3. CASE \E p \in Procs : Crash(p)
    BY <2>3, KnowledgeCompileAssumption DEF Crash, RowRecoverable
  <2>4. CASE ExpireLease \/ MissHeartbeats
    BY <2>4 DEF ExpireLease, MissHeartbeats, RowRecoverable
  <2>5. CASE UNCHANGED vars
    BY <2>5 DEF vars, rowVars, RowRecoverable
  <2> QED
    BY <2>1, <2>2, <2>3, <2>4, <2>5 DEF Next, Done
<1> QED
  BY <1>1, <1>2, PTL DEF Spec

-----------------------------------------------------------------------------
(* Sequences of entries.                                                   *)

\* What Publish does to the set of entries.
LEMMA RangeAppended ==
    ASSUME NEW S, NEW s \in Seq(S), NEW e \in S
    PROVE  /\ Append(s, e) \in Seq(S)
           /\ SeqRange(Append(s, e)) = SeqRange(s) \cup {e}
<1>1. /\ Append(s, e) \in Seq(S) /\ Len(Append(s, e)) = Len(s) + 1
      /\ \A i \in 1..Len(s) : Append(s, e)[i] = s[i]
      /\ Append(s, e)[Len(s) + 1] = e
  BY AppendProperties
<1>2. /\ Len(s) \in Nat /\ DOMAIN s = 1..Len(s)
      /\ DOMAIN Append(s, e) = 1..(Len(s) + 1)
  BY <1>1, LenProperties
<1>3. 1..(Len(s) + 1) = (1..Len(s)) \cup {Len(s) + 1}
  BY <1>2
<1> QED
  BY <1>1, <1>2, <1>3 DEF SeqRange

\* The entries of s \o t.
LEMMA ConcatEntries ==
    ASSUME NEW S, NEW s \in Seq(S), NEW t \in Seq(S), NEW u, u = s \o t
    PROVE  /\ u \in Seq(S)
           /\ Len(s) \in Nat /\ DOMAIN s = 1..Len(s)
           /\ Len(t) \in Nat /\ DOMAIN t = 1..Len(t)
           /\ DOMAIN u = 1..(Len(s) + Len(t))
           /\ \A i \in DOMAIN s : i \in DOMAIN u /\ u[i] = s[i]
           /\ \A i \in DOMAIN t : Len(s) + i \in DOMAIN u /\ u[Len(s) + i] = t[i]
           /\ \A i \in DOMAIN u : \/ i \in DOMAIN s
                                  \/ i - Len(s) \in DOMAIN t /\ u[i] = t[i - Len(s)]
<1>1. /\ u \in Seq(S) /\ Len(u) = Len(s) + Len(t)
      /\ \A i \in 1..(Len(s) + Len(t)) :
            u[i] = IF i <= Len(s) THEN s[i] ELSE t[i - Len(s)]
  BY ConcatProperties
<1>2. /\ Len(s) \in Nat /\ DOMAIN s = 1..Len(s)
      /\ Len(t) \in Nat /\ DOMAIN t = 1..Len(t)
      /\ DOMAIN u = 1..(Len(s) + Len(t))
  BY <1>1, LenProperties
<1>3. \A i \in DOMAIN s : i \in DOMAIN u /\ u[i] = s[i]
  BY <1>1, <1>2
<1>4. \A i \in DOMAIN t : Len(s) + i \in DOMAIN u /\ u[Len(s) + i] = t[i]
  BY <1>1, <1>2
<1>5. \A i \in DOMAIN u : \/ i \in DOMAIN s
                          \/ i - Len(s) \in DOMAIN t /\ u[i] = t[i - Len(s)]
  BY <1>1, <1>2
<1> QED
  BY <1>1, <1>2, <1>3, <1>4, <1>5

\* What a claim or a reclaim does to it.
LEMMA RangeConcat ==
    ASSUME NEW S, NEW s \in Seq(S), NEW t \in Seq(S)
    PROVE  /\ s \o t \in Seq(S)
           /\ SeqRange(s \o t) = SeqRange(s) \cup SeqRange(t)
<1> DEFINE u == s \o t
<1>1. u = s \o t
  OBVIOUS
<1> HIDE DEF u
<1>2. /\ u \in Seq(S)
      /\ \A i \in DOMAIN s : i \in DOMAIN u /\ u[i] = s[i]
      /\ \A i \in DOMAIN t : Len(s) + i \in DOMAIN u /\ u[Len(s) + i] = t[i]
      /\ \A i \in DOMAIN u : \/ i \in DOMAIN s
                             \/ i - Len(s) \in DOMAIN t /\ u[i] = t[i - Len(s)]
  BY <1>1, ConcatEntries
<1>3. SeqRange(u) = SeqRange(s) \cup SeqRange(t)
  BY <1>2 DEF SeqRange
<1>4. u \in Seq(S)
  BY <1>2
<1> QED
  BY <1>3, <1>4 DEF u

\* What claimRow takes and what it leaves are the two parts of the backlog.
LEMMA Split ==
    ASSUME NEW S, NEW s \in Seq(S), NEW n \in 0..Len(s)
    PROVE  /\ SubSeq(s, 1, n) \in Seq(S)
           /\ SubSeq(s, n + 1, Len(s)) \in Seq(S)
           /\ SubSeq(s, 1, n) \o SubSeq(s, n + 1, Len(s)) = s
           /\ SeqRange(s) = SeqRange(SubSeq(s, 1, n)) \cup SeqRange(SubSeq(s, n + 1, Len(s)))
<1>1. Len(s) \in Nat
  BY LenProperties
<1>2. SubSeq(s, 1, n) \in Seq(S) /\ SubSeq(s, n + 1, Len(s)) \in Seq(S)
  <2>1. /\ 1 \in Int /\ n \in Int /\ n + 1 \in Int /\ Len(s) \in Int
        /\ \A i \in 1..n : i \in 1..Len(s)
        /\ \A i \in (n + 1)..Len(s) : i \in 1..Len(s)
    BY <1>1
  <2>2. \A i \in 1..Len(s) : s[i] \in S
    BY ElementOfSeq
  <2>3. SubSeq(s, 1, n) \in Seq(S)
    BY <2>1, <2>2, SubSeqProperties
  <2>4. SubSeq(s, n + 1, Len(s)) \in Seq(S)
    BY <2>1, <2>2, SubSeqProperties
  <2> QED
    BY <2>3, <2>4
<1>3. SubSeq(s, 1, n) \o SubSeq(s, n + 1, Len(s)) = SubSeq(s, 1, Len(s))
  <2>1. 1 \in 1..(Len(s) + 1) /\ n \in (1 - 1)..Len(s) /\ Len(s) \in n..Len(s)
    BY <1>1
  <2> QED
    BY <2>1, ConcatAdjacentSubSeq
<1>4. SubSeq(s, 1, Len(s)) = s
  BY SubSeqFull
<1> DEFINE a == SubSeq(s, 1, n)
           b == SubSeq(s, n + 1, Len(s))
<1>5. a \in Seq(S) /\ b \in Seq(S) /\ a \o b = s
  BY <1>2, <1>3, <1>4
<1> HIDE DEF a, b
<1>6. SeqRange(s) = SeqRange(a) \cup SeqRange(b)
  BY <1>5, RangeConcat
<1> QED
  BY <1>5, <1>6 DEF a, b

\* Every place of a finite set of numbers is somebody's rank, and Nth finds it.
LEMMA Ranking ==
    ASSUME NEW S, S \subseteq Nat, IsFiniteSet(S)
    PROVE  /\ Cardinality(S) \in Nat
           /\ \A k \in 1..Cardinality(S) :
                 Nth(S, k) \in S /\ Cardinality({m \in S : m <= Nth(S, k)}) = k
           /\ \A n \in S : \E k \in 1..Cardinality(S) : Nth(S, k) = n
<1> DEFINE upto(n) == {m \in S : m <= n}
           rank == [n \in S |-> Cardinality(upto(n))]
<1>1. Cardinality(S) \in Nat
  BY FS_CardinalityType
<1>2. ASSUME NEW n \in S
      PROVE  IsFiniteSet(upto(n)) /\ rank[n] = Cardinality(upto(n)) /\ rank[n] \in 1..Cardinality(S)
  <2>1. upto(n) \in SUBSET S
    OBVIOUS
  <2>2. IsFiniteSet(upto(n)) /\ Cardinality(upto(n)) <= Cardinality(S)
    BY <2>1, FS_Subset
  <2>3. Cardinality(upto(n)) \in Nat /\ Cardinality(upto(n)) # 0
    <3>1. n \in upto(n)
      OBVIOUS
    <3> QED
      BY <2>2, <3>1, FS_CardinalityType, FS_EmptySet
  <2> HIDE DEF upto
  <2> QED
    BY <1>1, <2>2, <2>3
<1>3. ASSUME NEW n \in S, NEW m \in S, m < n
      PROVE  rank[m] < rank[n]
  <2>1. upto(m) \in SUBSET upto(n) /\ upto(m) # upto(n)
    <3>1. n \in Nat /\ m \in Nat /\ n <= n /\ ~(n <= m)
      BY <1>3
    <3>2. n \in upto(n) /\ n \notin upto(m)
      BY <3>1
    <3>3. \A k \in S : k <= m => k <= n
      BY <1>3
    <3>4. upto(m) \subseteq upto(n)
      BY <3>3
    <3> QED
      BY <3>2, <3>4
  <2> HIDE DEF upto
  <2>2. /\ Cardinality(upto(m)) <= Cardinality(upto(n))
        /\ Cardinality(upto(m)) # Cardinality(upto(n))
    BY <1>2, <2>1, FS_Subset
  <2>3. rank[m] = Cardinality(upto(m)) /\ rank[n] = Cardinality(upto(n)) /\ rank[m] \in Nat
        /\ rank[n] \in Nat
    BY <1>1, <1>2
  <2> QED
    BY <2>2, <2>3
<1>4. \A n, m \in S : rank[m] = rank[n] => m = n
  <2> SUFFICES ASSUME NEW n \in S, NEW m \in S, rank[m] = rank[n]
               PROVE  m = n
    OBVIOUS
  <2>1. rank[n] \in Nat /\ ~(rank[n] < rank[n])
    BY <1>1, <1>2
  <2> HIDE DEF rank
  <2>2. ~(m < n) /\ ~(n < m)
    BY <1>3, <2>1
  <2> QED
    BY <2>2
<1>5. rank \in [S -> 1..Cardinality(S)]
  BY <1>2
<1>6. IsFiniteSet(1..Cardinality(S)) /\ Cardinality(1..Cardinality(S)) = Cardinality(S)
  BY <1>1, FS_Interval
<1> HIDE DEF rank
<1>7. rank \in Injection(S, 1..Cardinality(S))
  BY <1>4, <1>5, Fun_IsInj
<1>8. rank \in Surjection(S, 1..Cardinality(S))
  BY <1>6, <1>7, FS_Injection
<1>9. \A k \in 1..Cardinality(S) : \E n \in S : rank[n] = k
  BY <1>8, Fun_SurjectionProperties
<1>10. \A n \in S : rank[n] = Cardinality({m \in S : m <= n})
  BY <1>2
<1>11. ASSUME NEW n \in S
       PROVE  rank[n] \in 1..Cardinality(S) /\ Nth(S, rank[n]) = n
  <2>1. \A k \in S : Cardinality({m \in S : m <= k}) = rank[n] <=> k = n
    BY <1>4, <1>10
  <2> QED
    BY <1>5, <2>1 DEF Nth
<1>12. ASSUME NEW k \in 1..Cardinality(S)
       PROVE  Nth(S, k) \in S /\ Cardinality({m \in S : m <= Nth(S, k)}) = k
  <2>1. PICK n \in S : rank[n] = k
    BY <1>9
  <2> QED
    BY <1>10, <1>11, <2>1
<1> QED
  BY <1>1, <1>11, <1>12

\* removeEntries keeps exactly the entries that are not in the batch.
LEMMA Removed ==
    ASSUME NEW S, NEW s \in Seq(S), NEW b
    PROVE  /\ RemoveEntries(s, b) \in Seq(S)
           /\ SeqRange(RemoveEntries(s, b)) = SeqRange(s) \ SeqRange(b)
<1> DEFINE kept == {n \in DOMAIN s : s[n] \notin SeqRange(b)}
           c == Cardinality(kept)
           r == [k \in 1..c |-> s[Nth(kept, k)]]
<1>1. DOMAIN s = 1..Len(s) /\ Len(s) \in Nat
  BY LenProperties
<1>2. kept \subseteq Nat /\ IsFiniteSet(kept)
  <2>1. IsFiniteSet(1..Len(s)) /\ kept \in SUBSET (1..Len(s))
    BY <1>1, FS_Interval
  <2> QED
    BY <1>1, <2>1, FS_Subset
<1>3. RemoveEntries(s, b) = r
  BY DEF RemoveEntries
<1>4. kept \subseteq DOMAIN s /\ \A n \in kept : s[n] \in S /\ s[n] \notin SeqRange(b)
  BY <1>1, ElementOfSeq
<1>5. SeqRange(s) \ SeqRange(b) = {s[n] : n \in kept}
  BY DEF SeqRange
<1> HIDE DEF kept
<1>6. /\ c \in Nat
      /\ \A k \in 1..c : Nth(kept, k) \in kept
      /\ \A n \in kept : \E k \in 1..c : Nth(kept, k) = n
  BY <1>2, Ranking
<1> HIDE DEF c
<1>7. r \in [1..c -> S]
  BY <1>4, <1>6
<1>8. r \in Seq(S)
  BY <1>6, <1>7, IsASeq
<1>9. SeqRange(r) = {s[Nth(kept, k)] : k \in 1..c}
  BY DEF SeqRange
<1>10. SeqRange(r) = {s[n] : n \in kept}
  BY <1>6, <1>9
<1> QED
  BY <1>3, <1>5, <1>8, <1>10

\* The last entry of a document in a batch is an entry of it, and later than
\* any other.
LEMMA LastEntry ==
    ASSUME NEW b \in Seq(Entries), NEW d, \E n \in DOMAIN b : b[n].doc = d
    PROVE  \E n \in DOMAIN b : /\ LastOf(b, d) = b[n] /\ b[n].doc = d
                               /\ \A m \in DOMAIN b : b[m].doc = d => m <= n
<1> DEFINE at == {n \in DOMAIN b : b[n].doc = d}
<1>1. DOMAIN b = 1..Len(b) /\ Len(b) \in Nat
  BY LenProperties
<1>2. at \subseteq Nat /\ at # {} /\ IsFiniteSet(at)
  <2>1. IsFiniteSet(1..Len(b)) /\ at \in SUBSET (1..Len(b))
    BY <1>1, FS_Interval
  <2> QED
    BY <1>1, <2>1, FS_Subset
<1>3. \E n \in at : \A m \in at : m <= n
  <2> HIDE DEF at
  <2>1. Cardinality(at) \in Nat \ {0}
    BY <1>2, FS_CardinalityType, FS_EmptySet
  <2>2. PICK n \in at : Cardinality({m \in at : m <= n}) = Cardinality(at)
    <3>1. Cardinality(at) \in 1..Cardinality(at)
      BY <2>1
    <3> QED
      BY <1>2, <3>1, Ranking
  <2>3. {m \in at : m <= n} \in SUBSET at
    OBVIOUS
  <2>4. {m \in at : m <= n} = at
    BY <1>2, <2>2, <2>3, FS_Subset
  <2> QED
    BY <2>4
<1> QED
  BY <1>3 DEF LastOf

-----------------------------------------------------------------------------
(* Types.                                                                  *)

\* The bounds.
LEMMA Bounds == MaxParses \in Nat /\ MaxFaults \in Nat /\ BatchSize \in Nat
  BY KnowledgeCompileAssumption

\* No products are a possible value.
LEMMA NoProducts ==
    /\ 0 \in Parses
    /\ NoneOf \in [Docs -> Parses]
<1>1. 0 \in Parses
  BY Bounds DEF Parses
<1> QED
  BY <1>1 DEF NoneOf

\* An event is an entry.
LEMMA EntryOf ==
    ASSUME NEW d \in Docs, NEW t \in {"completed", "deleted"}
    PROVE  EventOf(d, t) \in Entries
  BY DEF EventOf, Entries

\* What a claim does with the entries of the row it finds.
LEMMA ClaimParts ==
    ASSUME TypeOK, NEW w \in Workers, NEW bl \in Seq(Entries), NEW fl \in Seq(Entries),
           ClaimRow(w, bl, fl)
    PROVE  /\ backlog' \in Seq(Entries) /\ inflight' \in Seq(Entries)
           /\ batch'[w] \in Seq(Entries)
           /\ batch'[w] \o backlog' = bl
           /\ inflight' = fl \o batch'[w]
           /\ batch' = [batch EXCEPT ![w] = batch'[w]]
           /\ SeqRange(bl) = SeqRange(batch'[w]) \cup SeqRange(backlog')
           /\ SeqRange(inflight') = SeqRange(fl) \cup SeqRange(batch'[w])
           /\ token' = w /\ lease' = "live" /\ state' = "running"
           /\ wpc' = [wpc EXCEPT ![w] = "batch"]
<1> DEFINE n == LesserOf(BatchSize, Len(bl))
           b == SubSeq(bl, 1, n)
           r == SubSeq(bl, n + 1, Len(bl))
<1>1. n \in 0..Len(bl)
  <2>1. Len(bl) \in Nat /\ BatchSize \in Nat
    BY LenProperties, Bounds
  <2> QED
    BY <2>1 DEF LesserOf
<1>2. b \in Seq(Entries) /\ r \in Seq(Entries) /\ b \o r = bl
      /\ SeqRange(bl) = SeqRange(b) \cup SeqRange(r)
  <2> HIDE DEF n
  <2> QED
    BY <1>1, Split
<1>3. /\ backlog' = r /\ inflight' = fl \o b /\ token' = w /\ lease' = "live"
      /\ state' = "running" /\ batch' = [batch EXCEPT ![w] = b]
      /\ wpc' = [wpc EXCEPT ![w] = "batch"]
  BY DEF ClaimRow
<1> HIDE DEF n, b, r
<1>4. batch'[w] = b
  BY <1>3 DEF TypeOK
<1>5. fl \o b \in Seq(Entries) /\ SeqRange(fl \o b) = SeqRange(fl) \cup SeqRange(b)
  BY <1>2, RangeConcat
<1> QED
  BY <1>2, <1>3, <1>4, <1>5

\* Faults stay within their bound.
LEMMA FaultTypes ==
    ASSUME TypeOK, Fault
    PROVE  faults' \in 0..MaxFaults
  BY Bounds DEF TypeOK, Fault

\* The producers keep the types.
LEMMA ProduceTypes ==
    ASSUME TypeOK, NEW d \in Docs, Produce(d)
    PROVE  TypeOK'
<1> USE DEF Parses
<1>0. /\ EventOf(d, "completed") \in Entries /\ EventOf(d, "deleted") \in Entries
      /\ Append(backlog, EventOf(d, "completed")) \in Seq(Entries)
      /\ Append(backlog, EventOf(d, "deleted")) \in Seq(Entries)
  BY EntryOf, RangeAppended DEF TypeOK
<1>1. CASE StartParse(d)
  BY <1>1, Bounds DEF StartParse, TypeOK, rowVars, mergeVars, workVars
<1>2. CASE WriteProducts(d)
  BY <1>2 DEF WriteProducts, TypeOK, rowVars, mergeVars, workVars
<1>3. CASE DeleteDocument(d)
  BY <1>3, Bounds DEF DeleteDocument, TypeOK, rowVars, mergeVars, workVars
<1>4. CASE PublishCompleted(d)
  <2>1. CASE Publish(d, "completed") /\ UNCHANGED faults
    BY <1>0, <1>4, <2>1 DEF PublishCompleted, Publish, TypeOK, mergeVars, workVars
  <2>2. CASE UNCHANGED rowVars /\ Fault
    BY <1>4, <2>2, FaultTypes DEF PublishCompleted, TypeOK, rowVars, mergeVars, workVars
  <2> QED
    BY <1>4, <2>1, <2>2 DEF PublishCompleted
<1>5. CASE PublishDeleted(d)
  <2>1. CASE Publish(d, "deleted") /\ UNCHANGED faults
    BY <1>0, <1>5, <2>1 DEF PublishDeleted, Publish, TypeOK, mergeVars, workVars
  <2>2. CASE UNCHANGED rowVars /\ Fault
    BY <1>5, <2>2, FaultTypes DEF PublishDeleted, TypeOK, rowVars, mergeVars, workVars
  <2>3. CASE UNCHANGED rowVars /\ UNCHANGED faults
    BY <1>5, <2>3 DEF PublishDeleted, TypeOK, rowVars, mergeVars, workVars
  <2> QED
    BY <1>5, <2>1, <2>2, <2>3 DEF PublishDeleted
<1> QED
  BY <1>1, <1>2, <1>3, <1>4, <1>5 DEF Produce

\* Rows are functions on some of the keys.
LEMMA TableOf ==
    ASSUME NEW t
    PROVE  t \in Tables <=> /\ t = [k \in DOMAIN t |-> t[k]]
                            /\ DOMAIN t \subseteq Keys
                            /\ \A k \in DOMAIN t : t[k] \subseteq Docs
<1>1. ASSUME t \in Tables
      PROVE  /\ t = [k \in DOMAIN t |-> t[k]] /\ DOMAIN t \subseteq Keys
             /\ \A k \in DOMAIN t : t[k] \subseteq Docs
  <2>1. PICK K \in SUBSET Keys : t \in [K -> SUBSET Docs]
    BY <1>1 DEF Tables
  <2> QED
    BY <2>1
<1>2. ASSUME t = [k \in DOMAIN t |-> t[k]], DOMAIN t \subseteq Keys,
             \A k \in DOMAIN t : t[k] \subseteq Docs
      PROVE  t \in Tables
  <2>1. t \in [DOMAIN t -> SUBSET Docs]
    BY <1>2
  <2> QED
    BY <1>2, <2>1 DEF Tables
<1> QED
  BY <1>1, <1>2

\* No rows are rows.
LEMMA NoRowsTable == NoRows \in Tables /\ DOMAIN NoRows = {}
<1>1. DOMAIN NoRows = {} /\ NoRows = [k \in DOMAIN NoRows |-> NoRows[k]]
  BY DEF NoRows
<1> QED
  BY <1>1, TableOf

\* What a strip leaves: rows that name none of the documents, unless they are
\* not looked at.
LEMMA StrippedRows ==
    ASSUME TypeOK, NEW S, NEW K
    PROVE  /\ Stripped(S, K) \in Tables
           /\ DOMAIN Stripped(S, K) \subseteq DOMAIN rows
           /\ \A k \in DOMAIN Stripped(S, K) :
                 /\ Stripped(S, K)[k] \subseteq rows[k]
                 /\ k \in K => Stripped(S, K)[k] \cap S = {}
           /\ \A k \in DOMAIN rows \ DOMAIN Stripped(S, K) :
                 rows[k] # {} /\ rows[k] \subseteq S
<1> DEFINE hit == {k \in K \cap DOMAIN rows : rows[k] \cap S # {}}
           emptied == {k \in hit : rows[k] \subseteq S}
           t == [k \in DOMAIN rows \ emptied |-> IF k \in hit THEN rows[k] \ S ELSE rows[k]]
<1>0. Stripped(S, K) = t
  BY DEF Stripped
<1>1. DOMAIN rows \subseteq Keys /\ \A k \in DOMAIN rows : rows[k] \subseteq Docs
  BY TableOf DEF TypeOK
<1>2. /\ DOMAIN t = DOMAIN rows \ emptied
      /\ \A k \in DOMAIN t : t[k] = IF k \in hit THEN rows[k] \ S ELSE rows[k]
      /\ t = [k \in DOMAIN t |-> t[k]]
  OBVIOUS
<1>3. \A k \in DOMAIN rows : k \in K /\ k \notin hit => rows[k] \cap S = {}
  OBVIOUS
<1>4. \A k \in emptied : rows[k] # {} /\ rows[k] \subseteq S
  OBVIOUS
<1> HIDE DEF hit, emptied, t
<1>5. t \in Tables
  BY <1>1, <1>2, TableOf
<1> QED
  BY <1>0, <1>2, <1>3, <1>4, <1>5

\* What a write leaves: rows of the worker and rows that were there, all of
\* them if none was deleted first.
LEMMA UpsertedRows ==
    ASSUME TypeOK, NEW w \in Workers, NEW S, NEW R
    PROVE  /\ Upserted(w, S, R) \in Tables
           /\ \A k \in DOMAIN Upserted(w, S, R) :
                 \/ k \in DOMAIN out[w] /\ Upserted(w, S, R)[k] = out[w][k]
                 \/ k \in DOMAIN rows /\ Upserted(w, S, R)[k] = rows[k]
           /\ DOMAIN rows \ R \subseteq DOMAIN Upserted(w, S, R)
<1> DEFINE new == S \cap DOMAIN out[w]
           t == [k \in (DOMAIN rows \ R) \cup new |->
                    IF k \in new THEN out[w][k] ELSE rows[k]]
<1>0. Upserted(w, S, R) = t
  BY DEF Upserted
<1>1. /\ DOMAIN rows \subseteq Keys /\ \A k \in DOMAIN rows : rows[k] \subseteq Docs
      /\ DOMAIN out[w] \subseteq Keys /\ \A k \in DOMAIN out[w] : out[w][k] \subseteq Docs
  <2>1. rows \in Tables /\ out[w] \in Tables
    BY DEF TypeOK
  <2> QED
    BY <2>1, TableOf
<1>2. /\ DOMAIN t = (DOMAIN rows \ R) \cup new
      /\ \A k \in DOMAIN t : t[k] = IF k \in new THEN out[w][k] ELSE rows[k]
      /\ t = [k \in DOMAIN t |-> t[k]]
      /\ new \subseteq DOMAIN out[w]
  OBVIOUS
<1> HIDE DEF new, t
<1>3. t \in Tables
  BY <1>1, <1>2, TableOf
<1> QED
  BY <1>0, <1>2, <1>3

\* What a failed batch leaves of the rows.
LEMMA FailedRows ==
    ASSUME TypeOK, NEW w \in Workers, FailBatch(w)
    PROVE  rows' \in Tables
<1>1. CASE wpc[w] = "strip"
  BY <1>1, StrippedRows DEF FailBatch
<1>2. CASE wpc[w] = "write"
  BY <1>2, UpsertedRows DEF FailBatch
<1>3. CASE wpc[w] \notin {"strip", "write"}
  <2>1. UNCHANGED rows
    BY <1>3 DEF FailBatch
  <2> QED
    BY <2>1 DEF TypeOK
<1> QED
  BY <1>1, <1>2, <1>3

\* What a successful write remembers.
LEMMA AdvancedTypes ==
    ASSUME TypeOK, NEW w \in Workers
    PROVE  Advanced(w) \in [Procs -> [Docs -> {NoSeq, CallerSeq}]]
<1>1. ProcOf[w] \in Procs /\ seqs \in [Procs -> [Docs -> {NoSeq, CallerSeq}]]
  BY KnowledgeCompileAssumption DEF TypeOK
<1> QED
  BY <1>1 DEF Advanced

\* A worker that drops its batch keeps them.
LEMMA GiveUpTypes ==
    ASSUME TypeOK, NEW w \in Workers, GiveUp(w)
    PROVE  /\ token' \in Tokens
           /\ wpc' \in [Workers -> Busy \cup {"idle", "reclaim", "off"}]
           /\ batch' \in [Workers -> Seq(Entries)]
           /\ del' \in [Workers -> SUBSET Docs]
           /\ comp' \in [Workers -> SUBSET Docs]
           /\ load' \in [Workers -> [Docs -> Parses]]
           /\ out' \in [Workers -> Tables]
<1>1. <<>> \in Seq(Entries)
  BY EmptySeq
<1> QED
  BY <1>1, NoProducts, NoRowsTable DEF GiveUp, TypeOK, Tokens, mergeVars

\* The workers keep the types.
LEMMA WorkTypes ==
    ASSUME TypeOK, NEW w \in Workers, Work(w)
    PROVE  TypeOK'
<1>1. CASE Claim(w)
  <2>1. backlog \in Seq(Entries) /\ inflight \in Seq(Entries)
    BY DEF TypeOK
  <2>2. ClaimRow(w, backlog, inflight)
    BY <1>1 DEF Claim
  <2> QED
    BY <1>1, <2>1, <2>2, ClaimParts DEF Claim, TypeOK, Tokens, docVars, mergeVars, Busy
<1>2. CASE Reclaim(w)
  <2>1. /\ backlog \o inflight \in Seq(Entries)
        /\ <<>> \in Seq(Entries)
    BY RangeConcat, EmptySeq DEF TypeOK
  <2>2. CASE ClaimRow(w, backlog \o inflight, <<>>)
    BY <1>2, <2>1, <2>2, ClaimParts DEF Reclaim, TypeOK, Tokens, docVars, mergeVars, Busy
  <2>3. CASE wpc' = [wpc EXCEPT ![w] = "idle"] /\ UNCHANGED <<rowVars, batch>>
    BY <1>2, <2>3 DEF Reclaim, TypeOK, rowVars, docVars, mergeVars
  <2> QED
    BY <1>2, <2>2, <2>3 DEF Reclaim
<1>3. CASE TouchClaim(w)
  BY <1>3 DEF TouchClaim, TypeOK, docVars, mergeVars, workVars
<1>4. CASE FailBatch(w)
  <2>1. /\ Fault /\ GiveUp(w)
        /\ UNCHANGED <<backlog, inflight, lease, state, docVars, doc, written,
                       seqs>>
    BY <1>4 DEF FailBatch
  <2> QED
    BY <1>4, <2>1, FailedRows, GiveUpTypes, FaultTypes DEF TypeOK, docVars, mergeVars
<1>5. CASE NoAck(w)
  <2>1. faults' \in 0..MaxFaults
    BY <1>5, FaultTypes DEF NoAck, TypeOK
  <2> QED
    BY <1>5, <2>1, GiveUpTypes DEF NoAck, TypeOK, docVars, mergeVars
<1>6. CASE Ack(w)
  <2> DEFINE rest == RemoveEntries(inflight, batch[w])
  <2>1. /\ inflight' = rest
        /\ token' = IF rest = <<>> THEN "" ELSE "gone"
        /\ lease' = IF rest = <<>> THEN "none" ELSE lease
        /\ state' = IF backlog # <<>> THEN "pending" ELSE "completed"
        /\ wpc' = [wpc EXCEPT ![w] = "idle"]
        /\ batch' = [batch EXCEPT ![w] = <<>>]
        /\ del' = [del EXCEPT ![w] = {}]
        /\ comp' = [comp EXCEPT ![w] = {}]
        /\ load' = [load EXCEPT ![w] = NoneOf]
        /\ out' = [out EXCEPT ![w] = NoRows]
        /\ UNCHANGED <<backlog, docVars, doc, mergeVars, seqs, faults>>
    BY <1>6 DEF Ack
  <2>2. rest \in Seq(Entries) /\ <<>> \in Seq(Entries)
    BY Removed, EmptySeq DEF TypeOK
  <2> HIDE DEF rest
  <2> QED
    BY <2>1, <2>2, NoProducts, NoRowsTable DEF TypeOK, Tokens, docVars, mergeVars
<1>7. CASE Reconcile(w)
  <2>1. PICK g, c : /\ g \subseteq Docs /\ c \subseteq Docs
                    /\ del' = [del EXCEPT ![w] = g] /\ comp' = [comp EXCEPT ![w] = c]
                    /\ wpc' = [wpc EXCEPT ![w] = IF g # {} THEN "purge"
                                     ELSE IF c # {} THEN "load" ELSE "ack"]
    BY <1>7 DEF Reconcile, WonBy
  <2> QED
    BY <1>7, <2>1 DEF Reconcile, TypeOK, rowVars, docVars, mergeVars, Busy
<1>8. CASE DeleteDocLevelForDocs(w)
  BY <1>8, NoProducts DEF DeleteDocLevelForDocs, TypeOK, rowVars, docVars, mergeVars, Busy
<1>9. CASE StripMergedSources(w)
  <2>1. rows' \in Tables
    BY <1>9, StrippedRows DEF StripMergedSources
  <2> QED
    BY <1>9, <2>1 DEF StripMergedSources, TypeOK, rowVars, docVars, mergeVars, Busy
<1>10. CASE LoadDocProducts(w)
  BY <1>10, NoProducts DEF LoadDocProducts, TypeOK, rowVars, docVars, mergeVars, Busy
<1>11. CASE SearchSimilar(w)
  <2>1. PICK o \in Tables : out' = [out EXCEPT ![w] = o]
    BY <1>11 DEF SearchSimilar
  <2>2. /\ wpc' = [wpc EXCEPT ![w] = "write"]
        /\ UNCHANGED <<rowVars, docVars, doc, mergeVars, seqs, batch, del, comp, load, faults>>
    BY <1>11 DEF SearchSimilar
  <2> QED
    BY <2>1, <2>2 DEF TypeOK, rowVars, docVars, mergeVars, Busy
<1>12. CASE WriteMerged(w)
  <2>1. rows' \in Tables
    BY <1>12, UpsertedRows DEF WriteMerged
  <2>2. written' \in [Docs -> Parses]
    BY <1>12 DEF WriteMerged, TypeOK
  <2>3. seqs' \in [Procs -> [Docs -> {NoSeq, CallerSeq}]]
    BY <1>12, AdvancedTypes DEF WriteMerged
  <2>4. /\ wpc' = [wpc EXCEPT ![w] = "ack"]
        /\ UNCHANGED <<rowVars, docVars, doc, batch, del, comp, load, out, faults>>
    BY <1>12 DEF WriteMerged
  <2> QED
    BY <2>1, <2>2, <2>3, <2>4 DEF TypeOK, rowVars, docVars, mergeVars, Busy
<1>13. CASE Probe(w) \/ Restart(w)
  BY <1>13 DEF Probe, Restart, TypeOK, rowVars, docVars, mergeVars
<1> QED
  BY <1>1, <1>2, <1>3, <1>4, <1>5, <1>6, <1>7, <1>8, <1>9, <1>10, <1>11, <1>12, <1>13
     DEF Work, Process

\* A crash keeps the types.
LEMMA CrashTypes ==
    ASSUME TypeOK, NEW p \in Procs, Crash(p)
    PROVE  TypeOK'
<1>1. <<>> \in Seq(Entries) /\ NoneOf \in [Docs -> Parses] /\ NoRows \in Tables
  BY EmptySeq, NoProducts, NoRowsTable
<1> QED
  BY <1>1, FaultTypes DEF Crash, TypeOK, Tokens, docVars, mergeVars

\* Every step keeps the types.
LEMMA StepTypes ==
    ASSUME TypeOK, [Next]_vars
    PROVE  TypeOK'
<1>1. CASE ExpireLease \/ MissHeartbeats
  BY <1>1, FaultTypes DEF ExpireLease, MissHeartbeats, TypeOK, docVars, mergeVars, workVars
<1>2. CASE UNCHANGED vars
  BY <1>2 DEF vars, rowVars, docVars, mergeVars, workVars, TypeOK
<1> QED
  BY <1>1, <1>2, ProduceTypes, WorkTypes, CrashTypes DEF Next, Done

\* The initial state has them.
LEMMA InitTypes ==
    ASSUME Init
    PROVE  TypeOK
<1>1. <<>> \in Seq(Entries) /\ NoneOf \in [Docs -> Parses] /\ NoRows \in Tables
  BY EmptySeq, NoProducts, NoRowsTable
<1>2. 0 \in 0..MaxFaults
  BY Bounds
<1> QED
  BY <1>1, <1>2 DEF Init, TypeOK, Tokens, mergeVars

\* Every variable of the compiler keeps its type, the lists of the row included.
THEOREM CompileTypes == Spec => []TypeOK
  BY InitTypes, StepTypes, PTL DEF Spec

-----------------------------------------------------------------------------
(* No product is newer than the last parse of its document.                *)

\* Products are numbers.
LEMMA ParseNumbers ==
    ASSUME TypeOK, NEW d \in Docs
    PROVE  /\ ver[d] \in Nat /\ doc[d] \in Nat /\ written[d] \in Nat
           /\ \A w \in Workers : load[w][d] \in Nat
<1>1. Parses \subseteq Nat
  BY Bounds DEF Parses
<1> QED
  BY <1>1 DEF TypeOK

\* What the producers do to the numbers.
LEMMA ProduceBounded ==
    ASSUME TypeOK, Bounded, NEW d \in Docs, Produce(d)
    PROVE  Bounded'
<1>1. UNCHANGED <<written, load>>
  BY DEF Produce, StartParse, WriteProducts, PublishCompleted, DeleteDocument,
         PublishDeleted, mergeVars, workVars
<1>2. ASSUME NEW c \in Docs
      PROVE  ver[c] <= ver'[c] /\ ver'[c] \in Nat /\ doc'[c] <= ver'[c]
  <2>0. ver[c] \in Nat /\ doc[c] \in Nat /\ doc[c] <= ver[c]
    BY ParseNumbers DEF Bounded
  <2>1. CASE StartParse(d)
    BY <2>0, <2>1 DEF StartParse, TypeOK
  <2>2. CASE WriteProducts(d)
    BY <2>0, <2>2 DEF WriteProducts, TypeOK
  <2>3. CASE DeleteDocument(d)
    BY <2>0, <2>3 DEF DeleteDocument, TypeOK
  <2>4. CASE PublishCompleted(d) \/ PublishDeleted(d)
    BY <2>0, <2>4 DEF PublishCompleted, PublishDeleted
  <2> QED
    BY <2>1, <2>2, <2>3, <2>4 DEF Produce
<1>3. ASSUME NEW c \in Docs, NEW x, x \in Nat, x <= ver[c]
      PROVE  x <= ver'[c]
  BY <1>2, <1>3, ParseNumbers
<1> QED
  BY <1>1, <1>2, <1>3, ParseNumbers DEF Bounded

\* Locals of a worker that are those of before or nothing.
LEMMA ForgottenBounded ==
    ASSUME TypeOK, Bounded, UNCHANGED ver,
           \A d \in Docs : doc'[d] <= ver[d] /\ written'[d] <= ver[d],
           \A w \in Workers : load'[w] = load[w] \/ load'[w] = NoneOf
    PROVE  Bounded'
<1>1. \A d \in Docs : 0 <= ver[d] /\ NoneOf[d] = 0
  BY ParseNumbers DEF NoneOf
<1> QED
  BY <1>1 DEF Bounded

\* The workers write no product newer than its document.
LEMMA WorkBounded ==
    ASSUME TypeOK, Bounded, NEW w \in Workers, Work(w)
    PROVE  Bounded'
<1>0. \A d \in Docs : doc[d] <= ver[d] /\ written[d] <= ver[d] /\ 0 <= ver[d]
  BY ParseNumbers DEF Bounded
<1>1. CASE \/ Claim(w) \/ Probe(w) \/ Reclaim(w) \/ TouchClaim(w) \/ Reconcile(w)
           \/ StripMergedSources(w) \/ SearchSimilar(w) \/ Restart(w)
  BY <1>1 DEF Claim, Probe, Reclaim, TouchClaim, Reconcile, StripMergedSources,
              SearchSimilar, Restart, Bounded, docVars, mergeVars, workVars
<1>2. CASE DeleteDocLevelForDocs(w)
  BY <1>0, <1>2, ForgottenBounded DEF DeleteDocLevelForDocs, docVars, mergeVars
<1>3. CASE LoadDocProducts(w)
  BY <1>0, <1>3 DEF LoadDocProducts, docVars, mergeVars, Bounded, TypeOK
<1>4. CASE WriteMerged(w)
  <2>1. \A d \in Docs : written'[d] <= ver[d]
    BY <1>0, <1>4 DEF WriteMerged, Bounded
  <2> QED
    BY <1>0, <1>4, <2>1, ForgottenBounded DEF WriteMerged, docVars
<1>5. CASE FailBatch(w) \/ Ack(w) \/ NoAck(w)
  <2>1. \A v \in Workers : load'[v] = load[v] \/ load'[v] = NoneOf
    BY <1>5 DEF FailBatch, Ack, NoAck, GiveUp, TypeOK
  <2>2. UNCHANGED <<ver, doc, written>>
    BY <1>5 DEF FailBatch, Ack, NoAck, docVars, mergeVars
  <2> QED
    BY <1>0, <2>1, <2>2, ForgottenBounded
<1> QED
  BY <1>1, <1>2, <1>3, <1>4, <1>5 DEF Work, Process

\* No step does.
LEMMA StepBounded ==
    ASSUME TypeOK, Bounded, [Next]_vars
    PROVE  Bounded'
<1>1. CASE \E p \in Procs : Crash(p)
  BY <1>1, ForgottenBounded DEF Crash, docVars, mergeVars, Bounded
<1>2. CASE ExpireLease \/ MissHeartbeats \/ UNCHANGED vars
  BY <1>2 DEF ExpireLease, MissHeartbeats, vars, docVars, mergeVars, workVars, Bounded
<1> QED
  BY <1>1, <1>2, ProduceBounded, WorkBounded DEF Next, Done

-----------------------------------------------------------------------------
(* Entries only come from the producers.                                   *)

\* The entries on the row.
Row == SeqRange(backlog) \cup SeqRange(inflight)

\* A step that is not one of a producer.
Serve ==
    \/ \E w \in Workers : Work(w)
    \/ \E p \in Procs : Crash(p)
    \/ ExpireLease \/ MissHeartbeats

\* An empty list has no entries.
LEMMA NothingInEmpty == SeqRange(<<>>) = {}
  BY DEF SeqRange

\* What the worker of a step does to the row and to the batches.
LEMMA ServeEntries ==
    ASSUME TypeOK, Serve
    PROVE  /\ Row' \subseteq Row
           /\ \/ Row' = Row
              \/ \E w \in Workers : wpc[w] = "ack" /\ Row \ SeqRange(batch[w]) \subseteq Row'
           /\ \A v \in Workers : \/ SeqRange(batch'[v]) \subseteq SeqRange(batch[v])
                                 \/ SeqRange(batch'[v]) \subseteq Row
<1>0. backlog \in Seq(Entries) /\ inflight \in Seq(Entries) /\ <<>> \in Seq(Entries)
  BY EmptySeq DEF TypeOK
<1>1. ASSUME NEW w \in Workers, Claim(w)
      PROVE  /\ Row' = Row
             /\ \A v \in Workers : \/ batch'[v] = batch[v]
                                   \/ SeqRange(batch'[v]) \subseteq Row
  <2>1. ClaimRow(w, backlog, inflight)
    BY <1>1 DEF Claim
  <2> QED
    BY <1>0, <2>1, ClaimParts DEF Row, TypeOK
<1>2. ASSUME NEW w \in Workers, Reclaim(w)
      PROVE  /\ Row' = Row
             /\ \A v \in Workers : \/ batch'[v] = batch[v]
                                   \/ SeqRange(batch'[v]) \subseteq Row
  <2>1. CASE ClaimRow(w, backlog \o inflight, <<>>)
    <3> DEFINE all == backlog \o inflight
    <3>1. all \in Seq(Entries) /\ SeqRange(all) = Row
      BY <1>0, RangeConcat DEF Row
    <3>2. ClaimRow(w, all, <<>>)
      BY <2>1
    <3> HIDE DEF all
    <3>3. /\ SeqRange(all) = SeqRange(batch'[w]) \cup SeqRange(backlog')
          /\ SeqRange(inflight') = SeqRange(<<>>) \cup SeqRange(batch'[w])
          /\ batch' = [batch EXCEPT ![w] = batch'[w]]
      BY <1>0, <3>1, <3>2, ClaimParts
    <3>4. Row' = SeqRange(backlog') \cup SeqRange(inflight')
      BY DEF Row
    <3> QED
      BY <3>1, <3>3, <3>4, NothingInEmpty DEF TypeOK
  <2>2. CASE UNCHANGED <<rowVars, batch>>
    BY <2>2 DEF Row, rowVars
  <2> QED
    BY <1>2, <2>1, <2>2 DEF Reclaim
<1>3. ASSUME NEW w \in Workers, Ack(w)
      PROVE  /\ Row' \subseteq Row
             /\ wpc[w] = "ack" /\ Row \ SeqRange(batch[w]) \subseteq Row'
             /\ \A v \in Workers : SeqRange(batch'[v]) \subseteq SeqRange(batch[v])
  <2>1. SeqRange(RemoveEntries(inflight, batch[w])) = SeqRange(inflight) \ SeqRange(batch[w])
    BY <1>0, Removed
  <2>2. /\ inflight' = RemoveEntries(inflight, batch[w]) /\ backlog' = backlog
        /\ batch' = [batch EXCEPT ![w] = <<>>] /\ wpc[w] = "ack"
    BY <1>3 DEF Ack
  <2> QED
    BY <2>1, <2>2, NothingInEmpty DEF Row, TypeOK
<1>4. ASSUME NEW w \in Workers, FailBatch(w) \/ NoAck(w)
      PROVE  /\ Row' = Row
             /\ \A v \in Workers : SeqRange(batch'[v]) \subseteq SeqRange(batch[v])
  <2>1. /\ UNCHANGED <<backlog, inflight>>
        /\ batch' = [batch EXCEPT ![w] = <<>>]
    BY <1>4 DEF FailBatch, NoAck, GiveUp
  <2> QED
    BY <2>1, NothingInEmpty DEF Row, TypeOK
<1>5. ASSUME NEW w \in Workers,
             \/ Probe(w) \/ TouchClaim(w) \/ Reconcile(w) \/ DeleteDocLevelForDocs(w)
             \/ StripMergedSources(w) \/ LoadDocProducts(w) \/ SearchSimilar(w)
             \/ WriteMerged(w) \/ Restart(w)
      PROVE  UNCHANGED <<backlog, inflight, batch>>
  BY <1>5 DEF Probe, TouchClaim, Reconcile, DeleteDocLevelForDocs, StripMergedSources,
              LoadDocProducts, SearchSimilar, WriteMerged, Restart, rowVars, workVars
<1>6. ASSUME NEW p \in Procs, Crash(p)
      PROVE  /\ UNCHANGED <<backlog, inflight>>
             /\ \A v \in Workers : SeqRange(batch'[v]) \subseteq SeqRange(batch[v])
  BY <1>6, NothingInEmpty DEF Crash
<1>7. ASSUME ExpireLease \/ MissHeartbeats
      PROVE  UNCHANGED <<backlog, inflight, batch>>
  BY <1>7 DEF ExpireLease, MissHeartbeats, workVars
<1>8. ASSUME UNCHANGED <<backlog, inflight>>
      PROVE  Row' = Row
  BY <1>8 DEF Row
<1>9. ASSUME NEW w \in Workers, Work(w)
      PROVE  /\ Row' \subseteq Row
             /\ \/ Row' = Row
                \/ wpc[w] = "ack" /\ Row \ SeqRange(batch[w]) \subseteq Row'
             /\ \A v \in Workers : \/ SeqRange(batch'[v]) \subseteq SeqRange(batch[v])
                                   \/ SeqRange(batch'[v]) \subseteq Row
  BY <1>1, <1>2, <1>3, <1>4, <1>5, <1>8, <1>9 DEF Work, Process
<1> QED
  BY <1>6, <1>7, <1>8, <1>9 DEF Serve

\* No entry comes into being.
LEMMA ServeExists ==
    ASSUME TypeOK, Serve, NEW e, Exists(e)'
    PROVE  Exists(e)
  BY ServeEntries DEF Exists, Has, Row

\* Only producers change the documents.
LEMMA ServeDocs ==
    ASSUME Serve
    PROVE  UNCHANGED docVars
  BY DEF Serve, Work, Process, Crash, ExpireLease, MissHeartbeats, Claim, Probe, Reclaim,
         TouchClaim, Reconcile, DeleteDocLevelForDocs, StripMergedSources, LoadDocProducts,
         SearchSimilar, WriteMerged, FailBatch, Ack, NoAck, Restart

-----------------------------------------------------------------------------
(* What a producer's step leaves alone.                                    *)

\* Producers change neither the merged products nor a worker.
LEMMA ProduceFrame ==
    ASSUME NEW d \in Docs, Produce(d)
    PROVE  UNCHANGED <<mergeVars, seqs, workVars>>
  BY DEF Produce, StartParse, WriteProducts, PublishCompleted, DeleteDocument, PublishDeleted

\* The entries after a producer's step: there may be one more.
LEMMA ProduceEntries ==
    ASSUME TypeOK, NEW d \in Docs, Produce(d)
    PROVE  \/ Row' = Row
           \/ /\ PublishCompleted(d) /\ parse'[d] = "idle"
              /\ Row' = Row \cup {EventOf(d, "completed")}
           \/ /\ PublishDeleted(d) /\ life'[d] = "deleted"
              /\ Row' = Row \cup {EventOf(d, "deleted")}
<1>1. ASSUME NEW t \in {"completed", "deleted"}, Publish(d, t)
      PROVE  Row' = Row \cup {EventOf(d, t)}
  <2>1. SeqRange(Append(backlog, EventOf(d, t))) = SeqRange(backlog) \cup {EventOf(d, t)}
    BY EntryOf, RangeAppended DEF TypeOK
  <2> QED
    BY <1>1, <2>1 DEF Publish, Row
<1>2. ASSUME UNCHANGED rowVars
      PROVE  Row' = Row
  BY <1>2 DEF Row, rowVars
<1>3. CASE StartParse(d) \/ WriteProducts(d) \/ DeleteDocument(d)
  BY <1>2, <1>3 DEF StartParse, WriteProducts, DeleteDocument
<1>4. CASE PublishCompleted(d)
  BY <1>1, <1>2, <1>4 DEF PublishCompleted, TypeOK
<1>5. CASE PublishDeleted(d)
  BY <1>1, <1>2, <1>5 DEF PublishDeleted, TypeOK
<1> QED
  BY <1>3, <1>4, <1>5 DEF Produce

\* The one entry a producer may add.
LEMMA ProduceExists ==
    ASSUME TypeOK, NEW d \in Docs, Produce(d), NEW e, Exists(e)'
    PROVE  \/ Exists(e)
           \/ PublishCompleted(d) /\ parse'[d] = "idle" /\ e = EventOf(d, "completed")
           \/ PublishDeleted(d) /\ life'[d] = "deleted" /\ e = EventOf(d, "deleted")
<1>1. UNCHANGED batch
  BY ProduceFrame DEF workVars
<1>2. Exists(e) <=> e \in Row \/ \E w \in Workers : e \in SeqRange(batch[w])
  BY DEF Exists, Row, Has
<1>3. Exists(e)' <=> e \in Row' \/ \E w \in Workers : e \in SeqRange(batch'[w])
  BY DEF Exists, Row, Has
<1> QED
  BY <1>1, <1>2, <1>3, ProduceEntries

\* Events differ in document and type.
LEMMA DistinctEvents ==
    ASSUME NEW c, NEW d
    PROVE  /\ EventOf(c, "completed") # EventOf(d, "deleted")
           /\ \A t : EventOf(c, t) = EventOf(d, t) => c = d
<1>1. \A t : EventOf(c, t).type = t /\ EventOf(d, t).type = t
             /\ EventOf(c, t).doc = c /\ EventOf(d, t).doc = d
  BY DEF EventOf
<1> QED
  BY <1>1

\* Documents other than that of the step.
LEMMA ProduceOthers ==
    ASSUME TypeOK, NEW d \in Docs, Produce(d), NEW c \in Docs, c # d
    PROVE  /\ parse'[c] = parse[c] /\ life'[c] = life[c] /\ ver'[c] = ver[c]
           /\ doc'[c] = doc[c]
           /\ \A t : Exists(EventOf(c, t))' => Exists(EventOf(c, t))
<1>1. parse'[c] = parse[c] /\ life'[c] = life[c] /\ ver'[c] = ver[c] /\ doc'[c] = doc[c]
  BY DEF Produce, StartParse, WriteProducts, PublishCompleted, DeleteDocument,
         PublishDeleted, TypeOK
<1>2. \A t : EventOf(c, t).doc = c
  BY DEF EventOf
<1>3. \A t : EventOf(d, t).doc = d
  BY DEF EventOf
<1>4. ASSUME NEW t, Exists(EventOf(c, t))'
      PROVE  Exists(EventOf(c, t))
  <2>1. EventOf(c, t) # EventOf(d, "completed") /\ EventOf(c, t) # EventOf(d, "deleted")
    BY <1>2, <1>3
  <2> QED
    BY <1>4, <2>1, ProduceExists
<1> QED
  BY <1>1, <1>4

\* A deletion is announced only of a document deleted for good.
LEMMA StepLifecycle ==
    ASSUME TypeOK, Lifecycle, [Next]_vars
    PROVE  Lifecycle'
<1>1. ASSUME NEW d \in Docs, Produce(d)
      PROVE  Lifecycle'
  <2>1. ASSUME NEW c \in Docs, c # d
        PROVE  /\ parse'[c] # "idle" => ver'[c] > 0
               /\ life'[c] # "alive" => parse'[c] \in {"idle", "lost"}
               /\ Exists(EventOf(c, "deleted"))' => life'[c] = "deleted"
    BY <1>1, <2>1, ProduceOthers DEF Lifecycle
  <2>2. /\ parse[d] # "idle" => ver[d] > 0
        /\ life[d] # "alive" => parse[d] \in {"idle", "lost"}
        /\ Exists(EventOf(d, "deleted")) => life[d] = "deleted"
        /\ ver[d] \in Nat
    BY ParseNumbers DEF Lifecycle
  <2>3. /\ parse'[d] # "idle" => ver'[d] > 0
        /\ life'[d] # "alive" => parse'[d] \in {"idle", "lost"}
    <3>1. CASE StartParse(d)
      BY <2>2, <3>1 DEF StartParse, TypeOK
    <3>2. CASE WriteProducts(d) \/ DeleteDocument(d)
      BY <2>2, <3>2 DEF WriteProducts, DeleteDocument, TypeOK
    <3>3. CASE PublishCompleted(d) \/ PublishDeleted(d)
      BY <2>2, <3>3 DEF PublishCompleted, PublishDeleted, TypeOK
    <3> QED
      BY <1>1, <3>1, <3>2, <3>3 DEF Produce
  <2>4. Exists(EventOf(d, "deleted"))' => life'[d] = "deleted"
    <3>1. Exists(EventOf(d, "deleted"))' => Exists(EventOf(d, "deleted")) \/ life'[d] = "deleted"
      BY <1>1, ProduceExists, DistinctEvents
    <3>2. life[d] = "deleted" => life'[d] = "deleted"
      BY <1>1 DEF Produce, StartParse, WriteProducts, PublishCompleted, DeleteDocument,
                  PublishDeleted, TypeOK
    <3> QED
      BY <2>2, <3>1, <3>2
  <2> QED
    BY <2>1, <2>3, <2>4 DEF Lifecycle
<1>2. CASE Serve
  <2>1. UNCHANGED <<parse, life, ver>>
    BY <1>2, ServeDocs DEF docVars
  <2> QED
    BY <1>2, <2>1, ServeExists DEF Lifecycle
<1>3. CASE UNCHANGED vars
  <2>1. \A e : Exists(e)' <=> Exists(e)
    BY <1>3 DEF vars, rowVars, workVars, Exists, Has
  <2> QED
    BY <1>3, <2>1 DEF vars, docVars, Lifecycle
<1> QED
  BY <1>1, <1>2, <1>3 DEF Next, Serve, Done

-----------------------------------------------------------------------------
(* The locals of the workers.                                              *)

\* A worker that the step does not concern.
Same(v) ==
    /\ wpc'[v] = wpc[v] /\ batch'[v] = batch[v] /\ del'[v] = del[v]
    /\ comp'[v] = comp[v] /\ load'[v] = load[v] /\ out'[v] = out[v]

\* A worker that drops its batch.
Dropped(v) ==
    /\ wpc'[v] \in {"idle", "off"} /\ batch'[v] = <<>> /\ del'[v] = {}
    /\ comp'[v] = {} /\ load'[v] = NoneOf /\ out'[v] = NoRows

\* A worker changes the locals of no other.
LEMMA WorkOthers ==
    ASSUME TypeOK, NEW w \in Workers, Work(w), NEW v \in Workers, v # w
    PROVE  Same(v)
<1>1. CASE Claim(w) \/ Reclaim(w)
  BY <1>1 DEF Claim, Reclaim, ClaimRow, rowVars, Same, TypeOK
<1>2. CASE FailBatch(w) \/ NoAck(w)
  BY <1>2 DEF FailBatch, NoAck, GiveUp, Same, TypeOK
<1>3. CASE Ack(w)
  BY <1>3 DEF Ack, Same, TypeOK
<1>4. CASE Reconcile(w)
  <2>1. PICK g, c, p : /\ del' = [del EXCEPT ![w] = g] /\ comp' = [comp EXCEPT ![w] = c]
                       /\ wpc' = [wpc EXCEPT ![w] = p]
    BY <1>4 DEF Reconcile
  <2> QED
    BY <1>4, <2>1 DEF Reconcile, Same, TypeOK
<1>5. CASE \/ Probe(w) \/ TouchClaim(w) \/ DeleteDocLevelForDocs(w)
           \/ StripMergedSources(w) \/ LoadDocProducts(w) \/ SearchSimilar(w)
           \/ WriteMerged(w) \/ Restart(w)
  BY <1>5 DEF Probe, TouchClaim, DeleteDocLevelForDocs, StripMergedSources,
              LoadDocProducts, SearchSimilar, WriteMerged, Restart, workVars, Same, TypeOK
<1> QED
  BY <1>1, <1>2, <1>3, <1>4, <1>5 DEF Work, Process

\* Ways to end a batch.
LEMMA DroppedBatch ==
    ASSUME TypeOK, NEW w \in Workers, FailBatch(w) \/ Ack(w) \/ NoAck(w)
    PROVE  Dropped(w)
  BY DEF FailBatch, Ack, NoAck, GiveUp, Dropped, TypeOK

\* A crash ends the batches of its process.
LEMMA CrashLocals ==
    ASSUME NEW p \in Procs, Crash(p), NEW v \in Workers
    PROVE  Same(v) \/ Dropped(v)
  BY DEF Crash, Same, Dropped

\* The type an event of a document won with is that of an entry of the batch.
LEMMA WonHas ==
    ASSUME NEW b \in Seq(Entries), NEW t, NEW d \in WonBy(b, t)
    PROVE  EventOf(d, t) \in SeqRange(b)
<1>1. (\E n \in DOMAIN b : b[n].doc = d) /\ LastOf(b, d).type = t
  BY DEF WonBy
<1>2. PICK n \in DOMAIN b : LastOf(b, d) = b[n] /\ b[n].doc = d
  BY <1>1, LastEntry
<1>3. b[n] \in Entries
  BY ElementOfSeq, LenProperties
<1>4. b[n] = EventOf(d, t)
  BY <1>1, <1>2, <1>3 DEF Entries, EventOf
<1> QED
  BY <1>4 DEF SeqRange

\* Every document of a batch is won by one of the types.
LEMMA WonAtAll ==
    ASSUME NEW b \in Seq(Entries), NEW d \in Docs, NEW t, EventOf(d, t) \in SeqRange(b)
    PROVE  d \in WonBy(b, "completed") \cup WonBy(b, "deleted")
<1>1. \E n \in DOMAIN b : b[n].doc = d
  BY DEF SeqRange, EventOf
<1>2. PICK n \in DOMAIN b : LastOf(b, d) = b[n]
  BY <1>1, LastEntry
<1>3. b[n].type \in {"completed", "deleted"}
  <2>1. b[n] \in Entries
    BY ElementOfSeq, LenProperties
  <2> QED
    BY <2>1 DEF Entries
<1> QED
  BY <1>1, <1>2, <1>3 DEF WonBy

\* A worker's own steps.
LEMMA OwnLocals ==
    ASSUME TypeOK, NEW w \in Workers, LocalsOf(w), Work(w)
    PROVE  LocalsOf(w)'
<1>1. CASE Claim(w) \/ Reclaim(w) \/ Probe(w) \/ Restart(w)
  <2>1. /\ del'[w] = {} /\ comp'[w] = {} /\ load'[w] = NoneOf /\ out'[w] = NoRows
        /\ wpc'[w] \in {"batch", "reclaim", "idle"}
    BY <1>1 DEF Claim, Reclaim, Probe, Restart, ClaimRow, LocalsOf, Busy, TypeOK
  <2> QED
    BY <2>1 DEF LocalsOf
<1>2. CASE FailBatch(w) \/ Ack(w) \/ NoAck(w)
  BY <1>2, DroppedBatch DEF Dropped, LocalsOf
<1>3. CASE Reconcile(w)
  <2>1. PICK g, c : /\ g = WonBy(batch[w], "deleted") /\ c \subseteq WonBy(batch[w], "completed")
                    /\ del' = [del EXCEPT ![w] = g] /\ comp' = [comp EXCEPT ![w] = c]
                    /\ wpc' = [wpc EXCEPT ![w] = IF g # {} THEN "purge"
                                     ELSE IF c # {} THEN "load" ELSE "ack"]
                    /\ UNCHANGED <<batch, load, out>>
    BY <1>3 DEF Reconcile
  <2>2. batch[w] \in Seq(Entries)
    BY DEF TypeOK
  <2>3. /\ \A d \in g : EventOf(d, "deleted") \in SeqRange(batch[w])
        /\ \A d \in c : EventOf(d, "completed") \in SeqRange(batch[w])
    BY <2>1, <2>2, WonHas
  <2>4. /\ del'[w] = g /\ comp'[w] = c /\ batch'[w] = batch[w]
        /\ load'[w] = NoneOf /\ out'[w] = NoRows
        /\ wpc'[w] \in {"purge", "load", "ack"}
    BY <1>3, <2>1 DEF Reconcile, LocalsOf, TypeOK
  <2> QED
    BY <2>3, <2>4 DEF LocalsOf, Has, Busy
<1>4. CASE DeleteDocLevelForDocs(w) \/ StripMergedSources(w) \/ LoadDocProducts(w)
  BY <1>4 DEF DeleteDocLevelForDocs, StripMergedSources, LoadDocProducts, LocalsOf, Has,
              Busy, TypeOK
<1>5. CASE SearchSimilar(w) \/ WriteMerged(w) \/ TouchClaim(w)
  BY <1>5 DEF SearchSimilar, WriteMerged, TouchClaim, LocalsOf, Has, Busy, TypeOK, workVars
<1> QED
  BY <1>1, <1>2, <1>3, <1>4, <1>5 DEF Work, Process

\* No leftovers of an earlier batch.
LEMMA StepLocals ==
    ASSUME TypeOK, Locals, [Next]_vars
    PROVE  Locals'
<1> SUFFICES ASSUME NEW v \in Workers
             PROVE  LocalsOf(v)'
  BY DEF Locals
<1>0. LocalsOf(v)
  BY DEF Locals
<1>1. ASSUME Same(v)
      PROVE  LocalsOf(v)'
  BY <1>0, <1>1 DEF LocalsOf, Same, Has
<1>2. ASSUME Dropped(v)
      PROVE  LocalsOf(v)'
  BY <1>2 DEF LocalsOf, Dropped
<1>3. ASSUME NEW w \in Workers, Work(w)
      PROVE  LocalsOf(v)'
  BY <1>0, <1>1, <1>3, OwnLocals, WorkOthers
<1>4. ASSUME UNCHANGED workVars
      PROVE  Same(v)
  BY <1>4 DEF workVars, Same
<1>5. (\E d \in Docs : Produce(d)) => UNCHANGED workVars
  BY ProduceFrame
<1>6. ExpireLease \/ MissHeartbeats \/ UNCHANGED vars => UNCHANGED workVars
  BY DEF ExpireLease, MissHeartbeats, vars
<1> QED
  BY <1>1, <1>2, <1>3, <1>4, <1>5, <1>6, CrashLocals DEF Next, Done

-----------------------------------------------------------------------------
(* The first parse of a document.                                          *)

\* The part of FirstMergeInv that does not speak of merging.
Sound == TypeOK /\ Bounded /\ Lifecycle /\ Locals

\* Nobody deletes a document in its first parse.
LEMMA FirstNotDeleted ==
    ASSUME Sound, NEW d \in Docs, First(d), NEW w \in Workers
    PROVE  ~Has(w, EventOf(d, "deleted")) /\ d \notin del[w]
  BY DEF Sound, Lifecycle, Locals, LocalsOf, Exists, First

\* The only products of a first parse have number 1.
LEMMA FirstNumbers ==
    ASSUME Sound, NEW d \in Docs, First(d), NEW w \in Workers
    PROVE  written[d] \in {0, 1} /\ load[w][d] \in {0, 1}
<1>1. /\ ver[d] \in Nat /\ written[d] \in Nat /\ load[w][d] \in Nat
      /\ written[d] <= ver[d] /\ load[w][d] <= ver[d]
      /\ ver[d] <= 1
  BY ParseNumbers DEF Sound, Bounded, First
<1> QED
  BY <1>1

\* A worker's step keeps the products of a first parse, and that they were
\* written.
LEMMA ServeKeepsFirst ==
    ASSUME Sound, Serve, NEW d \in Docs, First(d)
    PROVE  doc'[d] = doc[d] /\ (written[d] = 1 => written'[d] = 1)
<1>1. ASSUME NEW w \in Workers, Work(w)
      PROVE  doc'[d] = doc[d] /\ (written[d] = 1 => written'[d] = 1)
  <2>1. CASE DeleteDocLevelForDocs(w)
    BY <2>1, FirstNotDeleted DEF DeleteDocLevelForDocs, mergeVars
  <2>2. CASE WriteMerged(w)
    BY <2>2, FirstNumbers DEF WriteMerged
  <2>3. CASE \/ Claim(w) \/ Probe(w) \/ Reclaim(w) \/ TouchClaim(w) \/ Reconcile(w)
             \/ StripMergedSources(w) \/ LoadDocProducts(w) \/ SearchSimilar(w)
             \/ FailBatch(w) \/ Ack(w) \/ NoAck(w) \/ Restart(w)
    BY <2>3 DEF Claim, Probe, Reclaim, TouchClaim, Reconcile, StripMergedSources,
                LoadDocProducts, SearchSimilar, FailBatch, Ack, NoAck, Restart, mergeVars
  <2> QED
    BY <1>1, <2>1, <2>2, <2>3 DEF Work, Process
<1>2. ASSUME (\E p \in Procs : Crash(p)) \/ ExpireLease \/ MissHeartbeats
      PROVE  UNCHANGED <<doc, written>>
  BY <1>2 DEF Crash, ExpireLease, MissHeartbeats, mergeVars
<1> QED
  BY <1>1, <1>2 DEF Serve

\* A worker's own steps with the completion of a first parse in its batch.
LEMMA OwnCarried ==
    ASSUME Sound, FirstParse, NEW w \in Workers, Work(w), NEW d \in Docs, First(d)
    PROVE  Carried(w, d)'
<1>0. /\ TypeOK /\ LocalsOf(w) /\ Carried(w, d)
      /\ written[d] = 1 => written'[d] = 1
  BY ServeKeepsFirst DEF Sound, Locals, FirstParse, Serve
<1>1. CASE Claim(w) \/ Reclaim(w) \/ Probe(w) \/ Restart(w)
  <2>1. wpc'[w] \in {"batch", "reclaim", "idle"}
    BY <1>0, <1>1 DEF Claim, Reclaim, Probe, Restart, ClaimRow, TypeOK
  <2> QED
    BY <2>1 DEF Carried, Busy
<1>2. CASE FailBatch(w) \/ Ack(w) \/ NoAck(w)
  BY <1>0, <1>2, DroppedBatch DEF Dropped, Carried, Busy
<1>3. CASE Reconcile(w)
  <2> DEFINE gone == WonBy(batch[w], "deleted")
             won == WonBy(batch[w], "completed")
             done == {c \in won : ~Stale(ProcOf[w], c)}
             e == EventOf(d, "completed")
  <2>1. /\ comp'[w] = done /\ batch'[w] = batch[w] /\ written' = written
        /\ wpc'[w] \in {"purge", "load", "ack"}
        /\ wpc'[w] = "ack" => done = {}
    <3>1. /\ comp' = [comp EXCEPT ![w] = done]
          /\ wpc' = [wpc EXCEPT ![w] = IF gone # {} THEN "purge"
                                       ELSE IF done # {} THEN "load" ELSE "ack"]
          /\ UNCHANGED <<batch, written>>
      BY <1>3 DEF Reconcile, mergeVars
    <3> HIDE DEF gone, done
    <3> QED
      BY <1>0, <3>1 DEF TypeOK
  <2>2. batch[w] \in Seq(Entries) /\ ProcOf[w] \in Procs
    BY <1>0, KnowledgeCompileAssumption DEF TypeOK
  <2>3. e \in SeqRange(batch[w]) => d \in won
    <3>1. EventOf(d, "deleted") \notin SeqRange(batch[w])
      BY FirstNotDeleted DEF Has
    <3> QED
      BY <2>2, <3>1, WonAtAll, WonHas
  <2>4. Stale(ProcOf[w], d) => written[d] = 1
    <3>1. seqs[ProcOf[w]][d] \in {NoSeq, CallerSeq}
      BY <1>0, <2>2 DEF TypeOK
    <3>2. Stale(ProcOf[w], d) => seqs[ProcOf[w]][d] = CallerSeq
      BY <3>1 DEF Stale, NoSeq, CallerSeq
    <3> QED
      BY <2>2, <3>2 DEF FirstParse
  <2>5. e \in SeqRange(batch[w]) => d \in done \/ written[d] = 1
    BY <2>3, <2>4
  <2> HIDE DEF done, gone, won
  <2> QED
    BY <2>1, <2>5 DEF Carried, Has, Busy
<1>4. CASE DeleteDocLevelForDocs(w) \/ StripMergedSources(w)
  BY <1>0, <1>4 DEF DeleteDocLevelForDocs, StripMergedSources, Carried, Has, Busy, TypeOK,
                    mergeVars
<1>5. CASE LoadDocProducts(w)
  <2>1. Has(w, EventOf(d, "completed")) => doc[d] = 1
    BY DEF FirstParse, Exists
  <2>2. /\ load'[w] = [c \in Docs |-> IF c \in comp[w] THEN doc[c] ELSE 0]
        /\ UNCHANGED <<batch, comp, written>>
        /\ wpc[w] = "load" /\ wpc'[w] = "search"
    BY <1>0, <1>5 DEF LoadDocProducts, TypeOK, mergeVars
  <2> QED
    BY <1>0, <2>1, <2>2 DEF Carried, Has, Busy
<1>6. CASE SearchSimilar(w)
  BY <1>0, <1>6 DEF SearchSimilar, Carried, Has, Busy, TypeOK, mergeVars
<1>7. CASE WriteMerged(w)
  <2>1. wpc[w] = "write" /\ wpc'[w] = "ack" /\ batch' = batch
    BY <1>0, <1>7 DEF WriteMerged, TypeOK
  <2>2. load[w][d] = 1 => written'[d] = 1
    BY <1>7 DEF WriteMerged
  <2> QED
    BY <1>0, <2>1, <2>2 DEF Carried, Has, Busy
<1>8. CASE TouchClaim(w)
  BY <1>0, <1>8 DEF TouchClaim, Carried, Has, workVars, mergeVars
<1> QED
  BY <1>1, <1>2, <1>3, <1>4, <1>5, <1>6, <1>7, <1>8 DEF Work, Process

\* The same for every worker and step.
LEMMA ServeCarried ==
    ASSUME Sound, FirstParse, Serve, NEW v \in Workers, NEW d \in Docs, First(d)
    PROVE  Carried(v, d)'
<1>0. /\ TypeOK /\ Carried(v, d)
      /\ written[d] = 1 => written'[d] = 1
  BY ServeKeepsFirst DEF Sound, FirstParse
<1>1. ASSUME Same(v)
      PROVE  Carried(v, d)'
  BY <1>0, <1>1 DEF Carried, Same, Has
<1>2. ASSUME Dropped(v)
      PROVE  Carried(v, d)'
  BY <1>2 DEF Carried, Dropped, Busy
<1>3. ASSUME NEW w \in Workers, Work(w)
      PROVE  Carried(v, d)'
  BY <1>0, <1>1, <1>3, OwnCarried, WorkOthers
<1>4. ExpireLease \/ MissHeartbeats => Same(v)
  BY DEF ExpireLease, MissHeartbeats, workVars, Same
<1> QED
  BY <1>1, <1>2, <1>3, <1>4, CrashLocals DEF Serve

\* A remembered seq stands for a merged first parse.
LEMMA ServeSeqs ==
    ASSUME Sound, FirstParse, Serve, NEW d \in Docs, First(d), NEW p \in Procs,
           seqs'[p][d] = CallerSeq
    PROVE  written'[d] = 1
<1>0. TypeOK /\ (written[d] = 1 => written'[d] = 1)
  BY ServeKeepsFirst DEF Sound
<1>1. ASSUME seqs[p][d] = CallerSeq
      PROVE  written'[d] = 1
  BY <1>0, <1>1 DEF FirstParse
<1>2. ASSUME NEW w \in Workers, WriteMerged(w)
      PROVE  written'[d] = 1
  <2>1. seqs' = Advanced(w) /\ wpc[w] = "write"
    BY <1>2 DEF WriteMerged
  <2>2. seqs[p][d] = CallerSeq \/ d \in comp[w]
    <3>1. ProcOf[w] \in Procs
      BY KnowledgeCompileAssumption
    <3>2. d \notin comp[w] => Advanced(w)[p][d] = seqs[p][d]
      BY <1>0, <3>1 DEF Advanced, TypeOK
    <3> QED
      BY <2>1, <3>2
  <2>3. ASSUME d \in comp[w]
        PROVE  written'[d] = 1
    <3>1. Has(w, EventOf(d, "completed"))
      BY <2>3 DEF Sound, Locals, LocalsOf
    <3>2. load[w][d] = 1
      BY <2>1, <2>3, <3>1 DEF FirstParse, Carried
    <3> QED
      BY <1>2, <3>2 DEF WriteMerged
  <2> QED
    BY <1>1, <2>1, <2>2, <2>3
<1>3. ASSUME NEW q \in Procs, Crash(q)
      PROVE  written'[d] = 1
  <2>1. seqs' = [seqs EXCEPT ![q] = [c \in Docs |-> NoSeq]]
    BY <1>3 DEF Crash
  <2>2. NoSeq # CallerSeq
    BY DEF NoSeq, CallerSeq
  <2>3. seqs[p][d] = CallerSeq
    BY <1>0, <2>1, <2>2 DEF TypeOK
  <2> QED
    BY <1>1, <2>3
<1>4. ASSUME NEW w \in Workers, Work(w), ~WriteMerged(w)
      PROVE  UNCHANGED seqs
  BY <1>4 DEF Work, Process, Claim, Probe, Reclaim, TouchClaim, Reconcile,
              DeleteDocLevelForDocs, StripMergedSources, LoadDocProducts, SearchSimilar,
              FailBatch, Ack, NoAck, Restart
<1>5. ASSUME ExpireLease \/ MissHeartbeats
      PROVE  UNCHANGED seqs
  BY <1>5 DEF ExpireLease, MissHeartbeats
<1> QED
  BY <1>1, <1>2, <1>3, <1>4, <1>5 DEF Serve

\* The steps of the workers keep FirstParse.
LEMMA ServeFirstParse ==
    ASSUME Sound, FirstParse, Serve
    PROVE  FirstParse'
<1>0. UNCHANGED <<parse, life, ver>>
  BY ServeDocs DEF docVars
<1> SUFFICES ASSUME NEW d \in Docs, First(d)'
             PROVE  /\ ver'[d] = 1 /\ parse'[d] \in {"written", "idle"} => doc'[d] = 1
                    /\ Exists(EventOf(d, "completed"))' => ver'[d] = 1 /\ parse'[d] = "idle"
                    /\ \A p \in Procs : seqs'[p][d] = CallerSeq => written'[d] = 1
                    /\ \A w \in Workers : Carried(w, d)'
  BY DEF FirstParse
<1>1. First(d)
  BY <1>0 DEF First
<1>2. ver'[d] = 1 /\ parse'[d] \in {"written", "idle"} => doc'[d] = 1
  BY <1>0, <1>1, ServeKeepsFirst DEF FirstParse
<1>3. Exists(EventOf(d, "completed"))' => ver'[d] = 1 /\ parse'[d] = "idle"
  BY <1>0, <1>1, ServeExists DEF FirstParse, Sound
<1> QED
  BY <1>1, <1>2, <1>3, ServeSeqs, ServeCarried

\* They lose no completion: only who has merged it acknowledges it.
LEMMA ServeFirstMerge ==
    ASSUME Sound, FirstParse, FirstMergeKept, Serve
    PROVE  FirstMergeKept'
<1>0. UNCHANGED <<parse, life, ver>>
  BY ServeDocs DEF docVars
<1> SUFFICES ASSUME NEW d \in Docs, life[d] = "alive", ver[d] = 1, parse[d] = "idle"
             PROVE  written'[d] = 1 \/ Queued(d, "completed")'
  BY <1>0 DEF FirstMergeKept
<1>1. First(d)
  BY DEF First
<1>2. CASE written[d] = 1
  BY <1>1, <1>2, ServeKeepsFirst
<1>3. CASE EventOf(d, "completed") \in Row
  <2>1. CASE EventOf(d, "completed") \in Row'
    BY <2>1 DEF Queued, Row
  <2>2. CASE EventOf(d, "completed") \notin Row'
    <3>1. PICK w \in Workers : wpc[w] = "ack" /\ Row \ SeqRange(batch[w]) \subseteq Row'
      BY <1>3, <2>2, ServeEntries DEF Sound
    <3>2. Has(w, EventOf(d, "completed"))
      BY <1>3, <2>2, <3>1 DEF Has
    <3>3. written[d] = 1
      BY <1>1, <3>1, <3>2 DEF FirstParse, Carried
    <3> QED
      BY <1>1, <3>3, ServeKeepsFirst
  <2> QED
    BY <2>1, <2>2
<1> QED
  BY <1>2, <1>3 DEF FirstMergeKept, Queued, Row

\* The steps of the producers: the products of a document are stored before
\* its completion is announced.
LEMMA ProduceFirstParse ==
    ASSUME Sound, FirstParse, NEW d \in Docs, Produce(d)
    PROVE  FirstParse'
<1>0. /\ TypeOK
      /\ UNCHANGED <<written, seqs, workVars>>
  BY ProduceFrame DEF Sound, mergeVars
<1>1. \A w \in Workers, c \in Docs : Carried(w, c)' <=> Carried(w, c)
  BY <1>0 DEF Carried, Has, workVars
<1> SUFFICES ASSUME NEW c \in Docs, First(c)'
             PROVE  /\ ver'[c] = 1 /\ parse'[c] \in {"written", "idle"} => doc'[c] = 1
                    /\ Exists(EventOf(c, "completed"))' => ver'[c] = 1 /\ parse'[c] = "idle"
                    /\ \A p \in Procs : seqs[p][c] = CallerSeq => written[c] = 1
                    /\ \A w \in Workers : Carried(w, c)
  BY <1>0, <1>1 DEF FirstParse
<1>2. CASE c # d
  <2>1. First(c)
    BY <1>0, <1>2, ProduceOthers DEF First
  <2> QED
    BY <1>0, <1>2, <2>1, ProduceOthers DEF FirstParse
<1>3. CASE c = d
  <2>0. ver[d] \in Nat /\ written[d] \in Nat /\ written[d] <= ver[d]
    BY <1>0, ParseNumbers DEF Sound, Bounded
  <2>1. First(d)
    BY <1>0, <1>3, <2>0 DEF First, Produce, StartParse, WriteProducts, PublishCompleted,
                            DeleteDocument, PublishDeleted, TypeOK
  <2>2. /\ ver[d] = 1 /\ parse[d] \in {"written", "idle"} => doc[d] = 1
        /\ Exists(EventOf(d, "completed")) => ver[d] = 1 /\ parse[d] = "idle"
        /\ \A p \in Procs : seqs[p][d] = CallerSeq => written[d] = 1
        /\ \A w \in Workers : Carried(w, d)
    BY <2>1 DEF FirstParse
  <2>3. Exists(EventOf(d, "completed"))' =>
            Exists(EventOf(d, "completed")) \/ (PublishCompleted(d) /\ parse'[d] = "idle")
    <3>1. EventOf(d, "completed") # EventOf(d, "deleted")
      BY DistinctEvents
    <3> QED
      BY <1>0, <3>1, ProduceExists
  <2>4. CASE StartParse(d)
    <3>1. ver[d] = 0 /\ ver'[d] = 1 /\ parse'[d] = "parsing" /\ ~PublishCompleted(d)
      BY <1>0, <1>3, <2>0, <2>4 DEF StartParse, PublishCompleted, First, TypeOK
    <3>2. ~Exists(EventOf(d, "completed"))'
      BY <2>2, <2>3, <3>1
    <3> QED
      BY <1>3, <2>2, <3>1, <3>2
  <2>5. CASE WriteProducts(d)
    <3>1. /\ parse[d] = "parsing" /\ parse'[d] = "written" /\ doc'[d] = ver[d]
          /\ ver' = ver /\ ~PublishCompleted(d)
      BY <1>0, <2>5 DEF WriteProducts, PublishCompleted, TypeOK
    <3>2. ~Exists(EventOf(d, "completed"))'
      BY <2>2, <2>3, <3>1
    <3> QED
      BY <1>3, <2>2, <3>1, <3>2
  <2>6. CASE PublishCompleted(d)
    <3>1. /\ parse[d] = "written" /\ parse'[d] \in {"idle", "lost"}
          /\ UNCHANGED <<ver, doc>>
      BY <1>0, <2>6 DEF PublishCompleted, TypeOK
    <3>2. ver[d] = 1
      BY <2>0, <2>1, <3>1 DEF First, Sound, Lifecycle
    <3> QED
      BY <1>3, <2>2, <2>3, <3>1, <3>2
  <2>7. CASE DeleteDocument(d) \/ PublishDeleted(d)
    BY <1>0, <1>3, <2>7 DEF DeleteDocument, PublishDeleted, First, TypeOK
  <2> QED
    BY <2>4, <2>5, <2>6, <2>7 DEF Produce
<1> QED
  BY <1>2, <1>3

\* The producers lose none: parsed and idle means announced.
LEMMA ProduceFirstMerge ==
    ASSUME Sound, FirstMergeKept, NEW d \in Docs, Produce(d)
    PROVE  FirstMergeKept'
<1>0. TypeOK /\ UNCHANGED written /\ Row \subseteq Row'
  BY ProduceFrame, ProduceEntries DEF Sound, mergeVars
<1> SUFFICES ASSUME NEW c \in Docs, life'[c] = "alive", ver'[c] = 1, parse'[c] = "idle"
             PROVE  written[c] = 1 \/ EventOf(c, "completed") \in Row'
  BY <1>0 DEF FirstMergeKept, Queued, Row
<1>1. ASSUME life[c] = "alive", ver[c] = 1, parse[c] = "idle"
      PROVE  written[c] = 1 \/ EventOf(c, "completed") \in Row'
  BY <1>0, <1>1 DEF FirstMergeKept, Queued, Row
<1>2. CASE c # d
  BY <1>0, <1>1, <1>2, ProduceOthers
<1>3. CASE c = d
  <2>1. CASE StartParse(d) \/ WriteProducts(d) \/ DeleteDocument(d) \/ PublishDeleted(d)
    BY <1>0, <1>1, <1>3, <2>1 DEF StartParse, WriteProducts, DeleteDocument,
                                  PublishDeleted, TypeOK
  <2>2. CASE PublishCompleted(d)
    <3>1. Publish(d, "completed")
      BY <1>0, <1>3, <2>2 DEF PublishCompleted, TypeOK
    <3>2. SeqRange(Append(backlog, EventOf(d, "completed"))) =
            SeqRange(backlog) \cup {EventOf(d, "completed")}
      BY <1>0, EntryOf, RangeAppended DEF TypeOK
    <3> QED
      BY <1>3, <3>1, <3>2 DEF Publish, Row
  <2> QED
    BY <2>1, <2>2 DEF Produce
<1> QED
  BY <1>2, <1>3

\* The strengthened invariant is inductive.
LEMMA StepFirstMerge ==
    ASSUME FirstMergeInv, [Next]_vars
    PROVE  FirstMergeInv'
<1>0. Sound /\ FirstParse /\ FirstMergeKept
  BY DEF FirstMergeInv, Sound
<1>1. TypeOK' /\ Bounded' /\ Lifecycle' /\ Locals'
  BY <1>0, StepTypes, StepBounded, StepLifecycle, StepLocals DEF Sound
<1>2. FirstParse' /\ FirstMergeKept'
  <2>1. CASE UNCHANGED vars
    <3>1. UNCHANGED <<backlog, inflight, parse, life, ver, doc, written, seqs, workVars>>
      BY <2>1 DEF vars, rowVars, docVars, mergeVars
    <3>2. \A e : Exists(e)' <=> Exists(e)
      BY <3>1 DEF Exists, Has, workVars
    <3>3. \A w \in Workers, d \in Docs : Carried(w, d)' <=> Carried(w, d)
      BY <3>1 DEF Carried, Has, workVars
    <3>4. FirstParse'
      BY <1>0, <3>1, <3>2, <3>3 DEF FirstParse, First
    <3> QED
      BY <1>0, <3>1, <3>4 DEF FirstMergeKept, Queued
  <2> QED
    BY <1>0, <2>1, ProduceFirstParse, ProduceFirstMerge, ServeFirstParse, ServeFirstMerge
       DEF Next, Serve, Done
<1> QED
  BY <1>1, <1>2 DEF FirstMergeInv

\* Nothing is announced initially.
LEMMA NothingAtFirst ==
    ASSUME Init
    PROVE  /\ \A e : ~Exists(e)
           /\ \A w \in Workers : \A e : ~Has(w, e)
<1>1. backlog = <<>> /\ inflight = <<>> /\ \A w \in Workers : batch[w] = <<>>
  BY DEF Init
<1>2. \A w \in Workers : \A e : ~Has(w, e)
  BY <1>1, NothingInEmpty DEF Has
<1> QED
  BY <1>1, <1>2, NothingInEmpty DEF Exists

\* The initial state satisfies the strengthened invariant.
LEMMA InitFirstMerge ==
    ASSUME Init
    PROVE  FirstMergeInv
<1>1. TypeOK
  BY InitTypes
<1>2. Bounded /\ Lifecycle
  <2>1. Bounded
    <3>1. /\ ver = NoneOf /\ doc = NoneOf /\ written = NoneOf
          /\ \A w \in Workers : load[w] = NoneOf
      BY DEF Init
    <3>2. \A d \in Docs : NoneOf[d] <= NoneOf[d]
      BY DEF NoneOf
    <3> QED
      BY <3>1, <3>2 DEF Bounded
  <2>2. Lifecycle
    BY NothingAtFirst DEF Init, Lifecycle
  <2> QED
    BY <2>1, <2>2
<1>3. Locals
  BY DEF Init, Locals, LocalsOf
<1>4. FirstParse
  <2>1. NoSeq # CallerSeq
    BY DEF NoSeq, CallerSeq
  <2> QED
    BY <2>1, NothingAtFirst DEF Init, NoneOf, FirstParse, Carried
<1>5. FirstMergeKept
  BY DEF Init, NoneOf, FirstMergeKept
<1> QED
  BY <1>1, <1>2, <1>3, <1>4, <1>5 DEF FirstMergeInv

\* Whatever fails, crashes, is taken over or retried: the products of a document
\* parsed once and announced were written by a batch that succeeded, or its event
\* is still on the row.
THEOREM FirstMergeAlwaysKept == Spec => []FirstMergeKept
<1>1. FirstMergeInv => FirstMergeKept
  BY DEF FirstMergeInv
<1> QED
  BY <1>1, InitFirstMerge, StepFirstMerge, PTL DEF Spec

-----------------------------------------------------------------------------
(* Completions before deletions, in the order of the row.                  *)

\* Appending the deletion, or an event of another document.
LEMMA FollowedAppend ==
    ASSUME NEW s \in Seq(Entries), NEW e \in Entries, NEW d,
           \/ e = EventOf(d, "deleted")
           \/ e # EventOf(d, "completed") /\ Followed(s, d)
    PROVE  Followed(Append(s, e), d)
<1> DEFINE t == Append(s, e)
<1>1. /\ Len(s) \in Nat /\ DOMAIN s = 1..Len(s) /\ DOMAIN t = 1..(Len(s) + 1)
      /\ \A i \in 1..Len(s) : t[i] = s[i]
      /\ t[Len(s) + 1] = e
  BY AppendProperties, LenProperties
<1> HIDE DEF t
<1> SUFFICES ASSUME NEW n \in DOMAIN t, t[n] = EventOf(d, "completed")
             PROVE  \E m \in DOMAIN t : n < m /\ t[m] = EventOf(d, "deleted")
  BY DEF Followed, t
<1>2. CASE e = EventOf(d, "deleted")
  <2>1. n # Len(s) + 1
    BY <1>1, <1>2, DistinctEvents
  <2>2. n < Len(s) + 1 /\ Len(s) + 1 \in DOMAIN t
    BY <1>1, <2>1
  <2> QED
    BY <1>1, <1>2, <2>2
<1>3. CASE e # EventOf(d, "completed") /\ Followed(s, d)
  <2>1. n \in DOMAIN s /\ s[n] = EventOf(d, "completed")
    BY <1>1, <1>3
  <2>2. PICK m \in DOMAIN s : n < m /\ s[m] = EventOf(d, "deleted")
    BY <1>3, <2>1 DEF Followed
  <2>3. m \in DOMAIN t /\ t[m] = s[m]
    BY <1>1
  <2> QED
    BY <2>2, <2>3
<1> QED
  BY <1>2, <1>3

\* Acknowledging what came first leaves the rest in order.
LEMMA FollowedSuffix ==
    ASSUME NEW s \in Seq(Entries), NEW t \in Seq(Entries), NEW d, Followed(s \o t, d)
    PROVE  Followed(t, d)
<1> DEFINE u == s \o t
<1>0. Followed(u, d) /\ u = s \o t
  OBVIOUS
<1> HIDE DEF u
<1>1. /\ Len(s) \in Nat /\ Len(t) \in Nat /\ DOMAIN t = 1..Len(t)
      /\ DOMAIN u = 1..(Len(s) + Len(t))
      /\ \A i \in DOMAIN t : Len(s) + i \in DOMAIN u /\ u[Len(s) + i] = t[i]
  BY <1>0, ConcatEntries
<1>2. Followed(u, d)
  BY <1>0
<1> SUFFICES ASSUME NEW n \in DOMAIN t, t[n] = EventOf(d, "completed")
             PROVE  \E m \in DOMAIN t : n < m /\ t[m] = EventOf(d, "deleted")
  BY DEF Followed
<1>3. Len(s) + n \in DOMAIN u /\ u[Len(s) + n] = EventOf(d, "completed")
  BY <1>1
<1>4. PICK m \in DOMAIN u : Len(s) + n < m /\ u[m] = EventOf(d, "deleted")
  BY <1>2, <1>3 DEF Followed
<1>5. m - Len(s) \in DOMAIN t /\ n < m - Len(s) /\ Len(s) + (m - Len(s)) = m
  BY <1>1, <1>4
<1> QED
  BY <1>1, <1>4, <1>5

\* A batch whose document's deletions are not behind it does not merge it.
LEMMA FollowedNotWon ==
    ASSUME NEW b \in Seq(Entries), NEW r \in Seq(Entries), NEW d,
           Followed(b \o r, d), EventOf(d, "deleted") \notin SeqRange(r)
    PROVE  d \notin WonBy(b, "completed")
<1> SUFFICES ASSUME d \in WonBy(b, "completed")
             PROVE  FALSE
  OBVIOUS
<1> DEFINE u == b \o r
<1>0. Followed(u, d) /\ u = b \o r
  OBVIOUS
<1> HIDE DEF u
<1>1. /\ Len(b) \in Nat /\ DOMAIN b = 1..Len(b)
      /\ \A i \in DOMAIN b : i \in DOMAIN u /\ u[i] = b[i]
      /\ \A i \in DOMAIN u : \/ i \in DOMAIN b
                             \/ i - Len(b) \in DOMAIN r /\ u[i] = r[i - Len(b)]
  BY <1>0, ConcatEntries
<1>2. Followed(u, d)
  BY <1>0
<1>3. PICK n \in DOMAIN b : /\ LastOf(b, d) = b[n] /\ b[n].doc = d
                            /\ \A m \in DOMAIN b : b[m].doc = d => m <= n
  BY LastEntry DEF WonBy
<1>4. b[n] = EventOf(d, "completed")
  <2>1. b[n] \in Entries /\ b[n].type = "completed"
    BY <1>1, <1>3, ElementOfSeq DEF WonBy
  <2> QED
    BY <1>3, <2>1 DEF Entries, EventOf
<1>5. PICK m \in DOMAIN u : n < m /\ u[m] = EventOf(d, "deleted")
  <2>1. n \in DOMAIN u /\ u[n] = EventOf(d, "completed")
    BY <1>1, <1>4
  <2> QED
    BY <1>2, <2>1 DEF Followed
<1>6. CASE m \in DOMAIN b
  <2>1. b[m].doc = d
    BY <1>1, <1>5, <1>6 DEF EventOf
  <2>2. m <= n /\ n \in Int /\ m \in Int
    BY <1>1, <1>3, <1>6, <2>1
  <2> QED
    BY <1>5, <2>2
<1>7. CASE m \notin DOMAIN b
  <2>1. r[m - Len(b)] = EventOf(d, "deleted") /\ m - Len(b) \in DOMAIN r
    BY <1>1, <1>5, <1>7
  <2> QED
    BY <2>1 DEF SeqRange
<1> QED
  BY <1>6, <1>7

\* An event appended to the backlog is the last of the whole row.
LEMMA AppendBehind ==
    ASSUME NEW s \in Seq(Entries), NEW t \in Seq(Entries), NEW e \in Entries
    PROVE  s \o Append(t, e) = Append(s \o t, e)
<1> DEFINE one == <<e>>
<1>1. one \in Seq(Entries)
  OBVIOUS
<1>2. Append(t, e) = t \o one
  BY AppendIsConcat
<1>3. s \o t \in Seq(Entries)
  BY RangeConcat
<1>4. Append(s \o t, e) = (s \o t) \o one
  BY <1>3, AppendIsConcat
<1> HIDE DEF one
<1>5. (s \o t) \o one = s \o (t \o one)
  BY <1>1, ConcatAssociative
<1> QED
  BY <1>2, <1>4, <1>5

-----------------------------------------------------------------------------
(* Deletions, as long as nothing fails.                                    *)

\* Nothing failed so far, and the state DeletedInv then promises.
Calm == Provisioned /\ faults = 0 /\ OneBatch /\ Deletions /\ DeletedGone

\* What a step has to keep then.
Kept == OneBatch /\ Deletions /\ DeletedGone

\* A step after which nothing failed does not fail.
LEMMA NoFault ==
    ASSUME TypeOK, [Next]_vars, faults' = 0
    PROVE  faults = 0 /\ ~Fault
<1>1. ~Fault
  BY DEF Fault, TypeOK
<1>2. CASE \E d \in Docs : Produce(d)
  BY <1>1, <1>2 DEF Produce, StartParse, WriteProducts, PublishCompleted, DeleteDocument,
                    PublishDeleted
<1>3. CASE \E w \in Workers : Work(w)
  BY <1>1, <1>3 DEF Work, Process, Claim, Probe, Reclaim, TouchClaim, Reconcile,
                    DeleteDocLevelForDocs, StripMergedSources, LoadDocProducts,
                    SearchSimilar, WriteMerged, FailBatch, Ack, NoAck, Restart
<1>4. CASE \/ \E p \in Procs : Crash(p)
           \/ ExpireLease \/ MissHeartbeats \/ UNCHANGED vars
  BY <1>1, <1>4 DEF Crash, ExpireLease, MissHeartbeats, vars
<1> QED
  BY <1>1, <1>2, <1>3, <1>4 DEF Next, Done

\* The worker that has a batch, and what is true when nobody has.
LEMMA Holder ==
    ASSUME OneBatch, NEW w \in Workers, wpc[w] \in Busy
    PROVE  /\ inflight = batch[w] /\ token = w /\ lease = "live"
           /\ \A v \in Workers : wpc[v] \in Busy => v = w
  BY DEF OneBatch

\* A step of the holder within its batch.
LEMMA HolderStays ==
    ASSUME TypeOK, OneBatch, NEW w \in Workers, wpc[w] \in Busy, wpc'[w] \in Busy,
           \A v \in Workers : v # w => wpc'[v] = wpc[v],
           UNCHANGED <<inflight, token, lease, batch>>
    PROVE  OneBatch'
<1>1. /\ inflight = batch[w] /\ token = w /\ lease = "live"
      /\ \A v \in Workers : wpc[v] \in Busy => v = w
  BY Holder
<1> QED
  BY <1>1 DEF OneBatch

\* Without a live lease nobody has a batch.
LEMMA NobodyHolds ==
    ASSUME OneBatch, lease # "live"
    PROVE  /\ \A w \in Workers : wpc[w] \notin Busy
           /\ inflight = <<>> /\ token = "" /\ lease = "none"
  BY DEF OneBatch

\* A producer appends: the deletion of a document is its last entry.
LEMMA ProduceCalm ==
    ASSUME Sound, Calm, NEW d \in Docs, Produce(d), faults' = 0, ~Fault
    PROVE  Kept'
<1>0. /\ TypeOK /\ OneBatch /\ Deletions /\ DeletedGone /\ Provisioned /\ faults = 0
      /\ UNCHANGED <<rows, workVars>>
  BY ProduceFrame DEF Sound, Calm, mergeVars
<1>1. UNCHANGED <<inflight, token, lease>>
  BY DEF Produce, StartParse, WriteProducts, PublishCompleted, DeleteDocument,
         PublishDeleted, Publish, rowVars
<1>2. OneBatch'
  BY <1>0, <1>1 DEF OneBatch, workVars
<1>3. \A w \in Workers, c \in Docs : Purging(w, c) <=> Purging(w, c)'
  BY <1>0 DEF Purging, Unnamed, Has, workVars
<1>4. backlog \in Seq(Entries) /\ inflight \in Seq(Entries) /\ inflight \o backlog \in Seq(Entries)
  BY <1>0, RangeConcat DEF TypeOK
<1>5. ASSUME NEW t \in {"completed", "deleted"}, Publish(d, t)
      PROVE  /\ inflight' \o backlog' = Append(inflight \o backlog, EventOf(d, t))
             /\ SeqRange(backlog') = SeqRange(backlog) \cup {EventOf(d, t)}
             /\ EventOf(d, t) \in Entries
  <2>1. EventOf(d, t) \in Entries
    BY EntryOf
  <2>2. backlog' = Append(backlog, EventOf(d, t)) /\ inflight' = inflight
    BY <1>5 DEF Publish
  <2>3. SeqRange(Append(backlog, EventOf(d, t))) = SeqRange(backlog) \cup {EventOf(d, t)}
    BY <1>4, <2>1, RangeAppended
  <2>4. inflight \o Append(backlog, EventOf(d, t)) = Append(inflight \o backlog, EventOf(d, t))
    BY <1>4, <2>1, AppendBehind
  <2> QED
    BY <2>1, <2>2, <2>3, <2>4
<1>6. \/ backlog' = backlog
      \/ Publish(d, "completed") /\ PublishCompleted(d)
      \/ Publish(d, "deleted") /\ PublishDeleted(d)
  BY DEF Produce, StartParse, WriteProducts, PublishCompleted, DeleteDocument,
         PublishDeleted, rowVars
<1>7. ASSUME NEW c \in Docs, life'[c] = "deleted"
      PROVE  /\ Followed(inflight' \o backlog', c)
             /\ EventOf(c, "deleted") \notin SeqRange(backlog') =>
                  \A w \in Workers : wpc[w] \in Busy => Purging(w, c)
             /\ Unnamed(c) \/ Queued(c, "deleted")'
  <2>1. CASE c = d /\ life[d] # "deleted"
    <3>1. PublishDeleted(d)
      BY <1>0, <1>7, <2>1 DEF Produce, StartParse, WriteProducts, PublishCompleted,
                              DeleteDocument, PublishDeleted, TypeOK
    <3>2. Publish(d, "deleted")
      BY <1>0, <3>1 DEF PublishDeleted
    <3>3. EventOf(d, "deleted") \in SeqRange(backlog')
      BY <1>5, <3>2
    <3>4. Followed(Append(inflight \o backlog, EventOf(d, "deleted")), d)
      BY <1>4, <1>5, <3>2, FollowedAppend
    <3>5. Followed(inflight' \o backlog', d)
      BY <1>5, <3>2, <3>4
    <3> QED
      BY <2>1, <3>3, <3>5 DEF Queued
  <2>2. CASE life[c] = "deleted"
    <3>1. /\ Followed(inflight \o backlog, c)
          /\ EventOf(c, "deleted") \notin SeqRange(backlog) =>
               \A w \in Workers : wpc[w] \in Busy => Purging(w, c)
          /\ Unnamed(c) \/ Queued(c, "deleted")
      BY <1>0, <2>2 DEF Deletions, DeletedGone
    <3>2. SeqRange(backlog) \subseteq SeqRange(backlog')
      BY <1>5, <1>6
    <3>3. Followed(inflight' \o backlog', c)
      <4> DEFINE row == inflight \o backlog
                 new == inflight' \o backlog'
      <4>0. /\ row \in Seq(Entries) /\ Followed(row, c)
            /\ \A t \in {"completed", "deleted"} : Publish(d, t) =>
                  new = Append(row, EventOf(d, t)) /\ EventOf(d, t) \in Entries
        BY <1>4, <1>5, <3>1
      <4>1. CASE backlog' = backlog
        BY <1>1, <3>1, <4>1
      <4> HIDE DEF row, new
      <4>2. ASSUME Publish(d, "completed"), PublishCompleted(d)
            PROVE  Followed(new, c)
        <5>1. c # d
          BY <2>2, <4>2 DEF PublishCompleted, Sound, Lifecycle
        <5>2. EventOf(d, "completed") # EventOf(c, "completed")
          BY <5>1, DistinctEvents
        <5> QED
          BY <4>0, <4>2, <5>2, FollowedAppend
      <4>3. ASSUME Publish(d, "deleted")
            PROVE  Followed(new, c)
        <5>1. EventOf(d, "deleted") # EventOf(c, "completed")
          BY DistinctEvents
        <5> QED
          BY <4>0, <4>3, <5>1, FollowedAppend
      <4>4. backlog' # backlog => Followed(new, c)
        BY <1>6, <4>2, <4>3
      <4> QED
        BY <4>1, <4>4 DEF new
    <3> QED
      BY <1>1, <3>1, <3>2, <3>3 DEF Queued
  <2>3. c # d => life'[c] = life[c]
    BY <1>0, ProduceOthers
  <2> QED
    BY <1>7, <2>1, <2>2, <2>3
<1>8. Deletions'
  BY <1>0, <1>3, <1>7 DEF Deletions, workVars
<1>9. DeletedGone'
  BY <1>0, <1>7 DEF DeletedGone, Unnamed
<1> QED
  BY <1>2, <1>8, <1>9 DEF Kept

\* A claim of the free row takes the first entries in order.
LEMMA ClaimCalm ==
    ASSUME Sound, Calm, NEW w \in Workers, Claim(w), faults' = 0
    PROVE  Kept'
<1>0. /\ TypeOK /\ OneBatch /\ Deletions /\ DeletedGone /\ Provisioned /\ faults = 0
      /\ LocalsOf(w)
  BY DEF Sound, Calm, Locals
<1>1. /\ \A v \in Workers : wpc[v] \notin Busy
      /\ inflight = <<>>
  BY <1>0, NobodyHolds DEF Claim
<1>2. /\ backlog \in Seq(Entries) /\ <<>> \in Seq(Entries)
      /\ ClaimRow(w, backlog, <<>>)
  BY <1>0, <1>1, EmptySeq DEF Claim, TypeOK
<1>3. /\ batch'[w] \in Seq(Entries) /\ batch'[w] \o backlog' = backlog
      /\ inflight' = <<>> \o batch'[w]
      /\ SeqRange(backlog) = SeqRange(batch'[w]) \cup SeqRange(backlog')
      /\ token' = w /\ lease' = "live"
      /\ wpc' = [wpc EXCEPT ![w] = "batch"]
  BY <1>0, <1>2, ClaimParts
<1>4. inflight' = batch'[w]
  <2> DEFINE b == batch'[w]
  <2>1. b \in Seq(Entries) /\ inflight' = <<>> \o b
    BY <1>3
  <2> HIDE DEF b
  <2>2. <<>> \o b = b
    BY <2>1, ConcatEmptySeq
  <2> QED
    BY <2>1, <2>2 DEF b
<1>5. UNCHANGED <<life, rows, del, comp, load, out>>
  BY DEF Claim, docVars, mergeVars
<1>6. /\ wpc'[w] = "batch"
      /\ \A v \in Workers : v # w => wpc'[v] = wpc[v]
  BY <1>0, <1>3 DEF TypeOK
<1>7. OneBatch'
  BY <1>1, <1>3, <1>4, <1>6 DEF OneBatch, Busy
<1>8. inflight' \o backlog' = inflight \o backlog
  <2>1. inflight' \o backlog' = backlog
    BY <1>3, <1>4
  <2>2. <<>> \o backlog = backlog
    BY <1>2, ConcatEmptySeq
  <2> QED
    BY <1>1, <2>1, <2>2
<1>9. ASSUME NEW d \in Docs
      PROVE  Purging(w, d)'
  <2>1. wpc[w] = "idle"
    BY DEF Claim
  <2>2. comp'[w] = {} /\ load'[w] = NoneOf /\ out'[w] = NoRows
    BY <1>0, <1>5, <2>1 DEF LocalsOf, Busy
  <2>3. NoneOf[d] = 0 /\ DOMAIN NoRows = {}
    BY NoRowsTable DEF NoneOf
  <2> QED
    BY <1>6, <2>2, <2>3 DEF Purging
<1>10. Deletions'
  <2>1. ASSUME NEW d \in Docs, life[d] = "deleted"
        PROVE  Followed(inflight' \o backlog', d)
    BY <1>0, <1>8, <2>1 DEF Deletions
  <2>2. \A v \in Workers : wpc'[v] \in Busy => v = w
    BY <1>1, <1>6
  <2> QED
    BY <1>5, <1>9, <2>1, <2>2 DEF Deletions
<1>11. DeletedGone'
  <2>1. SeqRange(backlog') \cup SeqRange(inflight') = SeqRange(backlog) \cup SeqRange(inflight)
    BY <1>1, <1>3, <1>4, NothingInEmpty
  <2>2. \A d \in Docs : Queued(d, "deleted")' <=> Queued(d, "deleted")
    BY <2>1 DEF Queued
  <2> QED
    BY <1>0, <1>5, <2>2 DEF DeletedGone, Unnamed
<1> QED
  BY <1>7, <1>10, <1>11 DEF Kept

\* The steps of a batch that do not end it.
Handle(w) ==
    \/ Reconcile(w) \/ DeleteDocLevelForDocs(w) \/ StripMergedSources(w)
    \/ LoadDocProducts(w) \/ SearchSimilar(w) \/ WriteMerged(w)

\* The batch with the deletion of a document strips it from the rows and brings
\* it back to none.
LEMMA HandlePurges ==
    ASSUME Sound, Calm, NEW w \in Workers, Handle(w), NEW d \in Docs, life[d] = "deleted",
           EventOf(d, "deleted") \notin SeqRange(backlog)
    PROVE  Purging(w, d)' /\ (Unnamed(d) => Unnamed(d)')
<1>0. TypeOK /\ OneBatch /\ Deletions /\ DeletedGone /\ Provisioned /\ faults = 0
  BY DEF Sound, Calm
<1>1. wpc[w] \in Busy
  BY DEF Handle, Reconcile, DeleteDocLevelForDocs, StripMergedSources, LoadDocProducts,
         SearchSimilar, WriteMerged, Busy
<1>2. inflight = batch[w] /\ Purging(w, d) /\ Followed(batch[w] \o backlog, d)
  BY <1>0, <1>1, Holder DEF Deletions
<1>3. batch[w] \in Seq(Entries) /\ backlog \in Seq(Entries)
  BY <1>0 DEF TypeOK
<1>4. Has(w, EventOf(d, "deleted")) \/ Unnamed(d)
  BY <1>0, <1>2 DEF DeletedGone, Queued, Has
<1>5. CASE Reconcile(w)
  <2> DEFINE gone == WonBy(batch[w], "deleted")
             done == {c \in WonBy(batch[w], "completed") : ~Stale(ProcOf[w], c)}
  <2>1. d \notin done
    BY <1>2, <1>3, FollowedNotWon
  <2>2. Has(w, EventOf(d, "deleted")) => d \in gone
    BY <1>2, <1>3, FollowedNotWon, WonAtAll DEF Has
  <2>3. /\ del' = [del EXCEPT ![w] = gone]
        /\ comp' = [comp EXCEPT ![w] = done]
        /\ wpc' = [wpc EXCEPT ![w] = IF gone # {} THEN "purge"
                                     ELSE IF done # {} THEN "load" ELSE "ack"]
        /\ UNCHANGED <<batch, load, out, rows>>
    BY <1>5 DEF Reconcile, mergeVars
  <2> HIDE DEF gone, done
  <2>4. /\ del'[w] = gone /\ comp'[w] = done
        /\ wpc'[w] = IF gone # {} THEN "purge" ELSE IF done # {} THEN "load" ELSE "ack"
    BY <1>0, <2>3 DEF TypeOK
  <2> QED
    BY <1>2, <1>4, <2>1, <2>2, <2>3, <2>4 DEF Purging, Unnamed, Has
<1>6. CASE DeleteDocLevelForDocs(w)
  BY <1>0, <1>2, <1>6 DEF DeleteDocLevelForDocs, Purging, Unnamed, Has, mergeVars, TypeOK
<1>7. CASE StripMergedSources(w)
  <2>1. /\ rows' = Stripped(del[w], Keys) /\ wpc[w] = "strip" /\ wpc'[w] = "load"
        /\ UNCHANGED <<batch, comp, load, out>>
    BY <1>0, <1>7 DEF StripMergedSources, TypeOK
  <2>2. d \in del[w] \/ Unnamed(d)
    BY <1>2, <1>4, <2>1 DEF Purging
  <2>3. Unnamed(d)'
    <3>1. /\ DOMAIN rows' \subseteq DOMAIN rows
          /\ \A k \in DOMAIN rows' : /\ rows'[k] \subseteq rows[k]
                                     /\ k \in Keys => rows'[k] \cap del[w] = {}
      BY <1>0, <2>1, StrippedRows
    <3>2. DOMAIN rows \subseteq Keys
      BY <1>0, TableOf DEF TypeOK
    <3> QED
      BY <2>2, <3>1, <3>2 DEF Unnamed
  <2> QED
    BY <1>2, <2>1, <2>3 DEF Purging
<1>8. CASE LoadDocProducts(w)
  <2>1. /\ load'[w] = [c \in Docs |-> IF c \in comp[w] THEN doc[c] ELSE 0]
        /\ wpc[w] = "load" /\ wpc'[w] = "search"
        /\ UNCHANGED <<rows, comp, out>>
    BY <1>0, <1>8 DEF LoadDocProducts, TypeOK, mergeVars
  <2> QED
    BY <1>2, <2>1 DEF Purging, Unnamed
<1>9. CASE SearchSimilar(w)
  <2>1. PICK o \in Tables : IsOutcome(w, o) /\ out' = [out EXCEPT ![w] = o]
    BY <1>9 DEF SearchSimilar
  <2>2. Unnamed(d) /\ load[w][d] = 0 /\ wpc[w] = "search"
    BY <1>2, <1>9 DEF SearchSimilar, Purging
  <2>3. \A k \in DOMAIN o : d \notin o[k]
    <3> SUFFICES ASSUME NEW k \in DOMAIN o
                 PROVE  d \notin o[k]
      OBVIOUS
    <3>1. \/ \E c \in Docs, j \in Alike(k) :
                Loaded(w, c, j) /\ o[k] = IF j \in Sourced THEN {c} ELSE {}
          \/ \E j \in DOMAIN rows : o[k] = rows[j]
      BY <2>1 DEF IsOutcome
    <3>2. \A j : ~Loaded(w, d, j)
      BY <2>2 DEF Loaded
    <3> QED
      BY <2>2, <3>1, <3>2 DEF Unnamed
  <2>4. /\ out'[w] = o /\ wpc'[w] = "write"
        /\ UNCHANGED <<rows, comp, load>>
    BY <1>0, <1>9, <2>1 DEF SearchSimilar, TypeOK, mergeVars
  <2> QED
    BY <1>2, <2>2, <2>3, <2>4 DEF Purging, Unnamed
<1>10. CASE WriteMerged(w)
  <2>1. /\ rows' = Upserted(w, Keys, {}) /\ wpc[w] = "write" /\ wpc'[w] = "ack"
        /\ UNCHANGED <<comp, load, out>>
    BY <1>0, <1>10 DEF WriteMerged, TypeOK
  <2>2. Unnamed(d) /\ \A k \in DOMAIN out[w] : d \notin out[w][k]
    BY <1>2, <2>1 DEF Purging
  <2>3. \A k \in DOMAIN rows' : \/ k \in DOMAIN out[w] /\ rows'[k] = out[w][k]
                                \/ k \in DOMAIN rows /\ rows'[k] = rows[k]
    BY <1>0, <2>1, UpsertedRows
  <2>4. Unnamed(d)'
    BY <2>2, <2>3 DEF Unnamed
  <2> QED
    BY <1>2, <2>1, <2>2, <2>4 DEF Purging
<1> QED
  BY <1>5, <1>6, <1>7, <1>8, <1>9, <1>10 DEF Handle

\* Such a step keeps the order of the row and the deletions.
LEMMA HandleCalm ==
    ASSUME Sound, Calm, NEW w \in Workers, Handle(w), faults' = 0
    PROVE  Kept'
<1>0. TypeOK /\ OneBatch /\ Deletions /\ DeletedGone /\ Provisioned /\ faults = 0
  BY DEF Sound, Calm
<1>1. /\ wpc[w] \in Busy
      /\ UNCHANGED <<rowVars, docVars, batch>>
      /\ Work(w)
  BY DEF Handle, Work, Process, Reconcile, DeleteDocLevelForDocs, StripMergedSources,
         LoadDocProducts, SearchSimilar, WriteMerged, Busy
<1>2. wpc'[w] \in Busy
  <2>1. CASE Reconcile(w)
    <3>1. PICK g, c : wpc' = [wpc EXCEPT ![w] = IF g # {} THEN "purge"
                                     ELSE IF c # {} THEN "load" ELSE "ack"]
      BY <2>1 DEF Reconcile
    <3> QED
      BY <1>0, <3>1 DEF TypeOK, Busy
  <2>2. CASE ~Reconcile(w)
    BY <1>0, <2>2 DEF Handle, DeleteDocLevelForDocs, StripMergedSources, LoadDocProducts,
                      SearchSimilar, WriteMerged, TypeOK, Busy
  <2> QED
    BY <2>1, <2>2
<1>3. \A v \in Workers : v # w => wpc'[v] = wpc[v]
  BY <1>0, <1>1, WorkOthers DEF Same
<1>4. UNCHANGED <<backlog, inflight, token, lease, life>>
  BY <1>1 DEF rowVars, docVars
<1>5. OneBatch'
  BY <1>0, <1>1, <1>2, <1>3, <1>4, HolderStays
<1>6. \A v \in Workers : wpc'[v] \in Busy => v = w
  BY <1>0, <1>1, <1>3, Holder
<1>7. Deletions'
  BY <1>0, <1>4, <1>6, HandlePurges DEF Deletions
<1>8. DeletedGone'
  <2> SUFFICES ASSUME NEW d \in Docs, life[d] = "deleted"
               PROVE  Unnamed(d)' \/ Queued(d, "deleted")'
    BY <1>4 DEF DeletedGone
  <2>1. Queued(d, "deleted")' <=> Queued(d, "deleted")
    BY <1>4 DEF Queued
  <2>2. Unnamed(d) \/ Queued(d, "deleted")
    BY <1>0 DEF DeletedGone
  <2>3. ~Queued(d, "deleted") => EventOf(d, "deleted") \notin SeqRange(backlog)
    BY DEF Queued
  <2> QED
    BY <2>1, <2>2, <2>3, HandlePurges
<1> QED
  BY <1>5, <1>7, <1>8 DEF Kept

\* The acknowledged batch is all that was in flight.
LEMMA AckCalm ==
    ASSUME Sound, Calm, NEW w \in Workers, Ack(w), faults' = 0
    PROVE  Kept'
<1>0. TypeOK /\ OneBatch /\ Deletions /\ DeletedGone /\ Provisioned /\ faults = 0
  BY DEF Sound, Calm
<1>1. wpc[w] = "ack" /\ wpc[w] \in Busy
  BY DEF Ack, Busy
<1>2. /\ inflight = batch[w]
      /\ \A v \in Workers : wpc[v] \in Busy => v = w
  BY <1>0, <1>1, Holder
<1> DEFINE rest == RemoveEntries(inflight, batch[w])
<1>3. /\ inflight' = rest
      /\ token' = IF rest = <<>> THEN "" ELSE "gone"
      /\ lease' = IF rest = <<>> THEN "none" ELSE lease
      /\ wpc' = [wpc EXCEPT ![w] = "idle"]
      /\ UNCHANGED <<backlog, docVars, rows>>
  BY DEF Ack, mergeVars
<1>4. inflight \in Seq(Entries) /\ backlog \in Seq(Entries)
  BY <1>0 DEF TypeOK
<1>5. rest = <<>>
  <2>1. rest \in Seq(Entries) /\ SeqRange(rest) = {}
    BY <1>2, <1>4, Removed
  <2> HIDE DEF rest
  <2>2. Len(rest) \in Nat /\ DOMAIN rest = 1..Len(rest)
    BY <2>1, LenProperties
  <2>3. DOMAIN rest = {}
    BY <2>1, Zenon DEF SeqRange
  <2>4. Len(rest) = 0
    BY <2>2, <2>3
  <2> QED
    BY <2>1, <2>4, EmptySeq
<1> HIDE DEF rest
<1>6. /\ inflight' = <<>> /\ token' = "" /\ lease' = "none"
      /\ UNCHANGED <<backlog, life, rows>>
  BY <1>3, <1>5 DEF docVars
<1>7. \A v \in Workers : wpc'[v] \notin Busy
  BY <1>0, <1>2, <1>3 DEF TypeOK, Busy
<1>8. OneBatch'
  BY <1>6, <1>7 DEF OneBatch
<1>9. Deletions'
  <2> SUFFICES ASSUME NEW d \in Docs, life[d] = "deleted"
               PROVE  Followed(inflight' \o backlog', d)
    BY <1>6, <1>7 DEF Deletions
  <2>1. Followed(inflight \o backlog, d)
    BY <1>0 DEF Deletions
  <2>2. Followed(backlog, d)
    BY <1>4, <2>1, FollowedSuffix
  <2>3. <<>> \o backlog = backlog
    BY <1>4, ConcatEmptySeq
  <2> QED
    BY <1>6, <2>2, <2>3
<1>10. DeletedGone'
  <2> SUFFICES ASSUME NEW d \in Docs, life[d] = "deleted"
               PROVE  Unnamed(d) \/ Queued(d, "deleted")'
    BY <1>6 DEF DeletedGone, Unnamed
  <2>1. CASE EventOf(d, "deleted") \in SeqRange(backlog)
    BY <1>6, <2>1 DEF Queued
  <2>2. CASE EventOf(d, "deleted") \notin SeqRange(backlog)
    BY <1>0, <1>1, <2>2 DEF Deletions, Purging
  <2> QED
    BY <2>1, <2>2
<1> QED
  BY <1>8, <1>9, <1>10 DEF Kept

\* A worker without a batch that looks and finds nothing.
LEMMA IdleCalm ==
    ASSUME Sound, Calm, NEW w \in Workers, Probe(w) \/ Reclaim(w) \/ Restart(w), faults' = 0
    PROVE  Kept'
<1>0. TypeOK /\ OneBatch /\ Deletions /\ DeletedGone /\ Provisioned /\ faults = 0
  BY DEF Sound, Calm
<1>1. lease # "live" => inflight = <<>>
  BY <1>0, NobodyHolds
<1>2. /\ wpc[w] \in {"reclaim", "off"} /\ wpc' = [wpc EXCEPT ![w] = "idle"]
      /\ UNCHANGED <<rowVars, docVars, rows, batch, del, comp, load, out>>
  BY <1>1 DEF Probe, Reclaim, Restart, mergeVars
<1>3. UNCHANGED <<backlog, inflight, token, lease, life, rows, batch, del, comp, load, out>>
  BY <1>2 DEF rowVars, docVars
<1>4. \A v \in Workers : IF wpc[v] \in Busy THEN wpc'[v] = wpc[v] ELSE wpc'[v] \notin Busy
  BY <1>0, <1>2 DEF TypeOK, Busy
<1>5. OneBatch'
  BY <1>0, <1>3, <1>4 DEF OneBatch
<1>6. \A d \in Docs : Queued(d, "deleted")' <=> Queued(d, "deleted")
  BY <1>3 DEF Queued
<1>7. \A v \in Workers, d \in Docs : wpc[v] \in Busy => (Purging(v, d)' <=> Purging(v, d))
  BY <1>3, <1>4 DEF Purging, Unnamed, Has
<1>8. Deletions'
  BY <1>0, <1>3, <1>4, <1>7 DEF Deletions
<1> QED
  BY <1>0, <1>3, <1>5, <1>6, <1>8 DEF Kept, DeletedGone, Unnamed

\* Nobody gives up, and no lease expires, unless something fails.
LEMMA CalmHolder ==
    ASSUME Sound, Calm, NEW w \in Workers, ~Fault
    PROVE  ~TouchClaim(w) /\ ~NoAck(w) /\ ~FailBatch(w)
<1>1. OneBatch
  BY DEF Calm
<1>2. ~TouchClaim(w)
  BY <1>1, NobodyHolds DEF TouchClaim
<1>3. ~NoAck(w)
  BY <1>1, Holder DEF NoAck, Busy
<1> QED
  BY <1>2, <1>3 DEF FailBatch

\* The strengthened invariant is inductive, relative to FirstMergeInv.
LEMMA StepDeleted ==
    ASSUME FirstMergeInv, DeletedInv, [Next]_vars
    PROVE  DeletedInv'
<1> SUFFICES ASSUME Provisioned, faults' = 0
             PROVE  Kept'
  BY DEF DeletedInv, Kept
<1>0. Sound /\ faults = 0 /\ ~Fault
  BY NoFault DEF FirstMergeInv, Sound
<1>1. Calm
  BY <1>0 DEF DeletedInv, Calm
<1>2. CASE \E d \in Docs : Produce(d)
  BY <1>0, <1>1, <1>2, ProduceCalm
<1>3. CASE \E w \in Workers : Work(w)
  <2>1. PICK w \in Workers : Work(w)
    BY <1>3
  <2>2. \/ Claim(w) \/ Handle(w) \/ Ack(w)
        \/ Probe(w) \/ Reclaim(w) \/ Restart(w)
    BY <1>0, <1>1, <2>1, CalmHolder DEF Work, Process, Handle
  <2> QED
    BY <1>0, <1>1, <2>2, ClaimCalm, HandleCalm, AckCalm, IdleCalm
<1>4. CASE \/ \E p \in Procs : Crash(p)
           \/ ExpireLease \/ MissHeartbeats
  <2>1. ExpireLease
    BY <1>0, <1>4 DEF Crash, MissHeartbeats
  <2>2. lease = "live" /\ token = "gone" /\ "gone" \notin Workers
    BY <2>1, KnowledgeCompileAssumption DEF ExpireLease
  <2> QED
    BY <1>1, <2>2 DEF Calm, OneBatch
<1>5. CASE UNCHANGED vars
  <2>1. UNCHANGED <<backlog, inflight, token, lease, life, rows, workVars, faults>>
    BY <1>5 DEF vars, rowVars, docVars, mergeVars
  <2>2. OneBatch'
    BY <1>1, <2>1 DEF Calm, OneBatch, workVars
  <2>3. Deletions'
    BY <1>1, <2>1 DEF Calm, Deletions, Purging, Unnamed, Has, workVars
  <2>4. DeletedGone'
    BY <1>1, <2>1 DEF Calm, DeletedGone, Unnamed, Queued
  <2> QED
    BY <2>2, <2>3, <2>4 DEF Kept
<1> QED
  BY <1>2, <1>3, <1>4, <1>5 DEF Next, Done

\* The initial state satisfies it.
LEMMA InitDeleted ==
    ASSUME Init
    PROVE  DeletedInv
<1>1. OneBatch
  BY DEF Init, OneBatch, Busy
<1>2. Deletions /\ DeletedGone
  BY DEF Init, Deletions, DeletedGone
<1> QED
  BY <1>1, <1>2 DEF DeletedInv

\* As long as nothing fails, no merge that runs beside or after a deletion makes a
\* row name the deleted document again.
THEOREM DeletedStaysGone == Spec => []DeletedGone
<1>1. DeletedInv => DeletedGone
  BY DEF DeletedInv, DeletedGone
<1> QED
  BY <1>1, InitFirstMerge, StepFirstMerge, InitDeleted, StepDeleted, PTL DEF Spec

-----------------------------------------------------------------------------
(* Which rows go.                                                          *)

\* Only a strip, or a batch that fails, takes rows away.
LEMMA KeptRows ==
    ASSUME TypeOK, [Next]_vars, faults' = faults,
           ~(\E w \in Workers : StripMergedSources(w))
    PROVE  DOMAIN rows \subseteq DOMAIN rows'
<1>0. ~Fault
  BY DEF Fault, TypeOK
<1>1. CASE \E d \in Docs : Produce(d)
  BY <1>1, ProduceFrame DEF mergeVars
<1>2. ASSUME NEW w \in Workers, Work(w)
      PROVE  DOMAIN rows \subseteq DOMAIN rows'
  <2>1. CASE WriteMerged(w)
    <3>1. rows' = Upserted(w, Keys, {})
      BY <2>1 DEF WriteMerged
    <3>2. DOMAIN rows \ {} \subseteq DOMAIN Upserted(w, Keys, {})
      BY UpsertedRows
    <3> QED
      BY <3>1, <3>2
  <2>2. CASE \/ Claim(w) \/ Probe(w) \/ Reclaim(w) \/ TouchClaim(w) \/ Reconcile(w)
             \/ DeleteDocLevelForDocs(w) \/ LoadDocProducts(w) \/ SearchSimilar(w)
             \/ Ack(w) \/ NoAck(w) \/ Restart(w)
    BY <2>2 DEF Claim, Probe, Reclaim, TouchClaim, Reconcile, DeleteDocLevelForDocs,
                LoadDocProducts, SearchSimilar, Ack, NoAck, Restart, mergeVars
  <2> QED
    BY <1>0, <1>2, <2>1, <2>2 DEF Work, Process, FailBatch
<1>3. CASE \/ \E p \in Procs : Crash(p)
           \/ ExpireLease \/ MissHeartbeats \/ UNCHANGED vars
  BY <1>3 DEF Crash, ExpireLease, MissHeartbeats, vars, mergeVars
<1> QED
  BY <1>1, <1>2, <1>3 DEF Next, Done

\* As long as nothing fails, a row goes only if it names documents and all of
\* them are deleted.
THEOREM RowsOutlive == Spec => RowsOutliveOthers
<1>1. ASSUME FirstMergeInv, [Next]_vars
      PROVE  [faults' = 0 =>
                \A k \in DOMAIN rows \ DOMAIN rows' :
                    rows[k] # {} /\ \A d \in rows[k] : life[d] = "deleted"]_vars
  <2> SUFFICES ASSUME faults' = 0, NEW k \in DOMAIN rows \ DOMAIN rows'
               PROVE  rows[k] # {} /\ \A d \in rows[k] : life[d] = "deleted"
    OBVIOUS
  <2>0. TypeOK /\ Lifecycle /\ Locals
    BY <1>1 DEF FirstMergeInv
  <2>1. PICK w \in Workers : StripMergedSources(w)
    <3>1. faults' = faults
      BY <1>1, <2>0, NoFault
    <3> QED
      BY <1>1, <2>0, <3>1, KeptRows
  <2>2. rows[k] # {} /\ rows[k] \subseteq del[w]
    BY <2>0, <2>1, StrippedRows DEF StripMergedSources
  <2>3. \A d \in del[w] : d \in Docs /\ life[d] = "deleted"
    BY <2>0 DEF Lifecycle, Locals, LocalsOf, Exists, TypeOK
  <2> QED
    BY <2>2, <2>3
<1> QED
  BY <1>1, InitFirstMerge, StepFirstMerge, PTL DEF Spec, RowsOutliveOthers

-----------------------------------------------------------------------------
(* The promise about the first parse of a document.                        *)

\* A product that is loaded belongs to a completion of the batch, one that is
\* written was loaded.
LEMMA ServeAnnounced ==
    ASSUME Sound, FirstParse, AnnouncedFirst, Serve, NEW d \in Docs, First(d),
           parse[d] # "idle"
    PROVE  written'[d] = 0 /\ \A v \in Workers : load'[v][d] = 0
<1>0. /\ TypeOK /\ written[d] = 0
      /\ \A v \in Workers : load[v][d] = 0 /\ d \notin comp[v]
  BY DEF Sound, AnnouncedFirst, FirstParse, Locals, LocalsOf, Exists
<1>1. NoneOf[d] = 0
  BY DEF NoneOf
<1>2. ASSUME NEW v \in Workers, Same(v) \/ Dropped(v)
      PROVE  load'[v][d] = 0
  BY <1>0, <1>1, <1>2 DEF Same, Dropped
<1>3. ASSUME NEW w \in Workers, Work(w)
      PROVE  written'[d] = 0 /\ \A v \in Workers : load'[v][d] = 0
  <2>1. \A v \in Workers : v # w => load'[v][d] = 0
    BY <1>0, <1>2, <1>3, WorkOthers
  <2>2. written'[d] = 0 /\ load'[w][d] = 0
    <3>1. CASE FailBatch(w) \/ Ack(w) \/ NoAck(w)
      <4>1. load'[w][d] = 0
        BY <1>0, <1>2, <3>1, DroppedBatch
      <4>2. written' = written
        BY <3>1 DEF FailBatch, Ack, NoAck, mergeVars
      <4> QED
        BY <1>0, <4>1, <4>2
    <3>2. CASE LoadDocProducts(w)
      BY <1>0, <3>2 DEF LoadDocProducts, TypeOK, mergeVars
    <3>3. CASE WriteMerged(w)
      BY <1>0, <3>3 DEF WriteMerged
    <3>4. CASE \/ Claim(w) \/ Probe(w) \/ Reclaim(w) \/ TouchClaim(w) \/ Reconcile(w)
               \/ DeleteDocLevelForDocs(w) \/ StripMergedSources(w) \/ SearchSimilar(w)
               \/ Restart(w)
      BY <1>0, <3>4 DEF Claim, Probe, Reclaim, TouchClaim, Reconcile,
                        DeleteDocLevelForDocs, StripMergedSources, SearchSimilar, Restart,
                        mergeVars, workVars
    <3> QED
      BY <1>3, <3>1, <3>2, <3>3, <3>4 DEF Work, Process
  <2> QED
    BY <2>1, <2>2
<1>4. ASSUME (\E p \in Procs : Crash(p)) \/ ExpireLease \/ MissHeartbeats
      PROVE  written' = written /\ \A v \in Workers : Same(v) \/ Dropped(v)
  BY <1>4, CrashLocals DEF Crash, ExpireLease, MissHeartbeats, mergeVars, workVars, Same
<1> QED
  BY <1>0, <1>2, <1>3, <1>4 DEF Serve

\* No step merges a product before its announcement.
LEMMA StepAnnounced ==
    ASSUME FirstMergeInv, AnnouncedFirst, [Next]_vars
    PROVE  AnnouncedFirst'
<1>0. Sound /\ FirstParse /\ TypeOK
  BY DEF FirstMergeInv, Sound
<1>1. ASSUME NEW d \in Docs, Produce(d)
      PROVE  AnnouncedFirst'
  <2>0. UNCHANGED <<written, load>>
    BY <1>1, ProduceFrame DEF mergeVars, workVars
  <2> SUFFICES ASSUME NEW c \in Docs, First(c)', parse'[c] # "idle"
               PROVE  written[c] = 0 /\ \A w \in Workers : load[w][c] = 0
    BY <2>0 DEF AnnouncedFirst
  <2>1. CASE c # d
    BY <1>0, <1>1, <2>1, ProduceOthers DEF AnnouncedFirst, First
  <2>2. CASE StartParse(d) /\ c = d
    <3>1. ver[d] = 0
      BY <1>0, <2>2, ParseNumbers DEF StartParse, First, TypeOK
    <3> QED
      BY <1>0, <2>2, <3>1, ParseNumbers DEF Sound, Bounded
  <2>3. CASE WriteProducts(d) \/ PublishCompleted(d)
    BY <1>0, <2>1, <2>3 DEF WriteProducts, PublishCompleted, First, AnnouncedFirst
  <2>4. CASE DeleteDocument(d) \/ PublishDeleted(d)
    BY <1>0, <2>1, <2>4 DEF DeleteDocument, PublishDeleted, First, TypeOK
  <2> QED
    BY <1>1, <2>1, <2>2, <2>3, <2>4 DEF Produce
<1>2. CASE Serve
  <2>1. UNCHANGED <<parse, life, ver>>
    BY <1>2, ServeDocs DEF docVars
  <2> QED
    BY <1>0, <1>2, <2>1, ServeAnnounced DEF AnnouncedFirst, First
<1>3. CASE UNCHANGED vars
  BY <1>3 DEF vars, docVars, mergeVars, workVars, AnnouncedFirst, First
<1> QED
  BY <1>1, <1>2, <1>3 DEF Next, Serve, Done

\* The stage of a document after a step.
LEMMA StageStep ==
    ASSUME FirstMergeInv, AnnouncedFirst, [Next]_vars, FirstMergeKept', NEW d \in Docs
    PROVE  Stage(d)' = Stage(d) \/ Stage(d)' \in Promise!Later(Stage(d))
<1>0. Sound /\ FirstParse /\ TypeOK /\ FirstMergeKept
  BY DEF FirstMergeInv, Sound
<1>1. \A s : "released" \in Promise!Later(s)
  BY DEF Promise!Later
<1>2. /\ "announced" \in Promise!Later("unannounced")
      /\ "written" \in Promise!Later("announced")
  BY DEF Promise!Later
<1>3. Queued(d, "completed") <=> EventOf(d, "completed") \in Row
  BY DEF Queued, Row
<1>4. Queued(d, "completed")' <=> EventOf(d, "completed") \in Row'
  BY DEF Queued, Row
\* A document that still is in its first parse.
<1>5. ASSUME First(d)', parse'[d] # "lost", First(d), parse[d] # "lost",
             written[d] = 1 => written'[d] = 1,
             written[d] # 1 /\ written'[d] = 1 => Queued(d, "completed"),
             Queued(d, "completed") => Queued(d, "completed")' \/ written'[d] = 1
      PROVE  Stage(d)' = Stage(d) \/ Stage(d)' \in Promise!Later(Stage(d))
  BY <1>2, <1>5 DEF Stage
<1>6. ASSUME ~First(d)' \/ parse'[d] = "lost"
      PROVE  Stage(d)' = "released"
  BY <1>6 DEF Stage
<1>7. CASE Serve
  <2>1. UNCHANGED <<parse, life, ver>>
    BY <1>7, ServeDocs DEF docVars
  <2>2. First(d)' <=> First(d)
    BY <2>1 DEF First
  <2>3. ASSUME First(d), parse[d] # "lost"
        PROVE  /\ written[d] = 1 => written'[d] = 1
               /\ written[d] # 1 /\ written'[d] = 1 => Queued(d, "completed")
               /\ Queued(d, "completed") => Queued(d, "completed")' \/ written'[d] = 1
    <3>1. written[d] = 1 => written'[d] = 1
      BY <1>0, <1>7, <2>3, ServeKeepsFirst
    <3>2. ASSUME written[d] # 1, written'[d] = 1
          PROVE  Queued(d, "completed")
      <4>1. parse[d] = "idle"
        BY <1>0, <1>7, <2>3, <3>2, ServeAnnounced
      <4>2. ver[d] = 1
        <5>1. Bounded'
          BY <1>0, StepBounded DEF Sound
        <5>2. 1 <= ver[d] /\ ver[d] <= 1 /\ ver[d] \in Nat
          BY <1>0, <2>1, <2>3, <3>2, <5>1, ParseNumbers DEF Bounded, First
        <5> QED
          BY <5>2
      <4> QED
        BY <1>0, <2>3, <3>2, <4>1, <4>2 DEF FirstMergeKept, First
    <3>3. ASSUME Queued(d, "completed"), ~Queued(d, "completed")'
          PROVE  written'[d] = 1
      <4>1. ver[d] = 1 /\ parse[d] = "idle"
        BY <1>0, <2>3, <3>3 DEF FirstParse, Queued, Exists
      <4> QED
        BY <2>1, <2>3, <3>3, <4>1 DEF FirstMergeKept, First
    <3> QED
      BY <3>1, <3>2, <3>3
  <2>4. CASE First(d) /\ parse[d] # "lost"
    BY <1>5, <2>1, <2>2, <2>3, <2>4
  <2>5. CASE ~(First(d) /\ parse[d] # "lost")
    BY <1>1, <1>6, <2>1, <2>2, <2>5
  <2> QED
    BY <2>4, <2>5
<1>8. ASSUME NEW c \in Docs, Produce(c)
      PROVE  Stage(d)' = Stage(d) \/ Stage(d)' \in Promise!Later(Stage(d))
  <2>1. UNCHANGED written /\ Row \subseteq Row'
    BY <1>0, <1>8, ProduceFrame, ProduceEntries DEF mergeVars
  <2>2. First(d)' /\ parse'[d] # "lost" => First(d) /\ parse[d] # "lost"
    <3>0. ver[d] \in Nat
      BY <1>0, ParseNumbers
    <3>1. CASE StartParse(c)
      BY <1>0, <3>0, <3>1, ProduceOthers DEF StartParse, First, TypeOK, Sound, Lifecycle
    <3>2. CASE ~StartParse(c)
      BY <1>0, <1>8, <3>2 DEF Produce, WriteProducts, PublishCompleted,
                     DeleteDocument, PublishDeleted, First, TypeOK
    <3> QED
      BY <3>1, <3>2
  <2>3. CASE First(d)' /\ parse'[d] # "lost"
    BY <1>3, <1>4, <1>5, <2>1, <2>2, <2>3
  <2>4. CASE ~First(d)' \/ parse'[d] = "lost"
    BY <1>1, <1>6, <2>4
  <2> QED
    BY <2>3, <2>4
<1>9. CASE UNCHANGED vars
  BY <1>9 DEF vars, rowVars, docVars, mergeVars, Stage, First, Queued
<1> QED
  BY <1>7, <1>8, <1>9 DEF Next, Serve, Done

\* The first parse of every document goes through the stages of CompiledDocument
\* and never back: announced, then written, until it is released.
THEOREM CompileImplementsPromise == Spec => ImplementsPromise
<1>1. Init => Promise!Init /\ AnnouncedFirst
  <2> SUFFICES ASSUME Init
               PROVE  Promise!Init /\ AnnouncedFirst
    OBVIOUS
  <2>1. \A d \in Docs : /\ life[d] = "alive" /\ ver[d] = 0 /\ parse[d] = "idle" /\ written[d] = 0
    BY DEF Init, NoneOf
  <2>2. \A d \in Docs : ~Queued(d, "completed")
    BY NothingAtFirst DEF Queued, Exists
  <2>3. \A d \in Docs : Stage(d) = "unannounced"
    BY <2>1, <2>2 DEF Stage, First
  <2> QED
    BY <2>1, <2>3 DEF Promise!Init, AnnouncedFirst
<1>2. FirstMergeInv /\ AnnouncedFirst /\ [Next]_vars
        => AnnouncedFirst' /\ [Promise!Next]_([d \in Docs |-> Stage(d)])
  <2> SUFFICES ASSUME FirstMergeInv, AnnouncedFirst, [Next]_vars
               PROVE  AnnouncedFirst' /\ Promise!Next
    BY DEF Promise!Next
  <2>1. FirstMergeKept'
    BY StepFirstMerge DEF FirstMergeInv
  <2>2. \A d \in Docs : Stage(d)' \in Promise!Stages
    BY DEF Stage, Promise!Stages
  <2>3. \A d \in Docs : Stage(d)' = Stage(d) \/ Stage(d)' \in Promise!Later(Stage(d))
    BY <2>1, StageStep
  <2>4. Promise!Next
    BY <2>2, <2>3 DEF Promise!Next
  <2> QED
    BY <2>4, StepAnnounced
<1> QED
  BY <1>1, <1>2, InitFirstMerge, StepFirstMerge, PTL DEF Spec, ImplementsPromise, Promise!Spec

=============================================================================
