-------------------------- MODULE KnowledgeCompile --------------------------
(***************************************************************************)
(* The dataset-level knowledge compiler of the Go ingestor                 *)
(* (internal/ingestion/knowledge_compile).  Document events are appended   *)
(* to the backlog of the dataset's scheduling row; workers claim a closed  *)
(* batch under a lease, merge the documents' compiled products into the    *)
(* dataset's products and acknowledge the batch.                           *)
(*                                                                         *)
(* One dataset is modelled: workers meet only on its row.  What the        *)
(* pipeline stored for a document is abstracted to the number of the parse *)
(* it comes from (0: none), which decides the keys of its products.  The   *)
(* dataset's searchable products are rows, one per key, that every writer  *)
(* replaces whole; of a row only its source_doc_ids is kept, which is what *)
(* a deletion looks at.                                                    *)
(***************************************************************************)
EXTENDS Integers, Sequences, FiniteSets

CONSTANTS
    Docs,        \* documents of the dataset
    Workers,     \* compileLoop goroutines, of all ingestors
    Procs,       \* ingestor processes, each with one Consumer
    ProcOf,      \* the process of a worker
    BatchSize,   \* claimBatchSize
    Keys,        \* ids of the dataset's products (datasetLevelID)
    VariantOf,   \* the variant (compile_kwd) that is part of a key
    Sourced,     \* keys of products compiled with source_doc_ids: wiki pages,
                 \* their sections and graphs, not entities or relations
    Compiled,    \* keys of a document's products, by parse
    Provisioned, \* Provision ran in the process that deletes documents
    MaxParses,   \* bound: parses of a document
    MaxFaults    \* bound: failed calls, crashes, overlong batches

ASSUME KnowledgeCompileAssumption ==
    /\ ProcOf \in [Workers -> Procs]
    /\ Workers \cap {"", "gone"} = {}
    /\ BatchSize \in Nat \ {0}
    /\ Provisioned \in BOOLEAN
    /\ DOMAIN VariantOf = Keys
    /\ Sourced \subseteq Keys
    /\ MaxParses \in Nat
    /\ Compiled \in [Docs -> [1..MaxParses -> SUBSET Keys]]
    /\ MaxFaults \in Nat

VARIABLES
    backlog,   \* backlog_doc_ids of the row
    inflight,  \* inflight_doc_ids
    token,     \* claim_token: the worker whose claim it is, see Tokens
    lease,     \* claim_expires_at: NULL, in the future, or past
    state,     \* state, as the status API shows it
    parse,     \* [Docs -> step of the document's pipeline]
    life,      \* [Docs -> step of the document's deletion]
    ver,       \* [Docs -> parses begun]
    doc,       \* [Docs -> parse whose products are stored for the document]
    rows,      \* the dataset's products: key -> source_doc_ids
    written,   \* history: [Docs -> last parse whose products were written to
               \* the rows by a batch that succeeded]
    seqs,      \* [Procs -> [Docs -> Consumer.seqs, NoSeq when missing]]
    wpc,       \* [Workers -> step]
    batch,     \* [Workers -> claimed entries]
    del,       \* [Workers -> documents the batch deletes]
    comp,      \* [Workers -> documents the batch merges]
    load,      \* [Workers -> [Docs -> products loaded, 0 none]]
    out,       \* [Workers -> rows the batch is about to write]
    faults     \* how many things went wrong

rowVars  == <<backlog, inflight, token, lease, state>>
docVars  == <<parse, life, ver>>
mergeVars == <<rows, written>>
workVars == <<wpc, batch, del, comp, load, out>>
vars == <<rowVars, docVars, doc, mergeVars, seqs, workVars, faults>>

Parses == 0..MaxParses
NoneOf == [d \in Docs |-> 0]

\* Rows, each with its source_doc_ids.
Tables == UNION {[K -> SUBSET Docs] : K \in SUBSET Keys}
NoRows == [k \in {} |-> {}]

\* The sequence number both callers pass, and a missing map entry.
CallerSeq == 0
NoSeq == -1

\* A backlog entry; its seq field is always CallerSeq.
Entries == [doc : Docs, type : {"completed", "deleted"}]
EventOf(d, t) == [doc |-> d, type |-> t]

\* A token is the worker that will use it, "gone" when its holder gave up or
\* died, "" when the claim was cleared.
Tokens == Workers \cup {"", "gone"}

Busy == {"batch", "purge", "strip", "load", "search", "write", "ack"}

Fault == faults < MaxFaults /\ faults' = faults + 1

SeqRange(s) == {s[n] : n \in DOMAIN s}

TypeOK ==
    /\ backlog \in Seq(Entries)
    /\ inflight \in Seq(Entries)
    /\ token \in Tokens
    /\ lease \in {"none", "live", "expired"}
    /\ state \in {"idle", "pending", "running", "completed"}
    /\ parse \in [Docs -> {"idle", "parsing", "written", "lost"}]
    /\ life \in [Docs -> {"alive", "deleting", "deleted", "lost"}]
    /\ ver \in [Docs -> Parses]
    /\ doc \in [Docs -> Parses]
    /\ rows \in Tables
    /\ written \in [Docs -> Parses]
    /\ seqs \in [Procs -> [Docs -> {NoSeq, CallerSeq}]]
    /\ wpc \in [Workers -> Busy \cup {"idle", "reclaim", "off"}]
    /\ batch \in [Workers -> Seq(Entries)]
    /\ del \in [Workers -> SUBSET Docs]
    /\ comp \in [Workers -> SUBSET Docs]
    /\ load \in [Workers -> [Docs -> Parses]]
    /\ out \in [Workers -> Tables]
    /\ faults \in 0..MaxFaults

Init ==
    /\ backlog = <<>>
    /\ inflight = <<>>
    /\ token = ""
    /\ lease = "none"
    /\ state = "idle"
    /\ parse = [d \in Docs |-> "idle"]
    /\ life = [d \in Docs |-> "alive"]
    /\ ver = NoneOf
    /\ doc = NoneOf
    /\ rows = NoRows
    /\ written = NoneOf
    /\ seqs = [p \in Procs |-> [d \in Docs |-> NoSeq]]
    /\ wpc = [w \in Workers |-> "idle"]
    /\ batch = [w \in Workers |-> <<>>]
    /\ del = [w \in Workers |-> {}]
    /\ comp = [w \in Workers |-> {}]
    /\ load = [w \in Workers |-> NoneOf]
    /\ out = [w \in Workers |-> NoRows]
    /\ faults = 0

-----------------------------------------------------------------------------
(* Producers: the ingestion pipeline and the document service.             *)

\* The API starts a parse: earlier products of the document are cleared.
StartParse(d) ==
    /\ life[d] = "alive"
    /\ parse[d] \in {"idle", "lost"}
    /\ ver[d] < MaxParses
    /\ ver' = [ver EXCEPT ![d] = @ + 1]
    /\ doc' = [doc EXCEPT ![d] = 0]
    /\ parse' = [parse EXCEPT ![d] = "parsing"]
    /\ UNCHANGED <<rowVars, life, mergeVars, seqs, workVars, faults>>

\* indexWriter.Write: the products are stored, hidden from searches.
WriteProducts(d) ==
    /\ parse[d] = "parsing"
    /\ doc' = [doc EXCEPT ![d] = ver[d]]
    /\ parse' = [parse EXCEPT ![d] = "written"]
    /\ UNCHANGED <<rowVars, life, ver, mergeVars, seqs, workVars, faults>>

\* Publish: append to the backlog; a running row keeps its state.
Publish(d, t) ==
    /\ backlog' = Append(backlog, EventOf(d, t))
    /\ state' = IF state = "running" THEN state ELSE "pending"
    /\ UNCHANGED <<inflight, token, lease>>

\* The pipeline's process has provisioned its publisher; a failed publish is
\* logged and forgotten.
PublishCompleted(d) ==
    /\ parse[d] = "written"
    /\ \/ /\ Publish(d, "completed")
          /\ parse' = [parse EXCEPT ![d] = "idle"]
          /\ UNCHANGED faults
       \/ /\ Fault
          /\ parse' = [parse EXCEPT ![d] = "lost"]
          /\ UNCHANGED rowVars
    /\ UNCHANGED <<life, ver, doc, mergeVars, seqs, workVars>>

\* deleteDocumentFull: removing the task is refused while it runs; then
\* deleteDocEngineData removes the document's own chunks.
DeleteDocument(d) ==
    /\ life[d] = "alive"
    /\ ver[d] > 0
    /\ parse[d] \in {"idle", "lost"}
    /\ life' = [life EXCEPT ![d] = "deleting"]
    /\ doc' = [doc EXCEPT ![d] = 0]
    /\ UNCHANGED <<rowVars, parse, ver, mergeVars, seqs, workVars, faults>>

\* It then publishes the event: a no-op, reported as success, in a process in
\* which no publisher was installed.
PublishDeleted(d) ==
    /\ life[d] = "deleting"
    /\ \/ /\ IF Provisioned THEN Publish(d, "deleted") ELSE UNCHANGED rowVars
          /\ life' = [life EXCEPT ![d] = "deleted"]
          /\ UNCHANGED faults
       \/ /\ Fault
          /\ life' = [life EXCEPT ![d] = "lost"]
          /\ UNCHANGED rowVars
    /\ UNCHANGED <<parse, ver, doc, mergeVars, seqs, workVars>>

-----------------------------------------------------------------------------
(* The claim: scheduler.go.                                                *)

LesserOf(a, b) == IF a < b THEN a ELSE b

\* claimRow on a row whose lists are bl and fl: the first entries move.
ClaimRow(w, bl, fl) ==
    LET n == LesserOf(BatchSize, Len(bl))
        b == SubSeq(bl, 1, n)
    IN  /\ backlog' = SubSeq(bl, n + 1, Len(bl))
        /\ inflight' = fl \o b
        /\ token' = w
        /\ lease' = "live"
        /\ state' = "running"
        /\ batch' = [batch EXCEPT ![w] = b]
        /\ wpc' = [wpc EXCEPT ![w] = "batch"]

\* Mutant: a live lease does not refuse the claim.
ClaimMutant(w) ==
    /\ wpc[w] = "idle"
    /\ backlog # <<>>
    /\ ClaimRow(w, backlog, inflight)
    /\ UNCHANGED <<docVars, doc, mergeVars, seqs, del, comp, load, out,
                   faults>>

\* Claim, for a notification or a probe: refused by a live lease.
Claim(w) ==
    /\ wpc[w] = "idle"
    /\ backlog # <<>>
    /\ lease # "live"
    /\ ClaimRow(w, backlog, inflight)
    /\ UNCHANGED <<docVars, doc, mergeVars, seqs, del, comp, load, out,
                   faults>>

\* Mutant: rows whose batch failed, still marked running, are not looked at.
ProbeMutant(w) ==
    /\ wpc[w] = "idle"
    /\ backlog = <<>>
    /\ lease = "expired"
    /\ inflight # <<>>
    /\ state # "running"
    /\ wpc' = [wpc EXCEPT ![w] = "reclaim"]
    /\ UNCHANGED <<rowVars, docVars, doc, mergeVars, seqs, batch, del, comp,
                   load, out, faults>>

\* TryClaim finds no ready backlog but an expired batch, in one snapshot.
Probe(w) ==
    /\ wpc[w] = "idle"
    /\ backlog = <<>>
    /\ lease = "expired"
    /\ inflight # <<>>
    /\ wpc' = [wpc EXCEPT ![w] = "reclaim"]
    /\ UNCHANGED <<rowVars, docVars, doc, mergeVars, seqs, batch, del, comp,
                   load, out, faults>>

\* reclaimOne on the row it locked, which may have changed since, and claimRow.
Reclaim(w) ==
    /\ wpc[w] = "reclaim"
    /\ \/ /\ lease # "live" /\ inflight # <<>>
          /\ ClaimRow(w, backlog \o inflight, <<>>)
       \/ /\ lease = "live" \/ inflight = <<>>
          /\ wpc' = [wpc EXCEPT ![w] = "idle"]
          /\ UNCHANGED <<rowVars, batch>>
    /\ UNCHANGED <<docVars, doc, mergeVars, seqs, del, comp, load, out,
                   faults>>

\* The lease of a claim that nobody keeps alive runs out.
ExpireLease ==
    /\ lease = "live"
    /\ token = "gone"
    /\ lease' = "expired"
    /\ UNCHANGED <<backlog, inflight, token, state, docVars, doc, mergeVars,
                   seqs, workVars, faults>>

\* That of a working holder does if its heartbeats fail.
MissHeartbeats ==
    /\ lease = "live"
    /\ token \in Workers
    /\ Fault
    /\ lease' = "expired"
    /\ UNCHANGED <<backlog, inflight, token, state, docVars, doc, mergeVars,
                   seqs, workVars>>

\* TouchClaim: a matching token extends the lease, an expired one too.
TouchClaim(w) ==
    /\ wpc[w] \in Busy
    /\ token = w
    /\ lease = "expired"
    /\ lease' = "live"
    /\ UNCHANGED <<backlog, inflight, token, state, docVars, doc, mergeVars,
                   seqs, workVars, faults>>

-----------------------------------------------------------------------------
(* The batch: consumer.go.                                                 *)

\* The entries' seqs are equal, so the last event of a document wins.
LastOf(b, d) ==
    LET at == {n \in DOMAIN b : b[n].doc = d}
    IN  b[CHOOSE n \in at : \A m \in at : m <= n]

WonBy(b, t) == {d \in Docs : /\ \E n \in DOMAIN b : b[n].doc = d
                             /\ LastOf(b, d).type = t}

\* A completion whose seq is not above the last applied one is skipped.
Stale(p, d) == CallerSeq <= seqs[p][d]

\* The first half of processBatch: who is deleted, who is merged.  Tombstones
\* are recorded and cleared but never consulted, so they are left out.
Reconcile(w) ==
    LET gone == WonBy(batch[w], "deleted")
        done == {d \in WonBy(batch[w], "completed") : ~Stale(ProcOf[w], d)}
    IN  /\ wpc[w] = "batch"
        /\ del' = [del EXCEPT ![w] = gone]
        /\ comp' = [comp EXCEPT ![w] = done]
        /\ wpc' = [wpc EXCEPT ![w] = IF gone # {} THEN "purge"
                                     ELSE IF done # {} THEN "load" ELSE "ack"]
        /\ UNCHANGED <<rowVars, docVars, doc, mergeVars, seqs, batch, load,
                       out, faults>>

DeleteDocLevelForDocs(w) ==
    /\ wpc[w] = "purge"
    /\ doc' = [d \in Docs |-> IF d \in del[w] THEN 0 ELSE doc[d]]
    /\ wpc' = [wpc EXCEPT ![w] = "strip"]
    /\ UNCHANGED <<rowVars, docVars, mergeVars, seqs, batch, del, comp, load,
                   out, faults>>

\* Mutant: rows without sources count as emptied.
StrippedMutant(S, K) ==
    LET emptied == {k \in K \cap DOMAIN rows : rows[k] \subseteq S}
    IN  [k \in DOMAIN rows \ emptied |->
            IF k \in K THEN rows[k] \ S ELSE rows[k]]

\* The rows once the documents in S are taken from the sources of those in K:
\* a row that names one of them is rewritten, or deleted if it names no other.
\* The search for them and the writes are one step: only a worker that lost its
\* lease can come in between.
Stripped(S, K) ==
    LET hit     == {k \in K \cap DOMAIN rows : rows[k] \cap S # {}}
        emptied == {k \in hit : rows[k] \subseteq S}
    IN  [k \in DOMAIN rows \ emptied |->
            IF k \in hit THEN rows[k] \ S ELSE rows[k]]

StripMergedSources(w) ==
    /\ wpc[w] = "strip"
    /\ rows' = Stripped(del[w], Keys)
    /\ wpc' = [wpc EXCEPT ![w] = "load"]
    /\ UNCHANGED <<rowVars, docVars, doc, written, seqs, batch, del, comp,
                   load, out, faults>>

\* Mutant: the seq after the one applied is remembered.
AdvancedMutant(w) ==
    [seqs EXCEPT ![ProcOf[w]] =
        [d \in Docs |-> IF d \in comp[w] THEN CallerSeq + 1 ELSE @[d]]]

\* seqs after the batch of w: advanced for what it merged.
Advanced(w) ==
    [seqs EXCEPT ![ProcOf[w]] =
        [d \in Docs |-> IF d \in comp[w] THEN CallerSeq ELSE @[d]]]

\* Mutant: the seqs are advanced before the merge succeeded.
LoadDocProductsMutant(w) ==
    /\ wpc[w] = "load"
    /\ load' = [load EXCEPT ![w] =
                  [d \in Docs |-> IF d \in comp[w] THEN doc[d] ELSE 0]]
    /\ seqs' = Advanced(w)
    /\ wpc' = [wpc EXCEPT ![w] = "search"]
    /\ UNCHANGED <<rowVars, docVars, doc, mergeVars, batch, del, comp, out,
                   faults>>

\* Mutant: whatever documents the dataset has are loaded, announced or not.
LoadAllMutant(w) ==
    /\ wpc[w] = "load"
    /\ load' = [load EXCEPT ![w] = doc]
    /\ wpc' = [wpc EXCEPT ![w] = "search"]
    /\ UNCHANGED <<rowVars, docVars, doc, mergeVars, seqs, batch, del, comp,
                   out, faults>>

LoadDocProducts(w) ==
    /\ wpc[w] = "load"
    /\ load' = [load EXCEPT ![w] =
                  [d \in Docs |-> IF d \in comp[w] THEN doc[d] ELSE 0]]
    /\ wpc' = [wpc EXCEPT ![w] = "search"]
    /\ UNCHANGED <<rowVars, docVars, doc, mergeVars, seqs, batch, del, comp,
                   out, faults>>

\* A product of document d with key k is among those loaded.
Loaded(w, d, k) == load[w][d] > 0 /\ k \in Compiled[d][load[w][d]]

\* Products are compared, and their rows keyed, within one variant.
Alike(k) == {j \in Keys : VariantOf[j] = VariantOf[k]}

\* Dedup folds loaded products into each other, SearchSimilar finds rows for
\* what remains and DecideBatch folds into those or keeps apart; a folded
\* product has the sources of the one it is folded into, and its new name or
\* content may give it another key.  So each row to be written has the sources
\* of a loaded product or of a row that was found.
IsOutcome(w, o) ==
    /\ \A k \in DOMAIN o :
          \/ \E d \in Docs, j \in Alike(k) :
                Loaded(w, d, j) /\ o[k] = IF j \in Sourced THEN {d} ELSE {}
          \/ \E j \in Alike(k) \cap DOMAIN rows : o[k] = rows[j]
    /\ \A k \in Keys : Alike(k) \cap DOMAIN o # {}
                         <=> \E d \in Docs, j \in Alike(k) : Loaded(w, d, j)

SearchSimilar(w) ==
    /\ wpc[w] = "search"
    /\ \E o \in Tables : IsOutcome(w, o) /\ out' = [out EXCEPT ![w] = o]
    /\ wpc' = [wpc EXCEPT ![w] = "write"]
    /\ UNCHANGED <<rowVars, docVars, doc, mergeVars, seqs, batch, del, comp,
                   load, faults>>

\* The rows once those of w with keys in S are inserted, each replacing the one
\* with its key, and those in R were deleted for it.
Upserted(w, S, R) ==
    LET new == S \cap DOMAIN out[w]
    IN  [k \in (DOMAIN rows \ R) \cup new |->
            IF k \in new THEN out[w][k] ELSE rows[k]]

\* WriteMerged; on success the staged seq advances are committed.
WriteMerged(w) ==
    /\ wpc[w] = "write"
    /\ rows' = Upserted(w, Keys, {})
    /\ written' = [d \in Docs |-> IF load[w][d] > 0 THEN load[w][d]
                                                   ELSE written[d]]
    /\ seqs' = Advanced(w)
    /\ wpc' = [wpc EXCEPT ![w] = "ack"]
    /\ UNCHANGED <<rowVars, docVars, doc, batch, del, comp, load, out, faults>>

\* What a worker leaves behind when it drops its batch.
GiveUp(w) ==
    /\ token' = IF token = w THEN "gone" ELSE token
    /\ wpc' = [wpc EXCEPT ![w] = "idle"]
    /\ batch' = [batch EXCEPT ![w] = <<>>]
    /\ del' = [del EXCEPT ![w] = {}]
    /\ comp' = [comp EXCEPT ![w] = {}]
    /\ load' = [load EXCEPT ![w] = NoneOf]
    /\ out' = [out EXCEPT ![w] = NoRows]

\* A failed step: the error is recorded on the row and nothing acknowledged.
\* A failed strip or write may have changed some of the rows; one engine
\* deletes the rows it is about to replace before it inserts.
FailBatch(w) ==
    /\ wpc[w] \in Busy \ {"batch", "ack"}
    /\ Fault
    /\ CASE wpc[w] = "strip" ->
              \E K \in SUBSET Keys : rows' = Stripped(del[w], K)
         [] wpc[w] = "write" ->
              \E S, R \in SUBSET DOMAIN out[w] : rows' = Upserted(w, S, R)
         [] OTHER -> UNCHANGED rows
    /\ GiveUp(w)
    /\ UNCHANGED <<backlog, inflight, lease, state, docVars, doc, written,
                   seqs>>

\* The k-th smallest number of S.
Nth(S, k) == CHOOSE n \in S : Cardinality({m \in S : m <= n}) = k

\* fl without the entries of b, in the same order.
RemoveEntries(fl, b) ==
    LET kept == {n \in DOMAIN fl : fl[n] \notin SeqRange(b)}
    IN  [k \in 1..Cardinality(kept) |-> fl[Nth(kept, k)]]

\* Mutant: the claim is cleared although entries of another claim remain.
AckMutant(w) ==
    /\ wpc[w] = "ack"
    /\ token = w
    /\ inflight' = RemoveEntries(inflight, batch[w])
    /\ token' = ""
    /\ lease' = "none"
    /\ state' = IF backlog # <<>> THEN "pending" ELSE "completed"
    /\ wpc' = [wpc EXCEPT ![w] = "idle"]
    /\ batch' = [batch EXCEPT ![w] = <<>>]
    /\ del' = [del EXCEPT ![w] = {}]
    /\ comp' = [comp EXCEPT ![w] = {}]
    /\ load' = [load EXCEPT ![w] = NoneOf]
    /\ out' = [out EXCEPT ![w] = NoRows]
    /\ UNCHANGED <<backlog, docVars, doc, mergeVars, seqs, faults>>

\* Ack: refused when the token is no longer on the row.
Ack(w) ==
    LET rest == RemoveEntries(inflight, batch[w])
    IN  /\ wpc[w] = "ack"
        /\ token = w
        /\ inflight' = rest
        /\ token' = IF rest = <<>> THEN "" ELSE "gone"
        /\ lease' = IF rest = <<>> THEN "none" ELSE lease
        /\ state' = IF backlog # <<>> THEN "pending" ELSE "completed"
        /\ wpc' = [wpc EXCEPT ![w] = "idle"]
        /\ batch' = [batch EXCEPT ![w] = <<>>]
        /\ del' = [del EXCEPT ![w] = {}]
        /\ comp' = [comp EXCEPT ![w] = {}]
        /\ load' = [load EXCEPT ![w] = NoneOf]
        /\ out' = [out EXCEPT ![w] = NoRows]
        /\ UNCHANGED <<backlog, docVars, doc, mergeVars, seqs, faults>>

\* The claim was taken over, or the heartbeat or the Ack itself failed.
NoAck(w) ==
    /\ wpc[w] = "ack"
    /\ \/ token # w /\ UNCHANGED faults
       \/ token = w /\ Fault
    /\ GiveUp(w)
    /\ UNCHANGED <<backlog, inflight, lease, state, docVars, doc, mergeVars,
                   seqs>>

-----------------------------------------------------------------------------
(* The process.                                                            *)

\* A crash or a shutdown: nothing is acknowledged, the seqs are lost.
Crash(p) ==
    LET W == {w \in Workers : ProcOf[w] = p}
    IN  /\ Fault
        /\ \A w \in W : wpc[w] # "off"
        /\ token' = IF token \in W THEN "gone" ELSE token
        /\ seqs' = [seqs EXCEPT ![p] = [d \in Docs |-> NoSeq]]
        /\ wpc' = [w \in Workers |-> IF w \in W THEN "off" ELSE wpc[w]]
        /\ batch' = [w \in Workers |-> IF w \in W THEN <<>> ELSE batch[w]]
        /\ del' = [w \in Workers |-> IF w \in W THEN {} ELSE del[w]]
        /\ comp' = [w \in Workers |-> IF w \in W THEN {} ELSE comp[w]]
        /\ load' = [w \in Workers |-> IF w \in W THEN NoneOf ELSE load[w]]
        /\ out' = [w \in Workers |-> IF w \in W THEN NoRows ELSE out[w]]
        /\ UNCHANGED <<backlog, inflight, lease, state, docVars, doc,
                       mergeVars>>

Restart(w) ==
    /\ wpc[w] = "off"
    /\ wpc' = [wpc EXCEPT ![w] = "idle"]
    /\ UNCHANGED <<rowVars, docVars, doc, mergeVars, seqs, batch, del, comp,
                   load, out, faults>>

\* Nothing is left to do and no document can be parsed any more.
Quiet ==
    /\ backlog = <<>> /\ inflight = <<>>
    /\ \A w \in Workers : wpc[w] = "idle"
    /\ \A d \in Docs : parse[d] \in {"idle", "lost"} /\ life[d] # "deleting"
Done == Quiet /\ UNCHANGED vars

Produce(d) ==
    \/ StartParse(d) \/ WriteProducts(d) \/ PublishCompleted(d)
    \/ DeleteDocument(d) \/ PublishDeleted(d)

Process(w) ==
    \/ Reconcile(w) \/ DeleteDocLevelForDocs(w) \/ StripMergedSources(w)
    \/ LoadDocProducts(w) \/ SearchSimilar(w) \/ WriteMerged(w)
    \/ Ack(w) \/ NoAck(w)

Work(w) ==
    \/ Claim(w) \/ Probe(w) \/ Reclaim(w) \/ TouchClaim(w)
    \/ Process(w) \/ FailBatch(w) \/ Restart(w)

Next ==
    \/ \E d \in Docs : Produce(d)
    \/ \E w \in Workers : Work(w)
    \/ \E p \in Procs : Crash(p)
    \/ ExpireLease \/ MissHeartbeats
    \/ Done

Spec == Init /\ [][Next]_vars

\* The loop of every worker keeps polling and finishes the batches it claims,
\* a process is started again, and time passes.
FairSpec ==
    /\ Spec
    /\ \A w \in Workers : /\ WF_vars(Claim(w) \/ Probe(w) \/ Reclaim(w))
                          /\ WF_vars(Process(w))
                          /\ WF_vars(Restart(w))
    /\ WF_vars(ExpireLease)

-----------------------------------------------------------------------------
(* Properties.                                                             *)

Queued(d, t) == EventOf(d, t) \in SeqRange(backlog) \cup SeqRange(inflight)

\* A batch a worker abandoned can always be found again: reclaimOne only looks
\* at rows with a lease, so unacknowledged entries must never be left without
\* one by an Ack, a take-over or a crash; and the state the status API shows
\* is not "completed" while entries wait.
RowRecoverable ==
    /\ inflight # <<>> => lease # "none"
    /\ token = "" <=> lease = "none"
    /\ state = "completed" => backlog = <<>>

\* A document parsed once and announced was merged by a batch that succeeded,
\* or its event is still on the row: no claim, failed batch, crash, take-over,
\* Ack of an equal entry or remembered seq loses it.  (What the rows hold of
\* it later is another matter: others may replace or delete them.)
FirstMergeKept ==
    \A d \in Docs :
        life[d] = "alive" /\ ver[d] = 1 /\ parse[d] = "idle"
            => written[d] = 1 \/ Queued(d, "completed")

\* No row has the document among its source_doc_ids.
Unnamed(d) == \A k \in DOMAIN rows : d \notin rows[k]

\* As long as nothing fails, no row names a document whose deletion was
\* published and processed: the lease keeps a merge that loaded it, or that
\* found a row of it, from being written after the deletion stripped it.
\* (Rows made from products without source_doc_ids name nobody; a deletion
\* does not find them.)
DeletedGone ==
    \A d \in Docs :
        life[d] = "deleted" /\ Provisioned /\ faults = 0
            => Unnamed(d) \/ Queued(d, "deleted")

\* As long as nothing fails, a row only disappears when every document it
\* names is deleted, and it names one: neither rows that name a living document
\* nor rows without sources are taken along, whatever was deleted, parsed again
\* or merged since the event was published.  (A row with the content of several
\* documents may name only one of them, and goes with that one.)
RowsOutliveOthers ==
    [][faults' = 0 =>
        \A k \in DOMAIN rows \ DOMAIN rows' :
            rows[k] # {} /\ \A d \in rows[k] : life[d] = "deleted"]_vars

\* The first parse of a living document.
First(d) == life[d] = "alive" /\ ver[d] <= 1

\* How far the compiler got with it, for the promise it makes.
Stage(d) ==
    IF ~First(d) \/ parse[d] = "lost" THEN "released"
    ELSE IF written[d] = 1 THEN "written"
    ELSE IF Queued(d, "completed") THEN "announced" ELSE "unannounced"

Promise == INSTANCE CompiledDocument WITH stage <- [d \in Docs |-> Stage(d)]

\* The only completion of a document is not lost: once announced it stays on
\* the row, through retries, take-overs, crashes and deletions of other
\* documents, until a batch that succeeded has written its products, which no
\* batch does before it is announced.
ImplementsPromise == Promise!Spec

\* Every published event is eventually processed and acknowledged, whatever
\* failed or crashed on the way (the poller and the lease see to it).
Drains == []<>(backlog = <<>> /\ inflight = <<>>)

\* "The last event wins" (consumer.go): when nothing is queued or running, the
\* last parse of every living document was written to the dataset's products.
LastParseMerged ==
    Quiet => \A d \in Docs :
                life[d] = "alive" /\ parse[d] = "idle" => written[d] = ver[d]

\* "The consumer removes the dataset-scoped merged products"
\* (document_crud.go): when nothing is queued or running and nothing failed,
\* no row names a deleted document.
DeletionReachesConsumer ==
    Quiet /\ faults = 0 => \A d \in Docs : life[d] = "deleted" => Unnamed(d)

-----------------------------------------------------------------------------
(* The strengthenings that make FirstMergeKept and DeletedGone inductive.  *)

Has(w, e) == e \in SeqRange(batch[w])

\* An entry that somebody still has: the row, or a worker in its batch.
Exists(e) == \/ e \in SeqRange(backlog) \cup SeqRange(inflight)
             \/ \E w \in Workers : Has(w, e)

\* No product is newer than the last parse of its document.
Bounded ==
    \A d \in Docs : /\ doc[d] <= ver[d] /\ written[d] <= ver[d]
                    /\ \A w \in Workers : load[w][d] <= ver[d]

\* A document has no parse going on once its deletion began, and its deletion
\* is announced only when it is deleted.
Lifecycle ==
    \A d \in Docs : /\ parse[d] # "idle" => ver[d] > 0
                    /\ life[d] # "alive" => parse[d] \in {"idle", "lost"}
                    /\ Exists(EventOf(d, "deleted")) => life[d] = "deleted"

\* Outside of a batch a worker has no leftovers of an earlier one.
LocalsOf(w) ==
    /\ \A d \in del[w]  : Has(w, EventOf(d, "deleted"))
    /\ \A d \in comp[w] : Has(w, EventOf(d, "completed"))
    /\ wpc[w] \notin Busy \ {"batch"} => del[w] = {} /\ comp[w] = {}
    /\ wpc[w] \notin {"search", "write", "ack"} => load[w] = NoneOf
    /\ wpc[w] \notin {"write", "ack"} => out[w] = NoRows

Locals == \A w \in Workers : LocalsOf(w)

\* A worker whose batch holds the completion of a first parse merges it,
\* unless it was merged before.
Carried(w, d) ==
    Has(w, EventOf(d, "completed")) =>
        /\ wpc[w] \in Busy \ {"batch", "ack"} => d \in comp[w] \/ written[d] = 1
        /\ wpc[w] \in {"search", "write"} /\ d \in comp[w] => load[w][d] = 1
        /\ wpc[w] = "ack" => written[d] = 1

\* What is known of a document's only completion: it was announced after its
\* products were stored, and nobody skips or acknowledges it before it was
\* merged.
FirstParse ==
    \A d \in Docs : First(d) =>
        /\ ver[d] = 1 /\ parse[d] \in {"written", "idle"} => doc[d] = 1
        /\ Exists(EventOf(d, "completed")) => ver[d] = 1 /\ parse[d] = "idle"
        /\ \A p \in Procs : seqs[p][d] = CallerSeq => written[d] = 1
        /\ \A w \in Workers : Carried(w, d)

\* Only announced products are loaded and written.
AnnouncedFirst ==
    \A d \in Docs : First(d) /\ parse[d] # "idle" =>
        /\ written[d] = 0
        /\ \A w \in Workers : load[w][d] = 0

FirstMergeInv ==
    TypeOK /\ Bounded /\ Lifecycle /\ Locals /\ FirstParse /\ FirstMergeKept

\* As long as nothing fails one worker at most has a batch, and it is what is
\* in flight.
OneBatch ==
    \/ /\ \A w \in Workers : wpc[w] \notin Busy
       /\ inflight = <<>> /\ token = "" /\ lease = "none"
    \/ \E w \in Workers :
          /\ wpc[w] \in Busy /\ inflight = batch[w] /\ token = w /\ lease = "live"
          /\ \A v \in Workers : wpc[v] \in Busy => v = w

\* The completions of a deleted document come before its deletion.
Followed(s, d) ==
    \A n \in DOMAIN s : s[n] = EventOf(d, "completed") =>
        \E m \in DOMAIN s : n < m /\ s[m] = EventOf(d, "deleted")

\* A worker whose batch holds all that is queued of a deleted document.
Purging(w, d) ==
    /\ d \notin comp[w] /\ load[w][d] = 0
    /\ \A k \in DOMAIN out[w] : d \notin out[w][k]
    /\ wpc[w] \in {"purge", "strip"} /\ Has(w, EventOf(d, "deleted")) => d \in del[w]
    /\ wpc[w] \in {"load", "search", "write", "ack"} => Unnamed(d)

Deletions ==
    \A d \in Docs : life[d] = "deleted" =>
        /\ Followed(inflight \o backlog, d)
        /\ EventOf(d, "deleted") \notin SeqRange(backlog) =>
              \A w \in Workers : wpc[w] \in Busy => Purging(w, d)

DeletedInv == Provisioned /\ faults = 0 => OneBatch /\ Deletions /\ DeletedGone

=============================================================================
