---------------------------- MODULE ChunkTransfer ----------------------------
(***************************************************************************)
(* A dump cut into chunks: how it is sent, checked, fetched again and      *)
(* resumed, and how chunks that arrive in any order are put together.  The *)
(* functions of src/src/export/export-chunk-*, export-dump-*-slice and     *)
(* import-chunk-*; a byte of a dump is its position.                       *)
(***************************************************************************)
EXTENDS Entries, FiniteSets, SequencesExt, FiniteSetsExt

Greatest(S) == IF S = {} THEN 0 ELSE Max(S)
Least(S) == IF S = {} THEN 0 ELSE Min(S)

-----------------------------------------------------------------------------
(* Sending.                                                                *)

BuildPlan(total, size) ==
    LET count == (total + size - 1) \div size
    IN  [i \in 1..count |->
            [index |-> i - 1,
             offset |-> (i - 1) * size,
             size |-> IF i = count THEN total - (i - 1) * size ELSE size,
             last |-> i = count]]

SizeOf(chunks) == Total([i \in DOMAIN chunks |-> chunks[i].size])
ByteRange(chunk) == [first |-> chunk.offset, last |-> chunk.offset + chunk.size - 1]

\* The chunks of the plan with their bytes.
Slice(dump, plan) ==
    [i \in DOMAIN plan |->
        [chunk |-> plan[i],
         bytes |-> SubSeq(dump, plan[i].offset + 1, plan[i].offset + plan[i].size)]]

\* A stream of the dump, chunk after chunk.
Stream(slices) == FlattenSeq([i \in DOMAIN slices |-> slices[i].bytes])

Progress(plan, total, delivered) ==
    LET transferred == SizeOf(SubSeq(plan, 1, delivered))
        complete == delivered = Len(plan)
    IN  [remainingChunks |-> Len(plan) - delivered,
         transferred |-> transferred,
         remaining |-> total - transferred,
         total |-> total,
         complete |-> complete,
         current |-> IF complete THEN <<>> ELSE <<ByteRange(plan[delivered + 1])>>]

\* What it refuses as contradictory, and else whether it stands still.
ThroughputAccepts(progress) ==
    /\ progress.transferred + progress.remaining = progress.total
    /\ progress.complete => progress.remaining = 0
    /\ ~progress.complete /\ progress.total > 0 => progress.remaining # 0

Throughput(progress, elapsed) ==
    [transferred |-> progress.transferred,
     complete |-> progress.complete,
     rate |-> IF elapsed = 0 THEN 0 ELSE (progress.transferred * 1000) \div elapsed,
     etaKnown |-> progress.remaining = 0 \/ (elapsed > 0 /\ progress.transferred > 0),
     stalled |-> ~progress.complete /\ elapsed > 0 /\ progress.transferred = 0]

\* Samples of one transfer: a window is a row of stalled samples.
Series(samples) ==
    LET rates == {samples[i].rate : i \in DOMAIN samples}
        stalled == {i \in DOMAIN samples : samples[i].stalled}
    IN  [peak |-> Greatest(rates), least |-> Least(rates),
         stalledSamples |-> Cardinality(stalled),
         stalledWindows |-> Cardinality({i \in stalled : i - 1 \notin stalled}),
         monotonic |-> \A i \in DOMAIN samples : i > 1 =>
                          samples[i].transferred >= samples[i - 1].transferred,
         complete |-> samples # <<>> /\ samples[Len(samples)].complete]

\* Going on after the chunks that were acknowledged: only the first of the rest
\* is asked for as a range.
ResumePlan(plan, total, acknowledged) ==
    LET bytes == SizeOf(SubSeq(plan, 1, acknowledged))
        rest == SubSeq(plan, acknowledged + 1, Len(plan))
    IN  [needed |-> rest # <<>>,
         fromByte |-> bytes,
         remainingBytes |-> total - bytes,
         remainingChunks |-> rest,
         range |-> IF rest = <<>> THEN <<>> ELSE <<ByteRange(rest[1])>>]

-----------------------------------------------------------------------------
(* Fetching damaged chunks again.                                          *)

\* intact: by chunk, whether its checksum held.
Reconcile(plan, intact) ==
    LET failed == EntriesAt(plan, {i \in DOMAIN plan : ~intact[plan[i].index + 1]})
    IN  [allIntact |-> failed = <<>>,
         intactCount |-> Len(plan) - Len(failed),
         failed |-> failed,
         ranges |-> [i \in DOMAIN failed |-> ByteRange(failed[i])],
         refetchBytes |-> SizeOf(failed)]

\* The slices whose chunks the list names, their bounds being equal.
SelectSlices(slices, chunks) ==
    [i \in DOMAIN chunks |->
        CHOOSE s \in ToSet(slices) : s.chunk.index = chunks[i].index]
SlicesMatch(slices, chunks) ==
    \A i \in DOMAIN chunks : \E s \in ToSet(slices) : s.chunk = chunks[i]

\* Failed chunks that follow one another are one range.
Coalesce(reconcile) ==
    LET failed == reconcile.failed
        heads == {i \in DOMAIN failed :
                    i = 1 \/ failed[i - 1].index + 1 # failed[i].index}
        head == Ascending(heads)
        tail == [k \in DOMAIN head |-> IF k = Len(head) THEN Len(failed) ELSE head[k + 1] - 1]
    IN  [k \in DOMAIN head |->
            [first |-> failed[head[k]].offset,
             last |-> ByteRange(failed[tail[k]]).last,
             length |-> ByteRange(failed[tail[k]]).last - failed[head[k]].offset + 1,
             chunkCount |-> tail[k] - head[k] + 1]]

Lengths(ranges) == [k \in DOMAIN ranges |-> ranges[k].length]

\* The bytes between the ranges; it refuses ranges that touch.
GapBytes(ranges) ==
    [k \in 1..Greatest({Len(ranges) - 1, 0}) |-> ranges[k + 1].first - ranges[k].last - 1]
GapsAccept(ranges) == \A k \in DOMAIN GapBytes(ranges) : GapBytes(ranges)[k] >= 1
Gaps(ranges) ==
    [count |-> Greatest({Len(ranges) - 1, 0}),
     bytes |-> Total(GapBytes(ranges)),
     largest |-> Greatest(ToSet(GapBytes(ranges))),
     spanned |-> IF ranges = <<>> THEN 0
                 ELSE ranges[Len(ranges)].last - ranges[1].first + 1]

FragmentationAccepts(ranges, reconcile) ==
    /\ Total(Lengths(ranges)) = reconcile.refetchBytes
    /\ Total([k \in DOMAIN ranges |-> ranges[k].chunkCount]) = Len(reconcile.failed)
\* The chunk count of the first of the longest ranges.
Fragmentation(ranges) ==
    LET longest == Greatest(ToSet(Lengths(ranges)))
        firsts == {k \in DOMAIN ranges : ranges[k].length = longest}
    IN  [largest |-> longest,
         smallest |-> Least(ToSet(Lengths(ranges))),
         largestChunks |-> IF ranges = <<>> THEN 0 ELSE ranges[Min(firsts)].chunkCount]

Savings(ranges, reconcile) ==
    [saved |-> Len(reconcile.failed) - Len(ranges),
     fullyCoalesced |-> reconcile.failed # <<>> /\ Len(ranges) = 1]

RetryBudget(maximum, used, failedCount) ==
    LET remaining == Greatest({maximum - used, 0})
    IN  [remaining |-> remaining,
         canRetry |-> remaining > 0 /\ failedCount > 0,
         lastAttempt |-> remaining = 1]

-----------------------------------------------------------------------------
(* Putting arrived chunks together.                                        *)

Indexes(arrived) == {arrived[i].index : i \in DOMAIN arrived}
TimesOf(arrived, n) == Cardinality({i \in DOMAIN arrived : arrived[i].index = n})

\* The positions of the arrived chunks, by offset; of equal ones the earlier.
ByOffset(arrived) ==
    LET before(i) == {j \in DOMAIN arrived :
                        \/ arrived[j].offset < arrived[i].offset
                        \/ arrived[j].offset = arrived[i].offset /\ j < i}
    IN  [k \in DOMAIN arrived |->
            arrived[CHOOSE i \in DOMAIN arrived : Cardinality(before(i)) = k - 1]]

\* How far the chunks reach from the start of the dump without a break.
Reach(sorted) ==
    LET steady == {n \in 0..Len(sorted) :
                     \A k \in 1..n : sorted[k].offset
                        = IF k = 1 THEN 0 ELSE sorted[k - 1].offset + sorted[k - 1].size}
        n == Max(steady)
    IN  [chunks |-> n, bytes |-> IF n = 0 THEN 0 ELSE sorted[n].offset + sorted[n].size]

ReassemblyOrder(arrived, total) ==
    LET sorted == ByOffset(arrived)
        delta == [k \in 1..Greatest({Len(sorted) - 1, 0}) |->
                    sorted[k + 1].offset - (sorted[k].offset + sorted[k].size)]
        gap == Total([k \in DOMAIN delta |-> Greatest({delta[k], 0})])
        overlap == Total([k \in DOMAIN delta |-> Greatest({0 - delta[k], 0})])
        missing == (0..Greatest(Indexes(arrived))) \ Indexes(arrived)
        doubled == {n \in Indexes(arrived) : TimesOf(arrived, n) > 1}
    IN  [complete |-> /\ missing = {} /\ doubled = {} /\ gap = 0 /\ overlap = 0
                      /\ SizeOf(arrived) = total /\ arrived # <<>>
                      /\ Reach(sorted).chunks = Len(sorted),
         missing |-> IF arrived = <<>> THEN {} ELSE missing,
         doubled |-> doubled,
         gapBytes |-> gap, overlapBytes |-> overlap,
         nextOffset |-> Reach(sorted).bytes,
         outOfOrder |-> \E i \in DOMAIN arrived : i > 1
                            /\ arrived[i].index <= arrived[i - 1].index]

\* The first chunk of each index; refused if an index came with two ranges.
DedupAccepts(arrived) ==
    \A i, j \in DOMAIN arrived :
        arrived[i].index = arrived[j].index =>
            /\ arrived[i].offset = arrived[j].offset
            /\ arrived[i].size = arrived[j].size

\* Mutant of Dedup: what came twice is dropped altogether.
Dedup_DropsDoubled(arrived) ==
    LET kept == SelectSeq(arrived, LAMBDA c : TimesOf(arrived, c.index) = 1)
    IN  [kept |-> kept, redundantBytes |-> SizeOf(arrived) - SizeOf(kept)]

Dedup(arrived) ==
    LET first(n) == Min({i \in DOMAIN arrived : arrived[i].index = n})
        order == Ascending(Indexes(arrived))
        kept == [k \in DOMAIN order |-> arrived[first(order[k])]]
    IN  [kept |-> kept, redundantBytes |-> SizeOf(arrived) - SizeOf(kept)]

\* The indexes to send again, in runs.
Retransmit(arrived, count, size) ==
    LET missing == (0..(count - 1)) \ Indexes(arrived)
    IN  [runs |-> {[first |-> a, last |-> CHOOSE b \in missing :
                        b >= a /\ (a..b) \subseteq missing /\ b + 1 \notin missing] :
                    a \in {n \in missing : n - 1 \notin missing}},
         estimatedBytes |-> Cardinality(missing) * size]

\* How the upload looks to who watches it: chunks are counted, not told apart.
UploadProgress(arrived, total, count) ==
    LET bytes == SizeOf(arrived)
        resume == Least({Reach(ByOffset(arrived)).bytes, total})
        complete == count = 0 \/ (Len(arrived) = count /\ bytes = total)
    IN  [remainingChunks |-> Greatest({count - Len(arrived), 0}),
         remainingBytes |-> Greatest({total - bytes, 0}),
         resumeOffset |-> resume,
         complete |-> complete,
         status |-> CASE complete -> "complete"
                      [] ~complete /\ arrived = <<>> -> "not-started"
                      [] ~complete /\ arrived # <<>> /\ resume = bytes -> "uploading"
                      [] ~complete /\ arrived # <<>> /\ resume # bytes ->
                            "stalled-incomplete"]
==============================================================================
