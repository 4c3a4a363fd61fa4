---------------------------- MODULE RecoveryScan ----------------------------
(***************************************************************************)
(* The scan of a raw source for its valid prefix                           *)
(* (src/crypto_collector/storage/recovery.py: _scan_recovery_chunks,       *)
(* _decode_valid_frame_rows).  The source is a sequence of segments, read  *)
(* in chunks that cut it anywhere; the scan feeds a decompressor, checks   *)
(* each frame that ends, and hashes what belongs to the valid prefix and   *)
(* what does not.  A hash is the sequence of the byte offsets it was fed.  *)
(* The result must be that of the one-pass scan scan_recovery_frames,      *)
(* which the ownership of a control carrier relies on.                     *)
(***************************************************************************)
EXTENDS Integers, SequencesExt, FiniteSetsExt

CONSTANTS Segments,   \* what a source may be made of: records, see Segment
          MaxSegments \* bound on their number

\* size: bytes; ends: a zstd frame that is complete; errs: the byte at which the
\* decompressor raises, 0 if it does not; codec: checksum and content size are
\* recorded and right; path: rows fit the path and the hour of the source;
\* worker: worker and configuration of the rows; seqs: their writer sequences.
Segment(size, ends, errs, codec, path, worker, seqs) ==
    [size |-> size, ends |-> ends, errs |-> errs, codec |-> codec, path |-> path,
     worker |-> worker, seqs |-> seqs]

SizeOf(source) == FoldFunction(LAMBDA seg, acc : seg.size + acc, 0, source)
Offsets(from, count) == [i \in 1..count |-> from + i - 1]

NoRows == [count |-> 0, first |-> << >>, last |-> << >>]

\* Where a scan stands: bytes read, and of those not yet fed; bytes fed since the
\* last frame ended; offsets fed to the two hashes; frames accepted; worker and
\* last sequence of the rows accepted, if any; _RecoveryRowFactsBuilder.
ScanStart ==
    [read |-> 0, pending |-> 0, compressed |-> 0, prefix |-> << >>, suffix |-> << >>,
     frames |-> 0, invalid |-> FALSE, worker |-> << >>, sequence |-> << >>, rows |-> NoRows]
-----------------------------------------------------------------------------
\* _decode_valid_frame_rows: rows of one path, hour, worker and configuration,
\* in strictly increasing order of their writer sequences.
RowsValid(seg, w, q) ==
    /\ seg.seqs # << >> /\ seg.path
    /\ w = << >> \/ w = <<seg.worker>>
    /\ \A i \in 1..Len(seg.seqs) :
          LET before == IF i > 1 THEN <<seg.seqs[i - 1]>> ELSE q
          IN  before = << >> \/ before[1] < seg.seqs[i]

FrameValid(seg, w, q) == seg.codec /\ RowsValid(seg, w, q)

\* _RecoveryRowFactsBuilder.extend
Extend(facts, seqs) ==
    [count |-> facts.count + Len(seqs),
     first |-> IF facts.first = << >> THEN <<Head(seqs)>> ELSE facts.first,
     last |-> <<Last(seqs)>>]

\* The next chunk of the file; after an invalid frame it is only hashed.
ReadChunk(at, n) ==
    IF at.invalid THEN [at EXCEPT !.read = @ + n, !.suffix = @ \o Offsets(at.read + 1, n)]
    ELSE [at EXCEPT !.read = @ + n, !.pending = n]

\* ZstdError: what the decompressor holds and the rest of the chunk are suffix.
FeedRaisesRest(at) ==
    [at EXCEPT !.suffix = @ \o Offsets(at.read - at.pending + 1, at.pending),
               !.invalid = TRUE, !.compressed = 0, !.pending = 0]
FeedRaises(at) ==
    [at EXCEPT !.suffix = @ \o Offsets(at.read - at.pending - at.compressed + 1,
                                       at.compressed + at.pending),
               !.invalid = TRUE, !.compressed = 0, !.pending = 0]

\* The chunk ends inside the frame.
FeedMore(at) == [at EXCEPT !.compressed = @ + at.pending, !.pending = 0]

\* The frame ends: it extends the prefix, or it and the rest are suffix.
FeedFrame(at, seg) ==
    LET unused == at.compressed + at.pending - seg.size
        frame == Offsets(at.read - at.pending - at.compressed + 1, seg.size)
    IN  IF FrameValid(seg, at.worker, at.sequence)
        THEN [at EXCEPT !.prefix = @ \o frame, !.frames = @ + 1, !.worker = <<seg.worker>>,
                        !.sequence = <<Last(seg.seqs)>>, !.rows = Extend(@, seg.seqs),
                        !.pending = unused, !.compressed = 0]
        ELSE [at EXCEPT !.suffix = @ \o frame \o Offsets(at.read - unused + 1, unused),
                        !.invalid = TRUE, !.pending = 0, !.compressed = 0]

\* One turn of the inner loop, if there is something to feed.
Feed(source, at) ==
    LET seg == source[at.frames + 1]
        reach == at.compressed + at.pending
    IN  CASE at.pending = 0 -> at
          [] at.pending > 0 /\ seg.errs # 0 /\ reach >= seg.errs -> FeedRaises(at)
          [] at.pending > 0 /\ seg.errs = 0 /\ seg.ends /\ reach >= seg.size -> FeedFrame(at, seg)
          [] OTHER -> FeedMore(at)

\* A frame that the file's end cuts short is suffix.
EndOfSource(at) ==
    IF at.compressed = 0 THEN at
    ELSE [at EXCEPT !.suffix = @ \o Offsets(at.read - at.compressed + 1, at.compressed),
                    !.compressed = 0, !.invalid = TRUE]

\* The scan of a source read in chunks of the given sizes.
ScanChunks(source, chunks) ==
    LET chunk(at, n) == FoldLeft(LAMBDA a, i : Feed(source, a), ReadChunk(at, n), Offsets(1, n))
    IN  EndOfSource(FoldLeft(chunk, ScanStart, chunks))
-----------------------------------------------------------------------------
(* The one-pass scan *)

\* scan_recovery_frames stops at the first segment that is not a valid frame.
OnePass(source) ==
    FoldLeft(
        LAMBDA acc, seg :
            IF acc.open /\ seg.ends /\ seg.errs = 0 /\ FrameValid(seg, acc.worker, acc.sequence)
            THEN [acc EXCEPT !.count = @ + 1, !.size = @ + seg.size, !.worker = <<seg.worker>>,
                             !.sequence = <<Last(seg.seqs)>>, !.rows = Extend(@, seg.seqs)]
            ELSE [acc EXCEPT !.open = FALSE],
        [open |-> TRUE, count |-> 0, size |-> 0, worker |-> << >>, sequence |-> << >>,
         rows |-> NoRows],
        source)

\* The ways to read n bytes in chunks: a chunk ends at each cut.
Chunkings(n) ==
    {LET ends == SetToSortSeq(cuts \cup {n}, LAMBDA a, b : a < b)
     IN  [i \in DOMAIN ends |-> ends[i] - (IF i = 1 THEN 0 ELSE ends[i - 1])]
     : cuts \in SUBSET (1..(n - 1))}

\* The scan of a source in these chunks accepts the frames of the one-pass scan,
\* and its two hashes cover the file in order, without gap or overlap.
ScannedExactly(source, chunks) ==
    LET size == SizeOf(source)
        one == OnePass(source)
        at == ScanChunks(source, chunks)
    IN  /\ at.frames = one.count /\ at.rows = one.rows
        /\ at.prefix = Offsets(1, one.size)
        /\ at.suffix = Offsets(one.size + 1, size - one.size)

\* The sources that some way of cutting them into chunks gets wrong, by whether
\* the one-pass scan finds a valid frame in them, and bytes after it.
AllSources == BoundedSeq(Segments, MaxSegments) \ {<< >>}
Misread == {source \in AllSources : \E chunks \in Chunkings(SizeOf(source)) :
                                        ~ScannedExactly(source, chunks)}
ShapeOf(source) ==
    LET one == OnePass(source) IN [frames |-> one.count > 0, tail |-> SizeOf(source) > one.size]
MisreadShapes == {ShapeOf(source) : source \in Misread}
=============================================================================
