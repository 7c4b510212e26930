------------------------------ MODULE Splitter ------------------------------
(***************************************************************************)
(* The splitter (controller/splitter/splitter.go).  SplitTask is called by *)
(* the scheduler's only goroutine, for one task, and returns an error or   *)
(* the chunks.  The input file is measured first and copied afterwards,    *)
(* read by read, while somebody else may append to it or cut it: the reads *)
(* go on from the offset of the open file, wherever the file ends by then. *)
(*                                                                         *)
(* Lines and bytes are their positions 1, 2, ... in the file, which        *)
(* changes by whole lines where it is split by lines.  The scanner reads   *)
(* many lines at a time: they are the ones scanned one after the other     *)
(* with no change in between.  Failures to read and write files are left   *)
(* out.                                                                    *)
(***************************************************************************)
EXTENDS Integers, Sequences, SequencesExt, FiniteSetsExt

CONSTANTS DefaultSize,  \* 10000, the chunk size when none is given
          BufferSize,   \* 32 KB, what one read of splitBySize asks for
          MaxLength,    \* bound: lines or bytes of the input file
          MaxStages,    \* bound: stages of a pipeline
          MaxOnline     \* bound: online workers

ASSUME SplitterAssumptions ==
    /\ {DefaultSize, BufferSize} \subseteq Nat \ {0}
    /\ {MaxLength, MaxStages, MaxOnline} \subseteq Nat

\* What SplitTask reads of the task; fields its strategy ignores vary in none.
SplitRequests(strategies, splitBys, sizes, stages, maxNodes) ==
    [strategy : strategies, splitBy : splitBys, chunkSize : sizes,
     hasInput : BOOLEAN, stages : stages, maxNodes : maxNodes]

ChunkRequests == SplitRequests({"chunk", "map-reduce"}, {"", "lines", "size"},
                               -1..MaxLength, {1}, {0})
OtherRequests ==
    SplitRequests({"pipeline"}, {""}, {0}, 1..MaxStages, {0})
        \cup SplitRequests({"replicated"}, {""}, {0}, {1}, 0..MaxOnline)
        \cup SplitRequests({"other"}, {""}, {0}, {1}, {0})

NoError == ""

VARIABLES request,   \* the task
          online,    \* online workers
          length,    \* the input file's present length
          measured,  \* its length when it was measured
          shortest,  \* history: its least length since then
          offset,    \* where the open file is read next
          pieces,    \* pieces[i]: what was written to the i-th chunk's file
          filling,   \* the last of them is still being filled from a read
          chunks,    \* what SplitTask returned
          error      \* the error it returned, or how far it is
fileVars == <<measured, shortest, offset, pieces, filling>>
splitVars == <<request, online, length, fileVars, chunks, error>>

ceil(n, k) == (n + k - 1) \div k

ChunkSize == IF request.chunkSize <= 0 THEN DefaultSize ELSE request.chunkSize

BySize == request.splitBy = "size"

\* The chunks 0, 1, ... of a kind, the prefix of their ids.
ChunkList(kind, n) == [i \in 1..n |-> [kind |-> kind, index |-> i - 1]]

\* The file has not been opened.
Unopened ==
    /\ \/ request \in ChunkRequests /\ length \in 0..MaxLength /\ online = 0
       \/ request \in OtherRequests /\ length = 0 /\ online \in 0..MaxOnline
    /\ measured = 0 /\ shortest = 0 /\ offset = 0
    /\ pieces = <<>>
    /\ filling = FALSE
    /\ chunks = <<>>

SplitInit == Unopened /\ error = "not split"

Return(result, err) ==
    /\ chunks' = result
    /\ error' = err

-----------------------------------------------------------------------------
(* Chunks, and map-reduce, which gives the chunks of chunkSplit other ids. *)

\* The lines are counted, or the size is asked for.
Measure ==
    /\ error = "not split"
    /\ request.strategy \in {"chunk", "map-reduce"}
    /\ measured' = length
    /\ shortest' = length
    /\ error' = IF ~request.hasInput THEN "input_file is required"
                ELSE IF ~BySize /\ length = 0 THEN "input file is empty"
                ELSE "copying"
    /\ UNCHANGED <<request, online, length, offset, pieces, filling, chunks>>

\* Somebody else appends to the file or cuts it.
FileChanges ==
    /\ error = "copying"
    /\ length' \in 0..MaxLength
    /\ shortest' = Min({shortest, length'})
    /\ UNCHANGED <<request, online, measured, offset, pieces, filling, chunks,
                   error>>

LastPiece == pieces[Len(pieces)]

WriteToLast(new) == [pieces EXCEPT ![Len(pieces)] = @ \o new]

\* A line that starts a chunk opens a new file; every line goes to the last.
ScanLine ==
    /\ error = "copying" /\ ~BySize
    /\ offset < length
    /\ pieces' = IF offset % ChunkSize = 0 THEN Append(pieces, <<offset + 1>>)
                 ELSE WriteToLast(<<offset + 1>>)
    /\ offset' = offset + 1
    /\ UNCHANGED <<request, online, length, measured, shortest, filling, chunks,
                   error>>

\* Mutant: the remainder of the division is forgotten.
numChunksMutant == measured \div ChunkSize

numChunks == ceil(measured, ChunkSize)

NextChunk ==
    /\ error = "copying" /\ BySize
    /\ ~filling /\ Len(pieces) < numChunks
    /\ pieces' = Append(pieces, <<>>)
    /\ filling' = TRUE
    /\ UNCHANGED <<request, online, length, measured, shortest, offset, chunks,
                   error>>

\* Room in the chunk, and what the next read returns.
Room == ChunkSize - Len(LastPiece)
Found == Min({BufferSize, Room, Max({length - offset, 0})})

Read(goesOn) ==
    /\ filling
    /\ pieces' = WriteToLast([b \in 1..Found |-> offset + b])
    /\ offset' = offset + Found
    /\ filling' = goesOn
    /\ UNCHANGED <<request, online, length, measured, shortest, chunks, error>>

\* Mutant: the end of the file does not end the chunk.
ReadChunkMutant == Read(Found # Room)

\* Until the chunk is full or a read finds nothing.
ReadChunk == Read(Found \notin {Room, 0})

\* All chunks are copied, or the scanner finds no more lines.
EndCopy ==
    /\ error = "copying"
    /\ IF BySize THEN ~filling /\ Len(pieces) = numChunks ELSE length <= offset
    /\ Return(ChunkList(IF request.strategy = "chunk" THEN "chunk" ELSE "map",
                        Len(pieces)), NoError)
    /\ UNCHANGED <<request, online, length, fileVars>>

-----------------------------------------------------------------------------
(* Pipelines and replicas. *)

pipelineSplit ==
    IF request.stages < 2 THEN Return(<<>>, "at least 2 stages")
    ELSE Return(ChunkList("pipe", request.stages), NoError)

numReplicas ==
    IF request.maxNodes > 0 THEN Min({request.maxNodes, online}) ELSE online

replicatedSplit ==
    Return(ChunkList("replica", numReplicas),
           IF numReplicas = 0 THEN "no online worker" ELSE NoError)

\* The strategies that read no file.
SplitOther ==
    /\ error = "not split"
    /\ \/ request.strategy = "pipeline" /\ pipelineSplit
       \/ request.strategy = "replicated" /\ replicatedSplit
       \/ /\ request.strategy = "other"
          /\ Return(<<>>, "unknown split strategy")
    /\ UNCHANGED <<request, online, length, fileVars>>

-----------------------------------------------------------------------------

SplitTask == Measure \/ ScanLine \/ NextChunk \/ ReadChunk \/ EndCopy \/ SplitOther

SplitNext == SplitTask \/ FileChanges

\* The scheduler's goroutine goes on.
SplitSpec ==
    SplitInit /\ [][SplitNext]_splitVars /\ WF_splitVars(SplitTask)

-----------------------------------------------------------------------------
(* Properties. *)

SplitTypeOK ==
    /\ request \in ChunkRequests \cup OtherRequests
    /\ {online, length, measured, shortest, offset} \subseteq Nat
    /\ pieces \in Seq(Seq(Nat))
    /\ filling \in BOOLEAN
    /\ filling => pieces # <<>> /\ Len(LastPiece) < ChunkSize
    /\ chunks \in Seq([kind : {"chunk", "map", "pipe", "replica"}, index : Nat])

\* Whatever is appended to the input or cut from it while it is copied, the
\* chunks' files one after the other are the input from its start, each
\* position once and in order, none longer than the chunk size.  What the file
\* held all the time is there, and where it is split by lines, all it holds at
\* the end.  One that is not full is the last, unless the file was cut below
\* the measured length while it was split by size.
InOrder ==
    \A i, j \in DOMAIN pieces :
        \A b \in DOMAIN pieces[i], c \in DOMAIN pieces[j] :
            i < j \/ (i = j /\ b < c) => pieces[i][b] < pieces[j][c]

PiecesMakeTheFile ==
    (error = NoError /\ request.strategy \in {"chunk", "map-reduce"}) =>
        /\ UNION {ToSet(pieces[i]) : i \in DOMAIN pieces} = 1..offset
        /\ InOrder
        /\ shortest <= offset
        /\ BySize \/ length <= offset
        /\ \A i \in DOMAIN pieces :
              /\ Len(pieces[i]) <= ChunkSize
              /\ \/ Len(pieces[i]) = ChunkSize
                 \/ i = Len(pieces)
                 \/ BySize /\ shortest < measured

\* A file that is cut while it is split by size does not keep the scheduler's
\* goroutine copying for ever.
CopyEnds == error = "copying" /\ BySize ~> error = NoError
=============================================================================
