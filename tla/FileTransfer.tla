---------------------------- MODULE FileTransfer ----------------------------
(***************************************************************************)
(* One upload of a worker's result archive: StreamFileAsChunks on one end  *)
(* of a gRPC stream, ReceiveFileTransferChunks on the other, and around    *)
(* them uploadFiles and WorkerUploadsFiles.  The download of the work      *)
(* files uses the same two functions, without the reply.                   *)
(*                                                                         *)
(* The content of a file is the sequence 1 .. size of the positions of its *)
(* bytes; a gRPC stream delivers in order and may break at any moment,     *)
(* dropping what has not been received.                                    *)
(***************************************************************************)
EXTENDS Integers, Sequences

CONSTANTS
    ChunkSize,          \* FileTransferChunkSizeBytes
    MaxSize,            \* bound: size of the file in bytes
    MaxFaults           \* bound: disturbances of one transfer

ASSUME FileTransferAssumption ==
    /\ ChunkSize \in Nat \ {0}
    /\ MaxSize \in Nat \ {0}
    /\ MaxFaults \in Nat

VARIABLES
    size,               \* size of the file on disk
    sender,             \* where the sender is
    statSize,           \* the size Stat reported
    bytesStreamed,      \* bytes read and sent so far
    chunkIndex,         \* index of the next chunk to send
    wire,               \* chunks sent and not received
    end,                \* how the stream ends after them
    receiver,           \* where the receiver is
    fileTransferZipBytes, nextExpectedChunkIndex, receivedFinalChunk,
    faults              \* history: number of disturbances so far

source == <<statSize, bytesStreamed, chunkIndex>>
sink == <<receiver, fileTransferZipBytes, nextExpectedChunkIndex, receivedFinalChunk>>
vars == <<size, sender, source, wire, end, sink, faults>>

Chunk == [content : Seq(1 .. MaxSize), index : Nat, final : BOOLEAN]

Fault == faults < MaxFaults /\ faults' = faults + 1

-----------------------------------------------------------------------------

Init ==
    /\ size \in 1 .. MaxSize
    /\ sender = "opened"
    /\ statSize = 0 /\ bytesStreamed = 0 /\ chunkIndex = 0
    /\ wire = <<>> /\ end = "open"
    /\ receiver = "receiving"
    /\ fileTransferZipBytes = <<>>
    /\ nextExpectedChunkIndex = 0
    /\ receivedFinalChunk = FALSE
    /\ faults = 0

(******************************** The sender *******************************)

StatFile ==
    /\ sender = "opened"
    /\ sender' = "streaming"
    /\ statSize' = size
    /\ UNCHANGED <<size, bytesStreamed, chunkIndex, wire, end, sink, faults>>

(* Wrong: a chunk that is not full is the final one.                       *)
SendChunk_shortIsFinal(n) ==
    /\ sender = "streaming" /\ end = "open"
    /\ bytesStreamed + n <= size
    /\ bytesStreamed' = bytesStreamed + n
    /\ chunkIndex' = chunkIndex + 1
    /\ wire' = Append(wire, [content |-> [i \in 1 .. n |-> bytesStreamed + i],
                             index |-> chunkIndex,
                             final |-> n < ChunkSize])
    /\ UNCHANGED <<size, sender, statSize, end, sink, faults>>

(* Read returns n bytes, perhaps fewer than the buffer takes, and Send     *)
(* hands them to gRPC.  The chunk is final when it reaches the size that   *)
(* Stat reported.                                                          *)
SendChunk(n) ==
    /\ sender = "streaming" /\ end = "open"
    /\ bytesStreamed + n <= size
    /\ bytesStreamed' = bytesStreamed + n
    /\ chunkIndex' = chunkIndex + 1
    /\ wire' = Append(wire, [content |-> [i \in 1 .. n |-> bytesStreamed + i],
                             index |-> chunkIndex,
                             final |-> bytesStreamed' = statSize])
    /\ UNCHANGED <<size, sender, statSize, end, sink, faults>>

(* Read returns io.EOF: the stream is closed, and the reply awaited.       *)
ReachEOF ==
    /\ sender = "streaming" /\ end = "open"
    /\ bytesStreamed >= size
    /\ sender' = "awaiting" /\ end' = "eof"
    /\ UNCHANGED <<size, source, wire, sink, faults>>

(* Read fails, the caller gives up, and its end of the stream goes away.   *)
ReadFails ==
    /\ sender = "streaming" /\ end = "open" /\ Fault
    /\ sender' = "failed" /\ end' = "broken"
    /\ UNCHANGED <<size, source, wire, sink>>

(* Send, or the wait for the reply, returns the error of the stream.       *)
SenderSeesError ==
    /\ sender \in {"streaming", "awaiting"}
    /\ end = "broken" \/ receiver = "rejected"
    /\ sender' = "failed"
    /\ UNCHANGED <<size, source, wire, end, sink, faults>>

(* Wrong: the upload is over when the last chunk has been sent.            *)
ReplyReceived_unanswered ==
    /\ sender = "awaiting" /\ end = "eof"
    /\ sender' = "acknowledged"
    /\ UNCHANGED <<size, source, wire, end, sink, faults>>

ReplyReceived ==
    /\ sender = "awaiting" /\ receiver = "stored" /\ end = "eof"
    /\ sender' = "acknowledged"
    /\ UNCHANGED <<size, source, wire, end, sink, faults>>

(******************************* The receiver ******************************)

Receiving == receiver = "receiving" /\ wire # <<>>

Acceptable(chunk) ==
    chunk.index = nextExpectedChunkIndex /\ ~ receivedFinalChunk

ReceiveChunk ==
    /\ Receiving /\ Acceptable(Head(wire))
    /\ fileTransferZipBytes' = fileTransferZipBytes \o Head(wire).content
    /\ receivedFinalChunk' = Head(wire).final
    /\ nextExpectedChunkIndex' = nextExpectedChunkIndex + 1
    /\ wire' = Tail(wire)
    /\ UNCHANGED <<size, sender, source, end, receiver, faults>>

RejectChunk ==
    /\ Receiving /\ ~ Acceptable(Head(wire))
    /\ receiver' = "rejected"
    /\ wire' = <<>>
    /\ UNCHANGED <<size, sender, source, end, fileTransferZipBytes,
                   nextExpectedChunkIndex, receivedFinalChunk, faults>>

(* Wrong: the end of the stream is the end of the file.                    *)
ReceiverSeesEnd_anyEOF ==
    /\ receiver = "receiving" /\ wire = <<>> /\ end # "open"
    /\ receiver' = IF end = "eof" THEN "complete" ELSE "rejected"
    /\ UNCHANGED <<size, sender, source, wire, end, fileTransferZipBytes,
                   nextExpectedChunkIndex, receivedFinalChunk, faults>>

(* Recv returns io.EOF, or another error.                                  *)
ReceiverSeesEnd ==
    /\ receiver = "receiving" /\ wire = <<>> /\ end # "open"
    /\ receiver' = IF end = "eof" /\ receivedFinalChunk
                   THEN "complete" ELSE "rejected"
    /\ UNCHANGED <<size, sender, source, wire, end, fileTransferZipBytes,
                   nextExpectedChunkIndex, receivedFinalChunk, faults>>

(* The archive is unpacked and the event uploadedFilesSucceeded recorded;  *)
(* or unpacking fails and the handler returns the error.                   *)
Unzip ==
    /\ receiver = "complete"
    /\ \/ receiver' = "stored" /\ UNCHANGED faults
       \/ receiver' = "rejected" /\ Fault
    /\ UNCHANGED <<size, sender, source, wire, end, fileTransferZipBytes,
                   nextExpectedChunkIndex, receivedFinalChunk>>

(****************************** Disturbances *******************************)

(* The connection breaks: of the chunks under way a prefix arrives.        *)
Break ==
    /\ end # "broken" /\ receiver \in {"receiving", "complete", "stored"} /\ Fault
    /\ end' = "broken"
    /\ \E k \in 0 .. Len(wire) : wire' = SubSeq(wire, 1, k)
    /\ UNCHANGED <<size, sender, source, sink>>

(* The file is truncated, or something is appended to it, while it is read *)
(* (the path is a fixed name in a shared temporary directory).  A byte is  *)
(* known by its position alone: a file overwritten in place, or truncated  *)
(* and then filled up again, is not told apart from the original here, and *)
(* the code, which compares lengths only, does not tell them apart either. *)
FileChanges ==
    /\ sender = "streaming" /\ Fault
    /\ size' \in 1 .. MaxSize \ {size}
    /\ UNCHANGED <<sender, source, wire, end, sink>>

-----------------------------------------------------------------------------

TransferStep ==
    \/ StatFile
    \/ \E n \in 1 .. ChunkSize : SendChunk(n)
    \/ ReachEOF \/ SenderSeesError \/ ReplyReceived
    \/ ReceiveChunk \/ RejectChunk \/ ReceiverSeesEnd \/ Unzip

Next ==
    \/ TransferStep
    \/ ReadFails \/ Break \/ FileChanges

Spec == Init /\ [][Next]_vars

(* Reads and the stream make progress unless they fail.                    *)
FairSpec == Spec /\ WF_vars(TransferStep)

-----------------------------------------------------------------------------

TypeOK ==
    /\ size \in 1 .. MaxSize
    /\ sender \in {"opened", "streaming", "awaiting", "acknowledged", "failed"}
    /\ statSize \in 0 .. MaxSize
    /\ bytesStreamed \in 0 .. MaxSize /\ chunkIndex \in 0 .. MaxSize
    /\ wire \in Seq(Chunk)
    /\ end \in {"open", "eof", "broken"}
    /\ receiver \in {"receiving", "complete", "stored", "rejected"}
    /\ fileTransferZipBytes \in Seq(1 .. MaxSize)
    /\ nextExpectedChunkIndex \in 0 .. MaxSize
    /\ receivedFinalChunk \in BOOLEAN
    /\ faults \in 0 .. MaxFaults

(***************************************************************************)
(* An archive that the receiver unpacks has every position up to the size  *)
(* the file had when the transfer began, once and in order, and nothing    *)
(* else: no break of the stream and no change of the file's length is      *)
(* taken for the end of a shorter archive.  That the bytes at these places *)
(* were not rewritten meanwhile is not claimed.                            *)
(***************************************************************************)
AcceptedIsWholeFile ==
    receiver \in {"complete", "stored"} =>
        fileTransferZipBytes = [i \in 1 .. statSize |-> i]

(***************************************************************************)
(* Without a disturbance every transfer succeeds, whatever the size of the *)
(* file, a multiple of the chunk size included, and however short the      *)
(* reads are.  With one, both ends still come to an end.                   *)
(***************************************************************************)
TransferEnds ==
    <>[] /\ sender \in {"acknowledged", "failed"}
         /\ faults = 0 => sender = "acknowledged"
         /\ receiver \in {"stored", "rejected"}

-----------------------------------------------------------------------------

(* The upload as a call: it is over when both ends are done with it.       *)
CallStage ==
    IF sender = "acknowledged" THEN "uploaded"
    ELSE IF sender = "failed" /\ receiver \in {"stored", "rejected"} THEN "dead"
    ELSE "working"

Contract == INSTANCE WorkerCalls WITH
    stage <- CallStage,
    delivered <- CallStage # "working" /\ receiver = "stored",
    told <- "nothing"

(***************************************************************************)
(* However many chunks it takes and wherever the stream breaks, an upload  *)
(* is one step of the protocol: the results are stored, and the worker has *)
(* learned it or dies of an error, or it dies and nothing is stored.  No   *)
(* worker goes on to its safe end with results that were rejected.         *)
(***************************************************************************)
UploadIsOneCall == [][Contract!ResultsStored \/ Contract!Dies]_(Contract!vars)

-----------------------------------------------------------------------------
(* The inductive invariant behind AcceptedIsWholeFile.                     *)

FirstByte(chunk) == chunk.content[1]
LastByte(chunk) == chunk.content[1] + Len(chunk.content) - 1

(* Each chunk holds successive bytes of the file, and is final only when   *)
(* it reaches the size that Stat reported.                                 *)
ChunkInv ==
    \A k \in 1 .. Len(wire) :
        /\ wire[k].content # <<>>
        /\ \A i \in 1 .. Len(wire[k].content) :
              wire[k].content[i] = FirstByte(wire[k]) + i - 1
        /\ wire[k].final => LastByte(wire[k]) = statSize
        /\ wire[k].index < chunkIndex

(* What has arrived, what is under way and what is still to be sent follow *)
(* each other without a gap, as long as the receiver receives.             *)
OrderInv ==
    /\ fileTransferZipBytes = [i \in 1 .. Len(fileTransferZipBytes) |-> i]
    /\ receiver = "receiving" =>
          /\ wire # <<>> => FirstByte(wire[1]) = Len(fileTransferZipBytes) + 1
          /\ \A k \in 1 .. Len(wire) - 1 :
                FirstByte(wire[k + 1]) = LastByte(wire[k]) + 1
          /\ end = "open" =>
                bytesStreamed = IF wire = <<>> THEN Len(fileTransferZipBytes)
                                ELSE LastByte(wire[Len(wire)])

(* The final chunk is the last one that is accepted.                       *)
FinalInv ==
    /\ receivedFinalChunk => Len(fileTransferZipBytes) = statSize
    /\ receiver \in {"complete", "stored"} => receivedFinalChunk
    /\ sender = "opened" =>
          bytesStreamed = 0 /\ wire = <<>> /\ ~ receivedFinalChunk

IInv ==
    /\ TypeOK
    /\ chunkIndex <= bytesStreamed /\ nextExpectedChunkIndex <= chunkIndex
    /\ ChunkInv /\ OrderInv /\ FinalInv

=============================================================================
