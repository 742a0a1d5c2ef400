-------------------------- MODULE FileTransferProofs --------------------------
(***************************************************************************)
(* FileTransfer keeps its inductive invariant, for every chunk size, every *)
(* size of the file and any number of disturbances, and so what a receiver *)
(* accepts is the whole file.                                              *)
(***************************************************************************)
EXTENDS FileTransfer, SequenceTheorems, TLAPS

(***************************************************************************)
(* A chunk that is sent holds bytes of the file.                           *)
(***************************************************************************)
LEMMA SentChunk ==
    ASSUME TypeOK, NEW n \in 1 .. ChunkSize, SendChunk(n)
    PROVE  \E c \in Chunk :
              /\ wire' = Append(wire, c)
              /\ c.content = [i \in 1 .. n |-> bytesStreamed + i]
              /\ c.index = chunkIndex
              /\ c.final <=> bytesStreamed' = statSize
<1> DEFINE bytes == [i \in 1 .. n |-> bytesStreamed + i]
           c == [content |-> bytes, index |-> chunkIndex,
                 final |-> bytesStreamed' = statSize]
<1> USE FileTransferAssumption
<1>1. \A i \in 1 .. n : bytesStreamed + i \in 1 .. MaxSize
  BY DEF TypeOK, SendChunk
<1>2. bytes \in Seq(1 .. MaxSize)
  BY <1>1
<1>3. c \in Chunk
  BY <1>2 DEF TypeOK, Chunk
<1>4. wire' = Append(wire, c)
  BY DEF SendChunk
<1> QED
  BY <1>3, <1>4

(***************************************************************************)
(* What is under way is a sequence of chunks.                              *)
(***************************************************************************)
LEMMA WireFacts ==
    ASSUME TypeOK
    PROVE  /\ wire \in Seq(Chunk) /\ Len(wire) \in Nat
           /\ \A k \in 1 .. Len(wire) : wire[k] \in Chunk
           /\ <<>> \in Seq(Chunk)
           /\ \A c \in Chunk : Append(wire, c) \in Seq(Chunk)
<1>1. wire \in Seq(Chunk)
  BY DEF TypeOK
<1>2. \A c \in Chunk : Append(wire, c) \in Seq(Chunk)
  BY <1>1
<1>3. <<>> \in Seq(Chunk)
  OBVIOUS
<1> QED
  BY <1>1, <1>2, <1>3

(***************************************************************************)
(* The head of what is under way is a chunk.                               *)
(***************************************************************************)
LEMMA HeadChunk ==
    ASSUME TypeOK, wire # <<>>
    PROVE  /\ Head(wire) \in Chunk /\ Head(wire) = wire[1]
           /\ Len(wire) \in Nat \ {0} /\ 1 \in 1 .. Len(wire)
           /\ Tail(wire) \in Seq(Chunk) /\ Len(Tail(wire)) = Len(wire) - 1
           /\ \A k \in 1 .. Len(wire) - 1 : Tail(wire)[k] = wire[k + 1]
  BY DEF TypeOK

(***************************************************************************)
(* A broken connection delivers a prefix of what is under way.             *)
(***************************************************************************)
LEMMA Prefix ==
    ASSUME TypeOK, NEW k \in 0 .. Len(wire)
    PROVE  /\ SubSeq(wire, 1, k) \in Seq(Chunk)
           /\ Len(SubSeq(wire, 1, k)) = k
           /\ \A j \in 1 .. k : SubSeq(wire, 1, k)[j] = wire[j]
  BY DEF TypeOK

(***************************************************************************)
(* What sending n bytes adds to what is under way.                         *)
(***************************************************************************)
LEMMA SendFacts ==
    ASSUME TypeOK, NEW n \in 1 .. ChunkSize, SendChunk(n)
    PROVE  \E c \in Chunk :
              /\ Len(wire') = Len(wire) + 1
              /\ wire'[Len(wire) + 1] = c
              /\ \A k \in 1 .. Len(wire) : wire'[k] = wire[k]
              /\ c.content # <<>>
              /\ \A i \in 1 .. Len(c.content) : c.content[i] = FirstByte(c) + i - 1
              /\ FirstByte(c) = bytesStreamed + 1 /\ LastByte(c) = bytesStreamed'
              /\ c.final <=> bytesStreamed' = statSize
              /\ c.index < chunkIndex'
<1>1. PICK c \in Chunk :
         /\ wire' = Append(wire, c)
         /\ c.content = [i \in 1 .. n |-> bytesStreamed + i]
         /\ c.index = chunkIndex
         /\ c.final <=> bytesStreamed' = statSize
  BY SentChunk
<1>2. /\ Len(wire) \in Nat /\ Len(wire') = Len(wire) + 1
      /\ wire'[Len(wire) + 1] = c
      /\ \A k \in 1 .. Len(wire) : wire'[k] = wire[k]
  BY <1>1, WireFacts
<1>3. /\ n \in Nat \ {0} /\ Len(c.content) = n /\ c.content # <<>>
      /\ \A i \in 1 .. n : c.content[i] = bytesStreamed + i
  BY <1>1, FileTransferAssumption
<1>4. /\ bytesStreamed' = bytesStreamed + n /\ chunkIndex' = chunkIndex + 1
      /\ bytesStreamed \in Nat /\ chunkIndex \in Nat
  BY DEF SendChunk, TypeOK
<1>5. FirstByte(c) = bytesStreamed + 1 /\ LastByte(c) = bytesStreamed'
  BY <1>3, <1>4 DEF FirstByte, LastByte
<1>6. \A i \in 1 .. Len(c.content) : c.content[i] = FirstByte(c) + i - 1
  BY <1>3, <1>4, <1>5
<1>7. c.index < chunkIndex'
  BY <1>1, <1>4
<1> QED
  BY <1>1, <1>2, <1>3, <1>5, <1>6, <1>7

(***************************************************************************)
(* Every action keeps the types and the order of the counters.             *)
(***************************************************************************)
Counters == chunkIndex <= bytesStreamed /\ nextExpectedChunkIndex <= chunkIndex

LEMMA TypeStep ==
    ASSUME IInv, [Next]_vars PROVE TypeOK' /\ Counters'
<1> USE FileTransferAssumption DEF Counters
<1>0. TypeOK /\ Counters
  BY DEF IInv
<1>1. ASSUME NEW n \in 1 .. ChunkSize, SendChunk(n) PROVE TypeOK' /\ Counters'
  <2>1. wire' \in Seq(Chunk)
    <3>1. PICK c \in Chunk : wire' = Append(wire, c)
      BY <1>0, <1>1, SentChunk
    <3> QED
      BY <1>0, <3>1, WireFacts
  <2>2. /\ bytesStreamed' \in 0 .. MaxSize /\ chunkIndex' \in 0 .. MaxSize
        /\ Counters'
    BY <1>0, <1>1 DEF TypeOK, SendChunk, sink
  <2>3. UNCHANGED <<size, sender, statSize, end, receiver, fileTransferZipBytes,
                    nextExpectedChunkIndex, receivedFinalChunk, faults>>
    BY <1>1 DEF SendChunk, sink
  <2>4. /\ size' \in 1 .. MaxSize /\ statSize' \in 0 .. MaxSize
        /\ fileTransferZipBytes' \in Seq(1 .. MaxSize)
        /\ nextExpectedChunkIndex' \in 0 .. MaxSize /\ faults' \in 0 .. MaxFaults
    BY <1>0, <2>3 DEF TypeOK
  <2>5. /\ sender' \in {"opened", "streaming", "awaiting", "acknowledged", "failed"}
        /\ end' \in {"open", "eof", "broken"}
        /\ receiver' \in {"receiving", "complete", "stored", "rejected"}
        /\ receivedFinalChunk' \in BOOLEAN
    BY <1>0, <2>3 DEF TypeOK
  <2> QED
    BY <2>1, <2>2, <2>4, <2>5 DEF TypeOK
<1>2. ASSUME StatFile \/ ReachEOF \/ SenderSeesError \/ ReplyReceived
      PROVE  TypeOK' /\ Counters'
  BY <1>0, <1>2 DEF StatFile, ReachEOF, SenderSeesError, ReplyReceived, TypeOK,
                    source, sink
<1>3. ASSUME ReadFails \/ FileChanges PROVE TypeOK' /\ Counters'
  BY <1>0, <1>3 DEF ReadFails, FileChanges, Fault, TypeOK, source, sink
<1>4. ASSUME ReceiveChunk PROVE TypeOK' /\ Counters'
  <2> DEFINE c == Head(wire)
  <2>1. c \in Chunk /\ wire' \in Seq(Chunk) /\ c.index < chunkIndex
    BY <1>0, <1>4, HeadChunk DEF ReceiveChunk, Receiving, IInv, ChunkInv
  <2>2. fileTransferZipBytes' \in Seq(1 .. MaxSize) /\ receivedFinalChunk' \in BOOLEAN
    BY <1>0, <1>4, <2>1 DEF ReceiveChunk, TypeOK, Chunk
  <2>3. nextExpectedChunkIndex' \in 0 .. MaxSize /\ Counters'
    BY <1>0, <1>4, <2>1 DEF ReceiveChunk, Acceptable, TypeOK, source
  <2> QED
    BY <1>0, <1>4, <2>1, <2>2, <2>3 DEF ReceiveChunk, TypeOK, source
<1>5. ASSUME RejectChunk \/ ReceiverSeesEnd PROVE TypeOK' /\ Counters'
  <2>1. wire' \in Seq(Chunk)
    <3>1. wire' = wire \/ wire' = <<>>
      BY <1>5 DEF RejectChunk, ReceiverSeesEnd
    <3> QED
      BY <1>0, <3>1, WireFacts, Zenon
  <2>2. receiver' \in {"receiving", "complete", "stored", "rejected"}
    BY <1>5 DEF RejectChunk, ReceiverSeesEnd
  <2>3. UNCHANGED <<size, sender, source, end, fileTransferZipBytes,
                    nextExpectedChunkIndex, receivedFinalChunk, faults>>
    BY <1>5 DEF RejectChunk, ReceiverSeesEnd
  <2> QED
    BY <1>0, <2>1, <2>2, <2>3 DEF TypeOK, source
<1>6. ASSUME Unzip PROVE TypeOK' /\ Counters'
  <2>1. faults' \in 0 .. MaxFaults
    BY <1>0, <1>6 DEF Unzip, Fault, TypeOK
  <2>2. receiver' \in {"receiving", "complete", "stored", "rejected"}
    BY <1>6 DEF Unzip
  <2>3. UNCHANGED <<size, sender, source, wire, end, fileTransferZipBytes,
                    nextExpectedChunkIndex, receivedFinalChunk>>
    BY <1>6 DEF Unzip
  <2> QED
    BY <1>0, <2>1, <2>2, <2>3 DEF TypeOK, source
<1>7. ASSUME Break PROVE TypeOK' /\ Counters'
  <2>1. wire' \in Seq(Chunk)
    BY <1>0, <1>7, Prefix DEF Break
  <2> QED
    BY <1>0, <1>7, <2>1 DEF Break, Fault, TypeOK, source, sink
<1>8. ASSUME UNCHANGED vars PROVE TypeOK' /\ Counters'
  BY <1>0, <1>8 DEF TypeOK, vars, source, sink
<1> QED
  BY <1>1, <1>2, <1>3, <1>4, <1>5, <1>6, <1>7, <1>8 DEF Next, TransferStep

(***************************************************************************)
(* Every action keeps what is known of the chunks under way.               *)
(***************************************************************************)
LEMMA ChunkStep ==
    ASSUME IInv, TypeOK', [Next]_vars PROVE ChunkInv'
<1>0. TypeOK /\ ChunkInv
  BY DEF IInv
<1>1. ASSUME NEW n \in 1 .. ChunkSize, SendChunk(n) PROVE ChunkInv'
  <2>1. PICK c \in Chunk :
           /\ Len(wire') = Len(wire) + 1
           /\ wire'[Len(wire) + 1] = c
           /\ \A k \in 1 .. Len(wire) : wire'[k] = wire[k]
           /\ c.content # <<>>
           /\ \A i \in 1 .. Len(c.content) : c.content[i] = FirstByte(c) + i - 1
           /\ FirstByte(c) = bytesStreamed + 1 /\ LastByte(c) = bytesStreamed'
           /\ c.final <=> bytesStreamed' = statSize
           /\ c.index < chunkIndex'
    BY <1>0, <1>1, SendFacts
  <2>4. /\ chunkIndex' = chunkIndex + 1 /\ UNCHANGED statSize
        /\ chunkIndex \in Nat /\ Len(wire) \in Nat
    BY <1>0, <1>1, WireFacts DEF SendChunk, TypeOK
  <2>6. ASSUME NEW k \in 1 .. Len(wire)
        PROVE  /\ wire'[k].content # <<>>
               /\ \A i \in 1 .. Len(wire'[k].content) :
                     wire'[k].content[i] = FirstByte(wire'[k]) + i - 1
               /\ wire'[k].final => LastByte(wire'[k]) = statSize'
               /\ wire'[k].index < chunkIndex'
    <3>1. wire[k] \in Chunk
      BY <1>0, WireFacts
    <3> QED
      BY <1>0, <2>1, <2>4, <3>1 DEF ChunkInv, Chunk
  <2>8. \A k \in 1 .. Len(wire') : k \in 1 .. Len(wire) \/ k = Len(wire) + 1
    BY <2>1, <2>4
  <2> QED
    BY <2>1, <2>4, <2>6, <2>8 DEF ChunkInv
<1>2. ASSUME StatFile PROVE ChunkInv'
  BY <1>0, <1>2 DEF StatFile, IInv, FinalInv, ChunkInv
<1>3. ASSUME UNCHANGED <<wire, statSize, chunkIndex>> PROVE ChunkInv'
  BY <1>0, <1>3 DEF ChunkInv, FirstByte, LastByte
<1>4. ASSUME ReachEOF \/ SenderSeesError \/ ReplyReceived \/ ReadFails
             \/ FileChanges \/ ReceiverSeesEnd \/ Unzip \/ UNCHANGED vars
      PROVE  ChunkInv'
  <2>1. UNCHANGED <<wire, statSize, chunkIndex>>
    BY <1>4 DEF ReachEOF, SenderSeesError, ReplyReceived, ReadFails, FileChanges,
                ReceiverSeesEnd, Unzip, vars, source
  <2> QED
    BY <1>3, <2>1
<1>5. ASSUME ReceiveChunk PROVE ChunkInv'
  <2>1. wire' = Tail(wire) /\ UNCHANGED <<statSize, chunkIndex>> /\ wire # <<>>
    BY <1>5 DEF ReceiveChunk, Receiving, source
  <2>2. ASSUME NEW k \in 1 .. Len(wire')
        PROVE  k + 1 \in 1 .. Len(wire) /\ wire'[k] = wire[k + 1]
    BY <1>0, <2>1, HeadChunk
  <2> QED
    BY <1>0, <2>1, <2>2 DEF ChunkInv, FirstByte, LastByte
<1>6. ASSUME RejectChunk PROVE ChunkInv'
  BY <1>6 DEF RejectChunk, ChunkInv
<1>7. ASSUME Break PROVE ChunkInv'
  <2>1. PICK k \in 0 .. Len(wire) : wire' = SubSeq(wire, 1, k)
    BY <1>7 DEF Break
  <2>2. Len(wire') = k /\ \A j \in 1 .. k : wire'[j] = wire[j] /\ j \in 1 .. Len(wire)
    <3>1. Len(wire) \in Nat
      BY <1>0 DEF TypeOK
    <3> QED
      BY <1>0, <2>1, <3>1, Prefix
  <2>3. UNCHANGED <<statSize, chunkIndex>>
    BY <1>7 DEF Break, source
  <2> QED
    BY <1>0, <2>2, <2>3 DEF ChunkInv, FirstByte, LastByte
<1> QED
  BY <1>1, <1>2, <1>4, <1>5, <1>6, <1>7 DEF Next, TransferStep

(***************************************************************************)
(* The bytes 1, 2, ... followed by those that come next.                   *)
(***************************************************************************)
LEMMA Continued ==
    ASSUME NEW S, NEW a \in Seq(S), NEW b \in Seq(S),
           a = [i \in 1 .. Len(a) |-> i],
           \A i \in 1 .. Len(b) : b[i] = Len(a) + i
    PROVE  /\ Len(a \o b) = Len(a) + Len(b)
           /\ a \o b = [i \in 1 .. Len(a \o b) |-> i]
<1>1. Len(a \o b) = Len(a) + Len(b) /\ Len(a) \in Nat /\ Len(b) \in Nat
  OBVIOUS
<1>2. a \o b \in [1 .. Len(a \o b) -> S]
  BY a \o b \in Seq(S), LenProperties
<1>3. ASSUME NEW j \in 1 .. Len(a \o b) PROVE (a \o b)[j] = j
  <2>1. CASE j <= Len(a)
    BY <1>1, <2>1
  <2>2. CASE j > Len(a)
    <3>1. j - Len(a) \in 1 .. Len(b) /\ Len(a) + (j - Len(a)) = j
      BY <1>1, <2>2
    <3>2. (a \o b)[j] = b[j - Len(a)]
      BY <1>1, <2>2
    <3> QED
      BY <3>1, <3>2
  <2> QED
    BY <1>1, <2>1, <2>2
<1> QED
  BY <1>1, <1>2, <1>3

(***************************************************************************)
(* What a received chunk adds to the archive.                              *)
(***************************************************************************)
LEMMA ReceiveFacts ==
    ASSUME IInv, ReceiveChunk, fileTransferZipBytes' \in Seq(1 .. MaxSize)
    PROVE  /\ fileTransferZipBytes' = [i \in 1 .. Len(fileTransferZipBytes') |-> i]
           /\ Len(fileTransferZipBytes') = LastByte(wire[1])
<1>1. /\ TypeOK /\ ChunkInv /\ OrderInv /\ receiver = "receiving" /\ wire # <<>>
      /\ Head(wire) = wire[1] /\ wire[1] \in Chunk /\ 1 \in 1 .. Len(wire)
  BY HeadChunk DEF IInv, ReceiveChunk, Receiving
<1>2. PICK a \in Seq(1 .. MaxSize), b \in Seq(1 .. MaxSize) :
         /\ a = fileTransferZipBytes /\ b = wire[1].content
         /\ fileTransferZipBytes' = a \o b
  BY <1>1 DEF ReceiveChunk, TypeOK, Chunk
<1>3. a = [i \in 1 .. Len(a) |-> i]
  BY <1>1, <1>2 DEF OrderInv
<1>4. FirstByte(wire[1]) = Len(a) + 1
  BY <1>1, <1>2 DEF OrderInv
<1>5. \A i \in 1 .. Len(b) : b[i] = FirstByte(wire[1]) + i - 1
  BY <1>1, <1>2 DEF ChunkInv
<1>6. Len(a) \in Nat /\ Len(b) \in Nat
  OBVIOUS
<1>7. \A i \in 1 .. Len(b) : b[i] = Len(a) + i
  BY <1>4, <1>5, <1>6
<1>8. LastByte(wire[1]) = FirstByte(wire[1]) + Len(b) - 1
  BY <1>2 DEF LastByte, FirstByte
<1>9. LastByte(wire[1]) = Len(a) + Len(b)
  BY <1>4, <1>6, <1>8
<1>10. Len(a \o b) = Len(a) + Len(b) /\ a \o b = [i \in 1 .. Len(a \o b) |-> i]
  BY <1>3, <1>7, Continued
<1> QED
  BY <1>2, <1>9, <1>10

(***************************************************************************)
(* Every action keeps archive and chunks in sequence.                      *)
(***************************************************************************)
LEMMA OrderStep ==
    ASSUME IInv, TypeOK', [Next]_vars PROVE OrderInv'
<1>0. TypeOK /\ ChunkInv /\ OrderInv
  BY DEF IInv
<1>1. ASSUME NEW n \in 1 .. ChunkSize, SendChunk(n) PROVE OrderInv'
  <2>1. PICK c \in Chunk :
           /\ Len(wire') = Len(wire) + 1
           /\ wire'[Len(wire) + 1] = c
           /\ \A k \in 1 .. Len(wire) : wire'[k] = wire[k]
           /\ FirstByte(c) = bytesStreamed + 1 /\ LastByte(c) = bytesStreamed'
    BY <1>0, <1>1, SendFacts
  <2>2. /\ end = "open" /\ Len(wire) \in Nat
        /\ UNCHANGED <<end, receiver, fileTransferZipBytes>>
        /\ wire' # <<>> /\ (wire = <<>> <=> Len(wire) = 0)
    BY <1>0, <1>1, WireFacts DEF SendChunk, sink
  <2>3. CASE receiver = "receiving"
    <3>1. bytesStreamed = IF wire = <<>> THEN Len(fileTransferZipBytes)
                          ELSE LastByte(wire[Len(wire)])
      BY <1>0, <2>2, <2>3 DEF OrderInv
    <3>2. FirstByte(wire'[1]) = Len(fileTransferZipBytes) + 1
      BY <1>0, <2>1, <2>2, <2>3, <3>1 DEF OrderInv
    <3>3. \A k \in 1 .. Len(wire') - 1 :
             FirstByte(wire'[k + 1]) = LastByte(wire'[k]) + 1
      <4>1. TAKE k \in 1 .. Len(wire') - 1
      <4>2. CASE k < Len(wire)
        <5>1. k \in 1 .. Len(wire) - 1 /\ k \in 1 .. Len(wire) /\ k + 1 \in 1 .. Len(wire)
          BY <2>1, <2>2, <4>2
        <5> QED
          BY <1>0, <2>1, <2>3, <5>1 DEF OrderInv
      <4>3. CASE ~ k < Len(wire)
        <5>1. k = Len(wire) /\ k \in 1 .. Len(wire) /\ wire # <<>>
          BY <2>1, <2>2, <4>3
        <5> QED
          BY <2>1, <3>1, <5>1
      <4> QED
        BY <4>2, <4>3
    <3>4. bytesStreamed' = LastByte(wire'[Len(wire')])
      BY <2>1
    <3> QED
      BY <1>0, <2>2, <3>2, <3>3, <3>4 DEF OrderInv, FirstByte, LastByte
  <2> QED
    BY <1>0, <2>2, <2>3 DEF OrderInv
<1>2. ASSUME UNCHANGED <<wire, fileTransferZipBytes, bytesStreamed>>,
             receiver' = "receiving" => receiver = "receiving",
             end' = "open" => end = "open"
      PROVE  OrderInv'
  BY <1>0, <1>2 DEF OrderInv, FirstByte, LastByte
<1>3. ASSUME StatFile \/ ReachEOF \/ SenderSeesError \/ ReplyReceived \/ ReadFails
             \/ FileChanges \/ ReceiverSeesEnd \/ Unzip \/ UNCHANGED vars
      PROVE  OrderInv'
  <2>1. /\ UNCHANGED <<wire, fileTransferZipBytes, bytesStreamed>>
        /\ receiver' = "receiving" => receiver = "receiving"
        /\ end' = "open" => end = "open"
    BY <1>3 DEF StatFile, ReachEOF, SenderSeesError, ReplyReceived, ReadFails,
                FileChanges, ReceiverSeesEnd, Unzip, vars, source, sink
  <2> QED
    BY <1>2, <2>1
<1>4. ASSUME ReceiveChunk PROVE OrderInv'
  <2>1. /\ wire' = Tail(wire) /\ wire # <<>> /\ receiver = "receiving"
        /\ UNCHANGED <<receiver, end, bytesStreamed>>
    BY <1>4 DEF ReceiveChunk, Receiving, source
  <2>2. /\ Len(wire) \in Nat \ {0} /\ Len(wire') = Len(wire) - 1
        /\ \A k \in 1 .. Len(wire) - 1 : wire'[k] = wire[k + 1]
        /\ wire' = <<>> <=> Len(wire) = 1
    BY <1>0, <2>1, HeadChunk
  <2>3. /\ fileTransferZipBytes' = [i \in 1 .. Len(fileTransferZipBytes') |-> i]
        /\ Len(fileTransferZipBytes') = LastByte(wire[1])
    BY <1>4, ReceiveFacts DEF TypeOK
  <2>4. \A k \in 1 .. Len(wire) - 1 : FirstByte(wire[k + 1]) = LastByte(wire[k]) + 1
    BY <1>0, <2>1 DEF OrderInv
  <2>5. wire' # <<>> => FirstByte(wire'[1]) = Len(fileTransferZipBytes') + 1
    <3>1. CASE Len(wire) > 1
      <4>1. 1 \in 1 .. Len(wire) - 1
        BY <2>2, <3>1
      <4> QED
        BY <2>2, <2>3, <2>4, <4>1
    <3> QED
      BY <2>2, <3>1
  <2>6. \A k \in 1 .. Len(wire') - 1 :
           FirstByte(wire'[k + 1]) = LastByte(wire'[k]) + 1
    <3>1. TAKE k \in 1 .. Len(wire') - 1
    <3>2. /\ k \in 1 .. Len(wire) - 1 /\ k + 1 \in 1 .. Len(wire) - 1
      BY <2>2
    <3> QED
      BY <2>2, <2>4, <3>2
  <2>7. end = "open" =>
           bytesStreamed = IF wire' = <<>> THEN Len(fileTransferZipBytes')
                           ELSE LastByte(wire'[Len(wire')])
    <3>1. end = "open" => bytesStreamed = LastByte(wire[Len(wire)])
      BY <1>0, <2>1 DEF OrderInv
    <3>2. CASE Len(wire) = 1
      BY <2>2, <2>3, <3>1, <3>2
    <3>3. CASE Len(wire) > 1
      <4>1. Len(wire') \in 1 .. Len(wire) - 1 /\ Len(wire') + 1 = Len(wire)
        BY <2>2, <3>3
      <4> QED
        BY <2>2, <3>1, <3>3, <4>1
    <3> QED
      BY <2>2, <3>2, <3>3
  <2> QED
    BY <2>1, <2>3, <2>5, <2>6, <2>7 DEF OrderInv, FirstByte, LastByte
<1>5. ASSUME RejectChunk PROVE OrderInv'
  BY <1>0, <1>5 DEF RejectChunk, OrderInv
<1>6. ASSUME Break PROVE OrderInv'
  <2>1. PICK k \in 0 .. Len(wire) : wire' = SubSeq(wire, 1, k)
    BY <1>6 DEF Break
  <2>2. /\ Len(wire) \in Nat /\ Len(wire') = k
        /\ \A j \in 1 .. k : wire'[j] = wire[j]
        /\ wire' = <<>> <=> k = 0
        /\ wire = <<>> => k = 0
    BY <1>0, <2>1, Prefix, WireFacts
  <2>3. UNCHANGED <<receiver, fileTransferZipBytes>> /\ end' = "broken"
    BY <1>6 DEF Break, sink
  <2>4. ASSUME receiver = "receiving", k # 0
        PROVE  FirstByte(wire'[1]) = Len(fileTransferZipBytes) + 1
    BY <1>0, <2>2, <2>4 DEF OrderInv
  <2>5. ASSUME receiver = "receiving", NEW j \in 1 .. k - 1
        PROVE  FirstByte(wire'[j + 1]) = LastByte(wire'[j]) + 1
    <3>1. j \in 1 .. Len(wire) - 1 /\ j \in 1 .. k /\ j + 1 \in 1 .. k
      BY <2>2
    <3> QED
      BY <1>0, <2>2, <2>5, <3>1 DEF OrderInv
  <2> QED
    BY <1>0, <2>2, <2>3, <2>4, <2>5 DEF OrderInv, FirstByte, LastByte
<1> QED
  BY <1>1, <1>3, <1>4, <1>5, <1>6 DEF Next, TransferStep

(***************************************************************************)
(* Every action keeps what is known of the final chunk.                    *)
(***************************************************************************)
LEMMA FinalStep ==
    ASSUME IInv, TypeOK', [Next]_vars PROVE FinalInv'
<1>0. TypeOK /\ ChunkInv /\ FinalInv
  BY DEF IInv
<1>1. ASSUME NEW n \in 1 .. ChunkSize, SendChunk(n) PROVE FinalInv'
  BY <1>0, <1>1 DEF SendChunk, FinalInv, sink
<1>2. ASSUME StatFile \/ ReachEOF \/ SenderSeesError \/ ReplyReceived \/ ReadFails
             \/ FileChanges \/ ReceiverSeesEnd \/ Unzip
      PROVE  FinalInv'
  BY <1>0, <1>2 DEF StatFile, ReachEOF, SenderSeesError, ReplyReceived, ReadFails,
                    FileChanges, ReceiverSeesEnd, Unzip, FinalInv, source, sink
<1>3. ASSUME ReceiveChunk PROVE FinalInv'
  <2>1. /\ Head(wire) = wire[1] /\ wire # <<>> /\ 1 \in 1 .. Len(wire)
        /\ receivedFinalChunk' = wire[1].final /\ receiver = "receiving"
        /\ UNCHANGED <<receiver, sender, statSize>>
    BY <1>0, <1>3, HeadChunk DEF ReceiveChunk, Receiving, source
  <2>2. Len(fileTransferZipBytes') = LastByte(wire[1])
    BY <1>3, ReceiveFacts DEF TypeOK
  <2>3. wire[1].final => LastByte(wire[1]) = statSize
    BY <1>0, <2>1 DEF ChunkInv
  <2> QED
    BY <1>0, <2>1, <2>2, <2>3 DEF FinalInv
<1>4. ASSUME RejectChunk PROVE FinalInv'
  BY <1>0, <1>4 DEF RejectChunk, FinalInv, source
<1>5. ASSUME Break PROVE FinalInv'
  <2>1. PICK k \in 0 .. Len(wire) : wire' = SubSeq(wire, 1, k)
    BY <1>5 DEF Break
  <2>2. wire = <<>> => wire' = <<>>
    BY <1>0, <2>1, Prefix, WireFacts
  <2> QED
    BY <1>0, <1>5, <2>2 DEF Break, FinalInv, source, sink
<1>6. ASSUME UNCHANGED vars PROVE FinalInv'
  BY <1>0, <1>6 DEF vars, source, sink, FinalInv
<1> QED
  BY <1>1, <1>2, <1>3, <1>4, <1>5, <1>6 DEF Next, TransferStep

(***************************************************************************)
(* The invariant holds when the stream is opened.                          *)
(***************************************************************************)
LEMMA IInvInitially == Init => IInv
<1> SUFFICES ASSUME Init PROVE IInv
  OBVIOUS
<1> USE FileTransferAssumption DEF Init
<1>1. wire \in Seq(Chunk) /\ fileTransferZipBytes \in Seq(1 .. MaxSize)
  OBVIOUS
<1>2. TypeOK
  <2>1. /\ size \in 1 .. MaxSize /\ statSize \in 0 .. MaxSize
        /\ bytesStreamed \in 0 .. MaxSize /\ chunkIndex \in 0 .. MaxSize
        /\ nextExpectedChunkIndex \in 0 .. MaxSize /\ faults \in 0 .. MaxFaults
    OBVIOUS
  <2> QED
    BY <1>1, <2>1 DEF TypeOK
<1>3. /\ chunkIndex <= bytesStreamed /\ nextExpectedChunkIndex <= chunkIndex
      /\ ChunkInv /\ FinalInv
  BY DEF ChunkInv, FinalInv
<1>4. OrderInv
  BY DEF OrderInv
<1> QED
  BY <1>2, <1>3, <1>4 DEF IInv

(***************************************************************************)
(* FileTransfer keeps its invariant in every behaviour.                    *)
(***************************************************************************)
THEOREM Invariance == Spec => []IInv
<1>1. IInv /\ [Next]_vars => IInv'
  <2> SUFFICES ASSUME IInv, [Next]_vars PROVE IInv'
    OBVIOUS
  <2>1. TypeOK' /\ Counters'
    BY TypeStep
  <2>2. ChunkInv' /\ OrderInv' /\ FinalInv'
    BY <2>1, ChunkStep, OrderStep, FinalStep
  <2> QED
    BY <2>1, <2>2 DEF IInv, Counters
<1> QED
  BY <1>1, IInvInitially, PTL DEF Spec

(***************************************************************************)
(* ReceiveFileTransferChunks: what is accepted is every byte of the file,  *)
(* in order, whatever its size, however short the reads, and wherever the  *)
(* stream breaks or the file changes.                                      *)
(***************************************************************************)
THEOREM AcceptedIsWhole == Spec => []AcceptedIsWholeFile
<1>1. IInv => AcceptedIsWholeFile
  BY DEF IInv, OrderInv, FinalInv, AcceptedIsWholeFile
<1> QED
  BY <1>1, Invariance, PTL

(***************************************************************************)
(* The ends of an upload: an end that is done stays so, and a reply is     *)
(* only received of results that are stored.                               *)
(***************************************************************************)
RepliedIsStored == sender = "acknowledged" => receiver = "stored"

LEMMA EndsStay ==
    ASSUME [Next]_vars
    PROVE  /\ sender \in {"acknowledged", "failed"} => UNCHANGED sender
           /\ receiver \in {"stored", "rejected"} => UNCHANGED receiver
           /\ sender' = "acknowledged" => sender = "acknowledged" \/ receiver = "stored"
<1>1. ASSUME StatFile \/ (\E n \in 1 .. ChunkSize : SendChunk(n)) \/ ReachEOF
             \/ SenderSeesError \/ ReplyReceived \/ ReadFails \/ FileChanges
      PROVE  /\ UNCHANGED receiver /\ sender \notin {"acknowledged", "failed"}
             /\ sender' = "acknowledged" => receiver = "stored"
  BY <1>1 DEF StatFile, SendChunk, ReachEOF, SenderSeesError, ReplyReceived,
              ReadFails, FileChanges, sink
<1>2. ASSUME ReceiveChunk \/ RejectChunk \/ ReceiverSeesEnd \/ Unzip
      PROVE  UNCHANGED sender /\ receiver \notin {"stored", "rejected"}
  BY <1>2 DEF ReceiveChunk, RejectChunk, ReceiverSeesEnd, Unzip, Receiving
<1>3. ASSUME Break \/ UNCHANGED vars PROVE UNCHANGED <<sender, receiver>>
  BY <1>3 DEF Break, vars, sink
<1> QED
  BY <1>1, <1>2, <1>3 DEF Next, TransferStep

(***************************************************************************)
(* uploadFiles with WorkerUploadsFiles: an upload, chunk by chunk and with *)
(* every way it may break, is one call of the protocol that the main       *)
(* program and the registry keep to.                                       *)
(***************************************************************************)
THEOREM UploadRefines == Spec => UploadIsOneCall
<1> DEFINE OneCall == [Contract!ResultsStored \/ Contract!Dies]_(Contract!vars)
<1>1. Init => RepliedIsStored
  BY DEF Init, RepliedIsStored
<1>2. RepliedIsStored /\ [Next]_vars => RepliedIsStored'
  BY EndsStay DEF RepliedIsStored
<1>3. RepliedIsStored /\ [Next]_vars => OneCall
  <2> SUFFICES ASSUME RepliedIsStored, [Next]_vars PROVE OneCall
    OBVIOUS
  <2>1. CASE CallStage # "working"
    BY <2>1, EndsStay DEF CallStage, RepliedIsStored, Contract!vars
  <2>2. CASE CallStage = "working"
    <3>1. CASE CallStage' = "working"
      BY <2>2, <3>1 DEF Contract!vars
    <3>2. CASE CallStage' # "working" /\ receiver' = "stored"
      <4>1. CallStage' \in {"uploaded", "dead"}
        BY <3>2 DEF CallStage
      <4> QED
        BY <2>2, <3>2, <4>1 DEF Contract!ResultsStored
    <3>3. CASE CallStage' # "working" /\ receiver' # "stored"
      <4>1. CallStage' = "dead"
        BY <1>2, <3>3 DEF CallStage, RepliedIsStored
      <4> QED
        BY <2>2, <3>3, <4>1 DEF Contract!Dies
    <3> QED
      BY <3>1, <3>2, <3>3
  <2> QED
    BY <2>1, <2>2
<1> QED
  BY <1>1, <1>2, <1>3, PTL DEF Spec, UploadIsOneCall

=============================================================================
