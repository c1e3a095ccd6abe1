--------------------------- MODULE WriteRequests ---------------------------
(***************************************************************************)
(* How the input of a write becomes requests: the ids of the documents     *)
(* (src/internal/ids.ts), the checks, and the two levels of batches of     *)
(* addVectors and addDocuments (src/actions/add.ts, src/shared/batching.ts, *)
(* src/internal/request-size.ts).  What the requests meet once they are    *)
(* made is in BatchedRun and EmbedPipeline; here they are made in order.   *)
(*                                                                         *)
(* A document is its position in the input, and so is a vector: the one    *)
(* given, or embedded, for the document of that position.                  *)
(* addVectors refuses another number of vectors than of documents before   *)
(* anything else; here there are as many.                                  *)
(***************************************************************************)
EXTENDS Naturals, SequencesExt

CONSTANTS
  Ids,             \* storable ids
  NoId,            \* a document without one
  Malformed,       \* an id S3 Vectors would refuse
  NotGiven,        \* no options.ids
  MaxDocuments,    \* bound: documents of an input
  MaxBatchSize,    \* records of a PutVectors request
  MaxBytes,        \* bound: a record's key and metadata; 0 is metadata refused
  MaxDimension,    \* bound: components of a vector; 0 is a vector refused
  ComponentBytes,  \* MAX_COMPONENT_BYTES
  Budget           \* MAX_REQUEST_BODY_BYTES less the envelope

ASSUME WriteAssumption ==
  /\ MaxDocuments \in Nat /\ MaxBatchSize \in Nat \ {0} /\ MaxBytes \in Nat \ {0}
  /\ MaxDimension \in Nat \ {0} /\ ComponentBytes \in Nat \ {0} /\ Budget \in Nat

VARIABLES
  embeds,       \* addDocuments, or addVectors
  own,          \* the documents' own ids
  bytes,        \* what each record adds beside its vector
  given,        \* options.ids
  dimensions,   \* of the vectors given to addVectors, or embedded so far
  batchSize,
  fired,        \* the signal has fired when the call is made
  pc,           \* where the call is
  ids,          \* resolved: one per document
  established,  \* the dimension the first batch embedded has; 0 before
  requests      \* the requests made, in order

input == <<embeds, own, bytes, given, batchSize, fired>>
vars == <<input, dimensions, pc, ids, established, requests>>

Count == Len(own)

Lists(S, lengths) == UNION {[1..n -> S] : n \in lengths}

(* With options.ids, the documents' own are not looked at.                 *)
Init ==
  /\ embeds \in BOOLEAN /\ fired \in BOOLEAN /\ batchSize \in 0..(MaxBatchSize + 1)
  /\ \/ own \in Lists(Ids \cup {NoId, Malformed}, 0..MaxDocuments) /\ given = NotGiven
     \/ /\ own \in Lists({NoId}, 0..MaxDocuments)
        /\ given \in Lists(Ids \cup {Malformed}, 0..MaxDocuments)
  /\ bytes \in [1..Count -> 0..MaxBytes]
  /\ dimensions = <<>>
  /\ pc = "begin" /\ ids = <<>> /\ established = 0 /\ requests = <<>>

Smaller(m, n) == IF m < n THEN m ELSE n

Slice(s, offset, length) == SubSeq(s, offset + 1, Smaller(offset + length, Len(s)))

-----------------------------------------------------------------------------
(* Ids and checks *)

(* A UUID: the id of nothing else.                                         *)
Minted(i) == <<"uuid", i>>

ResolveWriteIds ==
  IF given = NotGiven
    THEN [i \in 1..Count |-> IF own[i] = NoId THEN Minted(i) ELSE own[i]]
    ELSE given

IdsAccepted_Repeated(s) == Len(s) = Count /\ Malformed \notin ToSet(s)

IdsAccepted(s) == Len(s) = Count /\ Malformed \notin ToSet(s) /\ IsInjective(s)

(* What the arguments alone decide, and addVectors' vectors do not.        *)
Accepted ==
  /\ IdsAccepted(ResolveWriteIds)
  /\ batchSize \in 1..MaxBatchSize
  /\ \A i \in 1..Count : bytes[i] > 0

(* assertWriteVectors: each is usable, and has the dimension set before,   *)
(* or that of the first.                                                   *)
VectorsAccepted_EachBatch(ds, expected) == \A i \in DOMAIN ds : ds[i] > 0 /\ ds[i] = ds[1]

VectorsAccepted(ds, expected) ==
  \A i \in DOMAIN ds : ds[i] > 0 /\ ds[i] = (IF expected > 0 THEN expected ELSE ds[1])

-----------------------------------------------------------------------------
(* Batches *)

(* chunk                                                                   *)
Chunk(s, n) == [b \in 1..((Len(s) + n - 1) \div n) |-> Slice(s, (b - 1) * n, n)]

(* recordBytesUpperBound                                                   *)
RecordBytes(i, dimension) == dimension * ComponentBytes + bytes[i]

(* requestRuns takes the records one by one, and closes a run before the   *)
(* record that would not fit.                                              *)
Take_BytesKept(acc, i, dimension, size) ==
  LET add == RecordBytes(i, dimension)
  IN  IF acc.run # <<>> /\ (Len(acc.run) >= size \/ acc.bytes + add > Budget)
        THEN [runs |-> Append(acc.runs, acc.run), run |-> <<i>>, bytes |-> acc.bytes + add]
        ELSE [runs |-> acc.runs, run |-> Append(acc.run, i), bytes |-> acc.bytes + add]

Take(acc, i, dimension, size) ==
  LET add == RecordBytes(i, dimension)
  IN  IF acc.run # <<>> /\ (Len(acc.run) >= size \/ acc.bytes + add > Budget)
        THEN [runs |-> Append(acc.runs, acc.run), run |-> <<i>>, bytes |-> add]
        ELSE [runs |-> acc.runs, run |-> Append(acc.run, i), bytes |-> acc.bytes + add]

RequestRuns(records, dimension, size) ==
  LET after[n \in 0..Len(records)] ==
        IF n = 0 THEN [runs |-> <<>>, run |-> <<>>, bytes |-> 0]
                 ELSE Take(after[n - 1], records[n], dimension, size)
      end == after[Len(records)]
  IN  IF end.run = <<>> THEN end.runs ELSE Append(end.runs, end.run)

(* offsetBatches: by actual length, whatever a batch was meant to hold.    *)
Offset_Nominal(batches, b, start) == start + (b - 1) * batchSize

Offset(batches, b, start) ==
  LET offset[n \in 1..b] == IF n = 1 THEN start ELSE offset[n - 1] + Len(batches[n - 1])
  IN  offset[b]

(* One PutVectors: the records, the vectors it pairs them with, and the    *)
(* ids it is reported as.                                                  *)
Put(records, offset, vectors) ==
  [records |-> records, vectors |-> vectors, reported |-> Slice(ids, offset, Len(records))]

Positions == [i \in 1..Count |-> i]

-----------------------------------------------------------------------------
(* addVectors and addDocuments *)

Refuses == pc' = "refused" /\ UNCHANGED <<ids, requests, established>>

(* Everything the arguments decide, then the signal, then an empty input.  *)
Check ==
  /\ pc = "begin"
  /\ IF embeds THEN UNCHANGED dimensions
               ELSE dimensions' \in [1..Count -> 0..MaxDimension]
  /\ LET inputAccepted == Accepted /\ VectorsAccepted(dimensions', 0)
     IN  \/ ~inputAccepted /\ Refuses
         \/ inputAccepted /\ fired /\ pc' = "aborted" /\ UNCHANGED <<ids, requests, established>>
         \/ /\ inputAccepted /\ ~fired /\ ids' = ResolveWriteIds
            /\ pc' = IF Count = 0 THEN "resolved" ELSE IF embeds THEN "embedding" ELSE "writing"
            /\ UNCHANGED <<requests, established>>
  /\ UNCHANGED input

(* addVectors: the vectors are in hand, so the first split is the last;    *)
(* the first run is put at offset 0, the others where it ends.             *)
WriteVectors ==
  /\ pc = "writing"
  /\ LET runs == RequestRuns(Positions, dimensions[1], batchSize)
         offset == [b \in 1..Len(runs) |-> IF b = 1 THEN 0
                                            ELSE Offset(Tail(runs), b - 1, Len(runs[1]))]
     IN  requests' = [b \in 1..Len(runs) |->
                        Put(runs[b], offset[b], Slice(Positions, offset[b], Len(runs[b])))]
  /\ pc' = "resolved"
  /\ UNCHANGED <<input, dimensions, ids, established>>

(* addDocuments: the next batch is embedded, and refused unless the model  *)
(* returned one usable vector per document, of the dimension of the first; *)
(* then it is split by size.                                               *)
EmbedBatch ==
  /\ pc = "embedding"
  /\ LET batches == Chunk(Positions, batchSize)
         done == Len(dimensions)
         batch == batches[done \div batchSize + 1]
     IN  \/ Refuses /\ UNCHANGED dimensions  \* the model throws, or returns another number
         \/ \E ds \in [DOMAIN batch -> 0..MaxDimension] :
              \/ ~VectorsAccepted(ds, established) /\ Refuses /\ UNCHANGED dimensions
              \/ /\ VectorsAccepted(ds, established)
                 /\ dimensions' = dimensions \o ds
                 /\ established' = IF established > 0 THEN established ELSE ds[1]
                 /\ LET runs == RequestRuns(batch, ds[1], Len(batch))
                        local == [b \in 1..Len(runs) |-> Offset(runs, b, 0)]
                    IN  requests' = requests \o
                          [b \in 1..Len(runs) |->
                             Put(runs[b], done + local[b], Slice(batch, local[b], Len(runs[b])))]
                 /\ pc' = IF done + Len(batch) = Count THEN "resolved" ELSE pc
                 /\ UNCHANGED ids
  /\ UNCHANGED input

Next == Check \/ WriteVectors \/ EmbedBatch

Spec == Init /\ [][Next]_vars

-----------------------------------------------------------------------------
(* Properties *)

(* Every record is sent with the vector made for it, and reported under    *)
(* the id it is stored under, through both levels of batches.              *)
PairedUp ==
  \A q \in DOMAIN requests :
    LET put == requests[q]
    IN  /\ put.vectors = put.records
        /\ put.reported = [i \in DOMAIN put.records |-> ids[put.records[i]]]

(* A write that resolves has sent every document once, in order, under an  *)
(* id no other has, so none overwrites another.  One that is refused has   *)
(* sent nothing, unless the refusal is of what a model returned for a      *)
(* later batch.                                                            *)
Sent == FlattenSeq([q \in DOMAIN requests |-> requests[q].records])

NothingLost ==
  /\ pc = "resolved" => Sent = Positions /\ Len(ids) = Count /\ IsInjective(ids)
  /\ pc = "refused" /\ ~embeds => requests = <<>>
  /\ pc # "resolved" => Sent = SubSeq(Positions, 1, Len(Sent))

(* What records add to the body of a request.                           *)
BodyBytes(records, dimension) ==
  LET sum[n \in 0..Len(records)] ==
        IF n = 0 THEN 0 ELSE sum[n - 1] + RecordBytes(records[n], dimension)
  IN  sum[Len(records)]

(* It holds at most a batch, fits unless it is one record, and ends where   *)
(* its batch does or the next record would not have fitted.                *)
Fits(records, embedded, dimension) ==
  LET next == Last(records) + 1
  IN  /\ Len(records) \in 1..batchSize
      /\ Len(records) = 1 \/ BodyBytes(records, dimension) <= Budget
      /\ \/ next > embedded \/ Len(records) = batchSize
         \/ embeds /\ Last(records) % batchSize = 0
         \/ BodyBytes(Append(records, next), dimension) > Budget

(* Every request fits the request body, and none is cut short.             *)
RequestsFit ==
  \A q \in DOMAIN requests : Fits(requests[q].records, Len(dimensions), dimensions[1])

(* The vectors a call sends can all be in one index, whichever batch they  *)
(* were embedded in.                                                       *)
OneDimension ==
  \A i, j \in ToSet(Sent) : dimensions[i] = dimensions[j] /\ dimensions[i] > 0

=============================================================================
