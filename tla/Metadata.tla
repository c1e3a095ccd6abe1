------------------------------ MODULE Metadata ------------------------------
(***************************************************************************)
(* A document's metadata on its way to an index and back                   *)
(* (src/shared/metadata.ts): checked against the store's limits and its    *)
(* non-filterable keys, sent once the index exists, and read as a document *)
(* again; while the caller goes on using the arrays it gave away.          *)
(***************************************************************************)
EXTENDS Naturals, SequencesExt

CONSTANTS
  Keys,                  \* keys of the caller's metadata
  MAX_METADATA_KEYS, FILTERABLE_BYTE_LIMIT, TOTAL_BYTE_LIMIT,
  MAX_NON_FILTERABLE_KEYS

VARIABLES
  pageKey,   \* pageContentMetadataKey, or "null"
  listed,    \* config.nonFilterableMetadataKeys, which stays the caller's
  document,  \* the document given; a value "array" refers to the caller's array
  array,     \* what that array holds
  asked,     \* what it held when the write was called
  kept,      \* #nonFilterableMetadataKeys
  index,     \* the index's keys, once it exists
  built,     \* this store built it
  vector,    \* the record's metadata, then the stored vector's
  pc,        \* "begin", "refused", "checked", "ensured", "stored", "read"
  result     \* the document read, or the code of the error

vars == <<pageKey, listed, document, array, asked, kept, index, built, vector, pc, result>>

PageKey == "page"
Scalar(kind) == [kind |-> kind, of |-> <<>>]

(* The documents a caller writes, and what the one array it put in their   *)
(* metadata may hold.                                                      *)
Kinds == {"text", "long", "number", "boolean", "nan", "object", "array"}
Contents == {<<>>, <<"text">>, <<"number", "number">>, <<"text", "number">>}
Documents ==
  [content : {"text", "lone"}, metadata : UNION {[keys -> Kinds] : keys \in SUBSET Keys}]
NoDocument == [content |-> "none", metadata |-> <<>>]

-----------------------------------------------------------------------------
(* A store's keys *)

ResolveNonFilterableMetadataKeys ==
  listed \cup (IF pageKey = "null" THEN {} ELSE {pageKey})

MetadataKeysCreatable(keys) == Cardinality(keys) <= MAX_NON_FILTERABLE_KEYS

-----------------------------------------------------------------------------
(* Limits *)

ArrayAccepted(contents) ==
  contents # <<>> /\ (ToSet(contents) = {"text"} \/ ToSet(contents) = {"number"})

ValueAccepted(value) ==
  IF value.kind = "array" THEN ArrayAccepted(value.of)
  ELSE value.kind \in {"text", "long", "number", "boolean"}

ScalarBytes == [text |-> 2, long |-> 20, number |-> 4, boolean |-> 0]

ValueBytes(value) ==
  IF value.kind = "array" THEN FoldLeft(LAMBDA sum, kind : sum + 4 + ScalarBytes[kind], 0, value.of)
  ELSE ScalarBytes[value.kind]

(* 4 bytes an object, 8 an entry, a key of one byte.                       *)
ChargedBytes(metadata, keys) ==
  4 + MapThenSumSet(LAMBDA key : 8 + 1 + ValueBytes(metadata[key]), DOMAIN metadata \cap keys)

Unexempt(metadata, exempt) == DOMAIN metadata \ exempt

-----------------------------------------------------------------------------
(* A write *)

(* A value of the metadata sent: an array is copied.                       *)
Owned_Shared(value) == Scalar(value)

Owned(value) == IF value = "array" THEN [kind |-> "array", of |-> array] ELSE Scalar(value)

PutMetadata ==
  [key \in DOMAIN document.metadata \cup ({pageKey} \ {"null"}) |->
     IF key = pageKey THEN Scalar(document.content) ELSE Owned(document.metadata[key])]

Read(value) == IF value = Scalar("array") THEN [kind |-> "array", of |-> array] ELSE value

Storable(metadata) ==
  /\ \A key \in DOMAIN metadata : key # "lone" /\ ValueAccepted(Read(metadata[key]))
  /\ Cardinality(DOMAIN metadata) <= MAX_METADATA_KEYS

WithinLimits(metadata) ==
  LET bytes == [key \in DOMAIN metadata |-> Read(metadata[key])]
  IN /\ ChargedBytes(bytes, Unexempt(bytes, kept)) <= FILTERABLE_BYTE_LIMIT
     /\ ChargedBytes(bytes, DOMAIN bytes) <= TOTAL_BYTE_LIMIT

(* buildPutMetadata, as prepareRecords applies it before anything is spent.*)
BuildPutMetadata ==
  /\ pc = "begin" /\ asked' = array
  /\ IF pageKey \notin DOMAIN document.metadata /\ Storable(PutMetadata) /\ WithinLimits(PutMetadata)
       THEN pc' = "checked" /\ vector' = PutMetadata
       ELSE pc' = "refused" /\ UNCHANGED vector
  /\ UNCHANGED <<pageKey, listed, document, array, kept, index, built, result>>

(* An index is compared with, or built from, the configured list as it is  *)
(* at that moment.                                                         *)
Ensure ==
  /\ pc = "checked"
  /\ LET keys == ResolveNonFilterableMetadataKeys
     IN \/ /\ index = <<>> /\ MetadataKeysCreatable(keys)
           /\ index' = <<keys>> /\ built' = TRUE /\ pc' = "ensured"
        \/ /\ index = <<>> /\ ~MetadataKeysCreatable(keys)
           /\ pc' = "refused" /\ UNCHANGED <<index, built>>
        \/ /\ index # <<>>
           /\ pc' = (IF index[1] = keys THEN "ensured" ELSE "refused")
           /\ UNCHANGED <<index, built>>
  /\ UNCHANGED <<pageKey, listed, document, array, asked, kept, vector, result>>

(* PutVectors: the service measures against the index's keys.              *)
Put ==
  /\ pc = "ensured"
  /\ vector' = [key \in DOMAIN vector |-> Read(vector[key])]
  /\ pc' = IF ChargedBytes(vector', Unexempt(vector, index[1])) <= FILTERABLE_BYTE_LIMIT
             THEN "stored" ELSE "refused"
  /\ UNCHANGED <<pageKey, listed, document, array, asked, kept, index, built, result>>

-----------------------------------------------------------------------------
(* A read *)

Without(metadata, key) == [k \in DOMAIN metadata \ {key} |-> metadata[k]]

(* Page content is taken if it is text, and left where it is if not.       *)
CreateDocument ==
  /\ pc = "stored" /\ pc' = "read"
  /\ LET text == pageKey \in DOMAIN vector /\ vector[pageKey].kind \in {"text", "long", "other"}
     IN result' =
          IF \E key \in DOMAIN vector : vector[key].kind = "function"
            THEN [code |-> "AWS_INVALID_RESPONSE"]
          ELSE IF text THEN [content |-> vector[pageKey].kind, metadata |-> Without(vector, pageKey)]
          ELSE [content |-> "", metadata |-> vector]
  /\ UNCHANGED <<pageKey, listed, document, array, asked, kept, index, built, vector>>

(* The caller, which holds its arrays.                                     *)
CallerChangesArray ==
  /\ pc \in {"checked", "ensured", "stored"} /\ array = asked
  /\ array' \in Contents
  /\ UNCHANGED <<pageKey, listed, document, asked, kept, index, built, vector, pc, result>>

CallerChangesKeys ==
  /\ pc = "checked" /\ ResolveNonFilterableMetadataKeys = kept
  /\ listed' \in SUBSET Keys
  /\ UNCHANGED <<pageKey, document, array, asked, kept, index, built, vector, pc, result>>

(* A vector another program wrote.                                         *)
Foreign ==
  {[key \in {PageKey} |-> Scalar(kind)] : kind \in {"other", "number", "function"}}
    \cup {<<>>, [key \in Keys \cup {PageKey} |-> Scalar("number")]}

Init ==
  /\ pageKey \in {PageKey, "null"} /\ listed \in SUBSET Keys
  /\ kept = ResolveNonFilterableMetadataKeys /\ MetadataKeysCreatable(kept)
  /\ array \in Contents /\ asked = array
  /\ index \in {<<>>, <<kept>>} /\ built = FALSE
  /\ \/ document \in Documents /\ pc = "begin" /\ vector = <<>>
     \/ document = NoDocument /\ pc = "stored" /\ vector \in Foreign
  /\ result = <<>>

Next ==
  \/ BuildPutMetadata \/ Ensure \/ Put \/ CreateDocument
  \/ CallerChangesArray \/ CallerChangesKeys

Spec == Init /\ [][Next]_vars

-----------------------------------------------------------------------------
(* Properties *)

(* A document written is read back as it was when the call was made,       *)
(* whatever has become of the caller's arrays; and nothing of a vector     *)
(* another program wrote is lost.                                          *)
AsGiven(value) == IF value = "array" THEN [kind |-> "array", of |-> asked] ELSE Scalar(value)

RoundTrip ==
  pc = "read" /\ "content" \in DOMAIN result =>
    IF document = NoDocument
      THEN \A key \in DOMAIN vector :
             \/ key \in DOMAIN result.metadata /\ result.metadata[key] = vector[key]
             \/ key = pageKey /\ result.content = vector[key].kind
      ELSE /\ result.content = (IF pageKey = "null" THEN "" ELSE document.content)
           /\ result.metadata = [key \in DOMAIN document.metadata |-> AsGiven(document.metadata[key])]

(* What src/s3-vectors.ts says of #nonFilterableMetadataKeys: the budget   *)
(* is measured against the same set the index was built with.              *)
BudgetAsBuilt == built => index[1] = kept

=============================================================================
