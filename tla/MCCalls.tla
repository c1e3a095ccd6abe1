------------------------------ MODULE MCCalls ------------------------------
(***************************************************************************)
(* Calls of every public method: every field usual, but for two at most,   *)
(* which take every value the code tells apart.                            *)
(***************************************************************************)
EXTENDS Calls

Usual ==
  [options |-> "object", vectors |-> "array", documents |-> "array", ids |-> "absent",
   batchSize |-> "absent", items |-> "some", signal |-> "live", model |-> "given",
   query |-> "text", k |-> "whole", filter |-> "absent", callbacks |-> "absent",
   metric |-> "cosine", mmr |-> "object", parameters |-> "good", queryVector |-> "storable", idList |-> "array",
   keys |-> "array", deleteAll |-> "absent", pageSize |-> "absent", config |-> "object",
   texts |-> "array", metadatas |-> "array", fields |-> "object", tags |-> "absent",
   built |-> "object", vectorStore |-> "store", threshold |-> "absent",
   searchKwargs |-> "absent", type |-> "known", input |-> "text", timeout |-> "absent",
   runSignal |-> "live"]

Unusual ==
  [options |-> {"absent", "null"} \cup NotABag, vectors |-> {"text", "fewer", "mixed"} \cup Unstorable,
   documents |-> {"text"} \cup NotDocuments \cup Unstorable,
   ids |-> {"array", "null", "text", "short"} \cup Malformed \cup Repeated,
   batchSize |-> {"whole"} \cup NotABatchSize, items |-> {"none"},
   signal |-> {"absent", "fired"} \cup NotASignal, model |-> {"stub"}, query |-> NotText, k |-> NotAK,
   filter |-> {"grammatical"} \cup NotAFilter, callbacks |-> {"callbacks"} \cup SignalInCallbacks,
   metric |-> NoScores, mmr |-> {"absent"} \cup NotABag,
   parameters |-> NotMmrParameters,
   queryVector |-> Unstorable, idList |-> NotAnArray \cup Malformed \cup Repeated,
   keys |-> {"absent"} \cup NotAnArray \cup Malformed \cup Repeated, deleteAll |-> {"given"},
   pageSize |-> {"whole"} \cup NotAPageSize, config |-> NotAConfig, texts |-> {"text", "mixed"},
   metadatas |-> {"object", "absent", "short", "badEntry", "text"}, fields |-> {"absent"} \cup NotABag,
   tags |-> NotTags, built |-> {"null"} \cup NotABag, vectorStore |-> {"absent"},
   threshold |-> {"finite", "infinite"} \cup NoScores, searchKwargs |-> {"object"} \cup NotABag,
   type |-> {"other"}, input |-> NotText, timeout |-> {"whole"} \cup NotATimeout,
   runSignal |-> {"absent", "fired"} \cup NotASignal]

Write == {"options", "documents", "ids", "batchSize", "items", "signal"}
Search == {"query", "k", "filter", "callbacks", "signal", "model"}
Factory == {"config", "documents", "ids", "batchSize", "items", "signal", "model"}
FieldsOf ==
  [addVectors |-> Write \cup {"vectors"},
   addDocuments |-> Write \cup {"model"},
   similaritySearchVectorWithScore |-> {"queryVector", "k", "filter", "signal"},
   similaritySearchWithScore |-> Search,
   similaritySearch |-> Search,
   similaritySearchWithRelevanceScores |-> Search \cup {"metric"},
   maxMarginalRelevanceSearch |-> (Search \ {"k"}) \cup {"mmr", "parameters"},
   delete |-> {"options", "keys", "deleteAll", "batchSize", "items", "signal"},
   deleteIndex |-> {"options", "signal"},
   getByIds |-> {"options", "idList", "batchSize", "items", "signal"},
   listDocuments |-> {"options", "pageSize", "signal"},
   listVectors |-> {"options", "pageSize", "signal"},
   fromDocuments |-> Factory,
   fromTexts |-> (Factory \ {"documents"}) \cup {"texts", "metadatas"},
   constructor |-> {"config"}]

Retriever == {"fields", "tags", "threshold", "filter", "signal"}
Invocation == {"input", "timeout", "runSignal", "signal", "model"}

(* The methods, a retriever's with its searchType, and their fields.       *)
Methods ==
  {<<name, "none", FieldsOf[name]>> : name \in DOMAIN FieldsOf}
    \cup {<<"retriever.addDocuments", "none", FieldsOf.addDocuments>>}
    \cup {<<"retriever.invoke", type, Invocation>> : type \in {"similarity", "mmr", "threshold"}}
    \cup {<<"asRetriever", "similarity", Retriever \cup {"k"}>>,
          <<"asRetriever", "mmr", Retriever \cup {"parameters", "searchKwargs"}>>,
          <<"asRetriever", "other", {"type", "fields"}>>,
          <<"retriever.constructor", "similarity", {"built", "vectorStore", "threshold"}>>}

(* No field of an empty input is wrong about an entry of it.               *)
OfAnEntry == NotDocuments \cup Unstorable \cup Malformed \cup Repeated \cup {"fewer", "mixed", "badEntry"}

Possible(name, value) ==
  /\ "items" \in DOMAIN value /\ value.items = "none" =>
       \A field \in DOMAIN value : value[field] \notin OfAnEntry
  /\ name = "retriever.invoke" => value.signal \notin NotASignal

(* Every field usual, but for two at most.                                 *)
ValuesOf(fields) ==
  LET Takes(field) == Unusual[field] \cup {Usual[field]}
      But(one, other) ==
        {[[f \in fields |-> Usual[f]] EXCEPT ![one] = v, ![other] = w] :
           v \in Takes(one), w \in Takes(other)}
  IN UNION {But(one, other) : one, other \in fields}

CallsOf(method) ==
  {[name |-> method[1], type |-> method[2], value |-> value] :
     value \in {v \in ValuesOf(method[3]) : Possible(method[1], v)}}

AllCalls == UNION {CallsOf(method) : method \in Methods}

=============================================================================
