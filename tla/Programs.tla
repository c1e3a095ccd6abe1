------------------------------ MODULE Programs ------------------------------
(***************************************************************************)
(* What each public method of the store, of its factories and of the       *)
(* retriever does, in the order of its code: the arguments it refuses, the *)
(* signal, the empty input, the model, and what it spends.  A stage is a   *)
(* check of a field of the call or one of the things done; it runs under   *)
(* an operation's name and inside the layers its failure passes through.   *)
(***************************************************************************)
EXTENDS Sequences

Refuse(field, values) == [kind |-> "check", field |-> field, refuses |-> values]
Do(kind) == [kind |-> kind, field |-> "none", refuses |-> {}]

(* What the checks refuse, as kinds of JavaScript values.                  *)
NotAnArray == {"null", "text", "object"}
NotABag == {"text", "array"}
NotDocuments == {"notObjects", "noText", "badMetadata", "throwing"}
Unstorable == {"unstorable"}
NotABatchSize == {"zero", "fraction", "tooLarge"}
NotAK == {"zero", "fraction", "tooLarge", "text"}
NotText == {"object", "null"}
NotAFilter == {"ungrammatical", "throwing"}
SignalInCallbacks == {"signal"}
Malformed == {"malformed"}
Repeated == {"repeated"}
NotAPageSize == {"zero", "fraction", "tooLarge"}
NotMmrParameters == {"badK", "badFetchK", "badLambda"}
NotATimeout == {"zero", "fraction", "tooLarge", "text"}
NotASignal == {"other"}
NotAConfig == {"text", "misspelt", "invalid", "throwing"}
NotTags == {"text", "mixed"}
NoScores == {"euclidean"}

-----------------------------------------------------------------------------
(* The actions *)

ResolveIds ==
  <<Refuse("ids", NotAnArray \ {"null"}), Refuse("documents", NotDocuments),
    Refuse("ids", {"short"}), Refuse("ids", Malformed), Refuse("ids", Repeated)>>

AddVectors ==
  <<Refuse("vectors", NotAnArray), Refuse("documents", NotAnArray),
    Refuse("vectors", {"fewer"})>>
  \o ResolveIds \o
  <<Refuse("batchSize", NotABatchSize), Refuse("documents", Unstorable),
    Refuse("vectors", Unstorable \cup {"mixed"})>>
  \o <<Do("signal"), Do("empty"), Do("write")>>

AddDocuments ==
  <<Refuse("documents", NotAnArray)>> \o ResolveIds \o
  <<Refuse("batchSize", NotABatchSize), Refuse("documents", Unstorable)>>
  \o <<Do("signal"), Do("empty"), Do("model"), Do("embedAndWrite")>>

QueryPages == <<Do("signal"), Do("query")>>

SearchByVector == <<Refuse("queryVector", Unstorable)>> \o QueryPages

FetchVectorsByIds ==
  <<Refuse("batchSize", NotABatchSize)>> \o <<Do("signal"), Do("empty"), Do("fetch")>>

MmrSearch == <<Refuse("queryVector", Unstorable)>> \o QueryPages \o FetchVectorsByIds

GetByIds ==
  <<Refuse("idList", NotAnArray), Refuse("idList", Malformed)>> \o FetchVectorsByIds

ListPages == <<Refuse("pageSize", NotAPageSize)>> \o <<Do("signal"), Do("list")>>

DeleteVectors ==
  <<Refuse("deleteAll", {"given"}), Refuse("keys", {"absent", "null"}), Refuse("keys", NotAnArray),
    Refuse("keys", Malformed), Refuse("keys", Repeated),
    Refuse("batchSize", NotABatchSize)>>
  \o <<Do("signal"), Do("empty"), Do("delete")>>

-----------------------------------------------------------------------------
(* The store *)

Options == <<Refuse("options", NotABag)>>

TextSearch_SignalFirst ==
  <<Refuse("query", NotText), Refuse("k", NotAK), Do("signal"),
    Refuse("filter", NotAFilter), Do("model"), Do("embed")>> \o SearchByVector

TextSearch ==
  <<Refuse("query", NotText), Refuse("k", NotAK), Refuse("filter", NotAFilter)>>
  \o <<Do("signal"), Do("model"), Do("embed")>> \o SearchByVector

MaxMarginalRelevanceSearch ==
  <<Refuse("callbacks", SignalInCallbacks), Refuse("query", NotText), Refuse("mmr", NotABag),
    Refuse("mmr", {"absent", "null"}), Refuse("parameters", NotMmrParameters),
    Refuse("filter", NotAFilter)>>
  \o <<Do("signal"), Do("model"), Do("embed")>> \o MmrSearch

SimilaritySearch == <<Refuse("callbacks", SignalInCallbacks)>> \o TextSearch

RelevanceScores ==
  <<Refuse("callbacks", SignalInCallbacks), Refuse("metric", NoScores)>>
  \o TextSearch \o <<Do("score")>>

StoreAddVectors == Options \o AddVectors
StoreAddDocuments == Options \o AddDocuments
SimilaritySearchVectorWithScore ==
  <<Refuse("k", NotAK), Refuse("filter", NotAFilter)>> \o SearchByVector
SimilaritySearchWithScore == SimilaritySearch
Delete == Options \o DeleteVectors
DeleteIndex == Options \o <<Do("signal"), Do("deleteIndex")>>
StoreGetByIds == Options \o GetByIds
ListDocuments == Options \o ListPages
ListVectors == Options \o ListPages

StoreOperation ==
  [addVectors |-> StoreAddVectors,
   addDocuments |-> StoreAddDocuments,
   similaritySearchVectorWithScore |-> SimilaritySearchVectorWithScore,
   similaritySearchWithScore |-> SimilaritySearchWithScore,
   similaritySearch |-> SimilaritySearch,
   similaritySearchWithRelevanceScores |-> RelevanceScores,
   maxMarginalRelevanceSearch |-> MaxMarginalRelevanceSearch,
   delete |-> Delete,
   deleteIndex |-> DeleteIndex,
   getByIds |-> StoreGetByIds,
   listDocuments |-> ListDocuments,
   listVectors |-> ListVectors]

(* The stages under an operation's name, inside layers, innermost first.   *)
In(stages, operation, layers) ==
  [i \in DOMAIN stages |-> [stage |-> stages[i], operation |-> operation, layers |-> layers]]

Operation(name) == <<[kind |-> "operation", name |-> name]>>
Instance == <<[kind |-> "instance", name |-> "fromDocuments"]>>

OfStore(name, outer) == In(StoreOperation[name], name, Operation(name) \o outer)

Constructor(outer) ==
  In(<<Refuse("config", NotAConfig)>>, "constructor", Operation("constructor") \o outer)

(* A write the factory makes fails with the store it was made on.          *)
FromDocuments(outer) ==
  Constructor(Operation("fromDocuments") \o outer)
  \o OfStore("addDocuments", Instance \o outer)

FromTexts ==
  In(<<Refuse("texts", NotAnArray), Refuse("texts", {"mixed"}),
       Refuse("metadatas", {"short", "badEntry", "text"})>>, "fromTexts", <<>>)
  \o FromDocuments(Operation("fromTexts"))

-----------------------------------------------------------------------------
(* The retriever *)

AssertSearchFields(type) ==
  CASE type = "mmr" ->
         <<Refuse("threshold", {"finite", "infinite", "euclidean"}),
           Refuse("searchKwargs", NotABag), Refuse("parameters", NotMmrParameters),
           Refuse("filter", NotAFilter), Refuse("signal", NotASignal)>>
    [] type = "similarity" ->
         <<Refuse("k", NotAK), Refuse("filter", NotAFilter), Refuse("threshold", {"infinite"}),
           Refuse("threshold", NoScores), Refuse("signal", NotASignal)>>
    [] type = "other" -> <<Refuse("type", {"other"})>>

RetrieverConstructor(type, outer) ==
  In(<<Refuse("built", NotABag \cup {"null"}), Refuse("vectorStore", {"absent"})>>,
     "retriever.constructor",
     Operation("retriever.constructor") \o outer)
  \o In(AssertSearchFields(type), "retriever.constructor", Operation("retriever.constructor") \o outer)

BuildRetriever(type) ==
  In(<<Refuse("tags", NotTags)>>, "asRetriever", Operation("asRetriever"))
  \o RetrieverConstructor(type, Operation("asRetriever"))

AsRetriever(type) ==
  In(<<Refuse("fields", NotABag)>>, "asRetriever", Operation("asRetriever")) \o BuildRetriever(type)

RetrieverAddDocuments == OfStore("addDocuments", Operation("retriever.addDocuments"))

GetRelevantDocuments(type) ==
  [similarity |-> "similaritySearch", mmr |-> "maxMarginalRelevanceSearch",
   threshold |-> "similaritySearchWithRelevanceScores"][type]

Invoke(type) ==
  In(<<Refuse("input", NotText), Refuse("timeout", NotATimeout), Refuse("runSignal", NotASignal)>>
       \o <<Do("race")>>, "retriever.invoke", Operation("retriever.invoke"))
  \o OfStore(GetRelevantDocuments(type), Operation("retriever.invoke"))

PublicMethods ==
  ((DOMAIN StoreOperation
      \cup {"constructor", "fromDocuments", "fromTexts", "retriever.addDocuments"}) \X {"none"})
  \cup ({"asRetriever", "retriever.constructor"} \X {"similarity", "mmr", "other"})
  \cup ({"retriever.invoke"} \X {"similarity", "mmr", "threshold"})

(* The program of a public method; type is a retriever's searchType.       *)
Program(name, type) ==
  CASE name \in DOMAIN StoreOperation -> OfStore(name, <<>>)
    [] name = "constructor" -> Constructor(<<>>)
    [] name = "fromDocuments" -> FromDocuments(<<>>)
    [] name = "fromTexts" -> FromTexts
    [] name = "retriever.constructor" -> RetrieverConstructor(type, <<>>)
    [] name = "asRetriever" -> AsRetriever(type)
    [] name = "retriever.addDocuments" -> RetrieverAddDocuments
    [] name = "retriever.invoke" -> Invoke(type)

=============================================================================
