------------------------------- MODULE Config -------------------------------
(***************************************************************************)
(* The configuration of a store (src/shared/validation.ts): what it may    *)
(* hold, which unknown keys are taken for a misspelt option, and the       *)
(* client that is built from it.  A value is its kind; a key that may be   *)
(* misspelt is a sequence of letters, <<letter, upper>>.                   *)
(***************************************************************************)
EXTENDS Naturals, SequencesExt

CONSTANTS
  Letters,
  MinLength,   \* the shortest key taken for a misspelling: 6
  MaxLength,   \* bound: letters of a key
  OptionWords  \* options' names, as sequences of letters

VARIABLES
  config,   \* the options given: a kind of value each
  key,      \* a key beside them, which may be a misspelt option; <<>> if none
  pc,       \* "begin", "refused", "built"
  client    \* the client used: "supplied", or what it was built from

vars == <<config, key, pc, client>>

-----------------------------------------------------------------------------
(* What each option takes *)

EnumMember == [distanceMetric |-> {"member"}, dataType |-> {"member"}, retryMode |-> {"member"}]
PageContentKey == {"null", "key"}             \* 1-63 characters, not __proto__, well-formed
NonFilterableKeys == {"strings"}              \* an array of well-formed strings
RelevanceScoreFn == {"function"}
WriteRateLimit == {"false", "rates"}          \* each rate positive and finite, or unset
Tags == {"tags"}                              \* 1-128 and 0-256 characters, well-formed
Region == {"name"}                            \* neither blank nor padded
Endpoint == {"url"}                           \* absolute, with a host
Credentials == {"function", "pair"}
MaxAttempts == {"positive"}
TimeoutOption == {"zero", "positive", "pastTimer"}
RequestTimeout == TimeoutOption \ {"pastTimer"}
BooleanOption == {"true", "false"}
Concurrency == {"positive"}
Names == {"name"}                             \* 3-63 of the characters a bucket's, an index's may have

(* A key of the caller's own goes with aws:kms, and with nothing else.     *)
Encryption == {"unset", "AES256", "aws:kms with key"}

Takes ==
  EnumMember @@
  [vectorBucketName |-> Names, indexName |-> Names,
   pageContentMetadataKey |-> PageContentKey, nonFilterableMetadataKeys |-> NonFilterableKeys,
   relevanceScoreFn |-> RelevanceScoreFn, writeRateLimit |-> WriteRateLimit, tags |-> Tags,
   encryptionConfiguration |-> Encryption, region |-> Region, endpoint |-> Endpoint,
   credentials |-> Credentials, maxAttempts |-> MaxAttempts,
   connectionTimeout |-> TimeoutOption, socketTimeout |-> TimeoutOption,
   requestTimeout |-> RequestTimeout, createIndexIfNotExist |-> BooleanOption,
   maxConcurrentBatchCalls |-> Concurrency,
   client |-> {"null", "S3VectorsClient", "other"}]  \* refused when it is resolved

(* Of what is refused: a value of another type, or of no use.              *)
Offered(option) == Takes[option] \cup {"null", "other", "aws:kms", "key without aws:kms"}

Given(option) == option \in DOMAIN config

-----------------------------------------------------------------------------
(* Misspelt options *)

Lower(word) == [i \in DOMAIN word |-> <<word[i][1], FALSE>>]

Least(a, b) == IF a < b THEN a ELSE b

(* Rows of the table of distances, each from the one above.                *)
EditDistance_NoSubstitution(a, b) ==
  LET row[i \in 0..Len(a), j \in 0..Len(b)] ==
        IF i = 0 THEN j ELSE IF j = 0 THEN i
        ELSE IF a[i] = b[j] THEN row[i - 1, j - 1]
        ELSE Least(row[i - 1, j], row[i, j - 1]) + 1
  IN row[Len(a), Len(b)]

EditDistance(a, b) ==
  LET row[i \in 0..Len(a), j \in 0..Len(b)] ==
        IF i = 0 THEN j ELSE IF j = 0 THEN i
        ELSE Least(Least(row[i - 1, j], row[i, j - 1]) + 1,
                   row[i - 1, j - 1] + (IF a[i] = b[j] THEN 0 ELSE 1))
  IN row[Len(a), Len(b)]

OptionMeantBy(word) ==
  {option \in OptionWords :
     \/ Lower(option) = Lower(word)
     \/ /\ Len(word) >= MinLength
        /\ IsPrefix(Lower(word), Lower(option)) \/ EditDistance(Lower(word), Lower(option)) <= 2}

NoMisspeltOption == key \in OptionWords \/ OptionMeantBy(key) = {}

-----------------------------------------------------------------------------
(* The client *)

ClientExclusiveOptions ==
  {"region", "credentials", "endpoint", "maxAttempts", "retryMode", "connectionTimeout",
   "socketTimeout", "requestTimeout"}

Supplied == Given("client") /\ config.client # "null"

ClientExclusivity == ~Supplied \/ \A option \in ClientExclusiveOptions : ~Given(option)

ValidConfig ==
  /\ NoMisspeltOption
  /\ \A option \in DOMAIN config \ {"client"} : config[option] \in Takes[option]
  /\ ClientExclusivity

Defaults == [connectionTimeout |-> "default", socketTimeout |-> "default"]

(* Of the options, those given; and a deadline on every request, if any.   *)
ResolveClient ==
  [option \in ClientExclusiveOptions \cap DOMAIN config |-> config[option]] @@ Defaults

Construct ==
  /\ pc = "begin"
  /\ IF ~ValidConfig \/ (Supplied /\ config.client # "S3VectorsClient")
       THEN pc' = "refused" /\ UNCHANGED client
       ELSE pc' = "built" /\ client' = IF Supplied THEN <<>> ELSE ResolveClient
  /\ UNCHANGED <<config, key>>

(* Bound: two options at most, or a key beside none.                       *)
Pairs == {{one, other} : one, other \in DOMAIN Takes}
Named == [vectorBucketName |-> "name", indexName |-> "name"]
Words == UNION {[1..n -> Letters \X BOOLEAN] : n \in 0..MaxLength}

Init ==
  /\ \/ key = <<>> /\ \E given \in Pairs :
                        config \in {c @@ Named : c \in
                                     [given -> UNION {Offered(option) : option \in given}]}
     \/ config = Named /\ key \in Words
  /\ pc = "begin" /\ client = <<>>

Next == Construct

Spec == Init /\ [][Next]_vars

-----------------------------------------------------------------------------
(* Properties *)

(* The words one letter dropped, added or replaced away, and one of case.  *)
Edits(word) ==
  {word} \cup {RemoveAt(word, i) : i \in DOMAIN word}
    \cup {InsertAt(word, i, <<l, FALSE>>) : i \in 1..(Len(word) + 1), l \in Letters}
    \cup {ReplaceAt(word, i, <<l, FALSE>>) : i \in DOMAIN word, l \in Letters}
WithinTwo == [option \in OptionWords |-> UNION {Edits(w) : w \in Edits(Lower(option))}]

Misspelt(word) ==
  /\ word \notin OptionWords
  /\ \E option \in OptionWords :
       \/ Lower(word) = Lower(option)
       \/ /\ Len(word) >= MinLength
          /\ \/ Lower(word) \in WithinTwo[option]
             \/ \E n \in 0..Len(option) : Lower(word) = SubSeq(Lower(option), 1, n)

(* No option a caller gave is silently without effect: an option of the    *)
(* client reaches the client used, as it was given; and a key that is      *)
(* ignored was no option's name misspelt, nor one refused anything else.   *)
NoOptionIgnored ==
  /\ pc = "built" =>
       /\ \A option \in ClientExclusiveOptions : Given(option) =>
            option \in DOMAIN client /\ client[option] = config[option]
       /\ ~Misspelt(key)
  /\ pc = "refused" /\ config = Named => Misspelt(key)

=============================================================================
