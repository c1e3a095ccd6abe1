------------------------------ MODULE MCValues ------------------------------
(***************************************************************************)
(* Small inputs of everything that is decided about values before, or      *)
(* after, a request is made: one of the five modules at a time.            *)
(***************************************************************************)
EXTENDS WriteRequests

CONSTANTS r1, r2, r3, r4, r5, NoKey

VARIABLES
  mode,                           \* the module that runs
  heap, asked, kept, sent,        \* Filters; Flatten without sent
  document, array, pageKey, listed, index, built, vector, result,  \* Metadata, with asked, kept
  config, key, client             \* Config

written == <<vars, mode>>
walked == <<heap, asked, kept, sent>>
stored == <<document, array, pageKey, listed, index, built, vector, result>>
configured == <<config, key, client>>
writing == <<input, dimensions, ids, established, requests>>
all == <<written, walked, stored, configured>>

-----------------------------------------------------------------------------
(* Filters and metadata as graphs of up to five objects, without the       *)
(* differences nothing can reach.                                          *)
O == INSTANCE Objects WITH Refs <- {}, Heaps <- {}, Shapes <- {}

Reached(h) ==
  LET Next1(S) == S \cup UNION {{h[r].of[i][2] : i \in DOMAIN h[r].of} : r \in S \cap DOMAIN h}
  IN Next1(Next1(Next1(Next1({r1})))) \cap DOMAIN h
Tidy(heaps) ==
  {h \in heaps : \A r \in DOMAIN h \ Reached(h) : h[r] = O!Object(<<>>)}

FilterKeys == {"field", "lone", "$unknown", "$eq", "$gt", "$in", "$exists", "$and"}
FilterShapes ==
  LET values == {"string", "number", "boolean", "nan", r2, r3}
  IN {O!Object(<<>>), O!Array(<<>>), O!Array(<<r2, r3>>), O!Array(<<"string", "nan">>)}
       \cup {O!Array(<<v>>) : v \in values}
       \cup {O!Object(<<<<k, v>>>>) : k \in FilterKeys, v \in values}
       \cup {O!Object(<<<<k, "number">>, <<l, "string">>>>) : k, l \in {"$gt", "$eq", "field"}}

(* Two levels of logical operators below the root, one too many.           *)
FilterHeaps ==
  Tidy({h @@ (r4 :> O!Object(<<>>)) @@ (r5 :> O!Object(<<>>)) :
          h \in [{r1, r2, r3} -> FilterShapes]})
  \cup
  {(r1 :> O!Object(<<<<"$and", r2>>>>)) @@ (r2 :> O!Array(<<r3>>)) @@ (r3 :> O!Object(<<<<l, r4>>>>))
     @@ (r4 :> O!Array(<<r>>)) @@ (r5 :> O!Object(<<<<"field", "string">>>>)) :
     l \in {"$and", "$or"}, r \in {r3, r5}}

FlatKeys == {<<"a">>, <<"b">>, <<"a", "b">>, <<"">>}
FlatShapes ==
  LET values == {"string", "null", r2, r3}
  IN {O!Object(<<>>), O!Array(<<>>), O!Array(<<"string">>), [t |-> "throwing", of |-> <<>>]}
       \cup {O!Object(<<<<k, v>>>>) : k \in FlatKeys, v \in values}
       \cup {O!Object(<<<<k[1], v>>, <<k[2], w>>>>) :
               k \in {<<<<"a">>, <<"a", "b">>>>, <<<<"a">>, <<"b">>>>, <<<<"">>, <<"a">>>>},
               v, w \in values}
FlatHeaps == Tidy([{r1, r2, r3} -> FlatShapes])

F == INSTANCE Filters WITH
  Refs <- {r1, r2, r3, r4, r5}, Root <- r1, Heaps <- FilterHeaps, MAX_FILTER_DEPTH <- 1,
  Shapes <- {O!Object(<<>>), O!Array(<<>>), O!Object(<<<<"field", "string">>>>)}

T == INSTANCE Flatten WITH
  Refs <- {r1, r2, r3}, Root <- r1, Heaps <- FlatHeaps, MAX_DEPTH <- 2, MAX_NODES <- 4,
  Shapes <- {O!Array(<<>>), O!Object(<<>>)}

M == INSTANCE Metadata WITH
  Keys <- {"a", "page", "lone"}, MAX_METADATA_KEYS <- 2, FILTERABLE_BYTE_LIMIT <- 24,
  TOTAL_BYTE_LIMIT <- 30, MAX_NON_FILTERABLE_KEYS <- 1

(* Two options, of three and four letters.                                 *)
C == INSTANCE Config WITH
  Letters <- {"a", "b"}, MinLength <- 3, MaxLength <- 5,
  OptionWords <- {<<<<"b", FALSE>>, <<"b", FALSE>>, <<"b", TRUE>>>>,
                  <<<<"a", FALSE>>, <<"b", TRUE>>, <<"a", FALSE>>, <<"a", FALSE>>>>}

-----------------------------------------------------------------------------
NoWrite ==
  /\ embeds = FALSE /\ own = <<>> /\ bytes = <<>> /\ given = NotGiven /\ dimensions = <<>>
  /\ batchSize = 0 /\ fired = FALSE /\ ids = <<>> /\ established = 0 /\ requests = <<>>
NoGraph == heap = <<>> /\ asked = <<>> /\ kept = <<>> /\ sent = <<>>
NoStore ==
  /\ document = <<>> /\ array = <<>> /\ pageKey = "null" /\ listed = {} /\ index = <<>>
  /\ built = FALSE /\ vector = <<>> /\ result = <<>>
NoConfig == config = <<>> /\ key = <<>> /\ client = <<>>

AnyInit ==
  \/ mode = "write" /\ Init /\ NoGraph /\ NoStore /\ NoConfig
  \/ mode = "filter" /\ NoWrite /\ F!Init /\ NoStore /\ NoConfig
  \/ mode = "flatten" /\ NoWrite /\ T!Init /\ sent = <<>> /\ NoStore /\ NoConfig
  \/ mode = "metadata" /\ NoWrite /\ heap = <<>> /\ sent = <<>> /\ M!Init /\ NoConfig
  \/ mode = "config" /\ NoWrite /\ NoGraph /\ NoStore /\ C!Init

AnyNext ==
  /\ UNCHANGED mode
  /\ \/ mode = "write" /\ Next /\ UNCHANGED <<walked, stored, configured>>
     \/ mode = "filter" /\ F!Next /\ UNCHANGED <<writing, stored, configured>>
     \/ mode = "flatten" /\ T!Next /\ UNCHANGED <<writing, sent, stored, configured>>
     \/ mode = "metadata" /\ M!Next /\ UNCHANGED <<writing, heap, sent, configured>>
     \/ mode = "config" /\ C!Next /\ UNCHANGED <<writing, walked, stored>>

AnySpec == AnyInit /\ [][AnyNext]_all

-----------------------------------------------------------------------------
(* Properties *)

(* The properties of the four other modules, where they run.               *)
FilterAgrees == mode = "filter" => F!FilterAgrees
FlattenAgrees == mode = "flatten" => T!FlattenAgrees
RoundTrip == mode = "metadata" => M!RoundTrip
NoOptionIgnored == mode = "config" => C!NoOptionIgnored

=============================================================================
