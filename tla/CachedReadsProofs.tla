-------------------------- MODULE CachedReadsProofs --------------------------
(***************************************************************************)
(* What a read answers, for every database and every sequence of changes   *)
(* to it, any number of overlapping calls, any arguments, any times to     *)
(* live and any delay.                                                     *)
(***************************************************************************)
EXTENDS CachedReads, TLAPS

-----------------------------------------------------------------------------
(* The inductive invariant.  An entry is what the call in its by fetched,  *)
(* after the check of the owner, from rows of a state of the database that *)
(* was current when the entry was filled; that call has the entry's key,   *)
(* and the entry ends one time to live after it was filled (EntryIsTrue).  *)
(* A call carries what it has fetched itself, or such an entry; how old    *)
(* that may be depends on whether the entry is still to be filled from it  *)
(* (CarriesTruth).                                                         *)

PHASES == {"idle", "resolving", "looking", "addresses", "answering"} \cup FETCHING

\* State v of the database was still current at time t.
CurrentAt(v, t) == v = db \/ wrote[v + 1] >= t

\* The check let call k pass, not after state v.
Passed(k, v) == \E u \in 1 .. db : u <= v /\ ~Denied(Contents[u], k)

\* x is what call k fetched, with rows of state v.
IsFetch(x, k, v) ==
    /\ Passed(k, v)
    /\ \E w \in 1 .. db : v <= w /\ x = Fetched(k, v, w)

EntryIsTrue(key) ==
    cache[key] # None =>
        /\ cache[key].of \in 1 .. db /\ cache[key].until >= now
        /\ KeyOf(cache[key].by) = key
        /\ IsFetch(cache[key].value, cache[key].by, cache[key].of)
        /\ cache[key].until <= now + ToolOf(cache[key].by).ttl
        /\ CurrentAt(cache[key].of,
                     cache[key].until - ToolOf(cache[key].by).ttl - MaxDelay)

\* k2 may be given the answer to k.
Serves(k, k2) == k = k2 \/ (KeyOf(k) # None /\ KeyOf(k) = KeyOf(k2))

WasRead(c) == IF phase[c] = "answering" THEN Answered(c) ELSE value[c]

Carries(c) ==
    IF phase[c] = "loading"
      THEN Passed(call[c], of[c]) /\ value[c] = Query(Contents[of[c]], call[c])
      ELSE IsFetch(WasRead(c), by[c], of[c])

CarriesTruth(c) ==
    c \in Carrying =>
        /\ of[c] \in 1 .. db
        /\ since[c] <= now /\ now <= since[c] + MaxDelay
        /\ phase[c] = "addresses" => tool = "get_account_info"
        /\ by[c] \in Resolved /\ Serves(by[c], call[c]) /\ Carries(c)
        /\ CurrentAt(of[c], since[c] - ToolOf(call[c]).ttl - MaxDelay)
        /\ phase[c] \in {"loading", "filling"} =>
             by[c] = call[c] /\ CurrentAt(of[c], since[c])

Truth ==
    /\ \A key \in Keys : EntryIsTrue(key)
    /\ \A c \in Clients : CarriesTruth(c)
    /\ \A c \in Clients : phase[c] = "fetching" => Passed(call[c], db)

\* A call looks up its key, or fills it, only if it has one.
Keyed ==
    \A c \in Clients : phase[c] \in {"looking", "filling"} => KeyFor(c) # None

TruthInv == TypeOK /\ Keyed /\ Truth

(* Between the calls for one key: at most one is about to fill it, and     *)
(* then it is empty (OneFills); nothing kept, and nothing about to be      *)
(* kept, is older than what any call of the key holds or has answered      *)
(* (NotBehind).                                                            *)

Has(c, key) == phase[c] \notin {"idle", "resolving"} /\ KeyFor(c) = key

OneFills(key) ==
    \A c \in Clients : (phase[c] \in FETCHING /\ KeyFor(c) = key) =>
        /\ cache[key] = None
        /\ \A d \in Clients :
             (phase[d] \in FETCHING /\ KeyFor(d) = key) => d = c

\* State v is no older than any the calls for the key know of.
Ahead(key, v) ==
    /\ v >= newest[key]
    /\ \A d \in Carrying : KeyFor(d) = key => v >= of[d]

NotBehind(key) ==
    /\ cache[key] # None => cache[key].of <= db /\ Ahead(key, cache[key].of)
    /\ \A c \in Clients :
         (phase[c] \in {"loading", "filling"} /\ KeyFor(c) = key) => Ahead(key, of[c])

FloorHolds(c, key) ==
    Has(c, key) => /\ floor[c] <= newest[key]
                   /\ (c \in Carrying /\ key \notin mixed) => of[c] >= floor[c]

WithoutRedis ==
    ~redis => /\ \A key \in Keys : cache[key] = None
              /\ \A c \in Clients : phase[c] \notin {"looking", "filling"}

KeyGoesForward(key) == key \notin mixed => OneFills(key) /\ NotBehind(key)

Forward ==
    /\ \A c \in Clients : \A key \in Keys : FloorHolds(c, key)
    /\ WithoutRedis
    /\ redis => \A key \in Keys : KeyGoesForward(key)

ForwardInv == TruthInv /\ Forward

-----------------------------------------------------------------------------
(* The calls, their keys and their answers.                                *)

Tools == {"get_orders", "get_order_detail", "get_order_items", "track_shipment",
          "get_refund_status", "search_products", "get_product_detail",
          "get_reviews", "get_account_info"}

LEMMA CallTool == \A k \in Calls : k.tool \in Tools
BY ConfigAssumption DEF ConfigAssumption, Call, OrderTools, Tools

LEMMA SameTool ==
    ASSUME UNCHANGED tool
    PROVE  Resolved' = Resolved /\ Keys' = Keys /\ Values' = Values
<1>1. Resolved' = Resolved
  BY DEF Resolved
<1>2. QED
  BY <1>1 DEF Keys, Values

LEMMA ResolvedTool ==
    ASSUME NEW k \in Resolved
    PROVE  k.tool = tool
BY DEF Resolved

LEMMA ResolvedInTools ==
    ASSUME TypeOK
    PROVE  tool \in Tools
BY CallTool DEF TypeOK

\* The time to live is the tool's, whatever the arguments.
LEMMA LifetimeOfTool ==
    ASSUME TypeOK, NEW k \in Resolved, NEW k2 \in Resolved
    PROVE  ToolOf(k).ttl = ToolOf(k2).ttl /\ ToolOf(k).ttl \in Nat
<1>1. k.tool = tool /\ k2.tool = tool /\ tool \in Tools
  BY ResolvedTool, ResolvedInTools
<1>2. /\ Ttl.order_status \in Nat /\ Ttl.product \in Nat
      /\ Ttl.product_search \in Nat /\ Ttl.account \in Nat
  BY ConfigAssumption DEF ConfigAssumption
<1>3. QED
  BY <1>1, <1>2 DEF Tools, ToolOf, Tool, GetOrders, GetOrderDetail, GetOrderItems,
     TrackShipment, GetRefundStatus, ProductSearch, GetProductDetail, GetReviews,
     GetAccountInfo

\* A call without a product's name has the fields of its tool.
LEMMA ResolvedFields ==
    ASSUME NEW k \in Resolved
    PROVE  /\ tool = "get_refund_status" =>
                k = [tool |-> tool, user |-> k.user, refund |-> k.refund]
           /\ tool = "get_account_info" => k = [tool |-> tool, user |-> k.user]
           /\ tool = "search_products" =>
                k = [tool |-> tool, keyword |-> k.keyword, category |-> k.category,
                     brand |-> k.brand, min_price |-> k.min_price,
                     max_price |-> k.max_price, limit |-> k.limit, offset |-> k.offset]
BY ConfigAssumption DEF ConfigAssumption, Resolved, Call, OrderTools

LEMMA ReviewsKey ==
    ASSUME NEW k
    PROVE  GetReviews(k).key = IF ReviewsCached(k) THEN <<"reviews", k.product>> ELSE None
BY DEF GetReviews, Tool

\* Two calls of one key differ at most in what the key leaves out.
LEMMA SameKey ==
    ASSUME TypeOK, NEW k \in Resolved, NEW j \in Resolved, Serves(k, j)
    PROVE  SameAnswer(k, j)
<1>1. k.tool = tool /\ j.tool = tool /\ tool \in Tools
  BY ResolvedTool, ResolvedInTools
<1>2. CASE k = j
  BY <1>2 DEF SameAnswer, SameArguments
<1> SUFFICES ASSUME KeyOf(k) # None, KeyOf(k) = KeyOf(j)
             PROVE  SameAnswer(k, j)
  BY <1>2 DEF Serves
<1>3. CASE tool = "get_orders"
  <2>1. KeyOf(k) = <<"order_status", k.user>> /\ KeyOf(j) = <<"order_status", j.user>>
    BY <1>1, <1>3 DEF KeyOf, ToolOf, Tool, GetOrders
  <2>2. <<"order_status", k.user>>[2] = <<"order_status", j.user>>[2]
    BY <2>1
  <2>3. QED
    BY <1>3, <2>2 DEF SameAnswer
<1>4. CASE tool \in OrderTools
  <2>1. k.order = j.order
    BY <1>1, <1>4
       DEF OrderTools, KeyOf, ToolOf, Tool, GetOrderDetail, GetOrderItems, TrackShipment
  <2>2. QED
    BY <1>4, <2>1 DEF SameAnswer
<1>5. CASE tool = "get_refund_status"
  <2>1. k.refund = None /\ j.refund = None
    BY <1>1, <1>5 DEF KeyOf, ToolOf, Tool, GetRefundStatus
  <2>2. KeyOf(k) = <<"refunds", k.user>> /\ KeyOf(j) = <<"refunds", j.user>>
    BY <1>1, <1>5, <2>1 DEF KeyOf, ToolOf, Tool, GetRefundStatus
  <2>3. <<"refunds", k.user>>[2] = <<"refunds", j.user>>[2]
    BY <2>2
  <2>4. k = j
    BY <1>5, <2>1, <2>3, ResolvedFields
  <2>5. QED
    BY <2>4 DEF SameAnswer, SameArguments
<1>6. CASE tool = "search_products"
  <2>1. /\ k.keyword = j.keyword /\ k.category = j.category
        /\ k.brand = j.brand /\ k.min_price = j.min_price
        /\ k.max_price = j.max_price /\ Clamp(k.limit) = Clamp(j.limit)
        /\ Max({0, k.offset}) = Max({0, j.offset})
    BY <1>1, <1>6 DEF KeyOf, ToolOf, Tool, ProductSearch
  <2>2. ASSUME NEW f \in DOMAIN k \ {"limit", "offset"} PROVE k[f] = j[f]
    <3>1. f \in {"tool", "keyword", "category", "brand", "min_price", "max_price"}
      BY <1>6, ResolvedFields
    <3>2. QED
      BY <1>1, <2>1, <3>1
  <2>3. QED
    BY <1>6, <2>1, <2>2 DEF SameAnswer, SameArguments
<1>7. CASE tool = "get_product_detail"
  <2>1. k.id = j.id
    BY <1>1, <1>7 DEF KeyOf, ToolOf, Tool, GetProductDetail
  <2>2. QED
    BY <1>7, <2>1 DEF SameAnswer, SameArguments
<1>8. CASE tool = "get_reviews"
  <2>1. KeyOf(k) = GetReviews(k).key /\ KeyOf(j) = GetReviews(j).key
    BY <1>1, <1>8 DEF KeyOf, ToolOf
  <2>2. ReviewsCached(k) /\ ReviewsCached(j)
    BY <2>1 DEF GetReviews, Tool
  <2>3. k.product = j.product
    <3>1. KeyOf(k) = <<"reviews", k.product>> /\ KeyOf(j) = <<"reviews", j.product>>
      BY <2>1, <2>2, ReviewsKey
    <3>2. <<"reviews", k.product>>[2] = <<"reviews", j.product>>[2]
      BY <3>1
    <3>3. QED
      BY <3>2
  <2>4. QED
    BY <1>8, <2>2, <2>3 DEF SameAnswer, ReviewsCached
<1>9. CASE tool = "get_account_info"
  <2>1. KeyOf(k) = <<"account", k.user>> /\ KeyOf(j) = <<"account", j.user>>
    BY <1>1, <1>9 DEF KeyOf, ToolOf, Tool, GetAccountInfo
  <2>2. <<"account", k.user>>[2] = <<"account", j.user>>[2]
    BY <2>1
  <2>3. k = j
    BY <1>9, <2>2, ResolvedFields
  <2>4. QED
    BY <2>3 DEF SameAnswer, SameArguments
<1>10. QED
  BY <1>1, <1>3, <1>4, <1>5, <1>6, <1>7, <1>8, <1>9 DEF Tools, OrderTools

LEMMA KeyOfCall ==
    ASSUME NEW k \in Resolved, KeyOf(k) # None
    PROVE  KeyOf(k) \in Keys
BY DEF Keys

LEMMA ReadIsValue ==
    ASSUME TypeOK, NEW k \in Resolved, NEW v \in 1 .. db, NEW x, IsFetch(x, k, v)
    PROVE  x \in Values
<1>1. 1 .. db \subseteq DOMAIN Contents
  BY ConfigAssumption DEF ConfigAssumption, TypeOK
<1>2. QED
  BY <1>1 DEF IsFetch, Values

\* A query that begins with its rows has no check to pass.
LEMMA PassesUnchecked ==
    ASSUME TypeOK, NEW k \in Resolved, First(k) = "fetching"
    PROVE  Passed(k, db)
<1>1. db \in 1 .. db /\ db <= db
  BY ConfigAssumption DEF ConfigAssumption, TypeOK
<1>2. QED
  BY <1>1 DEF First, Denied, Passed

-----------------------------------------------------------------------------
(* Types.                                                                  *)

LEMMA InitType == Init => TypeOK
<1> SUFFICES ASSUME Init PROVE TypeOK
  OBVIOUS
<1>1. Len(Contents) \in Nat \ {0}
  BY ConfigAssumption DEF ConfigAssumption
<1>2. wrote \in Seq(Nat) /\ Len(wrote) = 1
  BY DEF Init
<1>3. ClientTypeOK
  BY DEF Init, ClientTypeOK, Optional
<1>4. QED
  BY <1>1, <1>2, <1>3 DEF Init, TypeOK, Optional

\* The shared variables are left alone but for these.
LEMMA SharedType ==
    ASSUME TypeOK, UNCHANGED <<now, tool, redis, db, wrote>>, ClientTypeOK',
           cache' \in [Keys -> Optional([value : Values, of : Nat, by : Resolved, until : Nat])],
           newest' \in [Keys -> 0 .. db], mixed' \subseteq Keys
    PROVE  TypeOK'
<1>1. Keys' = Keys /\ Values' = Values /\ Resolved' = Resolved
  BY SameTool
<1>2. redis' \in BOOLEAN
  BY DEF TypeOK
<1>3. QED
  BY <1>1, <1>2 DEF TypeOK

LEMMA TickType == TypeOK /\ Tick => TypeOK'
<1> SUFFICES ASSUME TypeOK, Tick PROVE TypeOK'
  OBVIOUS
<1>1. Keys' = Keys /\ Values' = Values /\ Resolved' = Resolved
  BY SameTool DEF Tick
<1>2. ClientTypeOK'
  BY <1>1 DEF Tick, TypeOK, ClientTypeOK
<1>3. cache' \in [Keys -> Optional([value : Values, of : Nat, by : Resolved, until : Nat])]
  BY DEF Tick, TypeOK, Optional
<1>4. redis' \in BOOLEAN
  BY DEF Tick, TypeOK
<1>5. now' \in Nat /\ UNCHANGED <<tool, db, wrote, newest, mixed>>
  BY DEF Tick, TypeOK
<1>6. QED
  BY <1>1, <1>2, <1>3, <1>4, <1>5 DEF TypeOK

LEMMA ShopWritesType == TypeOK /\ ShopWrites => TypeOK'
<1> SUFFICES ASSUME TypeOK, ShopWrites PROVE TypeOK'
  OBVIOUS
<1>1. Keys' = Keys /\ Values' = Values /\ Resolved' = Resolved
  BY SameTool DEF ShopWrites
<1>2. db \in Nat /\ db' = db + 1 /\ db' \in 1 .. Len(Contents) /\ 0 .. db \subseteq 0 .. db'
  BY ConfigAssumption DEF ConfigAssumption, ShopWrites, TypeOK
<1>3. ClientTypeOK'
  BY <1>1, <1>2 DEF ShopWrites, TypeOK, ClientTypeOK
<1>4. wrote' \in Seq(Nat) /\ Len(wrote') = db'
  BY <1>2 DEF ShopWrites, TypeOK
<1>5. redis' \in BOOLEAN
  BY DEF ShopWrites, TypeOK
<1>6. QED
  BY <1>1, <1>2, <1>3, <1>4, <1>5 DEF ShopWrites, TypeOK

\* A client whose variables are left alone keeps its type, and so do all if it
\* is only c that changes, to something of its type.
LEMMA ClientStep ==
    ASSUME TypeOK, NEW c \in Clients, UNCHANGED <<tool, db>>,
           NEW p, NEW k, NEW t, NEW v, NEW f, NEW b,
           phase' = [phase EXCEPT ![c] = p], call' = [call EXCEPT ![c] = k],
           DOMAIN value' = Clients,
           since' = [since EXCEPT ![c] = t], of' = [of EXCEPT ![c] = v],
           by' = [by EXCEPT ![c] = b], floor' = [floor EXCEPT ![c] = f],
           p \in PHASES, b \in Optional(Resolved),
           p = "resolving" => k \in Calls /\ k.tool = tool /\ ByName(k),
           p \notin {"idle", "resolving"} => k \in Resolved, p = "idle" => k = None,
           t \in Nat, v \in 0 .. db, f \in 0 .. db
    PROVE  ClientTypeOK'
<1>1. Resolved' = Resolved
  BY SameTool
<1>2. /\ phase' \in [Clients -> PHASES] /\ by' \in [Clients -> Optional(Resolved')]
      /\ DOMAIN value' = Clients
      /\ since' \in [Clients -> Nat]
      /\ of' \in [Clients -> 0 .. db'] /\ floor' \in [Clients -> 0 .. db']
  BY <1>1 DEF TypeOK, ClientTypeOK, PHASES
<1>3. ASSUME NEW d \in Clients
      PROVE  /\ phase'[d] = "resolving" =>
                  call'[d] \in Calls /\ call'[d].tool = tool' /\ ByName(call'[d])
             /\ phase'[d] \notin {"idle", "resolving"} => call'[d] \in Resolved'
  <2>1. CASE d = c
    BY <1>1, <2>1 DEF TypeOK, ClientTypeOK
  <2>2. CASE d # c
    <3>1. phase'[d] = phase[d] /\ call'[d] = call[d]
      BY <2>2 DEF TypeOK, ClientTypeOK
    <3>2. QED
      BY <1>1, <3>1 DEF TypeOK, ClientTypeOK
  <2>3. QED
    BY <2>1, <2>2
<1>4. call' \in [Clients -> Optional(Calls \cup Resolved')]
  <2>1. k \in Optional(Calls \cup Resolved)
    BY DEF Optional
  <2>2. QED
    BY <1>1, <2>1 DEF TypeOK, ClientTypeOK
<1>5. QED
  BY <1>2, <1>3, <1>4 DEF ClientTypeOK, PHASES

LEMMA OverType ==
    ASSUME TypeOK, NEW c \in Clients, Over(c), UNCHANGED <<tool, db>>
    PROVE  ClientTypeOK'
<1>1. 0 \in 0 .. db /\ DOMAIN value' = Clients
  BY ConfigAssumption DEF ConfigAssumption, Over, TypeOK, ClientTypeOK
<1>2. QED
  BY <1>1, ClientStep DEF Over, Optional, PHASES

\* A call under way has its key, and its client the types of the others.
LEMMA BusyCall ==
    ASSUME TypeOK, NEW c \in Clients, phase[c] \notin {"idle", "resolving"}
    PROVE  /\ call[c] \in Resolved /\ call[c].tool = tool
           /\ KeyFor(c) # None => KeyFor(c) \in Keys
<1>1. call[c] \in Resolved
  BY DEF TypeOK, ClientTypeOK
<1>2. QED
  BY <1>1, ResolvedTool, KeyOfCall DEF KeyFor

LEMMA ClientValues ==
    ASSUME TypeOK, NEW c \in Clients
    PROVE  /\ since[c] \in Nat /\ of[c] \in 0 .. db /\ floor[c] \in 0 .. db
           /\ db \in Nat /\ by[c] \in Optional(Resolved)
BY ConfigAssumption DEF ConfigAssumption, TypeOK, ClientTypeOK

LEMMA WhereType ==
    ASSUME NEW k
    PROVE  /\ Where(k) \in {"checking", "fetching", "looking"}
           /\ First(k) \in {"checking", "fetching"}
BY DEF Where, First

LEMMA ThenType ==
    ASSUME NEW c
    PROVE  Then(c) \in {"addresses", "answering"}
BY DEF Then

LEMMA FloorType ==
    ASSUME TypeOK, NEW k \in Resolved
    PROVE  Floor(k) \in 0 .. db
<1>1. db \in Nat
  BY ConfigAssumption DEF ConfigAssumption, TypeOK
<1>2. KeyOf(k) # None => newest[KeyOf(k)] \in 0 .. db
  BY KeyOfCall DEF TypeOK
<1>3. QED
  BY <1>1, <1>2 DEF Floor

\* A call that may be given an answer: its product is named by an id.
LEMMA StartsResolved ==
    ASSUME TypeOK, NEW k \in Calls, k.tool = tool, ~ByName(k)
    PROVE  k \in Resolved
BY DEF Resolved, ByName

LEMMA StartType ==
    ASSUME TypeOK, NEW c \in Clients, NEW k \in Calls, Start(c, k)
    PROVE  TypeOK'
<1> DEFINE p == IF ByName(k) THEN "resolving" ELSE Where(k)
           f == IF ByName(k) THEN 0 ELSE Floor(k)
<1>1. /\ phase' = [phase EXCEPT ![c] = p] /\ call' = [call EXCEPT ![c] = k]
      /\ floor' = [floor EXCEPT ![c] = f] /\ k.tool = tool
      /\ UNCHANGED <<now, tool, redis, db, wrote, cache, value, since, of, by, newest, mixed>>
  BY DEF Start
<1>2. /\ p \in {"resolving", "checking", "fetching", "looking"}
      /\ p = "resolving" => ByName(k)
      /\ p # "resolving" => k \in Resolved
      /\ f \in 0 .. db
  BY <1>1, WhereType, FloorType, StartsResolved, ClientValues
<1>3. /\ since' = [since EXCEPT ![c] = since[c]] /\ of' = [of EXCEPT ![c] = of[c]]
      /\ by' = [by EXCEPT ![c] = by[c]]
      /\ DOMAIN value' = Clients
  BY <1>1 DEF TypeOK, ClientTypeOK
<1>4. since[c] \in Nat /\ of[c] \in 0 .. db /\ by[c] \in Optional(Resolved)
  BY ClientValues
<1> HIDE DEF p, f
<1>5. ClientTypeOK'
  BY <1>1, <1>2, <1>3, <1>4, ClientStep DEF PHASES, FETCHING
<1>6. QED
  BY <1>1, <1>5, SharedType DEF TypeOK

\* The products a name stands for are in some state of the database.
LEMMA NamedProduct ==
    ASSUME TypeOK, NEW name, NEW id \in ProductIdsByName(Contents[db], name)
    PROVE  id \in ProductIds
<1>1. db \in DOMAIN Contents
  BY ConfigAssumption DEF ConfigAssumption, TypeOK
<1>2. PICK p \in Range(Contents[db].products) : id = p.id
  BY DEF ProductIdsByName, Active
<1>3. QED
  BY <1>1, <1>2 DEF ProductIds

LEMMA NamedCall ==
    ASSUME TypeOK, NEW c \in Clients, phase[c] = "resolving",
           NEW id \in ProductIdsByName(Contents[db], call[c].name)
    PROVE  [tool |-> tool, id |-> id, name |-> None] \in Resolved
<1>1. tool = "get_product_detail"
  BY DEF TypeOK, ClientTypeOK, ByName
<1>2. QED
  BY <1>1, NamedProduct DEF Resolved

LEMMA ResolveType ==
    ASSUME TypeOK, NEW c \in Clients, Resolve(c)
    PROVE  TypeOK'
<1>1. phase[c] = "resolving" /\ UNCHANGED <<now, tool, redis, db, wrote, cache, newest, mixed>>
  BY DEF Resolve
<1>2. CASE ProductIdsByName(Contents[db], call[c].name) = {}
  <2>1. Over(c)
    BY <1>2 DEF Resolve
  <2>2. QED
    BY <1>1, <2>1, OverType, SharedType DEF TypeOK
<1>3. CASE ProductIdsByName(Contents[db], call[c].name) # {}
  <2>1. PICK id \in ProductIdsByName(Contents[db], call[c].name) :
             LET k == [tool |-> tool, id |-> id, name |-> None] IN
             /\ call' = [call EXCEPT ![c] = k]
             /\ phase' = [phase EXCEPT ![c] = Where(k)]
             /\ floor' = [floor EXCEPT ![c] = Floor(k)]
             /\ UNCHANGED <<value, since, of, by>>
    BY <1>3 DEF Resolve
  <2> DEFINE k == [tool |-> tool, id |-> id, name |-> None]
  <2>2. k \in Resolved
    BY <1>1, NamedCall
  <2> HIDE DEF k
  <2>3. Where(k) \in {"checking", "fetching", "looking"} /\ Floor(k) \in 0 .. db
    BY <2>2, WhereType, FloorType
  <2>4. /\ since' = [since EXCEPT ![c] = since[c]] /\ of' = [of EXCEPT ![c] = of[c]]
        /\ by' = [by EXCEPT ![c] = by[c]] /\ DOMAIN value' = Clients
    BY <2>1 DEF TypeOK, ClientTypeOK
  <2>5. /\ call' = [call EXCEPT ![c] = k] /\ phase' = [phase EXCEPT ![c] = Where(k)]
        /\ floor' = [floor EXCEPT ![c] = Floor(k)]
    BY <2>1 DEF k
  <2>6. ClientTypeOK'
    BY <1>1, <2>2, <2>3, <2>4, <2>5, ClientStep, ClientValues DEF PHASES, FETCHING
  <2>7. QED
    BY <1>1, <2>6, SharedType DEF TypeOK
<1>4. QED
  BY <1>2, <1>3

\* A step of a call that goes on, to phase p with value read at t from v.
LEMMA GoesOnType ==
    ASSUME TypeOK, NEW c \in Clients, phase[c] \notin {"idle", "resolving"},
           UNCHANGED <<tool, db, call, floor>>, DOMAIN value' = Clients,
           NEW p \in PHASES \ {"idle", "resolving"},
           NEW t \in Nat, NEW v \in 0 .. db, NEW b \in Optional(Resolved),
           phase' = [phase EXCEPT ![c] = p],
           since' = [since EXCEPT ![c] = t], of' = [of EXCEPT ![c] = v],
           by' = [by EXCEPT ![c] = b]
    PROVE  ClientTypeOK'
<1>1. /\ call' = [call EXCEPT ![c] = call[c]] /\ floor' = [floor EXCEPT ![c] = floor[c]]
  BY DEF TypeOK, ClientTypeOK
<1>2. /\ call[c] \in Resolved /\ floor[c] \in 0 .. db
      /\ p \in PHASES /\ p # "idle" /\ p # "resolving"
  BY BusyCall, ClientValues
<1>3. QED
  BY <1>1, <1>2, ClientStep

\* The same when nothing is read.
LEMMA StepsOnType ==
    ASSUME TypeOK, NEW c \in Clients, phase[c] \notin {"idle", "resolving"},
           UNCHANGED <<tool, db, call, floor, since, of, by>>, DOMAIN value' = Clients,
           NEW p \in PHASES \ {"idle", "resolving"},
           phase' = [phase EXCEPT ![c] = p]
    PROVE  ClientTypeOK'
<1>1. /\ since' = [since EXCEPT ![c] = since[c]] /\ of' = [of EXCEPT ![c] = of[c]]
      /\ by' = [by EXCEPT ![c] = by[c]]
  BY DEF TypeOK, ClientTypeOK
<1>2. since[c] \in Nat /\ of[c] \in 0 .. db /\ by[c] \in Optional(Resolved)
  BY ClientValues
<1> DEFINE t == since[c]  v == of[c]  b == by[c]
<1>3. t \in Nat /\ v \in 0 .. db /\ b \in Optional(Resolved)
  BY <1>2
<1>4. /\ since' = [since EXCEPT ![c] = t] /\ of' = [of EXCEPT ![c] = v]
      /\ by' = [by EXCEPT ![c] = b]
  BY <1>1
<1> HIDE DEF t, v, b
<1>5. QED
  BY <1>3, <1>4, GoesOnType

LEMMA FoundEntry ==
    ASSUME TypeOK, NEW key \in Keys, cache[key] # None
    PROVE  /\ cache[key] \in [value : Values, of : Nat, by : Resolved, until : Nat]
           /\ cache[key].value \in Values /\ cache[key].of \in Nat /\ cache[key].until \in Nat
           /\ cache[key].by \in Resolved
BY DEF TypeOK, Optional

\* A value that is found was read from a state the database has been in.
LEMMA HitType ==
    ASSUME TypeOK, NEW c \in Clients, Hit(c),
           KeyFor(c) \in Keys, cache[KeyFor(c)].of \in 1 .. db
    PROVE  TypeOK'
<1>1. /\ phase[c] \notin {"idle", "resolving"} /\ DOMAIN value' = Clients
      /\ cache[KeyFor(c)] # None
      /\ UNCHANGED <<now, tool, redis, db, wrote, cache, call, newest, floor, mixed>>
      /\ of' = [of EXCEPT ![c] = cache[KeyFor(c)].of] /\ since' = [since EXCEPT ![c] = now]
      /\ by' = [by EXCEPT ![c] = cache[KeyFor(c)].by]
      /\ phase' = [phase EXCEPT ![c] = Then(c)]
  BY DEF Hit, TypeOK, ClientTypeOK
<1>2. /\ now \in Nat /\ cache[KeyFor(c)].of \in 0 .. db
      /\ cache[KeyFor(c)].by \in Optional(Resolved)
  BY <1>1, FoundEntry DEF TypeOK, Optional
<1>3. ClientTypeOK'
  BY <1>1, <1>2, ThenType, GoesOnType DEF PHASES
<1>4. QED
  BY <1>1, <1>3, SharedType DEF TypeOK

LEMMA MissType ==
    ASSUME TypeOK, NEW c \in Clients, Miss(c), KeyFor(c) \in Keys
    PROVE  TypeOK'
<1>1. /\ phase[c] \notin {"idle", "resolving"} /\ DOMAIN value' = Clients
      /\ UNCHANGED <<now, tool, redis, db, wrote, cache, call, value, since, of, by, newest, floor>>
      /\ phase' = [phase EXCEPT ![c] = First(call[c])] /\ mixed' \subseteq Keys
  BY DEF Miss, TypeOK, ClientTypeOK
<1>2. ClientTypeOK'
  BY <1>1, WhereType, StepsOnType DEF PHASES, FETCHING
<1>3. QED
  BY <1>1, <1>2, SharedType DEF TypeOK

LEMMA ChecksType ==
    ASSUME TypeOK, NEW c \in Clients, Checks(c)
    PROVE  TypeOK'
<1>1. /\ phase[c] \notin {"idle", "resolving"} /\ DOMAIN value' = Clients
      /\ UNCHANGED <<now, tool, redis, db, wrote, cache, call, value, since, of, by, newest, floor, mixed>>
      /\ phase' = [phase EXCEPT ![c] = "fetching"]
  BY DEF Checks, TypeOK, ClientTypeOK
<1>2. ClientTypeOK'
  BY <1>1, StepsOnType DEF PHASES, FETCHING
<1>3. QED
  BY <1>1, <1>2, SharedType DEF TypeOK

LEMMA KeptType ==
    ASSUME NEW c, NEW x
    PROVE  /\ Kept(c, x) \in {"filling", "addresses", "answering"}
           /\ Kept(c, x) # "filling" => Kept(c, x) = Then(c)
           /\ Kept(c, x) = "filling" => redis /\ KeyFor(c) # None /\ x # None
BY ThenType DEF Kept

LEMMA FetchType ==
    ASSUME TypeOK, NEW c \in Clients, Fetch(c)
    PROVE  TypeOK'
<1> DEFINE p == IF LoadsMore(c, value'[c]) THEN "loading" ELSE Kept(c, value'[c])
<1>1. /\ phase[c] \notin {"idle", "resolving"} /\ DOMAIN value' = Clients
      /\ UNCHANGED <<now, tool, redis, db, wrote, cache, call, newest, floor, mixed>>
      /\ of' = [of EXCEPT ![c] = db] /\ since' = [since EXCEPT ![c] = now]
      /\ by' = [by EXCEPT ![c] = call[c]]
      /\ phase' = [phase EXCEPT ![c] = p]
  BY DEF Fetch, TypeOK, ClientTypeOK
<1>2. p \in PHASES \ {"idle", "resolving"}
  BY KeptType DEF PHASES, FETCHING
<1>3. now \in Nat /\ db \in 0 .. db /\ call[c] \in Optional(Resolved)
  BY <1>1, BusyCall, ConfigAssumption DEF ConfigAssumption, TypeOK, Optional
<1> HIDE DEF p
<1>4. ClientTypeOK'
  BY <1>1, <1>2, <1>3, GoesOnType
<1>5. QED
  BY <1>1, <1>4, SharedType DEF TypeOK

LEMMA LoadMoreType ==
    ASSUME TypeOK, NEW c \in Clients, LoadMore(c)
    PROVE  TypeOK'
<1>1. /\ phase[c] \notin {"idle", "resolving"} /\ DOMAIN value' = Clients
      /\ UNCHANGED <<now, tool, redis, db, wrote, cache, call, since, of, by, newest, floor, mixed>>
      /\ phase' = [phase EXCEPT ![c] = Kept(c, value[c])]
  BY DEF LoadMore, TypeOK, ClientTypeOK
<1>2. ClientTypeOK'
  BY <1>1, KeptType, StepsOnType DEF PHASES, FETCHING
<1>3. QED
  BY <1>1, <1>2, SharedType DEF TypeOK

\* The entry that a filling call would store.
LEMMA EntryType ==
    ASSUME TypeOK, NEW c \in Clients, phase[c] = "filling",
           IsFetch(value[c], call[c], of[c]), by[c] = call[c], of[c] \in 1 .. db
    PROVE  /\ Entry(c) \in [value : Values, of : Nat, by : Resolved, until : Nat]
           /\ Entry(c).value = value[c] /\ Entry(c).of = of[c] /\ Entry(c).by = call[c]
           /\ Entry(c).until = now + ToolOf(call[c]).ttl
           /\ ToolOf(call[c]).ttl \in Nat
<1>1. call[c] \in Resolved
  BY BusyCall
<1>2. value[c] \in Values /\ of[c] \in Nat
  BY <1>1, ReadIsValue, ClientValues
<1>3. ToolOf(call[c]).ttl \in Nat /\ now \in Nat
  BY <1>1, LifetimeOfTool DEF TypeOK
<1>4. QED
  BY <1>1, <1>2, <1>3 DEF Entry

LEMMA FillType ==
    ASSUME TypeOK, NEW c \in Clients, Fill(c) \/ FillFails(c), KeyFor(c) \in Keys,
           IsFetch(value[c], call[c], of[c]), by[c] = call[c], of[c] \in 1 .. db
    PROVE  TypeOK'
<1>1. /\ phase[c] = "filling" /\ DOMAIN value' = Clients
      /\ UNCHANGED <<now, tool, redis, db, wrote, call, value, since, of, by, newest, floor>>
      /\ cache' \in {cache, [cache EXCEPT ![KeyFor(c)] = Entry(c)]}
      /\ phase' = [phase EXCEPT ![c] = Then(c)] /\ mixed' \subseteq Keys
  BY DEF Fill, FillFails, TypeOK, ClientTypeOK
<1>2. ClientTypeOK'
  BY <1>1, ThenType, StepsOnType DEF PHASES
<1>3. Entry(c) \in Optional([value : Values, of : Nat, by : Resolved, until : Nat])
  BY <1>1, EntryType DEF Optional
<1>4. cache' \in [Keys -> Optional([value : Values, of : Nat, by : Resolved, until : Nat])]
  BY <1>1, <1>3 DEF TypeOK
<1>5. QED
  BY <1>1, <1>2, <1>4, SharedType DEF TypeOK

LEMMA ReadAddressesType ==
    ASSUME TypeOK, NEW c \in Clients, ReadAddresses(c)
    PROVE  TypeOK'
<1>1. /\ phase[c] \notin {"idle", "resolving"} /\ DOMAIN value' = Clients
      /\ UNCHANGED <<now, tool, redis, db, wrote, cache, call, since, of, by, newest, floor, mixed>>
      /\ phase' = [phase EXCEPT ![c] = "answering"]
  BY DEF ReadAddresses, TypeOK, ClientTypeOK
<1>2. ClientTypeOK'
  BY <1>1, StepsOnType DEF PHASES
<1>3. QED
  BY <1>1, <1>2, SharedType DEF TypeOK

LEMMA MaxOfTwo ==
    ASSUME NEW a \in Nat, NEW b \in Nat
    PROVE  Max({a, b}) = IF a >= b THEN a ELSE b
<1> DEFINE m == IF a >= b THEN a ELSE b
<1>1. m \in {a, b} /\ \A y \in {a, b} : m >= y
  OBVIOUS
<1>2. \A x \in {a, b} : (\A y \in {a, b} : x >= y) => x = m
  OBVIOUS
<1>3. QED
  BY <1>1, <1>2 DEF Max

\* What is answered last is among the newest.
LEMMA AnsweredNewest ==
    ASSUME TypeOK, NEW c \in Clients, Answer(c)
    PROVE  /\ newest' \in [Keys -> 0 .. db]
           /\ \A key \in Keys :
                newest'[key] = IF key = KeyFor(c) /\ KeyFor(c) # None /\ of[c] > newest[key]
                                 THEN of[c] ELSE newest[key]
<1>1. phase[c] = "answering" /\ of[c] \in 0 .. db /\ db \in Nat
  BY ClientValues DEF Answer
<1>2. CASE KeyFor(c) = None
  BY <1>2 DEF Answer, TypeOK
<1>3. CASE KeyFor(c) # None
  <2>1. KeyFor(c) \in Keys /\ newest[KeyFor(c)] \in 0 .. db
    BY <1>1, <1>3, BusyCall DEF TypeOK
  <2>2. newest' = [newest EXCEPT ![KeyFor(c)] = Max({newest[KeyFor(c)], of[c]})]
    BY <1>3 DEF Answer
  <2>3. Max({newest[KeyFor(c)], of[c]})
          = IF newest[KeyFor(c)] >= of[c] THEN newest[KeyFor(c)] ELSE of[c]
    BY <1>1, <2>1, MaxOfTwo
  <2>4. Max({newest[KeyFor(c)], of[c]}) \in 0 .. db
    BY <1>1, <2>1, <2>3
  <2>5. newest' \in [Keys -> 0 .. db]
    BY <2>2, <2>4 DEF TypeOK
  <2>6. ASSUME NEW key \in Keys
        PROVE  newest'[key] = IF key = KeyFor(c) /\ KeyFor(c) # None /\ of[c] > newest[key]
                                THEN of[c] ELSE newest[key]
    <3>1. CASE key = KeyFor(c)
      <4>1. newest'[key] = Max({newest[KeyFor(c)], of[c]})
        BY <2>1, <2>2, <3>1 DEF TypeOK
      <4>2. QED
        BY <1>1, <1>3, <2>1, <2>3, <3>1, <4>1
    <3>2. CASE key # KeyFor(c)
      BY <2>2, <3>2 DEF TypeOK
    <3>3. QED
      BY <3>1, <3>2
  <2>7. QED
    BY <2>5, <2>6
<1>4. QED
  BY <1>2, <1>3

LEMMA OverSteps ==
    ASSUME TypeOK, NEW c \in Clients, ReadFails(c) \/ Answer(c)
    PROVE  TypeOK'
<1>1. /\ Over(c) /\ UNCHANGED <<now, tool, redis, db, wrote, cache, mixed>>
      /\ newest' \in [Keys -> 0 .. db]
  BY AnsweredNewest DEF ReadFails, Answer, TypeOK
<1>2. QED
  BY <1>1, OverType, SharedType DEF TypeOK

-----------------------------------------------------------------------------
(* Truth is kept.                                                          *)

\* The states the database has been in are not forgotten.
LEMMA FetchStays ==
    ASSUME TypeOK, db' \in {db, db + 1}, NEW k, NEW v
    PROVE  /\ Passed(k, v) => Passed(k, v)'
           /\ \A x : IsFetch(x, k, v) => IsFetch(x, k, v)'
<1>1. 1 .. db \subseteq 1 .. db'
  BY ConfigAssumption DEF ConfigAssumption, TypeOK
<1>2. Passed(k, v) => Passed(k, v)'
  BY <1>1 DEF Passed
<1>3. QED
  BY <1>1, <1>2 DEF IsFetch

LEMMA EntryKept ==
    ASSUME TypeOK, NEW key, UNCHANGED <<now, tool, db, wrote>>,
           cache'[key] = cache[key], EntryIsTrue(key)
    PROVE  EntryIsTrue(key)'
<1>1. Resolved' = Resolved
  BY SameTool
<1>2. QED
  BY <1>1 DEF EntryIsTrue, CurrentAt, IsFetch, Passed

LEMMA CarriesKept ==
    ASSUME NEW d \in Clients, UNCHANGED <<now, tool, db, wrote>>,
           phase'[d] = phase[d], call'[d] = call[d], value'[d] = value[d],
           since'[d] = since[d], of'[d] = of[d], by'[d] = by[d], CarriesTruth(d)
    PROVE  CarriesTruth(d)'
<1>1. Resolved' = Resolved
  BY SameTool
<1>2. /\ (d \in Carrying)' <=> d \in Carrying
      /\ WasRead(d)' = WasRead(d)
  BY DEF Carrying, WasRead, Answered
<1>3. Carries(d)' = Carries(d)
  BY <1>2 DEF Carries, IsFetch, Passed
<1>4. QED
  BY <1>1, <1>2, <1>3 DEF CarriesTruth, CurrentAt

\* Only call c takes a step.
LEMMA TruthStep ==
    ASSUME TypeOK, Truth, NEW c \in Clients, UNCHANGED <<now, tool, db, wrote>>,
           \A d \in Clients \ {c} :
               /\ phase'[d] = phase[d] /\ call'[d] = call[d] /\ value'[d] = value[d]
               /\ since'[d] = since[d] /\ of'[d] = of[d] /\ by'[d] = by[d],
           \A key \in Keys : cache'[key] = cache[key] \/ EntryIsTrue(key)',
           phase'[c] = "fetching" => Passed(call[c], db)',
           CarriesTruth(c)'
    PROVE  Truth'
<1>1. Keys' = Keys
  BY SameTool
<1>2. ASSUME NEW key \in Keys PROVE EntryIsTrue(key)'
  BY <1>2, EntryKept DEF Truth
<1>3. ASSUME NEW d \in Clients PROVE CarriesTruth(d)'
  BY <1>3, CarriesKept DEF Truth
<1>4. ASSUME NEW d \in Clients, phase'[d] = "fetching" PROVE Passed(call[d], db)'
  <2>1. CASE d = c
    BY <1>4, <2>1
  <2>2. CASE d # c
    BY <1>4, <2>2 DEF Truth, Passed
  <2>3. QED
    BY <2>1, <2>2
<1>5. QED
  BY <1>1, <1>2, <1>3, <1>4 DEF Truth

LEMMA InitTruth == Init => Truth
BY DEF Init, Truth, EntryIsTrue, CarriesTruth, Carrying

LEMMA TickTruth ==
    ASSUME TypeOK, Truth, Tick
    PROVE  Truth'
<1>1. /\ UNCHANGED <<tool, db, wrote, phase, call, value, since, of, by>>
      /\ now' = now + 1 /\ now \in Nat /\ MaxDelay \in Nat
  BY ConfigAssumption DEF ConfigAssumption, Tick, TypeOK
<1>2. Resolved' = Resolved /\ Keys' = Keys
  BY <1>1, SameTool
<1>3. ASSUME NEW key \in Keys PROVE EntryIsTrue(key)'
  <2>1. cache'[key] = IF cache[key] # None /\ cache[key].until <= now + 1
                        THEN None ELSE cache[key]
    BY <1>1 DEF Tick
  <2>2. CASE cache'[key] = None
    BY <2>2 DEF EntryIsTrue
  <2>3. CASE cache'[key] # None
    <3>1. /\ cache[key] # None /\ cache'[key] = cache[key]
          /\ ~(cache[key].until <= now + 1) /\ cache[key].until \in Nat
          /\ cache[key].by \in Resolved
      BY <2>1, <2>3, FoundEntry
    <3>2. EntryIsTrue(key) /\ ToolOf(cache[key].by).ttl \in Nat
      BY <3>1, LifetimeOfTool DEF Truth
    <3>3. /\ cache[key].until <= now' + ToolOf(cache[key].by).ttl
          /\ cache[key].until >= now'
      BY <1>1, <3>1, <3>2 DEF EntryIsTrue
    <3>4. QED
      BY <1>1, <3>1, <3>2, <3>3 DEF EntryIsTrue, CurrentAt, IsFetch, Passed
  <2>4. QED
    BY <2>2, <2>3
<1>4. ASSUME NEW d \in Clients PROVE CarriesTruth(d)'
  <2>1. CASE d \notin Carrying
    BY <1>1, <2>1 DEF CarriesTruth, Carrying
  <2>2. CASE d \in Carrying
    <3>1. now' <= since[d] + MaxDelay /\ since[d] <= now'
      <4>1. since[d] \in Nat /\ now - since[d] < MaxDelay /\ since[d] <= now
        BY <2>2, ClientValues DEF Tick, Truth, CarriesTruth
      <4>2. QED
        BY <1>1, <4>1
    <3>2. WasRead(d)' = WasRead(d)
      BY <1>1 DEF WasRead, Answered
    <3>3. Carries(d)' = Carries(d)
      BY <1>1, <3>2 DEF Carries, IsFetch, Passed
    <3>4. QED
      BY <1>1, <1>2, <2>2, <3>1, <3>3 DEF Truth, CarriesTruth, CurrentAt
  <2>3. QED
    BY <2>1, <2>2
<1>5. \A d \in Clients : phase'[d] = "fetching" => Passed(call[d], db)'
  BY <1>1 DEF Truth, Passed
<1>6. QED
  BY <1>2, <1>3, <1>4, <1>5 DEF Truth

\* What was current at t still was, when the next state becomes current.
LEMMA StillCurrentAt ==
    ASSUME TypeOK, ShopWrites, NEW v \in 1 .. db, NEW t \in Int, t <= now, CurrentAt(v, t)
    PROVE  CurrentAt(v, t)'
<1>1. /\ wrote' = Append(wrote, now) /\ wrote \in Seq(Nat) /\ Len(wrote) = db
      /\ db \in Nat /\ now \in Nat
  BY ConfigAssumption DEF ConfigAssumption, ShopWrites, TypeOK
<1>2. CASE v = db
  <2>1. wrote'[v + 1] = now
    BY <1>1, <1>2
  <2>2. QED
    BY <2>1 DEF CurrentAt
<1>3. CASE v # db
  <2>1. v + 1 \in 1 .. Len(wrote)
    BY <1>1, <1>3
  <2>2. wrote'[v + 1] = wrote[v + 1]
    BY <1>1, <2>1
  <2>3. QED
    BY <1>3, <2>2 DEF CurrentAt
<1>4. QED
  BY <1>2, <1>3

LEMMA ShopWritesTruth ==
    ASSUME TypeOK, Truth, ShopWrites
    PROVE  Truth'
<1>1. /\ UNCHANGED <<now, tool, cache, phase, call, value, since, of, by>>
      /\ now \in Nat /\ MaxDelay \in Nat /\ db \in Nat /\ db' = db + 1
  BY ConfigAssumption DEF ConfigAssumption, ShopWrites, TypeOK
<1>2. Resolved' = Resolved /\ Keys' = Keys
  BY <1>1, SameTool
<1>3. ASSUME NEW key \in Keys PROVE EntryIsTrue(key)'
  <2> SUFFICES ASSUME cache[key] # None PROVE EntryIsTrue(key)'
    BY <1>1 DEF EntryIsTrue
  <2> DEFINE e == cache[key]
  <2>1. e \in [value : Values, of : Nat, by : Resolved, until : Nat] /\ cache'[key] = e
    BY <1>1, FoundEntry
  <2>2. /\ e.of \in 1 .. db /\ e.until >= now /\ KeyOf(e.by) = key
        /\ IsFetch(e.value, e.by, e.of)
        /\ e.until <= now + ToolOf(e.by).ttl
        /\ CurrentAt(e.of, e.until - ToolOf(e.by).ttl - MaxDelay)
    BY DEF Truth, EntryIsTrue
  <2>3. PICK x \in [value : Values, of : Nat, by : Resolved, until : Nat] : x = e
    BY <2>1
  <2> HIDE DEF e
  <2>4. ToolOf(x.by).ttl \in Nat /\ x.until \in Nat
    BY <2>3, LifetimeOfTool
  <2>5. /\ x.until - ToolOf(x.by).ttl - MaxDelay <= now
        /\ x.until - ToolOf(x.by).ttl - MaxDelay \in Int
    BY <1>1, <2>2, <2>3, <2>4
  <2>6. CurrentAt(x.of, x.until - ToolOf(x.by).ttl - MaxDelay)'
    <3>1. x.of \in 1 .. db /\ CurrentAt(x.of, x.until - ToolOf(x.by).ttl - MaxDelay)
      BY <2>2, <2>3
    <3>2. QED
      BY <2>5, <3>1, StillCurrentAt
  <2>7. x.of \in 1 .. db' /\ IsFetch(x.value, x.by, x.of)'
    <3>1. x.of \in 1 .. db /\ IsFetch(x.value, x.by, x.of)
      BY <2>2, <2>3
    <3>2. IsFetch(x.value, x.by, x.of)'
      BY <1>1, <3>1, FetchStays
    <3>3. QED
      BY <1>1, <3>1, <3>2
  <2>8. cache'[key] = x
    BY <2>1, <2>3
  <2>9. EntryIsTrue(key)'
    BY <1>1, <2>2, <2>3, <2>6, <2>7, <2>8 DEF EntryIsTrue, CurrentAt, IsFetch, Passed
  <2> QED BY <2>9
<1>4. ASSUME NEW d \in Clients PROVE CarriesTruth(d)'
  <2>1. CASE d \notin Carrying
    BY <1>1, <2>1 DEF CarriesTruth, Carrying
  <2>2. CASE d \in Carrying
    <3>1. /\ of[d] \in 1 .. db /\ since[d] <= now /\ since[d] \in Nat
          /\ CurrentAt(of[d], since[d] - ToolOf(call[d]).ttl - MaxDelay)
          /\ phase[d] \in {"loading", "filling"} => CurrentAt(of[d], since[d])
          /\ Carries(d)
      BY <2>2, ClientValues DEF Truth, CarriesTruth
    <3>2. ToolOf(call[d]).ttl \in Nat
      BY <2>2, BusyCall, LifetimeOfTool DEF Carrying
    <3>3. /\ since[d] - ToolOf(call[d]).ttl - MaxDelay <= now
          /\ since[d] - ToolOf(call[d]).ttl - MaxDelay \in Int
      BY <1>1, <3>1, <3>2
    <3>4. /\ CurrentAt(of[d], since[d] - ToolOf(call[d]).ttl - MaxDelay)'
          /\ phase[d] \in {"loading", "filling"} => CurrentAt(of[d], since[d])'
      BY <1>1, <3>1, <3>3, StillCurrentAt DEF CurrentAt
    <3>5. WasRead(d)' = WasRead(d) /\ of[d] \in 1 .. db'
      BY <1>1, <3>1 DEF WasRead, Answered
    <3>6. Carries(d)'
      BY <1>1, <3>1, <3>5, FetchStays DEF Carries, IsFetch, Passed
    <3>7. QED
      BY <1>1, <1>2, <2>2, <3>4, <3>5, <3>6 DEF Truth, CarriesTruth
  <2>3. QED
    BY <2>1, <2>2
<1>5. ASSUME NEW d \in Clients, phase'[d] = "fetching" PROVE Passed(call[d], db)'
  <2>1. PICK u \in 1 .. db : ~Denied(Contents[u], call[d])
    BY <1>1, <1>5 DEF Truth, Passed
  <2>2. u \in 1 .. db' /\ u <= db' /\ call'[d] = call[d]
    BY <1>1, <2>1
  <2>3. QED
    BY <2>1, <2>2 DEF Passed
<1>6. QED
  BY <1>2, <1>3, <1>4, <1>5 DEF Truth

\* A step after which c carries nothing.
LEMMA EmptyHanded ==
    ASSUME NEW c \in Clients, phase'[c] \notin {"loading", "filling", "addresses", "answering"}
    PROVE  CarriesTruth(c)'
BY DEF CarriesTruth, Carrying

LEMMA OverStep ==
    ASSUME TypeOK, NEW c \in Clients, Over(c)
    PROVE  /\ phase'[c] = "idle"
           /\ \A d \in Clients \ {c} :
                /\ phase'[d] = phase[d] /\ call'[d] = call[d] /\ value'[d] = value[d]
                /\ since'[d] = since[d] /\ of'[d] = of[d] /\ by'[d] = by[d]
                /\ floor'[d] = floor[d]
BY DEF Over, TypeOK, ClientTypeOK

\* A call that goes to its rows without a check needs none.
LEMMA GoesUnchecked ==
    ASSUME TypeOK, NEW c \in Clients, NEW k \in Resolved, UNCHANGED db,
           phase'[c] \in {First(k), Where(k)}, call'[c] = k
    PROVE  phase'[c] = "fetching" => Passed(call[c], db)'
<1>1. phase'[c] = "fetching" => First(k) = "fetching"
  BY DEF Where
<1>2. phase'[c] = "fetching" => Passed(k, db)
  BY <1>1, PassesUnchecked
<1>3. QED
  BY <1>2 DEF Passed

LEMMA StartTruth ==
    ASSUME TypeOK, Truth, NEW c \in Clients, NEW k \in Calls, Start(c, k)
    PROVE  Truth'
<1>1. /\ UNCHANGED <<now, tool, db, wrote, cache, value, since, of, by>> /\ k.tool = tool
      /\ phase' = [phase EXCEPT ![c] = IF ByName(k) THEN "resolving" ELSE Where(k)]
      /\ call' = [call EXCEPT ![c] = k]
  BY DEF Start
<1>2. /\ phase'[c] \in {"resolving", "checking", "fetching", "looking"}
      /\ phase'[c] = (IF ByName(k) THEN "resolving" ELSE Where(k)) /\ call'[c] = k
  BY <1>1, WhereType DEF TypeOK, ClientTypeOK
<1>3. \A d \in Clients \ {c} : phase'[d] = phase[d] /\ call'[d] = call[d]
  BY <1>1 DEF TypeOK, ClientTypeOK
<1>4. CarriesTruth(c)'
  BY <1>2, EmptyHanded
<1>5. phase'[c] = "fetching" => Passed(call[c], db)'
  <2>1. CASE ByName(k)
    BY <1>2, <2>1
  <2>2. CASE ~ByName(k)
    BY <1>1, <1>2, <2>2, StartsResolved, GoesUnchecked
  <2>3. QED
    BY <2>1, <2>2
<1>6. QED
  BY <1>1, <1>3, <1>4, <1>5, TruthStep

LEMMA ResolveTruth ==
    ASSUME TypeOK, Truth, NEW c \in Clients, Resolve(c)
    PROVE  Truth'
<1>1. phase[c] = "resolving" /\ UNCHANGED <<now, tool, redis, db, wrote, cache, newest, mixed>>
  BY DEF Resolve
<1>2. /\ phase'[c] \notin {"loading", "filling", "addresses", "answering"}
      /\ phase'[c] = "fetching" => Passed(call[c], db)'
      /\ \A d \in Clients \ {c} :
           /\ phase'[d] = phase[d] /\ call'[d] = call[d] /\ value'[d] = value[d]
           /\ since'[d] = since[d] /\ of'[d] = of[d] /\ by'[d] = by[d]
  <2>1. CASE Over(c)
    BY <2>1, OverStep
  <2>2. CASE ~Over(c)
    <3>1. PICK id \in ProductIdsByName(Contents[db], call[c].name) :
               LET k == [tool |-> tool, id |-> id, name |-> None] IN
               /\ call' = [call EXCEPT ![c] = k]
               /\ phase' = [phase EXCEPT ![c] = Where(k)]
               /\ UNCHANGED <<value, since, of, by>>
      BY <2>2 DEF Resolve
    <3>2. PICK k \in Resolved : k = [tool |-> tool, id |-> id, name |-> None]
      BY <1>1, NamedCall
    <3>3. phase'[c] = Where(k) /\ call'[c] = k
      BY <3>1, <3>2 DEF TypeOK, ClientTypeOK
    <3>4. Where(k) \in {"checking", "fetching", "looking"}
      BY WhereType
    <3>5. phase'[c] = "fetching" => Passed(call[c], db)'
      BY <1>1, <3>3, GoesUnchecked
    <3>6. QED
      BY <3>1, <3>3, <3>4, <3>5 DEF TypeOK, ClientTypeOK
  <2>3. QED
    BY <2>1, <2>2
<1>3. CarriesTruth(c)'
  BY <1>2, EmptyHanded
<1>4. QED
  BY <1>1, <1>2, <1>3, TruthStep

LEMMA MissTruth ==
    ASSUME TypeOK, Truth, NEW c \in Clients, Miss(c)
    PROVE  Truth'
<1>1. /\ UNCHANGED <<now, tool, db, wrote, cache, call, value, since, of, by>>
      /\ phase[c] = "looking" /\ phase' = [phase EXCEPT ![c] = First(call[c])]
  BY DEF Miss
<1>2. phase'[c] = First(call[c]) /\ \A d \in Clients \ {c} : phase'[d] = phase[d]
  BY <1>1 DEF TypeOK, ClientTypeOK
<1>3. CarriesTruth(c)'
  BY <1>2, WhereType, EmptyHanded
<1>4. phase'[c] = "fetching" => Passed(call[c], db)'
  BY <1>1, <1>2, BusyCall, GoesUnchecked
<1>5. QED
  BY <1>1, <1>2, <1>3, <1>4, TruthStep

LEMMA ChecksTruth ==
    ASSUME TypeOK, Truth, NEW c \in Clients, Checks(c)
    PROVE  Truth'
<1>1. /\ UNCHANGED <<now, tool, db, wrote, cache, call, value, since, of, by>>
      /\ ~Denied(Contents[db], call[c]) /\ phase' = [phase EXCEPT ![c] = "fetching"]
  BY DEF Checks
<1>2. phase'[c] = "fetching" /\ \A d \in Clients \ {c} : phase'[d] = phase[d]
  BY <1>1 DEF TypeOK, ClientTypeOK
<1>3. CarriesTruth(c)'
  BY <1>2, EmptyHanded
<1>4. Passed(call[c], db)'
  <2>1. db \in 1 .. db /\ db <= db
    BY ConfigAssumption DEF ConfigAssumption, TypeOK
  <2>2. QED
    BY <1>1, <2>1 DEF Passed
<1>5. QED
  BY <1>1, <1>2, <1>3, <1>4, TruthStep

LEMMA OverTruth ==
    ASSUME TypeOK, Truth, NEW c \in Clients, ReadFails(c) \/ Answer(c)
    PROVE  Truth'
<1>1. Over(c) /\ UNCHANGED <<now, tool, db, wrote, cache>>
  BY DEF ReadFails, Answer
<1>2. CarriesTruth(c)' /\ phase'[c] # "fetching"
  BY <1>1, OverStep, EmptyHanded
<1>3. QED
  BY <1>1, <1>2, OverStep, TruthStep

\* After a profile come the addresses; nothing else has them.
LEMMA ThenCarries ==
    ASSUME TypeOK, NEW c \in Clients, phase[c] \notin {"idle", "resolving"}
    PROVE  Then(c) = IF tool = "get_account_info" THEN "addresses" ELSE "answering"
BY BusyCall DEF Then

\* What has just been read, or filled, is what the call now carries.
LEMMA CarriesRead ==
    ASSUME TypeOK, NEW c \in Clients, phase[c] \notin {"idle", "resolving"},
           UNCHANGED tool, phase'[c] \in {"filling", Then(c)}
    PROVE  /\ WasRead(c)' = value'[c] /\ phase'[c] # "loading" /\ phase'[c] # "fetching"
           /\ Then(c) # "filling"
           /\ phase'[c] = "addresses" => tool' = "get_account_info"
BY ThenCarries DEF WasRead, Answered

\* A state that was current at t was current at every earlier time.
LEMMA CurrentEarlier ==
    ASSUME TypeOK, NEW v \in 1 .. db, NEW t \in Int, NEW t2 \in Int, t2 <= t, CurrentAt(v, t)
    PROVE  CurrentAt(v, t2)
<1>1. wrote \in Seq(Nat) /\ Len(wrote) = db /\ db \in Nat
  BY ConfigAssumption DEF ConfigAssumption, TypeOK
<1>2. v # db => wrote[v + 1] \in Nat
  BY <1>1
<1>3. QED
  BY <1>2 DEF CurrentAt

LEMMA HitTruth ==
    ASSUME TypeOK, Truth, NEW c \in Clients, Hit(c), KeyFor(c) \in Keys, KeyFor(c) # None
    PROVE  Truth'
<1>1. PICK e \in [value : Values, of : Nat, by : Resolved, until : Nat] : e = cache[KeyFor(c)]
  BY FoundEntry DEF Hit
<1>2. /\ phase[c] \notin {"idle", "resolving"} /\ e = cache[KeyFor(c)] /\ e # None
      /\ UNCHANGED <<now, tool, redis, db, wrote, cache, call, newest, floor, mixed>>
      /\ value'[c] = e.value /\ of'[c] = e.of /\ since'[c] = now /\ phase'[c] = Then(c)
      /\ by'[c] = e.by
      /\ \A d \in Clients \ {c} :
           /\ phase'[d] = phase[d] /\ value'[d] = value[d]
           /\ since'[d] = since[d] /\ of'[d] = of[d] /\ by'[d] = by[d]
  BY <1>1 DEF Hit, TypeOK, ClientTypeOK
<1>3. /\ e.of \in 1 .. db /\ e.until >= now /\ KeyOf(e.by) = KeyFor(c)
      /\ IsFetch(e.value, e.by, e.of)
      /\ CurrentAt(e.of, e.until - ToolOf(e.by).ttl - MaxDelay)
  BY <1>2 DEF Truth, EntryIsTrue
<1>4. call[c] \in Resolved /\ e.by \in Resolved
  BY <1>2, BusyCall
<1>5. ToolOf(e.by).ttl = ToolOf(call[c]).ttl /\ ToolOf(call[c]).ttl \in Nat
  BY <1>4, LifetimeOfTool
<1>6. /\ e.until \in Nat /\ now \in Nat /\ MaxDelay \in Nat
  BY ConfigAssumption DEF ConfigAssumption, TypeOK
<1>7. CurrentAt(e.of, now - ToolOf(call[c]).ttl - MaxDelay)
  <2>1. /\ now - ToolOf(call[c]).ttl - MaxDelay <= e.until - ToolOf(e.by).ttl - MaxDelay
        /\ now - ToolOf(call[c]).ttl - MaxDelay \in Int
        /\ e.until - ToolOf(e.by).ttl - MaxDelay \in Int
    BY <1>3, <1>5, <1>6
  <2>2. QED
    BY <1>3, <2>1, CurrentEarlier
<1>8. Serves(e.by, call[c])
  BY <1>3 DEF Serves, KeyFor
<1>9. /\ WasRead(c)' = e.value /\ phase'[c] \notin {"loading", "filling", "fetching"}
      /\ phase'[c] = "addresses" => tool' = "get_account_info"
  BY <1>2, CarriesRead
<1>10. Resolved' = Resolved
  BY <1>2, SameTool
<1>11. CarriesTruth(c)'
  <2>1. Carries(c)'
    BY <1>2, <1>3, <1>9 DEF Carries, IsFetch, Passed
  <2>2. CurrentAt(of[c], since[c] - ToolOf(call[c]).ttl - MaxDelay)'
    BY <1>2, <1>7 DEF CurrentAt
  <2>3. of'[c] \in 1 .. db' /\ since'[c] <= now' /\ now' <= since'[c] + MaxDelay
    BY <1>2, <1>3, <1>6
  <2>4. by'[c] \in Resolved' /\ Serves(by[c], call[c])'
    BY <1>2, <1>4, <1>8, <1>10 DEF Serves
  <2>5. QED
    BY <1>9, <2>1, <2>2, <2>3, <2>4 DEF CarriesTruth
<1>12. QED
  BY <1>2, <1>9, <1>11, TruthStep

\* What has nothing to load is fetched at once.
LEMMA NothingMore ==
    ASSUME NEW s, NEW k, NEW rows, k.tool = "get_account_info" \/ rows = None
    PROVE  Load(s, k, rows) = rows
BY DEF Load, AnswersOneRow

\* The rows are read after the check.
LEMMA FetchTruth ==
    ASSUME TypeOK, Truth, NEW c \in Clients, Fetch(c)
    PROVE  Truth'
<1> DEFINE rows == Query(Contents[db], call[c])
           p == IF LoadsMore(c, rows) THEN "loading" ELSE Kept(c, rows)
<1>1. /\ phase[c] = "fetching"
      /\ UNCHANGED <<now, tool, redis, db, wrote, cache, call, newest, floor, mixed>>
      /\ value'[c] = rows /\ of'[c] = db /\ since'[c] = now /\ by'[c] = call[c]
      /\ phase'[c] = p
      /\ \A d \in Clients \ {c} :
           /\ phase'[d] = phase[d] /\ value'[d] = value[d]
           /\ since'[d] = since[d] /\ of'[d] = of[d] /\ by'[d] = by[d]
  BY DEF Fetch, TypeOK, ClientTypeOK
<1>2. call[c] \in Resolved /\ call[c].tool = tool /\ Resolved' = Resolved
  BY <1>1, BusyCall, SameTool
<1>3. Passed(call[c], db)
  BY <1>1 DEF Truth
<1>4. /\ db \in 1 .. db /\ db <= db /\ now <= now + MaxDelay /\ now <= now
  BY ConfigAssumption DEF ConfigAssumption, TypeOK
<1>5. ~LoadsMore(c, rows) => rows = Fetched(call[c], db, db)
  <2> SUFFICES ASSUME ~LoadsMore(c, rows) PROVE Load(Contents[db], call[c], rows) = rows
    BY DEF Fetched
  <2>1. call[c].tool = "get_account_info" \/ rows = None
    BY <1>2 DEF LoadsMore
  <2> HIDE DEF rows
  <2>2. QED
    BY <2>1, NothingMore
<1>6. Carries(c)' /\ phase'[c] # "fetching" /\ (phase'[c] = "addresses" => tool' = "get_account_info")
  <2>1. CASE LoadsMore(c, rows)
    <3>1. phase'[c] = "loading"
      BY <1>1, <2>1
    <3>2. QED
      BY <1>1, <1>3, <3>1 DEF Carries, Passed
  <2>2. CASE ~LoadsMore(c, rows)
    <3>1. phase'[c] \in {"filling", Then(c)}
      BY <1>1, <2>2, KeptType
    <3>2. /\ WasRead(c)' = rows /\ phase'[c] # "loading" /\ phase'[c] # "fetching"
          /\ phase'[c] = "addresses" => tool' = "get_account_info"
      BY <1>1, <3>1, CarriesRead
    <3>3. IsFetch(rows, call[c], db)
      BY <1>3, <1>4, <1>5, <2>2 DEF IsFetch
    <3> HIDE DEF rows, p
    <3>4. QED
      BY <1>1, <3>2, <3>3 DEF Carries, IsFetch, Passed
  <2>3. QED
    BY <2>1, <2>2
<1> HIDE DEF rows, p
<1>7. CarriesTruth(c)'
  BY <1>1, <1>2, <1>4, <1>6 DEF CarriesTruth, CurrentAt, Serves
<1>8. QED
  BY <1>1, <1>6, <1>7, TruthStep

LEMMA LoadMoreTruth ==
    ASSUME TypeOK, Truth, NEW c \in Clients, LoadMore(c)
    PROVE  Truth'
<1>1. /\ phase[c] = "loading" /\ c \in Carrying
      /\ UNCHANGED <<now, tool, redis, db, wrote, cache, call, since, of, by, newest, floor, mixed>>
      /\ value'[c] = Load(Contents[db], call[c], value[c])
      /\ phase'[c] \in {"filling", Then(c)}
      /\ \A d \in Clients \ {c} : phase'[d] = phase[d] /\ value'[d] = value[d]
  BY KeptType DEF LoadMore, Carrying, TypeOK, ClientTypeOK
<1>2. /\ of[c] \in 1 .. db /\ by[c] = call[c]
      /\ Passed(call[c], of[c]) /\ value[c] = Query(Contents[of[c]], call[c])
      /\ CarriesTruth(c)
  BY <1>1 DEF Truth, CarriesTruth, Carries
<1>3. IsFetch(value'[c], call[c], of[c])
  <2>1. db \in 1 .. db /\ of[c] <= db
    BY <1>2, ConfigAssumption DEF ConfigAssumption, TypeOK
  <2>2. QED
    BY <1>1, <1>2, <2>1 DEF IsFetch, Fetched
<1>4. /\ WasRead(c)' = value'[c] /\ phase'[c] # "loading" /\ phase'[c] # "fetching"
      /\ phase'[c] = "addresses" => tool' = "get_account_info"
  BY <1>1, CarriesRead
<1>5. Carries(c)'
  BY <1>1, <1>2, <1>3, <1>4 DEF Carries, IsFetch, Passed
<1>6. Resolved' = Resolved
  BY <1>1, SameTool
<1>7. CarriesTruth(c)'
  BY <1>1, <1>2, <1>4, <1>5, <1>6 DEF CarriesTruth, CurrentAt
<1>8. QED
  BY <1>1, <1>4, <1>7, TruthStep

LEMMA FillTruth ==
    ASSUME TypeOK, Keyed, Truth, NEW c \in Clients, Fill(c) \/ FillFails(c)
    PROVE  Truth'
<1>1. /\ phase[c] = "filling" /\ c \in Carrying /\ phase'[c] = Then(c)
      /\ UNCHANGED <<now, tool, redis, db, wrote, call, value, since, of, by, newest, floor>>
      /\ cache' \in {cache, [cache EXCEPT ![KeyFor(c)] = Entry(c)]}
      /\ \A d \in Clients \ {c} : phase'[d] = phase[d]
  BY DEF Fill, FillFails, Carrying, TypeOK, ClientTypeOK
<1>2. /\ of[c] \in 1 .. db /\ since[c] <= now /\ now <= since[c] + MaxDelay
      /\ by[c] = call[c] /\ IsFetch(value[c], call[c], of[c])
      /\ CurrentAt(of[c], since[c]) /\ KeyFor(c) # None
      /\ CarriesTruth(c)
  BY <1>1 DEF Truth, CarriesTruth, Carries, WasRead, Keyed
<1>3. call[c] \in Resolved /\ Resolved' = Resolved /\ KeyFor(c) \in Keys
  BY <1>1, <1>2, BusyCall, SameTool
<1>4. ToolOf(call[c]).ttl \in Nat
  BY <1>3, LifetimeOfTool
<1>5. now \in Nat /\ since[c] \in Nat /\ MaxDelay \in Nat
  BY ClientValues, ConfigAssumption DEF ConfigAssumption, TypeOK
<1>6. ASSUME NEW key \in Keys PROVE cache'[key] = cache[key] \/ EntryIsTrue(key)'
  <2> SUFFICES ASSUME cache'[key] # cache[key] PROVE EntryIsTrue(key)'
    OBVIOUS
  <2>1. key = KeyFor(c) /\ cache'[key] = Entry(c)
    BY <1>1 DEF TypeOK
  <2>2. PICK e \in [value : Values, of : Nat, by : Resolved, until : Nat] : e = Entry(c)
    BY <1>1, <1>2, EntryType
  <2>3. /\ cache'[key] = e /\ e.value = value[c] /\ e.of = of[c] /\ e.by = call[c]
        /\ e.until = now + ToolOf(call[c]).ttl
    BY <1>1, <1>2, <2>1, <2>2, EntryType
  <2>4. /\ e.until - ToolOf(call[c]).ttl - MaxDelay <= since[c]
        /\ e.until - ToolOf(call[c]).ttl - MaxDelay \in Int
        /\ e.until >= now /\ e.until <= now + ToolOf(call[c]).ttl
    BY <1>2, <1>4, <1>5, <2>3
  <2>5. CurrentAt(e.of, e.until - ToolOf(call[c]).ttl - MaxDelay)
    BY <1>2, <1>5, <2>3, <2>4, CurrentEarlier
  <2>6. KeyOf(e.by) = key /\ IsFetch(e.value, e.by, e.of) /\ e.of \in 1 .. db
    BY <1>2, <2>1, <2>3 DEF KeyFor
  <2>7. QED
    BY <1>1, <2>3, <2>4, <2>5, <2>6 DEF EntryIsTrue, CurrentAt, IsFetch, Passed
<1>7. /\ WasRead(c)' = value[c] /\ phase'[c] \notin {"loading", "filling", "fetching"}
      /\ phase'[c] = "addresses" => tool' = "get_account_info"
  BY <1>1, CarriesRead
<1>8. CarriesTruth(c)'
  <2>1. Carries(c)'
    BY <1>1, <1>2, <1>7 DEF Carries, IsFetch, Passed
  <2>2. QED
    BY <1>1, <1>2, <1>3, <1>7, <2>1 DEF CarriesTruth, CurrentAt
<1>9. QED
  BY <1>1, <1>6, <1>7, <1>8, TruthStep

LEMMA ReadAddressesTruth ==
    ASSUME TypeOK, Truth, NEW c \in Clients, ReadAddresses(c)
    PROVE  Truth'
<1>1. /\ phase[c] = "addresses" /\ c \in Carrying /\ phase'[c] = "answering"
      /\ value'[c].profile = value[c]
      /\ UNCHANGED <<now, tool, redis, db, wrote, cache, call, since, of, by, newest, floor>>
      /\ \A d \in Clients \ {c} : phase'[d] = phase[d] /\ value'[d] = value[d]
  BY DEF ReadAddresses, Carrying, TypeOK, ClientTypeOK
<1>2. tool = "get_account_info" /\ CarriesTruth(c) /\ Carries(c)
  BY <1>1 DEF Truth, CarriesTruth
<1>3. WasRead(c)' = WasRead(c)
  BY <1>1, <1>2 DEF WasRead, Answered
<1>4. Resolved' = Resolved
  BY <1>1, SameTool
<1>5. Carries(c)'
  BY <1>1, <1>2, <1>3 DEF Carries, IsFetch, Passed
<1>6. CarriesTruth(c)'
  BY <1>1, <1>2, <1>4, <1>5 DEF CarriesTruth, CurrentAt
<1>7. QED
  BY <1>1, <1>6, TruthStep

\* The others keep their phases and calls, and c's is keyed.
LEMMA KeyedStep ==
    ASSUME Keyed, NEW c \in Clients,
           \A d \in Clients \ {c} : phase'[d] = phase[d] /\ call'[d] = call[d],
           phase'[c] \in {"looking", "filling"} => KeyOf(call'[c]) # None
    PROVE  Keyed'
BY DEF Keyed, KeyFor

LEMMA KeyedNext == TypeOK /\ Keyed /\ [Next]_vars => Keyed'
<1> SUFFICES ASSUME TypeOK, Keyed, [Next]_vars PROVE Keyed'
  OBVIOUS
<1>1. CASE UNCHANGED vars \/ Tick \/ ShopWrites
  BY <1>1 DEF vars, Tick, ShopWrites, Keyed, KeyFor
<1>2. ASSUME NEW c \in Clients, NEW k \in Calls, Start(c, k) PROVE Keyed'
  <2>1. /\ phase'[c] = (IF ByName(k) THEN "resolving" ELSE Where(k)) /\ call'[c] = k
        /\ \A d \in Clients \ {c} : phase'[d] = phase[d] /\ call'[d] = call[d]
    BY <1>2 DEF Start, TypeOK, ClientTypeOK
  <2>2. QED
    BY <2>1, WhereType, KeyedStep DEF Where
<1>3. ASSUME NEW c \in Clients, Over(c) PROVE Keyed'
  BY <1>3, OverStep, KeyedStep
<1>4. ASSUME NEW c \in Clients, Resolve(c), ~Over(c) PROVE Keyed'
  <2>1. PICK id \in ProductIdsByName(Contents[db], call[c].name) :
             LET k == [tool |-> tool, id |-> id, name |-> None] IN
             /\ call' = [call EXCEPT ![c] = k]
             /\ phase' = [phase EXCEPT ![c] = Where(k)]
    BY <1>4 DEF Resolve
  <2> DEFINE k == [tool |-> tool, id |-> id, name |-> None]
  <2> HIDE DEF k
  <2>2. /\ phase'[c] = Where(k) /\ call'[c] = k
        /\ \A d \in Clients \ {c} : phase'[d] = phase[d] /\ call'[d] = call[d]
    BY <2>1 DEF k, TypeOK, ClientTypeOK
  <2>3. QED
    BY <2>2, WhereType, KeyedStep DEF Where
<1>5. ASSUME NEW c \in Clients, Fetch(c) \/ LoadMore(c) PROVE Keyed'
  <2> DEFINE rows == Query(Contents[db], call[c])
  <2>1. /\ phase'[c] \in {"loading", Kept(c, rows), Kept(c, value[c])} /\ call' = call
        /\ \A d \in Clients \ {c} : phase'[d] = phase[d]
    <3>1. CASE Fetch(c)
      BY <3>1 DEF Fetch, TypeOK, ClientTypeOK
    <3>2. CASE LoadMore(c)
      BY <3>2 DEF LoadMore, TypeOK, ClientTypeOK
    <3>3. QED
      BY <1>5, <3>1, <3>2
  <2> HIDE DEF rows
  <2>2. \A x : Kept(c, x) # "looking" /\ (Kept(c, x) = "filling" => KeyFor(c) # None)
    BY KeptType
  <2>3. phase'[c] \in {"looking", "filling"} => KeyOf(call'[c]) # None
    BY <2>1, <2>2 DEF KeyFor
  <2>4. QED
    BY <2>1, <2>3, KeyedStep
<1>6. ASSUME NEW c \in Clients,
             Hit(c) \/ Miss(c) \/ Checks(c) \/ Fill(c) \/ FillFails(c) \/ ReadAddresses(c)
      PROVE Keyed'
  <2>1. /\ phase'[c] \in {"checking", "fetching", "addresses", "answering"} /\ call' = call
        /\ \A d \in Clients \ {c} : phase'[d] = phase[d]
    BY <1>6, ThenType, WhereType DEF Hit, Miss, Checks, Fill, FillFails, ReadAddresses, TypeOK, ClientTypeOK
  <2>2. QED
    BY <2>1, KeyedStep
<1>7. ASSUME NEW c \in Clients, ReadFails(c) \/ Answer(c) PROVE Over(c)
  BY <1>7 DEF ReadFails, Answer
<1>8. QED
  BY <1>1, <1>2, <1>3, <1>4, <1>5, <1>6, <1>7 DEF Next, Read

LEMMA InitTruthInv == Init => TruthInv
BY InitType, InitTruth DEF TruthInv, Keyed, Init

LEMMA TruthInvNext == TruthInv /\ [Next]_vars => TruthInv'
<1> SUFFICES ASSUME TypeOK, Keyed, Truth, [Next]_vars PROVE TypeOK' /\ Truth'
  BY KeyedNext DEF TruthInv
<1>1. CASE UNCHANGED vars
  <2>1. /\ UNCHANGED <<now, tool, redis, db, wrote, cache, newest, mixed>>
        /\ Resolved' = Resolved /\ Keys' = Keys
    BY <1>1, SameTool DEF vars
  <2>2. ClientTypeOK'
    BY <1>1, <2>1 DEF vars, TypeOK, ClientTypeOK
  <2>3. \A key \in Keys : EntryIsTrue(key)'
    BY <2>1, EntryKept DEF Truth
  <2>4. \A d \in Clients : CarriesTruth(d)'
    BY <1>1, CarriesKept DEF Truth, vars
  <2>5. \A d \in Clients : phase'[d] = "fetching" => Passed(call[d], db)'
    BY <1>1 DEF Truth, vars, Passed
  <2>6. QED
    BY <2>1, <2>2, <2>3, <2>4, <2>5, SharedType DEF TypeOK, Truth
<1>2. CASE Tick
  BY <1>2, TickType, TickTruth
<1>3. CASE ShopWrites
  BY <1>3, ShopWritesType, ShopWritesTruth
<1>4. ASSUME NEW c \in Clients, NEW k \in Calls, Start(c, k) PROVE TypeOK' /\ Truth'
  BY <1>4, StartType, StartTruth
<1>5. ASSUME NEW c \in Clients, Resolve(c) PROVE TypeOK' /\ Truth'
  BY <1>5, ResolveType, ResolveTruth
<1>6. ASSUME NEW c \in Clients, Hit(c) PROVE TypeOK' /\ Truth'
  <2>1. KeyFor(c) # None /\ KeyFor(c) \in Keys
    BY <1>6, BusyCall DEF Hit, Keyed
  <2>2. cache[KeyFor(c)].of \in 1 .. db
    BY <1>6, <2>1 DEF Hit, Truth, EntryIsTrue
  <2>3. QED
    BY <1>6, <2>1, <2>2, HitType, HitTruth
<1>7. ASSUME NEW c \in Clients, Miss(c) PROVE TypeOK' /\ Truth'
  <2>1. KeyFor(c) \in Keys
    BY <1>7, BusyCall DEF Miss, Keyed
  <2>2. QED
    BY <1>7, <2>1, MissType, MissTruth
<1>8. ASSUME NEW c \in Clients, Checks(c) \/ Fetch(c) \/ LoadMore(c) PROVE TypeOK' /\ Truth'
  BY <1>8, ChecksType, ChecksTruth, FetchType, FetchTruth, LoadMoreType, LoadMoreTruth
<1>9. ASSUME NEW c \in Clients, Fill(c) \/ FillFails(c) PROVE TypeOK' /\ Truth'
  <2>1. phase[c] = "filling" /\ c \in Carrying
    BY <1>9 DEF Fill, FillFails, Carrying
  <2>2. KeyFor(c) \in Keys
    BY <2>1, BusyCall DEF Keyed
  <2>3. IsFetch(value[c], call[c], of[c]) /\ by[c] = call[c] /\ of[c] \in 1 .. db
    BY <2>1 DEF Truth, CarriesTruth, Carries, WasRead
  <2>4. QED
    BY <1>9, <2>2, <2>3, FillType, FillTruth
<1>10. ASSUME NEW c \in Clients, ReadAddresses(c) PROVE TypeOK' /\ Truth'
  BY <1>10, ReadAddressesType, ReadAddressesTruth
<1>11. ASSUME NEW c \in Clients, ReadFails(c) \/ Answer(c) PROVE TypeOK' /\ Truth'
  BY <1>11, OverSteps, OverTruth
<1>12. QED
  BY <1>1, <1>2, <1>3, <1>4, <1>5, <1>6, <1>7, <1>8, <1>9, <1>10, <1>11 DEF Next, Read

\* Every variable keeps its type: among the rest, a call that is under way has
\* its key in the cache's domain, and no value is from a state that the
\* database has not been in.
THEOREM TypeCorrect == Spec => []TypeOK
<1>1. TruthInv => TypeOK
  BY DEF TruthInv
<1>2. QED
  BY <1>1, InitTruthInv, TruthInvNext, PTL DEF Spec

LEMMA TruthOfAnswers == TruthInv => AnswersAreTrue
<1> SUFFICES ASSUME TypeOK, Truth, NEW c \in Clients, phase[c] = "answering"
             PROVE  /\ SameAnswer(by[c], call[c])
                    /\ \E u, v, w \in 1 .. db :
                         /\ u <= v /\ v <= w
                         /\ ~Denied(Contents[u], by[c])
                         /\ CurrentSince(v, ToolOf(call[c]).ttl + 2 * MaxDelay)
                         /\ Answered(c) = Fetched(by[c], v, w)
  BY DEF TruthInv, AnswersAreTrue
<1>1. call[c] \in Resolved /\ c \in Carrying
  BY BusyCall DEF Carrying
<1>2. /\ of[c] \in 1 .. db /\ now <= since[c] + MaxDelay
      /\ CurrentAt(of[c], since[c] - ToolOf(call[c]).ttl - MaxDelay)
      /\ by[c] \in Resolved /\ Serves(by[c], call[c])
      /\ IsFetch(Answered(c), by[c], of[c])
  BY <1>1 DEF Truth, CarriesTruth, Carries, WasRead
<1>3. SameAnswer(by[c], call[c])
  BY <1>1, <1>2, SameKey
<1>4. CurrentSince(of[c], ToolOf(call[c]).ttl + 2 * MaxDelay)
  <2>1. /\ now \in Nat /\ since[c] \in Nat /\ MaxDelay \in Nat
        /\ ToolOf(call[c]).ttl \in Nat
    BY <1>1, LifetimeOfTool, ClientValues, ConfigAssumption DEF ConfigAssumption, TypeOK
  <2>2. /\ now - (ToolOf(call[c]).ttl + 2 * MaxDelay) <= since[c] - ToolOf(call[c]).ttl - MaxDelay
        /\ now - (ToolOf(call[c]).ttl + 2 * MaxDelay) \in Int
        /\ since[c] - ToolOf(call[c]).ttl - MaxDelay \in Int
    BY <1>2, <2>1
  <2>3. CurrentAt(of[c], now - (ToolOf(call[c]).ttl + 2 * MaxDelay))
    BY <1>2, <2>2, CurrentEarlier
  <2>4. QED
    BY <2>3 DEF CurrentAt, CurrentSince
<1>5. PICK u, w \in 1 .. db :
        /\ u <= of[c] /\ ~Denied(Contents[u], by[c])
        /\ of[c] <= w /\ Answered(c) = Fetched(by[c], of[c], w)
  BY <1>2 DEF IsFetch, Passed
<1>6. QED
  BY <1>2, <1>3, <1>4, <1>5

\* Whatever is answered was fetched, behind the check of the owner, for this
\* very call or for one that the key does not tell from it, and was true at
\* most a time to live and two delays ago.
THEOREM NothingStaleIsServed == Spec => []AnswersAreTrue
BY InitTruthInv, TruthInvNext, TruthOfAnswers, PTL DEF Spec

-----------------------------------------------------------------------------
(* Answers go forward.                                                     *)

\* All but c are left alone.
OthersStay(c) ==
    \A d \in Clients \ {c} : /\ phase'[d] = phase[d] /\ call'[d] = call[d]
                             /\ of'[d] = of[d] /\ floor'[d] = floor[d]

LEMMA NumbersType ==
    ASSUME TypeOK, NEW key \in Keys
    PROVE  /\ newest[key] \in Nat /\ newest[key] <= db /\ db \in Nat
           /\ cache[key] # None => cache[key].of \in Nat
<1>1. db \in Nat /\ newest[key] \in 0 .. db
  BY ConfigAssumption DEF ConfigAssumption, TypeOK
<1>2. QED
  BY <1>1, FoundEntry

\* Nobody new fetches, fills or carries for the key, and nothing is stored.
LEMMA KeyFrame ==
    ASSUME TypeOK, NEW key \in Keys, KeyGoesForward(key), mixed \subseteq mixed',
           cache'[key] \in {None, cache[key]}, newest'[key] = newest[key],
           db' \in {db, db + 1},
           \A d \in Clients :
               (phase'[d] \in FETCHING /\ KeyFor(d)' = key) =>
                   phase[d] \in FETCHING /\ KeyFor(d) = key,
           \A d \in Clients :
               (phase'[d] \in {"loading", "filling"} /\ KeyFor(d)' = key) =>
                   phase[d] \in {"loading", "filling"},
           \A d \in Clients :
               (phase'[d] \in {"loading", "filling", "addresses", "answering"} /\ KeyFor(d)' = key) =>
                   /\ phase[d] \in {"loading", "filling", "addresses", "answering"}
                   /\ KeyFor(d) = key /\ of'[d] = of[d]
    PROVE  KeyGoesForward(key)'
<1> SUFFICES ASSUME key \notin mixed' PROVE OneFills(key)' /\ NotBehind(key)'
  BY DEF KeyGoesForward
<1>1. OneFills(key) /\ NotBehind(key)
  BY DEF KeyGoesForward
<1>2. OneFills(key)'
  BY <1>1 DEF OneFills
<1>3. \A d \in Clients :
        (d \in Carrying)' /\ KeyFor(d)' = key => d \in Carrying /\ KeyFor(d) = key /\ of'[d] = of[d]
  BY DEF Carrying
<1>4. NotBehind(key)'
  <2>1. cache'[key] # None => cache'[key].of <= db' /\ Ahead(key, cache[key].of)'
    <3> SUFFICES ASSUME cache'[key] # None
                 PROVE  cache'[key].of <= db' /\ Ahead(key, cache[key].of)'
      OBVIOUS
    <3>1. cache'[key] = cache[key] /\ cache[key].of <= db /\ cache[key].of \in Nat
      BY <1>1, NumbersType DEF NotBehind
    <3>2. Ahead(key, cache[key].of)
      BY <1>1, <3>1 DEF NotBehind
    <3>3. Ahead(key, cache[key].of)'
      BY <1>3, <3>1, <3>2 DEF Ahead, Carrying
    <3>4. db \in Nat
      BY NumbersType
    <3>5. QED
      BY <3>1, <3>3, <3>4
  <2>2. ASSUME NEW c \in Clients, phase'[c] \in {"loading", "filling"}, KeyFor(c)' = key
        PROVE  Ahead(key, of[c])'
    <3>1. phase[c] \in {"loading", "filling"} /\ KeyFor(c) = key /\ of'[c] = of[c]
      BY <2>2
    <3>2. Ahead(key, of[c])
      BY <1>1, <3>1 DEF NotBehind
    <3>3. QED
      BY <1>3, <3>1, <3>2 DEF Ahead, Carrying
  <2>3. QED
    BY <2>1, <2>2 DEF NotBehind
<1>5. QED
  BY <1>2, <1>4

\* A call of one key does not disturb the others, nor one that has no part in
\* them any more.
LEMMA OtherKeys ==
    ASSUME TypeOK, NEW c \in Clients, OthersStay(c), NEW key \in Keys,
           KeyGoesForward(key), mixed \subseteq mixed', db' = db,
           cache'[key] = cache[key], newest'[key] = newest[key],
           phase'[c] \in {"idle", "resolving", "looking"} \/ KeyFor(c)' # key
    PROVE  KeyGoesForward(key)'
<1>1. ASSUME NEW d \in Clients, KeyFor(d)' = key, phase'[d] \notin {"idle", "resolving", "looking"}
      PROVE  phase[d] = phase'[d] /\ KeyFor(d) = key /\ of'[d] = of[d]
  BY <1>1 DEF OthersStay, KeyFor
<1>2. \A d \in Clients :
        /\ (phase'[d] \in FETCHING /\ KeyFor(d)' = key) =>
             phase[d] \in FETCHING /\ KeyFor(d) = key
        /\ (phase'[d] \in {"loading", "filling"} /\ KeyFor(d)' = key) =>
             phase[d] \in {"loading", "filling"}
  BY <1>1 DEF FETCHING
<1>3. \A d \in Clients :
        (phase'[d] \in {"loading", "filling", "addresses", "answering"} /\ KeyFor(d)' = key) =>
            /\ phase[d] \in {"loading", "filling", "addresses", "answering"}
            /\ KeyFor(d) = key /\ of'[d] = of[d]
  BY <1>1
<1>4. QED
  BY <1>2, <1>3, KeyFrame

LEMMA FloorFrame ==
    ASSUME TypeOK, NEW d \in Clients, NEW key \in Keys, FloorHolds(d, key),
           newest'[key] \in Nat, newest'[key] >= newest[key], mixed \subseteq mixed',
           Has(d, key)' => Has(d, key) /\ floor'[d] = floor[d],
           phase'[d] \in {"loading", "filling", "addresses", "answering"} =>
               /\ phase[d] \in {"loading", "filling", "addresses", "answering"} /\ of'[d] = of[d]
    PROVE  FloorHolds(d, key)'
<1>1. floor[d] \in Nat /\ newest[key] \in Nat
  BY NumbersType, ClientValues
<1>2. QED
  BY <1>1 DEF FloorHolds, Carrying

\* Only c takes a step; what its own floor and the keys do is to be shown.
LEMMA ForwardStep ==
    ASSUME TypeOK, Forward, NEW c \in Clients, OthersStay(c), UNCHANGED <<tool, redis>>,
           mixed \subseteq mixed',
           \A key \in Keys : newest'[key] \in Nat /\ newest'[key] >= newest[key],
           \A key \in Keys : FloorHolds(c, key)',
           WithoutRedis',
           redis => \A key \in Keys : KeyGoesForward(key)'
    PROVE  Forward'
<1>1. Keys' = Keys
  BY SameTool
<1>2. ASSUME NEW d \in Clients \ {c}, NEW key \in Keys
      PROVE  FloorHolds(d, key)'
  <2>1. /\ phase'[d] = phase[d] /\ of'[d] = of[d] /\ floor'[d] = floor[d]
        /\ KeyFor(d)' = KeyFor(d)
    BY DEF OthersStay, KeyFor
  <2>2. Has(d, key)' => Has(d, key) /\ floor'[d] = floor[d]
    BY <2>1 DEF Has
  <2>3. FloorHolds(d, key)
    BY DEF Forward
  <2>4. QED
    BY <2>1, <2>2, <2>3, FloorFrame
<1>3. QED
  BY <1>1, <1>2 DEF Forward

LEMMA NewestKept ==
    ASSUME TypeOK, newest' = newest
    PROVE  \A key \in Keys : newest'[key] \in Nat /\ newest'[key] >= newest[key]
<1> SUFFICES ASSUME NEW key \in Keys PROVE newest'[key] \in Nat /\ newest'[key] >= newest[key]
  OBVIOUS
<1>1. newest[key] \in Nat
  BY NumbersType
<1>2. QED
  BY <1>1

\* A call that begins, or whose product is now known, has seen nothing newer
\* than has been answered.
LEMMA BeginsForward ==
    ASSUME TypeOK, Forward, NEW c \in Clients, NEW k \in Resolved, OthersStay(c),
           UNCHANGED <<tool, redis, db, cache, newest, mixed>>,
           phase'[c] = Where(k), call'[c] = k, floor'[c] = Floor(k)
    PROVE  Forward'
<1>1. KeyFor(c)' = KeyOf(k)
  BY DEF KeyFor
<1>2. ASSUME NEW key \in Keys PROVE FloorHolds(c, key)'
  <2>1. newest[key] \in Nat /\ key # None
    BY NumbersType DEF Keys
  <2>2. c \notin Carrying'
    BY WhereType DEF Carrying
  <2>3. QED
    BY <1>1, <2>1, <2>2 DEF FloorHolds, Has, Floor
<1>3. WithoutRedis'
  <2>1. Keys' = Keys
    BY SameTool
  <2>2. ~redis => phase'[c] \in {"checking", "fetching"}
    BY DEF Where, First
  <2>3. QED
    BY <2>1, <2>2 DEF Forward, WithoutRedis, OthersStay
<1>4. ASSUME redis, NEW key \in Keys PROVE KeyGoesForward(key)'
  <2>1. phase'[c] = "looking" \/ KeyOf(k) # key
    BY <1>4 DEF Where, Keys
  <2>2. KeyGoesForward(key)
    BY <1>4 DEF Forward
  <2>3. QED
    BY <1>1, <2>1, <2>2, OtherKeys
<1>5. QED
  BY <1>2, <1>3, <1>4, NewestKept, ForwardStep

\* A call that is not yet, or no longer, about a key.
LEMMA AsideForward ==
    ASSUME TypeOK, Forward, NEW c \in Clients, OthersStay(c),
           UNCHANGED <<tool, redis, db, cache, newest, mixed>>,
           phase'[c] \in {"idle", "resolving"}
    PROVE  Forward'
<1>1. \A key \in Keys : FloorHolds(c, key)'
  BY DEF FloorHolds, Has
<1>2. WithoutRedis'
  <2>1. Keys' = Keys
    BY SameTool
  <2>2. QED
    BY <2>1 DEF Forward, WithoutRedis, OthersStay
<1>3. redis => \A key \in Keys : KeyGoesForward(key)'
  BY OtherKeys DEF Forward
<1>4. QED
  BY <1>1, <1>2, <1>3, NewestKept, ForwardStep

LEMMA StartForward ==
    ASSUME TypeOK, Forward, NEW c \in Clients, NEW k \in Calls, Start(c, k)
    PROVE  Forward'
<1>1. /\ UNCHANGED <<tool, redis, db, cache, newest, mixed>> /\ OthersStay(c)
      /\ phase'[c] = (IF ByName(k) THEN "resolving" ELSE Where(k)) /\ call'[c] = k
      /\ floor'[c] = (IF ByName(k) THEN 0 ELSE Floor(k)) /\ k.tool = tool
  BY DEF Start, OthersStay, TypeOK, ClientTypeOK
<1>2. CASE ByName(k)
  BY <1>1, <1>2, AsideForward
<1>3. CASE ~ByName(k)
  BY <1>1, <1>3, StartsResolved, BeginsForward
<1>4. QED
  BY <1>2, <1>3

LEMMA ResolveForward ==
    ASSUME TypeOK, Forward, NEW c \in Clients, Resolve(c)
    PROVE  Forward'
<1>1. phase[c] = "resolving" /\ UNCHANGED <<tool, redis, db, cache, newest, mixed>>
  BY DEF Resolve
<1>2. CASE Over(c)
  BY <1>1, <1>2, OverStep, AsideForward DEF OthersStay
<1>3. CASE ~Over(c)
  <2>1. PICK id \in ProductIdsByName(Contents[db], call[c].name) :
             LET k == [tool |-> tool, id |-> id, name |-> None] IN
             /\ call' = [call EXCEPT ![c] = k]
             /\ phase' = [phase EXCEPT ![c] = Where(k)]
             /\ floor' = [floor EXCEPT ![c] = Floor(k)]
             /\ UNCHANGED <<value, since, of, by>>
    BY <1>3 DEF Resolve
  <2> DEFINE k == [tool |-> tool, id |-> id, name |-> None]
  <2>2. k \in Resolved
    BY <1>1, NamedCall
  <2> HIDE DEF k
  <2>3. /\ call'[c] = k /\ phase'[c] = Where(k) /\ floor'[c] = Floor(k) /\ OthersStay(c)
    BY <2>1 DEF k, OthersStay, TypeOK, ClientTypeOK
  <2>4. QED
    BY <1>1, <2>2, <2>3, BeginsForward
<1>4. QED
  BY <1>2, <1>3

LEMMA ReadFailsForward ==
    ASSUME TypeOK, Forward, NEW c \in Clients, ReadFails(c)
    PROVE  Forward'
<1>1. Over(c) /\ UNCHANGED <<tool, redis, db, cache, newest, mixed>>
  BY DEF ReadFails
<1>2. QED
  BY <1>1, OverStep, AsideForward DEF OthersStay

LEMMA TickForward ==
    ASSUME TypeOK, Forward, Tick
    PROVE  Forward'
<1>1. /\ UNCHANGED <<tool, redis, db, wrote, phase, call, value, since, of, by, newest, floor, mixed>>
      /\ \A key \in Keys : cache'[key] \in {None, cache[key]}
  BY DEF Tick
<1>2. Keys' = Keys
  BY <1>1, SameTool
<1>3. \A d \in Clients : KeyFor(d)' = KeyFor(d)
  BY <1>1 DEF KeyFor
<1>4. ASSUME NEW d \in Clients, NEW key \in Keys PROVE FloorHolds(d, key)'
  BY <1>1, <1>3 DEF Forward, FloorHolds, Has, Carrying
<1>5. WithoutRedis'
  BY <1>1, <1>2 DEF Forward, WithoutRedis
<1>6. ASSUME redis, NEW key \in Keys PROVE KeyGoesForward(key)'
  <2>1. KeyGoesForward(key) /\ cache'[key] \in {None, cache[key]}
    BY <1>1, <1>6 DEF Forward
  <2>2. QED
    BY <1>1, <1>3, <2>1, KeyFrame
<1>7. QED
  BY <1>1, <1>2, <1>4, <1>5, <1>6 DEF Forward

LEMMA ShopWritesForward ==
    ASSUME TypeOK, Forward, ShopWrites
    PROVE  Forward'
<1>1. /\ UNCHANGED <<tool, redis, cache, phase, call, value, since, of, by, newest, floor, mixed>>
      /\ db' = db + 1
  BY DEF ShopWrites
<1>2. Keys' = Keys
  BY <1>1, SameTool
<1>3. \A d \in Clients : KeyFor(d)' = KeyFor(d)
  BY <1>1 DEF KeyFor
<1>4. ASSUME NEW d \in Clients, NEW key \in Keys PROVE FloorHolds(d, key)'
  BY <1>1, <1>3 DEF Forward, FloorHolds, Has, Carrying
<1>5. WithoutRedis'
  BY <1>1, <1>2 DEF Forward, WithoutRedis
<1>6. ASSUME redis, NEW key \in Keys PROVE KeyGoesForward(key)'
  <2>1. KeyGoesForward(key)
    BY <1>6 DEF Forward
  <2>2. QED
    BY <1>1, <1>3, <2>1, KeyFrame
<1>7. QED
  BY <1>1, <1>2, <1>4, <1>5, <1>6 DEF Forward

\* What c holds while its phase, call and floor are known.
LEMMA FloorOf ==
    ASSUME TypeOK, Forward, NEW c \in Clients, NEW key \in Keys, Has(c, key)
    PROVE  /\ floor[c] <= newest[key] /\ floor[c] \in Nat /\ newest[key] \in Nat
           /\ newest[key] <= db /\ db \in Nat
           /\ (c \in Carrying /\ key \notin mixed) => of[c] >= floor[c]
BY ClientValues, NumbersType DEF Forward, FloorHolds

LEMMA HitForward ==
    ASSUME TypeOK, Keyed, Truth, Forward, NEW c \in Clients, Hit(c)
    PROVE  Forward'
<1> DEFINE key0 == KeyFor(c)
<1>1. /\ phase[c] = "looking" /\ cache[key0] # None
      /\ UNCHANGED <<now, tool, redis, db, wrote, cache, call, newest, floor, mixed>>
      /\ of'[c] = cache[key0].of /\ OthersStay(c)
      /\ phase'[c] \in {"addresses", "answering"}
  BY ThenType DEF Hit, OthersStay, TypeOK, ClientTypeOK
<1>2. key0 \in Keys /\ \A d \in Clients : KeyFor(d)' = KeyFor(d)
  BY <1>1, BusyCall DEF Keyed, KeyFor
<1>3. redis
  BY <1>1, <1>2 DEF Forward, WithoutRedis
<1> HIDE DEF key0
<1>4. key0 \notin mixed =>
        /\ cache[key0].of >= newest[key0]
        /\ \A d \in Carrying : KeyFor(d) = key0 => cache[key0].of >= of[d]
        /\ \A d \in Clients : KeyFor(d) = key0 => phase[d] \notin FETCHING
  BY <1>1, <1>2, <1>3 DEF Forward, KeyGoesForward, NotBehind, Ahead, OneFills
<1>5. cache[key0].of \in Nat /\ newest[key0] \in Nat
  BY <1>1, <1>2, NumbersType
<1>6. ASSUME NEW key \in Keys PROVE FloorHolds(c, key)'
  <2> SUFFICES ASSUME Has(c, key)'
               PROVE  /\ floor[c] <= newest[key]
                      /\ key \notin mixed => of'[c] >= floor[c]
    BY <1>1 DEF FloorHolds
  <2>1. key = key0 /\ Has(c, key)
    BY <1>1, <1>2 DEF Has, key0
  <2>2. floor[c] <= newest[key] /\ floor[c] \in Nat
    BY <2>1, FloorOf
  <2>3. QED
    BY <1>1, <1>4, <1>5, <2>1, <2>2
<1>7. WithoutRedis'
  BY <1>1, <1>3 DEF WithoutRedis
<1>8. ASSUME NEW key \in Keys PROVE KeyGoesForward(key)'
  <2>1. KeyGoesForward(key)
    BY <1>3 DEF Forward
  <2>2. CASE key # key0
    BY <1>1, <1>2, <2>1, <2>2, OtherKeys DEF key0
  <2>3. CASE key = key0
    <3> SUFFICES ASSUME key \notin mixed PROVE OneFills(key)' /\ NotBehind(key)'
      BY <1>1 DEF KeyGoesForward
    <3>1. \A d \in Clients : KeyFor(d) = key => phase'[d] \notin FETCHING
      BY <2>3, <1>1, <1>4 DEF OthersStay, FETCHING
    <3>2. OneFills(key)'
      BY <1>2, <3>1 DEF OneFills
    <3>3. cache[key].of <= db
      BY <1>1, <2>1, <2>3 DEF KeyGoesForward, NotBehind
    <3>4. \A d \in Clients : ((d \in Carrying)' /\ KeyFor(d) = key) => cache[key].of >= of'[d]
      BY <2>3, <1>1, <1>4, <1>5 DEF OthersStay, Carrying
    <3>5. NotBehind(key)'
      BY <2>3, <1>1, <1>2, <1>4, <3>1, <3>3, <3>4 DEF NotBehind, Ahead, Carrying, FETCHING
    <3>6. QED
      BY <3>2, <3>5
  <2>4. QED
    BY <2>2, <2>3
<1>9. QED
  BY <1>1, <1>6, <1>7, <1>8, NewestKept, ForwardStep

LEMMA MissForward ==
    ASSUME TypeOK, Keyed, Forward, NEW c \in Clients, Miss(c)
    PROVE  Forward'
<1> DEFINE key0 == KeyFor(c)
<1>1. /\ phase[c] = "looking" /\ phase'[c] \in {"checking", "fetching"}
      /\ UNCHANGED <<now, tool, redis, db, wrote, cache, call, of, newest, floor>>
      /\ OthersStay(c) /\ mixed \subseteq mixed'
      /\ key0 \notin mixed' => cache[key0] = None /\ Rivals(c) = {}
  BY DEF Miss, First, OthersStay, TypeOK, ClientTypeOK
<1>2. key0 \in Keys /\ \A d \in Clients : KeyFor(d)' = KeyFor(d)
  BY <1>1, BusyCall DEF Keyed, KeyFor
<1>3. redis
  BY <1>1 DEF Forward, WithoutRedis
<1>4. ASSUME NEW key \in Keys PROVE FloorHolds(c, key)'
  <2>1. Has(c, key)' => Has(c, key)
    BY <1>1, <1>2 DEF Has
  <2>2. Has(c, key) => floor[c] <= newest[key]
    BY FloorOf
  <2>3. QED
    BY <1>1, <2>1, <2>2 DEF FloorHolds, Carrying
<1>5. WithoutRedis'
  BY <1>1, <1>3 DEF WithoutRedis
<1>6. ASSUME NEW key \in Keys PROVE KeyGoesForward(key)'
  <2>1. KeyGoesForward(key)
    BY <1>3 DEF Forward
  <2>2. CASE key # key0
    BY <1>1, <1>2, <2>1, <2>2, OtherKeys
  <2>3. CASE key = key0
    <3> SUFFICES ASSUME key \notin mixed' PROVE OneFills(key)' /\ NotBehind(key)'
      BY <2>3 DEF KeyGoesForward
    <3>1. cache[key] = None /\ Rivals(c) = {} /\ KeyFor(c) = key
      BY <1>1, <2>3
    <3>2. \A d \in Clients \ {c} : KeyFor(d) = key => phase'[d] \notin FETCHING
      BY <1>1, <3>1 DEF Rivals, OthersStay
    <3>3. OneFills(key)'
      BY <1>1, <1>2, <3>1, <3>2 DEF OneFills
    <3>4. NotBehind(key)'
      BY <1>1, <1>2, <3>1, <3>2 DEF NotBehind, FETCHING
    <3>5. QED
      BY <3>3, <3>4
  <2>4. QED
    BY <2>2, <2>3
<1>7. QED
  BY <1>1, <1>4, <1>5, <1>6, NewestKept, ForwardStep

LEMMA FetchForward ==
    ASSUME TypeOK, Keyed, Forward, NEW c \in Clients, Fetch(c)
    PROVE  Forward'
<1> DEFINE key0 == KeyFor(c)
<1>1. /\ phase[c] = "fetching" /\ phase[c] \in FETCHING
      /\ UNCHANGED <<now, tool, redis, db, wrote, cache, call, newest, floor, mixed>>
      /\ of'[c] = db /\ OthersStay(c)
      /\ phase'[c] \in {"loading", "filling", "addresses", "answering"}
      /\ phase'[c] = "filling" => redis
  BY KeptType DEF Fetch, FETCHING, OthersStay, TypeOK, ClientTypeOK
<1>2. /\ \A d \in Clients : KeyFor(d)' = KeyFor(d) /\ of[d] \in Nat /\ of[d] <= db
      /\ db \in Nat
  <2>1. \A d \in Clients : KeyFor(d)' = KeyFor(d)
    BY <1>1 DEF KeyFor
  <2>2. db \in Nat
    BY ConfigAssumption DEF ConfigAssumption, TypeOK
  <2>3. \A d \in Clients : of[d] \in 0 .. db
    BY ClientValues
  <2>4. QED
    BY <2>1, <2>2, <2>3
<1> HIDE DEF key0
<1>3. ASSUME NEW key \in Keys PROVE FloorHolds(c, key)'
  <2>1. Has(c, key)' => Has(c, key)
    BY <1>1, <1>2 DEF Has
  <2>2. Has(c, key) => floor[c] <= newest[key] /\ floor[c] <= db
    BY FloorOf
  <2>3. QED
    BY <1>1, <1>2, <2>1, <2>2 DEF FloorHolds
<1>4. WithoutRedis'
  <2>1. Keys' = Keys
    BY <1>1, SameTool
  <2>2. QED
    BY <1>1, <2>1 DEF Forward, WithoutRedis, OthersStay
<1>5. ASSUME redis, NEW key \in Keys PROVE KeyGoesForward(key)'
  <2>1. KeyGoesForward(key)
    BY <1>5 DEF Forward
  <2>2. CASE key # key0
    BY <1>1, <1>2, <2>1, <2>2, OtherKeys DEF key0
  <2>3. CASE key = key0
    <3> SUFFICES ASSUME key \notin mixed PROVE OneFills(key)' /\ NotBehind(key)'
      BY <1>1, <2>3 DEF KeyGoesForward
    <3>1. /\ cache[key] = None
          /\ \A d \in Clients :
               (phase[d] \in FETCHING /\ KeyFor(d) = key) => d = c
      BY <1>1, <2>1, <2>3 DEF KeyGoesForward, OneFills, key0
    <3>2. \A d \in Clients :
               (phase'[d] \in FETCHING /\ KeyFor(d) = key) => d = c
      BY <1>1, <3>1 DEF OthersStay
    <3>3. OneFills(key)'
      BY <1>1, <1>2, <3>1, <3>2 DEF OneFills
    <3>4. \A d \in Clients : of'[d] <= db
      BY <1>1, <1>2 DEF OthersStay
    <3>5. newest[key] \in Nat /\ newest[key] <= db
      BY <2>3, NumbersType
    <3>6. Ahead(key, of[c])'
      BY <1>1, <1>2, <3>4, <3>5 DEF Ahead, Carrying
    <3>7. NotBehind(key)'
      BY <1>1, <1>2, <3>1, <3>2, <3>6 DEF NotBehind, FETCHING
    <3>8. QED
      BY <3>3, <3>7
  <2>4. QED
    BY <2>2, <2>3
<1>6. QED
  BY <1>1, <1>3, <1>4, <1>5, NewestKept, ForwardStep

LEMMA FillForward ==
    ASSUME TypeOK, Keyed, Truth, Forward, NEW c \in Clients, Fill(c) \/ FillFails(c)
    PROVE  Forward'
<1> DEFINE key0 == KeyFor(c)
<1>1. /\ phase[c] = "filling" /\ phase'[c] \in {"addresses", "answering"}
      /\ UNCHANGED <<now, tool, redis, db, wrote, call, value, since, of, by, newest, floor>>
      /\ OthersStay(c) /\ mixed \subseteq mixed'
      /\ \A key \in Keys : key # key0 => cache'[key] = cache[key]
      /\ key0 \in mixed' \/ cache' = [cache EXCEPT ![key0] = Entry(c)]
  BY ThenType DEF Fill, FillFails, OthersStay, TypeOK, ClientTypeOK
<1>2. /\ \A d \in Clients : KeyFor(d)' = KeyFor(d)
      /\ key0 \in Keys /\ Entry(c).of = of[c] /\ of[c] \in Nat /\ of[c] <= db /\ db \in Nat
  <2>1. key0 \in Keys
    BY <1>1, BusyCall DEF Keyed
  <2>2. Entry(c).of = of[c] /\ of[c] \in 0 .. db /\ db \in Nat
    BY ClientValues DEF Entry
  <2>3. QED
    BY <1>1, <2>1, <2>2 DEF KeyFor
<1>3. redis
  BY <1>1 DEF Forward, WithoutRedis
<1>4. ASSUME NEW key \in Keys PROVE FloorHolds(c, key)'
  <2>1. Has(c, key)' => Has(c, key)
    BY <1>1, <1>2 DEF Has
  <2>2. Has(c, key) => FloorHolds(c, key) /\ c \in Carrying
    BY <1>1 DEF Forward, Carrying
  <2>3. QED
    BY <1>1, <2>1, <2>2 DEF FloorHolds, Has
<1>5. WithoutRedis'
  BY <1>1, <1>3 DEF WithoutRedis
<1>6. ASSUME NEW key \in Keys PROVE KeyGoesForward(key)'
  <2>1. KeyGoesForward(key)
    BY <1>3 DEF Forward
  <2>2. CASE key # key0
    BY <1>1, <1>2, <2>1, <2>2, OtherKeys
  <2>3. CASE key = key0
    <3> SUFFICES ASSUME key \notin mixed' PROVE OneFills(key)' /\ NotBehind(key)'
      BY DEF KeyGoesForward
    <3>1. KeyFor(c) = key /\ cache'[key] = Entry(c) /\ key \notin mixed
      BY <1>1, <2>3 DEF TypeOK
    <3> HIDE DEF key0
    <3>2. \A d \in Clients :
            (phase[d] \in FETCHING /\ KeyFor(d) = key) => d = c
      BY <1>1, <2>1, <3>1 DEF KeyGoesForward, OneFills, FETCHING
    <3>3. \A d \in Clients : KeyFor(d) = key => phase'[d] \notin FETCHING
      BY <1>1, <3>2 DEF OthersStay, FETCHING
    <3>4. OneFills(key)'
      BY <1>2, <3>3 DEF OneFills
    <3>5. Ahead(key, of[c])
      BY <1>1, <2>1, <3>1 DEF KeyGoesForward, NotBehind
    <3>6. \A d \in Clients : (d \in Carrying)' => d \in Carrying
      BY <1>1 DEF OthersStay, Carrying
    <3>7. Ahead(key, of[c])'
      BY <1>1, <1>2, <3>5, <3>6 DEF Ahead, Carrying
    <3>8. NotBehind(key)'
      BY <1>1, <1>2, <3>1, <3>3, <3>7 DEF NotBehind, Ahead, FETCHING
    <3>9. QED
      BY <3>4, <3>8
  <2>4. QED
    BY <2>2, <2>3
<1>7. QED
  BY <1>1, <1>4, <1>5, <1>6, NewestKept, ForwardStep

\* A call goes on: it begins neither to fetch nor to carry.
LEMMA GoesOnForward ==
    ASSUME TypeOK, Forward, NEW c \in Clients, OthersStay(c),
           phase[c] \notin {"idle", "resolving"}, phase'[c] # "looking",
           UNCHANGED <<tool, redis, db, cache, call, of, newest, floor, mixed>>,
           phase'[c] \in FETCHING => phase[c] \in FETCHING,
           phase'[c] \in {"loading", "filling"} => phase[c] = "loading",
           phase'[c] \in {"loading", "filling", "addresses", "answering"} =>
               phase[c] \in {"loading", "filling", "addresses", "answering"},
           phase'[c] = "filling" => redis
    PROVE  Forward'
<1>1. \A d \in Clients : KeyFor(d)' = KeyFor(d)
  BY DEF KeyFor
<1>2. ASSUME NEW key \in Keys PROVE FloorHolds(c, key)'
  <2>1. Has(c, key)' => Has(c, key)
    BY <1>1 DEF Has
  <2>2. FloorHolds(c, key)
    BY DEF Forward
  <2>3. QED
    BY <2>1, <2>2 DEF FloorHolds, Has, Carrying
<1>3. WithoutRedis'
  <2>1. Keys' = Keys
    BY SameTool
  <2>2. QED
    BY <2>1 DEF Forward, WithoutRedis, OthersStay
<1>4. ASSUME redis, NEW key \in Keys PROVE KeyGoesForward(key)'
  <2>1. KeyGoesForward(key)
    BY <1>4 DEF Forward
  <2>2. \A d \in Clients :
          /\ phase'[d] \in FETCHING => phase[d] \in FETCHING
          /\ phase'[d] \in {"loading", "filling"} => phase[d] \in {"loading", "filling"}
          /\ phase'[d] \in {"loading", "filling", "addresses", "answering"} =>
               phase[d] \in {"loading", "filling", "addresses", "answering"}
    BY DEF OthersStay
  <2>3. QED
    BY <1>1, <2>1, <2>2, KeyFrame
<1>5. QED
  BY <1>2, <1>3, <1>4, NewestKept, ForwardStep

LEMMA ChecksForward ==
    ASSUME TypeOK, Forward, NEW c \in Clients, Checks(c)
    PROVE  Forward'
<1>1. /\ phase[c] = "checking" /\ phase[c] \in FETCHING /\ phase'[c] = "fetching"
      /\ UNCHANGED <<tool, redis, db, cache, call, of, newest, floor, mixed>>
      /\ OthersStay(c)
  BY DEF Checks, FETCHING, OthersStay, TypeOK, ClientTypeOK
<1>2. QED
  BY <1>1, GoesOnForward

LEMMA LoadMoreForward ==
    ASSUME TypeOK, Forward, NEW c \in Clients, LoadMore(c)
    PROVE  Forward'
<1>1. /\ phase[c] = "loading" /\ phase[c] \in FETCHING
      /\ phase'[c] \in {"filling", "addresses", "answering"}
      /\ phase'[c] = "filling" => redis
      /\ UNCHANGED <<tool, redis, db, cache, call, of, newest, floor, mixed>>
      /\ OthersStay(c)
  BY KeptType DEF LoadMore, FETCHING, OthersStay, TypeOK, ClientTypeOK
<1>2. QED
  BY <1>1, GoesOnForward

LEMMA ReadAddressesForward ==
    ASSUME TypeOK, Forward, NEW c \in Clients, ReadAddresses(c)
    PROVE  Forward'
<1>1. /\ phase[c] = "addresses" /\ phase'[c] = "answering"
      /\ "answering" \notin FETCHING
      /\ UNCHANGED <<tool, redis, db, cache, call, of, newest, floor, mixed>>
      /\ OthersStay(c)
  BY DEF ReadAddresses, FETCHING, OthersStay, TypeOK, ClientTypeOK
<1>2. QED
  BY <1>1, GoesOnForward

\* An answer becomes the newest of its key; what is kept is no older.
LEMMA AnswerForward ==
    ASSUME TypeOK, Forward, NEW c \in Clients, Answer(c)
    PROVE  Forward'
<1>1. /\ phase[c] = "answering" /\ c \in Carrying /\ phase'[c] = "idle"
      /\ UNCHANGED <<now, tool, redis, db, wrote, cache, mixed>>
      /\ OthersStay(c)
  BY OverStep DEF Answer, OthersStay, Carrying
<1>2. \A key \in Keys :
        newest'[key] = IF key = KeyFor(c) /\ KeyFor(c) # None /\ of[c] > newest[key]
                         THEN of[c] ELSE newest[key]
  BY AnsweredNewest
<1>3. of[c] \in Nat /\ \A key \in Keys : newest[key] \in Nat
  BY ClientValues, NumbersType
<1>4. \A key \in Keys : newest'[key] \in Nat /\ newest'[key] >= newest[key]
  BY <1>2, <1>3
<1>5. \A key \in Keys : FloorHolds(c, key)'
  BY <1>1 DEF FloorHolds, Has
<1>6. WithoutRedis'
  <2>1. Keys' = Keys
    BY <1>1, SameTool
  <2>2. QED
    BY <1>1, <2>1 DEF Forward, WithoutRedis, OthersStay
<1>7. ASSUME redis, NEW key \in Keys PROVE KeyGoesForward(key)'
  <2> SUFFICES ASSUME key \notin mixed PROVE OneFills(key)' /\ NotBehind(key)'
    BY <1>1 DEF KeyGoesForward
  <2>1. OneFills(key) /\ NotBehind(key)
    BY <1>7 DEF Forward, KeyGoesForward
  <2>2. \A d \in Clients : phase'[d] \notin {"idle", "resolving"} =>
          /\ d # c /\ phase'[d] = phase[d] /\ of'[d] = of[d] /\ KeyFor(d)' = KeyFor(d)
    BY <1>1 DEF OthersStay, KeyFor
  <2>3. OneFills(key)'
    BY <1>1, <2>1, <2>2 DEF OneFills, FETCHING
  <2>4. cache[key] # None => cache[key].of \in Nat /\ cache[key].of >= newest'[key]
    BY <1>1, <1>2, <1>3, <2>1, NumbersType DEF NotBehind, Ahead
  <2>5. \A d \in Clients :
          (phase[d] \in {"loading", "filling"} /\ KeyFor(d) = key) => of[d] >= newest'[key]
    BY <1>1, <1>2, <1>3, <2>1 DEF NotBehind, Ahead
  <2>6. \A d \in Clients : (d \in Carrying)' => d \in Carrying
    BY <2>2 DEF Carrying
  <2>7. cache'[key] # None => cache'[key].of <= db' /\ Ahead(key, cache[key].of)'
    BY <1>1, <2>1, <2>2, <2>4, <2>6 DEF NotBehind, Ahead, Carrying
  <2>8. ASSUME NEW d \in Clients, phase'[d] \in {"loading", "filling"}, KeyFor(d)' = key
        PROVE  Ahead(key, of[d])'
    BY <2>1, <2>2, <2>5, <2>6, <2>8 DEF NotBehind, Ahead, Carrying
  <2>9. QED
    BY <2>3, <2>7, <2>8 DEF NotBehind
<1>8. QED
  BY <1>1, <1>4, <1>5, <1>6, <1>7, ForwardStep

LEMMA InitForward == Init => Forward
<1> SUFFICES ASSUME Init PROVE Forward
  OBVIOUS
<1>1. /\ \A c \in Clients : phase[c] = "idle"
      /\ \A key \in Keys : cache[key] = None
  BY DEF Init
<1>2. QED
  BY <1>1 DEF Forward, FloorHolds, Has, WithoutRedis, KeyGoesForward, OneFills, NotBehind, FETCHING

LEMMA ForwardNext == ForwardInv /\ [Next]_vars => ForwardInv'
<1> SUFFICES ASSUME TypeOK, Keyed, Truth, Forward, [Next]_vars PROVE Forward'
  BY TruthInvNext DEF ForwardInv, TruthInv
<1>1. CASE UNCHANGED vars
  <2>1. /\ UNCHANGED <<tool, redis, db, cache, phase, call, of, newest, floor, mixed>>
        /\ Keys' = Keys /\ \A d \in Clients : KeyFor(d)' = KeyFor(d)
    BY <1>1, SameTool DEF vars, KeyFor
  <2>2. \A d \in Clients : \A key \in Keys : FloorHolds(d, key)'
    BY <2>1 DEF Forward, FloorHolds, Has, Carrying
  <2>3. WithoutRedis'
    BY <2>1 DEF Forward, WithoutRedis
  <2>4. redis => \A key \in Keys : KeyGoesForward(key)'
    BY <2>1, KeyFrame DEF Forward
  <2>5. QED
    BY <2>1, <2>2, <2>3, <2>4 DEF Forward
<1>2. QED
  BY <1>1, TickForward, ShopWritesForward, StartForward, ResolveForward, HitForward,
     MissForward, ChecksForward, FetchForward, LoadMoreForward, FillForward,
     ReadAddressesForward, ReadFailsForward, AnswerForward DEF Next, Read

LEMMA ForwardAnswers == ForwardInv => ReadsGoForward
<1> SUFFICES ASSUME TypeOK, Forward, NEW c \in Clients, phase[c] = "answering",
                    KeyFor(c) # None
             PROVE  of[c] >= floor[c] \/ KeyFor(c) \in mixed
  BY DEF ForwardInv, TruthInv, ReadsGoForward
<1>1. KeyFor(c) \in Keys /\ c \in Carrying /\ Has(c, KeyFor(c))
  BY BusyCall DEF Carrying, Has
<1>2. QED
  BY <1>1 DEF Forward, FloorHolds

\* A customer who was shown a newer state of something is not shown an older
\* one later, unless two calls fetched it at the same time or Redis failed.
THEOREM NobodyIsLedBack == Spec => []ReadsGoForward
<1>1. Init => ForwardInv
  BY InitTruthInv, InitForward DEF ForwardInv
<1>2. QED
  BY <1>1, ForwardNext, ForwardAnswers, PTL DEF Spec

==============================================================================
