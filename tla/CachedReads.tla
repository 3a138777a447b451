----------------------------- MODULE CachedReads -----------------------------
(***************************************************************************)
(* The read tools: each answers a customer's call from Redis or from the   *)
(* database, and keeps what it read under a key made of some of the call's *)
(* arguments.  The shop changes the database meanwhile and tells nobody:   *)
(* an entry ends by its time to live only.  (The entries that the write    *)
(* tools delete are the subject of OrderTools.)                            *)
(*                                                                         *)
(* The tools share no keys, so a behaviour follows one of them.  The       *)
(* statements of one query each see the database as it is by then (READ    *)
(* COMMITTED): the check of the order's owner, the rows themselves, and    *)
(* what selectinload fetches for them, here one statement for all of it.   *)
(***************************************************************************)
EXTENDS Integers, Sequences, SequencesExt, FiniteSetsExt

CONSTANTS
    Users,       \* the customers
    Clients,     \* the calls that may be under way at once
    Calls,       \* what they may call, with which arguments
    Contents,    \* the states of the shop's database, in order
    Ttl,         \* cache_ttl_*; the account's is a constant of its tool
    None,
    MaxDelay,    \* bound: seconds from reading a value to storing or giving it
    MaxTime      \* bound: when the model stops the clock

VARIABLES
    now,
    tool,        \* the tool this behaviour is about
    redis,       \* is_redis_available(): the ping at start-up
    db,          \* the current state of the database, an index into Contents
    wrote,       \* when each state became current
    cache,       \* per key, an entry or None
    phase, call,
    value,       \* what the call has read
    since,       \* when it read the rows
    \* History variables: no guard reads them.
    of,          \* the state of the database the rows are from
    by,          \* the call that fetched them
    newest,      \* per key, the newest state any answer was from
    floor,       \* newest, when the call began
    mixed        \* keys fetched twice at once, or for which Redis failed

vars == <<now, tool, redis, db, wrote, cache, phase, call, value, since, of,
          by, newest, floor, mixed>>

-----------------------------------------------------------------------------
(* The tables, as far as the tools read them.  more are the rows of other  *)
(* tables that belong to a row: an order's history, a shipment's events, a *)
(* product's images and variants.                                          *)

OrderRow == [id : Nat, user : Users, status : STRING, more : SUBSET Nat]
ItemRow == [id : Nat, order : Nat, more : SUBSET Nat]
ShipmentRow == [id : Nat, order : Nat, more : SUBSET Nat]
RefundRow == [id : Nat, user : Users, status : STRING, more : SUBSET Nat]
ProductRow == [id : Nat, name : Seq(STRING), status : STRING, brand : Nat,
               category : Nat, price : Nat, more : SUBSET Nat]
ReviewRow == [id : Nat, product : Nat, rating : 1 .. 5, more : SUBSET Nat]
AddressRow == [id : Nat, user : Users, is_default : BOOLEAN]

\* orders, refunds, products and reviews come newest first, the others by id.
Snapshot ==
    [orders : Seq(OrderRow), items : Seq(ItemRow), shipments : Seq(ShipmentRow),
     refunds : Seq(RefundRow), products : Seq(ProductRow),
     reviews : Seq(ReviewRow), account : [Users -> Nat], addresses : Seq(AddressRow)]

\* An argument that may be left out.
Optional(S) == S \cup {None}

OrderTools == {"get_order_detail", "get_order_items", "track_shipment"}

\* The tools' signatures, with the user of the token where the tool looks at
\* it; a name is the sequence of its words.
Call ==
    [tool : {"get_orders"}, user : Users, limit : Int, status : Optional(STRING)]
        \cup [tool : OrderTools, user : Users, order : Int]
        \cup [tool : {"get_refund_status"}, user : Users, refund : Optional(Int)]
        \cup [tool : {"search_products"}, keyword : Optional(STRING),
              category : Optional(Int), brand : Optional(Int), min_price : Optional(Int),
              max_price : Optional(Int), limit : Int, offset : Int]
        \cup [tool : {"get_product_detail"}, id : Optional(Int), name : Optional(Seq(STRING))]
        \cup [tool : {"get_reviews"}, product : Int, limit : Int, offset : Int,
              min_rating : Optional(Int)]
        \cup [tool : {"get_account_info"}, user : Users]

ASSUME ConfigAssumption ==
    /\ Calls \subseteq Call
    /\ Contents \in Seq(Snapshot) /\ Contents # <<>>
    /\ MaxDelay \in Nat /\ MaxTime \in Nat
    /\ Ttl \in [{"order_status", "product", "product_search", "account"} -> Nat]

-----------------------------------------------------------------------------
(* The queries.                                                            *)

Page(rows, limit, offset) ==
    SubSeq(rows, offset + 1, Min({offset + limit, Len(rows)}))

\* limit = max(1, min(limit, 50)); offset = max(0, offset).
Clamp(limit) == Max({1, Min({limit, 50})})

FirstOrNone(rows) == IF rows = <<>> THEN None ELSE rows[1]

\* A filter that is absent, or an empty text, does not filter.
Wants(arg, x) == arg = None \/ arg = x

OrdersForUser(s, k) ==
    Page(SelectSeq(s.orders, LAMBDA o : o.user = k.user /\ Wants(k.status, o.status)),
         Clamp(k.limit), 0)

OrderDetail(s, k) ==
    FirstOrNone(SelectSeq(s.orders, LAMBDA o : o.id = k.order /\ o.user = k.user))

OrderItems(s, k) == SelectSeq(s.items, LAMBDA i : i.order = k.order)

\* The newest shipment of the order.
ShipmentForOrder(s, k) ==
    LET of_order == SelectSeq(s.shipments, LAMBDA h : h.order = k.order)
    IN  IF of_order = <<>> THEN None ELSE Last(of_order)

\* With an id one refund, else all of the customer's.
Refunds(s, k) ==
    LET own == SelectSeq(s.refunds, LAMBDA r : r.user = k.user)
    IN  IF k.refund = None THEN own
        ELSE FirstOrNone(SelectSeq(own, LAMBDA r : r.id = k.refund))

Matching(products, keyword, category, brand, min_price, max_price) ==
    SelectSeq(products, LAMBDA p :
        /\ p.status = "active"
        /\ keyword = None \/ keyword \in Range(p.name)
        /\ Wants(category, p.category) /\ Wants(brand, p.brand)
        /\ min_price = None \/ p.price >= min_price
        /\ max_price = None \/ p.price <= max_price)

SearchProducts(s, k) ==
    Page(Matching(s.products, k.keyword, k.category, k.brand, k.min_price, k.max_price),
         Clamp(k.limit), Max({0, k.offset}))

Active(s) == {p \in Range(s.products) : p.status = "active"}

ProductDetail(s, id) ==
    FirstOrNone(SelectSeq(s.products, LAMBDA p : p.id = id /\ p.status = "active"))

\* An active product of this name, else one whose name begins with it; LIMIT 1
\* without an order takes any.
ProductIdsByName(s, name) ==
    LET exact == {p.id : p \in {p \in Active(s) : p.name = name}}
    IN  IF exact # {} THEN exact
        ELSE {p.id : p \in {p \in Active(s) : IsPrefix(name, p.name)}}

Reviews(s, k) ==
    Page(SelectSeq(s.reviews, LAMBDA r :
             r.product = k.product /\ (k.min_rating = None \/ r.rating >= k.min_rating)),
         Clamp(k.limit), Max({0, k.offset}))

\* The default address first.
Addresses(s, k) ==
    LET own == SelectSeq(s.addresses, LAMBDA a : a.user = k.user)
    IN  SelectSeq(own, LAMBDA a : a.is_default)
            \o SelectSeq(own, LAMBDA a : ~a.is_default)

\* The statement that reads the rows.
Query(s, k) ==
    CASE k.tool = "get_orders" -> OrdersForUser(s, k)
      [] k.tool = "get_order_detail" -> OrderDetail(s, k)
      [] k.tool = "get_order_items" -> OrderItems(s, k)
      [] k.tool = "track_shipment" -> ShipmentForOrder(s, k)
      [] k.tool = "get_refund_status" -> Refunds(s, k)
      [] k.tool = "search_products" -> SearchProducts(s, k)
      [] k.tool = "get_product_detail" -> ProductDetail(s, k.id)
      [] k.tool = "get_reviews" -> Reviews(s, k)
      [] k.tool = "get_account_info" -> s.account[k.user]

Table(k) ==
    CASE k.tool \in {"get_orders", "get_order_detail"} -> "orders"
      [] k.tool = "get_order_items" -> "items"
      [] k.tool = "track_shipment" -> "shipments"
      [] k.tool = "get_refund_status" -> "refunds"
      [] k.tool \in {"search_products", "get_product_detail"} -> "products"
      [] k.tool = "get_reviews" -> "reviews"

AnswersOneRow(k) ==
    \/ k.tool \in {"get_order_detail", "track_shipment", "get_product_detail"}
    \/ k.tool = "get_refund_status" /\ k.refund # None

\* selectinload: the rows as they were read, with what belongs to them now.
Load(s, k, rows) ==
    LET Loaded(row) ==
            [row EXCEPT !.more = UNION {r.more : r \in {r \in Range(s[Table(k)]) : r.id = row.id}}]
    IN  CASE k.tool = "get_account_info" \/ rows = None -> rows
          [] AnswersOneRow(k) /\ rows # None -> Loaded(rows)
          [] OTHER -> [i \in DOMAIN rows |-> Loaded(rows[i])]

\* What one fetch gives whose rows are of state v and the rest of state w.
Fetched(k, v, w) == Load(Contents[w], k, Query(Contents[v], k))

\* verify_order_belongs_to_user raises.
Denied(s, k) ==
    /\ k.tool \in {"get_order_items", "track_shipment"}
    /\ OrderDetail(s, k) = None

-----------------------------------------------------------------------------
(* The tools: which arguments are refused before anything is read, the key *)
(* the answer is kept under (None: it is read afresh), and for how long.   *)

Tool(refuses, key, ttl) == [refuses |-> refuses, key |-> key, ttl |-> ttl]

GetOrders(k) == Tool(FALSE, <<"order_status", k.user>>, Ttl.order_status)

\* The keys of these three hold the order alone, not whose it is.
GetOrderDetail(k) == Tool(FALSE, <<"order_detail", k.order>>, Ttl.order_status)

GetOrderItems(k) == Tool(FALSE, <<"order_items", k.order>>, Ttl.order_status)

TrackShipment(k) == Tool(FALSE, <<"shipment", k.order>>, Ttl.order_status)

GetRefundStatus(k) ==
    Tool(FALSE, IF k.refund = None THEN <<"refunds", k.user>> ELSE None, Ttl.order_status)

ProductSearch(k) ==
    Tool(FALSE,
         <<"product_search", k.keyword, k.category, k.brand, k.min_price, k.max_price,
           Clamp(k.limit), Max({0, k.offset})>>,
         Ttl.product_search)

GetProductDetail(k) ==
    Tool(k.id = None /\ k.name = None, <<"product", k.id>>, Ttl.product)

\* Mutant: filtered reviews are kept like the first page.
ReviewsAlwaysCached(k) == k.offset <= 0

\* Only the first page without a rating is kept.
ReviewsCached(k) == k.offset <= 0 /\ k.min_rating = None

GetReviews(k) ==
    Tool(k.min_rating # None /\ k.min_rating \notin 1 .. 5,
         IF ReviewsCached(k) THEN <<"reviews", k.product>> ELSE None,
         Ttl.product_search)

GetAccountInfo(k) == Tool(FALSE, <<"account", k.user>>, Ttl.account)

ToolOf(k) ==
    CASE k.tool = "get_orders" -> GetOrders(k)
      [] k.tool = "get_order_detail" -> GetOrderDetail(k)
      [] k.tool = "get_order_items" -> GetOrderItems(k)
      [] k.tool = "track_shipment" -> TrackShipment(k)
      [] k.tool = "get_refund_status" -> GetRefundStatus(k)
      [] k.tool = "search_products" -> ProductSearch(k)
      [] k.tool = "get_product_detail" -> GetProductDetail(k)
      [] k.tool = "get_reviews" -> GetReviews(k)
      [] k.tool = "get_account_info" -> GetAccountInfo(k)

KeyOf(k) == ToolOf(k).key

ProductIds == UNION {{p.id : p \in Range(Contents[i].products)} : i \in DOMAIN Contents}

\* The calls of this tool once a name has become an id.
Resolved ==
    {k \in Calls : k.tool = tool /\ (k.tool = "get_product_detail" => k.id # None)}
        \cup (IF tool # "get_product_detail" THEN {}
              ELSE {[tool |-> tool, id |-> i, name |-> None] : i \in ProductIds})

Keys == {KeyOf(k) : k \in Resolved} \ {None}

KeyFor(c) == KeyOf(call[c])

\* What a read may find.
Values == {Fetched(k, v, w) : k \in Resolved, v, w \in DOMAIN Contents}

-----------------------------------------------------------------------------
Init ==
    /\ now = 0 /\ db = 1 /\ wrote = <<0>>
    /\ tool \in {k.tool : k \in Calls}
    /\ redis \in BOOLEAN
    /\ cache = [k \in Keys |-> None]
    /\ phase = [c \in Clients |-> "idle"]
    /\ call = [c \in Clients |-> None]
    /\ value = [c \in Clients |-> None]
    /\ since = [c \in Clients |-> 0]
    /\ of = [c \in Clients |-> 0]
    /\ by = [c \in Clients |-> None]
    /\ floor = [c \in Clients |-> 0]
    /\ newest = [k \in Keys |-> 0]
    /\ mixed = {}

\* A call that has missed, until it has kept what it read.
FETCHING == {"checking", "fetching", "loading", "filling"}

Carrying == {c \in Clients : phase[c] \in {"loading", "filling", "addresses", "answering"}}

\* Nobody carries a value for longer than MaxDelay; an entry ends in time.
Tick ==
    /\ now < MaxTime
    /\ \A c \in Carrying : now - since[c] < MaxDelay
    /\ now' = now + 1
    /\ cache' = [k \in Keys |-> IF cache[k] # None /\ cache[k].until <= now'
                                  THEN None ELSE cache[k]]
    /\ UNCHANGED <<tool, redis, db, wrote, phase, call, value, since, of, by, newest,
                   floor, mixed>>

\* The shop, the warehouse or the refund desk changes the database.
ShopWrites ==
    /\ db < Len(Contents)
    /\ db' = db + 1
    /\ wrote' = Append(wrote, now)
    /\ UNCHANGED <<now, tool, redis, cache, phase, call, value, since, of, by, newest,
                   floor, mixed>>

ByName(k) == k.tool = "get_product_detail" /\ k.id = None

\* Mutant: nobody asks whose order it is.
RowsAtOnce(k) == "fetching"

\* These queries begin with the check of the owner; get_order_detail has it in
\* its WHERE.
First(k) == IF k.tool \in {"get_order_items", "track_shipment"} THEN "checking" ELSE "fetching"

\* Mutant: a filtered list is read afresh, and still kept.
FilteredAfresh(k) ==
    IF KeyOf(k) = None \/ ~redis \/ (tool = "get_orders" /\ k.status # None)
      THEN First(k) ELSE "looking"

Where(k) == IF KeyOf(k) = None \/ ~redis THEN First(k) ELSE "looking"

Floor(k) == IF KeyOf(k) = None THEN 0 ELSE newest[KeyOf(k)]

Start(c, k) ==
    /\ phase[c] = "idle" /\ k.tool = tool /\ ~ToolOf(k).refuses
    /\ call' = [call EXCEPT ![c] = k]
    /\ phase' = [phase EXCEPT ![c] = IF ByName(k) THEN "resolving" ELSE Where(k)]
    /\ floor' = [floor EXCEPT ![c] = IF ByName(k) THEN 0 ELSE Floor(k)]
    /\ UNCHANGED <<now, tool, redis, db, wrote, cache, value, since, of, by, newest, mixed>>

\* The call is over, with an answer or an error.
Over(c) ==
    /\ phase' = [phase EXCEPT ![c] = "idle"]
    /\ call' = [call EXCEPT ![c] = None]
    /\ value' = [value EXCEPT ![c] = None]
    /\ since' = [since EXCEPT ![c] = 0]
    /\ of' = [of EXCEPT ![c] = 0]
    /\ by' = [by EXCEPT ![c] = None]
    /\ floor' = [floor EXCEPT ![c] = 0]

\* get_product_id_by_name; no active product of the name is an answer of its
\* own.
Resolve(c) ==
    /\ phase[c] = "resolving"
    /\ LET ids == ProductIdsByName(Contents[db], call[c].name)
       IN  IF ids = {} THEN Over(c)
           ELSE \E id \in ids : LET k == [tool |-> tool, id |-> id, name |-> None] IN
                    /\ call' = [call EXCEPT ![c] = k]
                    /\ phase' = [phase EXCEPT ![c] = Where(k)]
                    /\ floor' = [floor EXCEPT ![c] = Floor(k)]
                    /\ UNCHANGED <<value, since, of, by>>
    /\ UNCHANGED <<now, tool, redis, db, wrote, cache, newest, mixed>>

\* After the profile the addresses are read, always from the database.
Then(c) == IF call[c].tool = "get_account_info" THEN "addresses" ELSE "answering"

Hit(c) ==
    /\ phase[c] = "looking" /\ cache[KeyFor(c)] # None
    /\ value' = [value EXCEPT ![c] = cache[KeyFor(c)].value]
    /\ of' = [of EXCEPT ![c] = cache[KeyFor(c)].of]
    /\ by' = [by EXCEPT ![c] = cache[KeyFor(c)].by]
    /\ since' = [since EXCEPT ![c] = now]
    /\ phase' = [phase EXCEPT ![c] = Then(c)]
    /\ UNCHANGED <<now, tool, redis, db, wrote, cache, call, newest, floor, mixed>>

\* Others fetch for the same key.
Rivals(c) ==
    {d \in Clients \ {c} : phase[d] \in FETCHING /\ KeyFor(d) = KeyFor(c)}

\* Nothing under the key, or a RedisError.
Miss(c) ==
    /\ phase[c] = "looking"
    /\ phase' = [phase EXCEPT ![c] = First(call[c])]
    /\ mixed' = IF cache[KeyFor(c)] = None /\ Rivals(c) = {}
                  THEN mixed ELSE mixed \cup {KeyFor(c)}
    /\ UNCHANGED <<now, tool, redis, db, wrote, cache, call, value, since, of,
                   by, newest, floor>>

\* verify_order_belongs_to_user finds the order; otherwise the call fails.
Checks(c) ==
    /\ phase[c] = "checking" /\ ~Denied(Contents[db], call[c])
    /\ phase' = [phase EXCEPT ![c] = "fetching"]
    /\ UNCHANGED <<now, tool, redis, db, wrote, cache, call, value, since, of, by,
                   newest, floor, mixed>>

\* A result that is None is not kept, nor is one of a call without a key.
Kept(c, result) ==
    IF redis /\ KeyFor(c) # None /\ result # None THEN "filling" ELSE Then(c)

\* Nothing belongs to a customer's profile or to a row that was not found.
LoadsMore(c, rows) == tool # "get_account_info" /\ rows # None

Fetch(c) ==
    /\ phase[c] = "fetching"
    /\ value' = [value EXCEPT ![c] = Query(Contents[db], call[c])]
    /\ of' = [of EXCEPT ![c] = db]
    /\ by' = [by EXCEPT ![c] = call[c]]
    /\ since' = [since EXCEPT ![c] = now]
    /\ phase' = [phase EXCEPT ![c] =
                     IF LoadsMore(c, value'[c]) THEN "loading" ELSE Kept(c, value'[c])]
    /\ UNCHANGED <<now, tool, redis, db, wrote, cache, call, newest, floor, mixed>>

LoadMore(c) ==
    /\ phase[c] = "loading"
    /\ value' = [value EXCEPT ![c] = Load(Contents[db], call[c], @)]
    /\ phase' = [phase EXCEPT ![c] = Kept(c, value[c])]
    /\ UNCHANGED <<now, tool, redis, db, wrote, cache, call, since, of, by, newest,
                   floor, mixed>>

\* Mutant: SET without ex.
NeverEnds(c) ==
    [value |-> value[c], of |-> of[c], by |-> by[c], until |-> MaxTime + 1]

Entry(c) ==
    [value |-> value[c], of |-> of[c], by |-> by[c], until |-> now + ToolOf(call[c]).ttl]

Fill(c) ==
    /\ phase[c] = "filling"
    /\ cache' = [cache EXCEPT ![KeyFor(c)] = Entry(c)]
    /\ phase' = [phase EXCEPT ![c] = Then(c)]
    /\ UNCHANGED <<now, tool, redis, db, wrote, call, value, since, of, by, newest,
                   floor, mixed>>

FillFails(c) ==
    /\ phase[c] = "filling"
    /\ cache' \in {cache, [cache EXCEPT ![KeyFor(c)] = Entry(c)]}
    /\ mixed' = mixed \cup {KeyFor(c)}
    /\ phase' = [phase EXCEPT ![c] = Then(c)]
    /\ UNCHANGED <<now, tool, redis, db, wrote, call, value, since, of, by,
                   newest, floor>>

ReadAddresses(c) ==
    /\ phase[c] = "addresses"
    /\ value' = [value EXCEPT ![c] = [profile |-> @, addresses |-> Addresses(Contents[db], call[c])]]
    /\ phase' = [phase EXCEPT ![c] = "answering"]
    /\ UNCHANGED <<now, tool, redis, db, wrote, cache, call, since, of, by, newest,
                   floor, mixed>>

\* The database fails, or the order is not the customer's.
ReadFails(c) ==
    /\ phase[c] \in {"resolving", "checking", "fetching", "loading", "addresses"}
    /\ Over(c)
    /\ UNCHANGED <<now, tool, redis, db, wrote, cache, newest, mixed>>

Answer(c) ==
    /\ phase[c] = "answering"
    /\ newest' = IF KeyFor(c) = None THEN newest
                 ELSE [newest EXCEPT ![KeyFor(c)] = Max({@, of[c]})]
    /\ Over(c)
    /\ UNCHANGED <<now, tool, redis, db, wrote, cache, mixed>>

Read(c) ==
    \/ Resolve(c) \/ Hit(c) \/ Miss(c) \/ Checks(c) \/ Fetch(c) \/ LoadMore(c)
    \/ Fill(c) \/ FillFails(c) \/ ReadAddresses(c) \/ ReadFails(c) \/ Answer(c)

Next ==
    \/ Tick \/ ShopWrites
    \/ \E c \in Clients : Read(c) \/ \E k \in Calls : Start(c, k)

Spec == Init /\ [][Next]_vars

-----------------------------------------------------------------------------
(* What the reads promise.                                                 *)

ClientTypeOK ==
    /\ phase \in [Clients -> {"idle", "resolving", "looking", "addresses", "answering"}
                                  \cup FETCHING]
    /\ call \in [Clients -> Optional(Calls \cup Resolved)] /\ DOMAIN value = Clients
    /\ \A c \in Clients :
         /\ phase[c] = "resolving" => call[c] \in Calls /\ call[c].tool = tool /\ ByName(call[c])
         /\ phase[c] \notin {"idle", "resolving"} => call[c] \in Resolved
    /\ since \in [Clients -> Nat]
    /\ of \in [Clients -> 0 .. db] /\ floor \in [Clients -> 0 .. db]
    /\ by \in [Clients -> Optional(Resolved)]

TypeOK ==
    /\ now \in Nat /\ tool \in {k.tool : k \in Calls} /\ redis \in BOOLEAN
    /\ db \in 1 .. Len(Contents) /\ wrote \in Seq(Nat) /\ Len(wrote) = db
    /\ cache \in [Keys -> Optional([value : Values, of : Nat, by : Resolved, until : Nat])]
    /\ newest \in [Keys -> 0 .. db] /\ mixed \subseteq Keys
    /\ ClientTypeOK

\* A state of the database that was current at most this long ago.
CurrentSince(v, age) == v = db \/ wrote[v + 1] >= now - age

\* The same arguments, as the tool reads them.
SameArguments(k, j) ==
    \/ k = j
    \/ /\ tool = "search_products"
       /\ \A f \in DOMAIN k \ {"limit", "offset"} : k[f] = j[f]
       /\ Clamp(k.limit) = Clamp(j.limit) /\ Max({0, k.offset}) = Max({0, j.offset})
    \/ tool = "get_product_detail" /\ k.id = j.id

\* Whose answer a call may be given: its own, or that of a call which differs
\* in what the key leaves out.
SameAnswer(k, j) ==
    \/ SameArguments(k, j)
    \/ tool = "get_orders" /\ k.user = j.user
    \/ tool \in OrderTools /\ k.order = j.order
    \/ /\ tool = "get_reviews" /\ k.product = j.product
       /\ \A i \in {k, j} : i.offset <= 0 /\ i.min_rating = None

Answered(c) == IF tool = "get_account_info" THEN value[c].profile ELSE value[c]

\* Whatever is answered was fetched for this very call or for one that the key
\* takes for the same, with the check of the owner before it; the rows were
\* the true answer at most a time to live and two delays ago, and what belongs
\* to them was read no earlier.  Three keys leave something out: the order list
\* its limit and status, the first page of the reviews its limit, and an order,
\* its items and its shipment the customer: whom the check would turn away is
\* given what the owner was.
AnswersAreTrue ==
    \A c \in Clients : phase[c] = "answering" =>
        /\ SameAnswer(by[c], call[c])
        /\ \E u, v, w \in 1 .. db :
             /\ u <= v /\ v <= w
             /\ ~Denied(Contents[u], by[c])
             /\ CurrentSince(v, ToolOf(call[c]).ttl + 2 * MaxDelay)
             /\ Answered(c) = Fetched(by[c], v, w)

\* A customer who was shown a newer state of something is not shown an older
\* one later, unless two calls fetched it at the same time (the slower one
\* then overwrites the newer entry) or Redis failed in between.
ReadsGoForward ==
    \A c \in Clients :
        (phase[c] = "answering" /\ KeyFor(c) # None)
            => of[c] >= floor[c] \/ KeyFor(c) \in mixed

==============================================================================
