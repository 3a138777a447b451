---------------------------- MODULE MCCachedReads ----------------------------
(***************************************************************************)
(* Constants for model checking CachedReads: a shop whose every table      *)
(* changes once, two customers, and calls that tell the keys, the filters  *)
(* and the customers apart.                                                *)
(***************************************************************************)
EXTENDS CachedReads, TLC

Product(id, name, status, price, more) ==
    [id |-> id, name |-> name, status |-> status, brand |-> id, category |-> 1,
     price |-> price, more |-> more]

Monday ==
    [orders |-> <<[id |-> 2, user |-> "ann", status |-> "pending", more |-> {1}],
                  [id |-> 1, user |-> "bob", status |-> "delivered", more |-> {2}]>>,
     items |-> <<[id |-> 1, order |-> 1, more |-> {1}]>>,
     shipments |-> <<[id |-> 1, order |-> 1, more |-> {1}]>>,
     refunds |-> <<[id |-> 1, user |-> "bob", status |-> "pending", more |-> {1}]>>,
     products |-> <<Product(2, <<"red", "shoe">>, "active", 20, {1}),
                    Product(1, <<"red">>, "active", 10, {2})>>,
     reviews |-> <<[id |-> 2, product |-> 1, rating |-> 2, more |-> {}],
                   [id |-> 1, product |-> 1, rating |-> 5, more |-> {1}]>>,
     account |-> [u \in Users |-> 1],
     addresses |-> <<[id |-> 1, user |-> "ann", is_default |-> FALSE],
                     [id |-> 2, user |-> "ann", is_default |-> TRUE]>>]

\* The second order ships, another is placed, the parcel of the first is
\* scanned, a refund is approved, one product is taken off the shelf, a review
\* is written, a customer moves.
Tuesday ==
    [Monday EXCEPT
        !.orders = <<[id |-> 3, user |-> "ann", status |-> "pending", more |-> {4}],
                     [id |-> 2, user |-> "ann", status |-> "shipped", more |-> {1, 3}],
                     Monday.orders[2]>>,
        !.items = <<[id |-> 1, order |-> 1, more |-> {2}]>>,
        !.shipments = <<[id |-> 1, order |-> 1, more |-> {1, 2}],
                        [id |-> 2, order |-> 1, more |-> {}]>>,
        !.refunds = <<[id |-> 1, user |-> "bob", status |-> "approved", more |-> {1, 2}]>>,
        !.products = <<Product(2, <<"red", "shoe">>, "active", 15, {1, 3}),
                       Product(1, <<"red">>, "inactive", 10, {2})>>,
        !.reviews = <<[id |-> 3, product |-> 1, rating |-> 4, more |-> {2}]>> \o @,
        !.account["ann"] = 2,
        !.addresses = <<[id |-> 1, user |-> "ann", is_default |-> TRUE]>>]

Week == <<Monday, Tuesday>>

Search(keyword, brand, min_price, max_price, limit, offset) ==
    [tool |-> "search_products", keyword |-> keyword, category |-> None,
     brand |-> brand, min_price |-> min_price, max_price |-> max_price,
     limit |-> limit, offset |-> offset]

ReviewCall(limit, offset, min_rating) ==
    [tool |-> "get_reviews", product |-> 1, limit |-> limit, offset |-> offset,
     min_rating |-> min_rating]

CustomerCalls ==
    {[tool |-> "get_orders", user |-> "ann", limit |-> 0, status |-> None],
     [tool |-> "get_orders", user |-> "ann", limit |-> 10, status |-> "shipped"]}
    \cup {[tool |-> "get_order_detail", user |-> u, order |-> 2] : u \in Users}
    \cup {[tool |-> t, user |-> u, order |-> 1] : u \in Users,
             t \in {"get_order_items", "track_shipment"}}
    \cup {[tool |-> "get_refund_status", user |-> u, refund |-> None] : u \in Users}
    \cup {[tool |-> "get_refund_status", user |-> "bob", refund |-> 1]}
    \cup {Search("red", 2, 12, 18, 60, 0), Search("red", 2, 12, 18, 50, -1)}
    \cup {[tool |-> "get_product_detail", id |-> i, name |-> None] : i \in {None, 1}}
    \cup {[tool |-> "get_product_detail", id |-> None, name |-> n] :
             n \in {<<"red">>, <<"blue">>}}
    \cup {ReviewCall(1, 0, None), ReviewCall(20, 1, None), ReviewCall(20, 0, 4),
          ReviewCall(20, 0, 6)}
    \cup {[tool |-> "get_account_info", user |-> "ann"]}

Lifetimes == [order_status |-> 1, product |-> 1, product_search |-> 1, account |-> 1]

AnyClient == Permutations(Clients)

==============================================================================
