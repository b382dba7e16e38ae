-------------------------- MODULE BasketOptimizer --------------------------
(***************************************************************************)
(* Which shops a basket is bought from (app/domain/optimizer/solver.py on  *)
(* what app/services/quote_service.py loads; costs of lines from           *)
(* domain/pricing/units.py).                                               *)
(*                                                                         *)
(* The solver is a function of the basket, the offers and the delivery     *)
(* rules; the state is a market that shops join one after the other and    *)
(* the cards the customer was shown last.  A plan is a partial function    *)
(* from lines to offers.  Money and quantities are small integers; the     *)
(* balanced card's weighted score is left open: it repeats one of the      *)
(* others.                                                                 *)
(***************************************************************************)
EXTENDS Integers, FiniteSets, FiniteSetsExt

CONSTANTS
    Shops,      \* shop ids, in the order in which they join
    Menus,      \* sets of offers that a shop may join with
    Baskets,    \* functions from line numbers to what is asked for
    Rules,      \* functions from shops to delivery rules: fee, free above, hours
    Trust,      \* [Shops -> trust score]
    ExactPool,  \* most shops that are searched exhaustively: 12
    MaxSplit,   \* most shops of one plan then: 4
    GreedyAdds, \* shops that the greedy construction adds: 5
    LocalMoves  \* moves of the local search: 200

VARIABLES
    basket, \* what is asked for
    menu,   \* what each shop offers once it has joined
    rule,   \* each shop's delivery rule
    joined, \* shops in the market
    answer  \* the last quote: its cards, and whether it failed

vars == <<basket, menu, rule, joined, answer>>

Never == -1  \* no free delivery, however large the order
Strategies == <<"CHEAPEST_TOTAL", "SINGLE_SHOP", "FASTEST", "PREMIUM", "BALANCED">>

-----------------------------------------------------------------------------
\* Lines and offers

\* can_price_line: a count can be had of anything, another unit only of its kind.
CanPrice(line, o) == line.unit = "dona" \/ line.unit = o.unit

\* How many packs: a count is of packs, whatever they hold, unless packs are
\* counted too.
Packs(line, o) ==
    IF line.unit # o.unit THEN line.qty ELSE (line.qty + o.size - 1) \div o.size

\* price_for_packs: from a number of packs on, a volume price that is lower.
PackPrice(o, packs) == IF packs >= o.from /\ o.bulk < o.price THEN o.bulk ELSE o.price

LineCost(line, o) == Packs(line, o) * PackPrice(o, Packs(line, o))

\* The order in which offers are loaded: by price of the base unit.
Cheaper(o, p) ==
    \/ o.price * p.size < p.price * o.size
    \/ o.price * p.size = p.price * o.size /\ o.shop < p.shop
    \/ o.price * p.size = p.price * o.size /\ o.shop = p.shop /\ o.size < p.size

Of(s, o) == [shop |-> s, product |-> o.product, unit |-> o.unit, size |-> o.size,
             price |-> o.price, from |-> o.from, bulk |-> o.bulk, stock |-> o.stock]
Market == {o \in UNION {{Of(s, o) : o \in menu[s]} : s \in joined} : o.stock # "out"}

\* _filter_by_priceability
Valid == {o \in Market : \E l \in DOMAIN basket :
                            basket[l].product = o.product /\ CanPrice(basket[l], o)}

OffersFor(l, offers) == {o \in offers : o.product = basket[l].product}
ShopsOf(offers) == {o.shop : o \in offers}

-----------------------------------------------------------------------------
\* Plans

Covered(plan) == DOMAIN plan
Used(plan) == {plan[l].shop : l \in DOMAIN plan}
Subtotal(plan, s) ==
    MapThenSumSet(LAMBDA l : LineCost(basket[l], plan[l]), {l \in DOMAIN plan : plan[l].shop = s})

\* calculate_shop_delivery_fee: the threshold itself still pays.  Whether the
\* shop's smallest order is reached is computed, and nobody asks.
Fee(s, subtotal) ==
    IF rule[s].above # Never /\ subtotal > rule[s].above THEN 0 ELSE rule[s].fee

Total(plan) == MapThenSumSet(LAMBDA s : Subtotal(plan, s) + Fee(s, Subtotal(plan, s)), Used(plan))

TrustOf(plan) == MapThenSumSet(LAMBDA s : Trust[s], Used(plan))

\* _is_better_solution: coverage, total, shops, average trust, smallest id.
Better(p, q) ==
    LET c == Cardinality(Covered(p)) - Cardinality(Covered(q))
        t == Total(q) - Total(p)
        n == Cardinality(Used(q)) - Cardinality(Used(p))
        a == TrustOf(p) * Cardinality(Used(q)) - TrustOf(q) * Cardinality(Used(p))
        i == Min(Used(q)) - Min(Used(p))
    IN  \/ c > 0
        \/ c = 0 /\ t > 0
        \/ c = 0 /\ t = 0 /\ n > 0
        \/ c = 0 /\ t = 0 /\ n = 0 /\ a > 0
        \/ c = 0 /\ t = 0 /\ n = 0 /\ a = 0 /\ i > 0

Best(plans) == CHOOSE p \in plans : \A q \in plans : ~ Better(q, p)

Nothing == [l \in {} |-> {}]

\* The cheapest offer of a line, for as many packs of it as the line needs.
CheapestFor(l, offers) ==
    CHOOSE o \in offers : \A p \in offers \ {o} :
        LET cost == LineCost(basket[l], o)
            other == LineCost(basket[l], p)
        IN  cost < other \/ (cost = other /\ Cheaper(o, p))

\* _evaluate_shop_set
PlanOf(shops, offers) ==
    LET from(l) == {o \in OffersFor(l, offers) : o.shop \in shops}
    IN  [l \in {m \in DOMAIN basket : from(m) # {}} |-> CheapestFor(l, from(l))]

-----------------------------------------------------------------------------
\* Strategies

\* Mutant: subsets of the largest size only.
SplitsOfMost(shops) ==
    {S \in SUBSET shops : S # {} /\ Cardinality(S) = Min({MaxSplit, Cardinality(shops)})}

Splits(shops) == {S \in SUBSET shops : S # {} /\ Cardinality(S) <= MaxSplit}

\* _exact_subset_solver
Exact(offers) ==
    LET plans == {PlanOf(S, offers) : S \in Splits(ShopsOf(offers))} \ {Nothing}
    IN  IF plans = {} THEN Nothing ELSE Best(plans)

\* _solve_single_shop: of each shop the offer that was loaded last.
SingleShop ==
    LET last(l, s) == {o \in OffersFor(l, Valid) : o.shop = s /\
                          \A p \in OffersFor(l, Valid) : p.shop = s /\ p # o => Cheaper(p, o)}
        plan(s) == [l \in {m \in DOMAIN basket : last(m, s) # {}} |-> CHOOSE o \in last(l, s) : TRUE]
        plans == {plan(s) : s \in ShopsOf(Valid)} \ {Nothing}
    IN  IF plans = {} THEN Nothing ELSE Best(plans)

\* The construction adds the shop that saves most, while one saves.
Grown(offers, shops0, plan0) ==
    LET pool == ShopsOf(offers)
        cost(shops) == Total(PlanOf(shops, offers))
        grow[n \in 0 .. GreedyAdds] ==
            IF n = 0 THEN <<shops0, plan0>>
            ELSE LET shops == grow[n - 1][1]
                     plan == grow[n - 1][2]
                     saving == {s \in pool \ shops : cost(shops \cup {s}) < Total(plan)}
                     most == {s \in saving : \A r \in saving : cost(shops \cup {s}) <= cost(shops \cup {r})}
                 IN  IF saving = {} THEN grow[n - 1]
                     ELSE <<shops \cup {Min(most)}, PlanOf(shops \cup {Min(most)}, offers)>>
    IN  grow[GreedyAdds]

Improves(plan, other) ==
    Cardinality(Covered(other)) >= Cardinality(Covered(plan)) /\ Total(other) < Total(plan)

Drops(shops) == IF Cardinality(shops) > 1 THEN {shops \ {s} : s \in shops} ELSE {}
Swaps(shops, pool) == {(shops \ {s}) \cup {r} : s \in shops, r \in pool \ shops}

\* The local search drops a shop, or else swaps one, while that is cheaper.
Searched(offers, start) ==
    LET pool == ShopsOf(offers)
        good(sets, plan) == {S \in sets : Improves(plan, PlanOf(S, offers))}
        move[n \in 0 .. LocalMoves] ==
            IF n = 0 THEN start
            ELSE LET shops == move[n - 1][1]
                     plan == move[n - 1][2]
                     dropped == good(Drops(shops), plan)
                     moves == IF dropped # {} THEN dropped ELSE good(Swaps(shops, pool), plan)
                     next == CHOOSE S \in moves : TRUE
                 IN  IF moves = {} THEN move[n - 1] ELSE <<next, PlanOf(next, offers)>>
    IN  move[LocalMoves]

\* _greedy_local_search_solver
Greedy(offers) == Searched(offers, Grown(offers, Used(SingleShop), SingleShop))[2]

Solved(offers) ==
    IF Cardinality(ShopsOf(offers)) <= ExactPool THEN Exact(offers) ELSE Greedy(offers)

\* _solve_fastest: what is in stock and comes within a day, or else what comes
\* first.
Fast ==
    LET now == {o \in Valid : o.stock = "now" /\ rule[o.shop].hours <= 24}
        first == Min({rule[o.shop].hours : o \in Valid})
    IN  IF now = {} THEN {o \in Valid : rule[o.shop].hours = first} ELSE now

-----------------------------------------------------------------------------
\* Quotes

\* _solve_balanced: the best by weighted price, hours, trust and shops.
Balanced == {Solved(Valid), SingleShop, Solved(Fast)}

\* The order of cost is the only thing that tells a premium product's offers
\* apart, since the tier is the product's.
Variants(balanced) ==
    <<Solved(Valid), SingleShop, Solved(Fast), Solved(Valid), balanced>>

\* _deduplicate_variants: the first plan of each assignment of lines to shops.
Signature(plan) == [l \in DOMAIN plan |-> plan[l].shop]
Cards(variants) ==
    {[plan |-> variants[i],
      labels |-> {Strategies[j] : j \in {k \in DOMAIN variants :
                                            Signature(variants[k]) = Signature(variants[i])}}]
       : i \in {j \in DOMAIN variants :
                  \A k \in 1 .. j - 1 : Signature(variants[k]) # Signature(variants[j])}}

\* _create_empty_variant
EmptyCard == {[plan |-> Nothing, labels |-> {"CHEAPEST_TOTAL"}]}

\* A line that an offer of its product cannot be priced for raises out of the
\* solver.
Unpriceable == \E l \in DOMAIN basket : \E o \in OffersFor(l, Valid) : ~ CanPrice(basket[l], o)

Quote ==
    /\ IF Unpriceable THEN answer' = [failed |-> TRUE, cards |-> {}]
       ELSE IF Valid = {} THEN answer' = [failed |-> FALSE, cards |-> EmptyCard]
       ELSE \E balanced \in Balanced :
              answer' = [failed |-> FALSE, cards |-> Cards(Variants(balanced))]
    /\ UNCHANGED <<basket, menu, rule, joined>>

ShopJoins ==
    /\ joined # Shops
    /\ joined' = joined \cup {Min(Shops \ joined)}
    /\ UNCHANGED <<basket, menu, rule, answer>>

Init ==
    /\ basket \in Baskets
    /\ menu \in [Shops -> Menus]
    /\ rule \in Rules
    /\ joined = {}
    /\ answer = [failed |-> FALSE, cards |-> {}]

Next == Quote \/ ShopJoins

Spec == Init /\ [][Next]_vars

-----------------------------------------------------------------------------
\* All plans there are.
AllPlans ==
    UNION {{p \in [D -> Valid] : \A l \in D : p[l].product = basket[l].product} :
             D \in SUBSET DOMAIN basket}

Labelled(strategy, cards) == CHOOSE c \in cards : strategy \in c.labels

\* Coverage first, then the total.
Beats(p, q) ==
    \/ Cardinality(Covered(p)) > Cardinality(Covered(q))
    \/ Covered(p) = Covered(q) /\ Total(p) < Total(q)

Quoted == answer' # answer /\ ~ answer'.failed
Searchable == Cardinality(ShopsOf(Valid)) <= ExactPool

\* Where delivery does not become free with size, no plan of as many shops
\* covers more lines, or the same for less, than the card called cheapest; where
\* the shops are too many to be searched, no exchange of one shop does
\* (solver.py: _exact_subset_solver, _greedy_local_search_solver).
CheapestIsOptimal ==
    [][Quoted =>
         LET plan == Labelled("CHEAPEST_TOTAL", answer'.cards).plan
         IN  IF Searchable
             THEN (\A s \in joined : rule[s].above = Never) =>
                    \A p \in AllPlans : Cardinality(Used(p)) <= MaxSplit => ~ Beats(p, plan)
             ELSE \A S \in Drops(Used(plan)) \cup Swaps(Used(plan), ShopsOf(Valid)) :
                    ~ Improves(plan, PlanOf(S, Valid))]_vars

=============================================================================
