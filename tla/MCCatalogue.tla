---------------------------- MODULE MCCatalogue ----------------------------
(***************************************************************************)
(* The catalogue in one run: each behaviour runs one of its parts, and the *)
(* others stay as they were initially.                                     *)
(*                                                                         *)
(*   rates     FxPricing: a dollar price of 1 at the rate 2 is the price 2 *)
(*             in UZS, so a copy read earlier can agree with the new price *)
(*             by chance; 2 dollars at the rate 4 are out of range         *)
(*   forms     CatalogDesk: two administrators, two names, two units and   *)
(*             three products that have no offers yet, two of them edited  *)
(*   offers    CatalogDesk: two products of one name, and an offer         *)
(*   listing   ListingDraft: a whole caption, and lines whose price is a   *)
(*             guess, "Gips 52000" without a pack                          *)
(*   import    PriceImport: a guessed row in dollars beside a certain one, *)
(*             a row without match and currency beside a certain one, a    *)
(*             row in dollars after one that has no price                  *)
(*   match     CatalogMatching: two sizes of one sheet, under the family's *)
(*             name, the name of one size, and a word the search does not  *)
(*             know                                                        *)
(*   quotes    BasketOptimizer: four shops join a market one by one        *)
(*   release   CatalogRelease: an article that the price lists may drop,   *)
(*             and workbooks and an administrator know as well             *)
(***************************************************************************)
EXTENDS FxPricing, CatalogDesk, PriceImport, ListingDraft, CatalogMatching, CatalogRelease,
        Integers, TLC

CONSTANTS
    gips,
    fanera, fanera18, paner,
    Shops, ExactPool, MaxSplit, GreedyAdds, LocalMoves

VARIABLES
    alive,
    basket, menu, rule, joined, answer

quoteVars == <<basket, menu, rule, joined, answer>>

-----------------------------------------------------------------------------
Read(name, pack, price, sure) == [name |-> name, pack |-> pack, price |-> price, sure |-> sure]
PhotoCaptions == {Read("sement", "kg50", 1, TRUE)}
TextLines == {Read("gips", "none", 1, FALSE), Read("gips", "kg50", 1, FALSE)}
Known == [sement |-> "m400", gips |-> "none"]

ReadRow(best, sure, currency, fits) ==
    [best |-> best, sure |-> sure, currency |-> currency, fits |-> fits]
PriceFiles ==
    { <<ReadRow(gips, FALSE, "USD", TRUE), ReadRow(gips, TRUE, "UZS", TRUE)>>,
      <<ReadRow("none", FALSE, "none", TRUE), ReadRow(gips, TRUE, "UZS", TRUE)>>,
      <<ReadRow(gips, TRUE, "UZS", FALSE), ReadRow(gips, TRUE, "USD", TRUE)>> }

FoundBy == fanera :> {1, 2} @@ fanera18 :> {1, 2} @@ paner :> {}
SizeOf == fanera :> 0 @@ fanera18 :> 18 @@ paner :> 0
Sizes == 1 :> 18 @@ 2 :> 21

Sold(product, price) ==
    [product |-> product, unit |-> "kg", size |-> 1, price |-> price, from |-> 9, bulk |-> price,
     stock |-> "now"]

\* One product or more, cheap or dear; a second, larger pack; a volume price;
\* something that comes later or is sold by the piece.
Menus ==
    { {}, {Sold("q", 1), Sold("r", 1), Sold("p", 2)},
      {Sold("p", 2), [Sold("p", 3) EXCEPT !.size = 2]},
      {[Sold("p", 3) EXCEPT !.from = 2, !.bulk = 1], [Sold("q", 1) EXCEPT !.stock = "later"],
       [Sold("r", 1) EXCEPT !.unit = "dona"]} }
Want(product, qty, unit) == [product |-> product, qty |-> qty, unit |-> unit]
Baskets ==
    { <<Want("p", 2, "kg"), Want("q", 1, "kg"), Want("r", 3, "dona")>>,
      <<Want("r", 1, "kg"), Want("r", 1, "dona")>> }
Unreached == 0 - 1   \* the rule is never met
\* One fee for all, or free delivery of larger orders and slower shops.
DeliveryRules ==
    { [s \in Shops |-> [fee |-> 3, above |-> Unreached, hours |-> 24]],
      [s \in Shops |-> [fee |-> 2, above |-> 3, hours |-> 24 * s]] }
TrustOfShop == [s \in Shops |-> s % 2]

Market == INSTANCE BasketOptimizer WITH Rules <- DeliveryRules, Trust <- TrustOfShop

-----------------------------------------------------------------------------
\* Where a part has several initial states, one of them is enough while
\* another part is alive; names and units are alike, so one product is.
CatalogueInit ==
    /\ alive \in {"rates", "forms", "offers", "listing", "import", "match", "quotes", "release"}
    /\ Init
    /\ DeskInit
    /\ ListingInit
    /\ ImportInit
    /\ MatchInit
    /\ ReleaseInit
    /\ Market!Init
    /\ products[1].name = CHOOSE n \in Names : TRUE
    /\ products[1].unit = CHOOSE u \in Units : TRUE
    /\ alive # "import" => rate
    /\ alive # "quotes" =>
         /\ basket = CHOOSE b \in Baskets : TRUE
         /\ rule = CHOOSE r \in DeliveryRules : TRUE
         /\ menu = [s \in Shops |-> {}]

OnlyForms(request) ==
    \/ request.kind = "idle"
    \/ request.kind = "edit" /\ request.product # 1
    \/ request.kind = "create" /\ request.packs = {}

CatalogueNext ==
    /\ UNCHANGED alive
    /\ \/ /\ alive = "rates"
          /\ Next
          /\ UNCHANGED <<deskVars, listingVars, importVars, matchVars, quoteVars, releaseVars>>
       \/ /\ DeskNext
          /\ \/ alive = "forms" /\ \A a \in Admins : OnlyForms(requests'[a])
             \/ alive = "offers" /\ \A p \in DOMAIN products' :
                                      p <= 2 /\ products'[p].name = products[1].name
          /\ UNCHANGED <<vars, listingVars, importVars, matchVars, quoteVars, releaseVars>>
       \/ /\ alive = "listing"
          /\ ListingNext
          /\ UNCHANGED <<vars, deskVars, importVars, matchVars, quoteVars, releaseVars>>
       \/ /\ alive = "import"
          /\ ImportNext
          /\ UNCHANGED <<vars, deskVars, listingVars, matchVars, quoteVars, releaseVars>>
       \/ /\ alive = "match"
          /\ MatchNext
          /\ UNCHANGED <<vars, deskVars, listingVars, importVars, quoteVars, releaseVars>>
       \/ /\ alive = "quotes"
          /\ Market!Next
          /\ UNCHANGED <<vars, deskVars, listingVars, importVars, matchVars, releaseVars>>
       \/ /\ alive = "release"
          /\ ReleaseNext
          /\ UNCHANGED <<vars, deskVars, listingVars, importVars, matchVars, quoteVars>>

CatalogueSpec ==
    CatalogueInit
      /\ [][CatalogueNext]_<<alive, vars, deskVars, listingVars, importVars, matchVars, quoteVars,
                              releaseVars>>

\* The articles of the lists share a wording.
OneWord == [a \in Transcribed |-> {"osb"}]

Symmetry == Permutations(Requests) \cup Permutations(Uploads)

-----------------------------------------------------------------------------
\* No plan of as many shops beats the card called cheapest.
CheapestIsOptimal == Market!CheapestIsOptimal
=============================================================================
