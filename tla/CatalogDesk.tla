---------------------------- MODULE CatalogDesk ----------------------------
(***************************************************************************)
(* Administrators keeping the catalogue at once: the product and offer     *)
(* forms of web/storefront/routers/manage.py, the price field of           *)
(* routers/shop.py and the bot's price and stock buttons                   *)
(* (bot/handlers/shop.py).                                                 *)
(*                                                                         *)
(* A request reads rows, checks the form against them and writes what the  *)
(* form changed; others commit in between.  The exclusive lock on the      *)
(* exchange rate row is held by product creation and by every offer write, *)
(* but not by the editing of a product, and what was read before the lock  *)
(* was waited for is not read again.  Amounts, currencies and wholesale    *)
(* tiers are FxPricing's; a per-base price is here what it was computed    *)
(* for.  Category, size, thickness and brand count as part of a name.      *)
(* Its formulas carry "Desk" so that they can stand beside FxPricing's.     *)
(***************************************************************************)
EXTENDS Naturals, FiniteSets

CONSTANTS
  Admins,
  Names,        \* normalised names, with what else makes a variant
  Units,
  Imported,     \* the slug of a product that an import made
  NoUnit,       \* an offer without pack_unit_code
  MaxProducts,  \* bound: products
  MaxOffers     \* bound: offers that keep another from being begun

VARIABLES
  products,     \* canonical_products, numbered from 1
  offers,       \* shop_products of the house shop
  requests,     \* per administrator: the request under way
  lock,         \* who holds the exchange rate row, or none
  crossed       \* history: products whose last edit crossed another edit of
                \* the same product

deskVars == <<products, offers, requests, lock, crossed>>

Nobody == "nobody"
AtRest == [kind |-> "idle"]
Products == DOMAIN products
Offers == DOMAIN offers

DeskInit ==
  /\ products \in {<<[name |-> n, unit |-> u, slug |-> Imported]>> :
                     n \in Names, u \in Units}
  /\ offers = <<>>
  /\ requests = [a \in Admins |-> AtRest]
  /\ lock = Nobody
  /\ crossed = {}

Identity(name, unit) == <<name, unit>>

\* _same_variant, and the offers of a product.
SameVariant(p, name, unit) == products[p].name = name /\ products[p].unit = unit
OffersOf(p) == {o \in Offers : offers[o].product = p}

\* The unique slug of one product is not that of another.
SlugFree(slug, own) == slug = Imported \/ \A p \in Products \ own : products[p].slug # slug

Busy(a, request) == requests' = [requests EXCEPT ![a] = request]
Done(a) == Busy(a, AtRest)

\* price_per_base_unit, as what it was computed for; unit_price takes the units
\* into account, a plain division does not.
PerBase(unit, base) == [unit |-> unit, base |-> base]
Divided(unit) == PerBase(unit, unit)

\* The bound on offers is met before a request begins: one under way inserts.
MayOffer == Cardinality(Offers) < MaxOffers

-----------------------------------------------------------------------------
(* edit_product: no lock                                                   *)

\* Mutant of SlugAfter: an edited product keeps the slug it was created with.
SlugKept(row, form) == row.slug

SlugAfter(row, form) ==
  IF row.slug = Imported THEN Imported ELSE Identity(form.name, form.unit)

\* The columns that the form makes different from the row as it was loaded;
\* others keep what they have by then.
Changes(row, form) ==
  LET new == [name |-> form.name, unit |-> form.unit, slug |-> SlugAfter(row, form)]
  IN [column \in {c \in DOMAIN new : new[c] # row[c]} |-> new[column]]

\* A unit may be changed as long as no offer is linked; others must not be the
\* same variant.
EditReads(a, p, form) ==
  /\ requests[a] = AtRest
  /\ form.unit # products[p].unit => OffersOf(p) = {}
  /\ \A other \in Products \ {p} : ~SameVariant(other, form.name, form.unit)
  /\ Busy(a, [kind |-> "edit", product |-> p, row |-> products[p], form |-> form])
  /\ UNCHANGED <<products, offers, lock, crossed>>

\* What has been edited since the form read the row stays in the columns that
\* the form leaves alone.
Merged(row, changes) ==
  [column \in DOMAIN row |-> IF column \in DOMAIN changes THEN changes[column] ELSE row[column]]

Variant(row) == <<row.name, row.unit, row.slug>>

EditWrites(a) ==
  /\ requests[a].kind = "edit"
  /\ LET p == requests[a].product
         read == requests[a].row
         new == Merged(products[p], Changes(read, requests[a].form))
     IN IF SlugFree(new.slug, {p})
          THEN /\ products' = [products EXCEPT ![p] = new]
               /\ crossed' = IF Variant(products[p]) # Variant(read)
                               THEN crossed \cup {p} ELSE crossed \ {p}
          ELSE UNCHANGED <<products, crossed>>
  /\ Done(a)
  /\ UNCHANGED <<offers, lock>>

-----------------------------------------------------------------------------
(* create_product: under the lock from its check to its insert             *)

\* Exact variants are refused; similar products only once, before force_new.
\* A form with a price is for a first offer too, in the pack it names or else
\* in the product's unit.
CreateReads(a, name, unit, packs) ==
  /\ requests[a] = AtRest /\ lock = Nobody
  /\ Cardinality(Products) < MaxProducts
  /\ packs # {} => MayOffer
  /\ \A p \in Products : ~SameVariant(p, name, unit)
  /\ lock' = a
  /\ Busy(a, [kind |-> "create", name |-> name, unit |-> unit, packs |-> packs])
  /\ UNCHANGED <<products, offers, crossed>>

NewOffer(p, unit, base) ==
  [product |-> p, unit |-> unit, price |-> PerBase(unit, base)]

Insert(table, key, row) ==
  [k \in DOMAIN table \cup {key} |-> IF k \in DOMAIN table THEN table[k] ELSE row]

\* The product and its first offer come together: a price that cannot be set, as
\* a slug that another has by now, takes the product back.
CreateWrites(a) ==
  /\ requests[a].kind = "create"
  /\ LET form == requests[a]
         slug == Identity(form.name, form.unit)
         p == Cardinality(Products) + 1
         key == Cardinality(Offers) + 1
     IN \/ /\ ~SlugFree(slug, {}) \/ form.packs # {}
           /\ UNCHANGED <<products, offers>>
        \/ /\ SlugFree(slug, {})
           /\ products' = Insert(products, p, [name |-> form.name, unit |-> form.unit, slug |-> slug])
           /\ \/ form.packs = {} /\ offers' = offers
              \/ \E pack \in form.packs : offers' = Insert(offers, key, NewOffer(p, pack, form.unit))
  /\ lock' = Nobody
  /\ Done(a)
  /\ UNCHANGED crossed

-----------------------------------------------------------------------------
(* Offers                                                                  *)

\* create_offer reads the product, then _save_offer waits for the lock.
OfferReads(a, p, unit) ==
  /\ requests[a] = AtRest /\ MayOffer
  /\ Busy(a, [kind |-> "offer", product |-> p, unit |-> unit,
              base |-> products[p].unit])
  /\ UNCHANGED <<products, offers, lock, crossed>>

\* An offer of the same pack is written over, its price only if it is another;
\* a currency or a price that is refused leaves everything as it was.
OfferWrites(a) ==
  /\ requests[a].kind = "offer" /\ lock = Nobody
  /\ LET request == requests[a]
         p == request.product
         same == {o \in OffersOf(p) : offers[o].unit = request.unit}
         new == NewOffer(p, request.unit, request.base)
     IN \/ offers' = offers
        \/ \E o \in same : offers' = [offers EXCEPT ![o].price = new.price]
        \/ same = {} /\ offers' = Insert(offers, Cardinality(Offers) + 1, new)
  /\ Done(a)
  /\ UNCHANGED <<products, lock, crossed>>

\* edit_offer reads offer and product under the lock; the price is computed anew
\* if the pack is another or the amount is.
EditOffer(o, unit) ==
  /\ lock = Nobody
  /\ offers[o].unit # NoUnit
  /\ \A other \in OffersOf(offers[o].product) \ {o} : offers[other].unit # unit
  /\ \E repriced \in {TRUE, unit # offers[o].unit} :
       offers' = [offers EXCEPT ![o].unit = unit,
         ![o].price = IF repriced THEN PerBase(unit, products[offers[o].product].unit) ELSE @]
  /\ UNCHANGED <<products, requests, lock, crossed>>

\* A price in the bot or on the shop's page: the offer is read, the lock waited
\* for, and the per-base price written for the pack as it was read.  The shop's
\* page knows the units, the bot divides by the size of the pack.
PriceReads(a, o, knows) ==
  /\ requests[a] = AtRest
  /\ LET unit == offers[o].unit IN
     Busy(a, [kind |-> "price", offer |-> o,
              price |-> IF knows /\ unit # NoUnit THEN PerBase(unit, products[offers[o].product].unit)
                        ELSE Divided(unit)])
  /\ UNCHANGED <<products, offers, lock, crossed>>

PriceWrites(a) ==
  /\ requests[a].kind = "price" /\ lock = Nobody
  /\ offers' = [offers EXCEPT ![requests[a].offer].price = requests[a].price]
  /\ Done(a)
  /\ UNCHANGED <<products, lock, crossed>>

\* The bot's quick price of a product that has no offer; a missing unit is in
\* nobody's way, so two of them may both get there.
QuickReads(a, p) ==
  /\ requests[a] = AtRest /\ MayOffer
  /\ OffersOf(p) = {}
  /\ Busy(a, [kind |-> "quick", product |-> p])
  /\ UNCHANGED <<products, offers, lock, crossed>>

QuickWrites(a) ==
  /\ requests[a].kind = "quick"
  /\ offers' = Insert(offers, Cardinality(Offers) + 1,
                 [product |-> requests[a].product, unit |-> NoUnit, price |-> Divided(NoUnit)])
  /\ Done(a)
  /\ UNCHANGED <<products, lock, crossed>>

-----------------------------------------------------------------------------
Forms == [name : Names, unit : Units]
FirstPacks == {{}} \cup {{unit} : unit \in Units}

DeskNext ==
  \/ \E a \in Admins :
       \/ \E p \in Products, form \in Forms : EditReads(a, p, form)
       \/ EditWrites(a)
       \/ \E name \in Names, unit \in Units, packs \in FirstPacks : CreateReads(a, name, unit, packs)
       \/ CreateWrites(a)
       \/ \E p \in Products, unit \in Units : OfferReads(a, p, unit)
       \/ OfferWrites(a)
       \/ \E o \in Offers, knows \in BOOLEAN : PriceReads(a, o, knows)
       \/ PriceWrites(a)
       \/ \E p \in Products : QuickReads(a, p)
       \/ QuickWrites(a)
  \/ \E o \in Offers, unit \in Units : EditOffer(o, unit)

DeskSpec == DeskInit /\ [][DeskNext]_deskVars

-----------------------------------------------------------------------------
\* "Exact product identity uses a deterministic slug, so two concurrent
\* submissions cannot create the same variant" (docs/ADMIN_LOCATION_RELEASE.md:15),
\* nor can edits that moved a product to another variant meanwhile: of two
\* products of one variant, one was imported, or last written by one of two
\* forms that edited it at once.
NoTwins ==
  \A p, q \in Products \ crossed :
    p # q /\ Imported \notin {products[p].slug, products[q].slug} =>
      Identity(products[p].name, products[p].unit) # Identity(products[q].name, products[q].unit)
=============================================================================
