--------------------------- MODULE CatalogRelease ---------------------------
(***************************************************************************)
(* What releases and scripts do to a live catalogue: the seed that runs    *)
(* before every deploy (scripts/predeploy.py, scripts/seed.py), the import *)
(* of supplier workbooks (scripts/catalog_import.py) and the approved      *)
(* price sheet (scripts/update_plywood_prices.py), while administrators    *)
(* edit, archive, restore and price the same products.                     *)
(*                                                                         *)
(* An article is something a price list or a workbook has a row about; a   *)
(* product is found again by its slug.  The seed is one transaction of     *)
(* many statements, during which others commit; deploys do not overlap,    *)
(* and imports exclude one another by an advisory lock.  What the forms    *)
(* of administrators check is CatalogDesk's.                               *)
(***************************************************************************)
EXTENDS Naturals

CONSTANTS
  Transcribed,  \* articles of the price lists, numbered in the seed's order
  Unlisted,     \* articles that only workbooks and administrators know
  ListPriced,   \* the transcribed articles that the house sells at a list price
  Sheet,        \* those of them whose prices the approved sheet repeats
  Spoken,       \* [Transcribed -> set of wordings that stand for the article]
  Crafted,      \* articles that administrators enter by hand
  Keepers,      \* administrators with a product's form or button
  MaxDeploys    \* bound: deploys

ASSUME ReleaseAssumption ==
    /\ Transcribed \subseteq Nat
    /\ Sheet \subseteq ListPriced
    /\ ListPriced \subseteq Transcribed
    /\ MaxDeploys \in Nat

VARIABLES
  shelf,     \* canonical_products by slug
  stocked,   \* the house shop's offers, by the slug of their product
  sayings,   \* product_aliases: the slug that a wording stands for
  ready,     \* units and categories are there, since the first seed
  deploy,    \* the seed's transaction
  loading,   \* the import's transaction
  keeping    \* the copy of a product each administrator's request has loaded

releaseVars == <<shelf, stocked, sayings, ready, deploy, loading, keeping>>

Slug(kind, a) == [kind |-> kind, article |-> a]
FromList(a) == Slug("list", a)
ByHand(a) == Slug("admin", a)

\* What a release's price lists may hold, and what the rows of workbooks, after
\* those held back for what they say, may be about
PriceLists == SUBSET Transcribed
Workbooks == SUBSET (Transcribed \cup Unlisted)

\* Mutant: a workbook's rows have slugs of their own.
SlugOfTheFile(a) == Slug("excel", a)

\* A row of a workbook that the importer recognises as a price-list article
\* takes that article's slug, whether or not a seed has been there already.
SlugInWorkbook(a) == IF a \in Transcribed THEN FromList(a) ELSE Slug("excel", a)

\* A table with new rows
With(table, rows) ==
    [x \in DOMAIN table \cup DOMAIN rows |-> IF x \in DOMAIN rows THEN rows[x] ELSE table[x]]

\* maker: who inserted the row, as its source_ref and catalog_import tell;
\* plain: it has the name and the specification that workbooks give it;
\* state: is_active, and who took the product off the shelf.
Row(maker, born, source, plain) ==
    [maker |-> maker, born |-> born, source |-> source, plain |-> plain, state |-> "on"]

NoDeploy(number) == [at |-> "idle", number |-> number, list |-> {}, todo |-> {}, added |-> {},
                     heard |-> {}, learnt |-> <<>>, retiring |-> {}]
NoImport == [at |-> "idle", adding |-> {}]
NoForm == [at |-> "idle"]

ReleaseInit ==
    /\ shelf = <<>> /\ stocked = <<>> /\ sayings = <<>>
    /\ ready = FALSE
    /\ deploy = NoDeploy(0)
    /\ loading = NoImport
    /\ keeping = [k \in Keepers |-> NoForm]

-----------------------------------------------------------------------------
\* The seed

AllSayings == UNION {Spoken[a] : a \in Transcribed}

\* Aliases are read once, before the first product, with those that wait for
\* their approval.
DeployStarts(list, pending) ==
    /\ deploy.at = "idle"
    /\ deploy.number < MaxDeploys
    /\ deploy' = [NoDeploy(deploy.number + 1) EXCEPT
                    !.at = "seeding", !.list = list, !.todo = list, !.heard = DOMAIN sayings \cup pending]
    /\ UNCHANGED <<shelf, stocked, sayings, ready, loading, keeping>>

Unheard(a) == Spoken[a] \ deploy.heard

\* A product that is there stays as it is.  A wording approved since the
\* aliases were read breaks their unique index, and with it the deploy.
SeedProduct(a) ==
    /\ a \in deploy.todo
    /\ \A b \in deploy.todo : a <= b
    /\ Unheard(a) \cap DOMAIN sayings = {}
    /\ deploy' = [deploy EXCEPT !.todo = @ \ {a},
                                !.added = @ \cup ({FromList(a)} \ DOMAIN shelf),
                                !.heard = @ \cup Spoken[a],
                                !.learnt = With(@, [n \in Unheard(a) |-> FromList(a)])]
    /\ UNCHANGED <<shelf, stocked, sayings, ready, loading, keeping>>

\* Mutant: the seed retires what no list has, whoever made it.
DroppedWhoever ==
    {s \in DOMAIN shelf : /\ shelf[s].source = "supplier"
                          /\ shelf[s].state = "on"
                          /\ s \notin {FromList(a) : a \in deploy.list}}

\* A supplier's product in no price list any more; an imported one was in none.
Dropped ==
    {s \in DOMAIN shelf : /\ shelf[s].source = "supplier"
                          /\ shelf[s].state = "on"
                          /\ s \notin {FromList(a) : a \in deploy.list}
                          /\ shelf[s].maker # "import"}

DeployRetires ==
    /\ deploy.at = "seeding"
    /\ deploy.todo = {}
    /\ deploy' = [deploy EXCEPT !.at = "retiring", !.retiring = Dropped]
    /\ UNCHANGED <<shelf, stocked, sayings, ready, loading, keeping>>

\* Mutant: every listed product without an offer gets one.
OffersOfTheList ==
    {FromList(a) : a \in ListPriced} \cap (deploy.added \cup (DOMAIN shelf \ DOMAIN stocked))

\* Only a product of this deploy gets an offer at the price of the list.
FirstOffers == {s \in deploy.added : s.article \in ListPriced}

DeployCommits ==
    /\ deploy.at = "retiring"
    /\ shelf' = With([s \in DOMAIN shelf |-> IF s \in deploy.retiring
                                               THEN [shelf[s] EXCEPT !.state = "retired"]
                                               ELSE shelf[s]],
                     [s \in deploy.added |-> Row("deploy", deploy.number, "supplier", FALSE)])
    /\ stocked' = With(stocked, [s \in FirstOffers |->
                                   [by |-> "deploy", born |-> deploy.number, price |-> "list"]])
    /\ sayings' = With(sayings, deploy.learnt)
    /\ ready' = TRUE
    /\ deploy' = NoDeploy(deploy.number)
    /\ UNCHANGED <<loading, keeping>>

\* An error, or the end of the process: the transaction is rolled back.
DeployFails ==
    /\ deploy.at # "idle"
    /\ deploy' = NoDeploy(deploy.number)
    /\ UNCHANGED <<shelf, stocked, sayings, ready, loading, keeping>>

-----------------------------------------------------------------------------
\* The import of workbooks

Recognised(a) == ByHand(a) \in DOMAIN shelf /\ shelf[ByHand(a)].plain

\* One look at all products decides what is new.  A slug that is taken is the
\* product itself or a case for review; so are rows that resemble a product,
\* and the file stands for the others.
ImportReads(file) ==
    /\ ready
    /\ loading.at = "idle"
    /\ loading' = [at |-> "read",
                   adding |-> {SlugInWorkbook(a) : a \in {b \in file : ~ Recognised(b)}} \ DOMAIN shelf]
    /\ UNCHANGED <<shelf, stocked, sayings, ready, deploy, keeping>>

\* An insert waits while a seed holds its slug.
ImportAdds ==
    /\ loading.at = "read"
    /\ loading.adding \cap (DOMAIN shelf \cup deploy.added) = {}
    /\ shelf' = With(shelf, [s \in loading.adding |-> Row("import", 0, "supplier", TRUE)])
    /\ loading' = NoImport
    /\ UNCHANGED <<stocked, sayings, ready, deploy, keeping>>

ImportFails ==
    /\ loading.at = "read"
    /\ loading' = NoImport
    /\ UNCHANGED <<shelf, stocked, sayings, ready, deploy, keeping>>

-----------------------------------------------------------------------------
\* Administrators

HandMakes(a, plain) ==
    /\ ready
    /\ ByHand(a) \notin DOMAIN shelf
    /\ shelf' = With(shelf, [s \in {ByHand(a)} |-> Row("admin", 0, "admin", plain)])
    /\ UNCHANGED <<stocked, sayings, ready, deploy, loading, keeping>>

KeeperLoads(k, s) ==
    /\ keeping[k].at = "idle"
    /\ keeping' = [keeping EXCEPT ![k] = [at |-> "loaded", slug |-> s, active |-> shelf[s].state = "on"]]
    /\ UNCHANGED <<shelf, stocked, sayings, ready, deploy, loading>>

\* The session writes is_active only where it differs from the loaded copy.
StateAfter(k, active) ==
    IF active = keeping[k].active THEN shelf[keeping[k].slug].state
    ELSE IF active THEN "on" ELSE "archived"

\* The form makes the product the administrators' own, and may make it
\* something else than the workbooks say, or what they say; what it does to the
\* slug of a product made by hand is CatalogDesk's.
KeeperEdits(k, active, plain) ==
    /\ keeping[k].at = "loaded"
    /\ shelf' = [shelf EXCEPT ![keeping[k].slug] =
                    [@ EXCEPT !.state = StateAfter(k, active), !.source = "admin", !.plain = plain]]
    /\ keeping' = [keeping EXCEPT ![k] = NoForm]
    /\ UNCHANGED <<stocked, sayings, ready, deploy, loading>>

\* The archive and restore buttons
KeeperSwitches(k, active) ==
    /\ keeping[k].at = "loaded"
    /\ shelf' = [shelf EXCEPT ![keeping[k].slug] = [@ EXCEPT !.state = StateAfter(k, active)]]
    /\ keeping' = [keeping EXCEPT ![k] = NoForm]
    /\ UNCHANGED <<stocked, sayings, ready, deploy, loading>>

\* A new offer, or another price of an offer, at the administrators' price.
KeeperPrices(s) ==
    /\ stocked' = With(stocked, [t \in {s} |->
                                   IF s \in DOMAIN stocked
                                     THEN [stocked[s] EXCEPT !.price = "own"]
                                     ELSE [by |-> "admin", born |-> 0, price |-> "own"]])
    /\ UNCHANGED <<shelf, sayings, ready, deploy, loading, keeping>>

\* An approved wording is unique; its insert waits for a seed that holds it.
ApproveWord(n, s) ==
    /\ n \notin DOMAIN sayings \cup DOMAIN deploy.learnt
    /\ sayings' = With(sayings, [w \in {n} |-> s])
    /\ UNCHANGED <<shelf, stocked, ready, deploy, loading, keeping>>

\* The approved price sheet: every product of it must be active and on offer,
\* or nothing is written.
SheetUpdates ==
    LET priced == {FromList(a) : a \in Sheet}
    IN  /\ priced \subseteq DOMAIN stocked
        /\ \A s \in priced : shelf[s].state = "on"
        /\ stocked' = [s \in DOMAIN stocked |-> IF s \in priced
                                                  THEN [stocked[s] EXCEPT !.price = "list"]
                                                  ELSE stocked[s]]
        /\ UNCHANGED <<shelf, sayings, ready, deploy, loading, keeping>>

-----------------------------------------------------------------------------
Seed ==
    \/ \E list \in PriceLists, pending \in SUBSET AllSayings : DeployStarts(list, pending)
    \/ \E a \in Transcribed : SeedProduct(a)
    \/ DeployRetires
    \/ DeployCommits
    \/ DeployFails

Import ==
    \/ \E file \in Workbooks : ImportReads(file)
    \/ ImportAdds
    \/ ImportFails

Keep ==
    \/ \E a \in Crafted, plain \in BOOLEAN : HandMakes(a, plain)
    \/ \E k \in Keepers, s \in DOMAIN shelf : KeeperLoads(k, s)
    \/ \E k \in Keepers, active, plain \in BOOLEAN : KeeperEdits(k, active, plain)
    \/ \E k \in Keepers, active \in BOOLEAN : KeeperSwitches(k, active)
    \/ \E s \in DOMAIN shelf : KeeperPrices(s)
    \/ \E n \in AllSayings, s \in DOMAIN shelf : ApproveWord(n, s)

ReleaseNext == Seed \/ Import \/ Keep \/ SheetUpdates

ReleaseSpec == ReleaseInit /\ [][ReleaseNext]_releaseVars

-----------------------------------------------------------------------------
\* What the scripts insert about one article is one product, whichever of
\* them came first: a deploy does not repeat what an import found, nor an
\* import what a deploy sells.
ArticlesAreListedOnce ==
    \A s, t \in DOMAIN shelf :
        /\ s.article = t.article
        /\ shelf[s].maker # "admin"
        /\ shelf[t].maker # "admin"
        => s = t

\* A deploy puts nothing on offer but what the same deploy put on the shelf:
\* a product without stock does not get a price because a list is replayed.
StockIsNotInvented ==
    \A s \in DOMAIN stocked :
        stocked[s].by = "deploy" =>
            s \in DOMAIN shelf /\ shelf[s].maker = "deploy" /\ shelf[s].born = stocked[s].born

\* A deploy takes nothing off the shelf but what a deploy put there.
RetiresOnlyItsOwn ==
    \A s \in DOMAIN shelf : shelf[s].state = "retired" => shelf[s].maker = "deploy"

\* Releases, imports and administrators work on one catalogue, and neither
\* repeats, prices nor retires what another of them put there (seed_database,
\* seed_own_offers, import_rows).
ReleasesKeepTheCatalogue ==
    ArticlesAreListedOnce /\ StockIsNotInvented /\ RetiresOnlyItsOwn
=============================================================================
