------------------------------ MODULE FxPricing ------------------------------
(***************************************************************************)
(* The shared USD -> UZS rate and the prices materialised from it          *)
(* (app/services/fx_pricing.py and its callers).                           *)
(*                                                                         *)
(* A priced row (a ShopProduct, or one of its ShopProductPriceTiers) keeps *)
(* what the administrator typed (currency, amount) beside what customers   *)
(* pay (price) and the rate it was converted at (rate, revision).  An      *)
(* administrator publishes a rate under an exclusive lock on the singleton *)
(* fx_rate_settings row; editors of a price and readers that quote one     *)
(* hold a shared lock on it until they commit.  A row of the catalogue is  *)
(* not locked: every editor has its ORM copy of the row BEFORE it gets the *)
(* shared lock (loading the Shop loads its products and their tiers), and  *)
(* the flush writes the columns that differ from that copy, no others.     *)
(*                                                                         *)
(* Amounts and rates are small integers, so the rounding of convert_to_uzs *)
(* is left out; its range check is kept.  A transaction edits one row: the *)
(* offer and the tiers of one form are written independently of one        *)
(* another.  Rows are offers; a tier differs only in that nothing but the  *)
(* form sets its price.                                                    *)
(***************************************************************************)
EXTENDS Naturals

CONSTANTS
    Editors,        \* transactions that set the price of a row
    Publishers,     \* administrators on the currency settings page
    Quoters,        \* transactions that price a basket
    Rows,           \* offers, present or still to be created
    Amounts,        \* amounts an administrator types
    Rates,          \* rates an administrator publishes
    MaxPrice,       \* the largest price the column holds (MAX_UZS_PRICE)
    MaxRevision     \* bound: rates published

ASSUME FxAssumption ==
    /\ Amounts \subseteq Nat \ {0}
    /\ Rates \subseteq Nat \ {0}
    /\ MaxPrice \in Nat
    /\ MaxRevision \in Nat

VARIABLES
    setting,    \* the fx_rate_settings row
    rows,       \* the committed catalogue
    editing,    \* per editor: its transaction
    publishing, \* per publisher: the page it has open, or its transaction
    quoting     \* per quoter: its transaction

vars == <<setting, rows, editing, publishing, quoting>>

-----------------------------------------------------------------------------
NoRate == 0     \* usd_to_uzs_rate IS NULL

NoRow == [currency |-> "none", amount |-> 0, price |-> 0, rate |-> 0, revision |-> 0]

Setting == [rate : Rates \cup {NoRate}, revision : 0 .. MaxRevision]

PricedRow == [currency : {"UZS", "USD"}, amount : Amounts, price : 1 .. MaxPrice,
              rate : Rates \cup {1}, revision : 0 .. MaxRevision]

ConvertToUzs(amount, currency, rate) == IF currency = "USD" THEN amount * rate ELSE amount

Convertible(amount, currency, rate) ==
    /\ currency = "USD" => rate # NoRate
    /\ ConvertToUzs(amount, currency, rate) <= MaxPrice

\* The monetary columns set_offer_price and set_tier_price compute.
Priced(amount, currency, fx) ==
    [currency |-> currency, amount |-> amount,
     price |-> ConvertToUzs(amount, currency, fx.rate),
     rate |-> IF currency = "USD" THEN fx.rate ELSE 1,
     revision |-> IF currency = "USD" THEN fx.revision ELSE 0]

\* The UPDATE of a flush: the columns in which the object now differs from
\* what was loaded, whatever the database holds by then.
DirtyWrite(stored, loaded, new) ==
    [column \in DOMAIN stored |->
        IF new[column] = loaded[column] THEN stored[column] ELSE new[column]]

-----------------------------------------------------------------------------
SharedHeld ==
    \/ \E e \in Editors : editing[e].stage = "locked"
    \/ \E q \in Quoters : quoting[q].stage = "reading"

ExclusiveHeld == \E p \in Publishers : publishing[p].stage \in {"locked", "read"}

\* FOR SHARE and FOR UPDATE on the setting.
ShareIsFree == TRUE
MayShare == ~ExclusiveHeld

ExcludesPublishersOnly == ~ExclusiveHeld
MayExclude == ~ExclusiveHeld /\ ~SharedHeld

NoSetting == [rate |-> NoRate, revision |-> 0]
Idle == [stage |-> "idle"]

Init ==
    /\ setting = NoSetting
    /\ rows = [r \in Rows |-> NoRow]
    /\ editing = [e \in Editors |-> Idle]
    /\ publishing = [p \in Publishers |-> Idle]
    /\ quoting = [q \in Quoters |-> Idle]

-----------------------------------------------------------------------------
(* An editor of one price.                                                 *)

\* get_house_shop, find_existing_offer, session.get: the copy of the row the
\* rest of the transaction works from, read before any lock is asked for.
LoadRow(e, r) ==
    /\ editing[e].stage = "idle"
    /\ editing' = [editing EXCEPT ![e] =
                    [stage |-> "loaded", row |-> r, loaded |-> rows[r], snapshot |-> NoSetting]]
    /\ UNCHANGED <<setting, rows, publishing, quoting>>

\* FxPricingService.snapshot(lock=True): populate_existing refreshes the rate,
\* not the row.
LockRate(e) ==
    /\ editing[e].stage = "loaded"
    /\ MayShare
    /\ editing' = [editing EXCEPT ![e] =
                    [stage |-> "locked", row |-> @.row, loaded |-> @.loaded, snapshot |-> setting]]
    /\ UNCHANGED <<setting, rows, publishing, quoting>>

EndEdit(e) == editing' = [editing EXCEPT ![e] = Idle]

\* set_offer_price / set_tier_price, then the commit.  A row of the catalogue
\* form is left alone when what was typed equals the loaded copy, and a form
\* must confirm a change of the currency it loaded; imports and the listing
\* wizard set the price without either test.
SetPrice(e, amount, currency) ==
    LET tx == editing[e]
        new == Priced(amount, currency, tx.snapshot)
    IN  /\ tx.stage = "locked"
        /\ tx.loaded # NoRow
        /\ Convertible(amount, currency, tx.snapshot.rate)
        /\ rows' = [rows EXCEPT ![tx.row] = DirtyWrite(@, tx.loaded, new)]
        /\ EndEdit(e)
        /\ UNCHANGED <<setting, publishing, quoting>>

\* A row that was not there when it was looked up is inserted whole; the
\* unique key refuses the second of two inserts.
CreateRow(e, amount, currency) ==
    LET tx == editing[e]
    IN  /\ tx.stage = "locked"
        /\ tx.loaded = NoRow
        /\ rows[tx.row] = NoRow
        /\ Convertible(amount, currency, tx.snapshot.rate)
        /\ rows' = [rows EXCEPT ![tx.row] = Priced(amount, currency, tx.snapshot)]
        /\ EndEdit(e)
        /\ UNCHANGED <<setting, publishing, quoting>>

\* Nothing typed that differs from the loaded copy, no confirmation of a new
\* currency, an amount that cannot be converted, a duplicate row, a disconnect.
AbandonEdit(e) ==
    /\ editing[e].stage \in {"loaded", "locked"}
    /\ EndEdit(e)
    /\ UNCHANGED <<setting, rows, publishing, quoting>>

-----------------------------------------------------------------------------
(* An administrator on the currency settings page.                         *)

OpenSettings(p) ==
    /\ publishing[p].stage = "idle"
    /\ publishing' = [publishing EXCEPT ![p] = [stage |-> "form", expected |-> setting.revision]]
    /\ UNCHANGED <<setting, rows, editing, quoting>>

\* The exclusive lock is granted and the expected revision compared under it.
LockSetting(p, rate) ==
    /\ publishing[p].stage = "form"
    /\ MayExclude
    /\ publishing[p].expected = setting.revision
    /\ rate # setting.rate
    /\ setting.revision < MaxRevision
    /\ publishing' = [publishing EXCEPT ![p] =
                        [stage |-> "locked", expected |-> @.expected, rate |-> rate]]
    /\ UNCHANGED <<setting, rows, editing, quoting>>

\* FxConflict, or the rate that is already published: the page is shown again.
RefusePublish(p) ==
    /\ publishing[p].stage = "form"
    /\ MayExclude
    /\ publishing' = [publishing EXCEPT ![p] = Idle]
    /\ UNCHANGED <<setting, rows, editing, quoting>>

UsdRows == {r \in Rows : rows[r].currency = "USD"}

SelectUsdRows(p) ==
    /\ publishing[p].stage = "locked"
    /\ publishing' = [publishing EXCEPT ![p] =
                        [stage |-> "read", expected |-> @.expected, rate |-> @.rate,
                         targets |-> [r \in UsdRows |-> rows[r]]]]
    /\ UNCHANGED <<setting, rows, editing, quoting>>

Reprice(row, amount, fx) ==
    [currency |-> row.currency, amount |-> row.amount,
     price |-> ConvertToUzs(amount, "USD", fx.rate), rate |-> fx.rate, revision |-> fx.revision]

\* The preflight passes for every selected row, then the setting and the
\* rows are written and committed together.
PublishRate(p) ==
    LET tx == publishing[p]
        fx == [rate |-> tx.rate, revision |-> setting.revision + 1]
    IN  /\ tx.stage = "read"
        /\ \A r \in DOMAIN tx.targets : Convertible(tx.targets[r].amount, "USD", tx.rate)
        /\ setting' = fx
        /\ rows' = [r \in Rows |-> IF r \in DOMAIN tx.targets
                                    THEN Reprice(rows[r], tx.targets[r].amount, fx)
                                    ELSE rows[r]]
        /\ publishing' = [publishing EXCEPT ![p] = Idle]
        /\ UNCHANGED <<editing, quoting>>

\* amount_out_of_range for one row: a 422 page, with the session committed.
RefuseOutOfRange(p) ==
    /\ publishing[p].stage = "read"
    /\ \E r \in DOMAIN publishing[p].targets :
            ~Convertible(publishing[p].targets[r].amount, "USD", publishing[p].rate)
    /\ publishing' = [publishing EXCEPT ![p] = Idle]
    /\ UNCHANGED <<setting, rows, editing, quoting>>

-----------------------------------------------------------------------------
(* A basket priced for a preview, a cart or an order.                      *)

LockForQuote(q) ==
    /\ quoting[q].stage = "idle"
    /\ MayShare
    /\ quoting' = [quoting EXCEPT ![q] =
                    [stage |-> "reading", snapshot |-> setting, seen |-> [r \in {} |-> NoRow]]]
    /\ UNCHANGED <<setting, rows, editing, publishing>>

\* Offers, their tiers and the lines of a re-quote are read by statements of
\* their own, each with populate_existing.
ReadPrice(q, r) ==
    /\ quoting[q].stage = "reading"
    /\ r \notin DOMAIN quoting[q].seen
    /\ rows[r] # NoRow
    /\ quoting' = [quoting EXCEPT ![q] =
                    [stage |-> "reading", snapshot |-> @.snapshot,
                     seen |-> [s \in DOMAIN @.seen \cup {r} |->
                                IF s = r THEN rows[r] ELSE @.seen[s]]]]
    /\ UNCHANGED <<setting, rows, editing, publishing>>

\* The request commits; the order keeps the prices and the rate it was quoted.
EndQuote(q) ==
    /\ quoting[q].stage = "reading"
    /\ quoting' = [quoting EXCEPT ![q] = Idle]
    /\ UNCHANGED <<setting, rows, editing, publishing>>

-----------------------------------------------------------------------------
EditStep(e) ==
    \/ \E r \in Rows : LoadRow(e, r)
    \/ LockRate(e)
    \/ \E amount \in Amounts, currency \in {"UZS", "USD"} :
            SetPrice(e, amount, currency) \/ CreateRow(e, amount, currency)
    \/ AbandonEdit(e)

PublishStep(p) ==
    \/ OpenSettings(p)
    \/ \E rate \in Rates : LockSetting(p, rate)
    \/ RefusePublish(p)
    \/ SelectUsdRows(p)
    \/ PublishRate(p)
    \/ RefuseOutOfRange(p)

QuoteStep(q) ==
    \/ LockForQuote(q)
    \/ \E r \in Rows : ReadPrice(q, r)
    \/ EndQuote(q)

Next ==
    \/ \E e \in Editors : EditStep(e)
    \/ \E p \in Publishers : PublishStep(p)
    \/ \E q \in Quoters : QuoteStep(q)

Spec == Init /\ [][Next]_vars

-----------------------------------------------------------------------------
Prices == UNION {[known -> PricedRow] : known \in SUBSET Rows}

EditorState ==
    {Idle} \cup [stage : {"loaded", "locked"}, row : Rows, loaded : PricedRow \cup {NoRow},
                 snapshot : Setting]

PublisherState ==
    {Idle} \cup [stage : {"form"}, expected : 0 .. MaxRevision]
           \cup [stage : {"locked"}, expected : 0 .. MaxRevision, rate : Rates]
           \cup [stage : {"read"}, expected : 0 .. MaxRevision, rate : Rates, targets : Prices]

QuoterState == {Idle} \cup [stage : {"reading"}, snapshot : Setting, seen : Prices]

TypeOK ==
    /\ setting \in Setting
    /\ rows \in [Rows -> PricedRow \cup {NoRow}]
    /\ editing \in [Editors -> EditorState]
    /\ publishing \in [Publishers -> PublisherState]
    /\ quoting \in [Quoters -> QuoterState]

\* A basket is priced under one rate: from the moment a quote takes the rate
\* until its transaction ends the published rate is the one it took, whoever
\* else publishes, however many statements the reading takes.
QuoteHoldsRate ==
    \A q \in Quoters : quoting[q].stage = "reading" => quoting[q].snapshot = setting

\* One publication reprices every dollar row there is and touches no other,
\* whatever was being edited or created while the publisher waited.
RepricedTogether ==
    [][setting' # setting =>
        \A r \in Rows :
            IF rows[r].currency = "USD"
            THEN rows'[r] = [currency |-> "USD", amount |-> rows[r].amount,
                             price |-> rows[r].amount * setting'.rate,
                             rate |-> setting'.rate, revision |-> setting'.revision]
            ELSE rows'[r] = rows[r]]_vars

\* A rate replaces only the rate its administrator was looking at.
NoBlindPublish ==
    [][setting' # setting =>
        \E p \in Publishers :
            /\ publishing[p].stage = "read"
            /\ publishing[p].expected = setting.revision
            /\ setting'.revision = setting.revision + 1]_vars

=============================================================================
