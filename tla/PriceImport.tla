---------------------------- MODULE PriceImport ----------------------------
(***************************************************************************)
(* The price list of the house shop and those who write it at a time:      *)
(* confirmed price files (services/supplier_service.py), the panel's quick *)
(* price (bot/handlers/shop.py) and the offer forms of the admin pages     *)
(* (web/storefront/routers/manage.py).                                     *)
(*                                                                         *)
(* Each reads, decides and writes in one transaction; what the database    *)
(* adds is the unique constraint on product and pack, and the lock on the  *)
(* rate row, which writers of prices share and a new rate needs alone.     *)
(***************************************************************************)
EXTENDS Naturals, Sequences, FiniteSets

CONSTANTS
    Batches,
    Files,    \* contents of price files: sequences of read rows
    Goods,    \* the catalogue
    Imports,  \* requests in progress
    MaxPriced \* bound on rows of shop_products

VARIABLES
    status,   \* import_batches.status, "none" before the upload
    fileRows, \* import_rows of each batch in order of row_no
    rate,     \* a USD rate is published
    priced,   \* shop_products in order of id: [product, pack, from], from who priced it last
    import    \* what each request has read

importVars == <<status, fileRows, rate, priced, import>>

Nothing == "none"

\* What reading a price file leaves of a row: the best product for its name and
\* whether the search is sure of it, the currency, whether it can be priced.
FileRow == [best : Goods \cup {Nothing}, sure : BOOLEAN, currency : {"UZS", "USD", Nothing}, fits : BOOLEAN]

ASSUME ImportAssumption == Files \subseteq Seq(FileRow)

IdleImport == [at |-> "idle", batch |-> Nothing, rows |-> <<>>, found |-> <<>>, offer |-> 0, product |-> Nothing, pack |-> Nothing]

ImportInit ==
    /\ status = [b \in Batches |-> "none"]
    /\ fileRows = [b \in Batches |-> <<>>]
    /\ rate \in BOOLEAN
    /\ priced = <<>>
    /\ import = [h \in Imports |-> IdleImport]

-----------------------------------------------------------------------------
OfProduct(p) == {o \in DOMAIN priced : priced[o].product = p}
OfPack(p, pack) == {o \in OfProduct(p) : priced[o].pack = pack}
Found(p, pack) == IF OfPack(p, pack) = {} THEN 0 ELSE CHOOSE o \in OfPack(p, pack) : TRUE

Offer(product, pack, from) == [product |-> product, pack |-> pack, from |-> from]

Answer(h) == import' = [import EXCEPT ![h] = IdleImport]
Idles(h) == import[h].at = "idle"
Ask(h, r) == import' = [import EXCEPT ![h] = r]

\* convert_to_uzs refuses a row that names no currency, and dollars before a
\* rate is published.
Usable(currency) == currency = "UZS" \/ (currency = "USD" /\ rate)

\* The rows apply_batch plans to write: matched and not skipped.
Planned(rs) == {i \in DOMAIN rs : rs[i].match # Nothing /\ rs[i].how # "skipped"}
Refused(rs) == {i \in Planned(rs) : ~Usable(rs[i].currency)}

\* Of these a row whose pack or unit cannot be priced fails by itself.
Written(rs) == {i \in Planned(rs) : rs[i].fits}
Matches(rs) == {rs[i].match : i \in Written(rs)}

-----------------------------------------------------------------------------
\* _match_row: the best candidate is kept whether the search is sure of it or
\* not; an unsure one is "manual", as if it had been picked by hand.
Guessed(row) ==
    [match |-> row.best, how |-> IF row.best # Nothing /\ row.sure THEN "auto" ELSE "manual"]

\* Buttons to resolve or skip a row are shown for a row without a match.
Listed(row) == row.match = Nothing

\* process_file_upload stages the rows.
Upload(b, file) ==
    /\ status[b] = "none"
    /\ status' = [status EXCEPT ![b] = "awaiting_confirmation"]
    /\ fileRows' = [fileRows EXCEPT ![b] =
           [i \in DOMAIN file |->
               LET row == Guessed(file[i])
               IN  [match |-> row.match, how |-> row.how, listed |-> Listed(row),
                    currency |-> file[i].currency, fits |-> file[i].fits,
                    error |-> ~Usable(file[i].currency), applied |-> 0]]]
    /\ UNCHANGED <<rate, priced, import>>

\* Buttons are shown for the rows without a match, and stay on pages and
\* messages whatever became of the row and of the batch.
ResolveRow(b, i, p) ==
    /\ fileRows[b][i].listed
    /\ fileRows' = [fileRows EXCEPT ![b][i].match = p, ![b][i].how = "manual"]
    /\ UNCHANGED <<status, rate, priced, import>>

SkipRow(b, i) ==
    /\ fileRows[b][i].listed
    /\ fileRows' = [fileRows EXCEPT ![b][i].match = Nothing, ![b][i].how = "skipped"]
    /\ UNCHANGED <<status, rate, priced, import>>

Cancel(b) ==
    /\ status[b] # "none"
    /\ status' = [status EXCEPT ![b] = "failed"]
    /\ UNCHANGED <<fileRows, rate, priced, import>>

\* Confirm, from the bot or from a page: apply_batch does not ask the status.
Confirm(h, b) ==
    /\ Idles(h)
    /\ status[b] # "none"
    /\ Ask(h, [IdleImport EXCEPT !.at = "confirmed", !.batch = b, !.rows = fileRows[b]])
    /\ UNCHANGED <<status, fileRows, rate, priced>>

\* Mutant: a row that cannot be converted is left out instead.
PreflightSkips(h) ==
    LET r == import[h]
        usable == [i \in DOMAIN r.rows |->
            IF i \in Refused(r.rows) THEN [r.rows[i] EXCEPT !.how = "skipped"] ELSE r.rows[i]]
    IN  /\ r.at = "confirmed"
        /\ Ask(h, [r EXCEPT !.at = "planned", !.rows = usable,
                           !.found = [p \in Matches(usable) |-> Found(p, "dona")]])
        /\ UNCHANGED <<status, fileRows, rate, priced>>

\* The rate's lock is taken and every planned row converted: one that cannot be
\* marks its row and stops the batch, and a planned row that can loses its mark.
\* Otherwise the offers are looked up, 0 for one to insert.
Preflight(h) ==
    LET r == import[h]
    IN  /\ r.at = "confirmed"
        /\ IF Refused(r.rows) # {}
           THEN /\ fileRows' = [fileRows EXCEPT ![r.batch] = [i \in DOMAIN r.rows |->
                       IF i \in Planned(r.rows)
                       THEN [fileRows[r.batch][i] EXCEPT !.error = i \in Refused(r.rows)]
                       ELSE fileRows[r.batch][i]]]
                /\ Answer(h)
           ELSE /\ Ask(h, [r EXCEPT !.at = "planned", !.found = [p \in Matches(r.rows) |-> Found(p, "dona")]])
                /\ UNCHANGED fileRows
        /\ UNCHANGED <<status, rate, priced>>

\* The row that inserts a product's offer is its first.
FirstRow(rs, p) ==
    LET ofProduct == {i \in Written(rs) : rs[i].match = p}
    IN  CHOOSE i \in ofProduct : \A j \in ofProduct : i <= j

\* The id each planned product's offer ends up with.
Target(r) ==
    LET new == {p \in Matches(r.rows) : r.found[p] = 0}
    IN  [p \in Matches(r.rows) |->
            IF r.found[p] # 0 THEN r.found[p]
            ELSE Len(priced) + Cardinality({q \in new : FirstRow(r.rows, q) <= FirstRow(r.rows, p)})]

\* The rows are written one after another and committed with the status.  A
\* product whose offer somebody else inserted meanwhile breaks the constraint
\* and with it the transaction: nothing of the batch is written.
Apply(h) ==
    LET r == import[h]
        target == Target(r)
        new == {target[p] : p \in {q \in Matches(r.rows) : r.found[q] = 0}}
        taken == \E p \in Matches(r.rows) : r.found[p] = 0 /\ OfPack(p, "dona") # {}
    IN  /\ r.at = "planned"
        /\ Len(priced) + Cardinality(new) <= MaxPriced
        /\ IF taken
           THEN UNCHANGED <<status, fileRows, priced>>
           ELSE /\ priced' = [o \in 1 .. Len(priced) + Cardinality(new) |->
                       IF o \in new THEN Offer(CHOOSE p \in Matches(r.rows) : target[p] = o, "dona", r.batch)
                       ELSE IF \E p \in Matches(r.rows) : target[p] = o THEN [priced[o] EXCEPT !.from = r.batch]
                       ELSE priced[o]]
                /\ status' = [status EXCEPT ![r.batch] = "applied"]
                /\ fileRows' = [fileRows EXCEPT ![r.batch] = [i \in DOMAIN r.rows |->
                       IF i \in Planned(r.rows)
                       THEN [fileRows[r.batch][i] EXCEPT !.error = FALSE,
                                                     !.applied = IF i \in Written(r.rows) THEN target[r.rows[i].match]
                                                                 ELSE fileRows[r.batch][i].applied]
                       ELSE fileRows[r.batch][i]]]
        /\ Answer(h)
        /\ UNCHANGED rate

-----------------------------------------------------------------------------
\* A line like "cement m400 52000": any offer of the product, or a new one
\* whose pack_unit_code is NULL.
QuickPrice(h, p) ==
    /\ Idles(h)
    /\ \E o \in OfProduct(p) \cup {0} :
        /\ o = 0 <=> OfProduct(p) = {}
        /\ Ask(h, [IdleImport EXCEPT !.at = "quick", !.offer = o, !.product = p])
    /\ UNCHANGED <<status, fileRows, rate, priced>>

QuickWrite(h) ==
    LET r == import[h]
    IN  /\ r.at = "quick"
        /\ r.offer = 0 => Len(priced) < MaxPriced
        /\ priced' = IF r.offer # 0 THEN [priced EXCEPT ![r.offer].from = "admin"]
                     ELSE Append(priced, Offer(r.product, "null", "admin"))
        /\ Answer(h)
        /\ UNCHANGED <<status, fileRows, rate>>

\* The form of a new offer: an offer of that pack is updated instead.
AddOffer(h, p, pack) ==
    /\ Idles(h)
    /\ Ask(h, [IdleImport EXCEPT !.at = "form", !.product = p, !.pack = pack, !.offer = Found(p, pack)])
    /\ UNCHANGED <<status, fileRows, rate, priced>>

\* The form of an offer may change its pack, to one that no other offer has.
EditForm(h, o, pack) ==
    /\ Idles(h)
    /\ priced[o].pack # "null"
    /\ OfPack(priced[o].product, pack) \ {o} = {}
    /\ Ask(h, [IdleImport EXCEPT !.at = "form", !.product = priced[o].product, !.pack = pack, !.offer = o])
    /\ UNCHANGED <<status, fileRows, rate, priced>>

\* Another offer of the pack by now: the constraint fails the form.
FormWrite(h) ==
    LET r == import[h]
    IN  /\ r.at = "form"
        /\ r.offer = 0 => Len(priced) < MaxPriced
        /\ priced' = IF OfPack(r.product, r.pack) \ {r.offer} # {} THEN priced
                     ELSE IF r.offer = 0 THEN Append(priced, Offer(r.product, r.pack, "admin"))
                     ELSE [priced EXCEPT ![r.offer] = Offer(r.product, r.pack, "admin")]
        /\ Answer(h)
        /\ UNCHANGED <<status, fileRows, rate>>

\* The first rate is published: nobody holds the lock meanwhile.
FirstRate ==
    /\ ~rate
    /\ \A h \in Imports : import[h].at # "planned" /\ import[h].at # "form"
    /\ rate' = TRUE
    /\ UNCHANGED <<status, fileRows, priced, import>>

\* The process dies and the transaction with it.
Crash(h) ==
    /\ ~Idles(h)
    /\ Answer(h)
    /\ UNCHANGED <<status, fileRows, rate, priced>>

-----------------------------------------------------------------------------
ImportPacks == {"dona", "kg50"}

ImportNext ==
    \/ \E b \in Batches :
        \/ \E file \in Files : Upload(b, file)
        \/ \E i \in DOMAIN fileRows[b] : SkipRow(b, i) \/ \E p \in Goods : ResolveRow(b, i, p)
        \/ Cancel(b)
        \/ \E h \in Imports : Confirm(h, b)
    \/ \E h \in Imports :
        \/ Preflight(h)
        \/ Apply(h)
        \/ QuickWrite(h)
        \/ FormWrite(h)
        \/ Crash(h)
        \/ \E p \in Goods : QuickPrice(h, p) \/ \E pack \in ImportPacks : AddOffer(h, p, pack)
        \/ \E o \in DOMAIN priced, pack \in ImportPacks : EditForm(h, o, pack)
    \/ FirstRate

ImportSpec == ImportInit /\ [][ImportNext]_importVars

-----------------------------------------------------------------------------
ImportTypeOK ==
    /\ status \in [Batches -> {"none", "awaiting_confirmation", "applied", "failed"}]
    /\ \A b \in Batches : \A i \in DOMAIN fileRows[b] :
        fileRows[b][i] \in [match : Goods \cup {Nothing}, how : {"auto", "manual", "skipped"},
                        currency : {"UZS", "USD", Nothing}, fits : BOOLEAN, listed : BOOLEAN, error : BOOLEAN,
                        applied : 0 .. MaxPriced]
    /\ rate \in BOOLEAN
    /\ \A o \in DOMAIN priced :
        priced[o] \in [product : Goods, pack : ImportPacks \cup {"null"}, from : Batches \cup {"admin"}]
    /\ \A h \in Imports : import[h].at \in {"idle", "confirmed", "planned", "quick", "form"}

\* A row without a usable currency stops its batch: one that was applied had
\* all its rows applied, but for those the admin was asked about and those whose
\* pack or unit has no price, which are only counted.
AppliedBatchIsWhole ==
    \A b \in Batches : status[b] = "applied" =>
        \A i \in DOMAIN fileRows[b] :
            ~fileRows[b][i].listed => Usable(fileRows[b][i].currency) /\ (fileRows[b][i].fits => fileRows[b][i].applied # 0)

=============================================================================
