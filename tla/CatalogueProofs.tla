--------------------------- MODULE CatalogueProofs ---------------------------
(***************************************************************************)
(* Proofs about the components that keep the catalogue's prices, rows and  *)
(* names, each for any values of its constants: FxPricing, CatalogDesk,    *)
(* PriceImport, ListingDraft, CatalogMatching and CatalogRelease, in that  *)
(* order.  Each has an inductive invariant, what its operators yield, a    *)
(* lemma for each action, and then the theorems of its specification.      *)
(***************************************************************************)
EXTENDS FxPricing, CatalogDesk, PriceImport, ListingDraft, CatalogMatching, CatalogRelease,
        FiniteSetTheorems, SequenceTheorems, WellFoundedInduction, TLAPS


\* The product of two positive amounts is a positive amount.
LEMMA ProductPositive ==
    ASSUME NEW a \in Nat \ {0}, NEW b \in Nat \ {0}
    PROVE  a * b \in Nat \ {0}
<1>1. a * b \in Nat
  OBVIOUS
<1>2. a * b >= a
  BY Z3T(20)
<1> QED BY <1>1, <1>2

\* What convert_to_uzs accepts fits the price column, and the monetary
\* columns computed from it make a row of the catalogue.
LEMMA PricedIsRow ==
    ASSUME NEW amount \in Amounts, NEW currency \in {"UZS", "USD"}, NEW fx \in Setting,
           Convertible(amount, currency, fx.rate)
    PROVE  Priced(amount, currency, fx) \in PricedRow
<1>1. CASE currency = "USD"
  <2>1. fx.rate \in Rates /\ fx.revision \in 0 .. MaxRevision
    BY <1>1 DEF Convertible, Setting, NoRate
  <2>2. amount * fx.rate \in Nat \ {0}
    <3>1. amount \in Nat \ {0} /\ fx.rate \in Nat \ {0}
      BY <2>1, FxAssumption DEF FxAssumption
    <3> QED BY <3>1, ProductPositive
  <2> QED BY <1>1, <2>1, <2>2, FxAssumption DEF FxAssumption, Convertible, ConvertToUzs, Priced, PricedRow
<1>2. CASE currency = "UZS"
  BY <1>2, FxAssumption DEF FxAssumption, Convertible, ConvertToUzs, Priced, PricedRow, Setting
<1> QED BY <1>1, <1>2

\* A column write leaves a row of the catalogue, whichever columns differ.
LEMMA DirtyWriteIsRow ==
    ASSUME NEW stored \in PricedRow, NEW loaded \in PricedRow, NEW new \in PricedRow
    PROVE  DirtyWrite(stored, loaded, new) \in PricedRow
BY DEF DirtyWrite, PricedRow

\* Repricing a dollar row leaves a dollar row of the same amount.
LEMMA RepriceIsRow ==
    ASSUME NEW row \in PricedRow, row.currency = "USD", NEW fx \in Setting, fx.rate \in Rates,
           Convertible(row.amount, "USD", fx.rate)
    PROVE  /\ Reprice(row, row.amount, fx) \in PricedRow
           /\ Reprice(row, row.amount, fx) =
                [currency |-> "USD", amount |-> row.amount, price |-> row.amount * fx.rate,
                 rate |-> fx.rate, revision |-> fx.revision]
<1>1. row.amount \in Amounts /\ fx.revision \in 0 .. MaxRevision
  BY DEF PricedRow, Setting
<1>2. row.amount * fx.rate \in Nat \ {0}
  <2>1. row.amount \in Nat \ {0} /\ fx.rate \in Nat \ {0}
    BY <1>1, FxAssumption DEF FxAssumption
  <2> QED BY <2>1, ProductPositive
<1>3. row.amount * fx.rate <= MaxPrice
  BY DEF Convertible, ConvertToUzs
<1>4. Reprice(row, row.amount, fx) =
        [currency |-> "USD", amount |-> row.amount, price |-> row.amount * fx.rate,
         rate |-> fx.rate, revision |-> fx.revision]
  BY DEF Reprice, ConvertToUzs
<1> QED BY <1>1, <1>2, <1>3, <1>4, FxAssumption DEF FxAssumption, PricedRow

\* A transaction record has the fields of its stage, and of no other.
LEMMA EditorStages ==
    ASSUME NEW tx \in EditorState
    PROVE  tx.stage \in {"loaded", "locked"} =>
                /\ tx.row \in Rows
                /\ tx.loaded \in PricedRow \cup {NoRow}
                /\ tx.snapshot \in Setting
                /\ tx # Idle
BY DEF EditorState, Idle

\* The same for the transaction of a publisher.
LEMMA PublisherStages ==
    ASSUME NEW tx \in PublisherState
    PROVE  /\ tx.stage \in {"form", "locked", "read"} => tx.expected \in 0 .. MaxRevision
           /\ tx.stage \in {"locked", "read"} => tx.rate \in Rates
           /\ tx.stage = "read" => tx.targets \in Prices
BY DEF PublisherState, Idle

\* The same for the transaction of a quoter.
LEMMA QuoterStages ==
    ASSUME NEW tx \in QuoterState
    PROVE  tx.stage = "reading" => tx.snapshot \in Setting /\ tx.seen \in Prices
BY DEF QuoterState, Idle

-----------------------------------------------------------------------------
\* Rows are never deleted: a row an editor found is still there when it is
\* written.  Without this a column write could hit a row that does not exist.
LoadedRowStays ==
    \A e \in Editors :
        editing[e].stage \in {"loaded", "locked"} /\ editing[e].loaded # NoRow =>
            rows[editing[e].row] # NoRow

TypeInv == TypeOK /\ LoadedRowStays

\* A priced row is not the absent one.
LEMMA RowIsPresent == NoRow \notin PricedRow
BY DEF NoRow, PricedRow

\* Taking a row from priced to priced keeps every row an editor has found.
LEMMA RowsStay ==
    ASSUME LoadedRowStays, NEW e \in Editors,
           \A d \in Editors \ {e} : editing'[d] = editing[d],
           editing'[e].stage = "idle",
           \A r \in Rows : rows[r] # NoRow => rows'[r] # NoRow,
           TypeOK
    PROVE  LoadedRowStays'
BY EditorStages DEF LoadedRowStays, TypeOK

\* A step of an editor keeps the types.
LEMMA EditType ==
    ASSUME TypeInv, NEW e \in Editors, EditStep(e)
    PROVE  TypeInv'
<1> USE DEF TypeOK, TypeInv
<1>1. ASSUME EndEdit(e)
      PROVE  /\ editing' \in [Editors -> EditorState]
             /\ editing'[e].stage = "idle"
             /\ \A d \in Editors \ {e} : editing'[d] = editing[d]
  BY <1>1 DEF EndEdit, EditorState, Idle
<1>2. ASSUME NEW r \in Rows, LoadRow(e, r)
      PROVE  TypeInv'
  <2>1. NoSetting \in Setting
    BY FxAssumption DEF FxAssumption, NoSetting, Setting
  <2>2. [stage |-> "loaded", row |-> r, loaded |-> rows[r], snapshot |-> NoSetting] \in EditorState
    BY <2>1 DEF EditorState
  <2>3. TypeOK'
    BY <1>2, <2>2 DEF LoadRow
  <2>4. LoadedRowStays'
    BY <1>2 DEF LoadRow, LoadedRowStays
  <2> QED BY <2>3, <2>4
<1>3. ASSUME LockRate(e)
      PROVE  TypeInv'
  <2>1. [stage |-> "locked", row |-> editing[e].row, loaded |-> editing[e].loaded,
         snapshot |-> setting] \in EditorState
    BY <1>3, EditorStages DEF LockRate, EditorState
  <2>2. TypeOK'
    BY <1>3, <2>1 DEF LockRate
  <2>3. LoadedRowStays'
    BY <1>3 DEF LockRate, LoadedRowStays
  <2> QED BY <2>2, <2>3
<1>4. ASSUME NEW amount \in Amounts, NEW currency \in {"UZS", "USD"}, SetPrice(e, amount, currency)
      PROVE  TypeInv'
  <2> DEFINE new == Priced(amount, currency, editing[e].snapshot)
  <2>1. /\ editing[e].row \in Rows
        /\ editing[e].loaded \in PricedRow
        /\ editing[e].snapshot \in Setting
    BY <1>4, EditorStages DEF SetPrice
  <2>2. new \in PricedRow
    BY <1>4, <2>1, PricedIsRow DEF SetPrice
  <2>3. rows[editing[e].row] \in PricedRow
    BY <1>4, <2>1 DEF SetPrice, LoadedRowStays
  <2>4. DirtyWrite(rows[editing[e].row], editing[e].loaded, new) \in PricedRow
    BY <2>1, <2>2, <2>3, DirtyWriteIsRow
  <2>5. rows' = [rows EXCEPT ![editing[e].row] =
                    DirtyWrite(rows[editing[e].row], editing[e].loaded, new)]
    BY <1>4 DEF SetPrice
  <2>6. TypeOK'
    BY <1>1, <1>4, <2>1, <2>4, <2>5 DEF SetPrice
  <2>7. \A r \in Rows : rows[r] # NoRow => rows'[r] # NoRow
    BY <2>1, <2>4, <2>5, RowIsPresent
  <2>8. LoadedRowStays'
    BY <1>1, <1>4, <2>7, RowsStay DEF SetPrice
  <2> QED BY <2>6, <2>8
<1>5. ASSUME NEW amount \in Amounts, NEW currency \in {"UZS", "USD"}, CreateRow(e, amount, currency)
      PROVE  TypeInv'
  <2>1. editing[e].row \in Rows /\ editing[e].snapshot \in Setting
    BY <1>5, EditorStages DEF CreateRow
  <2>2. Priced(amount, currency, editing[e].snapshot) \in PricedRow
    BY <1>5, <2>1, PricedIsRow DEF CreateRow
  <2>3. TypeOK'
    BY <1>1, <1>5, <2>1, <2>2 DEF CreateRow
  <2>4. \A r \in Rows : rows[r] # NoRow => rows'[r] # NoRow
    BY <1>5, <2>1 DEF CreateRow
  <2>5. LoadedRowStays'
    BY <1>1, <1>5, <2>4, RowsStay DEF CreateRow
  <2> QED BY <2>3, <2>5
<1>6. ASSUME AbandonEdit(e)
      PROVE  TypeInv'
  <2>1. TypeOK'
    BY <1>1, <1>6 DEF AbandonEdit
  <2>2. LoadedRowStays'
    BY <1>1, <1>6, RowsStay DEF AbandonEdit
  <2> QED BY <2>1, <2>2
<1> QED BY <1>2, <1>3, <1>4, <1>5, <1>6 DEF EditStep

\* So does a step of a publisher that writes nothing.
LEMMA PublishPageType ==
    ASSUME TypeInv, NEW p \in Publishers, PublishStep(p), ~PublishRate(p)
    PROVE  TypeInv'
<1> USE DEF TypeOK, TypeInv
<1>1. ASSUME OpenSettings(p)
      PROVE  TypeInv'
  <2>1. [stage |-> "form", expected |-> setting.revision] \in PublisherState
    BY DEF PublisherState, Setting
  <2> QED BY <1>1, <2>1 DEF OpenSettings, LoadedRowStays
<1>2. ASSUME NEW usd \in Rates, LockSetting(p, usd)
      PROVE  TypeInv'
  <2>1. [stage |-> "locked", expected |-> publishing[p].expected, rate |-> usd] \in PublisherState
    BY <1>2, PublisherStages DEF LockSetting, PublisherState
  <2> QED BY <1>2, <2>1 DEF LockSetting, LoadedRowStays
<1>3. ASSUME RefusePublish(p) \/ RefuseOutOfRange(p)
      PROVE  TypeInv'
  <2>1. Idle \in PublisherState
    BY DEF PublisherState
  <2> QED BY <1>3, <2>1 DEF RefusePublish, RefuseOutOfRange, LoadedRowStays
<1>4. ASSUME SelectUsdRows(p)
      PROVE  TypeInv'
  <2>1. \A r \in UsdRows : r \in Rows /\ rows[r] \in PricedRow
    BY DEF UsdRows, NoRow
  <2>2. [r \in UsdRows |-> rows[r]] \in Prices
    BY <2>1 DEF Prices
  <2>3. [stage |-> "read", expected |-> publishing[p].expected, rate |-> publishing[p].rate,
         targets |-> [r \in UsdRows |-> rows[r]]] \in PublisherState
    BY <1>4, <2>2, PublisherStages DEF SelectUsdRows, PublisherState
  <2> QED BY <1>4, <2>3 DEF SelectUsdRows, LoadedRowStays
<1> QED BY <1>1, <1>2, <1>3, <1>4 DEF PublishStep

-----------------------------------------------------------------------------
Locked(p) == publishing[p].stage \in {"locked", "read"}

\* What the lock on the setting buys: publishers exclude each other and every
\* sharer, so what one of them compared and selected still holds when it writes.
LockInv ==
    /\ \A p1, p2 \in Publishers : Locked(p1) /\ Locked(p2) => p1 = p2
    /\ ~(ExclusiveHeld /\ SharedHeld)
    /\ \A p \in Publishers : Locked(p) =>
            publishing[p].expected = setting.revision /\ setting.revision < MaxRevision
    /\ \A p \in Publishers : publishing[p].stage = "read" =>
            publishing[p].targets = [r \in UsdRows |-> rows[r]]
    /\ QuoteHoldsRate

IInv == TypeInv /\ LockInv

\* What PublishRate writes: dollar rows repriced at the new rate, the rest kept.
LEMMA PublishRateWrites ==
    ASSUME IInv, NEW p \in Publishers, PublishRate(p)
    PROVE  /\ setting' = [rate |-> publishing[p].rate, revision |-> setting.revision + 1]
           /\ setting' \in Setting
           /\ publishing[p].expected = setting.revision
           /\ rows' \in [Rows -> PricedRow \cup {NoRow}]
           /\ \A r \in Rows :
                /\ rows[r].currency = "USD" =>
                     /\ rows'[r] \in PricedRow
                     /\ rows'[r] = [currency |-> "USD", amount |-> rows[r].amount,
                                    price |-> rows[r].amount * setting'.rate,
                                    rate |-> setting'.rate, revision |-> setting'.revision]
                /\ rows[r].currency # "USD" => rows'[r] = rows[r]
<1> DEFINE tx == publishing[p]
           fx == [rate |-> tx.rate, revision |-> setting.revision + 1]
<1> USE DEF IInv, TypeInv, TypeOK, LockInv, Locked
<1>1. /\ tx.rate \in Rates
      /\ tx.expected = setting.revision
      /\ setting.revision < MaxRevision
      /\ setting.revision \in 0 .. MaxRevision
  BY PublisherStages DEF PublishRate, Setting
<1>2. fx \in Setting /\ fx.rate \in Rates
  BY <1>1, FxAssumption DEF FxAssumption, Setting
<1>3. setting' = fx
  BY DEF PublishRate
<1>4. tx.targets = [r \in UsdRows |-> rows[r]]
  BY DEF PublishRate
<1>5. ASSUME NEW r \in Rows, rows[r].currency = "USD"
      PROVE  /\ rows'[r] \in PricedRow
             /\ rows'[r] = [currency |-> "USD", amount |-> rows[r].amount,
                            price |-> rows[r].amount * fx.rate,
                            rate |-> fx.rate, revision |-> fx.revision]
  <2>1. rows[r] \in PricedRow
    BY <1>5 DEF NoRow
  <2>2. r \in DOMAIN tx.targets /\ tx.targets[r] = rows[r]
    BY <1>4, <1>5 DEF UsdRows
  <2>3. Convertible(rows[r].amount, "USD", fx.rate)
    BY <2>2 DEF PublishRate
  <2>4. rows'[r] = Reprice(rows[r], rows[r].amount, fx)
    BY <2>2 DEF PublishRate
  <2> QED BY <1>2, <1>5, <2>1, <2>3, <2>4, RepriceIsRow
<1>6. ASSUME NEW r \in Rows, rows[r].currency # "USD"
      PROVE  rows'[r] = rows[r]
  <2>1. r \notin DOMAIN tx.targets
    BY <1>4, <1>6 DEF UsdRows
  <2> QED BY <2>1 DEF PublishRate
<1>7. rows' \in [Rows -> PricedRow \cup {NoRow}]
  <2>1. \A r \in Rows : rows'[r] \in PricedRow \cup {NoRow}
    BY <1>5, <1>6
  <2>2. rows' = [r \in Rows |-> rows'[r]]
    BY DEF PublishRate
  <2> QED BY <2>1, <2>2
<1> QED BY <1>1, <1>2, <1>3, <1>5, <1>6, <1>7

\* So a publication keeps the types.
LEMMA PublishRateType ==
    ASSUME IInv, NEW p \in Publishers, PublishRate(p)
    PROVE  TypeInv'
<1> USE DEF IInv, TypeInv, TypeOK
<1>1. Idle \in PublisherState
  BY DEF PublisherState
<1>2. TypeOK'
  BY <1>1, PublishRateWrites DEF PublishRate
<1>3. \A r \in Rows : rows[r] # NoRow => rows'[r] # NoRow
  BY PublishRateWrites, RowIsPresent
<1>4. LoadedRowStays'
  BY <1>3, EditorStages DEF PublishRate, LoadedRowStays
<1> QED BY <1>2, <1>4

\* A quote keeps the types.
LEMMA QuoteType ==
    ASSUME TypeInv, NEW q \in Quoters, QuoteStep(q)
    PROVE  TypeInv'
<1> USE DEF TypeOK, TypeInv
<1>1. ASSUME LockForQuote(q)
      PROVE  TypeInv'
  <2>1. [r \in {} |-> NoRow] \in Prices
    <3>1. [r \in {} |-> NoRow] \in [{} -> PricedRow]
      OBVIOUS
    <3> QED BY <3>1 DEF Prices
  <2>2. [stage |-> "reading", snapshot |-> setting, seen |-> [r \in {} |-> NoRow]] \in QuoterState
    BY <2>1 DEF QuoterState
  <2> QED BY <1>1, <2>2 DEF LockForQuote, LoadedRowStays
<1>2. ASSUME NEW r \in Rows, ReadPrice(q, r)
      PROVE  TypeInv'
  <2> DEFINE seen == quoting[q].seen
             more == [s \in DOMAIN seen \cup {r} |-> IF s = r THEN rows[r] ELSE seen[s]]
  <2>1. quoting[q].snapshot \in Setting /\ seen \in Prices
    BY <1>2, QuoterStages DEF ReadPrice
  <2>2. PICK known \in SUBSET Rows : seen \in [known -> PricedRow]
    BY <2>1 DEF Prices
  <2>3. more \in [known \cup {r} -> PricedRow]
    BY <1>2, <2>2 DEF ReadPrice
  <2>4. more \in Prices
    <3> HIDE DEF more
    <3>1. known \cup {r} \in SUBSET Rows
      BY <2>2
    <3> QED BY <2>3, <3>1 DEF Prices
  <2>5. [stage |-> "reading", snapshot |-> quoting[q].snapshot, seen |-> more] \in QuoterState
    BY <2>1, <2>4 DEF QuoterState
  <2> QED BY <1>2, <2>5 DEF ReadPrice, LoadedRowStays
<1>3. ASSUME EndQuote(q)
      PROVE  TypeInv'
  <2>1. Idle \in QuoterState
    BY DEF QuoterState
  <2> QED BY <1>3, <2>1 DEF EndQuote, LoadedRowStays
<1> QED BY <1>1, <1>2, <1>3 DEF QuoteStep

-----------------------------------------------------------------------------
\* An editor writes only while no publisher holds the setting.
LEMMA EditLock ==
    ASSUME IInv, NEW e \in Editors, EditStep(e)
    PROVE  LockInv'
<1> USE DEF IInv, TypeInv, TypeOK, LockInv, Locked, QuoteHoldsRate
<1>1. UNCHANGED <<setting, publishing, quoting>>
  BY DEF EditStep, LoadRow, LockRate, SetPrice, CreateRow, AbandonEdit
<1>2. \/ UNCHANGED rows
      \/ SharedHeld
  BY DEF EditStep, LoadRow, LockRate, SetPrice, CreateRow, AbandonEdit, SharedHeld
<1>3. ASSUME NEW p \in Publishers, publishing[p].stage = "read"
      PROVE  publishing'[p].targets = [r \in UsdRows' |-> rows'[r]]
  <2>1. UNCHANGED rows
    BY <1>2, <1>3 DEF ExclusiveHeld
  <2> QED BY <1>1, <1>3, <2>1 DEF UsdRows
<1>4. SharedHeld' => SharedHeld \/ ~ExclusiveHeld
  <2>1. ASSUME SharedHeld', ~SharedHeld
        PROVE  LockRate(e)
    BY <1>1, <2>1 DEF EditStep, LoadRow, SetPrice, CreateRow, AbandonEdit, EndEdit, Idle,
                      SharedHeld
  <2> QED BY <2>1 DEF LockRate, MayShare
<1>5. ExclusiveHeld' <=> ExclusiveHeld
  BY <1>1 DEF ExclusiveHeld
<1> QED BY <1>1, <1>3, <1>4, <1>5

\* A publisher takes the setting only when nobody holds it, and writes it
\* only while it is the one holder.
LEMMA PublishLock ==
    ASSUME IInv, NEW p \in Publishers, PublishStep(p), TypeInv'
    PROVE  LockInv'
<1> USE DEF IInv, TypeInv, TypeOK, LockInv, Locked, QuoteHoldsRate
<1>1. /\ UNCHANGED <<editing, quoting>>
      /\ \A d \in Publishers \ {p} : publishing'[d] = publishing[d]
  BY DEF PublishStep, OpenSettings, LockSetting, RefusePublish, SelectUsdRows, PublishRate,
         RefuseOutOfRange
<1>2. SharedHeld' <=> SharedHeld
  BY <1>1 DEF SharedHeld
<1>3. ASSUME OpenSettings(p) \/ RefusePublish(p) \/ RefuseOutOfRange(p)
      PROVE  LockInv'
  <2>1. publishing'[p].stage \in {"idle", "form"} /\ UNCHANGED <<setting, rows>>
    BY <1>3 DEF OpenSettings, RefusePublish, RefuseOutOfRange, Idle
  <2> QED BY <1>1, <1>2, <2>1 DEF ExclusiveHeld, UsdRows
<1>4. ASSUME NEW usd \in Rates, LockSetting(p, usd)
      PROVE  LockInv'
  <2>1. /\ publishing'[p].stage = "locked"
        /\ publishing'[p].expected = setting.revision
        /\ setting.revision < MaxRevision
        /\ UNCHANGED <<setting, rows>>
        /\ ~ExclusiveHeld /\ ~SharedHeld
    BY <1>4 DEF LockSetting, MayExclude
  <2> QED BY <1>1, <1>2, <2>1 DEF ExclusiveHeld, UsdRows
<1>5. ASSUME SelectUsdRows(p)
      PROVE  LockInv'
  <2>1. /\ publishing[p].stage = "locked"
        /\ publishing'[p].stage = "read"
        /\ publishing'[p].expected = publishing[p].expected
        /\ publishing'[p].targets = [r \in UsdRows |-> rows[r]]
        /\ UNCHANGED <<setting, rows>>
    BY <1>5 DEF SelectUsdRows
  <2> QED BY <1>1, <1>2, <2>1 DEF ExclusiveHeld, UsdRows
<1>6. ASSUME PublishRate(p)
      PROVE  LockInv'
  <2>1. publishing[p].stage = "read" /\ publishing'[p].stage = "idle"
    BY <1>6 DEF PublishRate, Idle
  <2>2. \A d \in Publishers : ~Locked(d)'
    BY <1>1, <2>1
  <2>3. ~SharedHeld
    BY <2>1 DEF ExclusiveHeld
  <2> QED BY <1>1, <1>2, <2>2, <2>3 DEF ExclusiveHeld, SharedHeld
<1> QED BY <1>3, <1>4, <1>5, <1>6 DEF PublishStep

\* A quote takes the rate only while no publisher holds the setting.
LEMMA QuoteLock ==
    ASSUME IInv, NEW q \in Quoters, QuoteStep(q)
    PROVE  LockInv'
<1> USE DEF IInv, TypeInv, TypeOK, LockInv, Locked, QuoteHoldsRate
<1>1. /\ UNCHANGED <<setting, rows, editing, publishing>>
      /\ \A d \in Quoters \ {q} : quoting'[d] = quoting[d]
  BY DEF QuoteStep, LockForQuote, ReadPrice, EndQuote
<1>2. /\ quoting'[q].stage = "reading" => quoting'[q].snapshot = setting
      /\ SharedHeld' => SharedHeld \/ ~ExclusiveHeld
  <2>1. CASE LockForQuote(q)
    BY <1>1, <2>1 DEF LockForQuote, MayShare
  <2>2. CASE \E r \in Rows : ReadPrice(q, r)
    BY <1>1, <2>2 DEF ReadPrice, SharedHeld
  <2>3. CASE EndQuote(q)
    BY <1>1, <2>3 DEF EndQuote, SharedHeld, Idle
  <2> QED BY <2>1, <2>2, <2>3 DEF QuoteStep
<1>3. ExclusiveHeld' <=> ExclusiveHeld
  BY <1>1 DEF ExclusiveHeld
<1>4. UsdRows' = UsdRows
  BY <1>1 DEF UsdRows
<1> QED BY <1>1, <1>2, <1>3, <1>4

-----------------------------------------------------------------------------
\* The invariant holds at the start and every step keeps it.
THEOREM Invariance == Spec => []IInv
<1>1. Init => IInv
  <2> SUFFICES ASSUME Init PROVE IInv
    OBVIOUS
  <2>1. NoSetting \in Setting
    BY FxAssumption DEF FxAssumption, NoSetting, Setting
  <2>2. TypeOK
    BY <2>1 DEF Init, TypeOK, EditorState, PublisherState, QuoterState
  <2>3. LoadedRowStays /\ LockInv
    BY DEF Init, Idle, LoadedRowStays, LockInv, Locked, QuoteHoldsRate, ExclusiveHeld, SharedHeld
  <2> QED BY <2>2, <2>3 DEF IInv, TypeInv
<1>2. IInv /\ [Next]_vars => IInv'
  <2> SUFFICES ASSUME IInv, [Next]_vars PROVE IInv'
    OBVIOUS
  <2>1. ASSUME NEW e \in Editors, EditStep(e)
        PROVE  IInv'
    BY <2>1, EditType, EditLock DEF IInv
  <2>2. ASSUME NEW p \in Publishers, PublishStep(p)
        PROVE  IInv'
    <3>1. TypeInv'
      BY <2>2, PublishPageType, PublishRateType DEF IInv
    <3> QED BY <2>2, <3>1, PublishLock DEF IInv
  <2>3. ASSUME NEW q \in Quoters, QuoteStep(q)
        PROVE  IInv'
    BY <2>3, QuoteType, QuoteLock DEF IInv
  <2>4. ASSUME UNCHANGED vars
        PROVE  IInv'
    BY <2>4 DEF vars, IInv, TypeInv, TypeOK, LoadedRowStays, LockInv, Locked, QuoteHoldsRate,
                ExclusiveHeld, SharedHeld, UsdRows
  <2> QED BY <2>1, <2>2, <2>3, <2>4 DEF Next
<1> QED BY <1>1, <1>2, PTL DEF Spec

\* Every variable keeps its type: a column write never makes a row of a shape,
\* or of a price, the columns do not hold.
THEOREM TypeCorrect == Spec => []TypeOK
<1>1. IInv => TypeOK
  BY DEF IInv, TypeInv
<1> QED BY <1>1, Invariance, PTL

\* No publication lands inside a quote, however many rows it reads.
THEOREM QuotesHoldOneRate == Spec => []QuoteHoldsRate
<1>1. IInv => QuoteHoldsRate
  BY DEF IInv, LockInv
<1> QED BY <1>1, Invariance, PTL

\* Who changes the setting, and what changes with it.
LEMMA SettingChanges ==
    ASSUME IInv, [Next]_vars, setting' # setting
    PROVE  \E p \in Publishers : publishing[p].stage = "read" /\ PublishRate(p)
<1>1. ASSUME NEW e \in Editors, EditStep(e)
      PROVE  FALSE
  BY <1>1 DEF EditStep, LoadRow, LockRate, SetPrice, CreateRow, AbandonEdit
<1>2. ASSUME NEW q \in Quoters, QuoteStep(q)
      PROVE  FALSE
  BY <1>2 DEF QuoteStep, LockForQuote, ReadPrice, EndQuote
<1>3. PICK p \in Publishers : PublishStep(p)
  BY <1>1, <1>2 DEF Next, vars
<1> QED BY <1>3 DEF PublishStep, OpenSettings, LockSetting, RefusePublish, SelectUsdRows,
                    PublishRate, RefuseOutOfRange

\* A publication reprices every dollar row and nothing else, in one step.
THEOREM PublicationsAreWhole == Spec => RepricedTogether
<1>1. IInv /\ [Next]_vars =>
        (setting' # setting =>
            \A r \in Rows :
                IF rows[r].currency = "USD"
                THEN rows'[r] = [currency |-> "USD", amount |-> rows[r].amount,
                                 price |-> rows[r].amount * setting'.rate,
                                 rate |-> setting'.rate, revision |-> setting'.revision]
                ELSE rows'[r] = rows[r])
  BY SettingChanges, PublishRateWrites
<1> QED BY <1>1, Invariance, PTL DEF Spec, RepricedTogether

\* A rate replaces only the rate its administrator was shown.
THEOREM NoPublicationIsBlind == Spec => NoBlindPublish
<1>1. IInv /\ [Next]_vars =>
        (setting' # setting =>
            \E p \in Publishers :
                /\ publishing[p].stage = "read"
                /\ publishing[p].expected = setting.revision
                /\ setting'.revision = setting.revision + 1)
  BY SettingChanges, PublishRateWrites
<1> QED BY <1>1, Invariance, PTL DEF Spec, NoBlindPublish

-----------------------------------------------------------------------------
(***************************************************************************)
(* CatalogDesk.  The forms of products are checked against rows that       *)
(* others may change before they are written, so nothing a form has        *)
(* checked is worth anything by then; what is left is the unique slug.  It *)
(* keeps variants apart as long as it names the variant of its product,    *)
(* which it does unless the last edit of the product crossed another.      *)
(***************************************************************************)
ProductRow == [name : Names, unit : Units, slug : {Imported} \cup (Names \X Units)]

BasePrices == [unit : Units \cup {NoUnit}, base : Units \cup {NoUnit}]
OfferRow == [product : Nat, unit : Units \cup {NoUnit}, price : BasePrices]

RequestRow ==
  [kind : {"idle"}]
    \cup [kind : {"edit"}, product : Nat, row : ProductRow, form : Forms]
    \cup [kind : {"create"}, name : Names, unit : Units, packs : SUBSET Units]
    \cup [kind : {"offer"}, product : Nat, unit : Units, base : Units]
    \cup [kind : {"price"}, offer : Nat, price : BasePrices]
    \cup [kind : {"quick"}, product : Nat]

\* Rows are numbered from 1.
DeskTypeOK ==
  /\ \E n \in Nat : products \in [1 .. n -> ProductRow]
  /\ \E n \in Nat : offers \in [1 .. n -> OfferRow]
  /\ requests \in [Admins -> RequestRow]
  /\ lock \in Admins \cup {Nobody}
  /\ crossed \subseteq Products

\* An offer is of a product that is there, and a request about rows that are.
RowsAreThere ==
  /\ \A o \in Offers : offers[o].product \in Products
  /\ \A a \in Admins :
       /\ requests[a].kind \in {"edit", "offer", "quick"} => requests[a].product \in Products
       /\ requests[a].kind = "price" => requests[a].offer \in Offers

\* A slug names the variant of its product, unless the product was imported or
\* its last edit crossed another.
SlugsName ==
  \A p \in Products \ crossed :
    products[p].slug # Imported =>
      products[p].slug = Identity(products[p].name, products[p].unit)

SlugsUnique ==
  \A p, q \in Products :
    p # q /\ products[p].slug # Imported => products[p].slug # products[q].slug

\* The inductive invariant.
DeskIInv ==
  /\ DeskTypeOK
  /\ RowsAreThere
  /\ SlugsName
  /\ SlugsUnique

-----------------------------------------------------------------------------
\* The rows of a table, and the number the next one gets.
LEMMA Numbered ==
  ASSUME NEW S, NEW n \in Nat, NEW table \in [1 .. n -> S]
  PROVE  /\ DOMAIN table = 1 .. n
         /\ Cardinality(DOMAIN table) = n
         /\ n + 1 \notin DOMAIN table
         /\ \A p \in DOMAIN table : table[p] \in S
<1>1. DOMAIN table = 1 .. n
  OBVIOUS
<1>2. Cardinality(1 .. n) = n
  BY FS_Interval
<1> QED
  BY <1>1, <1>2

LEMMA Inserted ==
  ASSUME NEW S, NEW n \in Nat, NEW table \in [1 .. n -> S], NEW row \in S
  PROVE  Insert(table, n + 1, row) \in [1 .. n + 1 -> S]
<1>1. DOMAIN table \cup {n + 1} = 1 .. n + 1
  OBVIOUS
<1>2. \A p \in DOMAIN table : table[p] \in S
  OBVIOUS
<1> QED
  BY <1>1, <1>2 DEF Insert

\* What each kind of request carries.
LEMMA RequestCarries ==
  ASSUME DeskTypeOK, NEW a \in Admins
  PROVE  /\ requests[a].kind = "edit" =>
              requests[a].row \in ProductRow /\ requests[a].form \in Forms
         /\ requests[a].kind = "create" =>
              /\ requests[a].name \in Names
              /\ requests[a].unit \in Units
              /\ requests[a].packs \subseteq Units
         /\ requests[a].kind = "offer" =>
              requests[a].unit \in Units /\ requests[a].base \in Units
         /\ requests[a].kind = "price" => requests[a].price \in BasePrices
<1>1. requests[a] \in RequestRow
  BY DEF DeskTypeOK
<1> QED
  BY <1>1 DEF RequestRow

\* Requests go on, or end.
RequestsEnd ==
  /\ requests' \in [Admins -> RequestRow]
  /\ \A b \in Admins : requests'[b] = requests[b] \/ requests'[b].kind = "idle"

LEMMA Ended ==
  ASSUME DeskTypeOK, NEW a \in Admins, Done(a)
  PROVE  RequestsEnd
<1>1. AtRest \in RequestRow /\ AtRest.kind = "idle"
  BY DEF AtRest, RequestRow
<1> QED
  BY <1>1 DEF DeskTypeOK, Done, Busy, RequestsEnd

\* A request that has read its rows, and changed none.
LEMMA Reads ==
  ASSUME DeskIInv, NEW a \in Admins, NEW request \in RequestRow, Busy(a, request),
         request.kind \in {"edit", "offer", "quick"} => request.product \in Products,
         request.kind = "price" => request.offer \in Offers,
         UNCHANGED <<products, offers, crossed>>, lock' \in Admins \cup {Nobody}
  PROVE  DeskIInv'
<1>1. requests' = [requests EXCEPT ![a] = request] /\ requests \in [Admins -> RequestRow]
  BY DEF DeskIInv, DeskTypeOK, Busy
<1>2. DeskTypeOK'
  BY <1>1 DEF DeskIInv, DeskTypeOK, Products
<1>3. RowsAreThere'
  BY <1>1 DEF DeskIInv, RowsAreThere, Products, Offers
<1>4. SlugsName' /\ SlugsUnique'
  BY DEF DeskIInv, SlugsName, SlugsUnique, Products
<1> QED
  BY <1>2, <1>3, <1>4 DEF DeskIInv

\* A step that writes offers only.
LEMMA OffersChange ==
  ASSUME DeskIInv, RequestsEnd, UNCHANGED <<products, crossed>>, lock' \in Admins \cup {Nobody},
         \E n \in Nat : offers' \in [1 .. n -> OfferRow],
         Offers \subseteq Offers', \A o \in Offers' : offers'[o].product \in Products
  PROVE  DeskIInv'
<1>1. DeskTypeOK'
  BY DEF DeskIInv, DeskTypeOK, RequestsEnd, Products
<1>2. RowsAreThere'
  BY DEF DeskIInv, RowsAreThere, RequestsEnd, Products
<1>3. SlugsName' /\ SlugsUnique'
  BY DEF DeskIInv, SlugsName, SlugsUnique, Products
<1> QED
  BY <1>1, <1>2, <1>3 DEF DeskIInv

\* An offer that is filed, of a product that is there by then.
LEMMA OfferFiled ==
  ASSUME DeskTypeOK, RowsAreThere, NEW P, Products \subseteq P,
         NEW offer \in OfferRow, offer.product \in P,
         offers' = Insert(offers, Cardinality(Offers) + 1, offer)
  PROVE  /\ \E n \in Nat : offers' \in [1 .. n -> OfferRow]
         /\ Offers \subseteq Offers'
         /\ \A o \in Offers' : offers'[o].product \in P
<1>1. PICK n \in Nat : offers \in [1 .. n -> OfferRow]
  BY DEF DeskTypeOK
<1>2. Cardinality(Offers) = n /\ n + 1 \notin Offers
  BY <1>1, Numbered DEF Offers
<1>3. offers' \in [1 .. n + 1 -> OfferRow]
  BY <1>1, <1>2, Inserted DEF Offers
<1>4. Offers' = Offers \cup {n + 1}
  BY <1>2 DEF Offers, Insert
<1>5. \A o \in Offers' : offers'[o].product \in P
  BY <1>2, <1>4 DEF RowsAreThere, Insert, Offers
<1>6. \E m \in Nat : offers' \in [1 .. m -> OfferRow]
  <2>1. n + 1 \in Nat
    OBVIOUS
  <2> QED
    BY <1>3, <2>1
<1> QED
  BY <1>4, <1>5, <1>6

\* An offer that is written over, but for its product.
LEMMA OfferWritten ==
  ASSUME DeskTypeOK, RowsAreThere, NEW o \in Offers, NEW offer \in OfferRow,
         offer.product = offers[o].product, offers' = [offers EXCEPT ![o] = offer]
  PROVE  /\ \E n \in Nat : offers' \in [1 .. n -> OfferRow]
         /\ Offers \subseteq Offers'
         /\ \A other \in Offers' : offers'[other].product \in Products
<1>1. PICK n \in Nat : offers \in [1 .. n -> OfferRow]
  BY DEF DeskTypeOK
<1>2. offers' \in [1 .. n -> OfferRow] /\ Offers' = Offers
  BY <1>1 DEF Offers
<1> QED
  BY <1>1, <1>2 DEF RowsAreThere, Offers

\* What the products are, as numbers and rows.
LEMMA ProductsAre ==
  ASSUME DeskTypeOK
  PROVE  /\ Products \subseteq Nat
         /\ \A p \in Products : products[p] \in ProductRow
<1>1. PICK n \in Nat : products \in [1 .. n -> ProductRow]
  BY DEF DeskTypeOK
<1> QED
  BY <1>1 DEF Products

LEMMA OffersAre ==
  ASSUME DeskTypeOK
  PROVE  /\ Offers \subseteq Nat
         /\ \A o \in Offers : offers[o] \in OfferRow
<1>1. PICK n \in Nat : offers \in [1 .. n -> OfferRow]
  BY DEF DeskTypeOK
<1> QED
  BY <1>1 DEF Offers

-----------------------------------------------------------------------------
\* The steps that read.
LEMMA EditsRead ==
  ASSUME DeskIInv, NEW a \in Admins, NEW p \in Products, NEW form \in Forms, EditReads(a, p, form)
  PROVE  DeskIInv'
<1>1. p \in Nat /\ products[p] \in ProductRow
  BY ProductsAre DEF DeskIInv
<1> DEFINE request == [kind |-> "edit", product |-> p, row |-> products[p], form |-> form]
<1>2. request \in RequestRow /\ request.kind = "edit" /\ request.product = p
  BY <1>1 DEF RequestRow
<1>3. Busy(a, request) /\ UNCHANGED <<products, offers, crossed>> /\ lock' = lock
  BY DEF EditReads
<1>4. lock \in Admins \cup {Nobody}
  BY DEF DeskIInv, DeskTypeOK
<1> HIDE DEF request
<1> QED
  BY <1>2, <1>3, <1>4, Reads

LEMMA CreatesRead ==
  ASSUME DeskIInv, NEW a \in Admins, NEW name \in Names, NEW unit \in Units,
         NEW packs \in FirstPacks, CreateReads(a, name, unit, packs)
  PROVE  DeskIInv'
<1> DEFINE request == [kind |-> "create", name |-> name, unit |-> unit, packs |-> packs]
<1>1. request \in RequestRow /\ request.kind = "create"
  BY DEF RequestRow, FirstPacks
<1>2. Busy(a, request) /\ UNCHANGED <<products, offers, crossed>> /\ lock' = a
  BY DEF CreateReads
<1> HIDE DEF request
<1> QED
  BY <1>1, <1>2, Reads

LEMMA OffersRead ==
  ASSUME DeskIInv, NEW a \in Admins, NEW p \in Products, NEW unit \in Units, OfferReads(a, p, unit)
  PROVE  DeskIInv'
<1>1. p \in Nat /\ products[p].unit \in Units
  BY ProductsAre DEF DeskIInv, ProductRow
<1> DEFINE request == [kind |-> "offer", product |-> p, unit |-> unit,
                       base |-> products[p].unit]
<1>2. request \in RequestRow /\ request.kind = "offer" /\ request.product = p
  BY <1>1 DEF RequestRow
<1>3. Busy(a, request) /\ UNCHANGED <<products, offers, crossed>> /\ lock' = lock
  BY DEF OfferReads
<1>4. lock \in Admins \cup {Nobody}
  BY DEF DeskIInv, DeskTypeOK
<1> HIDE DEF request
<1> QED
  BY <1>2, <1>3, <1>4, Reads

LEMMA PricesRead ==
  ASSUME DeskIInv, NEW a \in Admins, NEW o \in Offers, NEW knows \in BOOLEAN,
         PriceReads(a, o, knows)
  PROVE  DeskIInv'
<1>1. /\ o \in Nat /\ offers[o] \in OfferRow
      /\ offers[o].product \in Products
  BY OffersAre DEF DeskIInv, RowsAreThere
<1>2. products[offers[o].product].unit \in Units
  BY <1>1, ProductsAre DEF DeskIInv, ProductRow
<1> DEFINE unit == offers[o].unit
           price == IF knows /\ unit # NoUnit
                      THEN PerBase(unit, products[offers[o].product].unit)
                      ELSE Divided(unit)
           request == [kind |-> "price", offer |-> o, price |-> price]
<1>3. price \in BasePrices
  BY <1>1, <1>2 DEF OfferRow, BasePrices, PerBase, Divided
<1>4. Busy(a, request) /\ UNCHANGED <<products, offers, crossed>> /\ lock' = lock
  BY DEF PriceReads
<1> HIDE DEF price
<1>5. request \in RequestRow /\ request.kind = "price" /\ request.offer = o
  BY <1>1, <1>3 DEF RequestRow
<1>6. lock \in Admins \cup {Nobody}
  BY DEF DeskIInv, DeskTypeOK
<1> HIDE DEF request
<1> QED
  BY <1>4, <1>5, <1>6, Reads

LEMMA QuicksRead ==
  ASSUME DeskIInv, NEW a \in Admins, NEW p \in Products, QuickReads(a, p)
  PROVE  DeskIInv'
<1>1. p \in Nat
  BY ProductsAre DEF DeskIInv
<1> DEFINE request == [kind |-> "quick", product |-> p]
<1>2. request \in RequestRow /\ request.kind = "quick" /\ request.product = p
  BY <1>1 DEF RequestRow
<1>3. Busy(a, request) /\ UNCHANGED <<products, offers, crossed>> /\ lock' = lock
  BY DEF QuickReads
<1>4. lock \in Admins \cup {Nobody}
  BY DEF DeskIInv, DeskTypeOK
<1> HIDE DEF request
<1> QED
  BY <1>2, <1>3, <1>4, Reads

-----------------------------------------------------------------------------
\* The steps that write offers.
LEMMA OffersWrite ==
  ASSUME DeskIInv, NEW a \in Admins, OfferWrites(a)
  PROVE  DeskIInv'
<1>1. RequestsEnd /\ UNCHANGED <<products, crossed>> /\ lock' \in Admins \cup {Nobody}
  BY Ended DEF DeskIInv, DeskTypeOK, OfferWrites
<1> DEFINE request == requests[a]
           p == request.product
           same == {o \in OffersOf(p) : offers[o].unit = request.unit}
           new == NewOffer(p, request.unit, request.base)
<1>2. p \in Products /\ p \in Nat
  BY ProductsAre DEF DeskIInv, RowsAreThere, OfferWrites
<1>3. new \in OfferRow /\ new.product = p /\ new.price \in BasePrices
  BY <1>2, RequestCarries DEF DeskIInv, OfferWrites, NewOffer, PerBase, OfferRow, BasePrices
<1>4. CASE offers' = offers
  <2>1. /\ \E n \in Nat : offers' \in [1 .. n -> OfferRow]
        /\ Offers \subseteq Offers'
        /\ \A o \in Offers' : offers'[o].product \in Products
    BY <1>4 DEF DeskIInv, DeskTypeOK, RowsAreThere, Offers
  <2> QED
    BY <1>1, <2>1, OffersChange
<1>5. ASSUME NEW o \in same, offers' = [offers EXCEPT ![o].price = new.price]
      PROVE  DeskIInv'
  <2>1. o \in Offers /\ offers[o] \in OfferRow
    BY OffersAre DEF DeskIInv, OffersOf
  <2> DEFINE offer == [offers[o] EXCEPT !.price = new.price]
  <2>2. offer \in OfferRow /\ offer.product = offers[o].product
    BY <1>3, <2>1 DEF OfferRow
  <2>3. offers' = [offers EXCEPT ![o] = offer]
    BY <1>5, <2>1 DEF DeskIInv, DeskTypeOK, Offers
  <2> HIDE DEF offer, new, same
  <2> QED
    BY <1>1, <2>1, <2>2, <2>3, OfferWritten, OffersChange DEF DeskIInv
<1>6. CASE offers' = Insert(offers, Cardinality(Offers) + 1, new)
  <2> HIDE DEF new
  <2>1. /\ \E n \in Nat : offers' \in [1 .. n -> OfferRow]
        /\ Offers \subseteq Offers'
        /\ \A o \in Offers' : offers'[o].product \in Products
    BY <1>2, <1>3, <1>6, OfferFiled DEF DeskIInv
  <2> QED
    BY <1>1, <2>1, OffersChange
<1> QED
  BY <1>4, <1>5, <1>6 DEF OfferWrites

LEMMA OffersEdited ==
  ASSUME DeskIInv, NEW o \in Offers, NEW unit \in Units, EditOffer(o, unit)
  PROVE  DeskIInv'
<1>1. RequestsEnd /\ UNCHANGED <<products, crossed>> /\ lock' \in Admins \cup {Nobody}
  BY DEF DeskIInv, DeskTypeOK, EditOffer, RequestsEnd
<1>2. offers[o] \in OfferRow /\ offers[o].product \in Products
  BY OffersAre DEF DeskIInv, RowsAreThere
<1>3. products[offers[o].product].unit \in Units
  BY <1>2, ProductsAre DEF DeskIInv, ProductRow
<1>4. PICK repriced \in BOOLEAN :
        offers' = [offers EXCEPT ![o].unit = unit,
          ![o].price = IF repriced THEN PerBase(unit, products[offers[o].product].unit) ELSE @]
  BY DEF EditOffer
<1> DEFINE price == IF repriced THEN PerBase(unit, products[offers[o].product].unit)
                      ELSE offers[o].price
           offer == [offers[o] EXCEPT !.unit = unit, !.price = price]
<1>5. price \in BasePrices
  BY <1>2, <1>3 DEF OfferRow, BasePrices, PerBase
<1>6. offers' = [offers EXCEPT ![o] = offer]
  BY <1>2, <1>4 DEF DeskIInv, DeskTypeOK, Offers
<1> HIDE DEF price
<1>7. offer \in OfferRow /\ offer.product = offers[o].product
  BY <1>2, <1>5 DEF OfferRow
<1> HIDE DEF offer
<1> QED
  BY <1>1, <1>6, <1>7, OfferWritten, OffersChange DEF DeskIInv

LEMMA PricesWrite ==
  ASSUME DeskIInv, NEW a \in Admins, PriceWrites(a)
  PROVE  DeskIInv'
<1>1. RequestsEnd /\ UNCHANGED <<products, crossed>> /\ lock' \in Admins \cup {Nobody}
  BY Ended DEF DeskIInv, DeskTypeOK, PriceWrites
<1> DEFINE o == requests[a].offer
           offer == [offers[o] EXCEPT !.price = requests[a].price]
<1>2. o \in Offers /\ requests[a].price \in BasePrices
  BY RequestCarries DEF DeskIInv, RowsAreThere, PriceWrites
<1>3. offers[o] \in OfferRow
  BY <1>2, OffersAre DEF DeskIInv
<1>4. offer \in OfferRow /\ offer.product = offers[o].product
  BY <1>2, <1>3 DEF OfferRow
<1>5. offers' = [offers EXCEPT ![o] = offer]
  BY <1>2 DEF PriceWrites, DeskIInv, DeskTypeOK, Offers
<1> HIDE DEF o, offer
<1> QED
  BY <1>1, <1>2, <1>4, <1>5, OfferWritten, OffersChange DEF DeskIInv

LEMMA QuicksWrite ==
  ASSUME DeskIInv, NEW a \in Admins, QuickWrites(a)
  PROVE  DeskIInv'
<1>1. RequestsEnd /\ UNCHANGED <<products, crossed>> /\ lock' \in Admins \cup {Nobody}
  BY Ended DEF DeskIInv, DeskTypeOK, QuickWrites
<1> DEFINE offer == [product |-> requests[a].product, unit |-> NoUnit, price |-> Divided(NoUnit)]
<1>2. requests[a].product \in Products /\ requests[a].product \in Nat
  BY ProductsAre DEF DeskIInv, RowsAreThere, QuickWrites
<1>3. offer \in OfferRow /\ offer.product \in Products
  BY <1>2 DEF OfferRow, BasePrices, Divided, PerBase
<1>4. offers' = Insert(offers, Cardinality(Offers) + 1, offer)
  BY DEF QuickWrites
<1> HIDE DEF offer
<1>5. /\ \E n \in Nat : offers' \in [1 .. n -> OfferRow]
      /\ Offers \subseteq Offers'
      /\ \A o \in Offers' : offers'[o].product \in Products
  BY <1>3, <1>4, OfferFiled DEF DeskIInv
<1> QED
  BY <1>1, <1>5, OffersChange

-----------------------------------------------------------------------------
\* The steps that write products.
LEMMA EditsWrite ==
  ASSUME DeskIInv, NEW a \in Admins, EditWrites(a)
  PROVE  DeskIInv'
<1>1. RequestsEnd /\ UNCHANGED <<offers, lock>>
  BY Ended DEF DeskIInv, EditWrites
<1> DEFINE p == requests[a].product
           read == requests[a].row
           form == requests[a].form
           new == Merged(products[p], Changes(read, form))
<1>2. p \in Products /\ read \in ProductRow /\ form \in Forms
  BY RequestCarries DEF DeskIInv, RowsAreThere, EditWrites
<1>3. products[p] \in ProductRow
  BY <1>2, ProductsAre DEF DeskIInv
<1>4. SlugAfter(read, form) \in {Imported} \cup (Names \X Units)
  BY <1>2 DEF SlugAfter, Identity, Forms
<1>5. /\ new = [name |-> new.name, unit |-> new.unit, slug |-> new.slug]
      /\ new.name = IF form.name # read.name THEN form.name ELSE products[p].name
      /\ new.unit = IF form.unit # read.unit THEN form.unit ELSE products[p].unit
      /\ new.slug = IF SlugAfter(read, form) # read.slug THEN SlugAfter(read, form)
                                                         ELSE products[p].slug
  <2>1. DOMAIN products[p] = {"name", "unit", "slug"}
    BY <1>3 DEF ProductRow
  <2> DEFINE written == [name |-> form.name, unit |-> form.unit,
                         slug |-> SlugAfter(read, form)]
             columns == {c \in {"name", "unit", "slug"} : written[c] # read[c]}
  <2>2. DOMAIN written = {"name", "unit", "slug"}
    OBVIOUS
  <2>3. Changes(read, form) = [c \in columns |-> written[c]]
    BY <2>2 DEF Changes
  <2> HIDE DEF columns
  <2>4. new = [c \in {"name", "unit", "slug"} |->
                IF c \in columns THEN written[c] ELSE products[p][c]]
    BY <2>1, <2>3 DEF Merged
  <2> QED
    BY <2>4 DEF columns
<1>6. new \in ProductRow
  BY <1>2, <1>3, <1>4, <1>5 DEF ProductRow, Forms
\* An edit that crossed no other writes the variant of its form.
<1>7. ASSUME Variant(products[p]) = Variant(read), new.slug # Imported
      PROVE  new.slug = Identity(new.name, new.unit)
  <2>1. new.name = form.name /\ new.unit = form.unit /\ new.slug = SlugAfter(read, form)
    BY <1>5, <1>7 DEF Variant
  <2> QED
    BY <1>7, <2>1 DEF SlugAfter
<1>8. CASE SlugFree(new.slug, {p})
  <2>1. /\ products' = [products EXCEPT ![p] = new]
        /\ crossed' = IF Variant(products[p]) # Variant(read)
                        THEN crossed \cup {p} ELSE crossed \ {p}
    BY <1>8 DEF EditWrites
  <2> HIDE DEF new, read, form, p
  <2>2. PICK n \in Nat : products \in [1 .. n -> ProductRow]
    BY DEF DeskIInv, DeskTypeOK
  <2>3. /\ products' \in [1 .. n -> ProductRow] /\ Products' = Products
        /\ products'[p] = new
        /\ \A q \in Products \ {p} : products'[q] = products[q]
    BY <1>2, <1>6, <2>1, <2>2 DEF Products
  <2>4. DeskTypeOK'
    BY <1>1, <1>2, <2>1, <2>3 DEF DeskIInv, DeskTypeOK, RequestsEnd
  <2>5. RowsAreThere'
    BY <1>1, <2>3 DEF DeskIInv, RowsAreThere, RequestsEnd, Offers
  <2>6. SlugsName'
    <3> SUFFICES ASSUME NEW q \in Products \ crossed', products'[q].slug # Imported
                 PROVE  products'[q].slug = Identity(products'[q].name, products'[q].unit)
      BY <2>3 DEF SlugsName
    <3>1. CASE q = p
      BY <1>7, <2>1, <2>3, <3>1
    <3>2. CASE q # p
      BY <2>1, <2>3, <3>2 DEF DeskIInv, SlugsName
    <3> QED
      BY <3>1, <3>2
  <2>7. SlugsUnique'
    BY <1>8, <2>3 DEF DeskIInv, SlugsUnique, SlugFree
  <2> QED
    BY <2>4, <2>5, <2>6, <2>7 DEF DeskIInv
<1>9. CASE ~SlugFree(new.slug, {p})
  <2>1. UNCHANGED <<products, crossed>>
    BY <1>9 DEF EditWrites
  <2>2. DeskTypeOK'
    BY <1>1, <2>1 DEF DeskIInv, DeskTypeOK, RequestsEnd, Products
  <2>3. RowsAreThere'
    BY <1>1, <2>1 DEF DeskIInv, RowsAreThere, RequestsEnd, Products, Offers
  <2>4. SlugsName' /\ SlugsUnique'
    BY <2>1 DEF DeskIInv, SlugsName, SlugsUnique, Products
  <2> QED
    BY <2>2, <2>3, <2>4 DEF DeskIInv
<1> QED
  BY <1>8, <1>9

LEMMA CreatesWrite ==
  ASSUME DeskIInv, NEW a \in Admins, CreateWrites(a)
  PROVE  DeskIInv'
<1>1. RequestsEnd /\ lock' = Nobody /\ crossed' = crossed
  BY Ended DEF DeskIInv, CreateWrites
<1> DEFINE form == requests[a]
           slug == Identity(form.name, form.unit)
           p == Cardinality(Products) + 1
           row == [name |-> form.name, unit |-> form.unit, slug |-> slug]
<1>2. form.name \in Names /\ form.unit \in Units /\ form.packs \subseteq Units
  BY RequestCarries DEF DeskIInv, CreateWrites
<1>3. row \in ProductRow
  BY <1>2 DEF ProductRow, Identity
<1>4. PICK n \in Nat : products \in [1 .. n -> ProductRow]
  BY DEF DeskIInv, DeskTypeOK
<1>5. p = n + 1 /\ p \notin Products
  BY <1>4, Numbered DEF Products
<1>6. \A pack \in form.packs :
        NewOffer(p, pack, form.unit) \in OfferRow /\ NewOffer(p, pack, form.unit).product = p
  BY <1>2, <1>5 DEF OfferRow, NewOffer, PerBase, BasePrices
<1>7. CASE UNCHANGED <<products, offers>>
  <2>1. UNCHANGED <<products, offers>>
    BY <1>7
  <2>2. DeskTypeOK'
    BY <1>1, <2>1 DEF DeskIInv, DeskTypeOK, RequestsEnd, Products
  <2>3. RowsAreThere'
    BY <1>1, <2>1 DEF DeskIInv, RowsAreThere, RequestsEnd, Products, Offers
  <2>4. SlugsName' /\ SlugsUnique'
    BY <1>1, <2>1 DEF DeskIInv, SlugsName, SlugsUnique, Products
  <2> QED
    BY <2>2, <2>3, <2>4 DEF DeskIInv
<1>8. ASSUME SlugFree(slug, {}), products' = Insert(products, p, row),
             \/ offers' = offers
             \/ \E pack \in form.packs :
                  offers' = Insert(offers, Cardinality(Offers) + 1, NewOffer(p, pack, form.unit))
      PROVE  DeskIInv'
  <2>1. products' = Insert(products, n + 1, row)
    BY <1>5, <1>8
  <2> HIDE DEF row
  <2>4. products' \in [1 .. n + 1 -> ProductRow]
    BY <1>3, <1>4, <2>1, Inserted
  <2>5. /\ Products' = Products \cup {p}
        /\ products'[p] = row
        /\ \A q \in Products : products'[q] = products[q]
    BY <1>5, <2>1 DEF Products, Insert
  <2>6. /\ \E m \in Nat : offers' \in [1 .. m -> OfferRow]
        /\ Offers \subseteq Offers'
        /\ \A o \in Offers' : offers'[o].product \in Products'
    <3>1. CASE offers' = offers
      BY <2>5, <3>1 DEF DeskIInv, DeskTypeOK, RowsAreThere, Offers
    <3>2. ASSUME NEW pack \in form.packs,
                 offers' = Insert(offers, Cardinality(Offers) + 1, NewOffer(p, pack, form.unit))
          PROVE  /\ \E m \in Nat : offers' \in [1 .. m -> OfferRow]
                 /\ Offers \subseteq Offers'
                 /\ \A o \in Offers' : offers'[o].product \in Products'
      <4> DEFINE P == 1 .. n + 1
                 offer == NewOffer(p, pack, form.unit)
      <4>1. Products' = P /\ Products \subseteq P /\ p \in P
        BY <1>4, <1>5, <2>4, <2>5 DEF Products
      <4>2. offer \in OfferRow /\ offer.product \in P
        BY <1>6, <4>1
      <4>3. offers' = Insert(offers, Cardinality(Offers) + 1, offer)
        BY <3>2
      <4> HIDE DEF P, p, form, slug, offer
      <4>4. DeskTypeOK /\ RowsAreThere
        BY DEF DeskIInv
      <4>5. /\ \E m \in Nat : offers' \in [1 .. m -> OfferRow]
            /\ Offers \subseteq Offers'
            /\ \A o \in Offers' : offers'[o].product \in P
        BY <4>1, <4>2, <4>3, <4>4, OfferFiled
      <4> QED
        BY <4>1, <4>5
    <3> QED
      BY <1>8, <3>1, <3>2
  <2>7. DeskTypeOK'
    BY <1>1, <1>5, <2>4, <2>5, <2>6 DEF DeskIInv, DeskTypeOK, RequestsEnd
  <2>8. RowsAreThere'
    BY <1>1, <2>5, <2>6 DEF DeskIInv, RowsAreThere, RequestsEnd
  <2>9. SlugsName'
    <3>1. row.slug = Identity(row.name, row.unit)
      BY DEF row
    <3>2. p \notin crossed
      BY <1>5 DEF DeskIInv, DeskTypeOK
    <3> QED
      BY <1>1, <2>5, <3>1, <3>2 DEF DeskIInv, SlugsName
  <2>10. SlugsUnique'
    <3>1. row.slug = slug
      BY DEF row
    <3> HIDE DEF slug
    <3> QED
      BY <1>5, <1>8, <2>5, <3>1 DEF DeskIInv, SlugsUnique, SlugFree
  <2> QED
    BY <2>7, <2>8, <2>9, <2>10 DEF DeskIInv
<1> QED
  BY <1>7, <1>8 DEF CreateWrites

-----------------------------------------------------------------------------
LEMMA DeskInitially == DeskInit => DeskIInv
<1> SUFFICES ASSUME DeskInit PROVE DeskIInv
  OBVIOUS
<1>1. PICK n \in Names, u \in Units :
        products = <<[name |-> n, unit |-> u, slug |-> Imported]>>
  BY DEF DeskInit
<1>2. products \in [1 .. 1 -> ProductRow] /\ Products = {1} /\ products[1].slug = Imported
  BY <1>1 DEF ProductRow, Products
<1>3. offers \in [1 .. 0 -> OfferRow] /\ Offers = {}
  BY DEF DeskInit, Offers
<1>4. requests \in [Admins -> RequestRow] /\ \A a \in Admins : requests[a].kind = "idle"
  BY DEF DeskInit, AtRest, RequestRow
<1>5. DeskTypeOK
  BY <1>2, <1>3, <1>4 DEF DeskTypeOK, DeskInit
<1>6. RowsAreThere
  BY <1>3, <1>4 DEF RowsAreThere
<1>7. SlugsName /\ SlugsUnique
  BY <1>2 DEF SlugsName, SlugsUnique
<1> QED
  BY <1>5, <1>6, <1>7 DEF DeskIInv

LEMMA DeskConsecution == DeskIInv /\ [DeskNext]_deskVars => DeskIInv'
<1> SUFFICES ASSUME DeskIInv, [DeskNext]_deskVars PROVE DeskIInv'
  OBVIOUS
<1>1. CASE UNCHANGED deskVars
  BY <1>1 DEF deskVars, DeskIInv, DeskTypeOK, RowsAreThere, SlugsName, SlugsUnique, Products, Offers
<1>2. ASSUME NEW a \in Admins, NEW p \in Products, NEW form \in Forms, EditReads(a, p, form)
      PROVE  DeskIInv'
  BY <1>2, EditsRead
<1>3. ASSUME NEW a \in Admins, EditWrites(a) PROVE DeskIInv'
  BY <1>3, EditsWrite
<1>4. ASSUME NEW a \in Admins, NEW name \in Names, NEW unit \in Units, NEW packs \in FirstPacks,
             CreateReads(a, name, unit, packs)
      PROVE  DeskIInv'
  BY <1>4, CreatesRead
<1>5. ASSUME NEW a \in Admins, CreateWrites(a) PROVE DeskIInv'
  BY <1>5, CreatesWrite
<1>6. ASSUME NEW a \in Admins, NEW p \in Products, NEW unit \in Units, OfferReads(a, p, unit)
      PROVE  DeskIInv'
  BY <1>6, OffersRead
<1>7. ASSUME NEW a \in Admins, OfferWrites(a) PROVE DeskIInv'
  BY <1>7, OffersWrite
<1>8. ASSUME NEW a \in Admins, NEW o \in Offers, NEW knows \in BOOLEAN, PriceReads(a, o, knows)
      PROVE  DeskIInv'
  BY <1>8, PricesRead
<1>9. ASSUME NEW a \in Admins, PriceWrites(a) PROVE DeskIInv'
  BY <1>9, PricesWrite
<1>10. ASSUME NEW a \in Admins, NEW p \in Products, QuickReads(a, p) PROVE DeskIInv'
  BY <1>10, QuicksRead
<1>11. ASSUME NEW a \in Admins, QuickWrites(a) PROVE DeskIInv'
  BY <1>11, QuicksWrite
<1>12. ASSUME NEW o \in Offers, NEW unit \in Units, EditOffer(o, unit) PROVE DeskIInv'
  BY <1>12, OffersEdited
<1> QED
  BY <1>1, <1>2, <1>3, <1>4, <1>5, <1>6, <1>7, <1>8, <1>9, <1>10, <1>11, <1>12 DEF DeskNext

LEMMA DeskInvariance == DeskSpec => []DeskIInv
  BY DeskInitially, DeskConsecution, PTL DEF DeskSpec

\* Whatever the forms do, tables hold the rows they should, and requests what
\* their kind says.
THEOREM DeskTypeCorrect == DeskSpec => []DeskTypeOK
  BY DeskInvariance, PTL DEF DeskIInv

\* Nothing is offered that is not in the catalogue, and no form writes to a row
\* that was never there.
THEOREM NoOrphans == DeskSpec => []RowsAreThere
  BY DeskInvariance, PTL DEF DeskIInv

\* Two products that nobody edited at once and no import made are different
\* variants, however the forms of administrators overlap: the catalogue has
\* one product for what a customer asks for.
THEOREM VariantsAreApart == DeskSpec => []NoTwins
<1>1. DeskIInv => NoTwins
  BY DEF DeskIInv, SlugsName, SlugsUnique, NoTwins
<1> QED
  BY DeskInvariance, <1>1, PTL

-----------------------------------------------------------------------------
StagedRow ==
    [match : Goods \cup {Nothing}, how : {"auto", "manual", "skipped"},
     currency : {"UZS", "USD", Nothing}, fits : BOOLEAN, listed : BOOLEAN, error : BOOLEAN,
     applied : Nat]

Fields(r) ==
    [at |-> r.at, batch |-> r.batch, rows |-> r.rows, found |-> r.found, offer |-> r.offer,
     product |-> r.product, pack |-> r.pack]

ImportTyped ==
    /\ status \in [Batches -> {"none", "awaiting_confirmation", "applied", "failed"}]
    /\ fileRows \in [Batches -> Seq(StagedRow)]
    /\ rate \in BOOLEAN
    /\ priced \in Seq({priced[o] : o \in DOMAIN priced})
    /\ import = [h \in Imports |-> import[h]]
    /\ \A h \in Imports : import[h] = Fields(import[h])

\* What nobody may change of a row: whether it was asked about, its match if it
\* was not, its currency, whether it can be priced, and that it was applied.
SameRow(old, row) ==
    /\ old.listed = row.listed /\ old.currency = row.currency /\ old.fits = row.fits
    /\ ~row.listed => old.match = row.match /\ old.how = row.how
    /\ old.applied # 0 => row.applied # 0

SameStage(old, now) ==
    /\ DOMAIN old = DOMAIN now
    /\ \A i \in DOMAIN now : SameRow(old[i], now[i])

\* A confirmation under way is about rows that are the batch's, but for what the
\* admin was asked about; past the preflight all it will write can be converted.
ConfirmsFit(r) ==
    r.at \in {"confirmed", "planned"} =>
        /\ r.batch \in Batches
        /\ status[r.batch] # "none"
        /\ r.rows \in Seq(StagedRow)
        /\ SameStage(r.rows, fileRows[r.batch])
        /\ r.at = "planned" => /\ Refused(r.rows) = {}
                               /\ r.found \in [Matches(r.rows) -> Nat]

\* A row that nobody was asked about is one that will be written.
UnaskedArePlanned ==
    \A b \in Batches : \A i \in DOMAIN fileRows[b] :
        ~fileRows[b][i].listed => fileRows[b][i].match # Nothing /\ fileRows[b][i].how # "skipped"

\* The inductive invariant.
ImportInv ==
    /\ ImportTyped
    /\ \A h \in Imports : ConfirmsFit(import[h])
    /\ UnaskedArePlanned
    /\ AppliedBatchIsWhole

-----------------------------------------------------------------------------
LEMMA RowsInOrder ==
    ASSUME NEW S, NEW rs \in Seq(S)
    PROVE  /\ Len(rs) \in Nat /\ DOMAIN rs = 1 .. Len(rs)
           /\ IsFiniteSet(DOMAIN rs)
           /\ \A i \in DOMAIN rs : rs[i] \in S
<1>1. Len(rs) \in Nat /\ DOMAIN rs = 1 .. Len(rs)
    OBVIOUS
<1>2. IsFiniteSet(1 .. Len(rs))
    BY <1>1, FS_Interval
<1>3. QED
    BY <1>1, <1>2

LEMMA PricesInOrder ==
    ASSUME ImportTyped
    PROVE  Len(priced) \in Nat /\ DOMAIN priced = 1 .. Len(priced)
<1> DEFINE S == {priced[o] : o \in DOMAIN priced}
<1>1. priced \in Seq(S)
    BY DEF ImportTyped
<1> HIDE DEF S
<1>2. QED
    BY <1>1

\* An offer found by the import is a row number, 0 for none.
LEMMA FoundIsANumber ==
    ASSUME ImportTyped, NEW p, NEW pack
    PROVE  Found(p, pack) \in Nat
<1>1. CASE OfPack(p, pack) = {}
    BY <1>1 DEF Found
<1>2. CASE OfPack(p, pack) # {}
  <2>1. Found(p, pack) \in OfPack(p, pack)
      BY <1>2 DEF Found
  <2>2. Found(p, pack) \in DOMAIN priced
      BY <2>1 DEF OfPack, OfProduct
  <2>3. QED
      BY <2>2, PricesInOrder
<1>3. QED
    BY <1>1, <1>2

LEMMA SameRowHolds == ASSUME NEW row PROVE SameRow(row, row)
    BY DEF SameRow

\* The products a plan writes are finitely many.
LEMMA MatchesAreFinite ==
    ASSUME NEW rs \in Seq(StagedRow)
    PROVE  IsFiniteSet(Matches(rs)) /\ IsFiniteSet(Written(rs))
<1>1. IsFiniteSet(DOMAIN rs)
    BY RowsInOrder
<1>2. Written(rs) \subseteq DOMAIN rs
    BY DEF Written, Planned
<1>3. IsFiniteSet(Written(rs))
    BY <1>1, <1>2, FS_Subset
<1> DEFINE f == [i \in Written(rs) |-> rs[i].match]
<1>4. f \in Surjection(Written(rs), Matches(rs))
    BY DEF Matches, Surjection
<1>5. IsFiniteSet(Matches(rs))
    BY <1>3, <1>4, FS_Surjection
<1>6. QED
    BY <1>3, <1>5

\* A set of numbers has a least one.
LEMMA LeastOfNumbers ==
    ASSUME NEW S, S \subseteq Nat, S # {}
    PROVE  /\ \E i \in S : \A j \in S : i <= j
           /\ (CHOOSE i \in S : \A j \in S : i <= j) \in S
<1> DEFINE R == OpToRel(<, Nat)
<1>1. IsWellFoundedOn(R, Nat)
    BY NatLessThanWellFounded
<1>2. \A m, n \in Nat : m < n => <<m, n>> \in R
    BY DEF OpToRel
<1> HIDE DEF R
<1>3. PICK i \in S : \A j \in S : ~(<<j, i>> \in R)
    BY <1>1, WFMin
<1>4. ASSUME NEW j \in S PROVE i <= j
  <2>1. i \in Nat /\ j \in Nat /\ ~(j < i)
      BY <1>2, <1>3
  <2>2. QED
      BY <2>1
<1>5. QED
    BY <1>4

\* An offer a plan writes has a row number, which is not 0.
LEMMA TargetIsARow ==
    ASSUME ImportTyped, NEW r, r.rows \in Seq(StagedRow), r.found \in [Matches(r.rows) -> Nat],
           NEW p \in Matches(r.rows)
    PROVE  Target(r)[p] \in Nat \ {0}
<1> DEFINE new == {q \in Matches(r.rows) : r.found[q] = 0}
           upTo == {q \in new : FirstRow(r.rows, q) <= FirstRow(r.rows, p)}
<1>1. Target(r)[p] = IF r.found[p] # 0 THEN r.found[p] ELSE Len(priced) + Cardinality(upTo)
    BY DEF Target
<1>2. IsFiniteSet(upTo)
  <2>1. upTo \subseteq Matches(r.rows)
      OBVIOUS
  <2>2. QED
      BY <2>1, MatchesAreFinite, FS_Subset
<1>3. CASE r.found[p] # 0
    BY <1>1, <1>3
<1>4. CASE r.found[p] = 0
  <2>1. p \in new
      BY <1>4
  <2>2. FirstRow(r.rows, p) \in Nat
    <3>1. DOMAIN r.rows \subseteq Nat
        BY RowsInOrder
    <3> DEFINE ofProduct == {i \in Written(r.rows) : r.rows[i].match = p}
    <3>2. ofProduct # {} /\ ofProduct \subseteq Nat
        BY <3>1 DEF Matches, Written, Planned
    <3>3. FirstRow(r.rows, p) = CHOOSE i \in ofProduct : \A j \in ofProduct : i <= j
        BY DEF FirstRow
    <3> HIDE DEF ofProduct
    <3>4. FirstRow(r.rows, p) \in ofProduct
        BY <3>2, <3>3, LeastOfNumbers
    <3>5. QED
        BY <3>2, <3>4
  <2>3. p \in upTo
      BY <2>1, <2>2
  <2>4. Cardinality(upTo) \in Nat /\ Cardinality(upTo) # 0
      BY <1>2, <2>3, FS_CardinalityType, FS_EmptySet
  <2>5. Len(priced) \in Nat
      BY PricesInOrder
  <2>6. QED
      BY <1>1, <1>4, <2>4, <2>5
<1>5. QED
    BY <1>3, <1>4

-----------------------------------------------------------------------------
\* A sequence is what is given for each number up to a length.
LEMMA RowsFromRows ==
    ASSUME NEW S, NEW n \in Nat, NEW g, g = [i \in 1 .. n |-> g[i]], \A i \in 1 .. n : g[i] \in S
    PROVE  g \in Seq(S)
    OBVIOUS

LEMMA SameStageHolds == ASSUME NEW rs PROVE SameStage(rs, rs)
    BY SameRowHolds DEF SameStage

LEMMA SameStageChains ==
    ASSUME NEW old, NEW rs, NEW now, SameStage(old, rs), SameStage(rs, now)
    PROVE  SameStage(old, now)
<1>1. DOMAIN old = DOMAIN now
    BY DEF SameStage
<1>2. ASSUME NEW i \in DOMAIN now PROVE SameRow(old[i], now[i])
  <2>1. SameRow(old[i], rs[i]) /\ SameRow(rs[i], now[i])
      BY DEF SameStage
  <2>2. QED
      BY <2>1 DEF SameRow
<1>3. QED
    BY <1>1, <1>2 DEF SameStage

\* What every step leaves: a rate stays published, an upload stays one, and its
\* rows stay the same but for what the admin was asked about.
StagesKept ==
    /\ rate => rate'
    /\ \A b \in Batches : status[b] # "none" =>
        status'[b] # "none" /\ SameStage(fileRows[b], fileRows'[b])

\* With that a confirmation under way still fits.
LEMMA ConfirmStillFits ==
    ASSUME ImportTyped, NEW r, ConfirmsFit(r), StagesKept
    PROVE  ConfirmsFit(r)'
<1> SUFFICES ASSUME r.at \in {"confirmed", "planned"}
             PROVE  /\ r.batch \in Batches
                    /\ status'[r.batch] # "none"
                    /\ r.rows \in Seq(StagedRow)
                    /\ SameStage(r.rows, fileRows'[r.batch])
                    /\ r.at = "planned" => /\ Refused(r.rows)' = {}
                                           /\ r.found \in [Matches(r.rows) -> Nat]
    BY DEF ConfirmsFit, StagedRow, SameStage, SameRow, Matches, Written, Planned
<1>1. /\ r.batch \in Batches
      /\ status[r.batch] # "none"
      /\ r.rows \in Seq(StagedRow)
      /\ SameStage(r.rows, fileRows[r.batch])
      /\ r.at = "planned" => /\ Refused(r.rows) = {}
                             /\ r.found \in [Matches(r.rows) -> Nat]
    BY DEF ConfirmsFit
<1>2. status'[r.batch] # "none" /\ SameStage(fileRows[r.batch], fileRows'[r.batch])
    BY <1>1 DEF StagesKept
<1>3. SameStage(r.rows, fileRows'[r.batch])
    BY <1>1, <1>2, SameStageChains
<1>4. Refused(r.rows)' \subseteq Refused(r.rows)
    BY DEF StagesKept, Refused, Planned, Usable
<1>5. QED
    BY <1>1, <1>2, <1>3, <1>4

\* A step that changes one request leaves the others fitting.
LEMMA OthersStillFit ==
    ASSUME ImportTyped, \A k \in Imports : ConfirmsFit(import[k]), StagesKept,
           NEW h \in Imports, \A k \in Imports \ {h} : import'[k] = import[k],
           ConfirmsFit(import[h])'
    PROVE  \A k \in Imports : ConfirmsFit(import[k])'
<1>1. ASSUME NEW k \in Imports \ {h} PROVE ConfirmsFit(import[k])'
  <2>1. PICK r : r = import[k]
      OBVIOUS
  <2>2. ConfirmsFit(r)'
      BY <2>1, ConfirmStillFits
  <2>3. import'[k] = r
      BY <2>1
  <2>4. QED
      BY <2>2, <2>3 DEF ConfirmsFit, SameStage, SameRow, Refused, Matches, Written, Planned, Usable, StagedRow
<1>2. QED
    BY <1>1

\* A step that only changes uploads leaves all of them fitting.
LEMMA AllStillFit ==
    ASSUME ImportTyped, \A k \in Imports : ConfirmsFit(import[k]), StagesKept, UNCHANGED import
    PROVE  \A k \in Imports : ConfirmsFit(import[k])'
<1>1. ASSUME NEW k \in Imports PROVE ConfirmsFit(import[k])'
  <2>1. PICK r : r = import[k]
      OBVIOUS
  <2>2. ConfirmsFit(r)'
      BY <2>1, ConfirmStillFits
  <2>3. import'[k] = r
      BY <2>1
  <2>4. QED
      BY <2>2, <2>3 DEF ConfirmsFit, SameStage, SameRow, Refused, Matches, Written, Planned, Usable, StagedRow
<1>2. QED
    BY <1>1

\* Rows kept that way stay ones that will be written, or are.
LEMMA UnaskedStayPlanned ==
    ASSUME UnaskedArePlanned, NEW b \in Batches, SameStage(fileRows[b], fileRows'[b])
    PROVE  \A i \in DOMAIN fileRows'[b] :
               ~fileRows'[b][i].listed => fileRows'[b][i].match # Nothing /\ fileRows'[b][i].how # "skipped"
    BY DEF UnaskedArePlanned, SameStage, SameRow

LEMMA AppliedStaysWhole ==
    ASSUME AppliedBatchIsWhole, StagesKept, NEW b \in Batches, status[b] = "applied"
    PROVE  \A i \in DOMAIN fileRows'[b] :
               ~fileRows'[b][i].listed =>
                   Usable(fileRows[b][i].currency)' /\ (fileRows'[b][i].fits => fileRows'[b][i].applied # 0)
<1> SUFFICES ASSUME NEW i \in DOMAIN fileRows'[b], ~fileRows'[b][i].listed
             PROVE  Usable(fileRows[b][i].currency)' /\ (fileRows'[b][i].fits => fileRows'[b][i].applied # 0)
    OBVIOUS
<1>1. i \in DOMAIN fileRows[b] /\ SameRow(fileRows[b][i], fileRows'[b][i])
    BY DEF StagesKept, SameStage
<1>2. Usable(fileRows[b][i].currency) /\ (fileRows[b][i].fits => fileRows[b][i].applied # 0)
    BY <1>1 DEF AppliedBatchIsWhole, SameRow
<1>3. QED
    BY <1>1, <1>2 DEF SameRow, Usable, StagesKept

\* So all of the invariant but the types follows where no upload becomes applied.
LEMMA KeptIsEnough ==
    ASSUME UnaskedArePlanned, AppliedBatchIsWhole, StagesKept,
           \A b \in Batches : SameStage(fileRows[b], fileRows'[b]),
           \A b \in Batches : status'[b] = "applied" => status[b] = "applied"
    PROVE  UnaskedArePlanned' /\ AppliedBatchIsWhole'
<1>1. UnaskedArePlanned'
    BY UnaskedStayPlanned DEF UnaskedArePlanned
<1>2. AppliedBatchIsWhole'
    BY AppliedStaysWhole DEF AppliedBatchIsWhole
<1>3. QED
    BY <1>1, <1>2

-----------------------------------------------------------------------------
\* A request that ends, or that writes no file, has nothing to fit.
LEMMA AskedIsTyped ==
    ASSUME ImportTyped, NEW h \in Imports, NEW r, r = Fields(r), Ask(h, r)
    PROVE  /\ import' = [k \in Imports |-> import'[k]]
           /\ \A k \in Imports : import'[k] = Fields(import'[k])
           /\ import'[h] = r
           /\ \A k \in Imports \ {h} : import'[k] = import[k]
    BY DEF ImportTyped, Ask

LEMMA AskingIsSafe ==
    ASSUME ImportInv, NEW h \in Imports, NEW r, r = Fields(r), Ask(h, r),
           r.at \notin {"confirmed", "planned"},
           UNCHANGED <<status, fileRows, rate>>
    PROVE  /\ \A k \in Imports : ConfirmsFit(import[k])'
           /\ UnaskedArePlanned' /\ AppliedBatchIsWhole'
<1>1. StagesKept
    BY SameStageHolds DEF StagesKept
<1>2. import'[h] = r /\ \A k \in Imports \ {h} : import'[k] = import[k]
    BY AskedIsTyped DEF ImportInv
<1>3. ConfirmsFit(import[h])'
    BY <1>2 DEF ConfirmsFit
<1>4. \A k \in Imports : ConfirmsFit(import[k])'
    BY <1>1, <1>2, <1>3, OthersStillFit DEF ImportInv
<1>5. UnaskedArePlanned' /\ AppliedBatchIsWhole'
    BY DEF ImportInv, UnaskedArePlanned, AppliedBatchIsWhole, Usable
<1>6. QED
    BY <1>4, <1>5

LEMMA IdleIsARequest == IdleImport = Fields(IdleImport) /\ IdleImport.at = "idle"
    BY DEF IdleImport, Fields

LEMMA AnswerIsAsk == ASSUME NEW h, Answer(h) PROVE Ask(h, IdleImport)
    BY DEF Answer, Ask

-----------------------------------------------------------------------------
LEMMA UploadKeeps ==
    ASSUME ImportInv, NEW b \in Batches, NEW file \in Files, Upload(b, file)
    PROVE  ImportInv'
<1> DEFINE staged == [i \in DOMAIN file |->
               LET row == Guessed(file[i])
               IN  [match |-> row.match, how |-> row.how, listed |-> Listed(row),
                    currency |-> file[i].currency, fits |-> file[i].fits,
                    error |-> ~Usable(file[i].currency), applied |-> 0]]
<1>1. /\ status[b] = "none"
      /\ status' = [status EXCEPT ![b] = "awaiting_confirmation"]
      /\ fileRows' = [fileRows EXCEPT ![b] = staged]
      /\ UNCHANGED <<rate, priced, import>>
    BY DEF Upload
<1>2. file \in Seq(FileRow)
    BY ImportAssumption DEF ImportAssumption
<1>3. Len(file) \in Nat /\ DOMAIN file = 1 .. Len(file)
    BY <1>2
<1>4. ASSUME NEW i \in 1 .. Len(file)
      PROVE  /\ staged[i] \in StagedRow
             /\ ~staged[i].listed => staged[i].match # Nothing /\ staged[i].how # "skipped"
  <2>1. file[i] \in FileRow
      BY <1>2
  <2>2. /\ Guessed(file[i]).match \in Goods \cup {Nothing}
        /\ Guessed(file[i]).how \in {"auto", "manual"}
      BY <2>1 DEF Guessed, FileRow
  <2>3. Usable(file[i].currency) \in BOOLEAN /\ Listed(Guessed(file[i])) \in BOOLEAN
      BY DEF ImportInv, ImportTyped, Usable, Listed
  <2>4. staged[i] = [match |-> Guessed(file[i]).match, how |-> Guessed(file[i]).how,
                     listed |-> Listed(Guessed(file[i])), currency |-> file[i].currency,
                     fits |-> file[i].fits, error |-> ~Usable(file[i].currency), applied |-> 0]
      BY <1>3
  <2>5. staged[i] \in StagedRow
      BY <2>1, <2>2, <2>3, <2>4 DEF StagedRow, FileRow
  <2>6. /\ staged[i].match = Guessed(file[i]).match /\ staged[i].how = Guessed(file[i]).how
        /\ staged[i].listed = (Guessed(file[i]).match = Nothing)
      BY <2>4 DEF Listed
  <2> HIDE DEF staged
  <2>7. QED
      BY <2>2, <2>5, <2>6
<1>5. staged = [i \in 1 .. Len(file) |-> staged[i]]
    BY <1>3
<1> HIDE DEF staged
<1>6. staged \in Seq(StagedRow)
    BY <1>3, <1>4, <1>5, RowsFromRows
<1>7. DOMAIN staged = 1 .. Len(file)
    BY <1>5
<1>8. fileRows'[b] = staged /\ \A c \in Batches \ {b} : fileRows'[c] = fileRows[c]
    BY <1>1 DEF ImportInv, ImportTyped
<1>9. status'[b] = "awaiting_confirmation" /\ \A c \in Batches \ {b} : status'[c] = status[c]
    BY <1>1 DEF ImportInv, ImportTyped
<1>10. ImportTyped'
    BY <1>1, <1>6 DEF ImportInv, ImportTyped, Fields
<1>11. StagesKept
    BY <1>1, <1>8, <1>9, SameStageHolds DEF StagesKept
<1>12. \A k \in Imports : ConfirmsFit(import[k])'
    BY <1>1, <1>11, AllStillFit DEF ImportInv
<1>13. UnaskedArePlanned'
    BY <1>4, <1>7, <1>8 DEF ImportInv, UnaskedArePlanned
<1>14. AppliedBatchIsWhole'
    BY <1>1, <1>8, <1>9 DEF ImportInv, AppliedBatchIsWhole, Usable
<1>15. QED
    BY <1>10, <1>12, <1>13, <1>14 DEF ImportInv

\* The admin's answer about a row that was asked about.
LEMMA AskedRowMayChange ==
    ASSUME ImportInv, NEW b \in Batches, NEW i \in DOMAIN fileRows[b], fileRows[b][i].listed,
           NEW match \in Goods \cup {Nothing}, NEW how \in {"manual", "skipped"},
           fileRows' = [fileRows EXCEPT ![b][i].match = match, ![b][i].how = how],
           UNCHANGED <<status, rate, priced, import>>
    PROVE  ImportInv'
<1> DEFINE answered == [fileRows[b][i] EXCEPT !.match = match, !.how = how]
<1>1. fileRows[b] \in Seq(StagedRow)
    BY DEF ImportInv, ImportTyped
<1>2. fileRows[b][i] \in StagedRow
    BY <1>1
<1>3. answered \in StagedRow
    BY <1>2 DEF StagedRow
<1>4. SameRow(fileRows[b][i], answered)
    BY <1>2 DEF SameRow, StagedRow
<1>5. fileRows' = [fileRows EXCEPT ![b] = [fileRows[b] EXCEPT ![i] = answered]]
    BY <1>1, <1>2 DEF ImportInv, ImportTyped
<1> HIDE DEF answered
<1> DEFINE now == [fileRows[b] EXCEPT ![i] = answered]
<1>6. /\ now \in Seq(StagedRow) /\ DOMAIN now = DOMAIN fileRows[b]
      /\ now[i] = answered /\ \A j \in DOMAIN fileRows[b] \ {i} : now[j] = fileRows[b][j]
    BY <1>1, <1>3
<1> HIDE DEF now
<1>7. fileRows' = [fileRows EXCEPT ![b] = now]
    BY <1>5 DEF now
<1>8. ImportTyped'
  <2>1. fileRows \in [Batches -> Seq(StagedRow)]
      BY DEF ImportInv, ImportTyped
  <2>2. fileRows' \in [Batches -> Seq(StagedRow)]
      BY <1>6, <1>7, <2>1
  <2>3. QED
      BY <2>2 DEF ImportInv, ImportTyped, Fields
<1>9. SameStage(fileRows[b], now)
    BY <1>4, <1>6, SameRowHolds DEF SameStage
<1>10. \A c \in Batches : SameStage(fileRows[c], fileRows'[c])
    BY <1>7, <1>9, SameStageHolds DEF ImportInv, ImportTyped
<1>11. StagesKept
    BY <1>10 DEF StagesKept
<1>12. \A k \in Imports : ConfirmsFit(import[k])'
    BY <1>11, AllStillFit DEF ImportInv
<1>13. UnaskedArePlanned' /\ AppliedBatchIsWhole'
    BY <1>10, <1>11, KeptIsEnough DEF ImportInv
<1>14. QED
    BY <1>8, <1>12, <1>13 DEF ImportInv

LEMMA ResolveRowKeeps ==
    ASSUME ImportInv, NEW b \in Batches, NEW i \in DOMAIN fileRows[b], NEW p \in Goods, ResolveRow(b, i, p)
    PROVE  ImportInv'
    BY AskedRowMayChange DEF ResolveRow

LEMMA SkipRowKeeps ==
    ASSUME ImportInv, NEW b \in Batches, NEW i \in DOMAIN fileRows[b], SkipRow(b, i)
    PROVE  ImportInv'
    BY AskedRowMayChange DEF SkipRow

LEMMA CancelKeeps ==
    ASSUME ImportInv, NEW b \in Batches, Cancel(b)
    PROVE  ImportInv'
<1>1. status' = [status EXCEPT ![b] = "failed"] /\ UNCHANGED <<fileRows, rate, priced, import>>
    BY DEF Cancel
<1>2. ImportTyped'
    BY <1>1 DEF ImportInv, ImportTyped, Fields
<1>3. \A c \in Batches : SameStage(fileRows[c], fileRows'[c])
    BY <1>1, SameStageHolds
<1>4. \A c \in Batches : status'[c] = status[c] \/ status'[c] = "failed"
    BY <1>1 DEF ImportInv, ImportTyped
<1>5. StagesKept
    BY <1>1, <1>3, <1>4 DEF StagesKept
<1>6. \A k \in Imports : ConfirmsFit(import[k])'
    BY <1>1, <1>5, AllStillFit DEF ImportInv
<1>7. UnaskedArePlanned' /\ AppliedBatchIsWhole'
    BY <1>3, <1>4, <1>5, KeptIsEnough DEF ImportInv
<1>8. QED
    BY <1>2, <1>6, <1>7 DEF ImportInv

LEMMA FirstRateKeeps ==
    ASSUME ImportInv, FirstRate
    PROVE  ImportInv'
<1>1. rate' = TRUE /\ UNCHANGED <<status, fileRows, priced, import>>
    BY DEF FirstRate
<1>2. ImportTyped'
    BY <1>1 DEF ImportInv, ImportTyped, Fields
<1>3. \A c \in Batches : SameStage(fileRows[c], fileRows'[c])
    BY <1>1, SameStageHolds
<1>4. StagesKept
    BY <1>1, <1>3 DEF StagesKept
<1>5. \A k \in Imports : ConfirmsFit(import[k])'
    BY <1>1, <1>4, AllStillFit DEF ImportInv
<1>6. UnaskedArePlanned' /\ AppliedBatchIsWhole'
    BY <1>1, <1>3, <1>4, KeptIsEnough DEF ImportInv
<1>7. QED
    BY <1>2, <1>5, <1>6 DEF ImportInv

-----------------------------------------------------------------------------
\* The list of prices stays a list.
LEMMA ListOfPrices ==
    ASSUME NEW n \in Nat, NEW s, s = [o \in 1 .. n |-> s[o]]
    PROVE  s \in Seq({s[o] : o \in DOMAIN s})
<1> DEFINE S == {s[o] : o \in DOMAIN s}
<1>1. \A o \in 1 .. n : s[o] \in S
    OBVIOUS
<1> HIDE DEF S
<1>2. s \in Seq(S)
    BY <1>1, RowsFromRows
<1>3. QED
    BY <1>2 DEF S

LEMMA PricedIsListed ==
    ASSUME ImportTyped
    PROVE  Len(priced) \in Nat /\ priced = [o \in 1 .. Len(priced) |-> priced[o]]
<1> DEFINE S == {priced[o] : o \in DOMAIN priced}
<1>1. priced \in Seq(S)
    BY DEF ImportTyped
<1> HIDE DEF S
<1>2. QED
    BY <1>1

LEMMA NewPriceIsListed ==
    ASSUME ImportTyped, NEW e
    PROVE  Append(priced, e) = [o \in 1 .. Len(priced) + 1 |-> Append(priced, e)[o]]
<1> DEFINE T == {priced[o] : o \in DOMAIN priced} \cup {e}
<1>1. Len(priced) \in Nat /\ priced = [o \in 1 .. Len(priced) |-> priced[o]]
    BY PricedIsListed
<1>2. \A o \in 1 .. Len(priced) : priced[o] \in T
    BY <1>1
<1>3. e \in T
    OBVIOUS
<1> HIDE DEF T
<1>4. priced \in Seq(T)
    BY <1>1, <1>2, RowsFromRows
<1>5. Append(priced, e) \in Seq(T) /\ Len(Append(priced, e)) = Len(priced) + 1
    BY <1>3, <1>4, AppendProperties
<1>6. PICK s : s = Append(priced, e)
    OBVIOUS
<1>7. s \in Seq(T)
    BY <1>5, <1>6
<1>8. s = [o \in 1 .. Len(s) |-> s[o]]
    BY <1>7
<1>9. QED
    BY <1>5, <1>6, <1>8

LEMMA ConfirmKeeps ==
    ASSUME ImportInv, NEW h \in Imports, NEW b \in Batches, Confirm(h, b)
    PROVE  ImportInv'
<1>1. PICK r : r = [IdleImport EXCEPT !.at = "confirmed", !.batch = b, !.rows = fileRows[b]]
    OBVIOUS
<1>2. /\ status[b] # "none" /\ Ask(h, r)
      /\ UNCHANGED <<status, fileRows, rate, priced>>
    BY <1>1 DEF Confirm
<1>3. r = Fields(r) /\ r.at = "confirmed" /\ r.batch = b /\ r.rows = fileRows[b]
    BY <1>1 DEF IdleImport, Fields
<1>4. /\ import' = [k \in Imports |-> import'[k]]
      /\ \A k \in Imports : import'[k] = Fields(import'[k])
      /\ import'[h] = r
      /\ \A k \in Imports \ {h} : import'[k] = import[k]
    BY <1>2, <1>3, AskedIsTyped DEF ImportInv
<1>5. ImportTyped'
    BY <1>2, <1>4 DEF ImportInv, ImportTyped, Fields
<1>6. StagesKept
    BY <1>2, SameStageHolds DEF StagesKept
<1>7. fileRows[b] \in Seq(StagedRow)
    BY DEF ImportInv, ImportTyped
<1>8. SameStage(r.rows, fileRows'[b])
    BY <1>2, <1>3, SameStageHolds
<1>9. ConfirmsFit(import[h])'
    BY <1>2, <1>3, <1>4, <1>7, <1>8 DEF ConfirmsFit, StagedRow, SameStage, SameRow
<1>10. \A k \in Imports : ConfirmsFit(import[k])'
    BY <1>4, <1>6, <1>9, OthersStillFit DEF ImportInv
<1>11. UnaskedArePlanned' /\ AppliedBatchIsWhole'
    BY <1>2 DEF ImportInv, UnaskedArePlanned, AppliedBatchIsWhole, Usable
<1>12. QED
    BY <1>5, <1>10, <1>11 DEF ImportInv

\* A step that begins or ends a request about single prices.
LEMMA SinglePriceKeeps ==
    ASSUME ImportInv, NEW h \in Imports, NEW r, r = Fields(r), Ask(h, r),
           r.at \notin {"confirmed", "planned"},
           UNCHANGED <<status, fileRows, rate>>,
           NEW n \in Nat, priced' = [o \in 1 .. n |-> priced'[o]]
    PROVE  ImportInv'
<1>1. /\ import' = [k \in Imports |-> import'[k]]
      /\ \A k \in Imports : import'[k] = Fields(import'[k])
    BY AskedIsTyped DEF ImportInv
<1>2. priced' \in Seq({priced'[o] : o \in DOMAIN priced'})
    BY ListOfPrices
<1>3. ImportTyped'
    BY <1>1, <1>2 DEF ImportInv, ImportTyped, Fields
<1>4. QED
    BY <1>3, AskingIsSafe DEF ImportInv

LEMMA BeginningKeeps ==
    ASSUME ImportInv, NEW h \in Imports, NEW r, r = Fields(r), Ask(h, r),
           r.at \notin {"confirmed", "planned"},
           UNCHANGED <<status, fileRows, rate, priced>>
    PROVE  ImportInv'
<1>1. Len(priced) \in Nat /\ priced' = [o \in 1 .. Len(priced) |-> priced'[o]]
    BY PricedIsListed DEF ImportInv
<1>2. QED
    BY <1>1, SinglePriceKeeps

LEMMA CrashKeeps ==
    ASSUME ImportInv, NEW h \in Imports, Crash(h)
    PROVE  ImportInv'
    BY AnswerIsAsk, IdleIsARequest, BeginningKeeps DEF Crash

LEMMA QuickPriceKeeps ==
    ASSUME ImportInv, NEW h \in Imports, NEW p \in Goods, QuickPrice(h, p)
    PROVE  ImportInv'
<1>1. PICK o : Ask(h, [IdleImport EXCEPT !.at = "quick", !.offer = o, !.product = p])
    BY DEF QuickPrice
<1>2. PICK r : r = [IdleImport EXCEPT !.at = "quick", !.offer = o, !.product = p]
    OBVIOUS
<1>3. r = Fields(r) /\ r.at = "quick"
    BY <1>2 DEF IdleImport, Fields
<1>4. QED
    BY <1>1, <1>2, <1>3, BeginningKeeps DEF QuickPrice

LEMMA AddOfferKeeps ==
    ASSUME ImportInv, NEW h \in Imports, NEW p \in Goods, NEW pack \in ImportPacks, AddOffer(h, p, pack)
    PROVE  ImportInv'
<1>1. PICK r : r = [IdleImport EXCEPT !.at = "form", !.product = p, !.pack = pack, !.offer = Found(p, pack)]
    OBVIOUS
<1>2. r = Fields(r) /\ r.at = "form"
    BY <1>1 DEF IdleImport, Fields
<1>3. QED
    BY <1>1, <1>2, BeginningKeeps DEF AddOffer

LEMMA EditFormKeeps ==
    ASSUME ImportInv, NEW h \in Imports, NEW o \in DOMAIN priced, NEW pack \in ImportPacks, EditForm(h, o, pack)
    PROVE  ImportInv'
<1>1. PICK r : r = [IdleImport EXCEPT !.at = "form", !.product = priced[o].product, !.pack = pack, !.offer = o]
    OBVIOUS
<1>2. r = Fields(r) /\ r.at = "form"
    BY <1>1 DEF IdleImport, Fields
<1>3. QED
    BY <1>1, <1>2, BeginningKeeps DEF EditForm

LEMMA QuickWriteKeeps ==
    ASSUME ImportInv, NEW h \in Imports, QuickWrite(h)
    PROVE  ImportInv'
<1>1. Ask(h, IdleImport) /\ UNCHANGED <<status, fileRows, rate>>
    BY AnswerIsAsk DEF QuickWrite
<1>2. PICK o, e : priced' = [priced EXCEPT ![o].from = "admin"] \/ priced' = Append(priced, e)
    BY DEF QuickWrite
<1>3. PICK n \in Nat : priced' = [k \in 1 .. n |-> priced'[k]]
    BY <1>2, PricedIsListed, NewPriceIsListed DEF ImportInv
<1>4. QED
    BY <1>1, <1>3, IdleIsARequest, SinglePriceKeeps

LEMMA FormWriteKeeps ==
    ASSUME ImportInv, NEW h \in Imports, FormWrite(h)
    PROVE  ImportInv'
<1>1. Ask(h, IdleImport) /\ UNCHANGED <<status, fileRows, rate>>
    BY AnswerIsAsk DEF FormWrite
<1>2. PICK o, e : priced' \in {priced, [priced EXCEPT ![o] = e], Append(priced, e)}
    BY DEF FormWrite
<1>3. PICK n \in Nat : priced' = [k \in 1 .. n |-> priced'[k]]
    BY <1>2, PricedIsListed, NewPriceIsListed DEF ImportInv
<1>4. QED
    BY <1>1, <1>3, IdleIsARequest, SinglePriceKeeps

-----------------------------------------------------------------------------
\* What a confirmation leaves of the rows of its batch: a row each, the same but
\* for what becomes of its error and of the offer it was applied to.
LEMMA MarkedRows ==
    ASSUME NEW old \in Seq(StagedRow), NEW now, now = [i \in DOMAIN old |-> now[i]],
           \A i \in DOMAIN old : \E e \in BOOLEAN, a \in Nat :
               /\ now[i] = [old[i] EXCEPT !.error = e, !.applied = a]
               /\ old[i].applied # 0 => a # 0
    PROVE  now \in Seq(StagedRow) /\ SameStage(old, now)
<1>1. Len(old) \in Nat /\ DOMAIN old = 1 .. Len(old)
    BY RowsInOrder
<1>2. ASSUME NEW i \in DOMAIN old PROVE now[i] \in StagedRow /\ SameRow(old[i], now[i])
  <2>1. PICK e \in BOOLEAN, a \in Nat :
            /\ now[i] = [old[i] EXCEPT !.error = e, !.applied = a]
            /\ old[i].applied # 0 => a # 0
      OBVIOUS
  <2>2. old[i] \in StagedRow
      BY RowsInOrder
  <2>3. QED
      BY <2>1, <2>2 DEF StagedRow, SameRow
<1>3. now \in Seq(StagedRow)
    BY <1>1, <1>2, RowsFromRows
<1>4. QED
    BY <1>2, <1>3 DEF SameStage

\* A confirmation that ends and changes no other batch.
LEMMA EndOfConfirm ==
    ASSUME ImportInv, NEW h \in Imports, Ask(h, IdleImport), UNCHANGED rate,
           NEW b \in Batches, NEW now \in Seq(StagedRow), SameStage(fileRows[b], now),
           fileRows' = [fileRows EXCEPT ![b] = now],
           NEW s \in {status[b], "applied"}, status[b] # "none", status' = [status EXCEPT ![b] = s],
           priced' \in Seq({priced'[o] : o \in DOMAIN priced'}),
           s = "applied" => \/ status[b] = "applied"
                            \/ \A i \in DOMAIN now : ~now[i].listed =>
                                  Usable(now[i].currency) /\ (now[i].fits => now[i].applied # 0)
    PROVE  ImportInv'
<1>1. /\ import' = [k \in Imports |-> import'[k]]
      /\ \A k \in Imports : import'[k] = Fields(import'[k])
      /\ import'[h] = IdleImport
      /\ \A k \in Imports \ {h} : import'[k] = import[k]
    BY AskedIsTyped, IdleIsARequest DEF ImportInv
<1>2. fileRows \in [Batches -> Seq(StagedRow)] /\ rate \in BOOLEAN
      /\ status \in [Batches -> {"none", "awaiting_confirmation", "applied", "failed"}]
    BY DEF ImportInv, ImportTyped
<1>3. fileRows' \in [Batches -> Seq(StagedRow)] /\ rate' \in BOOLEAN
    BY <1>2
<1>4. status' \in [Batches -> {"none", "awaiting_confirmation", "applied", "failed"}]
    BY <1>2
<1>5. ImportTyped'
    BY <1>1, <1>3, <1>4 DEF ImportTyped, Fields
<1>6. /\ fileRows'[b] = now /\ \A c \in Batches \ {b} : fileRows'[c] = fileRows[c]
      /\ status'[b] = s /\ \A c \in Batches \ {b} : status'[c] = status[c]
    BY <1>2
<1>7. \A c \in Batches : SameStage(fileRows[c], fileRows'[c])
    BY <1>6, SameStageHolds
<1>8. StagesKept
    BY <1>6, <1>7 DEF StagesKept
<1>9. ConfirmsFit(import[h])'
    BY <1>1, IdleIsARequest DEF ConfirmsFit
<1>10. \A k \in Imports : ConfirmsFit(import[k])'
    BY <1>1, <1>8, <1>9, OthersStillFit DEF ImportInv
<1>11. UnaskedArePlanned'
    BY <1>7, UnaskedStayPlanned DEF ImportInv, UnaskedArePlanned
<1>12. ASSUME NEW c \in Batches, status'[c] = "applied"
       PROVE  \A i \in DOMAIN fileRows'[c] :
                  ~fileRows'[c][i].listed =>
                      /\ Usable(fileRows[c][i].currency)'
                      /\ fileRows'[c][i].fits => fileRows'[c][i].applied # 0
  <2>1. CASE status[c] = "applied"
      BY <1>8, <2>1, AppliedStaysWhole DEF ImportInv
  <2>2. CASE status[c] # "applied"
    <3>1. c = b /\ s = "applied"
        BY <1>6, <1>12, <2>2
    <3>2. \A i \in DOMAIN now : ~now[i].listed =>
              Usable(now[i].currency) /\ (now[i].fits => now[i].applied # 0)
        BY <2>2, <3>1
    <3>3. QED
        BY <1>6, <3>1, <3>2 DEF Usable
  <2>3. QED
      BY <2>1, <2>2
<1>13. AppliedBatchIsWhole'
    BY <1>12 DEF AppliedBatchIsWhole
<1>14. QED
    BY <1>5, <1>10, <1>11, <1>13 DEF ImportInv

LEMMA PreflightKeeps ==
    ASSUME ImportInv, NEW h \in Imports, Preflight(h)
    PROVE  ImportInv'
<1>1. PICK r : r = import[h]
    OBVIOUS
<1>2. /\ r = Fields(r) /\ r.at = "confirmed" /\ r.batch \in Batches
      /\ status[r.batch] # "none" /\ r.rows \in Seq(StagedRow)
      /\ SameStage(r.rows, fileRows[r.batch])
      /\ UNCHANGED <<status, rate, priced>>
    BY <1>1 DEF Preflight, ImportInv, ImportTyped, ConfirmsFit
<1>3. CASE Refused(r.rows) # {}
  <2> DEFINE old == fileRows[r.batch]
             now == [i \in DOMAIN r.rows |->
                       IF i \in Planned(r.rows)
                       THEN [old[i] EXCEPT !.error = i \in Refused(r.rows)]
                       ELSE old[i]]
  <2>1. fileRows' = [fileRows EXCEPT ![r.batch] = now] /\ Ask(h, IdleImport)
      BY <1>1, <1>3, AnswerIsAsk DEF Preflight
  <2>2. old \in Seq(StagedRow) /\ DOMAIN old = DOMAIN r.rows
      BY <1>2 DEF SameStage, ImportInv, ImportTyped
  <2>3. ASSUME NEW i \in DOMAIN old
        PROVE  \E e \in BOOLEAN, a \in Nat :
                   /\ now[i] = [old[i] EXCEPT !.error = e, !.applied = a]
                   /\ old[i].applied # 0 => a # 0
    <3>1. old[i] \in StagedRow
        BY <2>2, RowsInOrder
    <3>2. PICK e \in BOOLEAN : now[i] = [old[i] EXCEPT !.error = e]
      <4>1. CASE i \in Planned(r.rows)
        <5>1. (i \in Refused(r.rows)) \in BOOLEAN
            OBVIOUS
        <5>2. QED
            BY <2>2, <4>1, <5>1
      <4>2. CASE i \notin Planned(r.rows)
        <5>1. now[i] = old[i]
            BY <2>2, <4>2
        <5>2. old[i].error \in BOOLEAN /\ old[i] = [old[i] EXCEPT !.error = old[i].error]
            BY <3>1 DEF StagedRow
        <5>3. QED
            BY <5>1, <5>2
      <4>3. QED
          BY <4>1, <4>2
    <3>3. [old[i] EXCEPT !.error = e] = [old[i] EXCEPT !.error = e, !.applied = old[i].applied]
        BY <3>1 DEF StagedRow
    <3>4. old[i].applied \in Nat
        BY <3>1 DEF StagedRow
    <3>5. QED
        BY <3>2, <3>3, <3>4
  <2>4. now = [i \in DOMAIN old |-> now[i]]
      BY <2>2
  <2> HIDE DEF now
  <2>5. now \in Seq(StagedRow) /\ SameStage(old, now)
      BY <2>2, <2>3, <2>4, MarkedRows
  <2>6. status' = [status EXCEPT ![r.batch] = status[r.batch]]
      BY <1>2 DEF ImportInv, ImportTyped
  <2>7. priced' \in Seq({priced'[o] : o \in DOMAIN priced'})
      BY <1>2 DEF ImportInv, ImportTyped
  <2>8. QED
      BY <1>2, <2>1, <2>5, <2>6, <2>7, EndOfConfirm
<1>4. CASE Refused(r.rows) = {}
  <2>1. PICK found : found = [p \in Matches(r.rows) |-> Found(p, "dona")]
      OBVIOUS
  <2>2. PICK s : s = [r EXCEPT !.at = "planned", !.found = found]
      OBVIOUS
  <2>3. Ask(h, s) /\ UNCHANGED fileRows
      BY <1>1, <1>4, <2>1, <2>2 DEF Preflight
  <2>4. s = Fields(s) /\ s.at = "planned" /\ s.batch = r.batch /\ s.rows = r.rows /\ s.found = found
      BY <1>2, <2>2 DEF Fields
  <2>5. found \in [Matches(r.rows) -> Nat]
      BY <2>1, FoundIsANumber DEF ImportInv
  <2>6. /\ import' = [k \in Imports |-> import'[k]]
        /\ \A k \in Imports : import'[k] = Fields(import'[k])
        /\ import'[h] = s
        /\ \A k \in Imports \ {h} : import'[k] = import[k]
      BY <2>3, <2>4, AskedIsTyped DEF ImportInv
  <2>7. ImportTyped'
      BY <1>2, <2>3, <2>6 DEF ImportInv, ImportTyped, Fields
  <2>8. StagesKept
      BY <1>2, <2>3, SameStageHolds DEF StagesKept
  <2>9. ConfirmsFit(s)
      BY <1>2, <1>4, <2>4, <2>5 DEF ConfirmsFit
  <2>10. ConfirmsFit(s)'
      BY <2>8, <2>9, ConfirmStillFits DEF ImportInv
  <2>11. ConfirmsFit(import[h])'
      BY <2>6, <2>10 DEF ConfirmsFit, SameStage, SameRow, Refused, Matches, Written, Planned, Usable, StagedRow
  <2>12. \A k \in Imports : ConfirmsFit(import[k])'
      BY <2>6, <2>8, <2>11, OthersStillFit DEF ImportInv
  <2>13. UnaskedArePlanned' /\ AppliedBatchIsWhole'
      BY <1>2, <2>3 DEF ImportInv, UnaskedArePlanned, AppliedBatchIsWhole, Usable
  <2>14. QED
      BY <2>7, <2>12, <2>13 DEF ImportInv
<1>5. QED
    BY <1>3, <1>4

LEMMA ApplyKeeps ==
    ASSUME ImportInv, NEW h \in Imports, Apply(h)
    PROVE  ImportInv'
<1>1. PICK r : r = import[h]
    OBVIOUS
<1>2. /\ r = Fields(r) /\ r.at = "planned" /\ r.batch \in Batches
      /\ status[r.batch] # "none" /\ r.rows \in Seq(StagedRow)
      /\ SameStage(r.rows, fileRows[r.batch])
      /\ Refused(r.rows) = {} /\ r.found \in [Matches(r.rows) -> Nat]
      /\ Ask(h, IdleImport) /\ UNCHANGED rate
    BY <1>1, AnswerIsAsk DEF Apply, ImportInv, ImportTyped, ConfirmsFit
<1> DEFINE inserted == {q \in Matches(r.rows) : r.found[q] = 0}
           new == {Target(r)[p] : p \in inserted}
           old == fileRows[r.batch]
           now == [i \in DOMAIN r.rows |->
                     IF i \in Planned(r.rows)
                     THEN [old[i] EXCEPT !.error = FALSE,
                                         !.applied = IF i \in Written(r.rows) THEN Target(r)[r.rows[i].match]
                                                     ELSE old[i].applied]
                     ELSE old[i]]
           taken == \E p \in Matches(r.rows) : r.found[p] = 0 /\ OfPack(p, "dona") # {}
<1>3. CASE taken
  <2>1. UNCHANGED <<status, fileRows, priced>>
      BY <1>1, <1>3 DEF Apply
  <2>2. QED
      BY <1>2, <2>1, IdleIsARequest, BeginningKeeps
<1>4. CASE ~taken
  <2>1. /\ status' = [status EXCEPT ![r.batch] = "applied"]
        /\ fileRows' = [fileRows EXCEPT ![r.batch] = now]
      BY <1>1, <1>4 DEF Apply
  <2>2. priced' = [o \in 1 .. Len(priced) + Cardinality(new) |-> priced'[o]]
    <3> DEFINE its == import[h]
               newOnes == {Target(its)[p] : p \in {q \in Matches(its.rows) : its.found[q] = 0}}
    <3>1. ~\E p \in Matches(its.rows) : its.found[p] = 0 /\ OfPack(p, "dona") # {}
        BY <1>1, <1>4
    <3>2. priced' = [o \in 1 .. Len(priced) + Cardinality(newOnes) |->
                       IF o \in newOnes THEN Offer(CHOOSE p \in Matches(its.rows) : Target(its)[p] = o, "dona", its.batch)
                       ELSE IF \E p \in Matches(its.rows) : Target(its)[p] = o THEN [priced[o] EXCEPT !.from = its.batch]
                       ELSE priced[o]]
        BY <3>1, Zenon DEF Apply
    <3>3. newOnes = new
        BY <1>1
    <3> HIDE DEF newOnes, new
    <3>4. QED
        BY <3>2, <3>3
  <2>3. Cardinality(new) \in Nat
    <3>1. IsFiniteSet(inserted)
      <4>1. inserted \in SUBSET Matches(r.rows)
          OBVIOUS
      <4>2. QED
          BY <1>2, <4>1, MatchesAreFinite, FS_Subset
    <3> DEFINE g == [p \in inserted |-> Target(r)[p]]
    <3>2. g \in Surjection(inserted, new)
        BY DEF Surjection
    <3>3. IsFiniteSet(new)
        BY <3>1, <3>2, FS_Surjection
    <3>4. QED
        BY <3>3, FS_CardinalityType
  <2>4. priced' \in Seq({priced'[o] : o \in DOMAIN priced'})
    <3>1. Len(priced) + Cardinality(new) \in Nat
        BY <2>3, PricesInOrder DEF ImportInv
    <3>2. PICK n \in Nat : n = Len(priced) + Cardinality(new)
        BY <3>1
    <3> HIDE DEF new
    <3>3. priced' = [o \in 1 .. n |-> priced'[o]]
        BY <2>2, <3>2
    <3>4. QED
        BY <3>3, ListOfPrices
  <2>5. old \in Seq(StagedRow) /\ DOMAIN old = DOMAIN r.rows
      BY <1>2 DEF SameStage, ImportInv, ImportTyped
  <2>6. ASSUME NEW i \in DOMAIN old
        PROVE  /\ \E e \in BOOLEAN, a \in Nat :
                     /\ now[i] = [old[i] EXCEPT !.error = e, !.applied = a]
                     /\ old[i].applied # 0 => a # 0
               /\ i \in Written(r.rows) => now[i].applied # 0
    <3>1. old[i] \in StagedRow
        BY <2>5, RowsInOrder
    <3>2. ASSUME i \in Written(r.rows) PROVE Target(r)[r.rows[i].match] \in Nat \ {0}
      <4>1. r.rows[i].match \in Matches(r.rows)
          BY <3>2 DEF Matches
      <4>2. QED
          BY <1>2, <4>1, TargetIsARow DEF ImportInv
    <3>3. CASE i \in Planned(r.rows)
      <4>1. PICK a \in Nat : a = IF i \in Written(r.rows) THEN Target(r)[r.rows[i].match] ELSE old[i].applied
          BY <3>1, <3>2 DEF StagedRow
      <4>2. now[i] = [old[i] EXCEPT !.error = FALSE, !.applied = a]
          BY <2>5, <3>3, <4>1
      <4>3. (old[i].applied # 0 \/ i \in Written(r.rows)) => a # 0
          BY <3>2, <4>1
      <4>4. [old[i] EXCEPT !.error = FALSE, !.applied = a].applied = a
          BY <3>1 DEF StagedRow
      <4>5. QED
          BY <4>2, <4>3, <4>4
    <3>4. CASE i \notin Planned(r.rows)
      <4>1. now[i] = old[i]
          BY <2>5, <3>4
      <4>2. /\ old[i].error \in BOOLEAN /\ old[i].applied \in Nat
            /\ old[i] = [old[i] EXCEPT !.error = old[i].error, !.applied = old[i].applied]
          BY <3>1 DEF StagedRow
      <4>3. i \notin Written(r.rows)
          BY <3>4 DEF Written
      <4>4. QED
          BY <4>1, <4>2, <4>3
    <3>5. QED
        BY <3>3, <3>4
  <2>7. now = [i \in DOMAIN old |-> now[i]]
      BY <2>5
  <2> HIDE DEF now
  <2>8. now \in Seq(StagedRow) /\ SameStage(old, now)
      BY <2>5, <2>6, <2>7, MarkedRows
  <2>9. ASSUME NEW i \in DOMAIN now, ~now[i].listed
        PROVE  Usable(now[i].currency) /\ (now[i].fits => now[i].applied # 0)
    <3>1. i \in DOMAIN old /\ i \in DOMAIN r.rows /\ SameRow(old[i], now[i]) /\ SameRow(r.rows[i], old[i])
        BY <1>2, <2>8 DEF SameStage
    <3>2. /\ ~old[i].listed /\ ~r.rows[i].listed
          /\ r.rows[i].match = old[i].match /\ r.rows[i].how = old[i].how
          /\ r.rows[i].currency = now[i].currency /\ r.rows[i].fits = now[i].fits
        BY <2>9, <3>1 DEF SameRow
    <3>3. old[i].match # Nothing /\ old[i].how # "skipped"
        BY <1>2, <3>1, <3>2 DEF ImportInv, UnaskedArePlanned
    <3>4. i \in Planned(r.rows)
        BY <3>1, <3>2, <3>3 DEF Planned
    <3>5. Usable(now[i].currency)
        BY <1>2, <3>2, <3>4 DEF Refused
    <3>6. now[i].fits => i \in Written(r.rows)
        BY <3>2, <3>4 DEF Written
    <3>7. QED
        BY <2>6, <3>1, <3>5, <3>6
  <2>10. QED
      BY <1>2, <2>1, <2>4, <2>8, <2>9, EndOfConfirm
<1>5. QED
    BY <1>3, <1>4

-----------------------------------------------------------------------------
LEMMA ImportStarts == ASSUME ImportInit PROVE ImportInv
<1>1. ImportTyped
    BY IdleIsARequest DEF ImportInit, ImportTyped
<1>2. QED
    BY <1>1, IdleIsARequest DEF ImportInit, ImportInv, ConfirmsFit, UnaskedArePlanned, AppliedBatchIsWhole

LEMMA ImportSteps == ASSUME ImportInv, [ImportNext]_importVars PROVE ImportInv'
<1>1. CASE ImportNext
  <2>1. ASSUME NEW b \in Batches, NEW file \in Files, Upload(b, file) PROVE ImportInv'
      BY <2>1, UploadKeeps
  <2>2. ASSUME NEW b \in Batches, NEW i \in DOMAIN fileRows[b], SkipRow(b, i) PROVE ImportInv'
      BY <2>2, SkipRowKeeps
  <2>3. ASSUME NEW b \in Batches, NEW i \in DOMAIN fileRows[b], NEW p \in Goods, ResolveRow(b, i, p)
        PROVE  ImportInv'
      BY <2>3, ResolveRowKeeps
  <2>4. ASSUME NEW b \in Batches, Cancel(b) PROVE ImportInv'
      BY <2>4, CancelKeeps
  <2>5. ASSUME NEW b \in Batches, NEW h \in Imports, Confirm(h, b) PROVE ImportInv'
      BY <2>5, ConfirmKeeps
  <2>6. ASSUME NEW h \in Imports, Preflight(h) PROVE ImportInv'
      BY <2>6, PreflightKeeps
  <2>7. ASSUME NEW h \in Imports, Apply(h) PROVE ImportInv'
      BY <2>7, ApplyKeeps
  <2>8. ASSUME NEW h \in Imports, QuickWrite(h) \/ FormWrite(h) \/ Crash(h) PROVE ImportInv'
      BY <2>8, QuickWriteKeeps, FormWriteKeeps, CrashKeeps
  <2>9. ASSUME NEW h \in Imports, NEW p \in Goods, QuickPrice(h, p) PROVE ImportInv'
      BY <2>9, QuickPriceKeeps
  <2>10. ASSUME NEW h \in Imports, NEW p \in Goods, NEW pack \in ImportPacks, AddOffer(h, p, pack)
         PROVE  ImportInv'
      BY <2>10, AddOfferKeeps
  <2>11. ASSUME NEW h \in Imports, NEW o \in DOMAIN priced, NEW pack \in ImportPacks, EditForm(h, o, pack)
         PROVE  ImportInv'
      BY <2>11, EditFormKeeps
  <2>12. ASSUME FirstRate PROVE ImportInv'
      BY <2>12, FirstRateKeeps
  <2>13. QED
      BY <1>1, <2>1, <2>2, <2>3, <2>4, <2>5, <2>6, <2>7, <2>8, <2>9, <2>10, <2>11, <2>12 DEF ImportNext
<1>2. CASE UNCHANGED importVars
  <2>1. \A c \in Batches : SameStage(fileRows[c], fileRows'[c])
      BY <1>2, SameStageHolds DEF importVars
  <2>2. StagesKept
      BY <1>2, <2>1 DEF StagesKept, importVars
  <2>3. \A k \in Imports : ConfirmsFit(import[k])'
      BY <1>2, <2>2, AllStillFit DEF ImportInv, importVars
  <2>4. ImportTyped'
      BY <1>2 DEF ImportInv, ImportTyped, Fields, importVars
  <2>5. UnaskedArePlanned' /\ AppliedBatchIsWhole'
      BY <1>2 DEF ImportInv, UnaskedArePlanned, AppliedBatchIsWhole, Usable, importVars
  <2>6. QED
      BY <2>3, <2>4, <2>5 DEF ImportInv
<1>3. QED
    BY <1>1, <1>2

\* The invariant holds throughout.
THEOREM ImportInvariance == ImportSpec => []ImportInv
<1>1. ImportInit => ImportInv
    BY ImportStarts
<1>2. ImportInv /\ [ImportNext]_importVars => ImportInv'
    BY ImportSteps
<1>3. QED
    BY <1>1, <1>2, PTL DEF ImportSpec

\* A batch that was applied is whole: of the rows nobody was asked about all have
\* a usable currency, and all that have a price were written (apply_batch).
THEOREM AppliedIsWhole == ImportSpec => []AppliedBatchIsWhole
<1>1. ImportInv => AppliedBatchIsWhole
    BY DEF ImportInv
<1>2. QED
    BY <1>1, ImportInvariance, PTL

----------------------------------------------------------------------------
\* An offer of the house shop.
ListedRow ==
    [catalog : {CatalogOf[n] : n \in DOMAIN CatalogOf}, pack : PackSizes \cup {Unset},
     name : DOMAIN CatalogOf \cup {Unset}, price : ShopPrices \cup {0}, guess : BOOLEAN,
     photos : SUBSET Photos, moderation : {"pending", "approved", "rejected"}]

PhotoUpdate == [at : {"idle", "asking"}, draft : Nat, row : DraftRow, caption : CaptionRow]

\* The inductive invariant: a question that a photo's handler still has to ask is
\* about a draft there is.
ListingInv ==
    /\ drafts \in Seq(DraftRow)
    /\ state \in Questions \cup {Unset, "quick_entry"}
    /\ current \in 0 .. Len(drafts)
    /\ handling \in [Uploads -> PhotoUpdate]
    /\ \A h \in Uploads : handling[h].at = "asking" => handling[h].draft \in 1 .. Len(drafts)
    /\ listed \in Seq(ListedRow)
    /\ NoHalfBuiltOffer

\* A set of numbers up to n that is not empty has a greatest.
LEMMA NewestIsThere ==
    ASSUME NEW n \in Nat, NEW ids, ids \subseteq 1 .. n, ids # {}
    PROVE  Newest(ids) \in ids
<1> DEFINE S == {n - d : d \in ids}
<1>1. S \subseteq Nat /\ S # {}
  <2>1. \A d \in ids : n - d \in Nat
      OBVIOUS
  <2>2. QED
      BY <2>1
<1>2. \E k \in S : \A j \in S : k <= j
  <2> HIDE DEF S
  <2>1. QED
      BY <1>1, LeastOfNumbers
<1>3. \E d \in ids : \A e \in ids : e <= d
  <2>1. PICK k \in S : \A j \in S : k <= j
      BY <1>2
  <2>2. PICK d \in ids : k = n - d
      BY <2>1
  <2>3. ASSUME NEW e \in ids PROVE e <= d
    <3>1. n - d <= n - e
        BY <2>1, <2>2
    <3>2. d \in Nat /\ e \in Nat
        OBVIOUS
    <3>3. QED
        BY <3>1, <3>2
  <2>4. QED
      BY <2>3
<1>4. QED
    BY <1>3 DEF Newest

\* The draft an answer is about is an open one.
LEMMA CurrentIsThere ==
    ASSUME drafts \in Seq(DraftRow)
    PROVE  /\ CurrentDraft \in 0 .. Len(drafts)
           /\ CurrentDraft # 0 => CurrentDraft \in 1 .. Len(drafts) /\ drafts[CurrentDraft] \in DraftRow
<1>1. Len(drafts) \in Nat /\ DOMAIN drafts = 1 .. Len(drafts) /\ \A d \in DOMAIN drafts : drafts[d] \in DraftRow
    BY RowsInOrder
<1>2. Open \subseteq 1 .. Len(drafts)
    BY <1>1 DEF Open
<1>3. Open # {} => Newest(Open) \in Open
    BY <1>1, <1>2, NewestIsThere
<1>4. CurrentDraft \in Open \cup {0}
    BY <1>3 DEF CurrentDraft
<1>5. QED
    BY <1>1, <1>2, <1>4

\* Filling in keeps a draft a draft.
LEMMA FilledIsADraft ==
    ASSUME NEW row \in DraftRow, NEW c \in CaptionRow
    PROVE  Filled(row, c) \in DraftRow
<1>1. Inferred(c) \in BOOLEAN
    BY DEF Inferred, CaptionRow
<1>2. QED
    BY <1>1 DEF Filled, DraftRow, CaptionRow

LEMMA EmptyIsADraft == Empty \in DraftRow /\ NoCaption \in CaptionRow
    BY DEF Empty, DraftRow, NoCaption, CaptionRow

\* A question is one, or the draft is saved, which is complete.
LEMMA SavedIsComplete ==
    ASSUME NEW row \in DraftRow, NEW inferred
    PROVE  /\ Question(row, inferred) \in Questions \cup {"save"}
           /\ Question(row, inferred) = "save" => Complete(row)
<1>1. row.price \in Nat
  <2>1. \A v \in ShopPrices : v \in Nat
      BY ListingAssumption DEF ListingAssumption
  <2>2. row.price \in ShopPrices \/ row.price = 0
      BY DEF DraftRow
  <2>3. QED
      BY <2>1, <2>2
<1>2. CASE row.name = Unset
    BY <1>2 DEF Question, Questions
<1>3. CASE row.name # Unset /\ row.pack = Unset
    BY <1>3 DEF Question, Questions
<1>4. CASE row.name # Unset /\ row.pack # Unset /\ row.price = 0
    BY <1>4 DEF Question, Questions, Complete
<1>5. CASE row.name # Unset /\ row.pack # Unset /\ row.price # 0
    BY <1>1, <1>5 DEF Question, Questions, Complete
<1>6. QED
    BY <1>2, <1>3, <1>4, <1>5

\* What apply_draft leaves of the offers.
LEMMA SavedIsWhole ==
    ASSUME ListingInv, NEW row \in DraftRow, Complete(row), listed' = Saved(row)
    PROVE  listed' \in Seq(ListedRow) /\ NoHalfBuiltOffer'
<1> DEFINE same == {o \in DOMAIN listed : listed[o].catalog = MatchDraft(row) /\ listed[o].pack = row.pack}
           o1 == CHOOSE o \in same : \A p \in same : o <= p
           offer == [catalog |-> MatchDraft(row), pack |-> row.pack, name |-> row.name, price |-> row.price,
                     guess |-> row.guess, photos |-> row.photos,
                     moderation |-> IF row.photos = {} THEN "approved" ELSE "pending"]
<1>1. offer \in ListedRow
    BY DEF ListedRow, DraftRow, Complete, MatchDraft
<1>2. offer.name # Unset /\ offer.pack # Unset /\ offer.price > 0
    BY DEF Complete
<1>3. listed' = Append(listed, offer) \/ listed' = [listed EXCEPT ![o1] = offer]
    BY DEF Saved
<1> HIDE DEF offer, o1
<1>4. listed \in Seq(ListedRow)
    BY DEF ListingInv
<1>5. \A o \in DOMAIN listed : listed[o].name # Unset /\ listed[o].pack # Unset /\ listed[o].price > 0
    BY DEF ListingInv, NoHalfBuiltOffer
<1>6. CASE listed' = Append(listed, offer)
  <2>1. listed' \in Seq(ListedRow)
      BY <1>1, <1>4, <1>6
  <2>2. \A o \in DOMAIN listed' : listed'[o] = offer \/ (o \in DOMAIN listed /\ listed'[o] = listed[o])
      BY <1>1, <1>4, <1>6
  <2>3. QED
      BY <1>2, <1>5, <2>1, <2>2 DEF NoHalfBuiltOffer
<1>7. CASE listed' = [listed EXCEPT ![o1] = offer]
  <2>1. listed' \in Seq(ListedRow)
    <3>1. CASE o1 \in DOMAIN listed
        BY <1>1, <1>4, <1>7, <3>1
    <3>2. CASE o1 \notin DOMAIN listed
      <4>1. listed' = listed
          BY <1>4, <1>7, <3>2
      <4>2. QED
          BY <1>4, <4>1
    <3>3. QED
        BY <3>1, <3>2
  <2>2. \A o \in DOMAIN listed' : o \in DOMAIN listed /\ (listed'[o] = offer \/ listed'[o] = listed[o])
      BY <1>4, <1>7
  <2>3. QED
      BY <1>2, <1>5, <2>1, <2>2 DEF NoHalfBuiltOffer
<1>8. QED
    BY <1>3, <1>6, <1>7

\* Asking on, or saving.
LEMMA ContinueKeeps ==
    ASSUME ListingInv, NEW others \in Seq(DraftRow), NEW d \in 1 .. Len(others), NEW row \in DraftRow,
           NEW inferred, Continue(others, d, row, inferred)
    PROVE  /\ drafts' \in Seq(DraftRow) /\ Len(drafts') = Len(others)
           /\ state' \in Questions \cup {Unset, "quick_entry"}
           /\ current' \in 0 .. Len(drafts')
           /\ listed' \in Seq(ListedRow) /\ NoHalfBuiltOffer'
<1>1. CASE Question(row, inferred) = "save"
  <2>1. /\ drafts' = [others EXCEPT ![d].status = "applied"]
        /\ listed' = Saved(row) /\ state' = Unset /\ current' = 0
      BY <1>1 DEF Continue
  <2>2. listed' \in Seq(ListedRow) /\ NoHalfBuiltOffer'
      BY <1>1, <2>1, SavedIsComplete, SavedIsWhole
  <2>3. others[d] \in DraftRow
      BY RowsInOrder
  <2>4. PICK e : e = [others[d] EXCEPT !.status = "applied"]
      OBVIOUS
  <2>5. e \in DraftRow
      BY <2>3, <2>4 DEF DraftRow
  <2>6. drafts' = [others EXCEPT ![d] = e]
      BY <2>1, <2>4
  <2>7. drafts' \in Seq(DraftRow) /\ Len(drafts') = Len(others)
      BY <2>5, <2>6
  <2>8. Len(others) \in Nat
      BY RowsInOrder
  <2>9. QED
      BY <2>1, <2>2, <2>7, <2>8
<1>2. CASE Question(row, inferred) # "save"
  <2>1. drafts' = others /\ state' = Question(row, inferred) /\ current' = d /\ UNCHANGED listed
      BY <1>2 DEF Continue
  <2>2. state' \in Questions
      BY <1>2, <2>1, SavedIsComplete
  <2>3. listed' \in Seq(ListedRow) /\ NoHalfBuiltOffer'
      BY <2>1 DEF ListingInv, NoHalfBuiltOffer
  <2>4. Len(others) \in Nat
      BY RowsInOrder
  <2>5. QED
      BY <2>1, <2>2, <2>3, <2>4
<1>3. QED
    BY <1>1, <1>2

\* An answer of the admin.
LEMMA AnsweredKeeps ==
    ASSUME ListingInv, NEW d \in 1 .. Len(drafts), NEW row \in DraftRow, NEW inferred,
           Answered(d, row, inferred)
    PROVE  ListingInv'
<1>1. drafts \in Seq(DraftRow) /\ Len(drafts) \in Nat
    BY RowsInOrder DEF ListingInv
<1>2. PICK others : others = [drafts EXCEPT ![d] = row]
    OBVIOUS
<1>3. others \in Seq(DraftRow) /\ Len(others) = Len(drafts)
    BY <1>1, <1>2
<1>4. Continue(others, d, row, inferred) /\ UNCHANGED <<handling, sent>>
    BY <1>2 DEF Answered
<1>5. /\ drafts' \in Seq(DraftRow) /\ Len(drafts') = Len(others)
      /\ state' \in Questions \cup {Unset, "quick_entry"}
      /\ current' \in 0 .. Len(drafts')
      /\ listed' \in Seq(ListedRow) /\ NoHalfBuiltOffer'
    BY <1>3, <1>4, ContinueKeeps
<1>6. QED
    BY <1>3, <1>4, <1>5 DEF ListingInv

-----------------------------------------------------------------------------
LEMMA QuickTextKeeps ==
    ASSUME ListingInv, NEW c \in CaptionRow, QuickText(c)
    PROVE  ListingInv'
<1>1. drafts \in Seq(DraftRow) /\ Len(drafts) \in Nat
    BY RowsInOrder DEF ListingInv
<1>2. CASE CurrentDraft # 0 /\ drafts[CurrentDraft].name = Unset
  <2>1. CurrentDraft \in 1 .. Len(drafts) /\ Filled(drafts[CurrentDraft], c) \in DraftRow
      BY <1>1, <1>2, CurrentIsThere, FilledIsADraft
  <2>2. Answered(CurrentDraft, Filled(drafts[CurrentDraft], c), Inferred(c))
      BY <1>2 DEF QuickText
  <2>3. QED
      BY <2>1, <2>2, AnsweredKeeps
<1>3. CASE ~(CurrentDraft # 0 /\ drafts[CurrentDraft].name = Unset)
  <2>1. PICK row : row = Filled(Empty, c)
      OBVIOUS
  <2>2. row \in DraftRow
      BY <2>1, EmptyIsADraft, FilledIsADraft
  <2>3. PICK others : others = Append(drafts, row)
      OBVIOUS
  <2>4. others \in Seq(DraftRow) /\ Len(others) = Len(drafts) + 1
      BY <1>1, <2>2, <2>3
  <2>5. /\ Continue(others, Len(drafts) + 1, row, Inferred(c))
        /\ UNCHANGED <<handling, sent>>
      BY <1>3, <2>1, <2>3 DEF QuickText
  <2>6. Len(drafts) + 1 \in 1 .. Len(others)
      BY <1>1, <2>4
  <2>7. /\ drafts' \in Seq(DraftRow) /\ Len(drafts') = Len(others)
        /\ state' \in Questions \cup {Unset, "quick_entry"}
        /\ current' \in 0 .. Len(drafts')
        /\ listed' \in Seq(ListedRow) /\ NoHalfBuiltOffer'
      BY <2>2, <2>4, <2>5, <2>6, ContinueKeeps
  <2>8. \A h \in Uploads : handling'[h].at = "asking" => handling'[h].draft \in 1 .. Len(drafts')
      BY <1>1, <2>4, <2>5, <2>7 DEF ListingInv, PhotoUpdate
  <2>9. QED
      BY <2>5, <2>7, <2>8 DEF ListingInv
<1>4. QED
    BY <1>2, <1>3

LEMMA ReplyKeeps ==
    ASSUME ListingInv, Reply
    PROVE  ListingInv'
<1>1. drafts \in Seq(DraftRow) /\ Len(drafts) \in Nat
    BY RowsInOrder DEF ListingInv
<1>2. ASSUME CurrentDraft # 0
      PROVE  CurrentDraft \in 1 .. Len(drafts) /\ drafts[CurrentDraft] \in DraftRow
    BY <1>1, <1>2, CurrentIsThere
<1>3. ASSUME NEW c \in Lines, NameText(c) PROVE ListingInv'
  <2>1. CurrentDraft # 0 /\ c.name # Unset
      BY <1>3 DEF NameText
  <2>2. c \in CaptionRow
      BY ListingAssumption DEF ListingAssumption
  <2>3. PICK row : row = [drafts[CurrentDraft] EXCEPT !.name = c.name]
      OBVIOUS
  <2>4. row \in DraftRow
      BY <1>2, <2>1, <2>2, <2>3 DEF DraftRow, CaptionRow
  <2>5. Filled(row, c) \in DraftRow
      BY <2>2, <2>4, FilledIsADraft
  <2>6. Answered(CurrentDraft, Filled(row, c), Inferred(c))
      BY <1>3, <2>3 DEF NameText
  <2>7. QED
      BY <1>2, <2>1, <2>5, <2>6, AnsweredKeeps
<1>4. ASSUME NEW p \in PackSizes, PickPack(p) \/ PackText(p) PROVE ListingInv'
  <2>1. CurrentDraft # 0 /\ Answered(CurrentDraft, [drafts[CurrentDraft] EXCEPT !.pack = p], FALSE)
      BY <1>4 DEF PickPack, PackText
  <2>2. [drafts[CurrentDraft] EXCEPT !.pack = p] \in DraftRow
      BY <1>2, <2>1 DEF DraftRow
  <2>3. QED
      BY <1>2, <2>1, <2>2, AnsweredKeeps
<1>5. ASSUME NEW v \in ShopPrices, PriceText(v) PROVE ListingInv'
  <2>1. CurrentDraft # 0 /\ Answered(CurrentDraft, [drafts[CurrentDraft] EXCEPT !.price = v, !.guess = FALSE], FALSE)
      BY <1>5 DEF PriceText
  <2>2. [drafts[CurrentDraft] EXCEPT !.price = v, !.guess = FALSE] \in DraftRow
      BY <1>2, <2>1 DEF DraftRow
  <2>3. QED
      BY <1>2, <2>1, <2>2, AnsweredKeeps
<1>6. ASSUME PriceOk PROVE ListingInv'
  <2>1. CurrentDraft # 0 /\ Answered(CurrentDraft, [drafts[CurrentDraft] EXCEPT !.guess = FALSE], FALSE)
      BY <1>6 DEF PriceOk
  <2>2. [drafts[CurrentDraft] EXCEPT !.guess = FALSE] \in DraftRow
      BY <1>2, <2>1 DEF DraftRow
  <2>3. QED
      BY <1>2, <2>1, <2>2, AnsweredKeeps
<1>7. QED
    BY <1>3, <1>4, <1>5, <1>6 DEF Reply

LEMMA MenuKeeps ==
    ASSUME ListingInv, AddProduct \/ LeaveDraft \/ OtherPack
    PROVE  ListingInv'
<1>1. /\ UNCHANGED <<drafts, handling, listed>>
      /\ state' \in {"quick_entry", Unset, "entering_pack_size"} /\ current' \in {0, current}
    BY DEF AddProduct, LeaveDraft, OtherPack
<1>2. Len(drafts) \in Nat
    BY RowsInOrder DEF ListingInv
<1>3. QED
    BY <1>1, <1>2 DEF ListingInv, Questions, NoHalfBuiltOffer

LEMMA PriceFixKeeps ==
    ASSUME ListingInv, PriceFix
    PROVE  ListingInv'
<1>1. drafts \in Seq(DraftRow)
    BY DEF ListingInv
<1>2. CurrentDraft \in 1 .. Len(drafts) /\ drafts[CurrentDraft] \in DraftRow
    BY <1>1, CurrentIsThere DEF PriceFix
<1>3. PICK d : d = CurrentDraft
    OBVIOUS
<1>4. PICK row : row = [drafts[d] EXCEPT !.price = 0, !.guess = FALSE]
    OBVIOUS
<1>5. row \in DraftRow
    BY <1>2, <1>3, <1>4 DEF DraftRow
<1>6. drafts' = [drafts EXCEPT ![d] = row]
    BY <1>1, <1>2, <1>3, <1>4 DEF PriceFix, DraftRow
<1>7. drafts' \in Seq(DraftRow) /\ Len(drafts') = Len(drafts)
    BY <1>1, <1>2, <1>3, <1>5, <1>6
<1>8. QED
    BY <1>7 DEF ListingInv, PriceFix, Questions, NoHalfBuiltOffer

LEMMA PhotoArrivesKeeps ==
    ASSUME ListingInv, NEW h \in Uploads, NEW photo \in Photos, NEW album \in Albums \cup {Unset},
           NEW c \in CaptionRow, PhotoArrives(h, photo, album, c)
    PROVE  ListingInv'
<1>1. drafts \in Seq(DraftRow) /\ Len(drafts) \in Nat /\ DOMAIN drafts = 1 .. Len(drafts)
    BY RowsInOrder DEF ListingInv
<1>2. PICK found : found = IF OfAlbum(album) # {} THEN Newest(OfAlbum(album)) ELSE CurrentDraft
    OBVIOUS
<1>3. found \in 0 .. Len(drafts)
  <2>1. OfAlbum(album) \subseteq 1 .. Len(drafts)
      BY <1>1 DEF OfAlbum, Open
  <2>2. OfAlbum(album) # {} => Newest(OfAlbum(album)) \in OfAlbum(album)
      BY <1>1, <2>1, NewestIsThere
  <2>3. QED
      BY <1>1, <1>2, <2>1, <2>2, CurrentIsThere
<1>4. PICK old : old = IF found = 0 THEN Empty ELSE drafts[found]
    OBVIOUS
<1>5. old \in DraftRow
    BY <1>1, <1>3, <1>4, EmptyIsADraft, RowsInOrder
<1>6. PICK stored \in BOOLEAN :
        LET kept == stored /\ Cardinality(old.photos) < MaxPhotos
            row == Filled([old EXCEPT !.photos = IF kept THEN @ \cup {photo} ELSE @,
                                      !.album = IF @ = Unset THEN album ELSE @], c)
            silent == c = NoCaption /\ (~kept \/ (album # Unset /\ row.name # Unset))
        IN  /\ drafts' = IF found = 0 THEN Append(drafts, row) ELSE [drafts EXCEPT ![found] = row]
            /\ handling' = IF silent THEN handling
                           ELSE [handling EXCEPT ![h] =
                               [at |-> "asking", row |-> row, caption |-> c,
                                draft |-> IF found = 0 THEN Len(drafts) + 1 ELSE found]]
    BY <1>2, <1>4 DEF PhotoArrives
<1>7. PICK kept \in BOOLEAN : kept = (stored /\ Cardinality(old.photos) < MaxPhotos)
    OBVIOUS
<1>8. PICK seen : seen = [old EXCEPT !.photos = IF kept THEN @ \cup {photo} ELSE @,
                                     !.album = IF @ = Unset THEN album ELSE @]
    OBVIOUS
<1>9. seen \in DraftRow
    BY <1>5, <1>8 DEF DraftRow
<1>10. PICK row : row = Filled(seen, c)
    OBVIOUS
<1>11. row \in DraftRow
    BY <1>9, <1>10, FilledIsADraft
<1>12. PICK u : u = [at |-> "asking", row |-> row, caption |-> c,
                     draft |-> IF found = 0 THEN Len(drafts) + 1 ELSE found]
    OBVIOUS
<1>13. /\ drafts' = IF found = 0 THEN Append(drafts, row) ELSE [drafts EXCEPT ![found] = row]
       /\ handling' = handling \/ handling' = [handling EXCEPT ![h] = u]
    BY <1>6, <1>7, <1>8, <1>10, <1>12
<1>14. /\ drafts' \in Seq(DraftRow)
       /\ Len(drafts') = IF found = 0 THEN Len(drafts) + 1 ELSE Len(drafts)
    BY <1>1, <1>3, <1>11, <1>13
<1>15. u \in PhotoUpdate /\ u.at = "asking" /\ u.draft \in 1 .. Len(drafts')
    BY <1>1, <1>3, <1>11, <1>12, <1>14 DEF PhotoUpdate
<1>16. handling' \in [Uploads -> PhotoUpdate]
    BY <1>13, <1>15 DEF ListingInv
<1>17. \A k \in Uploads : handling'[k].at = "asking" => handling'[k].draft \in 1 .. Len(drafts')
    BY <1>1, <1>3, <1>13, <1>14, <1>15 DEF ListingInv
<1>18. UNCHANGED <<state, current, listed>>
    BY DEF PhotoArrives
<1>19. current' \in 0 .. Len(drafts')
    BY <1>1, <1>3, <1>14, <1>18 DEF ListingInv
<1>20. QED
    BY <1>14, <1>16, <1>17, <1>18, <1>19 DEF ListingInv, NoHalfBuiltOffer

LEMMA IdleUpdateIsOne == IdleUpdate \in PhotoUpdate /\ IdleUpdate.at = "idle"
    BY EmptyIsADraft DEF IdleUpdate, PhotoUpdate

LEMMA PhotoAsksKeeps ==
    ASSUME ListingInv, NEW h \in Uploads, PhotoAsks(h)
    PROVE  ListingInv'
<1>1. PICK u : u = handling[h]
    OBVIOUS
<1>2. u \in PhotoUpdate /\ u.at = "asking" /\ u.draft \in 1 .. Len(drafts) /\ drafts \in Seq(DraftRow)
    BY <1>1 DEF ListingInv, PhotoAsks
<1>3. u.row \in DraftRow
    BY <1>2 DEF PhotoUpdate
<1>4. Continue(drafts, u.draft, u.row, Inferred(u.caption)) /\ handling' = [handling EXCEPT ![h] = IdleUpdate]
    BY <1>1 DEF PhotoAsks
<1>5. /\ drafts' \in Seq(DraftRow) /\ Len(drafts') = Len(drafts)
      /\ state' \in Questions \cup {Unset, "quick_entry"}
      /\ current' \in 0 .. Len(drafts')
      /\ listed' \in Seq(ListedRow) /\ NoHalfBuiltOffer'
    BY <1>2, <1>3, <1>4, ContinueKeeps
<1>6. /\ handling' \in [Uploads -> PhotoUpdate]
      /\ \A k \in Uploads : handling'[k].at = "asking" => handling'[k].draft \in 1 .. Len(drafts')
    BY <1>4, <1>5, IdleUpdateIsOne DEF ListingInv
<1>7. QED
    BY <1>5, <1>6 DEF ListingInv

LEMMA PhotoDiesKeeps ==
    ASSUME ListingInv, NEW h \in Uploads, PhotoDies(h)
    PROVE  ListingInv'
<1>1. /\ handling' \in [Uploads -> PhotoUpdate]
      /\ \A k \in Uploads : handling'[k].at = "asking" => handling'[k].draft \in 1 .. Len(drafts)
    BY IdleUpdateIsOne DEF ListingInv, PhotoDies
<1>2. QED
    BY <1>1 DEF ListingInv, PhotoDies, NoHalfBuiltOffer

\* Moderation changes nothing but an offer's media.
LEMMA ModerationKeeps ==
    ASSUME ListingInv, NEW o \in DOMAIN listed, Approve(o) \/ Reject(o)
    PROVE  ListingInv'
<1>1. listed \in Seq(ListedRow)
    BY DEF ListingInv
<1>2. listed[o] \in ListedRow
    BY <1>1, RowsInOrder
<1>3. PICK row : row \in { [listed[o] EXCEPT !.moderation = "approved"],
                           [listed[o] EXCEPT !.moderation = "rejected", !.photos = {}] }
                 /\ listed' = [listed EXCEPT ![o] = row]
  <2>1. CASE Approve(o)
      BY <1>1, <1>2, <2>1 DEF Approve
  <2>2. CASE Reject(o)
      BY <1>1, <1>2, <2>2 DEF Reject, ListedRow
  <2>3. QED
      BY <2>1, <2>2
<1>4. row \in ListedRow /\ row.name = listed[o].name /\ row.pack = listed[o].pack /\ row.price = listed[o].price
    BY <1>2, <1>3 DEF ListedRow
<1>5. listed' \in Seq(ListedRow)
    BY <1>1, <1>3, <1>4
<1>6. NoHalfBuiltOffer'
    BY <1>1, <1>3, <1>4 DEF ListingInv, NoHalfBuiltOffer
<1>7. QED
    BY <1>5, <1>6 DEF ListingInv, Approve, Reject

-----------------------------------------------------------------------------
LEMMA ListingStarts == ASSUME ListingInit PROVE ListingInv
    BY IdleUpdateIsOne DEF ListingInit, ListingInv, NoHalfBuiltOffer

LEMMA ListingSteps == ASSUME ListingInv, [ListingNext]_listingVars PROVE ListingInv'
<1>1. CASE Reply
    BY <1>1, ReplyKeeps
<1>2. CASE Detour
  <2>1. Lines \subseteq CaptionRow /\ Captions \cup {NoCaption} \subseteq CaptionRow
      BY ListingAssumption, EmptyIsADraft DEF ListingAssumption
  <2>2. CASE AddProduct \/ LeaveDraft \/ OtherPack
      BY <2>2, MenuKeeps
  <2>3. CASE \E c \in Lines : QuickText(c)
      BY <2>1, <2>3, QuickTextKeeps
  <2>4. CASE PriceFix
      BY <2>4, PriceFixKeeps
  <2>5. ASSUME NEW h \in Uploads, NEW photo \in Photos, NEW album \in Albums \cup {Unset},
               NEW c \in Captions \cup {NoCaption}, PhotoArrives(h, photo, album, c)
        PROVE  ListingInv'
      BY <2>1, <2>5, PhotoArrivesKeeps
  <2>6. CASE \E h \in Uploads : PhotoDies(h)
      BY <2>6, PhotoDiesKeeps
  <2>7. QED
      BY <1>2, <2>2, <2>3, <2>4, <2>5, <2>6 DEF Detour
<1>3. CASE \E h \in Uploads : PhotoAsks(h)
    BY <1>3, PhotoAsksKeeps
<1>4. CASE \E o \in DOMAIN listed : Approve(o) \/ Reject(o)
    BY <1>4, ModerationKeeps
<1>5. CASE UNCHANGED listingVars
    BY <1>5 DEF listingVars, ListingInv, NoHalfBuiltOffer
<1>6. QED
    BY <1>1, <1>2, <1>3, <1>4, <1>5 DEF ListingNext

\* The invariant holds throughout.
THEOREM ListingInvariance == ListingSpec => []ListingInv
<1>1. ListingInit => ListingInv
    BY ListingStarts
<1>2. ListingInv /\ [ListingNext]_listingVars => ListingInv'
    BY ListingSteps
<1>3. QED
    BY <1>1, <1>2, PTL DEF ListingSpec

\* A listing that lacks its name, its pack or its price never becomes an offer,
\* however photos, answers and detours interleave.
THEOREM OffersAreWhole == ListingSpec => []NoHalfBuiltOffer
<1>1. ListingInv => NoHalfBuiltOffer
    BY DEF ListingInv
<1>2. QED
    BY <1>1, ListingInvariance, PTL

----------------------------------------------------------------------------
\* A decision that gives up names no product, and what a request has to write
\* is one guess at most.
Outcome(d) == d \in Decisions /\ (d.status = "unresolved" => d.product = None)
OneGuess(added) ==
    /\ added \subseteq Aliases
    /\ \A x, y \in added : x = y
    /\ \A x \in added : ~x.approved

\* The inductive invariant.
MatchInv ==
    /\ MatchTypeOK
    /\ \A r \in Requests :
        /\ Outcome(asking[r].decision)
        /\ OneGuess(asking[r].added)
        /\ asking[r].at # "idle" => asking[r].name \in Wordings
    /\ AliasesAreFunctional

-----------------------------------------------------------------------------
LEMMA NoMatchIsOne == Outcome(NoMatch)
    BY DEF Outcome, NoMatch, Decision, Decisions

LEMMA DecisionIsOne ==
    ASSUME NEW s \in {"auto_accept", "ask_user"}, NEW p \in Canonical, NEW among, among \subseteq Canonical,
           NEW c \in BOOLEAN, NEW m \in {"none", "alias", "trgm", "llm", "llm_search"}
    PROVE  Outcome(Decision(s, p, among, c, m))
    BY DEF Outcome, Decision, Decisions

\* Every outcome of the search is a decision.
LEMMA MatchedDecides ==
    ASSUME live \subseteq Canonical, NEW name, NEW line, NEW d \in Matched(name, line)
    PROVE  Outcome(d)
<1>1. CASE ByAlias(name, line) # {}
  <2>1. PICK p \in ByAlias(name, line) : d = Decision("auto_accept", p, {p}, FALSE, "alias")
      BY <1>1 DEF Matched
  <2>2. p \in Canonical
      BY <2>1 DEF ByAlias
  <2>3. QED
      BY <2>1, <2>2, DecisionIsOne
<1>2. CASE ByAlias(name, line) = {}
  <2> DEFINE all == Candidates(name)
             fitting == {p \in all : Fits(name, p) /\ Fits(line, p)}
  <2>1. d \in Scored(name, line)
      BY <1>2 DEF Matched
  <2>2. all \subseteq Canonical /\ fitting \subseteq Canonical
      BY DEF Candidates
  <2>3. Ambiguous(name, all) \in BOOLEAN
      BY DEF Ambiguous
  <2>4. \/ d = NoMatch
        \/ \E p \in fitting : d = Decision("ask_user", p, fitting, TRUE, "trgm")
        \/ \E p \in fitting : d = Decision("auto_accept", p, all, FALSE, "trgm")
        \/ \E p \in all : d = Decision("ask_user", p, all, Ambiguous(name, all), "trgm")
        \/ d = Decision("unresolved", None, all, FALSE, "trgm")
      BY <2>1, Zenon DEF Scored
  <2> HIDE DEF all, fitting
  <2>5. CASE d = Decision("unresolved", None, all, FALSE, "trgm")
      BY <2>2, <2>5 DEF Outcome, Decision, Decisions
  <2>6. CASE d = NoMatch
      BY <2>6, NoMatchIsOne
  <2>7. CASE \E p \in fitting : d = Decision("ask_user", p, fitting, TRUE, "trgm")
      BY <2>2, <2>7, DecisionIsOne
  <2>8. CASE \E p \in fitting : d = Decision("auto_accept", p, all, FALSE, "trgm")
      BY <2>2, <2>8, DecisionIsOne
  <2>9. CASE \E p \in all : d = Decision("ask_user", p, all, Ambiguous(name, all), "trgm")
      BY <2>2, <2>3, <2>9, DecisionIsOne
  <2>10. QED
      BY <2>4, <2>5, <2>6, <2>7, <2>8, <2>9
<1>3. QED
    BY <1>1, <1>2

LEMMA NoGuess == OneGuess({})
    BY DEF OneGuess

LEMMA GuessIsOne ==
    ASSUME NEW name \in Wordings, NEW p \in Canonical
    PROVE  OneGuess(Guess(name, p))
<1>1. Guess(name, p) \subseteq {Alias(name, p, FALSE)}
    BY DEF Guess
<1>2. Alias(name, p, FALSE) \in Aliases /\ ~Alias(name, p, FALSE).approved
    BY DEF Alias, Aliases
<1>3. QED
    BY <1>1, <1>2 DEF OneGuess

\* What is left of the model's answer is a decision with a guess at most, and no
\* guess without a product.
LEMMA AppliedDecides ==
    ASSUME NEW name \in Wordings, NEW d, Outcome(d), NEW answer,
           answer.product \in d.candidates \cup {None}, answer.question \in BOOLEAN
    PROVE  /\ Outcome(Applied(name, d, answer).decision)
           /\ OneGuess(Applied(name, d, answer).added)
           /\ Applied(name, d, answer).decision.product = None => Applied(name, d, answer).added = {}
<1> DEFINE p == answer.product
           weak == p = None \/ answer.sure = "no"
<1>1. d \in Decisions
    BY DEF Outcome
<1>2. CASE p # None /\ ~StillOnSale(p)
  <2>1. Applied(name, d, answer) = [decision |-> [NoMatch EXCEPT !.method = d.method], added |-> {}]
      BY <1>2 DEF Applied
  <2>2. Outcome([NoMatch EXCEPT !.method = d.method])
      BY <1>1 DEF Outcome, NoMatch, Decision, Decisions
  <2>3. QED
      BY <2>1, <2>2, NoGuess
<1>3. CASE ~(p # None /\ ~StillOnSale(p)) /\ p # None /\ (Generic(name, p) \/ ~Fits(name, p))
  <2>1. Applied(name, d, answer) = [decision |-> [d EXCEPT !.status = "ask_user", !.clarify = TRUE], added |-> {}]
      BY <1>3 DEF Applied
  <2>2. Outcome([d EXCEPT !.status = "ask_user", !.clarify = TRUE])
      BY <1>1 DEF Outcome, Decisions
  <2>3. QED
      BY <2>1, <2>2, NoGuess
<1>4. CASE ~(p # None /\ ~StillOnSale(p)) /\ ~(p # None /\ (Generic(name, p) \/ ~Fits(name, p))) /\ weak
  <2>1. Applied(name, d, answer) = [decision |-> [d EXCEPT !.clarify = answer.question], added |-> {}]
      BY <1>4 DEF Applied
  <2>2. Outcome([d EXCEPT !.clarify = answer.question])
      BY <1>1 DEF Outcome, Decisions
  <2>3. QED
      BY <2>1, <2>2, NoGuess
<1>5. CASE ~(p # None /\ ~StillOnSale(p)) /\ ~(p # None /\ (Generic(name, p) \/ ~Fits(name, p))) /\ ~weak
  <2>1. PICK s \in {"auto_accept", "ask_user"} :
            s = IF answer.sure = "yes" /\ ~answer.question THEN "auto_accept" ELSE "ask_user"
      OBVIOUS
  <2>2. Applied(name, d, answer) =
            [decision |-> Decision(s, p, {p}, answer.question, "llm"), added |-> Guess(name, p)]
      BY <1>5, <2>1 DEF Applied
  <2>3. p \in Canonical
      BY <1>1, <1>5 DEF Decisions
  <2>4. Outcome(Decision(s, p, {p}, answer.question, "llm"))
      BY <2>3, DecisionIsOne
  <2>5. OneGuess(Guess(name, p))
      BY <2>3, GuessIsOne
  <2>6. Decision(s, p, {p}, answer.question, "llm").product # None
      BY <1>5 DEF Decision
  <2>7. QED
      BY <2>2, <2>4, <2>5, <2>6
<1>6. QED
    BY <1>2, <1>3, <1>4, <1>5

\* So is what comes of searching with the model's wording.
LEMMA SettledDecides ==
    ASSUME live \subseteq Canonical, NEW name \in Wordings, NEW d, Outcome(d), NEW answer,
           answer.product \in d.candidates \cup {None}, answer.question \in BOOLEAN,
           NEW s \in Settled(name, d, answer)
    PROVE  Outcome(s.decision) /\ OneGuess(s.added)
<1>1. PICK a : a = Applied(name, d, answer)
    OBVIOUS
<1>2. Outcome(a.decision) /\ OneGuess(a.added) /\ (a.decision.product = None => a.added = {})
    BY <1>1, AppliedDecides
<1>3. CASE s = a
    BY <1>2, <1>3
<1>4. CASE a.decision.product = None /\ s \in Retried(name, a, answer)
  <2>1. PICK again \in Matched(answer.term, name) :
            s = IF again.product = None THEN a
                ELSE IF ~Fits(name, again.product)
                THEN [a EXCEPT !.decision.status = "ask_user",
                               !.decision.candidates = again.candidates, !.decision.clarify = TRUE]
                ELSE [decision |-> [again EXCEPT !.method = "llm_search",
                                                 !.clarify = again.clarify \/ answer.question],
                      added |-> a.added \cup Guess(name, again.product)]
      BY <1>4 DEF Retried
  <2>2. Outcome(again)
      BY MatchedDecides
  <2>3. again \in Decisions /\ a.decision \in Decisions
      BY <1>2, <2>2 DEF Outcome
  <2>4. CASE again.product = None
      BY <1>2, <2>1, <2>4
  <2>5. CASE again.product # None /\ ~Fits(name, again.product)
    <3>1. PICK e : e = [a.decision EXCEPT !.status = "ask_user", !.candidates = again.candidates, !.clarify = TRUE]
        OBVIOUS
    <3>2. s.decision = e /\ s.added = a.added
        BY <1>1, <2>1, <2>3, <2>5, <3>1 DEF Applied, Decisions
    <3>3. Outcome(e)
        BY <2>3, <3>1 DEF Outcome, Decisions
    <3>4. QED
        BY <1>2, <3>2, <3>3
  <2>6. CASE again.product # None /\ Fits(name, again.product)
    <3>1. PICK e : e = [again EXCEPT !.method = "llm_search", !.clarify = again.clarify \/ answer.question]
        OBVIOUS
    <3>2. s = [decision |-> e, added |-> a.added \cup Guess(name, again.product)]
        BY <2>1, <2>6, <3>1
    <3>3. again.product \in Canonical
        BY <2>3, <2>6 DEF Decisions
    <3>4. (again.clarify \/ answer.question) \in BOOLEAN
        OBVIOUS
    <3>5. Outcome(e)
        BY <2>2, <2>3, <3>1, <3>4 DEF Outcome, Decisions
    <3>6. a.added \cup Guess(name, again.product) = Guess(name, again.product)
        BY <1>2, <1>4
    <3>7. QED
        BY <3>2, <3>3, <3>5, <3>6, GuessIsOne
  <2>7. QED
      BY <2>4, <2>5, <2>6
<1>5. QED
    BY <1>1, <1>3, <1>4 DEF Settled

-----------------------------------------------------------------------------
Asking ==
    [at : {"idle", "waiting", "decided", "shown", "failed"}, name : Wordings \cup {None},
     decision : Decisions, added : SUBSET Aliases]

\* What the invariant says of one request.
Sound(q) ==
    /\ q \in Asking
    /\ Outcome(q.decision)
    /\ OneGuess(q.added)
    /\ q.at # "idle" => q.name \in Wordings

LEMMA RequestsAreSound ==
    ASSUME MatchInv, NEW r \in Requests
    PROVE  Sound(asking[r])
    BY DEF MatchInv, MatchTypeOK, Sound, Asking

LEMMA IdleIsSound == Sound(IdleRequest)
    BY NoMatchIsOne, NoGuess DEF Sound, IdleRequest, Asking, Outcome

\* A step that changes one request, to a sound one, and no table.
LEMMA RequestKeeps ==
    ASSUME MatchInv, NEW r \in Requests, NEW q, Sound(q), asking' = [asking EXCEPT ![r] = q],
           UNCHANGED <<live, aliases, queue, asked>>, lines' \in [Requests -> 0 .. MaxLines]
    PROVE  MatchInv'
<1>1. \A k \in Requests : asking'[k] = q \/ asking'[k] = asking[k]
    BY DEF MatchInv, MatchTypeOK
<1>2. \A k \in Requests : Sound(asking'[k])
    BY <1>1, RequestsAreSound
<1>3. asking' \in [Requests -> Asking]
  <2>1. asking \in [Requests -> Asking]
      BY DEF MatchInv, MatchTypeOK, Asking
  <2>2. q \in Asking
      BY DEF Sound
  <2>3. QED
      BY <2>1, <2>2
<1>4. MatchTypeOK'
    BY <1>3 DEF MatchInv, MatchTypeOK, Asking
<1>5. AliasesAreFunctional'
    BY DEF MatchInv, AliasesAreFunctional
<1>6. QED
    BY <1>2, <1>4, <1>5 DEF MatchInv, Sound

LEMMA SearchKeeps ==
    ASSUME MatchInv, NEW r \in Requests, NEW n \in Wordings, Search(r, n)
    PROVE  MatchInv'
<1>1. PICK d \in Matched(n, n) :
        asking' = [asking EXCEPT ![r] = [at |-> IF NeedsModel(d) THEN "waiting" ELSE "decided",
                                         name |-> n, decision |-> d, added |-> {}]]
    BY DEF Search
<1>2. PICK q : q = [at |-> IF NeedsModel(d) THEN "waiting" ELSE "decided",
                    name |-> n, decision |-> d, added |-> {}]
    OBVIOUS
<1>3. Outcome(d)
    BY MatchedDecides DEF MatchInv, MatchTypeOK
<1>4. Sound(q)
    BY <1>2, <1>3, NoGuess DEF Sound, Asking, Outcome
<1>5. lines' \in [Requests -> 0 .. MaxLines]
  <2>1. lines \in [Requests -> 0 .. MaxLines] /\ lines[r] < MaxLines /\ lines' = [lines EXCEPT ![r] = lines[r] + 1]
      BY DEF Search, MatchInv, MatchTypeOK
  <2>2. MaxLines \in Nat
      BY MatchingAssumption DEF MatchingAssumption
  <2>3. lines[r] + 1 \in 0 .. MaxLines
      BY <2>1, <2>2
  <2>4. QED
      BY <2>1, <2>3
<1>6. QED
    BY <1>1, <1>2, <1>4, <1>5, RequestKeeps DEF Search

LEMMA SettleKeeps ==
    ASSUME MatchInv, NEW r \in Requests, Settle(r)
    PROVE  MatchInv'
<1>1. PICK u : u = asking[r]
    OBVIOUS
<1>2. Sound(u) /\ u.at = "waiting"
    BY <1>1, RequestsAreSound DEF Settle
<1>3. PICK answer \in Answers(r) :
        \E s \in Settled(asking[r].name, asking[r].decision, answer) :
            asking' = [asking EXCEPT ![r] = [asking[r] EXCEPT !.at = "decided", !.decision = s.decision,
                                                              !.added = s.added]]
    BY Zenon DEF Settle
<1>4. answer.product \in u.decision.candidates \cup {None} /\ answer.question \in BOOLEAN
    BY <1>1 DEF Answers
<1>5. live \subseteq Canonical
    BY DEF MatchInv, MatchTypeOK
<1>6. u.name \in Wordings /\ Outcome(u.decision)
    BY <1>2 DEF Sound
<1>7. PICK s \in Settled(u.name, u.decision, answer) :
        asking' = [asking EXCEPT ![r] = [u EXCEPT !.at = "decided", !.decision = s.decision, !.added = s.added]]
    BY <1>1, <1>3
<1>8. Outcome(s.decision) /\ OneGuess(s.added)
    BY <1>4, <1>5, <1>6, <1>7, SettledDecides
<1>9. PICK q : q = [u EXCEPT !.at = "decided", !.decision = s.decision, !.added = s.added]
    OBVIOUS
<1>10. Sound(q)
    BY <1>2, <1>6, <1>8, <1>9 DEF Sound, Asking, Outcome, OneGuess
<1>11. lines' \in [Requests -> 0 .. MaxLines]
    BY DEF Settle, MatchInv, MatchTypeOK
<1>12. QED
    BY <1>7, <1>9, <1>10, <1>11, RequestKeeps DEF Settle

\* A request that only gets on, is given up or ends.
LEMMA LaterKeeps ==
    ASSUME MatchInv, NEW r \in Requests, NEW at \in {"decided", "failed"}, asking[r].at # "idle",
           asking' = [asking EXCEPT ![r].at = at] \/ asking' = [asking EXCEPT ![r] = IdleRequest],
           UNCHANGED <<live, aliases, queue, lines, asked>>
    PROVE  MatchInv'
<1>1. PICK q : q = [asking[r] EXCEPT !.at = at]
    OBVIOUS
<1>2. Sound(q)
    BY <1>1, RequestsAreSound DEF Sound, Asking
<1>3. asking' = [asking EXCEPT ![r] = q] \/ asking' = [asking EXCEPT ![r] = IdleRequest]
    BY <1>1
<1>4. lines' \in [Requests -> 0 .. MaxLines]
    BY DEF MatchInv, MatchTypeOK
<1>5. QED
    BY <1>2, <1>3, <1>4, IdleIsSound, RequestKeeps

LEMMA NoAnswerKeeps ==
    ASSUME MatchInv, NEW r \in Requests, NoAnswer(r)
    PROVE  MatchInv'
    BY LaterKeeps DEF NoAnswer

LEMMA PickFailsKeeps ==
    ASSUME MatchInv, NEW r \in Requests, NEW p \in Canonical, PickFails(r, p)
    PROVE  MatchInv'
    BY LaterKeeps DEF PickFails

LEMMA LeaveKeeps ==
    ASSUME MatchInv, NEW r \in Requests, Leave(r)
    PROVE  MatchInv'
    BY LaterKeeps DEF Leave

-----------------------------------------------------------------------------
\* The meaning of a name in the tables.
OneMeaning(table) ==
    \A a, b \in table :
        a.name = b.name /\ (a.product = b.product \/ (a.approved /\ b.approved)) => a = b

\* The constraints keep it, for one row or none that is written.
LEMMA AllowedIsOneMeaning ==
    ASSUME OneMeaning(aliases), NEW added, \A x, y \in added : x = y, \A new \in added : Allows(new)
    PROVE  OneMeaning(aliases \cup added)
<1> SUFFICES ASSUME NEW a \in aliases \cup added, NEW b \in aliases \cup added,
                    a.name = b.name, a.product = b.product \/ (a.approved /\ b.approved)
             PROVE  a = b
    BY DEF OneMeaning
<1>1. CASE a \in aliases /\ b \in aliases
    BY <1>1 DEF OneMeaning
<1>2. CASE a \in added /\ b \in added
    BY <1>2
<1>3. CASE a \in aliases /\ b \in added
    BY <1>3 DEF Allows
<1>4. CASE a \in added /\ b \in aliases
    BY <1>4 DEF Allows
<1>5. QED
    BY <1>1, <1>2, <1>3, <1>4

\* A step that writes tables, and ends or shows at most one request.
LEMMA TablesKeep ==
    ASSUME MatchInv, UNCHANGED lines, live' \subseteq Canonical,
           aliases' \subseteq Aliases, OneMeaning(aliases'),
           queue' \in [Wordings -> {"absent", "new", "resolved", "junk"}], asked' \subseteq Wordings,
           \A n \in Wordings : queue'[n] # "absent" <=> n \in asked',
           asking' \in [Requests -> Asking], \A r \in Requests : Sound(asking'[r])
    PROVE  MatchInv'
<1>1. MatchTypeOK'
    BY DEF MatchInv, MatchTypeOK, Asking
<1>2. AliasesAreFunctional'
    BY DEF AliasesAreFunctional, OneMeaning
<1>3. QED
    BY <1>1, <1>2 DEF MatchInv, Sound

LEMMA TablesNow ==
    ASSUME MatchInv
    PROVE  /\ live \subseteq Canonical /\ aliases \subseteq Aliases /\ OneMeaning(aliases)
           /\ queue \in [Wordings -> {"absent", "new", "resolved", "junk"}] /\ asked \subseteq Wordings
           /\ \A n \in Wordings : queue[n] # "absent" <=> n \in asked
           /\ asking \in [Requests -> Asking] /\ \A r \in Requests : Sound(asking[r])
    BY RequestsAreSound DEF MatchInv, MatchTypeOK, AliasesAreFunctional, OneMeaning, Asking

LEMMA CommitKeeps ==
    ASSUME MatchInv, NEW r \in Requests, Commit(r)
    PROVE  MatchInv'
<1>1. PICK u : u = asking[r]
    OBVIOUS
<1>2. Sound(u) /\ u.at = "decided" /\ u.name \in Wordings
    BY <1>1, RequestsAreSound DEF Commit, Sound
<1>3. UNCHANGED <<live, lines>>
    BY DEF Commit
<1>4. CASE \A new \in u.added : Allows(new)
  <2>1. /\ aliases' = aliases \cup u.added
        /\ queue' = IF Gap(u.decision) THEN Enqueue(u.name) ELSE queue
        /\ asked' = IF u.decision.product = None /\ u.decision.status = "unresolved"
                    THEN asked \cup {u.name} ELSE asked
        /\ asking' = [asking EXCEPT ![r] = [u EXCEPT !.at = "shown", !.added = {}]]
      BY <1>1, <1>4 DEF Commit
  <2>2. PICK q : q = [u EXCEPT !.at = "shown", !.added = {}]
      OBVIOUS
  <2>3. Sound(q)
      BY <1>2, <2>2, NoGuess DEF Sound, Asking
  <2>4. asking' \in [Requests -> Asking] /\ \A k \in Requests : Sound(asking'[k])
      BY <2>1, <2>2, <2>3, TablesNow DEF Sound
  <2>5. OneMeaning(aliases')
      BY <1>2, <1>4, <2>1, TablesNow, AllowedIsOneMeaning DEF Sound, OneGuess
  <2>6. aliases' \subseteq Aliases
      BY <1>2, <2>1, TablesNow DEF Sound, OneGuess
  <2>7. Gap(u.decision) => u.decision.product = None
      BY <1>2 DEF Sound, Outcome, Gap
  <2>8. CASE Gap(u.decision)
    <3>1. asked' = asked \cup {u.name}
        BY <2>1, <2>7, <2>8 DEF Gap
    <3>2. queue' = [queue EXCEPT ![u.name] = IF queue[u.name] = "absent" THEN "new" ELSE queue[u.name]]
        BY <2>1, <2>8 DEF Enqueue
    <3>3. queue' \in [Wordings -> {"absent", "new", "resolved", "junk"}]
        BY <1>2, <3>2, TablesNow
    <3>4. \A n \in Wordings : queue'[n] # "absent" <=> n \in asked'
        BY <1>2, <3>1, <3>2, TablesNow
    <3>5. asked' \subseteq Wordings
        BY <1>2, <3>1, TablesNow
    <3>6. QED
        BY <1>3, <2>4, <2>5, <2>6, <3>3, <3>4, <3>5, TablesNow, TablesKeep
  <2>9. CASE ~Gap(u.decision)
    <3>1. queue' = queue /\ asked' = asked
        BY <2>1, <2>9 DEF Gap
    <3>2. QED
        BY <1>3, <2>4, <2>5, <2>6, <3>1, TablesNow, TablesKeep
  <2>10. QED
      BY <2>8, <2>9
<1>5. CASE ~\A new \in u.added : Allows(new)
    BY <1>1, <1>2, <1>3, <1>5, LaterKeeps DEF Commit
<1>6. QED
    BY <1>4, <1>5

LEMMA PickKeeps ==
    ASSUME MatchInv, NEW r \in Requests, NEW p \in Canonical, Pick(r, p)
    PROVE  MatchInv'
<1>1. PICK u : u = asking[r]
    OBVIOUS
<1>2. u.name \in Wordings
    BY <1>1, RequestsAreSound DEF Pick, Sound
<1>3. PICK learned : learned = Learned(u.name, p)
    OBVIOUS
<1>4. learned \subseteq {Alias(u.name, p, TRUE)}
    BY <1>3 DEF Learned
<1>5. learned \subseteq Aliases
  <2>1. Alias(u.name, p, TRUE) \in Aliases
      BY <1>2 DEF Alias, Aliases
  <2>2. QED
      BY <1>4, <2>1
<1>6. aliases' = aliases \cup learned /\ \A new \in learned : Allows(new)
    BY <1>1, <1>3 DEF Pick
<1>7. \A x, y \in learned : x = y
    BY <1>4
<1>8. OneMeaning(aliases') /\ aliases' \subseteq Aliases
    BY <1>5, <1>6, <1>7, TablesNow, AllowedIsOneMeaning
<1>9. asking' = [asking EXCEPT ![r] = IdleRequest] /\ UNCHANGED <<live, queue, lines, asked>>
    BY DEF Pick
<1>10. asking' \in [Requests -> Asking] /\ \A k \in Requests : Sound(asking'[k])
    BY <1>9, IdleIsSound, TablesNow DEF Sound
<1>11. QED
    BY <1>8, <1>9, <1>10, TablesNow, TablesKeep

LEMMA ApproveAliasKeeps ==
    ASSUME MatchInv, NEW a \in aliases, ApproveAlias(a)
    PROVE  MatchInv'
<1>1. PICK new : new = [a EXCEPT !.approved = TRUE]
    OBVIOUS
<1>2. a \in Aliases
    BY TablesNow
<1>3. new \in Aliases /\ new.name = a.name /\ new.product = a.product
    BY <1>1, <1>2 DEF Aliases
<1>4. /\ aliases' = (aliases \ {a}) \cup {new} /\ Approved(a.name) = {}
      /\ UNCHANGED <<live, queue, asking, lines, asked>>
    BY <1>1 DEF ApproveAlias
<1>5. \A b \in aliases \ {a} : b.name = a.name => b.product # a.product /\ ~b.approved
  <2>1. \A b \in aliases : ~(b.name = a.name /\ b.approved)
      BY <1>4 DEF Approved
  <2>2. \A b \in aliases : b.name = a.name /\ b.product = a.product => b = a
      BY TablesNow DEF OneMeaning
  <2>3. QED
      BY <2>1, <2>2
<1>6. OneMeaning(aliases')
  <2> SUFFICES ASSUME NEW x \in (aliases \ {a}) \cup {new}, NEW y \in (aliases \ {a}) \cup {new},
                      x.name = y.name, x.product = y.product \/ (x.approved /\ y.approved)
               PROVE  x = y
      BY <1>4 DEF OneMeaning
  <2>1. CASE x \in aliases \ {a} /\ y \in aliases \ {a}
      BY <2>1, TablesNow DEF OneMeaning
  <2>2. CASE x = new /\ y \in aliases \ {a}
      BY <1>3, <1>5, <2>2
  <2>3. CASE x \in aliases \ {a} /\ y = new
      BY <1>3, <1>5, <2>3
  <2>4. QED
      BY <2>1, <2>2, <2>3
<1>7. aliases' \subseteq Aliases
    BY <1>3, <1>4, TablesNow
<1>8. QED
    BY <1>4, <1>6, <1>7, TablesNow, TablesKeep

LEMMA RejectAliasKeeps ==
    ASSUME MatchInv, NEW a \in aliases, RejectAlias(a)
    PROVE  MatchInv'
<1>1. aliases' = aliases \ {a} /\ UNCHANGED <<live, queue, asking, lines, asked>>
    BY DEF RejectAlias
<1>2. OneMeaning(aliases') /\ aliases' \subseteq Aliases
    BY <1>1, TablesNow DEF OneMeaning
<1>3. QED
    BY <1>1, <1>2, TablesNow, TablesKeep

LEMMA ResolveGapKeeps ==
    ASSUME MatchInv, NEW n \in Wordings, NEW p \in Canonical, ResolveGap(n, p)
    PROVE  MatchInv'
<1>1. PICK new : new = Alias(n, p, TRUE)
    OBVIOUS
<1>2. new \in Aliases
    BY <1>1 DEF Alias, Aliases
<1>3. /\ aliases' = aliases \cup {new} /\ Allows(new) /\ queue[n] = "new"
      /\ queue' = [queue EXCEPT ![n] = "resolved"] /\ UNCHANGED <<live, asking, lines, asked>>
    BY <1>1 DEF ResolveGap
<1>4. OneMeaning(aliases') /\ aliases' \subseteq Aliases
    BY <1>2, <1>3, TablesNow, AllowedIsOneMeaning
<1>5. /\ queue' \in [Wordings -> {"absent", "new", "resolved", "junk"}]
      /\ \A m \in Wordings : queue'[m] # "absent" <=> m \in asked'
    BY <1>3, TablesNow
<1>6. QED
    BY <1>3, <1>4, <1>5, TablesNow, TablesKeep

LEMMA MarkJunkKeeps ==
    ASSUME MatchInv, NEW n \in Wordings, MarkJunk(n)
    PROVE  MatchInv'
<1>1. /\ queue[n] = "new" /\ queue' = [queue EXCEPT ![n] = "junk"]
      /\ UNCHANGED <<live, aliases, asking, lines, asked>>
    BY DEF MarkJunk
<1>2. /\ queue' \in [Wordings -> {"absent", "new", "resolved", "junk"}]
      /\ \A m \in Wordings : queue'[m] # "absent" <=> m \in asked'
    BY <1>1, TablesNow
<1>3. QED
    BY <1>1, <1>2, TablesNow, TablesKeep

LEMMA CatalogueChangesKeeps ==
    ASSUME MatchInv, NEW p \in Canonical, CatalogueChanges(p)
    PROVE  MatchInv'
<1>1. live' \subseteq Canonical /\ UNCHANGED <<aliases, queue, asking, lines, asked>>
    BY TablesNow DEF CatalogueChanges
<1>2. QED
    BY <1>1, TablesNow, TablesKeep

-----------------------------------------------------------------------------
LEMMA MatchStarts == ASSUME MatchInit PROVE MatchInv
<1>1. asking \in [Requests -> Asking] /\ \A r \in Requests : Sound(asking[r])
    BY IdleIsSound DEF MatchInit, Sound
<1>2. MatchTypeOK
  <2>1. lines \in [Requests -> 0 .. MaxLines]
      BY MatchingAssumption DEF MatchingAssumption, MatchInit
  <2>2. QED
      BY <1>1, <2>1 DEF MatchInit, MatchTypeOK, Asking
<1>3. AliasesAreFunctional
    BY DEF MatchInit, AliasesAreFunctional
<1>4. QED
    BY <1>1, <1>2, <1>3 DEF MatchInv, Sound

LEMMA MatchSteps == ASSUME MatchInv, [MatchNext]_matchVars PROVE MatchInv'
<1>1. ASSUME NEW r \in Requests, NEW n \in Wordings, Search(r, n) PROVE MatchInv'
    BY <1>1, SearchKeeps
<1>2. ASSUME NEW r \in Requests, Settle(r) \/ NoAnswer(r) \/ Commit(r) \/ Leave(r) PROVE MatchInv'
    BY <1>2, SettleKeeps, NoAnswerKeeps, CommitKeeps, LeaveKeeps
<1>3. ASSUME NEW r \in Requests, NEW p \in Canonical, Pick(r, p) \/ PickFails(r, p) PROVE MatchInv'
    BY <1>3, PickKeeps, PickFailsKeeps
<1>4. ASSUME NEW a \in aliases, ApproveAlias(a) \/ RejectAlias(a) PROVE MatchInv'
    BY <1>4, ApproveAliasKeeps, RejectAliasKeeps
<1>5. ASSUME NEW n \in Wordings, MarkJunk(n) PROVE MatchInv'
    BY <1>5, MarkJunkKeeps
<1>6. ASSUME NEW n \in Wordings, NEW p \in Canonical, ResolveGap(n, p) PROVE MatchInv'
    BY <1>6, ResolveGapKeeps
<1>7. ASSUME NEW p \in Canonical, CatalogueChanges(p) PROVE MatchInv'
    BY <1>7, CatalogueChangesKeeps
<1>8. CASE UNCHANGED matchVars
    BY <1>8, TablesNow, TablesKeep DEF matchVars
<1>9. QED
    BY <1>1, <1>2, <1>3, <1>4, <1>5, <1>6, <1>7, <1>8 DEF MatchNext

\* The invariant holds throughout.
THEOREM MatchInvariance == MatchSpec => []MatchInv
<1>1. MatchInit => MatchInv
    BY MatchStarts
<1>2. MatchInv /\ [MatchNext]_matchVars => MatchInv'
    BY MatchSteps
<1>3. QED
    BY <1>1, <1>2, PTL DEF MatchSpec

\* A name has one approved meaning and one row for each product, and exactly what
\* nobody could match is in the queue, whoever writes at the same time.
THEOREM NamesHaveOneMeaning == MatchSpec => []AliasesAreFunctional
<1>1. MatchInv => AliasesAreFunctional
    BY DEF MatchInv
<1>2. QED
    BY <1>1, MatchInvariance, PTL

-----------------------------------------------------------------------------
\* CatalogRelease: what a deploy, an import and administrators may put where.

ShelfRow == [maker : {"deploy", "import", "admin"}, born : Nat, source : {"supplier", "admin"},
               plain : BOOLEAN, state : {"on", "archived", "retired"}]

\* A row a script inserted has its article's one slug; an administrator's row
\* is never the supplier's; only a deploy's row is ever retired.
Shelved(s, row) ==
    /\ row \in ShelfRow
    /\ row.maker # "admin" => s = SlugInWorkbook(s.article)
    /\ row.maker = "admin" => row.source = "admin"
    /\ row.state = "retired" => row.maker = "deploy"

\* A deploy's offer is of the product that the same deploy made.
OffersAreRight ==
    \A s \in DOMAIN stocked :
        /\ s \in DOMAIN shelf
        /\ stocked[s] \in [by : {"deploy", "admin"}, born : Nat, price : {"list", "own"}]
        /\ stocked[s].by = "deploy" => /\ shelf[s].maker = "deploy"
                                       /\ shelf[s].born = stocked[s].born

\* What a deploy is about to insert is not there, and what it is about to
\* retire a deploy put there.
DeployIsSound ==
    /\ deploy.number \in Nat
    /\ deploy.todo \subseteq Transcribed
    /\ \A s \in deploy.added : s = SlugInWorkbook(s.article) /\ s \notin DOMAIN shelf
    /\ \A s \in deploy.retiring : s \in DOMAIN shelf /\ shelf[s].maker = "deploy"

ReleaseInv ==
    /\ \A s \in DOMAIN shelf : Shelved(s, shelf[s])
    /\ OffersAreRight
    /\ DeployIsSound
    /\ \A s \in loading.adding : s = SlugInWorkbook(s.article)

LEMMA TheInvariantIsEnough == ReleaseInv => ReleasesKeepTheCatalogue
BY DEF ReleaseInv, Shelved, OffersAreRight, ReleasesKeepTheCatalogue, ArticlesAreListedOnce,
       StockIsNotInvented, RetiresOnlyItsOwn

\* As long as products keep their maker, offers stay right.
LEMMA OffersStay ==
    ASSUME OffersAreRight, stocked' = stocked,
           \A s \in DOMAIN shelf : /\ s \in DOMAIN shelf'
                                   /\ shelf'[s].maker = shelf[s].maker
                                   /\ shelf'[s].born = shelf[s].born
    PROVE  OffersAreRight'
BY DEF OffersAreRight

LEMMA DeployStays ==
    ASSUME DeployIsSound, deploy' = deploy,
           \A s \in DOMAIN shelf : s \in DOMAIN shelf' /\ shelf'[s].maker = shelf[s].maker,
           DOMAIN shelf' \cap deploy.added = {}
    PROVE  DeployIsSound'
BY DEF DeployIsSound

LEMMA SlugOfAListedArticle ==
    ASSUME NEW a \in Transcribed
    PROVE  FromList(a).article = a /\ FromList(a) = SlugInWorkbook(FromList(a).article)
BY DEF FromList, Slug, SlugInWorkbook

LEMMA ReleaseStarts == ReleaseInit => ReleaseInv
BY DEF ReleaseInit, ReleaseInv, OffersAreRight, DeployIsSound, NoDeploy, NoImport

LEMMA DeployStartsKeeps ==
    ASSUME ReleaseInv, NEW list \in PriceLists, NEW pending, DeployStarts(list, pending)
    PROVE  ReleaseInv'
<1>1. DeployIsSound'
  BY DEF DeployStarts, PriceLists, NoDeploy, ReleaseInv, DeployIsSound
<1> QED BY <1>1, OffersStay DEF DeployStarts, ReleaseInv

LEMMA SeedProductKeeps ==
    ASSUME ReleaseInv, NEW a \in Transcribed, SeedProduct(a)
    PROVE  ReleaseInv'
<1>1. /\ deploy'.number = deploy.number
      /\ deploy'.todo \subseteq deploy.todo
      /\ deploy'.added = deploy.added \cup ({FromList(a)} \ DOMAIN shelf)
      /\ deploy'.retiring = deploy.retiring
  BY DEF SeedProduct
<1>2. DeployIsSound'
  BY <1>1, SlugOfAListedArticle DEF SeedProduct, ReleaseInv, DeployIsSound
<1> QED BY <1>2, OffersStay DEF SeedProduct, ReleaseInv

LEMMA DeployRetiresKeeps ==
    ASSUME ReleaseInv, DeployRetires
    PROVE  ReleaseInv'
<1>1. \A s \in Dropped : s \in DOMAIN shelf /\ shelf[s].maker = "deploy"
  BY DEF Dropped, ReleaseInv, Shelved, ShelfRow
<1>2. DeployIsSound'
  BY <1>1 DEF DeployRetires, ReleaseInv, DeployIsSound
<1> QED BY <1>2, OffersStay DEF DeployRetires, ReleaseInv

LEMMA DeployFailsKeeps ==
    ASSUME ReleaseInv, DeployFails
    PROVE  ReleaseInv'
<1>1. DeployIsSound'
  BY DEF DeployFails, NoDeploy, ReleaseInv, DeployIsSound
<1> QED BY <1>1, OffersStay DEF DeployFails, ReleaseInv

LEMMA DeployCommitsKeeps ==
    ASSUME ReleaseInv, DeployCommits
    PROVE  ReleaseInv'
<1> DEFINE old == [s \in DOMAIN shelf |-> IF s \in deploy.retiring
                                            THEN [shelf[s] EXCEPT !.state = "retired"]
                                            ELSE shelf[s]]
           new == [s \in deploy.added |-> Row("deploy", deploy.number, "supplier", FALSE)]
           firstOffers == [s \in FirstOffers |-> [by |-> "deploy", born |-> deploy.number, price |-> "list"]]
<1>1. /\ DOMAIN shelf' = DOMAIN shelf \cup deploy.added
      /\ \A s \in deploy.added : shelf'[s] = new[s]
      /\ \A s \in DOMAIN shelf : shelf'[s] = old[s]
  <2>1. shelf' = With(old, new) /\ DOMAIN old = DOMAIN shelf /\ DOMAIN new = deploy.added
    BY DEF DeployCommits
  <2>2. DOMAIN shelf \cap deploy.added = {}
    BY DEF ReleaseInv, DeployIsSound
  <2> HIDE DEF old, new
  <2> QED BY <2>1, <2>2 DEF With
<1>2. /\ DOMAIN stocked' = DOMAIN stocked \cup FirstOffers
      /\ \A s \in FirstOffers : stocked'[s] = firstOffers[s]
      /\ \A s \in DOMAIN stocked : s \notin FirstOffers => stocked'[s] = stocked[s]
  <2>1. stocked' = With(stocked, firstOffers) /\ DOMAIN firstOffers = FirstOffers
    BY DEF DeployCommits
  <2> HIDE DEF firstOffers
  <2> QED BY <2>1 DEF With
<1>3. deploy.number \in Nat /\ FirstOffers \subseteq deploy.added
  BY DEF ReleaseInv, DeployIsSound, FirstOffers
<1>4. \A s \in deploy.added : new[s].maker = "deploy" /\ new[s].born = deploy.number /\ Shelved(s, new[s])
  BY <1>3 DEF ReleaseInv, DeployIsSound, Row, Shelved, ShelfRow
<1>5. \A s \in DOMAIN shelf : /\ old[s].maker = shelf[s].maker /\ old[s].born = shelf[s].born
                              /\ Shelved(s, old[s])
  BY DEF ReleaseInv, DeployIsSound, Shelved, ShelfRow
<1>6. OffersAreRight'
  <2>1. \A s \in FirstOffers : firstOffers[s] = [by |-> "deploy", born |-> deploy.number, price |-> "list"]
    OBVIOUS
  <2> HIDE DEF old, new, firstOffers
  <2> QED BY <1>1, <1>2, <1>3, <1>4, <1>5, <2>1 DEF ReleaseInv, OffersAreRight
<1>7. \A s \in DOMAIN shelf' : Shelved(s, shelf'[s])
  <2> HIDE DEF old, new, firstOffers
  <2> QED BY <1>1, <1>4, <1>5
<1>8. DeployIsSound' /\ loading' = loading
  BY <1>3 DEF DeployCommits, NoDeploy, DeployIsSound
<1> QED BY <1>6, <1>7, <1>8 DEF ReleaseInv, Shelved

LEMMA ImportReadsKeeps ==
    ASSUME ReleaseInv, NEW file \in Workbooks, ImportReads(file)
    PROVE  ReleaseInv'
<1>1. \A a \in file : SlugInWorkbook(a) = SlugInWorkbook(SlugInWorkbook(a).article)
  BY DEF SlugInWorkbook, FromList, Slug
<1>2. \A s \in loading'.adding : s = SlugInWorkbook(s.article)
  BY <1>1 DEF ImportReads
<1> QED BY <1>2, OffersStay, DeployStays DEF ImportReads, ReleaseInv, DeployIsSound

LEMMA ImportAddsKeeps ==
    ASSUME ReleaseInv, ImportAdds
    PROVE  ReleaseInv'
<1> DEFINE new == [s \in loading.adding |-> Row("import", 0, "supplier", TRUE)]
<1>1. /\ DOMAIN shelf' = DOMAIN shelf \cup loading.adding
      /\ \A s \in loading.adding : shelf'[s] = new[s]
      /\ \A s \in DOMAIN shelf : shelf'[s] = shelf[s]
  <2>1. shelf' = With(shelf, new) /\ DOMAIN new = loading.adding
        /\ DOMAIN shelf \cap loading.adding = {}
    BY DEF ImportAdds
  <2> HIDE DEF new
  <2> QED BY <2>1 DEF With
<1>2. \A s \in loading.adding : Shelved(s, new[s])
  BY DEF ReleaseInv, Row, Shelved, ShelfRow
<1> HIDE DEF new
<1>3. \A s \in DOMAIN shelf' : Shelved(s, shelf'[s])
  BY <1>1, <1>2 DEF ReleaseInv
<1>4. OffersAreRight'
  BY <1>1, OffersStay DEF ImportAdds, ReleaseInv
<1>5. DeployIsSound'
  BY <1>1, DeployStays DEF ImportAdds, ReleaseInv, DeployIsSound
<1>6. \A s \in loading'.adding : s = SlugInWorkbook(s.article)
  BY DEF ImportAdds, NoImport
<1> QED BY <1>3, <1>4, <1>5, <1>6 DEF ReleaseInv, Shelved

LEMMA ImportFailsKeeps ==
    ASSUME ReleaseInv, ImportFails
    PROVE  ReleaseInv'
BY OffersStay, DeployStays DEF ImportFails, NoImport, ReleaseInv, DeployIsSound

LEMMA HandMakesKeeps ==
    ASSUME ReleaseInv, NEW a \in Crafted, NEW plain \in BOOLEAN, HandMakes(a, plain)
    PROVE  ReleaseInv'
<1> DEFINE new == [s \in {ByHand(a)} |-> Row("admin", 0, "admin", plain)]
<1>1. /\ DOMAIN shelf' = DOMAIN shelf \cup {ByHand(a)}
      /\ \A s \in {ByHand(a)} : shelf'[s] = new[s]
      /\ \A s \in DOMAIN shelf : shelf'[s] = shelf[s]
  <2>1. shelf' = With(shelf, new) /\ DOMAIN new = {ByHand(a)} /\ ByHand(a) \notin DOMAIN shelf
    BY DEF HandMakes
  <2> HIDE DEF new
  <2> QED BY <2>1 DEF With
<1>2. \A s \in {ByHand(a)} : Shelved(s, new[s])
  BY DEF Row, Shelved, ShelfRow
<1>3. ByHand(a) \notin deploy.added
  BY DEF ReleaseInv, DeployIsSound, ByHand, Slug, SlugInWorkbook, FromList
<1> HIDE DEF new
<1>4. \A s \in DOMAIN shelf' : Shelved(s, shelf'[s])
  BY <1>1, <1>2 DEF ReleaseInv
<1>5. OffersAreRight'
  BY <1>1, OffersStay DEF HandMakes, ReleaseInv
<1>6. DeployIsSound'
  BY <1>1, <1>3, DeployStays DEF HandMakes, ReleaseInv, DeployIsSound
<1> QED BY <1>4, <1>5, <1>6 DEF ReleaseInv, Shelved, HandMakes

\* A change of one product's columns leaves what the scripts rely on.
LEMMA ColumnsChange ==
    ASSUME ReleaseInv, NEW x, NEW row,
           shelf' = [shelf EXCEPT ![x] = row],
           x \in DOMAIN shelf => Shelved(x, row) /\ row.maker = shelf[x].maker /\ row.born = shelf[x].born,
           UNCHANGED <<stocked, deploy, loading>>
    PROVE  ReleaseInv'
<1>1. DOMAIN shelf' = DOMAIN shelf
  OBVIOUS
<1>2. \A s \in DOMAIN shelf : shelf'[s] = IF s = x THEN row ELSE shelf[s]
  OBVIOUS
<1>3. \A s \in DOMAIN shelf' : Shelved(s, shelf'[s])
  BY <1>1, <1>2 DEF ReleaseInv
<1>4. OffersAreRight'
  BY <1>1, <1>2, OffersStay DEF ReleaseInv
<1>5. DeployIsSound'
  BY <1>1, <1>2, DeployStays DEF ReleaseInv, DeployIsSound
<1> QED BY <1>3, <1>4, <1>5 DEF ReleaseInv, Shelved

LEMMA StateStaysRight ==
    ASSUME ReleaseInv, NEW k, NEW active \in BOOLEAN, keeping[k].slug \in DOMAIN shelf
    PROVE  /\ StateAfter(k, active) \in {"on", "archived", "retired"}
           /\ StateAfter(k, active) = "retired" => shelf[keeping[k].slug].maker = "deploy"
BY DEF ReleaseInv, StateAfter, Shelved, ShelfRow

LEMMA KeeperEditsKeeps ==
    ASSUME ReleaseInv, NEW k \in Keepers, NEW active \in BOOLEAN, NEW plain \in BOOLEAN,
           KeeperEdits(k, active, plain)
    PROVE  ReleaseInv'
<1> DEFINE x == keeping[k].slug
           row == [shelf[x] EXCEPT !.state = StateAfter(k, active), !.source = "admin", !.plain = plain]
<1>1. shelf' = [shelf EXCEPT ![x] = row] /\ UNCHANGED <<stocked, deploy, loading>>
  BY DEF KeeperEdits
<1>2. ASSUME x \in DOMAIN shelf
      PROVE  Shelved(x, row) /\ row.maker = shelf[x].maker /\ row.born = shelf[x].born
  BY <1>2, StateStaysRight DEF ReleaseInv, Shelved, ShelfRow
<1> HIDE DEF x, row
<1> QED BY <1>1, <1>2, ColumnsChange

LEMMA KeeperSwitchesKeeps ==
    ASSUME ReleaseInv, NEW k \in Keepers, NEW active \in BOOLEAN, KeeperSwitches(k, active)
    PROVE  ReleaseInv'
<1> DEFINE x == keeping[k].slug
           row == [shelf[x] EXCEPT !.state = StateAfter(k, active)]
<1>1. shelf' = [shelf EXCEPT ![x] = row] /\ UNCHANGED <<stocked, deploy, loading>>
  BY DEF KeeperSwitches
<1>2. ASSUME x \in DOMAIN shelf
      PROVE  Shelved(x, row) /\ row.maker = shelf[x].maker /\ row.born = shelf[x].born
  BY <1>2, StateStaysRight DEF ReleaseInv, Shelved, ShelfRow
<1> HIDE DEF x, row
<1> QED BY <1>1, <1>2, ColumnsChange

LEMMA KeeperPricesKeeps ==
    ASSUME ReleaseInv, NEW s \in DOMAIN shelf, KeeperPrices(s)
    PROVE  ReleaseInv'
<1> DEFINE offer == IF s \in DOMAIN stocked
                      THEN [stocked[s] EXCEPT !.price = "own"]
                      ELSE [by |-> "admin", born |-> 0, price |-> "own"]
           new == [t \in {s} |-> offer]
<1>1. /\ DOMAIN stocked' = DOMAIN stocked \cup {s}
      /\ stocked'[s] = offer
      /\ \A t \in DOMAIN stocked : t # s => stocked'[t] = stocked[t]
  <2>1. stocked' = With(stocked, new) /\ DOMAIN new = {s} /\ new[s] = offer
    BY DEF KeeperPrices
  <2> HIDE DEF new, offer
  <2> QED BY <2>1 DEF With
<1>2. /\ offer \in [by : {"deploy", "admin"}, born : Nat, price : {"list", "own"}]
      /\ offer.by = "deploy" => shelf[s].maker = "deploy" /\ shelf[s].born = offer.born
  BY DEF ReleaseInv, OffersAreRight
<1> HIDE DEF offer, new
<1>3. OffersAreRight'
  BY <1>1, <1>2 DEF KeeperPrices, ReleaseInv, OffersAreRight
<1> QED BY <1>3, DeployStays DEF KeeperPrices, ReleaseInv, DeployIsSound, Shelved

LEMMA SheetUpdatesKeeps ==
    ASSUME ReleaseInv, SheetUpdates
    PROVE  ReleaseInv'
<1>1. OffersAreRight'
  BY DEF SheetUpdates, ReleaseInv, OffersAreRight
<1> QED BY <1>1, DeployStays DEF SheetUpdates, ReleaseInv, DeployIsSound, Shelved

LEMMA ReleaseSteps == ASSUME ReleaseInv, [ReleaseNext]_releaseVars PROVE ReleaseInv'
<1>1. CASE Seed
  BY <1>1, DeployStartsKeeps, SeedProductKeeps, DeployRetiresKeeps, DeployCommitsKeeps, DeployFailsKeeps
     DEF Seed
<1>2. CASE Import
  BY <1>2, ImportReadsKeeps, ImportAddsKeeps, ImportFailsKeeps DEF Import
<1>3. CASE Keep
  <2>1. ASSUME UNCHANGED <<shelf, stocked, deploy, loading>> PROVE ReleaseInv'
    BY <2>1, OffersStay, DeployStays DEF ReleaseInv, DeployIsSound, Shelved
  <2>2. ASSUME NEW k \in Keepers, NEW s \in DOMAIN shelf, KeeperLoads(k, s) PROVE ReleaseInv'
    BY <2>1, <2>2 DEF KeeperLoads
  <2>3. ASSUME NEW n, NEW s \in DOMAIN shelf, ApproveWord(n, s) PROVE ReleaseInv'
    BY <2>1, <2>3 DEF ApproveWord
  <2> QED BY <1>3, <2>2, <2>3, HandMakesKeeps, KeeperEditsKeeps, KeeperSwitchesKeeps, KeeperPricesKeeps
          DEF Keep
<1>4. CASE SheetUpdates
  BY <1>4, SheetUpdatesKeeps
<1>5. CASE UNCHANGED releaseVars
  BY <1>5, OffersStay, DeployStays DEF releaseVars, ReleaseInv, DeployIsSound, Shelved
<1> QED BY <1>1, <1>2, <1>3, <1>4, <1>5 DEF ReleaseNext

\* Neither deploys nor imports repeat, price or retire what another of them
\* or an administrator put into the catalogue, however their transactions
\* interleave and whatever the price lists say.
THEOREM ReleasesAreClean == ReleaseSpec => []ReleasesKeepTheCatalogue
<1>1. ReleaseInit => ReleaseInv
  BY ReleaseStarts
<1>2. ReleaseInv /\ [ReleaseNext]_releaseVars => ReleaseInv'
  BY ReleaseSteps
<1>3. ReleaseInv => ReleasesKeepTheCatalogue
  BY TheInvariantIsEnough
<1> QED BY <1>1, <1>2, <1>3, PTL DEF ReleaseSpec
=============================================================================
