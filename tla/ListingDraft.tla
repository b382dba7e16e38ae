---------------------------- MODULE ListingDraft ----------------------------
(***************************************************************************)
(* One admin lists products through the bot: bot/handlers/shop_listing.py, *)
(* services/listing_service.py and db/repositories/listing_repo.py.        *)
(*                                                                         *)
(* Every answer goes to the draft in the database; the dialogue's state    *)
(* and the draft it is about are in the FSM storage, which may be lost.    *)
(* Telegram delivers updates of one chat in parallel.  The middleware      *)
(* updates the user's row first, so handlers follow one another up to      *)
(* their first commit; a photo's handler asks on after it, from the row as *)
(* it knew it, while another's runs.  The handlers of answers, which come  *)
(* one at a time, are one step.                                            *)
(***************************************************************************)
EXTENDS Naturals, Sequences, FiniteSets

CONSTANTS
    Captions,   \* what parse_listing_caption reads from photos: [name, pack, price, sure]
    Lines,      \* and from lines of text
    CatalogOf,  \* the catalogue product a name matches, or "none"
    PackSizes, ShopPrices,
    Photos, Albums, MaxPhotos,
    Uploads,    \* photo updates handled at a time
    MaxDrafts   \* bound on drafts ever opened

VARIABLES
    drafts,   \* shop_product_drafts in order of id
    state,    \* FSM state of the admin's chat
    current,  \* FSM data listing_draft_id, 0 when absent
    handling, \* photo updates in flight
    sent,     \* photos already sent, with their album
    listed    \* shop_products of the house shop in order of id

listingVars == <<drafts, state, current, handling, sent, listed>>

Unset == "none"

\* What is read from a photo or a line, and what a draft holds.
CaptionRow == [name : DOMAIN CatalogOf \cup {Unset}, pack : PackSizes \cup {Unset}, price : ShopPrices \cup {0},
               sure : BOOLEAN]
DraftRow == [status : {"draft", "applied"}, name : DOMAIN CatalogOf \cup {Unset}, pack : PackSizes \cup {Unset},
             price : ShopPrices \cup {0}, guess : BOOLEAN, photos : SUBSET Photos, album : Albums \cup {Unset}]

ASSUME ListingAssumption ==
    Captions \subseteq CaptionRow /\ Lines \subseteq CaptionRow /\ ShopPrices \subseteq Nat

NoCaption == [name |-> Unset, pack |-> Unset, price |-> 0, sure |-> FALSE]
Empty == [status |-> "draft", name |-> Unset, pack |-> Unset, price |-> 0,
          guess |-> FALSE, photos |-> {}, album |-> Unset]
IdleUpdate == [at |-> "idle", draft |-> 0, row |-> Empty, caption |-> NoCaption]

ListingInit ==
    /\ drafts = <<>>
    /\ state = Unset
    /\ current = 0
    /\ handling = [h \in Uploads |-> IdleUpdate]
    /\ sent = {}
    /\ listed = <<>>

-----------------------------------------------------------------------------
Newest(ids) == CHOOSE d \in ids : \A e \in ids : e <= d

Open == {d \in DOMAIN drafts : drafts[d].status = "draft"}

\* _current_draft: the FSM's, otherwise the owner's newest open one, 0 for none.
CurrentDraft ==
    IF current \in Open THEN current ELSE IF Open # {} THEN Newest(Open) ELSE 0

Inferred(c) == c.price # 0 /\ ~c.sure

\* _apply_parsed: what is known already is not overwritten.
Filled(row, c) ==
    [row EXCEPT !.name = IF @ = Unset THEN c.name ELSE @,
                !.pack = IF @ = Unset THEN c.pack ELSE @,
                !.price = IF @ = 0 THEN c.price ELSE @,
                !.guess = IF row.price = 0 THEN Inferred(c) ELSE @]

Complete(row) == row.name # Unset /\ row.pack # Unset /\ row.price > 0

\* Mutant: a listing without a price is not held back.
QuestionNotOfPrice(row, inferred) ==
    CASE row.name = Unset -> "entering_name"
      [] row.name # Unset /\ row.pack = Unset -> "choosing_pack"
      [] Complete(row) /\ inferred -> "confirming_price"
      [] OTHER -> "save"

Question(row, inferred) ==
    CASE row.name = Unset -> "entering_name"
      [] row.name # Unset /\ row.pack = Unset -> "choosing_pack"
      [] row.name # Unset /\ row.pack # Unset /\ row.price = 0 -> "entering_price"
      [] Complete(row) /\ inferred -> "confirming_price"
      [] OTHER -> "save"

\* match_draft: the product the catalogue has for the name, or none.
MatchDraft(row) == CatalogOf[row.name]

\* apply_draft: the offer of the same catalogue product and pack is updated in
\* place -- IS NULL too is a match -- and new media waits for moderation.
Saved(row) ==
    LET catalog == MatchDraft(row)
        same == {o \in DOMAIN listed : listed[o].catalog = catalog /\ listed[o].pack = row.pack}
        offer == [catalog |-> catalog, pack |-> row.pack, name |-> row.name, price |-> row.price,
                  guess |-> row.guess, photos |-> row.photos,
                  moderation |-> IF row.photos = {} THEN "approved" ELSE "pending"]
    IN  IF same = {} THEN Append(listed, offer)
        ELSE [listed EXCEPT ![CHOOSE o \in same : \A p \in same : o <= p] = offer]

\* _continue, from the row as the handler holds it: ask for what is missing, or
\* save.  others is the table with the handler's writes in it.
Continue(others, d, row, inferred) ==
    IF Question(row, inferred) = "save"
    THEN /\ drafts' = [others EXCEPT ![d].status = "applied"]
         /\ listed' = Saved(row)
         /\ state' = Unset
         /\ current' = 0
    ELSE /\ drafts' = others
         /\ state' = Question(row, inferred)
         /\ current' = d
         /\ UNCHANGED listed

Answered(d, row, inferred) ==
    /\ Continue([drafts EXCEPT ![d] = row], d, row, inferred)
    /\ UNCHANGED <<handling, sent>>

-----------------------------------------------------------------------------
\* "New product", from the menu, the panel or the saved card.
AddProduct ==
    /\ state' = "quick_entry"
    /\ UNCHANGED <<drafts, current, handling, sent, listed>>

\* The cancel button, or the FSM storage evicted: the draft stays open.
LeaveDraft ==
    /\ state' = Unset
    /\ current' = 0
    /\ UNCHANGED <<drafts, handling, sent, listed>>

\* A line of text as a whole listing.
QuickText(c) ==
    /\ state = "quick_entry"
    /\ IF CurrentDraft # 0 /\ drafts[CurrentDraft].name = Unset
       THEN Answered(CurrentDraft, Filled(drafts[CurrentDraft], c), Inferred(c))
       ELSE /\ Len(drafts) < MaxDrafts
            /\ Continue(Append(drafts, Filled(Empty, c)), Len(drafts) + 1, Filled(Empty, c), Inferred(c))
            /\ UNCHANGED <<handling, sent>>

\* The text sent for a name is read as a caption too, and replaces the name.
NameText(c) ==
    /\ state = "entering_name"
    /\ CurrentDraft # 0
    /\ c.name # Unset
    /\ Answered(CurrentDraft, Filled([drafts[CurrentDraft] EXCEPT !.name = c.name], c), Inferred(c))

\* A pack from the keyboard.
PickPack(p) ==
    /\ state = "choosing_pack"
    /\ CurrentDraft # 0
    /\ Answered(CurrentDraft, [drafts[CurrentDraft] EXCEPT !.pack = p], FALSE)

OtherPack ==
    /\ state = "choosing_pack"
    /\ state' = "entering_pack_size"
    /\ UNCHANGED <<drafts, current, handling, sent, listed>>

PackText(p) ==
    /\ state = "entering_pack_size"
    /\ CurrentDraft # 0
    /\ Answered(CurrentDraft, [drafts[CurrentDraft] EXCEPT !.pack = p], FALSE)

\* Typed in answer to the question, so not a guess.
PriceText(v) ==
    /\ state = "entering_price"
    /\ CurrentDraft # 0
    /\ Answered(CurrentDraft, [drafts[CurrentDraft] EXCEPT !.price = v, !.guess = FALSE], FALSE)

\* apply_draft refuses a draft that lacks something; _save then asks for it.
PriceOk ==
    /\ state = "confirming_price"
    /\ CurrentDraft # 0
    /\ Answered(CurrentDraft, [drafts[CurrentDraft] EXCEPT !.guess = FALSE], FALSE)

PriceFix ==
    /\ state = "confirming_price"
    /\ CurrentDraft # 0
    /\ drafts' = [drafts EXCEPT ![CurrentDraft].price = 0, ![CurrentDraft].guess = FALSE]
    /\ state' = "entering_price"
    /\ UNCHANGED <<current, handling, sent, listed>>

-----------------------------------------------------------------------------
OfAlbum(a) == {d \in Open : a # Unset /\ drafts[d].album = a}

\* A photo arrives: its handler finds or makes its draft, downloads the photo or
\* fails to, and commits what it knows.  One member of an album carries the
\* caption; a later member only adds its photo.
PhotoArrives(h, photo, album, c) ==
    LET found == IF OfAlbum(album) # {} THEN Newest(OfAlbum(album)) ELSE CurrentDraft
        old == IF found = 0 THEN Empty ELSE drafts[found]
    IN  /\ handling[h].at = "idle"
        /\ photo \notin {s.photo : s \in sent}
        /\ \A s \in sent : album # Unset /\ s.album = album => c = NoCaption \/ ~s.caption
        /\ found = 0 => Len(drafts) < MaxDrafts
        /\ sent' = sent \cup {[photo |-> photo, album |-> album, caption |-> c # NoCaption]}
        /\ \E stored \in BOOLEAN :
            LET kept == stored /\ Cardinality(old.photos) < MaxPhotos
                row == Filled([old EXCEPT !.photos = IF kept THEN @ \cup {photo} ELSE @,
                                          !.album = IF @ = Unset THEN album ELSE @], c)
                silent == c = NoCaption /\ (~kept \/ (album # Unset /\ row.name # Unset))
            IN  /\ drafts' = IF found = 0 THEN Append(drafts, row) ELSE [drafts EXCEPT ![found] = row]
                /\ handling' = IF silent THEN handling
                               ELSE [handling EXCEPT ![h] =
                                   [at |-> "asking", row |-> row, caption |-> c,
                                    draft |-> IF found = 0 THEN Len(drafts) + 1 ELSE found]]
        /\ UNCHANGED <<state, current, listed>>

\* Ask on, or save, from the row in memory: it is not read again.
PhotoAsks(h) ==
    LET u == handling[h]
    IN  /\ u.at = "asking"
        /\ Continue(drafts, u.draft, u.row, Inferred(u.caption))
        /\ handling' = [handling EXCEPT ![h] = IdleUpdate]
        /\ UNCHANGED <<sent>>

\* The bot dies after the commit, and the question with it.  (Before it, nothing
\* has happened; that Telegram may deliver the update again is left out.)
PhotoDies(h) ==
    /\ handling[h].at = "asking"
    /\ handling' = [handling EXCEPT ![h] = IdleUpdate]
    /\ UNCHANGED <<drafts, state, current, sent, listed>>

\* The admin's page of pending media.
Approve(o) ==
    /\ listed[o].photos # {}
    /\ listed' = [listed EXCEPT ![o].moderation = "approved"]
    /\ UNCHANGED <<drafts, state, current, handling, sent>>

Reject(o) ==
    /\ listed[o].photos # {}
    /\ listed' = [listed EXCEPT ![o].moderation = "rejected", ![o].photos = {}]
    /\ UNCHANGED <<drafts, state, current, handling, sent>>

-----------------------------------------------------------------------------
\* What an admin who only answers does.
Reply ==
    \/ \E c \in Lines : NameText(c)
    \/ \E p \in PackSizes : PickPack(p) \/ PackText(p)
    \/ \E v \in ShopPrices : PriceText(v)
    \/ PriceOk

\* What starts something, drops it, or takes an answer back.
Detour ==
    \/ AddProduct
    \/ LeaveDraft
    \/ \E c \in Lines : QuickText(c)
    \/ OtherPack
    \/ PriceFix
    \/ \E h \in Uploads, photo \in Photos, album \in Albums \cup {Unset}, c \in Captions \cup {NoCaption} :
           PhotoArrives(h, photo, album, c)
    \/ \E h \in Uploads : PhotoDies(h)

ListingNext ==
    \/ Reply
    \/ Detour
    \/ \E h \in Uploads : PhotoAsks(h)
    \/ \E o \in DOMAIN listed : Approve(o) \/ Reject(o)

ListingSpec == ListingInit /\ [][ListingNext]_listingVars

-----------------------------------------------------------------------------
Questions == {"entering_name", "choosing_pack", "entering_pack_size", "entering_price", "confirming_price"}

ListingTypeOK ==
    /\ \A d \in DOMAIN drafts : drafts[d] \in DraftRow
    /\ state \in Questions \cup {Unset, "quick_entry"}
    /\ current \in 0 .. Len(drafts)
    /\ \A h \in Uploads : handling[h].at \in {"idle", "asking"}
    /\ \A o \in DOMAIN listed : listed[o].moderation \in {"pending", "approved", "rejected"}

\* No offer is built from a draft that lacks something, whichever draft a late
\* confirmation falls back to.
NoHalfBuiltOffer ==
    \A o \in DOMAIN listed : listed[o].name # Unset /\ listed[o].pack # Unset /\ listed[o].price > 0

=============================================================================
