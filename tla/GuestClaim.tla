----------------------------- MODULE GuestClaim -----------------------------
(***************************************************************************)
(* The carts one browser meets on its way from a visitor to a signed-in    *)
(* customer (app/services/guest_cart_claim_service.py, the joining half of *)
(* cart_service.py, routers/auth.py and cart.py, visitor.py, and the cart  *)
(* pages of app.js).                                                       *)
(*                                                                         *)
(* A visitor has a cart of its own, named by a cookie.  Signing in joins   *)
(* it to the account's cart in the transaction of the sign-in; when the    *)
(* two disagree it stays where it is, and the customer tries again with    *)
(* lines of either side dropped.  A page without any session keeps a draft *)
(* in local storage and sends it, under a key, when it has one.  The bot   *)
(* brings the lists of before durable carts in.  Pages may be several and  *)
(* stale, requests may be answered late or never, a commit may fail.       *)
(*                                                                         *)
(* Every cart transaction holds the rows it reads until it ends, so its    *)
(* database part is one action; what happened before the first lock (whose *)
(* request it is) and the answer are actions of their own.                 *)
(***************************************************************************)
EXTENDS Naturals, FiniteSets

CONSTANTS
    Accounts,     \* customers who signed in with Telegram
    Guest,        \* the user row of the visitor
    Nobody,
    Pages,        \* cart pages open in the browser
    Products,
    Amounts,      \* what one line may say: records of qty and unit
    DraftAmounts, \* those of them a draft may say
    MaxLines,     \* settings.cart_max_lines
    LegacyLists,  \* lists an old bot chat may hold
    Keys,         \* bound: merge keys the browser may draw
    NoKey,
    MaxRevision   \* bound: revisions made by edits

\* A product's line is {} or a set with one amount.
Line == {{}} \cup {{a} : a \in Amounts}
Lines == [Products -> Line]

\* A receipt's key names where the lines came from: a draft (a uuid), the
\* visitor, or a list of the bot.
Sources == {"fsm", "agent"}

ASSUME GuestClaimAssumption ==
    /\ Guest \notin Accounts \cup Keys \cup Sources
    /\ Nobody \notin Accounts \cup {Guest}
    /\ Amounts \subseteq [qty : Nat \ {0}, unit : STRING]
    /\ DraftAmounts \subseteq Amounts
    /\ {MaxLines, MaxRevision} \subseteq Nat
    /\ LegacyLists \subseteq Lines
    /\ NoKey \notin Keys
    /\ IsFiniteSet(Products)

VARIABLES
    cart,       \* carts and cart_items of every owner
    visitor,    \* the visitor_sessions row: none, live, expired or claimed
    receipts,   \* cart_merges: who joined which source, and what it was
    active,     \* products that can be sold
    legacy,     \* what the bot's FSM data holds, per source, for each account
    cookie,     \* the session and the visitor cookie of the browser
    draft,      \* local storage: lines and their merge key
    page,       \* what each page shows: whose cart, at which revision
    request     \* what each page asked and the server has begun

vars == <<cart, visitor, receipts, active, legacy, cookie, draft, page, request>>

-----------------------------------------------------------------------------
Owners == Accounts \cup {Guest}

Empty == [p \in Products |-> {}]
InCart(lines) == {p \in Products : lines[p] # {}}
Without(lines, dropped) == [p \in Products |-> IF p \in dropped THEN {} ELSE lines[p]]

NoConflict(old, new) == FALSE
Conflict(old, new) == \E a \in old, b \in new : a.unit # b.unit

Larger(old, new) ==
    IF old = {} THEN new
    ELSE IF new = {} THEN old
    ELSE {a \in old \cup new : \A b \in old \cup new : b.qty <= a.qty}

Joined(old, new) == [p \in Products |-> Larger(old[p], new[p])]

\* _validate of every line, the unit check and _check_size.
Joinable(old, new) ==
    /\ InCart(new) \subseteq active
    /\ \A p \in Products : ~Conflict(old[p], new[p])
    /\ Cardinality(InCart(Joined(old, new))) <= MaxLines

Bumped(c, lines) == IF lines = c.lines THEN c ELSE [revision |-> c.revision + 1, lines |-> lines]

NoRequest == [kind |-> "none", owner |-> Nobody, revision |-> 0, lines |-> Empty, key |-> NoKey]
Closed == [owner |-> Nobody, revision |-> 0]

Init ==
    /\ cart = [o \in Owners |-> [revision |-> 0, lines |-> Empty]]
    /\ visitor = "none"
    /\ receipts = {}
    /\ active = Products
    /\ legacy \in [Accounts -> [Sources -> LegacyLists]]
    /\ cookie = [session |-> Nobody, guest |-> FALSE]
    /\ draft = [lines |-> Empty, key |-> NoKey]
    /\ page = [w \in Pages |-> Closed]
    /\ request = [w \in Pages |-> NoRequest]

-----------------------------------------------------------------------------
(* Who a request speaks for.                                               *)

\* current_user: the session cookie wins; a visitor needs a live row.
Caller ==
    IF cookie.session # Nobody THEN cookie.session
    ELSE IF cookie.guest /\ visitor = "live" THEN Guest ELSE Nobody

\* require_csrf: the token of a page is bound to the cookie it was made with.
AnyCookies(w) == TRUE
SameCookies(w) == page[w].owner = Caller

Write(w) ==
    /\ Caller # Nobody
    /\ SameCookies(w)
    /\ page[w].owner # Nobody
    /\ request[w].kind = "none"

-----------------------------------------------------------------------------
(* The browser and its cookies.                                            *)

\* POST /api/session: create_visitor commits before it answers.
Bootstrap ==
    /\ Caller = Nobody
    /\ visitor = "none"
    /\ visitor' = "live"
    /\ cookie' = [cookie EXCEPT !.guest = TRUE]
    /\ UNCHANGED <<cart, receipts, active, legacy, draft, page, request>>

ExpireVisitor ==
    /\ visitor = "live"
    /\ visitor' = "expired"
    /\ UNCHANGED <<cart, receipts, active, legacy, cookie, draft, page, request>>

\* POST /logout clears the three cookies.
Logout ==
    /\ cookie.session # Nobody
    /\ cookie' = [session |-> Nobody, guest |-> FALSE]
    /\ UNCHANGED <<cart, visitor, receipts, active, legacy, draft, page, request>>

\* A page is loaded; its first GET /api/cart fills it.
OpenPage(w) ==
    /\ request[w].kind = "none"
    /\ page' = [page EXCEPT ![w] =
                    [owner |-> Caller, revision |-> IF Caller = Nobody THEN 0 ELSE cart[Caller].revision]]
    /\ UNCHANGED <<cart, visitor, receipts, active, legacy, cookie, draft, request>>

\* An admin archives a product; bringing one back is left out.
Archive(p) ==
    /\ p \in active
    /\ active' = active \ {p}
    /\ UNCHANGED <<cart, visitor, receipts, legacy, cookie, draft, page, request>>

-----------------------------------------------------------------------------
(* Editing a cart: PUT and DELETE /api/cart/items.                         *)

\* The request has passed current_user and require_csrf.
AskEdit(w, p, line) ==
    /\ Write(w)
    /\ request' = [request EXCEPT ![w] =
                    [kind |-> "edit", owner |-> Caller, revision |-> page[w].revision,
                     lines |-> [Empty EXCEPT ![p] = line], key |-> p]]
    /\ UNCHANGED <<cart, visitor, receipts, active, legacy, cookie, draft, page>>

\* _check, _validate, _check_size.
Editable(r) ==
    /\ cart[r.owner].revision = r.revision
    /\ InCart(r.lines) \subseteq active
    /\ Cardinality(InCart(cart[r.owner].lines) \cup InCart(r.lines)) <= MaxLines

Edited(r) == [cart[r.owner].lines EXCEPT ![r.key] = r.lines[r.key]]

\* The answer, a snapshot in either case, may be lost: the page then loads
\* the cart again, and its cookies may have changed owner.
Answered(w, o) ==
    /\ request' = [request EXCEPT ![w] = NoRequest]
    /\ \/ page' = [page EXCEPT ![w].revision = IF page[w].owner = o THEN cart'[o].revision ELSE @]
       \/ UNCHANGED page

HandleEdit(w) ==
    LET r == request[w]
    IN  /\ r.kind = "edit"
        /\ cart[r.owner].revision < MaxRevision
        /\ cart' = IF Editable(r) THEN [cart EXCEPT ![r.owner] = Bumped(@, Edited(r))] ELSE cart
        /\ Answered(w, r.owner)
        /\ UNCHANGED <<visitor, receipts, active, legacy, cookie, draft>>

-----------------------------------------------------------------------------
(* CartService.merge and migrate_legacy.                                   *)

Forgotten(o, key) == FALSE
Seen(o, key) == \E r \in receipts : r.owner = o /\ r.key = key

\* The browser's draft.  A page loaded before there was a session, which may
\* be open at any time, writes it, and a new draft is a new source.
SaveDraft(p, line) ==
    /\ draft.lines[p] # line
    /\ draft' = [lines |-> [draft.lines EXCEPT ![p] = line], key |-> NoKey]
    /\ UNCHANGED <<cart, visitor, receipts, active, legacy, cookie, page, request>>

\* discardSelected keeps the key while lines are left.
DiscardDraft(p) ==
    /\ draft.lines[p] # {}
    /\ LET left == Without(draft.lines, {p})
       IN  draft' = [lines |-> left, key |-> IF left = Empty THEN NoKey ELSE draft.key]
    /\ UNCHANGED <<cart, visitor, receipts, active, legacy, cookie, page, request>>

Drawn == {draft.key} \cup {request[w].key : w \in Pages} \cup {r.key : r \in receipts}
FreshKeys == Keys \ Drawn

\* loadCart and retryMerge: the draft is read and its key drawn together.
SendDraft(w) ==
    /\ Write(w)
    /\ draft.lines # Empty
    /\ \E key \in IF draft.key = NoKey THEN FreshKeys ELSE {draft.key} :
        /\ draft' = [draft EXCEPT !.key = key]
        /\ request' = [request EXCEPT ![w] =
                        [kind |-> "merge", owner |-> Caller, revision |-> cart[Caller].revision,
                         lines |-> draft.lines, key |-> key]]
    /\ UNCHANGED <<cart, visitor, receipts, active, legacy, cookie, page>>

Receipt(o, key, lines) == [owner |-> o, key |-> key, lines |-> lines]

\* A receipt is looked for before the revision, so a retry succeeds.
HandleMerge(w) ==
    LET r == request[w]
    IN  /\ r.kind = "merge"
        /\ \/ /\ Seen(r.owner, r.key)
              /\ request' = [request EXCEPT ![w].kind = "joined"]
              /\ UNCHANGED <<cart, receipts>>
           \/ /\ ~Seen(r.owner, r.key)
              /\ cart[r.owner].revision = r.revision
              /\ Joinable(cart[r.owner].lines, r.lines)
              /\ cart' = [cart EXCEPT ![r.owner] = Bumped(@, Joined(@.lines, r.lines))]
              /\ receipts' = receipts \cup {Receipt(r.owner, r.key, r.lines)}
              /\ request' = [request EXCEPT ![w].kind = "joined"]
           \/ /\ ~Seen(r.owner, r.key)
              /\ \/ cart[r.owner].revision # r.revision
                 \/ ~Joinable(cart[r.owner].lines, r.lines)
              /\ request' = [request EXCEPT ![w] = NoRequest]
              /\ UNCHANGED <<cart, receipts>>
        /\ UNCHANGED <<visitor, active, legacy, cookie, draft, page>>

SameDraft(w) == draft.lines = request[w].lines

HearMerge(w) ==
    /\ request[w].kind = "joined"
    /\ draft' = IF SameDraft(w) THEN [lines |-> Empty, key |-> NoKey] ELSE draft
    /\ request' = [request EXCEPT ![w] = NoRequest]
    /\ UNCHANGED <<cart, visitor, receipts, active, legacy, cookie, page>>

MissMerge(w) ==
    /\ request[w].kind = "joined"
    /\ request' = [request EXCEPT ![w] = NoRequest]
    /\ UNCHANGED <<cart, visitor, receipts, active, legacy, cookie, draft, page>>

\* Lines of an old list that cannot be joined are skipped.
Usable(o, lines) ==
    [p \in Products |-> IF p \in active /\ ~Conflict(cart[o].lines[p], lines[p]) THEN lines[p] ELSE {}]

NewLists(o) == {s \in Sources : ~Seen(o, s)}

\* migrate_legacy: both lists in one transaction; too many lines undo it all.
ImportLegacy(o) ==
    LET list(s) == IF s \in NewLists(o) THEN Usable(o, legacy[o][s]) ELSE Empty
        first == Joined(cart[o].lines, list("fsm"))
        second == [p \in Products |-> IF Conflict(first[p], list("agent")[p]) THEN {} ELSE list("agent")[p]]
        whole == Joined(first, second)
        steps == (IF first = cart[o].lines THEN 0 ELSE 1) + (IF whole = first THEN 0 ELSE 1)
    IN  /\ NewLists(o) # {}
        /\ Cardinality(InCart(whole)) <= MaxLines
        /\ cart' = [cart EXCEPT ![o] = [revision |-> @.revision + steps, lines |-> whole]]
        /\ receipts' = receipts \cup {Receipt(o, s, list(s)) : s \in NewLists(o)}
        /\ UNCHANGED <<visitor, active, legacy, cookie, draft, page, request>>

-----------------------------------------------------------------------------
(* Claiming the visitor's cart.                                            *)

\* _claim_context: the cookie must name a live visitor; the row is locked.
Claimable(a) == cookie.guest /\ visitor = "live"

Cleared(c) == Bumped(c, Empty)

\* resolve_guest_cart_claim with the lines the customer chose to drop.  Each
\* removal from the account's cart is a revision, and so is the join.
Claimed(a, drop, remove) ==
    LET kept == Without(cart[a].lines, remove)
        brought == Without(cart[Guest].lines, drop)
        revision == cart[a].revision + Cardinality(remove)
    IN  /\ Joinable(kept, brought)
        /\ cart' = [cart EXCEPT
                        ![a] = Bumped([revision |-> revision, lines |-> kept], Joined(kept, brought)),
                        ![Guest] = Cleared(@)]
        /\ visitor' = "claimed"
        /\ receipts' = IF brought = Empty THEN receipts
                       ELSE receipts \cup {Receipt(a, Guest, brought)}

NotClaimed == UNCHANGED <<cart, visitor, receipts>>

\* complete_bot_login, webapp_login and dev_login share this end: the claim,
\* the session cookie, and the visitor cookie dropped when it succeeded.
\* get_db_session commits after the answer; both may fail, or be lost.
SignIn(a) ==
    /\ \/ Claimable(a) /\ Claimed(a, {}, {}) /\ cookie' = [session |-> a, guest |-> FALSE]
       \/ /\ Claimable(a)
          /\ Claimed(a, {}, {})
          /\ UNCHANGED cookie
       \/ /\ ~(Claimable(a) /\ Joinable(cart[a].lines, cart[Guest].lines))
          /\ NotClaimed
          /\ cookie' = [cookie EXCEPT !.session = a]
    /\ UNCHANGED <<active, legacy, draft, page, request>>

\* The answer went out and the commit failed.
SignInRolledBack(a) ==
    /\ Claimable(a)
    /\ Joinable(cart[a].lines, cart[Guest].lines)
    /\ cookie' = [session |-> a, guest |-> FALSE]
    /\ NotClaimed
    /\ UNCHANGED <<active, legacy, draft, page, request>>

\* POST /api/cart/claim-guest commits before it answers.
RetryClaim(w, drop, remove) ==
    LET a == cookie.session
    IN  /\ Write(w)
        /\ a \in Accounts
        /\ Claimable(a)
        /\ drop \subseteq InCart(cart[Guest].lines)
        /\ remove \subseteq InCart(cart[a].lines)
        /\ Claimed(a, drop, remove)
        /\ cookie' \in {cookie, [cookie EXCEPT !.guest = FALSE]}
        /\ UNCHANGED <<active, legacy, draft, page, request>>

-----------------------------------------------------------------------------
PageStep(w) ==
    \/ OpenPage(w)
    \/ \E p \in Products, line \in Line : AskEdit(w, p, line)
    \/ HandleEdit(w)
    \/ SendDraft(w)
    \/ HandleMerge(w)
    \/ HearMerge(w)
    \/ MissMerge(w)
    \/ \E drop, remove \in SUBSET Products : RetryClaim(w, drop, remove)

Next ==
    \/ Bootstrap
    \/ ExpireVisitor
    \/ Logout
    \/ \E w \in Pages : PageStep(w)
    \/ \E p \in Products : Archive(p) \/ DiscardDraft(p)
    \/ \E p \in Products, line \in {{}} \cup {{a} : a \in DraftAmounts} : SaveDraft(p, line)
    \/ \E a \in Accounts : SignIn(a) \/ SignInRolledBack(a) \/ ImportLegacy(a)

Spec == Init /\ [][Next]_vars

-----------------------------------------------------------------------------
Carts == [revision : Nat, lines : Lines]
ReceiptRow == [owner : Owners, key : Keys \cup Sources \cup {Guest}, lines : Lines]
PageRow == [owner : Owners \cup {Nobody}, revision : Nat]
RequestRow ==
    [kind : {"none", "edit", "merge", "joined"}, owner : Owners \cup {Nobody}, revision : Nat,
     lines : Lines, key : Keys \cup Products \cup {NoKey}]

TypeOK ==
    /\ cart \in [Owners -> Carts]
    /\ visitor \in {"none", "live", "expired", "claimed"}
    /\ receipts \subseteq ReceiptRow
    /\ active \subseteq Products
    /\ legacy \in [Accounts -> [Sources -> Lines]]
    /\ cookie \in [session : Accounts \cup {Nobody}, guest : BOOLEAN]
    /\ draft \in [lines : Lines, key : Keys \cup {NoKey}]
    /\ page \in [Pages -> PageRow]
    /\ request \in [Pages -> RequestRow]

\* The line p of o's cart was put in by a page's edit of that cart.
ByEdit(o, p) ==
    \E w \in Pages :
        /\ request[w].kind = "edit"
        /\ request[w].owner = o
        /\ request[w].key = p
        /\ request'[w] = NoRequest

\* Whatever is asked again (a sign-in, a claim, a draft whose answer was lost,
\* a bot chat that still holds its old list), lines from elsewhere enter a
\* cart only once: what the customer has since removed does not come back.
NothingEntersTwice ==
    [][\A o \in Owners, p \in Products :
            \/ cart'[o].lines[p] \in {{}, cart[o].lines[p]}
            \/ ByEdit(o, p)
            \/ \E r \in receipts' \ receipts :
                    /\ r.owner = o
                    /\ r.lines[p] # {}
                    /\ ~ \E old \in receipts : old.owner = o /\ old.key = r.key]_vars

Keeps(a, old, p) ==
    \A was \in old : \E now \in cart'[a].lines[p] : now.unit = was.unit /\ now.qty >= was.qty

\* Signing in by itself loses no line and lowers no quantity, of the account
\* or of the visitor: both carts are joined, or both are left alone.
SignInLosesNothing ==
    [][\A a \in Accounts :
            cookie.session # a /\ cookie'.session = a =>
                \A p \in Products :
                    /\ Keeps(a, cart[a].lines[p], p)
                    /\ \/ Keeps(a, cart[Guest].lines[p], p)
                       \/ visitor' = visitor /\ cart'[Guest] = cart[Guest]]_vars

\* An edit changes the cart its page showed, at the revision it showed,
\* though the browser may have become somebody else in the meantime.
EditsReachTheCartShown ==
    [][\A w \in Pages :
            request[w].kind = "edit" /\ request'[w] = NoRequest /\ cart' # cart =>
                /\ page[w].owner = request[w].owner
                /\ page[w].revision = cart[request[w].owner].revision]_vars
=============================================================================
