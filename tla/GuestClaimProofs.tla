-------------------------- MODULE GuestClaimProofs --------------------------
(***************************************************************************)
(* Proofs about GuestClaim, for any number of accounts, pages, products,   *)
(* amounts and keys.                                                       *)
(*                                                                         *)
(* The three promises rest on little: a request that waits is one of the   *)
(* cart its page shows, and the visitor's cart enters an account once,     *)
(* since its session is live until then and never again.                   *)
(***************************************************************************)
EXTENDS GuestClaim, FiniteSetTheorems, TLAPS

\* A request keeps what its page showed when it was made, and its page shows
\* that until it is answered.
RequestsHold ==
    \A w \in Pages :
        /\ request[w].kind # "none" => request[w].owner \in Owners
        /\ request[w].kind = "edit" =>
            /\ request[w].key \in Products
            /\ page[w].owner = request[w].owner
            /\ page[w].revision = request[w].revision
        /\ request[w].kind = "merge" => request[w].key \in Keys

\* A visitor who can still be claimed has not been.
VisitorEntersOnce ==
    visitor \in {"none", "live"} => \A r \in receipts : r.key # Guest

\* The inductive invariant.
IInv ==
    /\ TypeOK
    /\ RequestsHold
    /\ VisitorEntersOnce

-----------------------------------------------------------------------------
(* Lines.                                                                  *)

LEMMA EmptyIsLines == Empty \in Lines
BY DEF Empty, Lines, Line

LEMMA WithoutIsLines ==
    ASSUME NEW lines \in Lines, NEW dropped
    PROVE  /\ Without(lines, dropped) \in Lines
           /\ \A p \in Products : Without(lines, dropped)[p] \in {{}, lines[p]}
BY DEF Without, Lines, Line

\* Of two amounts in one unit the larger stays, which is one of them.
LEMMA LargerIsOne ==
    ASSUME NEW old \in Line, NEW new \in Line, ~Conflict(old, new)
    PROVE  /\ Larger(old, new) \in {old, new}
           /\ \A was \in old \cup new :
                \E now \in Larger(old, new) : now.unit = was.unit /\ now.qty >= was.qty
<1>1. \A a \in Amounts :
        a.qty \in Nat /\ a.unit \in STRING /\ a = [qty |-> a.qty, unit |-> a.unit]
  BY GuestClaimAssumption DEF GuestClaimAssumption
<1>2. CASE old = {}
  BY <1>1, <1>2 DEF Larger, Line
<1>3. CASE old # {} /\ new = {}
  BY <1>1, <1>3 DEF Larger, Line
<1>4. CASE old # {} /\ new # {}
  <2>1. PICK a \in Amounts, b \in Amounts : old = {a} /\ new = {b}
    BY <1>4 DEF Line
  <2>2. a.unit = b.unit
    BY <2>1 DEF Conflict
  <2>3. Larger(old, new) = {c \in {a, b} : \A d \in {a, b} : d.qty <= c.qty}
    BY <1>4, <2>1 DEF Larger
  <2>4. CASE a.qty > b.qty
    <3>1. Larger(old, new) = {a}
      BY <1>1, <2>3, <2>4
    <3>2. \A was \in {a, b} : a.unit = was.unit /\ a.qty >= was.qty
      BY <1>1, <2>2, <2>4
    <3> QED BY <2>1, <3>1, <3>2
  <2>5. CASE a.qty < b.qty
    <3>1. Larger(old, new) = {b}
      BY <1>1, <2>3, <2>5
    <3>2. \A was \in {a, b} : b.unit = was.unit /\ b.qty >= was.qty
      BY <1>1, <2>2, <2>5
    <3> QED BY <2>1, <3>1, <3>2
  <2>6. CASE a.qty = b.qty
    <3>1. a = b
      BY <1>1, <2>2, <2>6
    <3>2. Larger(old, new) = {a}
      BY <1>1, <2>3, <3>1
    <3> QED BY <1>1, <2>1, <3>1, <3>2
  <2> QED BY <1>1, <2>4, <2>5, <2>6
<1> QED BY <1>2, <1>3, <1>4

LEMMA JoinedIsLines ==
    ASSUME NEW old \in Lines, NEW new \in Lines,
           \A p \in Products : ~Conflict(old[p], new[p])
    PROVE  /\ Joined(old, new) \in Lines
           /\ \A p \in Products : Joined(old, new)[p] \in {old[p], new[p]}
           /\ \A p \in Products : \A was \in old[p] \cup new[p] :
                \E now \in Joined(old, new)[p] : now.unit = was.unit /\ now.qty >= was.qty
<1>1. \A p \in Products : old[p] \in Line /\ new[p] \in Line
  BY DEF Lines
<1>2. Joined(old, new) = [p \in Products |-> Larger(old[p], new[p])]
  BY DEF Joined
<1>3. \A p \in Products : Joined(old, new)[p] \in {old[p], new[p]}
  BY <1>1, <1>2, LargerIsOne
<1>4. Joined(old, new) \in Lines
  BY <1>1, <1>2, <1>3 DEF Lines
<1> QED BY <1>1, <1>2, <1>3, <1>4, LargerIsOne

LEMMA BumpedIsCart ==
    ASSUME NEW c \in Carts, NEW lines \in Lines
    PROVE  Bumped(c, lines) \in Carts /\ Bumped(c, lines).lines = lines
BY DEF Bumped, Carts

\* A cart and its lines.
LEMMA CartIsCart ==
    ASSUME TypeOK, NEW o \in Owners
    PROVE  cart[o] \in Carts /\ cart[o].revision \in Nat /\ cart[o].lines \in Lines
BY DEF TypeOK, Carts

LEMMA CallerIsOwner ==
    ASSUME TypeOK
    PROVE  Caller \in Owners \cup {Nobody}
BY DEF TypeOK, Caller, Owners

LEMMA NobodyIsNoOwner == Nobody \notin Owners /\ Guest \in Owners /\ Accounts \subseteq Owners \ {Guest}
BY GuestClaimAssumption DEF GuestClaimAssumption, Owners

-----------------------------------------------------------------------------
\* A claim joins what was kept and what was brought, and empties the visitor's
\* cart.
LEMMA ClaimJoins ==
    ASSUME TypeOK, NEW a \in Accounts, NEW drop, NEW remove \in SUBSET InCart(cart[a].lines),
           Claimed(a, drop, remove)
    PROVE  LET kept == Without(cart[a].lines, remove)
               brought == Without(cart[Guest].lines, drop)
           IN  /\ kept \in Lines
               /\ brought \in Lines
               /\ \A p \in Products : ~Conflict(kept[p], brought[p])
               /\ cart' \in [Owners -> Carts]
               /\ cart'[a].lines = Joined(kept, brought)
               /\ cart'[Guest].lines = Empty
               /\ \A o \in Owners \ {a, Guest} : cart'[o] = cart[o]
               /\ visitor' = "claimed"
               /\ receipts' = IF brought = Empty THEN receipts
                              ELSE receipts \cup {Receipt(a, Guest, brought)}
<1> DEFINE kept == Without(cart[a].lines, remove)
           brought == Without(cart[Guest].lines, drop)
           revision == cart[a].revision + Cardinality(remove)
           base == [revision |-> revision, lines |-> kept]
           mine == Bumped(base, Joined(kept, brought))
           theirs == Cleared(cart[Guest])
<1>1. kept \in Lines /\ brought \in Lines
  BY CartIsCart, NobodyIsNoOwner, WithoutIsLines
<1>2. /\ \A p \in Products : ~Conflict(kept[p], brought[p])
      /\ cart' = [cart EXCEPT ![a] = mine, ![Guest] = Cleared(@)]
      /\ visitor' = "claimed"
      /\ receipts' = IF brought = Empty THEN receipts
                     ELSE receipts \cup {Receipt(a, Guest, brought)}
  BY DEF Claimed, Joinable
<1>3. Cardinality(remove) \in Nat
  BY GuestClaimAssumption, FS_Subset, FS_CardinalityType DEF GuestClaimAssumption, InCart
<1>4. base \in Carts
  BY <1>1, <1>3, CartIsCart, NobodyIsNoOwner DEF Carts
<1>5. Joined(kept, brought) \in Lines
  BY <1>1, <1>2, JoinedIsLines
<1> HIDE DEF kept, brought, base
<1>6. mine \in Carts /\ mine.lines = Joined(kept, brought)
  BY <1>4, <1>5, BumpedIsCart
<1>7. theirs \in Carts /\ theirs.lines = Empty
  BY CartIsCart, NobodyIsNoOwner, EmptyIsLines, BumpedIsCart DEF Cleared
<1>8. cart' = [cart EXCEPT ![a] = mine, ![Guest] = theirs]
  BY <1>2, NobodyIsNoOwner DEF TypeOK
<1> HIDE DEF mine, theirs
<1>9. /\ cart' \in [Owners -> Carts]
      /\ cart'[a] = mine
      /\ cart'[Guest] = theirs
      /\ \A o \in Owners \ {a, Guest} : cart'[o] = cart[o]
  BY <1>6, <1>7, <1>8, NobodyIsNoOwner DEF TypeOK
<1>10. cart'[a].lines = Joined(kept, brought) /\ cart'[Guest].lines = Empty
  BY <1>6, <1>7, <1>9
<1> QED BY <1>1, <1>2, <1>9, <1>10 DEF kept, brought

\* A claim keeps the types and the visitor's session.
LEMMA ClaimKeeps ==
    ASSUME IInv, NEW a \in Accounts, NEW drop, NEW remove \in SUBSET InCart(cart[a].lines),
           Claimed(a, drop, remove)
    PROVE  /\ cart' \in [Owners -> Carts]
           /\ visitor' = "claimed"
           /\ receipts' \subseteq ReceiptRow
<1> DEFINE brought == Without(cart[Guest].lines, drop)
<1>1. /\ brought \in Lines
      /\ cart' \in [Owners -> Carts]
      /\ visitor' = "claimed"
      /\ receipts' = IF brought = Empty THEN receipts
                     ELSE receipts \cup {Receipt(a, Guest, brought)}
  BY ClaimJoins DEF IInv
<1> HIDE DEF brought
<1>2. Receipt(a, Guest, brought) \in ReceiptRow
  BY <1>1, NobodyIsNoOwner DEF Receipt, ReceiptRow
<1> QED BY <1>1, <1>2 DEF IInv, TypeOK

-----------------------------------------------------------------------------
(* The invariant.                                                          *)

\* Steps of the browser, and of an admin.
LEMMA InvBrowser ==
    ASSUME IInv, Bootstrap \/ ExpireVisitor \/ Logout \/ \E p \in Products : Archive(p)
    PROVE  IInv'
<1>1. UNCHANGED <<cart, receipts, draft, legacy, page, request>>
  BY DEF Bootstrap, ExpireVisitor, Logout, Archive
<1>2. /\ visitor' \in {visitor, "live", "expired"}
      /\ visitor' \in {"none", "live"} => visitor \in {"none", "live"}
  BY DEF Bootstrap, ExpireVisitor, Logout, Archive
<1>3. active' \subseteq Products
  BY DEF IInv, TypeOK, Bootstrap, ExpireVisitor, Logout, Archive
<1>4. cookie' \in [session : Accounts \cup {Nobody}, guest : BOOLEAN]
  <2>1. cookie' \in {cookie, [cookie EXCEPT !.guest = TRUE], [session |-> Nobody, guest |-> FALSE]}
    BY DEF Bootstrap, ExpireVisitor, Logout, Archive
  <2> DEFINE Cookies == [session : Accounts \cup {Nobody}, guest : BOOLEAN]
  <2>2. cookie \in Cookies
    BY DEF IInv, TypeOK
  <2>3. [cookie EXCEPT !.guest = TRUE] \in Cookies
    BY <2>2
  <2>4. [session |-> Nobody, guest |-> FALSE] \in Cookies
    OBVIOUS
  <2> HIDE DEF Cookies
  <2>5. cookie' \in Cookies
    BY <2>1, <2>2, <2>3, <2>4
  <2> QED BY <2>5 DEF Cookies
<1>5. TypeOK'
  BY <1>1, <1>2, <1>3, <1>4 DEF IInv, TypeOK
<1> QED BY <1>1, <1>2, <1>5 DEF IInv, RequestsHold, VisitorEntersOnce

\* A draft is of lines and a key.
LEMMA InvDraft ==
    ASSUME IInv,
           \/ \E p \in Products : DiscardDraft(p)
           \/ \E p \in Products, line \in {{}} \cup {{a} : a \in DraftAmounts} : SaveDraft(p, line)
    PROVE  IInv'
<1>1. UNCHANGED <<cart, visitor, receipts, active, legacy, cookie, page, request>>
  BY DEF DiscardDraft, SaveDraft
<1>2. draft' \in [lines : Lines, key : Keys \cup {NoKey}]
  <2>1. draft.lines \in Lines /\ draft.key \in Keys \cup {NoKey}
    BY DEF IInv, TypeOK
  <2>2. CASE \E p \in Products : DiscardDraft(p)
    <3> PICK p \in Products : DiscardDraft(p)
      BY <2>2
    <3> DEFINE left == Without(draft.lines, {p})
    <3>1. left \in Lines
      BY <2>1, WithoutIsLines
    <3>2. draft' = [lines |-> left, key |-> IF left = Empty THEN NoKey ELSE draft.key]
      BY DEF DiscardDraft
    <3> HIDE DEF left
    <3> QED BY <2>1, <3>1, <3>2
  <2>3. CASE \E p \in Products, line \in {{}} \cup {{a} : a \in DraftAmounts} : SaveDraft(p, line)
    <3> PICK p \in Products, line \in {{}} \cup {{a} : a \in DraftAmounts} : SaveDraft(p, line)
      BY <2>3
    <3>1. line \in Line
      BY GuestClaimAssumption DEF Line, GuestClaimAssumption
    <3>2. [draft.lines EXCEPT ![p] = line] \in Lines
      BY <2>1, <3>1 DEF Lines
    <3> QED BY <3>2 DEF SaveDraft
  <2> QED BY <2>2, <2>3
<1> QED BY <1>1, <1>2 DEF IInv, TypeOK, RequestsHold, VisitorEntersOnce

\* A page is loaded while it waits for nothing.
LEMMA InvOpenPage ==
    ASSUME IInv, NEW w \in Pages, OpenPage(w)
    PROVE  IInv'
<1> DEFINE row == [owner |-> Caller, revision |-> IF Caller = Nobody THEN 0 ELSE cart[Caller].revision]
<1>1. row \in PageRow
  BY CallerIsOwner, CartIsCart DEF IInv, PageRow
<1>2. /\ page' = [page EXCEPT ![w] = row] /\ request[w].kind = "none"
      /\ UNCHANGED <<cart, visitor, receipts, active, legacy, cookie, draft, request>>
  BY DEF OpenPage
<1> HIDE DEF row
<1> QED BY <1>1, <1>2 DEF IInv, TypeOK, RequestsHold, VisitorEntersOnce

\* What a page asks for is of the cart it shows.
LEMMA AskerIsOwner ==
    ASSUME TypeOK, NEW w \in Pages, Write(w)
    PROVE  /\ Caller \in Owners
           /\ page[w].owner = Caller
           /\ page[w].revision \in Nat
BY CallerIsOwner, NobodyIsNoOwner DEF Write, SameCookies, TypeOK, PageRow

LEMMA InvAskEdit ==
    ASSUME IInv, NEW w \in Pages, NEW p \in Products, NEW line \in Line, AskEdit(w, p, line)
    PROVE  IInv'
<1> DEFINE row == [kind |-> "edit", owner |-> Caller, revision |-> page[w].revision,
                   lines |-> [Empty EXCEPT ![p] = line], key |-> p]
<1>1. Caller \in Owners /\ page[w].owner = Caller /\ page[w].revision \in Nat
  BY AskerIsOwner DEF IInv, AskEdit
<1>2. [Empty EXCEPT ![p] = line] \in Lines
  BY EmptyIsLines DEF Lines
<1>3. row \in RequestRow
  BY <1>1, <1>2 DEF RequestRow
<1>4. /\ row.kind = "edit"
      /\ row.owner = Caller
      /\ row.revision = page[w].revision
      /\ row.key = p
  OBVIOUS
<1>5. /\ request' = [request EXCEPT ![w] = row]
      /\ UNCHANGED <<cart, visitor, receipts, active, legacy, cookie, draft, page>>
  BY DEF AskEdit
<1> HIDE DEF row
<1>6. request'[w] = row /\ \A v \in Pages \ {w} : request'[v] = request[v]
  BY <1>5 DEF IInv, TypeOK
<1>7. TypeOK'
  BY <1>3, <1>5 DEF IInv, TypeOK
<1>8. RequestsHold'
  BY <1>1, <1>4, <1>5, <1>6 DEF IInv, RequestsHold
<1> QED BY <1>5, <1>7, <1>8 DEF IInv, VisitorEntersOnce

LEMMA InvSendDraft ==
    ASSUME IInv, NEW w \in Pages, SendDraft(w)
    PROVE  IInv'
<1>1. Caller \in Owners /\ cart[Caller].revision \in Nat
  BY AskerIsOwner, CartIsCart DEF IInv, SendDraft
<1>2. PICK key \in IF draft.key = NoKey THEN FreshKeys ELSE {draft.key} :
        /\ draft' = [draft EXCEPT !.key = key]
        /\ request' = [request EXCEPT ![w] =
                        [kind |-> "merge", owner |-> Caller, revision |-> cart[Caller].revision,
                         lines |-> draft.lines, key |-> key]]
  BY DEF SendDraft
<1> DEFINE row == [kind |-> "merge", owner |-> Caller, revision |-> cart[Caller].revision,
                   lines |-> draft.lines, key |-> key]
<1>3. key \in Keys /\ draft.lines \in Lines
  BY <1>2 DEF FreshKeys, IInv, TypeOK
<1>4. row \in RequestRow /\ row.kind = "merge" /\ row.owner = Caller /\ row.key = key
  BY <1>1, <1>3 DEF RequestRow
<1>5. UNCHANGED <<cart, visitor, receipts, active, legacy, cookie, page>>
  BY DEF SendDraft
<1>6. request' = [request EXCEPT ![w] = row]
  BY <1>2
<1> HIDE DEF row
<1>7. request'[w] = row /\ \A v \in Pages \ {w} : request'[v] = request[v]
  BY <1>6 DEF IInv, TypeOK
<1>8. TypeOK'
  BY <1>2, <1>3, <1>4, <1>5, <1>6 DEF IInv, TypeOK
<1>9. RequestsHold'
  BY <1>1, <1>3, <1>4, <1>5, <1>7 DEF IInv, RequestsHold
<1> QED BY <1>5, <1>8, <1>9 DEF IInv, VisitorEntersOnce

LEMMA NoRequestIsRow == NoRequest \in RequestRow /\ NoRequest.kind = "none"
BY EmptyIsLines DEF NoRequest, RequestRow

\* A page that has its answer waits for nothing.
LEMMA InvHear ==
    ASSUME IInv, NEW w \in Pages, HearMerge(w) \/ MissMerge(w)
    PROVE  IInv'
<1>1. /\ request' = [request EXCEPT ![w] = NoRequest]
      /\ UNCHANGED <<cart, visitor, receipts, active, legacy, cookie, page>>
  BY DEF HearMerge, MissMerge
<1>2. draft' \in [lines : Lines, key : Keys \cup {NoKey}]
  BY EmptyIsLines DEF HearMerge, MissMerge, IInv, TypeOK
<1>3. TypeOK'
  BY <1>1, <1>2, NoRequestIsRow DEF IInv, TypeOK
<1>4. RequestsHold'
  BY <1>1, NoRequestIsRow DEF IInv, TypeOK, RequestsHold
<1> QED BY <1>1, <1>3, <1>4 DEF IInv, VisitorEntersOnce

\* What an edit makes of the cart it is of.
LEMMA EditChanges ==
    ASSUME IInv, NEW w \in Pages, HandleEdit(w)
    PROVE  LET r == request[w]
           IN  /\ r.owner \in Owners
               /\ r.key \in Products
               /\ cart' \in [Owners -> Carts]
               /\ \A o \in Owners, p \in Products :
                    o # r.owner \/ p # r.key => cart'[o].lines[p] = cart[o].lines[p]
               /\ cart' # cart => cart[r.owner].revision = r.revision
<1> DEFINE r == request[w]
<1>1. /\ r \in RequestRow
      /\ r.owner \in Owners
      /\ r.key \in Products
      /\ r.lines \in Lines
  BY DEF IInv, TypeOK, RequestsHold, HandleEdit, RequestRow
<1>2. cart[r.owner] \in Carts /\ cart[r.owner].lines \in Lines
  BY <1>1, CartIsCart DEF IInv
<1>3. Edited(r) \in Lines /\ \A p \in Products \ {r.key} : Edited(r)[p] = cart[r.owner].lines[p]
  BY <1>1, <1>2 DEF Edited, Lines
<1> DEFINE new == Bumped(cart[r.owner], Edited(r))
<1>4. new \in Carts /\ new.lines = Edited(r)
  BY <1>2, <1>3, BumpedIsCart
<1>5. cart' = IF Editable(r) THEN [cart EXCEPT ![r.owner] = new] ELSE cart
  BY DEF HandleEdit
<1>6. Editable(r) => cart[r.owner].revision = r.revision
  BY DEF Editable
<1> HIDE DEF r, new
<1>7. /\ cart' \in [Owners -> Carts]
      /\ \A o \in Owners, p \in Products :
            o # r.owner \/ p # r.key => cart'[o].lines[p] = cart[o].lines[p]
      /\ cart' # cart => cart[r.owner].revision = r.revision
  BY <1>1, <1>3, <1>4, <1>5, <1>6 DEF IInv, TypeOK
<1> QED BY <1>1, <1>7 DEF r

LEMMA InvHandleEdit ==
    ASSUME IInv, NEW w \in Pages, HandleEdit(w)
    PROVE  IInv'
<1> DEFINE o == request[w].owner
<1>1. o \in Owners /\ cart' \in [Owners -> Carts]
  BY EditChanges
<1>2. /\ request' = [request EXCEPT ![w] = NoRequest]
      /\ UNCHANGED <<visitor, receipts, active, legacy, cookie, draft>>
      /\ \/ page' = [page EXCEPT ![w].revision = IF page[w].owner = o THEN cart'[o].revision ELSE @]
         \/ page' = page
  BY DEF HandleEdit, Answered
<1>3. cart'[o].revision \in Nat
  BY <1>1 DEF Carts
<1> HIDE DEF o
<1>4. page' \in [Pages -> PageRow] /\ \A v \in Pages \ {w} : page'[v] = page[v]
  BY <1>2, <1>3 DEF IInv, TypeOK, PageRow
<1>5. request' \in [Pages -> RequestRow] /\ request'[w].kind = "none"
  BY <1>2, NoRequestIsRow DEF IInv, TypeOK
<1>6. \A v \in Pages \ {w} : request'[v] = request[v]
  BY <1>2 DEF IInv, TypeOK
<1>7. TypeOK'
  BY <1>1, <1>2, <1>4, <1>5 DEF IInv, TypeOK
<1>8. RequestsHold'
  BY <1>4, <1>5, <1>6 DEF IInv, RequestsHold
<1> QED BY <1>2, <1>7, <1>8 DEF IInv, VisitorEntersOnce

\* What a merge makes of the cart it is of: nothing, or the draft is joined
\* to it for the first time.
LEMMA MergeChanges ==
    ASSUME IInv, NEW w \in Pages, HandleMerge(w)
    PROVE  LET r == request[w]
               receipt == Receipt(r.owner, r.key, r.lines)
           IN  /\ r.owner \in Owners
               /\ r.key \in Keys
               /\ r.lines \in Lines
               /\ request' \in [Pages -> RequestRow]
               /\ request'[w].kind \in {"none", "joined"}
               /\ request'[w].kind = "joined" => request'[w].owner = r.owner
               /\ \A v \in Pages \ {w} : request'[v] = request[v]
               /\ \/ UNCHANGED <<cart, receipts>>
                  \/ /\ cart' \in [Owners -> Carts]
                     /\ \A o \in Owners \ {r.owner} : cart'[o] = cart[o]
                     /\ \A p \in Products :
                            cart'[r.owner].lines[p] \in {cart[r.owner].lines[p], r.lines[p]}
                     /\ ~Seen(r.owner, r.key)
                     /\ receipts' = receipts \cup {receipt}
<1> DEFINE r == request[w]
           o == r.owner
           receipt == Receipt(o, r.key, r.lines)
<1>1. r \in RequestRow /\ o \in Owners /\ r.key \in Keys /\ r.lines \in Lines
  BY DEF IInv, TypeOK, RequestsHold, HandleMerge, RequestRow
<1>2. cart[o] \in Carts /\ cart[o].lines \in Lines
  BY <1>1, CartIsCart DEF IInv
<1>3. \/ request' = [request EXCEPT ![w].kind = "joined"]
      \/ request' = [request EXCEPT ![w] = NoRequest]
  BY DEF HandleMerge
<1>4. /\ request' \in [Pages -> RequestRow]
      /\ request'[w].kind \in {"none", "joined"}
      /\ request'[w].kind = "joined" => request'[w].owner = o
      /\ \A v \in Pages \ {w} : request'[v] = request[v]
  <2>1. request \in [Pages -> RequestRow]
    BY DEF IInv, TypeOK
  <2>2. CASE request' = [request EXCEPT ![w].kind = "joined"]
    BY <1>1, <2>1, <2>2 DEF RequestRow
  <2>3. CASE request' = [request EXCEPT ![w] = NoRequest]
    BY <2>1, <2>3, NoRequestIsRow
  <2> QED BY <1>3, <2>2, <2>3
<1>5. CASE UNCHANGED <<cart, receipts>>
  BY <1>1, <1>4, <1>5
<1>6. CASE /\ ~Seen(o, r.key)
           /\ Joinable(cart[o].lines, r.lines)
           /\ cart' = [cart EXCEPT ![o] = Bumped(@, Joined(@.lines, r.lines))]
           /\ receipts' = receipts \cup {receipt}
  <2> DEFINE new == Bumped(cart[o], Joined(cart[o].lines, r.lines))
  <2>1. /\ Joined(cart[o].lines, r.lines) \in Lines
        /\ \A p \in Products : Joined(cart[o].lines, r.lines)[p] \in {cart[o].lines[p], r.lines[p]}
    BY <1>1, <1>2, <1>6, JoinedIsLines DEF Joinable
  <2>2. new \in Carts /\ new.lines = Joined(cart[o].lines, r.lines)
    BY <1>2, <2>1, BumpedIsCart
  <2>3. cart' = [cart EXCEPT ![o] = new]
    BY <1>6
  <2> HIDE DEF new, r, o, receipt
  <2>4. /\ cart' \in [Owners -> Carts]
        /\ cart'[o].lines = Joined(cart[o].lines, r.lines)
        /\ \A v \in Owners \ {o} : cart'[v] = cart[v]
    BY <1>1, <2>2, <2>3 DEF IInv, TypeOK
  <2>5. \A p \in Products : cart'[o].lines[p] \in {cart[o].lines[p], r.lines[p]}
    BY <2>1, <2>4
  <2> QED BY <1>1, <1>4, <1>6, <2>4, <2>5 DEF r, o, receipt
<1> QED BY <1>5, <1>6 DEF HandleMerge

LEMMA InvHandleMerge ==
    ASSUME IInv, NEW w \in Pages, HandleMerge(w)
    PROVE  IInv'
<1> DEFINE r == request[w]
           receipt == Receipt(r.owner, r.key, r.lines)
<1>1. /\ r.owner \in Owners /\ r.key \in Keys /\ r.lines \in Lines
      /\ request' \in [Pages -> RequestRow]
      /\ request'[w].kind \in {"none", "joined"}
      /\ request'[w].kind = "joined" => request'[w].owner = r.owner
      /\ \A v \in Pages \ {w} : request'[v] = request[v]
      /\ cart' \in [Owners -> Carts]
      /\ receipts' \in {receipts, receipts \cup {receipt}}
  BY MergeChanges DEF IInv, TypeOK
<1>2. UNCHANGED <<visitor, active, legacy, cookie, draft, page>>
  BY DEF HandleMerge
<1>3. receipt \in ReceiptRow /\ receipt.key = r.key
  BY <1>1 DEF Receipt, ReceiptRow
<1>4. r.key # Guest
  BY <1>1, GuestClaimAssumption DEF GuestClaimAssumption
<1> HIDE DEF r, receipt
<1>5. TypeOK'
  BY <1>1, <1>2, <1>3 DEF IInv, TypeOK
<1>6. RequestsHold'
  BY <1>1, <1>2 DEF IInv, RequestsHold
<1>7. VisitorEntersOnce'
  BY <1>1, <1>2, <1>3, <1>4 DEF IInv, VisitorEntersOnce
<1> QED BY <1>5, <1>6, <1>7 DEF IInv

\* What an import of the old lists makes of a cart: a line that is new to it
\* comes from a list that was not imported before, and leaves a receipt.
LEMMA ImportChanges ==
    ASSUME IInv, NEW o \in Accounts, ImportLegacy(o)
    PROVE  /\ cart' \in [Owners -> Carts]
           /\ \A v \in Owners \ {o} : cart'[v] = cart[v]
           /\ receipts' \subseteq ReceiptRow
           /\ \A r \in receipts' \ receipts : r.key \in Sources
           /\ \A p \in Products :
                \/ cart'[o].lines[p] \in {{}, cart[o].lines[p]}
                \/ \E r \in receipts' :
                        r.owner = o /\ r.lines[p] # {} /\ ~Seen(o, r.key)
<1> DEFINE old == cart[o].lines
           list(s) == IF s \in NewLists(o) THEN Usable(o, legacy[o][s]) ELSE Empty
           first == Joined(old, list("fsm"))
           second == [p \in Products |-> IF Conflict(first[p], list("agent")[p]) THEN {} ELSE list("agent")[p]]
           whole == Joined(first, second)
           steps == (IF first = cart[o].lines THEN 0 ELSE 1) + (IF whole = first THEN 0 ELSE 1)
<1>1. o \in Owners /\ cart[o].revision \in Nat /\ old \in Lines
  BY CartIsCart, NobodyIsNoOwner DEF IInv
<1>2. ASSUME NEW s \in Sources
      PROVE  /\ list(s) \in Lines
             /\ \A p \in Products : ~Conflict(old[p], list(s)[p])
             /\ s \notin NewLists(o) => \A p \in Products : list(s)[p] = {}
  <2>1. legacy[o][s] \in Lines
    BY DEF IInv, TypeOK
  <2>2. Usable(o, legacy[o][s]) \in Lines
    BY <2>1 DEF Usable, Lines, Line
  <2>3. \A p \in Products : ~Conflict(old[p], Usable(o, legacy[o][s])[p])
    BY DEF Usable, Conflict
  <2>4. \A p \in Products : Empty[p] = {} /\ ~Conflict(old[p], Empty[p])
    BY DEF Empty, Conflict
  <2> QED BY <2>2, <2>3, <2>4, EmptyIsLines
<1>3. "fsm" \in Sources /\ "agent" \in Sources
  BY DEF Sources
<1>4. /\ cart' = [cart EXCEPT ![o] = [revision |-> @.revision + steps, lines |-> whole]]
      /\ receipts' = receipts \cup {Receipt(o, s, list(s)) : s \in NewLists(o)}
  BY DEF ImportLegacy
<1>5. steps \in Nat
  OBVIOUS
<1> HIDE DEF list, steps, old
<1>6. /\ first \in Lines
      /\ \A p \in Products : first[p] \in {old[p], list("fsm")[p]}
  BY <1>1, <1>2, <1>3, JoinedIsLines
<1> HIDE DEF first
<1>7. /\ second \in Lines
      /\ \A p \in Products : ~Conflict(first[p], second[p])
      /\ \A p \in Products : second[p] \in {{}, list("agent")[p]}
  <2>1. list("agent") \in Lines
    BY <1>2, <1>3
  <2>2. \A p \in Products : second[p] = IF Conflict(first[p], list("agent")[p]) THEN {} ELSE list("agent")[p]
    OBVIOUS
  <2>3. \A p \in Products : ~Conflict(first[p], {})
    BY DEF Conflict
  <2>4. second \in Lines
    BY <2>1 DEF Lines, Line
  <2> HIDE DEF second
  <2> QED BY <2>2, <2>3, <2>4
<1> HIDE DEF second
<1>8. /\ whole \in Lines
      /\ \A p \in Products : whole[p] \in {first[p], second[p]}
  BY <1>6, <1>7, JoinedIsLines
<1> HIDE DEF whole
<1>9. /\ cart' \in [Owners -> Carts]
      /\ cart'[o].lines = whole
      /\ \A v \in Owners \ {o} : cart'[v] = cart[v]
  <2>1. [revision |-> cart[o].revision + steps, lines |-> whole] \in Carts
    BY <1>1, <1>5, <1>8 DEF Carts
  <2> QED BY <1>1, <1>4, <2>1 DEF IInv, TypeOK
<1>10. NewLists(o) \subseteq Sources /\ \A s \in NewLists(o) : ~Seen(o, s)
  BY DEF NewLists
<1>11. \A s \in NewLists(o) :
        /\ Receipt(o, s, list(s)) \in ReceiptRow
        /\ Receipt(o, s, list(s)).owner = o
        /\ Receipt(o, s, list(s)).key = s
        /\ Receipt(o, s, list(s)).lines = list(s)
  BY <1>1, <1>2, <1>10 DEF Receipt, ReceiptRow
<1>12. /\ receipts' \subseteq ReceiptRow
       /\ \A r \in receipts' \ receipts : r.key \in Sources
  BY <1>4, <1>10, <1>11 DEF IInv, TypeOK
<1>13. ASSUME NEW p \in Products, cart'[o].lines[p] \notin {{}, cart[o].lines[p]}
       PROVE  \E r \in receipts' : r.owner = o /\ r.lines[p] # {} /\ ~Seen(o, r.key)
  <2>1. \E s \in Sources : list(s)[p] # {}
    BY <1>3, <1>6, <1>7, <1>8, <1>9, <1>13 DEF old
  <2>2. PICK s \in Sources : list(s)[p] # {}
    BY <2>1
  <2>3. s \in NewLists(o)
    BY <1>2, <2>2
  <2> QED BY <1>4, <1>10, <1>11, <2>2, <2>3
<1> QED BY <1>9, <1>12, <1>13

LEMMA InvImport ==
    ASSUME IInv, NEW o \in Accounts, ImportLegacy(o)
    PROVE  IInv'
<1>1. /\ cart' \in [Owners -> Carts]
      /\ receipts' \subseteq ReceiptRow
      /\ \A r \in receipts' \ receipts : r.key \in Sources
  BY ImportChanges
<1>2. UNCHANGED <<visitor, active, legacy, cookie, draft, page, request>>
  BY DEF ImportLegacy
<1>3. Guest \notin Sources
  BY GuestClaimAssumption DEF GuestClaimAssumption
<1> QED BY <1>1, <1>2, <1>3 DEF IInv, TypeOK, RequestsHold, VisitorEntersOnce

\* Signing in and claiming.
LEMMA NothingToRemove == \A lines : {} \in SUBSET InCart(lines)
OBVIOUS

LEMMA InvClaim ==
    ASSUME IInv, NEW a \in Accounts, NEW drop, NEW remove \in SUBSET InCart(cart[a].lines),
           Claimed(a, drop, remove), cookie' \in [session : Accounts \cup {Nobody}, guest : BOOLEAN],
           UNCHANGED <<active, legacy, draft, page, request>>
    PROVE  IInv'
<1>1. cart' \in [Owners -> Carts] /\ visitor' = "claimed" /\ receipts' \subseteq ReceiptRow
  BY ClaimKeeps
<1> QED BY <1>1 DEF IInv, TypeOK, RequestsHold, VisitorEntersOnce

LEMMA CookiesAre ==
    ASSUME TypeOK, NEW a \in Accounts
    PROVE  LET Cookies == [session : Accounts \cup {Nobody}, guest : BOOLEAN]
           IN  /\ cookie \in Cookies
               /\ [session |-> a, guest |-> FALSE] \in Cookies
               /\ [cookie EXCEPT !.session = a] \in Cookies
               /\ [cookie EXCEPT !.guest = FALSE] \in Cookies
BY DEF TypeOK

LEMMA InvSignIn ==
    ASSUME IInv, NEW a \in Accounts, SignIn(a) \/ SignInRolledBack(a)
    PROVE  IInv'
<1>1. UNCHANGED <<active, legacy, draft, page, request>>
  BY DEF SignIn, SignInRolledBack
<1>2. cookie' \in [session : Accounts \cup {Nobody}, guest : BOOLEAN]
  BY CookiesAre DEF IInv, SignIn, SignInRolledBack
<1>3. CASE Claimed(a, {}, {})
  BY <1>1, <1>2, <1>3, NothingToRemove, InvClaim
<1>4. CASE NotClaimed
  BY <1>1, <1>2, <1>4 DEF NotClaimed, IInv, TypeOK, RequestsHold, VisitorEntersOnce
<1> QED BY <1>3, <1>4 DEF SignIn, SignInRolledBack

LEMMA InvRetryClaim ==
    ASSUME IInv, NEW w \in Pages, NEW drop, NEW remove, RetryClaim(w, drop, remove)
    PROVE  IInv'
<1> DEFINE a == cookie.session
<1>1. /\ a \in Accounts
      /\ remove \in SUBSET InCart(cart[a].lines)
      /\ Claimed(a, drop, remove)
      /\ cookie' \in {cookie, [cookie EXCEPT !.guest = FALSE]}
      /\ UNCHANGED <<active, legacy, draft, page, request>>
  BY DEF RetryClaim
<1> HIDE DEF a
<1>2. cookie' \in [session : Accounts \cup {Nobody}, guest : BOOLEAN]
  BY <1>1, CookiesAre DEF IInv
<1> QED BY <1>1, <1>2, InvClaim

LEMMA Initially == Init => IInv
<1> SUFFICES ASSUME Init PROVE IInv
  OBVIOUS
<1>1. cart \in [Owners -> Carts]
  BY EmptyIsLines DEF Init, Carts
<1>2. legacy \in [Accounts -> [Sources -> Lines]]
  BY GuestClaimAssumption DEF Init, GuestClaimAssumption
<1>3. page \in [Pages -> PageRow]
  BY DEF Init, Closed, PageRow
<1>4. request \in [Pages -> RequestRow] /\ \A w \in Pages : request[w].kind = "none"
  BY NoRequestIsRow DEF Init
<1>5. draft \in [lines : Lines, key : Keys \cup {NoKey}]
  BY EmptyIsLines DEF Init
<1>6. TypeOK
  BY <1>1, <1>2, <1>3, <1>4, <1>5 DEF Init, TypeOK
<1> QED BY <1>4, <1>6 DEF Init, IInv, RequestsHold, VisitorEntersOnce

LEMMA Consecution == IInv /\ [Next]_vars => IInv'
<1> SUFFICES ASSUME IInv, [Next]_vars PROVE IInv'
  OBVIOUS
<1>1. CASE UNCHANGED vars
  BY <1>1 DEF vars, IInv, TypeOK, RequestsHold, VisitorEntersOnce
<1>2. CASE Bootstrap \/ ExpireVisitor \/ Logout \/ \E p \in Products : Archive(p)
  BY <1>2, InvBrowser
<1>3. CASE \/ \E p \in Products : DiscardDraft(p)
           \/ \E p \in Products, line \in {{}} \cup {{a} : a \in DraftAmounts} : SaveDraft(p, line)
  BY <1>3, InvDraft
<1>4. CASE \E w \in Pages : PageStep(w)
  <2> PICK w \in Pages : PageStep(w)
    BY <1>4
  <2>1. CASE OpenPage(w)
    BY <2>1, InvOpenPage
  <2>2. CASE \E p \in Products, line \in Line : AskEdit(w, p, line)
    BY <2>2, InvAskEdit
  <2>3. CASE HandleEdit(w)
    BY <2>3, InvHandleEdit
  <2>4. CASE SendDraft(w)
    BY <2>4, InvSendDraft
  <2>5. CASE HandleMerge(w)
    BY <2>5, InvHandleMerge
  <2>6. CASE HearMerge(w) \/ MissMerge(w)
    BY <2>6, InvHear
  <2>7. CASE \E drop, remove \in SUBSET Products : RetryClaim(w, drop, remove)
    BY <2>7, InvRetryClaim
  <2> QED BY <2>1, <2>2, <2>3, <2>4, <2>5, <2>6, <2>7 DEF PageStep
<1>5. CASE \E a \in Accounts : SignIn(a) \/ SignInRolledBack(a) \/ ImportLegacy(a)
  BY <1>5, InvSignIn, InvImport
<1> QED BY <1>1, <1>2, <1>3, <1>4, <1>5 DEF Next

\* Requests keep what their pages showed, and a visitor who was claimed is
\* claimed no more.
THEOREM Invariance == Spec => []IInv
BY Initially, Consecution, PTL DEF Spec

\* Every cart, receipt, page and request keeps its type.
THEOREM TypeCorrect == Spec => []TypeOK
BY Invariance, PTL DEF IInv

-----------------------------------------------------------------------------
\* An answered edit has changed the cart of its page, at the revision of the
\* page, or none.
LEMMA EditIsOfItsPage ==
    ASSUME IInv, Next, NEW w \in Pages, request[w].kind = "edit", request'[w] = NoRequest,
           cart' # cart
    PROVE  /\ page[w].owner = request[w].owner
           /\ page[w].revision = cart[request[w].owner].revision
<1>1. page[w].owner = request[w].owner /\ page[w].revision = request[w].revision
  BY DEF IInv, RequestsHold
<1>2. request'[w] # request[w]
  BY NoRequestIsRow
<1>3. HandleEdit(w)
  <2>1. \E v \in Pages : PageStep(v)
    BY <1>2 DEF Next, Bootstrap, ExpireVisitor, Logout, Archive, DiscardDraft, SaveDraft,
                SignIn, SignInRolledBack, ImportLegacy
  <2>2. PICK v \in Pages : PageStep(v)
    BY <2>1
  <2>3. request \in [Pages -> RequestRow]
    BY DEF IInv, TypeOK
  <2>4. \/ \E p \in Products, line \in Line : AskEdit(v, p, line)
        \/ HandleEdit(v) \/ SendDraft(v) \/ HandleMerge(v) \/ HearMerge(v) \/ MissMerge(v)
    BY <1>2, <2>2 DEF PageStep, OpenPage, RetryClaim
  <2>5. \A u \in Pages \ {v} : request'[u] = request[u]
    BY <2>3, <2>4 DEF AskEdit, HandleEdit, Answered, SendDraft, HandleMerge, HearMerge, MissMerge
  <2>6. v = w
    BY <1>2, <2>5
  <2> QED BY <2>4, <2>6 DEF AskEdit, SendDraft, Write, HandleMerge, HearMerge, MissMerge
<1> QED BY <1>1, <1>3, EditChanges

\* An edit changes the cart its page shows, at the revision it shows, whoever
\* the browser has become since.
THEOREM EditsAreOfTheirPage == Spec => EditsReachTheCartShown
<1>1. IInv /\ [Next]_vars
        => [\A w \in Pages :
                request[w].kind = "edit" /\ request'[w] = NoRequest /\ cart' # cart =>
                    /\ page[w].owner = request[w].owner
                    /\ page[w].revision = cart[request[w].owner].revision]_vars
  BY EditIsOfItsPage
<1> QED BY <1>1, Invariance, PTL DEF Spec, EditsReachTheCartShown

-----------------------------------------------------------------------------
\* What a sign-in joins keeps every line of both carts.
LEMMA SignInKeeps ==
    ASSUME IInv, NEW a \in Accounts, Claimed(a, {}, {}), NEW p \in Products
    PROVE  Keeps(a, cart[a].lines[p], p) /\ Keeps(a, cart[Guest].lines[p], p)
<1> DEFINE mine == Without(cart[a].lines, {})
           theirs == Without(cart[Guest].lines, {})
<1>1. mine[p] = cart[a].lines[p] /\ theirs[p] = cart[Guest].lines[p]
  BY DEF Without
<1>2. /\ mine \in Lines /\ theirs \in Lines
      /\ \A q \in Products : ~Conflict(mine[q], theirs[q])
      /\ cart'[a].lines = Joined(mine, theirs)
  BY NothingToRemove, ClaimJoins DEF IInv
<1> HIDE DEF mine, theirs
<1>3. \A was \in mine[p] \cup theirs[p] :
        \E now \in cart'[a].lines[p] : now.unit = was.unit /\ now.qty >= was.qty
  BY <1>2, JoinedIsLines
<1> QED BY <1>1, <1>3 DEF Keeps

\* What stays as it was keeps its lines.
LEMMA SameKeeps ==
    ASSUME IInv, NEW o \in Owners, NEW p \in Products, cart' = cart
    PROVE  Keeps(o, cart[o].lines[p], p)
<1>1. cart[o].lines[p] \in Line
  BY CartIsCart DEF IInv, Lines
<1>2. \A was \in cart[o].lines[p] : was.qty \in Nat
  BY <1>1, GuestClaimAssumption DEF Line, GuestClaimAssumption
<1>3. \A was \in cart[o].lines[p] : was.qty >= was.qty
  BY <1>2
<1> QED BY <1>3 DEF Keeps

\* Signing in, whether the carts are joined or left alone, loses no line and
\* lowers no quantity, of any account and visitor.
THEOREM SignInKeepsEverything == Spec => SignInLosesNothing
<1>1. ASSUME IInv, Next, NEW a \in Accounts, cookie.session # a, cookie'.session = a, NEW p \in Products
      PROVE  /\ Keeps(a, cart[a].lines[p], p)
             /\ \/ Keeps(a, cart[Guest].lines[p], p)
                \/ visitor' = visitor /\ cart'[Guest] = cart[Guest]
  <2>1. cookie \in [session : Accounts \cup {Nobody}, guest : BOOLEAN]
    BY <1>1 DEF IInv, TypeOK
  <2>2. cookie'.session # cookie.session /\ cookie'.session # Nobody
    <3>1. a # Nobody
      BY GuestClaimAssumption DEF GuestClaimAssumption
    <3> QED BY <1>1, <3>1
  <2>3. \A b \in Accounts : SignIn(b) \/ SignInRolledBack(b) => cookie'.session = b \/ cookie' = cookie
    BY <2>1 DEF SignIn, SignInRolledBack
  <2>4. \A w \in Pages, drop \in SUBSET Products, remove \in SUBSET Products :
            RetryClaim(w, drop, remove) => cookie'.session = cookie.session
    BY <2>1 DEF RetryClaim
  <2>5. \A w \in Pages : PageStep(w) => cookie'.session = cookie.session
    BY <2>4 DEF PageStep, OpenPage, AskEdit, HandleEdit, SendDraft, HandleMerge, HearMerge, MissMerge
  <2>6. Bootstrap => cookie'.session = cookie.session
    BY <2>1 DEF Bootstrap
  <2>7. Logout => cookie'.session = Nobody
    BY DEF Logout
  <2>8. SignIn(a) \/ SignInRolledBack(a)
    BY <1>1, <2>2, <2>3, <2>5, <2>6, <2>7
       DEF Next, ExpireVisitor, Archive, DiscardDraft, SaveDraft, ImportLegacy
  <2>9. CASE Claimed(a, {}, {})
    BY <1>1, <2>9, SignInKeeps
  <2>10. CASE NotClaimed
    BY <1>1, <2>10, SameKeeps, NobodyIsNoOwner DEF NotClaimed
  <2> QED BY <2>8, <2>9, <2>10 DEF SignIn, SignInRolledBack
<1>2. IInv /\ [Next]_vars
        => [\A a \in Accounts :
                cookie.session # a /\ cookie'.session = a =>
                    \A p \in Products :
                        /\ Keeps(a, cart[a].lines[p], p)
                        /\ \/ Keeps(a, cart[Guest].lines[p], p)
                           \/ visitor' = visitor /\ cart'[Guest] = cart[Guest]]_vars
  BY <1>1
<1> QED BY <1>2, Invariance, PTL DEF Spec, SignInLosesNothing

-----------------------------------------------------------------------------
\* A line that enters a cart with a receipt under a key that has none yet.
EntersOnce(o, p) ==
    \E r \in receipts' \ receipts :
        /\ r.owner = o
        /\ r.lines[p] # {}
        /\ ~ \E old \in receipts : old.owner = o /\ old.key = r.key

LEMMA NewReceiptEnters ==
    ASSUME NEW o, NEW p, NEW r \in receipts', r.owner = o, r.lines[p] # {}, ~Seen(o, r.key)
    PROVE  EntersOnce(o, p)
BY DEF EntersOnce, Seen

LEMMA ClaimEntersOnce ==
    ASSUME IInv, NEW a \in Accounts, NEW drop, NEW remove \in SUBSET InCart(cart[a].lines),
           Claimable(a), Claimed(a, drop, remove), NEW o \in Owners, NEW p \in Products
    PROVE  cart'[o].lines[p] \in {{}, cart[o].lines[p]} \/ EntersOnce(o, p)
<1> DEFINE kept == Without(cart[a].lines, remove)
           brought == Without(cart[Guest].lines, drop)
           receipt == Receipt(a, Guest, brought)
<1>1. /\ kept \in Lines /\ brought \in Lines
      /\ \A q \in Products : ~Conflict(kept[q], brought[q])
      /\ cart'[a].lines = Joined(kept, brought)
      /\ cart'[Guest].lines = Empty
      /\ \A v \in Owners \ {a, Guest} : cart'[v] = cart[v]
      /\ receipts' = IF brought = Empty THEN receipts ELSE receipts \cup {receipt}
  BY ClaimJoins DEF IInv
<1>2. CASE o = Guest
  BY <1>1, <1>2 DEF Empty
<1>3. CASE o \notin {a, Guest}
  BY <1>1, <1>3
<1>4. CASE o = a
  <2>1. kept[p] \in {{}, cart[a].lines[p]}
    BY CartIsCart, NobodyIsNoOwner, WithoutIsLines DEF IInv
  <2>2. cart'[a].lines[p] \in {kept[p], brought[p]}
    BY <1>1, JoinedIsLines
  <2>3. CASE brought[p] = {}
    BY <1>4, <2>1, <2>2, <2>3
  <2>4. CASE brought[p] # {}
    <3>1. brought # Empty
      BY <2>4 DEF Empty
    <3>2. receipt \in receipts'
      BY <1>1, <3>1
    <3>3. receipt.owner = a /\ receipt.key = Guest /\ receipt.lines = brought
      BY DEF Receipt
    <3>4. ~Seen(a, Guest)
      BY DEF IInv, VisitorEntersOnce, Claimable, Seen
    <3> HIDE DEF receipt, brought
    <3> QED BY <1>4, <2>4, <3>2, <3>3, <3>4, NewReceiptEnters
  <2> QED BY <2>3, <2>4
<1> QED BY <1>2, <1>3, <1>4

\* Lines from elsewhere enter a cart once, however often a draft, a list or a
\* visitor's cart is offered to it.
THEOREM NothingComesBack == Spec => NothingEntersTwice
<1>1. ASSUME IInv, Next, NEW o \in Owners, NEW p \in Products,
             cart'[o].lines[p] \notin {{}, cart[o].lines[p]}, ~ByEdit(o, p)
      PROVE  EntersOnce(o, p)
  <2>1. cart' # cart
    BY <1>1
  <2>2. ASSUME NEW w \in Pages, HandleEdit(w) PROVE FALSE
    <3>1. o = request[w].owner /\ p = request[w].key
      BY <1>1, <2>2, EditChanges
    <3>2. request'[w] = NoRequest
      <4>1. request' = [request EXCEPT ![w] = NoRequest]
        BY <2>2 DEF HandleEdit, Answered
      <4>2. request \in [Pages -> RequestRow]
        BY <1>1 DEF IInv, TypeOK
      <4> QED BY <2>2, <4>1, <4>2
    <3> QED BY <1>1, <2>2, <3>1, <3>2 DEF ByEdit, HandleEdit
  <2>3. ASSUME NEW w \in Pages, HandleMerge(w) PROVE EntersOnce(o, p)
    <3> DEFINE r == request[w]
               receipt == Receipt(r.owner, r.key, r.lines)
    <3>1. /\ \A v \in Owners \ {r.owner} : cart'[v] = cart[v]
          /\ \A q \in Products : cart'[r.owner].lines[q] \in {cart[r.owner].lines[q], r.lines[q]}
          /\ ~Seen(r.owner, r.key)
          /\ receipts' = receipts \cup {receipt}
      BY <1>1, <2>1, <2>3, MergeChanges
    <3>2. o = r.owner /\ r.lines[p] # {}
      BY <1>1, <3>1
    <3>3. receipt.owner = r.owner /\ receipt.key = r.key /\ receipt.lines = r.lines
      BY DEF Receipt
    <3>4. receipt \in receipts'
      BY <3>1
    <3> HIDE DEF receipt, r
    <3> QED BY <3>1, <3>2, <3>3, <3>4, NewReceiptEnters
  <2>4. ASSUME NEW a \in Accounts, ImportLegacy(a) PROVE EntersOnce(o, p)
    <3>1. o = a
      BY <1>1, <2>4, ImportChanges
    <3>2. PICK r \in receipts' : r.owner = a /\ r.lines[p] # {} /\ ~Seen(a, r.key)
      BY <1>1, <2>4, <3>1, ImportChanges
    <3> QED BY <3>1, <3>2, NewReceiptEnters
  <2>5. ASSUME NEW a \in Accounts, SignIn(a) \/ SignInRolledBack(a) PROVE EntersOnce(o, p)
    <3>1. Claimable(a) /\ Claimed(a, {}, {})
      BY <2>1, <2>5 DEF SignIn, SignInRolledBack, NotClaimed
    <3> QED BY <1>1, <3>1, NothingToRemove, ClaimEntersOnce
  <2>6. ASSUME NEW w \in Pages, NEW drop, NEW remove, RetryClaim(w, drop, remove)
        PROVE  EntersOnce(o, p)
    <3> DEFINE a == cookie.session
    <3>1. /\ a \in Accounts
          /\ remove \in SUBSET InCart(cart[a].lines)
          /\ Claimable(a)
          /\ Claimed(a, drop, remove)
      BY <2>6 DEF RetryClaim
    <3> HIDE DEF a
    <3> QED BY <1>1, <3>1, ClaimEntersOnce
  <2>7. ASSUME NEW w \in Pages, PageStep(w) PROVE EntersOnce(o, p)
    BY <2>1, <2>2, <2>3, <2>6, <2>7
       DEF PageStep, OpenPage, AskEdit, SendDraft, HearMerge, MissMerge
  <2> QED BY <1>1, <2>1, <2>4, <2>5, <2>7
          DEF Next, Bootstrap, ExpireVisitor, Logout, Archive, DiscardDraft, SaveDraft
<1>2. IInv /\ [Next]_vars
        => [\A o \in Owners, p \in Products :
                \/ cart'[o].lines[p] \in {{}, cart[o].lines[p]}
                \/ ByEdit(o, p)
                \/ \E r \in receipts' \ receipts :
                        /\ r.owner = o
                        /\ r.lines[p] # {}
                        /\ ~ \E old \in receipts : old.owner = o /\ old.key = r.key]_vars
  BY <1>1 DEF EntersOnce
<1> QED BY <1>2, Invariance, PTL DEF Spec, NothingEntersTwice
=============================================================================
