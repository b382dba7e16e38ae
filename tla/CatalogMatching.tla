-------------------------- MODULE CatalogMatching --------------------------
(***************************************************************************)
(* From what a customer wrote to a product of the catalogue, and what the  *)
(* catalogue learns from it (app/services/catalog_service.py, the queries  *)
(* of app/db/repositories/catalog_repo.py, domain/matching).               *)
(*                                                                         *)
(* A request matches one line in one transaction: an approved alias, then  *)
(* the search, then the language model, then the model's wording through   *)
(* the search again.  The catalogue changes while the model is waited for, *)
(* other requests and the administrators write aliases.  How well a name   *)
(* scores is any of the outcomes that the thresholds tell apart; which     *)
(* products a name finds and which variant it states are constants.  The   *)
(* model is external and may answer anything.                              *)
(***************************************************************************)
EXTENDS Naturals, FiniteSets

CONSTANTS
    Requests,  \* customers' requests
    Canonical, \* canonical products
    Wordings,  \* normalized names that customers and the model write
    Finds,     \* [Wordings -> SUBSET Canonical]: what the search finds, were it all on sale
    Stated,    \* [Wordings -> variant]: the size that the name states, if any
    VariantOf, \* [Canonical -> variant]: the size of the product, if it has one
    MaxLines   \* bound: lines that one customer writes

None == 0

ASSUME MatchingAssumption == MaxLines \in Nat

VARIABLES
    live,    \* products that customers may be offered
    aliases, \* committed product_aliases rows
    queue,   \* names of the unmatched queue and their status
    asking,  \* each request's line and what it has decided and written
    lines,   \* lines each customer has written
    asked    \* history: names whose last request ended without a product

matchVars == <<live, aliases, queue, asking, lines, asked>>

Alias(name, product, approved) == [name |-> name, product |-> product, approved |-> approved]
Decision(status, product, candidates, clarify, method) ==
    [status |-> status, product |-> product, candidates |-> candidates,
     clarify |-> clarify, method |-> method]
NoMatch == Decision("unresolved", None, {}, FALSE, "none")
IdleRequest == [at |-> "idle", name |-> None, decision |-> NoMatch, added |-> {}]

MatchInit ==
    /\ live = Canonical
    /\ aliases = {}
    /\ queue = [n \in Wordings |-> "absent"]
    /\ asking = [r \in Requests |-> IdleRequest]
    /\ lines = [r \in Requests |-> 0]
    /\ asked = {}

-----------------------------------------------------------------------------
\* What a name may become

\* attributes_verified: what the customer stated, the product has.
Fits(name, p) == Stated[name] \in {None, VariantOf[p]}

\* A product of some size under a name without one.
Generic(name, p) == Stated[name] = None /\ VariantOf[p] # None

Approved(name) == {a.product : a \in {b \in aliases : b.name = name /\ b.approved}}

Candidates(name) == live \cap Finds[name]

\* Several candidates that differ in a size the name does not state.
Ambiguous(name, among) ==
    Stated[name] = None /\ Cardinality({VariantOf[p] : p \in among}) > 1

\* score_and_rank_candidates of a name, for the line a customer wrote: the size
\* is asked for, or the best candidate is accepted, proposed or given up.
Scored(name, line) ==
    LET all == Candidates(name)
        fitting == {p \in all : Fits(name, p) /\ Fits(line, p)}
    IN  IF all = {} THEN {NoMatch}
        ELSE IF Ambiguous(name, fitting)
        THEN {Decision("ask_user", p, fitting, TRUE, "trgm") : p \in fitting}
        ELSE {Decision("auto_accept", p, all, FALSE, "trgm") : p \in fitting}
             \cup {Decision("ask_user", p, all, Ambiguous(name, all), "trgm") : p \in all}
             \cup {Decision("unresolved", None, all, FALSE, "trgm")}

\* Stage 1: an approved alias of a product on sale, that is not one size of many
\* under a name without a size.
ByAlias(name, line) ==
    {p \in Approved(name) \cap live : ~ Generic(name, p) /\ Fits(name, p) /\ Fits(line, p)}

\* _match_deterministic
Matched(name, line) ==
    IF ByAlias(name, line) # {}
    THEN {Decision("auto_accept", p, {p}, FALSE, "alias") : p \in ByAlias(name, line)}
    ELSE Scored(name, line)

NeedsModel(d) == d.method # "alias" /\ ~ d.clarify /\ d.status # "auto_accept"

-----------------------------------------------------------------------------
\* A request

Search(r, name) ==
    /\ asking[r].at = "idle"
    /\ lines[r] < MaxLines
    /\ lines' = [lines EXCEPT ![r] = @ + 1]
    /\ \E d \in Matched(name, name) :
         asking' = [asking EXCEPT ![r] =
                       [at |-> IF NeedsModel(d) THEN "waiting" ELSE "decided",
                        name |-> name, decision |-> d, added |-> {}]]
    /\ UNCHANGED <<live, aliases, queue, asked>>

\* What is left of the model's answer to a line: a product it was shown or none,
\* how sure it is (below the write-back threshold, below auto-accept, above), a
\* question for the customer, another wording.
Answers(r) ==
    [product : asking[r].decision.candidates \cup {None}, sure : {"no", "some", "yes"},
     question : BOOLEAN, term : Wordings \cup {None}]

\* create_unapproved_alias: a row there is stays as it is.
Guess(name, p) ==
    IF \E a \in aliases : a.name = name /\ a.product = p THEN {} ELSE {Alias(name, p, FALSE)}

\* is_matchable and get_current after the wait.
StillOnSale(p) == p \in live

\* _apply_llm_decision: the decision, and the row it writes.
Applied(name, d, answer) ==
    LET p == answer.product
        weak == p = None \/ answer.sure = "no"
    IN  IF p # None /\ ~ StillOnSale(p)
        THEN [decision |-> [NoMatch EXCEPT !.method = d.method], added |-> {}]
        ELSE IF p # None /\ (Generic(name, p) \/ ~ Fits(name, p))
        THEN [decision |-> [d EXCEPT !.status = "ask_user", !.clarify = TRUE], added |-> {}]
        ELSE IF weak
        THEN [decision |-> [d EXCEPT !.clarify = answer.question], added |-> {}]
        ELSE [decision |->
                Decision(IF answer.sure = "yes" /\ ~ answer.question THEN "auto_accept"
                         ELSE "ask_user", p, {p}, answer.question, "llm"),
              added |-> Guess(name, p)]

\* _retry_with_search_term: the model's wording through the search, for the
\* customer's line.
Retried(name, current, answer) ==
    {IF again.product = None THEN current
     ELSE IF ~ Fits(name, again.product)
     THEN [current EXCEPT !.decision.status = "ask_user",
                          !.decision.candidates = again.candidates, !.decision.clarify = TRUE]
     ELSE [decision |-> [again EXCEPT !.method = "llm_search",
                                      !.clarify = @ \/ answer.question],
           added |-> current.added \cup Guess(name, again.product)]
       : again \in Matched(answer.term, name)}

\* _settle_with_model
Settled(name, d, answer) ==
    LET applied == Applied(name, d, answer)
    IN  IF applied.decision.product = None /\ answer.term \notin {None, name}
        THEN Retried(name, applied, answer)
        ELSE {applied}

Settle(r) ==
    /\ asking[r].at = "waiting"
    /\ \E answer \in Answers(r) : \E s \in Settled(asking[r].name, asking[r].decision, answer) :
         asking' = [asking EXCEPT ![r] = [asking[r] EXCEPT !.at = "decided", !.decision = s.decision,
                                                           !.added = s.added]]
    /\ UNCHANGED <<live, aliases, queue, lines, asked>>

\* No answer in time, no budget, or not of this line: the search's decision stands.
NoAnswer(r) ==
    /\ asking[r].at = "waiting"
    /\ asking' = [asking EXCEPT ![r].at = "decided"]
    /\ UNCHANGED <<live, aliases, queue, lines, asked>>

\* The unique constraints of product_aliases: one row for a name and a product,
\* one approved row for a name.
Allows(new) ==
    \A a \in aliases :
        /\ ~ (a.name = new.name /\ a.product = new.product)
        /\ ~ (a.name = new.name /\ a.approved /\ new.approved)

\* Mutant: the queue is written before the model has its say.
GapUnlessFound(d) == d.method \notin {"alias", "trgm"}

\* _finalize: only what nobody could match.
Gap(d) == d.status = "unresolved"

Enqueue(name) == [queue EXCEPT ![name] = IF @ = "absent" THEN "new" ELSE @]

\* The end of the request.  Another request may have written the same guess
\* meanwhile, and then this one fails as a whole.
Commit(r) ==
    LET d == asking[r].decision
        name == asking[r].name
    IN  /\ asking[r].at = "decided"
        /\ IF \A new \in asking[r].added : Allows(new)
           THEN /\ aliases' = aliases \cup asking[r].added
                /\ queue' = IF Gap(d) THEN Enqueue(name) ELSE queue
                /\ asked' = IF d.product = None /\ d.status = "unresolved"
                            THEN asked \cup {name} ELSE asked
                /\ asking' = [asking EXCEPT ![r] = [asking[r] EXCEPT !.at = "shown", !.added = {}]]
           ELSE /\ asking' = [asking EXCEPT ![r] = IdleRequest]
                /\ UNCHANGED <<aliases, queue, asked>>
        /\ UNCHANGED <<live, lines>>

\* callback_pick_candidate and learn_alias_from_customer: what the customer
\* picked is approved on the spot, unless the name is taken.
Learned(name, p) == IF Approved(name) # {} THEN {} ELSE {Alias(name, p, TRUE)}

Pick(r, p) ==
    /\ asking[r].at = "shown"
    /\ asking[r].decision.status # "auto_accept"
    /\ p \in asking[r].decision.candidates
    /\ \A new \in Learned(asking[r].name, p) : Allows(new)
    /\ aliases' = aliases \cup Learned(asking[r].name, p)
    /\ asking' = [asking EXCEPT ![r] = IdleRequest]
    /\ UNCHANGED <<live, queue, lines, asked>>

\* The insertion violates a constraint, and the tap comes to nothing.
PickFails(r, p) ==
    /\ asking[r].at = "shown"
    /\ asking[r].decision.status # "auto_accept"
    /\ p \in asking[r].decision.candidates
    /\ \E new \in Learned(asking[r].name, p) : ~ Allows(new)
    /\ asking' = [asking EXCEPT ![r].at = "failed"]
    /\ UNCHANGED <<live, aliases, queue, lines, asked>>

Leave(r) ==
    /\ asking[r].at \in {"shown", "failed"}
    /\ asking' = [asking EXCEPT ![r] = IdleRequest]
    /\ UNCHANGED <<live, aliases, queue, lines, asked>>

-----------------------------------------------------------------------------
\* Administrators and the catalogue

\* approve_alias, of a row of the list of unapproved ones.
ApproveAlias(a) ==
    /\ ~ a.approved
    /\ Approved(a.name) = {}
    /\ aliases' = (aliases \ {a}) \cup {[a EXCEPT !.approved = TRUE]}
    /\ UNCHANGED <<live, queue, asking, lines, asked>>

\* reject_alias deletes the row as it is by then.
RejectAlias(a) ==
    /\ aliases' = aliases \ {a}
    /\ UNCHANGED <<live, queue, asking, lines, asked>>

\* create_alias of the unmatched queue.
ResolveGap(name, p) ==
    /\ queue[name] = "new"
    /\ Allows(Alias(name, p, TRUE))
    /\ aliases' = aliases \cup {Alias(name, p, TRUE)}
    /\ queue' = [queue EXCEPT ![name] = "resolved"]
    /\ UNCHANGED <<live, asking, lines, asked>>

MarkJunk(name) ==
    /\ queue[name] = "new"
    /\ queue' = [queue EXCEPT ![name] = "junk"]
    /\ UNCHANGED <<live, aliases, asking, lines, asked>>

\* A product or its last offer leaves the market, or comes back.
CatalogueChanges(p) ==
    /\ live' = IF p \in live THEN live \ {p} ELSE live \cup {p}
    /\ UNCHANGED <<aliases, queue, asking, lines, asked>>

-----------------------------------------------------------------------------
MatchNext ==
    \/ \E r \in Requests :
        \/ \E n \in Wordings : Search(r, n)
        \/ Settle(r)
        \/ NoAnswer(r)
        \/ Commit(r)
        \/ \E p \in Canonical : Pick(r, p) \/ PickFails(r, p)
        \/ Leave(r)
    \/ \E a \in aliases : ApproveAlias(a) \/ RejectAlias(a)
    \/ \E n \in Wordings : MarkJunk(n) \/ \E p \in Canonical : ResolveGap(n, p)
    \/ \E p \in Canonical : CatalogueChanges(p)

MatchSpec == MatchInit /\ [][MatchNext]_matchVars

-----------------------------------------------------------------------------
Aliases == [name : Wordings, product : Canonical, approved : BOOLEAN]
Decisions ==
    [status : {"auto_accept", "ask_user", "unresolved"}, product : Canonical \cup {None},
     candidates : SUBSET Canonical, clarify : BOOLEAN,
     method : {"none", "alias", "trgm", "llm", "llm_search"}]

MatchTypeOK ==
    /\ live \subseteq Canonical
    /\ aliases \subseteq Aliases
    /\ queue \in [Wordings -> {"absent", "new", "resolved", "junk"}]
    /\ asking \in [Requests -> [at : {"idle", "waiting", "decided", "shown", "failed"},
                                 name : Wordings \cup {None}, decision : Decisions,
                                 added : SUBSET Aliases]]
    /\ lines \in [Requests -> 0..MaxLines]
    /\ asked \subseteq Wordings

\* A name has one approved meaning and one row for each product, whoever writes
\* at the same time; and what nobody could match is in the queue, where only
\* such names are (catalog_service.py: _finalize).
AliasesAreFunctional ==
    /\ \A a, b \in aliases : a.name = b.name /\ (a.product = b.product \/ (a.approved /\ b.approved))
                               => a = b
    /\ \A n \in Wordings : queue[n] # "absent" <=> n \in asked

=============================================================================
