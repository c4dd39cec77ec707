------------------------------- MODULE Store -------------------------------
(***************************************************************************)
(* What is on sale, and how users come to own it.                          *)
(*                                                                         *)
(* Admins edit packages, the quota plans they are made of, and coupon      *)
(* templates; users buy packages, with or without a coupon; admins give    *)
(* packages and coupons away.  Every purchase and every gift is checked    *)
(* twice: once when the request arrives, against rows that may change, and *)
(* again in the transaction that creates the rows.  Between the two, other *)
(* requests and every admin are free to act.                               *)
(*                                                                         *)
(* The balance of the buyer is in module Wallet: here a purchase that      *)
(* cannot be paid is one of those that Refuse ends.                        *)
(***************************************************************************)
EXTENDS Integers, FiniteSets

CONSTANTS
  Users, Packages, Plans, Templates,
  Coupons, Subs,       \* the rows that may be created
  Requests,            \* each is submitted once
  Prices,              \* prices, floors and coupon values, in micro_usd
  Limits,              \* limits of plans and of copies per user; 0 is none
  Stock, StockPlans,   \* what the packages and plans on sale may be at the start
  Offers, Quotas, TemplateForms, Changes,   \* what the admins' forms may say
  MaxEdits,            \* bound on the admins' edits of the catalogue
  None

Rows == {"new", "listed", "deleted"}
Units == {"usd", "tokens"}
SubStatuses == {"none", "active", "canceled", "expired", "refunded", "revoked"}
CouponStatuses == {"none", "available", "used", "revoked"}

\* A package, without the plans it is linked to; limit is what
\* max_active_per_user and stackable come to.
Offer == [on : BOOLEAN, public : BOOLEAN, price : Prices, floor : Prices, limit : Limits]
Quota == [on : BOOLEAN, unit : Units, value : Limits, micro : Limits]
Template == [on : BOOLEAN, value : Prices, scope : SUBSET Packages]

\* The fields of a plan that a form sends.
Change == [on : BOOLEAN \cup {None}, unit : Units \cup {None}, value : Limits \cup {None}]

\* The engine reads micro only; it is filled in for one unit.
Normal(unit, val) == IF unit = "usd" THEN val ELSE 0

ValidOffer(o) == o.floor <= o.price

ASSUME StoreAssumption ==
  /\ Prices \subseteq Nat
  /\ Limits \subseteq Nat
  /\ Stock \subseteq {o \in Offer : ValidOffer(o)}
  /\ StockPlans \subseteq {x \in Quota : x.micro = Normal(x.unit, x.value)}
  /\ Offers \subseteq Offer
  /\ Quotas \subseteq [on : BOOLEAN, unit : Units, value : Limits]
  /\ TemplateForms \subseteq Template
  /\ Changes \subseteq Change
  /\ 0 \in Limits
  /\ MaxEdits \in Nat
  /\ None \notin Coupons \cup Subs \cup Requests \cup Users
  /\ IsFiniteSet(Subs)

\* What a request asks for, and what its handler holds of the rows it has read.
Purchase == [kind : {"buy"}, user : Users, pkg : Packages, count : {1, 2}, coupon : Coupons \cup {None}]
Gift == [kind : {"gift"}, user : Users, pkg : Packages, count : {1, 2}]
CouponGift == [kind : {"coupon"}, users : SUBSET Users, template : Templates]
PlanEdit == [kind : {"plan"}, plan : Plans, copy : Quota, new : Change]

VARIABLES
  account,    \* users: "none", "active", or "banned"
  shelf,      \* rows of packages
  offer,      \* what a package says
  links,      \* the plans a package is linked to
  planRow,    \* rows of quota plans
  plan,       \* what a plan says
  tmplRow,    \* rows of coupon templates
  template,   \* what a template says
  coupon,     \* status of the coupons
  owner,      \* whose coupon it is
  value,      \* its snapshot of the template's price
  scope,      \* its snapshot of the template's packages
  lapsed,     \* its expires_at has passed
  origin,     \* the request that gave it
  usedOn,     \* the subscription it was used on
  sub,        \* status of the subscriptions
  holder,     \* their user
  ofPkg,      \* their package
  price,      \* what was paid for them
  given,      \* they are gifts
  index,      \* their number among those of the same user and package
  byCoupon,   \* the coupon they were bought with
  snap,       \* the plans as they were when it was created
  ended,      \* their end_at has passed
  form,       \* requests: what was asked
  step,       \* "new", "admitted", "done" or "refused"
  edits       \* edits of the catalogue so far

accounts == <<account>>
catalogue == <<shelf, offer, links, planRow, plan, tmplRow, template>>
coupons == <<coupon, owner, value, scope, lapsed, origin, usedOn>>
subs == <<sub, holder, ofPkg, price, given, index, byCoupon, snap, ended>>
requests == <<form, step>>
vars == <<accounts, catalogue, coupons, subs, requests, edits>>

NoOffer == [on |-> FALSE, public |-> FALSE, price |-> 0, floor |-> 0, limit |-> 0]
NoQuota == [on |-> FALSE, unit |-> "tokens", value |-> 0, micro |-> 0]
NoTemplate == [on |-> FALSE, value |-> 0, scope |-> {}]

-----------------------------------------------------------------------------
(* The catalogue.                                                          *)

\* What a package must not be sold below, as the coupons see it.
LowerBound(o) == IF o.floor > 0 THEN o.floor ELSE o.price

\* A template covers its packages at no less than their lower bounds.
ValidTemplate(t) ==
  /\ t.value > 0
  /\ \A p \in Packages :
       shelf[p] = "listed" /\ (t.scope = {} \/ p \in t.scope) => t.value >= LowerBound(offer[p])

Edit == edits < MaxEdits /\ edits' = edits + 1

CreatePackage(p, o, l) ==
  /\ Edit
  /\ shelf[p] = "new"
  /\ ValidOffer(o)
  /\ shelf' = [shelf EXCEPT ![p] = "listed"]
  /\ offer' = [offer EXCEPT ![p] = o]
  /\ links' = [links EXCEPT ![p] = l]
  /\ UNCHANGED <<accounts, planRow, plan, tmplRow, template, coupons, subs, requests>>

\* The row was read before: it may have been deleted since, and then only the
\* links are written.
UpdatePackage(p, o, l) ==
  /\ Edit
  /\ shelf[p] # "new"
  /\ ValidOffer(o)
  /\ offer' = IF shelf[p] = "listed" THEN [offer EXCEPT ![p] = o] ELSE offer
  /\ links' = [links EXCEPT ![p] = l]
  /\ UNCHANGED <<accounts, shelf, planRow, plan, tmplRow, template, coupons, subs, requests>>

Live(s) == sub[s] = "active" /\ ~ended[s]

\* mutant: a package is deleted whoever holds it
DeletePackageHeld(p) ==
  /\ Edit
  /\ shelf[p] = "listed"
  /\ shelf' = [shelf EXCEPT ![p] = "deleted"]
  /\ links' = [links EXCEPT ![p] = {}]
  /\ UNCHANGED <<accounts, offer, planRow, plan, tmplRow, template, coupons, subs, requests>>

DeletePackage(p) ==
  /\ Edit
  /\ shelf[p] = "listed"
  /\ \A s \in Subs : Live(s) => ofPkg[s] # p
  /\ shelf' = [shelf EXCEPT ![p] = "deleted"]
  /\ links' = [links EXCEPT ![p] = {}]
  /\ UNCHANGED <<accounts, offer, planRow, plan, tmplRow, template, coupons, subs, requests>>

CreateQuotaPlan(q, x) ==
  /\ Edit
  /\ planRow[q] = "new"
  /\ planRow' = [planRow EXCEPT ![q] = "listed"]
  /\ plan' = [plan EXCEPT ![q] = [on |-> x.on, unit |-> x.unit, value |-> x.value,
                                    micro |-> Normal(x.unit, x.value)]]
  /\ UNCHANGED <<accounts, shelf, offer, links, tmplRow, template, coupons, subs, requests>>

DeleteQuotaPlan(q) ==
  /\ Edit
  /\ planRow[q] = "listed"
  /\ \A p \in Packages : q \notin links[p]
  /\ planRow' = [planRow EXCEPT ![q] = "deleted"]
  /\ UNCHANGED <<accounts, shelf, offer, links, plan, tmplRow, template, coupons, subs, requests>>

AdminCreateCouponTemplate(t, new) ==
  /\ Edit
  /\ tmplRow[t] = "new"
  /\ ValidTemplate(new)
  /\ tmplRow' = [tmplRow EXCEPT ![t] = "listed"]
  /\ template' = [template EXCEPT ![t] = new]
  /\ UNCHANGED <<accounts, shelf, offer, links, planRow, plan, coupons, subs, requests>>

AdminUpdateCouponTemplate(t, new) ==
  /\ Edit
  /\ tmplRow[t] = "listed"
  /\ ValidTemplate(new)
  /\ template' = [template EXCEPT ![t] = new]
  /\ UNCHANGED <<accounts, shelf, offer, links, planRow, plan, tmplRow, coupons, subs, requests>>

AdminDeleteCouponTemplate(t) ==
  /\ Edit
  /\ tmplRow[t] = "listed"
  /\ tmplRow' = [tmplRow EXCEPT ![t] = "deleted"]
  /\ UNCHANGED <<accounts, shelf, offer, links, planRow, plan, template, coupons, subs, requests>>

-----------------------------------------------------------------------------
(* Requests: what the handlers check before their transaction.             *)

LiveOf(u, p) == {s \in Subs : Live(s) /\ holder[s] = u /\ ofPkg[s] = p}

\* n more copies are within the limit; 0 is no limit.
WithinLimit(u, p, n) == offer[p].limit > 0 => Cardinality(LiveOf(u, p)) + n <= offer[p].limit

OnSale(p) == shelf[p] = "listed" /\ offer[p].on

\* Every plan of the package exists, is enabled and has its canonical limit.
Sound(q) == planRow[q] = "listed" /\ plan[q].on

Metered(x) == x.unit = "usd" /\ x.value > 0 => x.micro > 0
Complete(p) == \A q \in links[p] : Sound(q) /\ Metered(plan[q])

Issuing(t) == tmplRow[t] = "listed" /\ template[t].on

Admit(r, f) ==
  /\ step[r] = "new"
  /\ step' = [step EXCEPT ![r] = "admitted"]
  /\ form' = [form EXCEPT ![r] = f]
  /\ UNCHANGED <<accounts, catalogue, coupons, subs, edits>>

PurchasePackage(r, u, p, n, c) ==
  /\ account[u] = "active"
  /\ OnSale(p) /\ offer[p].public
  /\ WithinLimit(u, p, n)
  /\ Admit(r, [kind |-> "buy", user |-> u, pkg |-> p, count |-> n, coupon |-> c])

AdminGrantSubscription(r, u, p, n) ==
  /\ account[u] = "active"
  /\ OnSale(p)
  /\ WithinLimit(u, p, n)
  /\ Complete(p)
  /\ Admit(r, [kind |-> "gift", user |-> u, pkg |-> p, count |-> n])

\* One user, or several in one request (AdminBulkGrantCoupon), whose status is
\* not looked at here.
AdminGrantCoupon(r, us, t) ==
  /\ us # {}
  /\ Issuing(t)
  /\ Admit(r, [kind |-> "coupon", users |-> us, template |-> t])

\* The row is read, and the rest of the handler works with what was read.
ReadQuotaPlan(r, q, new) ==
  /\ planRow[q] = "listed"
  /\ Admit(r, [kind |-> "plan", plan |-> q, copy |-> plan[q], new |-> new])

\* The transaction finds that it must not go through, or fails; or the balance
\* does not cover the price.
Refuse(r) ==
  /\ step[r] = "admitted"
  /\ step' = [step EXCEPT ![r] = "refused"]
  /\ UNCHANGED <<accounts, catalogue, coupons, subs, form, edits>>

Finish(r) ==
  /\ step[r] = "admitted"
  /\ step' = [step EXCEPT ![r] = "done"]
  /\ UNCHANGED <<form, edits>>

-----------------------------------------------------------------------------
(* Quota plans: the limit of the row that was read is normalised, the      *)
(* fields that were sent are written, and the normalised limit with them.  *)

UpdateQuotaPlan(r) ==
  LET f == form[r]
      Sent(x, old) == IF x = None THEN old ELSE x
      row == plan[f.plan]
  IN /\ Finish(r)
     /\ f.kind = "plan"
     /\ plan' = IF planRow[f.plan] = "listed"
                 THEN [plan EXCEPT ![f.plan] =
                        [on |-> Sent(f.new.on, row.on),
                         unit |-> Sent(f.new.unit, row.unit),
                         value |-> Sent(f.new.value, row.value),
                         micro |-> Normal(Sent(f.new.unit, f.copy.unit), Sent(f.new.value, f.copy.value))]]
                 ELSE plan
     /\ UNCHANGED <<accounts, shelf, offer, links, planRow, tmplRow, template, coupons, subs>>

-----------------------------------------------------------------------------
(* Subscriptions: the transactions of a purchase and of a gift.            *)

\* num numbers the new rows from 1 to n and is 0 elsewhere.
Copies(n) ==
  {num \in [Subs -> 0 .. n] :
    /\ \A s \in Subs : num[s] > 0 => sub[s] = "none"
    /\ \A s, t \in Subs : num[s] = num[t] => s = t \/ num[s] = 0
    /\ Cardinality({s \in Subs : num[s] > 0}) = n}

\* The copies continue the numbering of the user's copies of the package,
\* whatever has become of these.
IsNext(base, u, p) ==
  LET used == {index[s] : s \in {t \in Subs : sub[t] # "none" /\ holder[t] = u /\ ofPkg[t] = p}}
  IN base \in Nat /\ base > 0 /\ (\A i \in used : i < base) /\ (base = 1 \/ base - 1 \in used)

\* The rows are read again, and the user's copies counted again.
Recheck(u, p, n) == OnSale(p) /\ WithinLimit(u, p, n) /\ Complete(p)

\* pays gives the price of each copy, c is on the first one.
CreateSubs(num, u, p, gift, pays, c) ==
  \E base \in 1 .. Cardinality(Subs) :
    /\ IsNext(base, u, p)
    /\ sub' = [s \in Subs |-> IF num[s] > 0 THEN "active" ELSE sub[s]]
    /\ holder' = [s \in Subs |-> IF num[s] > 0 THEN u ELSE holder[s]]
    /\ ofPkg' = [s \in Subs |-> IF num[s] > 0 THEN p ELSE ofPkg[s]]
    /\ price' = [s \in Subs |-> IF num[s] > 0 THEN pays[num[s]] ELSE price[s]]
    /\ given' = [s \in Subs |-> IF num[s] > 0 THEN gift ELSE given[s]]
    /\ index' = [s \in Subs |-> IF num[s] > 0 THEN base + num[s] - 1 ELSE index[s]]
    /\ byCoupon' = [s \in Subs |-> IF num[s] = 1 THEN c ELSE byCoupon[s]]
    /\ snap' = [s \in Subs |-> IF num[s] > 0 THEN {plan[q] : q \in links[p]} ELSE snap[s]]
    /\ ended' = [s \in Subs |-> IF num[s] > 0 THEN FALSE ELSE ended[s]]

CouponPrice(c, p) == IF value[c] > offer[p].price THEN offer[p].price ELSE value[c]

Usable(c) == coupon[c] = "available" /\ ~lapsed[c]

\* mutant: the coupon is taken whatever has become of it
AppliesUsed(c, u, p) ==
  owner[c] = u /\ (scope[c] = {} \/ p \in scope[c]) /\ value[c] >= LowerBound(offer[p])

Applies(c, u, p) ==
  /\ Usable(c)
  /\ owner[c] = u
  /\ scope[c] = {} \/ p \in scope[c]
  /\ value[c] > 0
  /\ value[c] >= LowerBound(offer[p])

BuyPlain(r, num) ==
  LET f == form[r]
      p == f.pkg
  IN /\ Finish(r)
     /\ f.kind = "buy" /\ f.coupon = None
     /\ offer[p].public
     /\ Recheck(f.user, p, f.count)
     /\ num \in Copies(f.count)
     /\ CreateSubs(num, f.user, p, FALSE, [i \in 1 .. 2 |-> offer[p].price], None)
     /\ UNCHANGED <<accounts, catalogue, coupons>>

BuyWithCoupon(r, num) ==
  LET f == form[r]
      p == f.pkg
      c == f.coupon
  IN /\ Finish(r)
     /\ f.kind = "buy" /\ c # None
     /\ offer[p].public
     /\ Recheck(f.user, p, f.count)
     /\ Applies(c, f.user, p)
     /\ num \in Copies(f.count)
     /\ coupon' = [coupon EXCEPT ![c] = "used"]
     /\ \E first \in Subs :
          /\ num[first] = 1
          /\ usedOn' = [usedOn EXCEPT ![c] = first]
     /\ CreateSubs(num, f.user, p, FALSE,
                   [i \in 1 .. 2 |-> IF i = 1 THEN CouponPrice(c, p) ELSE offer[p].price], c)
     /\ UNCHANGED <<accounts, catalogue, owner, value, scope, lapsed, origin>>

Receives(u) == account[u] = "active"

GiveSubscription(r, num) ==
  LET f == form[r]
  IN /\ Finish(r)
     /\ f.kind = "gift"
     /\ Receives(f.user)
     /\ Recheck(f.user, f.pkg, f.count)
     /\ num \in Copies(f.count)
     /\ CreateSubs(num, f.user, f.pkg, TRUE, [i \in 1 .. 2 |-> 0], None)
     /\ UNCHANGED <<accounts, catalogue, coupons>>

-----------------------------------------------------------------------------
(* Coupons.                                                                *)

\* to names the user of each new row.
IssueCoupons(to, t, r) ==
  /\ \A c \in Coupons : to[c] # None => coupon[c] = "none"
  /\ coupon' = [c \in Coupons |-> IF to[c] # None THEN "available" ELSE coupon[c]]
  /\ owner' = [c \in Coupons |-> IF to[c] # None THEN to[c] ELSE owner[c]]
  /\ value' = [c \in Coupons |-> IF to[c] # None THEN template[t].value ELSE value[c]]
  /\ scope' = [c \in Coupons |-> IF to[c] # None THEN template[t].scope ELSE scope[c]]
  /\ origin' = [c \in Coupons |-> IF to[c] # None THEN r ELSE origin[c]]
  /\ UNCHANGED <<lapsed, usedOn>>

\* One coupon for each of us.
OneEach(to, us) ==
  /\ \A c \in Coupons : to[c] # None => to[c] \in us
  /\ \A u \in us : \E c \in Coupons : to[c] = u
  /\ \A c, d \in Coupons : to[c] = to[d] => c = d \/ to[c] = None

\* One transaction for all users: one who may not receive rolls it back.
GiveCoupons(r, to) ==
  /\ Finish(r)
  /\ form[r].kind = "coupon"
  /\ Issuing(form[r].template)
  /\ \A u \in form[r].users : Receives(u)
  /\ OneEach(to, form[r].users)
  /\ IssueCoupons(to, form[r].template, r)
  /\ UNCHANGED <<accounts, catalogue, subs>>

AdminRevokeCoupon(c) ==
  /\ Usable(c)
  /\ coupon' = [coupon EXCEPT ![c] = "revoked"]
  /\ UNCHANGED <<accounts, catalogue, owner, value, scope, lapsed, origin, usedOn, subs, requests, edits>>

Lapse(c) ==
  /\ coupon[c] = "available" /\ ~lapsed[c]
  /\ lapsed' = [lapsed EXCEPT ![c] = TRUE]
  /\ UNCHANGED <<accounts, catalogue, coupon, owner, value, scope, origin, usedOn, subs, requests, edits>>

\* A new account, and its coupon when a template that issues is configured.
Register(u, to, t) ==
  /\ account[u] = "none"
  /\ account' = [account EXCEPT ![u] = "active"]
  /\ IF t # None /\ Issuing(t) THEN OneEach(to, {u}) /\ IssueCoupons(to, t, None)
                               ELSE UNCHANGED coupons
  /\ UNCHANGED <<catalogue, subs, requests, edits>>

Ban(u) ==
  /\ account[u] = "active"
  /\ account' = [account EXCEPT ![u] = "banned"]
  /\ UNCHANGED <<catalogue, coupons, subs, requests, edits>>

-----------------------------------------------------------------------------
(* What becomes of a subscription.                                         *)

SetStatus(s, new) ==
  /\ sub' = [sub EXCEPT ![s] = new]
  /\ UNCHANGED <<accounts, catalogue, coupons, holder, ofPkg, price, given, index, byCoupon, snap, ended, requests, edits>>

EndSub(s) ==
  /\ sub[s] # "none" /\ ~ended[s]
  /\ ended' = [ended EXCEPT ![s] = TRUE]
  /\ UNCHANGED <<accounts, catalogue, coupons, sub, holder, ofPkg, price, given, index, byCoupon, snap, requests, edits>>

CancelSubscription(s) == sub[s] = "active" /\ SetStatus(s, "canceled")

ExpireSubscription(s) == sub[s] = "active" /\ ended[s] /\ SetStatus(s, "expired")
AdminRefundSubscription(s) ==
  sub[s] \in {"active", "canceled", "expired"} /\ ~given[s] /\ price[s] > 0 /\ SetStatus(s, "refunded")
AdminRevokeGrantedSubscription(s) == sub[s] = "active" /\ given[s] /\ SetStatus(s, "revoked")

-----------------------------------------------------------------------------
Init ==
  /\ account \in [Users -> {"none", "active"}]
  /\ shelf \in [Packages -> {"new", "listed"}]
  /\ offer \in [Packages -> Stock \cup {NoOffer}]
  /\ \A p \in Packages : shelf[p] = "new" <=> offer[p] = NoOffer
  /\ links = [p \in Packages |-> IF shelf[p] = "listed" THEN Plans ELSE {}]
  /\ planRow \in [Plans -> {"new", "listed"}]
  /\ plan \in [Plans -> StockPlans \cup {NoQuota}]
  /\ \A q \in Plans : planRow[q] = "new" <=> plan[q] = NoQuota
  /\ tmplRow \in [Templates -> {"new", "listed"}]
  /\ template \in [Templates -> TemplateForms \cup {NoTemplate}]
  /\ \A t \in Templates : tmplRow[t] = "new" <=> template[t] = NoTemplate
  /\ \A t \in Templates : tmplRow[t] = "listed" => ValidTemplate(template[t])
  /\ coupon = [c \in Coupons |-> "none"]
  /\ owner = [c \in Coupons |-> None]
  /\ value = [c \in Coupons |-> 0]
  /\ scope = [c \in Coupons |-> {}]
  /\ lapsed = [c \in Coupons |-> FALSE]
  /\ origin = [c \in Coupons |-> None]
  /\ usedOn = [c \in Coupons |-> None]
  /\ sub = [s \in Subs |-> "none"]
  /\ holder = [s \in Subs |-> None]
  /\ ofPkg = [s \in Subs |-> None]
  /\ price = [s \in Subs |-> 0]
  /\ given = [s \in Subs |-> FALSE]
  /\ index = [s \in Subs |-> 0]
  /\ byCoupon = [s \in Subs |-> None]
  /\ snap = [s \in Subs |-> {}]
  /\ ended = [s \in Subs |-> FALSE]
  /\ form = [r \in Requests |-> None]
  /\ step = [r \in Requests |-> "new"]
  /\ edits = 0

Edits ==
  \/ \E p \in Packages, o \in Offers, l \in SUBSET Plans : CreatePackage(p, o, l) \/ UpdatePackage(p, o, l)
  \/ \E p \in Packages : DeletePackage(p)
  \/ \E q \in Plans, x \in Quotas : CreateQuotaPlan(q, x)
  \/ \E q \in Plans : DeleteQuotaPlan(q)
  \/ \E t \in Templates, new \in TemplateForms :
       AdminCreateCouponTemplate(t, new) \/ AdminUpdateCouponTemplate(t, new)
  \/ \E t \in Templates : AdminDeleteCouponTemplate(t)

Handle(r) ==
  \/ \E u \in Users, p \in Packages, n \in {1, 2} :
       \/ \E c \in Coupons \cup {None} : PurchasePackage(r, u, p, n, c)
       \/ AdminGrantSubscription(r, u, p, n)
  \/ \E us \in SUBSET Users, t \in Templates : AdminGrantCoupon(r, us, t)
  \/ \E q \in Plans, new \in Changes : ReadQuotaPlan(r, q, new)
  \/ UpdateQuotaPlan(r)
  \/ \E num \in [Subs -> 0 .. 2] : BuyPlain(r, num) \/ BuyWithCoupon(r, num) \/ GiveSubscription(r, num)
  \/ \E to \in [Coupons -> Users \cup {None}] : GiveCoupons(r, to)
  \/ Refuse(r)

Next ==
  \/ Edits
  \/ \E r \in Requests : Handle(r)
  \/ \E u \in Users : Ban(u)
  \/ \E u \in Users, to \in [Coupons -> Users \cup {None}], t \in Templates \cup {None} : Register(u, to, t)
  \/ \E c \in Coupons : AdminRevokeCoupon(c) \/ Lapse(c)
  \/ \E s \in Subs :
       \/ EndSub(s) \/ CancelSubscription(s) \/ ExpireSubscription(s)
       \/ AdminRefundSubscription(s) \/ AdminRevokeGrantedSubscription(s)

Spec == Init /\ [][Next]_vars

-----------------------------------------------------------------------------
(***************************************************************************)
(* Properties.                                                             *)
(***************************************************************************)

\* Rows and requests are what the schema and the handlers say; no price is
\* negative.
TypeOK ==
  /\ account \in [Users -> {"none", "active", "banned"}]
  /\ shelf \in [Packages -> Rows]
  /\ offer \in [Packages -> Offer \cup {NoOffer}]
  /\ links \in [Packages -> SUBSET Plans]
  /\ planRow \in [Plans -> Rows]
  /\ plan \in [Plans -> Quota]
  /\ tmplRow \in [Templates -> Rows]
  /\ template \in [Templates -> Template \cup {NoTemplate}]
  /\ coupon \in [Coupons -> CouponStatuses]
  /\ owner \in [Coupons -> Users \cup {None}]
  /\ value \in [Coupons -> Nat]
  /\ scope \in [Coupons -> SUBSET Packages]
  /\ lapsed \in [Coupons -> BOOLEAN]
  /\ origin \in [Coupons -> Requests \cup {None}]
  /\ usedOn \in [Coupons -> Subs \cup {None}]
  /\ sub \in [Subs -> SubStatuses]
  /\ holder \in [Subs -> Users \cup {None}]
  /\ ofPkg \in [Subs -> Packages \cup {None}]
  /\ price \in [Subs -> Nat]
  /\ given \in [Subs -> BOOLEAN]
  /\ index \in [Subs -> Nat]
  /\ byCoupon \in [Subs -> Coupons \cup {None}]
  /\ snap \in [Subs -> SUBSET Quota]
  /\ ended \in [Subs -> BOOLEAN]
  /\ form \in [Requests -> Purchase \cup Gift \cup CouponGift \cup PlanEdit \cup {None}]
  /\ step \in [Requests -> {"new", "admitted", "done", "refused"}]
  /\ edits \in 0 .. MaxEdits

\* A coupon lowers one price once: whatever purchases, revocations and expiries
\* meet, it is used exactly when one subscription was bought with it, by its
\* owner, and a refund does not give it back.
CouponPaysOnce ==
  /\ \A c \in Coupons : coupon[c] = "used" =>
       usedOn[c] \in Subs /\ byCoupon[usedOn[c]] = c /\ holder[usedOn[c]] = owner[c]
  /\ \A s \in Subs : byCoupon[s] # None =>
       coupon[byCoupon[s]] = "used" /\ usedOn[byCoupon[s]] = s

\* Who holds a running subscription holds it to a package that is there: a
\* deletion and a purchase or a gift cannot pass each other.
LiveHasPackage == \A s \in Subs : Live(s) => shelf[ofPkg[s]] = "listed"

\* The copies of a package that a user ever had are told apart by their number,
\* whether bought or given, at once or at different times.
IndexUnique ==
  \A s, t \in Subs :
    sub[s] # "none" /\ sub[t] # "none" /\ holder[s] = holder[t] /\ ofPkg[s] = ofPkg[t] /\ index[s] = index[t]
      => s = t

\* However edits of a plan overlap, no subscription is created from a plan
\* that is switched off, or whose limit in money the engine would read as
\* "no limit".
SoldHasLimit ==
  \A s \in Subs : \A x \in snap[s] : x.on /\ (x.unit = "usd" /\ x.value > 0 => x.micro > 0)

\* A request for coupons gives one to each of its users, or to none.
BatchIsWhole ==
  \A r \in Requests : step[r] # "new" /\ form[r].kind = "coupon" =>
    LET got == {c \in Coupons : origin[c] = r}
    IN IF step[r] = "done"
       THEN \A u \in form[r].users : Cardinality({c \in got : owner[c] = u}) = 1
       ELSE got = {}

Created(s) == sub[s] = "none" /\ sub'[s] = "active"

\* However many requests of one user are handled at once, and whatever an admin
\* lowers in between, no step leads to more live copies than the package
\* allows at that moment.
StackLimitKept ==
  [][\A u \in Users, p \in Packages :
       /\ \E s \in Subs : Created(s) /\ holder'[s] = u /\ ofPkg'[s] = p
       /\ offer[p].limit > 0
       => Cardinality(LiveOf(u, p)') <= offer[p].limit]_vars

\* Nothing is sold below the package's floor, or below its price where it has
\* none, however old the coupon is.
NeverBelowCost ==
  [][\A s \in Subs : Created(s) /\ ~given'[s] => price'[s] >= LowerBound(offer[ofPkg'[s]])]_vars

\* A package withdrawn, hidden or deleted, or a user banned, while a request is
\* handled: no purchase and no gift goes through on what was true before.
CurrentWhenCreated ==
  [][\A s \in Subs : Created(s) =>
       /\ OnSale(ofPkg'[s])
       /\ given'[s] \/ offer[ofPkg'[s]].public
       /\ given'[s] => account[holder'[s]] = "active"]_vars
=============================================================================
