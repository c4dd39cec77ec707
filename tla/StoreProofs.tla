---------------------------- MODULE StoreProofs ----------------------------
(***************************************************************************)
(* Theorems about Store for any users, packages, plans, templates, rows    *)
(* and requests, and for every bound on the edits.                         *)
(***************************************************************************)
EXTENDS Store, FiniteSetTheorems, TLAPS

CatalogueType ==
    /\ shelf \in [Packages -> Rows]
    /\ offer \in [Packages -> Offer \cup {NoOffer}]
    /\ links \in [Packages -> SUBSET Plans]
    /\ planRow \in [Plans -> Rows]
    /\ plan \in [Plans -> Quota]
    /\ tmplRow \in [Templates -> Rows]
    /\ template \in [Templates -> Template \cup {NoTemplate}]
    /\ edits \in 0 .. MaxEdits
    /\ \A p \in Packages : ValidOffer(offer[p])

CouponType ==
    /\ coupon \in [Coupons -> CouponStatuses]
    /\ owner \in [Coupons -> Users \cup {None}]
    /\ value \in [Coupons -> Nat]
    /\ scope \in [Coupons -> SUBSET Packages]
    /\ lapsed \in [Coupons -> BOOLEAN]
    /\ origin \in [Coupons -> Requests \cup {None}]
    /\ usedOn \in [Coupons -> Subs \cup {None}]

SubType ==
    /\ sub \in [Subs -> SubStatuses]
    /\ holder \in [Subs -> Users \cup {None}]
    /\ ofPkg \in [Subs -> Packages \cup {None}]
    /\ price \in [Subs -> Nat]
    /\ given \in [Subs -> BOOLEAN]
    /\ index \in [Subs -> Nat]
    /\ byCoupon \in [Subs -> Coupons \cup {None}]
    /\ snap \in [Subs -> SUBSET Quota]
    /\ ended \in [Subs -> BOOLEAN]

Forms == Purchase \cup Gift \cup CouponGift \cup PlanEdit

RequestType ==
    /\ account \in [Users -> {"none", "active", "banned"}]
    /\ form \in [Requests -> Forms \cup {None}]
    /\ step \in [Requests -> {"new", "admitted", "done", "refused"}]
    /\ \A r \in Requests : step[r] # "new" => form[r] \in Forms

\* A row that was not created carries no coupon.
FreshInv == \A s \in Subs : sub[s] = "none" => byCoupon[s] = None

\* Coupons come from requests that are done; such a request gave one to each.
OriginInv ==
    /\ \A c \in Coupons : coupon[c] = "none" => origin[c] = None
    /\ \A r \in Requests : step[r] # "done" => \A c \in Coupons : origin[c] # r
    /\ \A r \in Requests : step[r] = "done" /\ form[r].kind = "coupon" =>
         \A u \in form[r].users :
           \E c \in Coupons : \A d \in Coupons : origin[d] = r /\ owner[d] = u <=> d = c

Types == CatalogueType /\ CouponType /\ SubType /\ RequestType
IInv ==
    /\ Types
    /\ FreshInv
    /\ OriginInv
    /\ CouponPaysOnce
    /\ LiveHasPackage
    /\ IndexUnique
    /\ SoldHasLimit

-----------------------------------------------------------------------------
(* Which parts of the state each part of the invariant is about.           *)

\* Prices, floors and coupon values are natural numbers.
LEMMA AmountsAreNat ==
    /\ \A x \in Offer \cup {NoOffer} : x.price \in Nat /\ x.floor \in Nat
    /\ \A x \in Template \cup {NoTemplate} : x.value \in Nat /\ x.scope \in SUBSET Packages
<1>1. \A x \in Prices : x \in Nat
  BY StoreAssumption
<1>2. \A x \in Offer \cup {NoOffer} : x.price \in Nat /\ x.floor \in Nat
  BY <1>1 DEF Offer, NoOffer
<1>3. \A x \in Template \cup {NoTemplate} : x.value \in Nat /\ x.scope \in SUBSET Packages
  BY <1>1 DEF Template, NoTemplate
<1> QED
  BY <1>2, <1>3

LEMMA SubsStay ==
    ASSUME IInv, UNCHANGED <<subs, coupons>>
    PROVE  CouponType' /\ SubType' /\ FreshInv' /\ CouponPaysOnce' /\ IndexUnique' /\ SoldHasLimit'
  BY DEF IInv, Types, subs, coupons, CouponType, SubType, FreshInv, CouponPaysOnce, IndexUnique, SoldHasLimit

LEMMA LiveStays ==
    ASSUME LiveHasPackage, UNCHANGED <<subs, shelf>>
    PROVE  LiveHasPackage'
  BY DEF LiveHasPackage, Live, subs

LEMMA OriginStays ==
    ASSUME OriginInv, UNCHANGED <<origin, owner, coupon, requests>>
    PROVE  OriginInv'
<1>1. UNCHANGED <<origin, owner, coupon, form, step>>
  BY DEF requests
<1> QED
  BY <1>1 DEF OriginInv

\* A request moves on without giving coupons.
LEMMA OriginMoves ==
    ASSUME OriginInv, RequestType, NEW r \in Requests, step[r] # "done",
           NEW st \in {"admitted", "done", "refused"}, step' = [step EXCEPT ![r] = st],
           \A q \in Requests : q # r => form'[q] = form[q],
           st = "done" => form'[r] = form[r] /\ form[r].kind # "coupon",
           UNCHANGED <<origin, owner, coupon>>
    PROVE  OriginInv'
<1>1. \A q \in Requests : step'[q] = IF q = r THEN st ELSE step[q]
  BY DEF RequestType
<1>2. \A c \in Coupons : origin[c] # r
  BY DEF OriginInv
<1>3. \A q \in Requests : step'[q] # "done" => \A c \in Coupons : origin'[c] # q
  BY <1>1, <1>2 DEF OriginInv
<1>4. \A q \in Requests : step'[q] = "done" /\ form'[q].kind = "coupon" => step[q] = "done" /\ form'[q] = form[q]
  BY <1>1
<1> QED
  BY <1>3, <1>4 DEF OriginInv

-----------------------------------------------------------------------------
(* The catalogue.                                                          *)

LEMMA EditStep ==
    ASSUME IInv, StoreAssumption, Edits
    PROVE  IInv'
<1> USE DEF Rows
<1>1. CatalogueType /\ \A x \in Quotas : [on |-> x.on, unit |-> x.unit, value |-> x.value,
                                         micro |-> Normal(x.unit, x.value)] \in Quota
  BY DEF IInv, Types, StoreAssumption, Quota, Normal
<1>2. UNCHANGED <<account, coupons, subs, requests>>
  BY DEF Edits, CreatePackage, UpdatePackage, DeletePackage, CreateQuotaPlan, DeleteQuotaPlan,
         AdminCreateCouponTemplate, AdminUpdateCouponTemplate, AdminDeleteCouponTemplate, accounts
<1>3. edits' \in 0 .. MaxEdits
  BY <1>1 DEF CatalogueType, StoreAssumption, Edit, Edits, CreatePackage, UpdatePackage, DeletePackage,
         CreateQuotaPlan, DeleteQuotaPlan,
         AdminCreateCouponTemplate, AdminUpdateCouponTemplate, AdminDeleteCouponTemplate
<1>4. CatalogueType' /\ LiveHasPackage'
  <2>1. ASSUME NEW p \in Packages, NEW o \in Offers, NEW l \in SUBSET Plans, CreatePackage(p, o, l)
        PROVE  CatalogueType' /\ LiveHasPackage'
    <3>1. shelf' = [shelf EXCEPT ![p] = "listed"] /\ o \in Offer /\ shelf[p] = "new"
      BY <2>1 DEF CreatePackage, StoreAssumption
    <3>2. CatalogueType'
      BY <2>1, <3>1, <1>1, <1>3 DEF CreatePackage, CatalogueType
    <3>3. LiveHasPackage'
      BY <1>1, <1>2, <3>1 DEF IInv, Types, SubType, CatalogueType, LiveHasPackage, Live, subs
    <3> QED
      BY <3>2, <3>3
  <2>2. ASSUME NEW p \in Packages, NEW o \in Offers, NEW l \in SUBSET Plans, UpdatePackage(p, o, l)
        PROVE  CatalogueType' /\ LiveHasPackage'
    <3>1. o \in Offer
      BY DEF StoreAssumption
    <3>2. CatalogueType'
      BY <2>2, <3>1, <1>1, <1>3 DEF UpdatePackage, CatalogueType
    <3> QED
      BY <2>2, <3>2, <1>2, LiveStays DEF UpdatePackage, IInv
  <2>3. ASSUME NEW p \in Packages, DeletePackage(p)
        PROVE  CatalogueType' /\ LiveHasPackage'
    <3>1. CatalogueType'
      BY <2>3, <1>1, <1>3 DEF DeletePackage, CatalogueType
    <3>2. \A s \in Subs : Live(s) => ofPkg[s] # p
      BY <2>3 DEF DeletePackage
    <3>3. \A x \in Packages : x # p => shelf'[x] = shelf[x]
      BY <2>3, <1>1 DEF DeletePackage, CatalogueType
    <3>4. shelf \in [Packages -> Rows] /\ shelf' = [shelf EXCEPT ![p] = "deleted"]
      BY <2>3, <1>1 DEF DeletePackage, CatalogueType
    <3>5. \A s \in Subs : (Live(s))' <=> Live(s)
      BY <1>2 DEF Live, subs
    <3>6. ofPkg' = ofPkg
      BY <1>2 DEF subs
    <3>7. LiveHasPackage'
      BY <3>2, <3>4, <3>5, <3>6 DEF IInv, LiveHasPackage
    <3> QED
      BY <3>1, <3>7
  <2>4. ASSUME NEW q \in Plans, NEW x \in Quotas, CreateQuotaPlan(q, x)
        PROVE  CatalogueType' /\ LiveHasPackage'
    <3>1. CatalogueType'
      BY <2>4, <1>1, <1>3 DEF CreateQuotaPlan, CatalogueType
    <3> QED
      BY <2>4, <3>1, <1>2, LiveStays DEF CreateQuotaPlan, IInv
  <2>5. ASSUME NEW q \in Plans, DeleteQuotaPlan(q)
        PROVE  CatalogueType' /\ LiveHasPackage'
    <3>1. CatalogueType'
      BY <2>5, <1>1, <1>3 DEF DeleteQuotaPlan, CatalogueType
    <3> QED
      BY <2>5, <3>1, <1>2, LiveStays DEF DeleteQuotaPlan, IInv
  <2>6. ASSUME NEW t \in Templates, NEW new \in TemplateForms,
               AdminCreateCouponTemplate(t, new) \/ AdminUpdateCouponTemplate(t, new)
        PROVE  CatalogueType' /\ LiveHasPackage'
    <3>1. new \in Template
      BY DEF StoreAssumption
    <3>2. CatalogueType'
      BY <2>6, <3>1, <1>1, <1>3 DEF AdminCreateCouponTemplate, AdminUpdateCouponTemplate, CatalogueType
    <3> QED
      BY <2>6, <3>2, <1>2, LiveStays DEF AdminCreateCouponTemplate, AdminUpdateCouponTemplate, IInv
  <2>7. ASSUME NEW t \in Templates, AdminDeleteCouponTemplate(t)
        PROVE  CatalogueType' /\ LiveHasPackage'
    <3>1. CatalogueType'
      BY <2>7, <1>1, <1>3 DEF AdminDeleteCouponTemplate, CatalogueType
    <3> QED
      BY <2>7, <3>1, <1>2, LiveStays DEF AdminDeleteCouponTemplate, IInv
  <2> QED
    BY <2>1, <2>2, <2>3, <2>4, <2>5, <2>6, <2>7 DEF Edits
<1>5. OriginInv'
  BY <1>2, OriginStays DEF IInv, coupons
<1>6. RequestType'
  BY <1>2 DEF IInv, Types, RequestType, requests
<1> QED
  BY <1>2, <1>4, <1>5, <1>6, SubsStay DEF IInv, Types

-----------------------------------------------------------------------------
(* Requests.                                                               *)

LEMMA AdmitStep ==
    ASSUME IInv, NEW r \in Requests, NEW f \in Forms, Admit(r, f)
    PROVE  IInv'
<1>1. RequestType /\ OriginInv
  BY DEF IInv, Types
<1>2. UNCHANGED <<account, catalogue, coupons, subs, edits>>
  BY DEF Admit, accounts
<1>3. RequestType'
  BY <1>1, <1>2 DEF Admit, RequestType
<1>4. OriginInv'
  <2>1. step[r] # "done" /\ \A q \in Requests : q # r => form'[q] = form[q]
    BY <1>1 DEF Admit, RequestType
  <2>2. step' = [step EXCEPT ![r] = "admitted"]
    BY DEF Admit
  <2> QED
    BY <1>1, <1>2, <2>1, <2>2, OriginMoves DEF coupons
<1>5. CatalogueType' /\ shelf' = shelf
  BY <1>2 DEF IInv, Types, CatalogueType, catalogue
<1> QED
  BY <1>2, <1>3, <1>4, <1>5, SubsStay, LiveStays DEF IInv, Types

LEMMA RefuseStep ==
    ASSUME IInv, NEW r \in Requests, Refuse(r)
    PROVE  IInv'
<1>1. RequestType /\ OriginInv
  BY DEF IInv, Types
<1>2. UNCHANGED <<account, catalogue, coupons, subs, edits, form>>
  BY DEF Refuse, accounts
<1>3. RequestType'
  BY <1>1, <1>2 DEF Refuse, RequestType
<1>4. OriginInv'
  BY <1>1, <1>2, OriginMoves DEF coupons, Refuse
<1>5. CatalogueType' /\ shelf' = shelf
  BY <1>2 DEF IInv, Types, CatalogueType, catalogue
<1> QED
  BY <1>2, <1>3, <1>4, <1>5, SubsStay, LiveStays DEF IInv, Types

\* What every request that goes through does to the requests.
LEMMA FinishStep ==
    ASSUME Types, NEW r \in Requests, Finish(r), account' = account
    PROVE  RequestType' /\ form' = form /\ step[r] = "admitted" /\ form[r] \in Forms /\ edits' = edits
  BY DEF Types, RequestType, Finish

LEMMA UpdateQuotaPlanStep ==
    ASSUME IInv, StoreAssumption, NEW r \in Requests, UpdateQuotaPlan(r)
    PROVE  IInv'
<1>1. RequestType /\ OriginInv /\ CatalogueType
  BY DEF IInv, Types
<1>2. UNCHANGED <<account, shelf, offer, links, planRow, tmplRow, template, coupons, subs>>
  BY DEF UpdateQuotaPlan, accounts
<1>3. Finish(r) /\ form[r].kind = "plan"
  BY DEF UpdateQuotaPlan
<1>4. RequestType' /\ form' = form /\ step[r] = "admitted" /\ edits' = edits /\ form[r] \in PlanEdit
  BY <1>2, <1>3, FinishStep DEF IInv, Types, Forms, Purchase, Gift, CouponGift
<1>5. CatalogueType'
  <2> DEFINE f == form[r]
             Sent(x, old) == IF x = None THEN old ELSE x
             new == [on |-> Sent(f.new.on, plan[f.plan].on), unit |-> Sent(f.new.unit, plan[f.plan].unit),
                     value |-> Sent(f.new.value, plan[f.plan].value),
                     micro |-> Normal(Sent(f.new.unit, f.copy.unit), Sent(f.new.value, f.copy.value))]
  <2>1. f.plan \in Plans /\ f.copy \in Quota /\ f.new \in Change
    BY <1>4 DEF PlanEdit
  <2>2. plan[f.plan] \in Quota
    BY <2>1, <1>1 DEF CatalogueType
  <2>3. new \in Quota
    BY <2>1, <2>2 DEF Quota, Change, Normal, StoreAssumption
  <2>4. plan' = IF planRow[f.plan] = "listed" THEN [plan EXCEPT ![f.plan] = new] ELSE plan
    BY DEF UpdateQuotaPlan
  <2> HIDE DEF f, new
  <2>5. plan' \in [Plans -> Quota]
    BY <2>3, <2>4, <1>1 DEF CatalogueType
  <2> QED
    BY <2>5, <1>1, <1>2, <1>4 DEF CatalogueType
<1>6. OriginInv'
  BY <1>1, <1>2, <1>3, <1>4, OriginMoves DEF coupons, Finish
<1> QED
  BY <1>2, <1>4, <1>5, <1>6, SubsStay, LiveStays DEF IInv, Types

-----------------------------------------------------------------------------
(* Subscriptions.                                                          *)

\* What a purchase and a gift do to the rows of subscriptions.  c is a coupon
\* no row carries yet.
LEMMA CreateStep ==
    ASSUME IInv, NEW n \in {1, 2}, NEW num \in Copies(n), NEW u \in Users, NEW p \in Packages,
           NEW gift \in BOOLEAN, NEW pays \in [1 .. 2 -> Nat], NEW c \in Coupons \cup {None},
           CreateSubs(num, u, p, gift, pays, c), Recheck(u, p, n), catalogue' = catalogue
    PROVE  /\ SubType' /\ FreshInv' /\ IndexUnique' /\ LiveHasPackage' /\ SoldHasLimit'
           /\ \A s \in Subs : num[s] = 0 => byCoupon'[s] = byCoupon[s] /\ holder'[s] = holder[s]
           /\ \A s \in Subs : num[s] = 1 => byCoupon'[s] = c /\ holder'[s] = u
           /\ \A s \in Subs : num[s] > 1 => byCoupon'[s] = None
           /\ \A s \in Subs : num[s] > 0 => sub[s] = "none"
<1>1. SubType /\ CatalogueType /\ FreshInv /\ IndexUnique /\ LiveHasPackage /\ SoldHasLimit
  BY DEF IInv, Types
<1>2. /\ num \in [Subs -> 0 .. n]
      /\ \A s \in Subs : num[s] > 0 => sub[s] = "none"
      /\ \A s, t \in Subs : num[s] = num[t] => s = t \/ num[s] = 0
  BY DEF Copies
<1>3. \A s \in Subs : num[s] \in Nat /\ (num[s] > 0 => num[s] \in 1 .. 2)
  BY <1>2
<1>4. PICK base \in 1 .. Cardinality(Subs) :
        /\ IsNext(base, u, p)
        /\ sub' = [s \in Subs |-> IF num[s] > 0 THEN "active" ELSE sub[s]]
        /\ holder' = [s \in Subs |-> IF num[s] > 0 THEN u ELSE holder[s]]
        /\ ofPkg' = [s \in Subs |-> IF num[s] > 0 THEN p ELSE ofPkg[s]]
        /\ price' = [s \in Subs |-> IF num[s] > 0 THEN pays[num[s]] ELSE price[s]]
        /\ given' = [s \in Subs |-> IF num[s] > 0 THEN gift ELSE given[s]]
        /\ index' = [s \in Subs |-> IF num[s] > 0 THEN base + num[s] - 1 ELSE index[s]]
        /\ byCoupon' = [s \in Subs |-> IF num[s] = 1 THEN c ELSE byCoupon[s]]
        /\ snap' = [s \in Subs |-> IF num[s] > 0 THEN {plan[q] : q \in links[p]} ELSE snap[s]]
        /\ ended' = [s \in Subs |-> IF num[s] > 0 THEN FALSE ELSE ended[s]]
  BY Zenon DEF CreateSubs
<1>5. base \in Nat /\ base > 0
  BY <1>4 DEF IsNext
<1>6. {plan[q] : q \in links[p]} \in SUBSET Quota
  BY <1>1 DEF CatalogueType
<1>7. SubType'
  <2>1. price' \in [Subs -> Nat]
    BY <1>1, <1>3, <1>4 DEF SubType
  <2>2. index' \in [Subs -> Nat]
    BY <1>1, <1>3, <1>4, <1>5 DEF SubType
  <2>3. snap' \in [Subs -> SUBSET Quota]
    BY <1>1, <1>4, <1>6 DEF SubType
  <2>4. sub' \in [Subs -> SubStatuses] /\ holder' \in [Subs -> Users \cup {None}]
        /\ ofPkg' \in [Subs -> Packages \cup {None}] /\ given' \in [Subs -> BOOLEAN]
        /\ byCoupon' \in [Subs -> Coupons \cup {None}] /\ ended' \in [Subs -> BOOLEAN]
    BY <1>1, <1>4 DEF SubType, SubStatuses
  <2> QED
    BY <2>1, <2>2, <2>3, <2>4 DEF SubType
<1>8. FreshInv'
  BY <1>1, <1>2, <1>3, <1>4 DEF FreshInv
<1>9. IndexUnique'
  <2> SUFFICES ASSUME NEW s \in Subs, NEW t \in Subs, sub'[s] # "none", sub'[t] # "none",
                      holder'[s] = holder'[t], ofPkg'[s] = ofPkg'[t], index'[s] = index'[t]
               PROVE  s = t
    BY DEF IndexUnique
  <2>1. \A x \in Subs : sub[x] # "none" /\ holder[x] = u /\ ofPkg[x] = p => index[x] < base
    BY <1>4 DEF IsNext
  <2>2. CASE num[s] > 0 /\ num[t] > 0
    BY <2>2, <1>2, <1>3, <1>4, <1>5
  <2>3. CASE num[s] > 0 /\ num[t] = 0
    <3>1. sub[t] # "none" /\ holder[t] = u /\ ofPkg[t] = p /\ index[t] = base + num[s] - 1
      BY <2>3, <1>4
    <3>2. index[t] < base /\ index[t] \in Nat
      BY <3>1, <2>1, <1>1 DEF SubType
    <3> QED
      BY <3>1, <3>2, <2>3, <1>3, <1>5
  <2>4. CASE num[s] = 0 /\ num[t] > 0
    <3>1. sub[s] # "none" /\ holder[s] = u /\ ofPkg[s] = p /\ index[s] = base + num[t] - 1
      BY <2>4, <1>4
    <3>2. index[s] < base /\ index[s] \in Nat
      BY <3>1, <2>1, <1>1 DEF SubType
    <3> QED
      BY <3>1, <3>2, <2>4, <1>3, <1>5
  <2>5. CASE num[s] = 0 /\ num[t] = 0
    <3>1. sub[s] # "none" /\ sub[t] # "none" /\ holder[s] = holder[t] /\ ofPkg[s] = ofPkg[t] /\ index[s] = index[t]
      BY <2>5, <1>4
    <3> QED
      BY <3>1, <1>1 DEF IndexUnique
  <2> QED
    BY <2>2, <2>3, <2>4, <2>5, <1>3
<1>10. LiveHasPackage'
  <2>1. shelf' = shelf /\ shelf[p] = "listed"
    BY DEF catalogue, Recheck, OnSale
  <2> QED
    BY <2>1, <1>1, <1>3, <1>4 DEF LiveHasPackage, Live
<1>11. SoldHasLimit'
  <2>1. \A q \in links[p] : plan[q].on /\ (plan[q].unit = "usd" /\ plan[q].value > 0 => plan[q].micro > 0)
    BY DEF Recheck, Complete, Sound, Metered
  <2> SUFFICES ASSUME NEW s \in Subs, NEW x \in snap'[s]
               PROVE  x.on /\ (x.unit = "usd" /\ x.value > 0 => x.micro > 0)
    BY DEF SoldHasLimit
  <2>2. CASE num[s] > 0
    <3>1. PICK q \in links[p] : x = plan[q]
      BY <2>2, <1>4
    <3> QED
      BY <3>1, <2>1
  <2>3. CASE ~(num[s] > 0)
    <3>1. x \in snap[s]
      BY <2>3, <1>4
    <3> QED
      BY <3>1, <1>1 DEF SoldHasLimit
  <2> QED
    BY <2>2, <2>3
<1>12. /\ \A s \in Subs : num[s] = 0 => byCoupon'[s] = byCoupon[s] /\ holder'[s] = holder[s]
       /\ \A s \in Subs : num[s] = 1 => byCoupon'[s] = c /\ holder'[s] = u
       /\ \A s \in Subs : num[s] > 1 => byCoupon'[s] = None
  BY <1>1, <1>2, <1>3, <1>4 DEF FreshInv
<1> QED
  BY <1>2, <1>7, <1>8, <1>9, <1>10, <1>11, <1>12

\* A sale without a coupon, or a gift: the coupons stay.
LEMMA PlainStep ==
    ASSUME IInv, NEW r \in Requests, NEW num \in [Subs -> 0 .. 2], BuyPlain(r, num) \/ GiveSubscription(r, num)
    PROVE  IInv'
<1>1. PICK n \in {1, 2}, u \in Users, p \in Packages, gift \in BOOLEAN, pays \in [1 .. 2 -> Nat] :
        /\ num \in Copies(n) /\ CreateSubs(num, u, p, gift, pays, None) /\ Recheck(u, p, n)
        /\ Finish(r) /\ UNCHANGED <<accounts, catalogue, coupons>> /\ form[r].kind # "coupon"
  <2>1. Finish(r) /\ UNCHANGED <<accounts, catalogue, coupons>>
    BY DEF BuyPlain, GiveSubscription
  <2>2. form[r] \in Forms
    BY <2>1, FinishStep DEF IInv, accounts
  <2>3. CASE BuyPlain(r, num)
    <3>1. form[r] \in Purchase
      BY <2>2, <2>3 DEF BuyPlain, Forms, Purchase, Gift, CouponGift, PlanEdit
    <3>2. offer[form[r].pkg].price \in Nat
      <4>1. form[r].pkg \in Packages
        BY <3>1 DEF Purchase
      <4>2. offer[form[r].pkg] \in Offer \cup {NoOffer}
        BY <4>1 DEF IInv, Types, CatalogueType
      <4> QED
        BY <4>2, AmountsAreNat
    <3>3. [i \in 1 .. 2 |-> offer[form[r].pkg].price] \in [1 .. 2 -> Nat]
      BY <3>2
    <3> QED
      BY <2>1, <2>3, <3>1, <3>3 DEF BuyPlain, Purchase
  <2>4. CASE GiveSubscription(r, num)
    <3>1. form[r] \in Gift
      BY <2>2, <2>4 DEF GiveSubscription, Forms, Purchase, Gift, CouponGift, PlanEdit
    <3>2. [i \in 1 .. 2 |-> 0] \in [1 .. 2 -> Nat]
      OBVIOUS
    <3> QED
      BY <2>1, <2>4, <3>1, <3>2 DEF GiveSubscription, Gift
  <2> QED
    BY <2>3, <2>4
<1>2. /\ SubType' /\ FreshInv' /\ IndexUnique' /\ LiveHasPackage' /\ SoldHasLimit'
      /\ \A s \in Subs : num[s] = 0 => byCoupon'[s] = byCoupon[s] /\ holder'[s] = holder[s]
      /\ \A s \in Subs : num[s] = 1 => byCoupon'[s] = None
      /\ \A s \in Subs : num[s] > 1 => byCoupon'[s] = None
      /\ \A s \in Subs : num[s] > 0 => sub[s] = "none"
  BY <1>1, CreateStep
<1>3. RequestType' /\ form' = form /\ step[r] = "admitted" /\ form[r] \in Forms /\ edits' = edits
  BY <1>1, FinishStep DEF IInv, accounts
<1>4. UNCHANGED <<coupon, owner, value, scope, lapsed, origin, usedOn, catalogue>>
  BY <1>1 DEF coupons
<1>5. OriginInv'
  BY <1>1, <1>3, <1>4, OriginMoves DEF IInv, Types, Finish
<1>6. CouponPaysOnce'
  <2>1. \A s \in Subs : byCoupon[s] # None => num[s] = 0
    BY <1>2 DEF IInv, FreshInv
  <2>2. \A s \in Subs : byCoupon'[s] # None => byCoupon'[s] = byCoupon[s]
    <3>1. \A s \in Subs : num[s] = 0 \/ num[s] = 1 \/ num[s] > 1
      OBVIOUS
    <3> QED
      BY <3>1, <1>2
  <2>3. \A c \in Coupons : c # None
    BY StoreAssumption
  <2> QED
    BY <2>1, <2>2, <2>3, <1>2, <1>4 DEF IInv, CouponPaysOnce
<1>7. CouponType' /\ CatalogueType'
  BY <1>3, <1>4 DEF IInv, Types, CouponType, CatalogueType, catalogue
<1> QED
  BY <1>2, <1>3, <1>5, <1>6, <1>7 DEF IInv, Types

\* A sale with a coupon: one of its rows and the coupon point at each other.
LEMMA CouponStep ==
    ASSUME IInv, NEW r \in Requests, NEW num \in [Subs -> 0 .. 2], BuyWithCoupon(r, num)
    PROVE  IInv'
<1> DEFINE u == form[r].user
           p == form[r].pkg
           n == form[r].count
           c == form[r].coupon
           pays == [i \in 1 .. 2 |-> IF i = 1 THEN CouponPrice(c, p) ELSE offer[p].price]
<1>1. /\ Finish(r) /\ form[r].kind = "buy" /\ c # None
      /\ Recheck(u, p, n) /\ Applies(c, u, p) /\ num \in Copies(n)
      /\ coupon' = [coupon EXCEPT ![c] = "used"]
      /\ CreateSubs(num, u, p, FALSE, pays, c)
      /\ UNCHANGED <<account, catalogue, owner, value, scope, lapsed, origin>>
  BY DEF BuyWithCoupon, accounts
<1>2. PICK first \in Subs : num[first] = 1 /\ usedOn' = [usedOn EXCEPT ![c] = first]
  BY DEF BuyWithCoupon
<1>3. RequestType' /\ form' = form /\ step[r] = "admitted" /\ form[r] \in Forms /\ edits' = edits
  BY <1>1, FinishStep DEF IInv
<1>4. form[r] \in Purchase
  BY <1>1, <1>3 DEF Forms, Purchase, Gift, CouponGift, PlanEdit
<1>5. u \in Users /\ p \in Packages /\ n \in {1, 2} /\ c \in Coupons
  BY <1>1, <1>4 DEF Purchase
<1>6. pays \in [1 .. 2 -> Nat]
  <2>1. offer[p].price \in Nat
    <3>1. offer[p] \in Offer \cup {NoOffer}
      BY <1>5 DEF IInv, Types, CatalogueType
    <3> QED
      BY <3>1, AmountsAreNat
  <2>2. value[c] \in Nat
    BY <1>5 DEF IInv, Types, CouponType
  <2> QED
    BY <2>1, <2>2 DEF CouponPrice
<1> HIDE DEF u, p, n, c, pays
<1>7. /\ SubType' /\ FreshInv' /\ IndexUnique' /\ LiveHasPackage' /\ SoldHasLimit'
      /\ \A s \in Subs : num[s] = 0 => byCoupon'[s] = byCoupon[s] /\ holder'[s] = holder[s]
      /\ \A s \in Subs : num[s] = 1 => byCoupon'[s] = c /\ holder'[s] = u
      /\ \A s \in Subs : num[s] > 1 => byCoupon'[s] = None
      /\ \A s \in Subs : num[s] > 0 => sub[s] = "none"
  BY <1>1, <1>5, <1>6, CreateStep
<1>8. coupon[c] = "available" /\ owner[c] = u
  BY <1>1 DEF Applies, Usable
<1>9. CouponPaysOnce'
  <2>1. \A s \in Subs : byCoupon[s] # None => num[s] = 0
    BY <1>7 DEF IInv, FreshInv
  <2>2. \A s \in Subs : byCoupon[s] # c
    BY <1>5, <1>8, StoreAssumption DEF IInv, CouponPaysOnce
  <2>3. \A s \in Subs : num[s] = 1 => s = first
    BY <1>1, <1>2 DEF Copies
  <2>4. coupon \in [Coupons -> CouponStatuses] /\ usedOn \in [Coupons -> Subs \cup {None}]
    BY DEF IInv, Types, CouponType
  <2>5. ASSUME NEW d \in Coupons, coupon'[d] = "used"
        PROVE  usedOn'[d] \in Subs /\ byCoupon'[usedOn'[d]] = d /\ holder'[usedOn'[d]] = owner'[d]
    <3>1. CASE d = c
      BY <3>1, <2>4, <1>2, <1>5, <1>7, <1>8, <1>1
    <3>2. CASE d # c
      <4>1. coupon[d] = "used" /\ usedOn'[d] = usedOn[d]
        BY <3>2, <2>4, <2>5, <1>1, <1>2, <1>5
      <4>2. usedOn[d] \in Subs /\ byCoupon[usedOn[d]] = d /\ holder[usedOn[d]] = owner[d]
        BY <4>1 DEF IInv, CouponPaysOnce
      <4>3. num[usedOn[d]] = 0
        BY <4>2, <2>1, StoreAssumption
      <4> QED
        BY <4>1, <4>2, <4>3, <1>1, <1>7
    <3> QED
      BY <3>1, <3>2
  <2>6. ASSUME NEW s \in Subs, byCoupon'[s] # None
        PROVE  coupon'[byCoupon'[s]] = "used" /\ usedOn'[byCoupon'[s]] = s
    <3>1. CASE num[s] = 1
      BY <3>1, <2>3, <2>4, <1>1, <1>2, <1>5, <1>7
    <3>2. CASE num[s] = 0
      <4>1. byCoupon'[s] = byCoupon[s] /\ byCoupon[s] # c
        BY <3>2, <1>7, <2>2
      <4>2. coupon[byCoupon[s]] = "used" /\ usedOn[byCoupon[s]] = s
        BY <4>1, <2>6 DEF IInv, CouponPaysOnce
      <4>3. byCoupon[s] \in Coupons
        BY <4>1, <2>6 DEF IInv, Types, SubType
      <4> QED
        BY <4>1, <4>2, <4>3, <2>4, <1>1, <1>2, <1>5
    <3>3. num[s] = 0 \/ num[s] = 1 \/ num[s] > 1
      OBVIOUS
    <3> QED
      BY <3>1, <3>2, <3>3, <2>6, <1>7
  <2> QED
    BY <2>5, <2>6 DEF CouponPaysOnce
<1>10. CouponType'
  BY <1>1, <1>2, <1>5 DEF IInv, Types, CouponType, CouponStatuses
<1>11. CatalogueType'
  BY <1>1, <1>3 DEF IInv, Types, CatalogueType, catalogue
<1>12. OriginInv'
  <2>1. RequestType /\ OriginInv
    BY DEF IInv, Types
  <2>2. \A q \in Requests : step'[q] # "done" => step[q] # "done"
    BY <2>1, <1>1 DEF Finish, RequestType
  <2>3. \A q \in Requests : step'[q] = "done" /\ form[q].kind = "coupon" => step[q] = "done"
    BY <2>1, <1>1 DEF Finish, RequestType
  <2>4. \A d \in Coupons : coupon'[d] = "none" => coupon[d] = "none"
    BY <1>1, <1>5 DEF IInv, Types, CouponType
  <2> QED
    BY <2>1, <2>2, <2>3, <2>4, <1>1, <1>3 DEF OriginInv
<1> QED
  BY <1>3, <1>7, <1>9, <1>10, <1>11, <1>12 DEF IInv, Types

-----------------------------------------------------------------------------
(* Coupons.                                                                *)

\* New coupons touch only rows that were not there.
LEMMA IssueStep ==
    ASSUME IInv, NEW to \in [Coupons -> Users \cup {None}], NEW t \in Templates, NEW r \in Requests \cup {None},
           IssueCoupons(to, t, r), Issuing(t), UNCHANGED <<subs, shelf>>
    PROVE  /\ CouponType' /\ CouponPaysOnce'
           /\ SubType' /\ FreshInv' /\ IndexUnique' /\ SoldHasLimit' /\ LiveHasPackage'
           /\ \A c \in Coupons : to[c] # None => coupon[c] = "none" /\ coupon'[c] # "none" /\ owner'[c] = to[c] /\ origin'[c] = r
           /\ \A c \in Coupons : to[c] = None => coupon'[c] = coupon[c] /\ owner'[c] = owner[c] /\ origin'[c] = origin[c]
<1>1. CouponType /\ template \in [Templates -> Template \cup {NoTemplate}]
  BY DEF IInv, Types, CatalogueType
<1>2. template[t].value \in Nat /\ template[t].scope \in SUBSET Packages
  <2>1. template[t] \in Template \cup {NoTemplate}
    BY <1>1
  <2> QED
    BY <2>1, AmountsAreNat
<1>3. CouponType'
  BY <1>1, <1>2 DEF IssueCoupons, CouponType, CouponStatuses
<1>4. CouponPaysOnce'
  <2>1. UNCHANGED <<usedOn, byCoupon, holder>>
    BY DEF IssueCoupons, subs
  <2>2. \A c \in Coupons : coupon'[c] = "used" => coupon[c] = "used" /\ owner'[c] = owner[c]
    BY DEF IssueCoupons
  <2>3. \A c \in Coupons : coupon[c] = "used" => coupon'[c] = "used"
    BY DEF IssueCoupons
  <2>4. \A s \in Subs : byCoupon[s] # None => byCoupon[s] \in Coupons
    BY DEF IInv, Types, SubType
  <2> QED
    BY <2>1, <2>2, <2>3, <2>4 DEF IInv, CouponPaysOnce
<1>5. SubType' /\ FreshInv' /\ IndexUnique' /\ SoldHasLimit' /\ LiveHasPackage'
  BY LiveStays DEF IInv, Types, subs, SubType, FreshInv, IndexUnique, SoldHasLimit
<1> QED
  BY <1>3, <1>4, <1>5 DEF IssueCoupons

LEMMA GiveCouponsStep ==
    ASSUME IInv, NEW r \in Requests, NEW to \in [Coupons -> Users \cup {None}], GiveCoupons(r, to)
    PROVE  IInv'
<1> DEFINE t == form[r].template
<1>1. /\ Finish(r) /\ form[r].kind = "coupon" /\ Issuing(t) /\ OneEach(to, form[r].users)
      /\ IssueCoupons(to, t, r) /\ UNCHANGED <<account, catalogue, subs>>
  BY DEF GiveCoupons, accounts
<1>2. RequestType' /\ form' = form /\ step[r] = "admitted" /\ form[r] \in Forms /\ edits' = edits
  BY <1>1, FinishStep DEF IInv
<1>3. form[r] \in CouponGift
  BY <1>1, <1>2 DEF Forms, Purchase, Gift, CouponGift, PlanEdit
<1>4. t \in Templates /\ form[r].users \subseteq Users
  BY <1>3 DEF CouponGift
<1> HIDE DEF t
<1>5. /\ CouponType' /\ CouponPaysOnce'
      /\ SubType' /\ FreshInv' /\ IndexUnique' /\ SoldHasLimit' /\ LiveHasPackage'
      /\ \A c \in Coupons : to[c] # None => coupon[c] = "none" /\ coupon'[c] # "none" /\ owner'[c] = to[c] /\ origin'[c] = r
      /\ \A c \in Coupons : to[c] = None => coupon'[c] = coupon[c] /\ owner'[c] = owner[c] /\ origin'[c] = origin[c]
  BY <1>1, <1>4, IssueStep DEF catalogue
<1>6. OriginInv'
  <2>1. RequestType /\ OriginInv
    BY DEF IInv, Types
  <2>2. \A q \in Requests : step'[q] = IF q = r THEN "done" ELSE step[q]
    BY <2>1, <1>1 DEF Finish, RequestType
  <2>3. \A c \in Coupons : origin[c] # r
    BY <2>1, <1>2 DEF OriginInv
  <2>4. \A c \in Coupons : origin'[c] = r <=> to[c] # None
    BY <1>5, <2>3
  <2>5. \A c \in Coupons : coupon'[c] = "none" => origin'[c] = None
    BY <1>5, <2>1 DEF OriginInv
  <2>6. \A q \in Requests : step'[q] # "done" => \A c \in Coupons : origin'[c] # q
    BY <1>5, <2>1, <2>2, <2>3 DEF OriginInv
  <2>7. ASSUME NEW q \in Requests, step'[q] = "done", form'[q].kind = "coupon", NEW u \in form'[q].users
        PROVE  \E c \in Coupons : \A d \in Coupons : origin'[d] = q /\ owner'[d] = u <=> d = c
    <3>1. CASE q = r
      <4>1. u \in form[r].users /\ u # None
        BY <3>1, <2>7, <1>2, <1>4, StoreAssumption
      <4>2. PICK c \in Coupons : to[c] = u
        BY <4>1, <1>1 DEF OneEach
      <4>3. \A d \in Coupons : to[d] = u <=> d = c
        BY <4>1, <4>2, <1>1 DEF OneEach
      <4> QED
        BY <3>1, <4>1, <4>3, <2>4, <1>5
    <3>2. CASE q # r
      <4>1. PICK c \in Coupons : \A d \in Coupons : origin[d] = q /\ owner[d] = u <=> d = c
        BY <3>2, <2>1, <2>2, <2>7, <1>2 DEF OriginInv
      <4>2. \A d \in Coupons : to[d] # None => origin[d] = None
        BY <1>5, <2>1 DEF OriginInv
      <4>3. q # None
        BY StoreAssumption
      <4>4. \A d \in Coupons : origin'[d] = q /\ owner'[d] = u <=> origin[d] = q /\ owner[d] = u
        BY <4>2, <4>3, <3>2, <1>5
      <4> QED
        BY <4>1, <4>4
    <3> QED
      BY <3>1, <3>2
  <2> QED
    BY <2>5, <2>6, <2>7 DEF OriginInv
<1>7. CatalogueType'
  BY <1>1, <1>2 DEF IInv, Types, CatalogueType, catalogue
<1> QED
  BY <1>2, <1>5, <1>6, <1>7 DEF IInv, Types

\* A new account has not been named by any request, and its coupon comes from none.
LEMMA RegisterStep ==
    ASSUME IInv, NEW u \in Users, NEW to \in [Coupons -> Users \cup {None}], NEW t \in Templates \cup {None},
           Register(u, to, t)
    PROVE  IInv'
<1>1. UNCHANGED <<catalogue, subs, requests, edits>> /\ account' = [account EXCEPT ![u] = "active"]
  BY DEF Register
<1>2. RequestType'
  BY <1>1 DEF IInv, Types, RequestType, requests
<1>3. CatalogueType' /\ UNCHANGED shelf
  BY <1>1 DEF IInv, Types, CatalogueType, catalogue
<1>4. CASE t # None /\ Issuing(t)
  <2>1. IssueCoupons(to, t, None) /\ t \in Templates /\ None \in Requests \cup {None}
    BY <1>4 DEF Register
  <2>2. /\ CouponType' /\ CouponPaysOnce'
        /\ SubType' /\ FreshInv' /\ IndexUnique' /\ SoldHasLimit' /\ LiveHasPackage'
        /\ \A c \in Coupons : to[c] # None => coupon[c] = "none" /\ coupon'[c] # "none" /\ owner'[c] = to[c] /\ origin'[c] = None
        /\ \A c \in Coupons : to[c] = None => coupon'[c] = coupon[c] /\ owner'[c] = owner[c] /\ origin'[c] = origin[c]
    BY <2>1, <1>1, <1>3, <1>4, IssueStep
  <2>3. \A c \in Coupons : to[c] # None => origin[c] = None
    BY <2>2 DEF IInv, OriginInv
  <2>4. \A c \in Coupons : origin'[c] = origin[c] /\ (coupon'[c] = "none" => coupon[c] = "none")
    BY <2>2, <2>3
  <2>5. \A c \in Coupons, r \in Requests : origin[c] = r => owner'[c] = owner[c]
    BY <2>2, <2>3, StoreAssumption
  <2>6. UNCHANGED <<step, form>>
    BY <1>1 DEF requests
  <2>7. OriginInv'
    BY <2>4, <2>5, <2>6 DEF IInv, OriginInv
  <2> QED
    BY <2>2, <2>7, <1>2, <1>3 DEF IInv, Types
<1>5. CASE ~(t # None /\ Issuing(t))
  <2>1. UNCHANGED coupons
    BY <1>5 DEF Register
  <2> QED
    BY <2>1, <1>1, <1>2, <1>3, SubsStay, LiveStays, OriginStays DEF IInv, Types, coupons
<1> QED
  BY <1>4, <1>5

LEMMA BanStep ==
    ASSUME IInv, NEW u \in Users, Ban(u)
    PROVE  IInv'
<1>1. UNCHANGED <<catalogue, coupons, subs, requests, edits>> /\ account' = [account EXCEPT ![u] = "banned"]
  BY DEF Ban
<1>2. RequestType'
  BY <1>1 DEF IInv, Types, RequestType, requests
<1>3. CatalogueType' /\ UNCHANGED shelf
  BY <1>1 DEF IInv, Types, CatalogueType, catalogue
<1> QED
  BY <1>1, <1>2, <1>3, SubsStay, LiveStays, OriginStays DEF IInv, Types, coupons

LEMMA CouponEndsStep ==
    ASSUME IInv, NEW c \in Coupons, AdminRevokeCoupon(c) \/ Lapse(c)
    PROVE  IInv'
<1>1. /\ UNCHANGED <<account, catalogue, subs, requests, edits, owner, value, scope, origin, usedOn>>
      /\ coupon' = coupon \/ coupon' = [coupon EXCEPT ![c] = "revoked"]
      /\ lapsed' = lapsed \/ lapsed' = [lapsed EXCEPT ![c] = TRUE]
      /\ coupon[c] = "available"
  BY DEF AdminRevokeCoupon, Lapse, Usable, accounts
<1>2. CouponType /\ SubType /\ OriginInv
  BY DEF IInv, Types
<1>3. CouponType'
  BY <1>1, <1>2 DEF CouponType, CouponStatuses
<1>4. \A d \in Coupons : (coupon'[d] = "used" <=> coupon[d] = "used") /\ (coupon'[d] = "none" <=> coupon[d] = "none")
  BY <1>1, <1>2 DEF CouponType
<1>5. UNCHANGED <<byCoupon, holder, sub, ofPkg, price, given, index, snap, ended, form, step>>
  BY <1>1 DEF subs, requests
<1>6. CouponPaysOnce'
  <2>1. \A s \in Subs : byCoupon[s] # None => byCoupon[s] \in Coupons
    BY <1>2 DEF SubType
  <2> QED
    BY <2>1, <1>1, <1>4, <1>5 DEF IInv, CouponPaysOnce
<1>7. OriginInv'
  BY <1>1, <1>2, <1>4, <1>5 DEF OriginInv
<1>8. SubType' /\ FreshInv' /\ IndexUnique' /\ SoldHasLimit'
  BY <1>5 DEF IInv, Types, SubType, FreshInv, IndexUnique, SoldHasLimit
<1>9. CatalogueType' /\ RequestType' /\ UNCHANGED shelf
  BY <1>1, <1>5 DEF IInv, Types, CatalogueType, RequestType, catalogue
<1> QED
  BY <1>1, <1>3, <1>6, <1>7, <1>8, <1>9, LiveStays DEF IInv, Types

-----------------------------------------------------------------------------
(* What becomes of a subscription: it never comes back to life.            *)

LEMMA FateStep ==
    ASSUME IInv, NEW s \in Subs,
           \/ EndSub(s)
           \/ CancelSubscription(s)
           \/ ExpireSubscription(s)
           \/ AdminRefundSubscription(s)
           \/ AdminRevokeGrantedSubscription(s)
    PROVE  IInv'
<1>1. /\ UNCHANGED <<account, catalogue, coupons, requests, edits, holder, ofPkg, price, given, index, byCoupon, snap>>
      /\ sub[s] # "none"
      /\ sub' = sub \/ \E st \in SubStatuses \ {"none", "active"} : sub' = [sub EXCEPT ![s] = st]
      /\ ended' = ended \/ ended' = [ended EXCEPT ![s] = TRUE]
  BY DEF EndSub, CancelSubscription, ExpireSubscription, AdminRefundSubscription,
         AdminRevokeGrantedSubscription, SetStatus, SubStatuses, accounts
<1>2. SubType
  BY DEF IInv, Types
<1>3. SubType'
  BY <1>1, <1>2 DEF SubType
<1>4. \A x \in Subs : (sub'[x] = "none" <=> sub[x] = "none") /\ ((Live(x))' => Live(x))
  BY <1>1, <1>2 DEF SubType, Live
<1>5. FreshInv' /\ IndexUnique' /\ SoldHasLimit'
  BY <1>1, <1>4 DEF IInv, FreshInv, IndexUnique, SoldHasLimit
<1>6. LiveHasPackage'
  BY <1>1, <1>4 DEF IInv, LiveHasPackage, catalogue
<1>7. UNCHANGED <<coupon, owner, value, scope, lapsed, origin, usedOn>>
  BY <1>1 DEF coupons
<1>8. CouponType' /\ CouponPaysOnce'
  BY <1>1, <1>7 DEF IInv, Types, CouponType, CouponPaysOnce
<1>9. OriginInv'
  BY <1>1, <1>7, OriginStays DEF IInv
<1>10. CatalogueType' /\ RequestType'
  BY <1>1 DEF IInv, Types, CatalogueType, RequestType, catalogue, requests
<1> QED
  BY <1>3, <1>5, <1>6, <1>8, <1>9, <1>10 DEF IInv, Types

-----------------------------------------------------------------------------
(* The invariant.                                                          *)

LEMMA InitStep ==
    ASSUME Init
    PROVE  IInv
<1>1. CatalogueType
  <2>1. /\ Stock \cup {NoOffer} \subseteq Offer \cup {NoOffer}
        /\ \A o \in Stock \cup {NoOffer} : ValidOffer(o)
    BY StoreAssumption DEF NoOffer, ValidOffer
  <2>2. StockPlans \cup {NoQuota} \subseteq Quota
    <3>1. StockPlans \subseteq Quota /\ 0 \in Limits
      BY StoreAssumption
    <3>2. NoQuota \in Quota
      BY <3>1 DEF Quota, NoQuota, Units
    <3> QED
      BY <3>1, <3>2
  <2>3. shelf \in [Packages -> Rows] /\ planRow \in [Plans -> Rows] /\ tmplRow \in [Templates -> Rows]
        /\ template \in [Templates -> Template \cup {NoTemplate}] /\ links \in [Packages -> SUBSET Plans]
    BY StoreAssumption DEF Init, Rows
  <2>4. edits \in 0 .. MaxEdits
    BY StoreAssumption DEF Init
  <2>5. offer \in [Packages -> Stock \cup {NoOffer}] /\ plan \in [Plans -> StockPlans \cup {NoQuota}]
    BY DEF Init
  <2> QED
    BY <2>1, <2>2, <2>3, <2>4, <2>5 DEF CatalogueType
<1>2. CouponType /\ SubType /\ RequestType
  BY DEF Init, CouponType, SubType, RequestType, CouponStatuses, SubStatuses
<1>3. FreshInv /\ CouponPaysOnce /\ LiveHasPackage /\ IndexUnique /\ SoldHasLimit
  BY DEF Init, FreshInv, CouponPaysOnce, LiveHasPackage, Live, IndexUnique, SoldHasLimit
<1>4. OriginInv
  BY StoreAssumption DEF Init, OriginInv
<1> QED
  BY <1>1, <1>2, <1>3, <1>4 DEF IInv, Types

LEMMA HandleStep ==
    ASSUME IInv, NEW r \in Requests, Handle(r)
    PROVE  IInv'
<1>1. ASSUME NEW u \in Users, NEW p \in Packages, NEW n \in {1, 2}, NEW c \in Coupons \cup {None},
             PurchasePackage(r, u, p, n, c)
      PROVE  IInv'
  <2> DEFINE f == [kind |-> "buy", user |-> u, pkg |-> p, count |-> n, coupon |-> c]
  <2>1. f \in Forms /\ Admit(r, f)
    BY <1>1 DEF PurchasePackage, Forms, Purchase
  <2> HIDE DEF f
  <2> QED
    BY <2>1, AdmitStep
<1>2. ASSUME NEW u \in Users, NEW p \in Packages, NEW n \in {1, 2}, AdminGrantSubscription(r, u, p, n)
      PROVE  IInv'
  <2> DEFINE f == [kind |-> "gift", user |-> u, pkg |-> p, count |-> n]
  <2>1. f \in Forms /\ Admit(r, f)
    BY <1>2 DEF AdminGrantSubscription, Forms, Gift
  <2> HIDE DEF f
  <2> QED
    BY <2>1, AdmitStep
<1>3. ASSUME NEW us \in SUBSET Users, NEW t \in Templates, AdminGrantCoupon(r, us, t)
      PROVE  IInv'
  <2> DEFINE f == [kind |-> "coupon", users |-> us, template |-> t]
  <2>1. f \in Forms /\ Admit(r, f)
    BY <1>3 DEF AdminGrantCoupon, Forms, CouponGift
  <2> HIDE DEF f
  <2> QED
    BY <2>1, AdmitStep
<1>4. ASSUME NEW q \in Plans, NEW new \in Changes, ReadQuotaPlan(r, q, new)
      PROVE  IInv'
  <2> DEFINE f == [kind |-> "plan", plan |-> q, copy |-> plan[q], new |-> new]
  <2>1. plan[q] \in Quota /\ new \in Change
    BY StoreAssumption DEF IInv, Types, CatalogueType
  <2>2. f \in Forms /\ Admit(r, f)
    BY <1>4, <2>1 DEF ReadQuotaPlan, Forms, PlanEdit
  <2> HIDE DEF f
  <2> QED
    BY <2>2, AdmitStep
<1>5. CASE UpdateQuotaPlan(r)
  BY <1>5, UpdateQuotaPlanStep, StoreAssumption
<1>6. ASSUME NEW num \in [Subs -> 0 .. 2], BuyPlain(r, num) \/ BuyWithCoupon(r, num) \/ GiveSubscription(r, num)
      PROVE  IInv'
  BY <1>6, PlainStep, CouponStep
<1>7. ASSUME NEW to \in [Coupons -> Users \cup {None}], GiveCoupons(r, to)
      PROVE  IInv'
  BY <1>7, GiveCouponsStep
<1>8. CASE Refuse(r)
  BY <1>8, RefuseStep
<1> QED
  BY <1>1, <1>2, <1>3, <1>4, <1>5, <1>6, <1>7, <1>8 DEF Handle

\* Every step keeps the invariant; one lemma per group of actions.
THEOREM IInvInductive ==
    ASSUME IInv, [Next]_vars
    PROVE  IInv'
<1>1. CASE Edits
  BY <1>1, EditStep, StoreAssumption
<1>2. CASE \E r \in Requests : Handle(r)
  BY <1>2, HandleStep
<1>3. CASE \E u \in Users : Ban(u)
  BY <1>3, BanStep
<1>4. CASE \E u \in Users, to \in [Coupons -> Users \cup {None}], t \in Templates \cup {None} : Register(u, to, t)
  BY <1>4, RegisterStep
<1>5. CASE \E c \in Coupons : AdminRevokeCoupon(c) \/ Lapse(c)
  BY <1>5, CouponEndsStep
<1>6. CASE \E s \in Subs :
             \/ EndSub(s) \/ CancelSubscription(s) \/ ExpireSubscription(s)
             \/ AdminRefundSubscription(s) \/ AdminRevokeGrantedSubscription(s)
  BY <1>6, FateStep
<1>7. CASE UNCHANGED vars
  <2>1. UNCHANGED <<account, catalogue, coupons, subs, requests, edits>>
    BY <1>7 DEF vars, accounts
  <2>2. CatalogueType' /\ RequestType' /\ UNCHANGED shelf
    BY <2>1 DEF IInv, Types, CatalogueType, RequestType, catalogue, requests
  <2> QED
    BY <2>1, <2>2, SubsStay, LiveStays, OriginStays DEF IInv, Types, coupons
<1> QED
  BY <1>1, <1>2, <1>3, <1>4, <1>5, <1>6, <1>7 DEF Next

\* The invariant that the theorems below are read off from.
THEOREM SafetyIInv == Spec => []IInv
<1>1. Init => IInv
  BY InitStep
<1>2. IInv /\ [Next]_vars => IInv'
  BY IInvInductive
<1> QED
  BY <1>1, <1>2, PTL DEF Spec

\* Rows and requests keep their types (TypeOK).
THEOREM TypeOKHolds == Spec => []TypeOK
<1>1. IInv => TypeOK
  BY DEF IInv, Types, CatalogueType, CouponType, SubType, RequestType, Forms, TypeOK
<1> QED
  BY <1>1, SafetyIInv, PTL

\* A coupon is used exactly when one subscription of its owner was bought with
\* it (CouponPaysOnce): the status moves in the transaction that writes both
\* ends of the link, from "available", which no row carries.
THEOREM CouponPaysOnceHolds == Spec => []CouponPaysOnce
<1>1. IInv => CouponPaysOnce
  BY DEF IInv
<1> QED
  BY <1>1, SafetyIInv, PTL

\* No running subscription is left without its package (LiveHasPackage).
THEOREM LiveHasPackageHolds == Spec => []LiveHasPackage
<1>1. IInv => LiveHasPackage
  BY DEF IInv
<1> QED
  BY <1>1, SafetyIInv, PTL

\* No two copies of a package of one user have the same number (IndexUnique).
THEOREM IndexUniqueHolds == Spec => []IndexUnique
<1>1. IInv => IndexUnique
  BY DEF IInv
<1> QED
  BY <1>1, SafetyIInv, PTL

\* No subscription is created from a plan that is off or without the limit the
\* engine reads (SoldHasLimit).
THEOREM SoldHasLimitHolds == Spec => []SoldHasLimit
<1>1. IInv => SoldHasLimit
  BY DEF IInv
<1> QED
  BY <1>1, SafetyIInv, PTL

\* A request for coupons gives one to each of its users, or none at all
\* (BatchIsWhole): its coupons are those whose origin it is.
THEOREM BatchIsWholeHolds == Spec => []BatchIsWhole
<1>1. IInv => BatchIsWhole
  <2> SUFFICES ASSUME IInv, NEW r \in Requests, step[r] # "new", form[r].kind = "coupon"
               PROVE  LET got == {c \in Coupons : origin[c] = r}
                      IN IF step[r] = "done"
                         THEN \A u \in form[r].users : Cardinality({c \in got : owner[c] = u}) = 1
                         ELSE got = {}
    BY DEF BatchIsWhole
  <2> DEFINE got == {c \in Coupons : origin[c] = r}
  <2>1. CASE step[r] = "done"
    <3>1. ASSUME NEW u \in form[r].users
          PROVE  Cardinality({c \in got : owner[c] = u}) = 1
      <4>1. PICK c \in Coupons : \A d \in Coupons : origin[d] = r /\ owner[d] = u <=> d = c
        BY <2>1 DEF IInv, OriginInv
      <4>2. {d \in got : owner[d] = u} = {c}
        BY <4>1
      <4> QED
        BY <4>2, FS_Singleton
    <3> QED
      BY <2>1, <3>1
  <2>2. CASE step[r] # "done"
    <3>1. got = {}
      BY <2>2 DEF IInv, OriginInv
    <3> QED
      BY <2>2, <3>1
  <2> QED
    BY <2>1, <2>2
<1> QED
  BY <1>1, SafetyIInv, PTL

-----------------------------------------------------------------------------
(* The action properties: a row is created by one of three transactions.   *)

LEMMA Creation ==
    ASSUME IInv, [Next]_vars, NEW s \in Subs, Created(s)
    PROVE  \E n \in {1, 2}, u \in Users, p \in Packages, gift \in BOOLEAN, pays \in [1 .. 2 -> Nat],
              c \in Coupons \cup {None} : \E num \in Copies(n) :
             /\ CreateSubs(num, u, p, gift, pays, c) /\ Recheck(u, p, n)
             /\ ~gift => offer[p].public /\ \A i \in 1 .. 2 : pays[i] >= LowerBound(offer[p])
             /\ gift => account[u] = "active"
<1>1. sub[s] = "none" /\ sub'[s] = "active"
  BY DEF Created
<1>2. SubType
  BY DEF IInv, Types
<1>3. ASSUME UNCHANGED sub
      PROVE  FALSE
  BY <1>1, <1>3
<1>4. ASSUME NEW x \in Subs, NEW st, st # "active", SetStatus(x, st)
      PROVE  FALSE
  BY <1>1, <1>2, <1>4 DEF SetStatus, SubType
<1>5. PICK r \in Requests, num \in [Subs -> 0 .. 2] : BuyPlain(r, num) \/ BuyWithCoupon(r, num) \/ GiveSubscription(r, num)
  <2>1. CASE Edits
    BY <2>1, <1>3 DEF Edits, CreatePackage, UpdatePackage, DeletePackage, CreateQuotaPlan, DeleteQuotaPlan,
       AdminCreateCouponTemplate, AdminUpdateCouponTemplate, AdminDeleteCouponTemplate, subs
  <2>2. CASE \E r \in Requests : Handle(r)
    BY <2>2, <1>3 DEF Handle, PurchasePackage, AdminGrantSubscription, AdminGrantCoupon, ReadQuotaPlan, Admit,
       UpdateQuotaPlan, GiveCoupons, Refuse, subs
  <2>3. CASE \E u \in Users : Ban(u)
    BY <2>3, <1>3 DEF Ban, subs
  <2>4. CASE \E u \in Users, to \in [Coupons -> Users \cup {None}], t \in Templates \cup {None} : Register(u, to, t)
    BY <2>4, <1>3 DEF Register, subs
  <2>5. CASE \E c \in Coupons : AdminRevokeCoupon(c) \/ Lapse(c)
    BY <2>5, <1>3 DEF AdminRevokeCoupon, Lapse, subs
  <2>6. CASE \E x \in Subs :
               \/ EndSub(x) \/ CancelSubscription(x) \/ ExpireSubscription(x)
               \/ AdminRefundSubscription(x) \/ AdminRevokeGrantedSubscription(x)
    BY <2>6, <1>3, <1>4 DEF EndSub, CancelSubscription, ExpireSubscription, AdminRefundSubscription,
       AdminRevokeGrantedSubscription
  <2>7. CASE UNCHANGED vars
    BY <2>7, <1>3 DEF vars, subs
  <2> QED
    BY <2>1, <2>2, <2>3, <2>4, <2>5, <2>6, <2>7 DEF Next
<1>6. Finish(r) /\ account' = account /\ form[r] \in Forms
  <2>1. Finish(r) /\ account' = account
    BY <1>5 DEF BuyPlain, BuyWithCoupon, GiveSubscription, accounts
  <2> QED
    BY <2>1, FinishStep DEF IInv
<1>7. CASE BuyPlain(r, num)
  <2> DEFINE p == form[r].pkg
             pays == [i \in 1 .. 2 |-> offer[p].price]
  <2>1. form[r] \in Purchase
    BY <1>6, <1>7 DEF BuyPlain, Forms, Purchase, Gift, CouponGift, PlanEdit
  <2>2. form[r].user \in Users /\ p \in Packages /\ form[r].count \in {1, 2}
    BY <2>1 DEF Purchase
  <2>3. offer[p] \in Offer \cup {NoOffer} /\ ValidOffer(offer[p])
    BY <2>2 DEF IInv, Types, CatalogueType
  <2>4. offer[p].price \in Nat /\ offer[p].price >= LowerBound(offer[p])
    BY <2>3, AmountsAreNat DEF ValidOffer, LowerBound
  <2>5. pays \in [1 .. 2 -> Nat] /\ \A i \in 1 .. 2 : pays[i] >= LowerBound(offer[p])
    BY <2>4
  <2>6. num \in Copies(form[r].count) /\ CreateSubs(num, form[r].user, p, FALSE, pays, None)
        /\ Recheck(form[r].user, p, form[r].count) /\ offer[p].public
    BY <1>7 DEF BuyPlain
  <2> HIDE DEF p, pays
  <2> QED
    BY <2>2, <2>5, <2>6
<1>8. CASE BuyWithCoupon(r, num)
  <2> DEFINE p == form[r].pkg
             c == form[r].coupon
             pays == [i \in 1 .. 2 |-> IF i = 1 THEN CouponPrice(c, p) ELSE offer[p].price]
  <2>1. form[r] \in Purchase
    BY <1>6, <1>8 DEF BuyWithCoupon, Forms, Purchase, Gift, CouponGift, PlanEdit
  <2>2. form[r].user \in Users /\ p \in Packages /\ form[r].count \in {1, 2} /\ c \in Coupons
    BY <2>1, <1>8 DEF Purchase, BuyWithCoupon
  <2>3. offer[p] \in Offer \cup {NoOffer} /\ ValidOffer(offer[p]) /\ value[c] \in Nat
    BY <2>2 DEF IInv, Types, CatalogueType, CouponType
  <2>4. offer[p].price \in Nat /\ offer[p].price >= LowerBound(offer[p]) /\ value[c] >= LowerBound(offer[p])
    BY <2>3, <1>8, AmountsAreNat DEF ValidOffer, LowerBound, BuyWithCoupon, Applies
  <2>5. pays \in [1 .. 2 -> Nat] /\ \A i \in 1 .. 2 : pays[i] >= LowerBound(offer[p])
    BY <2>3, <2>4 DEF CouponPrice
  <2>6. num \in Copies(form[r].count) /\ CreateSubs(num, form[r].user, p, FALSE, pays, c)
        /\ Recheck(form[r].user, p, form[r].count) /\ offer[p].public
    BY <1>8 DEF BuyWithCoupon
  <2> HIDE DEF p, pays, c
  <2> QED
    BY <2>2, <2>5, <2>6
<1>9. CASE GiveSubscription(r, num)
  <2> DEFINE pays == [i \in 1 .. 2 |-> 0]
  <2>1. form[r] \in Gift
    BY <1>6, <1>9 DEF GiveSubscription, Forms, Purchase, Gift, CouponGift, PlanEdit
  <2>2. form[r].user \in Users /\ form[r].pkg \in Packages /\ form[r].count \in {1, 2} /\ pays \in [1 .. 2 -> Nat]
    BY <2>1 DEF Gift
  <2>3. num \in Copies(form[r].count) /\ CreateSubs(num, form[r].user, form[r].pkg, TRUE, pays, None)
        /\ Recheck(form[r].user, form[r].pkg, form[r].count) /\ account[form[r].user] = "active"
    BY <1>9 DEF GiveSubscription, Receives
  <2> HIDE DEF pays
  <2> QED
    BY <2>2, <2>3
<1> QED
  BY <1>5, <1>7, <1>8, <1>9

\* The row that is created is one of the copies of the transaction.
LEMMA CreatedRow ==
    ASSUME IInv, NEW s \in Subs, Created(s), NEW n \in {1, 2}, NEW num \in Copies(n), NEW u, NEW p, NEW gift,
           NEW pays, NEW c, CreateSubs(num, u, p, gift, pays, c)
    PROVE  num[s] \in 1 .. 2 /\ holder'[s] = u /\ ofPkg'[s] = p /\ given'[s] = gift /\ price'[s] = pays[num[s]]
<1>1. sub' = [x \in Subs |-> IF num[x] > 0 THEN "active" ELSE sub[x]]
  BY DEF CreateSubs
<1>2. num[s] \in 0 .. n /\ num[s] > 0
  BY <1>1 DEF Created, Copies
<1>3. /\ holder' = [x \in Subs |-> IF num[x] > 0 THEN u ELSE holder[x]]
      /\ ofPkg' = [x \in Subs |-> IF num[x] > 0 THEN p ELSE ofPkg[x]]
      /\ price' = [x \in Subs |-> IF num[x] > 0 THEN pays[num[x]] ELSE price[x]]
      /\ given' = [x \in Subs |-> IF num[x] > 0 THEN gift ELSE given[x]]
  BY DEF CreateSubs
<1> QED
  BY <1>2, <1>3

\* Nothing is sold below the floor of its package (NeverBelowCost): the price of
\* a package never is, and the coupon is held against it in the transaction.
THEOREM NeverBelowCostHolds == Spec => NeverBelowCost
<1>1. ASSUME IInv, [Next]_vars
      PROVE  \A s \in Subs : Created(s) /\ ~given'[s] => price'[s] >= LowerBound(offer[ofPkg'[s]])
  <2> SUFFICES ASSUME NEW s \in Subs, Created(s), ~given'[s]
               PROVE  price'[s] >= LowerBound(offer[ofPkg'[s]])
    OBVIOUS
  <2>1. PICK n \in {1, 2}, u \in Users, p \in Packages, gift \in BOOLEAN, pays \in [1 .. 2 -> Nat],
             c \in Coupons \cup {None} : \E num \in Copies(n) :
             /\ CreateSubs(num, u, p, gift, pays, c) /\ Recheck(u, p, n)
             /\ ~gift => offer[p].public /\ \A i \in 1 .. 2 : pays[i] >= LowerBound(offer[p])
             /\ gift => account[u] = "active"
    BY <1>1, Creation, Zenon
  <2>2. PICK num \in Copies(n) : CreateSubs(num, u, p, gift, pays, c)
    BY <2>1
  <2>3. num[s] \in 1 .. 2 /\ ofPkg'[s] = p /\ given'[s] = gift /\ price'[s] = pays[num[s]]
    BY <1>1, <2>2, CreatedRow
  <2> QED
    BY <2>1, <2>3
<1>2. IInv /\ [Next]_vars => [\A s \in Subs : Created(s) /\ ~given'[s] => price'[s] >= LowerBound(offer[ofPkg'[s]])]_vars
  BY <1>1
<1> QED
  BY <1>2, SafetyIInv, PTL DEF Spec, NeverBelowCost

\* Nothing goes through on what was true when the request arrived
\* (CurrentWhenCreated): package and receiver are read again.
THEOREM CurrentWhenCreatedHolds == Spec => CurrentWhenCreated
<1>1. ASSUME IInv, [Next]_vars
      PROVE  \A s \in Subs : Created(s) =>
               /\ OnSale(ofPkg'[s])
               /\ given'[s] \/ offer[ofPkg'[s]].public
               /\ given'[s] => account[holder'[s]] = "active"
  <2> SUFFICES ASSUME NEW s \in Subs, Created(s)
               PROVE  /\ OnSale(ofPkg'[s])
                      /\ given'[s] \/ offer[ofPkg'[s]].public
                      /\ given'[s] => account[holder'[s]] = "active"
    OBVIOUS
  <2>1. PICK n \in {1, 2}, u \in Users, p \in Packages, gift \in BOOLEAN, pays \in [1 .. 2 -> Nat],
             c \in Coupons \cup {None} : \E num \in Copies(n) :
               /\ CreateSubs(num, u, p, gift, pays, c) /\ Recheck(u, p, n)
               /\ ~gift => offer[p].public
               /\ gift => account[u] = "active"
    BY <1>1, Creation
  <2>2. PICK num \in Copies(n) : CreateSubs(num, u, p, gift, pays, c) /\ Recheck(u, p, n)
    BY <2>1
  <2>3. holder'[s] = u /\ ofPkg'[s] = p /\ given'[s] = gift
    BY <1>1, <2>2, CreatedRow
  <2>4. OnSale(p)
    BY <2>2 DEF Recheck
  <2> QED
    BY <2>1, <2>3, <2>4
<1>2. IInv /\ [Next]_vars => [\A s \in Subs : Created(s) =>
                                 /\ OnSale(ofPkg'[s])
                                 /\ given'[s] \/ offer[ofPkg'[s]].public
                                 /\ given'[s] => account[holder'[s]] = "active"]_vars
  BY <1>1
<1> QED
  BY <1>2, SafetyIInv, PTL DEF Spec, CurrentWhenCreated

\* However many requests run at once, a step that creates copies leaves no more
\* live ones than the package allows (StackLimitKept): they are counted again
\* in the transaction.
THEOREM StackLimitKeptHolds == Spec => StackLimitKept
<1>1. ASSUME IInv, [Next]_vars, NEW v \in Users, NEW k \in Packages,
             \E s \in Subs : Created(s) /\ holder'[s] = v /\ ofPkg'[s] = k, offer[k].limit > 0
      PROVE  Cardinality(LiveOf(v, k)') <= offer[k].limit
  <2>1. PICK s \in Subs : Created(s) /\ holder'[s] = v /\ ofPkg'[s] = k
    BY <1>1
  <2>2. PICK n \in {1, 2}, u \in Users, p \in Packages, gift \in BOOLEAN, pays \in [1 .. 2 -> Nat],
             c \in Coupons \cup {None} : \E num \in Copies(n) :
               CreateSubs(num, u, p, gift, pays, c) /\ Recheck(u, p, n)
    BY <1>1, <2>1, Creation
  <2>3. PICK num \in Copies(n) : CreateSubs(num, u, p, gift, pays, c) /\ Recheck(u, p, n)
    BY <2>2
  <2>4. u = v /\ p = k
    BY <1>1, <2>1, <2>3, CreatedRow
  <2> DEFINE new == {x \in Subs : num[x] > 0}
  <2>5. Cardinality(new) = n /\ Cardinality(LiveOf(v, k)) + n <= offer[k].limit
    BY <2>3, <2>4, <1>1 DEF Copies, Recheck, WithinLimit
  <2>6. LiveOf(v, k)' \subseteq LiveOf(v, k) \cup new
    <3>1. /\ sub' = [x \in Subs |-> IF num[x] > 0 THEN "active" ELSE sub[x]]
          /\ holder' = [x \in Subs |-> IF num[x] > 0 THEN u ELSE holder[x]]
          /\ ofPkg' = [x \in Subs |-> IF num[x] > 0 THEN p ELSE ofPkg[x]]
          /\ ended' = [x \in Subs |-> IF num[x] > 0 THEN FALSE ELSE ended[x]]
      BY <2>3 DEF CreateSubs
    <3> QED
      BY <3>1 DEF LiveOf, Live
  <2>7. IsFiniteSet(LiveOf(v, k)) /\ IsFiniteSet(new)
    <3>1. LiveOf(v, k) \subseteq Subs /\ new \subseteq Subs /\ IsFiniteSet(Subs)
      BY StoreAssumption DEF LiveOf
    <3> QED
      BY <3>1, FS_Subset
  <2>8. offer[k].limit \in Nat
    <3>1. offer[k] \in Offer \cup {NoOffer}
      BY <1>1 DEF IInv, Types, CatalogueType
    <3>2. \A x \in Limits : x \in Nat
      BY StoreAssumption
    <3> QED
      BY <3>1, <3>2 DEF Offer, NoOffer
  <2> DEFINE old == LiveOf(v, k)
             now == LiveOf(v, k)'
  <2>9. IsFiniteSet(old) /\ Cardinality(old) \in Nat /\ Cardinality(new) = n /\ now \subseteq old \cup new
    BY <2>5, <2>6, <2>7, FS_CardinalityType
  <2> HIDE DEF old, new, now
  <2>10. IsFiniteSet(old \cup new) /\ Cardinality(old \cup new) = Cardinality(old) + n - Cardinality(old \cap new)
    BY <2>7, <2>9, FS_Union
  <2>11. Cardinality(old \cap new) \in Nat
    <3>1. IsFiniteSet(old \cap new)
      BY <2>9, FS_Subset
    <3> QED
      BY <3>1, FS_CardinalityType
  <2>12. IsFiniteSet(now) /\ Cardinality(now) <= Cardinality(old \cup new) /\ Cardinality(now) \in Nat
    BY <2>9, <2>10, FS_Subset, FS_CardinalityType
  <2>13. Cardinality(old) + n <= offer[k].limit
    BY <2>5 DEF old
  <2>14. Cardinality(now) <= offer[k].limit
    BY <2>8, <2>9, <2>10, <2>11, <2>12, <2>13
  <2> QED
    BY <2>14 DEF now
<1>2. IInv /\ [Next]_vars =>
        [\A u \in Users, p \in Packages :
          /\ \E s \in Subs : Created(s) /\ holder'[s] = u /\ ofPkg'[s] = p
          /\ offer[p].limit > 0
          => Cardinality(LiveOf(u, p)') <= offer[p].limit]_vars
  BY <1>1
<1> QED
  BY <1>2, SafetyIInv, PTL DEF Spec, StackLimitKept
=============================================================================
