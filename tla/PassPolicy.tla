----------------------------- MODULE PassPolicy -----------------------------
(***************************************************************************)
(* The Wi-Fi policy of one store, and what it makes of one customer's      *)
(* orders of one business day: the minutes each adds, the minutes a refund *)
(* takes back, and the day pass that lasts to the end of the business day. *)
(*                                                                         *)
(* FastAPI keeps one configuration and a version number in the store's row *)
(* and publishes without a lock; Django keeps a row for each version, of   *)
(* which one is published.  Time is the UTC clock in slots, DayLength to a *)
(* day; minutes are slots too.  A zone is its offset (no summer time).     *)
(***************************************************************************)
EXTENDS Backend, Integers, FiniteSets, FiniteSetsExt

CONSTANTS
  Policies,    \* bound: what staff publish; [base, first, more], tiers from amount to minutes
  DefaultTiers, \* [first, more]: FIRST_ORDER_TIERS and ADDITIONAL_ORDER_TIERS
  MaxVersion,  \* bound: versions
  Staff,       \* publishing requests
  Orders,      \* the orders of the customer
  Amounts,     \* bound: their amounts
  DayLength,
  Offsets,     \* bound: zones
  LastSlot,    \* bound: the clock
  NoPolicy

(* Amounts and minutes of the tiers are not negative: PolicyTierRequest,   *)
(* validate_amount_tiers.                                                  *)
Tiers(t) == IsFiniteSet(DOMAIN t) /\ DOMAIN t \subseteq Nat /\ t \in [DOMAIN t -> Nat]

ASSUME PassPolicyConstants ==
  /\ \A p \in Policies : p.base \in Nat \ {0} /\ Tiers(p["first"]) /\ Tiers(p["more"])
  /\ Tiers(DefaultTiers["first"]) /\ Tiers(DefaultTiers["more"])
  /\ Offsets \subseteq Int
  /\ {MaxVersion, DayLength, LastSlot} \subseteq Nat \ {0}
  /\ Amounts \subseteq Nat \ {0}
  /\ NoPolicy \notin Policies

VARIABLES
  cutoff, offset, \* of the store
  slot,
  policies,   \* [1..MaxVersion -> the policy with that version]
  published,  \* the versions published; in FastAPI, the store's version
  staff,      \* [Staff -> [at, version, policy]]: a publication under way
  order,      \* [Orders -> [amount, minutes, refunded, reclaimed]]
  pass        \* [day, expires]: the pass of the first order's business day

policyVars ==
  <<cutoff, offset, slot, policies, published, staff, order, pass>>

Versions == 1 .. MaxVersion
NoForm == [at |-> "idle", version |-> 0, policy |-> NoPolicy]
NoOrder == [amount |-> 0, minutes |-> 0, refunded |-> 0, reclaimed |-> 0]
NoPass == [day |-> -1, expires |-> 0, daypass |-> FALSE]

-----------------------------------------------------------------------------
(* The business day *)

BusinessDate(t) ==
  LET local == t + offset IN
  (local \div DayLength) - (IF local % DayLength < cutoff THEN 1 ELSE 0)

(* Mutant: the day ends at midnight. *)
BusinessDayEndMidnight(d) == (d + 1) * DayLength - offset
BusinessDayEnd(d) == (d + 1) * DayLength + cutoff - offset

-----------------------------------------------------------------------------
(* Minutes *)

(* FastAPI reads an empty list of tiers as the default tiers. *)
TiersOf(policy, kind) ==
  IF FastAPI /\ DOMAIN policy[kind] = {} THEN DefaultTiers[kind] ELSE policy[kind]

Reached(tiers, amount) == {m \in DOMAIN tiers : m <= amount}

(* bonus_minutes: the largest bonus among those the amount reaches. *)
Best(tiers, amount) == Max({0} \cup {tiers[m] : m \in Reached(tiers, amount)})

(* _tier_minutes: the bonus of the highest tier the amount reaches. *)
Highest(tiers, amount) ==
  IF Reached(tiers, amount) = {} THEN 0 ELSE tiers[Max(Reached(tiers, amount))]

Bonus(tiers, amount) ==
  IF FastAPI THEN Best(tiers, amount) ELSE Highest(tiers, amount)

InForce == policies[Max(published)]

Minutes(first, amount) ==
  IF first THEN InForce.base + Bonus(TiersOf(InForce, "first"), amount)
  ELSE Bonus(TiersOf(InForce, "more"), amount)

(* prorated_refunded_wifi_minutes: rounded up, so that minutes are gone no *)
(* later than the money.                                                   *)
Prorated(minutes, total, refunded) ==
  IF minutes <= 0 \/ total <= 0 \/ refunded <= 0 THEN 0
  ELSE Min({minutes, (minutes * refunded + total - 1) \div total})

-----------------------------------------------------------------------------
PolicyInit ==
  /\ backend \in Backends
  /\ cutoff \in 0 .. DayLength - 1
  /\ offset \in Offsets
  /\ slot = DayLength
  /\ \E p \in Policies :
       policies = [v \in Versions |-> IF v = 1 THEN p ELSE NoPolicy]
  /\ published = {1}
  /\ staff = [s \in Staff |-> NoForm]
  /\ order = [e \in Orders |-> NoOrder]
  /\ pass = NoPass

(* FastAPI: the form has the version it was opened at; the request reads   *)
(* the store's row, compares, and writes the configuration and the next    *)
(* version later.                                                          *)
OpenForm(s) ==
  /\ FastAPI
  /\ staff[s].at = "idle"
  /\ staff' = [staff EXCEPT ![s] = [NoForm EXCEPT !.at = "form", !.version = Max(published)]]
  /\ UNCHANGED <<cutoff, offset, slot, policies, published, order, pass>>

PublishReads(s, p) ==
  /\ staff[s].at = "form"
  /\ staff[s].version < MaxVersion
  /\ staff' = [staff EXCEPT ![s] =
       IF @.version = Max(published) THEN [@ EXCEPT !.at = "publish", !.policy = p]
       ELSE NoForm]
  /\ UNCHANGED <<cutoff, offset, slot, policies, published, order, pass>>

PublishWrites(s) ==
  LET next == staff[s].version + 1 IN
  /\ staff[s].at = "publish"
  /\ policies' = [policies EXCEPT ![next] = staff[s].policy]
  /\ published' = {next}
  /\ staff' = [staff EXCEPT ![s] = NoForm]
  /\ UNCHANGED <<cutoff, offset, slot, order, pass>>

(* Django: a new row with the next version, published later, or again,     *)
(* under the locks of its row and of the store's.                          *)
CreatePolicy(p) ==
  /\ Django
  /\ \E v \in Versions :
       /\ policies[v] = NoPolicy /\ policies[v - 1] # NoPolicy
       /\ policies' = [policies EXCEPT ![v] = p]
  /\ UNCHANGED <<cutoff, offset, slot, published, staff, order, pass>>

PublishDjango(v) ==
  /\ Django
  /\ policies[v] # NoPolicy /\ v \notin published
  /\ published' = {v}
  /\ UNCHANGED <<cutoff, offset, slot, policies, staff, order, pass>>

-----------------------------------------------------------------------------
(* An order of the pass's business day; the register may post it a slot    *)
(* after it was paid.  An additional one lengthens from the end of the     *)
(* pass, or from now if that is past.                                      *)
PlaceOrder(e, amount, paid) ==
  LET first == pass = NoPass
      minutes == Minutes(first, amount)
  IN
  /\ order[e] = NoOrder
  /\ first \/ BusinessDate(paid) = pass.day
  /\ order' = [order EXCEPT ![e] = [NoOrder EXCEPT !.amount = amount, !.minutes = minutes]]
  /\ pass' = IF first
             THEN [day |-> BusinessDate(paid), expires |-> slot + minutes, daypass |-> FALSE]
             ELSE [pass EXCEPT !.expires = Max({@, slot}) + minutes]
  /\ UNCHANGED <<cutoff, offset, slot, policies, published, staff>>

(* Mutant: each part is prorated, and rounded up, on its own. *)
ReclaimedInParts(o, part) == o.reclaimed + Prorated(o.minutes, o.amount, part)
(* The minutes of all that has been refunded; less those of what had been  *)
(* is what this refund takes.                                              *)
Reclaimed(o, part) ==
  o.reclaimed + (Prorated(o.minutes, o.amount, o.refunded + part)
                 - Prorated(o.minutes, o.amount, o.refunded))

(* Mutant: more may be refunded than was paid. *)
RefundAny(e, part) ==
  LET o == order[e]
      taken == IF FastAPI THEN Reclaimed(o, part) - o.reclaimed ELSE 0
  IN
  /\ 0 < part /\ part <= o.amount
  /\ order' = [order EXCEPT ![e].refunded = @ + part, ![e].reclaimed = @ + taken]
  /\ pass' = [pass EXCEPT !.expires = IF @ <= slot THEN @ ELSE Max({slot, @ - taken}),
                          !.daypass = @ /\ taken = 0]
  /\ UNCHANGED <<cutoff, offset, slot, policies, published, staff>>

(* FastAPI takes time back, down to now at the least; Django does not. *)
Refund(e, part) ==
  LET o == order[e]
      taken == IF FastAPI THEN Reclaimed(o, part) - o.reclaimed ELSE 0
  IN
  /\ 0 < part /\ part <= o.amount - o.refunded
  /\ order' = [order EXCEPT ![e].refunded = @ + part, ![e].reclaimed = @ + taken]
  /\ pass' = [pass EXCEPT !.expires = IF @ <= slot THEN @ ELSE Max({slot, @ - taken}),
                          !.daypass = @ /\ taken = 0]
  /\ UNCHANGED <<cutoff, offset, slot, policies, published, staff>>

(* The day pass: no less than there was (FastAPI), or exactly the day. *)
ApplyDayPass ==
  /\ pass # NoPass
  /\ pass' = [pass EXCEPT
       !.expires = IF FastAPI THEN Max({@, BusinessDayEnd(pass.day)})
                   ELSE BusinessDayEnd(pass.day),
       !.daypass = TRUE]
  /\ UNCHANGED <<cutoff, offset, slot, policies, published, staff, order>>

Passes ==
  /\ slot < LastSlot
  /\ slot' = slot + 1
  /\ UNCHANGED <<cutoff, offset, policies, published, staff, order, pass>>

PolicyNext ==
  /\ UNCHANGED backend
  /\ \/ Passes \/ ApplyDayPass
     \/ \E s \in Staff : OpenForm(s) \/ PublishWrites(s) \/ \E p \in Policies : PublishReads(s, p)
     \/ \E p \in Policies : CreatePolicy(p)
     \/ \E v \in Versions : PublishDjango(v)
     \/ \E e \in Orders, a \in Amounts : PlaceOrder(e, a, slot) \/ PlaceOrder(e, a, slot - 1)
     \/ \E e \in Orders, a \in 1 .. Max(Amounts) : Refund(e, a)

-----------------------------------------------------------------------------
PolicyTypeOK ==
  /\ backend \in Backends
  /\ cutoff \in 0 .. DayLength - 1 /\ offset \in Offsets /\ slot \in Nat
  /\ policies \in [Versions -> Policies \cup {NoPolicy}]
  /\ published \in {{v} : v \in Versions} /\ InForce # NoPolicy
  /\ staff \in [Staff -> [at : {"idle", "form", "publish"}, version : 0 .. MaxVersion,
                          policy : Policies \cup {NoPolicy}]]
  /\ order \in [Orders -> [amount : Nat, minutes : Nat, refunded : Nat, reclaimed : Nat]]
  /\ \A e \in Orders : order[e].refunded <= order[e].amount
  /\ pass \in [day : Int, expires : Int, daypass : BOOLEAN]

(* However a refund is split, it takes back the order's own minutes in     *)
(* proportion, rounded up once: as few minutes as cover the share that was *)
(* refunded, all of them for a full refund, never more (FastAPI); and a    *)
(* policy published in between makes no difference.                        *)
RefundIsProportional ==
  FastAPI =>
    \A e \in Orders :
      LET o == order[e] IN
      /\ o.reclaimed * o.amount >= o.minutes * o.refunded
      /\ o.reclaimed > 0 => (o.reclaimed - 1) * o.amount < o.minutes * o.refunded

(* A day pass covers every moment of its business day, wherever the cutoff *)
(* and the zone put that day's end, until a refund takes minutes back.     *)
DayPassCoversItsDay ==
  pass.daypass =>
    \A t \in 0 .. LastSlot + DayLength : BusinessDate(t) = pass.day => t < pass.expires

(* What is published was read by a request that found its version current. *)
PublishesPolicies ==
  \A s \in Staff :
    staff[s].at = "publish" => staff[s].version < MaxVersion /\ staff[s].policy \in Policies

(* What has been reclaimed is a function of what has been refunded. *)
ReclaimedIsProrated ==
  \A e \in Orders :
    LET o == order[e] IN
    o.reclaimed = IF FastAPI THEN Prorated(o.minutes, o.amount, o.refunded) ELSE 0

DayPassReachesEnd == pass.daypass => pass.expires >= BusinessDayEnd(pass.day)

PolicyInv ==
  PolicyTypeOK /\ PublishesPolicies /\ ReclaimedIsProrated /\ DayPassReachesEnd
=============================================================================
