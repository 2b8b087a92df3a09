-------------------------- MODULE BackOfficeProofs --------------------------
(***************************************************************************)
(* Proofs about BackOffice, in either backend.  About its promotions: for  *)
(* any recommendations, desks, windows, quantities and number of requests. *)
(* About its policy: for any tiers, orders, amounts, refunds, publishing   *)
(* staff, zones, cutoffs and lengths of a day.                             *)
(***************************************************************************)
EXTENDS BackOffice, FiniteSetTheorems, WellFoundedInduction, TLAPS

(***************************************************************************)
(* What a step does to the desks.                                          *)
(***************************************************************************)
LEMMA StartsFrame ==
  ASSUME RowsFit, NEW d \in Desks, NEW what, Starts(d, what)
  PROVE  /\ desk[d].at = "idle" /\ DOMAIN desk' = Desks
         /\ \A e \in Desks : desk'[e] = IF e = d THEN what ELSE desk[e]
  BY DEF RowsFit, Starts

LEMMA EndsFrame ==
  ASSUME RowsFit, NEW d \in Desks, Ends(d)
  PROVE  /\ DOMAIN desk' = Desks
         /\ \A e \in Desks : desk'[e] = IF e = d THEN Idle ELSE desk[e]
  BY DEF RowsFit, Ends

LEMMA IdleFields == Idle.at = "idle" /\ Idle.quantity = 0 /\ Idle.to = 0
  BY DEF Idle

(* A request that starts with neither the item nor a recommendation.       *)
SaleJob == [Idle EXCEPT !.at = "sale"]
ScanJob(found) ==
  [Idle EXCEPT !.at = "scan", !.quantity = stock.quantity, !.risky = stock.risky, !.found = found]
StockJob(to, sets) ==
  [Idle EXCEPT !.at = "stock", !.quantity = stock.quantity, !.risky = stock.risky,
               !.to = to, !.sets = sets]
RowJob(at, c) == [Idle EXCEPT !.at = at, !.rec = c, !.row = rec[c]]

LEMMA JobFields ==
  ASSUME NEW found, NEW to, NEW sets, NEW at, NEW c
  PROVE  /\ SaleJob.at = "sale" /\ SaleJob.quantity = 0 /\ SaleJob.to = 0
         /\ ScanJob(found).at = "scan" /\ ScanJob(found).quantity = stock.quantity
         /\ ScanJob(found).risky = stock.risky /\ ScanJob(found).to = 0
         /\ StockJob(to, sets).at = "stock" /\ StockJob(to, sets).quantity = stock.quantity
         /\ StockJob(to, sets).risky = stock.risky /\ StockJob(to, sets).to = to
         /\ RowJob(at, c).at = at /\ RowJob(at, c).rec = c /\ RowJob(at, c).row = rec[c]
         /\ RowJob(at, c).quantity = 0 /\ RowJob(at, c).to = 0
  BY DEF SaleJob, ScanJob, StockJob, RowJob, Idle

ReadingStarts(d) ==
  \/ Starts(d, SaleJob)
  \/ \E found \in BOOLEAN : Starts(d, ScanJob(found))
  \/ FastAPI /\ \E to \in 0 .. MaxQuantity, sets \in BOOLEAN : Starts(d, StockJob(to, sets))
  \/ \E c \in Recs, at \in {"page", "reject"} :
       /\ rec[c].status \in Open
       /\ at = "reject" => FastAPI
       /\ Starts(d, RowJob(at, c))

(* What is offered lies within the clock.                                  *)
Offered(w) == now \in 0 .. MaxTime => Window(w)

(* A row becomes another one.                                              *)
Inserted == \E c \in Recs, kind \in Kinds : \E w :
  /\ Offered(w)
  /\ rec[c].status = "none"
  /\ rec' = [rec EXCEPT ![c] = [kind |-> kind, status |-> "PENDING", version |-> 1, window |-> w]]

(* The steps of the promotions, by what they write.                        *)
Reading ==
  /\ UNCHANGED <<rec, promo, stock, ledger, crossed>>
  /\ \/ UNCHANGED desk
     \/ \E d \in Desks : Ends(d)
     \/ \E d \in Desks : ReadingStarts(d)

Generating ==
  /\ Inserted
  /\ UNCHANGED <<promo, stock, ledger, crossed>>
  /\ UNCHANGED desk \/ \E d \in Desks : Ends(d)

StockChanging ==
  \/ \E to \in -1 .. MaxQuantity : AdjustDjango(to)
  \/ \E d \in Desks : ScanWrites(d) \/ ScanWritesDjango(d) \/ ChangeStockWrites(d)

Showing ==
  /\ UNCHANGED <<rec, stock, ledger, crossed, desk>>
  /\ \/ UpdatePromotionStates
     \/ \E c \in Recs, status \in PromotionStatuses, w \in EditedTo : PatchPromotion(c, status, w)

Editing(d) ==
  /\ desk[d].at = "page" /\ rec[desk[d].rec].status \in Open
  /\ \E w \in EditedTo \cup {NoWindow} : Edits(d, w)

Accepting(d) ==
  /\ desk[d].at = "page" /\ rec[desk[d].rec].status \in Open
  /\ \E w \in EditedTo \cup {rec[desk[d].rec].window}, status \in {"ACTIVE", "SCHEDULED"} :
       w # NoWindow /\ Accepts(d, w, status)

(* Windows on offer, by either backend's generators and scans.             *)
LEMMA SalesAreOffered ==
  /\ Offered(NoWindow)
  /\ \A end \in now + 2 .. now + Limit + 2 : Offered(<<now + 1, end>>)
  /\ Offered(<<now, now + 1>>) /\ Offered(<<now, now + Limit + 1>>)
  /\ \A end \in SaleEnds : Offered(<<now + 1, end>>)
  /\ \A end \in {now + 2, now + Limit + 2} : Offered(<<now + 1, end>>)
  <1>1. MaxTime \in Nat /\ Limit \in Nat \ {0}
    BY PromotionsConstants
  <1>2. ASSUME NEW from \in Int, NEW end \in Int,
               now \in 0 .. MaxTime => from \in {now, now + 1} /\ end >= 0 /\ end <= now + Limit + 2
        PROVE  Offered(<<from, end>>)
    BY <1>1, <1>2 DEF Offered, Window, Times
  <1>3. now \in 0 .. MaxTime => now \in Int
    OBVIOUS
  <1> QED
    BY <1>1, <1>2, <1>3 DEF Offered, Window, Times, SaleEnds

LEMMA NextParts ==
  ASSUME [Next]_vars
  PROVE  /\ backend' = backend
         /\ UNCHANGED promotionVars \/ PromotionsNext
         /\ UNCHANGED policyVars \/ PolicyNext
  <1>1. CASE PassesFail
    BY <1>1 DEF PassesFail
  <1>2. CASE area = "promotions" /\ PromotionsNext /\ UNCHANGED policyVars
    BY <1>2 DEF PromotionsNext
  <1>3. CASE area = "policy" /\ PolicyNext /\ UNCHANGED promotionVars
    BY <1>3 DEF PolicyNext
  <1>4. CASE UNCHANGED vars
    BY <1>4 DEF vars
  <1> QED
    BY <1>1, <1>2, <1>3, <1>4 DEF Next

LEMMA StepCases ==
  ASSUME RowsFit, [Next]_vars
  PROVE  /\ backend' = backend
         /\ \/ Reading \/ Generating \/ StockChanging \/ Showing
            \/ \E d \in Desks : Editing(d) \/ Accepting(d) \/ RejectWrites(d)
            \/ \E c \in Recs : RejectDjango(c)
  <1>1. CASE UNCHANGED promotionVars
    <2>1. backend' = backend
      BY NextParts
    <2> QED
      BY <1>1, <2>1 DEF Reading, promotionVars
  <1>2. CASE PromotionsNext
    <2>1. backend' = backend
      BY <1>2 DEF PromotionsNext
    <2>2. ASSUME NEW kind \in Kinds, NEW w, Offered(w), Inserts(kind, w) PROVE Inserted
      BY <2>2 DEF Inserts, Inserted
    <2>3. CASE Generate \/ GenerateDjango
      <3>1. Inserted
        BY <2>2, <2>3, SalesAreOffered DEF Generate, GenerateDjango, GenerateSummary, GenerateMenuTrends,
             GenerateSaleDjango, GenerateSummaryDjango, GenerateMenuTrendsDjango, Kinds
      <3> QED
        BY <2>1, <2>3, <3>1 DEF Generate, GenerateDjango, GenerateSummary, GenerateMenuTrends,
             GenerateSaleDjango, GenerateSummaryDjango, GenerateMenuTrendsDjango, Generating
    <2>4. ASSUME NEW d \in Desks, GenerateSaleInserts(d) PROVE Generating
      <3>1. Inserted
        BY <2>2, <2>4, SalesAreOffered DEF GenerateSaleInserts, SaleEnds, Kinds
      <3> QED
        BY <2>4, <3>1 DEF GenerateSaleInserts, Generating
    <2>5. CASE Tick
      BY <2>1, <2>5 DEF Tick, Reading
    <2>6. CASE UpdatePromotionStates
      BY <2>1, <2>6 DEF UpdatePromotionStates, Showing
    <2>7. ASSUME NEW d \in Desks, GenerateSaleReads(d) PROVE Reading
      BY <2>7 DEF GenerateSaleReads, Reading, ReadingStarts, SaleJob
    <2>8. ASSUME NEW d \in Desks, ScanReads(d) \/ ScanReadsDjango(d) PROVE Reading
      <3>1. \E found \in BOOLEAN : Scans(d, found)
        BY <2>8 DEF ScanReads, ScanReadsDjango
      <3> QED
        BY <3>1 DEF Scans, Reading, ReadingStarts, ScanJob
    <2>9. ASSUME NEW d \in Desks, NEW to \in 0 .. MaxQuantity, UpsertReads(d, to) PROVE Reading
      BY <2>9 DEF UpsertReads, ReadsStock, Reading, ReadingStarts, StockJob
    <2>10. ASSUME NEW d \in Desks, NEW to \in -1 .. MaxQuantity, AdjustReads(d, to - stock.quantity)
           PROVE  Reading
      <3>1. PICK q : q = stock.quantity + (to - stock.quantity) /\ 0 <= q /\ ReadsStock(d, q, FALSE)
        BY <2>10 DEF AdjustReads
      <3>2. q \in 0 .. MaxQuantity
        BY <3>1, PromotionsConstants DEF RowsFit
      <3> QED
        BY <3>1, <3>2 DEF ReadsStock, Reading, ReadingStarts, StockJob
    <2>11. ASSUME NEW d \in Desks, ClosePage(d) PROVE Reading
      BY <2>11 DEF ClosePage, Reading
    <2>12. ASSUME NEW d \in Desks, NEW c \in Recs, LoadPage(d, c) \/ RejectReads(d, c) PROVE Reading
      BY <2>12 DEF LoadPage, RejectReads, Reading, ReadingStarts, RowJob
    <2>13. ASSUME NEW d \in Desks, NEW w \in EditedTo \cup {NoWindow}, Edit(d, w) \/ EditDjango(d, w)
           PROVE  Editing(d)
      BY <2>13 DEF Edit, EditDjango, Current, Editing, Open
    <2>14. ASSUME NEW d \in Desks, NEW w \in EditedTo \cup {rec[desk[d].rec].window}, Accept(d, w)
           PROVE  Accepting(d)
      BY <2>14 DEF Accept, Current, Publishable, Bounded, Accepting
    <2>15. ASSUME NEW d \in Desks, AcceptDjango(d) PROVE Accepting(d)
      BY <2>15 DEF AcceptDjango, Current, PublishableDjango, Bounded, Accepting
    <2>16. ASSUME NEW c \in Recs, NEW status \in PromotionStatuses, NEW w \in EditedTo,
                  PatchPromotion(c, status, w)
           PROVE  Showing
      BY <2>16 DEF PatchPromotion, Showing
    <2> QED
      BY <1>2, <2>1, <2>3, <2>4, <2>5, <2>6, <2>7, <2>8, <2>9, <2>10, <2>11, <2>12, <2>13, <2>14,
         <2>15, <2>16 DEF PromotionsNext, StockChanging
  <1> QED
    BY <1>1, <1>2, NextParts

(***************************************************************************)
(* Frames of the steps that write rows.                                    *)
(***************************************************************************)
RowOK(r) ==
  /\ r = [kind |-> r.kind, status |-> r.status, version |-> r.version, window |-> r.window]
  /\ r.status \in {"none"} \cup Open \cup Decided
  /\ r.version \in Nat

LEMMA RowsAreOK ==
  ASSUME RowsFit, NEW c \in Recs
  PROVE  RowOK(rec[c])
  BY DEF RowsFit, RowOK

LEMMA RowIsOK ==
  ASSUME NEW r, NEW k, NEW st \in {"none"} \cup Open \cup Decided, NEW v \in Nat, NEW w,
         r = [kind |-> k, status |-> st, version |-> v, window |-> w]
  PROVE  RowOK(r) /\ r.status = st /\ r.version = v
  <1>1. r.kind = k /\ r.status = st /\ r.version = v /\ r.window = w
    OBVIOUS
  <1> QED
    BY <1>1 DEF RowOK

LEMMA InsertedFrame ==
  ASSUME RowsFit, Inserted
  PROVE  /\ DOMAIN rec' = Recs
         /\ \E c \in Recs :
              /\ rec[c].status = "none" /\ rec'[c].status = "PENDING"
              /\ RowOK(rec'[c])
              /\ \A x \in Recs \ {c} : rec'[x] = rec[x]
  <1>0. PICK c \in Recs, kind \in Kinds : \E w :
          /\ rec[c].status = "none"
          /\ rec' = [rec EXCEPT ![c] =
               [kind |-> kind, status |-> "PENDING", version |-> 1, window |-> w]]
    BY DEF Inserted
  <1>1. PICK w :
          /\ rec[c].status = "none"
          /\ rec' = [rec EXCEPT ![c] =
               [kind |-> kind, status |-> "PENDING", version |-> 1, window |-> w]]
    BY <1>0
  <1>2. rec'[c] = [kind |-> kind, status |-> "PENDING", version |-> 1, window |-> w]
    BY <1>1 DEF RowsFit
  <1>3. RowOK(rec'[c]) /\ rec'[c].status = "PENDING"
    BY <1>2 DEF RowOK, Open
  <1>4. DOMAIN rec' = Recs /\ \A x \in Recs \ {c} : rec'[x] = rec[x]
    BY <1>1 DEF RowsFit
  <1> QED
    BY <1>1, <1>3, <1>4

LEMMA EditsFrame ==
  ASSUME RowsFit, DesksFit, NEW d \in Desks, Editing(d), NEW c, c = desk[d].rec
  PROVE  /\ DOMAIN rec' = Recs
         /\ c \in Recs /\ Ends(d) /\ UNCHANGED <<promo, stock, ledger>>
         /\ crossed' = IF Rejecting(c) THEN crossed \cup {c} ELSE crossed
         /\ rec'[c].status = "EDITED" /\ rec'[c].version = rec[c].version + 1
         /\ RowOK(rec'[c])
         /\ \A x \in Recs \ {c} : rec'[x] = rec[x]
  <1>1. PICK w \in EditedTo \cup {NoWindow} : Edits(d, w)
    BY DEF Editing
  <1>2. c \in Recs
    BY DEF Editing, DesksFit
  <1>3. /\ rec' = [rec EXCEPT ![c].window = w, ![c].status = "EDITED", ![c].version = @ + 1]
        /\ Ends(d) /\ UNCHANGED <<promo, stock, ledger>>
        /\ crossed' = IF Rejecting(c) THEN crossed \cup {c} ELSE crossed
    BY <1>1 DEF Edits, Edited, Crosses
  <1>4. DOMAIN rec' = Recs /\ \A x \in Recs \ {c} : rec'[x] = rec[x]
    BY <1>3 DEF RowsFit
  <1>5. rec'[c] = [kind |-> rec[c].kind, status |-> "EDITED", version |-> rec[c].version + 1,
                   window |-> w]
    BY <1>2, <1>3 DEF RowsFit
  <1>6. RowOK(rec'[c]) /\ rec'[c].status = "EDITED" /\ rec'[c].version = rec[c].version + 1
    <2>1. rec[c].version + 1 \in Nat /\ "EDITED" \in Open
      BY <1>2 DEF RowsFit, Open
    <2> QED
      BY <1>5, <2>1, RowIsOK
  <1> QED
    BY <1>2, <1>3, <1>4, <1>6

LEMMA AcceptsFrame ==
  ASSUME RowsFit, DesksFit, NEW d \in Desks, Accepting(d), NEW c, c = desk[d].rec
  PROVE  /\ DOMAIN rec' = Recs /\ DOMAIN promo' = Recs
         /\ c \in Recs /\ Ends(d) /\ UNCHANGED <<stock, ledger>>
         /\ crossed' = IF Rejecting(c) THEN crossed \cup {c} ELSE crossed
         /\ rec'[c].status = "ACCEPTED" /\ RowOK(rec'[c])
         /\ promo'[c].status # "none"
         /\ promo'[c] = [status |-> promo'[c].status, window |-> promo'[c].window]
         /\ \A x \in Recs \ {c} : rec'[x] = rec[x] /\ promo'[x] = promo[x]
  <1>1. PICK w, status : status \in {"ACTIVE", "SCHEDULED"} /\ Accepts(d, w, status)
    BY DEF Accepting
  <1>2. c \in Recs
    BY DEF Accepting, DesksFit
  <1>3. /\ rec' = [rec EXCEPT ![c].status = "ACCEPTED", ![c].version = @ + 1, ![c].window = w]
        /\ promo' = [promo EXCEPT ![c] = [status |-> status, window |-> w]]
        /\ Ends(d) /\ UNCHANGED <<stock, ledger>>
        /\ crossed' = IF Rejecting(c) THEN crossed \cup {c} ELSE crossed
    BY <1>1 DEF Accepts, Crosses
  <1>4. /\ DOMAIN rec' = Recs /\ DOMAIN promo' = Recs
        /\ \A x \in Recs \ {c} : rec'[x] = rec[x] /\ promo'[x] = promo[x]
    BY <1>3 DEF RowsFit
  <1>5. rec'[c] = [kind |-> rec[c].kind, status |-> "ACCEPTED", version |-> rec[c].version + 1,
                   window |-> w]
    BY <1>2, <1>3 DEF RowsFit
  <1>6. RowOK(rec'[c]) /\ rec'[c].status = "ACCEPTED"
    <2>1. rec[c].version + 1 \in Nat /\ "ACCEPTED" \in Decided
      BY <1>2 DEF RowsFit, Decided
    <2> QED
      BY <1>5, <2>1, RowIsOK
  <1>7. promo'[c] = [status |-> status, window |-> w]
    BY <1>2, <1>3 DEF RowsFit
  <1>8. /\ promo'[c].status # "none"
        /\ promo'[c] = [status |-> promo'[c].status, window |-> promo'[c].window]
    BY <1>1, <1>7
  <1> QED
    BY <1>2, <1>3, <1>4, <1>6, <1>8

LEMMA RejectsFrame ==
  ASSUME RowsFit, DesksFit, NEW d \in Desks, RejectWrites(d), NEW c, c = desk[d].rec
  PROVE  /\ DOMAIN rec' = Recs
         /\ c \in Recs /\ desk[d].at = "reject" /\ Ends(d) /\ UNCHANGED <<promo, stock, ledger>>
         /\ crossed' = IF \E e \in Desks \ {d} : desk[e].at = "reject" /\ desk[e].rec = c
                       THEN crossed \cup {c} ELSE crossed
         /\ rec'[c].status = "REJECTED" /\ RowOK(rec'[c])
         /\ \A x \in Recs \ {c} : rec'[x] = rec[x]
  <1>1. c \in Recs /\ desk[d].row.version \in Nat
    BY DEF RejectWrites, DesksFit
  <1>2. /\ desk[d].at = "reject" /\ Ends(d) /\ UNCHANGED <<promo, stock, ledger>>
        /\ crossed' = IF \E e \in Desks \ {d} : desk[e].at = "reject" /\ desk[e].rec = c
                      THEN crossed \cup {c} ELSE crossed
    BY DEF RejectWrites, Crosses
  <1>4. PICK v \in Nat : v = desk[d].row.version + 1
    BY <1>1
  <1>0. PICK w : rec' = [rec EXCEPT ![c].status = "REJECTED", ![c].version = v, ![c].window = w]
    BY <1>4 DEF RejectWrites
  <1>3. DOMAIN rec' = Recs /\ \A x \in Recs \ {c} : rec'[x] = rec[x]
    BY <1>0 DEF RowsFit
  <1>5. rec'[c] = [kind |-> rec[c].kind, status |-> "REJECTED", version |-> v, window |-> w]
    <2>1. rec' = [rec EXCEPT ![c].status = "REJECTED", ![c].version = v, ![c].window = w]
      BY <1>0
    <2>2. rec[c] = [kind |-> rec[c].kind, status |-> rec[c].status,
                    version |-> rec[c].version, window |-> rec[c].window]
      BY <1>1 DEF RowsFit
    <2>3. rec'[c] = [rec[c] EXCEPT !.status = "REJECTED", !.version = v, !.window = w]
      BY <1>1, <2>1 DEF RowsFit
    <2> QED
      BY <2>2, <2>3
  <1>6. RowOK(rec'[c]) /\ rec'[c].status = "REJECTED"
    <2>1. "REJECTED" \in Decided
      BY DEF Decided
    <2> QED
      BY <1>5, <2>1, RowIsOK
  <1> QED
    BY <1>1, <1>2, <1>3, <1>6

LEMMA RejectDjangoFrame ==
  ASSUME RowsFit, NEW c \in Recs, RejectDjango(c)
  PROVE  /\ DOMAIN rec' = Recs
         /\ Django /\ rec[c].status \in Open /\ UNCHANGED <<promo, stock, ledger, desk, crossed>>
         /\ rec'[c].status = "REJECTED" /\ RowOK(rec'[c])
         /\ \A x \in Recs \ {c} : rec'[x] = rec[x]
  <1>1. /\ rec' = [rec EXCEPT ![c].status = "REJECTED", ![c].version = @ + 1]
        /\ Django /\ rec[c].status \in Open /\ UNCHANGED <<promo, stock, ledger, desk, crossed>>
    BY DEF RejectDjango
  <1>2. DOMAIN rec' = Recs /\ \A x \in Recs \ {c} : rec'[x] = rec[x]
    BY <1>1 DEF RowsFit
  <1>3. rec'[c] = [kind |-> rec[c].kind, status |-> "REJECTED", version |-> rec[c].version + 1,
                   window |-> rec[c].window]
    BY <1>1 DEF RowsFit
  <1>4. RowOK(rec'[c]) /\ rec'[c].status = "REJECTED"
    <2>1. rec[c].version + 1 \in Nat /\ "REJECTED" \in Decided
      BY DEF RowsFit, Decided
    <2> QED
      BY <1>3, <2>1, RowIsOK
  <1> QED
    BY <1>1, <1>2, <1>4

LEMMA ShowingFrame ==
  ASSUME RowsFit, Showing
  PROVE  /\ UNCHANGED <<rec, stock, ledger, crossed, desk>> /\ DOMAIN promo' = Recs
         /\ \A c \in Recs :
              /\ promo'[c].status = "none" <=> promo[c].status = "none"
              /\ promo'[c] = [status |-> promo'[c].status, window |-> promo'[c].window]
  <1>1. UNCHANGED <<rec, stock, ledger, crossed, desk>>
    BY DEF Showing
  <1>2. CASE UpdatePromotionStates
    <2>1. DOMAIN promo' = Recs /\ \A c \in Recs :
            promo'[c] = [promo[c] EXCEPT !.status = IF Started(c) THEN "ACTIVE"
                                                    ELSE IF Over(c) THEN "ENDED" ELSE @]
      BY <1>2 DEF UpdatePromotionStates
    <2>2. ASSUME NEW c \in Recs
          PROVE  /\ promo'[c].status = "none" <=> promo[c].status = "none"
                 /\ promo'[c] = [status |-> promo'[c].status, window |-> promo'[c].window]
      <3>1. promo[c] = [status |-> promo[c].status, window |-> promo[c].window]
        BY DEF RowsFit
      <3>2. promo'[c] = [status |-> IF Started(c) THEN "ACTIVE"
                                    ELSE IF Over(c) THEN "ENDED" ELSE promo[c].status,
                         window |-> promo[c].window]
        BY <2>1, <3>1
      <3> QED
        BY <3>2 DEF Started, Over
    <2> QED
      BY <1>1, <2>1, <2>2
  <1>3. ASSUME NEW c \in Recs, NEW status \in PromotionStatuses, NEW w \in EditedTo,
               PatchPromotion(c, status, w)
        PROVE  /\ DOMAIN promo' = Recs
               /\ \A x \in Recs :
                    /\ promo'[x].status = "none" <=> promo[x].status = "none"
                    /\ promo'[x] = [status |-> promo'[x].status, window |-> promo'[x].window]
    <2>1. /\ DOMAIN promo' = Recs /\ promo'[c] = [status |-> status, window |-> w]
          /\ \A x \in Recs \ {c} : promo'[x] = promo[x]
          /\ promo[c].status # "none" /\ status # "none"
      BY <1>3 DEF PatchPromotion, RowsFit, PromotionStatuses
    <2>2. ASSUME NEW x \in Recs
          PROVE  /\ promo'[x].status = "none" <=> promo[x].status = "none"
                 /\ promo'[x] = [status |-> promo'[x].status, window |-> promo'[x].window]
      <3>1. CASE x = c
        BY <2>1, <3>1
      <3>2. CASE x # c
        BY <2>1, <3>2 DEF RowsFit
      <3> QED
        BY <3>1, <3>2
    <2> QED
      BY <2>1, <2>2
  <1> QED
    BY <1>1, <1>2, <1>3 DEF Showing

(***************************************************************************)
(* The stock.                                                              *)
(***************************************************************************)
LEMMA LowType == ASSUME NEW q \in Int PROVE Low(q) \in BOOLEAN
  BY PromotionsConstants DEF Low

(* A desk that changes the item, while no other has read it.               *)
LEMMA ScannedFrame ==
  ASSUME RowsFit, NEW d \in Desks, NEW w, Offered(w), Scanned(d, w)
  PROVE  /\ Ends(d) /\ desk[d].at = "scan" /\ UNCHANGED <<promo, ledger>>
         /\ stock' \in [quantity : Int, risky : BOOLEAN]
         /\ stock'.quantity = stock.quantity
         /\ stock'.risky = IF Low(desk[d].quantity) # desk[d].risky
                           THEN Low(desk[d].quantity) ELSE stock.risky
         /\ crossed' = IF Others(d, {"scan", "stock"}) THEN crossed \cup {"stock"} ELSE crossed
         /\ Inserted \/ UNCHANGED rec
  <1>1. /\ Ends(d) /\ desk[d].at = "scan" /\ UNCHANGED <<promo, ledger>>
        /\ stock' = [stock EXCEPT !.risky = IF Low(desk[d].quantity) # desk[d].risky
                                            THEN Low(desk[d].quantity) ELSE @]
        /\ crossed' = IF Others(d, {"scan", "stock"}) THEN crossed \cup {"stock"} ELSE crossed
        /\ Inserts("INVENTORY_PROMOTION", w) \/ UNCHANGED rec
    BY DEF Scanned, Crosses
  <1>2. Low(desk[d].quantity) \in BOOLEAN
    BY LowType DEF RowsFit
  <1>3. stock \in [quantity : Int, risky : BOOLEAN]
    BY DEF RowsFit
  <1>4. ASSUME NEW b \in BOOLEAN, stock' = [stock EXCEPT !.risky = b]
        PROVE  /\ stock' \in [quantity : Int, risky : BOOLEAN]
               /\ stock'.quantity = stock.quantity /\ stock'.risky = b
    BY <1>3, <1>4
  <1>5. ASSUME Low(desk[d].quantity) # desk[d].risky
        PROVE  /\ stock' \in [quantity : Int, risky : BOOLEAN]
               /\ stock'.quantity = stock.quantity /\ stock'.risky = Low(desk[d].quantity)
    BY <1>1, <1>2, <1>4, <1>5
  <1>6. ASSUME Low(desk[d].quantity) = desk[d].risky
        PROVE  /\ stock' \in [quantity : Int, risky : BOOLEAN]
               /\ stock'.quantity = stock.quantity /\ stock'.risky = stock.risky
    <2>1. stock' = [stock EXCEPT !.risky = stock.risky] /\ stock.risky \in BOOLEAN
      BY <1>1, <1>3, <1>6
    <2> QED
      BY <1>4, <1>6, <2>1
  <1>7. Inserts("INVENTORY_PROMOTION", w) => Inserted
    <2> SUFFICES ASSUME Inserts("INVENTORY_PROMOTION", w) PROVE Inserted
      OBVIOUS
    <2>1. PICK c \in Recs :
            /\ rec[c].status = "none"
            /\ rec' = [rec EXCEPT ![c] = [kind |-> "INVENTORY_PROMOTION", status |-> "PENDING",
                                          version |-> 1, window |-> w]]
      BY DEF Inserts
    <2> QED
      BY <2>1 DEF Inserted, Kinds
  <1> QED
    BY <1>1, <1>5, <1>6, <1>7

LEMMA ChangeStockFrame ==
  ASSUME RowsFit, NEW d \in Desks, ChangeStockWrites(d)
  PROVE  /\ Ends(d) /\ desk[d].at = "stock" /\ UNCHANGED <<rec, promo>>
         /\ stock' \in [quantity : Int, risky : BOOLEAN] /\ ledger' \in Int
         /\ stock'.quantity = IF desk[d].to # desk[d].quantity THEN desk[d].to ELSE stock.quantity
         /\ stock'.risky = IF Low(desk[d].to) # desk[d].risky THEN Low(desk[d].to) ELSE stock.risky
         /\ ledger' = IF desk[d].sets THEN desk[d].to ELSE ledger + (desk[d].to - desk[d].quantity)
         /\ crossed' = IF Others(d, {"scan", "stock"}) THEN crossed \cup {"stock"} ELSE crossed
  <1>1. /\ Ends(d) /\ desk[d].at = "stock" /\ UNCHANGED <<rec, promo>>
        /\ stock' = Written(desk[d].quantity, desk[d].to, desk[d].risky)
        /\ ledger' = IF desk[d].sets THEN desk[d].to ELSE ledger + (desk[d].to - desk[d].quantity)
        /\ crossed' = IF Others(d, {"scan", "stock"}) THEN crossed \cup {"stock"} ELSE crossed
    BY DEF ChangeStockWrites, Crosses
  <1>2. desk[d].to \in Int /\ desk[d].quantity \in Int /\ ledger \in Int
        /\ stock.quantity \in Int /\ stock.risky \in BOOLEAN /\ Low(desk[d].to) \in BOOLEAN
    BY LowType DEF RowsFit
  <1>3. /\ stock'.quantity = IF desk[d].to # desk[d].quantity THEN desk[d].to ELSE stock.quantity
        /\ stock'.risky = IF Low(desk[d].to) # desk[d].risky THEN Low(desk[d].to) ELSE stock.risky
    BY <1>1 DEF Written
  <1>4. /\ (IF desk[d].to # desk[d].quantity THEN desk[d].to ELSE stock.quantity) \in Int
        /\ (IF Low(desk[d].to) # desk[d].risky THEN Low(desk[d].to) ELSE stock.risky) \in BOOLEAN
    BY <1>2
  <1>5. stock' \in [quantity : Int, risky : BOOLEAN]
    BY <1>1, <1>4 DEF Written
  <1>6. ledger' \in Int
    BY <1>1, <1>2
  <1> QED
    BY <1>1, <1>3, <1>5, <1>6

LEMMA AdjustDjangoFrame ==
  ASSUME RowsFit, NEW to \in Int, AdjustDjango(to)
  PROVE  /\ Django /\ UNCHANGED <<rec, promo, desk>>
         /\ stock' \in [quantity : Int, risky : BOOLEAN] /\ ledger' \in Int
         /\ stock'.quantity = to /\ stock'.risky = Low(to)
         /\ ledger' = ledger + (to - stock.quantity)
         /\ crossed' = IF \E d \in Desks : desk[d].at = "scan"
                       THEN crossed \cup {"stock"} ELSE crossed
  <1>1. Low(to) \in BOOLEAN /\ stock.quantity \in Int /\ ledger \in Int
    BY LowType DEF RowsFit
  <1> QED
    BY <1>1 DEF AdjustDjango

(***************************************************************************)
(* Rows and desks.                                                         *)
(***************************************************************************)
DeskStep ==
  \/ UNCHANGED desk
  \/ \E d \in Desks : Ends(d)
  \/ \E d \in Desks : ReadingStarts(d) /\ UNCHANGED <<rec, promo, stock, ledger, crossed>>

RecStep ==
  \/ UNCHANGED rec
  \/ Inserted
  \/ \E d \in Desks : Editing(d) \/ Accepting(d) \/ RejectWrites(d)
  \/ \E c \in Recs : RejectDjango(c)

LEMMA StockCases ==
  ASSUME RowsFit, StockChanging
  PROVE  \/ \E to \in Int : AdjustDjango(to)
         \/ \E d \in Desks : ChangeStockWrites(d) \/ \E w : Offered(w) /\ Scanned(d, w)
  <1>1. -1 .. MaxQuantity \subseteq Int
    BY PromotionsConstants
  <1> QED
    BY <1>1, SalesAreOffered DEF StockChanging, ScanWrites, ScanWritesDjango

LEMMA Steps ==
  ASSUME RowsFit, DesksFit, [Next]_vars
  PROVE  DeskStep /\ RecStep /\ backend' = backend
  <1>1. CASE Reading
    BY <1>1, StepCases DEF Reading, DeskStep, RecStep
  <1>2. CASE Generating
    BY <1>2, StepCases DEF Generating, DeskStep, RecStep
  <1>3. CASE Showing
    BY <1>3, StepCases DEF Showing, DeskStep, RecStep
  <1>4. ASSUME NEW d \in Desks, Editing(d) PROVE DeskStep /\ RecStep
    BY <1>4, EditsFrame DEF DeskStep, RecStep
  <1>5. ASSUME NEW d \in Desks, Accepting(d) PROVE DeskStep /\ RecStep
    BY <1>5, AcceptsFrame DEF DeskStep, RecStep
  <1>6. ASSUME NEW d \in Desks, RejectWrites(d) PROVE DeskStep /\ RecStep
    BY <1>6, RejectsFrame DEF DeskStep, RecStep
  <1>7. ASSUME NEW c \in Recs, RejectDjango(c) PROVE DeskStep /\ RecStep
    BY <1>7, RejectDjangoFrame DEF DeskStep, RecStep
  <1>8. ASSUME NEW to \in Int, AdjustDjango(to) PROVE DeskStep /\ RecStep
    BY <1>8, AdjustDjangoFrame DEF DeskStep, RecStep
  <1>9. ASSUME NEW d \in Desks, ChangeStockWrites(d) PROVE DeskStep /\ RecStep
    BY <1>9, ChangeStockFrame DEF DeskStep, RecStep
  <1>10. ASSUME NEW d \in Desks, NEW w, Offered(w), Scanned(d, w) PROVE DeskStep /\ RecStep
    BY <1>10, ScannedFrame DEF DeskStep, RecStep
  <1>11. CASE StockChanging
    BY <1>8, <1>9, <1>10, <1>11, StockCases, StepCases
  <1> QED
    BY <1>1, <1>2, <1>3, <1>4, <1>5, <1>6, <1>7, <1>11, StepCases

(* A starting request holds numbers, and says what it has read.            *)
LEMMA ReadingFrame ==
  ASSUME RowsFit, NEW d \in Desks, ReadingStarts(d)
  PROVE  /\ DOMAIN desk' = Desks /\ \A e \in Desks \ {d} : desk'[e] = desk[e]
         /\ desk[d].at = "idle"
         /\ desk'[d].quantity \in Int /\ desk'[d].to \in Int
         /\ desk'[d].at \in {"sale", "scan", "stock", "page", "reject"}
         /\ desk'[d].at \in {"stock", "reject"} => FastAPI
         /\ desk'[d].at \in {"scan", "stock"} =>
              desk'[d].quantity = stock.quantity /\ desk'[d].risky = stock.risky
         /\ desk'[d].at \in {"page", "reject"} =>
              /\ desk'[d].rec \in Recs /\ rec[desk'[d].rec].status \in Open
              /\ desk'[d].row = rec[desk'[d].rec]
  <1>1. stock.quantity \in Int
    BY DEF RowsFit
  <1>2. CASE Starts(d, SaleJob)
    BY <1>2, StartsFrame, JobFields
  <1>3. ASSUME NEW found \in BOOLEAN, Starts(d, ScanJob(found))
        PROVE  /\ desk'[d].at = "scan" /\ desk'[d].to = 0
               /\ desk'[d].quantity = stock.quantity /\ desk'[d].risky = stock.risky
    BY <1>3, StartsFrame, JobFields
  <1>4. ASSUME NEW to \in Int, NEW sets \in BOOLEAN, Starts(d, StockJob(to, sets))
        PROVE  /\ desk'[d].at = "stock" /\ desk'[d].to = to
               /\ desk'[d].quantity = stock.quantity /\ desk'[d].risky = stock.risky
    BY <1>4, StartsFrame, JobFields
  <1>5. ASSUME NEW c \in Recs, NEW at \in {"page", "reject"}, Starts(d, RowJob(at, c))
        PROVE  /\ desk'[d].at = at /\ desk'[d].rec = c /\ desk'[d].row = rec[c]
               /\ desk'[d].to = 0 /\ desk'[d].quantity = 0
    BY <1>5, StartsFrame, JobFields
  <1>6. /\ DOMAIN desk' = Desks /\ \A e \in Desks \ {d} : desk'[e] = desk[e]
        /\ desk[d].at = "idle"
    BY StartsFrame DEF ReadingStarts
  <1>7. CASE \E found \in BOOLEAN : Starts(d, ScanJob(found))
    BY <1>1, <1>3, <1>6, <1>7
  <1>8. CASE FastAPI /\ \E to \in 0 .. MaxQuantity, sets \in BOOLEAN : Starts(d, StockJob(to, sets))
    BY <1>1, <1>4, <1>6, <1>8
  <1>9. CASE \E c \in Recs, at \in {"page", "reject"} :
               /\ rec[c].status \in Open
               /\ at = "reject" => FastAPI
               /\ Starts(d, RowJob(at, c))
    BY <1>5, <1>6, <1>9
  <1> QED
    BY <1>2, <1>7, <1>8, <1>9 DEF ReadingStarts

LEMMA NextRowsFit ==
  ASSUME RowsFit, DesksFit, [Next]_vars
  PROVE  RowsFit'
  <1>1. DOMAIN desk' = Desks /\ \A d \in Desks : desk'[d].quantity \in Int /\ desk'[d].to \in Int
    <2>1. CASE UNCHANGED desk
      BY <2>1 DEF RowsFit
    <2>2. ASSUME NEW d \in Desks, Ends(d)
          PROVE  DOMAIN desk' = Desks /\ \A e \in Desks : desk'[e].quantity \in Int /\ desk'[e].to \in Int
      BY <2>2, EndsFrame, IdleFields DEF RowsFit
    <2>3. ASSUME NEW d \in Desks, ReadingStarts(d)
          PROVE  DOMAIN desk' = Desks /\ \A e \in Desks : desk'[e].quantity \in Int /\ desk'[e].to \in Int
      BY <2>3, ReadingFrame DEF RowsFit
    <2> QED
      BY <2>1, <2>2, <2>3, Steps DEF DeskStep
  <1>2. DOMAIN rec' = Recs /\ \A c \in Recs : RowOK(rec'[c])
    <2>1. CASE UNCHANGED rec
      BY <2>1, RowsAreOK DEF RowsFit
    <2>2. CASE Inserted
      BY <2>2, RowsAreOK, InsertedFrame
    <2>3. ASSUME NEW d \in Desks, Editing(d) PROVE DOMAIN rec' = Recs /\ \A c \in Recs : RowOK(rec'[c])
      BY <2>3, RowsAreOK, EditsFrame
    <2>4. ASSUME NEW d \in Desks, Accepting(d) PROVE DOMAIN rec' = Recs /\ \A c \in Recs : RowOK(rec'[c])
      BY <2>4, RowsAreOK, AcceptsFrame
    <2>5. ASSUME NEW d \in Desks, RejectWrites(d) PROVE DOMAIN rec' = Recs /\ \A c \in Recs : RowOK(rec'[c])
      BY <2>5, RowsAreOK, RejectsFrame
    <2>6. ASSUME NEW c \in Recs, RejectDjango(c) PROVE DOMAIN rec' = Recs /\ \A x \in Recs : RowOK(rec'[x])
      BY <2>6, RowsAreOK, RejectDjangoFrame
    <2> QED
      BY <2>1, <2>2, <2>3, <2>4, <2>5, <2>6, Steps DEF RecStep
  <1>3. ASSUME UNCHANGED promo
        PROVE  DOMAIN promo' = Recs /\ \A c \in Recs :
                 promo'[c] = [status |-> promo'[c].status, window |-> promo'[c].window]
    BY <1>3 DEF RowsFit
  <1>4. ASSUME UNCHANGED <<stock, ledger>>
        PROVE  stock' \in [quantity : Int, risky : BOOLEAN] /\ ledger' \in Int
    BY <1>4 DEF RowsFit
  <1>5. ASSUME DOMAIN promo' = Recs /\ \A c \in Recs :
                 promo'[c] = [status |-> promo'[c].status, window |-> promo'[c].window],
               stock' \in [quantity : Int, risky : BOOLEAN], ledger' \in Int
        PROVE  RowsFit'
    BY <1>1, <1>2, <1>5 DEF RowsFit, RowOK
  <1>6. CASE Reading
    BY <1>3, <1>4, <1>5, <1>6 DEF Reading
  <1>7. CASE Generating
    BY <1>3, <1>4, <1>5, <1>7 DEF Generating
  <1>8. CASE Showing
    BY <1>4, <1>5, <1>8, ShowingFrame
  <1>9. ASSUME NEW d \in Desks, Editing(d) PROVE RowsFit'
    BY <1>3, <1>4, <1>5, <1>9, EditsFrame
  <1>10. ASSUME NEW d \in Desks, Accepting(d) PROVE RowsFit'
    <2>1. UNCHANGED <<stock, ledger>>
      BY <1>10, AcceptsFrame
    <2>2. DOMAIN promo' = Recs /\ \A c \in Recs :
            promo'[c] = [status |-> promo'[c].status, window |-> promo'[c].window]
      <3>1. \A c \in Recs : promo[c] = [status |-> promo[c].status, window |-> promo[c].window]
        BY DEF RowsFit
      <3> QED
        BY <1>10, <3>1, AcceptsFrame
    <2> QED
      BY <1>4, <1>5, <2>1, <2>2
  <1>11. ASSUME NEW d \in Desks, RejectWrites(d) PROVE RowsFit'
    BY <1>3, <1>4, <1>5, <1>11, RejectsFrame
  <1>12. ASSUME NEW c \in Recs, RejectDjango(c) PROVE RowsFit'
    BY <1>3, <1>4, <1>5, <1>12, RejectDjangoFrame
  <1>13. ASSUME NEW to \in Int, AdjustDjango(to) PROVE RowsFit'
    BY <1>3, <1>5, <1>13, AdjustDjangoFrame
  <1>14. ASSUME NEW d \in Desks, ChangeStockWrites(d) PROVE RowsFit'
    BY <1>3, <1>5, <1>14, ChangeStockFrame
  <1>15. ASSUME NEW d \in Desks, NEW w, Offered(w), Scanned(d, w) PROVE RowsFit'
    <2>1. ledger' \in Int
      BY <1>15, ScannedFrame DEF RowsFit
    <2> QED
      BY <1>3, <1>5, <1>15, <2>1, ScannedFrame
  <1>16. CASE StockChanging
    BY <1>13, <1>14, <1>15, <1>16, StockCases
  <1> QED
    BY <1>6, <1>7, <1>8, <1>9, <1>10, <1>11, <1>12, <1>16, StepCases

(* A recommendation once made is never unmade, and what is decided is      *)
(* never undecided.                                                        *)
LEMMA DecidedForGood ==
  ASSUME RowsFit, DesksFit, [Next]_vars, NEW c \in Recs
  PROVE  /\ rec[c].status # "none" => rec'[c].status # "none"
         /\ (rec[c].status \notin Open /\ rec[c].status # "none") => rec'[c].status \notin Open
  <1>1. CASE UNCHANGED rec
    BY <1>1
  <1>2. CASE Inserted
    BY <1>2, InsertedFrame
  <1>3. ASSUME NEW d \in Desks, Editing(d)
        PROVE  rec'[c] = rec[c] \/ (rec[c].status \in Open /\ rec'[c].status = "EDITED")
    <2>1. PICK x : x = desk[d].rec
      OBVIOUS
    <2>2. rec[x].status \in Open
      BY <1>3, <2>1 DEF Editing
    <2>3. rec'[x].status = "EDITED" /\ \A y \in Recs \ {x} : rec'[y] = rec[y]
      BY <1>3, <2>1, EditsFrame
    <2> QED
      BY <2>2, <2>3
  <1>4. ASSUME NEW d \in Desks, Accepting(d)
        PROVE  rec'[c] = rec[c] \/ rec'[c].status = "ACCEPTED"
    BY <1>4, AcceptsFrame
  <1>5. ASSUME NEW d \in Desks, RejectWrites(d)
        PROVE  rec'[c] = rec[c] \/ rec'[c].status = "REJECTED"
    BY <1>5, RejectsFrame
  <1>6. ASSUME NEW x \in Recs, RejectDjango(x)
        PROVE  rec'[c] = rec[c] \/ rec'[c].status = "REJECTED"
    BY <1>6, RejectDjangoFrame
  <1> QED
    BY <1>1, <1>2, <1>3, <1>4, <1>5, <1>6, Steps DEF RecStep, Open

LEMMA NextDesksFit ==
  ASSUME RowsFit, DesksFit, [Next]_vars
  PROVE  DesksFit'
  <1>1. backend' = backend
    BY Steps
  <1>2. ASSUME NEW e \in Desks, desk'[e] = desk[e]
        PROVE  /\ desk'[e].at \in {"stock", "reject"} => FastAPI'
               /\ desk'[e].at \in {"page", "reject"} =>
                    /\ desk'[e].rec \in Recs
                    /\ desk'[e].row.version \in Nat
                    /\ rec'[desk'[e].rec].status # "none"
    BY <1>1, <1>2, DecidedForGood DEF DesksFit, FastAPI
  <1>3. CASE UNCHANGED desk
    BY <1>2, <1>3 DEF DesksFit
  <1>4. ASSUME NEW d \in Desks, Ends(d) PROVE DesksFit'
    BY <1>2, <1>4, EndsFrame, IdleFields DEF DesksFit
  <1>5. ASSUME NEW d \in Desks, ReadingStarts(d), UNCHANGED rec PROVE DesksFit'
    <2>1. /\ desk'[d].at \in {"stock", "reject"} => FastAPI'
          /\ desk'[d].at \in {"page", "reject"} =>
               /\ desk'[d].rec \in Recs
               /\ desk'[d].row.version \in Nat
               /\ rec'[desk'[d].rec].status # "none"
      BY <1>1, <1>5, ReadingFrame DEF RowsFit, FastAPI, Open
    <2>2. \A e \in Desks \ {d} : desk'[e] = desk[e]
      BY <1>5, ReadingFrame
    <2> QED
      BY <1>2, <2>1, <2>2 DEF DesksFit
  <1> QED
    BY <1>3, <1>4, <1>5, Steps DEF DeskStep

(***************************************************************************)
(* Versions.                                                               *)
(***************************************************************************)
Shown(d) ==
  (desk[d].at = "page" /\ rec[desk[d].rec].status \in Open) =>
    /\ desk[d].row.version <= rec[desk[d].rec].version
    /\ rec[desk[d].rec].version = desk[d].row.version => rec[desk[d].rec] = desk[d].row

LEMMA ShownIs == (PagesAreOlder /\ VersionNamesContent) <=> \A d \in Desks : Shown(d)
  BY DEF PagesAreOlder, VersionNamesContent, Shown

LEMMA NextShown ==
  ASSUME RowsFit, DesksFit, PagesAreOlder, VersionNamesContent, [Next]_vars
  PROVE  PagesAreOlder' /\ VersionNamesContent'
  <1>1. \A d \in Desks : Shown(d)
    BY ShownIs
  <1>2. ASSUME NEW d \in Desks, desk'[d] = desk[d] PROVE Shown(d)'
    <2> SUFFICES ASSUME desk[d].at = "page", rec'[desk[d].rec].status \in Open
                 PROVE  /\ desk[d].row.version <= rec'[desk[d].rec].version
                        /\ rec'[desk[d].rec].version = desk[d].row.version =>
                             rec'[desk[d].rec] = desk[d].row
      BY <1>2 DEF Shown
    <2> DEFINE c == desk[d].rec
    <2>1. c \in Recs /\ rec[c].status # "none" /\ desk[d].row.version \in Nat
      BY DEF DesksFit
    <2>2. rec[c].status \in Open /\ rec[c].version \in Nat
      BY <2>1, DecidedForGood DEF RowsFit
    <2>3. /\ desk[d].row.version <= rec[c].version
          /\ rec[c].version = desk[d].row.version => rec[c] = desk[d].row
      BY <1>1, <2>2 DEF Shown
    <2>4. rec'[c] = rec[c] \/ rec'[c].version = rec[c].version + 1
      <3>1. CASE UNCHANGED rec
        BY <3>1
      <3>2. CASE Inserted
        BY <2>1, <3>2, InsertedFrame
      <3>3. ASSUME NEW e \in Desks, Editing(e)
            PROVE  rec'[c] = rec[c] \/ rec'[c].version = rec[c].version + 1
        BY <2>1, <3>3, EditsFrame
      <3>4. ASSUME NEW e \in Desks, Accepting(e)
            PROVE  rec'[c] = rec[c]
        BY <2>1, <3>4, AcceptsFrame DEF Open
      <3>5. ASSUME NEW e \in Desks, RejectWrites(e)
            PROVE  rec'[c] = rec[c]
        BY <2>1, <3>5, RejectsFrame DEF Open
      <3>6. ASSUME NEW x \in Recs, RejectDjango(x)
            PROVE  rec'[c] = rec[c]
        BY <2>1, <3>6, RejectDjangoFrame DEF Open
      <3> QED
        BY <3>1, <3>2, <3>3, <3>4, <3>5, <3>6, Steps DEF RecStep
    <2> QED
      BY <2>1, <2>2, <2>3, <2>4
  <1>4. ASSUME NEW d \in Desks, Ends(d) PROVE \A e \in Desks : Shown(e)'
    BY <1>2, <1>4, EndsFrame, IdleFields DEF Shown
  <1>5. ASSUME NEW d \in Desks, ReadingStarts(d), UNCHANGED rec PROVE \A e \in Desks : Shown(e)'
    <2>1. Shown(d)'
      BY <1>5, ReadingFrame DEF Shown, RowsFit
    <2>2. \A e \in Desks \ {d} : desk'[e] = desk[e]
      BY <1>5, ReadingFrame
    <2> QED
      BY <1>2, <2>1, <2>2
  <1>6. \A d \in Desks : Shown(d)'
    BY <1>2, <1>4, <1>5, Steps DEF DeskStep
  <1> QED
    BY <1>6 DEF PagesAreOlder, VersionNamesContent, Shown

(***************************************************************************)
(* Acceptances and rejections.                                             *)
(***************************************************************************)
Standing(c) ==
  /\ rec[c].status = "ACCEPTED" => promo[c].status # "none"
  /\ promo[c].status # "none" =>
       \/ rec[c].status = "ACCEPTED"
       \/ FastAPI /\ c \in crossed /\ rec[c].status = "REJECTED"

LEMMA CrossedGrows ==
  ASSUME RowsFit, DesksFit, [Next]_vars
  PROVE  crossed \subseteq crossed'
  <1>1. ASSUME NEW d \in Desks, Editing(d) PROVE crossed \subseteq crossed'
    BY <1>1, EditsFrame
  <1>2. ASSUME NEW d \in Desks, Accepting(d) PROVE crossed \subseteq crossed'
    BY <1>2, AcceptsFrame
  <1>3. ASSUME NEW d \in Desks, RejectWrites(d) PROVE crossed \subseteq crossed'
    BY <1>3, RejectsFrame
  <1>4. ASSUME NEW c \in Recs, RejectDjango(c) PROVE crossed \subseteq crossed'
    BY <1>4, RejectDjangoFrame
  <1>5. ASSUME NEW to \in Int, AdjustDjango(to) PROVE crossed \subseteq crossed'
    BY <1>5, AdjustDjangoFrame
  <1>6. ASSUME NEW d \in Desks, ChangeStockWrites(d) PROVE crossed \subseteq crossed'
    BY <1>6, ChangeStockFrame
  <1>7. ASSUME NEW d \in Desks, NEW w, Offered(w), Scanned(d, w) PROVE crossed \subseteq crossed'
    BY <1>7, ScannedFrame
  <1>8. CASE StockChanging
    BY <1>5, <1>6, <1>7, <1>8, StockCases
  <1> QED
    BY <1>1, <1>2, <1>3, <1>4, <1>8, StepCases DEF Reading, Generating, Showing

LEMMA NextRejectsAreCrossed ==
  ASSUME RowsFit, DesksFit, RejectsAreCrossed, [Next]_vars
  PROVE  RejectsAreCrossed'
  <1> DEFINE Crossed(d) ==
        desk[d].at = "reject" => rec[desk[d].rec].status \in Open \/ desk[d].rec \in crossed
  (* While a desk rejects, whoever decides says so.                        *)
  <1>1. ASSUME NEW d \in Desks, desk[d].at = "reject", desk'[d] = desk[d]
        PROVE  rec'[desk[d].rec].status \in Open \/ desk[d].rec \in crossed'
    <2> DEFINE c == desk[d].rec
    <2>1. c \in Recs /\ rec[c].status # "none" /\ Rejecting(c) /\ FastAPI
      BY <1>1 DEF DesksFit, Rejecting
    <2>2. rec[c].status \in Open \/ c \in crossed
      BY <1>1 DEF RejectsAreCrossed
    <2>3. crossed \subseteq crossed'
      BY CrossedGrows
    <2> HIDE DEF c
    <2>4. ASSUME rec'[c] = rec[c] PROVE rec'[c].status \in Open \/ c \in crossed'
      BY <2>2, <2>3, <2>4
    <2>5. CASE UNCHANGED rec
      BY <2>4, <2>5 DEF c
    <2>6. CASE Inserted
      BY <2>1, <2>4, <2>6, InsertedFrame DEF c
    <2>7. ASSUME NEW e \in Desks, Editing(e) PROVE rec'[c].status \in Open \/ c \in crossed'
      <3>1. CASE c = desk[e].rec
        BY <2>7, <3>1, EditsFrame DEF Open
      <3>2. CASE c # desk[e].rec
        BY <2>1, <2>4, <2>7, <3>2, EditsFrame
      <3> QED
        BY <3>1, <3>2
    <2>8. ASSUME NEW e \in Desks, Accepting(e) PROVE rec'[c].status \in Open \/ c \in crossed'
      <3>1. CASE c = desk[e].rec
        BY <2>1, <2>8, <3>1, AcceptsFrame
      <3>2. CASE c # desk[e].rec
        BY <2>1, <2>4, <2>8, <3>2, AcceptsFrame
      <3> QED
        BY <3>1, <3>2
    <2>9. ASSUME NEW e \in Desks, RejectWrites(e) PROVE rec'[c].status \in Open \/ c \in crossed'
      <3>1. CASE c = desk[e].rec
        <4>1. e # d
          BY <1>1, <2>9, RejectsFrame, EndsFrame, IdleFields
        <4> QED
          BY <1>1, <2>9, <3>1, <4>1, RejectsFrame DEF c
      <3>2. CASE c # desk[e].rec
        BY <2>1, <2>4, <2>9, <3>2, RejectsFrame
      <3> QED
        BY <3>1, <3>2
    <2>10. ASSUME NEW x \in Recs, RejectDjango(x) PROVE FALSE
      BY <2>1, <2>10, RejectDjangoFrame DEF FastAPI, Django
    <2> QED
      BY <2>5, <2>6, <2>7, <2>8, <2>9, <2>10, Steps DEF RecStep, c
  <1>2. ASSUME NEW d \in Desks, desk'[d] = desk[d]
        PROVE  desk'[d].at = "reject" => rec'[desk'[d].rec].status \in Open \/ desk'[d].rec \in crossed'
    BY <1>1, <1>2
  <1>3. CASE UNCHANGED desk
    BY <1>2, <1>3 DEF RejectsAreCrossed
  <1>4. ASSUME NEW d \in Desks, Ends(d) PROVE RejectsAreCrossed'
    BY <1>2, <1>4, EndsFrame, IdleFields DEF RejectsAreCrossed
  <1>5. ASSUME NEW d \in Desks, ReadingStarts(d), UNCHANGED rec PROVE RejectsAreCrossed'
    <2>1. desk'[d].at = "reject" => rec'[desk'[d].rec].status \in Open
      BY <1>5, ReadingFrame
    <2>2. \A e \in Desks \ {d} : desk'[e] = desk[e]
      BY <1>5, ReadingFrame
    <2> QED
      BY <1>2, <2>1, <2>2 DEF RejectsAreCrossed
  <1> QED
    BY <1>3, <1>4, <1>5, Steps DEF DeskStep

LEMMA NextPromotionsAreAccepted ==
  ASSUME RowsFit, DesksFit, RejectsAreCrossed, PromotionsAreAccepted, [Next]_vars
  PROVE  PromotionsAreAccepted'
  <1>1. backend' = backend /\ crossed \subseteq crossed'
    BY Steps, CrossedGrows
  <1>2. \A c \in Recs : Standing(c)
    BY DEF PromotionsAreAccepted, Standing
  <1>3. ASSUME NEW c \in Recs, rec'[c].status = rec[c].status,
               promo'[c].status = "none" <=> promo[c].status = "none"
        PROVE  Standing(c)'
    BY <1>1, <1>2, <1>3 DEF Standing, FastAPI
  <1>4. ASSUME \A c \in Recs : Standing(c)' PROVE PromotionsAreAccepted'
    BY <1>4 DEF PromotionsAreAccepted, Standing
  <1>5. CASE Showing
    BY <1>3, <1>4, <1>5, ShowingFrame
  <1>6. ASSUME UNCHANGED <<rec, promo>> PROVE PromotionsAreAccepted'
    BY <1>3, <1>4, <1>6
  <1>7. ASSUME Inserted, UNCHANGED promo PROVE PromotionsAreAccepted'
    <2>1. PICK c \in Recs :
            /\ rec[c].status = "none" /\ rec'[c].status = "PENDING"
            /\ \A x \in Recs \ {c} : rec'[x] = rec[x]
      BY <1>7, InsertedFrame
    <2>2. promo[c].status = "none"
      BY <1>2, <2>1 DEF Standing
    <2>3. Standing(c)'
      BY <1>7, <2>1, <2>2 DEF Standing
    <2> QED
      BY <1>3, <1>4, <1>7, <2>1, <2>3
  <1>8. ASSUME NEW d \in Desks, Editing(d) PROVE PromotionsAreAccepted'
    <2>0. PICK c : c = desk[d].rec
      OBVIOUS
    <2>1. c \in Recs /\ rec'[c].status = "EDITED" /\ UNCHANGED promo
          /\ \A x \in Recs \ {c} : rec'[x] = rec[x]
      BY <1>8, <2>0, EditsFrame
    <2>2. rec[c].status \in Open
      BY <1>8, <2>0 DEF Editing
    <2>3. promo[c].status = "none"
      BY <1>2, <2>1, <2>2 DEF Standing, Open
    <2>4. Standing(c)'
      BY <2>1, <2>3 DEF Standing
    <2> QED
      BY <1>3, <1>4, <2>1, <2>4
  <1>9. ASSUME NEW d \in Desks, Accepting(d) PROVE PromotionsAreAccepted'
    <2>0. PICK c : c = desk[d].rec
      OBVIOUS
    <2>1. c \in Recs /\ rec'[c].status = "ACCEPTED" /\ promo'[c].status # "none"
          /\ \A x \in Recs \ {c} : rec'[x] = rec[x] /\ promo'[x] = promo[x]
      BY <1>9, <2>0, AcceptsFrame
    <2>2. Standing(c)'
      BY <2>1 DEF Standing
    <2> QED
      BY <1>3, <1>4, <2>1, <2>2
  <1>10. ASSUME NEW d \in Desks, RejectWrites(d) PROVE PromotionsAreAccepted'
    <2>0. PICK c : c = desk[d].rec
      OBVIOUS
    <2>1. c \in Recs /\ desk[d].at = "reject" /\ rec'[c].status = "REJECTED" /\ UNCHANGED promo
          /\ \A x \in Recs \ {c} : rec'[x] = rec[x]
      BY <1>10, <2>0, RejectsFrame
    <2>2. FastAPI /\ (rec[c].status \in Open \/ c \in crossed)
      BY <2>0, <2>1 DEF DesksFit, RejectsAreCrossed
    <2>3. promo[c].status # "none" => c \in crossed
      BY <1>2, <2>1, <2>2 DEF Standing, Open
    <2>4. FastAPI'
      BY <1>1, <2>2 DEF FastAPI
    <2>5. Standing(c)'
      BY <1>1, <2>1, <2>3, <2>4 DEF Standing
    <2> QED
      BY <1>3, <1>4, <2>1, <2>5
  <1>11. ASSUME NEW c \in Recs, RejectDjango(c) PROVE PromotionsAreAccepted'
    <2>1. /\ rec[c].status \in Open /\ rec'[c].status = "REJECTED" /\ UNCHANGED promo
          /\ \A x \in Recs \ {c} : rec'[x] = rec[x]
      BY <1>11, RejectDjangoFrame
    <2>2. promo[c].status = "none"
      BY <1>2, <2>1 DEF Standing, Open
    <2>3. Standing(c)'
      BY <2>1, <2>2 DEF Standing
    <2> QED
      BY <1>3, <1>4, <2>1, <2>3
  <1>12. CASE StockChanging
    <2>1. ASSUME NEW d \in Desks, NEW w, Offered(w), Scanned(d, w) PROVE PromotionsAreAccepted'
      BY <1>6, <1>7, <2>1, ScannedFrame
    <2>2. ASSUME NEW d \in Desks, ChangeStockWrites(d) PROVE PromotionsAreAccepted'
      BY <1>6, <2>2, ChangeStockFrame
    <2>3. ASSUME NEW to \in Int, AdjustDjango(to) PROVE PromotionsAreAccepted'
      BY <1>6, <2>3, AdjustDjangoFrame
    <2> QED
      BY <1>12, <2>1, <2>2, <2>3, StockCases
  <1> QED
    BY <1>5, <1>6, <1>7, <1>8, <1>9, <1>10, <1>11, <1>12, StepCases DEF Reading, Generating

(***************************************************************************)
(* The item, as those who have read it see it.                             *)
(***************************************************************************)
LEMMA Accounted ==
  ASSUME RowsFit, DesksFit, StockIsAsRead, StockIsAccounted, [Next]_vars
  PROVE  StockIsAsRead' /\ StockIsAccounted'
  <1>1. backend' = backend /\ crossed \subseteq crossed'
    BY Steps, CrossedGrows
  <1>2. stock.quantity \in Int /\ stock.risky \in BOOLEAN /\ ledger \in Int
    BY DEF RowsFit
  (* Whoever leaves the item alone.                                        *)
  <1>3. ASSUME UNCHANGED <<stock, ledger>> PROVE StockIsAccounted'
    BY <1>1, <1>3 DEF StockIsAccounted, Django, Low
  <1>4. ASSUME UNCHANGED stock, UNCHANGED desk \/ \E d \in Desks : Ends(d) PROVE StockIsAsRead'
    <2>1. CASE UNCHANGED desk
      BY <1>1, <1>4, <2>1 DEF StockIsAsRead
    <2>2. ASSUME NEW d \in Desks, Ends(d) PROVE StockIsAsRead'
      BY <1>1, <1>4, <2>2, EndsFrame, IdleFields DEF StockIsAsRead
    <2> QED
      BY <1>4, <2>1, <2>2
  <1>5. ASSUME UNCHANGED stock, NEW d \in Desks, ReadingStarts(d) PROVE StockIsAsRead'
    BY <1>1, <1>5, ReadingFrame DEF StockIsAsRead
  (* Whoever writes it while no other has read it leaves no reader.        *)
  <1>6. ASSUME NEW d \in Desks, Ends(d),
               crossed' = IF Others(d, {"scan", "stock"}) THEN crossed \cup {"stock"} ELSE crossed
        PROVE  StockIsAsRead'
    <2> SUFFICES ASSUME "stock" \notin crossed', NEW e \in Desks, desk'[e].at \in {"scan", "stock"}
                 PROVE  FALSE
      BY DEF StockIsAsRead
    <2>1. e # d /\ desk'[e] = desk[e]
      BY <1>6, EndsFrame, IdleFields
    <2>2. Others(d, {"scan", "stock"})
      BY <2>1 DEF Others
    <2> QED
      BY <1>6, <2>2
  <1>7. ASSUME NEW to \in Int, AdjustDjango(to) PROVE StockIsAsRead' /\ StockIsAccounted'
    <2>1. /\ Django /\ desk' = desk /\ stock'.quantity = to /\ stock'.risky = Low(to)
          /\ ledger' = ledger + (to - stock.quantity)
          /\ crossed' = IF \E d \in Desks : desk[d].at = "scan"
                        THEN crossed \cup {"stock"} ELSE crossed
      BY <1>7, AdjustDjangoFrame
    <2>2. stock'.quantity = ledger'
      BY <1>2, <1>7, <2>1 DEF StockIsAccounted
    <2>3. stock'.risky = Low(stock'.quantity)
      BY <2>1
    <2>4. \A d \in Desks : desk[d].at # "stock"
      BY <2>1 DEF DesksFit, Django, FastAPI
    <2>5. StockIsAsRead'
      BY <2>1, <2>4 DEF StockIsAsRead
    <2> QED
      BY <2>2, <2>3, <2>5 DEF StockIsAccounted, Low
  <1>8. ASSUME NEW d \in Desks, NEW w, Offered(w), Scanned(d, w) PROVE StockIsAsRead' /\ StockIsAccounted'
    <2>1. /\ Ends(d) /\ desk[d].at = "scan" /\ ledger' = ledger
          /\ stock'.quantity = stock.quantity
          /\ stock'.risky = IF Low(desk[d].quantity) # desk[d].risky
                            THEN Low(desk[d].quantity) ELSE stock.risky
          /\ crossed' = IF Others(d, {"scan", "stock"}) THEN crossed \cup {"stock"} ELSE crossed
      BY <1>8, ScannedFrame
    <2>2. (Django \/ "stock" \notin crossed)' => stock'.quantity = ledger'
      BY <1>1, <2>1 DEF StockIsAccounted, Django
    <2>3. ASSUME "stock" \notin crossed' PROVE stock'.risky = Low(stock'.quantity)
      <3>1. /\ stock.risky = Low(stock.quantity)
            /\ desk[d].quantity = stock.quantity /\ desk[d].risky = stock.risky
        BY <1>1, <2>1, <2>3 DEF StockIsAccounted, StockIsAsRead
      <3>2. stock'.risky = stock.risky
        BY <2>1, <3>1
      <3> QED
        BY <2>1, <3>1, <3>2
    <2>4. StockIsAsRead'
      BY <1>6, <2>1
    <2> QED
      BY <2>2, <2>3, <2>4 DEF StockIsAccounted, Low
  <1>9. ASSUME NEW d \in Desks, ChangeStockWrites(d) PROVE StockIsAsRead' /\ StockIsAccounted'
    <2>1. /\ Ends(d) /\ desk[d].at = "stock"
          /\ stock'.quantity = IF desk[d].to # desk[d].quantity THEN desk[d].to ELSE stock.quantity
          /\ stock'.risky = IF Low(desk[d].to) # desk[d].risky THEN Low(desk[d].to) ELSE stock.risky
          /\ ledger' = IF desk[d].sets THEN desk[d].to ELSE ledger + (desk[d].to - desk[d].quantity)
          /\ crossed' = IF Others(d, {"scan", "stock"}) THEN crossed \cup {"stock"} ELSE crossed
      BY <1>9, ChangeStockFrame
    <2>2. ~Django'
      BY <1>1, <2>1 DEF DesksFit, Django, FastAPI
    <2>3. ASSUME "stock" \notin crossed'
          PROVE  stock'.quantity = ledger' /\ stock'.risky = Low(stock'.quantity)
      <3>1. /\ stock.quantity = ledger /\ stock.risky = Low(stock.quantity)
            /\ desk[d].quantity = stock.quantity /\ desk[d].risky = stock.risky
        BY <1>1, <2>1, <2>3 DEF StockIsAccounted, StockIsAsRead
      <3>2. desk[d].to \in Int
        BY DEF RowsFit
      <3>3. stock'.quantity = desk[d].to
        BY <2>1, <3>1
      <3>4. ledger' = desk[d].to
        BY <1>2, <2>1, <3>1, <3>2
      <3>5. stock'.risky = Low(desk[d].to)
        BY <2>1, <3>1
      <3> QED
        BY <3>3, <3>4, <3>5
    <2>4. StockIsAsRead'
      BY <1>6, <2>1
    <2> QED
      BY <2>2, <2>3, <2>4 DEF StockIsAccounted, Low
  <1>10. CASE StockChanging
    BY <1>7, <1>8, <1>9, <1>10, StockCases
  <1>11. CASE Reading
    BY <1>3, <1>4, <1>5, <1>11 DEF Reading
  <1>12. CASE Generating
    BY <1>3, <1>4, <1>12 DEF Generating
  <1>13. CASE Showing
    BY <1>3, <1>4, <1>13 DEF Showing
  <1>14. ASSUME NEW d \in Desks, Editing(d) \/ Accepting(d) \/ RejectWrites(d)
         PROVE  UNCHANGED <<stock, ledger>> /\ Ends(d)
    BY <1>14, EditsFrame, AcceptsFrame, RejectsFrame
  <1>15. ASSUME NEW c \in Recs, RejectDjango(c)
         PROVE  UNCHANGED <<stock, ledger, desk>>
    BY <1>15, RejectDjangoFrame
  <1> QED
    BY <1>3, <1>4, <1>10, <1>11, <1>12, <1>13, <1>14, <1>15, StepCases

(***************************************************************************)
(* Types.  Frames first: what rows and promotions hold after a step.       *)
(***************************************************************************)
RecHolds(c, k, w) == rec'[c].kind = k /\ rec'[c].window = w

LEMMA Contents ==
  ASSUME RowsFit, NEW c \in Recs, NEW st, NEW v, NEW w
  PROVE  /\ rec' = [rec EXCEPT ![c].status = st, ![c].version = v]
              => RecHolds(c, rec[c].kind, rec[c].window)
         /\ rec' = [rec EXCEPT ![c].status = st, ![c].version = v, ![c].window = w]
              => RecHolds(c, rec[c].kind, w)
         /\ rec' = [rec EXCEPT ![c].window = w, ![c].status = st, ![c].version = v]
              => RecHolds(c, rec[c].kind, w)
  <1>1. PICK k, s, n, u : rec[c] = [kind |-> k, status |-> s, version |-> n, window |-> u]
    BY DEF RowsFit
  <1>2. rec[c].kind = k /\ rec[c].window = u
    BY <1>1
  <1>3. ASSUME rec' = [rec EXCEPT ![c].status = st, ![c].version = v]
        PROVE  RecHolds(c, rec[c].kind, rec[c].window)
    <2>1. rec'[c] = [[kind |-> k, status |-> s, version |-> n, window |-> u]
                     EXCEPT !.status = st, !.version = v]
      BY <1>1, <1>3 DEF RowsFit
    <2> QED
      BY <1>2, <2>1 DEF RecHolds
  <1>4. ASSUME rec' = [rec EXCEPT ![c].status = st, ![c].version = v, ![c].window = w]
        PROVE  RecHolds(c, rec[c].kind, w)
    <2>1. rec'[c] = [[kind |-> k, status |-> s, version |-> n, window |-> u]
                     EXCEPT !.status = st, !.version = v, !.window = w]
      BY <1>1, <1>4 DEF RowsFit
    <2> QED
      BY <1>2, <2>1 DEF RecHolds
  <1>5. ASSUME rec' = [rec EXCEPT ![c].window = w, ![c].status = st, ![c].version = v]
        PROVE  RecHolds(c, rec[c].kind, w)
    <2>1. rec'[c] = [[kind |-> k, status |-> s, version |-> n, window |-> u]
                     EXCEPT !.window = w, !.status = st, !.version = v]
      BY <1>1, <1>5 DEF RowsFit
    <2> QED
      BY <1>2, <2>1 DEF RecHolds
  <1> QED
    BY <1>3, <1>4, <1>5

RecTyped(c) == rec[c].kind \in Kinds /\ Window(rec[c].window)

(* What a rejection has read it may write. *)
RejectsTyped == \A d \in Desks : desk[d].at = "reject" => Window(desk[d].row.window)

LEMMA NextRejectsTyped ==
  ASSUME RowsFit, DesksFit, RejectsTyped, \A c \in Recs : RecTyped(c), [Next]_vars
  PROVE  RejectsTyped'
  <1>1. \A w : Window(w) => Window(w)'
    BY DEF Window
  <1>2. CASE UNCHANGED desk
    BY <1>1, <1>2 DEF RejectsTyped
  <1>3. ASSUME NEW d \in Desks, Ends(d) PROVE RejectsTyped'
    BY <1>1, <1>3, EndsFrame, IdleFields DEF RejectsTyped
  <1>4. ASSUME NEW d \in Desks, ReadingStarts(d) PROVE RejectsTyped'
    <2>1. \A e \in Desks \ {d} : desk'[e] = desk[e]
      BY <1>4, ReadingFrame
    <2>2. desk'[d].at = "reject" => desk'[d].rec \in Recs /\ desk'[d].row = rec[desk'[d].rec]
      BY <1>4, ReadingFrame
    <2>3. desk'[d].at = "reject" => Window(desk'[d].row.window)
      BY <2>2 DEF RecTyped
    <2> QED
      BY <1>1, <2>1, <2>3 DEF RejectsTyped, Window
  <1> QED
    BY <1>2, <1>3, <1>4, Steps DEF DeskStep

LEMMA NextRecTyped ==
  ASSUME RowsFit, DesksFit, RejectsTyped, now \in 0 .. MaxTime, [Next]_vars, NEW c \in Recs, RecTyped(c)
  PROVE  RecTyped(c)'
  <1>1. ASSUME rec'[c] = rec[c] PROVE RecTyped(c)'
    BY <1>1 DEF RecTyped, Window
  <1>2. ASSUME NEW w, Window(w), RecHolds(c, rec[c].kind, w) PROVE RecTyped(c)'
    BY <1>2 DEF RecTyped, RecHolds, Window
  <1>3. \A w \in EditedTo \cup {NoWindow} : Window(w)
    BY PromotionsConstants DEF Window
  <1>4. CASE UNCHANGED rec
    BY <1>1, <1>4
  <1>5. CASE Inserted
    <2>0. PICK x \in Recs, kind \in Kinds : \E w :
            /\ Offered(w)
            /\ rec' = [rec EXCEPT ![x] =
                 [kind |-> kind, status |-> "PENDING", version |-> 1, window |-> w]]
      BY <1>5 DEF Inserted
    <2>1. PICK w :
            /\ Offered(w)
            /\ rec' = [rec EXCEPT ![x] =
                 [kind |-> kind, status |-> "PENDING", version |-> 1, window |-> w]]
      BY <2>0
    <2>2. CASE x = c
      BY <2>1, <2>2 DEF RowsFit, RecTyped, Offered, Window
    <2>3. CASE x # c
      BY <1>1, <2>1, <2>3 DEF RowsFit
    <2> QED
      BY <2>2, <2>3
  <1>6. ASSUME NEW d \in Desks, Editing(d) PROVE RecTyped(c)'
    <2>1. CASE c = desk[d].rec
      <3>1. PICK w \in EditedTo \cup {NoWindow} : Edits(d, w)
        BY <1>6 DEF Editing
      <3>2. rec' = [rec EXCEPT ![c].window = w, ![c].status = "EDITED", ![c].version = rec[c].version + 1]
        BY <2>1, <3>1 DEF Edits, Edited
      <3> QED
        BY <1>2, <1>3, <3>2, Contents
    <2>2. CASE c # desk[d].rec
      BY <1>1, <1>6, <2>2, EditsFrame
    <2> QED
      BY <2>1, <2>2
  <1>7. ASSUME NEW d \in Desks, Accepting(d) PROVE RecTyped(c)'
    <2>1. CASE c = desk[d].rec
      <3>1. PICK w \in EditedTo \cup {rec[c].window}, status \in {"ACTIVE", "SCHEDULED"} :
              Accepts(d, w, status)
        BY <1>7, <2>1 DEF Accepting
      <3>2. rec' = [rec EXCEPT ![c].status = "ACCEPTED", ![c].version = rec[c].version + 1, ![c].window = w]
        BY <2>1, <3>1 DEF Accepts
      <3>3. Window(w)
        BY <1>3 DEF RecTyped
      <3> QED
        BY <1>2, <3>2, <3>3, Contents
    <2>2. CASE c # desk[d].rec
      <3>1. \A x \in Recs \ {desk[d].rec} : rec'[x] = rec[x]
        BY <1>7, AcceptsFrame
      <3> QED
        BY <1>1, <2>2, <3>1
    <2> QED
      BY <2>1, <2>2
  <1>8. ASSUME NEW d \in Desks, RejectWrites(d) PROVE RecTyped(c)'
    <2>1. CASE c = desk[d].rec
      <3>1. PICK v : v = desk[d].row.version + 1
        OBVIOUS
      <3>2. PICK w \in {rec[c].window, desk[d].row.window} :
              rec' = [rec EXCEPT ![c].status = "REJECTED", ![c].version = v, ![c].window = w]
        BY <1>8, <2>1, <3>1 DEF RejectWrites
      <3>3. RecHolds(c, rec[c].kind, w)
        BY <3>2, Contents
      <3>4. Window(w)
        BY <1>8 DEF RecTyped, RejectsTyped, RejectWrites
      <3> QED
        BY <1>2, <3>3, <3>4
    <2>2. CASE c # desk[d].rec
      BY <1>1, <1>8, <2>2, RejectsFrame
    <2> QED
      BY <2>1, <2>2
  <1>9. ASSUME NEW x \in Recs, RejectDjango(x) PROVE RecTyped(c)'
    <2>1. CASE c = x
      <3>1. rec' = [rec EXCEPT ![c].status = "REJECTED", ![c].version = rec[c].version + 1]
        BY <1>9, <2>1 DEF RejectDjango
      <3>2. RecHolds(c, rec[c].kind, rec[c].window)
        BY <3>1, Contents
      <3> QED
        BY <1>2, <3>2 DEF RecTyped
    <2>2. CASE c # x
      BY <1>1, <1>9, <2>2, RejectDjangoFrame
    <2> QED
      BY <2>1, <2>2
  <1> QED
    BY <1>4, <1>5, <1>6, <1>7, <1>8, <1>9, Steps DEF RecStep

PromoTyped(c) ==
  /\ promo[c].status \in {"none"} \cup PromotionStatuses
  /\ Window(promo[c].window)
  /\ promo[c].window = NoWindow <=> promo[c].status = "none"

LEMMA NextPromoTyped ==
  ASSUME RowsFit, DesksFit, [Next]_vars, NEW c \in Recs, RecTyped(c), PromoTyped(c)
  PROVE  PromoTyped(c)'
  <1>1. ASSUME promo'[c] = promo[c] PROVE PromoTyped(c)'
    BY <1>1 DEF PromoTyped, Window
  <1>2. ASSUME NEW status \in PromotionStatuses, NEW w, Window(w), w # NoWindow,
               promo' = [promo EXCEPT ![c] = [status |-> status, window |-> w]]
        PROVE  PromoTyped(c)'
    <2>1. promo'[c].status = status /\ promo'[c].window = w
      BY <1>2 DEF RowsFit
    <2>2. status # "none"
      BY DEF PromotionStatuses
    <2> QED
      BY <1>2, <2>1, <2>2 DEF PromoTyped, Window
  <1>3. \A w \in EditedTo : Window(w) /\ w # NoWindow
    BY PromotionsConstants DEF Window
  <1>4. CASE Showing
    <2>1. CASE UpdatePromotionStates
      <3>1. PICK s, u : promo[c] = [status |-> s, window |-> u]
        BY DEF RowsFit
      <3>2. promo'[c] = [[status |-> s, window |-> u] EXCEPT !.status =
                           IF Started(c) THEN "ACTIVE" ELSE IF Over(c) THEN "ENDED" ELSE s]
        BY <2>1, <3>1 DEF UpdatePromotionStates
      <3>3. promo'[c].window = u /\ promo[c].window = u /\ promo[c].status = s
            /\ promo'[c].status = IF Started(c) THEN "ACTIVE" ELSE IF Over(c) THEN "ENDED" ELSE s
        BY <3>1, <3>2
      <3>4. Started(c) \/ Over(c) => s # "none"
        BY <3>3 DEF Started, Over
      <3> QED
        BY <3>3, <3>4 DEF PromoTyped, PromotionStatuses, Window
    <2>2. ASSUME NEW x \in Recs, NEW status \in PromotionStatuses, NEW w \in EditedTo,
                 PatchPromotion(x, status, w)
          PROVE  PromoTyped(c)'
      <3>1. promo' = [promo EXCEPT ![x] = [status |-> status, window |-> w]]
        BY <2>2 DEF PatchPromotion
      <3>2. CASE x = c
        BY <1>2, <1>3, <3>1, <3>2
      <3>3. CASE x # c
        BY <1>1, <3>1, <3>3 DEF RowsFit
      <3> QED
        BY <3>2, <3>3
    <2> QED
      BY <1>4, <2>1, <2>2 DEF Showing
  <1>5. ASSUME NEW d \in Desks, Accepting(d) PROVE PromoTyped(c)'
    <2>1. CASE c = desk[d].rec
      <3>1. PICK w \in EditedTo \cup {rec[c].window}, status \in {"ACTIVE", "SCHEDULED"} :
              w # NoWindow /\ Accepts(d, w, status)
        BY <1>5, <2>1 DEF Accepting
      <3>2. promo' = [promo EXCEPT ![c] = [status |-> status, window |-> w]]
        BY <2>1, <3>1 DEF Accepts
      <3>3. Window(w) /\ status \in PromotionStatuses
        BY <1>3 DEF RecTyped, PromotionStatuses
      <3> QED
        BY <1>2, <3>1, <3>2, <3>3
    <2>2. CASE c # desk[d].rec
      <3>1. \A x \in Recs \ {desk[d].rec} : promo'[x] = promo[x]
        BY <1>5, AcceptsFrame
      <3> QED
        BY <1>1, <2>2, <3>1
    <2> QED
      BY <2>1, <2>2
  <1>6. ASSUME NEW d \in Desks, Editing(d) \/ RejectWrites(d) PROVE UNCHANGED promo
    BY <1>6, EditsFrame, RejectsFrame
  <1>7. ASSUME NEW x \in Recs, RejectDjango(x) PROVE UNCHANGED promo
    BY <1>7, RejectDjangoFrame
  <1>8. CASE StockChanging
    <2>1. UNCHANGED promo
      BY <1>8, StockCases, ScannedFrame, ChangeStockFrame, AdjustDjangoFrame
    <2> QED
      BY <1>1, <2>1
  <1> QED
    BY <1>1, <1>4, <1>5, <1>6, <1>7, <1>8, StepCases DEF Reading, Generating

LEMMA NextQuantitiesFit ==
  ASSUME RowsFit, DesksFit, QuantitiesFit, [Next]_vars
  PROVE  QuantitiesFit'
  <1>1. CASE UNCHANGED desk
    BY <1>1 DEF QuantitiesFit
  <1>2. ASSUME NEW d \in Desks, Ends(d) PROVE QuantitiesFit'
    BY <1>2, EndsFrame, IdleFields DEF QuantitiesFit
  <1>3. ASSUME NEW d \in Desks, ReadingStarts(d) PROVE QuantitiesFit'
    <2>1. \A e \in Desks \ {d} : desk'[e] = desk[e]
      BY <1>3, ReadingFrame
    <2>2. desk'[d].at = "stock" => desk'[d].to \in 0 .. MaxQuantity
      <3>1. ASSUME NEW what, Starts(d, what), what.at = "stock" => what.to \in 0 .. MaxQuantity
            PROVE  desk'[d].at = "stock" => desk'[d].to \in 0 .. MaxQuantity
        BY <3>1, StartsFrame
      <3>2. /\ SaleJob.at # "stock" /\ \A found \in BOOLEAN : ScanJob(found).at # "stock"
            /\ \A to \in 0 .. MaxQuantity, sets \in BOOLEAN : StockJob(to, sets).to = to
            /\ \A at \in {"page", "reject"}, c \in Recs : RowJob(at, c).at # "stock"
        BY JobFields
      <3> QED
        BY <1>3, <3>1, <3>2 DEF ReadingStarts
    <2> QED
      BY <2>1, <2>2 DEF QuantitiesFit
  <1> QED
    BY <1>1, <1>2, <1>3, Steps DEF DeskStep

LEMMA NextStockTyped ==
  ASSUME RowsFit, DesksFit, QuantitiesFit, stock.quantity \in 0 .. MaxQuantity, [Next]_vars
  PROVE  stock'.quantity \in 0 .. MaxQuantity
  <1>1. CASE UNCHANGED stock
    BY <1>1
  <1>2. ASSUME NEW d \in Desks, NEW w, Offered(w), Scanned(d, w)
        PROVE  stock'.quantity \in 0 .. MaxQuantity
    BY <1>2, ScannedFrame
  <1>3. ASSUME NEW d \in Desks, ChangeStockWrites(d) PROVE stock'.quantity \in 0 .. MaxQuantity
    BY <1>3, ChangeStockFrame DEF QuantitiesFit
  <1>4. ASSUME NEW to \in -1 .. MaxQuantity, AdjustDjango(to) PROVE stock'.quantity \in 0 .. MaxQuantity
    <2>1. to \in 0 .. MaxQuantity
      BY <1>4, PromotionsConstants DEF AdjustDjango
    <2> QED
      BY <1>4, <2>1, AdjustDjangoFrame
  <1>5. CASE StockChanging
    BY <1>2, <1>3, <1>4, <1>5, SalesAreOffered DEF StockChanging, ScanWrites, ScanWritesDjango
  <1>6. ASSUME NEW d \in Desks, Editing(d) \/ Accepting(d) \/ RejectWrites(d) PROVE UNCHANGED stock
    BY <1>6, EditsFrame, AcceptsFrame, RejectsFrame
  <1>7. ASSUME NEW x \in Recs, RejectDjango(x) PROVE UNCHANGED stock
    BY <1>7, RejectDjangoFrame
  <1> QED
    BY <1>1, <1>5, <1>6, <1>7, StepCases DEF Reading, Generating, Showing

LEMMA NextCrossedTyped ==
  ASSUME RowsFit, DesksFit, crossed \subseteq Recs \cup {"stock"}, [Next]_vars
  PROVE  crossed' \subseteq Recs \cup {"stock"}
  <1>1. ASSUME NEW d \in Desks, Editing(d) \/ Accepting(d) \/ RejectWrites(d)
        PROVE  crossed' \subseteq Recs \cup {"stock"}
    <2>1. PICK c : c = desk[d].rec
      OBVIOUS
    <2>2. c \in Recs /\ crossed' \in {crossed, crossed \cup {c}}
      <3>1. CASE Editing(d)
        BY <2>1, <3>1, EditsFrame
      <3>2. CASE Accepting(d)
        BY <2>1, <3>2, AcceptsFrame
      <3>3. CASE RejectWrites(d)
        BY <2>1, <3>3, RejectsFrame
      <3> QED
        BY <1>1, <3>1, <3>2, <3>3
    <2> QED
      BY <2>2
  <1>2. ASSUME NEW x \in Recs, RejectDjango(x) PROVE UNCHANGED crossed
    BY <1>2, RejectDjangoFrame
  <1>3. ASSUME NEW d \in Desks, NEW w, Offered(w), Scanned(d, w) PROVE crossed' \subseteq crossed \cup {"stock"}
    BY <1>3, ScannedFrame
  <1>4. ASSUME NEW d \in Desks, ChangeStockWrites(d) PROVE crossed' \subseteq crossed \cup {"stock"}
    BY <1>4, ChangeStockFrame
  <1>5. ASSUME NEW to \in Int, AdjustDjango(to) PROVE crossed' \subseteq crossed \cup {"stock"}
    BY <1>5, AdjustDjangoFrame
  <1>6. CASE StockChanging
    BY <1>3, <1>4, <1>5, <1>6, StockCases
  <1> QED
    BY <1>1, <1>2, <1>6, StepCases DEF Reading, Generating, Showing

(***************************************************************************)
(* The invariant.                                                          *)
(***************************************************************************)
LEMMA InitInv == Init => PromotionsInv
  <1> SUFFICES ASSUME PromotionsInit PROVE PromotionsInv
    BY DEF Init
  <1>1. /\ rec = [c \in Recs |-> NoRow] /\ promo = [c \in Recs |-> NoPromotion]
        /\ desk = [d \in Desks |-> Idle] /\ crossed = {}
    BY DEF PromotionsInit
  <1>2. PICK q \in 0 .. MaxQuantity : stock = [quantity |-> q, risky |-> Low(q)] /\ ledger = q
    BY DEF PromotionsInit
  <1>3. q \in Int /\ Low(q) \in BOOLEAN
    BY PromotionsConstants, LowType
  <1>4. \A d \in Desks : desk[d].at = "idle" /\ desk[d].quantity = 0 /\ desk[d].to = 0
    BY <1>1, IdleFields
  <1>5. \A c \in Recs : /\ rec[c] = NoRow /\ promo[c] = NoPromotion
                         /\ rec[c].status = "none" /\ promo[c].status = "none"
    BY <1>1 DEF NoRow, NoPromotion
  <1>6. RowsFit
    <2>1. stock \in [quantity : Int, risky : BOOLEAN] /\ ledger \in Int
      BY <1>2, <1>3
    <2>2. NoRow = [kind |-> NoRow.kind, status |-> NoRow.status,
                   version |-> NoRow.version, window |-> NoRow.window] /\ NoRow.version \in Nat
      BY DEF NoRow
    <2>3. NoPromotion = [status |-> NoPromotion.status, window |-> NoPromotion.window]
      BY DEF NoPromotion
    <2> QED
      BY <1>1, <1>4, <1>5, <2>1, <2>2, <2>3 DEF RowsFit
  <1>7. DesksFit /\ PagesAreOlder /\ RejectsAreCrossed /\ StockIsAsRead /\ VersionNamesContent
    BY <1>4 DEF DesksFit, PagesAreOlder, RejectsAreCrossed, StockIsAsRead, VersionNamesContent
  <1>8. PromotionsAreAccepted
    BY <1>5 DEF PromotionsAreAccepted
  <1>9. StockIsAccounted
    BY <1>2 DEF StockIsAccounted
  <1> QED
    BY <1>6, <1>7, <1>8, <1>9 DEF PromotionsInv

LEMMA NextInv == PromotionsInv /\ [Next]_vars => PromotionsInv'
  <1> SUFFICES ASSUME PromotionsInv, [Next]_vars PROVE PromotionsInv'
    OBVIOUS
  <1>1. RowsFit /\ DesksFit /\ PagesAreOlder /\ RejectsAreCrossed /\ StockIsAsRead
    BY DEF PromotionsInv
  <1>2. PromotionsAreAccepted /\ VersionNamesContent /\ StockIsAccounted
    BY DEF PromotionsInv
  <1> QED
    BY <1>1, <1>2, NextRowsFit, NextDesksFit, NextShown, NextRejectsAreCrossed,
       NextPromotionsAreAccepted, Accounted DEF PromotionsInv

LEMMA InvHolds == Spec => []PromotionsInv
  BY InitInv, NextInv, PTL DEF Spec

(***************************************************************************)
(* The policy.  Arithmetic first.                                          *)
(***************************************************************************)
(* Quotient and remainder.                                                 *)
LEMMA DivMod ==
  ASSUME NEW x \in Int, NEW t \in Nat \ {0}
  PROVE  /\ x \div t \in Int /\ x % t \in 0 .. t - 1
         /\ x = t * (x \div t) + (x % t)
  OBVIOUS

LEMMA DivNat ==
  ASSUME NEW x \in Nat, NEW t \in Nat \ {0}
  PROVE  x \div t \in Nat
  OBVIOUS

LEMMA MaxOfOne == ASSUME NEW v \in Int PROVE Max({v}) = v
  BY DEF Max

LEMMA MaxOfTwo == ASSUME NEW a \in Int, NEW b \in Int PROVE Max({a, b}) = IF a >= b THEN a ELSE b
  BY DEF Max
LEMMA MinOfTwo == ASSUME NEW a \in Int, NEW b \in Int PROVE Min({a, b}) = IF a <= b THEN a ELSE b
  BY DEF Min

(* A product grows with its factor.                                        *)
LEMMA Grows ==
  ASSUME NEW a \in Nat, NEW b \in Nat, NEW c \in Nat, b <= c
  PROVE  a * b \in Nat /\ a * c \in Nat /\ a * b <= a * c
  OBVIOUS

(* The minutes of a refund are the least number that covers its share: the *)
(* quotient rounds up, and never exceeds the minutes of the order.         *)
LEMMA ProratedIsProportional ==
  ASSUME NEW n \in Nat, NEW a \in Nat, NEW r \in Nat, r <= a
  PROVE  /\ Prorated(n, a, r) \in Nat
         /\ Prorated(n, a, r) * a >= n * r
         /\ Prorated(n, a, r) > 0 => (Prorated(n, a, r) - 1) * a < n * r
  <1>1. CASE n <= 0 \/ a <= 0 \/ r <= 0
    <2>1. Prorated(n, a, r) = 0
      BY <1>1 DEF Prorated
    <2>2. n * r = 0 /\ 0 * a = 0
      <3>1. n = 0 \/ r = 0
        BY <1>1
      <3> QED
        BY <3>1
    <2> QED
      BY <2>1, <2>2
  <1>2. CASE n > 0 /\ a > 0 /\ r > 0
    <2>1. PICK x \in Nat : x = n * r
      BY Grows
    <2>2. PICK y \in Nat : y = x + a - 1
      BY <1>2
    <2>3. PICK q \in Nat, m \in 0 .. a - 1 : q = y \div a /\ x + a - 1 = (a * q) + m
      <3>1. y \div a \in Nat /\ y % a \in 0 .. a - 1 /\ y = (a * (y \div a)) + (y % a)
        BY <1>2, DivMod, DivNat
      <3> QED
        BY <2>2, <3>1
    <2>4. q <= n
      <3> SUFFICES ASSUME n + 1 <= q PROVE FALSE
        BY <2>3
      <3>1. a * (n + 1) <= a * q
        BY <2>3, Grows
      <3>2. n * r <= n * a
        BY Grows
      <3>3. a * (n + 1) = (n * a) + a
        OBVIOUS
      <3>4. n * a \in Nat /\ a * q \in Nat
        BY <2>3, Grows
      <3> QED
        BY <2>1, <2>3, <3>1, <3>2, <3>3, <3>4
    <2>5. Prorated(n, a, r) = q
      <3>1. Prorated(n, a, r) = Min({n, q})
        BY <1>2, <2>1, <2>2, <2>3 DEF Prorated
      <3> QED
        BY <2>3, <2>4, <3>1, MinOfTwo
    <2>6. q * a = a * q /\ (q - 1) * a = (a * q) - a /\ a * q \in Nat
      BY <2>3
    <2> QED
      BY <2>1, <2>3, <2>5, <2>6
  <1> QED
    BY <1>1, <1>2

(* A moment lies before the end of its business day.                       *)
LEMMA EndOfBusinessDay ==
  ASSUME cutoff \in 0 .. DayLength - 1, offset \in Int, NEW t \in Int
  PROVE  BusinessDate(t) \in Int /\ t < BusinessDayEnd(BusinessDate(t))
  <1> DEFINE local == t + offset
  <1>1. PICK q, m : q = local \div DayLength /\ m = local % DayLength
    OBVIOUS
  <1>2. DayLength \in Nat \ {0}
    BY PassPolicyConstants
  <1>3. q \in Int /\ m \in 0 .. DayLength - 1 /\ local = (DayLength * q) + m
    BY <1>1, <1>2, DivMod
  <1>4. BusinessDate(t) = q - (IF m < cutoff THEN 1 ELSE 0)
    BY <1>1 DEF BusinessDate
  <1>5. PICK d \in Int : d = BusinessDate(t)
    BY <1>3, <1>4
  <1>6. CASE m < cutoff
    <2>1. (d + 1) * DayLength = DayLength * q
      BY <1>2, <1>3, <1>4, <1>5, <1>6
    <2>2. DayLength * q \in Int
      BY <1>2, <1>3
    <2> QED
      BY <1>2, <1>3, <1>5, <1>6, <2>1, <2>2 DEF BusinessDayEnd
  <1>7. CASE ~(m < cutoff)
    <2>1. (d + 1) * DayLength = (DayLength * q) + DayLength
      BY <1>2, <1>3, <1>4, <1>5, <1>7
    <2>2. DayLength * q \in Int
      BY <1>2, <1>3
    <2> QED
      BY <1>2, <1>3, <1>5, <1>7, <2>1, <2>2 DEF BusinessDayEnd
  <1> QED
    BY <1>6, <1>7

(* A set of naturals has a least one.                                      *)
LEMMA LeastNat ==
  ASSUME NEW T \in SUBSET Nat, T # {}
  PROVE  \E n \in T : \A m \in T : n <= m
  <1>1. IsWellFoundedOn(OpToRel(<, Nat), Nat)
    BY NatLessThanWellFounded
  <1>2. PICK n \in T : \A m \in T : ~(<<m, n>> \in OpToRel(<, Nat))
    BY <1>1, WFMin
  <1>3. \A m \in T : ~(m < n)
    BY <1>2 DEF OpToRel
  <1> QED
    BY <1>3

(* A finite set of integers has a maximum: among the subsets that have     *)
(* none, one of the least size would get one from a smaller subset.        *)
LEMMA FiniteMax ==
  ASSUME NEW S \in SUBSET Int, IsFiniteSet(S), S # {}
  PROVE  Max(S) \in S /\ \A y \in S : Max(S) >= y
  <1> DEFINE HasMax(u) == \E x \in u : \A y \in u : x >= y
             Bad == {n \in Nat : \E u \in SUBSET S : u # {} /\ Cardinality(u) = n /\ ~HasMax(u)}
  <1>1. \A u \in SUBSET S : IsFiniteSet(u) /\ Cardinality(u) \in Nat
    BY FS_Subset, FS_CardinalityType
  <1>2. ASSUME Bad # {} PROVE FALSE
    <2>1. PICK n \in Bad : \A m \in Bad : n <= m
      BY <1>2, LeastNat
    <2>2. PICK u \in SUBSET S : u # {} /\ Cardinality(u) = n /\ ~HasMax(u)
      OBVIOUS
    <2>3. PICK t \in u : TRUE
      BY <2>2
    <2>4. Cardinality(u \ {t}) \in Nat /\ Cardinality(u \ {t}) < n
      BY <1>1, <2>2, FS_RemoveElement
    <2>5. HasMax(u \ {t}) \/ u = {t}
      <3>1. u \ {t} \in SUBSET S
        OBVIOUS
      <3>2. Cardinality(u \ {t}) \notin Bad
        <4> HIDE DEF Bad
        <4>1. n \in Nat
          BY DEF Bad
        <4> QED
          BY <2>1, <2>4, <4>1
      <3> QED
        BY <2>4, <3>1, <3>2
    <2>6. CASE u = {t}
      BY <2>2, <2>6
    <2>7. CASE HasMax(u \ {t})
      <3>1. PICK x \in u \ {t} : \A y \in u \ {t} : x >= y
        BY <2>7
      <3>2. x \in Int /\ t \in Int /\ u \subseteq Int
        OBVIOUS
      <3>3. CASE x >= t
        BY <2>2, <3>1, <3>3
      <3>4. CASE t > x
        <4>1. \A y \in u : t >= y
          BY <3>1, <3>2, <3>4
        <4> QED
          BY <2>2, <4>1
      <3> QED
        BY <3>2, <3>3, <3>4
    <2> QED
      BY <2>5, <2>6, <2>7
  <1>3. HasMax(S)
    <2>1. Cardinality(S) \in Nat /\ Cardinality(S) \notin Bad
      BY <1>1, <1>2
    <2> QED
      BY <2>1
  <1> QED
    BY <1>3 DEF Max

(* Either backend finds a bonus among finitely many tiers.                 *)
LEMMA BonusType ==
  ASSUME NEW t, Tiers(t), NEW amount \in Nat
  PROVE  Bonus(t, amount) \in Nat
  <1> DEFINE R == Reached(t, amount)
             I == {t[m] : m \in R}
  <1>1. R \subseteq DOMAIN t /\ IsFiniteSet(R) /\ R \subseteq Nat
    BY FS_Subset DEF Reached, Tiers
  <1>2. IsFiniteSet(I) /\ I \subseteq Nat
    <2>1. [m \in R |-> t[m]] \in Surjection(R, I)
      BY DEF Surjection
    <2>2. IsFiniteSet(I)
      BY <1>1, <2>1, FS_Surjection
    <2> QED
      BY <1>1, <2>2 DEF Tiers
  <1>3. Best(t, amount) \in Nat
    <2>1. IsFiniteSet({0} \cup I)
      <3>1. IsFiniteSet(I \cup {0}) /\ {0} \cup I = I \cup {0}
        BY <1>2, FS_AddElement
      <3> QED
        BY <3>1
    <2>2. Max({0} \cup I) \in {0} \cup I
      <3> HIDE DEF I
      <3>1. {0} \cup I \in SUBSET Int
        BY <1>2
      <3> QED
        BY <2>1, <3>1, FiniteMax
    <2> QED
      BY <1>2, <2>2 DEF Best
  <1>4. Highest(t, amount) \in Nat
    <2>1. R # {} => Max(R) \in R
      BY <1>1, FiniteMax
    <2>2. R # {} => t[Max(R)] \in Nat
      BY <1>1, <2>1 DEF Tiers
    <2> QED
      BY <2>2 DEF Highest
  <1> QED
    BY <1>3, <1>4 DEF Bonus

(***************************************************************************)
(* Orders of the day: what they add and what their refunds take.           *)
(***************************************************************************)
LEMMA OneInForce ==
  ASSUME PolicyTypeOK
  PROVE  \E v \in Versions : /\ published = {v} /\ Max(published) = v
                             /\ InForce = policies[v] /\ policies[v] \in Policies
  <1>1. PICK v \in Versions : published = {v}
    BY DEF PolicyTypeOK
  <1>2. Max(published) = v
    BY <1>1, MaxOfOne DEF Versions
  <1> QED
    BY <1>1, <1>2 DEF PolicyTypeOK, InForce

LEMMA MinutesType ==
  ASSUME PolicyTypeOK, NEW first \in BOOLEAN, NEW amount \in Nat
  PROVE  Minutes(first, amount) \in Nat
  <1>1. PICK p \in Policies : InForce = p
    BY OneInForce
  <1>2. p.base \in Nat /\ Tiers(p["first"]) /\ Tiers(p["more"])
    BY PassPolicyConstants
  <1>3. Tiers(TiersOf(p, "first")) /\ Tiers(TiersOf(p, "more"))
    BY <1>2, PassPolicyConstants DEF TiersOf
  <1>4. PICK b \in Nat, c \in Nat : /\ b = Bonus(TiersOf(p, "first"), amount)
                                    /\ c = Bonus(TiersOf(p, "more"), amount)
    BY <1>3, BonusType
  <1>5. Minutes(first, amount) = IF first THEN p.base + b ELSE c
    BY <1>1, <1>4 DEF Minutes
  <1> QED
    BY <1>2, <1>5

(* Whoever leaves the store, its policies and the publications alone, and  *)
(* writes an order and the pass.                                           *)
LEMMA PolicyFits ==
  ASSUME PolicyInv, backend' = backend, UNCHANGED <<cutoff, offset, slot>>,
         UNCHANGED <<policies, published, staff>>,
         order' \in [Orders -> [amount : Nat, minutes : Nat, refunded : Nat, reclaimed : Nat]],
         \A e \in Orders : order'[e].refunded <= order'[e].amount,
         pass' \in [day : Int, expires : Int, daypass : BOOLEAN],
         ReclaimedIsProrated', DayPassReachesEnd'
  PROVE  PolicyInv'
  <1>1. PolicyTypeOK'
    BY DEF PolicyInv, PolicyTypeOK, InForce
  <1>2. PublishesPolicies'
    BY DEF PolicyInv, PublishesPolicies
  <1> QED
    BY <1>1, <1>2 DEF PolicyInv

LEMMA PlacesOrder ==
  ASSUME PolicyInv, backend' = backend,
         NEW e \in Orders, NEW amount \in Amounts, NEW paid \in Int, PlaceOrder(e, amount, paid)
  PROVE  PolicyInv'
  <1>1. PICK first \in BOOLEAN : first = (pass = NoPass)
    OBVIOUS
  <1>2. amount \in Nat /\ PolicyTypeOK
    BY PassPolicyConstants DEF PolicyInv
  <1>3. PICK minutes \in Nat : minutes = Minutes(first, amount)
    BY <1>2, MinutesType
  <1>4. /\ order' = [order EXCEPT ![e] = [NoOrder EXCEPT !.amount = amount, !.minutes = minutes]]
        /\ pass' = IF first
                   THEN [day |-> BusinessDate(paid), expires |-> slot + minutes, daypass |-> FALSE]
                   ELSE [pass EXCEPT !.expires = Max({@, slot}) + minutes]
        /\ UNCHANGED <<cutoff, offset, slot, policies, published, staff>>
    BY <1>1, <1>3 DEF PlaceOrder
  <1>5. PICK o : o = [NoOrder EXCEPT !.amount = amount, !.minutes = minutes]
    OBVIOUS
  <1>6. /\ order' = [order EXCEPT ![e] = o]
        /\ o = [amount |-> amount, minutes |-> minutes, refunded |-> 0, reclaimed |-> 0]
    BY <1>4, <1>5 DEF NoOrder
  <1>7. o \in [amount : Nat, minutes : Nat, refunded : Nat, reclaimed : Nat] /\ o.refunded <= o.amount
        /\ o.reclaimed = 0 /\ o.refunded = 0
    BY <1>2, <1>6
  <1>8. /\ order' \in [Orders -> [amount : Nat, minutes : Nat, refunded : Nat, reclaimed : Nat]]
        /\ order'[e] = o /\ \A x \in Orders \ {e} : order'[x] = order[x]
    BY <1>2, <1>6, <1>7 DEF PolicyTypeOK
  <1>9. \A x \in Orders : order'[x].refunded <= order'[x].amount
    BY <1>2, <1>7, <1>8 DEF PolicyTypeOK
  <1>10. ReclaimedIsProrated'
    <2>1. Prorated(o.minutes, o.amount, o.refunded) = 0
      BY <1>7 DEF Prorated
    <2> SUFFICES ASSUME NEW x \in Orders
                 PROVE  order'[x].reclaimed =
                          IF FastAPI' THEN Prorated(order'[x].minutes, order'[x].amount, order'[x].refunded)
                          ELSE 0
      BY DEF ReclaimedIsProrated, Prorated
    <2>2. CASE x = e
      BY <1>7, <1>8, <2>1, <2>2
    <2>3. CASE x # e
      BY <1>8, <2>3 DEF PolicyInv, ReclaimedIsProrated, FastAPI
    <2> QED
      BY <2>2, <2>3
  <1>11. cutoff \in 0 .. DayLength - 1 /\ offset \in Int /\ slot \in Int
         /\ pass \in [day : Int, expires : Int, daypass : BOOLEAN]
    BY <1>2, PassPolicyConstants DEF PolicyTypeOK
  <1>12. pass' \in [day : Int, expires : Int, daypass : BOOLEAN] /\ DayPassReachesEnd'
    <2>1. CASE first
      <3>1. BusinessDate(paid) \in Int /\ slot + minutes \in Int
        BY <1>11, EndOfBusinessDay
      <3> QED
        BY <1>4, <2>1, <3>1 DEF DayPassReachesEnd
    <2>2. CASE ~first
      <3>1. PICK x \in Int : x = Max({pass.expires, slot}) + minutes /\ x >= pass.expires
        <4>1. Max({pass.expires, slot}) = IF pass.expires >= slot THEN pass.expires ELSE slot
          BY <1>11, MaxOfTwo
        <4> QED
          BY <1>11, <4>1
      <3>2. pass' = [pass EXCEPT !.expires = x]
        BY <1>4, <2>2, <3>1
      <3>3. pass' \in [day : Int, expires : Int, daypass : BOOLEAN]
            /\ pass'.day = pass.day /\ pass'.expires = x /\ pass'.daypass = pass.daypass
        BY <1>11, <3>2
      <3>4. PICK end \in Int : end = BusinessDayEnd(pass.day) /\ end = BusinessDayEnd(pass.day)'
        <4>1. DayLength \in Nat
          BY PassPolicyConstants
        <4>2. BusinessDayEnd(pass.day) \in Int /\ BusinessDayEnd(pass.day)' = BusinessDayEnd(pass.day)
          BY <1>4, <1>11, <3>3, <4>1 DEF BusinessDayEnd
        <4> QED
          BY <4>2
      <3>5. DayPassReachesEnd'
        BY <1>11, <3>1, <3>3, <3>4 DEF DayPassReachesEnd, PolicyInv
      <3> QED
        BY <3>3, <3>5
    <2> QED
      BY <2>1, <2>2
  <1> QED
    BY <1>4, <1>8, <1>9, <1>10, <1>12, PolicyFits

LEMMA RefundsOrder ==
  ASSUME PolicyInv, backend' = backend,
         NEW e \in Orders, NEW part \in Int, Refund(e, part)
  PROVE  PolicyInv'
  <1>1. /\ PolicyTypeOK
        /\ order[e] \in [amount : Nat, minutes : Nat, refunded : Nat, reclaimed : Nat]
    BY DEF PolicyInv, PolicyTypeOK
  <1>2. PICK a \in Nat, n \in Nat, r \in Nat, c \in Nat :
          order[e] = [amount |-> a, minutes |-> n, refunded |-> r, reclaimed |-> c]
    BY <1>1
  <1>3. /\ order[e].amount = a /\ order[e].minutes = n
        /\ order[e].refunded = r /\ order[e].reclaimed = c
    BY <1>2
  <1>4. r <= a /\ 0 < part /\ r + part \in Nat /\ r + part <= a
    BY <1>1, <1>3 DEF Refund, PolicyTypeOK
  <1>5. PICK p \in Nat, q \in Nat : p = Prorated(n, a, r) /\ q = Prorated(n, a, r + part)
    BY <1>4, ProratedIsProportional
  <1>6. c = IF FastAPI THEN p ELSE 0
    BY <1>3, <1>5 DEF PolicyInv, ReclaimedIsProrated
  <1>7. PICK taken \in Int : taken = IF FastAPI THEN q - p ELSE 0
    BY <1>5
  <1>8. (IF FastAPI THEN Reclaimed(order[e], part) - order[e].reclaimed ELSE 0) = taken
    <2>1. Reclaimed(order[e], part) = c + (q - p)
      BY <1>3, <1>5 DEF Reclaimed
    <2> QED
      BY <1>3, <1>7, <2>1
  <1>9. /\ order' = [order EXCEPT ![e].refunded = @ + part, ![e].reclaimed = @ + taken]
        /\ pass' = [pass EXCEPT !.expires = IF @ <= slot THEN @ ELSE Max({slot, @ - taken}),
                                !.daypass = @ /\ taken = 0]
        /\ UNCHANGED <<cutoff, offset, slot, policies, published, staff>>
    BY <1>8 DEF Refund
  <1>10. PICK d \in Nat : d = c + taken /\ d = IF FastAPI THEN q ELSE 0
    BY <1>5, <1>6, <1>7
  <1>11. order'[e] = [amount |-> a, minutes |-> n, refunded |-> r + part, reclaimed |-> d]
         /\ \A x \in Orders \ {e} : order'[x] = order[x]
    <2>1. PICK v \in Nat : v = r + part
      BY <1>4
    <2>2. order' = [order EXCEPT ![e].refunded = v, ![e].reclaimed = d]
      BY <1>3, <1>9, <1>10, <2>1
    <2>3. order'[e] = [order[e] EXCEPT !.refunded = v, !.reclaimed = d]
      BY <1>1, <2>2 DEF PolicyTypeOK
    <2>4. order'[e] = [[amount |-> a, minutes |-> n, refunded |-> r, reclaimed |-> c]
                         EXCEPT !.refunded = v, !.reclaimed = d]
      BY <1>2, <2>3
    <2>5. order'[e] = [amount |-> a, minutes |-> n, refunded |-> v, reclaimed |-> d]
      BY <2>4
    <2>6. \A x \in Orders \ {e} : order'[x] = order[x]
      BY <1>1, <2>2 DEF PolicyTypeOK
    <2> QED
      BY <2>1, <2>5, <2>6
  <1>12. order'[e] \in [amount : Nat, minutes : Nat, refunded : Nat, reclaimed : Nat]
         /\ order'[e].amount = a /\ order'[e].minutes = n
         /\ order'[e].refunded = r + part /\ order'[e].reclaimed = d
    BY <1>4, <1>11
  <1>13. order' \in [Orders -> [amount : Nat, minutes : Nat, refunded : Nat, reclaimed : Nat]]
    <2>1. order' = [x \in Orders |-> order'[x]]
      BY <1>1, <1>9 DEF PolicyTypeOK
    <2> QED
      BY <1>1, <1>11, <1>12, <2>1 DEF PolicyTypeOK
  <1>14. \A x \in Orders : order'[x].refunded <= order'[x].amount
    BY <1>1, <1>4, <1>11, <1>12 DEF PolicyTypeOK
  <1>15. ReclaimedIsProrated'
    <2> SUFFICES ASSUME NEW x \in Orders
                 PROVE  order'[x].reclaimed =
                          IF FastAPI' THEN Prorated(order'[x].minutes, order'[x].amount, order'[x].refunded)
                          ELSE 0
      BY DEF ReclaimedIsProrated, Prorated
    <2>1. FastAPI' = FastAPI
      BY DEF FastAPI
    <2>2. CASE x = e
      BY <1>5, <1>10, <1>12, <2>1, <2>2
    <2>3. CASE x # e
      BY <1>11, <2>1, <2>3 DEF PolicyInv, ReclaimedIsProrated
    <2> QED
      BY <2>2, <2>3
  <1>16. slot \in Int /\ pass \in [day : Int, expires : Int, daypass : BOOLEAN]
    BY <1>1 DEF PolicyTypeOK
  <1>17. PICK x \in Int : /\ x = IF pass.expires <= slot THEN pass.expires
                                  ELSE Max({slot, pass.expires - taken})
                          /\ taken = 0 => x = pass.expires
    <2>1. pass.expires \in Int /\ pass.expires - taken \in Int
      BY <1>16
    <2>2. Max({slot, pass.expires - taken}) =
            IF slot >= pass.expires - taken THEN slot ELSE pass.expires - taken
      BY <1>16, <2>1, MaxOfTwo
    <2> QED
      BY <1>16, <2>1, <2>2
  <1>18. PICK b \in BOOLEAN : b = (pass.daypass /\ taken = 0)
    OBVIOUS
  <1>19. pass' = [pass EXCEPT !.expires = x, !.daypass = b]
    BY <1>9, <1>17, <1>18
  <1>20. /\ pass' \in [day : Int, expires : Int, daypass : BOOLEAN]
         /\ pass'.day = pass.day /\ pass'.expires = x /\ pass'.daypass = b
    BY <1>16, <1>19
  <1>21. DayPassReachesEnd'
    <2> SUFFICES ASSUME pass'.daypass PROVE pass'.expires >= BusinessDayEnd(pass.day)'
      BY DEF DayPassReachesEnd
    <2>1. pass.daypass /\ x = pass.expires
      BY <1>17, <1>18, <1>20
    <2>2. BusinessDayEnd(pass.day)' = BusinessDayEnd(pass.day)
      BY <1>9, <1>20 DEF BusinessDayEnd
    <2> QED
      BY <1>20, <2>1, <2>2 DEF PolicyInv, DayPassReachesEnd
  <1> QED
    BY <1>9, <1>13, <1>14, <1>15, <1>20, <1>21, PolicyFits

LEMMA AppliesDayPass ==
  ASSUME PolicyInv, backend' = backend, ApplyDayPass
  PROVE  PolicyInv'
  <1>1. UNCHANGED <<cutoff, offset, slot, policies, published, staff, order>>
    BY DEF ApplyDayPass
  <1>2. cutoff \in Int /\ offset \in Int /\ DayLength \in Int
        /\ pass \in [day : Int, expires : Int, daypass : BOOLEAN]
    BY PassPolicyConstants DEF PolicyInv, PolicyTypeOK
  <1>3. PICK end \in Int : end = BusinessDayEnd(pass.day) /\ end = BusinessDayEnd(pass.day)'
    <2>1. pass'.day = pass.day
      BY <1>2 DEF ApplyDayPass
    <2>2. BusinessDayEnd(pass.day)' = BusinessDayEnd(pass.day) /\ BusinessDayEnd(pass.day) \in Int
      BY <1>1, <1>2, <2>1 DEF BusinessDayEnd
    <2> QED
      BY <2>2
  <1>4. PICK x \in Int : /\ x = IF FastAPI THEN Max({pass.expires, end}) ELSE end
                         /\ x >= end
    <2>1. Max({pass.expires, end}) = IF pass.expires >= end THEN pass.expires ELSE end
      BY <1>2, MaxOfTwo
    <2> QED
      BY <1>2, <2>1
  <1>5. pass' = [pass EXCEPT !.expires = x, !.daypass = TRUE]
    BY <1>3, <1>4 DEF ApplyDayPass
  <1>6. /\ pass' \in [day : Int, expires : Int, daypass : BOOLEAN]
        /\ pass'.day = pass.day /\ pass'.expires = x
    BY <1>2, <1>5
  <1>7. DayPassReachesEnd'
    BY <1>3, <1>4, <1>6 DEF DayPassReachesEnd
  <1>8. ReclaimedIsProrated'
    BY <1>1 DEF PolicyInv, ReclaimedIsProrated, FastAPI, Prorated
  <1>9. order' \in [Orders -> [amount : Nat, minutes : Nat, refunded : Nat, reclaimed : Nat]]
        /\ \A e \in Orders : order'[e].refunded <= order'[e].amount
    BY <1>1 DEF PolicyInv, PolicyTypeOK
  <1> QED
    BY <1>1, <1>6, <1>7, <1>8, <1>9, PolicyFits

(***************************************************************************)
(* Publications, which leave orders and the pass alone.                    *)
(***************************************************************************)
LEMMA PublicationsFit ==
  ASSUME PolicyInv, UNCHANGED <<backend, cutoff, offset, order, pass>>, slot' \in Nat,
         NEW v \in Versions, published' = {v},
         policies' \in [Versions -> Policies \cup {NoPolicy}], policies'[v] \in Policies,
         staff' \in [Staff -> [at : {"idle", "form", "publish"}, version : 0 .. MaxVersion,
                               policy : Policies \cup {NoPolicy}]],
         PublishesPolicies'
  PROVE  PolicyInv'
  <1>1. Max({v}) = v
    BY MaxOfOne DEF Versions
  <1>2. InForce' # NoPolicy
    BY <1>1, PassPolicyConstants DEF InForce
  <1>3. PolicyTypeOK'
    BY <1>2 DEF PolicyInv, PolicyTypeOK
  <1>4. ReclaimedIsProrated' /\ DayPassReachesEnd'
    BY DEF PolicyInv, ReclaimedIsProrated, DayPassReachesEnd, FastAPI, Prorated, BusinessDayEnd
  <1> QED
    BY <1>3, <1>4 DEF PolicyInv

LEMMA Publishes ==
  ASSUME PolicyInv, backend' = backend, NEW s \in Staff,
         OpenForm(s) \/ PublishWrites(s) \/ \E p \in Policies : PublishReads(s, p)
  PROVE  PolicyInv'
  <1>1. PICK v \in Versions : /\ published = {v} /\ Max(published) = v
                             /\ InForce = policies[v] /\ policies[v] \in Policies
    BY OneInForce DEF PolicyInv
  <1> DEFINE Form == [at : {"idle", "form", "publish"}, version : 0 .. MaxVersion,
                      policy : Policies \cup {NoPolicy}]
  <1>2. /\ staff \in [Staff -> Form] /\ policies \in [Versions -> Policies \cup {NoPolicy}]
        /\ slot \in Nat /\ v \in 1 .. MaxVersion /\ MaxVersion \in Nat
    BY PassPolicyConstants DEF PolicyInv, PolicyTypeOK, Versions
  <1>3. NoForm \in Form /\ NoForm.at = "idle"
    BY <1>2 DEF NoForm
  <1>4. ASSUME NEW f \in Form, staff' = [staff EXCEPT ![s] = f],
               f.at = "publish" => f.version < MaxVersion /\ f.policy \in Policies
        PROVE  staff' \in [Staff -> Form] /\ PublishesPolicies'
    <2>1. staff' \in [Staff -> Form]
      BY <1>2, <1>4
    <2>2. staff'[s] = f /\ \A x \in Staff \ {s} : staff'[x] = staff[x]
      BY <1>2, <1>4
    <2>3. PublishesPolicies'
      BY <1>4, <2>2 DEF PolicyInv, PublishesPolicies
    <2> QED
      BY <2>1, <2>3
  <1>5. CASE OpenForm(s)
    <2>1. PICK f : f = [NoForm EXCEPT !.at = "form", !.version = v]
      OBVIOUS
    <2>2. f = [at |-> "form", version |-> v, policy |-> NoPolicy]
      BY <2>1 DEF NoForm
    <2>3. f \in Form /\ f.at = "form"
      BY <1>2, <2>2
    <2>4. /\ staff' = [staff EXCEPT ![s] = f]
          /\ UNCHANGED <<cutoff, offset, slot, policies, published, order, pass>>
      BY <1>1, <1>5, <2>1 DEF OpenForm
    <2> QED
      BY <1>1, <1>2, <1>4, <2>3, <2>4, PublicationsFit
  <1>6. ASSUME NEW p \in Policies, PublishReads(s, p) PROVE PolicyInv'
    <2>1. PICK f : f = IF staff[s].version = v
                       THEN [staff[s] EXCEPT !.at = "publish", !.policy = p] ELSE NoForm
      OBVIOUS
    <2>2. f \in Form /\ (f.at = "publish" => f.version < MaxVersion /\ f.policy \in Policies)
      <3>1. CASE staff[s].version = v
        <4>1. staff[s] \in Form /\ staff[s].version < MaxVersion
          BY <1>2, <1>6 DEF PublishReads
        <4>2. f \in Form /\ f.version = staff[s].version /\ f.policy = p
          BY <2>1, <3>1, <4>1
        <4> QED
          BY <4>1, <4>2
      <3>2. CASE staff[s].version # v
        BY <1>3, <2>1, <3>2
      <3> QED
        BY <3>1, <3>2
    <2>3. /\ staff' = [staff EXCEPT ![s] = f]
          /\ UNCHANGED <<cutoff, offset, slot, policies, published, order, pass>>
      BY <1>1, <1>2, <1>6, <2>1 DEF PublishReads
    <2> QED
      BY <1>1, <1>2, <1>4, <2>2, <2>3, PublicationsFit
  <1>7. CASE PublishWrites(s)
    <2>1. PICK next : next = staff[s].version + 1
      OBVIOUS
    <2>2. /\ staff[s].at = "publish" /\ policies' = [policies EXCEPT ![next] = staff[s].policy]
          /\ published' = {next} /\ staff' = [staff EXCEPT ![s] = NoForm]
          /\ UNCHANGED <<cutoff, offset, slot, order, pass>>
      BY <1>7, <2>1 DEF PublishWrites
    <2>3. next \in Versions /\ staff[s].policy \in Policies
      <3>1. staff[s].version \in 0 .. MaxVersion /\ staff[s].version < MaxVersion
            /\ staff[s].policy \in Policies
        BY <1>2, <2>2 DEF PolicyInv, PublishesPolicies
      <3> QED
        BY <1>2, <2>1, <3>1 DEF Versions
    <2>4. policies' \in [Versions -> Policies \cup {NoPolicy}] /\ policies'[next] \in Policies
      BY <1>2, <2>2, <2>3
    <2> QED
      BY <1>2, <1>3, <1>4, <2>2, <2>3, <2>4, PublicationsFit
  <1> QED
    BY <1>5, <1>6, <1>7

LEMMA PublishesInDjango ==
  ASSUME PolicyInv, backend' = backend,
         \/ \E p \in Policies : CreatePolicy(p)
         \/ \E v \in Versions : PublishDjango(v)
         \/ Passes
         \/ UNCHANGED policyVars
  PROVE  PolicyInv'
  <1>1. PICK v \in Versions : published = {v} /\ policies[v] \in Policies
    BY OneInForce DEF PolicyInv
  <1>2. /\ policies \in [Versions -> Policies \cup {NoPolicy}] /\ slot \in Nat
        /\ staff \in [Staff -> [at : {"idle", "form", "publish"}, version : 0 .. MaxVersion,
                                policy : Policies \cup {NoPolicy}]]
    BY DEF PolicyInv, PolicyTypeOK
  <1>3. UNCHANGED staff => PublishesPolicies'
    BY DEF PolicyInv, PublishesPolicies
  <1>4. ASSUME NEW p \in Policies, CreatePolicy(p) PROVE PolicyInv'
    <2>1. PICK w \in Versions : policies[w] = NoPolicy /\ policies' = [policies EXCEPT ![w] = p]
      BY <1>4 DEF CreatePolicy
    <2>2. UNCHANGED <<cutoff, offset, slot, published, staff, order, pass>>
      BY <1>4 DEF CreatePolicy
    <2>3. w # v
      BY <1>1, <2>1, PassPolicyConstants
    <2>4. policies' \in [Versions -> Policies \cup {NoPolicy}] /\ policies'[v] \in Policies
      BY <1>1, <1>2, <2>1, <2>3
    <2> QED
      BY <1>1, <1>2, <1>3, <2>2, <2>4, PublicationsFit
  <1>5. ASSUME NEW w \in Versions, PublishDjango(w) PROVE PolicyInv'
    <2>1. /\ policies[w] \in Policies /\ published' = {w}
          /\ UNCHANGED <<cutoff, offset, slot, policies, staff, order, pass>>
      BY <1>2, <1>5 DEF PublishDjango
    <2> QED
      BY <1>2, <1>3, <2>1, PublicationsFit
  <1>6. CASE Passes
    BY <1>1, <1>2, <1>3, <1>6, PublicationsFit DEF Passes
  <1>7. CASE UNCHANGED policyVars
    BY <1>1, <1>2, <1>3, <1>7, PublicationsFit DEF policyVars
  <1> QED
    BY <1>4, <1>5, <1>6, <1>7

(***************************************************************************)
(* The invariant of the policy.                                            *)
(***************************************************************************)
LEMMA InitPolicyInv == Init => PolicyInv
  <1> SUFFICES ASSUME PolicyInit PROVE PolicyInv
    BY DEF Init
  <1>1. PICK p \in Policies : policies = [v \in Versions |-> IF v = 1 THEN p ELSE NoPolicy]
    BY DEF PolicyInit
  <1>2. MaxVersion \in Nat \ {0} /\ DayLength \in Nat /\ 1 \in Versions
    BY PassPolicyConstants DEF Versions
  <1>3. Max(published) = 1 /\ InForce = p
    BY <1>1, <1>2, MaxOfOne DEF PolicyInit, InForce
  <1>4. staff \in [Staff -> [at : {"idle", "form", "publish"}, version : 0 .. MaxVersion,
                            policy : Policies \cup {NoPolicy}]]
        /\ \A s \in Staff : staff[s].at = "idle"
    BY <1>2 DEF PolicyInit, NoForm
  <1>5. NoOrder \in [amount : Nat, minutes : Nat, refunded : Nat, reclaimed : Nat]
        /\ NoOrder.refunded = 0 /\ NoOrder.amount = 0 /\ NoOrder.reclaimed = 0
    BY DEF NoOrder
  <1>6. order \in [Orders -> [amount : Nat, minutes : Nat, refunded : Nat, reclaimed : Nat]]
        /\ \A e \in Orders : order[e] = NoOrder
    BY <1>5 DEF PolicyInit
  <1>7. pass \in [day : Int, expires : Int, daypass : BOOLEAN] /\ ~pass.daypass
    BY DEF PolicyInit, NoPass
  <1>8. PolicyTypeOK
    <2>1. \A e \in Orders : order[e].refunded <= order[e].amount
      BY <1>5, <1>6
    <2>2. policies \in [Versions -> Policies \cup {NoPolicy}] /\ p # NoPolicy
      BY <1>1, PassPolicyConstants
    <2> QED
      BY <1>2, <1>3, <1>4, <1>6, <1>7, <2>1, <2>2 DEF PolicyInit, PolicyTypeOK
  <1>9. ReclaimedIsProrated
    <2>1. \A n, a : Prorated(n, a, 0) = 0
      BY DEF Prorated
    <2> QED
      BY <1>5, <1>6, <2>1 DEF ReclaimedIsProrated
  <1> QED
    BY <1>4, <1>7, <1>8, <1>9 DEF PolicyInv, PublishesPolicies, DayPassReachesEnd

LEMMA NextPolicyInv == PolicyInv /\ [Next]_vars => PolicyInv'
  <1> SUFFICES ASSUME PolicyInv, [Next]_vars PROVE PolicyInv'
    OBVIOUS
  <1>1. backend' = backend
    BY NextParts
  <1>2. CASE UNCHANGED policyVars
    BY <1>1, <1>2, PublishesInDjango
  <1>3. CASE PolicyNext
    <2>1. slot \in Int /\ slot - 1 \in Int
      BY DEF PolicyInv, PolicyTypeOK
    <2>2. \A a \in 1 .. Max(Amounts) : a \in Int
      OBVIOUS
    <2>3. ASSUME NEW e \in Orders, NEW a \in Amounts, PlaceOrder(e, a, slot) \/ PlaceOrder(e, a, slot - 1)
          PROVE  PolicyInv'
      BY <1>1, <2>1, <2>3, PlacesOrder
    <2>4. ASSUME NEW e \in Orders, NEW a \in 1 .. Max(Amounts), Refund(e, a)
          PROVE  PolicyInv'
      BY <1>1, <2>2, <2>4, RefundsOrder
    <2>5. ASSUME NEW s \in Staff, OpenForm(s) \/ PublishWrites(s) \/ \E p \in Policies : PublishReads(s, p)
          PROVE  PolicyInv'
      BY <1>1, <2>5, Publishes
    <2> QED
      BY <1>1, <1>3, <2>3, <2>4, <2>5, PublishesInDjango, AppliesDayPass DEF PolicyNext
  <1> QED
    BY <1>2, <1>3, NextParts

LEMMA PolicyInvHolds == Spec => []PolicyInv
  BY InitPolicyInv, NextPolicyInv, PTL DEF Spec

(* However the refunds of an order are split and whatever policy is        *)
(* published in between, they take back its own minutes in proportion,     *)
(* rounded up once: prorated_refunded_wifi_minutes, for any amounts.       *)
THEOREM RefundsAreProportional == Spec => []RefundIsProportional
  <1>1. PolicyInv => RefundIsProportional
    <2> SUFFICES ASSUME PolicyInv, FastAPI, NEW e \in Orders
                 PROVE  LET o == order[e] IN
                        /\ o.reclaimed * o.amount >= o.minutes * o.refunded
                        /\ o.reclaimed > 0 => (o.reclaimed - 1) * o.amount < o.minutes * o.refunded
      BY DEF RefundIsProportional
    <2>1. /\ order[e].amount \in Nat /\ order[e].minutes \in Nat /\ order[e].refunded \in Nat
          /\ order[e].refunded <= order[e].amount
      BY DEF PolicyInv, PolicyTypeOK
    <2>2. order[e].reclaimed = Prorated(order[e].minutes, order[e].amount, order[e].refunded)
      BY DEF PolicyInv, ReclaimedIsProrated
    <2> QED
      BY <2>1, <2>2, ProratedIsProportional
  <1> QED
    BY <1>1, PolicyInvHolds, PTL

(* A day pass covers every moment of its business day, for any cutoff,     *)
(* zone and length of a day, until a refund takes minutes back.            *)
THEOREM DayPassesCoverTheirDay == Spec => []DayPassCoversItsDay
  <1>1. PolicyInv => DayPassCoversItsDay
    <2> SUFFICES ASSUME PolicyInv, pass.daypass, NEW t \in 0 .. LastSlot + DayLength,
                        BusinessDate(t) = pass.day
                 PROVE  t < pass.expires
      BY DEF DayPassCoversItsDay
    <2>1. cutoff \in 0 .. DayLength - 1 /\ offset \in Int /\ t \in Int
          /\ DayLength \in Nat /\ pass \in [day : Int, expires : Int, daypass : BOOLEAN]
      BY PassPolicyConstants DEF PolicyInv, PolicyTypeOK
    <2>2. t < BusinessDayEnd(pass.day)
      BY <2>1, EndOfBusinessDay
    <2>3. PICK end \in Int : end = BusinessDayEnd(pass.day)
      BY <2>1 DEF BusinessDayEnd
    <2>4. end <= pass.expires
      BY <2>3 DEF PolicyInv, DayPassReachesEnd
    <2> QED
      BY <2>1, <2>2, <2>3, <2>4
  <1> QED
    BY <1>1, PolicyInvHolds, PTL

(***************************************************************************)
(* Types of both halves.                                                   *)
(***************************************************************************)
Clocked == now \in 0 .. MaxTime /\ menu \in BOOLEAN /\ served \in 0 .. MaxRequests

LEMMA NextClocked ==
  ASSUME Clocked, [Next]_vars
  PROVE  Clocked'
  <1>1. MaxTime \in Nat /\ MaxRequests \in Nat
    BY PromotionsConstants
  <1>2. ASSUME menu' = menu, now' = now \/ (now < MaxTime /\ now' = now + 1),
               served' = served \/ Serves
        PROVE  Clocked'
    BY <1>1, <1>2 DEF Clocked, Serves
  <1>3. CASE UNCHANGED promotionVars
    BY <1>2, <1>3 DEF promotionVars
  <1>4. CASE PromotionsNext
    <2>1. CASE Tick
      BY <1>2, <2>1 DEF Tick
    <2> DEFINE Kept == menu' = menu /\ now' = now /\ (served' = served \/ Serves)
    <2>2. ASSUME Generate \/ GenerateDjango \/ UpdatePromotionStates PROVE Kept
      BY <2>2 DEF Generate, GenerateDjango, UpdatePromotionStates
    <2>3. ASSUME NEW to \in -1 .. MaxQuantity, AdjustDjango(to) PROVE Kept
      BY <2>3 DEF AdjustDjango
    <2>4. ASSUME NEW d \in Desks, GenerateSaleReads(d) \/ GenerateSaleInserts(d) PROVE Kept
      BY <2>4 DEF GenerateSaleReads, GenerateSaleInserts, Starts, Ends
    <2>5. ASSUME NEW d \in Desks,
                 ScanReads(d) \/ ScanWrites(d) \/ ScanReadsDjango(d) \/ ScanWritesDjango(d)
          PROVE  Kept
      BY <2>5 DEF ScanReads, ScanWrites, ScanReadsDjango, ScanWritesDjango, Scans, Scanned, Starts, Ends
    <2>6. ASSUME NEW d \in Desks, NEW to, NEW by, UpsertReads(d, to) \/ AdjustReads(d, by) PROVE Kept
      BY <2>6 DEF UpsertReads, AdjustReads, ReadsStock, Starts
    <2>7. ASSUME NEW d \in Desks, ChangeStockWrites(d) \/ RejectWrites(d) \/ ClosePage(d) PROVE Kept
      BY <2>7 DEF ChangeStockWrites, RejectWrites, ClosePage, Ends
    <2>8. ASSUME NEW d \in Desks, NEW c \in Recs, LoadPage(d, c) \/ RejectReads(d, c) PROVE Kept
      BY <2>8 DEF LoadPage, RejectReads, Starts
    <2>9. ASSUME NEW d \in Desks, NEW w, Edit(d, w) \/ EditDjango(d, w) PROVE Kept
      BY <2>9 DEF Edit, EditDjango, Edits, Ends
    <2>10. ASSUME NEW d \in Desks, NEW w, Accept(d, w) \/ AcceptDjango(d) PROVE Kept
      BY <2>10 DEF Accept, AcceptDjango, Accepts, Ends
    <2>11. ASSUME NEW c \in Recs, NEW status, NEW w, RejectDjango(c) \/ PatchPromotion(c, status, w)
           PROVE  Kept
      BY <2>11 DEF RejectDjango, PatchPromotion
    <2> QED
      BY <1>2, <1>4, <2>1, <2>2, <2>3, <2>4, <2>5, <2>6, <2>7, <2>8, <2>9, <2>10, <2>11 DEF PromotionsNext
  <1> QED
    BY <1>3, <1>4, NextParts

DeskAts == {"idle", "sale", "scan", "stock", "page", "reject"}

LEMMA NextDeskAts ==
  ASSUME RowsFit, DesksFit, \A d \in Desks : desk[d].at \in DeskAts, [Next]_vars
  PROVE  \A d \in Desks : desk'[d].at \in DeskAts
  <1>1. CASE UNCHANGED desk
    BY <1>1
  <1>2. ASSUME NEW d \in Desks, Ends(d) PROVE \A e \in Desks : desk'[e].at \in DeskAts
    BY <1>2, EndsFrame, IdleFields DEF DeskAts
  <1>3. ASSUME NEW d \in Desks, ReadingStarts(d) PROVE \A e \in Desks : desk'[e].at \in DeskAts
    BY <1>3, ReadingFrame DEF DeskAts
  <1> QED
    BY <1>1, <1>2, <1>3, Steps DEF DeskStep

TypeInv == PromotionsInv /\ PolicyInv /\ TypeOK /\ QuantitiesFit /\ RejectsTyped

LEMMA TypeParts ==
  PromotionsTypeOK <=>
    /\ backend \in Backends /\ Clocked
    /\ \A c \in Recs : /\ RecTyped(c) /\ PromoTyped(c)
                        /\ rec[c].status \in {"none"} \cup Open \cup Decided
                        /\ rec[c].version \in Nat
    /\ stock \in [quantity : 0 .. MaxQuantity, risky : BOOLEAN]
    /\ \A d \in Desks : desk[d].at \in DeskAts
    /\ crossed \subseteq Recs \cup {"stock"}
  BY DEF PromotionsTypeOK, Clocked, RecTyped, PromoTyped, DeskAts

LEMMA InitTypeInv == Init => TypeInv
  <1> SUFFICES ASSUME Init PROVE TypeInv
    OBVIOUS
  <1>1. /\ PromotionsInv /\ PolicyInv /\ area \in {"promotions", "policy"}
        /\ failures \in 0 .. MaxFailures
    BY InitInv, InitPolicyInv, BackOfficeConstants DEF Init
  <1>2. /\ rec = [c \in Recs |-> NoRow] /\ promo = [c \in Recs |-> NoPromotion]
        /\ desk = [d \in Desks |-> Idle] /\ crossed = {} /\ backend \in Backends
        /\ menu \in BOOLEAN /\ now = 0 /\ served = 0
    BY DEF Init, PromotionsInit
  <1>3. Clocked
    BY <1>2, PromotionsConstants DEF Clocked
  <1>4. \A c \in Recs : RecTyped(c) /\ PromoTyped(c)
    BY <1>2 DEF RecTyped, PromoTyped, NoRow, NoPromotion, Kinds, Window
  <1>5. \A d \in Desks : desk[d].at = "idle"
    BY <1>2, IdleFields
  <1>6. stock \in [quantity : 0 .. MaxQuantity, risky : BOOLEAN]
    <2>1. PICK q \in 0 .. MaxQuantity : stock = [quantity |-> q, risky |-> Low(q)]
      BY DEF Init, PromotionsInit
    <2>2. Low(q) \in BOOLEAN
      BY LowType, PromotionsConstants
    <2> QED
      BY <2>1, <2>2
  <1>7. QuantitiesFit /\ RejectsTyped
    BY <1>5 DEF QuantitiesFit, RejectsTyped
  <1>8. PromotionsTypeOK
    BY <1>1, <1>2, <1>3, <1>4, <1>5, <1>6, TypeParts DEF PromotionsInv, RowsFit, DeskAts
  <1> QED
    BY <1>1, <1>7, <1>8 DEF TypeInv, TypeOK, PolicyInv

LEMMA NextTypeInv == TypeInv /\ [Next]_vars => TypeInv'
  <1> SUFFICES ASSUME TypeInv, [Next]_vars PROVE TypeInv'
    OBVIOUS
  <1>1. PromotionsInv' /\ PolicyInv'
    BY NextInv, NextPolicyInv DEF TypeInv
  <1>2. RowsFit /\ DesksFit /\ QuantitiesFit /\ PromotionsTypeOK
    BY DEF TypeInv, PromotionsInv, TypeOK
  <1>3. backend' \in Backends
    BY <1>2, NextParts DEF PromotionsTypeOK
  <1>11. area' \in {"promotions", "policy"} /\ failures' \in 0 .. MaxFailures
    <2>1. area \in {"promotions", "policy"} /\ failures \in 0 .. MaxFailures
      BY DEF TypeInv, TypeOK
    <2>2. CASE PassesFail
      BY <2>1, <2>2, BackOfficeConstants DEF PassesFail
    <2>3. CASE UNCHANGED <<area, failures>>
      BY <2>1, <2>3
    <2> QED
      BY <2>2, <2>3 DEF Next, vars
  <1>4. Clocked'
    BY <1>2, TypeParts, NextClocked
  <1>5. ASSUME NEW c \in Recs PROVE RecTyped(c)' /\ PromoTyped(c)'
    <2>1. RecTyped(c) /\ PromoTyped(c) /\ now \in 0 .. MaxTime /\ RejectsTyped
      BY <1>2, TypeParts DEF Clocked, TypeInv
    <2> QED
      BY <1>2, <2>1, NextRecTyped, NextPromoTyped
  <1>6. stock' \in [quantity : 0 .. MaxQuantity, risky : BOOLEAN]
    <2>1. stock.quantity \in 0 .. MaxQuantity
      BY <1>2, TypeParts
    <2>2. stock'.quantity \in 0 .. MaxQuantity
      BY <1>2, <2>1, NextStockTyped
    <2>3. stock' \in [quantity : Int, risky : BOOLEAN]
      BY <1>1 DEF PromotionsInv, RowsFit
    <2> QED
      BY <2>2, <2>3
  <1>7. \A d \in Desks : desk'[d].at \in DeskAts
    BY <1>2, TypeParts, NextDeskAts
  <1>8. crossed' \subseteq Recs \cup {"stock"}
    BY <1>2, TypeParts, NextCrossedTyped
  <1>9. PromotionsTypeOK'
    <2>1. \A c \in Recs : /\ rec'[c].status \in {"none"} \cup Open \cup Decided
                          /\ rec'[c].version \in Nat
      BY <1>1 DEF PromotionsInv, RowsFit, Open, Decided
    <2> QED
      BY <1>3, <1>4, <1>5, <1>6, <1>7, <1>8, <2>1
      DEF PromotionsTypeOK, Clocked, RecTyped, PromoTyped, DeskAts, Backends, Kinds, Open, Decided,
          PromotionStatuses, Window, Times
  <1>10. QuantitiesFit'
    BY <1>2, NextQuantitiesFit
  <1>12. RejectsTyped'
    BY <1>2, TypeParts, NextRejectsTyped DEF TypeInv
  <1>13. PolicyTypeOK'
    BY <1>1 DEF PolicyInv
  <1> QED
    BY <1>1, <1>9, <1>10, <1>11, <1>12, <1>13 DEF TypeInv, TypeOK

(* The variables of both halves hold values of their kind, for any rows,   *)
(* desks, windows, policies, orders and amounts: app/routers/admin.py and  *)
(* api/extended_views.py keep quantities within what was asked for, and    *)
(* publish policies and windows that exist.                                *)
THEOREM TypesHold == Spec => []TypeOK
  <1>1. TypeInv => TypeOK
    BY DEF TypeInv
  <1> QED
    BY <1>1, InitTypeInv, NextTypeInv, PTL DEF Spec

(* A promotion has been made of a recommendation exactly if that was       *)
(* accepted, but for FastAPI's reject that an acceptance or an edit        *)
(* overtook: app/routers/admin.py and api/extended_views.py.               *)
THEOREM PromotionsStand == Spec => []PromotionsAreAccepted
  <1>1. PromotionsInv => PromotionsAreAccepted
    BY DEF PromotionsInv
  <1> QED
    BY <1>1, InvHolds, PTL

(* Staff whose page has the current version number of an open              *)
(* recommendation accept what they have read, in either backend.           *)
THEOREM VersionsName == Spec => []VersionNamesContent
  <1>1. PromotionsInv => VersionNamesContent
    BY DEF PromotionsInv
  <1> QED
    BY <1>1, InvHolds, PTL

(* The item's quantity is what its events add up to, and its risk that of  *)
(* the quantity, until two requests that read it without a lock overlap;   *)
(* Django's quantity even then.                                            *)
THEOREM StockAccounted == Spec => []StockIsAccounted
  <1>1. PromotionsInv => StockIsAccounted
    BY DEF PromotionsInv
  <1> QED
    BY <1>1, InvHolds, PTL
=============================================================================
