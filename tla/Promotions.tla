----------------------------- MODULE Promotions -----------------------------
(***************************************************************************)
(* The recommendations of one store, the promotions made of them, and the  *)
(* one inventory item the risk scan is about.                              *)
(*                                                                         *)
(* A recommendation is generated (by staff or by the hourly job), perhaps  *)
(* edited, then accepted, which makes a promotion, or rejected.  A page    *)
(* shows it with its version, and an edit or an acceptance sends the       *)
(* version back.  The minutely job starts and ends the promotions.         *)
(*                                                                         *)
(* Of a payload the model keeps the title and window together: NoWindow,   *)
(* or <<from, to>>.  `menu' says whether the store has an active product.  *)
(* Menu trends are like summaries, without either, and counted as such.    *)
(* FastAPI's reject, inventory changes and time sale, and both scans, read *)
(* without a lock and write later; the rest is one step under a row lock.  *)
(* Where the backends differ the name of Django's action says so.          *)
(***************************************************************************)
EXTENDS Backend, Integers, FiniteSets

CONSTANTS
  Recs,         \* recommendation rows
  Desks,        \* connections serving staff and jobs
  MaxRequests,  \* bound: requests served
  MaxTime,      \* bound: the clock
  EditedTo,     \* bound: windows staff type in
  Limit,        \* PROMOTION_MAX_DURATION_HOURS, in clock units
  Threshold,    \* low_stock_threshold of the item
  MaxQuantity,  \* bound: its quantity
  UseCelery,    \* USE_CELERY: without it FastAPI's loop expires passes only
  NoRec, NoWindow

Times == 0 .. MaxTime + Limit + 2

ASSUME PromotionsConstants ==
  /\ {MaxRequests, MaxTime, Limit, Threshold, MaxQuantity} \subseteq Nat
  /\ 0 < Limit /\ UseCelery \in BOOLEAN
  /\ NoRec \notin Recs
  /\ EditedTo \subseteq Times \X Times /\ NoWindow \notin Times \X Times

VARIABLES
  menu,     \* the store has an active product
  now,
  rec,      \* [Recs -> [kind, status, version, window]]
  promo,    \* [Recs -> [status, window]]: the promotion made of it
  stock,    \* [quantity, risky]: the committed inventory item
  ledger,   \* history: its last set quantity plus the deltas of its events
  desk,     \* [Desks -> what the request there does and has read]
  served,   \* requests so far
  crossed   \* history: what two requests have overlapped on

promotionVars ==
  <<menu, now, rec, promo, stock, ledger, desk, served, crossed>>

Kinds == {"TIME_SALE", "INVENTORY_PROMOTION", "SALES_SUMMARY"}
Open == {"PENDING", "EDITED"}
Decided == {"ACCEPTED", "REJECTED"}
PromotionStatuses == {"DRAFT", "SCHEDULED", "ACTIVE", "ENDED"}
Window(w) == w = NoWindow \/ w \in Times \X Times

NoRow == [kind |-> "SALES_SUMMARY", status |-> "none", version |-> 0, window |-> NoWindow]
NoPromotion == [status |-> "none", window |-> NoWindow]
Idle == [at |-> "idle", rec |-> NoRec, row |-> NoRow, quantity |-> 0, to |-> 0,
         risky |-> FALSE, sets |-> FALSE, found |-> FALSE]

Low(q) == q <= Threshold

PromotionsInit ==
  /\ backend \in Backends
  /\ menu \in BOOLEAN
  /\ now = 0
  /\ rec = [c \in Recs |-> NoRow]
  /\ promo = [c \in Recs |-> NoPromotion]
  /\ \E q \in 0 .. MaxQuantity :
       /\ stock = [quantity |-> q, risky |-> Low(q)]
       /\ ledger = q
  /\ desk = [d \in Desks |-> Idle]
  /\ served = 0 /\ crossed = {}

-----------------------------------------------------------------------------
Serves ==
  /\ served < MaxRequests
  /\ served' = served + 1

Starts(d, what) ==
  /\ desk[d].at = "idle"
  /\ Serves
  /\ desk' = [desk EXCEPT ![d] = what]

Ends(d) ==
  /\ desk' = [desk EXCEPT ![d] = Idle]
  /\ UNCHANGED served

(* Another request has read these rows and is yet to write. *)
Others(d, doing) == \E e \in Desks \ {d} : desk[e].at \in doing
Rejecting(c) == \E e \in Desks : desk[e].at = "reject" /\ desk[e].rec = c

Crosses(what, when) == crossed' = IF when THEN crossed \cup {what} ELSE crossed

Inserts(kind, window) ==
  \E c \in Recs :
    /\ rec[c].status = "none"
    /\ rec' = [rec EXCEPT ![c] =
         [kind |-> kind, status |-> "PENDING", version |-> 1, window |-> window]]

-----------------------------------------------------------------------------
(* Generating recommendations *)

Sales(statuses) == {c \in Recs : rec[c].kind = "TIME_SALE" /\ rec[c].status \in statuses}

(* FastAPI: the time sale of the business date, unless it was rejected. *)
SaleExists == Sales({"PENDING", "EDITED", "ACCEPTED"}) # {}

GenerateSaleReads(d) ==
  /\ FastAPI
  /\ ~SaleExists
  /\ Starts(d, [Idle EXCEPT !.at = "sale"])
  /\ UNCHANGED <<menu, now, rec, promo, stock, ledger, crossed>>

(* Within the limit: the provider's, if _validate_time_sale_payload takes  *)
(* it, else the rule's two hours.  The next start stands for all to come.  *)
SaleEnds == now + 2 .. now + Limit + 1

GenerateSaleInserts(d) ==
  /\ desk[d].at = "sale"
  /\ \E end \in SaleEnds : Inserts("TIME_SALE", <<now + 1, end>>)
  /\ Ends(d)
  /\ UNCHANGED <<menu, now, promo, stock, ledger, crossed>>

(* Django makes a new one each time, and does not bound a provider's end. *)
GenerateSaleDjango ==
  /\ \E end \in {now + 2, now + Limit + 2} :
       Inserts("TIME_SALE", <<now + 1, end>>)
  /\ UNCHANGED desk

(* A summary, or a menu trend: neither title nor window. *)
GenerateSummary ==
  /\ FastAPI
  /\ Inserts("SALES_SUMMARY", NoWindow)
  /\ UNCHANGED desk

GenerateMenuTrends ==
  /\ FastAPI
  /\ Inserts("SALES_SUMMARY", NoWindow)
  /\ UNCHANGED desk

GenerateSummaryDjango == Inserts("SALES_SUMMARY", NoWindow) /\ UNCHANGED desk
GenerateMenuTrendsDjango == Inserts("SALES_SUMMARY", NoWindow) /\ UNCHANGED desk

(* What staff or a job ask for; FastAPI's time sale and both scans, which  *)
(* take more than a step, are on their own.                                *)
Generate ==
  /\ Serves
  /\ GenerateSummary \/ GenerateMenuTrends
  /\ UNCHANGED <<menu, now, promo, stock, ledger, crossed>>

GenerateDjango ==
  /\ Django
  /\ Serves
  /\ GenerateSaleDjango \/ GenerateSummaryDjango \/ GenerateMenuTrendsDjango
  /\ UNCHANGED <<menu, now, promo, stock, ledger, crossed>>

-----------------------------------------------------------------------------
(* The inventory item.  It expires within the week: low stock takes its    *)
(* risk score from 20 to 55, and at 45 it is worth a promotion.            *)

PendingScans ==
  {c \in Recs : rec[c].kind = "INVENTORY_PROMOTION" /\ rec[c].status = "PENDING"}

Scans(d, found) ==
  /\ Starts(d, [Idle EXCEPT !.at = "scan", !.quantity = stock.quantity,
                            !.risky = stock.risky, !.found = found])
  /\ UNCHANGED <<menu, now, rec, promo, stock, ledger, crossed>>

(* The score is written if it differs from the one read. *)
Scanned(d, window) ==
  LET low == Low(desk[d].quantity) IN
  /\ desk[d].at = "scan"
  /\ stock' = [stock EXCEPT !.risky = IF low # desk[d].risky THEN low ELSE @]
  /\ IF low /\ ~desk[d].found THEN Inserts("INVENTORY_PROMOTION", window)
     ELSE UNCHANGED rec
  /\ Crosses("stock", Others(d, {"scan", "stock"}))
  /\ Ends(d)
  /\ UNCHANGED <<menu, now, promo, ledger>>

(* FastAPI looks for a pending recommendation of the item first, and       *)
(* offers two hours.                                                       *)
ScanReads(d) == FastAPI /\ Scans(d, PendingScans # {})
ScanWrites(d) == FastAPI /\ Scanned(d, <<now, now + 1>>)

(* Django does not look, and offers a week. *)
ScanReadsDjango(d) == Django /\ Scans(d, FALSE)
ScanWritesDjango(d) == Django /\ Scanned(d, <<now, now + Limit + 1>>)

ReadsStock(d, to, sets) ==
  /\ FastAPI
  /\ Starts(d, [Idle EXCEPT !.at = "stock", !.quantity = stock.quantity,
                            !.risky = stock.risky, !.to = to, !.sets = sets])
  /\ UNCHANGED <<menu, now, rec, promo, stock, ledger, crossed>>

(* FastAPI's upsert sets the quantity, *)
UpsertReads(d, to) == 0 <= to /\ ReadsStock(d, to, TRUE)

(* and its adjustment adds to the quantity it has read. *)
AdjustReads(d, delta) ==
  /\ 0 <= stock.quantity + delta
  /\ ReadsStock(d, stock.quantity + delta, FALSE)

(* Mutant: the score is not calculated again. *)
WrittenOldScore(old, new, isRisky) == [quantity |-> new, risky |-> isRisky]
(* The ORM's UPDATE has the columns that differ from what was read. *)
Written(old, new, isRisky) ==
  [quantity |-> IF new # old THEN new ELSE stock.quantity,
   risky |-> IF Low(new) # isRisky THEN Low(new) ELSE stock.risky]

ChangeStockWrites(d) ==
  LET j == desk[d] IN
  /\ j.at = "stock"
  /\ stock' = Written(j.quantity, j.to, j.risky)
  /\ ledger' = IF j.sets THEN j.to ELSE ledger + (j.to - j.quantity)
  /\ Crosses("stock", Others(d, {"scan", "stock"}))
  /\ Ends(d)
  /\ UNCHANGED <<menu, now, rec, promo>>

(* Django: SELECT ... FOR UPDATE.  A scan may have read before it. *)
AdjustDjango(to) ==
  /\ Django
  /\ 0 <= to
  /\ Serves
  /\ stock' = [quantity |-> to, risky |-> Low(to)]
  /\ ledger' = ledger + (to - stock.quantity)
  /\ crossed' = IF \E d \in Desks : desk[d].at = "scan"
                THEN crossed \cup {"stock"} ELSE crossed
  /\ UNCHANGED <<menu, now, rec, promo, desk>>

-----------------------------------------------------------------------------
(* Deciding.  A page shows the row that staff then edit or accept. *)

LoadPage(d, c) ==
  /\ rec[c].status \in Open
  /\ Starts(d, [Idle EXCEPT !.at = "page", !.rec = c, !.row = rec[c]])
  /\ UNCHANGED <<menu, now, rec, promo, stock, ledger, crossed>>

Bounded(w) ==
  /\ w # NoWindow
  /\ w[1] < w[2]
  /\ w[2] - w[1] <= Limit

(* _promotion_payload *)
Publishable(kind, w) == Bounded(w) /\ (kind = "TIME_SALE" => menu)

(* validate_promotion_payload asks for the menus if the payload has a list *)
(* of them, as those generated do.                                         *)
PublishableDjango(kind, w, listed) ==
  Bounded(w) /\ (kind = "TIME_SALE" /\ listed => menu)

(* The row is locked; its status and version are compared. *)
Current(d, c, statuses) ==
  /\ desk[d].at = "page"
  /\ desk[d].rec = c
  /\ rec[c].status \in statuses
  /\ rec[c].version = desk[d].row.version

(* Mutant: the edit keeps the version. *)
EditedSameVersion(c, w) ==
  rec' = [rec EXCEPT ![c].window = w, ![c].status = "EDITED"]
Edited(c, w) ==
  rec' = [rec EXCEPT ![c].window = w, ![c].status = "EDITED", ![c].version = @ + 1]

Edits(d, w) ==
  LET c == desk[d].rec IN
  /\ Edited(c, w)
  /\ Crosses(c, Rejecting(c))
  /\ Ends(d)
  /\ UNCHANGED <<menu, now, promo, stock, ledger>>

(* FastAPI validates every edit, and cannot give a title to what has none. *)
Edit(d, w) ==
  LET c == desk[d].rec IN
  /\ FastAPI
  /\ Current(d, c, Open)
  /\ rec[c].window # NoWindow
  /\ Publishable(rec[c].kind, w)
  /\ Edits(d, w)

(* Django takes pending rows only, and validates time sales only.  Staff   *)
(* replace the whole payload, and may leave the menus out.                 *)
EditDjango(d, w) ==
  LET c == desk[d].rec IN
  /\ Django
  /\ Current(d, c, {"PENDING"})
  /\ rec[c].kind = "TIME_SALE" => PublishableDjango("TIME_SALE", w, FALSE)
  /\ Edits(d, w)

Accepts(d, w, status) ==
  LET c == desk[d].rec IN
  /\ promo[c].status = "none"
  /\ rec' = [rec EXCEPT ![c].status = "ACCEPTED", ![c].version = @ + 1,
                        ![c].window = w]
  /\ promo' = [promo EXCEPT ![c] = [status |-> status, window |-> w]]
  /\ Crosses(c, Rejecting(c))
  /\ Ends(d)
  /\ UNCHANGED <<menu, now, stock, ledger>>

(* FastAPI publishes the window typed in with the acceptance, if any, and  *)
(* starts it at once if it is its time.                                    *)
Accept(d, w) ==
  LET c == desk[d].rec IN
  /\ FastAPI
  /\ Current(d, c, Open)
  /\ rec[c].window # NoWindow
  /\ Publishable(rec[c].kind, w)
  /\ Accepts(d, w, IF w[1] <= now /\ now < w[2] THEN "ACTIVE" ELSE "SCHEDULED")

(* Django publishes what is stored. *)
AcceptDjango(d) ==
  LET c == desk[d].rec
      w == rec[c].window
  IN
  /\ Django
  /\ Current(d, c, Open)
  /\ PublishableDjango(rec[c].kind, w, rec[c].status = "PENDING")
  /\ Accepts(d, w, "SCHEDULED")

(* 409, 422, or the page is left. *)
ClosePage(d) ==
  /\ desk[d].at = "page"
  /\ Ends(d)
  /\ UNCHANGED <<menu, now, rec, promo, stock, ledger, crossed>>

(* FastAPI reads the row without a lock, and looks at its status only.  It *)
(* takes any role: no page and no version come with it.                    *)
RejectReads(d, c) ==
  /\ FastAPI
  /\ rec[c].status \in Open
  /\ Starts(d, [Idle EXCEPT !.at = "reject", !.rec = c, !.row = rec[c]])
  /\ UNCHANGED <<menu, now, rec, promo, stock, ledger, crossed>>

(* The UPDATE is by primary key, whatever the row has become; a reason     *)
(* goes into the payload that was read, which is written with it.          *)
RejectWrites(d) ==
  LET c == desk[d].rec IN
  /\ desk[d].at = "reject"
  /\ \E w \in {rec[c].window, desk[d].row.window} :
       rec' = [rec EXCEPT ![c].status = "REJECTED", ![c].version = desk[d].row.version + 1,
                          ![c].window = w]
  /\ Crosses(c, \E e \in Desks \ {d} : desk[e].at = "reject" /\ desk[e].rec = c)
  /\ Ends(d)
  /\ UNCHANGED <<menu, now, promo, stock, ledger>>

(* Mutant: Django's reject does not look at the status. *)
RejectAnyDjango(c) ==
  /\ Django
  /\ rec[c].status # "none"
  /\ Serves
  /\ rec' = [rec EXCEPT ![c].status = "REJECTED", ![c].version = @ + 1]
  /\ UNCHANGED <<menu, now, promo, stock, ledger, desk, crossed>>

(* Django: under the row's lock; no version is compared either. *)
RejectDjango(c) ==
  /\ Django
  /\ rec[c].status \in Open
  /\ Serves
  /\ rec' = [rec EXCEPT ![c].status = "REJECTED", ![c].version = @ + 1]
  /\ UNCHANGED <<menu, now, promo, stock, ledger, desk, crossed>>

-----------------------------------------------------------------------------
(* The promotions *)

(* Django: PATCH /admin/promotions/{id} writes any status and any window   *)
(* that ends after it starts.                                              *)
PatchPromotion(c, status, w) ==
  /\ Django
  /\ promo[c].status # "none"
  /\ w[1] < w[2]
  /\ Serves
  /\ promo' = [promo EXCEPT ![c] = [status |-> status, window |-> w]]
  /\ UNCHANGED <<menu, now, rec, stock, ledger, desk, crossed>>

Started(c) ==
  promo[c].status = "SCHEDULED" /\ promo[c].window[1] <= now /\ now < promo[c].window[2]

(* Mutant: only what has been started is ended. *)
OverActive(c) == promo[c].status = "ACTIVE" /\ promo[c].window[2] <= now
Over(c) == promo[c].status \in {"SCHEDULED", "ACTIVE"} /\ promo[c].window[2] <= now

(* A run of the minutely job would find something to do. *)
PromotionsDue ==
  /\ Django \/ UseCelery
  /\ \E c \in Recs : Started(c) \/ Over(c)

(* Its two UPDATEs; staff requests are not kept out. *)
UpdatePromotionStates ==
  /\ PromotionsDue
  /\ promo' = [c \in Recs |->
       [promo[c] EXCEPT !.status = IF Started(c) THEN "ACTIVE"
                                   ELSE IF Over(c) THEN "ENDED" ELSE @]]
  /\ UNCHANGED <<menu, now, rec, stock, ledger, desk, served, crossed>>

Tick ==
  /\ now < MaxTime
  /\ now' = now + 1
  /\ UNCHANGED <<menu, rec, promo, stock, ledger, desk, served, crossed>>

-----------------------------------------------------------------------------
PromotionsNext ==
  /\ UNCHANGED backend
  /\ \/ Generate \/ GenerateDjango \/ UpdatePromotionStates \/ Tick
     \/ \E to \in -1 .. MaxQuantity : AdjustDjango(to)
     \/ \E d \in Desks :
          \/ GenerateSaleReads(d) \/ GenerateSaleInserts(d)
          \/ ScanReads(d) \/ ScanWrites(d)
          \/ ScanReadsDjango(d) \/ ScanWritesDjango(d)
          \/ \E to \in 0 .. MaxQuantity : UpsertReads(d, to)
          \/ \E to \in -1 .. MaxQuantity : AdjustReads(d, to - stock.quantity)
          \/ ChangeStockWrites(d) \/ RejectWrites(d) \/ ClosePage(d)
          \/ \E c \in Recs : LoadPage(d, c) \/ RejectReads(d, c)
          \/ \E w \in EditedTo : Edit(d, w)
          \/ \E w \in EditedTo \cup {NoWindow} : EditDjango(d, w)
          \/ desk[d].at = "page" /\ \E w \in EditedTo \cup {rec[desk[d].rec].window} : Accept(d, w)
          \/ desk[d].at = "page" /\ AcceptDjango(d)
     \/ \E c \in Recs :
          \/ RejectDjango(c)
          \/ \E status \in PromotionStatuses, w \in EditedTo : PatchPromotion(c, status, w)

-----------------------------------------------------------------------------
PromotionsTypeOK ==
  /\ backend \in Backends /\ menu \in BOOLEAN /\ now \in 0 .. MaxTime
  /\ served \in 0 .. MaxRequests
  /\ \A c \in Recs :
       /\ rec[c].kind \in Kinds
       /\ rec[c].status \in {"none"} \cup Open \cup Decided
       /\ rec[c].version \in Nat
       /\ Window(rec[c].window)
       /\ promo[c].status \in {"none"} \cup PromotionStatuses
       /\ Window(promo[c].window)
       /\ promo[c].window = NoWindow <=> promo[c].status = "none"
  /\ stock \in [quantity : 0 .. MaxQuantity, risky : BOOLEAN]
  /\ \A d \in Desks : desk[d].at \in {"idle", "sale", "scan", "stock", "page", "reject"}
  /\ crossed \subseteq Recs \cup {"stock"}

(* A promotion has been made of a recommendation exactly if that was       *)
(* accepted; only FastAPI's reject, when an acceptance or an edit came     *)
(* between its read and its write, leaves a promotion behind a rejection.  *)
PromotionsAreAccepted ==
  \A c \in Recs :
    /\ rec[c].status = "ACCEPTED" => promo[c].status # "none"
    /\ promo[c].status # "none" =>
         \/ rec[c].status = "ACCEPTED"
         \/ FastAPI /\ c \in crossed /\ rec[c].status = "REJECTED"

(* Whoever still has the current version number of an undecided            *)
(* recommendation sees what it now says: what is accepted is what was read *)
(* (also across FastAPI's reject, which writes a version number it did not *)
(* compare).                                                               *)
VersionNamesContent ==
  \A d \in Desks :
    LET c == desk[d].rec IN
    desk[d].at = "page" /\ rec[c].status \in Open /\ rec[c].version = desk[d].row.version
      => rec[c] = desk[d].row

(* The quantity is what was last set plus every adjustment since, and the  *)
(* risk is that of the quantity; always in Django, but for the risk that a *)
(* scan writes over an adjustment, and in FastAPI as long as no two        *)
(* requests that read the item have overlapped.                            *)
StockIsAccounted ==
  /\ Django \/ "stock" \notin crossed => stock.quantity = ledger
  /\ "stock" \notin crossed => stock.risky = Low(stock.quantity)

(* Rows keep their columns, and quantities are numbers.                    *)
RowsFit ==
  /\ DOMAIN rec = Recs /\ DOMAIN promo = Recs /\ DOMAIN desk = Desks
  /\ \A c \in Recs :
       /\ rec[c] = [kind |-> rec[c].kind, status |-> rec[c].status,
                    version |-> rec[c].version, window |-> rec[c].window]
       /\ rec[c].status \in {"none"} \cup Open \cup Decided
       /\ rec[c].version \in Nat
       /\ promo[c] = [status |-> promo[c].status, window |-> promo[c].window]
  /\ stock \in [quantity : Int, risky : BOOLEAN] /\ ledger \in Int
  /\ \A d \in Desks : desk[d].quantity \in Int /\ desk[d].to \in Int

(* A desk that shows or rejects a recommendation read it when it was open. *)
DesksFit ==
  \A d \in Desks :
    /\ desk[d].at \in {"stock", "reject"} => FastAPI
    /\ desk[d].at \in {"page", "reject"} =>
         /\ desk[d].rec \in Recs
         /\ desk[d].row.version \in Nat
         /\ rec[desk[d].rec].status # "none"

(* A version number grows as long as nothing is decided. *)
PagesAreOlder ==
  \A d \in Desks :
    (desk[d].at = "page" /\ rec[desk[d].rec].status \in Open)
      => desk[d].row.version <= rec[desk[d].rec].version

(* Whoever decides while a rejection is under way crosses it. *)
RejectsAreCrossed ==
  \A d \in Desks :
    desk[d].at = "reject" => rec[desk[d].rec].status \in Open \/ desk[d].rec \in crossed

(* Until two requests overlap on it, the item is as they have read it. *)
StockIsAsRead ==
  "stock" \notin crossed =>
    \A d \in Desks : desk[d].at \in {"scan", "stock"} =>
      desk[d].quantity = stock.quantity /\ desk[d].risky = stock.risky

(* Quantities on their way to the item are within the bound. *)
QuantitiesFit == \A d \in Desks : desk[d].at = "stock" => desk[d].to \in 0 .. MaxQuantity

PromotionsInv ==
  /\ RowsFit /\ DesksFit /\ PagesAreOlder /\ RejectsAreCrossed /\ StockIsAsRead
  /\ PromotionsAreAccepted /\ VersionNamesContent /\ StockIsAccounted

(* A promotion whose window is over does not stay on offer: in Django, and *)
(* in FastAPI under Celery, the minutely job ends it, even if it never was *)
(* started, if staff have moved it, or if runs have failed before it.      *)
OverduePromotionsEnd ==
  Django \/ UseCelery => \A c \in Recs :
    [](promo[c].status \in {"SCHEDULED", "ACTIVE"} /\ promo[c].window[2] <= now
       => <>(promo[c].status \notin {"SCHEDULED", "ACTIVE"} \/ now < promo[c].window[2]))
=============================================================================
