----------------------------- MODULE BackOffice -----------------------------
(***************************************************************************)
(* The back office of a store: its promotions and its Wi-Fi policy.  The   *)
(* two share no table, so what they do together is what each does alone,   *)
(* and a behaviour here is about one of them, the other staying as it is   *)
(* in one of its initial states.                                           *)
(***************************************************************************)
EXTENDS Promotions, PassPolicy

CONSTANT MaxFailures  \* bound: runs that fail

ASSUME BackOfficeConstants == MaxFailures \in Nat

VARIABLES
  area,
  failures  \* runs of the minutely job that failed although they were due

vars == <<backend, area, failures, promotionVars, policyVars>>

Init ==
  /\ PromotionsInit
  /\ PolicyInit
  /\ failures = 0
  /\ \/ /\ area = "promotions"
        /\ cutoff = 0 /\ offset = Min(Offsets)
        /\ policies[1] = CHOOSE p \in Policies : TRUE
     \/ /\ area = "policy"
        /\ menu /\ stock.quantity = 0

(* The job starts with the passes that are due, and a ProviderError there, *)
(* or the worker's end, is the end of the run.                             *)
PassesFail ==
  /\ area = "promotions"
  /\ PromotionsDue
  /\ failures < MaxFailures
  /\ failures' = failures + 1
  /\ UNCHANGED <<backend, area, promotionVars, policyVars>>

Next ==
  \/ PassesFail
  \/ /\ UNCHANGED <<area, failures>>
     /\ \/ area = "promotions" /\ PromotionsNext /\ UNCHANGED policyVars
        \/ area = "policy" /\ PolicyNext /\ UNCHANGED promotionVars

(* Celery beat sends a run every minute, whatever became of the last. *)
MinutelyJob ==
  \/ PassesFail
  \/ /\ area = "promotions"
     /\ UpdatePromotionStates
     /\ UNCHANGED <<backend, area, failures, policyVars>>

(* Every variable of both modules holds values of its kind: versions of    *)
(* the policy that are in force exist, refunds stay within the order.      *)
TypeOK ==
  /\ PromotionsTypeOK /\ PolicyTypeOK
  /\ area \in {"promotions", "policy"} /\ failures \in 0 .. MaxFailures

Spec == Init /\ [][Next]_vars /\ WF_vars(MinutelyJob)
=============================================================================
