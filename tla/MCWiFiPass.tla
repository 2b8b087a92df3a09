----------------------------- MODULE MCWiFiPass -----------------------------
(* Small instances of WiFiPass for TLC. *)
EXTENDS WiFiPass, TLC

(* Passes, sessions and requests are interchangeable; no run that checks a *)
(* liveness property uses this.                                            *)
Symmetric == Permutations(Passes) \cup Permutations(Sessions)
               \cup Permutations(Lists) \cup Permutations(Viewers)

=============================================================================
