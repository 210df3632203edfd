----------------------------- MODULE ProbeGate -----------------------------
(***************************************************************************)
(* What a circuit breaker promises its callers, without generations,       *)
(* counters or clocks.  The gate is closed (traffic flows), open (nobody   *)
(* passes) or probing (exactly one request is out to test the provider).   *)
(* Every request holds at most one permit:                                 *)
(*                                                                         *)
(*   normal   it was admitted in the current closed period;                *)
(*   probe    it is the one request out while the gate is probing;         *)
(*   stale    it was admitted before the gate last moved, and whatever it  *)
(*            reports is ignored.                                          *)
(*                                                                         *)
(* CircuitBreaker implements this gate (proved as Implementation in        *)
(* CircuitBreakerProofs), and so does every provider's and every route     *)
(* mode's breaker under the forwarding loops of Failover (proved as        *)
(* BreakersGate in FailoverProofs).                                        *)
(***************************************************************************)
CONSTANT Requests

VARIABLES mode, permit

vars == <<mode, permit>>

Mode == {"closed", "open", "probing"}
Permit == {"none", "normal", "probe", "stale"}

\* Earlier traffic may have opened it.
Init ==
  /\ mode \in {"closed", "open"}
  /\ permit = [r \in Requests |-> "none"]

Give(r, p) == permit' = [permit EXCEPT ![r] = p]

\* r gives its permit back; the other permits of the closed period go stale.
Revoke(r) ==
  permit' = [q \in Requests |->
               IF q = r THEN "none"
               ELSE IF permit[q] = "normal" THEN "stale" ELSE permit[q]]

Admit(r) ==
  /\ mode = "closed" /\ permit[r] = "none"
  /\ Give(r, "normal")
  /\ UNCHANGED mode

AdmitProbe(r) ==
  /\ mode = "open" /\ permit[r] = "none"
  /\ mode' = "probing"
  /\ Give(r, "probe")

Return(r) ==
  /\ permit[r] \in {"normal", "stale"}
  /\ Give(r, "none")
  /\ UNCHANGED mode

Trip(r) ==
  /\ mode = "closed" /\ permit[r] = "normal"
  /\ mode' = "open"
  /\ Revoke(r)

EndProbe(r) ==
  /\ mode = "probing" /\ permit[r] = "probe"
  /\ mode' \in {"closed", "open"}
  /\ Give(r, "none")

Next ==
  \E r \in Requests :
    Admit(r) \/ AdmitProbe(r) \/ Return(r) \/ Trip(r) \/ EndProbe(r)

Spec == Init /\ [][Next]_vars
=============================================================================
