------------------------------- MODULE Gateway -------------------------------
(***************************************************************************)
(* A request of either kind, from the client's first fragment to the last  *)
(* event of the reply: RequestPath finds the candidate and converts the    *)
(* request; when the client asked for a stream and the upstream answers    *)
(* with one, the reply is StreamRelay's, between the dialects the matcher  *)
(* chose (internal/proxy/proxy.go, forwardWithFailover into                *)
(* streamAttempt).                                                         *)
(***************************************************************************)
EXTENDS RequestPath, StreamRelay

gatewayVars == <<pathVars, vars>>

\* The relay's dialects are not chosen before the reply starts.
GatewayInit ==
  /\ PathInit
  /\ RelayBetween("chat", "chat")

RequestStep ==
  /\ PathNext
  /\ UNCHANGED vars

\* The candidate answers 200 with an event stream; its converters are made
\* anew for the attempt.
HandOver ==
  /\ stage = "sent" /\ query.stream
  /\ draft.dialect \in Clients /\ Head(cands).to \in Upstreams
  /\ up' = Head(cands).to /\ client' = draft.dialect
  /\ conv' = Converters(Head(cands).to, draft.dialect)
  /\ stage' = "relay" /\ cands' = <<>> /\ Forget
  /\ UNCHANGED <<answer, src, unread, begun, pending, committed, acc, got, failure,
                 verdict>>

RelayStep ==
  /\ stage = "relay" /\ Next
  /\ UNCHANGED pathVars

GatewayNext == RequestStep \/ HandOver \/ RelayStep

GatewaySpec == GatewayInit /\ [][GatewayNext]_gatewayVars
===============================================================================
