----------------------------- MODULE Lifecycle -----------------------------
(***************************************************************************)
(* The proxy's listener and the settings it is opened with: Start, Stop    *)
(* and Restart (internal/proxy/proxy.go) under lifecycleMu, and SaveSettings *)
(* (internal/api/app.go), which persists, restarts, and rolls both back.   *)
(* The window's bindings may run several of these at once; SaveSettings    *)
(* itself holds no lock.  A bind may fail, and a shutdown may time out     *)
(* over a reply that is still streaming.                                   *)
(***************************************************************************)
EXTENDS Naturals, FiniteSets

CONSTANTS
  Callers,       \* concurrent calls of the window, the menu and the tray
  Settings,      \* what the operator may save: [port, bind, enforce]
  DefaultPort,
  MaxMishaps     \* bound: binds, shutdowns, reads and writes that fail

Binds == {s.bind : s \in Settings}

ASSUME LifecycleAssumption ==
  /\ IsFiniteSet(Callers) /\ MaxMishaps \in Nat /\ DefaultPort \in Nat
  /\ Settings \subseteq [port : Nat, bind : Binds, enforce : {"observe", "enforce"}]

VARIABLES
  stored,     \* the settings in the database
  proxy,      \* listener and activeSettings, the open sockets, the enforcement
  caller,     \* caller[c]: where the call is and what it remembers
  lock,       \* lifecycleMu: the holders, one at most
  mishaps,    \* how many failures there have been
  claim,      \* history: the last call to end told its caller that all is well
  wanted      \* history: started, and not stopped since

lifeVars == <<stored, proxy, caller, lock, mishaps, claim, wanted>>

\* The nil listener, and the zero ServerSettings.
Nowhere == [port |-> 0, ip |-> ""]
Unspecified == {"0.0.0.0", "::"}

\* What is read back: never without a port.
GetSettings == [stored EXCEPT !.port = IF @ = 0 THEN DefaultPort ELSE @]

\* What the proxy makes of it: never without an address either.
CurrentSettings(s) ==
  [s EXCEPT !.port = IF @ = 0 THEN DefaultPort ELSE @,
            !.bind = IF @ = "" THEN "0.0.0.0" ELSE @]

\* Where a listener for these settings ends up: a wildcard is served on the
\* dual-stack wildcard, a host name on the address it resolves to.
Resolved(bind) == IF bind = "localhost" THEN "127.0.0.1" ELSE bind
AddressOf(s) ==
  [port |-> s.port, ip |-> IF s.bind \in Unspecified THEN "::" ELSE Resolved(s.bind)]

ListenerMatchesSettings(l, s) ==
  /\ l.port = s.port
  /\ \/ l.ip \in Unspecified /\ s.bind \in Unspecified
     \/ l.ip = Resolved(s.bind)

Running == proxy.listener # Nowhere

Unset == [port |-> 0, bind |-> "", enforce |-> "observe"]
NoCall == [at |-> "idle", prev |-> Unset, next |-> Unset]

LifeInit ==
  /\ stored \in Settings
  /\ proxy = [listener |-> Nowhere, active |-> Nowhere, sockets |-> {},
              enforce |-> stored.enforce]
  /\ caller = [c \in Callers |-> NoCall]
  /\ lock = {} /\ mishaps = 0 /\ claim = TRUE /\ wanted = FALSE

---------------------------------------------------------------------------
(* The listener.  A restart has several ends, with the failures of each.   *)

Install(p, address) == [p EXCEPT !.listener = address, !.active = address,
                                 !.sockets = @ \cup {address}]
Detach(p) == [p EXCEPT !.listener = Nowhere, !.active = Nowhere]
Shut(p, listener) == [p EXCEPT !.sockets = @ \ {listener}]

End(p, ok, failures) == [proxy |-> p, ok |-> ok, failures |-> failures]

Mutant_RestoreAfterRestartFailure(p, old, failures) == {End(p, FALSE, failures)}

\* The old address is bound again, or that fails as well.
RestoreAfterRestartFailure(p, old, failures) ==
  {End(Install(p, old), FALSE, failures), End(p, FALSE, failures + 1)}

\* The same port: closed first, then bound again.  Either the old server does
\* not drain in three seconds, or the new bind fails.
RestartSamePort(p, s) ==
  LET closed == Shut(Detach(p), p.listener) IN
  {End(Install(closed, AddressOf(s)), TRUE, 0)}
    \cup RestoreAfterRestartFailure(closed, p.active, 1)

\* Another port: the new listener is installed before the old one is closed,
\* and stays when the old server does not drain.
RestartOtherPort(p, s) ==
  LET moved == Shut(Install(p, AddressOf(s)), p.listener) IN
  {End(moved, TRUE, 0), End(p, FALSE, 1)}
    \cup (IF p.listener = Nowhere THEN {} ELSE {End(moved, FALSE, 1)})

RestartEnds(p, s) ==
  CASE p.listener # Nowhere /\ ListenerMatchesSettings(p.listener, s) -> {End(p, TRUE, 0)}
    [] p.listener # Nowhere /\ ~ListenerMatchesSettings(p.listener, s)
                            /\ p.active.port = s.port -> RestartSamePort(p, s)
    [] OTHER -> RestartOtherPort(p, s)

---------------------------------------------------------------------------
Goes(c, place) == caller' = [caller EXCEPT ![c].at = place]
CallEnds(c) == caller' = [caller EXCEPT ![c] = NoCall]
Mishap(n) == mishaps + n <= MaxMishaps /\ mishaps' = mishaps + n

\* App.Startup and StartProxy.  A second start is a no-op.
Start(c) ==
  /\ caller[c].at = "idle" /\ lock = {} /\ ~Running
  /\ \/ /\ proxy' = Install(proxy, AddressOf(CurrentSettings(GetSettings)))
        /\ wanted' = TRUE /\ UNCHANGED mishaps
     \/ Mishap(1) /\ UNCHANGED <<proxy, wanted>>
  /\ UNCHANGED <<stored, caller, lock, claim>>

\* The listener is closed even when the handlers do not end in time.
Stop(c) ==
  /\ caller[c].at = "idle" /\ lock = {} /\ Running
  /\ proxy' = Shut(Detach(proxy), proxy.listener)
  /\ wanted' = FALSE
  /\ UNCHANGED <<stored, caller, lock, mishaps, claim>>

\* RestartProxy: the menu's and the tray's.
AskRestart(c) ==
  /\ caller[c].at = "idle" /\ Goes(c, "asked")
  /\ UNCHANGED <<stored, proxy, lock, mishaps, claim, wanted>>

\* SaveSettings and ResetSettings: the previous settings are read first.
ReadPrevious(c, s) ==
  /\ caller[c].at = "idle"
  /\ caller' = [caller EXCEPT ![c] = [at |-> "persist", prev |-> GetSettings, next |-> s]]
  /\ UNCHANGED <<stored, proxy, lock, mishaps, claim, wanted>>

Persist(c) ==
  /\ caller[c].at = "persist"
  /\ \/ /\ stored' = caller[c].next
        /\ caller' = [caller EXCEPT ![c].at = "restart", ![c].next = Unset]
        /\ UNCHANGED mishaps
     \/ Mishap(1) /\ CallEnds(c) /\ UNCHANGED stored
  /\ UNCHANGED <<proxy, lock, claim, wanted>>

\* How a call goes on from its restart.
Concluded(c, ok) ==
  IF caller[c].at = "restart" /\ ~ok
  THEN /\ caller' = [caller EXCEPT ![c].at = "rollback", ![c].next = Unset]
       /\ UNCHANGED claim
  ELSE CallEnds(c) /\ claim' = ok

\* Restart: the settings are read, and kept in next from then on; without them
\* nothing is touched.
ReadSettings(c) ==
  /\ caller[c].at \in {"asked", "restart", "restore"} /\ lock = {}
  /\ \/ /\ caller' = [caller EXCEPT ![c].next = CurrentSettings(GetSettings)]
        /\ lock' = {c} /\ UNCHANGED <<mishaps, claim>>
     \/ Mishap(1) /\ Concluded(c, FALSE) /\ UNCHANGED lock
  /\ UNCHANGED <<stored, proxy, wanted>>

\* ... and read once more for the enforcement, which falls back to "observe"
\* without failing the restart, before the listener is moved.
Rebind(c) ==
  /\ lock = {c}
  /\ \E lost \in {0, 1}, e \in RestartEnds(proxy, caller[c].next) :
       /\ Mishap(lost + e.failures)
       /\ proxy' = [e.proxy EXCEPT !.enforce = IF lost = 1 THEN "observe" ELSE GetSettings.enforce]
       /\ Concluded(c, e.ok)
       /\ wanted' = (wanted \/ e.ok)
  /\ lock' = {}
  /\ UNCHANGED stored

\* The previous settings are saved again, then restarted with.
RollBack(c) ==
  /\ caller[c].at = "rollback"
  /\ \/ stored' = caller[c].prev /\ Goes(c, "restore") /\ UNCHANGED <<mishaps, claim>>
     \/ Mishap(1) /\ CallEnds(c) /\ claim' = FALSE /\ UNCHANGED stored
  /\ UNCHANGED <<proxy, lock, wanted>>

LifeNext ==
  \E c \in Callers :
    \/ Start(c) \/ Stop(c) \/ AskRestart(c) \/ \E s \in Settings : ReadPrevious(c, s)
    \/ Persist(c) \/ ReadSettings(c) \/ Rebind(c) \/ RollBack(c)

LifeSpec == LifeInit /\ [][LifeNext]_lifeVars

---------------------------------------------------------------------------
LifeTypeOK ==
  /\ \/ stored \in Settings
     \/ \E s \in Settings : s.port = 0 /\ stored = [s EXCEPT !.port = DefaultPort]
  /\ proxy.listener = proxy.active /\ proxy.enforce \in {"observe", "enforce"}
  /\ \A c \in Callers :
       caller[c].at \in {"idle", "asked", "persist", "restart", "rollback", "restore"}
  /\ Cardinality(lock) <= 1 /\ lock \subseteq Callers
  /\ mishaps \in 0 .. MaxMishaps /\ claim \in BOOLEAN /\ wanted \in BOOLEAN

\* What the operator was told holds.  No socket is left open behind the
\* listener's back and none closed under it; when every call has ended and the
\* last one reported success, or that the previous settings were restored, the
\* proxy listens where the stored settings say and enforces what they say,
\* whoever overtook whom; and one failure alone never takes a proxy down that
\* was started and not stopped.
ListenerHonest ==
  /\ proxy.sockets = {proxy.listener} \ {Nowhere}
  /\ (claim /\ \A c \in Callers : caller[c].at = "idle") =>
       /\ Running => ListenerMatchesSettings(proxy.listener, CurrentSettings(GetSettings))
       /\ proxy.enforce # stored.enforce => proxy.enforce = "observe" /\ mishaps > 0
  /\ wanted /\ mishaps <= 1 => Running
=============================================================================
